\* The author's screen, or the learner's.
SPECIFICATION MCSpec
CONSTANTS
    Typed <- MCTyped
    HistoryLimit = 2
    Starts <- MCStarts
    Templates <- MCTemplates
    Files <- MCFiles
    MaxInstances = 2
    Assignments = {"case", "short"}
    Script <- MCScript
    MaxRuns = 2
INVARIANTS
    ReferencesResolve
    SavedDraftIsStored
    FeedbackIsOfTheRunShown
PROPERTIES
    ReferencesFollow
    DraftIsSavedAtLast
    AcceptedAsShown
    ScreenComesBack
CHECK_DEADLOCK FALSE
