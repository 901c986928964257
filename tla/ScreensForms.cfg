\* The learner alone, with a choice of records to request.
SPECIFICATION FormsSpec
CONSTANTS
    Typed <- MCTyped
    HistoryLimit = 2
    Starts <- MCStarts
    Templates <- MCTemplates
    Files <- MCFiles
    MaxInstances = 2
    Assignments = {"case"}
    Script <- FormsScript
    MaxRuns = 1
INVARIANT SentFitsShown
CHECK_DEADLOCK FALSE
