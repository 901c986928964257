\* Endorsements in any order; and the journey of a learner with its journal, and
\* with a package's session.
CONSTANTS
    Organizations = {"producer", "processor", "logistics"}
    Assets = {"batch"}
    Requests <- MCRequests
    Policies <- MCPolicies
    Attempts <- AllAttempts
    MaxTries = 2
    Mutations = {m1, m2}
    Answers = {hint}
    Required = {m1}
    NoAttempt = NoAttempt
    MaxQueue = 1
    MaxResumes = 1
    MaxLaunches = 2
SPECIFICATION MCSpec
INVARIANTS
    CommittedAsEndorsed
    OneTransactionPerCommand
    StoredAttemptResumes
    PublishedIsStored
    SavedMeansStored
    GradeIsOfStoredAttempt
PROPERTIES
    AttemptFinishes
    SubmittedIsAnswered
