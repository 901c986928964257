\* The final report: "sent" appears although the save before it was refused.
SPECIFICATION SessionSpec
CONSTANTS
    Mutations = {m1}
    Answers = {hint}
    Required = {m1}
    NoAttempt = NoAttempt
    MaxQueue = 1
    MaxResumes = 1
    MaxLaunches = 1
PROPERTY SubmittedMeansStored
CHECK_DEADLOCK FALSE
