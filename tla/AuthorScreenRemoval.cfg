SPECIFICATION Spec
CONSTANTS
    Typed <- MCTyped
    HistoryLimit = 2
    Starts <- MCStarts
    Templates <- MCTemplates
    Files <- MCFiles
    MaxInstances = 2
PROPERTY RemovalIsNoRename
CHECK_DEADLOCK FALSE
