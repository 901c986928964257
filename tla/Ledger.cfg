SPECIFICATION MCSpec
CONSTANTS
    OrganizationId <- MCOrganizationIds
    ActorId <- MCActorIds
    AssetId <- MCAssets
    AnchorId <- MCAnchors
    Organizations <- MCOrganizations
    Actors <- MCActors
    Submittable <- RecallCommands
    MaxTransactionsPerBlock = 2
    BlockCommitMode = "STAGE_BOUNDARY"
    MaxTransactions = 7
    MaxRejected = 1
    Goods <- MCAssets
    MaxEdges = 5
    Quantities = {100, 1000}
    ChainBlockSize = 2
    MaxHashed = 5
INVARIANTS
    RecallReachesDescendants
    StateMatchesRecord
    VisitedIsReachable
    EditIsLocated
PROPERTIES
    RecalledStaysFrozen
    NothingIsForgotten
    WalkReturns

CHECK_DEADLOCK FALSE
