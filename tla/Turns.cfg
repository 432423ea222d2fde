SPECIFICATION Spec
CONSTANTS
    Project <- MCProject
    SnapshotInterval = 2
    StabilityWindow = 2
    Fact <- MCFact
    Text <- MCText
    Similarity <- MCSimilarity
    Client = {"entry", "session"}
    Sessions = {"session"}
    Requests <- MCRequests
    InitialMemories <- MCInitialMemories
    InitialPolicies <- MCInitialPolicies
    MaxTurns = 2
    MaxFailures = 1
    MaxRollbacks = 1
INVARIANTS
    TypeOK
    TraceIsAWalk
    SuppressedOnlyInProfile
    SafeModeKeepsSensitiveOut
    SequentialStoresKeepApart
    WritebackIsWhole
    VersionsAreDistinct
    GlobalIsSumOfProjects
PROPERTIES
    SaveExtendsTheLog
    TurnAdvances
CHECK_DEADLOCK FALSE
