SPECIFICATION FairSpec
CONSTANTS
    c1 = c1
    c2 = c2
    m1 = m1
    m2 = m2
    m3 = m3
    x1 = x1
    p1 = p1
    p2 = p2
    NoKey = NoKey
    NoCand = NoCand
    NoProject = NoProject
    AllProjects = AllProjects
    Client <- TwoClients
    Project <- OneProject
    Key <- OneKey
    Cand <- OneCand
    CandKey <- CandFact
    MemId <- ExpiryId
    KeyOf <- ExpiryKey
    InitStatus <- ExpiryStatus
    Importance <- PairImportance
    HasTtl <- Lasting
    MayCrash = FALSE
PROPERTIES
    ActiveGetsVector
    AcceptDecides
