SPECIFICATION Spec
CONSTANTS
    c1 = c1
    c2 = c2
    m1 = m1
    m2 = m2
    m3 = m3
    x1 = x1
    p1 = p1
    p2 = p2
    NoKey = NoKey
    NoCand = NoCand
    NoProject = NoProject
    AllProjects = AllProjects
    Client <- TwoClients
    Project <- TwoProjects
    Key <- TwoKeys
    Cand <- NoCands
    CandKey <- NoCandKeys
    MemId <- SharedId
    KeyOf <- SharedKey
    InitStatus <- SharedStatus
    Importance <- SharedImportance
    HasTtl <- SharedTtl
    MayCrash = TRUE
SYMMETRY SharedSymmetry
INVARIANTS
    VectorsHaveRows
PROPERTIES
    NeverReactivated
    ForgottenReturnsOvertaken
