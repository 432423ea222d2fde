SPECIFICATION Spec
CONSTANTS
    c1 = c1
    c2 = c2
    m1 = m1
    m2 = m2
    m3 = m3
    k1 = k1
    project = project
    everything = everything
    NoSession = NoSession
    NoPair = NoPair
    ProjectScope = project
    Client <- OneClient
    Mem <- TwoMems
    Session <- OneSession
    Scope <- TwoScopes
    Contradicts <- OnePair
    MaxCalls = 3
    MayTrim = TRUE
    MayCrash = FALSE
INVARIANTS
    SeenWasPrinted
