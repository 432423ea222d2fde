SPECIFICATION Spec
CONSTANTS
    c1 = c1
    c2 = c2
    m1 = m1
    m2 = m2
    m3 = m3
    k1 = k1
    project = project
    everything = everything
    NoSession = NoSession
    NoPair = NoPair
    ProjectScope = project
    Client <- TwoClients
    Mem <- ThreeMems
    Session <- OneSession
    Scope <- OneScope
    Contradicts <- TwoPairs
    MaxCalls = 2
    MayTrim = FALSE
    MayCrash = TRUE
SYMMETRY PairSymmetry
INVARIANTS
    TypeOK
    SeenIsWhatWasInjected
    OpenOnce
    NoRepeats
