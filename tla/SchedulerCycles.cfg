SPECIFICATION Spec
CONSTANTS
    Body <- MCBody
    NoBody = "none"
    Canonical <- MCCanonical
    a = a
    b = b
    Session = {a, b}
    InitialStates <- MCInitialStates
    Stores <- MCStores
    Means <- MCMeans
    ConflictTraces <- MCConflictTraces
    Loads <- MCLoads
    Ages = {60}
    MaxLooks = 4
    MaxUses = 1
    MaxDays = 60
    MaxFailures = 1
SYMMETRY Symmetric
INVARIANTS
    TypeOK
    CompressionIsNotStarved
    NoMixedPlan
    ContradictionsAreAttended
    TaskIsAttendedFirst
PROPERTIES
    SaveKeepsLearning
    SafetyNeverFalls
CHECK_DEADLOCK FALSE
