SPECIFICATION Spec
CONSTANTS
    x1 = x1
    x2 = x2
    fa = fa
    fb = fb
    long = long
    short = short
    blank = blank
    head = head
    tail = tail
    Absent = Absent
    NoVersion = NoVersion
    NoFile = NoFile
    Indexer <- OneIndexer
    File <- TwoFiles
    Version <- SharedVersions
    Part <- TwoParts
    Parts <- SharedParts
    Digest <- SharedDigest
    PartHash <- SharedHash
    PartLines <- Lines
    MaxRuns = 3
    MaxEdits = 2
    MayCrash = FALSE
    MayForget = FALSE
    MayMerge = TRUE
SYMMETRY FileSymmetry
CHECK_DEADLOCK FALSE
INVARIANTS
    ChunksAreOneVersion
    ActiveIsLinked
    ArchivedLinkIsALeak
