SPECIFICATION Spec
CONSTANTS
    x1 = x1
    x2 = x2
    fa = fa
    fb = fb
    long = long
    short = short
    blank = blank
    head = head
    tail = tail
    Absent = Absent
    NoVersion = NoVersion
    NoFile = NoFile
    Indexer <- OneIndexer
    File <- TwoFiles
    Version <- SharedVersions
    Part <- TwoParts
    Parts <- SharedParts
    Digest <- SharedDigest
    PartHash <- SharedHash
    PartLines <- Lines
    MaxRuns = 2
    MaxEdits = 1
    MayCrash = TRUE
    MayForget = TRUE
    MayMerge = FALSE
SYMMETRY FileSymmetry
CHECK_DEADLOCK FALSE
INVARIANTS
    TypeOK
    VisitedIsIndexed
    TextsAreActiveOnce
PROPERTIES
    EndsWithoutOrphans
