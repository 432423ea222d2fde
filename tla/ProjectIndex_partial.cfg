SPECIFICATION Spec
CONSTANTS
    x1 = x1
    x2 = x2
    fa = fa
    fb = fb
    long = long
    short = short
    blank = blank
    head = head
    tail = tail
    Absent = Absent
    NoVersion = NoVersion
    NoFile = NoFile
    Indexer <- OneIndexer
    File <- OneFile
    Version <- LongVersions
    Part <- TwoParts
    Parts <- LongParts
    Digest <- LongDigest
    PartHash <- SharedHash
    PartLines <- Lines
    MaxRuns = 2
    MaxEdits = 0
    MayCrash = TRUE
    MayForget = FALSE
    MayMerge = FALSE
CHECK_DEADLOCK FALSE
INVARIANTS
    LongFileIsWhole
