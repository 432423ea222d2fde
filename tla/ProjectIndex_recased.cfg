SPECIFICATION Spec
CONSTANTS
    x1 = x1
    x2 = x2
    fa = fa
    fb = fb
    long = long
    short = short
    blank = blank
    head = head
    tail = tail
    Absent = Absent
    NoVersion = NoVersion
    NoFile = NoFile
    Indexer <- OneIndexer
    File <- OneFile
    Version <- RecasedVersions
    Part <- TwoParts
    Parts <- RecasedParts
    Digest <- RecasedDigest
    PartHash <- RecasedHash
    PartLines <- RecasedLines
    MaxRuns = 2
    MaxEdits = 1
    MayCrash = FALSE
    MayForget = FALSE
    MayMerge = FALSE
CHECK_DEADLOCK FALSE
INVARIANTS
    ChangedIsRechunked
