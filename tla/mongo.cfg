SPECIFICATION MongoGcSpec
CONSTANTS
    a = a
    b = b
    h1 = h1
    h2 = h2
    Empty = Empty
    NoCas = NoCas
    Requests = {r1, r2, r3}
    Paths <- MCPaths
    Hashes <- MCHashes
    TextHashes = {}
    InitVersions <- MCInitVersions
    InitFiles <- MCInitFiles
    Calls <- MongoCalls
    MaxWriteRetries = 2
    MaxRecent = 2
    MaxGcRuns = 1
CONSTRAINT TwoBesideGc
SYMMETRY RequestSymmetry
INVARIANTS
    PointerBacked
    OrphanMeansCrash
    MoveInsertsOnce
CHECK_DEADLOCK FALSE
