SPECIFICATION GcSpec
CONSTANTS
    a = a
    b = b
    h1 = h1
    h2 = h2
    h3 = h3
    Empty = Empty
    NoCas = NoCas
    Requests = {r1, r2}
    Paths <- MCPaths
    Hashes <- MCHashes
    TextHashes <- MCTextHashes
    InitVersions <- MCInitVersions
    InitFiles <- MCInitFiles
    Calls <- GcCalls
    MaxWriteRetries = 2
    MaxRecent = 2
    MaxGcRuns = 2
SYMMETRY RequestSymmetry
INVARIANT ReferencedTextKept
CHECK_DEADLOCK FALSE
