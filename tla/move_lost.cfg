SPECIFICATION Spec
CONSTANTS
    a = a
    b = b
    h1 = h1
    h2 = h2
    Empty = Empty
    NoCas = NoCas
    Requests = {r1, r2}
    Paths <- MCPaths
    Hashes <- MCHashes
    TextHashes <- MCTextHashes
    InitVersions <- MCInitVersions
    InitFiles <- MCInitFiles
    Calls <- MoveDstCalls
    MaxWriteRetries = 2
SYMMETRY RequestSymmetry
INVARIANT MovedVersionKept
CHECK_DEADLOCK FALSE
