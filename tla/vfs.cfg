SPECIFICATION Spec
CONSTANTS
    a = a
    b = b
    h1 = h1
    h2 = h2
    Empty = Empty
    NoCas = NoCas
    Requests = {r1, r2, r3}
    Paths <- MCPaths
    Hashes <- MCHashes
    TextHashes <- MCTextHashes
    InitVersions <- MCInitVersions
    InitFiles <- MCInitFiles
    Calls <- AllCalls
    MaxWriteRetries = 2
SYMMETRY RequestSymmetry
INVARIANTS
    TypeOK
    PointerIsLatest
    CasWritesOnTop
    AckedVersionKept
    CollisionMeansContention
    ContentResolvable
    EveryChangeAudited
PROPERTIES
    ImplementsHistory
CHECK_DEADLOCK FALSE
