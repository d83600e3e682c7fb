SPECIFICATION Spec
CONSTANTS
    Calls = {c1, c2, c3, c4}
    NoFile = NoFile
    Chunks = 2
    Backends <- BothBackends
SYMMETRY CallSymmetry
INVARIANTS
    TornMeansWriter
    ObjectReadable
    DeletedIsGone
CHECK_DEADLOCK FALSE
