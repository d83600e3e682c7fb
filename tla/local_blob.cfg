SPECIFICATION Spec
CONSTANTS
    Calls = {c1, c2, c3}
    NoFile = NoFile
    Chunks = 2
    Backends <- LocalOnly
SYMMETRY CallSymmetry
INVARIANT StoredBlobReadable
CHECK_DEADLOCK FALSE
