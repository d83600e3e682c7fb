SPECIFICATION Spec
CONSTANTS
    doc = doc
    cwd = cwd
    p = p
    q = q
    r = r
    Files = {doc}
    Cwd = cwd
    Pieces = {p, q, r}
    Data <- MCData
    Others <- MCOthers
    Providers = {"monty", "just-bash", "unknown"}
    Grants <- MCGrants
    Starts <- MCStarts
    Calls = {k1, k2}
    MaxOperations = 3
    MaxReadBytes = 1
    MaxWriteBytes = 2
    MaxNumber = 4
SYMMETRY Interchangeable
INVARIANTS
    BudgetBoundsEffects
    LongReadsRaced
    ReportedErrorStoppedCode
    LateEffectMeansTimeout
PROPERTIES
    AppendDropsOnlyRaced
CHECK_DEADLOCK FALSE
