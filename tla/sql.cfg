SPECIFICATION FairSpec
CONSTANTS
    p = p
    h1 = h1
    h2 = h2
    h3 = h3
    t1 = t1
    t2 = t2
    t3 = t3
    Hashes = {h1, h2, h3}
    Tasks = {t1, t2, t3}
    Units <- MCUnits
    Loads <- MCLoads
    Contents <- MCContents
    Tokens <- MCTokens
    InitTables <- MCInitTables
    NoRow <- MCNoRow
    Nobody = Nobody
    MaxDeaths = 1
INVARIANTS
    IndexesAgree
    CancellationCostsOneFailure
PROPERTIES
    ImplementsAtomicStore
    EveryOperationEnds
CHECK_DEADLOCK FALSE
