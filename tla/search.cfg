SPECIFICATION Spec
CONSTANTS
    root = root
    agent = agent
    slash = slash
    w = w
    s = s
    x = x
    h1 = h1
    h2 = h2
    hb = hb
    Slash = slash
    Principals <- MCPrincipals
    Paths <- MCPaths
    Clients = {c1}
    Asks <- MCAsks
    InitLog <- MCInitLog
    MaxRows = 4
    Creators = {}
    DisplayNames = {}
    Transactional = TRUE
    Searchers = {s1}
    Queries <- MCQueries
    Hashes = {h1, h2, hb}
    MatchingHashes = {h1, h2}
    BinaryHashes = {hb}
    Commits <- MCCommits
    InitFiles <- MCInitFiles
    NoText = NoText
    MaxVersions = 2
    MaxReads = 1
CONSTRAINT RowsSettled
INVARIANTS
    ResultsWereVisible
    CompleteOrRefused
    ReindexRepairs
CHECK_DEADLOCK FALSE
