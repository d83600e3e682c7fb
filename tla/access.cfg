SPECIFICATION AccessSpec
CONSTANTS
    root = root
    agent = agent
    slash = slash
    w = w
    s = s
    x = x
    Slash = slash
    Principals <- MCPrincipals
    Paths <- MCPaths
    Clients = {c1, c2}
    Asks <- MCAsks
    InitLog <- MCInitLog
    MaxRows = 4
    Creators = {n1, n2}
    DisplayNames = {team}
    Transactional = FALSE
SYMMETRY MCSymmetry
INVARIANTS
    AccessTypeOK
    AuthorityTraced
    MostSpecificDecides
    EntityNamed
CHECK_DEADLOCK FALSE
