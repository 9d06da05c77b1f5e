SPECIFICATION Spec
CONSTANTS
    c1 = c1
    c2 = c2
    n1 = n1
    n2 = n2
    west = west
    east = east
    edge = edge
    out = out
    p1 = p1
    p2 = p2
    Proxy = Proxy
    Balancer = Balancer
    Nowhere = Nowhere
    OneHost = TRUE
    NoPassword = NoPassword
    Clients = {c1}
    Nodes = {n1}
    Positions = {west}
    Logins = {1, 2}
    Passwords = {p1, p2}
    Incomplete = {}
    Broken = {2}
    Watched = {}
    World <- MCWorld
    Zone <- MCZone
    Route <- MCRoute
    Credentials <- MCOneClient
    RelaysProxy = TRUE
    Restarts = TRUE
INVARIANTS
    SessionsMatchUsers
    CountMatchesSessions
PROPERTY
    RestartKeepsUsers
