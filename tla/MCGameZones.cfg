SPECIFICATION Spec
CONSTANTS
    c1 = c1
    c2 = c2
    n1 = n1
    n2 = n2
    west = west
    east = east
    edge = edge
    out = out
    p1 = p1
    p2 = p2
    Proxy = Proxy
    Balancer = Balancer
    Nowhere = Nowhere
    OneHost = TRUE
    NoPassword = NoPassword
    Clients = {c1, c2}
    Nodes = {n1, n2}
    Positions = {west, east, edge, out}
    Logins = {1}
    Passwords = {p1, p2}
    Incomplete = {1}
    Broken = {}
    Watched = {}
    World <- MCWorld
    Zone <- MCZone
    Route <- MCRoute
    Credentials <- MCTwoClients
    RelaysProxy = TRUE
    Restarts = TRUE
INVARIANTS
    OneUnitPerToken
PROPERTIES
    SessionNeverMoves
    TokenOnlyForPassword
