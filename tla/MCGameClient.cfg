SPECIFICATION PlaySpec
CONSTANTS
    c1 = c1
    c2 = c2
    n1 = n1
    west = west
    p1 = p1
    Proxy = Proxy
    Balancer = Balancer
    Nowhere = Nowhere
    OneHost = TRUE
    NoPassword = NoPassword
    Clients = {c1, c2}
    Nodes = {n1}
    Positions = {west}
    Logins = {1}
    Passwords = {p1}
    Incomplete = {}
    Broken = {}
    Watched = {"LoginAnswer", "InitializePositionAnswer", "UnitActionAnswer", "LogoutAnswer"}
    World = {west}
    Zone <- MCZone
    Route <- MCRoute
    Credentials <- MCCredentials
    RelaysProxy = TRUE
    Restarts = FALSE
    GameTester = 1
    TesterPassword = p1
    StartPosition = west
    Calls <- MCCalls
CHECK_DEADLOCK FALSE
INVARIANT PlayersReallyPlay
PROPERTY LeavesWhenAsked
