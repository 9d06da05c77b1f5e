SPECIFICATION MonitorSpec
CONSTANTS
    NodeSizeMin = 1
    NodeSizeMax = 4
    World <- MCWorld
    MaxRequests = 2
    MaxProxies = 2
    MaxRefreshes = 1
    MaxLost = 1
    AskedCells <- MCAskedCells
    Patient = TRUE
CHECK_DEADLOCK FALSE
INVARIANTS
    CrashNeedsLoss
PROPERTIES
    ShowsZones
    ShowsProxies
    ShowsNeighbors
