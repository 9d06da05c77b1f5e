SPECIFICATION Spec
CONSTANTS
    NodeSizeMin = 1
    NodeSizeMax = 8
    World <- MCWorld
    MaxRequests = 4
CHECK_DEADLOCK FALSE
INVARIANTS
    TreeTypeOK
    ZonesTile
    NoZoneLeftBehind
    SidesKnown
    SplitsKeepAsserts
