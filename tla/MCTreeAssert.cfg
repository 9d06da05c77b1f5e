SPECIFICATION Spec
CONSTANTS
    NodeSizeMin = 1
    NodeSizeMax = 4
    World <- MCWorld
    MaxRequests = 6
CHECK_DEADLOCK FALSE
INVARIANT
    AssertsHold
