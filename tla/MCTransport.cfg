SPECIFICATION TransportSpec
CONSTANTS
    Buffers = {b1, b2}
    AttemptCount = 1
    MaxNumber = 2
    OthersNumbers = {0, 1}
INVARIANTS PoolExact
PROPERTIES TimerKnowsAnswer RequestsEnd
CHECK_DEADLOCK FALSE
