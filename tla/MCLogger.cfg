SPECIFICATION LoggerSpec
CONSTANTS
    Capacity = 4
    PageSize = 2
    MaxMessages = 5
    InvalidIndex = InvalidIndex
INVARIANT QueueExact
PROPERTIES
    ImplementsLog
    EveryMessageWritten
CHECK_DEADLOCK FALSE
