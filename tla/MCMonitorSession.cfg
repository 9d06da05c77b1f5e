\* Two connections and a click.
CONSTANTS
    MaxConnections = 2
    MaxClicks = 1
    MaxRepeats = 0
SPECIFICATION SessionSpec
INVARIANTS
    PatienceIsSafe
    OthersToldToClose
PROPERTY
    ClosedThreadsStop
CHECK_DEADLOCK FALSE
