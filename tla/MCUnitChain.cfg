SPECIFICATION UnitSpec
CONSTANTS
    Tokens = {0, 1, 2}
    PageSize = 2
    MaxUnits = 4
    InvalidIndex = InvalidIndex
INVARIANTS LinksAgree WalkerOnPage
PROPERTIES ImplementsSequence WalkTerminates EachUnitOnce
CHECK_DEADLOCK FALSE
