SPECIFICATION RegistrySpec
CONSTANTS
    Capacity = 4
    PageSize = 2
INVARIANTS
    FreeListInv
    AssertsHold
PROPERTY
    ImplementsAllocator
