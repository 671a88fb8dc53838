SPECIFICATION FairSpec
CONSTANTS
    Client = {c1, c2, c3}
    Sizes = {10, 96, 160}
    NoClient = none
    Unit = 16
    HeaderSize = 2
    PageSize = 6
    heapStart = 4
    pageCount = 2
    Supplies = {0, 20}
INVARIANTS
    HeapIsTiled
    NoAdjacentFree
    NoLeak
PROPERTIES
    OwnershipSpec
    MallocReturns
CHECK_DEADLOCK FALSE
