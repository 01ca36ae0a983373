\* An entity is destroyed while a callback walks the list.
SPECIFICATION Spec
CONSTANTS
    Items <- MCItems
    StaticItems = {i1, i2}
    HeapItems = {}
    MemOf <- MCMemOf
    Static = {i1, i2}
    Heap = {}
    Threads = {t1, t2}
    NULL = NULL
    DynamicAllowed = FALSE
    PutDuringWalk = TRUE
    MaxOps = 6
SYMMETRY Symmetric
INVARIANT
    WalkStaysAllocated
CHECK_DEADLOCK FALSE
