\* Three static items and two from the heap, two threads: gets, puts and
\* unlocked walks interleave.
SPECIFICATION Spec
CONSTANTS
    Items <- MCItems
    StaticItems = {i1, i2, i3}
    HeapItems = {d1, d2}
    MemOf <- MCMemOf
    Static = {i1, i2, i3}
    Heap = {d1, d2}
    Threads = {t1, t2}
    NULL = NULL
    DynamicAllowed = TRUE
    PutDuringWalk = FALSE
    MaxOps = 12
SYMMETRY Symmetric
INVARIANTS
    TypeOK
    WellFormed
    HeapAccounted
    WalkStaysAllocated
    WalkMissesNothing
PROPERTY
    ImplementsLists
CHECK_DEADLOCK FALSE
