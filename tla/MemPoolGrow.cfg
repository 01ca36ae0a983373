\* Two threads share a pool that grows.
SPECIFICATION Spec
CONSTANTS
    Items <- MCItems
    StaticItems = {i1}
    HeapItems = {d1}
    MemOf <- MCMemOf
    Static = {i1}
    Heap = {d1}
    Threads = {t1, t2}
    NULL = NULL
    DynamicAllowed = TRUE
    PutDuringWalk = FALSE
    MaxOps = 6
SYMMETRY Symmetric
INVARIANT
    AnyThreadCanGet
CHECK_DEADLOCK FALSE
