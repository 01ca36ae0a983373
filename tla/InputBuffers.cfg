\* A keep-last subscription (depth 2), a keep-all service and a keep-last client
\* (depth 1) share two buffers; two threads take.
SPECIFICATION Spec
CONSTANTS
    a = a
    b = b
    c = c
    Entities = {a, b, c}
    Slots = {s1, s2}
    Threads = {t1, t2}
    Kind <- KindMixed
    History <- HistoryMixed
    Depth <- DepthMixed
    QosLifespan <- LifespanMixed
    DefaultLifespan = 1
    IntMax = 100
    DistinctStamps = TRUE
    Resync = FALSE
    MaxArrivals = 3
    MaxTime = 2
    Idle = Idle
SYMMETRY Symmetric
INVARIANTS
    TypeOK
    DepthRespected
    ArrivalOrder
    NothingExpiredToTake
PROPERTIES
    TakesInOrder
    ArrivalsIsolated
    ImplementsQueues
CHECK_DEADLOCK FALSE
