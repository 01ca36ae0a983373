\* Two messages may arrive within one reading of the clock.
SPECIFICATION Spec
CONSTANTS
    a = a
    b = b
    c = c
    Entities = {a, b, c}
    Slots = {s1, s2}
    Threads = {t1}
    Kind <- KindMixed
    History <- HistoryMixed
    Depth <- DepthMixed
    QosLifespan <- LifespanMixed
    DefaultLifespan = 1
    IntMax = 100
    DistinctStamps = FALSE
    Resync = FALSE
    MaxArrivals = 3
    MaxTime = 1
    Idle = Idle
SYMMETRY Symmetric
PROPERTY
    TakesInOrder
CHECK_DEADLOCK FALSE
