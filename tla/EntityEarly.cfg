\* A creation fails before its topic, in a slot that was used before.
SPECIFICATION Spec
CONSTANTS
    Nodes = {n1}
    Publishers = {p1}
    Subscriptions = {s1}
    Services = {}
    Clients = {}
    Topics = {k1, k2}
    Threads = {t1}
    Nobody = Nobody
    ReliableCreate = TRUE
    ReliableDestroy = TRUE
    EarlyFailures = TRUE
INVARIANT
    PutsAllocatedTopics
CHECK_DEADLOCK FALSE
