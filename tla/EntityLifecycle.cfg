\* Two threads create and destroy entities of three kinds on two nodes, over
\* reliable streams.
SPECIFICATION Spec
CONSTANTS
    Nodes = {n1, n2}
    Publishers = {p1}
    Subscriptions = {s1}
    Services = {}
    Clients = {c1}
    Topics = {k1, k2}
    Threads = {t1, t2}
    Nobody = Nobody
    ReliableCreate = TRUE
    ReliableDestroy = TRUE
    EarlyFailures = FALSE
SYMMETRY Symmetric
INVARIANTS
    TypeOK
    TopicsHeld
    TopicsSuffice
    NodeOutlivesEntities
    LiveOnAgent
    PutsAllocatedTopics
PROPERTIES
    OkMeansDeleted
    ImplementsCatalog
CHECK_DEADLOCK FALSE
