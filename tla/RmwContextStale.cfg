\* One context, shut down and started again.
SPECIFICATION Spec
CONSTANTS
    Contexts = {c1}
    Sessions = {s1}
    Subscriptions = {r1, r2}
    Nobody = Nobody
    Graph = FALSE
    MaxIds = 2
    MaxSent = 1
    MaxBuffers = 1
PROPERTY
    ForItsReader
CHECK_DEADLOCK FALSE
