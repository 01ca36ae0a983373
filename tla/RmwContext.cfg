\* Two contexts come and go over two sessions; their subscriptions share two
\* pool items.
SPECIFICATION Spec
CONSTANTS
    Contexts = {c1, c2}
    Sessions = {s1, s2}
    Subscriptions = {r1, r2}
    Nobody = Nobody
    Graph = TRUE
    MaxIds = 2
    MaxSent = 2
    MaxBuffers = 1
SYMMETRY Symmetric
INVARIANTS
    TypeOK
    SessionsHeld
    SubscriptionsOnSession
PROPERTY
    RoutedAmongCreated
CHECK_DEADLOCK FALSE
