\* Two threads send and create over a reliable stream with room for one message.
SPECIFICATION FairSpec
CONSTANTS
    chatter = chatter
    scan = scan
    ask = ask
    answer = answer
    node = node
    topic = topic
    longTopic = longTopic
    server = server
    caller = caller
    graph = graph
    Senders = {chatter, scan, ask, answer}
    Named = {node, topic, longTopic, server, caller, graph}
    Role <- Roles
    StreamOf <- StreamsOf
    KindOf <- KindsOf
    NameLen <- NameLens
    TypeLen <- TypeLens
    NodeMax = 60
    TopicMax = 60
    TypeMax = 100
    RefMax = 100
    Threads = {t1, t2}
    History = 1
    MaxCalls = 2
    Nobody = Nobody
INVARIANTS
    TypeOK
    NothingHalfWritten
    OkDelivered
    RequestNamesItsEntity
PROPERTY
    CallsReturn
CHECK_DEADLOCK FALSE
