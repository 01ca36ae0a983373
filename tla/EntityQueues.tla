---------------------------- MODULE EntityQueues ----------------------------
(***************************************************************************)
(* What the input side of the middleware promises the application: every   *)
(* subscription, service and client owns a FIFO queue of the messages that *)
(* arrived for it, bounded by its history QoS; all queues share Capacity   *)
(* buffers; a message older than the lifespan of its queue may be thrown   *)
(* away, never a younger one.  InputBuffers implements this specification. *)
(***************************************************************************)
EXTENDS Naturals, Sequences, FiniteSets

CONSTANTS
    Entities,   \* subscriptions, services and clients
    History,    \* history[e]: "keep_last", "keep_all" or "unsupported"
    Depth,      \* Depth[e]: bound of the queue of e, 0 when unbounded
    Lifespan,   \* Lifespan[e]: how long a message for e stays valid
    Capacity    \* buffers shared by all the queues

VARIABLES
    queue,      \* queue[e]: messages waiting for e, oldest first
    now,        \* the clock of the session
    arrived,    \* number of messages that arrived so far
    lastTaken   \* lastTaken[e]: the last message the application took from e

avars == <<queue, now, arrived, lastTaken>>

\* How many messages all the queues hold.
Stored == Cardinality(UNION {{e} \X DOMAIN queue[e]: e \in Entities})

Full(e) == Depth[e] # 0 /\ Len(queue[e]) >= Depth[e]
Message == [msg |-> arrived + 1, stamp |-> now]

Init ==
    /\ queue = [e \in Entities |-> <<>>]
    /\ now = 0
    /\ arrived = 0
    /\ lastTaken = [e \in Entities |-> 0]

\* There is room: the message goes to the end of the queue.
Accept(e) ==
    /\ History[e] \in {"keep_last", "keep_all"}
    /\ ~ Full(e)
    /\ Stored < Capacity
    /\ queue' = [queue EXCEPT ![e] = Append(@, Message)]

\* The queue of a keep-last entity is full: its oldest message makes room.
Displace(e) ==
    /\ History[e] = "keep_last"
    /\ Full(e)
    /\ queue' = [queue EXCEPT ![e] = Append(Tail(@), Message)]

\* A message that does not fit, and only such a message, is refused.
Refuse(e) ==
    /\ \/ History[e] = "unsupported"
       \/ History[e] = "keep_all" /\ Full(e)
       \/ ~ Full(e) /\ Stored >= Capacity
    /\ UNCHANGED queue

\* An undecodable message is discarded; it has already displaced the oldest
\* message of a full keep-last queue.
Corrupt(e) ==
    queue' = [queue EXCEPT ![e] =
                IF History[e] = "keep_last" /\ Full(e) THEN Tail(@) ELSE @]

Arrive(e) ==
    /\ arrived' = arrived + 1
    /\ UNCHANGED <<now, lastTaken>>
    /\ Accept(e) \/ Displace(e) \/ Refuse(e) \/ Corrupt(e)

\* The application takes the oldest message; the type support may reject it.
Take(e) ==
    /\ UNCHANGED <<now, arrived>>
    /\ queue[e] # <<>>
    /\ queue' = [queue EXCEPT ![e] = Tail(@)]
    /\ lastTaken' \in {lastTaken, [lastTaken EXCEPT ![e] = Head(queue[e]).msg]}

Valid(e, m) == m.stamp <= now /\ now - m.stamp <= Lifespan[e]

\* The messages that outlived their lifespan, all of them and no others, are
\* thrown away: they are the oldest gone[e] of each queue.
Expire ==
    /\ UNCHANGED <<now, arrived, lastTaken>>
    /\ \E gone \in [Entities -> 0..Capacity]:
         /\ \A e \in Entities: \A i \in DOMAIN queue[e]:
                Valid(e, queue[e][i]) <=> i > gone[e]
         /\ queue' = [e \in Entities |-> SubSeq(queue[e], gone[e] + 1, Len(queue[e]))]

\* Time passes, or a synchronisation skips some.
Tick ==
    /\ now' \in Nat
    /\ now' > now
    /\ UNCHANGED <<queue, arrived, lastTaken>>

Next ==
    \/ \E e \in Entities: Arrive(e) \/ Take(e)
    \/ Expire
    \/ Tick

QueueSpec == Init /\ [][Next]_avars
=============================================================================
