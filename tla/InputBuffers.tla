---------------------------- MODULE InputBuffers ----------------------------
(***************************************************************************)
(* The static input buffers: the pool in which the session callbacks       *)
(* (callbacks.c) store what arrives for a subscription, service or client, *)
(* and from which rmw_take, rmw_take_request and rmw_take_response deliver *)
(* it.  Every critical section of static_buffer_memory.mutex is one step:  *)
(* a callback is one, a take is two (the sweep of the expired buffers,     *)
(* then the search), so anything may happen between its two steps.         *)
(*                                                                         *)
(* The list allocateditems is the set inUse together with place: an item   *)
(* is pushed at the head, so the list runs from the largest place to the   *)
(* smallest (module MemPool has the pointers).                             *)
(***************************************************************************)
EXTENDS Integers, Sequences, FiniteSets

CONSTANTS
    Entities,       \* slots of the entity pools in use (the owner pointers)
    Slots,          \* static input buffers: RMW_UXRCE_MAX_HISTORY of them
    Threads,        \* application threads that take messages
    Kind,           \* Kind[e]: "subscription", "service" or "client"
    History,        \* History[e]: qos.history
    Depth,          \* Depth[e]: qos.depth
    QosLifespan,    \* QosLifespan[e]: qos.lifespan in clock ticks, 0 unspecified
    DefaultLifespan,\* RMW_UXRCE_QOS_LIFESPAN_DEFAULT in clock ticks
    IntMax,         \* largest value of the int64_t the times are kept in
    DistinctStamps, \* TRUE: the clock advances between any two arrivals
    Resync,         \* TRUE: a synchronisation may also move the clock back
    MaxArrivals,    \* bound on the number of messages
    MaxTime,        \* bound on the clock
    Idle            \* not an entity: the thread is in no take

ASSUME InputAssumption ==
    /\ IsFiniteSet(Slots)
    /\ Kind \in [Entities -> {"subscription", "service", "client"}]
    /\ History \in [Entities -> {"keep_last", "keep_all", "unsupported"}]
    /\ Depth \in [Entities -> Nat]
    /\ QosLifespan \in [Entities -> Nat]
    /\ DefaultLifespan \in Nat
    /\ IntMax \in Nat
    /\ DistinctStamps \in BOOLEAN /\ Resync \in BOOLEAN
    /\ DistinctStamps => ~ Resync
    /\ MaxArrivals \in Nat /\ MaxTime \in Nat
    /\ Idle \notin Entities

VARIABLES
    inUse,      \* items of static_buffer_memory.allocateditems
    place,      \* place[s]: when s was last pushed on allocateditems
    owner,      \* owner[s]: static_buffer->owner
    stamp,      \* stamp[s]: static_buffer->timestamp
    msg,        \* msg[s]: the message in static_buffer->buffer
    now,        \* rmw_uros_epoch_nanos()
    taker,      \* taker[t]: the entity t is taking from, between its two steps
    swept,      \* swept[t]: the clock when t, in a take, swept the expired buffers
    arrived,    \* number of messages so far; message n is the n-th to arrive
    lastTaken   \* lastTaken[e]: the last message delivered to the application

pool == <<inUse, place, owner, stamp, msg>>
vars == <<inUse, place, owner, stamp, msg, now, taker, swept, arrived, lastTaken>>

-----------------------------------------------------------------------------
\* The searches of types.c, each inside one critical section.

Owned(e) == {s \in inUse: owner[s] = e}

\* rmw_uxrce_count_static_input_buffer_for_entity
Count(e) == Cardinality(Owned(e))

\* Mutant: the comparison of the timestamps is reversed.
PreferredNewest(s, t) ==
    stamp[s] > stamp[t] \/ (stamp[s] = stamp[t] /\ place[s] >= place[t])

\* The scan from the head with a strict "<" prefers the smaller timestamp
\* and, between equal ones, the item nearer to the head.
Preferred(s, t) ==
    \/ stamp[s] < stamp[t]
    \/ stamp[s] = stamp[t] /\ place[s] >= place[t]

\* rmw_uxrce_find_static_input_buffer_by_owner, when Owned(e) is not empty
OldestOf(e) == CHOOSE s \in Owned(e): \A t \in Owned(e): Preferred(s, t)

\* Mutant: one buffer more than the depth.
MayGrowByOne(e) == Depth[e] = 0 \/ Count(e) <= Depth[e]

\* The depth lets the entity have another buffer.
MayGrow(e) == Depth[e] = 0 \/ Count(e) < Depth[e]

\* Mutant: a keep-last entity may reuse the oldest buffer of any entity.
BufferForShared(e) ==
    {s \in Slots \ inUse: MayGrow(e)}
    \cup {s \in inUse: ~ MayGrow(e) /\ \A t \in inUse: Preferred(s, t)}

\* rmw_uxrce_get_static_input_buffer_for_entity: what it may return. Any free
\* buffer stands for the head of the free list; a full keep-last entity gets
\* its own oldest back, a history the switch does not know gets none.
BufferFor(e) ==
    {s \in Slots \ inUse: History[e] # "unsupported" /\ MayGrow(e)}
    \cup {s \in Owned(e):
            History[e] = "keep_last" /\ ~ MayGrow(e) /\ s = OldestOf(e)}

\* Sums of int64_t wrap around.
Wrap(n) == IF n > IntMax THEN n - 2 * (IntMax + 1) ELSE n

LifespanOf(e) == IF QosLifespan[e] = 0 THEN DefaultLifespan ELSE QosLifespan[e]

\* Mutants: the lifespan is not looked at; it is one tick too short.
ExpiredFutureOnly(s) == stamp[s] > now
ExpiredOnTime(s) ==
    \/ Wrap(stamp[s] + LifespanOf(owner[s])) <= now
    \/ stamp[s] > now

\* The lifespan is over, or the buffer claims to come from the future.
Expired(s) ==
    \/ Wrap(stamp[s] + LifespanOf(owner[s])) < now
    \/ stamp[s] > now

\* rmw_uxrce_clean_expired_static_input_buffer
CleanExpired == inUse' = {s \in inUse: ~ Expired(s)}

-----------------------------------------------------------------------------
Init ==
    /\ inUse = {}
    /\ place = [s \in Slots |-> 0]
    /\ owner = [s \in Slots |-> Idle]
    /\ stamp = [s \in Slots |-> 0]
    /\ msg = [s \in Slots |-> 0]
    /\ now = 0
    /\ taker = [t \in Threads |-> Idle]
    /\ swept = [t \in Threads |-> 0]
    /\ arrived = 0
    /\ lastTaken = [e \in Entities |-> 0]

\* No buffer: the callback reports RMW_UROS_ERROR_MIDDLEWARE_ALLOCATION.
Reject(e) ==
    /\ BufferFor(e) = {}
    /\ UNCHANGED pool

\* Mutant: a new owner is not recorded.
FillNoOwner(e, s) ==
    /\ inUse' = inUse \cup {s}
    /\ place' = IF s \in inUse THEN place ELSE [place EXCEPT ![s] = arrived + 1]
    /\ stamp' = [stamp EXCEPT ![s] = now]
    /\ msg' = [msg EXCEPT ![s] = arrived + 1]
    /\ UNCHANGED owner

\* Mutant: a reused buffer keeps its timestamp.
FillOldStamp(e, s) ==
    /\ inUse' = inUse \cup {s}
    /\ place' = IF s \in inUse THEN place ELSE [place EXCEPT ![s] = arrived + 1]
    /\ owner' = [owner EXCEPT ![s] = e]
    /\ stamp' = IF s \in inUse THEN stamp ELSE [stamp EXCEPT ![s] = now]
    /\ msg' = [msg EXCEPT ![s] = arrived + 1]

\* The message is copied into the buffer, which keeps its place in the list
\* when it was the oldest of its owner.
Fill(e, s) ==
    /\ inUse' = inUse \cup {s}
    /\ place' = IF s \in inUse THEN place ELSE [place EXCEPT ![s] = arrived + 1]
    /\ owner' = [owner EXCEPT ![s] = e]
    /\ stamp' = [stamp EXCEPT ![s] = now]
    /\ msg' = [msg EXCEPT ![s] = arrived + 1]

\* The message cannot be copied out of the stream: the buffer is put back,
\* with the older message it may have held.
PutBack(s) ==
    /\ inUse' = inUse \ {s}
    /\ UNCHANGED <<place, owner, stamp, msg>>

\* The body that on_topic, on_request and on_reply share once they found the
\* entity the message is for.
Store(e) ==
    /\ arrived < MaxArrivals
    /\ DistinctStamps => \A s \in inUse: stamp[s] < now
    /\ \/ Reject(e)
       \/ \E s \in BufferFor(e): Fill(e, s) \/ PutBack(s)
    /\ arrived' = arrived + 1
    /\ UNCHANGED <<now, taker, swept, lastTaken>>

OnTopic(e) == Kind[e] = "subscription" /\ Store(e)
OnRequest(e) == Kind[e] = "service" /\ Store(e)
OnReply(e) == Kind[e] = "client" /\ Store(e)

\* The first critical section of a take: expired buffers are given back.
TakeSweep(t, e) ==
    /\ taker[t] = Idle
    /\ CleanExpired
    /\ taker' = [taker EXCEPT ![t] = e]
    /\ swept' = [swept EXCEPT ![t] = now]
    /\ UNCHANGED <<place, owner, stamp, msg, now, arrived, lastTaken>>

\* The second, with nothing to take: RMW_RET_ERROR, taken = false.
TakeNothing(t) ==
    /\ taker[t] # Idle
    /\ Owned(taker[t]) = {}
    /\ taker' = [taker EXCEPT ![t] = Idle]
    /\ swept' = [swept EXCEPT ![t] = 0]
    /\ UNCHANGED <<pool, now, arrived, lastTaken>>

\* The second, with a message: the buffer is put back whether or not the
\* type support decodes the message (delivered).
TakeOldest(t, delivered) ==
    LET e == taker[t] IN
    /\ e # Idle
    /\ Owned(e) # {}
    /\ inUse' = inUse \ {OldestOf(e)}
    /\ lastTaken' = IF delivered
                    THEN [lastTaken EXCEPT ![e] = msg[OldestOf(e)]]
                    ELSE lastTaken
    /\ taker' = [taker EXCEPT ![t] = Idle]
    /\ swept' = [swept EXCEPT ![t] = 0]
    /\ UNCHANGED <<place, owner, stamp, msg, now, arrived>>

\* rmw_wait gives the expired buffers back before it waits.
WaitSweep ==
    /\ CleanExpired
    /\ UNCHANGED <<place, owner, stamp, msg, now, taker, swept, arrived, lastTaken>>

Tick ==
    /\ now < MaxTime
    /\ now' = now + 1
    /\ UNCHANGED <<pool, taker, swept, arrived, lastTaken>>

\* rmw_uros_sync_session (or another session becoming the first of the list
\* rmw_uros_epoch_nanos reads) moves the epoch clock, forward or back.
SyncSession ==
    /\ now' \in 0..MaxTime
    /\ ~ Resync => now' > now
    /\ UNCHANGED <<pool, taker, swept, arrived, lastTaken>>

Next ==
    \/ \E e \in Entities: OnTopic(e) \/ OnRequest(e) \/ OnReply(e)
    \/ \E t \in Threads, e \in Entities: TakeSweep(t, e)
    \/ \E t \in Threads: TakeNothing(t) \/ \E d \in BOOLEAN: TakeOldest(t, d)
    \/ WaitSweep
    \/ Tick
    \/ SyncSession

Spec == Init /\ [][Next]_vars

-----------------------------------------------------------------------------
\* Every variable stays in its domain; positions, messages and deliveries are
\* numbered by arrivals that happened, and every buffer in use has an owner.
TypeOK ==
    /\ inUse \in SUBSET Slots
    /\ arrived \in Nat
    /\ place \in [Slots -> 0..arrived]
    /\ owner \in [Slots -> Entities \cup {Idle}]
    /\ stamp \in [Slots -> Nat]
    /\ msg \in [Slots -> 0..arrived]
    /\ now \in Nat
    /\ taker \in [Threads -> Entities \cup {Idle}]
    /\ swept \in [Threads -> Nat]
    /\ lastTaken \in [Entities -> 0..arrived]
    /\ \A s \in inUse: owner[s] \in Entities

\* The history QoS bounds what one entity may take of the shared pool,
\* whatever the order of arrivals, takes and expiries: an entity with a depth
\* never owns more buffers than that
\* (rmw_uxrce_get_static_input_buffer_for_entity).
DepthRespected == \A e \in Entities: Depth[e] # 0 => Count(e) <= Depth[e]

\* While the clock advances between arrivals, no message is held twice, those
\* an entity holds all arrived after the last one it delivered, and their
\* timestamps are in the order of their arrival: what find_by_owner calls the
\* oldest is the oldest, also when a buffer in the middle of the list was
\* reused.
ArrivalOrder ==
    DistinctStamps =>
        /\ \A s \in inUse: lastTaken[owner[s]] < msg[s] /\ stamp[s] <= now
        /\ \A s, t \in inUse: s # t => msg[s] # msg[t]
        /\ \A s, t \in inUse: msg[s] < msg[t] => stamp[s] < stamp[t]

\* A take delivers messages in the order in which they arrived: it never goes
\* back to a message older than one it delivered before.
TakesInOrder ==
    [][\A e \in Entities: lastTaken'[e] >= lastTaken[e]]_vars

\* Between the two critical sections of a take, and whatever other threads and
\* callbacks do there, the entity holds no message that had already outlived
\* its lifespan when the take swept the pool: the second section cannot
\* deliver an expired message (rmw_take_with_info).
NothingExpiredToTake ==
    ~ Resync =>
        \A t \in Threads: taker[t] # Idle =>
            /\ swept[t] <= now
            /\ \A s \in Owned(taker[t]): stamp[s] + LifespanOf(taker[t]) >= swept[t]

\* A message for one entity never costs another entity a message: an arrival
\* removes no buffer of an entity other than the one it is for.
ArrivalsIsolated ==
    [][\A e \in Entities: OnTopic(e) \/ OnRequest(e) \/ OnReply(e) =>
         \A s \in inUse: owner[s] # e =>
             s \in inUse' /\ owner'[s] = owner[s] /\ msg'[s] = msg[s]]_vars

-----------------------------------------------------------------------------
\* The elements of S, the smallest key first.
OrderOf(S, key) ==
    CHOOSE q \in [1..Cardinality(S) -> S]:
        \A i, j \in DOMAIN q: i < j => key[q[i]] < key[q[j]]

\* The queue of an entity: its buffers in the order of their timestamps.
QueueOf(e) ==
    LET order == OrderOf(Owned(e), stamp)
    IN  [i \in DOMAIN order |-> [msg |-> msg[order[i]], stamp |-> stamp[order[i]]]]

Queues == INSTANCE EntityQueues WITH
            queue <- [e \in Entities |-> QueueOf(e)],
            Lifespan <- [e \in Entities |-> LifespanOf(e)],
            Capacity <- Cardinality(Slots)

\* While the clock advances between arrivals and no lifespan overflows, the
\* buffers are one bounded FIFO queue per entity with exact expiry: every
\* callback, take, sweep and tick is a step of EntityQueues or invisible.
ImplementsQueues == Queues!QueueSpec
=============================================================================
