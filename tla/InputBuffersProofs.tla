------------------------- MODULE InputBuffersProofs -------------------------
(***************************************************************************)
(* Proofs about InputBuffers for any number of entities, buffers, threads, *)
(* messages and clock readings; the last part shows that it implements     *)
(* EntityQueues.                                                           *)
(***************************************************************************)
EXTENDS InputBuffers, ListLemmas

\* The scan finds a buffer of the entity, and it is preferred to every other
\* one (rmw_uxrce_find_static_input_buffer_by_owner).
LEMMA OldestIsOwned ==
    ASSUME TypeOK, NEW e \in Entities, Owned(e) # {}
    PROVE  /\ OldestOf(e) \in Owned(e)
           /\ \A t \in Owned(e): Preferred(OldestOf(e), t)
<1> DEFINE First == {stamp[s]: s \in Owned(e)}
<1>1. First \in SUBSET Nat /\ First # {}
  BY DEF TypeOK, Owned
<1>2. PICK n \in First: \A m \in First: n <= m
  <2> HIDE DEF First
  <2> QED BY <1>1, LeastNatural
<1> DEFINE Gap == {arrived - place[s]: s \in {r \in Owned(e): stamp[r] = n}}
<1>3. Gap \in SUBSET Nat /\ Gap # {}
  BY DEF TypeOK, Owned
<1>4. PICK g \in Gap: \A h \in Gap: g <= h
  <2> HIDE DEF Gap
  <2> QED BY <1>3, LeastNatural
<1>5. PICK s \in Owned(e): stamp[s] = n /\ g = arrived - place[s]
  BY <1>4
<1>6. \A t \in Owned(e): Preferred(s, t)
  <2> TAKE t \in Owned(e)
  <2>1. n <= stamp[t]
    BY <1>2
  <2>2. CASE n < stamp[t]
    BY <1>5, <2>2 DEF Preferred
  <2>3. CASE n = stamp[t]
    <3>1. g <= arrived - place[t]
      BY <1>4, <2>3
    <3>2. arrived \in Nat /\ place[s] \in Nat /\ place[t] \in Nat
      BY DEF TypeOK, Owned
    <3> QED BY <1>5, <2>3, <3>1, <3>2 DEF Preferred
  <2>4. n \in Nat /\ stamp[t] \in Nat
    BY <1>1 DEF TypeOK, Owned
  <2> QED BY <2>1, <2>2, <2>3, <2>4
<1> QED BY <1>5, <1>6 DEF OldestOf

\* A buffer the callback may fill is free, or is the oldest of the entity.
LEMMA BufferForSlots ==
    ASSUME TypeOK, NEW e \in Entities, NEW s \in BufferFor(e)
    PROVE  /\ s \in Slots
           /\ \/ /\ s \notin inUse
                 /\ Depth[e] = 0 \/ Count(e) < Depth[e]
              \/ s \in Owned(e) /\ \A t \in Owned(e): Preferred(s, t)
<1>1. CASE s \in Slots \ inUse /\ MayGrow(e)
  BY <1>1 DEF MayGrow
<1>2. CASE s \in Owned(e) /\ s = OldestOf(e)
  BY <1>2, OldestIsOwned DEF Owned, TypeOK
<1> QED BY <1>1, <1>2 DEF BufferFor

\* The variables stay in their domains.
THEOREM TypeCorrect == Spec => []TypeOK
<1>1. Init => TypeOK
  BY InputAssumption DEF Init, TypeOK
<1>2. TypeOK /\ [Next]_vars => TypeOK'
  <2> SUFFICES ASSUME TypeOK, [Next]_vars
               PROVE  TypeOK'
    OBVIOUS
  <2>1. ASSUME NEW e \in Entities, Store(e)
        PROVE  TypeOK'
    <3>1. CASE Reject(e)
      BY <2>1, <3>1 DEF Store, Reject, pool, TypeOK
    <3>2. ASSUME NEW s \in BufferFor(e), Fill(e, s)
          PROVE  TypeOK'
      <4>1. s \in Slots
        BY BufferForSlots
      <4> QED BY <2>1, <3>2, <4>1 DEF Store, Fill, TypeOK
    <3>3. ASSUME NEW s \in BufferFor(e), PutBack(s)
          PROVE  TypeOK'
      BY <2>1, <3>3 DEF Store, PutBack, TypeOK
    <3> QED BY <2>1, <3>1, <3>2, <3>3 DEF Store
  <2>2. ASSUME NEW t \in Threads, NEW e \in Entities, TakeSweep(t, e)
        PROVE  TypeOK'
    BY <2>2 DEF TakeSweep, CleanExpired, TypeOK
  <2>3. ASSUME NEW t \in Threads, TakeNothing(t)
        PROVE  TypeOK'
    BY <2>3 DEF TakeNothing, pool, TypeOK
  <2>4. ASSUME NEW t \in Threads, NEW d \in BOOLEAN, TakeOldest(t, d)
        PROVE  TypeOK'
    <3>1. taker[t] \in Entities /\ OldestOf(taker[t]) \in Slots
      BY <2>4, OldestIsOwned DEF TakeOldest, TypeOK, Owned
    <3> QED BY <2>4, <3>1 DEF TakeOldest, TypeOK
  <2>5. CASE WaitSweep
    BY <2>5 DEF WaitSweep, CleanExpired, TypeOK
  <2>6. CASE Tick
    BY <2>6 DEF Tick, pool, TypeOK
  <2>7. CASE SyncSession
    BY <2>7, InputAssumption DEF SyncSession, pool, TypeOK
  <2>8. CASE UNCHANGED vars
    BY <2>8 DEF vars, TypeOK
  <2> QED
    BY <2>1, <2>2, <2>3, <2>4, <2>5, <2>6, <2>7, <2>8
       DEF Next, OnTopic, OnRequest, OnReply
<1> QED BY <1>1, <1>2, PTL DEF Spec

-----------------------------------------------------------------------------
\* Giving buffers back, and leaving the others alone, keeps every count.
LEMMA FewerBuffers ==
    ASSUME TypeOK, DepthRespected, inUse' \subseteq inUse, owner' = owner
    PROVE  DepthRespected'
<1> SUFFICES ASSUME NEW e \in Entities, Depth[e] # 0
             PROVE  Count(e)' <= Depth[e]
  BY DEF DepthRespected
<1>1. Owned(e)' \subseteq Owned(e)
  BY DEF Owned
<1>2. IsFiniteSet(Owned(e))
  BY FS_Subset, InputAssumption DEF Owned, TypeOK
<1>3. Cardinality(Owned(e)') <= Cardinality(Owned(e))
  BY <1>1, <1>2, FS_Subset
<1>4. /\ Cardinality(Owned(e)) \in Nat
      /\ Cardinality(Owned(e)') \in Nat
      /\ Depth[e] \in Nat
  BY <1>1, <1>2, FS_Subset, FS_CardinalityType, InputAssumption
<1> QED BY <1>3, <1>4 DEF DepthRespected, Count

\* No entity with a history depth ever owns more buffers than that depth.
THEOREM DepthBound == Spec => []DepthRespected
<1>1. Init => DepthRespected
  <2> SUFFICES ASSUME Init, NEW e \in Entities
               PROVE  Count(e) <= Depth[e]
    BY DEF DepthRespected
  <2>1. Owned(e) = {}
    BY DEF Init, Owned
  <2> QED BY <2>1, FS_EmptySet, InputAssumption DEF Count
<1>2. TypeOK /\ DepthRespected /\ [Next]_vars => DepthRespected'
  <2> SUFFICES ASSUME TypeOK, DepthRespected, [Next]_vars
               PROVE  DepthRespected'
    OBVIOUS
  <2>1. ASSUME NEW e \in Entities, Store(e)
        PROVE  DepthRespected'
    <3>1. CASE Reject(e)
      BY <3>1, FewerBuffers DEF Reject, pool
    <3>2. ASSUME NEW s \in BufferFor(e), Fill(e, s)
          PROVE  DepthRespected'
      <4> SUFFICES ASSUME NEW f \in Entities, Depth[f] # 0
                   PROVE  Count(f)' <= Depth[f]
        BY DEF DepthRespected
      <4>1. s \in Slots /\ (s \notin inUse \/ s \in Owned(e))
        BY BufferForSlots
      <4>2. CASE f # e \/ s \in Owned(e)
        <5>1. Owned(f)' = Owned(f)
          BY <3>2, <4>1, <4>2 DEF Fill, Owned, TypeOK
        <5> QED BY <5>1 DEF DepthRespected, Count
      <4>3. CASE f = e /\ s \notin inUse
        <5>1. Count(e) < Depth[e]
          BY <4>3, BufferForSlots DEF Owned
        <5>2. Owned(e)' = Owned(e) \cup {s}
          BY <3>2, <4>1, <4>3 DEF Fill, Owned, TypeOK
        <5>3. IsFiniteSet(Owned(e))
          BY FS_Subset, InputAssumption DEF Owned, TypeOK
        <5>4. /\ Cardinality(Owned(e)) \in Nat
              /\ Cardinality(Owned(e) \cup {s}) = Cardinality(Owned(e)) + 1
          BY <4>3, <5>3, FS_AddElement, FS_CardinalityType DEF Owned
        <5> QED BY <4>3, <5>1, <5>2, <5>4, InputAssumption DEF Count
      <4> QED BY <4>1, <4>2, <4>3
    <3>3. ASSUME NEW s \in BufferFor(e), PutBack(s)
          PROVE  DepthRespected'
      BY <3>3, FewerBuffers DEF PutBack
    <3> QED BY <2>1, <3>1, <3>2, <3>3 DEF Store
  <2>2. ASSUME NEW t \in Threads, NEW e \in Entities, TakeSweep(t, e)
        PROVE  DepthRespected'
    BY <2>2, FewerBuffers DEF TakeSweep, CleanExpired
  <2>3. ASSUME NEW t \in Threads, TakeNothing(t)
        PROVE  DepthRespected'
    BY <2>3, FewerBuffers DEF TakeNothing, pool
  <2>4. ASSUME NEW t \in Threads, NEW d \in BOOLEAN, TakeOldest(t, d)
        PROVE  DepthRespected'
    BY <2>4, FewerBuffers DEF TakeOldest
  <2>5. CASE WaitSweep
    BY <2>5, FewerBuffers DEF WaitSweep, CleanExpired
  <2>6. CASE Tick \/ SyncSession \/ UNCHANGED vars
    BY <2>6, FewerBuffers DEF Tick, SyncSession, pool, vars
  <2> QED
    BY <2>1, <2>2, <2>3, <2>4, <2>5, <2>6 DEF Next, OnTopic, OnRequest, OnReply
<1> QED BY <1>1, <1>2, TypeCorrect, PTL DEF Spec

-----------------------------------------------------------------------------
\* An arrival keeps the order: it is the latest message with the latest stamp.
LEMMA StoreKeepsOrder ==
    ASSUME TypeOK, ArrivalOrder, NEW e \in Entities, Store(e)
    PROVE  ArrivalOrder'
<1> SUFFICES ASSUME DistinctStamps
             PROVE  ArrivalOrder'
  BY DEF ArrivalOrder
<1>1. CASE Reject(e)
  BY <1>1 DEF Store, Reject, pool, ArrivalOrder
<1>2. ASSUME NEW s \in BufferFor(e), PutBack(s)
      PROVE  ArrivalOrder'
  BY <1>2 DEF Store, PutBack, ArrivalOrder
<1>3. ASSUME NEW s \in BufferFor(e), Fill(e, s)
      PROVE  ArrivalOrder'
  <2>1. s \in Slots
    BY BufferForSlots
  <2>2. /\ inUse' = inUse \cup {s} /\ UNCHANGED <<now, lastTaken>>
        /\ owner'[s] = e /\ stamp'[s] = now /\ msg'[s] = arrived + 1
        /\ \A r \in inUse: r # s => /\ owner'[r] = owner[r]
                                    /\ stamp'[r] = stamp[r] /\ msg'[r] = msg[r]
    BY <1>3, <2>1 DEF Fill, Store, TypeOK
  <2>3. /\ \A r \in inUse: stamp[r] < now /\ stamp[r] \in Nat
        /\ \A r \in inUse: msg[r] <= arrived /\ msg[r] \in Nat
        /\ \A f \in Entities: lastTaken[f] <= arrived /\ lastTaken[f] \in Nat
        /\ arrived \in Nat /\ now \in Nat
    BY DEF Store, TypeOK
  <2>4. \A r \in inUse': lastTaken'[owner'[r]] < msg'[r] /\ stamp'[r] <= now'
    BY <2>2, <2>3 DEF ArrivalOrder
  <2>5. \A r, t \in inUse': r # t => msg'[r] # msg'[t]
    BY <2>2, <2>3 DEF ArrivalOrder
  <2>6. \A r, t \in inUse': msg'[r] < msg'[t] => stamp'[r] < stamp'[t]
    BY <2>2, <2>3 DEF ArrivalOrder
  <2> QED BY <2>4, <2>5, <2>6 DEF ArrivalOrder
<1> QED BY <1>1, <1>2, <1>3 DEF Store

\* The oldest buffer by timestamp is the oldest by arrival, so a take leaves
\* only messages younger than the one it delivers.
LEMMA TakeKeepsOrder ==
    ASSUME TypeOK, ArrivalOrder, NEW t \in Threads, NEW d \in BOOLEAN,
           TakeOldest(t, d), DistinctStamps
    PROVE  /\ ArrivalOrder'
           /\ \A e \in Entities: lastTaken'[e] >= lastTaken[e]
<1> DEFINE f == taker[t]
           s == OldestOf(f)
<1>1. f \in Entities /\ s \in Owned(f) /\ \A r \in Owned(f): Preferred(s, r)
  BY OldestIsOwned DEF TakeOldest, TypeOK
<1>2. /\ inUse' = inUse \ {s} /\ UNCHANGED <<owner, stamp, msg, now>>
      /\ \/ lastTaken' = lastTaken
         \/ lastTaken' = [lastTaken EXCEPT ![f] = msg[s]]
  BY DEF TakeOldest
<1> HIDE DEF f, s
<1>3. /\ \A r \in inUse: stamp[r] \in Nat /\ msg[r] \in Nat
      /\ \A e \in Entities: lastTaken[e] \in Nat
      /\ lastTaken \in [Entities -> Nat]
  BY DEF TypeOK
<1>4. s \in inUse /\ owner[s] = f /\ lastTaken[f] < msg[s]
  BY <1>1 DEF Owned, ArrivalOrder
<1>5. \A r \in inUse \ {s}: owner[r] = f => msg[s] < msg[r]
  <2> SUFFICES ASSUME NEW r \in inUse, r # s, owner[r] = f
               PROVE  msg[s] < msg[r]
    OBVIOUS
  <2>1. stamp[s] <= stamp[r]
    BY <1>1, <1>3, <1>4 DEF Preferred, Owned
  <2>2. msg[r] # msg[s] /\ (msg[r] < msg[s] => stamp[r] < stamp[s])
    BY <1>4 DEF ArrivalOrder
  <2> QED BY <1>3, <1>4, <2>1, <2>2
<1>6. \A e \in Entities: lastTaken'[e] >= lastTaken[e]
  BY <1>1, <1>2, <1>3, <1>4
<1>7. \A r \in inUse': lastTaken'[owner[r]] < msg[r]
  <2> TAKE r \in inUse'
  <2>1. r \in inUse \ {s} /\ lastTaken[owner[r]] < msg[r] /\ owner[r] \in Entities
    BY <1>2 DEF ArrivalOrder, TypeOK
  <2>2. CASE owner[r] = f
    BY <1>1, <1>2, <1>3, <1>5, <2>1, <2>2
  <2>3. CASE owner[r] # f
    BY <1>1, <1>2, <1>3, <2>1, <2>3
  <2> QED BY <2>2, <2>3
<1>8. ArrivalOrder'
  BY <1>2, <1>7 DEF ArrivalOrder
<1> QED BY <1>6, <1>8

\* The order of arrival is kept by timestamps, buffers and deliveries.
THEOREM OrderKept == Spec => []ArrivalOrder
<1>1. Init => ArrivalOrder
  BY DEF Init, ArrivalOrder
<1>2. TypeOK /\ ArrivalOrder /\ [Next]_vars => ArrivalOrder'
  <2> SUFFICES ASSUME TypeOK, ArrivalOrder, [Next]_vars, DistinctStamps
               PROVE  ArrivalOrder'
    BY DEF ArrivalOrder
  <2>1. ASSUME NEW e \in Entities, Store(e)
        PROVE  ArrivalOrder'
    BY <2>1, StoreKeepsOrder
  <2>2. ASSUME NEW t \in Threads, NEW e \in Entities, TakeSweep(t, e)
        PROVE  ArrivalOrder'
    BY <2>2 DEF TakeSweep, CleanExpired, ArrivalOrder
  <2>3. ASSUME NEW t \in Threads, TakeNothing(t)
        PROVE  ArrivalOrder'
    BY <2>3 DEF TakeNothing, pool, ArrivalOrder
  <2>4. ASSUME NEW t \in Threads, NEW d \in BOOLEAN, TakeOldest(t, d)
        PROVE  ArrivalOrder'
    BY <2>4, TakeKeepsOrder
  <2>5. CASE WaitSweep
    BY <2>5 DEF WaitSweep, CleanExpired, ArrivalOrder
  <2>6. CASE Tick
    BY <2>6 DEF Tick, pool, ArrivalOrder, TypeOK
  <2>7. CASE SyncSession
    BY <2>7, InputAssumption DEF SyncSession, pool, ArrivalOrder, TypeOK
  <2>8. CASE UNCHANGED vars
    BY <2>8 DEF vars, ArrivalOrder
  <2> QED
    BY <2>1, <2>2, <2>3, <2>4, <2>5, <2>6, <2>7, <2>8
       DEF Next, OnTopic, OnRequest, OnReply
<1> QED BY <1>1, <1>2, TypeCorrect, PTL DEF Spec

\* While the clock advances between arrivals, each entity delivers its
\* messages in the order in which they arrived.
THEOREM DeliveriesInOrder ==
    ASSUME DistinctStamps
    PROVE  Spec => TakesInOrder
<1> DEFINE Ordered == \A e \in Entities: lastTaken'[e] >= lastTaken[e]
<1>1. TypeOK /\ ArrivalOrder /\ [Next]_vars => [Ordered]_vars
  <2> SUFFICES ASSUME TypeOK, ArrivalOrder, Next
               PROVE  Ordered
    OBVIOUS
  <2>1. ASSUME NEW t \in Threads, NEW d \in BOOLEAN, TakeOldest(t, d)
        PROVE  Ordered
    BY <2>1, TakeKeepsOrder
  <2>2. ASSUME lastTaken' = lastTaken
        PROVE  Ordered
    BY <2>2 DEF TypeOK
  <2> QED
    BY <2>1, <2>2 DEF Next, OnTopic, OnRequest, OnReply, Store, TakeSweep,
       TakeNothing, WaitSweep, Tick, SyncSession
<1> QED BY <1>1, TypeCorrect, OrderKept, PTL DEF Spec, TakesInOrder

-----------------------------------------------------------------------------
\* A take never holds, between its two steps, a message that had outlived its
\* lifespan when it swept the pool.
THEOREM SweepHolds == Spec => []NothingExpiredToTake
<1>1. Init => NothingExpiredToTake
  BY DEF Init, NothingExpiredToTake
<1>2. TypeOK /\ NothingExpiredToTake /\ [Next]_vars => NothingExpiredToTake'
  <2> SUFFICES ASSUME TypeOK, NothingExpiredToTake, [Next]_vars, ~ Resync,
                      NEW t \in Threads, taker'[t] # Idle
               PROVE  /\ swept'[t] <= now'
                      /\ \A s \in Owned(taker[t])':
                            stamp'[s] + LifespanOf(taker'[t]) >= swept'[t]
    BY DEF NothingExpiredToTake, Owned
  <2>0. \A e \in Entities: LifespanOf(e) \in Nat
    BY InputAssumption DEF LifespanOf
  <2>1. ASSUME NEW e \in Entities, Store(e)
        PROVE  /\ swept'[t] <= now'
               /\ \A s \in Owned(taker[t])':
                     stamp'[s] + LifespanOf(taker'[t]) >= swept'[t]
    <3>1. /\ taker' = taker /\ swept' = swept /\ now' = now
          /\ swept[t] <= now /\ now \in Nat /\ swept[t] \in Nat
          /\ taker[t] \in Entities
      BY <2>1 DEF Store, NothingExpiredToTake, TypeOK
    <3>2. CASE Reject(e)
      BY <3>1, <3>2 DEF Reject, pool, Owned, NothingExpiredToTake
    <3>3. ASSUME NEW r \in BufferFor(e), PutBack(r)
          PROVE  \A s \in Owned(taker[t])':
                     stamp'[s] + LifespanOf(taker'[t]) >= swept'[t]
      BY <3>1, <3>3 DEF PutBack, Owned, NothingExpiredToTake
    <3>4. ASSUME NEW r \in BufferFor(e), Fill(e, r)
          PROVE  \A s \in Owned(taker[t])':
                     stamp'[s] + LifespanOf(taker'[t]) >= swept'[t]
      <4> SUFFICES ASSUME NEW s \in Owned(taker[t])'
                   PROVE  stamp'[s] + LifespanOf(taker'[t]) >= swept'[t]
        OBVIOUS
      <4>1. r \in Slots
        BY BufferForSlots
      <4>2. CASE s = r
        BY <2>0, <3>1, <3>4, <4>1, <4>2 DEF Fill, TypeOK
      <4>3. CASE s # r
        <5>1. s \in Owned(taker[t]) /\ stamp'[s] = stamp[s]
          BY <3>1, <3>4, <4>1, <4>3 DEF Fill, Owned, TypeOK
        <5> QED BY <3>1, <5>1 DEF NothingExpiredToTake
      <4> QED BY <4>2, <4>3
    <3> QED BY <2>1, <3>1, <3>2, <3>3, <3>4 DEF Store
  <2>2. ASSUME NEW u \in Threads, NEW e \in Entities, TakeSweep(u, e)
        PROVE  /\ swept'[t] <= now'
               /\ \A s \in Owned(taker[t])':
                     stamp'[s] + LifespanOf(taker'[t]) >= swept'[t]
    <3>1. CASE u = t
      <4>1. /\ swept'[t] = now /\ now' = now /\ taker'[t] = e /\ now \in Nat
            /\ inUse' = {s \in inUse: ~ Expired(s)}
            /\ owner' = owner /\ stamp' = stamp
        BY <2>2, <3>1 DEF TakeSweep, CleanExpired, TypeOK
      <4>2. ASSUME NEW s \in inUse, ~ Expired(s), owner[s] = e
            PROVE  stamp[s] + LifespanOf(e) >= now
        <5>1. stamp[s] \in Nat /\ LifespanOf(e) \in Nat /\ IntMax \in Nat
          BY <2>0, InputAssumption DEF TypeOK
        <5>2. Wrap(stamp[s] + LifespanOf(e)) <= stamp[s] + LifespanOf(e)
          BY <5>1 DEF Wrap
        <5>3. Wrap(stamp[s] + LifespanOf(e)) \in Int
          BY <5>1 DEF Wrap
        <5> QED BY <4>1, <4>2, <5>1, <5>2, <5>3 DEF Expired
      <4> QED BY <4>1, <4>2 DEF Owned
    <3>2. CASE u # t
      BY <2>2, <3>2 DEF TakeSweep, CleanExpired, Owned, NothingExpiredToTake, TypeOK
    <3> QED BY <3>1, <3>2
  <2>3. ASSUME NEW u \in Threads, TakeNothing(u)
        PROVE  /\ swept'[t] <= now'
               /\ \A s \in Owned(taker[t])':
                     stamp'[s] + LifespanOf(taker'[t]) >= swept'[t]
    BY <2>3 DEF TakeNothing, pool, Owned, NothingExpiredToTake, TypeOK
  <2>4. ASSUME NEW u \in Threads, NEW d \in BOOLEAN, TakeOldest(u, d)
        PROVE  /\ swept'[t] <= now'
               /\ \A s \in Owned(taker[t])':
                     stamp'[s] + LifespanOf(taker'[t]) >= swept'[t]
    BY <2>4 DEF TakeOldest, Owned, NothingExpiredToTake, TypeOK
  <2>5. CASE WaitSweep
    BY <2>5 DEF WaitSweep, CleanExpired, Owned, NothingExpiredToTake
  <2>6. CASE Tick
    BY <2>6 DEF Tick, pool, Owned, NothingExpiredToTake, TypeOK
  <2>7. CASE SyncSession
    BY <2>7, InputAssumption
       DEF SyncSession, pool, Owned, NothingExpiredToTake, TypeOK
  <2>8. CASE UNCHANGED vars
    BY <2>8 DEF vars, Owned, NothingExpiredToTake
  <2> QED
    BY <2>1, <2>2, <2>3, <2>4, <2>5, <2>6, <2>7, <2>8
       DEF Next, OnTopic, OnRequest, OnReply
<1> QED BY <1>1, <1>2, TypeCorrect, PTL DEF Spec

-----------------------------------------------------------------------------
\* An arrival for one entity takes no buffer from another: what the callback
\* fills or puts back was free or the entity's own.
THEOREM ArrivalsAreIsolated == Spec => ArrivalsIsolated
<1> DEFINE Isolated ==
      \A e \in Entities: OnTopic(e) \/ OnRequest(e) \/ OnReply(e) =>
        \A s \in inUse: owner[s] # e =>
            s \in inUse' /\ owner'[s] = owner[s] /\ msg'[s] = msg[s]
<1>1. TypeOK /\ [Next]_vars => [Isolated]_vars
  <2> SUFFICES ASSUME TypeOK, NEW e \in Entities, Store(e),
                      NEW s \in inUse, owner[s] # e
               PROVE  s \in inUse' /\ owner'[s] = owner[s] /\ msg'[s] = msg[s]
    BY DEF OnTopic, OnRequest, OnReply
  <2>1. CASE Reject(e)
    BY <2>1 DEF Reject, pool
  <2>2. ASSUME NEW r \in BufferFor(e), Fill(e, r) \/ PutBack(r)
        PROVE  s \in inUse' /\ owner'[s] = owner[s] /\ msg'[s] = msg[s]
    <3>1. r \in Slots /\ r # s
      BY BufferForSlots DEF Owned
    <3> QED BY <2>2, <3>1 DEF Fill, PutBack, TypeOK
  <2> QED BY <2>1, <2>2 DEF Store
<1> QED BY <1>1, TypeCorrect, PTL DEF Spec, ArrivalsIsolated

-----------------------------------------------------------------------------
\* q lists the elements of S, the smallest key first.
Sorted(q, S, key) ==
    /\ q \in Seq(S)
    /\ \A i, j \in DOMAIN q: i < j => key[q[i]] < key[q[j]]
    /\ \A s \in S: \E i \in DOMAIN q: q[i] = s

\* There is one such list at most, and it is the order that OrderOf chooses.
LEMMA SortedIsOrder ==
    ASSUME NEW S, NEW key, \A s \in S: key[s] \in Nat,
           NEW q, Sorted(q, S, key)
    PROVE  /\ OrderOf(S, key) = q
           /\ IsFiniteSet(S) /\ Cardinality(S) = Len(q)
<1> DEFINE n == Len(q)
           Increasing(p) == \A i, j \in DOMAIN p: i < j => key[p[i]] < key[p[j]]
<1>1. n \in Nat /\ DOMAIN q = 1..n /\ q \in [1..n -> S] /\ \A i \in 1..n: q[i] \in S
  BY LenProperties DEF Sorted
<1> HIDE DEF n
<1>2. ASSUME NEW p \in [1..n -> S], Increasing(p)
      PROVE  \A i, j \in 1..n: p[i] = p[j] => i = j
  <2> SUFFICES ASSUME NEW i \in 1..n, NEW j \in 1..n, p[i] = p[j], i < j
               PROVE  FALSE
    <3> QED BY <1>1
  <2>1. key[p[i]] < key[p[j]] /\ key[p[i]] \in Nat
    BY <1>2
  <2> QED BY <2>1
<1>3. q \in Injection(1..n, S) /\ q \in Surjection(1..n, S)
  <2>1. Increasing(q)
    BY DEF Sorted
  <2>2. q \in Injection(1..n, S)
    BY <1>1, <1>2, <2>1 DEF Injection, IsInjective
  <2>3. q \in Surjection(1..n, S)
    BY <1>1 DEF Surjection, Sorted
  <2> QED BY <2>2, <2>3
<1>4. IsFiniteSet(1..n) /\ Cardinality(1..n) = n
  <2>1. 1 \in Int /\ n \in Int
    BY <1>1
  <2>2. IsFiniteSet(1..n) /\ Cardinality(1..n) = IF 1 > n THEN 0 ELSE n - 1 + 1
    BY <2>1, FS_Interval, Zenon
  <2> QED BY <1>1, <2>2
<1>5. IsFiniteSet(S) /\ Cardinality(S) = n
  BY <1>3, <1>4, FS_Surjection
<1>6. ASSUME NEW p \in [1..n -> S], Increasing(p)
      PROVE  p = q
  <2> DEFINE D == {k \in 1..n: p[k] # q[k]}
  <2>1. D # {} => \E k \in D: \A j \in D: k <= j
    <3>1. D \in SUBSET Nat
      BY <1>1
    <3> HIDE DEF D
    <3> QED BY <3>1, LeastNatural
  <2>2. D = {}
    <3> SUFFICES ASSUME NEW k \in 1..n, p[k] # q[k],
                        \A j \in 1..n: p[j] # q[j] => k <= j
                 PROVE  FALSE
      BY <2>1
    <3>1. p \in Surjection(1..n, S)
      <4>1. p \in Injection(1..n, S)
        BY <1>2, <1>6 DEF Injection, IsInjective
      <4> QED BY <1>4, <1>5, <4>1, FS_Injection
    <3>2. PICK i \in 1..n: p[i] = q[k]
      BY <1>1, <3>1 DEF Surjection
    <3>3. PICK j \in 1..n: q[j] = p[k]
      BY <1>1 DEF Sorted
    <3>4. \A l, m \in 1..n: q[l] = q[m] => l = m
      BY <1>3, <1>1 DEF Injection, IsInjective
    <3>5. \A l, m \in 1..n: p[l] = p[m] => l = m
      BY <1>2, <1>6
    <3>6. k < i
      <4>1. i < k => p[i] = q[i]
        OBVIOUS
      <4>2. i # k
        BY <3>2
      <4> QED BY <3>2, <3>4, <4>1, <4>2
    <3>7. k < j
      <4>1. j < k => p[j] = q[j]
        OBVIOUS
      <4>2. j # k
        BY <3>3
      <4> QED BY <3>3, <3>5, <4>1, <4>2
    <3>8. key[p[k]] < key[q[k]]
      BY <1>6, <3>2, <3>6
    <3>9. key[q[k]] < key[p[k]]
      BY <1>1, <3>3, <3>7 DEF Sorted
    <3>10. key[p[k]] \in Nat /\ key[q[k]] \in Nat
      BY <1>1
    <3> QED BY <3>8, <3>9, <3>10
  <2>3. \A k \in 1..n: p[k] = q[k]
    BY <2>2
  <2> QED BY <1>1, <2>3
<1>7. q \in [1..n -> S] /\ Increasing(q)
  BY <1>1 DEF Sorted
<1>8. OrderOf(S, key) = CHOOSE p \in [1..n -> S]: Increasing(p)
  BY <1>5 DEF OrderOf
<1> QED BY <1>5, <1>6, <1>7, <1>8 DEF n

\* A finite set with different keys can be listed.
LEMMA SortedExists ==
    ASSUME NEW U, IsFiniteSet(U), NEW key, \A s \in U: key[s] \in Nat,
           \A s, t \in U: s # t => key[s] # key[t]
    PROVE  \A S \in SUBSET U: \E q: Sorted(q, S, key)
<1> DEFINE Bad == {S \in SUBSET U: ~ \E q: Sorted(q, S, key)}
           C == {Cardinality(S): S \in Bad}
<1>1. \A S \in SUBSET U: IsFiniteSet(S) /\ Cardinality(S) \in Nat
  BY FS_Subset, FS_CardinalityType
<1>2. C \in SUBSET Nat
  BY <1>1
<1>3. C # {} => \E n \in C: \A m \in C: n <= m
  <2> HIDE DEF C
  <2> QED BY <1>2, LeastNatural
<1>4. SUFFICES ASSUME NEW S \in SUBSET U, ~ \E q: Sorted(q, S, key),
                      \A T \in SUBSET U: ~ (\E q: Sorted(q, T, key)) =>
                         Cardinality(S) <= Cardinality(T)
               PROVE  FALSE
  BY <1>3
<1>5. S # {}
  <2>1. <<>> \in Seq({}) /\ DOMAIN <<>> = {}
    OBVIOUS
  <2>2. Sorted(<<>>, {}, key)
    BY <2>1 DEF Sorted
  <2> QED BY <1>4, <2>2
<1>6. PICK s \in S: \A t \in S: key[s] <= key[t]
  <2> DEFINE K == {key[t]: t \in S}
  <2>1. K \in SUBSET Nat /\ K # {}
    BY <1>5
  <2>2. \E k \in K: \A l \in K: k <= l
    <3> HIDE DEF K
    <3> QED BY <2>1, LeastNatural
  <2> QED BY <2>2
<1>7. PICK q: Sorted(q, S \ {s}, key)
  <2>1. S \ {s} \in SUBSET U
    OBVIOUS
  <2>2. Cardinality(S \ {s}) = Cardinality(S) - 1
    BY <1>1, <1>6, FS_RemoveElement
  <2>3. ~ (Cardinality(S) <= Cardinality(S \ {s}))
    BY <1>1, <2>2
  <2> QED BY <1>4, <2>1, <2>3
<1>8. Sorted(<<s>> \o q, S, key)
  <2> DEFINE p == <<s>> \o q
             n == Len(q)
  <2>1. /\ q \in Seq(S) /\ n \in Nat /\ DOMAIN q = 1..n
        /\ \A i \in 1..n: q[i] \in S \ {s}
    <3>1. q \in Seq(S \ {s})
      BY <1>7 DEF Sorted
    <3>2. q \in Seq(S)
      BY <3>1, SeqMonotonic
    <3> QED BY <3>1, <3>2, LenProperties
  <2>2. <<s>> \in Seq(S) /\ Len(<<s>>) = 1 /\ <<s>>[1] = s
    OBVIOUS
  <2>3. /\ p \in Seq(S) /\ Len(p) = 1 + n
        /\ \A i \in 1..(1 + n): p[i] = IF i <= 1 THEN <<s>>[i] ELSE q[i - 1]
    BY <2>1, <2>2, ConcatProperties
  <2>4. DOMAIN p = 1..(1 + n)
    BY <2>3
  <2> HIDE DEF p, n
  <2>5. /\ \A i \in 1..(1 + n): i = 1 \/ i - 1 \in 1..n
        /\ \A i \in 1..(1 + n): p[i] = IF i = 1 THEN s ELSE q[i - 1]
        /\ \A i \in 1..n: i + 1 \in 1..(1 + n) /\ p[i + 1] = q[i]
    <3>1. \A i \in 1..(1 + n): i = 1 \/ i - 1 \in 1..n
      BY <2>1
    <3>2. \A i \in 1..(1 + n): p[i] = IF i = 1 THEN s ELSE q[i - 1]
      BY <2>1, <2>2, <2>3
    <3>3. ASSUME NEW i \in 1..n
          PROVE  i + 1 \in 1..(1 + n) /\ p[i + 1] = q[i]
      <4>1. i + 1 \in 1..(1 + n) /\ i + 1 # 1 /\ (i + 1) - 1 = i
        BY <2>1
      <4> QED BY <3>2, <4>1
    <3> QED BY <3>1, <3>2, <3>3
  <2>6. ASSUME NEW i \in 1..(1 + n), NEW j \in 1..(1 + n), i < j
        PROVE  key[p[i]] < key[p[j]]
    <3>1. j # 1 /\ j - 1 \in 1..n /\ p[j] = q[j - 1]
      BY <2>5, <2>6
    <3>2. CASE i = 1
      <4>1. p[i] = s /\ p[j] \in S \ {s}
        BY <2>1, <2>5, <3>1, <3>2
      <4>2. key[s] <= key[p[j]] /\ key[s] # key[p[j]] /\ key[s] \in Nat /\ key[p[j]] \in Nat
        BY <1>6, <4>1
      <4> QED BY <4>1, <4>2
    <3>3. CASE i # 1
      <4>1. i - 1 \in 1..n /\ i - 1 < j - 1 /\ p[i] = q[i - 1]
        BY <2>5, <2>6, <3>3
      <4> QED BY <1>7, <2>1, <3>1, <4>1 DEF Sorted
    <3> QED BY <3>2, <3>3
  <2>7. ASSUME NEW t \in S
        PROVE  \E i \in 1..(1 + n): p[i] = t
    <3>1. CASE t = s
      <4>1. 1 \in 1..(1 + n)
        BY <2>1
      <4> QED BY <2>5, <3>1, <4>1
    <3>2. CASE t # s
      <4>1. PICK i \in 1..n: q[i] = t
        BY <1>7, <2>1, <3>2 DEF Sorted
      <4> QED BY <2>5, <4>1
    <3> QED BY <3>1, <3>2
  <2> QED BY <2>3, <2>4, <2>6, <2>7 DEF Sorted, p
<1> QED BY <1>4, <1>8

\* A suffix of a list holds the elements with the largest keys.
LEMMA SortedSuffix ==
    ASSUME NEW S, NEW key, NEW q, Sorted(q, S, key), NEW k \in 0..Len(q)
    PROVE  Sorted(SubSeq(q, k + 1, Len(q)), {q[i]: i \in (k + 1)..Len(q)}, key)
<1> DEFINE n == Len(q)
           r == SubSeq(q, k + 1, n)
           R == {q[i]: i \in (k + 1)..n}
<1>1. n \in Nat /\ DOMAIN q = 1..n /\ k \in Nat /\ k <= n
  BY LenProperties DEF Sorted
<1>2. /\ r \in Seq(R) /\ Len(r) = n - k
      /\ \A i \in 1..(n - k): r[i] = q[k + i]
  <2>1. k + 1 \in Int /\ n \in Int /\ \A i \in (k + 1)..n: q[i] \in R
    BY <1>1
  <2>2. /\ r \in Seq(R) /\ Len(r) = IF k + 1 <= n THEN n - (k + 1) + 1 ELSE 0
        /\ \A i \in 1..(n - (k + 1) + 1): r[i] = q[(k + 1) + i - 1]
    <3> HIDE DEF n, R
    <3> QED BY <2>1, SubSeqProperties
  <2>3. n - (k + 1) + 1 = n - k /\ Len(r) = n - k
    <3> HIDE DEF r, n
    <3> QED BY <1>1, <2>2
  <2>4. \A i \in 1..(n - k): (k + 1) + i - 1 = k + i
    BY <1>1
  <2> QED BY <2>2, <2>3, <2>4
<1>3. DOMAIN r = 1..(n - k)
  BY <1>2
<1> HIDE DEF r, n
<1>4. ASSUME NEW i \in 1..(n - k), NEW j \in 1..(n - k), i < j
      PROVE  key[r[i]] < key[r[j]]
  <2>1. k + i \in DOMAIN q /\ k + j \in DOMAIN q /\ k + i < k + j
    BY <1>1, <1>4
  <2>2. key[q[k + i]] < key[q[k + j]]
    BY <2>1 DEF Sorted
  <2> QED BY <1>2, <2>2
<1>5. ASSUME NEW i \in (k + 1)..n
      PROVE  \E j \in 1..(n - k): r[j] = q[i]
  <2>1. i - k \in 1..(n - k) /\ k + (i - k) = i
    BY <1>1
  <2> QED BY <1>2, <2>1
<1>6. Sorted(r, R, key)
  <2>1. \A s \in R: \E j \in 1..(n - k): r[j] = s
    BY <1>5
  <2> HIDE DEF R
  <2> QED BY <1>2, <1>3, <1>4, <2>1 DEF Sorted
<1> QED BY <1>6 DEF r, n

\* Without the first one.
LEMMA SortedTail ==
    ASSUME NEW S, NEW key, \A s \in S: key[s] \in Nat, NEW q, Sorted(q, S, key), q # <<>>
    PROVE  /\ Head(q) = q[1] /\ q[1] \in S
           /\ \A s \in S \ {q[1]}: key[q[1]] < key[s]
           /\ Sorted(Tail(q), S \ {q[1]}, key)
<1> DEFINE n == Len(q)
<1>1. q \in Seq(S) /\ n \in Nat \ {0} /\ DOMAIN q = 1..n /\ Head(q) = q[1] /\ q[1] \in S
  BY EmptySeq, LenProperties, HeadTailProperties DEF Sorted
<1>2. \A s \in S \ {q[1]}: \E i \in 2..n: s = q[i]
  <2> SUFFICES ASSUME NEW s \in S, s # q[1]
               PROVE  \E i \in 2..n: s = q[i]
    OBVIOUS
  <2>1. PICK i \in 1..n: q[i] = s
    BY <1>1 DEF Sorted
  <2>2. i \in 2..n
    BY <1>1, <2>1
  <2> QED BY <2>1, <2>2
<1>3. \A i \in 2..n: key[q[1]] < key[q[i]] /\ q[i] \in S
  <2> TAKE i \in 2..n
  <2>1. 1 \in 1..n /\ i \in 1..n /\ 1 < i
    BY <1>1
  <2> QED BY <1>1, <2>1, ElementOfSeq DEF Sorted
<1>4. S \ {q[1]} = {q[i]: i \in 2..n}
  <2>1. \A i \in 2..n: q[i] # q[1]
    <3> TAKE i \in 2..n
    <3>1. key[q[1]] \in Nat /\ key[q[1]] < key[q[i]]
      BY <1>1, <1>3
    <3> QED BY <3>1
  <2> QED BY <1>2, <1>3, <2>1
<1>5. Sorted(SubSeq(q, 1 + 1, n), {q[i]: i \in (1 + 1)..n}, key)
  <2>1. 1 \in 0..Len(q)
    BY <1>1
  <2> QED BY <2>1, SortedSuffix
<1>6. Tail(q) = SubSeq(q, 2, n) /\ 1 + 1 = 2
  BY <1>1, TailIsSubSeq
<1> QED BY <1>1, <1>2, <1>3, <1>4, <1>5, <1>6

\* With one more element, whose key is the largest.
LEMMA SortedAppend ==
    ASSUME NEW S, NEW key, NEW q, Sorted(q, S, key), NEW s, NEW new,
           \A t \in S: new[t] = key[t] /\ new[t] < new[s]
    PROVE  Sorted(Append(q, s), S \cup {s}, new)
<1> DEFINE n == Len(q)
           p == Append(q, s)
           T == S \cup {s}
<1>1. q \in Seq(T) /\ n \in Nat /\ DOMAIN q = 1..n /\ \A i \in 1..n: q[i] \in S
  BY SeqMonotonic, LenProperties, ElementOfSeq DEF Sorted
<1>2. /\ p \in Seq(T) /\ Len(p) = n + 1
      /\ \A i \in 1..n: p[i] = q[i]
      /\ p[n + 1] = s
  BY <1>1, AppendProperties
<1>3. DOMAIN p = 1..(n + 1)
  BY <1>2
<1> HIDE DEF p, n
<1>4. \A i \in 1..(n + 1): i \in 1..n \/ i = n + 1
  BY <1>1
<1>5. ASSUME NEW i \in 1..(n + 1), NEW j \in 1..(n + 1), i < j
      PROVE  new[p[i]] < new[p[j]]
  <2>1. i \in 1..n
    BY <1>1, <1>5
  <2>2. CASE j \in 1..n
    <3>1. key[q[i]] < key[q[j]]
      BY <1>1, <1>5, <2>1, <2>2 DEF Sorted
    <3> QED BY <1>1, <1>2, <2>1, <2>2, <3>1
  <2>3. CASE j = n + 1
    BY <1>1, <1>2, <2>1, <2>3
  <2> QED BY <1>4, <2>2, <2>3
<1>6. ASSUME NEW t \in T
      PROVE  \E i \in 1..(n + 1): p[i] = t
  <2>1. CASE t = s
    <3>1. n + 1 \in 1..(n + 1)
      BY <1>1
    <3> QED BY <1>2, <2>1, <3>1
  <2>2. CASE t \in S
    <3>1. PICK i \in 1..n: q[i] = t
      BY <1>1, <2>2 DEF Sorted
    <3>2. i \in 1..(n + 1)
      BY <1>1
    <3> QED BY <1>2, <3>1, <3>2
  <2> QED BY <2>1, <2>2
<1> QED BY <1>2, <1>3, <1>5, <1>6 DEF Sorted, p

-----------------------------------------------------------------------------
\* The queue that a list q of buffers makes.
Content(m, st, s) == [msg |-> m[s], stamp |-> st[s]]
Contents(S, m, st) == {Content(m, st, s): s \in S}
Listed(q, m, st) == [i \in DOMAIN q |-> Content(m, st, q[i])]

\* It is a sequence as long as q.
LEMMA ListedSeq ==
    ASSUME NEW S, NEW q \in Seq(S), NEW m, NEW st
    PROVE  /\ Listed(q, m, st) \in Seq(Contents(S, m, st))
           /\ Len(Listed(q, m, st)) = Len(q)
           /\ DOMAIN Listed(q, m, st) = 1..Len(q)
           /\ \A i \in 1..Len(q): Listed(q, m, st)[i] = Content(m, st, q[i])
<1> DEFINE n == Len(q)
           l == Listed(q, m, st)
           C == Contents(S, m, st)
<1>1. n \in Nat /\ DOMAIN q = 1..n /\ \A i \in 1..n: q[i] \in S
  BY LenProperties, ElementOfSeq
<1>2. l = [i \in 1..n |-> Content(m, st, q[i])]
  BY <1>1 DEF Listed
<1>3. l \in [1..n -> C]
  BY <1>1, <1>2 DEF Contents
<1>4. l \in Seq(C) /\ Len(l) = n
  <2> HIDE DEF l, C, n
  <2> QED BY <1>1, <1>3
<1> QED BY <1>1, <1>2, <1>4

\* A suffix of the queue lists a suffix of the buffers.
LEMMA ListedSuffix ==
    ASSUME NEW S, NEW q \in Seq(S), NEW m, NEW st, NEW k \in 0..Len(q)
    PROVE  SubSeq(Listed(q, m, st), k + 1, Len(q)) = Listed(SubSeq(q, k + 1, Len(q)), m, st)
<1> DEFINE n == Len(q)
           l == Listed(q, m, st)
           C == Contents(S, m, st)
           r == SubSeq(q, k + 1, n)
           lr == SubSeq(l, k + 1, n)
<1>1. n \in Nat /\ k \in Nat /\ k <= n /\ \A i \in 1..n: q[i] \in S
  BY LenProperties, ElementOfSeq
<1>2. l \in Seq(C) /\ Len(l) = n /\ \A i \in 1..n: l[i] = Content(m, st, q[i]) /\ l[i] \in C
  <2>1. l \in Seq(C) /\ Len(l) = n /\ \A i \in 1..n: l[i] = Content(m, st, q[i])
    BY ListedSeq
  <2> HIDE DEF l, C
  <2> QED BY <1>1, <2>1, ElementOfSeq
<1>3. \A i \in (k + 1)..n: i \in 1..n
  BY <1>1
<1> HIDE DEF l, C, n
<1>4. /\ r \in Seq(S) /\ Len(r) = n - k
      /\ \A i \in 1..(n - k): r[i] = q[k + i]
  <2>1. /\ r \in Seq(S) /\ Len(r) = IF k + 1 <= n THEN n - (k + 1) + 1 ELSE 0
        /\ \A i \in 1..(n - (k + 1) + 1): r[i] = q[(k + 1) + i - 1]
    <3>1. k + 1 \in Int /\ n \in Int
      BY <1>1
    <3> QED BY <1>1, <1>3, <3>1, SubSeqProperties
  <2>2. n - (k + 1) + 1 = n - k /\ Len(r) = n - k
    BY <1>1, <2>1
  <2>3. \A i \in 1..(n - k): (k + 1) + i - 1 = k + i
    BY <1>1
  <2> QED BY <2>1, <2>2, <2>3
<1>5. /\ lr \in Seq(C) /\ Len(lr) = n - k
      /\ \A i \in 1..(n - k): lr[i] = l[k + i]
  <2>1. /\ lr \in Seq(C) /\ Len(lr) = IF k + 1 <= n THEN n - (k + 1) + 1 ELSE 0
        /\ \A i \in 1..(n - (k + 1) + 1): lr[i] = l[(k + 1) + i - 1]
    <3>1. k + 1 \in Int /\ n \in Int
      BY <1>1
    <3> QED BY <1>2, <1>3, <3>1, SubSeqProperties
  <2>2. n - (k + 1) + 1 = n - k /\ Len(lr) = n - k
    BY <1>1, <2>1
  <2>3. \A i \in 1..(n - k): (k + 1) + i - 1 = k + i
    BY <1>1
  <2> QED BY <2>1, <2>2, <2>3
<1> HIDE DEF r, lr
<1>6. /\ Listed(r, m, st) \in Seq(C) /\ Len(Listed(r, m, st)) = n - k
      /\ \A i \in 1..(n - k): Listed(r, m, st)[i] = Content(m, st, r[i])
  BY <1>4, ListedSeq DEF C
<1>7. \A i \in 1..(n - k): lr[i] = Listed(r, m, st)[i]
  <2> TAKE i \in 1..(n - k)
  <2>1. k + i \in 1..n
    BY <1>1
  <2> QED BY <1>2, <1>4, <1>5, <1>6, <2>1
<1>8. lr = Listed(r, m, st)
  BY <1>5, <1>6, <1>7, SeqEqual
<1> QED BY <1>8 DEF lr, l, r, n

\* Without its head the queue lists the buffers without the first.
LEMMA ListedTail ==
    ASSUME NEW S, NEW q \in Seq(S), q # <<>>, NEW m, NEW st
    PROVE  /\ Listed(q, m, st) # <<>>
           /\ Head(Listed(q, m, st)) = Content(m, st, q[1])
           /\ Tail(Listed(q, m, st)) = Listed(Tail(q), m, st)
<1> DEFINE l == Listed(q, m, st)
<1>1. Len(q) \in Nat \ {0} /\ 1 \in 0..Len(q) /\ 1 \in 1..Len(q)
  BY EmptySeq
<1>2. /\ l \in Seq(Contents(S, m, st)) /\ Len(l) = Len(q)
      /\ l[1] = Content(m, st, q[1])
  BY <1>1, ListedSeq
<1> HIDE DEF l
<1>3. l # <<>> /\ Head(l) = l[1]
  BY <1>1, <1>2
<1>4. Tail(l) = SubSeq(l, 2, Len(q)) /\ Tail(q) = SubSeq(q, 2, Len(q)) /\ 1 + 1 = 2
  BY <1>2, <1>3, TailIsSubSeq
<1>5. Tail(l) = Listed(Tail(q), m, st)
  <2>1. SubSeq(l, 1 + 1, Len(q)) = Listed(SubSeq(q, 1 + 1, Len(q)), m, st)
    BY <1>1, ListedSuffix DEF l
  <2> QED BY <1>4, <2>1
<1> QED BY <1>2, <1>3, <1>5 DEF l

\* A message more is a buffer more.
LEMMA ListedAppend ==
    ASSUME NEW S, NEW q \in Seq(S), NEW m, NEW st, NEW s \in S
    PROVE  Append(Listed(q, m, st), Content(m, st, s)) = Listed(Append(q, s), m, st)
<1> DEFINE n == Len(q)
           l == Listed(q, m, st)
           C == Contents(S, m, st)
           a == Append(l, Content(m, st, s))
           b == Listed(Append(q, s), m, st)
<1>1. n \in Nat
  OBVIOUS
<1>2. l \in Seq(C) /\ Len(l) = n /\ \A i \in 1..n: l[i] = Content(m, st, q[i])
  BY ListedSeq
<1>3. Content(m, st, s) \in C
  BY DEF Contents
<1> HIDE DEF l, C, n
<1>4. /\ a \in Seq(C) /\ Len(a) = n + 1
      /\ \A i \in 1..n: a[i] = l[i]
      /\ a[n + 1] = Content(m, st, s)
  BY <1>2, <1>3, AppendProperties
<1>5. /\ Append(q, s) \in Seq(S) /\ Len(Append(q, s)) = n + 1
      /\ \A i \in 1..n: Append(q, s)[i] = q[i]
      /\ Append(q, s)[n + 1] = s
  BY AppendProperties DEF n
<1>6. /\ b \in Seq(C) /\ Len(b) = n + 1
      /\ \A i \in 1..(n + 1): b[i] = Content(m, st, Append(q, s)[i])
  <2> DEFINE p == Append(q, s)
  <2>1. p \in Seq(S) /\ Len(p) = n + 1
    BY <1>5
  <2> HIDE DEF p
  <2>2. /\ Listed(p, m, st) \in Seq(Contents(S, m, st))
        /\ Len(Listed(p, m, st)) = n + 1
        /\ \A i \in 1..(n + 1): Listed(p, m, st)[i] = Content(m, st, p[i])
    BY <2>1, ListedSeq
  <2> QED BY <2>2 DEF p, C
<1> HIDE DEF a, b
<1>7. \A i \in 1..(n + 1): a[i] = b[i]
  <2> TAKE i \in 1..(n + 1)
  <2>1. CASE i = n + 1
    BY <1>4, <1>5, <1>6, <2>1
  <2>2. CASE i # n + 1
    <3>1. i \in 1..n
      BY <1>1, <2>2
    <3> QED BY <1>2, <1>4, <1>5, <1>6, <3>1
  <2> QED BY <2>1, <2>2
<1>8. a = b
  BY <1>4, <1>6, <1>7, SeqEqual
<1> QED BY <1>8 DEF a, b, l

-----------------------------------------------------------------------------
\* Where the buffers of a list did not change, neither did what it lists.
LEMMA ListedSame ==
    ASSUME NEW S, NEW q \in Seq(S), NEW m, NEW st, NEW mm, NEW stt,
           \A s \in S: mm[s] = m[s] /\ stt[s] = st[s]
    PROVE  Listed(q, mm, stt) = Listed(q, m, st)
<1>1. \A i \in DOMAIN q: q[i] \in S
  BY LenProperties, ElementOfSeq
<1> QED BY <1>1 DEF Listed, Content

\* From the first element on that belongs to it, an upper part of 1..n is all
\* of 1..n.
LEMMA UpperPart ==
    ASSUME NEW n \in Nat, NEW V \in SUBSET (1..n),
           \A i \in V, j \in 1..n: i <= j => j \in V
    PROVE  \E k \in 0..n: \A i \in 1..n: i \in V <=> i > k
<1>1. CASE V = {}
  <2>1. n \in 0..n /\ \A i \in 1..n: ~ i > n
    OBVIOUS
  <2> QED BY <1>1, <2>1
<1>2. CASE V # {}
  <2>1. PICK m \in V: \A j \in V: m <= j
    <3>1. V \in SUBSET Nat
      OBVIOUS
    <3> QED BY <1>2, <3>1, LeastNatural
  <2>2. m - 1 \in 0..n /\ \A i \in 1..n: i > m - 1 <=> m <= i
    OBVIOUS
  <2> QED BY <2>1, <2>2
<1> QED BY <1>1, <1>2

-----------------------------------------------------------------------------
\* The buffers of an entity in the order of their timestamps.
Order(e) == OrderOf(Owned(e), stamp)

\* What the queue of an entity is, once its buffers are sorted.
LEMMA QueueOfSorted ==
    ASSUME NEW S, NEW key, \A s \in S: key[s] \in Nat, NEW m, NEW q, Sorted(q, S, key)
    PROVE  [i \in DOMAIN OrderOf(S, key) |->
              [msg |-> m[OrderOf(S, key)[i]], stamp |-> key[OrderOf(S, key)[i]]]]
           = Listed(q, m, key)
BY SortedIsOrder DEF Listed, Content

\* The queue of an entity lists its buffers in that order.
LEMMA QueueNow ==
    ASSUME TypeOK, ArrivalOrder, DistinctStamps, NEW e \in Entities
    PROVE  /\ Sorted(Order(e), Owned(e), stamp)
           /\ Order(e) \in Seq(Owned(e)) /\ Len(Order(e)) = Count(e)
           /\ QueueOf(e) = Listed(Order(e), msg, stamp)
           /\ Len(QueueOf(e)) = Count(e) /\ DOMAIN QueueOf(e) = 1..Count(e)
           /\ Count(e) \in Nat
<1>1. IsFiniteSet(inUse) /\ \A s \in inUse: stamp[s] \in Nat
  BY FS_Subset, InputAssumption DEF TypeOK
<1>2. \A s, t \in inUse: s # t => stamp[s] # stamp[t]
  <2> SUFFICES ASSUME NEW s \in inUse, NEW t \in inUse, s # t
               PROVE  stamp[s] # stamp[t]
    OBVIOUS
  <2>1. msg[s] \in Nat /\ msg[t] \in Nat /\ msg[s] # msg[t]
    BY DEF TypeOK, ArrivalOrder
  <2>2. msg[s] < msg[t] \/ msg[t] < msg[s]
    BY <2>1
  <2>3. stamp[s] < stamp[t] \/ stamp[t] < stamp[s]
    BY <2>2 DEF ArrivalOrder
  <2> QED BY <1>1, <2>3
<1>3. Owned(e) \in SUBSET inUse
  BY DEF Owned
<1>4. PICK q: Sorted(q, Owned(e), stamp)
  BY <1>1, <1>2, <1>3, SortedExists
<1>5. \A s \in Owned(e): stamp[s] \in Nat
  BY <1>1, <1>3
<1>6. Order(e) = q /\ Cardinality(Owned(e)) = Len(q)
  BY <1>4, <1>5, SortedIsOrder DEF Order
<1>7. QueueOf(e) = Listed(q, msg, stamp)
  <2>1. OrderOf(Owned(e), stamp) = q
    BY <1>6 DEF Order
  <2> QED BY <2>1 DEF QueueOf, Listed, Content
<1>8. q \in Seq(Owned(e))
  BY <1>4 DEF Sorted
<1> QED BY <1>4, <1>6, <1>7, <1>8, ListedSeq DEF Count

\* The same after a step.
LEMMA QueueAfter ==
    ASSUME TypeOK', NEW e \in Entities, NEW q, Sorted(q, Owned(e)', stamp')
    PROVE  QueueOf(e)' = Listed(q, msg', stamp')
<1>1. \A s \in Owned(e)': stamp'[s] \in Nat
  BY DEF TypeOK, Owned
<1> QED BY <1>1, QueueOfSorted DEF QueueOf

\* A step that does not touch the buffers of an entity leaves its queue alone.
LEMMA QueueKept ==
    ASSUME TypeOK, ArrivalOrder, DistinctStamps, TypeOK', NEW e \in Entities,
           Owned(e)' = Owned(e),
           \A s \in Owned(e): stamp'[s] = stamp[s] /\ msg'[s] = msg[s]
    PROVE  QueueOf(e)' = QueueOf(e)
<1> DEFINE q == Order(e)
<1>1. q \in Seq(Owned(e)) /\ Sorted(q, Owned(e), stamp) /\ QueueOf(e) = Listed(q, msg, stamp)
  BY QueueNow
<1>2. \A i \in DOMAIN q: q[i] \in Owned(e)
  BY <1>1, LenProperties, ElementOfSeq
<1> HIDE DEF q
<1>3. Sorted(q, Owned(e)', stamp')
  BY <1>1, <1>2 DEF Sorted
<1>4. Listed(q, msg', stamp') = Listed(q, msg, stamp)
  BY <1>1, ListedSame
<1> QED BY <1>1, <1>3, <1>4, QueueAfter

\* The buffer find_by_owner chooses is the head of the queue.
LEMMA QueueHead ==
    ASSUME TypeOK, ArrivalOrder, DistinctStamps, NEW e \in Entities, Owned(e) # {}
    PROVE  /\ OldestOf(e) \in Owned(e)
           /\ Sorted(Tail(Order(e)), Owned(e) \ {OldestOf(e)}, stamp)
           /\ QueueOf(e) # <<>>
           /\ Head(QueueOf(e)).msg = msg[OldestOf(e)]
           /\ Tail(QueueOf(e)) = Listed(Tail(Order(e)), msg, stamp)
<1> DEFINE q == Order(e)
           s == OldestOf(e)
<1>1. /\ Sorted(q, Owned(e), stamp) /\ q \in Seq(Owned(e))
      /\ QueueOf(e) = Listed(q, msg, stamp)
  BY QueueNow
<1>2. s \in Owned(e) /\ \A t \in Owned(e): Preferred(s, t)
  BY OldestIsOwned
<1>3. \A t \in Owned(e): stamp[t] \in Nat
  BY DEF TypeOK, Owned
<1> HIDE DEF q, s
<1>4. q # <<>>
  BY <1>1, <1>2 DEF Sorted
<1>5. /\ q[1] \in Owned(e)
      /\ \A t \in Owned(e) \ {q[1]}: stamp[q[1]] < stamp[t]
      /\ Sorted(Tail(q), Owned(e) \ {q[1]}, stamp)
  BY <1>1, <1>3, <1>4, SortedTail
<1>6. s = q[1]
  <2>1. stamp[s] <= stamp[q[1]]
    BY <1>2, <1>3, <1>5 DEF Preferred
  <2> QED BY <1>2, <1>3, <1>5, <2>1
<1>7. /\ QueueOf(e) # <<>>
      /\ Head(QueueOf(e)) = Content(msg, stamp, q[1])
      /\ Tail(QueueOf(e)) = Listed(Tail(q), msg, stamp)
  BY <1>1, <1>4, ListedTail
<1> QED BY <1>2, <1>5, <1>6, <1>7 DEF Content, q, s

\* Taking it away leaves the rest of the queue.
LEMMA QueueShifts ==
    ASSUME TypeOK, ArrivalOrder, DistinctStamps, TypeOK', NEW e \in Entities,
           Owned(e) # {}, Owned(e)' = Owned(e) \ {OldestOf(e)},
           UNCHANGED <<stamp, msg>>
    PROVE  QueueOf(e)' = Tail(QueueOf(e))
<1>1. Sorted(Tail(Order(e)), Owned(e)', stamp')
  BY QueueHead
<1>2. QueueOf(e)' = Listed(Tail(Order(e)), msg', stamp')
  BY <1>1, QueueAfter
<1> QED BY <1>2, QueueHead

\* A buffer filled now is the last of its queue.
LEMMA QueueGains ==
    ASSUME TypeOK', NEW e \in Entities,
           NEW S, NEW q, Sorted(q, S, stamp), NEW s, s \notin S,
           \A t \in S: stamp'[t] = stamp[t] /\ msg'[t] = msg[t] /\ stamp[t] < now,
           Owned(e)' = S \cup {s}, stamp'[s] = now, msg'[s] = arrived + 1
    PROVE  QueueOf(e)' = Append(Listed(q, msg, stamp), Queues!Message)
<1> DEFINE T == S \cup {s}
<1>1. q \in Seq(S) /\ q \in Seq(T)
  BY SeqMonotonic DEF Sorted
<1>2. Sorted(Append(q, s), Owned(e)', stamp')
  BY SortedAppend
<1>3. QueueOf(e)' = Listed(Append(q, s), msg', stamp')
  BY <1>2, QueueAfter
<1>4. Listed(Append(q, s), msg', stamp')
        = Append(Listed(q, msg', stamp'), Content(msg', stamp', s))
  <2>1. s \in T
    OBVIOUS
  <2> HIDE DEF T
  <2> QED BY <1>1, <2>1, ListedAppend
<1>5. Listed(q, msg', stamp') = Listed(q, msg, stamp)
  BY <1>1, ListedSame
<1>6. Content(msg', stamp', s) = Queues!Message
  BY DEF Content, Queues!Message
<1> QED BY <1>3, <1>4, <1>5, <1>6

\* A step on the queue of one entity.
LEMMA OneQueue ==
    ASSUME NEW e \in Entities, NEW x, QueueOf(e)' = x,
           \A f \in Entities: f # e => QueueOf(f)' = QueueOf(f)
    PROVE  [f \in Entities |-> QueueOf(f)]'
             = [[f \in Entities |-> QueueOf(f)] EXCEPT ![e] = x]
OBVIOUS

\* The queues hold as many messages as there are buffers in use.
LEMMA StoredIsInUse ==
    ASSUME TypeOK, ArrivalOrder, DistinctStamps
    PROVE  Queues!Stored = Cardinality(inUse)
<1> DEFINE P == UNION {{e} \X (1..Count(e)): e \in Entities}
           g == [p \in P |-> Order(p[1])[p[2]]]
<1>1. Queues!Stored = Cardinality(P)
  <2> DEFINE F == [e \in Entities |-> QueueOf(e)]
  <2>1. \A e \in Entities: DOMAIN F[e] = 1..Count(e)
    BY QueueNow
  <2>2. UNION {{e} \X DOMAIN F[e]: e \in Entities} = P
    <3> HIDE DEF F
    <3> QED BY <2>1
  <2> QED BY <2>2 DEF Queues!Stored, Queues!Cardinality, Cardinality
<1>2. ASSUME NEW p \in P
      PROVE  p[1] \in Entities /\ p[2] \in 1..Count(p[1]) /\ p = <<p[1], p[2]>>
  <2>1. PICK e \in Entities: p \in {e} \X (1..Count(e))
    OBVIOUS
  <2> QED BY <2>1
<1>3. \A e \in Entities: \A i \in 1..Count(e): <<e, i>> \in P
  OBVIOUS
<1> HIDE DEF P
<1>4. \A e \in Entities: /\ DOMAIN Order(e) = 1..Count(e)
                         /\ \A i \in 1..Count(e): Order(e)[i] \in Owned(e)
  BY QueueNow, LenProperties, ElementOfSeq
<1>5. \A p \in P: g[p] \in inUse /\ owner[g[p]] = p[1]
  BY <1>2, <1>4 DEF Owned
<1>6. ASSUME NEW p \in P, NEW r \in P, g[p] = g[r]
      PROVE  p = r
  <2>1. p[1] = r[1]
    BY <1>5, <1>6
  <2>2. Order(p[1])[p[2]] = Order(p[1])[r[2]]
    BY <1>6, <2>1
  <2>3. /\ p[2] \in DOMAIN Order(p[1]) /\ r[2] \in DOMAIN Order(p[1])
        /\ p[2] \in Nat /\ r[2] \in Nat
    <3>1. /\ p[1] \in Entities /\ p[2] \in 1..Count(p[1]) /\ r[2] \in 1..Count(p[1])
          /\ Count(p[1]) \in Nat
      BY <1>2, <2>1, QueueNow
    <3> QED BY <1>4, <3>1
  <2>4. Sorted(Order(p[1]), Owned(p[1]), stamp)
    BY <1>2, QueueNow
  <2>5. stamp[Order(p[1])[p[2]]] \in Nat
    BY <1>2, <1>4 DEF Owned, TypeOK
  <2>6. ~ (p[2] < r[2]) /\ ~ (r[2] < p[2])
    BY <2>2, <2>3, <2>4, <2>5 DEF Sorted
  <2> QED BY <1>2, <2>1, <2>3, <2>6
<1>7. ASSUME NEW s \in inUse
      PROVE  \E p \in P: g[p] = s
  <2>1. owner[s] \in Entities /\ s \in Owned(owner[s])
    BY DEF TypeOK, Owned
  <2>2. PICK i \in DOMAIN Order(owner[s]): Order(owner[s])[i] = s
    BY <2>1, QueueNow DEF Sorted
  <2>3. <<owner[s], i>> \in P
    <3>1. i \in 1..Count(owner[s])
      BY <1>4, <2>1
    <3> QED BY <1>3, <2>1, <3>1
  <2>4. <<owner[s], i>>[1] = owner[s] /\ <<owner[s], i>>[2] = i
    OBVIOUS
  <2>5. g[<<owner[s], i>>] = s
    BY <2>2, <2>3, <2>4
  <2> QED BY <2>3, <2>5
<1> DEFINE h == [s \in inUse |-> CHOOSE p \in P: g[p] = s]
<1>8. \A s \in inUse: h[s] \in P /\ g[h[s]] = s
  <2> HIDE DEF g
  <2> QED BY <1>7
<1>9. h \in Bijection(inUse, P)
  <2>1. h \in [inUse -> P] /\ \A s, t \in inUse: h[s] = h[t] => s = t
    <3> HIDE DEF g
    <3> QED BY <1>8
  <2>2. \A p \in P: g[p] \in inUse /\ h[g[p]] = p
    <3> HIDE DEF g, h
    <3> QED BY <1>5, <1>6, <1>8
  <2> HIDE DEF g, h
  <2>3. h \in Injection(inUse, P)
    BY <2>1 DEF Injection, IsInjective
  <2>4. h \in Surjection(inUse, P)
    BY <2>1, <2>2 DEF Surjection
  <2> QED BY <2>3, <2>4 DEF Bijection
<1> HIDE DEF g, h
<1>10. Cardinality(P) = Cardinality(inUse)
  <2>1. IsFiniteSet(inUse)
    BY FS_Subset, InputAssumption DEF TypeOK
  <2>2. ExistsBijection(inUse, P)
    BY <1>9 DEF ExistsBijection
  <2> QED BY <2>1, <2>2, FS_Bijection
<1> QED BY <1>1, <1>10

-----------------------------------------------------------------------------
\* A queue is full when the history QoS forbids another buffer.
LEMMA FullOrGrow ==
    ASSUME TypeOK, ArrivalOrder, DistinctStamps, NEW e \in Entities
    PROVE  Queues!Full(e) <=> ~ MayGrow(e)
<1> DEFINE F == [f \in Entities |-> QueueOf(f)]
<1>1. Len(F[e]) = Count(e) /\ Count(e) \in Nat /\ Depth[e] \in Nat
  BY QueueNow, InputAssumption
<1>2. Queues!Full(e) <=> Depth[e] # 0 /\ Len(F[e]) >= Depth[e]
  BY DEF Queues!Full
<1> HIDE DEF F
<1> QED BY <1>1, <1>2 DEF MayGrow

\* There is room while the pool has a free buffer.
LEMMA RoomLeft ==
    ASSUME TypeOK, ArrivalOrder, DistinctStamps
    PROVE  /\ Slots \ inUse # {} => Queues!Stored < Cardinality(Slots)
           /\ Slots \ inUse = {} => Queues!Stored >= Cardinality(Slots)
<1>1. /\ inUse \in SUBSET Slots /\ IsFiniteSet(Slots) /\ IsFiniteSet(inUse)
      /\ Cardinality(Slots) \in Nat /\ Cardinality(inUse) \in Nat
  BY FS_Subset, FS_CardinalityType, InputAssumption DEF TypeOK
<1>2. Cardinality(inUse) <= Cardinality(Slots)
      /\ (Cardinality(inUse) = Cardinality(Slots) => inUse = Slots)
  BY <1>1, FS_Subset
<1>3. Slots \ inUse = {} => inUse = Slots
  BY <1>1
<1>4. Slots \ inUse # {} => inUse # Slots
  OBVIOUS
<1> QED BY <1>1, <1>2, <1>3, <1>4, StoredIsInUse

\* A full history QoS means the entity has a buffer.
LEMMA FullIsOwner ==
    ASSUME TypeOK, NEW e \in Entities, ~ MayGrow(e)
    PROVE  Owned(e) # {}
<1>1. Cardinality({}) = 0 /\ Depth[e] \in Nat
  BY FS_EmptySet, InputAssumption
<1> QED BY <1>1 DEF MayGrow, Count

\* A callback without a buffer refuses the message.
LEMMA RejectIsRefuse ==
    ASSUME TypeOK, ArrivalOrder, DistinctStamps, TypeOK', NEW e \in Entities, Reject(e)
    PROVE  Queues!Refuse(e)
<1>1. History[e] \in {"keep_last", "keep_all", "unsupported"}
  BY InputAssumption
<1>2. [f \in Entities |-> QueueOf(f)]' = [f \in Entities |-> QueueOf(f)]
  <2>1. \A f \in Entities: QueueOf(f)' = QueueOf(f)
    <3> TAKE f \in Entities
    <3>1. Owned(f)' = Owned(f) /\ UNCHANGED <<stamp, msg>>
      BY DEF Reject, pool, Owned
    <3> QED BY <3>1, QueueKept
  <2> QED BY <2>1
<1>3. CASE History[e] # "unsupported" /\ MayGrow(e)
  <2>1. Slots \ inUse = {}
    BY <1>3 DEF Reject, BufferFor
  <2>2. Queues!Stored >= Cardinality(Slots)
    BY <2>1, RoomLeft
  <2>3. ~ Queues!Full(e)
    BY <1>3, FullOrGrow
  <2> QED BY <1>2, <2>2, <2>3 DEF Queues!Refuse, Queues!Cardinality, Cardinality
<1>4. CASE History[e] = "keep_last" /\ ~ MayGrow(e)
  <2>1. OldestOf(e) \in BufferFor(e)
    BY <1>4, FullIsOwner, OldestIsOwned DEF BufferFor
  <2> QED BY <2>1 DEF Reject
<1>5. CASE History[e] = "keep_all" /\ ~ MayGrow(e)
  BY <1>2, <1>5, FullOrGrow DEF Queues!Refuse
<1>6. CASE History[e] = "unsupported"
  BY <1>2, <1>6 DEF Queues!Refuse
<1> QED BY <1>1, <1>3, <1>4, <1>5, <1>6

\* A callback that fills a buffer puts its message last; a reused buffer was
\* the first.
LEMMA FillIsAccept ==
    ASSUME TypeOK, ArrivalOrder, DistinctStamps, TypeOK', NEW e \in Entities,
           \A s \in inUse: stamp[s] < now, NEW s \in BufferFor(e), Fill(e, s)
    PROVE  Queues!Accept(e) \/ Queues!Displace(e)
<1>1. s \in Slots /\ (s \in inUse => owner[s] = e)
  BY BufferForSlots DEF Owned
<1>2. /\ inUse' = inUse \cup {s}
      /\ owner'[s] = e /\ stamp'[s] = now /\ msg'[s] = arrived + 1
      /\ \A t \in inUse: t # s => /\ owner'[t] = owner[t]
                                  /\ stamp'[t] = stamp[t] /\ msg'[t] = msg[t]
  BY <1>1 DEF Fill, TypeOK
<1>3. \A f \in Entities: f # e => QueueOf(f)' = QueueOf(f)
  <2> SUFFICES ASSUME NEW f \in Entities, f # e
               PROVE  QueueOf(f)' = QueueOf(f)
    OBVIOUS
  <2>1. \A t \in Owned(f): t # s
    BY <1>1 DEF Owned
  <2>2. Owned(f)' = Owned(f)
    BY <1>1, <1>2, <2>1 DEF Owned
  <2>3. \A t \in Owned(f): stamp'[t] = stamp[t] /\ msg'[t] = msg[t]
    BY <1>2, <2>1 DEF Owned
  <2> QED BY <2>2, <2>3, QueueKept
<1>4. \A t \in Owned(e) \ {s}: /\ stamp'[t] = stamp[t] /\ msg'[t] = msg[t]
                               /\ stamp[t] < now
  BY <1>2 DEF Owned
<1>5. Owned(e)' = (Owned(e) \ {s}) \cup {s}
  BY <1>2 DEF Owned
<1> DEFINE F == [f \in Entities |-> QueueOf(f)]
<1>6. F[e] = QueueOf(e)
  OBVIOUS
<1>7. CASE s \in Slots \ inUse /\ History[e] # "unsupported" /\ MayGrow(e)
  <2>1. s \notin Owned(e) /\ Owned(e) \ {s} = Owned(e)
    BY <1>7 DEF Owned
  <2>2. QueueOf(e)' = Append(QueueOf(e), Queues!Message)
    BY <1>2, <1>4, <1>5, <2>1, QueueNow, QueueGains
  <2>3. F' = [F EXCEPT ![e] = Append(F[e], Queues!Message)]
    BY <1>3, <1>6, <2>2, OneQueue
  <2>4. History[e] \in {"keep_last", "keep_all"}
    BY <1>7, InputAssumption
  <2>5. ~ Queues!Full(e) /\ Queues!Stored < Cardinality(Slots)
    BY <1>7, FullOrGrow, RoomLeft
  <2> QED BY <2>3, <2>4, <2>5 DEF Queues!Accept, Queues!Cardinality, Cardinality
<1>8. CASE s = OldestOf(e) /\ History[e] = "keep_last" /\ ~ MayGrow(e)
  <2>1. /\ Sorted(Tail(Order(e)), Owned(e) \ {s}, stamp)
        /\ Tail(QueueOf(e)) = Listed(Tail(Order(e)), msg, stamp)
    BY <1>8, FullIsOwner, QueueHead
  <2>2. QueueOf(e)' = Append(Tail(QueueOf(e)), Queues!Message)
    <3> DEFINE S == Owned(e) \ {s}
               q == Tail(Order(e))
    <3>1. /\ Sorted(q, S, stamp) /\ s \notin S
          /\ \A t \in S: stamp'[t] = stamp[t] /\ msg'[t] = msg[t] /\ stamp[t] < now
          /\ Owned(e)' = S \cup {s}
      BY <1>4, <1>5, <2>1
    <3> HIDE DEF S
    <3>2. QueueOf(e)' = Append(Listed(q, msg, stamp), Queues!Message)
      <4> HIDE DEF q
      <4> QED BY <1>2, <3>1, QueueGains
    <3> QED BY <2>1, <3>2
  <2>3. F' = [F EXCEPT ![e] = Append(Tail(F[e]), Queues!Message)]
    BY <1>3, <1>6, <2>2, OneQueue
  <2> QED BY <1>8, <2>3, FullOrGrow DEF Queues!Displace
<1> QED BY <1>7, <1>8 DEF BufferFor

\* A callback that puts the buffer back loses the message, and the oldest of a
\* full keep-last queue.
LEMMA PutBackIsCorrupt ==
    ASSUME TypeOK, ArrivalOrder, DistinctStamps, TypeOK', NEW e \in Entities,
           NEW s \in BufferFor(e), PutBack(s)
    PROVE  Queues!Corrupt(e)
<1>1. s \in inUse => owner[s] = e
  BY BufferForSlots DEF Owned
<1>2. inUse' = inUse \ {s} /\ UNCHANGED <<owner, stamp, msg>>
  BY DEF PutBack
<1>3. \A f \in Entities: f # e => QueueOf(f)' = QueueOf(f)
  <2> SUFFICES ASSUME NEW f \in Entities, f # e
               PROVE  QueueOf(f)' = QueueOf(f)
    OBVIOUS
  <2>1. Owned(f)' = Owned(f)
    BY <1>1, <1>2 DEF Owned
  <2> QED BY <1>2, <2>1, QueueKept
<1> DEFINE F == [f \in Entities |-> QueueOf(f)]
<1>4. F[e] = QueueOf(e)
  OBVIOUS
<1>5. CASE s \in Slots \ inUse /\ MayGrow(e)
  <2>1. Owned(e)' = Owned(e)
    BY <1>2, <1>5 DEF Owned
  <2>2. QueueOf(e)' = QueueOf(e)
    BY <1>2, <2>1, QueueKept
  <2>3. ~ Queues!Full(e)
    BY <1>5, FullOrGrow
  <2>4. F' = [F EXCEPT ![e] = F[e]]
    BY <1>3, <1>4, <2>2, OneQueue
  <2> QED BY <2>3, <2>4 DEF Queues!Corrupt
<1>6. CASE s = OldestOf(e) /\ History[e] = "keep_last" /\ ~ MayGrow(e)
  <2>1. Owned(e)' = Owned(e) \ {s} /\ Owned(e) # {}
    BY <1>2, <1>6, FullIsOwner DEF Owned
  <2>2. QueueOf(e)' = Tail(QueueOf(e))
    BY <1>2, <1>6, <2>1, QueueShifts
  <2>3. F' = [F EXCEPT ![e] = Tail(F[e])]
    BY <1>3, <1>4, <2>2, OneQueue
  <2> QED BY <1>6, <2>3, FullOrGrow DEF Queues!Corrupt
<1> QED BY <1>5, <1>6 DEF BufferFor

\* A callback is an arrival.
LEMMA StoreIsArrive ==
    ASSUME TypeOK, ArrivalOrder, DistinctStamps, TypeOK', NEW e \in Entities, Store(e)
    PROVE  Queues!Arrive(e)
<1>1. arrived' = arrived + 1 /\ UNCHANGED <<now, lastTaken>>
  BY DEF Store
<1>2. \A s \in inUse: stamp[s] < now
  BY DEF Store
<1>3. CASE Reject(e)
  BY <1>1, <1>3, RejectIsRefuse DEF Queues!Arrive
<1>4. ASSUME NEW s \in BufferFor(e), Fill(e, s)
      PROVE  Queues!Arrive(e)
  BY <1>1, <1>2, <1>4, FillIsAccept DEF Queues!Arrive
<1>5. ASSUME NEW s \in BufferFor(e), PutBack(s)
      PROVE  Queues!Arrive(e)
  BY <1>1, <1>5, PutBackIsCorrupt DEF Queues!Arrive
<1> QED BY <1>3, <1>4, <1>5 DEF Store

\* The second section of a take takes the head of the queue.
LEMMA TakeIsTake ==
    ASSUME TypeOK, ArrivalOrder, DistinctStamps, TypeOK',
           NEW t \in Threads, NEW d \in BOOLEAN, TakeOldest(t, d)
    PROVE  \E e \in Entities: Queues!Take(e)
<1> DEFINE F == [f \in Entities |-> QueueOf(f)]
<1>1. PICK e \in Entities: e = taker[t] /\ Owned(e) # {}
  BY DEF TakeOldest, TypeOK
<1>2. PICK s \in Owned(e): s = OldestOf(e)
  BY <1>1, QueueHead
<1>3. /\ inUse' = inUse \ {s} /\ UNCHANGED <<owner, stamp, msg, now, arrived>>
      /\ lastTaken' \in {lastTaken, [lastTaken EXCEPT ![e] = msg[s]]}
  BY <1>1, <1>2 DEF TakeOldest
<1>4. /\ F[e] = QueueOf(e) /\ QueueOf(e) # <<>>
      /\ Head(QueueOf(e)).msg = msg[s]
  BY <1>1, <1>2, QueueHead
<1>5. \A f \in Entities: f # e => QueueOf(f)' = QueueOf(f)
  <2> SUFFICES ASSUME NEW f \in Entities, f # e
               PROVE  QueueOf(f)' = QueueOf(f)
    OBVIOUS
  <2>1. Owned(f)' = Owned(f)
    BY <1>3 DEF Owned
  <2> QED BY <1>3, <2>1, QueueKept
<1>6. Owned(e)' = Owned(e) \ {s}
  BY <1>3 DEF Owned
<1>7. QueueOf(e)' = Tail(QueueOf(e))
  BY <1>1, <1>2, <1>3, <1>6, QueueShifts
<1>8. F' = [F EXCEPT ![e] = Tail(F[e])]
  BY <1>4, <1>5, <1>7, OneQueue
<1> QED BY <1>3, <1>4, <1>8 DEF Queues!Take

-----------------------------------------------------------------------------
\* The bound that the model sets on the clock.
ClockBounded == now <= MaxTime

\* It holds: every tick and every synchronisation respects it.
LEMMA ClockIsBounded == Spec => []ClockBounded
<1>1. Init => ClockBounded
  BY InputAssumption DEF Init, ClockBounded
<1>2. TypeOK /\ ClockBounded /\ [Next]_vars => ClockBounded'
  BY InputAssumption
     DEF Next, vars, TypeOK, ClockBounded, OnTopic, OnRequest, OnReply, Store,
         TakeSweep, TakeNothing, TakeOldest, WaitSweep, Tick, SyncSession
<1> QED BY <1>1, <1>2, TypeCorrect, PTL DEF Spec

\* No lifespan overflows the clock.
NoOverflow == \A e \in Entities: MaxTime + LifespanOf(e) <= IntMax

\* Without an overflow, a buffer is expired when its lifespan is over.
LEMMA ExpiredIsOver ==
    ASSUME TypeOK, ArrivalOrder, DistinctStamps, ClockBounded, NoOverflow,
           NEW e \in Entities, NEW s \in Owned(e)
    PROVE  ~ Expired(s) <=> Queues!Valid(e, Content(msg, stamp, s))
<1>1. /\ s \in inUse /\ owner[s] = e /\ stamp[s] \in Nat /\ stamp[s] <= now
      /\ now \in Nat /\ LifespanOf(e) \in Nat
  BY InputAssumption DEF TypeOK, Owned, ArrivalOrder, LifespanOf
<1>2. stamp[s] + LifespanOf(e) <= IntMax
  BY <1>1, InputAssumption DEF ClockBounded, NoOverflow
<1>3. Wrap(stamp[s] + LifespanOf(e)) = stamp[s] + LifespanOf(e)
  BY <1>1, <1>2, InputAssumption DEF Wrap
<1>4. Expired(s) <=> stamp[s] + LifespanOf(e) < now
  BY <1>1, <1>3 DEF Expired
<1>5. Queues!Valid(e, Content(msg, stamp, s)) <=>
        stamp[s] <= now /\ now - stamp[s] <= LifespanOf(e)
  BY DEF Queues!Valid, Content
<1> QED BY <1>1, <1>4, <1>5

\* The sweep cuts a prefix of every queue.
LEMMA SweptQueue ==
    ASSUME TypeOK, ArrivalOrder, DistinctStamps, TypeOK', ClockBounded, NoOverflow,
           CleanExpired, UNCHANGED <<owner, stamp, msg>>, NEW e \in Entities
    PROVE  \E k \in 0..Cardinality(Slots):
              /\ \A i \in DOMAIN QueueOf(e): Queues!Valid(e, QueueOf(e)[i]) <=> i > k
              /\ QueueOf(e)' = SubSeq(QueueOf(e), k + 1, Len(QueueOf(e)))
<1> DEFINE n == Count(e)
           q == Order(e)
           V == {i \in 1..n: ~ Expired(q[i])}
<1>1. /\ Sorted(q, Owned(e), stamp) /\ q \in Seq(Owned(e)) /\ Len(q) = n /\ n \in Nat
      /\ QueueOf(e) = Listed(q, msg, stamp)
      /\ Len(QueueOf(e)) = n /\ DOMAIN QueueOf(e) = 1..n
  BY QueueNow
<1>2. DOMAIN q = 1..n /\ \A i \in 1..n: q[i] \in Owned(e)
  BY <1>1, LenProperties, ElementOfSeq
<1>3. \A i \in 1..n: QueueOf(e)[i] = Content(msg, stamp, q[i])
  BY <1>1, ListedSeq
<1> HIDE DEF n, q
<1>4. \A i \in V, j \in 1..n: i <= j => j \in V
  <2> SUFFICES ASSUME NEW i \in 1..n, ~ Expired(q[i]), NEW j \in 1..n, i < j
               PROVE  ~ Expired(q[j])
    BY <1>1
  <2>1. stamp[q[i]] < stamp[q[j]]
    BY <1>1, <1>2 DEF Sorted
  <2>2. /\ stamp[q[i]] \in Nat /\ stamp[q[j]] \in Nat /\ stamp[q[j]] <= now
        /\ now \in Nat /\ LifespanOf(e) \in Nat
    BY <1>2, InputAssumption DEF Owned, TypeOK, ArrivalOrder, LifespanOf
  <2>3. Queues!Valid(e, Content(msg, stamp, q[i]))
    BY <1>2, ExpiredIsOver
  <2>4. Queues!Valid(e, Content(msg, stamp, q[j]))
    BY <2>1, <2>2, <2>3 DEF Queues!Valid, Content
  <2> QED BY <1>2, <2>4, ExpiredIsOver
<1>5. PICK k \in 0..n: \A i \in 1..n: i \in V <=> i > k
  <2>1. V \in SUBSET (1..n)
    OBVIOUS
  <2> HIDE DEF V
  <2> QED BY <1>1, <1>4, <2>1, UpperPart
<1>6. k \in 0..Cardinality(Slots)
  <2>1. Owned(e) \in SUBSET Slots
    BY DEF Owned, TypeOK
  <2>2. /\ Cardinality(Owned(e)) <= Cardinality(Slots)
        /\ Cardinality(Slots) \in Nat /\ Cardinality(Owned(e)) \in Nat
    BY <2>1, FS_Subset, FS_CardinalityType, InputAssumption
  <2> QED BY <2>2 DEF n, Count
<1>7. \A i \in 1..n: Queues!Valid(e, QueueOf(e)[i]) <=> i > k
  <2> TAKE i \in 1..n
  <2>1. ~ Expired(q[i]) <=> i > k
    BY <1>5
  <2> QED BY <1>2, <1>3, <2>1, ExpiredIsOver
<1>8. Owned(e)' = {q[i]: i \in (k + 1)..n}
  <2>1. Owned(e)' = {s \in Owned(e): ~ Expired(s)}
    BY DEF CleanExpired, Owned
  <2>2. \A s \in Owned(e): \E i \in 1..n: q[i] = s
    BY <1>1, <1>2 DEF Sorted
  <2>3. \A i \in 1..n: ~ Expired(q[i]) <=> i \in (k + 1)..n
    BY <1>1, <1>5
  <2>4. \A i \in (k + 1)..n: i \in 1..n
    BY <1>1
  <2> HIDE DEF V
  <2> QED BY <1>2, <2>1, <2>2, <2>3, <2>4
<1>9. QueueOf(e)' = Listed(SubSeq(q, k + 1, n), msg', stamp')
  <2>1. Sorted(SubSeq(q, k + 1, n), Owned(e)', stamp')
    BY <1>1, <1>8, SortedSuffix
  <2> QED BY <2>1, QueueAfter
<1>10. QueueOf(e)' = SubSeq(QueueOf(e), k + 1, Len(QueueOf(e)))
  <2>1. SubSeq(Listed(q, msg, stamp), k + 1, Len(q))
          = Listed(SubSeq(q, k + 1, Len(q)), msg, stamp)
    <3>1. q \in Seq(Owned(e)) /\ k \in 0..Len(q)
      BY <1>1
    <3> QED BY <3>1, ListedSuffix, Zenon
  <2> QED BY <1>1, <1>9, <2>1
<1> QED BY <1>1, <1>6, <1>7, <1>10

\* So the sweep expires exactly the messages that outlived their lifespan.
LEMMA SweepIsExpire ==
    ASSUME TypeOK, ArrivalOrder, DistinctStamps, TypeOK', ClockBounded, NoOverflow,
           CleanExpired, UNCHANGED <<owner, stamp, msg, now, arrived, lastTaken>>
    PROVE  Queues!Expire
<1> DEFINE F == [e \in Entities |-> QueueOf(e)]
           Cut(e, k) ==
             /\ \A i \in DOMAIN QueueOf(e): Queues!Valid(e, QueueOf(e)[i]) <=> i > k
             /\ QueueOf(e)' = SubSeq(QueueOf(e), k + 1, Len(QueueOf(e)))
           gone == [e \in Entities |-> CHOOSE k \in 0..Cardinality(Slots): Cut(e, k)]
<1>1. \A e \in Entities: \E k \in 0..Cardinality(Slots): Cut(e, k)
  BY SweptQueue
<1>2. gone \in [Entities -> 0..Cardinality(Slots)] /\ \A e \in Entities: Cut(e, gone[e])
  <2> HIDE DEF Cut
  <2> QED BY <1>1
<1>3. \A e \in Entities: F[e] = QueueOf(e)
  OBVIOUS
<1> HIDE DEF gone
<1>4. \A e \in Entities: \A i \in DOMAIN F[e]: Queues!Valid(e, F[e][i]) <=> i > gone[e]
  BY <1>2, <1>3
<1>5. F' = [e \in Entities |-> SubSeq(F[e], gone[e] + 1, Len(F[e]))]
  BY <1>2, <1>3
<1> QED BY <1>2, <1>4, <1>5 DEF Queues!Expire, Queues!Cardinality, Cardinality

\* Nothing in use, nothing in the queues.
LEMMA QueuesEmpty ==
    ASSUME Init
    PROVE  Queues!Init
<1>1. \A e \in Entities: QueueOf(e) = <<>>
  <2> TAKE e \in Entities
  <2>1. Owned(e) = {}
    BY DEF Init, Owned
  <2>2. Sorted(<<>>, {}, stamp)
    <3>1. <<>> \in Seq({}) /\ DOMAIN <<>> = {}
      OBVIOUS
    <3> QED BY <3>1 DEF Sorted
  <2>3. OrderOf(Owned(e), stamp) = <<>>
    BY <2>1, <2>2, SortedIsOrder
  <2>4. [i \in {} |-> [msg |-> msg[<<>>[i]], stamp |-> stamp[<<>>[i]]]] = <<>>
    OBVIOUS
  <2> QED BY <2>3, <2>4 DEF QueueOf
<1> QED BY <1>1 DEF Init, Queues!Init

\* While the clock advances between arrivals and no lifespan overflows it, the
\* pool of buffers shared by all entities, with its history QoS, its sweeps and
\* its takes in two steps, is one bounded FIFO queue per entity with exact
\* expiry: for any number of entities, buffers, threads and messages.
THEOREM QueuesImplemented ==
    ASSUME DistinctStamps, NoOverflow
    PROVE  Spec => ImplementsQueues
<1>1. Init => Queues!Init
  BY QueuesEmpty
<1>2. TypeOK /\ TypeOK' /\ ArrivalOrder /\ ClockBounded /\ [Next]_vars
        => [Queues!Next]_(Queues!avars)
  <2> SUFFICES ASSUME TypeOK, TypeOK', ArrivalOrder, ClockBounded, [Next]_vars
               PROVE  Queues!Next \/ UNCHANGED Queues!avars
    OBVIOUS
  <2>0. ASSUME UNCHANGED pool
        PROVE  [e \in Entities |-> QueueOf(e)]' = [e \in Entities |-> QueueOf(e)]
    <3>1. \A e \in Entities: QueueOf(e)' = QueueOf(e)
      <4> TAKE e \in Entities
      <4>1. Owned(e)' = Owned(e) /\ UNCHANGED <<stamp, msg>>
        BY <2>0 DEF pool, Owned
      <4> QED BY <4>1, QueueKept
    <3> QED BY <3>1
  <2>1. ASSUME NEW e \in Entities, Store(e)
        PROVE  Queues!Next
    BY <2>1, StoreIsArrive DEF Queues!Next
  <2>2. ASSUME NEW t \in Threads, NEW e \in Entities, TakeSweep(t, e)
        PROVE  Queues!Next
    <3>1. CleanExpired /\ UNCHANGED <<owner, stamp, msg, now, arrived, lastTaken>>
      BY <2>2 DEF TakeSweep
    <3> QED BY <3>1, SweepIsExpire DEF Queues!Next
  <2>3. ASSUME NEW t \in Threads, TakeNothing(t)
        PROVE  UNCHANGED Queues!avars
    BY <2>0, <2>3 DEF TakeNothing, Queues!avars
  <2>4. ASSUME NEW t \in Threads, NEW d \in BOOLEAN, TakeOldest(t, d)
        PROVE  Queues!Next
    BY <2>4, TakeIsTake DEF Queues!Next
  <2>5. CASE WaitSweep
    <3>1. CleanExpired /\ UNCHANGED <<owner, stamp, msg, now, arrived, lastTaken>>
      BY <2>5 DEF WaitSweep
    <3> QED BY <3>1, SweepIsExpire DEF Queues!Next
  <2>6. CASE Tick \/ SyncSession
    <3>1. UNCHANGED pool /\ UNCHANGED <<arrived, lastTaken>> /\ now' \in Nat /\ now' > now
      BY <2>6, InputAssumption DEF Tick, SyncSession, TypeOK
    <3> QED BY <2>0, <3>1 DEF Queues!Tick, Queues!Next
  <2>7. CASE UNCHANGED vars
    <3>1. UNCHANGED pool /\ UNCHANGED <<now, arrived, lastTaken>>
      BY <2>7 DEF vars, pool
    <3> QED BY <2>0, <3>1 DEF Queues!avars
  <2> QED
    BY <2>1, <2>2, <2>3, <2>4, <2>5, <2>6, <2>7 DEF Next, OnTopic, OnRequest, OnReply
<1> QED
  BY <1>1, <1>2, TypeCorrect, OrderKept, ClockIsBounded, PTL
     DEF Spec, ImplementsQueues, Queues!QueueSpec
=============================================================================
