----------------------- MODULE EntityLifecycleProofs -----------------------
(***************************************************************************)
(* Proofs about module EntityLifecycle: entities never outlive their node, *)
(* the topics are those of the publishers and subscriptions, and what a    *)
(* call returns agrees with what the agent has.                            *)
(***************************************************************************)
EXTENDS EntityLifecycle, FiniteSetTheorems, TLAPS

\* The lengths of the request sequences, and where the topic is in them.
LEMMA OrderFacts ==
    ASSUME NEW x \in Things
    PROVE  /\ Len(CreateOrder(x)) \in 1..3
           /\ \A k \in 1..Len(CreateOrder(x)): CreateOrder(x)[k] \in Parts
           /\ Len(DestroyOrder(x)) \in 1..4
           /\ x \in Nodes => Len(DestroyOrder(x)) = 1
           /\ x \in Topical => Len(DestroyOrder(x)) \in {3, 4}
<1> USE LifecycleAssumption DEF LifecycleAssumption, Things, Entities, Topical
<1>1. CASE x \in Nodes
  BY <1>1 DEF CreateOrder, DestroyOrder, Parts
<1>2. CASE x \in Publishers
  <2>1. x \notin Nodes
    BY <1>2
  <2> QED BY <1>2, <2>1 DEF CreateOrder, DestroyOrder, Parts
<1>3. CASE x \in Subscriptions
  <2>1. x \notin Nodes /\ x \notin Publishers
    BY <1>3
  <2> QED BY <1>3, <2>1 DEF CreateOrder, DestroyOrder, Parts
<1>4. CASE x \in Services \cup Clients
  <2>1. x \notin Nodes /\ x \notin Publishers /\ x \notin Subscriptions
    BY <1>4
  <2> QED BY <1>4, <2>1 DEF CreateOrder, DestroyOrder, Parts
<1> QED BY <1>1, <1>2, <1>3, <1>4

\* The request that deletes the topic.
TopicStep(e) == IF e \in Publishers THEN 1 ELSE 2

\* That request is among the first two, and it is the only one for the topic.
LEMMA TopicStepFacts ==
    ASSUME NEW e \in Topical
    PROVE  /\ TopicStep(e) \in 1..2
           /\ TopicStep(e) < Len(DestroyOrder(e))
           /\ \A k \in 1..Len(DestroyOrder(e)):
                DestroyOrder(e)[k] = "topic" <=> k = TopicStep(e)
<1> USE LifecycleAssumption DEF LifecycleAssumption, Things, Entities, Topical
<1>1. CASE e \in Publishers
  <2>1. e \notin Nodes
    BY <1>1
  <2> QED BY <1>1, <2>1 DEF DestroyOrder, TopicStep
<1>2. CASE e \in Subscriptions
  <2>1. e \notin Nodes /\ e \notin Publishers
    BY <1>2
  <2> QED BY <1>2, <2>1 DEF DestroyOrder, TopicStep
<1> QED BY <1>1, <1>2

\* No other kind of thing has a request about a topic.
LEMMA NoTopicStep ==
    ASSUME NEW x \in Things, x \notin Topical, NEW k \in 1..Len(DestroyOrder(x))
    PROVE  DestroyOrder(x)[k] # "topic"
<1> USE LifecycleAssumption DEF LifecycleAssumption, Things, Entities, Topical
<1>1. CASE x \in Nodes
  BY <1>1 DEF DestroyOrder
<1>2. CASE x \in Services \cup Clients
  <2>1. x \notin Nodes /\ x \notin Publishers /\ x \notin Subscriptions
    BY <1>2
  <2> QED BY <1>2, <2>1 DEF DestroyOrder
<1> QED BY <1>1, <1>2

\* rmw_destroy_node goes on with an entity of the node or with the node.
LEMMA FollowingFacts ==
    ASSUME NEW n \in Nodes, NEW S, NEW x \in Following(n, S)
    PROVE  \/ x \in OwnedBy(n, S)
           \/ x = n /\ OwnedBy(n, S) = {}
BY DEF Following, OwnedBy, Entities, Topical

-----------------------------------------------------------------------------
\* The calls: each works on a thing of its own that is allocated, at a request
\* of its sequence; only rmw_destroy_node destroys a node, last, and alone.
CallOK(t) ==
    /\ op[t].call = "none" => op[t] = NoCall
    /\ op[t].call # "none" => op[t].x \in used
    /\ op[t].call = "create" =>
         /\ op[t].step \in 1..Len(CreateOrder(op[t].x))
         /\ op[t].node = Nobody
    /\ op[t].call = "destroy" =>
         /\ op[t].step \in 1..Len(DestroyOrder(op[t].x))
         /\ op[t].x \in Nodes => op[t].node = op[t].x
    /\ op[t].node # Nobody =>
         /\ op[t].call = "destroy"
         /\ op[t].node \in used
         /\ op[t].x \in Entities => ownerNode[op[t].x] = op[t].node
         /\ op[t].x \in Nodes => OwnedBy(op[t].node, used) = {}

CallsApart ==
    \A t \in Threads: \A u \in Threads \ {t}:
        /\ op[t].x # Nobody => op[u].x # op[t].x
        /\ op[t].node # Nobody => op[u] = NoCall

CallsInv == CallsApart /\ \A t \in Threads: CallOK(t)

\* A call that is running works on a thing that exists.
LEMMA CallsType ==
    ASSUME TypeOK, CallsInv, NEW t \in Threads, op[t].call # "none"
    PROVE  /\ op[t].x \in Things /\ op[t].x \in used
           /\ op[t].x # Nobody
BY LifecycleAssumption DEF TypeOK, CallsInv, CallOK, LifecycleAssumption

\* A thread without a call is described like one with a call.
LEMMA NobodyCalls == NoCall \in Calls
BY DEF NoCall, Calls

\* A call that begins.
LEMMA CallType ==
    ASSUME NEW x \in Things, NEW c \in {"create", "destroy"},
           NEW n \in Nodes \cup {Nobody}, NEW ok \in BOOLEAN
    PROVE  Begin(c, x, n, ok) \in Calls
BY DEF Begin, Calls

\* A call that goes on with its next request.
LEMMA NextCallType ==
    ASSUME NEW c \in Calls, NEW m \in 0..4, NEW b \in BOOLEAN
    PROVE  [c EXCEPT !.step = m, !.ok = b] \in Calls
BY DEF Calls

\* Steps of a shorter sequence are steps of a longer one.
LEMMA BoundSmaller ==
    ASSUME NEW m \in Nat, NEW l \in 1..m, NEW k \in 1..l
    PROVE  k \in 1..m /\ (k < l => k + 1 \in 1..m)
OBVIOUS

\* A sequence that is not empty has a first step.
LEMMA FirstStep ==
    ASSUME NEW m \in Nat, NEW l \in 1..m
    PROVE  1 \in 1..l
OBVIOUS

\* An outcome says whether the agent did the request and whether it said so.
LEMMA OutcomesType ==
    ASSUME NEW r \in BOOLEAN, NEW o \in Outcomes(r)
    PROVE  o.done \in BOOLEAN /\ o.ok \in BOOLEAN
BY DEF Outcomes

\* Beginning a creation keeps the variables in their domains.
LEMMA CreateAnyType ==
    ASSUME TypeOK, NEW t \in Threads, CreateAny(t)
    PROVE  TypeOK'
<1> USE LifecycleAssumption, NobodyCalls, CallType
    DEF LifecycleAssumption, TypeOK, Return
<1>1. ASSUME NEW S, CreateNoSlot(t, S) PROVE TypeOK'
  BY <1>1 DEF CreateNoSlot
<1>2. ASSUME NEW n \in Nodes, CreateNode(t, n) PROVE TypeOK'
  BY <1>2 DEF CreateNode, Things
<1>3. ASSUME NEW n \in Nodes, NEW e \in Entities, CreateFailsEarly(t, e, n)
      PROVE  TypeOK'
  <2>1. topics' \in SUBSET Topics /\ topicNode' \in [Topics -> Nodes \cup {Nobody}]
        /\ strayPut' \in BOOLEAN
    BY <1>3 DEF CreateFailsEarly, FiniTopic
  <2>2. ownerNode' \in [Entities -> Nodes \cup {Nobody}]
    <3>1. PICK node \in {ownerNode[e], n}: ownerNode' = [ownerNode EXCEPT ![e] = node]
      BY <1>3 DEF CreateFailsEarly
    <3>2. node \in Nodes \cup {Nobody}
      OBVIOUS
    <3> QED BY <3>1, <3>2
  <2> QED BY <1>3, <2>1, <2>2 DEF CreateFailsEarly
<1>4. ASSUME NEW n \in Nodes, NEW e \in Services \cup Clients, CreatePlain(t, e, n)
      PROVE  TypeOK'
  BY <1>4 DEF CreatePlain, Things, Entities
<1>5. ASSUME NEW n \in Nodes, NEW e \in Topical, CreateTopical(t, e, n)
      PROVE  TypeOK'
  <2>1. PICK p \in Topics \ topics:
          /\ topics' = topics \cup {p}
          /\ topicNode' = [topicNode EXCEPT ![p] = n]
          /\ topicOf' = [topicOf EXCEPT ![e] = p]
    BY <1>5 DEF CreateTopical
  <2>2. e \in Entities /\ e \in Things
    BY DEF Things, Entities
  <2>3. op' \in [Threads -> Calls]
    BY <1>5, <2>2 DEF CreateTopical
  <2> QED BY <1>5, <2>1, <2>2, <2>3 DEF CreateTopical
<1>6. ASSUME NEW n \in Nodes, NEW e \in Topical, CreateNoTopic(t, e, n)
      PROVE  TypeOK'
  BY <1>6 DEF CreateNoTopic, Entities
<1> QED BY <1>1, <1>2, <1>3, <1>4, <1>5, <1>6 DEF CreateAny

\* So does every step.
LEMMA TypeStep == TypeOK /\ CallsInv /\ [Next]_vars => TypeOK'
<1> SUFFICES ASSUME TypeOK, CallsInv, [Next]_vars PROVE TypeOK'
  OBVIOUS
<1> USE LifecycleAssumption DEF LifecycleAssumption
<1>1. ASSUME NEW t \in Threads, CreateOk(t) PROVE TypeOK'
  <2> DEFINE x == op[t].x
             k == op[t].step
  <2>1. x \in Things /\ k \in 1..Len(CreateOrder(x)) /\ k \in 1..3
    <3>1. op[t].call = "create"
      BY <1>1 DEF CreateOk, Creating
    <3>2. x \in Things /\ k \in 1..Len(CreateOrder(x))
      BY <3>1, CallsType DEF CallsInv, CallOK
    <3>3. Len(CreateOrder(x)) \in 1..3
      BY <3>2, OrderFacts
    <3> QED BY <3>2, <3>3, BoundSmaller
  <2>2. CreateOrder(x)[k] \in Parts
    BY <2>1, OrderFacts
  <2>3. agent' \in [Things -> SUBSET Parts]
    BY <1>1, <2>1, <2>2 DEF CreateOk, TypeOK
  <2>4. op' \in [Threads -> Calls] /\ ret' \in {"none", "ok", "timeout", "null"}
    BY <1>1, <2>1, NobodyCalls DEF CreateOk, TypeOK, Return, Calls
  <2> QED BY <1>1, <2>3, <2>4 DEF CreateOk, TypeOK
<1>2. ASSUME NEW t \in Threads, CreateTimeout(t) PROVE TypeOK'
  <2> DEFINE x == op[t].x
             k == op[t].step
  <2>1. x \in Things /\ k \in 1..Len(CreateOrder(x))
    BY <1>2, CallsType DEF CreateTimeout, Creating, CallsInv, CallOK
  <2>2. CreateOrder(x)[k] \in Parts
    BY <2>1, OrderFacts
  <2>3. PICK o \in Outcomes(ReliableCreate):
          FiniMemory(x, agent[x] \cup (IF o.done THEN {CreateOrder(x)[k]} ELSE {}))
    BY <1>2 DEF CreateTimeout
  <2>4. left' \in SUBSET Parts /\ agent' \in [Things -> SUBSET Parts]
        /\ used' \in SUBSET Things
    BY <2>1, <2>2, <2>3 DEF FiniMemory, TypeOK
  <2>5. topics' \in SUBSET Topics /\ topicNode' \in [Topics -> Nodes \cup {Nobody}]
        /\ strayPut' \in BOOLEAN
    BY <1>2 DEF CreateTimeout, FiniTopic, TypeOK
  <2>6. topicOf' \in [Topical -> Topics \cup {Nobody}]
    BY <1>2 DEF CreateTimeout, TypeOK
  <2>7. op' \in [Threads -> Calls] /\ ret' \in {"none", "ok", "timeout", "null"}
    BY <1>2, NobodyCalls DEF CreateTimeout, TypeOK, Return
  <2>8. ownerNode' = ownerNode
    BY <1>2 DEF CreateTimeout
  <2> QED BY <2>4, <2>5, <2>6, <2>7, <2>8 DEF TypeOK
<1>3. ASSUME NEW t \in Threads, DestroyAny(t) PROVE TypeOK'
  <2>1. ASSUME NEW e \in Entities, DestroyEntity(t, e) PROVE TypeOK'
    BY <2>1, CallType DEF DestroyEntity, TypeOK, Things
  <2>2. ASSUME NEW n \in Nodes, DestroyNode(t, n) PROVE TypeOK'
    <3>1. PICK x \in Following(n, used):
            op' = [op EXCEPT ![t] = Begin("destroy", x, n, TRUE)]
      BY <2>2 DEF DestroyNode
    <3>2. x \in Things
      BY FollowingFacts DEF OwnedBy, Things
    <3> QED BY <2>2, <3>1, <3>2, CallType DEF DestroyNode, TypeOK
  <2> QED BY <1>3, <2>1, <2>2 DEF DestroyAny
<1>4. ASSUME NEW t \in Threads, DestroyRequest(t) PROVE TypeOK'
  <2> DEFINE x == op[t].x
             k == op[t].step
  <2>1. x \in Things /\ k \in 1..Len(DestroyOrder(x)) /\ k + 1 \in 0..4
    <3>1. op[t].call = "destroy" /\ k < Len(DestroyOrder(x))
      BY <1>4 DEF DestroyRequest, Destroying
    <3>2. x \in Things /\ k \in 1..Len(DestroyOrder(x))
      BY <3>1, CallsType DEF CallsInv, CallOK
    <3>3. Len(DestroyOrder(x)) \in 1..4
      BY <3>2, OrderFacts
    <3>4. k + 1 \in 1..4
      BY <3>1, <3>2, <3>3, BoundSmaller
    <3> QED BY <3>2, <3>4
  <2>2. PICK o \in Outcomes(ReliableDestroy), d \in BOOLEAN:
          /\ op' = [op EXCEPT ![t].step = k + 1, ![t].ok = NextOk(t, o)]
          /\ agent' = [agent EXCEPT ![x] = Kept(x, DestroyOrder(x)[k], d)]
    BY <1>4 DEF DestroyRequest, Outcomes
  <2>3. NextOk(t, o) \in BOOLEAN
    BY DEF NextOk
  <2>4. op' \in [Threads -> Calls]
    <3>1. [op[t] EXCEPT !.step = k + 1, !.ok = NextOk(t, o)] \in Calls
      <4>1. op[t] \in Calls
        BY DEF TypeOK
      <4> HIDE DEF k
      <4> QED BY <2>1, <2>3, <4>1, NextCallType
    <3>2. op' = [op EXCEPT ![t] = [op[t] EXCEPT !.step = k + 1, !.ok = NextOk(t, o)]]
      BY <2>2
    <3> QED BY <3>1, <3>2 DEF TypeOK
  <2>5. agent' \in [Things -> SUBSET Parts]
    BY <2>1, <2>2 DEF TypeOK, Kept
  <2>6. topics' \in SUBSET Topics /\ topicNode' \in [Topics -> Nodes \cup {Nobody}]
        /\ strayPut' \in BOOLEAN
    <3>1. FiniTopic(topicOf[x]) \/ UNCHANGED <<topics, topicNode, strayPut>>
      BY <1>4 DEF DestroyRequest
    <3> QED BY <3>1 DEF FiniTopic, TypeOK
  <2> QED BY <1>4, <2>4, <2>5, <2>6 DEF DestroyRequest, TypeOK
<1>5. ASSUME NEW t \in Threads, DestroyLast(t) PROVE TypeOK'
  <2> DEFINE x == op[t].x
             k == op[t].step
             n == op[t].node
  <2>1. x \in Things /\ k \in 1..Len(DestroyOrder(x))
    <3>1. op[t].call = "destroy"
      BY <1>5 DEF DestroyLast, Destroying
    <3> QED BY <3>1, CallsType DEF CallsInv, CallOK
  <2>2. PICK o \in Outcomes(ReliableDestroy):
          /\ FiniMemory(x, Kept(x, DestroyOrder(x)[k], o.done))
          /\ IF n \in {Nobody, x}
             THEN Return(t, IF NextOk(t, o) THEN "ok" ELSE "timeout")
             ELSE /\ \E y \in Following(n, used \ {x}):
                       op' = [op EXCEPT ![t] = Begin("destroy", y, n, y = n => NextOk(t, o))]
                  /\ UNCHANGED ret
    BY <1>5 DEF DestroyLast
  <2>3. left' \in SUBSET Parts /\ agent' \in [Things -> SUBSET Parts]
        /\ used' \in SUBSET Things
    BY <2>1, <2>2 DEF FiniMemory, TypeOK, Kept
  <2>4. op' \in [Threads -> Calls] /\ ret' \in {"none", "ok", "timeout", "null"}
    <3>1. CASE n \in {Nobody, x}
      BY <2>2, <3>1, NobodyCalls DEF TypeOK, Return
    <3>2. CASE n \notin {Nobody, x}
      <4>1. n \in Nodes
        BY <3>2 DEF TypeOK, Calls
      <4>2. PICK y \in Following(n, used \ {x}):
              op' = [op EXCEPT ![t] = Begin("destroy", y, n, y = n => NextOk(t, o))]
        BY <2>2, <3>2
      <4>3. y \in Things
        BY <4>1, FollowingFacts DEF OwnedBy, Things
      <4>4. Begin("destroy", y, n, y = n => NextOk(t, o)) \in Calls
        <5>1. (y = n => NextOk(t, o)) \in BOOLEAN
          OBVIOUS
        <5> QED BY <4>1, <4>3, <5>1, CallType
      <4>5. op' \in [Threads -> Calls]
        BY <4>2, <4>4 DEF TypeOK
      <4> QED BY <2>2, <3>2, <4>5 DEF TypeOK
    <3> QED BY <3>1, <3>2
  <2> QED BY <1>5, <2>3, <2>4 DEF DestroyLast, TypeOK
<1>6. CASE UNCHANGED vars
  BY <1>6 DEF vars, TypeOK
<1> QED BY <1>1, <1>2, <1>3, <1>4, <1>5, <1>6, CreateAnyType DEF Next

-----------------------------------------------------------------------------
\* Nothing else goes on while a node is destroyed.
LEMMA NoNodeCall ==
    ASSUME TypeOK, CallsInv, NEW t \in Threads, MayCall(t) \/ op[t].call # "none",
           NEW u \in Threads \ {t}
    PROVE  op[u].node = Nobody
BY DEF CallsInv, CallsApart, MayCall, NodeCalls, NoCall

\* The call of another thread is not disturbed.
LEMMA OtherCall ==
    ASSUME CallsInv, NEW u \in Threads, op[u].node = Nobody, op'[u] = op[u],
           op[u].call # "none" => op[u].x \in used'
    PROVE  CallOK(u)'
BY DEF CallsInv, CallOK

\* A thread that begins a call keeps the calls apart when nobody works on x.
LEMMA BeginApart ==
    ASSUME TypeOK, CallsInv, NEW t \in Threads, MayCall(t),
           NEW x \in Things, \A u \in Threads: op[u].x # x,
           NEW c \in {"create", "destroy"}, NEW n \in Nodes \cup {Nobody},
           n # Nobody => \A u \in Threads: op[u] = NoCall,
           op' = [op EXCEPT ![t] = Begin(c, x, n, TRUE)],
           used \subseteq used'
    PROVE  /\ CallsApart'
           /\ \A u \in Threads \ {t}: CallOK(u)'
           /\ op'[t] = Begin(c, x, n, TRUE)
<1>1. op'[t] = Begin(c, x, n, TRUE) /\ \A u \in Threads \ {t}: op'[u] = op[u]
  BY DEF TypeOK
<1>2. op'[t].x = x /\ op'[t].node = n
  BY <1>1 DEF Begin
<1>3. \A u \in Threads \ {t}: op[u].node = Nobody
  BY NoNodeCall
<1>4. CallsApart'
  <2> SUFFICES ASSUME NEW v \in Threads, NEW u \in Threads \ {v}
               PROVE  /\ op'[v].x # Nobody => op'[u].x # op'[v].x
                      /\ op'[v].node # Nobody => op'[u] = NoCall
    BY DEF CallsApart
  <2>1. CASE v = t
    BY <1>1, <1>2, <2>1
  <2>2. CASE v # t
    <3>1. op'[v] = op[v] /\ op[v].node = Nobody
      BY <1>1, <1>3, <2>2
    <3>2. CASE u = t
      BY <1>2, <2>2, <3>1, <3>2
    <3>3. CASE u # t
      <4>1. op'[u] = op[u]
        BY <1>1, <3>3
      <4> QED BY <3>1, <4>1 DEF CallsInv, CallsApart
    <3> QED BY <3>2, <3>3
  <2> QED BY <2>1, <2>2
<1>5. ASSUME NEW u \in Threads \ {t} PROVE CallOK(u)'
  BY <1>1, <1>3, OtherCall DEF CallsInv, CallOK
<1> QED BY <1>1, <1>4, <1>5

\* What has to hold of a call that has just begun.
LEMMA BegunOK ==
    ASSUME NEW t \in Threads, NEW c \in {"create", "destroy"}, NEW x \in Things,
           NEW n, NEW ok, op'[t] = Begin(c, x, n, ok), x \in used',
           c = "create" => n = Nobody,
           c = "destroy" /\ x \in Nodes => n = x,
           n # Nobody => /\ n \in used'
                         /\ x \in Entities => ownerNode'[x] = n
                         /\ x \in Nodes => OwnedBy(n, used)' = {}
    PROVE  CallOK(t)'
<1>1. /\ op'[t].call = c /\ op'[t].x = x /\ op'[t].node = n
      /\ op'[t].step = 1
  BY DEF Begin
<1>2. 1 \in 1..Len(CreateOrder(x)) /\ 1 \in 1..Len(DestroyOrder(x))
  <2>1. Len(CreateOrder(x)) \in 1..3 /\ Len(DestroyOrder(x)) \in 1..4
    BY OrderFacts
  <2> QED BY <2>1, FirstStep
<1>3. c # "none" /\ (n # Nobody => c = "destroy")
  OBVIOUS
<1>4. op'[t].step \in 1..Len(CreateOrder(op'[t].x))
      /\ op'[t].step \in 1..Len(DestroyOrder(op'[t].x))
  BY <1>1, <1>2
<1>5. n # Nobody /\ x \in Nodes => OwnedBy(op[t].node, used)' = {}
  <2> SUFFICES ASSUME n # Nobody, x \in Nodes
               PROVE  OwnedBy(op[t].node, used)' = {}
    OBVIOUS
  <2>1. OwnedBy(n, used)' = {}
    OBVIOUS
  <2> QED BY <1>1, <2>1 DEF OwnedBy
<1> QED BY <1>1, <1>3, <1>4, <1>5 DEF CallOK

\* A thread whose call returns or fails: nobody else worked on its thing.
LEMMA ReturnCalls ==
    ASSUME TypeOK, CallsInv, NEW t \in Threads, MayCall(t) \/ op[t].call # "none",
           NEW r, Return(t, r),
           used \ {op[t].x} \subseteq used'
    PROVE  CallsInv'
<1>1. op'[t] = NoCall /\ \A u \in Threads \ {t}: op'[u] = op[u]
  BY DEF TypeOK, Return
<1>2. \A u \in Threads \ {t}: op[u].node = Nobody
  BY NoNodeCall
<1>3. CallsApart'
  BY <1>1, <1>2 DEF CallsInv, CallsApart, NoCall
<1>4. CallOK(t)'
  BY <1>1 DEF CallOK, NoCall
<1>5. ASSUME NEW u \in Threads \ {t} PROVE CallOK(u)'
  <2>1. op[u].call # "none" => op[u].x \in used'
    <3> SUFFICES ASSUME op[u].call # "none" PROVE op[u].x \in used'
      OBVIOUS
    <3>1. op[u].x \in used /\ op[u].x # Nobody
      BY CallsType
    <3>2. op[u].x # op[t].x
      BY <3>1 DEF CallsInv, CallsApart
    <3> QED BY <3>1, <3>2
  <2> QED BY <1>1, <1>2, <2>1, OtherCall
<1> QED BY <1>3, <1>4, <1>5 DEF CallsInv

\* A call goes on with its thing at the next request.
LEMMA NextRequest ==
    ASSUME TypeOK, CallsInv, NEW t \in Threads, op[t].call # "none",
           op' \in [Threads -> Calls],
           \A u \in Threads \ {t}: op'[u] = op[u],
           op'[t].call = op[t].call, op'[t].x = op[t].x, op'[t].node = op[t].node,
           op[t].call = "create" => op'[t].step \in 1..Len(CreateOrder(op[t].x)),
           op[t].call = "destroy" => op'[t].step \in 1..Len(DestroyOrder(op[t].x)),
           UNCHANGED <<used, ownerNode>>
    PROVE  CallsInv'
<1>1. \A u \in Threads \ {t}: op[u].node = Nobody
  BY NoNodeCall
<1>2. CallsApart'
  BY <1>1 DEF CallsInv, CallsApart
<1>3. CallOK(t)'
  BY DEF CallsInv, CallOK, OwnedBy
<1>4. ASSUME NEW u \in Threads \ {t} PROVE CallOK(u)'
  BY <1>1, OtherCall DEF CallsInv, CallOK
<1> QED BY <1>2, <1>3, <1>4 DEF CallsInv

\* Beginning a creation keeps what is known of the calls.
LEMMA CreateAnyCalls ==
    ASSUME TypeOK, CallsInv, NEW t \in Threads, CreateAny(t)
    PROVE  CallsInv'
<1> USE LifecycleAssumption DEF LifecycleAssumption
<1>1. ASSUME NEW S, CreateNoSlot(t, S) PROVE CallsInv'
  BY <1>1, ReturnCalls DEF CreateNoSlot
<1>2. ASSUME NEW n \in Nodes, NEW e \in Entities, CreateFailsEarly(t, e, n)
      PROVE  CallsInv'
  BY <1>2, ReturnCalls DEF CreateFailsEarly
<1>3. ASSUME NEW n \in Nodes, NEW e \in Topical, CreateNoTopic(t, e, n)
      PROVE  CallsInv'
  BY <1>3, ReturnCalls DEF CreateNoTopic
<1>4. ASSUME NEW x \in Things, MayCall(t), x \notin used, used' = used \cup {x},
             op' = [op EXCEPT ![t] = Begin("create", x, Nobody, TRUE)]
      PROVE  CallsInv'
  <2>1. \A u \in Threads: op[u].x # x
    BY <1>4, CallsType DEF CallsInv, CallOK, NoCall, Things
  <2>2. /\ CallsApart'
        /\ \A u \in Threads \ {t}: CallOK(u)'
        /\ op'[t] = Begin("create", x, Nobody, TRUE)
    BY <1>4, <2>1, BeginApart
  <2>4. CallOK(t)'
    BY <1>4, <2>2, BegunOK
  <2> QED BY <2>2, <2>4 DEF CallsInv
<1>5. ASSUME NEW n \in Nodes, CreateNode(t, n) PROVE CallsInv'
  BY <1>4, <1>5 DEF CreateNode, Things
<1>6. ASSUME NEW n \in Nodes, NEW e \in Services \cup Clients, CreatePlain(t, e, n)
      PROVE  CallsInv'
  BY <1>4, <1>6 DEF CreatePlain, Things, Entities
<1>7. ASSUME NEW n \in Nodes, NEW e \in Topical, CreateTopical(t, e, n)
      PROVE  CallsInv'
  BY <1>4, <1>7 DEF CreateTopical, Things, Entities
<1> QED BY <1>1, <1>2, <1>3, <1>5, <1>6, <1>7 DEF CreateAny

\* So does beginning a destruction: nobody else destroys that thing.
LEMMA DestroyAnyCalls ==
    ASSUME TypeOK, CallsInv, NEW t \in Threads, DestroyAny(t)
    PROVE  CallsInv'
<1> USE LifecycleAssumption DEF LifecycleAssumption
<1>1. ASSUME NEW e \in Entities, DestroyEntity(t, e) PROVE CallsInv'
  <2>1. /\ MayCall(t) /\ e \in used /\ e \in Things /\ e \notin Nodes
        /\ \A u \in Threads: op[u].x # e
        /\ op' = [op EXCEPT ![t] = Begin("destroy", e, Nobody, TRUE)]
        /\ used' = used
    BY <1>1 DEF DestroyEntity, Worked, Things
  <2>2. /\ CallsApart'
        /\ \A u \in Threads \ {t}: CallOK(u)'
        /\ op'[t] = Begin("destroy", e, Nobody, TRUE)
    BY <2>1, BeginApart
  <2>4. CallOK(t)'
    BY <2>1, <2>2, BegunOK
  <2> QED BY <2>2, <2>4 DEF CallsInv
<1>2. ASSUME NEW n \in Nodes, DestroyNode(t, n) PROVE CallsInv'
  <2>1. PICK x \in Following(n, used):
          op' = [op EXCEPT ![t] = Begin("destroy", x, n, TRUE)]
    BY <1>2 DEF DestroyNode
  <2>2. x \in OwnedBy(n, used) \/ (x = n /\ OwnedBy(n, used) = {})
    BY FollowingFacts
  <2>3. x \in Things /\ n \in Things /\ n \in used /\ x \in used
    BY <1>2, <2>2 DEF DestroyNode, Live, OwnedBy, Things
  <2>4. MayCall(t) /\ (\A u \in Threads: op[u] = NoCall) /\ used' = used
        /\ ownerNode' = ownerNode
    BY <1>2 DEF DestroyNode
  <2>5. \A u \in Threads: op[u].x # x
    BY <2>3, <2>4 DEF NoCall
  <2>6. /\ CallsApart'
        /\ \A u \in Threads \ {t}: CallOK(u)'
        /\ op'[t] = Begin("destroy", x, n, TRUE)
    BY <2>1, <2>3, <2>4, <2>5, BeginApart
  <2>8. CallOK(t)'
    <3>1. x \in Entities => x \notin Nodes /\ ownerNode'[x] = n
      BY <2>2, <2>4 DEF OwnedBy
    <3>2. x \in Nodes => x = n /\ OwnedBy(n, used)' = {}
      BY <2>2, <2>4, <3>1 DEF OwnedBy
    <3> QED BY <2>3, <2>4, <2>6, <3>1, <3>2, BegunOK
  <2> QED BY <2>6, <2>8 DEF CallsInv
<1> QED BY <1>1, <1>2 DEF DestroyAny

\* So does every step.
LEMMA CallsStep == TypeOK /\ CallsInv /\ [Next]_vars => CallsInv'
<1> SUFFICES ASSUME TypeOK, CallsInv, [Next]_vars PROVE CallsInv'
  OBVIOUS
<1> USE LifecycleAssumption DEF LifecycleAssumption
<1>1. ASSUME NEW t \in Threads, CreateOk(t) PROVE CallsInv'
  <2> DEFINE x == op[t].x
             k == op[t].step
  <2>1. op[t].call = "create" /\ k \in 1..Len(CreateOrder(x))
    BY <1>1 DEF CreateOk, Creating, CallsInv, CallOK
  <2>2. UNCHANGED <<used, ownerNode>>
    BY <1>1 DEF CreateOk
  <2>3. x \in Things /\ Len(CreateOrder(x)) \in 1..3
    BY <2>1, CallsType, OrderFacts
  <2>4. CASE k < Len(CreateOrder(x)) /\ op' = [op EXCEPT ![t].step = k + 1]
    <3>1. /\ \A u \in Threads \ {t}: op'[u] = op[u]
          /\ op'[t].call = "create" /\ op'[t].x = x /\ op'[t].node = op[t].node
          /\ op'[t].step = k + 1
      BY <2>1, <2>4 DEF TypeOK, Calls
    <3>2. op' \in [Threads -> Calls]
      BY TypeStep DEF TypeOK
    <3>3. k + 1 \in 1..Len(CreateOrder(x))
      BY <2>1, <2>3, <2>4
    <3> QED BY <2>1, <2>2, <3>1, <3>2, <3>3, NextRequest
  <2>5. CASE Return(t, "ok")
    BY <2>1, <2>2, <2>5, ReturnCalls
  <2> QED BY <1>1, <2>4, <2>5 DEF CreateOk
<1>2. ASSUME NEW t \in Threads, CreateTimeout(t) PROVE CallsInv'
  <2>1. op[t].call = "create" /\ Return(t, "null") /\ used' = used \ {op[t].x}
    BY <1>2 DEF CreateTimeout, Creating, FiniMemory
  <2> QED BY <2>1, ReturnCalls
<1>3. ASSUME NEW t \in Threads, DestroyRequest(t) PROVE CallsInv'
  <2> DEFINE x == op[t].x
             k == op[t].step
  <2>1. op[t].call = "destroy" /\ k \in 1..Len(DestroyOrder(x))
    BY <1>3 DEF DestroyRequest, Destroying, CallsInv, CallOK
  <2>2. k < Len(DestroyOrder(x)) /\ UNCHANGED <<used, ownerNode>>
    BY <1>3 DEF DestroyRequest
  <2>3. x \in Things /\ Len(DestroyOrder(x)) \in 1..4
    BY <2>1, CallsType, OrderFacts
  <2>4. /\ \A u \in Threads \ {t}: op'[u] = op[u]
        /\ op'[t].call = "destroy" /\ op'[t].x = x /\ op'[t].node = op[t].node
        /\ op'[t].step = k + 1
    BY <1>3, <2>1 DEF DestroyRequest, TypeOK, Calls
  <2>5. op' \in [Threads -> Calls]
    BY TypeStep DEF TypeOK
  <2>6. k + 1 \in 1..Len(DestroyOrder(x))
    BY <2>1, <2>2, <2>3
  <2> QED BY <2>1, <2>2, <2>4, <2>5, <2>6, NextRequest
<1>4. ASSUME NEW t \in Threads, DestroyLast(t) PROVE CallsInv'
  <2> DEFINE x == op[t].x
             n == op[t].node
  <2>1. op[t].call = "destroy" /\ used' = used \ {x} /\ ownerNode' = ownerNode
    BY <1>4 DEF DestroyLast, Destroying, FiniMemory
  <2>2. ASSUME NEW r, Return(t, r) PROVE CallsInv'
    BY <2>1, <2>2, ReturnCalls
  <2>3. ASSUME NEW m \in Nodes, NEW z \in Things, m = n, z = x, m # z,
               NEW y \in Following(m, used \ {z}), NEW ok,
               op' = [op EXCEPT ![t] = Begin("destroy", y, m, ok)]
        PROVE  CallsInv'
    <3>1. op'[t] = Begin("destroy", y, m, ok)
      BY <2>3 DEF TypeOK
    <3>2. m \in used /\ m # Nobody
      <4>1. m # Nobody
        BY DEF Things
      <4> QED BY <2>3, <4>1 DEF CallsInv, CallOK
    <3>3. \A u \in Threads \ {t}: op'[u] = NoCall
      <4>1. \A u \in Threads \ {t}: op[u] = NoCall
        BY <2>3, <3>2 DEF CallsInv, CallsApart
      <4> QED BY <2>3, <4>1 DEF TypeOK
    <3>4. \/ y \in OwnedBy(m, used \ {z})
          \/ y = m /\ OwnedBy(m, used \ {z}) = {}
      BY <2>3, <3>2, FollowingFacts
    <3>5. y \in Things /\ y \in used'
      BY <2>1, <2>3, <3>2, <3>4 DEF OwnedBy, Things
    <3>6. y \in Entities => y \notin Nodes /\ ownerNode'[y] = m
      BY <2>1, <3>2, <3>4 DEF OwnedBy
    <3>7. CallOK(t)'
      <4>1. y \in Nodes => y = m /\ OwnedBy(m, used)' = {}
        <5>1. OwnedBy(m, used)' = OwnedBy(m, used \ {z})
          BY <2>1, <2>3 DEF OwnedBy
        <5>2. y \in OwnedBy(m, used \ {z}) => y \in Entities
          BY DEF OwnedBy
        <5> QED BY <3>4, <3>6, <5>1, <5>2
      <4>2. m \in used'
        BY <2>1, <2>3, <3>2
      <4> QED BY <3>1, <3>5, <3>6, <4>1, <4>2, BegunOK
    <3>8. ASSUME NEW u \in Threads \ {t} PROVE CallOK(u)'
      <4>1. op'[u] = NoCall
        BY <3>3
      <4> QED BY <4>1 DEF CallOK, NoCall
    <3>9. CallsApart'
      <4>1. op'[t].x = y /\ y # Nobody
        BY <3>1, <3>5 DEF Begin
      <4>2. \A u \in Threads \ {t}: op'[u].x = Nobody /\ op'[u].node = Nobody
        BY <3>3 DEF NoCall
      <4> QED BY <3>3, <4>1, <4>2 DEF CallsApart
    <3> QED BY <3>7, <3>8, <3>9 DEF CallsInv
  <2>4. CASE n \notin {Nobody, x}
    <3>1. n \in Nodes /\ x \in Things
      BY <2>1, <2>4, CallsType DEF TypeOK, Calls
    <3>2. PICK o \in Outcomes(ReliableDestroy):
            \E y \in Following(n, used \ {x}):
              op' = [op EXCEPT ![t] = Begin("destroy", y, n, y = n => NextOk(t, o))]
      BY <1>4, <2>4 DEF DestroyLast
    <3> QED BY <2>3, <2>4, <3>1, <3>2
  <2>5. CASE n \in {Nobody, x}
    BY <1>4, <2>2, <2>5 DEF DestroyLast
  <2> QED BY <2>4, <2>5
<1>5. CASE UNCHANGED vars
  BY <1>5 DEF vars, CallsInv, CallsApart, CallOK, OwnedBy
<1> QED BY <1>1, <1>2, <1>3, <1>4, <1>5, CreateAnyCalls, DestroyAnyCalls DEF Next

\* At first no call is running.
LEMMA InitInv == Init => TypeOK /\ CallsInv
<1> SUFFICES ASSUME Init PROVE TypeOK /\ CallsInv
  OBVIOUS
<1>1. TypeOK
  BY NobodyCalls, LifecycleAssumption DEF Init, TypeOK, LifecycleAssumption
<1>2. CallsInv
  BY DEF Init, CallsInv, CallsApart, CallOK, NoCall
<1> QED BY <1>1, <1>2

\* What the other proofs take from the calls always holds.
LEMMA CallsAlways == Spec => [](TypeOK /\ CallsInv)
BY InitInv, TypeStep, CallsStep, PTL DEF Spec

\* The slots, the topics, the agent's objects and the calls stay in their
\* domains.
THEOREM LifecycleTypeCorrect == Spec => []TypeOK
BY CallsAlways, PTL

-----------------------------------------------------------------------------
\* What a step has to respect for entities not to outlive their node: it
\* starts to create free slots only, gives an entity a live node, and frees a
\* node only when it has no entity left.
LEMMA OwnersStayLive ==
    ASSUME TypeOK, NodeOutlivesEntities,
           \A t \in Threads: op'[t].call = "create" =>
             \/ op'[t].x \notin used
             \/ op[t].call = "create" /\ op[t].x = op'[t].x,
           \A e \in used' \cap Entities:
             (e \in used /\ ownerNode'[e] = ownerNode[e]) \/ ownerNode'[e] \in Live,
           \A n \in Nodes \cap Live: n \in used' \/
             \A e \in used' \cap Entities: ownerNode'[e] # n,
           ownerNode' \in [Entities -> Nodes \cup {Nobody}]
    PROVE  NodeOutlivesEntities'
<1> SUFFICES ASSUME NEW e \in used' \cap Entities
             PROVE  ownerNode'[e] \in Live'
  BY DEF NodeOutlivesEntities
<1> DEFINE m == ownerNode'[e]
<1>1. m \in Live
  BY DEF NodeOutlivesEntities
<1>2. m \in Nodes
  <2>1. m \in Things
    BY <1>1 DEF Live, TypeOK
  <2> QED BY <2>1, LifecycleAssumption DEF LifecycleAssumption
<1>3. m \in used /\ \A t \in Threads: ~ (op[t].call = "create" /\ op[t].x = m)
  BY <1>1 DEF Live
<1>4. m \in used'
  BY <1>1, <1>2
<1>5. \A t \in Threads: ~ (op'[t].call = "create" /\ op'[t].x = m)
  BY <1>3
<1> QED BY <1>4, <1>5 DEF Live

\* A creation finds its node in use and keeps it so.
LEMMA CreateAnyOwners ==
    ASSUME TypeOK, TypeOK', CallsInv, NodeOutlivesEntities,
           NEW t \in Threads, CreateAny(t)
    PROVE  NodeOutlivesEntities'
<1> USE LifecycleAssumption DEF LifecycleAssumption
<1>0. ownerNode' \in [Entities -> Nodes \cup {Nobody}]
  BY DEF TypeOK
<1>1. ASSUME NEW r, Return(t, r), used' = used,
             \A e \in used \cap Entities: ownerNode'[e] = ownerNode[e]
      PROVE  NodeOutlivesEntities'
  <2>1. \A u \in Threads: op'[u].call = "create" =>
          op[u].call = "create" /\ op[u].x = op'[u].x
    BY <1>1 DEF Return, TypeOK, NoCall
  <2>2. \A n \in Live: n \in used'
    BY <1>1 DEF Live
  <2> QED BY <1>0, <1>1, <2>1, <2>2, OwnersStayLive
<1>2. ASSUME NEW x \in Things, x \notin used, used' = used \cup {x},
             op' = [op EXCEPT ![t] = Begin("create", x, Nobody, TRUE)],
             \A e \in used \cap Entities: ownerNode'[e] = ownerNode[e],
             x \in Entities => ownerNode'[x] \in Live
      PROVE  NodeOutlivesEntities'
  <2>1. \A u \in Threads: op'[u].call = "create" =>
          op'[u].x \notin used \/ (op[u].call = "create" /\ op[u].x = op'[u].x)
    BY <1>2 DEF Begin, TypeOK
  <2>2. \A n \in Live: n \in used'
    BY <1>2 DEF Live
  <2>3. \A e \in used' \cap Entities:
          (e \in used /\ ownerNode'[e] = ownerNode[e]) \/ ownerNode'[e] \in Live
    BY <1>2
  <2> QED BY <1>0, <2>1, <2>2, <2>3, OwnersStayLive
<1>3. ASSUME NEW S, CreateNoSlot(t, S) PROVE NodeOutlivesEntities'
  BY <1>1, <1>3 DEF CreateNoSlot
<1>4. ASSUME NEW n \in Nodes, NEW e \in Entities, CreateFailsEarly(t, e, n)
      PROVE  NodeOutlivesEntities'
  <2>1. \A f \in used \cap Entities: ownerNode'[f] = ownerNode[f]
    BY <1>4 DEF CreateFailsEarly, TypeOK
  <2> QED BY <1>1, <1>4, <2>1 DEF CreateFailsEarly
<1>5. ASSUME NEW n \in Nodes, NEW e \in Topical, CreateNoTopic(t, e, n)
      PROVE  NodeOutlivesEntities'
  <2>1. \A f \in used \cap Entities: ownerNode'[f] = ownerNode[f]
    BY <1>5 DEF CreateNoTopic, TypeOK
  <2> QED BY <1>1, <1>5, <2>1 DEF CreateNoTopic
<1>6. ASSUME NEW n \in Nodes, CreateNode(t, n) PROVE NodeOutlivesEntities'
  BY <1>2, <1>6 DEF CreateNode, Things
<1>7. ASSUME NEW n \in Nodes, NEW e \in Entities, e \notin used, n \in Live,
             used' = used \cup {e}, ownerNode' = [ownerNode EXCEPT ![e] = n],
             op' = [op EXCEPT ![t] = Begin("create", e, Nobody, TRUE)]
      PROVE  NodeOutlivesEntities'
  <2>1. /\ \A f \in used \cap Entities: ownerNode'[f] = ownerNode[f]
        /\ ownerNode'[e] = n
    BY <1>7 DEF TypeOK
  <2> QED BY <1>2, <1>7, <2>1 DEF Things
<1>8. ASSUME NEW n \in Nodes, NEW e \in Services \cup Clients, CreatePlain(t, e, n)
      PROVE  NodeOutlivesEntities'
  BY <1>7, <1>8 DEF CreatePlain, Entities
<1>9. ASSUME NEW n \in Nodes, NEW e \in Topical, CreateTopical(t, e, n)
      PROVE  NodeOutlivesEntities'
  BY <1>7, <1>9 DEF CreateTopical, Entities
<1> QED BY <1>3, <1>4, <1>5, <1>6, <1>8, <1>9 DEF CreateAny

\* Every step leaves the node of every entity in use: a node is destroyed
\* after the entities it owns.
LEMMA OwnersStep ==
    TypeOK /\ TypeOK' /\ CallsInv /\ NodeOutlivesEntities /\ [Next]_vars
        => NodeOutlivesEntities'
<1> SUFFICES ASSUME TypeOK, TypeOK', CallsInv, NodeOutlivesEntities, [Next]_vars
             PROVE  NodeOutlivesEntities'
  OBVIOUS
<1> USE LifecycleAssumption DEF LifecycleAssumption
<1>0. ownerNode' \in [Entities -> Nodes \cup {Nobody}]
  BY DEF TypeOK
<1>1. ASSUME UNCHANGED <<used, ownerNode>>,
             \A u \in Threads: op'[u].call = "create" =>
               op[u].call = "create" /\ op[u].x = op'[u].x
      PROVE  NodeOutlivesEntities'
  <2>1. \A n \in Live: n \in used'
    BY <1>1 DEF Live
  <2> QED BY <1>0, <1>1, <2>1, OwnersStayLive
\* x is given back; when it is a node, it has no entity.
<1>2. ASSUME NEW x \in Things, used' = used \ {x}, ownerNode' = ownerNode,
             x \in Nodes \cap Live => OwnedBy(x, used) = {},
             \A u \in Threads: op'[u].call = "create" =>
               op[u].call = "create" /\ op[u].x = op'[u].x
      PROVE  NodeOutlivesEntities'
  <2>1. \A n \in Nodes \cap Live: n \in used' \/
          \A e \in used' \cap Entities: ownerNode'[e] # n
    BY <1>2 DEF Live, OwnedBy
  <2>2. \A e \in used' \cap Entities: e \in used /\ ownerNode'[e] = ownerNode[e]
    BY <1>2
  <2> QED BY <1>0, <1>2, <2>1, <2>2, OwnersStayLive
<1>3. ASSUME NEW t \in Threads, CreateOk(t) PROVE NodeOutlivesEntities'
  <2>1. \A u \in Threads: op'[u].call = "create" =>
          op[u].call = "create" /\ op[u].x = op'[u].x
    <3>1. op[t].call = "create"
      BY <1>3 DEF CreateOk, Creating
    <3>2. CASE op' = [op EXCEPT ![t].step = op[t].step + 1]
      BY <3>1, <3>2 DEF TypeOK, Calls
    <3>3. CASE op' = [op EXCEPT ![t] = NoCall]
      BY <3>3 DEF TypeOK, NoCall
    <3> QED BY <1>3, <3>2, <3>3 DEF CreateOk, Return
  <2> QED BY <1>1, <1>3, <2>1 DEF CreateOk
<1>4. ASSUME NEW t \in Threads, CreateTimeout(t) PROVE NodeOutlivesEntities'
  <2>1. op[t].call = "create" /\ op[t].x \in Things
    BY <1>4, CallsType DEF CreateTimeout, Creating
  <2>2. used' = used \ {op[t].x} /\ ownerNode' = ownerNode /\ op[t].x \notin Live
    BY <1>4, <2>1 DEF CreateTimeout, FiniMemory, Live
  <2>3. \A u \in Threads: op'[u].call = "create" =>
          op[u].call = "create" /\ op[u].x = op'[u].x
    BY <1>4 DEF CreateTimeout, Return, NoCall, TypeOK
  <2> QED BY <1>2, <2>1, <2>2, <2>3
<1>5. ASSUME NEW t \in Threads, DestroyAny(t) PROVE NodeOutlivesEntities'
  <2>1. \A u \in Threads: op'[u].call = "create" =>
          op[u].call = "create" /\ op[u].x = op'[u].x
    BY <1>5 DEF DestroyAny, DestroyEntity, DestroyNode, Begin, TypeOK
  <2> QED BY <1>1, <1>5, <2>1 DEF DestroyAny, DestroyEntity, DestroyNode
<1>6. ASSUME NEW t \in Threads, DestroyRequest(t) PROVE NodeOutlivesEntities'
  <2>1. \A u \in Threads: op'[u].call = "create" =>
          op[u].call = "create" /\ op[u].x = op'[u].x
    BY <1>6 DEF DestroyRequest, Destroying, TypeOK, Calls
  <2> QED BY <1>1, <1>6, <2>1 DEF DestroyRequest
<1>7. ASSUME NEW t \in Threads, DestroyLast(t) PROVE NodeOutlivesEntities'
  <2>1. op[t].call = "destroy" /\ op[t].x \in Things
    BY <1>7, CallsType DEF DestroyLast, Destroying
  <2>2. used' = used \ {op[t].x} /\ ownerNode' = ownerNode
    BY <1>7 DEF DestroyLast, FiniMemory
  <2>3. op[t].x \in Nodes => OwnedBy(op[t].x, used) = {}
    <3> SUFFICES ASSUME op[t].x \in Nodes PROVE OwnedBy(op[t].x, used) = {}
      OBVIOUS
    <3>1. op[t].node = op[t].x /\ op[t].node # Nobody
      BY <2>1 DEF CallsInv, CallOK
    <3>2. OwnedBy(op[t].node, used) = {}
      BY <3>1 DEF CallsInv, CallOK
    <3> QED BY <3>1, <3>2
  <2>4. \A u \in Threads: op'[u].call = "create" =>
          op[u].call = "create" /\ op[u].x = op'[u].x
    BY <1>7 DEF DestroyLast, Return, NoCall, Begin, TypeOK
  <2> QED BY <1>2, <2>1, <2>2, <2>3, <2>4
<1>8. CASE UNCHANGED vars
  BY <1>1, <1>8 DEF vars
<1> QED BY <1>3, <1>4, <1>5, <1>6, <1>7, <1>8, CreateAnyOwners DEF Next

\* No entity outlives its node.
LEMMA OwnersAlways == Spec => []NodeOutlivesEntities
<1>1. Init => NodeOutlivesEntities
  BY DEF Init, NodeOutlivesEntities
<1> QED BY <1>1, CallsAlways, OwnersStep, PTL DEF Spec

\* No entity outlives its node: whatever request is lost or times out, in
\* whatever interleaving of creations and destructions, for any number of
\* nodes, entities and threads.
THEOREM NodesOutlive == Spec => []NodeOutlivesEntities
BY OwnersAlways, PTL

-----------------------------------------------------------------------------
\* The topics.  An entity has its topic while no call that destroys it is past
\* the request that deletes it.
Past(e) ==
    \E t \in Threads:
        op[t].x = e /\ op[t].call = "destroy" /\ op[t].step > TopicStep(e)

Holders == {e \in Topical \cap used: ~ Past(e)}

HoldersAre == \A e \in Topical: HoldsTopic(e) <=> e \in Holders

\* The entities that hold a topic, counted by the steps of the calls.
LEMMA HoldersFacts == TypeOK /\ CallsInv => HoldersAre
<1> SUFFICES ASSUME TypeOK, CallsInv, NEW e \in Topical
             PROVE  HoldsTopic(e) <=> e \in Holders
  BY DEF HoldersAre
<1>1. /\ TopicStep(e) \in 1..2
      /\ TopicStep(e) < Len(DestroyOrder(e))
      /\ \A k \in 1..Len(DestroyOrder(e)):
           DestroyOrder(e)[k] = "topic" <=> k = TopicStep(e)
  BY TopicStepFacts
<1>2. Len(DestroyOrder(e)) \in 1..4
  BY OrderFacts DEF Things, Entities
<1>3. ASSUME NEW t \in Threads, op[t].x = e, op[t].call = "destroy"
      PROVE  /\ op[t].step \in 1..Len(DestroyOrder(e))
             /\ (\E k \in op[t].step..4:
                   k <= Len(DestroyOrder(e)) /\ DestroyOrder(e)[k] = "topic")
                <=> ~ (op[t].step > TopicStep(e))
  <2>1. op[t].step \in 1..Len(DestroyOrder(e))
    BY <1>3 DEF CallsInv, CallOK
  <2>2. \A k \in op[t].step..4:
          k <= Len(DestroyOrder(e)) => k \in 1..Len(DestroyOrder(e))
    BY <1>2, <2>1
  <2>3. TopicStep(e) \in 1..4 /\ TopicStep(e) \in 1..Len(DestroyOrder(e))
    BY <1>1, <1>2
  <2>4. (\E k \in op[t].step..4:
           k <= Len(DestroyOrder(e)) /\ DestroyOrder(e)[k] = "topic")
        <=> TopicStep(e) \in op[t].step..4
    BY <1>1, <2>2, <2>3
  <2>5. TopicStep(e) \in op[t].step..4 <=> ~ (op[t].step > TopicStep(e))
    BY <1>2, <2>1, <2>3
  <2> QED BY <2>1, <2>4, <2>5
<1>4. HoldsTopic(e) <=> e \in used /\ \A t \in Threads:
        op[t].x = e /\ op[t].call = "destroy" => ~ (op[t].step > TopicStep(e))
  BY <1>3 DEF HoldsTopic, Destroying
<1> QED BY <1>4 DEF Holders, Past

\* TopicsHeld, in terms of Holders.
TopicsInv ==
    /\ topics = {topicOf[e]: e \in Holders}
    /\ \A e \in Holders: topicNode[topicOf[e]] = ownerNode[e]
    /\ \A e, f \in Holders: topicOf[e] = topicOf[f] => e = f
    /\ ~ strayPut

\* The invariant gives the property the runs check.
LEMMA TopicsInvHeld == HoldersAre /\ TopicsInv => TopicsHeld
<1> SUFFICES ASSUME HoldersAre, TopicsInv PROVE TopicsHeld
  OBVIOUS
<1>1. {e \in Topical: HoldsTopic(e)} = Holders
  BY DEF HoldersAre, Holders
<1> QED BY <1>1, Zenon DEF TopicsInv, TopicsHeld

\* A step that changes no topic, no holder and no holder's node.
LEMMA TopicsSame ==
    ASSUME TopicsInv, Holders' = Holders, topics' = topics, topicNode' = topicNode,
           strayPut' = strayPut,
           \A e \in Holders: topicOf'[e] = topicOf[e] /\ ownerNode'[e] = ownerNode[e]
    PROVE  TopicsInv'
BY DEF TopicsInv

\* A step that gives the topic of one holder back.
LEMMA TopicsLess ==
    ASSUME TypeOK, TopicsInv, NEW x \in Holders, Holders' = Holders \ {x},
           FiniTopic(topicOf[x]),
           \A e \in Holders \ {x}: topicOf'[e] = topicOf[e],
           ownerNode' = ownerNode
    PROVE  TopicsInv'
<1>1. topics' = topics \ {topicOf[x]}
      /\ topicNode' = [topicNode EXCEPT ![topicOf[x]] = Nobody]
  BY DEF FiniTopic
<1>2. \A e \in Holders': e \in Holders /\ topicOf'[e] = topicOf[e] /\ topicOf[e] # topicOf[x]
  BY DEF TopicsInv
<1>3. {topicOf'[e]: e \in Holders'} = {topicOf[e]: e \in Holders} \ {topicOf[x]}
  BY <1>2
<1>4. topics' = {topicOf'[e]: e \in Holders'}
  BY <1>1, <1>3 DEF TopicsInv
<1>5. \A e \in Holders': topicOf[e] \in Topics
  BY <1>2 DEF TopicsInv, TypeOK
<1>6. \A e \in Holders': topicNode'[topicOf'[e]] = ownerNode'[e]
  BY <1>1, <1>2, <1>5 DEF TopicsInv, TypeOK
<1>7. \A e, f \in Holders': topicOf'[e] = topicOf'[f] => e = f
  BY <1>2 DEF TopicsInv
<1>8. topicOf[x] \in topics /\ ~ strayPut
  BY DEF TopicsInv
<1>9. ~ strayPut'
  BY <1>8, Zenon DEF FiniTopic
<1> QED BY <1>4, <1>6, <1>7, <1>9 DEF TopicsInv

\* A step that gives a free topic to a new holder.
LEMMA TopicsMore ==
    ASSUME TypeOK, TopicsInv, strayPut' = strayPut,
           NEW x \in Topical, x \notin Holders, Holders' = Holders \cup {x},
           NEW p \in Topics \ topics, NEW n \in Nodes,
           topics' = topics \cup {p}, topicNode' = [topicNode EXCEPT ![p] = n],
           topicOf' = [topicOf EXCEPT ![x] = p],
           ownerNode' = [ownerNode EXCEPT ![x] = n]
    PROVE  TopicsInv'
<1>1. \A e \in Holders: e \in Topical /\ topicOf[e] \in topics
  BY DEF TopicsInv, Holders
<1>2. /\ topicOf'[x] = p /\ topicNode'[p] = n /\ ownerNode'[x] = n
      /\ \A e \in Holders: topicOf'[e] = topicOf[e] /\ ownerNode'[e] = ownerNode[e]
                           /\ topicOf[e] # p
                           /\ topicNode'[topicOf[e]] = topicNode[topicOf[e]]
  BY <1>1 DEF TypeOK, Entities
<1>3. topics' = {topicOf'[e]: e \in Holders'}
  BY <1>2 DEF TopicsInv
<1>4. \A e \in Holders': topicNode'[topicOf'[e]] = ownerNode'[e]
  BY <1>2 DEF TopicsInv
<1>5. \A e, f \in Holders': topicOf'[e] = topicOf'[f] => e = f
  BY <1>2 DEF TopicsInv
<1> QED BY <1>3, <1>4, <1>5 DEF TopicsInv

\* Nobody destroys what is not allocated.
LEMMA UnusedNotPast ==
    ASSUME TypeOK, CallsInv, NEW x, x \notin used
    PROVE  ~ Past(x)
BY DEF Past, CallsInv, CallOK

\* A call that is not, or not yet, past a topic leaves Past as it is for the
\* entities that it did not destroy before.
LEMMA PastSame ==
    ASSUME TypeOK, NEW t \in Threads, NEW c, op' = [op EXCEPT ![t] = c],
           NEW e \in Topical,
           c.call # "destroy" \/ c.step = 1,
           op[t].call # "destroy" \/ op[t].x # e
    PROVE  Past(e)' <=> Past(e)
<1>1. ~ (1 > TopicStep(e))
  BY TopicStepFacts
<1>2. op'[t] = c /\ \A u \in Threads \ {t}: op'[u] = op[u]
  BY DEF TypeOK
<1> QED BY <1>1, <1>2 DEF Past

\* The same for a step that keeps the slots too.
LEMMA HoldersSame ==
    ASSUME TypeOK, NEW t \in Threads, NEW c, op' = [op EXCEPT ![t] = c],
           c.call # "destroy" \/ c.step = 1, op[t].call # "destroy",
           \A e \in Topical: e \in used' <=> e \in used
    PROVE  Holders' = Holders
<1>1. \A e \in Topical: Past(e)' <=> Past(e)
  BY PastSame
<1> QED BY <1>1 DEF Holders

\* A creation takes a topic item of its own, or none.
LEMMA CreateAnyTopics ==
    ASSUME ~ EarlyFailures, TypeOK, CallsInv, TopicsInv, NodeOutlivesEntities,
           NEW t \in Threads, CreateAny(t)
    PROVE  TopicsInv'
<1> USE LifecycleAssumption DEF LifecycleAssumption
<1>1. NoCall.call = "none" /\ \A x: Begin("create", x, Nobody, TRUE).call = "create"
  BY DEF NoCall, Begin
<1>2. \A e \in Holders: e \in used /\ e \in Entities
  BY DEF Holders, Entities
<1>3. ASSUME NEW S, CreateNoSlot(t, S) PROVE TopicsInv'
  <2>1. Holders' = Holders
    BY <1>1, <1>3, HoldersSame DEF CreateNoSlot, MayCall, Return
  <2> QED BY <1>3, <2>1, TopicsSame DEF CreateNoSlot
<1>4. ASSUME NEW n \in Nodes, NEW e \in Entities, CreateFailsEarly(t, e, n)
      PROVE  TopicsInv'
  <2>1. Holders' = Holders
    BY <1>1, <1>4, HoldersSame DEF CreateFailsEarly, MayCall, Return
  <2>2. topics' = topics /\ topicNode' = topicNode /\ topicOf' = topicOf
        /\ strayPut' = strayPut
    BY <1>4 DEF CreateFailsEarly
  <2>3. \A f \in Holders: ownerNode'[f] = ownerNode[f]
    BY <1>2, <1>4 DEF CreateFailsEarly, TypeOK
  <2> QED BY <2>1, <2>2, <2>3, TopicsSame
<1>5. ASSUME NEW n \in Nodes, CreateNode(t, n) PROVE TopicsInv'
  <2>1. \A e \in Topical: e \in used' <=> e \in used
    BY <1>5 DEF CreateNode, Entities
  <2>2. Holders' = Holders
    BY <1>1, <1>5, <2>1, HoldersSame DEF CreateNode, MayCall
  <2> QED BY <1>5, <2>2, TopicsSame DEF CreateNode
<1>6. ASSUME NEW n \in Nodes, NEW e \in Services \cup Clients, CreatePlain(t, e, n)
      PROVE  TopicsInv'
  <2>1. \A f \in Topical: f \in used' <=> f \in used
    BY <1>6 DEF CreatePlain, Topical
  <2>2. Holders' = Holders
    BY <1>1, <1>6, <2>1, HoldersSame DEF CreatePlain, MayCall
  <2>3. \A f \in Holders: ownerNode'[f] = ownerNode[f]
    BY <1>2, <1>6 DEF CreatePlain, TypeOK
  <2> QED BY <1>6, <2>2, <2>3, TopicsSame DEF CreatePlain
<1>7. ASSUME NEW n \in Nodes, NEW e \in Topical, CreateNoTopic(t, e, n)
      PROVE  TopicsInv'
  <2>1. Holders' = Holders
    BY <1>1, <1>7, HoldersSame DEF CreateNoTopic, MayCall, Return
  <2>2. \A f \in Holders: ownerNode'[f] = ownerNode[f] /\ topicOf'[f] = topicOf[f]
    BY <1>2, <1>7 DEF CreateNoTopic, TypeOK, Holders
  <2> QED BY <1>7, <2>1, <2>2, TopicsSame DEF CreateNoTopic
<1>8. ASSUME NEW n \in Nodes, NEW e \in Topical, CreateTopical(t, e, n)
      PROVE  TopicsInv'
  <2>1. e \notin used /\ op' = [op EXCEPT ![t] = Begin("create", e, Nobody, TRUE)]
        /\ op[t] = NoCall
    BY <1>8 DEF CreateTopical, MayCall
  <2>2. \A f \in Topical: Past(f)' <=> Past(f)
    BY <1>1, <2>1, PastSame
  <2>3. ~ Past(e)
    BY <2>1, UnusedNotPast
  <2>4. Holders' = Holders \cup {e} /\ e \notin Holders
    BY <1>8, <2>1, <2>2, <2>3 DEF CreateTopical, Holders
  <2> QED BY <1>8, <2>4, TopicsMore DEF CreateTopical
<1> QED BY <1>3, <1>4, <1>5, <1>6, <1>7, <1>8 DEF CreateAny

\* Every step keeps one topic item for every holder: it is given back by the
\* destruction that deletes the topic, and by no other.
LEMMA TopicsStep ==
    ASSUME ~ EarlyFailures, TypeOK, CallsInv, TopicsInv, NodeOutlivesEntities,
           [Next]_vars
    PROVE  TopicsInv'
<1> USE LifecycleAssumption DEF LifecycleAssumption
<1>1. NoCall.call = "none" /\ \A x, n, ok: Begin("destroy", x, n, ok).step = 1
  BY DEF NoCall, Begin
<1>2. ASSUME NEW t \in Threads, CreateOk(t) PROVE TopicsInv'
  <2>1. op[t].call = "create"
    BY <1>2 DEF CreateOk, Creating
  <2>2. \A e \in Topical: Past(e)' <=> Past(e)
    <3>1. CASE op' = [op EXCEPT ![t].step = op[t].step + 1]
      <4>1. op'[t].call = "create" /\ \A u \in Threads \ {t}: op'[u] = op[u]
        BY <2>1, <3>1 DEF TypeOK, Calls
      <4> QED BY <2>1, <4>1 DEF Past
    <3>2. CASE op' = [op EXCEPT ![t] = NoCall]
      BY <1>1, <2>1, <3>2, PastSame
    <3> QED BY <1>2, <3>1, <3>2 DEF CreateOk, Return
  <2>3. Holders' = Holders
    BY <1>2, <2>2 DEF CreateOk, Holders
  <2> QED BY <1>2, <2>3, TopicsSame DEF CreateOk
<1>3. ASSUME NEW t \in Threads, CreateTimeout(t) PROVE TopicsInv'
  <2>1. op[t].call = "create" /\ op[t].x \in Things /\ op[t].x \in used
        /\ op[t].x # Nobody
    BY <1>3, CallsType DEF CreateTimeout, Creating
  <2>2. used' = used \ {op[t].x} /\ ownerNode' = ownerNode
        /\ op' = [op EXCEPT ![t] = NoCall]
    BY <1>3 DEF CreateTimeout, FiniMemory, Return
  <2>3. \A e \in Topical: Past(e)' <=> Past(e)
    BY <1>1, <2>1, <2>2, PastSame
  <2>4. Holders' = Holders \ {op[t].x}
    BY <2>2, <2>3 DEF Holders
  <2>5. CASE op[t].x \in Topical
    <3>1. ~ Past(op[t].x)
      BY <2>1 DEF Past, CallsInv, CallsApart
    <3>2. op[t].x \in Holders
      BY <2>1, <2>5, <3>1 DEF Holders
    <3>3. FiniTopic(topicOf[op[t].x])
      BY <1>3, <2>5 DEF CreateTimeout
    <3>4. \A e \in Holders \ {op[t].x}: topicOf'[e] = topicOf[e]
      BY <1>3 DEF CreateTimeout, TypeOK, Holders
    <3> QED BY <2>2, <2>4, <3>2, <3>3, <3>4, TopicsLess
  <2>6. CASE op[t].x \notin Topical
    <3>1. Holders' = Holders
      BY <2>4, <2>6 DEF Holders
    <3>2. topics' = topics /\ topicNode' = topicNode /\ topicOf' = topicOf
        /\ strayPut' = strayPut
      BY <1>3, <2>6 DEF CreateTimeout
    <3> QED BY <2>2, <3>1, <3>2, TopicsSame
  <2> QED BY <2>5, <2>6
<1>4. ASSUME NEW t \in Threads, NEW x, NEW n, op[t] = NoCall,
             op' = [op EXCEPT ![t] = Begin("destroy", x, n, TRUE)],
             UNCHANGED <<used, ownerNode, topicOf, topics, topicNode, strayPut>>
      PROVE  TopicsInv'
  <2>1. Holders' = Holders
    BY <1>1, <1>4, HoldersSame
  <2> QED BY <1>4, <2>1, TopicsSame
<1>5. ASSUME NEW t \in Threads, DestroyAny(t) PROVE TopicsInv'
  BY <1>4, <1>5 DEF DestroyAny, DestroyEntity, DestroyNode, MayCall
<1>6. ASSUME NEW t \in Threads, DestroyRequest(t) PROVE TopicsInv'
  <2>1. op[t].call = "destroy" /\ op[t].x \in Things /\ op[t].x \in used
        /\ op[t].x # Nobody /\ op[t].step \in 1..Len(DestroyOrder(op[t].x))
    BY <1>6, CallsType DEF DestroyRequest, Destroying, CallsInv, CallOK
  <2>2. /\ op'[t].call = "destroy" /\ op'[t].x = op[t].x /\ op'[t].step = op[t].step + 1
        /\ \A u \in Threads \ {t}: op'[u] = op[u]
    BY <1>6 DEF DestroyRequest, Destroying, TypeOK, Calls
  <2>3. \A e \in Topical \ {op[t].x}: Past(e)' <=> Past(e)
    BY <2>2 DEF Past
  <2>4. /\ Past(op[t].x) <=> op[t].step > TopicStep(op[t].x)
        /\ Past(op[t].x)' <=> op[t].step + 1 > TopicStep(op[t].x)
    BY <2>1, <2>2 DEF Past, CallsInv, CallsApart
  <2>5. used' = used /\ ownerNode' = ownerNode /\ topicOf' = topicOf
    BY <1>6 DEF DestroyRequest
  <2>6. CASE DestroyOrder(op[t].x)[op[t].step] # "topic"
    <3>1. topics' = topics /\ topicNode' = topicNode /\ strayPut' = strayPut
      BY <1>6, <2>6 DEF DestroyRequest
    <3>2. op[t].x \in Topical => op[t].step # TopicStep(op[t].x)
      BY <2>1, <2>6, TopicStepFacts
    <3>3. op[t].x \in Topical => (Past(op[t].x)' <=> Past(op[t].x))
      BY <2>1, <2>4, <3>2, TopicStepFacts, OrderFacts
    <3>4. Holders' = Holders
      BY <2>2, <2>3, <2>5, <3>3 DEF Holders
    <3> QED BY <2>5, <3>1, <3>4, TopicsSame
  <2>7. CASE DestroyOrder(op[t].x)[op[t].step] = "topic"
    <3>1. op[t].x \in Topical
      BY <2>1, <2>7, NoTopicStep
    <3>2. op[t].step = TopicStep(op[t].x) /\ TopicStep(op[t].x) \in 1..2
      BY <2>1, <2>7, <3>1, TopicStepFacts
    <3>3. ~ Past(op[t].x) /\ Past(op[t].x)'
      BY <2>4, <3>2
    <3>4. op[t].x \in Holders /\ Holders' = Holders \ {op[t].x}
      BY <2>1, <2>2, <2>3, <2>5, <3>1, <3>3 DEF Holders
    <3>5. topicNode[topicOf[op[t].x]] = ownerNode[op[t].x]
      BY <3>4 DEF TopicsInv
    <3>6. ownerNode[op[t].x] # Nobody
      BY <2>1, <3>1 DEF NodeOutlivesEntities, Live, Entities, TypeOK
    <3>7. FiniTopic(topicOf[op[t].x])
      BY <1>6, <2>7, <3>5, <3>6 DEF DestroyRequest
    <3> QED BY <2>5, <3>4, <3>7, TopicsLess
  <2> QED BY <2>6, <2>7
<1>7. ASSUME NEW t \in Threads, DestroyLast(t) PROVE TopicsInv'
  <2>1. op[t].call = "destroy" /\ op[t].x \in Things /\ op[t].x \in used
        /\ op[t].x # Nobody /\ op[t].step = Len(DestroyOrder(op[t].x))
    BY <1>7, CallsType DEF DestroyLast, Destroying
  <2>2. used' = used \ {op[t].x} /\ UNCHANGED <<ownerNode, topicOf, topics, topicNode, strayPut>>
    BY <1>7 DEF DestroyLast, FiniMemory
  <2>3. PICK c: op' = [op EXCEPT ![t] = c] /\ (c.call # "destroy" \/ c.step = 1)
    BY <1>1, <1>7 DEF DestroyLast, Return
  <2>4. \A e \in Topical \ {op[t].x}: Past(e)' <=> Past(e)
    BY <2>3, PastSame
  <2>5. op[t].x \in Topical => Past(op[t].x)
    BY <2>1, TopicStepFacts, OrderFacts DEF Past
  <2>6. Holders' = Holders
    BY <2>2, <2>4, <2>5 DEF Holders
  <2> QED BY <2>2, <2>6, TopicsSame
<1>8. CASE UNCHANGED vars
  <2>1. Holders' = Holders
    BY <1>8 DEF vars, Holders, Past
  <2> QED BY <1>8, <2>1, TopicsSame DEF vars
<1> QED BY <1>2, <1>3, <1>5, <1>6, <1>7, <1>8, CreateAnyTopics DEF Next

\* So the topics are always those of their holders.
LEMMA TopicsAlways ==
    ASSUME ~ EarlyFailures
    PROVE  Spec => [](TypeOK /\ CallsInv /\ TopicsInv)
<1>1. Init => TopicsInv
  BY DEF Init, TopicsInv, Holders
<1>2. TypeOK /\ CallsInv /\ NodeOutlivesEntities /\ TopicsInv /\ [Next]_vars
        => TopicsInv'
  BY TopicsStep
<1> QED BY <1>1, <1>2, CallsAlways, OwnersAlways, PTL DEF Spec

\* Each allocated topic belongs to one publisher or subscription, on the node
\* of that entity, and each of them has one, whatever request is lost or times
\* out in whatever interleaving: rmw_create_*, rmw_destroy_* and create_topic,
\* destroy_topic neither lose a topic nor share one, as long as no creation
\* fails before it has a topic in a slot that had one before.
THEOREM TopicsAreHeld ==
    ASSUME ~ EarlyFailures
    PROVE  Spec => []TopicsHeld
<1>1. TypeOK /\ CallsInv /\ TopicsInv => TopicsHeld
  BY HoldersFacts, TopicsInvHeld
<1> QED BY <1>1, TopicsAlways, PTL

\* put_memory is called only for topics that are allocated (its comment: "Gets
\* item from allocated pool"), so the lists of topics_memory stay lists.
THEOREM PutsAreAllocated ==
    ASSUME ~ EarlyFailures
    PROVE  Spec => []PutsAllocatedTopics
<1>1. TypeOK /\ CallsInv /\ TopicsInv => PutsAllocatedTopics
  BY DEF TopicsInv, PutsAllocatedTopics
<1> QED BY <1>1, TopicsAlways, PTL

\* With at least as many topics as publishers and subscriptions, one that gets
\* a slot finds a topic: the free slots of topics_memory never run out first.
THEOREM TopicsAreEnough ==
    ASSUME ~ EarlyFailures
    PROVE  Spec => []TopicsSuffice
<1> USE LifecycleAssumption DEF LifecycleAssumption
<1>1. ASSUME TypeOK, TopicsInv, Cardinality(Topics) >= Cardinality(Topical),
             Topical \ used # {}, Topics \ topics = {}
      PROVE  FALSE
  <2>1. topics = Topics
    BY <1>1 DEF TypeOK
  <2>2. Holders \in SUBSET Topical /\ Holders # Topical
    BY <1>1 DEF Holders
  <2>3. /\ IsFiniteSet(Holders) /\ Cardinality(Holders) <= Cardinality(Topical)
        /\ Cardinality(Topical) # Cardinality(Holders)
    BY <2>2, FS_Subset
  <2>4. [e \in Holders |-> topicOf[e]] \in Surjection(Holders, topics)
    BY <1>1 DEF TopicsInv, Surjection
  <2>5. Cardinality(topics) <= Cardinality(Holders)
    BY <2>3, <2>4, FS_Surjection
  <2>6. /\ Cardinality(topics) \in Nat /\ Cardinality(Holders) \in Nat
        /\ Cardinality(Topical) \in Nat
    BY <2>1, <2>3, FS_CardinalityType
  <2> QED BY <1>1, <2>1, <2>3, <2>5, <2>6
<1>2. TypeOK /\ CallsInv /\ TopicsInv => TopicsSuffice
  BY <1>1 DEF TopicsSuffice
<1> QED BY <1>2, TopicsAlways, PTL

-----------------------------------------------------------------------------
\* The objects of the agent: those of a creation that it has confirmed, all of
\* an entity that nobody works on, none of those whose deletion it confirmed.
Before(order, k) == {order[i]: i \in 1..(k - 1)}

ObjectsOnly ==
    \A x \in Things: agent[x] \subseteq Objects(x) /\ (x \notin used => agent[x] = {})

CreatedSoFar ==
    \A x \in used: \A t \in Threads:
        op[t].x = x /\ op[t].call = "create" =>
            agent[x] = Before(CreateOrder(x), op[t].step)

WholeUnworked == \A x \in used: ~ Worked(x) => agent[x] = Objects(x)

DeletedSoFar ==
    \A t \in Threads: op[t].call = "destroy" /\ op[t].ok =>
        \A p \in Before(DestroyOrder(op[t].x), op[t].step):
            Counts(p) => p \notin agent[op[t].x]

AgentInv ==
    /\ ObjectsOnly
    /\ ReliableCreate => CreatedSoFar /\ WholeUnworked
    /\ ReliableDestroy => DeletedSoFar

\* The requests before a step, one step after the other.
LEMMA BeforeFacts ==
    ASSUME NEW order, NEW k \in Nat, k > 0
    PROVE  /\ Before(order, 1) = {}
           /\ Before(order, k + 1) = Before(order, k) \cup {order[k]}
<1>1. Before(order, 1) = {}
  BY DEF Before
<1>2. (k + 1) - 1 = k /\ 1..k = 1..(k - 1) \cup {k}
  OBVIOUS
<1>3. Before(order, k + 1) = {order[i]: i \in 1..k}
  BY <1>2 DEF Before
<1>4. {order[i]: i \in 1..k} = {order[i]: i \in 1..(k - 1)} \cup {order[k]}
  BY <1>2
<1> QED BY <1>1, <1>3, <1>4 DEF Before

\* The objects of a thing are those that all its creation requests make.
LEMMA ObjectsAre ==
    ASSUME NEW x \in Things
    PROVE  /\ Objects(x) = Before(CreateOrder(x), Len(CreateOrder(x)) + 1)
           /\ \A k \in 1..Len(CreateOrder(x)): CreateOrder(x)[k] \in Objects(x)
<1>1. CreateOrder(x) \in Seq(Parts)
  <2> USE LifecycleAssumption DEF LifecycleAssumption, Entities, Topical
  <2>1. CASE x \in Nodes
    BY <2>1 DEF CreateOrder, Parts
  <2>2. CASE x \in Topical
    BY <2>2 DEF CreateOrder, Parts
  <2>3. CASE x \notin Nodes \cup Topical
    <3>1. x \notin Nodes /\ x \notin Topical
      BY <2>3
    <3>2. CreateOrder(x) = <<"endpoint">>
      BY <3>1 DEF CreateOrder
    <3> QED BY <3>2 DEF Parts
  <2> QED BY <2>1, <2>2, <2>3
<1>0. DOMAIN CreateOrder(x) = 1..Len(CreateOrder(x))
  BY <1>1
<1>2. Len(CreateOrder(x)) \in Nat
  BY OrderFacts
<1>3. (Len(CreateOrder(x)) + 1) - 1 = Len(CreateOrder(x))
  BY <1>2
<1> QED BY <1>0, <1>3 DEF Objects, Before

\* What an entity has on the agent, its destruction asks the agent to delete.
LEMMA DestroyedObjects ==
    ASSUME NEW x \in Entities, NEW p \in Objects(x), p # "topic"
    PROVE  /\ Counts(p)
           /\ p \in Before(DestroyOrder(x), Len(DestroyOrder(x)) + 1)
           /\ Counts(DestroyOrder(x)[Len(DestroyOrder(x))])
<1> USE LifecycleAssumption DEF LifecycleAssumption, Entities, Topical
<1>1. x \notin Nodes /\ x \in Things
  BY DEF Things
<1>2. CASE x \in Publishers
  <2>1. CreateOrder(x) = <<"topic", "group", "endpoint">>
    BY <1>1, <1>2 DEF CreateOrder
  <2>2. DestroyOrder(x) = <<"topic", "endpoint", "group">>
    BY <1>1, <1>2 DEF DestroyOrder
  <2>3. p \in {"group", "endpoint"}
    BY <2>1 DEF Objects
  <2>4. Before(DestroyOrder(x), 4) = {"topic", "endpoint", "group"}
    BY <2>2 DEF Before
  <2> QED BY <2>2, <2>3, <2>4 DEF Counts
<1>3. CASE x \in Subscriptions
  <2>1. CreateOrder(x) = <<"topic", "group", "endpoint">>
    BY <1>1, <1>3 DEF CreateOrder
  <2>2. DestroyOrder(x) = <<"cancel", "topic", "endpoint", "group">>
    BY <1>1, <1>3 DEF DestroyOrder
  <2>3. p \in {"group", "endpoint"}
    BY <2>1 DEF Objects
  <2>4. Before(DestroyOrder(x), 5) = {"cancel", "topic", "endpoint", "group"}
    BY <2>2 DEF Before
  <2> QED BY <2>2, <2>3, <2>4 DEF Counts
<1>4. CASE x \in Services \cup Clients
  <2>0. x \notin Publishers /\ x \notin Subscriptions
    BY <1>4
  <2>1. CreateOrder(x) = <<"endpoint">>
    BY <1>1, <2>0 DEF CreateOrder
  <2>2. DestroyOrder(x) = <<"cancel", "endpoint">>
    BY <1>1, <2>0 DEF DestroyOrder
  <2>3. p = "endpoint"
    BY <2>1 DEF Objects
  <2>4. Before(DestroyOrder(x), 3) = {"cancel", "endpoint"}
    BY <2>2 DEF Before
  <2> QED BY <2>2, <2>3, <2>4 DEF Counts
<1> QED BY <1>2, <1>3, <1>4

\* A step of thread t that works on x and on nothing else.
WorksOn(t, x) ==
    /\ op[t].x \in {Nobody, x}
    /\ \A u \in Threads \ {t}: op'[u] = op[u] /\ op[u].x # x
    /\ \A y \in Things \ {x}: agent'[y] = agent[y] /\ (y \in used' <=> y \in used)
    /\ used' \subseteq Things

\* What it has to leave of x.
LeavesObjects(t, x) ==
    /\ agent'[x] \subseteq Objects(x)
    /\ x \notin used' => agent'[x] = {}
    /\ ReliableCreate /\ x \in used' =>
         IF op'[t].x = x
         THEN op'[t].call = "create" =>
                agent'[x] = Before(CreateOrder(x), op'[t].step)
         ELSE agent'[x] = Objects(x)

\* What it has to leave of the thing that t works on next.
LeavesDeleted(t) ==
    ReliableDestroy /\ op'[t].call = "destroy" /\ op'[t].ok =>
        \A p \in Before(DestroyOrder(op'[t].x), op'[t].step):
            Counts(p) => p \notin agent'[op'[t].x]

\* A step of one call leaves alone what the agent has for the other things.
LEMMA AgentElsewhere ==
    ASSUME TypeOK, CallsInv, AgentInv, NEW t \in Threads, NEW x \in Things,
           WorksOn(t, x), LeavesObjects(t, x), LeavesDeleted(t),
           op'[t].call = "create" => op'[t].x = x
    PROVE  AgentInv'
<1> USE DEF WorksOn, LeavesObjects
<1> USE LifecycleAssumption DEF LifecycleAssumption
<1>1. ObjectsOnly'
  BY DEF AgentInv, ObjectsOnly
<1>2. ASSUME ReliableCreate PROVE CreatedSoFar'
  <2> SUFFICES ASSUME NEW y \in used', NEW u \in Threads,
                      op'[u].x = y, op'[u].call = "create"
               PROVE  agent'[y] = Before(CreateOrder(y), op'[u].step)
    BY DEF CreatedSoFar
  <2>1. CASE u = t
    BY <1>2, <2>1
  <2>2. CASE u # t
    <3>1. op'[u] = op[u] /\ y # x
      BY <2>2
    <3>2. y \in used /\ agent'[y] = agent[y]
      BY <3>1
    <3> QED BY <1>2, <3>1, <3>2 DEF AgentInv, CreatedSoFar
  <2> QED BY <2>1, <2>2
<1>3. ASSUME ReliableCreate PROVE WholeUnworked'
  <2> SUFFICES ASSUME NEW y \in used', ~ Worked(y)'
               PROVE  agent'[y] = Objects(y)
    BY DEF WholeUnworked
  <2>1. op'[t].x # y
    BY DEF Worked
  <2>2. CASE y = x
    BY <1>3, <2>1, <2>2
  <2>3. CASE y # x
    <3>1. y \in used /\ agent'[y] = agent[y] /\ y # Nobody
      BY <2>3 DEF Things, TypeOK
    <3>2. \A u \in Threads: op[u].x # y
      BY <2>3, <3>1 DEF Worked
    <3>3. ~ Worked(y)
      BY <3>2 DEF Worked
    <3> QED BY <1>3, <3>1, <3>3 DEF AgentInv, WholeUnworked
  <2> QED BY <2>2, <2>3
<1>4. ASSUME ReliableDestroy PROVE DeletedSoFar'
  <2> SUFFICES ASSUME NEW u \in Threads, op'[u].call = "destroy", op'[u].ok
               PROVE  \A p \in Before(DestroyOrder(op'[u].x), op'[u].step):
                         Counts(p) => p \notin agent'[op'[u].x]
    BY DEF DeletedSoFar
  <2>1. CASE u = t
    BY <1>4, <2>1 DEF LeavesDeleted
  <2>2. CASE u # t
    <3>1. op'[u] = op[u] /\ op[u].call = "destroy"
      BY <2>2
    <3>2. op[u].x \in Things \ {x}
      BY <2>2, <3>1, CallsType
    <3>3. agent'[op[u].x] = agent[op[u].x]
      BY <3>2
    <3>4. op[u].ok
      BY <3>1
    <3>5. \A p \in Before(DestroyOrder(op[u].x), op[u].step):
            Counts(p) => p \notin agent[op[u].x]
      BY <1>4, <3>1, <3>4 DEF AgentInv, DeletedSoFar
    <3> QED BY <3>1, <3>3, <3>5
  <2> QED BY <2>1, <2>2
<1> QED BY <1>1, <1>2, <1>3, <1>4 DEF AgentInv

\* A call that begins leaves the objects alone.
LEMMA AgentBegin ==
    ASSUME TypeOK, CallsInv, AgentInv, NEW t \in Threads, MayCall(t),
           NEW x \in Things, NEW n \in Nodes \cup {Nobody},
           NEW c \in {"create", "destroy"},
           \A u \in Threads: op[u].x # x,
           op' = [op EXCEPT ![t] = Begin(c, x, n, TRUE)],
           c = "create" => x \notin used /\ used' = used \cup {x},
           c = "destroy" => x \in used /\ used' = used,
           agent' = agent
    PROVE  AgentInv'
<1>1. /\ \A u \in Threads \ {t}: op'[u] = op[u]
      /\ op'[t].x = x /\ op'[t].call = c /\ op'[t].step = 1
      /\ op[t].x = Nobody
  BY DEF TypeOK, Begin, MayCall, NoCall
<1>2. \A order: Before(order, 1) = {}
  BY DEF Before
<1>3. agent[x] \subseteq Objects(x) /\ (x \notin used => agent[x] = {})
  BY DEF AgentInv, ObjectsOnly
<1>4. used' \subseteq Things
  BY DEF TypeOK
<1>5. \A y \in Things \ {x}: agent'[y] = agent[y] /\ (y \in used' <=> y \in used)
  OBVIOUS
<1>6. WorksOn(t, x)
  BY <1>1, <1>4, <1>5 DEF WorksOn
<1>7. LeavesObjects(t, x)
  BY <1>1, <1>2, <1>3 DEF LeavesObjects
<1>8. LeavesDeleted(t)
  BY <1>1, <1>2 DEF LeavesDeleted
<1> QED BY <1>1, <1>6, <1>7, <1>8, AgentElsewhere

\* No other thread works on the thing of a call.
LEMMA OthersApart ==
    ASSUME TypeOK, CallsInv, NEW t \in Threads, op[t].call # "none",
           NEW u \in Threads \ {t}
    PROVE  op[u].x # op[t].x
BY CallsType DEF CallsInv, CallsApart

\* Beginning a creation: the agent has nothing for the new thing yet.
LEMMA CreateAnyAgent ==
    ASSUME TypeOK, CallsInv, AgentInv, NEW t \in Threads, CreateAny(t)
    PROVE  AgentInv'
<1> USE LifecycleAssumption DEF LifecycleAssumption
<1>1. ASSUME UNCHANGED <<used, agent>>, NEW r, Return(t, r), MayCall(t)
      PROVE  AgentInv'
  <2>1. op' = op
    BY <1>1 DEF Return, MayCall, TypeOK
  <2> QED BY <1>1, <2>1
       DEF AgentInv, ObjectsOnly, CreatedSoFar, WholeUnworked, DeletedSoFar, Worked
<1>2. ASSUME NEW x \in Things, MayCall(t), x \notin used, used' = used \cup {x},
             agent' = agent,
             op' = [op EXCEPT ![t] = Begin("create", x, Nobody, TRUE)]
      PROVE  AgentInv'
  <2>1. \A u \in Threads: op[u].x # x
    BY <1>2, CallsType DEF CallsInv, CallOK, NoCall, Things
  <2> QED BY <1>2, <2>1, AgentBegin
<1>3. ASSUME NEW S, CreateNoSlot(t, S) PROVE AgentInv'
  BY <1>1, <1>3 DEF CreateNoSlot
<1>4. ASSUME NEW n \in Nodes, NEW e \in Entities, CreateFailsEarly(t, e, n)
      PROVE  AgentInv'
  BY <1>1, <1>4 DEF CreateFailsEarly
<1>5. ASSUME NEW n \in Nodes, NEW e \in Topical, CreateNoTopic(t, e, n)
      PROVE  AgentInv'
  BY <1>1, <1>5 DEF CreateNoTopic
<1>6. ASSUME NEW n \in Nodes, CreateNode(t, n) PROVE AgentInv'
  BY <1>2, <1>6 DEF CreateNode, Things
<1>7. ASSUME NEW n \in Nodes, NEW e \in Services \cup Clients, CreatePlain(t, e, n)
      PROVE  AgentInv'
  BY <1>2, <1>7 DEF CreatePlain, Things, Entities
<1>8. ASSUME NEW n \in Nodes, NEW e \in Topical, CreateTopical(t, e, n)
      PROVE  AgentInv'
  BY <1>2, <1>8 DEF CreateTopical, Things, Entities
<1> QED BY <1>3, <1>4, <1>5, <1>6, <1>7, <1>8 DEF CreateAny

\* A confirmed request: the agent has one object more.
LEMMA CreateOkAgent ==
    ASSUME TypeOK, CallsInv, AgentInv, NEW t \in Threads, CreateOk(t)
    PROVE  AgentInv'
<1> USE LifecycleAssumption DEF LifecycleAssumption
<1> DEFINE x == op[t].x
           k == op[t].step
<1>1. op[t].call = "create"
  BY DEF CreateOk, Creating
<1>2. x \in Things /\ x \in used /\ k \in 1..Len(CreateOrder(x)) /\ x # Nobody
  BY <1>1, CallsType DEF CallsInv, CallOK
<1>3. Len(CreateOrder(x)) \in 1..3
  BY <1>2, OrderFacts
<1>4. k \in Nat /\ k > 0
  BY <1>2, <1>3
<1>5. PICK o \in Outcomes(ReliableCreate):
        /\ o.ok
        /\ agent' = IF o.done THEN [agent EXCEPT ![x] = @ \cup {CreateOrder(x)[k]}]
                    ELSE agent
  BY DEF CreateOk
<1>6. ReliableCreate => o.done
  BY <1>5 DEF Outcomes
<1>7. agent[x] \subseteq Objects(x)
  BY <1>2 DEF AgentInv, ObjectsOnly
<1>8. agent'[x] \subseteq Objects(x)
  BY <1>2, <1>5, <1>7, ObjectsAre DEF TypeOK
<1>9. ReliableCreate => agent'[x] = Before(CreateOrder(x), k + 1)
  <2> SUFFICES ASSUME ReliableCreate PROVE agent'[x] = Before(CreateOrder(x), k + 1)
    OBVIOUS
  <2>1. agent[x] = Before(CreateOrder(x), k)
    BY <1>1, <1>2 DEF AgentInv, CreatedSoFar
  <2>2. agent'[x] = agent[x] \cup {CreateOrder(x)[k]}
    BY <1>2, <1>5, <1>6 DEF TypeOK
  <2> QED BY <1>4, <2>1, <2>2, BeforeFacts
<1>10. WorksOn(t, x)
  <2>1. \A u \in Threads \ {t}: op'[u] = op[u] /\ op[u].x # x
    BY <1>1, OthersApart DEF CreateOk, Return, TypeOK
  <2>2. \A y \in Things \ {x}: agent'[y] = agent[y]
    BY <1>5 DEF TypeOK
  <2> QED BY <2>1, <2>2 DEF WorksOn, CreateOk, TypeOK
<1>11. CASE k < Len(CreateOrder(x))
  <2>1. op'[t].x = x /\ op'[t].call = "create" /\ op'[t].step = k + 1
    BY <1>1, <1>11 DEF CreateOk, TypeOK, Calls
  <2>2. LeavesObjects(t, x)
    BY <1>2, <1>8, <1>9, <2>1 DEF LeavesObjects, CreateOk
  <2>3. LeavesDeleted(t)
    BY <2>1 DEF LeavesDeleted
  <2> QED BY <1>2, <1>10, <2>1, <2>2, <2>3, AgentElsewhere
<1>12. CASE ~ (k < Len(CreateOrder(x)))
  <2>1. k = Len(CreateOrder(x))
    BY <1>2, <1>3, <1>12
  <2>2. op'[t] = NoCall
    BY <1>12 DEF CreateOk, TypeOK, Return
  <2>3. op'[t].x = Nobody /\ op'[t].call = "none"
    BY <2>2 DEF NoCall
  <2>4. LeavesObjects(t, x)
    BY <1>2, <1>8, <1>9, <2>1, <2>3, ObjectsAre DEF LeavesObjects, CreateOk
  <2>5. LeavesDeleted(t)
    BY <2>3 DEF LeavesDeleted
  <2> QED BY <1>2, <1>10, <2>3, <2>4, <2>5, AgentElsewhere
<1> QED BY <1>11, <1>12

\* A creation that failed gives its item back: nothing on the agent counts as
\* its object any more.
LEMMA CreateTimeoutAgent ==
    ASSUME TypeOK, CallsInv, AgentInv, NEW t \in Threads, CreateTimeout(t)
    PROVE  AgentInv'
<1> USE LifecycleAssumption DEF LifecycleAssumption
<1> DEFINE x == op[t].x
<1>1. op[t].call = "create"
  BY DEF CreateTimeout, Creating
<1>2. x \in Things /\ x \in used /\ x # Nobody
  BY <1>1, CallsType
<1>3. used' = used \ {x} /\ agent' = [agent EXCEPT ![x] = {}]
  BY DEF CreateTimeout, FiniMemory
<1>4. /\ op'[t].x = Nobody /\ op'[t].call = "none"
      /\ \A u \in Threads \ {t}: op'[u] = op[u]
  BY DEF CreateTimeout, Return, TypeOK, NoCall
<1>5. WorksOn(t, x)
  BY <1>1, <1>3, <1>4, OthersApart DEF WorksOn, TypeOK
<1>6. LeavesObjects(t, x)
  BY <1>2, <1>3 DEF LeavesObjects, TypeOK
<1>7. LeavesDeleted(t)
  BY <1>4 DEF LeavesDeleted
<1> QED BY <1>2, <1>4, <1>5, <1>6, <1>7, AgentElsewhere

\* Beginning a destruction: nothing is deleted yet.
LEMMA DestroyAnyAgent ==
    ASSUME TypeOK, CallsInv, AgentInv, NEW t \in Threads, DestroyAny(t)
    PROVE  AgentInv'
<1> USE LifecycleAssumption DEF LifecycleAssumption
<1>1. ASSUME NEW e \in Entities, DestroyEntity(t, e) PROVE AgentInv'
  BY <1>1, AgentBegin DEF DestroyEntity, Worked, Things
<1>2. ASSUME NEW n \in Nodes, DestroyNode(t, n) PROVE AgentInv'
  <2>1. PICK x \in Following(n, used):
          op' = [op EXCEPT ![t] = Begin("destroy", x, n, TRUE)]
    BY <1>2 DEF DestroyNode
  <2>2. x \in Things /\ x \in used
    BY <1>2, FollowingFacts DEF OwnedBy, Things, DestroyNode, Live
  <2>3. \A u \in Threads: op[u].x # x
    BY <1>2, <2>2 DEF DestroyNode, NoCall, Things
  <2> QED BY <1>2, <2>1, <2>2, <2>3, AgentBegin DEF DestroyNode
<1> QED BY <1>1, <1>2 DEF DestroyAny

\* A deletion request: the agent may have one object less.
LEMMA DestroyRequestAgent ==
    ASSUME TypeOK, CallsInv, AgentInv, NEW t \in Threads, DestroyRequest(t)
    PROVE  AgentInv'
<1> USE LifecycleAssumption DEF LifecycleAssumption
<1> DEFINE x == op[t].x
           k == op[t].step
           part == DestroyOrder(x)[k]
           skip == part = "topic" /\ topicNode[topicOf[x]] = Nobody
<1>1. op[t].call = "destroy"
  BY DEF DestroyRequest, Destroying
<1>2. x \in Things /\ x \in used /\ k \in 1..Len(DestroyOrder(x)) /\ x # Nobody
  BY <1>1, CallsType DEF CallsInv, CallOK
<1>3. k \in Nat /\ k > 0
  BY <1>2, OrderFacts
<1>4. PICK o \in Outcomes(ReliableDestroy):
        /\ op' = [op EXCEPT ![t].step = k + 1, ![t].ok = NextOk(t, o)]
        /\ agent' = [agent EXCEPT ![x] = Kept(x, part, o.done /\ ~ skip)]
  BY DEF DestroyRequest
<1>5. /\ op'[t].x = x /\ op'[t].call = "destroy" /\ op'[t].step = k + 1
      /\ op'[t].ok = NextOk(t, o)
      /\ \A u \in Threads \ {t}: op'[u] = op[u]
  BY <1>1, <1>4 DEF TypeOK, Calls
<1>6. agent'[x] = Kept(x, part, o.done /\ ~ skip) /\ agent'[x] \subseteq agent[x]
  BY <1>2, <1>4 DEF TypeOK, Kept
<1>7. WorksOn(t, x)
  <2>1. \A y \in Things \ {x}: agent'[y] = agent[y]
    BY <1>4 DEF TypeOK
  <2> QED BY <1>1, <1>5, <2>1, OthersApart DEF WorksOn, DestroyRequest, TypeOK
<1>8. LeavesObjects(t, x)
  BY <1>2, <1>5, <1>6 DEF LeavesObjects, AgentInv, ObjectsOnly, DestroyRequest
<1>9. LeavesDeleted(t)
  <2> SUFFICES ASSUME ReliableDestroy, NextOk(t, o),
                      NEW p \in Before(DestroyOrder(x), k + 1), Counts(p)
               PROVE  p \notin agent'[x]
    BY <1>5 DEF LeavesDeleted
  <2>1. op[t].ok
    BY DEF NextOk
  <2>2. CASE p \in Before(DestroyOrder(x), k)
    <3>1. p \notin agent[x]
      BY <1>1, <2>1, <2>2 DEF AgentInv, DeletedSoFar
    <3> QED BY <1>6, <3>1
  <2>3. CASE p = part
    <3>1. o.done /\ ~ skip
      BY <2>3 DEF NextOk, Outcomes, Counts
    <3> QED BY <1>6, <2>3, <3>1 DEF Kept
  <2>4. p \in Before(DestroyOrder(x), k) \cup {part}
    BY <1>3, BeforeFacts
  <2> QED BY <2>2, <2>3, <2>4
<1>10. op'[t].call # "create"
  BY <1>5
<1> QED BY <1>2, <1>7, <1>8, <1>9, <1>10, AgentElsewhere

\* So does the last request of a destruction.
LEMMA DestroyLastAgent ==
    ASSUME TypeOK, CallsInv, AgentInv, NEW t \in Threads, DestroyLast(t)
    PROVE  AgentInv'
<1> USE LifecycleAssumption DEF LifecycleAssumption
<1> DEFINE x == op[t].x
<1>1. op[t].call = "destroy"
  BY DEF DestroyLast, Destroying
<1>2. x \in Things /\ x \in used /\ x # Nobody
  BY <1>1, CallsType
<1>3. used' = used \ {x} /\ agent' = [agent EXCEPT ![x] = {}]
  BY DEF DestroyLast, FiniMemory
<1>4. /\ op'[t].call # "create" /\ \A u \in Threads \ {t}: op'[u] = op[u]
      /\ op'[t].call = "destroy" => op'[t].step = 1
  BY DEF DestroyLast, Return, TypeOK, NoCall, Begin
<1>5. WorksOn(t, x)
  BY <1>1, <1>3, <1>4, OthersApart DEF WorksOn, TypeOK
<1>6. LeavesObjects(t, x)
  BY <1>2, <1>3 DEF LeavesObjects, TypeOK
<1>7. LeavesDeleted(t)
  <2>1. \A order: Before(order, 1) = {}
    BY DEF Before
  <2> QED BY <1>4, <2>1 DEF LeavesDeleted
<1> QED BY <1>2, <1>4, <1>5, <1>6, <1>7, AgentElsewhere

\* Every step keeps what is known of the agent.
LEMMA AgentStep ==
    ASSUME TypeOK, CallsInv, AgentInv, [Next]_vars
    PROVE  AgentInv'
<1>1. CASE UNCHANGED vars
  BY <1>1 DEF vars, AgentInv, ObjectsOnly, CreatedSoFar, WholeUnworked,
              DeletedSoFar, Worked
<1> QED BY <1>1, CreateAnyAgent, CreateOkAgent, CreateTimeoutAgent, DestroyAnyAgent,
           DestroyRequestAgent, DestroyLastAgent DEF Next

\* So it always holds.
LEMMA AgentAlways == Spec => []AgentInv
<1>1. Init => AgentInv
  BY DEF Init, AgentInv, ObjectsOnly, CreatedSoFar, WholeUnworked, DeletedSoFar,
         NoCall
<1> QED BY <1>1, AgentStep, CallsAlways, PTL DEF Spec

\* What a creation has returned, the agent has completely, and keeps until it
\* is destroyed, for any number of entities and threads and whatever is lost.
THEOREM LiveAreOnAgent == Spec => []LiveOnAgent
<1>1. AgentInv => LiveOnAgent
  BY DEF AgentInv, WholeUnworked, LiveOnAgent, Live
<1> QED BY <1>1, AgentAlways, PTL

\* A step is that of one thread.
LEMMA OneCaller ==
    ASSUME TypeOK, [Next]_vars, NEW t \in Threads, op'[t] # op[t]
    PROVE  \/ CreateAny(t) \/ CreateOk(t) \/ CreateTimeout(t) \/ DestroyAny(t)
           \/ DestroyRequest(t) \/ DestroyLast(t)
<1> SUFFICES ASSUME NEW u \in Threads, u # t,
                    \/ CreateAny(u) \/ CreateOk(u) \/ CreateTimeout(u)
                    \/ DestroyAny(u) \/ DestroyRequest(u) \/ DestroyLast(u)
             PROVE  FALSE
  BY DEF Next, vars
<1> USE DEF TypeOK, Return
<1>1. CASE CreateAny(u)
  BY <1>1 DEF CreateAny, CreateNoSlot, CreateFailsEarly, CreateNode, CreatePlain,
              CreateTopical, CreateNoTopic
<1>2. CASE CreateOk(u) \/ CreateTimeout(u)
  BY <1>2 DEF CreateOk, CreateTimeout
<1>3. CASE DestroyAny(u)
  BY <1>3 DEF DestroyAny, DestroyEntity, DestroyNode
<1>4. CASE DestroyRequest(u)
  BY <1>4 DEF DestroyRequest
<1>5. CASE DestroyLast(u)
  BY <1>5 DEF DestroyLast
<1> QED BY <1>1, <1>2, <1>3, <1>4, <1>5

\* A reliable destruction that returns RMW_RET_OK leaves at most the topic on
\* the agent.
LEMMA OkDestroyStep ==
    ASSUME TypeOK, CallsInv, AgentInv, [Next]_vars, NEW t \in Threads,
           ReliableDestroy, Destroying(t), op[t].node = Nobody,
           op'[t] = NoCall, ret' = "ok"
    PROVE  left' \subseteq {"topic"}
<1> USE LifecycleAssumption DEF LifecycleAssumption
<1> DEFINE x == op[t].x
           k == op[t].step
           part == DestroyOrder(x)[k]
<1>1. op[t].call = "destroy" /\ op[t] # NoCall
  BY DEF Destroying, NoCall
<1>2. DestroyLast(t)
  <2>1. ~ CreateAny(t) /\ ~ DestroyAny(t)
    BY <1>1 DEF CreateAny, CreateNoSlot, CreateFailsEarly, CreateNode, CreatePlain,
                CreateTopical, CreateNoTopic, DestroyAny, DestroyEntity, DestroyNode,
                MayCall
  <2>2. ~ CreateOk(t) /\ ~ CreateTimeout(t)
    BY <1>1 DEF CreateOk, CreateTimeout, Creating
  <2>3. ASSUME DestroyRequest(t) PROVE FALSE
    <3>1. PICK o \in Outcomes(ReliableDestroy):
            op' = [op EXCEPT ![t].step = k + 1, ![t].ok = NextOk(t, o)]
      BY <2>3 DEF DestroyRequest
    <3>2. op'[t].call = op[t].call
      BY <3>1 DEF TypeOK, Calls
    <3> QED BY <1>1, <3>2 DEF NoCall
  <2> QED BY <1>1, <2>1, <2>2, <2>3, OneCaller
<1>3. x \in Entities /\ x \in Things /\ k \in 1..Len(DestroyOrder(x))
  <2>1. x \in Things /\ k \in 1..Len(DestroyOrder(x)) /\ x \notin Nodes
    BY <1>1, CallsType DEF CallsInv, CallOK
  <2> QED BY <2>1 DEF Things
<1>4. k = Len(DestroyOrder(x)) /\ k \in Nat /\ k > 0
  BY <1>2, <1>3, OrderFacts DEF DestroyLast
<1>5. PICK o \in Outcomes(ReliableDestroy): NextOk(t, o) /\ left' = Kept(x, part, o.done)
  BY <1>2 DEF DestroyLast, FiniMemory, Return
<1>6. ASSUME NEW p \in left', p # "topic" PROVE FALSE
  <2>1. p \in agent[x] /\ p \in Objects(x)
    BY <1>3, <1>5, <1>6 DEF Kept, AgentInv, ObjectsOnly
  <2>2. Counts(p) /\ p \in Before(DestroyOrder(x), k + 1)
    BY <1>3, <1>4, <1>6, <2>1, DestroyedObjects
  <2>3. p \in Before(DestroyOrder(x), k) \cup {part}
    BY <1>4, <2>2, BeforeFacts
  <2>4. p \notin Before(DestroyOrder(x), k)
    BY <1>1, <1>5, <2>1, <2>2 DEF AgentInv, DeletedSoFar, NextOk
  <2>5. p # part
    <3> SUFFICES ASSUME p = part PROVE FALSE
      OBVIOUS
    <3>1. o.done
      BY <1>5, <2>2 DEF NextOk, Outcomes
    <3> QED BY <1>5, <1>6, <3>1 DEF Kept
  <2> QED BY <2>3, <2>4, <2>5
<1> QED BY <1>6

\* RMW_RET_OK from the destruction of an entity, whose result the code collects
\* over its requests, means that the agent has nothing of it but the topic.
THEOREM OkIsDeleted == Spec => OkMeansDeleted
<1>1. TypeOK /\ CallsInv /\ AgentInv /\ [Next]_vars =>
        [\A t \in Threads:
           /\ ReliableDestroy
           /\ Destroying(t) /\ op[t].node = Nobody
           /\ op'[t] = NoCall /\ ret' = "ok"
           => left' \subseteq {"topic"}]_vars
  BY OkDestroyStep
<1> QED BY <1>1, CallsAlways, AgentAlways, PTL DEF Spec, OkMeansDeleted

-----------------------------------------------------------------------------
\* The catalogue: each step adds a thing, removes one or changes nothing.

CatalogKept == Live' = Live /\ \A e \in Live \cap Entities: ownerNode'[e] = ownerNode[e]

\* A step that keeps the living entities and their nodes is invisible to the
\* catalog.
LEMMA KeptIsUnchanged ==
    ASSUME CatalogKept
    PROVE  UNCHANGED Entries!cvars
<1>1. [e \in Live \cap Entities |-> ownerNode[e]]' = [e \in Live \cap Entities |-> ownerNode[e]]
  BY DEF CatalogKept
<1> QED BY <1>1 DEF CatalogKept, Entries!cvars

\* What the application has is what is allocated and not being created.
LEMMA LiveAre ==
    ASSUME NEW x
    PROVE  x \in Live <=>
             x \in used /\ \A t \in Threads: ~ (op[t].call = "create" /\ op[t].x = x)
BY DEF Live

\* No call begins or ends a creation of what the application has.
LEMMA CreateAnyCatalog ==
    ASSUME TypeOK, CallsInv, NEW t \in Threads, CreateAny(t)
    PROVE  CatalogKept
<1> USE LifecycleAssumption DEF LifecycleAssumption
<1>1. ASSUME UNCHANGED used, NEW r, Return(t, r), MayCall(t),
             \A e \in used \cap Entities: ownerNode'[e] = ownerNode[e]
      PROVE  CatalogKept
  <2>1. op' = op
    BY <1>1 DEF Return, MayCall, TypeOK
  <2> QED BY <1>1, <2>1 DEF CatalogKept, Live
<1>2. ASSUME NEW x \in Things, MayCall(t), x \notin used, used' = used \cup {x},
             \A e \in used \cap Entities: ownerNode'[e] = ownerNode[e],
             op' = [op EXCEPT ![t] = Begin("create", x, Nobody, TRUE)]
      PROVE  CatalogKept
  <2>1. /\ \A u \in Threads \ {t}: op'[u] = op[u]
        /\ op'[t].x = x /\ op'[t].call = "create" /\ op[t].call = "none"
    BY <1>2 DEF TypeOK, Begin, MayCall, NoCall
  <2>2. \A y: y \in Live' <=> y \in Live
    BY <1>2, <2>1 DEF Live
  <2>3. Live' = Live
    BY <2>2
  <2> QED BY <1>2, <2>3 DEF CatalogKept, Live
<1>3. ASSUME NEW S, CreateNoSlot(t, S) PROVE CatalogKept
  BY <1>1, <1>3 DEF CreateNoSlot
<1>4. ASSUME NEW n \in Nodes, NEW e \in Entities, CreateFailsEarly(t, e, n)
      PROVE  CatalogKept
  <2>1. PICK node: ownerNode' = [ownerNode EXCEPT ![e] = node]
    BY <1>4 DEF CreateFailsEarly
  <2> QED BY <1>1, <1>4, <2>1 DEF CreateFailsEarly, TypeOK
<1>5. ASSUME NEW n \in Nodes, NEW e \in Topical, CreateNoTopic(t, e, n)
      PROVE  CatalogKept
  BY <1>1, <1>5 DEF CreateNoTopic, TypeOK
<1>6. ASSUME NEW n \in Nodes, CreateNode(t, n) PROVE CatalogKept
  BY <1>2, <1>6 DEF CreateNode, Things
<1>7. ASSUME NEW n \in Nodes, NEW e \in Services \cup Clients, CreatePlain(t, e, n)
      PROVE  CatalogKept
  BY <1>2, <1>7 DEF CreatePlain, Things, Entities, TypeOK
<1>8. ASSUME NEW n \in Nodes, NEW e \in Topical, CreateTopical(t, e, n)
      PROVE  CatalogKept
  <2>1. e \in Entities /\ e \in Things
    BY DEF Entities, Things
  <2>2. \A f \in used \cap Entities: ownerNode'[f] = ownerNode[f]
    BY <1>8 DEF CreateTopical, TypeOK
  <2> QED BY <1>2, <1>8, <2>1, <2>2 DEF CreateTopical
<1> QED BY <1>3, <1>4, <1>5, <1>6, <1>7, <1>8 DEF CreateAny

\* The last request of a creation adds its thing, on a node that lives.
LEMMA CreateOkCatalog ==
    ASSUME TypeOK, CallsInv, NodeOutlivesEntities, NEW t \in Threads, CreateOk(t),
           NEW x, op[t].x = x
    PROVE  [Entries!Next]_(Entries!cvars)
<1> USE LifecycleAssumption DEF LifecycleAssumption
<1>1. op[t].call = "create" /\ UNCHANGED <<used, ownerNode>>
  BY DEF CreateOk, Creating
<1>2. x \in Things /\ x \in used /\ x \notin Live
  BY <1>1, CallsType DEF Live
<1>3. \A u \in Threads \ {t}: op'[u] = op[u] /\ op[u].x # x
  BY <1>1, OthersApart DEF CreateOk, Return, TypeOK
<1>4. CASE op[t].step < Len(CreateOrder(x))
  <2>1. op'[t].x = x /\ op'[t].call = "create"
    BY <1>1, <1>4 DEF CreateOk, TypeOK, Calls
  <2>2. \A y: y \in Live' <=> y \in Live
    BY <1>1, <1>3, <2>1 DEF Live
  <2>3. CatalogKept
    BY <1>1, <2>2 DEF CatalogKept
  <2> QED BY <2>3, KeptIsUnchanged
<1>5. CASE ~ (op[t].step < Len(CreateOrder(x)))
  <2>1. op'[t] = NoCall
    BY <1>5 DEF CreateOk, TypeOK, Return
  <2>2. Live' = Live \cup {x}
    <3>1. \A y: y \in Live' <=> y \in Live \cup {x}
      BY <1>1, <1>2, <1>3, <2>1 DEF Live, NoCall
    <3> QED BY <3>1
  <2>3. CASE x \in Nodes
    <3>1. Live' \cap Entities = Live \cap Entities
      BY <2>2, <2>3
    <3>2. Entries!AddNode(x)
      BY <1>1, <1>2, <2>2, <3>1 DEF Entries!AddNode, Entries!OwnersKept
    <3>3. Entries!Next
      BY <2>3, <3>2 DEF Entries!Next
    <3> QED BY <3>3
  <2>4. CASE x \in Entities
    <3>1. ownerNode[x] \in Live /\ ownerNode[x] \in Nodes
      BY <1>2, <2>4 DEF NodeOutlivesEntities, TypeOK, Live
    <3>2. Entries!AddEntity(x)
      BY <1>1, <1>2, <2>2, <2>4, <3>1 DEF Entries!AddEntity, Entries!OwnersKept
    <3>3. Entries!Next
      BY <2>4, <3>2 DEF Entries!Next
    <3> QED BY <3>3
  <2> QED BY <1>2, <2>3, <2>4 DEF Things
<1> QED BY <1>4, <1>5

\* The last request of a destruction removes its thing, a node without entities.
LEMMA DestroyLastCatalog ==
    ASSUME TypeOK, CallsInv, NodeOutlivesEntities, NEW t \in Threads, DestroyLast(t),
           NEW x, op[t].x = x
    PROVE  Entries!Next
<1> USE LifecycleAssumption DEF LifecycleAssumption
<1>1. /\ op[t].call = "destroy" /\ used' = used \ {x} /\ ownerNode' = ownerNode
  BY DEF DestroyLast, Destroying, FiniMemory
<1>2. x \in Things /\ x \in used
  BY <1>1, CallsType
<1>3. \A u \in Threads \ {t}: op'[u] = op[u] /\ op[u].x # x
  BY <1>1, OthersApart DEF DestroyLast, Return, TypeOK
<1>4. op'[t].call # "create"
  BY DEF DestroyLast, Return, TypeOK, NoCall, Begin
<1>5. x \in Live
  BY <1>1, <1>2, <1>3 DEF Live
<1>6. Live' = Live \ {x}
  <2>1. \A y: y \in Live' <=> y \in Live \ {x}
    BY <1>1, <1>3, <1>4 DEF Live
  <2> QED BY <2>1
<1>7. \A e \in Live \cap Entities: ownerNode[e] # x
  <2> SUFFICES ASSUME NEW z \in Live \cap Entities PROVE ownerNode[z] # x
    OBVIOUS
  <2>1. z \in used /\ ownerNode[z] \in Nodes
    BY DEF Live, NodeOutlivesEntities, TypeOK
  <2>2. CASE x \in Nodes
    <3>1. op[t].node = x /\ op[t].x \in Nodes /\ op[t].node # Nobody
      BY <1>1, <2>2 DEF CallsInv, CallOK, Things
    <3>2. {e \in used \cap Entities: ownerNode[e] = x} = {}
      BY <3>1 DEF CallsInv, CallOK, OwnedBy
    <3> QED BY <2>1, <3>2
  <2>3. CASE x \in Entities
    BY <2>1, <2>3
  <2> QED BY <1>2, <2>2, <2>3 DEF Things
<1>8. Entries!Remove(x)
  BY <1>1, <1>5, <1>6, <1>7 DEF Entries!Remove, Entries!OwnersKept
<1> QED BY <1>2, <1>8 DEF Entries!Next, Things

\* Every step is a step of the catalog or invisible to it.
LEMMA CatalogStep ==
    ASSUME TypeOK, CallsInv, NodeOutlivesEntities, [Next]_vars
    PROVE  [Entries!Next]_(Entries!cvars)
<1>1. ASSUME NEW t \in Threads, DestroyAny(t) PROVE CatalogKept
  <2>1. UNCHANGED <<used, ownerNode>> /\ MayCall(t)
    BY <1>1 DEF DestroyAny, DestroyEntity, DestroyNode
  <2>2. op'[t].call # "create" /\ \A u \in Threads \ {t}: op'[u] = op[u]
    BY <1>1 DEF DestroyAny, DestroyEntity, DestroyNode, TypeOK, Begin
  <2>3. \A y: y \in Live' <=> y \in Live
    BY <2>1, <2>2 DEF Live, MayCall, NoCall
  <2> QED BY <2>1, <2>3 DEF CatalogKept
<1>2. ASSUME NEW t \in Threads, CreateTimeout(t) PROVE CatalogKept
  <2> DEFINE x == op[t].x
  <2>1. /\ op[t].call = "create" /\ used' = used \ {x} /\ ownerNode' = ownerNode
        /\ op'[t].call = "none" /\ \A u \in Threads \ {t}: op'[u] = op[u]
    BY <1>2 DEF CreateTimeout, Creating, FiniMemory, Return, TypeOK, NoCall
  <2>2. \A u \in Threads \ {t}: op[u].x # x
    BY <2>1, OthersApart
  <2>3. \A y: y \in Live' <=> y \in Live
    BY <2>1, <2>2 DEF Live
  <2> QED BY <2>1, <2>3 DEF CatalogKept
<1>3. ASSUME NEW t \in Threads, DestroyRequest(t) PROVE CatalogKept
  <2>1. PICK o \in Outcomes(ReliableDestroy):
          op' = [op EXCEPT ![t].step = op[t].step + 1, ![t].ok = NextOk(t, o)]
    BY <1>3 DEF DestroyRequest
  <2>2. \A u \in Threads: op'[u].call = op[u].call /\ op'[u].x = op[u].x
    BY <2>1 DEF TypeOK, Calls
  <2>3. UNCHANGED <<used, ownerNode>>
    BY <1>3 DEF DestroyRequest
  <2>4. \A y: y \in Live' <=> y \in Live
    BY <2>2, <2>3 DEF Live
  <2> QED BY <2>3, <2>4 DEF CatalogKept
<1>4. ASSUME UNCHANGED vars PROVE CatalogKept
  BY <1>4 DEF vars, CatalogKept, Live
<1>5. ASSUME NEW t \in Threads,
             \/ CreateAny(t) \/ CreateTimeout(t)
             \/ DestroyAny(t) \/ DestroyRequest(t)
      PROVE  [Entries!Next]_(Entries!cvars)
  <2>1. CatalogKept
    BY <1>1, <1>2, <1>3, <1>5, CreateAnyCatalog
  <2> QED BY <2>1, KeptIsUnchanged
<1>6. ASSUME NEW t \in Threads, CreateOk(t) PROVE [Entries!Next]_(Entries!cvars)
  BY <1>6, CreateOkCatalog
<1>7. ASSUME NEW t \in Threads, DestroyLast(t) PROVE [Entries!Next]_(Entries!cvars)
  BY <1>7, DestroyLastCatalog
<1>8. CASE UNCHANGED vars
  BY <1>4, <1>8, KeptIsUnchanged
<1> QED BY <1>5, <1>6, <1>7, <1>8 DEF Next

\* Whatever requests and answers are lost and in whatever order calls of several
\* threads go on, the calls that create and destroy implement the catalogue: a
\* creation adds its thing as a whole or not at all, on a node that lives, and
\* nothing is removed before what depends on it.
THEOREM CatalogImplemented == Spec => ImplementsCatalog
<1>1. Init => Entries!Init
  <2> SUFFICES ASSUME Init PROVE Entries!Init
    OBVIOUS
  <2>1. Live = {}
    BY DEF Init, Live
  <2>2. [e \in Live \cap Entities |-> ownerNode[e]] = [e \in {} |-> e]
    BY <2>1
  <2> QED BY <2>1, <2>2 DEF Entries!Init
<1>2. TypeOK /\ CallsInv /\ NodeOutlivesEntities /\ [Next]_vars
        => [Entries!Next]_(Entries!cvars)
  BY CatalogStep
<1> QED BY <1>1, <1>2, CallsAlways, OwnersAlways, PTL
        DEF Spec, ImplementsCatalog, Entries!CatalogSpec
=============================================================================
