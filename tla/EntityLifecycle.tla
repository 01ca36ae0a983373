--------------------------- MODULE EntityLifecycle ---------------------------
(***************************************************************************)
(* Nodes, publishers, subscriptions, services and clients: the slots they  *)
(* take from their pools, the topics of publishers and subscriptions, and  *)
(* the objects the XRCE agent creates for them (rmw_node.c,                *)
(* rmw_publisher.c, rmw_subscription.c, rmw_service.c, rmw_client.c,       *)
(* rmw_microxrcedds_topic.c).                                              *)
(*                                                                         *)
(* A call sends the agent one request after the other and runs the session *)
(* (run_xrce_session) until the request is answered or times out; between  *)
(* two of these runs it only touches its own entity and the pools.  Each   *)
(* run, with what follows it up to the next one, is one step.              *)
(***************************************************************************)
EXTENDS Naturals, Sequences, FiniteSets

CONSTANTS
    Nodes, Publishers, Subscriptions, Services, Clients,    \* pool slots
    Topics,         \* slots of topics_memory
    Threads,        \* application threads
    Nobody,         \* no node, no entity, no topic
    ReliableCreate, \* RMW_UXRCE_ENTITY_CREATION_TIMEOUT > 0
    ReliableDestroy,\* RMW_UXRCE_ENTITY_DESTROY_TIMEOUT > 0
    EarlyFailures   \* TRUE: in a slot that had a topic before, a creation may
                    \* fail before it has a topic of its own

Topical == Publishers \cup Subscriptions
Entities == Topical \cup Services \cup Clients
Things == Nodes \cup Entities

ASSUME LifecycleAssumption ==
    /\ IsFiniteSet(Topical) /\ IsFiniteSet(Topics)
    /\ Nobody \notin Things \cup Topics
    /\ Nodes \cap Entities = {}
    /\ Publishers \cap (Subscriptions \cup Services \cup Clients) = {}
    /\ Subscriptions \cap (Services \cup Clients) = {}
    /\ Services \cap Clients = {}
    /\ ReliableCreate \in BOOLEAN /\ ReliableDestroy \in BOOLEAN
    /\ EarlyFailures \in BOOLEAN

VARIABLES
    used,       \* slots allocated in the pools of nodes and entities
    ownerNode,  \* ownerNode[e]: custom_publisher->owner_node and its like
    topicOf,    \* topicOf[e]: custom_publisher->topic, custom_subscription->topic
    topics,     \* slots allocated in topics_memory
    topicNode,  \* topicNode[p]: custom_topic->owner_node
    strayPut,   \* TRUE once a topic that was not allocated was put back: the
                \* free list may be a cycle then, and nothing more is modelled
    agent,      \* agent[x]: the objects the agent has for the thing in slot x
    left,       \* the objects it kept of the thing that went last
    op,         \* op[t]: the call t is in
    ret         \* what the last call that returned returned

vars == <<used, ownerNode, topicOf, topics, topicNode, strayPut, agent, left, op, ret>>

-----------------------------------------------------------------------------
\* The requests of each call, in their order.  "group" is the XRCE publisher
\* or subscriber, "endpoint" the data writer or reader, the replier or the
\* requester; "cancel" ends the delivery of data and has no object.

\* Mutant: the request for data is taken for an object.
CreateOrderData(x) ==
    CASE x \in Nodes -> <<"participant">>
      [] x \in Topical -> <<"topic", "group", "endpoint", "cancel">>
      [] OTHER -> <<"endpoint">>

CreateOrder(x) ==
    CASE x \in Nodes -> <<"participant">>
      [] x \in Topical -> <<"topic", "group", "endpoint">>
      [] OTHER -> <<"endpoint">>

DestroyOrder(x) ==
    CASE x \in Nodes -> <<"participant">>
      [] x \in Publishers -> <<"topic", "endpoint", "group">>
      [] x \in Subscriptions -> <<"cancel", "topic", "endpoint", "group">>
      [] OTHER -> <<"cancel", "endpoint">>

Parts == {"participant", "topic", "group", "endpoint"}
Objects(x) == {CreateOrder(x)[i]: i \in DOMAIN CreateOrder(x)}

\* Mutant: run_xrce_session does not look at the answer.
OutcomesUnchecked(reliable) == {o \in [done: BOOLEAN, ok: BOOLEAN]: o.ok}

\* What a session run may bring: whether the agent did what was asked (done),
\* and what run_xrce_session returns (ok).  A request or its answer may be
\* lost; on a best-effort stream nobody waits for the answer.
Outcomes(reliable) ==
    {o \in [done: BOOLEAN, ok: BOOLEAN]:
        IF reliable THEN o.ok => o.done ELSE o.ok}

NoCall == [call |-> "none", x |-> Nobody, step |-> 0, ok |-> TRUE, node |-> Nobody]
Calls == [call: {"none", "create", "destroy"}, x: Things \cup {Nobody},
          step: 0..4, ok: BOOLEAN, node: Nodes \cup {Nobody}]

Worked(x) == \E t \in Threads: op[t].x = x
Live == {x \in used: \A t \in Threads: ~ (op[t].call = "create" /\ op[t].x = x)}
OwnedBy(n, S) == {e \in S \cap Entities: ownerNode[e] = n}

\* The application destroys a node while no other thread uses the pools.
NodeCalls == {t \in Threads: op[t].node # Nobody}
MayCall(t) == op[t] = NoCall /\ NodeCalls = {} /\ ~ strayPut

Init ==
    /\ used = {}
    /\ ownerNode = [e \in Entities |-> Nobody]
    /\ topicOf = [e \in Topical |-> Nobody]
    /\ topics = {}
    /\ topicNode = [p \in Topics |-> Nobody]
    /\ strayPut = FALSE
    /\ agent = [x \in Things |-> {}]
    /\ left = {}
    /\ op = [t \in Threads |-> NoCall]
    /\ ret = "none"

\* A call c of x begins; n is the node that rmw_destroy_node was called for,
\* and ok what its result is so far.
Begin(c, x, n, ok) == [call |-> c, x |-> x, step |-> 1, ok |-> ok, node |-> n]

Return(t, r) == op' = [op EXCEPT ![t] = NoCall] /\ ret' = r

\* rmw_uxrce_fini_topic_memory
FiniTopic(p) ==
    /\ topics' = topics \ {p}
    /\ topicNode' = [topicNode EXCEPT ![p] = Nobody]
    /\ strayPut' = (strayPut \/ p \notin topics)

\* rmw_uxrce_fini_publisher_memory and its like, for a thing of which the
\* agent has the objects kept: nobody will delete them any more.
FiniMemory(x, kept) ==
    /\ used' = used \ {x}
    /\ agent' = [agent EXCEPT ![x] = {}]
    /\ left' = kept

-----------------------------------------------------------------------------
\* rmw_create_*: the pool has no free slot.
CreateNoSlot(t, slots) ==
    /\ MayCall(t)
    /\ slots \subseteq used
    /\ Return(t, "null")
    /\ UNCHANGED <<used, ownerNode, topicOf, topics, topicNode, strayPut, agent,
                   left>>

\* rmw_create_*: the name is too long or the type support is not found. The
\* slot is taken and given back, with the topic its last entity had.
CreateFailsEarly(t, e, n) ==
    /\ MayCall(t)
    /\ e \notin used /\ n \in Live
    /\ \E node \in {ownerNode[e], n}:
         ownerNode' = [ownerNode EXCEPT ![e] = node]
    /\ IF e \in Topical /\ topicOf[e] # Nobody
       THEN EarlyFailures /\ FiniTopic(topicOf[e])
       ELSE UNCHANGED <<topics, topicNode, strayPut>>
    /\ Return(t, "null")
    /\ UNCHANGED <<used, topicOf, agent, left>>

\* create_node up to its session run; a name that is too long changes nothing.
CreateNode(t, n) ==
    /\ MayCall(t)
    /\ n \notin used
    /\ used' = used \cup {n}
    /\ op' = [op EXCEPT ![t] = Begin("create", n, Nobody, TRUE)]
    /\ UNCHANGED <<ownerNode, topicOf, topics, topicNode, strayPut, agent, left, ret>>

\* rmw_create_service and rmw_create_client up to their session run
CreatePlain(t, e, n) ==
    /\ MayCall(t)
    /\ e \notin used /\ n \in Live
    /\ used' = used \cup {e}
    /\ ownerNode' = [ownerNode EXCEPT ![e] = n]
    /\ op' = [op EXCEPT ![t] = Begin("create", e, Nobody, TRUE)]
    /\ UNCHANGED <<topicOf, topics, topicNode, strayPut, agent, left, ret>>

\* rmw_create_publisher and rmw_create_subscription up to the session run of
\* create_topic
CreateTopical(t, e, n) ==
    /\ MayCall(t)
    /\ e \notin used /\ n \in Live
    /\ used' = used \cup {e}
    /\ ownerNode' = [ownerNode EXCEPT ![e] = n]
    /\ \E p \in Topics \ topics:
         /\ topics' = topics \cup {p}
         /\ topicNode' = [topicNode EXCEPT ![p] = n]
         /\ topicOf' = [topicOf EXCEPT ![e] = p]
    /\ op' = [op EXCEPT ![t] = Begin("create", e, Nobody, TRUE)]
    /\ UNCHANGED <<strayPut, agent, left, ret>>

\* create_topic finds no free topic, or the full names do not fit.
CreateNoTopic(t, e, n) ==
    /\ MayCall(t)
    /\ e \notin used /\ n \in Live
    /\ ownerNode' = [ownerNode EXCEPT ![e] = n]
    /\ topicOf' = [topicOf EXCEPT ![e] = Nobody]
    /\ Return(t, "null")
    /\ UNCHANGED <<used, topics, topicNode, strayPut, agent, left>>

Creating(t) == op[t].call = "create"

\* The agent confirms the request: the next one is sent, or the call returns
\* the entity.
CreateOk(t) ==
    LET x == op[t].x
        k == op[t].step
        order == CreateOrder(x)
    IN  /\ Creating(t)
        /\ \E o \in Outcomes(ReliableCreate):
             /\ o.ok
             /\ agent' = IF o.done THEN [agent EXCEPT ![x] = @ \cup {order[k]}]
                         ELSE agent
        /\ IF k < Len(order)
           THEN op' = [op EXCEPT ![t].step = k + 1] /\ UNCHANGED ret
           ELSE Return(t, "ok")
        /\ UNCHANGED <<used, ownerNode, topicOf, topics, topicNode, strayPut, left>>

\* Mutant: the topic is not given back.
CreateTimeoutNoFini(t) ==
    LET x == op[t].x
        k == op[t].step
    IN  /\ Creating(t)
        /\ \E o \in Outcomes(ReliableCreate):
             /\ ~ o.ok
             /\ FiniMemory(x, agent[x] \cup
                    (IF o.done THEN {CreateOrder(x)[k]} ELSE {}))
        /\ Return(t, "null")
        /\ UNCHANGED <<topics, topicNode, strayPut, topicOf, ownerNode>>

\* Mutant: create_topic gives its topic back and does not clear the pointer.
CreateTimeoutTwice(t) ==
    LET x == op[t].x
        k == op[t].step
    IN  /\ Creating(t)
        /\ \E o \in Outcomes(ReliableCreate):
             /\ ~ o.ok
             /\ FiniMemory(x, agent[x] \cup
                    (IF o.done THEN {CreateOrder(x)[k]} ELSE {}))
        /\ IF x \in Topical
           THEN /\ topics' = topics \ {topicOf[x]}
                /\ topicNode' = [topicNode EXCEPT ![topicOf[x]] = Nobody]
                /\ strayPut' = (strayPut \/ k = 1)
           ELSE UNCHANGED <<topics, topicNode, strayPut>>
        /\ Return(t, "null")
        /\ UNCHANGED <<topicOf, ownerNode>>

\* It does not: the slot and the topic are given back, what the agent has is
\* left there.  create_topic clears the pointer to a topic that it gave back.
CreateTimeout(t) ==
    LET x == op[t].x
        k == op[t].step
    IN  /\ Creating(t)
        /\ \E o \in Outcomes(ReliableCreate):
             /\ ~ o.ok
             /\ FiniMemory(x, agent[x] \cup
                    (IF o.done THEN {CreateOrder(x)[k]} ELSE {}))
        /\ IF x \in Topical
           THEN FiniTopic(topicOf[x])
           ELSE UNCHANGED <<topics, topicNode, strayPut>>
        /\ topicOf' = IF x \in Topical /\ k = 1
                      THEN [topicOf EXCEPT ![x] = Nobody] ELSE topicOf
        /\ Return(t, "null")
        /\ UNCHANGED ownerNode

-----------------------------------------------------------------------------
\* rmw_destroy_publisher and its like, up to the first session run
DestroyEntity(t, e) ==
    /\ MayCall(t)
    /\ e \in used /\ ~ Worked(e)
    /\ op' = [op EXCEPT ![t] = Begin("destroy", e, Nobody, TRUE)]
    /\ UNCHANGED <<used, ownerNode, topicOf, topics, topicNode, strayPut, agent,
                   left, ret>>

\* Mutant: the loop over the subscriptions is missing.
FollowingNoSubscriptions(n, rest) ==
    LET own == OwnedBy(n, rest) IN
    CASE own \cap Publishers # {} -> own \cap Publishers
      [] own \cap Publishers = {} /\ own \cap Services # {} -> own \cap Services
      [] own \cap (Publishers \cup Services) = {} /\ own \cap Clients # {} ->
            own \cap Clients
      [] OTHER -> {n}

\* What rmw_destroy_node destroys next: the publishers of the node, then its
\* subscriptions, services and clients, then the node itself.
Following(n, rest) ==
    LET own == OwnedBy(n, rest) IN
    CASE own \cap Publishers # {} -> own \cap Publishers
      [] own \cap Publishers = {} /\ own \cap Subscriptions # {} ->
            own \cap Subscriptions
      [] own \cap Topical = {} /\ own \cap Services # {} -> own \cap Services
      [] own \cap (Topical \cup Services) = {} /\ own \cap Clients # {} ->
            own \cap Clients
      [] OTHER -> {n}

DestroyNode(t, n) ==
    /\ MayCall(t)
    /\ n \in Live
    /\ \A u \in Threads: op[u] = NoCall
    /\ \E x \in Following(n, used):
         op' = [op EXCEPT ![t] = Begin("destroy", x, n, TRUE)]
    /\ UNCHANGED <<used, ownerNode, topicOf, topics, topicNode, strayPut, agent,
                   left, ret>>

\* The result of a call ignores whether the delivery of data ended and whether
\* the topic was deleted.
Counts(part) == part \notin {"cancel", "topic"}

\* Mutant: only the last request decides.
NextOkLast(t, o) == Counts(DestroyOrder(op[t].x)[op[t].step]) => o.ok

NextOk(t, o) ==
    op[t].ok /\ (Counts(DestroyOrder(op[t].x)[op[t].step]) => o.ok)

\* The agent's objects of x after the request for part.
Kept(x, part, done) == IF done THEN agent[x] \ {part} ELSE agent[x]

Destroying(t) == op[t].call = "destroy"

\* A request that is not the last one.  destroy_topic gives the topic back
\* whatever the agent answers, and does nothing for a topic without a node.
DestroyRequest(t) ==
    LET x == op[t].x
        k == op[t].step
        part == DestroyOrder(x)[k]
        skip == part = "topic" /\ topicNode[topicOf[x]] = Nobody
    IN  /\ Destroying(t)
        /\ k < Len(DestroyOrder(x))
        /\ \E o \in Outcomes(ReliableDestroy):
             /\ op' = [op EXCEPT ![t].step = k + 1, ![t].ok = NextOk(t, o)]
             /\ agent' = [agent EXCEPT ![x] = Kept(x, part, o.done /\ ~ skip)]
        /\ IF part = "topic" /\ ~ skip
           THEN FiniTopic(topicOf[x])
           ELSE UNCHANGED <<topics, topicNode, strayPut>>
        /\ UNCHANGED <<used, ownerNode, topicOf, left, ret>>

\* The last request: the memory is given back whatever the agent answers.  In
\* rmw_destroy_node the next thing follows, and its result replaces this one;
\* only a timeout of the participant itself is always reported.
DestroyLast(t) ==
    LET x == op[t].x
        k == op[t].step
        n == op[t].node
        part == DestroyOrder(x)[k]
    IN  /\ Destroying(t)
        /\ k = Len(DestroyOrder(x))
        /\ \E o \in Outcomes(ReliableDestroy):
             /\ FiniMemory(x, Kept(x, part, o.done))
             /\ IF n \in {Nobody, x}
                THEN Return(t, IF NextOk(t, o) THEN "ok" ELSE "timeout")
                ELSE /\ \E y \in Following(n, used \ {x}):
                          op' = [op EXCEPT ![t] =
                                   Begin("destroy", y, n, y = n => NextOk(t, o))]
                     /\ UNCHANGED ret
        /\ UNCHANGED <<ownerNode, topicOf, topics, topicNode, strayPut>>

CreateAny(t) ==
    \/ \E slots \in {Nodes, Publishers, Subscriptions, Services, Clients}:
         CreateNoSlot(t, slots)
    \/ \E n \in Nodes:
         \/ CreateNode(t, n)
         \/ \E e \in Entities: CreateFailsEarly(t, e, n)
         \/ \E e \in Services \cup Clients: CreatePlain(t, e, n)
         \/ \E e \in Topical: CreateTopical(t, e, n) \/ CreateNoTopic(t, e, n)

DestroyAny(t) ==
    \/ \E e \in Entities: DestroyEntity(t, e)
    \/ \E n \in Nodes: DestroyNode(t, n)

Next ==
    \E t \in Threads:
        \/ CreateAny(t)
        \/ CreateOk(t) \/ CreateTimeout(t)
        \/ DestroyAny(t)
        \/ DestroyRequest(t) \/ DestroyLast(t)

Spec == Init /\ [][Next]_vars

-----------------------------------------------------------------------------
\* Every variable stays in its domain.
TypeOK ==
    /\ used \in SUBSET Things
    /\ ownerNode \in [Entities -> Nodes \cup {Nobody}]
    /\ topicOf \in [Topical -> Topics \cup {Nobody}]
    /\ topics \in SUBSET Topics
    /\ topicNode \in [Topics -> Nodes \cup {Nobody}]
    /\ strayPut \in BOOLEAN
    /\ agent \in [Things -> SUBSET Parts]
    /\ left \in SUBSET Parts
    /\ op \in [Threads -> Calls]
    /\ ret \in {"none", "ok", "timeout", "null"}

\* The entity in slot e has its topic: from create_topic until destroy_topic.
HoldsTopic(e) ==
    /\ e \in used
    /\ \A t \in Threads: op[t].x = e /\ Destroying(t) =>
         \E k \in op[t].step..4: k <= Len(DestroyOrder(e)) /\ DestroyOrder(e)[k] = "topic"

\* The allocated topics are those of the publishers and subscriptions, one
\* each, on the node of their entity: whatever request times out, in whatever
\* call, no topic is lost and none is shared (rmw_microxrcedds_topic.c and the
\* failure paths of rmw_create_publisher and rmw_create_subscription).
TopicsHeld ==
    LET H == {e \in Topical: HoldsTopic(e)} IN
    /\ topics = {topicOf[e]: e \in H}
    /\ \A e \in H: topicNode[topicOf[e]] = ownerNode[e]
    /\ \A e, f \in H: topicOf[e] = topicOf[f] => e = f

\* The topics never run out before the publishers and subscriptions do:
\* RMW_UXRCE_MAX_TOPICS_INTERNAL is the sum of the two (config.h.in), so an
\* entity that got its slot finds a topic.
TopicsSuffice ==
    Cardinality(Topics) >= Cardinality(Topical) =>
        (Topical \ used # {} => Topics \ topics # {})

\* What the application has is on a node that it has too: rmw_destroy_node
\* leaves no entity behind that points to the freed node, whatever times out.
NodeOutlivesEntities ==
    \A e \in used \cap Entities: ownerNode[e] \in Live

\* On a reliable stream a creation returns an entity only when the agent has
\* all of its objects, and they stay there until a call destroys it.
LiveOnAgent ==
    ReliableCreate =>
        \A x \in Live: ~ Worked(x) => agent[x] = Objects(x)

\* On a reliable stream RMW_RET_OK from the destruction of a publisher,
\* subscription, service or client means that the agent has no writer, reader,
\* replier, requester, publisher or subscriber of it left.
OkMeansDeleted ==
    [][\A t \in Threads:
         /\ ReliableDestroy
         /\ Destroying(t) /\ op[t].node = Nobody
         /\ op'[t] = NoCall /\ ret' = "ok"
         => left' \subseteq {"topic"}]_vars

\* Every topic given back is one that is allocated (memory.c, put_memory:
\* "Gets item from allocated pool").
PutsAllocatedTopics == ~ strayPut

-----------------------------------------------------------------------------
\* What the application has, as the catalogue of module Catalog.
Entries == INSTANCE Catalog WITH
             live <- Live,
             ownerOf <- [e \in Live \cap Entities |-> ownerNode[e]]

\* Whatever is lost or times out, a call that creates adds one thing or
\* changes nothing, and nothing is removed before what depends on it.
ImplementsCatalog == Entries!CatalogSpec
=============================================================================
