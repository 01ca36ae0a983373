----------------------------- MODULE RmwContext -----------------------------
(***************************************************************************)
(* Contexts: rmw_init, rmw_shutdown and rmw_context_fini (rmw_init.c), the *)
(* sessions they take, and the way of a message from a session to a        *)
(* subscription by the identifier of its data reader (rmw_subscription.c,  *)
(* callbacks.c).  Services and clients are matched in the same way.        *)
(*                                                                         *)
(* A subscription is taken together with its node: what matters here is    *)
(* owner_node->context.  The calls that create and destroy them have more  *)
(* requests than this (module EntityLifecycle).                            *)
(***************************************************************************)
EXTENDS Naturals, Sequences, FiniteSets, SequencesExt

CONSTANTS
    Contexts,       \* rmw_context_t objects of the application
    Sessions,       \* slots of session_memory
    Subscriptions,  \* slots of subscription_memory
    Nobody,         \* no session, no identifier
    Graph,          \* RMW_UXRCE_GRAPH
    MaxIds,         \* bound on the data readers that one session numbers
    MaxSent,        \* bound on the messages on their way
    MaxBuffers      \* RMW_UXRCE_MAX_HISTORY

ASSUME ContextAssumption ==
    /\ Nobody \notin Sessions
    /\ IsFiniteSet(Subscriptions)
    /\ Graph \in BOOLEAN
    /\ MaxIds \in Nat /\ MaxSent \in Nat /\ MaxBuffers \in Nat

VARIABLES
    phase,      \* how far each context is in rmw_init or rmw_context_fini
    impl,       \* impl[c]: context->impl
    sessions,   \* allocated slots of session_memory
    open,       \* sessions whose transport is open
    nextId,     \* nextId[s]: id_datareader, the number of the next data reader
    allocated,  \* subscription_memory.allocateditems, newest first
    free,       \* subscription_memory.freeitems
    sessionOf,  \* sessionOf[r]: owner_node->context
    readerId,   \* readerId[r]: datareader_id, which outlives the subscription
    creating,   \* subscriptions that rmw_create_subscription works on
    sent,       \* messages on their way
    buffers     \* static input buffers

vars == <<phase, impl, sessions, open, nextId, allocated, free, sessionOf,
          readerId, creating, sent, buffers>>
readers == <<allocated, free, sessionOf, readerId, creating>>

Phases == {"out", "opening", "connecting", "in", "failed", "fini", "shutdown"}

\* uint16_t id_datareader: the numbers of data readers, far from their limit.
Ids == Nat
Messages == [session: Sessions, id: Ids, for: Subscriptions]

InUse == ToSet(allocated)
SubscriptionsOn(s) == {r \in InUse: sessionOf[r] = s}

\* rmw_init and rmw_shutdown are not thread-safe (the pools test their
\* is_initialized without a lock), so the application does not overlap them.
MayBegin == \A c \in Contexts: phase[c] \in {"out", "in", "failed"}

Init ==
    /\ phase = [c \in Contexts |-> "out"]
    /\ impl = [c \in Contexts |-> Nobody]
    /\ sessions = {} /\ open = {}
    /\ nextId = [s \in Sessions |-> 0]
    /\ allocated = <<>>
    /\ free \in SetToSeqs(Subscriptions)
    /\ sessionOf = [r \in Subscriptions |-> Nobody]
    /\ readerId = [r \in Subscriptions |-> Nobody]
    /\ creating = {}
    /\ sent = {} /\ buffers = {}

-----------------------------------------------------------------------------
\* rmw_init takes a session and starts its numbers; without a free one it
\* fails and changes nothing.
TakeSession(c) ==
    /\ MayBegin /\ phase[c] = "out"
    /\ \E s \in Sessions \ sessions:
         /\ sessions' = sessions \cup {s}
         /\ impl' = [impl EXCEPT ![c] = s]
         /\ nextId' = [nextId EXCEPT ![s] = 0]
    /\ phase' = [phase EXCEPT ![c] = "opening"]
    /\ UNCHANGED <<open, readers, sent, buffers>>

\* rmw_uxrce_transport_init
OpenTransport(c) ==
    /\ phase[c] = "opening"
    /\ open' = open \cup {impl[c]}
    /\ phase' = [phase EXCEPT ![c] = "connecting"]
    /\ UNCHANGED <<impl, sessions, nextId, readers, sent, buffers>>

\* Mutant: the slot of the session is not given back.
InitFailsKept(c) ==
    /\ phase[c] \in {"opening", "connecting"}
    /\ open' = open \ {impl[c]}
    /\ impl' = [impl EXCEPT ![c] = Nobody]
    /\ phase' = [phase EXCEPT ![c] = "out"]
    /\ UNCHANGED <<sessions, nextId, readers, sent, buffers>>

\* Mutant: context->impl is not cleared.
InitFailsPointing(c) ==
    /\ phase[c] \in {"opening", "connecting"}
    /\ open' = open \ {impl[c]}
    /\ sessions' = sessions \ {impl[c]}
    /\ phase' = [phase EXCEPT ![c] = "out"]
    /\ UNCHANGED <<impl, nextId, readers, sent, buffers>>

\* The transport cannot be opened, or the agent does not confirm the session.
InitFails(c) ==
    /\ phase[c] \in {"opening", "connecting"}
    /\ open' = open \ {impl[c]}
    /\ sessions' = sessions \ {impl[c]}
    /\ impl' = [impl EXCEPT ![c] = Nobody]
    /\ phase' = [phase EXCEPT ![c] = "out"]
    /\ UNCHANGED <<nextId, readers, sent, buffers>>

CreateSession(c) ==
    /\ phase[c] = "connecting"
    /\ phase' = [phase EXCEPT ![c] = "in"]
    /\ UNCHANGED <<impl, sessions, open, nextId, readers, sent, buffers>>

\* rmw_graph_init fails: the session is deleted, and slot, transport and
\* context->impl stay until rmw_context_fini.
GraphFails(c) ==
    /\ Graph /\ phase[c] = "connecting"
    /\ phase' = [phase EXCEPT ![c] = "failed"]
    /\ UNCHANGED <<impl, sessions, open, nextId, readers, sent, buffers>>

\* rmw_shutdown, or rmw_context_fini of a context that failed to start.  No
\* other thread creates a subscription on the context.
BeginFini(c) ==
    /\ MayBegin /\ phase[c] \in {"in", "failed"}
    /\ SubscriptionsOn(impl[c]) \cap creating = {}
    /\ phase' = [phase EXCEPT ![c] = "fini"]
    /\ UNCHANGED <<impl, sessions, open, nextId, readers, sent, buffers>>

\* Mutant: the first request that times out ends the loop over the nodes.
DestroyedSome(c) == TRUE

\* The loop over the nodes destroys all of this context, whatever times out.
Destroyed(c) == SubscriptionsOn(impl[c]) = {}

\* The session is deleted, its slot given back and its transport closed.
FiniSession(c) ==
    /\ phase[c] = "fini"
    /\ Destroyed(c)
    /\ sessions' = sessions \ {impl[c]}
    /\ open' = open \ {impl[c]}
    /\ sent' = {m \in sent: m.session # impl[c]}
    /\ impl' = [impl EXCEPT ![c] = Nobody]
    /\ phase' = [phase EXCEPT ![c] = "shutdown"]
    /\ UNCHANGED <<nextId, readers, buffers>>

\* rmw_shutdown gives all input buffers back, those of other contexts too;
\* rmw_context_fini alone gives none back.
EndFini(c) ==
    /\ phase[c] = "shutdown"
    /\ buffers' \in {{}, buffers}
    /\ phase' = [phase EXCEPT ![c] = "out"]
    /\ UNCHANGED <<impl, sessions, open, nextId, readers, sent>>

-----------------------------------------------------------------------------
\* rmw_create_subscription gets an item from the pool, which still has the
\* datareader_id of its predecessor, and runs the session for the topic and
\* the subscriber.
BeginSubscription(c) ==
    /\ phase[c] = "in" /\ free # <<>>
    /\ nextId[impl[c]] < MaxIds
    /\ allocated' = <<Head(free)>> \o allocated
    /\ free' = Tail(free)
    /\ sessionOf' = [sessionOf EXCEPT ![Head(free)] = impl[c]]
    /\ creating' = creating \cup {Head(free)}
    /\ UNCHANGED <<phase, impl, sessions, open, nextId, readerId, sent, buffers>>

\* Mutant: id_datareader is not counted up.
NextIdKept(s) == nextId

NextId(s) == [nextId EXCEPT ![s] = @ + 1]

\* The data reader gets its number, and its request is confirmed.
NumberReader(r) ==
    /\ r \in creating
    /\ readerId' = [readerId EXCEPT ![r] = nextId[sessionOf[r]]]
    /\ nextId' = NextId(sessionOf[r])
    /\ creating' = creating \ {r}
    /\ UNCHANGED <<phase, impl, sessions, open, allocated, free, sessionOf, sent,
                   buffers>>

\* put_memory
GiveBack(r) ==
    /\ \E i \in DOMAIN allocated:
         allocated[i] = r /\ allocated' = RemoveAt(allocated, i)
    /\ free' = <<r>> \o free

\* A request for the topic or the subscriber is not confirmed, or the one for
\* the data reader, which has its number then.
CreationFails(r) ==
    /\ r \in creating
    /\ GiveBack(r)
    /\ creating' = creating \ {r}
    /\ \/ UNCHANGED <<readerId, nextId>>
       \/ /\ readerId' = [readerId EXCEPT ![r] = nextId[sessionOf[r]]]
          /\ nextId' = NextId(sessionOf[r])
    /\ UNCHANGED <<phase, impl, sessions, open, sessionOf, sent, buffers>>

\* rmw_destroy_subscription, by the application or by rmw_context_fini
DestroySubscription(r) ==
    /\ r \in InUse \ creating
    /\ GiveBack(r)
    /\ UNCHANGED <<phase, impl, sessions, open, nextId, sessionOf, readerId,
                   creating, sent, buffers>>

-----------------------------------------------------------------------------
\* The agent sends data for a data reader.
Send(r) ==
    /\ r \in InUse \ creating
    /\ Cardinality(sent) < MaxSent
    /\ sent' = sent \cup
         {[session |-> sessionOf[r], id |-> readerId[r], for |-> r]}
    /\ UNCHANGED <<phase, impl, sessions, open, nextId, readers, buffers>>

\* The first allocated subscription with the identifier of m.
First(m) ==
    {allocated[i] : i \in {j \in DOMAIN allocated:
        /\ readerId[allocated[j]] = m.id
        /\ \A k \in 1..j - 1: readerId[allocated[k]] # m.id}}

\* on_topic: the first subscription with this identifier gets the message;
\* nobody does when there is none, or no buffer.
OnTopic(m) ==
    /\ \E c \in Contexts: phase[c] \in {"in", "fini"} /\ impl[c] = m.session
    /\ sent' = sent \ {m}
    /\ \/ UNCHANGED buffers
       \/ \E r \in First(m):
            /\ Cardinality(buffers) < MaxBuffers
            /\ buffers' = buffers \cup {[owner |-> r, msg |-> m]}
    /\ UNCHANGED <<phase, impl, sessions, open, nextId, readers>>

\* A message is lost, or taken, or expires.
Drop ==
    /\ \/ \E m \in sent: sent' = sent \ {m} /\ UNCHANGED buffers
       \/ \E b \in buffers: buffers' = buffers \ {b} /\ UNCHANGED sent
    /\ UNCHANGED <<phase, impl, sessions, open, nextId, readers>>

Next ==
    \/ \E c \in Contexts:
        \/ TakeSession(c) \/ OpenTransport(c) \/ InitFails(c)
        \/ CreateSession(c) \/ GraphFails(c)
        \/ BeginFini(c) \/ FiniSession(c) \/ EndFini(c)
        \/ BeginSubscription(c)
    \/ \E r \in Subscriptions:
        \/ NumberReader(r) \/ CreationFails(r)
        \/ DestroySubscription(r) \/ Send(r)
    \/ \E m \in sent: OnTopic(m)
    \/ Drop

Spec == Init /\ [][Next]_vars

-----------------------------------------------------------------------------
\* Every variable stays in its domain, and a context points to a session
\* exactly when it is not out.
TypeOK ==
    /\ phase \in [Contexts -> Phases]
    /\ impl \in [Contexts -> Sessions \cup {Nobody}]
    /\ \A c \in Contexts: impl[c] = Nobody <=> phase[c] \in {"out", "shutdown"}
    /\ sessions \in SUBSET Sessions /\ open \in SUBSET Sessions
    /\ nextId \in [Sessions -> Ids]
    /\ allocated \in Seq(Subscriptions) /\ free \in Seq(Subscriptions)
    /\ sessionOf \in [Subscriptions -> Sessions \cup {Nobody}]
    /\ readerId \in [Subscriptions -> Ids \cup {Nobody}]
    /\ creating \in SUBSET InUse
    /\ sent \in SUBSET Messages
    /\ buffers \in SUBSET [owner: Subscriptions, msg: Messages]

\* Wherever rmw_init fails and however often contexts come and go, the slots
\* in use are those of the contexts that are not out, one each, and exactly
\* the sessions of contexts past rmw_uxrce_transport_init are open.
SessionsHeld ==
    LET Holding == {c \in Contexts: impl[c] # Nobody} IN
    /\ sessions = {impl[c]: c \in Holding}
    /\ \A c, d \in Holding: impl[c] = impl[d] => c = d
    /\ open = {impl[c]: c \in {d \in Holding: phase[d] # "opening"}}

\* No subscription, and so no node, is left on a session that was given back:
\* a later call would use the session of another context, or a closed one.
SubscriptionsOnSession ==
    \A r \in InUse: \E c \in Contexts:
        phase[c] \in {"in", "fini"} /\ impl[c] = sessionOf[r]

\* Of the data of its own session, a subscription whose creation has ended gets
\* only what was sent to it: late data for a destroyed one does not find
\* another, also when the session or the slot of the item was used before.
RoutedAmongCreated ==
    [][\A b \in buffers' \ buffers:
         b.owner \notin creating /\ b.msg.session = sessionOf[b.owner]
         => b.msg.for = b.owner]_vars

\* "Check if topic is related to the subscription" (callbacks.c): what on_topic
\* stores for a subscription was sent to it.
ForItsReader == [][\A b \in buffers' \ buffers: b.msg.for = b.owner]_vars
=============================================================================
