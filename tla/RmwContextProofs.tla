-------------------------- MODULE RmwContextProofs --------------------------
(***************************************************************************)
(* Proofs about RmwContext for any number of contexts, sessions and        *)
(* subscriptions: the sessions in use are those of the contexts, and       *)
(* nothing is left on a session that was given back.                       *)
(***************************************************************************)
EXTENDS RmwContext, ListLemmas

\* Who points to a session, and which ones are open.
Holding == {c \in Contexts: impl[c] # Nobody}

\* The part of TypeOK that the sessions need.
SessionTypes ==
    /\ phase \in [Contexts -> Phases]
    /\ impl \in [Contexts -> Sessions \cup {Nobody}]
    /\ \A c \in Contexts: impl[c] = Nobody <=> phase[c] \in {"out", "shutdown"}

SessionInv ==
    /\ SessionTypes
    /\ sessions \subseteq Sessions
    /\ sessions = {impl[c]: c \in Holding}
    /\ \A c, d \in Holding: impl[c] = impl[d] => c = d
    /\ open = {impl[c]: c \in {d \in Holding: phase[d] # "opening"}}

\* A context that gives its session back takes nobody else's away.
LEMMA SessionGivenBack ==
    ASSUME SessionInv, NEW c \in Holding, NEW p \in {"out", "shutdown"},
           phase' = [phase EXCEPT ![c] = p], impl' = [impl EXCEPT ![c] = Nobody],
           sessions' = sessions \ {impl[c]}, open' = open \ {impl[c]}
    PROVE  SessionInv'
<1>1. c \in Contexts /\ impl[c] \in Sessions
  BY DEF SessionInv, SessionTypes, Holding
<1>2. SessionTypes'
  BY <1>1, ContextAssumption DEF SessionInv, SessionTypes, Phases
<1>3. Holding' = Holding \ {c}
  BY <1>1 DEF Holding, SessionInv, SessionTypes
<1>4. \A d \in Holding': /\ d # c /\ d \in Holding /\ impl'[d] = impl[d]
                         /\ phase'[d] = phase[d] /\ impl[d] # impl[c]
  BY <1>1, <1>3 DEF SessionInv, SessionTypes, Holding
<1>5. sessions' = {impl'[d]: d \in Holding'}
  BY <1>3, <1>4 DEF SessionInv
<1>6. open' = {impl'[d]: d \in {e \in Holding': phase'[e] # "opening"}}
  BY <1>3, <1>4 DEF SessionInv
<1>7. \A d, e \in Holding': impl'[d] = impl'[e] => d = e
  BY <1>4 DEF SessionInv
<1> QED BY <1>2, <1>5, <1>6, <1>7 DEF SessionInv

\* A context that goes on with its session changes nobody's.
LEMMA SessionKept ==
    ASSUME SessionInv, NEW c \in Holding, NEW p \in Phases,
           p \notin {"out", "opening", "shutdown"},
           phase' = [phase EXCEPT ![c] = p], UNCHANGED <<impl, sessions>>,
           \/ phase[c] # "opening" /\ UNCHANGED open
           \/ open' = open \cup {impl[c]}
    PROVE  SessionInv'
<1>1. c \in Contexts /\ Holding' = Holding
  BY DEF Holding
<1>2. SessionTypes'
  BY <1>1 DEF SessionInv, SessionTypes, Holding
<1>3. \A d \in Holding: phase'[d] = IF d = c THEN p ELSE phase[d]
  BY <1>1 DEF SessionInv, SessionTypes, Holding
<1>4. open' = {impl[d]: d \in {e \in Holding: phase'[e] # "opening"}}
  <2>1. CASE phase[c] # "opening" /\ UNCHANGED open
    <3>1. {e \in Holding: phase'[e] # "opening"} = {e \in Holding: phase[e] # "opening"}
      BY <1>3, <2>1
    <3> QED BY <2>1, <3>1 DEF SessionInv
  <2>2. CASE open' = open \cup {impl[c]}
    <3>1. {e \in Holding: phase'[e] # "opening"}
            = {e \in Holding: phase[e] # "opening"} \cup {c}
      BY <1>3
    <3> QED BY <2>2, <3>1 DEF SessionInv
  <2> QED BY <2>1, <2>2
<1> QED BY <1>1, <1>2, <1>4 DEF SessionInv

\* The sessions are the contexts' at the start and after every step.
LEMMA SessionStep ==
    ASSUME SessionInv, [Next]_vars
    PROVE  SessionInv'
<1>1. ASSUME NEW c \in Contexts, TakeSession(c) PROVE SessionInv'
  <2>1. PICK s \in Sessions \ sessions:
          /\ sessions' = sessions \cup {s} /\ impl' = [impl EXCEPT ![c] = s]
          /\ phase[c] = "out" /\ phase' = [phase EXCEPT ![c] = "opening"]
          /\ UNCHANGED open
    BY <1>1 DEF TakeSession
  <2>2. impl[c] = Nobody /\ s # Nobody
    BY <2>1, ContextAssumption DEF SessionInv, SessionTypes
  <2>3. SessionTypes'
    BY <2>1, <2>2 DEF SessionInv, SessionTypes, Phases
  <2>4. Holding' = Holding \cup {c} /\ c \notin Holding
    BY <2>1, <2>2 DEF SessionInv, SessionTypes, Holding
  <2>5. /\ impl'[c] = s /\ phase'[c] = "opening"
        /\ \A d \in Holding: /\ impl'[d] = impl[d] /\ phase'[d] = phase[d]
                             /\ impl[d] # s
    BY <2>1, <2>4 DEF SessionInv, SessionTypes, Holding
  <2>6. sessions' = {impl'[d]: d \in Holding'}
    BY <2>1, <2>4, <2>5 DEF SessionInv
  <2>7. \A d, e \in Holding': impl'[d] = impl'[e] => d = e
    BY <2>4, <2>5 DEF SessionInv
  <2>8. {e \in Holding': phase'[e] # "opening"} = {e \in Holding: phase[e] # "opening"}
    BY <2>4, <2>5
  <2>9. open' = {impl'[d]: d \in {e \in Holding': phase'[e] # "opening"}}
    BY <2>1, <2>5, <2>8 DEF SessionInv
  <2> QED BY <2>1, <2>3, <2>6, <2>7, <2>9 DEF SessionInv
<1>2. ASSUME NEW c \in Contexts, InitFails(c) PROVE SessionInv'
  <2>1. c \in Holding
    BY <1>2 DEF InitFails, Holding, SessionInv, SessionTypes
  <2> QED BY <1>2, <2>1, SessionGivenBack DEF InitFails
<1>3. ASSUME NEW c \in Contexts, FiniSession(c) PROVE SessionInv'
  <2>1. c \in Holding
    BY <1>3 DEF FiniSession, Holding, SessionInv, SessionTypes
  <2> QED BY <1>3, <2>1, SessionGivenBack DEF FiniSession
<1>4. ASSUME NEW c \in Contexts, OpenTransport(c) PROVE SessionInv'
  <2>1. c \in Holding
    BY <1>4 DEF OpenTransport, Holding, SessionInv, SessionTypes
  <2> QED BY <1>4, <2>1, SessionKept DEF OpenTransport, Phases
<1>5. ASSUME NEW c \in Contexts, CreateSession(c) \/ GraphFails(c) \/ BeginFini(c)
      PROVE  SessionInv'
  <2>1. c \in Holding
    BY <1>5 DEF CreateSession, GraphFails, BeginFini, Holding, SessionInv, SessionTypes
  <2> QED BY <1>5, <2>1, SessionKept DEF CreateSession, GraphFails, BeginFini, Phases
<1>6. ASSUME NEW c \in Contexts, EndFini(c) PROVE SessionInv'
  <2>1. /\ phase[c] = "shutdown" /\ phase' = [phase EXCEPT ![c] = "out"]
        /\ UNCHANGED <<impl, sessions, open>>
    BY <1>6 DEF EndFini
  <2>2. impl[c] = Nobody /\ Holding' = Holding
    BY <2>1 DEF SessionInv, SessionTypes, Holding
  <2>3. SessionTypes' /\ \A d \in Holding: phase'[d] = phase[d]
    BY <2>1, <2>2 DEF SessionInv, SessionTypes, Holding, Phases
  <2>4. {d \in Holding': phase'[d] # "opening"} = {d \in Holding: phase[d] # "opening"}
    BY <2>2, <2>3
  <2> QED BY <2>1, <2>2, <2>3, <2>4 DEF SessionInv
<1>7. ASSUME UNCHANGED <<phase, impl, sessions, open>> PROVE SessionInv'
  BY <1>7 DEF SessionInv, SessionTypes, Holding
<1>8. ASSUME NEW c \in Contexts, BeginSubscription(c) PROVE SessionInv'
  BY <1>7, <1>8 DEF BeginSubscription
<1>9. ASSUME NEW r \in Subscriptions,
             NumberReader(r) \/ CreationFails(r) \/ DestroySubscription(r) \/ Send(r)
      PROVE  SessionInv'
  BY <1>7, <1>9 DEF NumberReader, CreationFails, DestroySubscription, Send
<1>10. ASSUME NEW m \in sent, OnTopic(m) PROVE SessionInv'
  BY <1>7, <1>10 DEF OnTopic
<1>11. CASE Drop
  BY <1>7, <1>11 DEF Drop
<1>12. CASE UNCHANGED vars
  BY <1>7, <1>12 DEF vars
<1> QED BY <1>1, <1>2, <1>3, <1>4, <1>5, <1>6, <1>8, <1>9, <1>10, <1>11, <1>12 DEF Next

\* At the start no context holds a session.
LEMMA SessionInit == Init => SessionInv
  BY DEF Init, SessionInv, SessionTypes, Holding, Phases

\* However contexts start, fail to start and stop, no session slot is lost or
\* shared and exactly the sessions past rmw_uxrce_transport_init are open.
THEOREM SessionsAreHeld == Spec => []SessionsHeld
<1>1. SessionInv => SessionsHeld
  BY DEF SessionInv, SessionsHeld, Holding
<1>2. SessionInv /\ [Next]_vars => SessionInv'
  BY SessionStep
<1> QED BY <1>1, <1>2, SessionInit, PTL DEF Spec

-----------------------------------------------------------------------------
\* Subscriptions and the sessions they were created on.

SubscriptionInv ==
    /\ allocated \in Seq(Subscriptions)
    /\ free \in Seq(Subscriptions)
    /\ sessionOf \in [Subscriptions -> Sessions \cup {Nobody}]
    /\ SubscriptionsOnSession

\* A context that uses session s.
Serves(c, s) == phase[c] \in {"in", "fini"} /\ impl[c] = s

\* Giving a subscription back leaves no new ones.
LEMMA GivenBack ==
    ASSUME SubscriptionInv, NEW r \in Subscriptions, GiveBack(r)
    PROVE  /\ allocated' \in Seq(Subscriptions) /\ free' \in Seq(Subscriptions)
           /\ InUse' \subseteq InUse
<1>1. PICK i \in DOMAIN allocated: allocated' = RemoveAt(allocated, i)
  BY DEF GiveBack
<1>2. allocated' \in Seq(Subscriptions) /\ InUse' \subseteq InUse
  BY <1>1, RemovedOne DEF SubscriptionInv, InUse
<1>3. free' \in Seq(Subscriptions)
  BY PrependedOne DEF GiveBack, SubscriptionInv
<1> QED BY <1>2, <1>3

\* No new subscriptions, none of another session, and every session that has
\* one keeps its context.
LEMMA StillServed ==
    ASSUME SubscriptionInv,
           allocated' \in Seq(Subscriptions), free' \in Seq(Subscriptions),
           InUse' \subseteq InUse, UNCHANGED sessionOf,
           \A c \in Contexts, r \in InUse: Serves(c, sessionOf[r]) => Serves(c, sessionOf[r])'
    PROVE  SubscriptionInv'
<1>1. SubscriptionsOnSession'
  <2> SUFFICES ASSUME NEW r \in InUse'
               PROVE  \E c \in Contexts: Serves(c, sessionOf[r])'
    BY DEF SubscriptionsOnSession, Serves
  <2>1. r \in InUse
    OBVIOUS
  <2>2. PICK c \in Contexts: Serves(c, sessionOf[r])
    BY <2>1 DEF SubscriptionInv, SubscriptionsOnSession, Serves
  <2> QED BY <2>1, <2>2
<1> QED BY <1>1 DEF SubscriptionInv

\* A new subscription is on the session of the context it is created on.
LEMMA NewIsServed ==
    ASSUME SubscriptionInv, SessionInv, NEW c \in Contexts, BeginSubscription(c)
    PROVE  SubscriptionInv'
<1> DEFINE h == Head(free)
<1>1. /\ phase[c] = "in" /\ free # <<>>
      /\ allocated' = <<h>> \o allocated /\ free' = Tail(free)
      /\ sessionOf' = [sessionOf EXCEPT ![h] = impl[c]]
      /\ UNCHANGED <<phase, impl>>
  BY DEF BeginSubscription
<1>2. h \in Subscriptions /\ free' \in Seq(Subscriptions)
  BY <1>1, HeadTailProperties DEF SubscriptionInv
<1>3. impl[c] \in Sessions \cup {Nobody}
  BY DEF SessionInv, SessionTypes
<1> HIDE DEF h
<1>4. allocated' \in Seq(Subscriptions) /\ InUse' = InUse \cup {h}
  BY <1>1, <1>2, PrependedOne DEF SubscriptionInv, InUse
<1>5. sessionOf' \in [Subscriptions -> Sessions \cup {Nobody}]
  BY <1>1, <1>2, <1>3 DEF SubscriptionInv
<1>6. SubscriptionsOnSession'
  <2> SUFFICES ASSUME NEW r \in InUse'
               PROVE  \E d \in Contexts: phase[d] \in {"in", "fini"} /\ impl[d] = sessionOf'[r]
    BY <1>1 DEF SubscriptionsOnSession
  <2>1. CASE r = h
    BY <1>1, <1>2, <2>1 DEF SubscriptionInv
  <2>2. CASE r # h
    <3>1. r \in InUse
      BY <1>4, <2>2
    <3>2. sessionOf'[r] = sessionOf[r]
      <4>1. r \in Subscriptions
        BY <3>1 DEF SubscriptionInv, InUse, ToSet
      <4> QED BY <1>1, <2>2, <4>1 DEF SubscriptionInv
    <3> QED BY <3>1, <3>2 DEF SubscriptionInv, SubscriptionsOnSession
  <2> QED BY <2>1, <2>2
<1> QED BY <1>2, <1>4, <1>5, <1>6 DEF SubscriptionInv

\* A session that serves a subscription is not given back.
LEMMA SubscriptionStep ==
    ASSUME SubscriptionInv, SessionInv, [Next]_vars
    PROVE  SubscriptionInv'
<1> USE DEF readers
<1>1. ASSUME UNCHANGED <<allocated, free, sessionOf>>,
             NEW c \in Contexts,
             \A d \in Contexts \ {c}: phase'[d] = phase[d] /\ impl'[d] = impl[d],
             \A r \in InUse: Serves(c, sessionOf[r]) => Serves(c, sessionOf[r])'
      PROVE  SubscriptionInv'
  <2>1. InUse' = InUse
    BY <1>1 DEF InUse
  <2> QED BY <1>1, <2>1, StillServed DEF Serves, SubscriptionInv
<1>2. ASSUME NEW c \in Contexts, TakeSession(c) PROVE SubscriptionInv'
  <2>1. phase[c] = "out" /\ UNCHANGED <<allocated, free, sessionOf>>
        /\ \A d \in Contexts \ {c}: phase'[d] = phase[d] /\ impl'[d] = impl[d]
    BY <1>2 DEF TakeSession, SessionInv, SessionTypes
  <2> QED BY <1>1, <2>1 DEF Serves
<1>3. ASSUME NEW c \in Contexts, OpenTransport(c) \/ CreateSession(c) \/ GraphFails(c)
      PROVE  SubscriptionInv'
  <2>1. phase[c] \in {"opening", "connecting"} /\ UNCHANGED <<allocated, free, sessionOf>>
        /\ \A d \in Contexts \ {c}: phase'[d] = phase[d] /\ impl'[d] = impl[d]
    BY <1>3 DEF OpenTransport, CreateSession, GraphFails, SessionInv, SessionTypes
  <2> QED BY <1>1, <2>1 DEF Serves
<1>4. ASSUME NEW c \in Contexts, InitFails(c) PROVE SubscriptionInv'
  <2>1. phase[c] \in {"opening", "connecting"} /\ UNCHANGED <<allocated, free, sessionOf>>
        /\ \A d \in Contexts \ {c}: phase'[d] = phase[d] /\ impl'[d] = impl[d]
    BY <1>4 DEF InitFails, SessionInv, SessionTypes
  <2> QED BY <1>1, <2>1 DEF Serves
<1>5. ASSUME NEW c \in Contexts, BeginFini(c) PROVE SubscriptionInv'
  <2>1. phase'[c] = "fini" /\ impl' = impl /\ UNCHANGED <<allocated, free, sessionOf>>
        /\ \A d \in Contexts \ {c}: phase'[d] = phase[d]
    BY <1>5 DEF BeginFini, SessionInv, SessionTypes
  <2> QED BY <1>1, <2>1 DEF Serves
<1>6. ASSUME NEW c \in Contexts, FiniSession(c) PROVE SubscriptionInv'
  <2>1. UNCHANGED <<allocated, free, sessionOf>>
        /\ \A d \in Contexts \ {c}: phase'[d] = phase[d] /\ impl'[d] = impl[d]
    BY <1>6 DEF FiniSession, SessionInv, SessionTypes
  <2>2. \A r \in InUse: sessionOf[r] # impl[c]
    BY <1>6 DEF FiniSession, Destroyed, SubscriptionsOn
  <2> QED BY <1>1, <2>1, <2>2 DEF Serves
<1>7. ASSUME NEW c \in Contexts, EndFini(c) PROVE SubscriptionInv'
  <2>1. phase[c] = "shutdown" /\ impl' = impl /\ UNCHANGED <<allocated, free, sessionOf>>
        /\ \A d \in Contexts \ {c}: phase'[d] = phase[d]
    BY <1>7 DEF EndFini, SessionInv, SessionTypes
  <2> QED BY <1>1, <2>1 DEF Serves
<1>8. ASSUME NEW c \in Contexts, BeginSubscription(c) PROVE SubscriptionInv'
  BY <1>8, NewIsServed
<1>9. ASSUME UNCHANGED <<phase, impl, sessionOf, allocated, free>> PROVE SubscriptionInv'
  <2>1. InUse' = InUse
    BY <1>9 DEF InUse
  <2> QED BY <1>9, <2>1, StillServed DEF Serves, SubscriptionInv
<1>10. ASSUME NEW r \in Subscriptions, CreationFails(r) \/ DestroySubscription(r)
       PROVE  SubscriptionInv'
  <2>1. GiveBack(r) /\ UNCHANGED <<phase, impl, sessionOf>>
    BY <1>10 DEF CreationFails, DestroySubscription
  <2> QED BY <2>1, GivenBack, StillServed DEF Serves
<1>11. ASSUME NEW r \in Subscriptions, NumberReader(r) \/ Send(r) PROVE SubscriptionInv'
  BY <1>9, <1>11 DEF NumberReader, Send
<1>12. ASSUME NEW m \in sent, OnTopic(m) PROVE SubscriptionInv'
  BY <1>9, <1>12 DEF OnTopic
<1>13. CASE Drop
  BY <1>9, <1>13 DEF Drop
<1>14. CASE UNCHANGED vars
  BY <1>9, <1>14 DEF vars
<1> QED BY <1>2, <1>3, <1>4, <1>5, <1>6, <1>7, <1>8, <1>10, <1>11, <1>12, <1>13, <1>14 DEF Next

\* At the start there is no subscription, and the pool holds all slots.
LEMMA SubscriptionInit == Init => SubscriptionInv
<1> SUFFICES ASSUME Init PROVE SubscriptionInv
  OBVIOUS
<1>1. free \in Seq(Subscriptions)
  <2>1. Cardinality(Subscriptions) \in Nat
    BY FS_CardinalityType, ContextAssumption
  <2>2. free \in [1..Cardinality(Subscriptions) -> Subscriptions]
    BY DEF Init, SetToSeqs
  <2> QED BY <2>1, <2>2
<1>2. allocated \in Seq(Subscriptions) /\ InUse = {}
  BY DEF Init, InUse, ToSet
<1> QED BY <1>1, <1>2 DEF Init, SubscriptionInv, SubscriptionsOnSession

\* No subscription is left on a session that was given back, for any number of
\* contexts and whatever requests are lost.
THEOREM SubscriptionsAreOnSessions == Spec => []SubscriptionsOnSession
<1>1. SessionInv /\ [Next]_vars => SessionInv'
  BY SessionStep
<1>2. SubscriptionInv /\ SessionInv /\ [Next]_vars => SubscriptionInv'
  BY SubscriptionStep
<1>3. SubscriptionInv => SubscriptionsOnSession
  BY DEF SubscriptionInv
<1> QED BY <1>1, <1>2, <1>3, SessionInit, SubscriptionInit, PTL DEF Spec

-----------------------------------------------------------------------------
\* The numbers of data readers, and where data goes.

Created == InUse \ creating

\* Every slot is in one list, once.
SlotsInv ==
    /\ IsInjective(allocated) /\ IsInjective(free)
    /\ InUse \cap ToSet(free) = {}
    /\ creating \subseteq InUse

\* On every session, created subscriptions have different numbers, all of them
\* already given.
NumbersInv ==
    /\ nextId \in [Sessions -> Nat]
    /\ readerId \in [Subscriptions -> Nat \cup {Nobody}]
    /\ \A r \in Created: /\ readerId[r] \in Nat
                         /\ readerId[r] < nextId[sessionOf[r]]
    /\ \A r, q \in Created:
         sessionOf[r] = sessionOf[q] /\ readerId[r] = readerId[q] => r = q

Served(s) == \E c \in Contexts: Serves(c, s)

\* A message is on a session that is served, its number was given, and no created
\* subscription of the session has it but the one it is for.
Routed(m) ==
    /\ Served(m.session)
    /\ m.id < nextId[m.session]
    /\ \A r \in Created:
         sessionOf[r] = m.session /\ readerId[r] = m.id => m.for = r

SentInv ==
    /\ sent \subseteq Messages
    /\ \A m \in sent: Routed(m)
    /\ buffers \subseteq [owner: Subscriptions, msg: Messages]

RoutedInv == SlotsInv /\ NumbersInv /\ SentInv

ContextInv == SessionInv /\ SubscriptionInv /\ RoutedInv

\* A subscription is on a session in use.
LEMMA OnSessionInUse ==
    ASSUME ContextInv, NEW r \in InUse
    PROVE  r \in Subscriptions /\ sessionOf[r] \in Sessions /\ sessionOf[r] \in sessions
<1>1. r \in Subscriptions
  BY DEF ContextInv, SubscriptionInv, InUse, ToSet
<1>2. PICK c \in Contexts: phase[c] \in {"in", "fini"} /\ impl[c] = sessionOf[r]
  BY DEF ContextInv, SubscriptionInv, SubscriptionsOnSession
<1>3. c \in Holding
  BY <1>2 DEF ContextInv, SessionInv, SessionTypes, Holding
<1> QED BY <1>1, <1>2, <1>3 DEF ContextInv, SessionInv

\* A session that is served is in use.
LEMMA ServedInUse ==
    ASSUME ContextInv, NEW s, Served(s)
    PROVE  s \in sessions
<1>1. PICK c \in Contexts: phase[c] \in {"in", "fini"} /\ impl[c] = s
  BY DEF Served, Serves
<1>2. c \in Holding
  BY <1>1 DEF ContextInv, SessionInv, SessionTypes, Holding
<1> QED BY <1>1, <1>2 DEF ContextInv, SessionInv

\* Fewer subscriptions and messages, with the same sessions and numbers.
LEMMA FewerRouted ==
    ASSUME ContextInv, SlotsInv', Created' \subseteq Created,
           sent' \subseteq sent, \A m \in sent': Served(m.session)',
           buffers' \subseteq [owner: Subscriptions, msg: Messages],
           UNCHANGED <<nextId, readerId, sessionOf>>
    PROVE  RoutedInv'
<1>1. NumbersInv'
  BY DEF ContextInv, RoutedInv, NumbersInv
<1>2. ASSUME NEW m \in sent' PROVE Routed(m)'
  <2>1. Routed(m)
    BY <1>2 DEF ContextInv, RoutedInv, SentInv
  <2> QED BY <1>2, <2>1 DEF Routed
<1>3. SentInv'
  BY <1>2 DEF ContextInv, RoutedInv, SentInv
<1> QED BY <1>1, <1>3 DEF RoutedInv

\* Giving back leaves the others where they are.
LEMMA SlotsGivenBack ==
    ASSUME ContextInv, NEW r \in InUse, GiveBack(r),
           creating' = creating \ {r}
    PROVE  SlotsInv' /\ InUse' = InUse \ {r} /\ Created' = Created \ {r}
<1>1. PICK i \in DOMAIN allocated:
        allocated[i] = r /\ allocated' = RemoveAt(allocated, i) /\ free' = <<r>> \o free
  BY DEF GiveBack
<1>2. /\ allocated \in Seq(Subscriptions) /\ free \in Seq(Subscriptions)
      /\ IsInjective(allocated) /\ IsInjective(free)
      /\ InUse \cap ToSet(free) = {} /\ creating \subseteq InUse
  BY DEF ContextInv, SubscriptionInv, RoutedInv, SlotsInv
<1>3. r \in Subscriptions /\ r \notin ToSet(free)
  BY <1>2, OnSessionInUse
<1>4. InUse' = InUse \ {r} /\ IsInjective(allocated')
  BY <1>1, <1>2, RemovedOne DEF InUse
<1>5. ToSet(free') = ToSet(free) \cup {r} /\ IsInjective(free')
  BY <1>1, <1>2, <1>3, PrependedOne
<1> QED BY <1>2, <1>4, <1>5 DEF SlotsInv, Created

\* A new subscription takes a slot of no other, and has no number yet.
LEMMA BeginRouted ==
    ASSUME ContextInv, NEW c \in Contexts, BeginSubscription(c)
    PROVE  RoutedInv'
<1> DEFINE h == Head(free)
<1>1. /\ free # <<>> /\ allocated' = <<h>> \o allocated /\ free' = Tail(free)
      /\ sessionOf' = [sessionOf EXCEPT ![h] = impl[c]] /\ creating' = creating \cup {h}
      /\ UNCHANGED <<phase, impl, nextId, readerId, sent, buffers>>
  BY DEF BeginSubscription
<1>2. /\ allocated \in Seq(Subscriptions) /\ free \in Seq(Subscriptions)
      /\ IsInjective(allocated) /\ IsInjective(free)
      /\ InUse \cap ToSet(free) = {} /\ creating \subseteq InUse
  BY DEF ContextInv, SubscriptionInv, RoutedInv, SlotsInv
<1>3. /\ h \in Subscriptions /\ h \in ToSet(free) /\ h \notin ToSet(Tail(free))
      /\ ToSet(Tail(free)) \subseteq ToSet(free) /\ IsInjective(Tail(free))
  <2>1. h \in Subscriptions
    BY <1>1, <1>2, HeadTailProperties
  <2> QED BY <1>1, <1>2, <2>1, FirstTaken
<1> HIDE DEF h
<1>4. InUse' = InUse \cup {h} /\ IsInjective(allocated')
  BY <1>1, <1>2, <1>3, PrependedOne DEF InUse
<1>5. SlotsInv'
  BY <1>1, <1>2, <1>3, <1>4 DEF SlotsInv
<1>6. Created' = Created /\ h \notin Created
  BY <1>1, <1>2, <1>3, <1>4 DEF Created
<1>7. \A r \in Created: sessionOf'[r] = sessionOf[r]
  <2> SUFFICES ASSUME NEW r \in Created PROVE sessionOf'[r] = sessionOf[r]
    OBVIOUS
  <2>1. r \in Subscriptions /\ r # h
    BY <1>6, OnSessionInUse DEF Created
  <2> QED BY <1>1, <2>1 DEF ContextInv, SubscriptionInv
<1>8. NumbersInv'
  BY <1>1, <1>6, <1>7 DEF ContextInv, RoutedInv, NumbersInv
<1>9. \A m \in sent: Routed(m)'
  BY <1>1, <1>6, <1>7 DEF ContextInv, RoutedInv, SentInv, Routed, Served, Serves
<1>10. SentInv'
  BY <1>1, <1>9 DEF ContextInv, RoutedInv, SentInv
<1> QED BY <1>5, <1>8, <1>10 DEF RoutedInv

\* A number is given once: it goes to a subscription that becomes created, or
\* to one that is given back.
LEMMA NumberRouted ==
    ASSUME ContextInv, NEW r \in creating, SlotsInv',
           Created' \subseteq Created \cup {r},
           readerId' = [readerId EXCEPT ![r] = nextId[sessionOf[r]]],
           nextId' = NextId(sessionOf[r]),
           UNCHANGED <<phase, impl, sessionOf, sent, buffers>>
    PROVE  RoutedInv'
<1> DEFINE s == sessionOf[r]
<1>1. r \in InUse /\ r \notin Created
  BY DEF ContextInv, RoutedInv, SlotsInv, Created
<1>2. r \in Subscriptions /\ s \in Sessions
  BY <1>1, OnSessionInUse
<1>3. /\ nextId \in [Sessions -> Nat] /\ readerId \in [Subscriptions -> Nat \cup {Nobody}]
  BY DEF ContextInv, RoutedInv, NumbersInv
<1>4. /\ nextId' = [nextId EXCEPT ![s] = @ + 1]
      /\ readerId' = [readerId EXCEPT ![r] = nextId[s]]
  BY DEF NextId
<1> HIDE DEF s
<1>5. /\ nextId' \in [Sessions -> Nat] /\ nextId[s] \in Nat
      /\ nextId'[s] = nextId[s] + 1 /\ \A z \in Sessions \ {s}: nextId'[z] = nextId[z]
  BY <1>2, <1>3, <1>4
<1>6. /\ readerId' \in [Subscriptions -> Nat \cup {Nobody}] /\ readerId'[r] = nextId[s]
      /\ \A q \in Subscriptions \ {r}: readerId'[q] = readerId[q]
  BY <1>2, <1>3, <1>4, <1>5
<1>7. ASSUME NEW q \in Created
      PROVE  /\ readerId'[q] = readerId[q] /\ readerId[q] \in Nat
             /\ readerId[q] < nextId'[sessionOf[q]]
             /\ sessionOf[q] = s => readerId[q] # nextId[s]
  <2>1. q \in Subscriptions /\ q # r /\ sessionOf[q] \in Sessions
    BY <1>1, <1>7, OnSessionInUse DEF Created
  <2>2. readerId[q] \in Nat /\ readerId[q] < nextId[sessionOf[q]]
    BY DEF ContextInv, RoutedInv, NumbersInv
  <2>3. nextId[sessionOf[q]] \in Nat
    BY <1>3, <2>1
  <2>4. readerId[q] < nextId'[sessionOf[q]]
    BY <1>5, <2>1, <2>2, <2>3
  <2> QED BY <1>5, <1>6, <2>1, <2>2, <2>4
<1>8. NumbersInv'
  <2>1. \A q \in Created': readerId'[q] \in Nat /\ readerId'[q] < nextId'[sessionOf[q]]
    BY <1>5, <1>6, <1>7 DEF s
  <2>2. \A p, q \in Created':
          sessionOf[p] = sessionOf[q] /\ readerId'[p] = readerId'[q] => p = q
    <3>1. \A p, q \in Created: sessionOf[p] = sessionOf[q] /\ readerId[p] = readerId[q] => p = q
      BY DEF ContextInv, RoutedInv, NumbersInv
    <3> QED BY <1>6, <1>7, <3>1 DEF s
  <2> QED BY <1>5, <1>6, <2>1, <2>2 DEF NumbersInv
<1>9. ASSUME NEW m \in sent PROVE Routed(m)'
  <2>1. m \in Messages /\ Routed(m)
    BY <1>9 DEF ContextInv, RoutedInv, SentInv
  <2>2. m.session \in Sessions /\ m.id \in Nat
    BY <2>1 DEF Messages, Ids
  <2>3. nextId[m.session] \in Nat
    BY <1>3, <2>2
  <2>4. m.id < nextId'[m.session]
    BY <1>5, <2>1, <2>2, <2>3 DEF Routed
  <2>5. m.session = s => m.id # nextId[s]
    BY <1>5, <2>1, <2>2 DEF Routed
  <2>6. \A q \in Created': sessionOf[q] = m.session /\ readerId'[q] = m.id => m.for = q
    BY <1>6, <1>7, <2>1, <2>5 DEF Routed, s
  <2> QED BY <2>1, <2>4, <2>6 DEF Routed, Served, Serves
<1>10. SentInv'
  BY <1>9 DEF ContextInv, RoutedInv, SentInv
<1> QED BY <1>8, <1>10 DEF RoutedInv

\* Data on its way, and every number on a session, stay right in every step.
LEMMA RoutedStep ==
    ASSUME ContextInv, SessionInv', [Next]_vars
    PROVE  RoutedInv'
<1> USE DEF readers
<1>1. SlotsInv /\ SentInv
  BY DEF ContextInv, RoutedInv
<1>2. ASSUME UNCHANGED <<allocated, free, creating>>
      PROVE  SlotsInv' /\ Created' = Created
  BY <1>1, <1>2 DEF SlotsInv, Created, InUse
<1>3. ASSUME UNCHANGED <<nextId, readers>>, sent' \subseteq sent, buffers' \subseteq buffers,
             NEW c \in Contexts,
             \A d \in Contexts \ {c}: phase'[d] = phase[d] /\ impl'[d] = impl[d],
             \A m \in sent': Serves(c, m.session) => Serves(c, m.session)'
      PROVE  RoutedInv'
  <2>1. SlotsInv' /\ Created' = Created
    BY <1>2, <1>3
  <2>2. ASSUME NEW m \in sent' PROVE Served(m.session)'
    <3>1. PICK d \in Contexts: Serves(d, m.session)
      BY <1>1, <1>3, <2>2 DEF SentInv, Routed, Served
    <3>2. Serves(d, m.session)'
      BY <1>3, <2>2, <3>1 DEF Serves
    <3> QED BY <3>2 DEF Served
  <2>3. buffers' \subseteq [owner: Subscriptions, msg: Messages]
    BY <1>1, <1>3 DEF SentInv
  <2> QED BY <1>3, <2>1, <2>2, <2>3, FewerRouted
<1>4. ASSUME NEW c \in Contexts, TakeSession(c) PROVE RoutedInv'
  <2>1. PICK s \in Sessions \ sessions:
          /\ sessions' = sessions \cup {s} /\ nextId' = [nextId EXCEPT ![s] = 0]
          /\ phase[c] = "out" /\ phase' = [phase EXCEPT ![c] = "opening"]
          /\ impl' = [impl EXCEPT ![c] = s]
    BY <1>4 DEF TakeSession
  <2>2. UNCHANGED <<allocated, free, sessionOf, readerId, creating, sent, buffers>>
    BY <1>4 DEF TakeSession
  <2>3. SlotsInv' /\ Created' = Created
    BY <1>2, <2>2
  <2>4. nextId' \in [Sessions -> Nat] /\ \A z \in Sessions \ {s}: nextId'[z] = nextId[z]
    BY <2>1 DEF ContextInv, RoutedInv, NumbersInv
  <2>5. \A r \in Created: nextId'[sessionOf[r]] = nextId[sessionOf[r]]
    <3> SUFFICES ASSUME NEW r \in Created PROVE nextId'[sessionOf[r]] = nextId[sessionOf[r]]
      OBVIOUS
    <3>1. sessionOf[r] \in Sessions \ {s}
      BY <2>1, OnSessionInUse DEF Created
    <3> QED BY <2>4, <3>1
  <2>6. NumbersInv'
    BY <2>2, <2>3, <2>4, <2>5 DEF ContextInv, RoutedInv, NumbersInv
  <2>7. ASSUME NEW m \in sent PROVE Routed(m)'
    <3>1. m \in Messages /\ Routed(m)
      BY <1>1, <2>7 DEF SentInv
    <3>2. m.session \in Sessions \ {s}
      BY <2>1, <3>1, ServedInUse DEF Messages, Routed
    <3>3. PICK d \in Contexts: Serves(d, m.session)
      BY <3>1 DEF Routed, Served
    <3>4. Serves(d, m.session)'
      BY <2>1, <3>3 DEF Serves, ContextInv, SessionInv, SessionTypes
    <3>5. nextId'[m.session] = nextId[m.session]
      BY <2>4, <3>2
    <3>6. Served(m.session)'
      BY <3>4 DEF Served
    <3> QED BY <2>2, <2>3, <3>1, <3>5, <3>6 DEF Routed
  <2>8. SentInv'
    BY <1>1, <2>2, <2>7 DEF SentInv
  <2> QED BY <2>3, <2>6, <2>8 DEF RoutedInv
<1>5. ASSUME NEW c \in Contexts,
             OpenTransport(c) \/ CreateSession(c) \/ GraphFails(c) \/ InitFails(c)
      PROVE  RoutedInv'
  <2>1. /\ phase[c] \in {"opening", "connecting"}
        /\ UNCHANGED <<nextId, readers, sent, buffers>>
        /\ \A d \in Contexts \ {c}: phase'[d] = phase[d] /\ impl'[d] = impl[d]
    BY <1>5 DEF OpenTransport, CreateSession, GraphFails, InitFails, ContextInv,
                SessionInv, SessionTypes
  <2> QED BY <1>3, <2>1 DEF Serves
<1>6. ASSUME NEW c \in Contexts, BeginFini(c) PROVE RoutedInv'
  <2>1. /\ phase'[c] = "fini" /\ impl' = impl
        /\ UNCHANGED <<nextId, readers, sent, buffers>>
        /\ \A d \in Contexts \ {c}: phase'[d] = phase[d]
    BY <1>6 DEF BeginFini, ContextInv, SessionInv, SessionTypes
  <2> QED BY <1>3, <2>1 DEF Serves
<1>7. ASSUME NEW c \in Contexts, FiniSession(c) PROVE RoutedInv'
  <2>1. /\ UNCHANGED <<nextId, readers, buffers>>
        /\ sent' = {m \in sent: m.session # impl[c]}
        /\ \A d \in Contexts \ {c}: phase'[d] = phase[d] /\ impl'[d] = impl[d]
    BY <1>7 DEF FiniSession, ContextInv, SessionInv, SessionTypes
  <2>2. sent' \subseteq sent /\ \A m \in sent': m.session # impl[c]
    BY <2>1
  <2> QED BY <1>3, <2>1, <2>2 DEF Serves
<1>8. ASSUME NEW c \in Contexts, EndFini(c) PROVE RoutedInv'
  <2>1. /\ phase[c] = "shutdown" /\ impl' = impl
        /\ UNCHANGED <<nextId, readers, sent>> /\ buffers' \subseteq buffers
        /\ \A d \in Contexts \ {c}: phase'[d] = phase[d]
    BY <1>8 DEF EndFini, ContextInv, SessionInv, SessionTypes
  <2> QED BY <1>3, <2>1 DEF Serves
<1>9. ASSUME NEW c \in Contexts, BeginSubscription(c) PROVE RoutedInv'
  BY <1>9, BeginRouted
<1>10. ASSUME NEW r \in Subscriptions, NumberReader(r) PROVE RoutedInv'
  <2>1. /\ r \in creating /\ creating' = creating \ {r}
        /\ UNCHANGED <<allocated, free>>
    BY <1>10 DEF NumberReader
  <2>2. SlotsInv' /\ Created' \subseteq Created \cup {r}
    BY <1>1, <2>1 DEF SlotsInv, Created, InUse
  <2> QED BY <1>10, <2>1, <2>2, NumberRouted DEF NumberReader
<1>11. ASSUME NEW r \in Subscriptions, CreationFails(r) PROVE RoutedInv'
  <2>1. /\ r \in creating /\ GiveBack(r) /\ creating' = creating \ {r}
        /\ UNCHANGED <<phase, impl, sessionOf, sent, buffers>>
    BY <1>11 DEF CreationFails
  <2>2. r \in InUse
    BY <1>1, <2>1 DEF SlotsInv
  <2>3. SlotsInv' /\ Created' \subseteq Created
    BY <2>1, <2>2, SlotsGivenBack
  <2>4. CASE UNCHANGED <<readerId, nextId>>
    <3>1. \A m \in sent': Served(m.session)'
      BY <1>1, <2>1 DEF SentInv, Routed, Served, Serves
    <3>2. buffers' \subseteq [owner: Subscriptions, msg: Messages]
      BY <1>1, <2>1 DEF SentInv
    <3> QED BY <2>1, <2>3, <2>4, <3>1, <3>2, FewerRouted
  <2>5. CASE /\ readerId' = [readerId EXCEPT ![r] = nextId[sessionOf[r]]]
             /\ nextId' = NextId(sessionOf[r])
    BY <2>1, <2>3, <2>5, NumberRouted
  <2> QED BY <1>11, <2>4, <2>5 DEF CreationFails
<1>12. ASSUME NEW r \in Subscriptions, DestroySubscription(r) PROVE RoutedInv'
  <2>1. /\ r \in InUse /\ r \notin creating /\ GiveBack(r)
        /\ UNCHANGED <<phase, impl, nextId, sessionOf, readerId, creating, sent, buffers>>
    BY <1>12 DEF DestroySubscription
  <2>2. SlotsInv' /\ Created' \subseteq Created
    <3>1. creating' = creating \ {r}
      BY <2>1
    <3> QED BY <2>1, <3>1, SlotsGivenBack
  <2>3. \A m \in sent': Served(m.session)'
    BY <1>1, <2>1 DEF SentInv, Routed, Served, Serves
  <2>4. buffers' \subseteq [owner: Subscriptions, msg: Messages]
    BY <1>1, <2>1 DEF SentInv
  <2> QED BY <2>1, <2>2, <2>3, <2>4, FewerRouted
<1>13. ASSUME UNCHANGED <<phase, impl, nextId, readers>>,
              \A m \in sent': m \in sent \/ (m \in Messages /\ Routed(m)),
              buffers' \subseteq [owner: Subscriptions, msg: Messages]
       PROVE  RoutedInv'
  <2>1. SlotsInv' /\ Created' = Created
    BY <1>2, <1>13
  <2>2. NumbersInv'
    BY <1>13, <2>1 DEF ContextInv, RoutedInv, NumbersInv
  <2>3. \A m \in sent': m \in Messages /\ Routed(m)'
    BY <1>1, <1>13, <2>1 DEF SentInv, Routed, Served, Serves
  <2>4. SentInv'
    BY <1>13, <2>3 DEF SentInv
  <2> QED BY <2>1, <2>2, <2>4 DEF RoutedInv
<1>14. ASSUME NEW r \in Subscriptions, Send(r) PROVE RoutedInv'
  <2> DEFINE m == [session |-> sessionOf[r], id |-> readerId[r], for |-> r]
  <2>1. /\ r \in Created /\ sent' = sent \cup {m}
        /\ UNCHANGED <<phase, impl, nextId, readers, buffers>>
    BY <1>14 DEF Send, Created
  <2>2. /\ sessionOf[r] \in Sessions /\ Served(sessionOf[r])
        /\ readerId[r] \in Nat /\ readerId[r] < nextId[sessionOf[r]]
        /\ \A q \in Created:
             sessionOf[q] = sessionOf[r] /\ readerId[q] = readerId[r] => r = q
    BY <2>1, OnSessionInUse DEF Created, ContextInv, SubscriptionInv, RoutedInv,
       NumbersInv, SubscriptionsOnSession, Served, Serves
  <2>3. m \in Messages /\ Routed(m)
    BY <2>2 DEF Messages, Ids, Routed
  <2> HIDE DEF m
  <2>4. \A n \in sent': n \in sent \/ (n \in Messages /\ Routed(n))
    BY <2>1, <2>3
  <2>5. buffers' \subseteq [owner: Subscriptions, msg: Messages]
    BY <1>1, <2>1 DEF SentInv
  <2> QED BY <1>13, <2>1, <2>4, <2>5
<1>15. ASSUME NEW m \in sent, OnTopic(m) PROVE RoutedInv'
  <2>1. sent' \subseteq sent /\ UNCHANGED <<phase, impl, nextId, readers>>
    BY <1>15 DEF OnTopic
  <2>2. m \in Messages /\ First(m) \subseteq Subscriptions
    BY <1>1 DEF SentInv, First, ContextInv, SubscriptionInv
  <2>3. \/ buffers' = buffers
        \/ \E r \in First(m): buffers' = buffers \cup {[owner |-> r, msg |-> m]}
    BY <1>15 DEF OnTopic
  <2>4. buffers' \subseteq [owner: Subscriptions, msg: Messages]
    BY <1>1, <2>2, <2>3 DEF SentInv
  <2> QED BY <1>13, <2>1, <2>4
<1>16. CASE Drop
  <2>1. /\ sent' \subseteq sent /\ buffers' \subseteq buffers
        /\ UNCHANGED <<phase, impl, nextId, readers>>
    BY <1>16 DEF Drop
  <2>2. buffers' \subseteq [owner: Subscriptions, msg: Messages]
    BY <1>1, <2>1 DEF SentInv
  <2> QED BY <1>13, <2>1, <2>2
<1>17. CASE UNCHANGED vars
  <2>1. buffers' \subseteq [owner: Subscriptions, msg: Messages]
    BY <1>1, <1>17 DEF SentInv, vars
  <2> QED BY <1>13, <1>17, <2>1 DEF vars
<1> QED BY <1>4, <1>5, <1>6, <1>7, <1>8, <1>9, <1>10, <1>11, <1>12, <1>14, <1>15,
           <1>16, <1>17 DEF Next

\* At the start nothing has a number and nothing is on its way.
LEMMA ContextInit == Init => ContextInv
<1> SUFFICES ASSUME Init PROVE ContextInv
  OBVIOUS
<1>1. InUse = {} /\ Created = {}
  BY DEF Init, InUse, ToSet, Created
<1>2. IsInjective(free)
  BY DEF Init, SetToSeqs, IsInjective
<1>3. SlotsInv
  BY <1>1, <1>2 DEF SlotsInv, Init, IsInjective
<1>4. NumbersInv
  BY <1>1 DEF NumbersInv, Init
<1>5. SentInv
  BY DEF SentInv, Init
<1> QED BY <1>3, <1>4, <1>5, SessionInit, SubscriptionInit DEF ContextInv, RoutedInv

\* Every step keeps the invariant.
LEMMA ContextStep == ContextInv /\ [Next]_vars => ContextInv'
<1> SUFFICES ASSUME ContextInv, [Next]_vars PROVE ContextInv'
  OBVIOUS
<1>1. SessionInv /\ SubscriptionInv
  BY DEF ContextInv
<1>2. SessionInv' /\ SubscriptionInv'
  BY <1>1, SessionStep, SubscriptionStep
<1> QED BY <1>2, RoutedStep DEF ContextInv

\* Every variable stays in its domain, for any number of contexts, sessions
\* and subscriptions; creations only work on allocated slots.
THEOREM ContextTypes == Spec => []TypeOK
<1>1. ContextInv => TypeOK
  <2> SUFFICES ASSUME ContextInv PROVE TypeOK
    OBVIOUS
  <2>1. open \subseteq Sessions
    BY DEF ContextInv, SessionInv
  <2> QED BY <2>1 DEF ContextInv, SessionInv, SessionTypes, SubscriptionInv, RoutedInv,
             SlotsInv, NumbersInv, SentInv, TypeOK, Ids
<1> QED BY <1>1, ContextInit, ContextStep, PTL DEF Spec

\* Of the data of its own session, a created subscription gets only what was
\* sent to it, however sessions, slots and numbers were used before.
THEOREM CreatedAreRouted == Spec => RoutedAmongCreated
<1>1. ASSUME ContextInv, [Next]_vars, NEW b \in buffers' \ buffers, b.owner \notin creating,
             b.msg.session = sessionOf[b.owner]
      PROVE  b.msg.for = b.owner
  <2>1. PICK m \in sent: OnTopic(m)
    BY <1>1 DEF Next, vars, TakeSession, OpenTransport, InitFails, CreateSession,
       GraphFails, BeginFini, FiniSession, EndFini, BeginSubscription, NumberReader,
       CreationFails, DestroySubscription, Send, Drop
  <2>2. PICK r \in First(m): b = [owner |-> r, msg |-> m]
    BY <1>1, <2>1 DEF OnTopic
  <2>3. r \in Created /\ readerId[r] = m.id /\ sessionOf[r] = m.session
    BY <1>1, <2>2 DEF First, Created, InUse, ToSet
  <2>4. Routed(m)
    BY <1>1 DEF ContextInv, RoutedInv, SentInv
  <2> QED BY <2>2, <2>3, <2>4 DEF Routed
<1>2. ContextInv /\ [Next]_vars
        => (\A b \in buffers' \ buffers:
              b.owner \notin creating /\ b.msg.session = sessionOf[b.owner]
              => b.msg.for = b.owner)
  BY <1>1
<1> QED BY <1>2, ContextInit, ContextStep, PTL DEF Spec, RoutedAmongCreated
=============================================================================
