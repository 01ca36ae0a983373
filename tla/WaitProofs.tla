----------------------------- MODULE WaitProofs -----------------------------
(***************************************************************************)
(* Proofs about module Wait: the flags of the sessions are those of the    *)
(* wait that runs them, and no trigger is lost or made up.                 *)
(***************************************************************************)
EXTENDS Wait, TLAPS

\* What the steps of a session run have in common.
LEMMA DeliverType ==
    ASSUME TypeOK, NEW s \in Sessions, NEW read \in SUBSET SentTo(s), Deliver(read)
    PROVE  sent' \in SUBSET Entities /\ buffered' \in SUBSET Entities
BY DEF TypeOK, Deliver, SentTo

\* The wait goes on to the next context, or past the last one.
LEMMA AdvanceType ==
    ASSUME TypeOK, NEW t \in Threads, Running(t), Advance(t)
    PROVE  at' \in [Threads -> 0..Len(Contexts) + 1]
<1>1. at[t] \in 1..Len(Contexts)
  BY WaitAssumption DEF Running, WaitAssumption
<1>2. Len(Contexts) \in Nat
  BY WaitAssumption DEF WaitAssumption
<1>3. at[t] + 1 \in 0..Len(Contexts) + 1
  BY <1>1, <1>2
<1> QED BY <1>3 DEF TypeOK, Advance

\* The session that a wait runs is one of the sessions.
LEMMA ContextType ==
    ASSUME NEW t \in Threads, Running(t)
    PROVE  Contexts[at[t]] \in Sessions
BY DEF Running, Sessions

\* The type invariant is inductive.
LEMMA TypeStep == TypeOK /\ [Next]_vars => TypeOK'
<1> SUFFICES ASSUME TypeOK, [Next]_vars PROVE TypeOK'
  OBVIOUS
<1> USE WaitAssumption DEF WaitAssumption
<1>1. ASSUME NEW t \in Threads, WaitStep(t) PROVE TypeOK'
  <2>1. CASE LockNothing(t)
    BY <2>1 DEF TypeOK, LockNothing, WaitArguments, NoWait
  <2>2. CASE Lock(t)
    BY <2>2 DEF TypeOK, Lock
  <2>3. CASE ClearFlags(t)
    BY <2>3 DEF TypeOK, ClearFlags, Cleared
  <2>4. CASE MarkSessions(t)
    <3>1. SessionsOf(t) \subseteq Sessions
      BY DEF TypeOK, SessionsOf, WaitArguments
    <3>2. 1 \in 0..Len(Contexts) + 1
      OBVIOUS
    <3> QED BY <2>4, <3>1, <3>2 DEF TypeOK, MarkSessions
  <2>5. CASE SkipSession(t)
    BY <2>5, AdvanceType DEF TypeOK, SkipSession, Advance
  <2>6. CASE RunUntilData(t)
    BY <2>6, AdvanceType, DeliverType, ContextType DEF TypeOK, RunUntilData, Advance
  <2>7. CASE RunUntilTimeout(t)
    BY <2>7, AdvanceType DEF TypeOK, RunUntilTimeout, Advance
  <2>8. CASE Spin(t)
    BY <2>8, AdvanceType, DeliverType, ContextType DEF TypeOK, Spin, Advance
  <2>9. CASE Unlock(t)
    <3>1. 0 \in 0..Len(Contexts) + 1
      OBVIOUS
    <3>2. arg[t].entities \cup arg[t].guards \subseteq Entities \cup Guards
      BY DEF TypeOK, WaitArguments
    <3> QED BY <2>9, <3>1, <3>2 DEF TypeOK, Unlock
  <2>10. ASSUME NEW e \in Entities, CheckEntity(t, e) PROVE TypeOK'
    BY <2>10 DEF TypeOK, CheckEntity
  <2>11. ASSUME NEW g \in Guards, ReadGuard(t, g) PROVE TypeOK'
    BY <2>11 DEF TypeOK, ReadGuard
  <2>12. ASSUME NEW g \in Guards, ResetGuard(t, g) PROVE TypeOK'
    BY <2>12 DEF TypeOK, ResetGuard
  <2>13. CASE Return(t)
    BY <2>13 DEF TypeOK, Return, WaitArguments, NoWait
  <2> QED BY <1>1, <2>1, <2>2, <2>3, <2>4, <2>5, <2>6, <2>7, <2>8, <2>9,
             <2>10, <2>11, <2>12, <2>13 DEF WaitStep
<1>2. ASSUME NEW t \in Threads, NEW w \in WaitSets, Call(t, w) PROVE TypeOK'
  BY <1>2 DEF TypeOK, Call
<1>3. ASSUME NEW g \in Guards, CreateGuard(g) \/ DestroyGuard(g) \/ Trigger(g)
      PROVE  TypeOK'
  BY <1>3 DEF TypeOK, CreateGuard, NewGuard, DestroyGuard, Trigger, wait
<1>4. ASSUME NEW e \in Entities, Send(e) \/ Take(e) PROVE TypeOK'
  BY <1>4 DEF TypeOK, Send, Take, wait
<1>5. ASSUME NEW s \in Sessions, RunElsewhere(s) PROVE TypeOK'
  BY <1>5, DeliverType DEF TypeOK, RunElsewhere, wait
<1>6. CASE UNCHANGED vars
  BY <1>6 DEF TypeOK, vars
<1> QED BY <1>1, <1>2, <1>3, <1>4, <1>5, <1>6 DEF Next, Around

\* The variables start in their domains.
LEMMA TypeInit == Init => TypeOK
BY WaitAssumption DEF Init, TypeOK, WaitAssumption, WaitArguments, NoWait

\* Every variable of Wait stays in its domain.
THEOREM WaitTypeCorrect == Spec => []TypeOK
BY TypeInit, TypeStep, PTL DEF Spec

-----------------------------------------------------------------------------
\* The threads between Lock and Unlock hold the mutex, so there is one at
\* most; between ClearFlags and MarkSessions it finds no flag set.
MutexHeld ==
    \A t \in Threads:
        /\ pc[t] \in {"clear", "mark", "run"} => mutex = t
        /\ pc[t] = "mark" => needToBeRan = {}

FlagsInv == MutexHeld /\ RunsItsSessions

\* A session run does not touch what FlagsInv speaks of.
LEMMA AdvanceFlags ==
    ASSUME FlagsInv, NEW t \in Threads, Advance(t)
    PROVE  FlagsInv'
BY DEF FlagsInv, MutexHeld, RunsItsSessions, Advance, SessionsOf

\* Every step keeps the mutex and the sessions that are run under it.
LEMMA FlagsStep == TypeOK /\ FlagsInv /\ [Next]_vars => FlagsInv'
<1> SUFFICES ASSUME TypeOK, FlagsInv, [Next]_vars PROVE FlagsInv'
  OBVIOUS
<1> USE WaitAssumption DEF WaitAssumption
<1>1. ASSUME NEW t \in Threads, WaitStep(t) PROVE FlagsInv'
  <2>1. CASE LockNothing(t)
    BY <2>1 DEF TypeOK, FlagsInv, MutexHeld, RunsItsSessions, SessionsOf, LockNothing
  <2>2. CASE Lock(t)
    BY <2>2 DEF TypeOK, FlagsInv, MutexHeld, RunsItsSessions, SessionsOf, Lock, MayLock
  <2>3. CASE ClearFlags(t)
    BY <2>3 DEF TypeOK, FlagsInv, MutexHeld, RunsItsSessions, SessionsOf, ClearFlags, Cleared
  <2>4. CASE MarkSessions(t)
    <3>1. needToBeRan' = SessionsOf(t) /\ arg' = arg
      BY <2>4 DEF FlagsInv, MutexHeld, MarkSessions
    <3>2. available'[t] <=> SessionsOf(t) # {}
      BY <2>4, <3>1 DEF MarkSessions, TypeOK
    <3>3. SessionsOf(t) # {} <=> arg[t].entities # {}
      BY DEF SessionsOf
    <3>4. \A u \in Threads \ {t}: pc'[u] \notin {"clear", "mark", "run"}
      BY <2>4 DEF TypeOK, FlagsInv, MutexHeld, MarkSessions
    <3>5. pc'[t] = "run" /\ mutex' = t
      BY <2>4 DEF TypeOK, FlagsInv, MutexHeld, MarkSessions
    <3>6. MutexHeld'
      BY <3>4, <3>5 DEF MutexHeld
    <3>7. RunsItsSessions'
      <4>1. SessionsOf(t)' = SessionsOf(t)
        BY <3>1 DEF SessionsOf
      <4> QED BY <3>1, <3>2, <3>3, <3>4, <3>5, <4>1 DEF RunsItsSessions
    <3> QED BY <3>6, <3>7 DEF FlagsInv
  <2>5. CASE SkipSession(t) \/ RunUntilData(t) \/ RunUntilTimeout(t) \/ Spin(t)
    BY <2>5, AdvanceFlags DEF SkipSession, RunUntilData, RunUntilTimeout, Spin
  <2>6. CASE Unlock(t)
    BY <2>6 DEF TypeOK, FlagsInv, MutexHeld, RunsItsSessions, SessionsOf, Unlock
  <2>7. ASSUME NEW e \in Entities, CheckEntity(t, e) PROVE FlagsInv'
    BY <2>7 DEF FlagsInv, MutexHeld, RunsItsSessions, SessionsOf, CheckEntity
  <2>8. ASSUME NEW g \in Guards, ReadGuard(t, g) \/ ResetGuard(t, g) PROVE FlagsInv'
    BY <2>8 DEF FlagsInv, MutexHeld, RunsItsSessions, SessionsOf, ReadGuard, ResetGuard
  <2>9. CASE Return(t)
    BY <2>9 DEF TypeOK, FlagsInv, MutexHeld, RunsItsSessions, SessionsOf, Return
  <2> QED BY <1>1, <2>1, <2>2, <2>3, <2>4, <2>5, <2>6, <2>7, <2>8, <2>9 DEF WaitStep
<1>2. ASSUME NEW t \in Threads, NEW w \in WaitSets, Call(t, w) PROVE FlagsInv'
  BY <1>2 DEF TypeOK, FlagsInv, MutexHeld, RunsItsSessions, SessionsOf, Call
<1>3. CASE Around
  BY <1>3 DEF FlagsInv, MutexHeld, RunsItsSessions, SessionsOf, Around,
     CreateGuard, DestroyGuard, Trigger, Send, Take, RunElsewhere, wait
<1>4. CASE UNCHANGED vars
  BY <1>4 DEF FlagsInv, MutexHeld, RunsItsSessions, SessionsOf, vars
<1> QED BY <1>1, <1>2, <1>3, <1>4 DEF Next

\* At first no session is run.
LEMMA FlagsInit == Init => FlagsInv
BY DEF Init, FlagsInv, MutexHeld, RunsItsSessions

\* The flags that a wait finds while it runs sessions are its own, for any
\* number of threads, sessions and entities.
THEOREM FlagsProtected == Spec => []RunsItsSessions
<1>1. Spec => []FlagsInv
  BY TypeInit, TypeStep, FlagsInit, FlagsStep, PTL DEF Spec
<1>2. FlagsInv => RunsItsSessions
  BY DEF FlagsInv
<1> QED BY <1>1, <1>2, PTL

-----------------------------------------------------------------------------
\* No step loses a trigger.
LEMMA TriggerStep == TypeOK /\ NoLostTrigger /\ [Next]_vars => NoLostTrigger'
<1> SUFFICES ASSUME TypeOK, NoLostTrigger, [Next]_vars, NEW g \in unseen'
             PROVE  g \in triggered' \/ \E t \in Threads: g \in ready'[t]
  BY DEF NoLostTrigger
<1>1. ASSUME NEW t \in Threads, WaitStep(t)
      PROVE  g \in triggered' \/ \E u \in Threads: g \in ready'[u]
  <2>1. CASE UNCHANGED <<triggered, ready, unseen>>
    BY <2>1 DEF NoLostTrigger
  <2>2. ASSUME NEW e \in Entities, CheckEntity(t, e)
        PROVE  g \in triggered' \/ \E u \in Threads: g \in ready'[u]
    BY <2>2 DEF TypeOK, NoLostTrigger, CheckEntity
  <2>3. ASSUME NEW h \in Guards, ReadGuard(t, h)
        PROVE  g \in triggered' \/ \E u \in Threads: g \in ready'[u]
    BY <2>3 DEF TypeOK, NoLostTrigger, ReadGuard
  <2>4. ASSUME NEW h \in Guards, ResetGuard(t, h)
        PROVE  g \in triggered' \/ \E u \in Threads: g \in ready'[u]
    BY <2>4 DEF TypeOK, NoLostTrigger, ResetGuard
  <2>5. CASE Return(t)
    <3>1. g \in unseen /\ g \notin ready[t]
      BY <2>5 DEF Return
    <3>2. g \in triggered \/ \E u \in Threads \ {t}: g \in ready[u]
      BY <3>1 DEF NoLostTrigger
    <3> QED BY <2>5, <3>2 DEF TypeOK, Return
  <2> QED BY <1>1, <2>1, <2>2, <2>3, <2>4, <2>5 DEF WaitStep, LockNothing, Lock,
             ClearFlags, MarkSessions, SkipSession, RunUntilData, RunUntilTimeout,
             Spin, Unlock, Advance
<1>2. ASSUME NEW t \in Threads, NEW w \in WaitSets, Call(t, w)
      PROVE  g \in triggered' \/ \E u \in Threads: g \in ready'[u]
  BY <1>2 DEF NoLostTrigger, Call
<1>3. CASE Around
  BY <1>3 DEF NoLostTrigger, Around, CreateGuard, NewGuard, DestroyGuard,
     Trigger, Send, Take, RunElsewhere, wait
<1>4. CASE UNCHANGED vars
  BY <1>4 DEF NoLostTrigger, vars
<1> QED BY <1>1, <1>2, <1>3, <1>4 DEF Next

\* No trigger of a guard condition is lost, whatever the threads do between
\* reading and resetting its flag.
THEOREM TriggersKept == Spec => []NoLostTrigger
<1>1. Init => NoLostTrigger
  BY DEF Init, NoLostTrigger
<1> QED BY <1>1, TypeInit, TypeStep, TriggerStep, PTL DEF Spec

-----------------------------------------------------------------------------
\* What a wait has found and has still to check is in its arguments, and the
\* guard conditions there exist; so a slot that is created anew is in no wait.
ArgumentsInv ==
    \A t \in Threads:
        /\ arg[t].guards \subseteq existing
        /\ todo[t] \cap Guards \subseteq arg[t].guards
        /\ ready[t] \cap Guards \subseteq arg[t].guards
        /\ pc[t] # "check" => todo[t] = {} /\ ready[t] = {}

FiredInv == ArgumentsInv /\ NoFalseTrigger /\ triggered \cap existing \subseteq fired

\* No step reports what did not fire.
LEMMA FiredStep == TypeOK /\ FiredInv /\ [Next]_vars => FiredInv'
<1> SUFFICES ASSUME TypeOK, FiredInv, [Next]_vars PROVE FiredInv'
  OBVIOUS
<1> USE WaitAssumption DEF WaitAssumption, FiredInv, ArgumentsInv, NoFalseTrigger
<1>1. ASSUME NEW t \in Threads, WaitStep(t) PROVE FiredInv'
  <2>1. CASE LockNothing(t)
    BY <2>1 DEF TypeOK, LockNothing, NoWait
  <2>2. CASE Lock(t) \/ ClearFlags(t) \/ MarkSessions(t)
    <3>1. \A u \in Threads: pc'[u] # "check" => pc[u] # "check"
      BY <2>2 DEF TypeOK, Lock, ClearFlags, MarkSessions
    <3> QED BY <2>2, <3>1 DEF Lock, ClearFlags, MarkSessions
  <2>3. CASE SkipSession(t) \/ RunUntilData(t) \/ RunUntilTimeout(t) \/ Spin(t)
    BY <2>3 DEF SkipSession, RunUntilData, RunUntilTimeout, Spin, Advance
  <2>4. CASE Unlock(t)
    <3>1. (arg[t].entities \cup arg[t].guards) \cap Guards \subseteq arg[t].guards
      BY DEF TypeOK, WaitArguments
    <3>2. \A u \in Threads: todo'[u] \cap Guards \subseteq arg[u].guards
      BY <2>4, <3>1 DEF TypeOK, Unlock
    <3>3. \A u \in Threads: pc'[u] # "check" => todo'[u] = {} /\ ready[u] = {}
      BY <2>4 DEF TypeOK, Unlock
    <3> QED BY <2>4, <3>2, <3>3 DEF Unlock
  <2>5. ASSUME NEW e \in Entities, CheckEntity(t, e) PROVE FiredInv'
    BY <2>5 DEF TypeOK, CheckEntity
  <2>6. ASSUME NEW g \in Guards, ReadGuard(t, g) PROVE FiredInv'
    <3>1. g \in arg[t].guards /\ g \in existing /\ pc[t] = "check"
      BY <2>6 DEF ReadGuard, MayCheckGuard
    <3> QED BY <2>6, <3>1 DEF TypeOK, ReadGuard
  <2>7. ASSUME NEW g \in Guards, ResetGuard(t, g) PROVE FiredInv'
    BY <2>7 DEF TypeOK, ResetGuard, MayCheckGuard
  <2>8. CASE Return(t)
    BY <2>8 DEF TypeOK, Return, NoWait
  <2> QED BY <1>1, <2>1, <2>2, <2>3, <2>4, <2>5, <2>6, <2>7, <2>8 DEF WaitStep
<1>2. ASSUME NEW t \in Threads, NEW w \in WaitSets, Call(t, w) PROVE FiredInv'
  BY <1>2 DEF TypeOK, Call
<1>3. CASE Around
  BY <1>3 DEF Around, CreateGuard, NewGuard, DestroyGuard, Trigger, Send, Take,
     RunElsewhere, wait
<1>4. CASE UNCHANGED vars
  BY <1>4 DEF vars
<1> QED BY <1>1, <1>2, <1>3, <1>4 DEF Next

\* A wait reports no guard condition that was not triggered since it was
\* created, for any number of guard conditions, threads and reuses of a slot.
THEOREM TriggersReal == Spec => []NoFalseTrigger
<1>1. Init => FiredInv
  BY DEF Init, FiredInv, ArgumentsInv, NoFalseTrigger, NoWait
<1>2. FiredInv => NoFalseTrigger
  BY DEF FiredInv
<1> QED BY <1>1, <1>2, TypeInit, TypeStep, FiredStep, PTL DEF Spec
=============================================================================
