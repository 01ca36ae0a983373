-------------------------------- MODULE Wait --------------------------------
(***************************************************************************)
(* rmw_wait and the guard conditions (rmw_wait.c, rmw_guard_condition.c,   *)
(* rmw_trigger_guard_condition.c).                                         *)
(*                                                                         *)
(* A wait holds rmw_uxrce_wait_mutex while it marks and runs the sessions  *)
(* of its entities, one after the other; it looks at the input buffers and *)
(* at the guard conditions after it released the mutex.  Messages come in  *)
(* by the session runs of any call.                                        *)
(***************************************************************************)
EXTENDS Naturals, Sequences

CONSTANTS
    Threads,    \* application threads
    Nobody,     \* no thread
    Entities,   \* subscriptions, services and clients
    Guards,     \* guard conditions: slots of guard_condition_memory
    Contexts,   \* sequence: the list session_memory.allocateditems
    ContextOf,  \* ContextOf[e]: e->owner_node->context
    WaitSets,   \* the arguments the application waits with
    OtherRuns,  \* TRUE: other calls run sessions too (rmw_publish and the like)
    MaxWaits    \* bound on the waits of one thread

Sessions == {Contexts[i]: i \in DOMAIN Contexts}

\* given is FALSE when all four arrays are NULL; infinite stands for a timeout
\* that is NULL or RMW_DURATION_INFINITE.
WaitArguments == [given: BOOLEAN, entities: SUBSET Entities,
                  guards: SUBSET Guards, infinite: BOOLEAN]

ASSUME WaitAssumption ==
    /\ Nobody \notin Threads
    /\ Entities \cap Guards = {}
    /\ Contexts \in Seq(Sessions)
    /\ ContextOf \in [Entities -> Sessions]
    /\ WaitSets \subseteq WaitArguments
    /\ OtherRuns \in BOOLEAN
    /\ MaxWaits \in Nat

VARIABLES
    mutex,      \* the thread that holds rmw_uxrce_wait_mutex
    needToBeRan,\* sessions with custom_context->need_to_be_ran
    sent,       \* entities with a message in the transport of their session
    buffered,   \* entities with a static input buffer
    existing,   \* guard conditions that are created
    triggered,  \* guard conditions with hasTriggered
    pc,         \* where each thread is in rmw_wait
    arg,        \* arg[t]: the arguments of the wait
    at,         \* at[t]: place in Contexts of the session to run next
    available,  \* available[t]: available_contexts is not 0
    todo,       \* todo[t]: entries of the arrays that are not checked yet
    ready,      \* ready[t]: entries found ready, the others are set to NULL
    waits,      \* waits[t]: number of waits called
    unseen,     \* guards with a trigger that no wait reported
    fired       \* guards triggered since they were created

wait == <<pc, arg, at, available, todo, ready>>
vars == <<mutex, needToBeRan, sent, buffered, existing, triggered,
          pc, arg, at, available, todo, ready, waits, unseen, fired>>

NoWait == [given |-> FALSE, entities |-> {}, guards |-> {}, infinite |-> FALSE]

SessionsOf(t) == {ContextOf[e]: e \in arg[t].entities}
SentTo(s) == {e \in sent: ContextOf[e] = s}

Init ==
    /\ mutex = Nobody
    /\ needToBeRan = {}
    /\ sent = {} /\ buffered = {}
    /\ existing = {} /\ triggered = {}
    /\ pc = [t \in Threads |-> "idle"]
    /\ arg = [t \in Threads |-> NoWait]
    /\ at = [t \in Threads |-> 0]
    /\ available = [t \in Threads |-> FALSE]
    /\ todo = [t \in Threads |-> {}]
    /\ ready = [t \in Threads |-> {}]
    /\ waits = [t \in Threads |-> 0]
    /\ unseen = {} /\ fired = {}

-----------------------------------------------------------------------------
\* A thread calls rmw_wait with entities and guard conditions it has.
Call(t, w) ==
    /\ pc[t] = "idle" /\ waits[t] < MaxWaits
    /\ w.guards \subseteq existing
    /\ pc' = [pc EXCEPT ![t] = "lock"]
    /\ arg' = [arg EXCEPT ![t] = w]
    /\ waits' = [waits EXCEPT ![t] = @ + 1]
    /\ UNCHANGED <<mutex, needToBeRan, sent, buffered, existing, triggered,
                   at, available, todo, ready, unseen, fired>>

\* Mutant: the mutex is not taken.
MayLockAlways == TRUE

MayLock == mutex = Nobody

\* Mutant: the early return forgets the mutex.
LockNothingKept(t) ==
    /\ pc[t] = "lock" /\ ~ arg[t].given /\ MayLock
    /\ mutex' = t
    /\ pc' = [pc EXCEPT ![t] = "idle"]
    /\ arg' = [arg EXCEPT ![t] = NoWait]
    /\ UNCHANGED <<needToBeRan, sent, buffered, existing, triggered, at,
                   available, todo, ready, waits, unseen, fired>>

\* All arrays are NULL: the mutex is taken and released.
LockNothing(t) ==
    /\ pc[t] = "lock" /\ ~ arg[t].given /\ MayLock
    /\ pc' = [pc EXCEPT ![t] = "idle"]
    /\ arg' = [arg EXCEPT ![t] = NoWait]
    /\ UNCHANGED <<mutex, needToBeRan, sent, buffered, existing, triggered, at,
                   available, todo, ready, waits, unseen, fired>>

\* The mutex is taken and the expired buffers are swept, whichever they are.
Lock(t) ==
    /\ pc[t] = "lock" /\ arg[t].given /\ MayLock
    /\ mutex' = t
    /\ buffered' \in SUBSET buffered
    /\ pc' = [pc EXCEPT ![t] = "clear"]
    /\ UNCHANGED <<needToBeRan, sent, existing, triggered, arg, at, available,
                   todo, ready, waits, unseen, fired>>

\* Mutant: the flags of the last wait stay.
ClearedNothing == needToBeRan

Cleared == {}

\* need_to_be_ran is cleared in all sessions.
ClearFlags(t) ==
    /\ pc[t] = "clear"
    /\ needToBeRan' = Cleared
    /\ pc' = [pc EXCEPT ![t] = "mark"]
    /\ UNCHANGED <<mutex, sent, buffered, existing, triggered, arg, at,
                   available, todo, ready, waits, unseen, fired>>

\* It is set in the sessions of the entities, and they are counted.
MarkSessions(t) ==
    /\ pc[t] = "mark"
    /\ needToBeRan' = needToBeRan \cup SessionsOf(t)
    /\ available' = [available EXCEPT ![t] = needToBeRan' # {}]
    /\ at' = [at EXCEPT ![t] = 1]
    /\ pc' = [pc EXCEPT ![t] = "run"]
    /\ UNCHANGED <<mutex, sent, buffered, existing, triggered, arg, todo, ready,
                   waits, unseen, fired>>

Running(t) == pc[t] = "run" /\ at[t] \in DOMAIN Contexts

\* What the callbacks do with the messages that a session run reads: each is
\* stored, or refused when there is no buffer (module InputBuffers).
Deliver(read) ==
    /\ sent' = sent \ read
    /\ \E stored \in SUBSET read: buffered' = buffered \cup stored

\* Mutant: the loop goes on to the next session twice.
AdvanceTwice(t) ==
    /\ at' = [at EXCEPT ![t] = @ + 2]
    /\ UNCHANGED <<mutex, needToBeRan, existing, triggered, pc, arg, available,
                   todo, ready, waits, unseen, fired>>

Advance(t) ==
    /\ at' = [at EXCEPT ![t] = @ + 1]
    /\ UNCHANGED <<mutex, needToBeRan, existing, triggered, pc, arg, available,
                   todo, ready, waits, unseen, fired>>

SkipSession(t) ==
    /\ Running(t) /\ available[t]
    /\ Contexts[at[t]] \notin needToBeRan
    /\ Advance(t)
    /\ UNCHANGED <<sent, buffered>>

\* uxr_run_session_until_data ends with the first data it reads, whether or
\* not it is for an entity of this wait ...
RunUntilData(t) ==
    /\ Running(t) /\ available[t]
    /\ Contexts[at[t]] \in needToBeRan
    /\ \E read \in SUBSET SentTo(Contexts[at[t]]) \ {{}}: Deliver(read)
    /\ Advance(t)

\* ... or when the timeout elapses, if there is one.
RunUntilTimeout(t) ==
    /\ Running(t) /\ available[t]
    /\ Contexts[at[t]] \in needToBeRan
    /\ ~ arg[t].infinite
    /\ Advance(t)
    /\ UNCHANGED <<sent, buffered>>

\* Mutant: without an entity, too, the session runs until data.
SpinBlocking(t) ==
    /\ Running(t) /\ ~ available[t]
    /\ \E read \in SUBSET SentTo(Contexts[at[t]]) \ {{}}: Deliver(read)
    /\ Advance(t)

\* No entity in the wait set: each session runs with a timeout of 0.
Spin(t) ==
    /\ Running(t) /\ ~ available[t]
    /\ \E read \in SUBSET SentTo(Contexts[at[t]]): Deliver(read)
    /\ Advance(t)

Unlock(t) ==
    /\ pc[t] = "run" /\ at[t] \notin DOMAIN Contexts
    /\ mutex' = Nobody
    /\ at' = [at EXCEPT ![t] = 0]
    /\ todo' = [todo EXCEPT ![t] = arg[t].entities \cup arg[t].guards]
    /\ pc' = [pc EXCEPT ![t] = "check"]
    /\ UNCHANGED <<needToBeRan, sent, buffered, existing, triggered, arg,
                   available, ready, waits, unseen, fired>>

-----------------------------------------------------------------------------
\* The arrays are checked entry by entry, the guard conditions last.
CheckEntity(t, e) ==
    /\ pc[t] = "check" /\ e \in todo[t]
    /\ todo' = [todo EXCEPT ![t] = @ \ {e}]
    /\ ready' = [ready EXCEPT ![t] = IF e \in buffered THEN @ \cup {e} ELSE @]
    /\ UNCHANGED <<mutex, needToBeRan, sent, buffered, existing, triggered, pc,
                   arg, at, available, waits, unseen, fired>>

MayCheckGuard(t, g) ==
    /\ pc[t] = "check" /\ g \in todo[t]
    /\ todo[t] \cap Entities = {}

\* hasTriggered is read; when it is FALSE the entry is set to NULL, when it is
\* TRUE it has still to be reset.
ReadGuard(t, g) ==
    /\ MayCheckGuard(t, g)
    /\ todo[t] \cap ready[t] = {}
    /\ ready' = [ready EXCEPT ![t] = @ \cup ({g} \cap triggered)]
    /\ todo' = [todo EXCEPT ![t] = @ \ ({g} \ triggered)]
    /\ UNCHANGED <<mutex, needToBeRan, sent, buffered, existing, triggered, pc,
                   arg, at, available, waits, unseen, fired>>

\* It was TRUE and is reset: a step of its own, another thread may have set
\* or reset it since it was read.
ResetGuard(t, g) ==
    /\ MayCheckGuard(t, g)
    /\ g \in ready[t]
    /\ triggered' = triggered \ {g}
    /\ todo' = [todo EXCEPT ![t] = @ \ {g}]
    /\ UNCHANGED <<mutex, needToBeRan, sent, buffered, existing, pc, arg, at,
                   available, ready, waits, unseen, fired>>

\* Mutant: every guard condition of the wait set is reset at the end.
ReturnResets(t) ==
    /\ pc[t] = "check" /\ todo[t] = {}
    /\ pc' = [pc EXCEPT ![t] = "idle"]
    /\ arg' = [arg EXCEPT ![t] = NoWait]
    /\ available' = [available EXCEPT ![t] = FALSE]
    /\ ready' = [ready EXCEPT ![t] = {}]
    /\ unseen' = unseen \ ready[t]
    /\ triggered' = triggered \ arg[t].guards
    /\ UNCHANGED <<mutex, needToBeRan, sent, buffered, existing, at, todo, waits,
                   fired>>

Return(t) ==
    /\ pc[t] = "check" /\ todo[t] = {}
    /\ pc' = [pc EXCEPT ![t] = "idle"]
    /\ arg' = [arg EXCEPT ![t] = NoWait]
    /\ available' = [available EXCEPT ![t] = FALSE]
    /\ ready' = [ready EXCEPT ![t] = {}]
    /\ unseen' = unseen \ ready[t]
    /\ UNCHANGED <<mutex, needToBeRan, sent, buffered, existing, triggered, at,
                   todo, waits, fired>>

-----------------------------------------------------------------------------
\* Mutant: the flag of the slot is not reset.
NewGuardKept(g) ==
    /\ g \notin existing
    /\ existing' = existing \cup {g}
    /\ UNCHANGED triggered

NewGuard(g) ==
    /\ g \notin existing
    /\ existing' = existing \cup {g}
    /\ triggered' = triggered \ {g}

CreateGuard(g) ==
    /\ NewGuard(g)
    /\ unseen' = unseen \ {g} /\ fired' = fired \ {g}
    /\ UNCHANGED <<mutex, needToBeRan, sent, buffered, wait, waits>>

\* The application destroys a guard condition that no thread waits with.
DestroyGuard(g) ==
    /\ g \in existing
    /\ \A t \in Threads: g \notin arg[t].guards
    /\ existing' = existing \ {g}
    /\ unseen' = unseen \ {g} /\ fired' = fired \ {g}
    /\ UNCHANGED <<mutex, needToBeRan, sent, buffered, triggered, wait, waits>>

Trigger(g) ==
    /\ g \in existing
    /\ triggered' = triggered \cup {g}
    /\ unseen' = unseen \cup {g} /\ fired' = fired \cup {g}
    /\ UNCHANGED <<mutex, needToBeRan, sent, buffered, existing, wait, waits>>

\* The agent sends a message to an entity.
Send(e) ==
    /\ sent' = sent \cup {e}
    /\ UNCHANGED <<mutex, needToBeRan, buffered, existing, triggered, wait,
                   waits, unseen, fired>>

\* Another call runs a session.
RunElsewhere(s) ==
    /\ OtherRuns
    /\ \E read \in SUBSET SentTo(s) \ {{}}: Deliver(read)
    /\ UNCHANGED <<mutex, needToBeRan, existing, triggered, wait, waits, unseen,
                   fired>>

\* A take leaves the entity with messages or without.
Take(e) ==
    /\ e \in buffered
    /\ buffered' = buffered \ {e}
    /\ UNCHANGED <<mutex, needToBeRan, sent, existing, triggered, wait, waits,
                   unseen, fired>>

WaitStep(t) ==
    \/ LockNothing(t) \/ Lock(t)
    \/ ClearFlags(t) \/ MarkSessions(t)
    \/ SkipSession(t) \/ RunUntilData(t) \/ RunUntilTimeout(t) \/ Spin(t)
    \/ Unlock(t)
    \/ \E e \in Entities: CheckEntity(t, e)
    \/ \E g \in Guards: ReadGuard(t, g) \/ ResetGuard(t, g)
    \/ Return(t)

Around ==
    \/ \E g \in Guards: CreateGuard(g) \/ DestroyGuard(g) \/ Trigger(g)
    \/ \E e \in Entities: Send(e) \/ Take(e)
    \/ \E s \in Sessions: RunElsewhere(s)

Next ==
    \/ \E t \in Threads: WaitStep(t) \/ \E w \in WaitSets: Call(t, w)
    \/ Around

Spec == Init /\ [][Next]_vars

\* A thread that can go on does: it is scheduled, it gets a mutex that stays
\* free, and a session run ends when its timeout elapses or data is there.
FairSpec == Spec /\ \A t \in Threads: WF_vars(WaitStep(t))

-----------------------------------------------------------------------------
\* Every variable stays in its domain.
TypeOK ==
    /\ mutex \in Threads \cup {Nobody}
    /\ needToBeRan \in SUBSET Sessions
    /\ sent \in SUBSET Entities /\ buffered \in SUBSET Entities
    /\ existing \in SUBSET Guards /\ triggered \in SUBSET Guards
    /\ pc \in [Threads -> {"idle", "lock", "clear", "mark", "run", "check"}]
    /\ arg \in [Threads -> WaitArguments]
    /\ at \in [Threads -> 0..Len(Contexts) + 1]
    /\ available \in [Threads -> BOOLEAN]
    /\ todo \in [Threads -> SUBSET (Entities \cup Guards)]
    /\ ready \in [Threads -> SUBSET (Entities \cup Guards)]
    /\ waits \in [Threads -> 0..MaxWaits]
    /\ unseen \in SUBSET Guards /\ fired \in SUBSET Guards

\* "With rmw_uxrce_wait_mutex member need_to_be_ran is protected" (rmw_wait.c):
\* while a wait runs sessions, the flags are those of its own entities, so no
\* other wait makes it skip a session of its entities or block in another one.
RunsItsSessions ==
    \A t \in Threads: pc[t] = "run" =>
        /\ needToBeRan = SessionsOf(t)
        /\ available[t] <=> arg[t].entities # {}

\* A trigger is never lost, although the flag is read and reset without a
\* mutex: until a wait returns that reports the guard condition, the flag is
\* set, or a wait is about to report it.
NoLostTrigger ==
    \A g \in unseen:
        g \in triggered \/ \E t \in Threads: g \in ready[t]

\* A guard condition that a wait reports was triggered since it was created,
\* and not only its predecessor in the slot.
NoFalseTrigger ==
    \A t \in Threads: ready[t] \cap Guards \subseteq fired

\* Every wait with a timeout, or without an entity, returns, also one that
\* queues for the mutex behind other such waits: only a wait for an entity
\* without a timeout can keep it from that.
WaitsReturn ==
    LET Unbounded(u) == arg[u].infinite /\ arg[u].entities # {} IN
    \A t \in Threads:
        (pc[t] # "idle" /\ ~ Unbounded(t))
            ~> (pc[t] = "idle" \/ \E u \in Threads: Unbounded(u))

\* A wait without timeout goes on as long as each session of its entities that
\* it has still to run gets data: only another call that reads this data first
\* can make it wait, never a session of other entities or of an earlier wait.
DataEndsWait ==
    \A t \in Threads:
        LET Ahead == {ContextOf[e]: e \in arg[t].entities} \cap
                         {Contexts[i]: i \in {j \in DOMAIN Contexts: j >= at[t]}}
            HasData == \A s \in Ahead: SentTo(s) # {}
        IN  (pc[t] = "run" /\ HasData) ~> (pc[t] = "idle" \/ ~ HasData)

\* A wait with guard conditions only does not block, whatever its timeout.
GuardWaitReturns ==
    \A t \in Threads:
        (pc[t] = "run" /\ arg[t].entities = {}) ~> pc[t] = "idle"
=============================================================================
