------------------------------ MODULE Outgoing ------------------------------
(***************************************************************************)
(* What the library sends: rmw_publish, rmw_send_request,                  *)
(* rmw_send_response and the requests that create entities, by several     *)
(* threads over the output streams of one session.  A message is reserved  *)
(* in a stream under the stream's lock, written, and the lock is released; *)
(* then the caller flashes the best-effort stream, or runs the session     *)
(* until the reliable stream is confirmed or its timeout elapses.  The     *)
(* agent receives what the reliable stream holds at some time, and its     *)
(* acknowledgement may come late or not at all.                            *)
(***************************************************************************)
EXTENDS Naming, FiniteSets

CONSTANTS
    Senders,    \* publishers, clients and services
    Role,       \* Role[e]: "publisher", "client" or "service"
    StreamOf,   \* StreamOf[e]: the stream of its stream_id
    Threads,    \* application threads
    History,    \* RMW_UXRCE_STREAM_HISTORY_OUTPUT
    MaxCalls,   \* bound on the number of calls
    Nobody      \* not a thread

Streams == {"reliable", "best_effort"}
Calls == 1..MaxCalls

ASSUME OutgoingAssumption ==
    /\ Senders \cap Named = {}
    /\ Role \in [Senders -> {"publisher", "client", "service"}]
    /\ StreamOf \in [Senders -> Streams]
    /\ Nobody \notin Threads
    /\ History \in Nat \ {0}
    /\ MaxCalls \in Nat

VARIABLES
    refs,       \* the library was built with RMW_UXRCE_USE_REFS
    text,       \* text[b]: the text in a shared buffer
    pc,         \* pc[t]: what thread t does next
    mine,       \* mine[t]: the call thread t is in, or was in last
    step,       \* step[t]: the next text of a creation
    alone,      \* alone[t]: no creation that shares a buffer overlapped t's
    lock,       \* lock[s]: the thread between reserving and UXR_UNLOCK_STREAM_ID
    calls,      \* number of calls so far
    subject,    \* subject[n]: the entity of call n
    content,    \* content[n]: what the stream has for call n
    queued,     \* calls whose message the reliable stream holds
    effort,     \* calls whose message the best-effort stream holds
    received,   \* received[n]: what the agent got of call n
    carried,    \* carried[n]: the texts in a creation request, and alone[t]
    result      \* result[n]: what call n returned

stream == <<lock, content, queued, effort, received>>
texts == <<text, step, alone, carried>>
vars == <<refs, text, pc, mine, step, alone, lock, calls, subject, content,
          queued, effort, received, carried, result>>

-----------------------------------------------------------------------------
Init ==
    /\ refs \in BOOLEAN
    /\ text = [b \in Buffers |-> [of |-> {}, cut |-> FALSE]]
    /\ pc = [t \in Threads |-> "idle"]
    /\ mine = [t \in Threads |-> 0]
    /\ step = [t \in Threads |-> 1]
    /\ alone = [t \in Threads |-> TRUE]
    /\ lock = [s \in Streams |-> Nobody]
    /\ calls = 0
    /\ subject = [n \in Calls |-> Nobody]
    /\ content = [n \in Calls |-> "none"]
    /\ queued = {}
    /\ effort = {}
    /\ received = [n \in Calls |-> "none"]
    /\ carried = [n \in Calls |-> [texts |-> {}, alone |-> TRUE]]
    /\ result = [n \in Calls |-> "none"]

Subject(t) == subject[mine[t]]
Stream(t) == StreamOf[Subject(t)]

\* There is room for one more message in the reliable stream.
Room == Cardinality(queued) < History

Returns(t, r) ==
    /\ pc' = [pc EXCEPT ![t] = "idle"]
    /\ result' = [result EXCEPT ![mine[t]] = r]

\* Creations that may write into a common buffer: without references those of
\* the same kind, which run the same code, and those of rmw_graph_init.
Shares(e, f) ==
    \/ refs
    \/ KindOf[e] = KindOf[f]
    \/ {KindOf[e], KindOf[f]} \subseteq {"graph_topic", "graph_reader"}
Creating(t) == pc[t] = "texts"

\* A thread calls one of the functions.
Begin(t, e) ==
    /\ pc[t] = "idle"
    /\ calls < MaxCalls
    /\ calls' = calls + 1
    /\ mine' = [mine EXCEPT ![t] = calls + 1]
    /\ subject' = [subject EXCEPT ![calls + 1] = e]
    /\ UNCHANGED <<refs, text, stream, carried, result>>

BeginSend(t, e) ==
    /\ Begin(t, e)
    /\ pc' = [pc EXCEPT ![t] = "prepare"]
    /\ UNCHANGED <<step, alone>>

BeginCreation(t, e) ==
    LET others == {u \in Threads: Creating(u) /\ Shares(Subject(u), e)} IN
    /\ Begin(t, e)
    /\ pc' = [pc EXCEPT ![t] = "texts"]
    /\ step' = [step EXCEPT ![t] = 1]
    /\ alone' = [u \in Threads |->
                   CASE u = t -> others = {}
                     [] u \in others -> FALSE
                     [] OTHER -> alone[u]]

-----------------------------------------------------------------------------
\* Creations.

\* A generate_ or build_ function writes its texts; when the caller sees that
\* one is cut, the creation fails.
MakeText(t) ==
    LET todo == Texts(Subject(t), refs) IN
    /\ Creating(t)
    /\ step[t] \in DOMAIN todo
    /\ LET c == todo[step[t]] IN
       /\ text' = [b \in Buffers |-> IF b \in c.buffers
                                     THEN Written(Subject(t), c, text)
                                     ELSE text[b]]
       /\ IF Accepted(c)
          THEN step' = [step EXCEPT ![t] = @ + 1] /\ UNCHANGED <<pc, result>>
          ELSE Returns(t, "ERROR") /\ UNCHANGED step
    /\ UNCHANGED <<refs, mine, alone, calls, subject, stream, carried>>

\* Mutant: like a message, a creation waits for its delivery.
AwaitsDelivery == "confirm"

\* run_xrce_session waits for the status the agent answers with.
Awaits == "status"

\* uxr_buffer_create_: the request with the texts goes to the creation stream.
\* A stream without room takes nothing, and the request is an invalid one.
BufferRequest(t) ==
    LET n == mine[t] IN
    /\ Creating(t)
    /\ step[t] \notin DOMAIN Texts(Subject(t), refs)
    /\ lock["reliable"] = Nobody
    /\ IF Room
       THEN /\ content' = [content EXCEPT ![n] = "good"]
            /\ queued' = queued \cup {n}
            /\ carried' = [carried EXCEPT ![n] =
                 [texts |-> {text[b] : b \in Carried(Subject(t), refs)},
                  alone |-> alone[t]]]
       ELSE UNCHANGED <<content, queued, carried>>
    /\ pc' = [pc EXCEPT ![t] = Awaits]
    /\ UNCHANGED <<refs, text, mine, step, alone, lock, calls, subject, effort,
                   received, result>>

\* run_xrce_session: the agent's status of the request, or the timeout.
Status(t, r) ==
    /\ pc[t] = "status"
    /\ r = "OK" => received[mine[t]] # "none"
    /\ Returns(t, r)
    /\ UNCHANGED <<refs, texts, mine, calls, subject, stream>>

-----------------------------------------------------------------------------
\* Messages.

\* Mutant: the lock is released before the message is serialised.
ReserveUnlocked(t) ==
    LET n == mine[t] IN
    /\ lock[Stream(t)] = Nobody
    /\ content' = [content EXCEPT ![n] = "blank"]
    /\ IF Stream(t) = "reliable"
       THEN Room /\ queued' = queued \cup {n} /\ UNCHANGED effort
       ELSE effort' = effort \cup {n} /\ UNCHANGED queued
    /\ pc' = [pc EXCEPT ![t] = "write"]
    /\ UNCHANGED <<lock, received, result>>

\* A place in the stream is taken, and the lock of the stream is kept.
Reserve(t) ==
    LET n == mine[t] IN
    /\ lock[Stream(t)] = Nobody
    /\ lock' = [lock EXCEPT ![Stream(t)] = t]
    /\ content' = [content EXCEPT ![n] = "blank"]
    /\ IF Stream(t) = "reliable"
       THEN Room /\ queued' = queued \cup {n} /\ UNCHANGED effort
       ELSE effort' = effort \cup {n} /\ UNCHANGED queued
    /\ pc' = [pc EXCEPT ![t] = "write"]
    /\ UNCHANGED <<received, result>>

\* uxr_prepare_output_stream
Prepare(t) ==
    /\ pc[t] = "prepare"
    /\ Reserve(t)
    /\ UNCHANGED <<refs, texts, mine, calls, subject>>

\* It fails when the stream is full or the message is larger than one of its
\* parts. Only rmw_publish then tries fragments, which need a reliable stream.
PrepareFails(t) ==
    /\ pc[t] = "prepare"
    /\ lock[Stream(t)] = Nobody
    /\ IF Role[Subject(t)] = "publisher" /\ Stream(t) = "reliable"
       THEN pc' = [pc EXCEPT ![t] = "fragments"] /\ UNCHANGED result
       ELSE Returns(t, "ERROR")
    /\ UNCHANGED <<refs, texts, mine, calls, subject, stream>>

\* uxr_prepare_output_stream_fragmented: flush_session runs the session until
\* there is room.
PrepareFragments(t) ==
    /\ pc[t] = "fragments"
    /\ Reserve(t)
    /\ UNCHANGED <<refs, texts, mine, calls, subject>>

\* flush_session has waited for session_timeout.
FlushTimeout(t) ==
    /\ pc[t] = "fragments"
    /\ Returns(t, "ERROR")
    /\ UNCHANGED <<refs, texts, mine, calls, subject, stream>>

\* Mutant: a message that cannot be serialised returns with the stream locked.
WriteKeepsLock(t, ok) ==
    /\ pc[t] = "write"
    /\ content' = [content EXCEPT ![mine[t]] = IF ok THEN "good" ELSE "bad"]
    /\ lock' = IF ok THEN [lock EXCEPT ![Stream(t)] = Nobody] ELSE lock
    /\ IF ok
       THEN /\ pc' = [pc EXCEPT ![t] = IF Stream(t) = "reliable" THEN "confirm" ELSE "flash"]
            /\ UNCHANGED result
       ELSE Returns(t, "ERROR")
    /\ UNCHANGED <<refs, texts, mine, calls, subject, queued, effort, received>>

\* cdr_serialize, which may fail, and UXR_UNLOCK_STREAM_ID
Write(t, ok) ==
    /\ pc[t] = "write"
    /\ content' = [content EXCEPT ![mine[t]] = IF ok THEN "good" ELSE "bad"]
    /\ lock' = [lock EXCEPT ![Stream(t)] = Nobody]
    /\ pc' = [pc EXCEPT ![t] = IF Stream(t) = "reliable" THEN "confirm" ELSE "flash"]
    /\ UNCHANGED <<refs, texts, mine, calls, subject, queued, effort, received, result>>

\* uxr_flash_output_streams: of the best-effort messages some arrive. Only
\* rmw_publish looks whether its message was serialised.
Flash(t, sent) ==
    /\ pc[t] = "flash"
    /\ lock["best_effort"] = Nobody
    /\ received' = [n \in Calls |-> IF n \in sent THEN content[n] ELSE received[n]]
    /\ effort' = {}
    /\ Returns(t, IF Role[Subject(t)] = "publisher" /\ content[mine[t]] = "bad"
                  THEN "ERROR" ELSE "OK")
    /\ UNCHANGED <<refs, texts, mine, calls, subject, lock, content, queued>>

\* Mutant: rmw_publish ignores the delivery, as the other two do.
ConfirmIgnored(t, delivered) ==
    /\ pc[t] = "confirm"
    /\ delivered => queued = {}
    /\ Returns(t, IF Role[Subject(t)] = "publisher" /\ content[mine[t]] = "bad"
                  THEN "ERROR" ELSE "OK")
    /\ UNCHANGED <<refs, texts, mine, calls, subject, stream>>

\* uxr_run_session_until_confirm_delivery: the stream is confirmed, or the
\* timeout elapses. Only rmw_publish looks at the outcome.
Confirm(t, delivered) ==
    /\ pc[t] = "confirm"
    /\ delivered => queued = {}
    /\ Returns(t, IF Role[Subject(t)] = "publisher"
                     /\ (content[mine[t]] = "bad" \/ ~ delivered)
                  THEN "ERROR" ELSE "OK")
    /\ UNCHANGED <<refs, texts, mine, calls, subject, stream>>

-----------------------------------------------------------------------------
\* The client library and the agent, while some thread runs the session.

Running == \E t \in Threads: pc[t] \in {"status", "fragments", "confirm", "flash"}

\* A message of the reliable stream arrives.
Transmit(n) ==
    /\ Running
    /\ lock["reliable"] = Nobody
    /\ n \in queued
    /\ received[n] = "none"
    /\ received' = [received EXCEPT ![n] = content[n]]
    /\ UNCHANGED <<refs, texts, pc, mine, calls, subject, lock, content, queued,
                   effort, result>>

\* So does its acknowledgement: the stream forgets the message.
Acknowledge(n) ==
    /\ Running
    /\ n \in queued
    /\ received[n] # "none"
    /\ queued' = queued \ {n}
    /\ UNCHANGED <<refs, texts, pc, mine, calls, subject, lock, content, effort,
                   received, result>>

ThreadStep(t) ==
    \/ MakeText(t)
    \/ BufferRequest(t)
    \/ \E r \in {"OK", "ERROR"}: Status(t, r)
    \/ Prepare(t)
    \/ PrepareFails(t)
    \/ PrepareFragments(t)
    \/ FlushTimeout(t)
    \/ \E ok \in BOOLEAN: Write(t, ok)
    \/ \E sent \in SUBSET effort: Flash(t, sent)
    \/ \E delivered \in BOOLEAN: Confirm(t, delivered)

Next ==
    \/ \E t \in Threads, e \in Senders: BeginSend(t, e)
    \/ \E t \in Threads, e \in Named: BeginCreation(t, e)
    \/ \E t \in Threads: ThreadStep(t)
    \/ \E n \in Calls: Transmit(n) \/ Acknowledge(n)

Spec == Init /\ [][Next]_vars

\* A thread in a call goes on: a lock is released after a bounded number of
\* steps, and each run of the session ends with its timeout.
Fairness == \A t \in Threads: WF_vars(ThreadStep(t))
FairSpec == Spec /\ Fairness

-----------------------------------------------------------------------------
\* Every variable stays in its domain, and a thread in a call has a number.
TypeOK ==
    /\ refs \in BOOLEAN
    /\ text \in [Buffers -> [of: SUBSET Named, cut: BOOLEAN]]
    /\ pc \in [Threads -> {"idle", "texts", "status", "prepare", "fragments",
                           "write", "confirm", "flash"}]
    /\ calls \in 0..MaxCalls
    /\ mine \in [Threads -> 0..calls]
    /\ step \in [Threads -> Nat]
    /\ alone \in [Threads -> BOOLEAN]
    /\ lock \in [Streams -> Threads \cup {Nobody}]
    /\ subject \in [Calls -> Senders \cup Named \cup {Nobody}]
    /\ content \in [Calls -> {"none", "blank", "good", "bad"}]
    /\ queued \subseteq 1..calls /\ effort \subseteq 1..calls
    /\ received \in [Calls -> {"none", "blank", "good", "bad"}]
    /\ carried \in [Calls -> [texts: SUBSET [of: SUBSET Named, cut: BOOLEAN],
                              alone: BOOLEAN]]
    /\ result \in [Calls -> {"none", "OK", "ERROR"}]
    /\ \A t \in Threads: pc[t] # "idle" =>
         /\ mine[t] # 0
         /\ Subject(t) \in IF pc[t] \in {"texts", "status"} THEN Named ELSE Senders

\* The agent never gets a message before it is written, although the session
\* is run by other threads between the reservation of its place in the stream
\* and the end of its serialisation.
NothingHalfWritten == \A n \in Calls: received[n] # "blank"

\* What success means: a reliable publication that returned RMW_RET_OK is with
\* the agent, well formed; so is a creation request. Of a reliable request or
\* response it means only that it is with the agent or still in the stream.
OkDelivered ==
    \A n \in Calls: result[n] = "OK" =>
        LET e == subject[n] IN
        /\ e \in Named => received[n] = "good"
        /\ e \in Senders /\ StreamOf[e] = "reliable" =>
             IF Role[e] = "publisher" THEN received[n] = "good"
             ELSE n \in queued \/ received[n] # "none"

\* The requests in which nobody looks for a cut text: with references the XML
\* of services and clients, without them the name of a node, and in either mode
\* the XML of the graph's topic and data reader.
SentThoughCut(e) ==
    \/ refs /\ KindOf[e] \in {"service", "client"}
    \/ ~ refs /\ KindOf[e] = "node"
    \/ KindOf[e] \in {"graph_topic", "graph_reader"}

\* A creation request names its entity and nothing else, and in full, although
\* threads write their texts into common buffers and nothing locks them. Two
\* cases are excepted, and the code is wrong in both: creations that overlap
\* and share a buffer may name each other's entity (no claim is made of them),
\* and the requests of SentThoughCut may be cut.
RequestNamesItsEntity ==
    \A n \in Calls: carried[n].alone => \A x \in carried[n].texts:
        /\ x.of = {subject[n]}
        /\ x.cut => SentThoughCut(subject[n])

\* No order of reservations, flashes and confirmations makes threads wait for
\* each other for ever: every call returns, delivered or not.
CallsReturn == \A t \in Threads: pc[t] # "idle" ~> pc[t] = "idle"
=============================================================================
