# Verification of rmw_microxrcedds

TLA+ modules, TLC configurations and TLAPS proofs about `rmw_microxrcedds_c`,
the ROS 2 middleware layer of micro-ROS on top of the Micro XRCE-DDS client.
Paths below are relative to `src/rmw_microxrcedds_c/src/` unless they say more.

Run everything in this directory:

    tlc -workers 2 -config InputBuffers.cfg MCInputBuffers
    tlapm InputBuffersProofs.tla

## 1. The system

The library has no thread of its own. Application threads call `rmw_*`
functions; some of these run an XRCE session, and the client library then calls
back into `callbacks.c` for each message that arrived. All memory is static:
each kind of object has a pool, and a creation fails when its pool is empty.

| Component | State | Operations | Interacts with |
|---|---|---|---|
| Memory pools (`memory.c`, `types.c`) | two doubly linked lists per pool (`freeitems`, `allocateditems`), a mutex, `is_dynamic_memory`/`is_dynamic_allowed` | `has_memory`, `get_memory`, `put_memory`, `RMW_INIT_MEMORY` | every other component; callbacks, `rmw_destroy_node` and the graph walk the lists without the mutex |
| Static input buffers and callbacks (`types.c`, `callbacks.c`, `rmw_take.c`, `rmw_request.c`, `rmw_response.c`) | `static_buffer_memory`: owner, kind, timestamp, bytes | `on_topic`, `on_request`, `on_reply`; the three takes; count, find, get and clean-expired | filled by session runs in any thread, read by takes and `rmw_wait`, dropped by `rmw_shutdown` |
| Nodes and entities (`rmw_node.c`, `rmw_publisher.c`, `rmw_subscription.c`, `rmw_service.c`, `rmw_client.c`, `rmw_microxrcedds_topic.c`) | pool items with `owner_node`, `topic`, object ids; the objects the agent created | create and destroy of each kind, the cascade of `rmw_destroy_node` | pools, session runs (each request may be lost or time out) |
| Session runs (`utils.c`) | streams of the client library | `run_xrce_session` | agent |
| Waiting (`rmw_wait.c`, `rmw_guard_condition.c`, `rmw_trigger_guard_condition.c`, `rmw_wait_set.c`) | `rmw_uxrce_wait_mutex`, `need_to_be_ran`, `hasTriggered` | `rmw_wait`, trigger, create, destroy | input buffers, sessions |
| Contexts (`rmw_init.c`, `rmw_uxrce_transports.c`) | session slots, stream buffers, id counters | options, `rmw_init`, `rmw_shutdown`, `rmw_context_fini` | initialises every pool; finalises the nodes of its context |
| Publishing, requests, replies (`rmw_publish.c`, `rmw_request.c`, `rmw_response.c`) | the output streams of a session and their locks | publish, send request, send response | session runs; shares the reliable stream with creations |
| Time (`rmw_microros/time_sync.c`) | session time offset | sync, epoch readers | stamps of input buffers |
| Settings (`rmw_microros/timing.c`, `init_options.c`, `continous_serialization.c`, `error_handling.c`) | timeouts, transport parameters, callbacks | setters | read by the components above |
| Ping and discovery (`rmw_microros/ping.c`, `discovery.c`) | none | transport I/O | contexts |
| Graph cache (`rmw_graph.c`, `rmw_count.c`, `rmw_node_names.c`, `rmw_get_topic_endpoint_info.c`, `rmw_*_names_and_types.c`) | the bytes of the last graph message, its length, `initialized`, `has_changed` | `rmw_graph_init`, the queries | `on_topic` replaces it while queries read it |
| Builders (`utils.c`) | static buffers for the texts, shared by all threads | names, profiles and XML text | creations |

What is hard here:

* **Concurrency.** A pool has a mutex, but lists are walked without it, and the
  fields of an item are cleared after the item was given back. Several threads
  may run sessions and therefore callbacks.
* **Failure.** Every creation and destruction is a sequence of requests, each of
  which may be lost, answered late or not at all. What was taken must come back.
* **Order and time.** Input buffers are not a queue: the pool is a list with the
  newest first, order is by timestamp, and timestamps come from a clock that a
  call can move.
* **Bounds.** Buffers, slots, topics and the places of a stream run out; a full
  history replaces; a text may be longer than its buffer.
* **Identity.** An entity is the address of its pool item and an id that a
  context counts up. Both are reused.

What makes each component correct:

* pools: both lists stay acyclic, doubly linked and complete, whatever order of
  gets and puts; a walk sees each allocated item once and no free one;
* buffers: per entity a bounded queue in arrival order, with exact expiry; no
  entity pays for the messages of another;
* entities: slots and topics are neither lost nor shared whatever times out;
  nothing outlives its node; success means what it says about the agent;
* waiting: a trigger is reported exactly once, a wait comes back, what it
  reports is there;
* contexts: sessions do not mix, and a failed initialisation leaves nothing;
* sending: the agent gets whole messages, success means delivery where the code
  looks at it, a request names the entity it was made for, and every call returns;
* graph: what a query answers is all of one graph, the last one.

## 2. Modules

### MemPool, PoolLists, MemPoolProofs, ListLemmas

`MemPool` is `memory.c` pointer by pointer: `next` and `prev` are the links of
`rmw_uxrce_mempool_item_t`, `freeitems` and `allocateditems` the heads in
`rmw_uxrce_mempool_t`, and each call is one step because it holds the mutex
from its first line to its last. The exception is part of the model: `put_memory` of a
dynamic item returns without releasing the mutex, and `keeper` is the thread
that has it (`PutDynamic`). `WalkStart` and `WalkStep` are the loops of the
callbacks, which follow `next` without the mutex. An item of the static array is
embedded in its element (`mem`); for an element of the heap `get_memory`
allocates the item apart, and the `mem` in the element is all zero (`MemOf`,
`WithoutData`). Wait sets, guard conditions and init options are put back by the
item, all others by the embedded `mem`: `embedded` chooses which kind of pool
the module is, and `ItemPut` is what `put_memory` gets. Only an element that a
caller got is put back (`held`, `MayPut`); whether callers keep to that is the
subject of `EntityLifecycle`. `where`, `place` and `pending` record what the lists ought to
be: no guard about pointers reads them. `PoolLists` is the abstract promise: two
sequences, and items move between their heads, or out of the middle of the
allocated one. `ImplementsLists` maps each head to what a walk along `next` from
it finds (`Chain`). `ListLemmas` has the facts about naturals and sequences that
the proofs of several modules use.

### InputBuffers, EntityQueues, InputBuffersProofs

In `InputBuffers` the allocated list is the set `inUse` ordered by `place`
(`MemPool` has the pointers). There is one action for each callback and two for
a take, one for each time it locks the pool: the sweep of the expired buffers
(`TakeSweep`), and the search with the removal (`TakeNothing`, `TakeOldest`).
Between the two, other threads, the callbacks and the clock move. A message is
the number of its arrival, which no guard of a callback or a take reads.
`on_request` and `on_reply` are `on_topic` for another kind of entity. A message
that cannot be copied out of the stream gives its buffer back (`PutBack`), one
that cannot be decoded is consumed all the same (`TakeOldest` with `delivered`
FALSE). `Wrap` keeps `timestamp + lifespan` to the width of `int64_t`.

`EntityQueues` is the abstract specification: for each entity a FIFO queue
bounded by its depth, whose elements may expire, over a shared number of
buffers. `ImplementsQueues` maps the buffers of an entity, in the order of their
timestamps (`OrderOf`), to its queue; `lastTaken` and the clock are the same in
both.

### EntityLifecycle, Catalog, EntityLifecycleProofs

A step of `EntityLifecycle` is one session run with the code up to the next
one, because between two runs a call touches only its own item and the pools.
`CreateOrder` and `DestroyOrder` are the requests of each call in their order.
`Outcomes` is what `run_xrce_session` can bring: on a reliable stream the
request is carried out or not and, if it is, the answer may be lost; on a
best-effort stream (timeout 0) the call always goes on. `agent` is what the
agent holds, `left` is what it still held when the memory was given back.
`CreateFailsEarly` is every return before the first request; `EarlyFailures`
says whether it may happen in an item that was used before (section 5).
`DestroyRequest` gives the topic back after the first or second request, as
`destroy_topic` does, and `DestroyLast` gives the item back whatever the answer
is and, in `rmw_destroy_node`, goes on with what follows.

The module takes a pool operation as atomic and the list of the pools as a set;
`MemPool` justifies both. It assumes that no other thread uses the pools while
a node is destroyed: `rmw_destroy_node` keeps a `next` pointer over session runs
(`rmw_node.c:170`), and run `pool_walk` shows what happens to a walk then.

`Catalog` is the abstract specification: things appear on a live node and
disappear one at a time, a node only after its entities. `ImplementsCatalog`
maps "allocated and not being created" to it.

### Wait, WaitProofs

`Wait` has the program counter of each thread in `rmw_wait`: `LockNothing` or
`Lock`, `ClearFlags`, `MarkSessions`, one step per session (`SkipSession`,
`RunUntilData`, `RunUntilTimeout` or `Spin`), `Unlock`, one step per entry that
is checked, `Return`. A guard condition takes two steps, because the code reads
`hasTriggered` and resets it without a mutex (`ReadGuard`, `ResetGuard`). The
input buffers are the set `buffered` of entities with a message (module
`InputBuffers` has the rest), and the expiry sweep may drop any of them. Around
the waits other calls run sessions (`RunElsewhere`), take, and create, destroy
and trigger guard conditions. `unseen` and `fired` remember the triggers for
the properties.

### RmwContext, RmwContextProofs

`RmwContext` is `rmw_init`, `rmw_shutdown` and `rmw_context_fini` as phases of
each context, with the failures of the transport, of the session and of the
graph, and the way of a message from a session to a subscription: `on_topic`
takes the first item of the allocated list with the identifier of the message,
whatever session it came from (`OnTopic`). `readerId` outlives the subscription
in its pool item, and `nextId` starts again with each session. A message names
the subscription it was sent to (`for`), which no guard reads. Of the creation
of a subscription the module keeps what decides the routing: the item is
allocated, then its data reader gets its number.

### Naming, Outgoing, OutgoingProofs

`Naming` has the texts of a creation request: which shared buffers they are
written into, how long they are (the characters that are neither name nor type
are counted from the formats), whether the code sees that one is cut, and which
texts it copies into others (a local array is a call without a shared buffer), in the default mode, with `RMW_UXRCE_USE_REFS` and
for the entities of `rmw_graph_init`. `Outgoing` has the calls of several threads
over the streams of one session: a creation writes its texts one step each
(`MakeText`), buffers its request (`BufferRequest`) and waits for its status; a
message is reserved under the lock of its stream (`Prepare`, for a publisher
`PrepareFragments` when that fails), serialised (`Write`, which may fail), and
flashed or confirmed. While any thread runs the session, `Transmit` and
`Acknowledge` are the client library and the agent: an acknowledgement may come
late or never. `content` and `received` tell a reserved place (`blank`) from a
whole and a failed message; `alone` remembers whether another creation could
write into the same buffers.

### Graph, GraphProofs (and ListLemmas)

`Graph` is the cached graph of a context (`RMW_UXRCE_GRAPH`): `rmw_graph_init`,
the copy of a message in `on_topic` in its order (the length, the bytes in two
halves, the flags; the copy may fail at either half, and the flags are set all
the same), and the query functions, which read length and bytes
without a lock and then look through the nodes. The memory is the one an
earlier context left (`Init`, `GraphInit`). The queries are operators on a graph,
each as its loop does it: count, matched, endpoints, topic and service names,
names by node, node names. Bytes of several graphs give an error or any answer. `latest` is the graph of
the last message, or `Broken` when its copy failed; no guard of the code's steps
reads it.

## 3. Runs

Every passing run is exhaustive for its instance. Each property has a mutant in
`PROJECT.json`: a plausible bug in one definition, under which the same run
finds the property violated. The mutated forms are next to the definitions, marked
"Mutant".

| Run | Instance | What it shows |
|---|---|---|
| `buffers` | a subscription (keep last 2, lifespan 1), a service (keep all), a client (keep last 1, lifespan 2), 2 buffers, 2 threads, 3 arrivals, clock to 2 | `DepthRespected`, `ArrivalOrder`, `NothingExpiredToTake`, `TakesInOrder`, `ArrivalsIsolated`, and `InputBuffers` implements `EntityQueues` while the clock advances between arrivals |
| `pool` | 3 static and 2 dynamic items, 2 threads, 12 pushes | for elements put back by the item and by their `mem`, the lists stay well formed and implement `PoolLists`; memory of the heap is accounted for (`HeapAccounted`); walks stay on allocated items and miss none while nothing is put back |
| `lifecycle` | 2 nodes, a publisher, a subscription, a client, 2 topics, 2 threads, reliable streams | no topic is lost or shared (`TopicsHeld`, `TopicsSuffice`, `PutsAllocatedTopics`), nothing outlives its node, what a call returns agrees with the agent (`LiveOnAgent`, `OkMeansDeleted`), and the module implements `Catalog` |
| `wait` | 2 threads, a wait each (all entities without timeout, one with it, the guard condition only, nothing), 3 sessions, a guard condition that comes and goes, fairness | the flags are those of the wait that runs sessions (`RunsItsSessions`); no trigger is lost or invented; waits return when they must (`WaitsReturn`, `DataEndsWait`, `GuardWaitReturns`) |
| `context` | 2 contexts, 2 sessions, 2 subscription items, 2 numbers per session | slots and transports are those of the contexts; nothing is left on a session given back; data of a session goes where it was sent |
| `outgoing` | 2 threads, 2 calls, 2 publishers, a client, a service, 6 creations (a node, two topics, a service, a client, the graph's topic) with the default buffer sizes, a stream with room for one message, both creation modes, fairness | nothing leaves half written (`NothingHalfWritten`), success means delivery (`OkDelivered`), a request names its entity (`RequestNamesItsEntity`, with the exceptions in section 6), every call returns (`CallsReturn`) |
| `graph` | 4 graphs (empty, one node, two nodes of one name, a string longer than `temp_string`), a thread that asks any of 12 queries, a thread that runs the session, contexts that come and go | before the first message of a context nothing is read (`FirstMessageDone`), and after a message that was copied whole, what no message overlaps is answered completely from it (`AnswersFromOneGraph`) |
| `buffers_ties`, `pool_walk`, `pool_grow`, `lifecycle_early`, `context_stale` | small | violations, section 5 |

Bounds. Two buffers are enough for an exhausted pool, a full history and a
neighbour to meet when the depths are 1 and 2; the entities of `buffers` are one
of each kind, with and without a depth, with lifespans given and by default.
`MaxArrivals` and `MaxTime` bound the messages and the clock, and are the only
bounds in guards there: three messages are one more than the buffers, and with
two ticks the stamps 0 to 2 let a message expire while another one waits. `MemPool` has
three static items because an inner item of a doubly linked list has two
neighbours and `put_memory` has its own cases for the head, the tail and a single
item; `MaxOps` bounds the pushes. `EntityLifecycle` is finite as it stands;
services differ from clients only in their turn in `rmw_destroy_node`, and
best-effort streams in `Outcomes`, both of which the proofs cover. `MaxWaits`
bounds the waits of a thread: with two threads a wait finds the flags of the
other one, and queues behind it, from the first wait on; one guard condition is
enough because the wait checks each on its own. `MaxIds`, `MaxSent` and `MaxBuffers` bound the numbers
of a session, the messages on their way and the buffers of `RmwContext`: two
numbers let an item be used twice in one session. `MaxCalls` bounds the calls of
`Outgoing`: two of them overlap in every order, and with room for one message in
the reliable stream either can find it full. `Graph` is finite as it stands; one
thread asks because those that ask share nothing but the graph, which they only
read; `UndisturbedAnswers` is proved for any number of them. Symmetry is used only over pool
slots, threads, contexts and sessions that the instance does not tell apart, and
in no run with liveness.

`CHECK_DEADLOCK FALSE` is in the runs whose bounds stop the system: no more
arrivals or ticks, no more waits, or a pool that nobody can use any more.

Fairness. `wait` assumes weak fairness of the wait steps of each thread, and
`outgoing` of the steps of each thread inside a call (`FairSpec` in both): a
thread that can go on does, since nothing in the code blocks it but a mutex or
the lock of a stream, and a run of the session, which ends when its timeout
elapses or its condition holds. Nothing is assumed of the agent, the transport or
other calls, nor that a call begins. Weak fairness is enough for the mutex because a thread waits a
bounded number of times (`MaxWaits`), so the mutex is free for good at some
point; with unbounded waits the code would depend on a fair mutex.
`WaitsReturn` says so of waits with a timeout or without an entity, and excepts
those behind a wait that may block for ever. `DataEndsWait` asks for data in
each session of the wait set, because the code runs them one after the other
without a timeout. `CallsReturn` needs no more, because the lock of a stream is
held from the reservation to the end of the serialisation only.

## 4. Proofs

Each theorem is about the specification of its module, for every value of the
constants that its named assumption allows (`InputAssumption`, `PoolAssumption`,
`LifecycleAssumption`, `WaitAssumption`, `ContextAssumption`, `NamingAssumption`,
`OutgoingAssumption`, `GraphAssumption`; TLC evaluates them in the runs).

* `InputBuffersProofs`. `TypeCorrect` has `TypeOK`, which says in addition that
  messages and deliveries are among the arrived; it is inductive, since the
  scan finds a buffer of its entity (`OldestIsOwned`, from `LeastNatural`).
  `DepthBound` proves `DepthRespected`: a callback takes a new buffer only below
  the depth, and everything else gives buffers back (`FewerBuffers`).
  `OrderKept` proves `ArrivalOrder`, which is inductive with `TypeOK`: an arrival
  is the latest message with the latest stamp (`StoreKeepsOrder`), and the
  buffer a take removes is the oldest by arrival (`TakeKeepsOrder`).
  `DeliveriesInOrder` (`TakesInOrder`) follows from it. `SweepHolds` proves
  `NothingExpiredToTake`, and `ArrivalsAreIsolated` the action property
  `ArrivalsIsolated`, from the buffer each arrival writes (free, or its own
  entity's oldest), for any clock.
  `QueuesImplemented` (`ImplementsQueues`) is the refinement. It assumes
  `DistinctStamps` (else `buffers_ties`) and `NoOverflow`: the bound on the clock
  plus any lifespan fits into the integer. A finite set with different keys has
  exactly one list in their order (`SortedExists`, `SortedIsOrder`), which is the
  choice that `OrderOf` makes; `ArrivalOrder` gives the different keys. An arrival
  appends to the list (`QueueGains`), the buffer that the scan finds is its head
  (`QueueHead`), a sweep cuts a prefix, since a buffer with a later stamp expires
  later (`SweptQueue`), and a list cannot grow exactly when the history forbids it
  (`FullOrGrow`) or the pool is empty (`RoomLeft`, from a bijection between the
  places in all queues and the buffers in use). Each action then is one action
  of `EntityQueues` or invisible.
* `MemPoolProofs`. `ListsWellFormed` proves `WellFormed`, which is inductive with
  `TypeOK`: it is stated with `place`, the time of the last push, so that the
  absence of cycles is an order and needs no induction along the list. There is
  one lemma per operation; `Unlinked` is what both forms of `put_memory` share.
  `WalksStayAllocated` and `WalksMissNothing` assume `~ PutDuringWalk`: what was
  allocated before the walk began has a smaller `place` than the item it stands
  on. `HeapIsAccounted` (`HeapAccounted`) needs the well-formed lists, and is
  inductive with them and `TypeOK` (`PoolInv`, proved in `PoolInvariant`; `PutsAccounted` is the
  step of a put).
  `ListsImplemented` (`ImplementsLists`) is the refinement, for any finite number
  of items. `Chain` is a recursive function; that it has a value is shown along
  the least number of steps without one (`WalksExist`), and that it finds the
  items of a list in their order along the least number of steps that miss some. Then
  each call is one move: `get_memory` takes the head, and unlinking an item is
  removing it from the sequence.
* `EntityLifecycleProofs`. `NodesOutlive` (`NodeOutlivesEntities`) needs that
  calls are apart and at a request of their sequence (`CallsInv`): only
  `rmw_destroy_node` destroys a node, alone and last. `TopicsAreHeld`,
  `TopicsAreEnough` and `PutsAreAllocated` assume `~ EarlyFailures` and rest on
  `TopicsInv`: the holders of a topic are the entities before their request to
  delete it, their topics are different ones, and the allocated topics are
  exactly these; `TopicsSuffice` is then a count along an injection.
  `LiveAreOnAgent` (`LiveOnAgent`) and `OkIsDeleted` (`OkMeansDeleted`) rest on
  `AgentInv`: a creation at its k-th request has its first k - 1 objects on the
  agent, an entity nobody works on all of them, and a destruction that counts no
  failure so far none of those it asked to delete. `CatalogImplemented`
  (`ImplementsCatalog`) is the refinement for every value of the constants: only
  three steps change what is allocated and not being created, and that no node
  goes before its entities is `NodeOutlivesEntities`.
* `WaitProofs`. `FlagsProtected` proves `RunsItsSessions` from `MutexHeld`: the
  threads between `Lock` and `Unlock` hold the mutex, and between `ClearFlags` and
  `MarkSessions` no flag is set. `TriggersKept` proves `NoLostTrigger`, inductive
  with `TypeOK`. `TriggersReal` (`NoFalseTrigger`) needs `ArgumentsInv`: what a
  wait still has to check is among its arguments, which exist, so no slot in a
  wait set is created anew.
* `OutgoingProofs`. `OutgoingTypeCorrect` has `TypeOK`, for which the texts of
  every kind are shown to have buffers of the module (`TextsOrdered`,
  `CallsInBuffers`). `NeverHalfWritten` (`NothingHalfWritten`) and `OkIsDelivered`
  (`OkDelivered`) come from one inductive invariant, `SendInv`: a thread's call is
  its own and the last with its number (`OwnCalls`, `NoneAhead`), a blank place
  belongs to the thread that holds the lock of its stream (`BlankHasWriter`), each
  call is in the stream of its entity and as far as its thread (`RightStream`,
  `Progress`), and what the agent has is what was written (`AsWritten`).
  `RequestsNameTheirEntity` (`RequestNamesItsEntity`) comes from `NamesInv`: the
  buffers a creation has written so far, and nobody else may write, hold its own
  names, cut only where it does not look (`AloneNames`); that creations of
  different kinds have different buffers is `BuffersApart`.
* `RmwContextProofs`. `SessionsAreHeld` (`SessionsHeld`) strengthens it by what
  each phase of a context has (`SessionInv`). `SubscriptionsAreOnSessions`
  (`SubscriptionsOnSession`) rests on it: `FiniSession` waits until none is left on
  the session, and giving an item back brings none in (`RemovedOne`).
  `ContextTypes` (`TypeOK`) and `CreatedAreRouted` (`RoutedAmongCreated`) add
  `RoutedInv`: each slot is in one list, once (`SlotsInv`), so that an item that
  was given back is nowhere allocated; the created subscriptions of a session
  have different numbers below `nextId` (`NumbersInv`); and a message on its way is on
  a session that is served, with a number that was given, which no created
  subscription of the session has but the one it is for (`SentInv`). Numbers are
  naturals there: their width is a hazard of its own in `PROJECT.json`.
* `GraphProofs`. `GraphTypeCorrect` (`TypeOK`), `FirstMessageIsDone`
  (`FirstMessageDone`) and `UndisturbedAnswers` come from one inductive invariant,
  `GraphInv`: the halves of the buffer are those of the message that was copied
  so far (`BufferInv`), `initialized` says that a message of this context has been dealt with
  (`SetupInv`), and a query that no message overlapped, after one copied whole,
  has read that one so far (`QueryInv`). `UndisturbedAnswers` is what this gives: such a query is
  answered `Answer(query, graph)` of that graph, for any number of threads.
  `AnswersPromised` (`AnswersFromOneGraph`) adds what `Answer` is for a graph of
  any size. Each loop is a fold, and `FoldExists` and `FoldAlong` show where its
  steps lead to (`EntriesFold`, `ThoseFold`, `NamesFold`). Along these steps a
  list is matched with the places of the graph it stands for, each of them once
  (`Counts`, `Lists`): all entities (`EntriesCounted`), and those a loop stops at
  (`LoopCounted`). So counts and lists of endpoints are complete and have nothing
  twice (`CountPromised`, `EndpointsPromised`, `NodePromised`), and each name of a
  topic or service is there once (`NamesOnce`, `NamesPromised`). The theorem
  assumes of a graph what its message type says (`GraphAssumption`): a sequence
  of nodes with sequences of entities, each of which has a type.
* `ListLemmas` has what several of these need and is not about this code: least
  and last numbers, counting by a bijection with `1..n`, sequences without one
  of their items, and the folds of the community modules. Induction is over sets
  of numbers there (`AllNumbers`), which needs no operator as a parameter.

Every safety property that the runs check is proved. Left to TLC are liveness and ENABLED, which no backend handles
(`WaitsReturn`, `DataEndsWait`, `GuardWaitReturns`, `CallsReturn`).

## 5. What the runs that fail show

* `buffers_ties` (`types.c:286`). Of two buffers with equal timestamps the scan
  returns the one nearer to the head of the list, which is the later one. When
  two messages arrive within one reading of the clock they are delivered in
  the wrong order: in the trace they are for a keep-last subscription
  (`OnTopic` twice, then two takes). All order properties therefore assume `DistinctStamps`.
* `pool_walk` (`callbacks.c:109`). A walk without the mutex stands on an item
  that another thread puts back, and goes on along the free list.
* `pool_grow` (`memory.c:97`). `put_memory` of a dynamic item keeps the mutex.
  Callers that put back the item get there: wait sets, guard conditions and init
  options. With those that put back the embedded `mem` something else is wrong,
  which no run singles out because `HeapAccounted` states it: the item of the
  heap stays allocated for good, and a `mem` without data enters the free list, so
  that a later creation gets an element at address NULL.
* `lifecycle_early` (`rmw_publisher.c:219`). A creation that fails before
  `create_topic` gives back the topic that the item's last entity left in
  `custom_publisher->topic`. After that the free list may be a cycle, so the
  module stops there, and its other runs and proofs assume that no creation
  fails early in a used item (`EarlyFailures` is FALSE).
* `context_stale` (`callbacks.c:68`). While a subscription is created, its item
  has the `datareader_id` of the last subscription in it, and gets data of another
  subscription. `RoutedAmongCreated` excepts such items, and data of other
  sessions, since `on_topic` ignores the session as well.

## 6. Assumptions and what is not modelled

* The application does not overlap two calls on the same entity, nor the
  destruction of a node with any other call on its entities, nor `rmw_init`,
  `rmw_shutdown` and `rmw_context_fini` with each other (`MayBegin`; the comment
  in `rmw_wait.c:37` assumes the like for `rmw_wait`). It does not destroy a
  guard condition that a thread waits with.
* An entity of `InputBuffers` exists from the beginning to the end. Buffers that
  a destroyed entity leaves behind, and that the next one in its item finds, are
  a hazard without a property yet.
* `MAX_TOPICS`: `README.md:43` of the repository gives the default as the sum of publishers,
  subscriptions and nodes; `config.h.in:65` uses publishers and subscriptions.
  The model follows the code; `TopicsSuffice` shows that the sum of the two is
  enough.
* The sizes of messages are choices: one fits into the stream or does not. The
  lengths of names are constants of `Naming`. `README.md:46` of the repository
  gives 60 as the maximum for the name of a node or topic; the buffers have 60
  bytes with the terminator, and the prefix and suffix of topics and services
  take theirs from it, so a topic may have 57 characters and a service 50.
* `Outgoing` has the reliable creation stream, the default; with a creation
  timeout of 0 requests go out best-effort and nobody waits (`Outcomes` in
  `EntityLifecycle`). `OkDelivered` says nothing of best-effort messages.
  `RequestNamesItsEntity` has two exceptions, in both of which the code does
  the wrong thing and no text of the repository says otherwise, so that neither
  would be caught: creations that overlap and share a buffer, whose requests may
  name each other's entity, and the requests of `SentThoughCut`, which are sent
  although a text is cut: with references the XML of services and clients,
  without them the name of a node, in both modes the XML of the graph's topic
  and data reader. With the default buffer of 100 characters every such XML is
  cut, in the run too.
* `Outgoing` runs `flush_session` only before the reservation of a fragmented
  message; the client library also calls it while such a message is serialised,
  with the stream locked. `CallsReturn` is checked for a bounded number of calls
  (`MaxCalls`): that a call returns while others keep coming without end is not
  shown.
* `EntityLifecycle`: with references `create_node` returns without giving its
  item back when the naming buffer is shorter than `participant_profile`
  (`rmw_node.c:77`-`83`). The module has no such leak, the default buffer is
  longer.
* `RmwContext`: `FiniSession` gives the slot back and closes the transport in one
  step (`rmw_init.c:377`-`379`), and what is on its way then is lost with the session. With contexts that start
  and stop one at a time nobody can tell the difference.
* `MemPool`: `rmw_allocate` does not fail, and what a caller does with an
  element at address NULL is undefined; its item stays allocated.
* `Graph` follows the evident meaning of two places that do not compile as they
  stand (`rmw_node_info_and_types.c:138`: no comma after the format;
  `.capacity` is not a member of the string array). A failing allocation is left
  out, and an entity of a graph is assumed to have a type (`GraphAssumption`).
  `has_changed` is never reset and the graph guard condition points to it
  (`rmw_node.c:256`), which `rmw_wait` takes for another type: neither is modelled
  beyond the flag. Names of nodes are cut to one character less than there are
  nodes (`rmw_node_names.c:86`), which `NodeNames` has; `AnswersFromOneGraph`
  promises names in full only when they are shorter than the number of nodes.
  What a query answers after a failed copy, or while a message is copied, is left
  open, as is a first message whose copy failed (`FirstMessageDone`).
* `SyncSession` moves the clock back only with `Resync`; the runs leave it off,
  and `ArrivalsAreIsolated` and `DepthBound` are proved for both.
* `timestamp + lifespan` overflows for `RMW_DURATION_INFINITE`; the runs keep
  `IntMax` above every sum, because no text of the repository says what an
  infinite lifespan is to do.
* Not modelled: `PROJECT.json` lists each component with the reason.

## 7. Plan

Done: `MemPool`, `InputBuffers`, `EntityLifecycle` with their abstract
specifications and proofs; `Wait`, `RmwContext`, `Outgoing` and `Graph` with
proofs. What is left, in the order of what it would show:

1. Creation and destruction of entities in `InputBuffers`, with the buffers they
   leave behind, and the refinement for those that are never reused.
2. `FiniRace`: the fields that `rmw_uxrce_fini_*_memory` and `rmw_shutdown` write
   after the item was given back, step by step.
3. `WaitTimeout`: the division of the timeout in `rmw_wait` and the conversion
   of `rmw_time_t` in `utils.c`, on integers of their width.
4. Initialisation options, `rmw_take_sequence` and the sample identities of
   requests and replies.
