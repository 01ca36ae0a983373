------------------------------- MODULE MemPool -------------------------------
(***************************************************************************)
(* A memory pool of memory.c: two doubly linked lists of items, freeitems  *)
(* and allocateditems, under the recursive mutex of the pool.  get_memory  *)
(* and put_memory hold the mutex from their first to their last line, so   *)
(* each is one step, made of the pointer assignments of the code.  The     *)
(* callbacks walk allocateditems without the mutex: one step per item.     *)
(*                                                                         *)
(* An item of the static array is embedded in its element.  For an element *)
(* from the heap get_memory allocates an item apart; the one embedded in   *)
(* the element is all zero: it is not dynamic, and its data is NULL.       *)
(***************************************************************************)
EXTENDS Naturals, Sequences, FiniteSets

CONSTANTS
    Items,          \* addresses an item of the pool may have
    StaticItems,    \* those of the static array
    HeapItems,      \* those that get_memory allocates
    MemOf,          \* MemOf[d]: the mem embedded in the element of d
    Threads,
    NULL,
    DynamicAllowed, \* RMW_UXRCE_ALLOW_DYNAMIC_ALLOCATIONS, is_dynamic_allowed
    PutDuringWalk,  \* TRUE: entities may be destroyed while a callback walks
    MaxOps          \* bound on the pushes

ASSUME PoolAssumption ==
    /\ StaticItems \subseteq Items /\ HeapItems \subseteq Items
    /\ StaticItems \cap HeapItems = {}
    /\ MemOf \in [HeapItems -> Items \ (StaticItems \cup HeapItems)]
    /\ \A d, e \in HeapItems: MemOf[d] = MemOf[e] => d = e
    /\ NULL \notin Items
    /\ IsFiniteSet(Items)
    /\ DynamicAllowed \in BOOLEAN /\ PutDuringWalk \in BOOLEAN
    /\ MaxOps \in Nat

VARIABLES
    next, prev,         \* item->next, item->prev
    freeitems,          \* head of the free list
    allocateditems,     \* head of the allocated list
    dynamic,            \* items with is_dynamic_memory
    embedded,           \* elements are put back by their mem, as nodes,
                        \* topics, publishers, subscriptions, services, clients
                        \* and sessions are; not by the item that was handed
                        \* out, as the others are
    held,               \* items whose element the caller of get_memory has
    keeper,             \* the thread that returned from put_memory with the
                        \* mutex still locked, NULL when there is none
    where,              \* where[i]: "free" or "allocated", the list i is in;
                        \* "outside": not initialised yet, or not allocated
    place,              \* place[i]: when i was last pushed on a list
    ops,                \* number of pushes
    cursor,             \* cursor[t]: the item the walk of t is at, or NULL
    pending             \* pending[t]: items allocated when the walk began
                        \* that it did not reach yet

links == <<next, prev, freeitems, allocateditems>>
walks == <<cursor, pending>>
vars == <<next, prev, freeitems, allocateditems, dynamic, embedded, held, keeper,
          where, place, ops, cursor, pending>>

\* Items whose data is NULL.
WithoutData == {MemOf[d]: d \in HeapItems}

Allocated == {i \in Items: where[i] = "allocated"}
Walking(t) == cursor[t] # NULL

\* UXR_LOCK(&mem->mutex): the mutex is recursive.
MayLock(t) == keeper \in {NULL, t}

Init ==
    /\ next = [i \in Items |-> NULL]
    /\ prev = [i \in Items |-> NULL]
    /\ freeitems = NULL /\ allocateditems = NULL
    /\ dynamic = {} /\ held = {}
    /\ embedded \in BOOLEAN
    /\ keeper = NULL
    /\ where = [i \in Items |-> "outside"]
    /\ place = [i \in Items |-> 0]
    /\ ops = 0
    /\ cursor = [t \in Threads |-> NULL]
    /\ pending = [t \in Threads |-> {}]

Initialised == \A i \in StaticItems: where[i] # "outside"

-----------------------------------------------------------------------------
\* The pointer assignments, on the pointer functions n (next) and p (prev).

\* Mutants: a neighbour keeps its pointer to the item put back.
NextKept(i) == next
PrevKept(i) == prev

\* Mutant: the rest of the list is cut off.
NextCut(i) ==
    IF prev[i] # NULL THEN [next EXCEPT ![prev[i]] = NULL] ELSE next

\* item->prev->next = item->next; item->next->prev = item->prev
NextWithout(i) ==
    IF prev[i] # NULL THEN [next EXCEPT ![prev[i]] = next[i]] ELSE next
PrevWithout(i) ==
    IF next[i] # NULL THEN [prev EXCEPT ![next[i]] = prev[i]] ELSE prev

\* item->next = head; head->prev = item; item->prev = NULL
PushNext(n, i, head) == [n EXCEPT ![i] = head]
PushPrev(p, i, head) ==
    [j \in Items |-> IF j = i THEN NULL ELSE IF j = head THEN i ELSE p[j]]

Pushed(i, list) ==
    /\ ops < MaxOps
    /\ where' = [where EXCEPT ![i] = list]
    /\ place' = [place EXCEPT ![i] = ops + 1]
    /\ ops' = ops + 1

\* Mutant: the static items are marked as dynamic ones.
InitDynamic(i) ==
    /\ i \in StaticItems /\ where[i] = "outside"
    /\ next' = PushNext(next, i, freeitems)
    /\ prev' = PushPrev(prev, i, freeitems)
    /\ freeitems' = i
    /\ dynamic' = dynamic \cup {i}
    /\ Pushed(i, "free")
    /\ UNCHANGED <<allocateditems, embedded, held, keeper, walks>>

\* put_memory of an item that is in no list, by RMW_INIT_MEMORY.
InitItem(i) ==
    /\ i \in StaticItems /\ where[i] = "outside"
    /\ next' = PushNext(next, i, freeitems)
    /\ prev' = PushPrev(prev, i, freeitems)
    /\ freeitems' = i
    /\ Pushed(i, "free")
    /\ UNCHANGED <<allocateditems, dynamic, embedded, held, keeper, walks>>

\* get_memory with a free item: from the head of one list to the head of the
\* other.  What its caller does with data that is NULL is undefined; here the
\* item stays where it is.
GetStatic(t) ==
    LET i == freeitems
        second == next[i]
        unlinked == [j \in Items |-> IF j = second THEN NULL ELSE prev[j]]
    IN  /\ Initialised /\ MayLock(t) /\ ~ Walking(t)
        /\ i # NULL
        /\ freeitems' = second
        /\ next' = PushNext(next, i, allocateditems)
        /\ prev' = PushPrev(unlinked, i, allocateditems)
        /\ allocateditems' = i
        /\ Pushed(i, "allocated")
        /\ held' = held \cup ({i} \ WithoutData)
        /\ UNCHANGED <<dynamic, embedded, keeper, walks>>

\* get_memory without one: an item is allocated, put in the empty free list
\* and taken from it.
GetDynamic(t) ==
    /\ Initialised /\ MayLock(t) /\ ~ Walking(t)
    /\ freeitems = NULL
    /\ DynamicAllowed
    /\ \E i \in HeapItems:
         /\ where[i] = "outside"
         /\ next' = PushNext(next, i, allocateditems)
         /\ prev' = PushPrev(prev, i, allocateditems)
         /\ allocateditems' = i
         /\ dynamic' = dynamic \cup {i}
         /\ held' = held \cup {i}
         /\ Pushed(i, "allocated")
    /\ UNCHANGED <<freeitems, embedded, keeper, walks>>

\* The item that put_memory is called with for the element of i.
ItemPut(i) == IF embedded /\ i \in HeapItems THEN MemOf[i] ELSE i

\* Entities are destroyed by threads that are in no callback.
MayPut(t, i) ==
    /\ Initialised /\ MayLock(t) /\ ~ Walking(t)
    /\ i \in held
    /\ PutDuringWalk \/ \A u \in Threads: ~ Walking(u)

\* put_memory of an item that is not dynamic: one of the static array, or the
\* mem of an element from the heap, which was in no list before.
PutStatic(t, i) ==
    LET item == ItemPut(i) IN
    /\ MayPut(t, i)
    /\ item \notin dynamic
    /\ allocateditems' = IF allocateditems = item THEN next[item] ELSE allocateditems
    /\ next' = PushNext(NextWithout(item), item, freeitems)
    /\ prev' = PushPrev(PrevWithout(item), item, freeitems)
    /\ freeitems' = item
    /\ Pushed(item, "free")
    /\ held' = held \ {i}
    /\ UNCHANGED <<dynamic, embedded, keeper, walks>>

\* Mutant: the function does not return there, and a dynamic item goes to the
\* free list too.
PutDynamicKept(t, i) ==
    /\ MayPut(t, i)
    /\ ItemPut(i) \in dynamic
    /\ allocateditems' = IF allocateditems = i THEN next[i] ELSE allocateditems
    /\ next' = PushNext(NextWithout(i), i, freeitems)
    /\ prev' = PushPrev(PrevWithout(i), i, freeitems)
    /\ freeitems' = i
    /\ Pushed(i, "free")
    /\ held' = held \ {i}
    /\ UNCHANGED <<dynamic, embedded, keeper, walks>>

\* put_memory of a dynamic item: it is unlinked and freed with its element, and
\* the function returns without UXR_UNLOCK.
PutDynamic(t, i) ==
    /\ MayPut(t, i)
    /\ ItemPut(i) \in dynamic
    /\ allocateditems' = IF allocateditems = i THEN next[i] ELSE allocateditems
    /\ next' = [NextWithout(i) EXCEPT ![i] = NULL]
    /\ prev' = [PrevWithout(i) EXCEPT ![i] = NULL]
    /\ dynamic' = dynamic \ {i}
    /\ where' = [where EXCEPT ![i] = "outside"]
    /\ held' = held \ {i}
    /\ keeper' = t
    /\ UNCHANGED <<freeitems, embedded, place, ops, walks>>

-----------------------------------------------------------------------------
\* A callback walks allocateditems for the entity its message is for, without
\* the mutex of that pool; the worst case is an entity it does not find.
WalkStart(t) ==
    /\ Initialised /\ ~ Walking(t)
    /\ allocateditems # NULL
    /\ cursor' = [cursor EXCEPT ![t] = allocateditems]
    /\ pending' = [pending EXCEPT ![t] = Allocated \ {allocateditems}]
    /\ UNCHANGED <<links, dynamic, embedded, held, keeper, where, place, ops>>

WalkStep(t) ==
    /\ Walking(t)
    /\ cursor' = [cursor EXCEPT ![t] = next[cursor[t]]]
    /\ pending' = [pending EXCEPT ![t] = @ \ {next[cursor[t]]}]
    /\ UNCHANGED <<links, dynamic, embedded, held, keeper, where, place, ops>>

Next ==
    \/ \E i \in Items: InitItem(i)
    \/ \E t \in Threads: GetStatic(t) \/ GetDynamic(t)
    \/ \E t \in Threads, i \in Items: PutStatic(t, i) \/ PutDynamic(t, i)
    \/ \E t \in Threads: WalkStart(t) \/ WalkStep(t)

Spec == Init /\ [][Next]_vars

-----------------------------------------------------------------------------
\* Every variable stays in its domain.
TypeOK ==
    /\ next \in [Items -> Items \cup {NULL}]
    /\ prev \in [Items -> Items \cup {NULL}]
    /\ freeitems \in Items \cup {NULL}
    /\ allocateditems \in Items \cup {NULL}
    /\ dynamic \in SUBSET HeapItems
    /\ embedded \in BOOLEAN
    /\ held \in SUBSET (Items \ WithoutData)
    /\ keeper \in Threads \cup {NULL}
    /\ where \in [Items -> {"free", "allocated", "outside"}]
    /\ place \in [Items -> Nat]
    /\ ops \in Nat
    /\ cursor \in [Threads -> Items \cup {NULL}]
    /\ pending \in [Threads -> SUBSET Items]

\* The items of a list, the head of which is given, are chained from the one
\* pushed last to the one pushed first, and backwards by prev.
Chained(list, head) ==
    LET In == {i \in Items: where[i] = list} IN
    /\ head = NULL => In = {}
    /\ head # NULL => head \in In /\ \A i \in In: place[i] <= place[head]
    /\ \A i \in In:
         /\ prev[i] = NULL <=> i = head
         /\ prev[i] # NULL => prev[i] \in In /\ next[prev[i]] = i
         /\ next[i] # NULL => /\ next[i] \in In /\ prev[next[i]] = i
                              /\ place[next[i]] < place[i]
         /\ \A j \in In: place[j] < place[i] =>
                /\ next[i] # NULL
                /\ place[j] <= place[next[i]]

\* Whatever get_memory and put_memory are called for, and in whatever order,
\* each list holds exactly its items, in no cycle, and both directions agree:
\* no item is lost and none is in two lists.
WellFormed ==
    /\ Chained("free", freeitems)
    /\ Chained("allocated", allocateditems)
    /\ \A i \in Items: where[i] = "outside" => next[i] = NULL /\ prev[i] = NULL
    /\ \A i, j \in Items:
         /\ place[i] <= ops
         /\ i # j /\ where[i] # "outside" /\ where[j] # "outside"
            => place[i] # place[j]

\* Where the memory of the heap is.  An item of the heap is allocated or was
\* given back, never free; no element in use is in the free list.  An element
\* that is put back by its mem is not given back: its item stays allocated for
\* good, and its mem, which has no data, is from then on in a list, to be handed
\* out (types.c:132) - one such mem for each element lost.
HeapAccounted ==
    /\ held \subseteq Allocated
    /\ \A d \in HeapItems:
         /\ where[d] # "free"
         /\ where[d] = "allocated" <=> d \in dynamic
         /\ where[MemOf[d]] # "outside" <=> d \in Allocated \ held
         /\ where[MemOf[d]] # "outside" => embedded

\* A callback that walks the allocated items is always at an allocated one,
\* although other threads change the list (callbacks.c: "Iterate along the
\* allocated subscriptions").
WalkStaysAllocated ==
    \A t \in Threads: Walking(t) => where[cursor[t]] = "allocated"

\* A walk visits every item that was allocated when it began: the ones it did
\* not visit are still ahead of it, entities created meanwhile cannot hide an
\* older one, and nothing is left when it ends.
WalkMissesNothing ==
    \A t \in Threads: pending[t] \subseteq
        {i \in Allocated: Walking(t) /\ place[i] < place[cursor[t]]}

\* With dynamic allocation the pool grows when it must, for every thread that
\* asks (README.md: "Enables increasing static pools with dynamic allocation
\* when needed").
AnyThreadCanGet == DynamicAllowed => \A t \in Threads: MayLock(t)

-----------------------------------------------------------------------------
\* The items that a walk along the pointers n finds from head, at most all.
Chain(n, head) ==
    LET walk[k \in 0..Cardinality(Items)] ==
            [i \in Items \cup {NULL} |->
                IF k = 0 \/ i = NULL THEN <<>> ELSE <<i>> \o walk[k - 1][n[i]]]
    IN  walk[Cardinality(Items)][head]

Lists == INSTANCE PoolLists WITH free <- Chain(next, freeitems),
                                 allocated <- Chain(next, allocateditems)

\* What a walk along next finds from the two heads is a stack of free items
\* and a newest-first list of allocated ones: every get_memory and put_memory
\* is one move between them.
ImplementsLists == Lists!ListSpec
=============================================================================
