------------------------------ MODULE PoolLists ------------------------------
(***************************************************************************)
(* What a memory pool promises: items move between a stack of free items   *)
(* and a list of allocated ones whose newest is first.  MemPool implements *)
(* it with pointers.                                                       *)
(***************************************************************************)
EXTENDS Naturals, SequencesExt

CONSTANTS Items, HeapItems, DynamicAllowed

VARIABLES free, allocated   \* sequences of items, head first

lvars == <<free, allocated>>

Known == Range(free) \cup Range(allocated)

Init == free = <<>> /\ allocated = <<>>

\* An item that no list has is put in: one of the static array, once, or the
\* mem of an element from the heap.
Initialise ==
    \E i \in Items \ (HeapItems \cup Known): free' = <<i>> \o free /\ UNCHANGED allocated

\* The item freed last is handed out first.
Get ==
    /\ free # <<>>
    /\ free' = Tail(free)
    /\ allocated' = <<Head(free)>> \o allocated

Grow ==
    /\ DynamicAllowed /\ free = <<>>
    /\ \E i \in HeapItems \ Known: allocated' = <<i>> \o allocated
    /\ UNCHANGED free

\* An item from the heap is not kept.
Put ==
    \E n \in DOMAIN allocated:
        /\ allocated' = RemoveAt(allocated, n)
        /\ free' = IF allocated[n] \in HeapItems THEN free
                   ELSE <<allocated[n]>> \o free

Next == Initialise \/ Get \/ Grow \/ Put

ListSpec == Init /\ [][Next]_lvars
=============================================================================
