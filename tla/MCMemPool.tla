------------------------------ MODULE MCMemPool ------------------------------
(***************************************************************************)
(* MemPool on small instances.                                             *)
(***************************************************************************)
EXTENDS MemPool, TLC

CONSTANTS Static, Heap      \* the items of the array and of the heap

MCMemOf == [d \in Heap |-> <<"mem", d>>]
MCItems == Static \cup Heap \cup {MCMemOf[d]: d \in Heap}

Symmetric == Permutations(Static) \cup Permutations(Heap) \cup Permutations(Threads)
=============================================================================
