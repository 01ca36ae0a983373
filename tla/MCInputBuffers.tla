--------------------------- MODULE MCInputBuffers ---------------------------
(***************************************************************************)
(* InputBuffers on small instances.                                        *)
(***************************************************************************)
EXTENDS InputBuffers, TLC

CONSTANTS a, b, c   \* entities

\* A keep-last subscription, a keep-all service with one buffer too few and a
\* keep-last client (depth 1).
KindMixed == (a :> "subscription") @@ (b :> "service") @@ (c :> "client")
HistoryMixed == (a :> "keep_last") @@ (b :> "keep_all") @@ (c :> "keep_last")
DepthMixed == (a :> 2) @@ (b :> 1) @@ (c :> 1)
LifespanMixed == (a :> 1) @@ (b :> 0) @@ (c :> 2)

Symmetric == Permutations(Slots) \cup Permutations(Threads)
=============================================================================
