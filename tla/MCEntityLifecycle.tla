------------------------- MODULE MCEntityLifecycle -------------------------
EXTENDS EntityLifecycle, TLC

Symmetric == Permutations(Nodes) \cup Permutations(Publishers)
                \cup Permutations(Subscriptions) \cup Permutations(Services)
                \cup Permutations(Topics) \cup Permutations(Threads)
=============================================================================
