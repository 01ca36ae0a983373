---------------------------- MODULE MCRmwContext ----------------------------
EXTENDS RmwContext, TLC

Symmetric == Permutations(Contexts) \cup Permutations(Sessions)
                \cup Permutations(Subscriptions)
=============================================================================
