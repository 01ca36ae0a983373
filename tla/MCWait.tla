------------------------------- MODULE MCWait -------------------------------
EXTENDS Wait, TLC

CONSTANTS a, b, s1, s2, s3, g1

W(E, inf) == [given |-> TRUE, entities |-> E, guards |-> {g1}, infinite |-> inf]

\* The middle one has no entity.
ThreeContexts == <<s1, s3, s2>>
OneEach == (a :> s1) @@ (b :> s2)

\* Both entities without timeout, one with it (which skips the session of the
\* other), the guard condition only, nothing at all.
Waits == {W({a, b}, TRUE), W({b}, FALSE), W({}, TRUE), NoWait}
=============================================================================
