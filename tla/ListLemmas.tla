----------------------------- MODULE ListLemmas -----------------------------
(***************************************************************************)
(* Facts about natural numbers, counting, sequences and folds that the     *)
(* proofs of several components need.                                      *)
(***************************************************************************)
EXTENDS Integers, SequencesExt, FiniteSetTheorems, SequenceTheorems,
        WellFoundedInduction, TLAPS

\* A nonempty set of naturals has a least element: the intervals 1..n with n
\* in the set have one that is minimal for strict inclusion.
LEMMA LeastNatural ==
    ASSUME NEW S \in SUBSET Nat, S # {}
    PROVE  \E n \in S: \A m \in S: n <= m
<1> DEFINE T == {1..n : n \in S}
<1>1. T \subseteq FiniteSubsetsOf(Nat)
  <2> SUFFICES ASSUME NEW n \in S
               PROVE  1..n \in FiniteSubsetsOf(Nat)
    OBVIOUS
  <2>1. IsFiniteSet(1..n)
    BY FS_Interval
  <2>2. 1..n \in SUBSET Nat
    OBVIOUS
  <2> QED BY <2>1, <2>2 DEF FiniteSubsetsOf
<1>2. T # {}
  OBVIOUS
<1>3. IsWellFoundedOn(StrictSubsetOrdering(Nat), FiniteSubsetsOf(Nat))
  BY FS_StrictSubsetOrderingWellFounded
<1>4. PICK x \in T: \A y \in T: ~ (<<y, x>> \in StrictSubsetOrdering(Nat))
  <2> HIDE DEF T
  <2> QED BY <1>1, <1>2, <1>3, WFMin
<1>5. PICK n \in S: x = 1..n
  BY <1>4
<1>6. ASSUME NEW m \in S
      PROVE  n <= m
  <2>1. SUFFICES ASSUME m < n
                 PROVE  FALSE
    OBVIOUS
  <2>2. 1..m \subseteq 1..n /\ 1..m # 1..n /\ 1..m \in SUBSET Nat /\ 1..n \in SUBSET Nat
    <3>1. n \in 1..n /\ n \notin 1..m
      BY <2>1
    <3>2. 1..m \subseteq 1..n
      BY <2>1
    <3> QED BY <3>1, <3>2
  <2>3. <<1..m, 1..n>> \in StrictSubsetOrdering(Nat)
    BY <2>2 DEF StrictSubsetOrdering
  <2>4. 1..m \in T
    OBVIOUS
  <2> QED BY <1>4, <1>5, <2>3, <2>4
<1> QED BY <1>6

\* A set of numbers that has 0 and, with each, the next one has all of them.
LEMMA AllNumbers ==
    ASSUME NEW n \in Nat, NEW V, 0 \in V,
           \A k \in 1..n: k - 1 \in V => k \in V
    PROVE  \A k \in 0..n: k \in V
<1> DEFINE Bad == {k \in 0..n: k \notin V}
<1>1. Bad # {} => \E k \in Bad: \A j \in Bad: k <= j
  <2>1. Bad \in SUBSET Nat
    OBVIOUS
  <2> HIDE DEF Bad
  <2> QED BY <2>1, LeastNatural
<1>2. SUFFICES ASSUME NEW k \in 0..n, k \notin V, \A j \in 0..n: j \notin V => k <= j
               PROVE  FALSE
  BY <1>1
<1>3. k \in 1..n /\ k - 1 \in 0..n /\ ~ (k <= k - 1)
  BY <1>2
<1> QED BY <1>2, <1>3

\* The last of some numbers.
LEMMA LastNumber ==
    ASSUME NEW n \in Nat, NEW t \in SUBSET (1..n), t # {}
    PROVE  Max(t) \in t /\ \A x \in t: x <= Max(t)
<1> DEFINE Gap == {n - x: x \in t}
<1>1. Gap \in SUBSET Nat /\ Gap # {}
  <2>1. \A x \in t: x \in 1..n /\ n - x \in Nat
    OBVIOUS
  <2>2. PICK x \in t: TRUE
    OBVIOUS
  <2>3. n - x \in Gap
    OBVIOUS
  <2>4. ASSUME NEW g \in Gap
        PROVE  g \in Nat
    BY <2>1
  <2> HIDE DEF Gap
  <2> QED BY <2>3, <2>4
<1>2. PICK g \in Gap: \A h \in Gap: g <= h
  <2> HIDE DEF Gap
  <2> QED BY <1>1, LeastNatural
<1>3. PICK x \in t: g = n - x
  BY <1>2
<1>4. \A y \in t: x >= y
  <2> TAKE y \in t
  <2>1. n - x <= n - y /\ x \in Nat /\ y \in Nat
    BY <1>2, <1>3
  <2> QED BY <2>1
<1>5. \E z \in t: \A y \in t: z >= y
  BY <1>4
<1>6. Max(t) \in t /\ \A y \in t: Max(t) >= y
  BY <1>5 DEF Max
<1>7. \A y \in t: y \in Nat
  OBVIOUS
<1> QED BY <1>6, <1>7

-----------------------------------------------------------------------------
\* Taking one item out of a sequence moves those behind it.
LEMMA RemovedItems ==
    ASSUME NEW S, NEW q \in Seq(S), NEW i \in DOMAIN q
    PROVE  /\ RemoveAt(q, i) \in Seq(S)
           /\ DOMAIN RemoveAt(q, i) = 1..(Len(q) - 1)
           /\ Len(RemoveAt(q, i)) = Len(q) - 1
           /\ \A k \in 1..(Len(q) - 1):
                RemoveAt(q, i)[k] = IF k < i THEN q[k] ELSE q[k + 1]
<1> DEFINE n == Len(q)
           a == SubSeq(q, 1, i - 1)
           b == SubSeq(q, i + 1, n)
<1>1. n \in Nat /\ i \in 1..n /\ DOMAIN q = 1..n
  BY LenProperties
<1>2. /\ a \in Seq(S) /\ Len(a) = i - 1 /\ \A k \in 1..(i - 1): a[k] = q[k]
      /\ b \in Seq(S) /\ Len(b) = n - i /\ \A k \in 1..(n - i): b[k] = q[i + k]
  <2>1. /\ a \in Seq(S) /\ Len(a) = i - 1 /\ \A k \in 1..(i - 1): a[k] = q[k]
    BY <1>1
  <2>2. /\ b \in Seq(S) /\ Len(b) = n - i /\ \A k \in 1..(n - i): b[k] = q[i + k]
    BY <1>1
  <2> QED BY <2>1, <2>2
<1> HIDE DEF a, b, n
<1>3. /\ a \o b \in Seq(S) /\ DOMAIN (a \o b) = 1..(n - 1) /\ Len(a \o b) = n - 1
      /\ \A k \in 1..(n - 1): (a \o b)[k] = IF k < i THEN q[k] ELSE q[k + 1]
  <2>1. a \o b \in Seq(S) /\ Len(a \o b) = n - 1
    <3>1. a \o b \in Seq(S) /\ Len(a \o b) = Len(a) + Len(b)
      BY <1>2, ConcatProperties
    <3>2. (i - 1) + (n - i) = n - 1
      BY <1>1
    <3> QED BY <1>2, <3>1, <3>2
  <2>2. \A k \in 1..(n - 1): (a \o b)[k] = IF k <= i - 1 THEN a[k] ELSE b[k - (i - 1)]
    BY <1>1, <1>2, <2>1, ConcatProperties
  <2>3. ASSUME NEW k \in 1..(n - 1)
        PROVE  (a \o b)[k] = IF k < i THEN q[k] ELSE q[k + 1]
    <3>1. CASE k < i
      BY <1>1, <1>2, <2>2, <3>1
    <3>2. CASE ~ (k < i)
      <4>1. k - (i - 1) \in 1..(n - i)
        BY <1>1, <3>2
      <4>2. b[k - (i - 1)] = q[i + (k - (i - 1))] /\ i + (k - (i - 1)) = k + 1
        BY <1>1, <1>2, <4>1
      <4>3. ~ (k <= i - 1)
        BY <1>1, <3>2
      <4> QED BY <2>2, <3>2, <4>2, <4>3
    <3> QED BY <3>1, <3>2
  <2> QED BY <1>1, <2>1, <2>3
<1>4. RemoveAt(q, i) = a \o b
  BY DEF RemoveAt, a, b, n
<1> QED BY <1>3, <1>4 DEF n

\* Nothing comes in, and of items in it once only this one goes.
LEMMA RemovedOne ==
    ASSUME NEW S, NEW q \in Seq(S), NEW i \in DOMAIN q
    PROVE  /\ RemoveAt(q, i) \in Seq(S)
           /\ ToSet(RemoveAt(q, i)) \subseteq ToSet(q)
           /\ IsInjective(q) => /\ IsInjective(RemoveAt(q, i))
                                /\ ToSet(RemoveAt(q, i)) = ToSet(q) \ {q[i]}
<1> DEFINE n == Len(q)
           p == RemoveAt(q, i)
<1>1. n \in Nat /\ i \in 1..n /\ DOMAIN q = 1..n
  BY LenProperties
<1>2. p \in Seq(S) /\ DOMAIN p = 1..(n - 1)
  BY RemovedItems
<1>3. \A k \in 1..(n - 1): p[k] = IF k < i THEN q[k] ELSE q[k + 1]
  BY RemovedItems
<1> HIDE DEF n, p
<1>4. ToSet(p) \subseteq ToSet(q)
  <2> SUFFICES ASSUME NEW k \in 1..(n - 1) PROVE p[k] \in ToSet(q)
    BY <1>2 DEF ToSet
  <2>1. k \in DOMAIN q /\ k + 1 \in DOMAIN q
    BY <1>1
  <2>2. p[k] = q[k] \/ p[k] = q[k + 1]
    BY <1>3
  <2> QED BY <2>1, <2>2 DEF ToSet
<1>5. ASSUME IsInjective(q)
      PROVE  IsInjective(p) /\ ToSet(p) = ToSet(q) \ {q[i]}
  <2>1. \A j, k \in 1..n: q[j] = q[k] => j = k
    BY <1>1, <1>5 DEF IsInjective
  <2>2. IsInjective(p)
    <3> SUFFICES ASSUME NEW j \in 1..(n - 1), NEW k \in 1..(n - 1), p[j] = p[k]
                 PROVE  j = k
      BY <1>2 DEF IsInjective
    <3>1. /\ j \in 1..n /\ j + 1 \in 1..n /\ k \in 1..n /\ k + 1 \in 1..n
      BY <1>1
    <3> QED BY <1>1, <1>3, <2>1, <3>1
  <2>3. ASSUME NEW k \in 1..(n - 1) PROVE p[k] # q[i]
    <3>1. k \in 1..n /\ k + 1 \in 1..n
      BY <1>1
    <3> QED BY <1>1, <1>3, <2>1, <3>1
  <2>4. ASSUME NEW j \in 1..n, j # i PROVE q[j] \in ToSet(p)
    <3>1. CASE j < i
      <4>1. j \in 1..(n - 1)
        BY <1>1, <3>1
      <4>2. p[j] = q[j]
        BY <1>3, <3>1, <4>1
      <4> QED BY <1>2, <4>1, <4>2 DEF ToSet
    <3>2. CASE ~ (j < i)
      <4>1. j - 1 \in 1..(n - 1) /\ ~ (j - 1 < i) /\ (j - 1) + 1 = j
        BY <1>1, <2>4, <3>2
      <4>2. p[j - 1] = q[j]
        BY <1>3, <4>1
      <4> QED BY <1>2, <4>1, <4>2 DEF ToSet
    <3> QED BY <3>1, <3>2
  <2>5. ToSet(p) \subseteq ToSet(q) \ {q[i]}
    BY <1>2, <1>4, <2>3 DEF ToSet
  <2>6. ToSet(q) \ {q[i]} \subseteq ToSet(p)
    <3> SUFFICES ASSUME NEW j \in 1..n, q[j] # q[i] PROVE q[j] \in ToSet(p)
      BY <1>1 DEF ToSet
    <3> QED BY <2>4
  <2> QED BY <2>2, <2>5, <2>6
<1> QED BY <1>2, <1>4, <1>5 DEF p

\* An item put in front.
LEMMA PrependedOne ==
    ASSUME NEW S, NEW q \in Seq(S), NEW x \in S
    PROVE  /\ <<x>> \o q \in Seq(S)
           /\ ToSet(<<x>> \o q) = ToSet(q) \cup {x}
           /\ IsInjective(q) /\ x \notin ToSet(q) => IsInjective(<<x>> \o q)
<1> DEFINE n == Len(q)
           p == <<x>> \o q
<1>1. n \in Nat /\ DOMAIN q = 1..n
  BY LenProperties
<1>2. <<x>> \in Seq(S) /\ Len(<<x>>) = 1 /\ <<x>>[1] = x
  OBVIOUS
<1>3. /\ p \in Seq(S) /\ Len(p) = 1 + n
      /\ \A k \in 1..(1 + n): p[k] = IF k <= 1 THEN <<x>>[k] ELSE q[k - 1]
  BY <1>2, ConcatProperties
<1>4. DOMAIN p = 1..(1 + n)
  BY <1>3
<1> HIDE DEF n, p
<1>5. p[1] = x /\ \A k \in 1..n: p[k + 1] = q[k]
  <2>1. p[1] = x
    BY <1>1, <1>2, <1>3
  <2>2. ASSUME NEW k \in 1..n PROVE p[k + 1] = q[k]
    <3>1. k + 1 \in 1..(1 + n) /\ ~ (k + 1 <= 1) /\ (k + 1) - 1 = k
      BY <1>1
    <3> QED BY <1>3, <3>1
  <2> QED BY <2>1, <2>2
<1>6. \A k \in 1..(1 + n): k = 1 \/ \E j \in 1..n: k = j + 1
  <2> SUFFICES ASSUME NEW k \in 1..(1 + n), k # 1 PROVE \E j \in 1..n: k = j + 1
    OBVIOUS
  <2>1. k - 1 \in 1..n /\ k = (k - 1) + 1
    BY <1>1
  <2> QED BY <2>1
<1>7. ToSet(p) = ToSet(q) \cup {x}
  <2>1. ToSet(p) \subseteq ToSet(q) \cup {x}
    <3> SUFFICES ASSUME NEW k \in 1..(1 + n) PROVE p[k] \in ToSet(q) \cup {x}
      BY <1>4 DEF ToSet
    <3>1. p[k] = x \/ \E j \in 1..n: p[k] = q[j]
      BY <1>5, <1>6
    <3> QED BY <1>1, <3>1 DEF ToSet
  <2>2. ASSUME NEW k \in 1..n PROVE q[k] \in ToSet(p)
    <3>1. k + 1 \in 1..(1 + n)
      BY <1>1
    <3> QED BY <1>4, <1>5, <3>1 DEF ToSet
  <2>3. x \in ToSet(p)
    <3>1. 1 \in 1..(1 + n)
      BY <1>1
    <3> QED BY <1>4, <1>5, <3>1 DEF ToSet
  <2>4. ToSet(q) \subseteq ToSet(p)
    BY <1>1, <2>2 DEF ToSet
  <2> QED BY <2>1, <2>3, <2>4
<1>8. ASSUME IsInjective(q), x \notin ToSet(q) PROVE IsInjective(p)
  <2>1. \A j, k \in 1..n: q[j] = q[k] => j = k
    BY <1>1, <1>8 DEF IsInjective
  <2>2. \A k \in 1..n: q[k] # x
    BY <1>1, <1>8 DEF ToSet
  <2> SUFFICES ASSUME NEW j \in 1..(1 + n), NEW k \in 1..(1 + n), p[j] = p[k]
               PROVE  j = k
    BY <1>4 DEF IsInjective
  <2> QED BY <1>5, <1>6, <2>1, <2>2
<1> QED BY <1>3, <1>7, <1>8 DEF p

\* The first item taken out of a sequence.
LEMMA FirstTaken ==
    ASSUME NEW S, NEW q \in Seq(S), q # <<>>
    PROVE  /\ Tail(q) \in Seq(S)
           /\ Head(q) \in ToSet(q) /\ ToSet(Tail(q)) \subseteq ToSet(q)
           /\ IsInjective(q) => IsInjective(Tail(q)) /\ Head(q) \notin ToSet(Tail(q))
<1> DEFINE n == Len(q)
           t == Tail(q)
<1>1. n \in Nat /\ n # 0 /\ DOMAIN q = 1..n /\ Head(q) = q[1]
  BY LenProperties, EmptySeq, HeadTailProperties
<1>2. t \in Seq(S) /\ Len(t) = n - 1 /\ \A k \in 1..(n - 1): t[k] = q[k + 1]
  BY HeadTailProperties
<1>3. DOMAIN t = 1..(n - 1)
  BY <1>2
<1> HIDE DEF n, t
<1>4. /\ 1 \in 1..n
      /\ \A k \in 1..(n - 1): k + 1 \in 1..n /\ k + 1 # 1
  BY <1>1
<1>5. Head(q) \in ToSet(q) /\ ToSet(t) \subseteq ToSet(q)
  BY <1>1, <1>2, <1>3, <1>4 DEF ToSet
<1>6. ASSUME IsInjective(q) PROVE IsInjective(t) /\ Head(q) \notin ToSet(t)
  <2>1. \A j, k \in 1..n: q[j] = q[k] => j = k
    BY <1>1, <1>6 DEF IsInjective
  <2>2. Head(q) \notin ToSet(t)
    BY <1>1, <1>2, <1>3, <1>4, <2>1 DEF ToSet
  <2>3. IsInjective(t)
    <3> SUFFICES ASSUME NEW j \in 1..(n - 1), NEW k \in 1..(n - 1), t[j] = t[k]
                 PROVE  j = k
      BY <1>3 DEF IsInjective
    <3>1. j + 1 = k + 1
      BY <1>2, <1>4, <2>1
    <3> QED BY <1>1, <3>1
  <2> QED BY <2>2, <2>3
<1> QED BY <1>2, <1>5, <1>6 DEF t

-----------------------------------------------------------------------------
\* b counts the elements of X: each of them once, from 1 to n.
Counts(b, n, X) ==
    /\ b \in [1..n -> X]
    /\ \A i, j \in 1..n: b[i] = b[j] => i = j
    /\ \A x \in X: \E i \in 1..n: b[i] = x

\* So n is how many there are.
LEMMA CountsAll ==
    ASSUME NEW n \in Nat, NEW X, NEW b, Counts(b, n, X)
    PROVE  IsFiniteSet(X) /\ Cardinality(X) = n
<1>1. b \in Bijection(1..n, X)
  BY DEF Counts, Bijection, Injection, Surjection, IsInjective
<1>2. IsFiniteSet(1..n) /\ Cardinality(1..n) = n
  <2>1. 1 \in Int /\ n \in Int
    OBVIOUS
  <2>2. IsFiniteSet(1..n) /\ Cardinality(1..n) = IF 1 > n THEN 0 ELSE n - 1 + 1
    BY <2>1, FS_Interval, Zenon
  <2> QED BY <2>2
<1>3. ExistsBijection(1..n, X)
  BY <1>1 DEF ExistsBijection
<1> QED BY <1>2, <1>3, FS_Bijection

\* A part of X has as many elements as there are numbers that b gives one of
\* them.
LEMMA CountsPart ==
    ASSUME NEW n \in Nat, NEW X, NEW b, Counts(b, n, X), NEW Y \in SUBSET X
    PROVE  Cardinality({i \in 1..n: b[i] \in Y}) = Cardinality(Y)
<1> DEFINE I == {i \in 1..n: b[i] \in Y}
           c == [i \in I |-> b[i]]
<1>1. c \in [I -> Y] /\ \A i, j \in I: c[i] = c[j] => i = j
  BY DEF Counts
<1>2. \A y \in Y: \E i \in I: c[i] = y
  BY DEF Counts
<1>3. IsFiniteSet(I)
  <2>1. IsFiniteSet(1..n)
    <3>1. 1 \in Int /\ n \in Int
      OBVIOUS
    <3> QED BY <3>1, FS_Interval, Zenon
  <2>2. I \in SUBSET (1..n)
    OBVIOUS
  <2> HIDE DEF I
  <2> QED BY <2>1, <2>2, FS_Subset
<1> HIDE DEF I, c
<1>4. ExistsBijection(I, Y)
  BY <1>1, <1>2 DEF ExistsBijection, Bijection, Injection, Surjection, IsInjective
<1> QED BY <1>3, <1>4, FS_Bijection DEF I

\* One element more.
OneMore(b, n, x) == [i \in 1..(n + 1) |-> IF i <= n THEN b[i] ELSE x]

LEMMA CountsOneMore ==
    ASSUME NEW n \in Nat, NEW X, NEW b, Counts(b, n, X), NEW x, x \notin X
    PROVE  Counts(OneMore(b, n, x), n + 1, X \cup {x})
<1> DEFINE c == [i \in 1..(n + 1) |-> IF i <= n THEN b[i] ELSE x]
<1>1. /\ \A i \in 1..n: c[i] = b[i] /\ c[i] \in X
      /\ c[n + 1] = x /\ n + 1 \in 1..(n + 1)
      /\ \A i \in 1..n: i \in 1..(n + 1)
      /\ \A i \in 1..(n + 1): i \in 1..n \/ i = n + 1
  BY DEF Counts
<1>2. c \in [1..(n + 1) -> X \cup {x}]
  BY <1>1
<1> HIDE DEF c
<1>3. \A i, j \in 1..(n + 1): c[i] = c[j] => i = j
  <2> SUFFICES ASSUME NEW i \in 1..(n + 1), NEW j \in 1..(n + 1), c[i] = c[j]
               PROVE  i = j
    OBVIOUS
  <2>1. CASE i \in 1..n /\ j \in 1..n
    BY <1>1, <2>1 DEF Counts
  <2> QED BY <1>1, <2>1
<1>4. \A y \in X \cup {x}: \E i \in 1..(n + 1): c[i] = y
  BY <1>1 DEF Counts
<1> QED BY <1>2, <1>3, <1>4 DEF Counts, OneMore, c

\* Counting what b counts along another count.
Along(b, c, m) == [k \in 1..m |-> b[c[k]]]

LEMMA CountsAlong ==
    ASSUME NEW n \in Nat, NEW X, NEW b, Counts(b, n, X),
           NEW m \in Nat, NEW I \in SUBSET (1..n), NEW c, Counts(c, m, I)
    PROVE  Counts(Along(b, c, m), m, {b[i]: i \in I})
<1> DEFINE d == [k \in 1..m |-> b[c[k]]]
           Y == {b[i]: i \in I}
<1>1. \A k \in 1..m: c[k] \in I /\ c[k] \in 1..n
  BY DEF Counts
<1>2. d \in [1..m -> Y]
  BY <1>1
<1>3. \A i, j \in 1..m: d[i] = d[j] => i = j
  <2> SUFFICES ASSUME NEW i \in 1..m, NEW j \in 1..m, b[c[i]] = b[c[j]]
               PROVE  i = j
    OBVIOUS
  <2>1. c[i] = c[j]
    BY <1>1 DEF Counts
  <2> QED BY <2>1 DEF Counts
<1>4. \A y \in Y: \E k \in 1..m: d[k] = y
  <2> SUFFICES ASSUME NEW i \in I
               PROVE  \E k \in 1..m: d[k] = b[i]
    OBVIOUS
  <2>1. PICK k \in 1..m: c[k] = i
    BY DEF Counts
  <2> QED BY <2>1
<1> HIDE DEF d, Y
<1>5. Counts(d, m, Y)
  BY <1>2, <1>3, <1>4 DEF Counts
<1> QED BY <1>5 DEF Along, d, Y

\* What was counted before, and then more of it.
Then(b, n, c, m) == [i \in 1..(n + m) |-> IF i <= n THEN b[i] ELSE c[i - n]]

LEMMA CountsMore ==
    ASSUME NEW n \in Nat, NEW X, NEW b, Counts(b, n, X),
           NEW m \in Nat, NEW Y, NEW c, Counts(c, m, Y), X \cap Y = {}
    PROVE  Counts(Then(b, n, c, m), n + m, X \cup Y)
<1> DEFINE d == [i \in 1..(n + m) |-> IF i <= n THEN b[i] ELSE c[i - n]]
<1>1. ASSUME NEW i \in 1..(n + m)
      PROVE  \/ i \in 1..n /\ d[i] = b[i] /\ d[i] \in X
             \/ i \notin 1..n /\ i - n \in 1..m /\ d[i] = c[i - n] /\ d[i] \in Y
  <2>1. CASE i <= n
    BY <2>1 DEF Counts
  <2>2. CASE ~ (i <= n)
    <3>1. i \notin 1..n /\ i - n \in 1..m
      BY <2>2
    <3> QED BY <2>2, <3>1 DEF Counts
  <2> QED BY <2>1, <2>2
<1>2. \A i \in 1..n: i \in 1..(n + m) /\ d[i] = b[i]
  OBVIOUS
<1>3. \A i \in 1..m: n + i \in 1..(n + m) /\ d[n + i] = c[i]
  <2> TAKE i \in 1..m
  <2>1. n + i \in 1..(n + m) /\ ~ (n + i <= n) /\ (n + i) - n = i
    OBVIOUS
  <2>2. d[n + i] = c[(n + i) - n]
    BY <2>1
  <2> QED BY <2>1, <2>2
<1>4. d \in [1..(n + m) -> X \cup Y]
  <2>1. \A i \in 1..(n + m): d[i] \in X \cup Y
    <3> HIDE DEF d
    <3> QED BY <1>1
  <2> QED BY <2>1
<1> HIDE DEF d
<1>5. \A i, j \in 1..(n + m): d[i] = d[j] => i = j
  <2> SUFFICES ASSUME NEW i \in 1..(n + m), NEW j \in 1..(n + m), d[i] = d[j]
               PROVE  i = j
    OBVIOUS
  <2>1. CASE i \in 1..n /\ j \in 1..n
    BY <1>1, <2>1 DEF Counts
  <2>2. CASE i \notin 1..n /\ j \notin 1..n
    <3>1. i - n \in 1..m /\ j - n \in 1..m /\ c[i - n] = c[j - n]
      BY <1>1, <2>2
    <3>2. i - n = j - n
      BY <3>1 DEF Counts
    <3> QED BY <3>2
  <2> QED BY <1>1, <2>1, <2>2
<1>6. \A x \in X \cup Y: \E i \in 1..(n + m): d[i] = x
  <2> TAKE x \in X \cup Y
  <2>1. CASE x \in X
    BY <1>2, <2>1 DEF Counts
  <2>2. CASE x \in Y
    BY <1>3, <2>2 DEF Counts
  <2> QED BY <2>1, <2>2
<1> QED BY <1>4, <1>5, <1>6 DEF Counts, Then, d

\* list has the value that val gives to what b counts; who has the value v.
ListsValues(list, n, val, b) == \A k \in 1..n: list[k] = val[b[k]]
WithValue(f, X, v) == {x \in X: f[x] = v}

\* Such a list has each value as often as val gives it.
LEMMA ValuesCounted ==
    ASSUME NEW n \in Nat, NEW X, NEW b, Counts(b, n, X), NEW list, NEW val,
           ListsValues(list, n, val, b), NEW v
    PROVE  Cardinality(WithValue(list, 1..n, v)) = Cardinality(WithValue(val, X, v))
<1> USE DEF WithValue
<1> DEFINE Y == {x \in X: val[x] = v}
           I == {k \in 1..n: b[k] \in Y}
<1>1. \A k \in 1..n: k \in I <=> list[k] = v
  BY DEF Counts, ListsValues
<1>2. I = {k \in 1..n: list[k] = v}
  <2>1. I \subseteq 1..n
    OBVIOUS
  <2> HIDE DEF I
  <2> QED BY <1>1, <2>1
<1>3. Y \in SUBSET X
  OBVIOUS
<1>4. Cardinality(I) = Cardinality(Y)
  <2> HIDE DEF Y
  <2> QED BY <1>3, CountsPart
<1> QED BY <1>2, <1>4

-----------------------------------------------------------------------------
\* FoldLeft is the value for all places of a function on the sets of places,
\* which takes the last one away.  With these lemmas it is what the steps G,
\* from one place to the next, lead to.


FoldsPlaces(f, n, L, base, G) ==
    /\ f \in [SUBSET (1..n) -> L]
    /\ \A t \in SUBSET (1..n):
         f[t] = IF t = {} THEN base ELSE G[<<f[t \ {Max(t)}], Max(t)>>]

\* There is such a function, for all steps G.
LEMMA FoldExists ==
    ASSUME NEW n \in Nat, NEW L, NEW base \in L, NEW G \in [L \X (1..n) -> L]
    PROVE  \E f: FoldsPlaces(f, n, L, base, G)
<1> DEFINE Folds(f, m) ==
             /\ f \in [SUBSET (1..m) -> L]
             /\ \A t \in SUBSET (1..m):
                  f[t] = IF t = {} THEN base ELSE G[<<f[t \ {Max(t)}], Max(t)>>]
           V == {m \in 0..n: \E f: Folds(f, m)}
<1>1. 0 \in V
  <2> DEFINE f == [t \in {{}} |-> base]
  <2>1. SUBSET (1..0) = {{}}
    <3>1. 1..0 = {}
      OBVIOUS
    <3> QED BY <3>1
  <2>2. f \in [{{}} -> L] /\ f[{}] = base
    OBVIOUS
  <2>3. Folds(f, 0)
    <3> HIDE DEF f
    <3> QED BY <2>1, <2>2
  <2>4. 0 \in 0..n
    OBVIOUS
  <2> HIDE DEF Folds, f
  <2> QED BY <2>3, <2>4
<1>2. ASSUME NEW m \in 1..n, m - 1 \in V
      PROVE  m \in V
  <2>1. PICK f: Folds(f, m - 1)
    BY <1>2
  <2> DEFINE Row(t) == IF t = {} THEN base ELSE G[<<f[t \ {Max(t)}], Max(t)>>]
             e == [t \in SUBSET (1..m) |-> Row(t)]
  <2>2. ASSUME NEW t \in SUBSET (1..m), t # {}
        PROVE  /\ t \ {Max(t)} \in SUBSET (1..(m - 1))
               /\ Max(t) \in 1..n
    <3> m \in Nat
      OBVIOUS
    <3>1. Max(t) \in t /\ \A x \in t: x <= Max(t)
      BY <2>2, LastNumber
    <3>2. \A x \in t: x # Max(t) => x \in 1..(m - 1)
      <4> TAKE x \in t
      <4>1. x \in 1..m /\ Max(t) \in 1..m /\ x <= Max(t)
        BY <3>1
      <4> QED BY <4>1
    <3>3. \A x \in t \ {Max(t)}: x \in 1..(m - 1)
      <4> HIDE DEF Folds
      <4> QED BY <3>2
    <3>4. Max(t) \in 1..m
      BY <3>1
    <3>5. Max(t) \in 1..n
      BY <3>4
    <3> QED BY <3>3, <3>5
  <2>3. e \in [SUBSET (1..m) -> L]
    <3>1. ASSUME NEW t \in SUBSET (1..m)
          PROVE  Row(t) \in L
      <4>1. CASE t # {}
        <5>1. f[t \ {Max(t)}] \in L /\ Max(t) \in 1..n
          BY <2>1, <2>2, <4>1
        <5> QED BY <4>1, <5>1
      <4> QED BY <4>1
    <3> HIDE DEF Row
    <3> QED BY <3>1
  <2>4. \A t \in SUBSET (1..(m - 1)): e[t] = f[t]
    <3> TAKE t \in SUBSET (1..(m - 1))
    <3>1. t \in SUBSET (1..m)
      OBVIOUS
    <3>2. e[t] = Row(t)
      <4> HIDE DEF Row
      <4> QED BY <3>1
    <3> QED BY <2>1, <3>2
  <2>5. \A t \in SUBSET (1..m):
          e[t] = IF t = {} THEN base ELSE G[<<e[t \ {Max(t)}], Max(t)>>]
    <3> TAKE t \in SUBSET (1..m)
    <3>1. e[t] = Row(t)
      <4> HIDE DEF Row
      <4> QED OBVIOUS
    <3>2. t # {} => e[t \ {Max(t)}] = f[t \ {Max(t)}]
      <4> HIDE DEF e
      <4> QED BY <2>2, <2>4
    <3> HIDE DEF e
    <3> QED BY <3>1, <3>2
  <2>6. Folds(e, m)
    <3> HIDE DEF e
    <3> QED BY <2>3, <2>5
  <2>7. m \in 0..n
    OBVIOUS
  <2> HIDE DEF Folds
  <2> QED BY <2>6, <2>7
<1>3. n \in V
  <2>1. n \in 0..n
    OBVIOUS
  <2> HIDE DEF V
  <2> QED BY <1>1, <1>2, <2>1, AllNumbers
<1> QED BY <1>3 DEF FoldsPlaces

\* The places up to k, without the last one.
LEMMA PrefixPlaces ==
    ASSUME NEW n \in Nat, NEW k \in 1..n
    PROVE  /\ 1..k \in SUBSET (1..n) /\ 1..k # {}
           /\ Max(1..k) = k /\ (1..k) \ {k} = 1..(k - 1)
<1>1. 1..k \in SUBSET (1..n) /\ k \in 1..k
  OBVIOUS
<1>2. Max(1..k) \in 1..k /\ \A x \in 1..k: x <= Max(1..k)
  BY <1>1, LastNumber
<1>3. Max(1..k) = k
  BY <1>1, <1>2
<1>4. (1..k) \ {k} = 1..(k - 1)
  OBVIOUS
<1> QED BY <1>1, <1>3, <1>4

\* What a fold has after each place.
FoldsAlong(h, n, L, base, G, last) ==
    /\ h \in [0..n -> L]
    /\ h[0] = base /\ h[n] = last
    /\ \A k \in 1..n: h[k] = G[<<h[k - 1], k>>]

\* it, a function on sets of places, takes the steps of G from a value of L.
Takes(it, n, L, base, G) ==
    /\ it[{}] = base
    /\ \A k \in 1..n: it[1..(k - 1)] \in L => it[1..k] = G[<<it[1..(k - 1)], k>>]

\* Then all its values are of L, and the last one is where the steps lead to.
LEMMA FoldAlong ==
    ASSUME NEW n \in Nat, NEW L, NEW base \in L, NEW G \in [L \X (1..n) -> L],
           NEW it, Takes(it, n, L, base, G)
    PROVE  \E h: FoldsAlong(h, n, L, base, G, it[1..n])
<1> USE DEF Takes
<1> DEFINE V == {k \in 0..n: it[1..k] \in L}
           h == [k \in 0..n |-> it[1..k]]
<1>1. 0 \in V
  <2>1. 1..0 = {} /\ 0 \in 0..n
    OBVIOUS
  <2> QED BY <2>1
<1>2. ASSUME NEW k \in 1..n, k - 1 \in V
      PROVE  k \in V
  <2>1. it[1..(k - 1)] \in L /\ k \in 0..n
    BY <1>2
  <2> QED BY <2>1
<1>3. \A k \in 0..n: k \in V
  <2> HIDE DEF V
  <2> QED BY <1>1, <1>2, AllNumbers
<1>4. \A k \in 1..n: k \in 0..n /\ k - 1 \in 0..n
  OBVIOUS
<1>5. h \in [0..n -> L]
  BY <1>3
<1>6. h[0] = base /\ h[n] = it[1..n]
  <2>1. 1..0 = {} /\ 0 \in 0..n /\ n \in 0..n
    OBVIOUS
  <2> QED BY <2>1
<1>7. \A k \in 1..n: h[k] = G[<<h[k - 1], k>>]
  BY <1>3, <1>4
<1> HIDE DEF h
<1> QED BY <1>5, <1>6, <1>7 DEF FoldsAlong
=============================================================================
