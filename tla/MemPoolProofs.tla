---------------------------- MODULE MemPoolProofs ----------------------------
(***************************************************************************)
(* The linked lists of a memory pool stay well formed and implement the    *)
(* plain lists of PoolLists, for any number of items, threads and          *)
(* operations.                                                             *)
(***************************************************************************)
EXTENDS MemPool, ListLemmas

\* The variables stay in their domains.
THEOREM PoolTypeCorrect == Spec => []TypeOK
<1>1. Init => TypeOK
  BY DEF Init, TypeOK
<1>2. TypeOK /\ [Next]_vars => TypeOK'
  <2> SUFFICES ASSUME TypeOK, [Next]_vars
               PROVE  TypeOK'
    OBVIOUS
  <2> USE PoolAssumption DEF TypeOK, Pushed, PushNext, PushPrev, links, walks, ItemPut
  <2>1. ASSUME NEW i \in Items, InitItem(i)
        PROVE  TypeOK'
    BY <2>1 DEF InitItem
  <2>2. ASSUME NEW t \in Threads, GetStatic(t)
        PROVE  TypeOK'
    BY <2>2 DEF GetStatic
  <2>3. ASSUME NEW t \in Threads, GetDynamic(t)
        PROVE  TypeOK'
    <3>1. HeapItems \subseteq Items \ WithoutData
      BY DEF WithoutData
    <3> QED BY <2>3, <3>1 DEF GetDynamic
  <2>4. ASSUME NEW t \in Threads, NEW i \in Items, PutStatic(t, i)
        PROVE  TypeOK'
    BY <2>4 DEF PutStatic, NextWithout, PrevWithout
  <2>5. ASSUME NEW t \in Threads, NEW i \in Items, PutDynamic(t, i)
        PROVE  TypeOK'
    BY <2>5 DEF PutDynamic, NextWithout, PrevWithout
  <2>6. ASSUME NEW t \in Threads, WalkStart(t)
        PROVE  TypeOK'
    BY <2>6 DEF WalkStart, Allocated
  <2>7. ASSUME NEW t \in Threads, WalkStep(t)
        PROVE  TypeOK'
    BY <2>7 DEF WalkStep, Walking
  <2>8. CASE UNCHANGED vars
    BY <2>8 DEF vars
  <2> QED BY <2>1, <2>2, <2>3, <2>4, <2>5, <2>6, <2>7, <2>8 DEF Next
<1> QED BY <1>1, <1>2, PTL DEF Spec

-----------------------------------------------------------------------------
\* A step that leaves the pointers and the lists alone keeps them well formed.
LEMMA SameLists ==
    ASSUME WellFormed, UNCHANGED <<links, where, place, ops>>
    PROVE  WellFormed'
BY DEF WellFormed, Chained, links

\* An item that is in no list is pushed on the free list.
LEMMA PushKeepsLists ==
    ASSUME TypeOK, WellFormed, NEW i \in Items, where[i] = "outside",
           next' = PushNext(next, i, freeitems), prev' = PushPrev(prev, i, freeitems),
           freeitems' = i, allocateditems' = allocateditems, Pushed(i, "free")
    PROVE  WellFormed'
<1>1. /\ where[i] = "outside" /\ next[i] = NULL /\ prev[i] = NULL
      /\ freeitems # i /\ allocateditems # i
  BY PoolAssumption DEF WellFormed, Chained
<1>2. /\ where' = [where EXCEPT ![i] = "free"]
      /\ place' = [place EXCEPT ![i] = ops + 1] /\ ops' = ops + 1
      /\ next' = [next EXCEPT ![i] = freeitems]
      /\ prev' = [j \in Items |-> IF j = i THEN NULL
                                  ELSE IF j = freeitems THEN i ELSE prev[j]]
      /\ freeitems' = i /\ allocateditems' = allocateditems
  BY DEF Pushed, PushNext, PushPrev
<1>3. Chained("free", freeitems)'
  BY <1>1, <1>2, PoolAssumption DEF TypeOK, WellFormed, Chained
<1>4. Chained("allocated", allocateditems)'
  BY <1>1, <1>2, PoolAssumption DEF TypeOK, WellFormed, Chained
<1>5. \A j \in Items: where'[j] = "outside" => next'[j] = NULL /\ prev'[j] = NULL
  BY <1>1, <1>2, PoolAssumption DEF TypeOK, WellFormed, Chained
<1>6. \A j, k \in Items:
         /\ place'[j] <= ops'
         /\ j # k /\ where'[j] # "outside" /\ where'[k] # "outside"
            => place'[j] # place'[k]
  BY <1>1, <1>2 DEF TypeOK, WellFormed
<1> QED BY <1>3, <1>4, <1>5, <1>6 DEF WellFormed

\* RMW_INIT_MEMORY pushes an item on the free list.
LEMMA InitKeepsLists ==
    ASSUME TypeOK, WellFormed, NEW i \in Items, InitItem(i)
    PROVE  WellFormed'
BY PushKeepsLists DEF InitItem

\* get_memory moves the head of the free list to the allocated list.
LEMMA GetKeepsLists ==
    ASSUME TypeOK, WellFormed, NEW t \in Threads, GetStatic(t)
    PROVE  WellFormed'
<1> DEFINE i == freeitems
           s == next[i]
<1>1. /\ i \in Items /\ where[i] = "free" /\ prev[i] = NULL /\ i # NULL
      /\ s = NULL \/ (s \in Items /\ where[s] = "free" /\ s # i)
      /\ allocateditems # i
      /\ allocateditems # NULL =>
            allocateditems \in Items /\ where[allocateditems] = "allocated"
  BY PoolAssumption DEF GetStatic, TypeOK, WellFormed, Chained
<1>2. /\ where' = [where EXCEPT ![i] = "allocated"]
      /\ place' = [place EXCEPT ![i] = ops + 1] /\ ops' = ops + 1
      /\ next' = [next EXCEPT ![i] = allocateditems]
      /\ prev' = [j \in Items |->
                    IF j = i THEN NULL
                    ELSE IF j = allocateditems THEN i
                    ELSE IF j = s THEN NULL ELSE prev[j]]
      /\ freeitems' = s /\ allocateditems' = i
  BY DEF GetStatic, Pushed, PushNext, PushPrev
<1>3. /\ \A j \in Items: where[j] = "free" => place[j] <= place[i]
      /\ \A j \in Items: where[j] = "free" /\ place[j] < place[i] =>
            s # NULL /\ place[j] <= place[s]
      /\ \A j \in Items: where[j] = "free" /\ j # i => place[j] < place[i]
      /\ \A j \in Items: where[j] = "free" /\ j # i => next[j] # i
      /\ \A j \in Items: where[j] = "free" /\ j # i /\ j # s => prev[j] # i /\ prev[j] # NULL
  <2>1. /\ \A j \in Items: where[j] = "free" => place[j] <= place[i]
        /\ \A j \in Items: where[j] = "free" /\ place[j] < place[i] =>
              s # NULL /\ place[j] <= place[s]
    BY <1>1 DEF WellFormed, Chained
  <2>2. \A j \in Items: where[j] = "free" /\ j # i => place[j] < place[i]
    BY <1>1, <2>1 DEF WellFormed, TypeOK
  <2>3. \A j \in Items: where[j] = "free" /\ j # i => next[j] # i
    BY <1>1 DEF WellFormed, Chained, TypeOK
  <2>4. \A j \in Items: where[j] = "free" /\ j # i /\ j # s => prev[j] # i /\ prev[j] # NULL
    BY <1>1 DEF WellFormed, Chained, TypeOK
  <2> QED BY <2>1, <2>2, <2>3, <2>4
<1> HIDE DEF i, s
<1>4. Chained("free", freeitems)'
  BY <1>1, <1>2, <1>3, PoolAssumption DEF TypeOK, WellFormed, Chained, i, s
<1>5. Chained("allocated", allocateditems)'
  BY <1>1, <1>2, PoolAssumption DEF TypeOK, WellFormed, Chained
<1>6. \A j \in Items: where'[j] = "outside" => next'[j] = NULL /\ prev'[j] = NULL
  BY <1>1, <1>2, PoolAssumption DEF TypeOK, WellFormed
<1>7. \A j, k \in Items:
         /\ place'[j] <= ops'
         /\ j # k /\ where'[j] # "outside" /\ where'[k] # "outside"
            => place'[j] # place'[k]
  BY <1>1, <1>2 DEF TypeOK, WellFormed
<1> QED BY <1>4, <1>5, <1>6, <1>7 DEF WellFormed

\* get_memory pushes an item from the heap on the allocated list.
LEMMA GrowKeepsLists ==
    ASSUME TypeOK, WellFormed, NEW t \in Threads, GetDynamic(t)
    PROVE  WellFormed'
<1>1. PICK i \in HeapItems:
        /\ i \in Items
        /\ where[i] = "outside"
        /\ next' = [next EXCEPT ![i] = allocateditems]
        /\ prev' = [j \in Items |-> IF j = i THEN NULL
                                    ELSE IF j = allocateditems THEN i ELSE prev[j]]
        /\ allocateditems' = i /\ freeitems' = freeitems
        /\ where' = [where EXCEPT ![i] = "allocated"]
        /\ place' = [place EXCEPT ![i] = ops + 1] /\ ops' = ops + 1
  BY PoolAssumption DEF GetDynamic, Pushed, PushNext, PushPrev
<1>2. next[i] = NULL /\ prev[i] = NULL /\ freeitems # i /\ allocateditems # i
  BY <1>1, PoolAssumption DEF WellFormed, Chained
<1>3. Chained("free", freeitems)'
  BY <1>1, <1>2, PoolAssumption DEF TypeOK, WellFormed, Chained
<1>4. Chained("allocated", allocateditems)'
  BY <1>1, <1>2, PoolAssumption DEF TypeOK, WellFormed, Chained
<1>5. \A j \in Items: where'[j] = "outside" => next'[j] = NULL /\ prev'[j] = NULL
  BY <1>1, <1>2, PoolAssumption DEF TypeOK, WellFormed, Chained
<1>6. \A j, k \in Items:
         /\ place'[j] <= ops'
         /\ j # k /\ where'[j] # "outside" /\ where'[k] # "outside"
            => place'[j] # place'[k]
  BY <1>1, <1>2 DEF TypeOK, WellFormed
<1> QED BY <1>3, <1>4, <1>5, <1>6 DEF WellFormed

-----------------------------------------------------------------------------
\* The list of the allocated items, with its head h and its pointers n and p,
\* where w says which they are and q when they were pushed.
IsChain(h, n, p, w, q) ==
    LET In == {j \in Items: w[j] = "allocated"} IN
    /\ h = NULL => In = {}
    /\ h # NULL => h \in In /\ \A j \in In: q[j] <= q[h]
    /\ \A j \in In:
         /\ p[j] = NULL <=> j = h
         /\ p[j] # NULL => p[j] \in In /\ n[p[j]] = j
         /\ n[j] # NULL => n[j] \in In /\ p[n[j]] = j /\ q[n[j]] < q[j]
         /\ \A k \in In: q[k] < q[j] => n[j] # NULL /\ q[k] <= q[n[j]]

\* The allocated items but i, which is unlinked, are allocated as before.
OthersKept(i, n, p, w, q) ==
    /\ \A j \in Items: where[j] = "allocated" /\ j # i =>
         /\ n[j] = NextWithout(i)[j] /\ p[j] = PrevWithout(i)[j]
         /\ q[j] = place[j]
    /\ \A j \in Items: w[j] = "allocated" <=> where[j] = "allocated" /\ j # i

\* What the neighbours of an allocated item are, and what unlinking it gives:
\* the common part of both forms of put_memory.
LEMMA Unlinked ==
    ASSUME TypeOK, WellFormed, NEW i \in Items, where[i] = "allocated",
           NEW n \in [Items -> Items \cup {NULL}],
           NEW p \in [Items -> Items \cup {NULL}],
           NEW w \in [Items -> {"free", "allocated", "outside"}],
           NEW q \in [Items -> Nat],
           NEW h \in Items \cup {NULL},
           h = IF allocateditems = i THEN next[i] ELSE allocateditems,
           OthersKept(i, n, p, w, q)
    PROVE  IsChain(h, n, p, w, q)
<1> DEFINE A == {j \in Items: where[j] = "allocated"}
           In == {j \in Items: w[j] = "allocated"}
<1>1. In = A \ {i} /\ i \in A
  BY DEF OthersKept
<1>2. /\ allocateditems \in A /\ \A j \in A: place[j] <= place[allocateditems]
      /\ \A j \in A:
           /\ prev[j] = NULL <=> j = allocateditems
           /\ prev[j] # NULL => prev[j] \in A /\ next[prev[j]] = j
           /\ next[j] # NULL => /\ next[j] \in A /\ prev[next[j]] = j
                                /\ place[next[j]] < place[j]
           /\ \A k \in A: place[k] < place[j] =>
                next[j] # NULL /\ place[k] <= place[next[j]]
  BY <1>1 DEF WellFormed, Chained
<1>3. \A j, k \in A: j # k => place[j] # place[k]
  BY DEF WellFormed
<1>4. \A j \in In: /\ n[j] = IF j = prev[i] THEN next[i] ELSE next[j]
                   /\ p[j] = IF j = next[i] THEN prev[i] ELSE prev[j]
                   /\ q[j] = place[j]
  BY <1>1, PoolAssumption DEF OthersKept, NextWithout, PrevWithout, TypeOK
<1>5. \A j \in A: place[j] \in Nat
  BY DEF TypeOK
<1>6. NULL \notin A
  BY PoolAssumption
<1> HIDE DEF A, In
<1>7. h = NULL => In = {}
  BY <1>1, <1>2, <1>3, <1>5, <1>6
<1>8. h # NULL => h \in In /\ \A j \in In: q[j] <= q[h]
  BY <1>1, <1>2, <1>3, <1>4, <1>5, <1>6
<1>9. ASSUME NEW j \in In
      PROVE  /\ p[j] = NULL <=> j = h
             /\ p[j] # NULL => p[j] \in In /\ n[p[j]] = j
  BY <1>1, <1>2, <1>3, <1>4, <1>5, <1>6
<1>10. ASSUME NEW j \in In
       PROVE  n[j] # NULL => n[j] \in In /\ p[n[j]] = j /\ q[n[j]] < q[j]
  BY <1>1, <1>2, <1>3, <1>4, <1>5, <1>6
<1>11. ASSUME NEW j \in In, NEW k \in In, q[k] < q[j]
       PROVE  n[j] # NULL /\ q[k] <= q[n[j]]
  <2>1. /\ j \in A /\ k \in A /\ k # i /\ j # i /\ i \in A
        /\ q[k] = place[k] /\ q[j] = place[j] /\ place[k] < place[j]
    BY <1>1, <1>4, <1>11
  <2>2. next[j] # NULL /\ place[k] <= place[next[j]] /\ next[j] \in A
    BY <1>2, <2>1
  <2>3. CASE j = prev[i]
    <3>1. next[j] = i /\ n[j] = next[i]
      BY <1>2, <1>4, <1>6, <2>1, <2>3
    <3>2. place[k] < place[i]
      BY <1>3, <1>5, <2>1, <2>2, <3>1
    <3>3. /\ next[i] # NULL /\ place[k] <= place[next[i]]
          /\ next[i] \in A /\ place[next[i]] < place[i]
      BY <1>2, <2>1, <3>2
    <3>4. next[i] \in In
      BY <1>1, <1>5, <3>3
    <3> QED BY <1>4, <2>1, <3>1, <3>3, <3>4
  <2>4. CASE j # prev[i]
    <3>1. next[j] # i
      BY <1>2, <2>1, <2>2, <2>4
    <3>2. next[j] \in In
      BY <1>1, <2>2, <3>1
    <3> QED BY <1>4, <1>11, <2>1, <2>2, <2>4, <3>2
  <2> QED BY <2>3, <2>4
<1> QED BY <1>7, <1>8, <1>9, <1>10, <1>11 DEF IsChain, In

\* The item that put_memory is called with, for an element in use: it is in the
\* allocated list, or it is the mem of an element from the heap, in no list.
LEMMA ItemPutIs ==
    ASSUME TypeOK, HeapAccounted, NEW i \in held
    PROVE  /\ i \in Items /\ where[i] = "allocated" /\ ItemPut(i) \in Items
           /\ \/ ItemPut(i) = i /\ (embedded => i \notin HeapItems)
              \/ /\ embedded /\ i \in HeapItems /\ ItemPut(i) = MemOf[i]
                 /\ ItemPut(i) \notin HeapItems /\ where[ItemPut(i)] = "outside"
<1>1. i \in Items /\ where[i] = "allocated"
  BY DEF HeapAccounted, Allocated, TypeOK
<1>2. CASE embedded /\ i \in HeapItems
  <2>1. MemOf[i] \in Items /\ MemOf[i] \notin HeapItems
    BY <1>2, PoolAssumption
  <2>2. where[MemOf[i]] = "outside"
    BY <1>2 DEF HeapAccounted
  <2> QED BY <1>1, <1>2, <2>1, <2>2 DEF ItemPut
<1>3. CASE ~ (embedded /\ i \in HeapItems)
  BY <1>1, <1>3 DEF ItemPut
<1> QED BY <1>2, <1>3

\* put_memory of an item that is allocated and not dynamic moves it to the head
\* of the free list; the mem of an element from the heap is new there.
LEMMA PutKeepsLists ==
    ASSUME TypeOK, WellFormed, HeapAccounted,
           NEW t \in Threads, NEW e \in Items, PutStatic(t, e)
    PROVE  WellFormed'
<1> DEFINE i == ItemPut(e)
<1>0. i \in Items /\ where[i] \in {"allocated", "outside"}
  BY ItemPutIs DEF PutStatic, MayPut
<1>p. /\ Pushed(i, "free") /\ freeitems' = i
      /\ allocateditems' = IF allocateditems = i THEN next[i] ELSE allocateditems
      /\ next' = PushNext(NextWithout(i), i, freeitems)
      /\ prev' = PushPrev(PrevWithout(i), i, freeitems)
  BY DEF PutStatic
<1> HIDE DEF i
<1>f. CASE where[i] = "outside"
  <2>1. next[i] = NULL /\ prev[i] = NULL /\ allocateditems # i
    BY <1>0, <1>f, PoolAssumption DEF WellFormed, Chained
  <2>2. NextWithout(i) = next /\ PrevWithout(i) = prev
    BY <2>1 DEF NextWithout, PrevWithout
  <2>3. /\ next' = PushNext(next, i, freeitems) /\ prev' = PushPrev(prev, i, freeitems)
        /\ freeitems' = i /\ allocateditems' = allocateditems /\ Pushed(i, "free")
    BY <1>p, <2>1, <2>2
  <2> QED BY <1>0, <1>f, <2>3, PushKeepsLists
<1>a. SUFFICES ASSUME where[i] = "allocated"
               PROVE  WellFormed'
  BY <1>0, <1>f
<1>1. /\ i \in Items /\ where[i] = "allocated"
      /\ where' = [where EXCEPT ![i] = "free"]
      /\ place' = [place EXCEPT ![i] = ops + 1] /\ ops' = ops + 1
      /\ allocateditems' = IF allocateditems = i THEN next[i] ELSE allocateditems
      /\ freeitems' = i
      /\ next' = [NextWithout(i) EXCEPT ![i] = freeitems]
      /\ prev' = [j \in Items |-> IF j = i THEN NULL
                                  ELSE IF j = freeitems THEN i
                                  ELSE PrevWithout(i)[j]]
  BY <1>0, <1>p, <1>a DEF Pushed, PushNext, PushPrev
<1>2. /\ next' \in [Items -> Items \cup {NULL}]
      /\ prev' \in [Items -> Items \cup {NULL}]
      /\ NextWithout(i) \in [Items -> Items \cup {NULL}]
      /\ PrevWithout(i) \in [Items -> Items \cup {NULL}]
      /\ where' \in [Items -> {"free", "allocated", "outside"}]
      /\ place' \in [Items -> Nat]
      /\ allocateditems' \in Items \cup {NULL}
  BY <1>1 DEF NextWithout, PrevWithout, TypeOK
<1>3. /\ freeitems # NULL => freeitems \in Items /\ where[freeitems] = "free"
      /\ freeitems # i
  BY <1>1, PoolAssumption DEF WellFormed, Chained, TypeOK
<1>4. \A j \in Items: where[j] = "allocated" /\ j # i =>
         /\ next'[j] = NextWithout(i)[j] /\ prev'[j] = PrevWithout(i)[j]
         /\ place'[j] = place[j]
  <2>1. \A j \in Items: where[j] = "allocated" => j # freeitems
    BY <1>3, PoolAssumption
  <2> QED BY <1>1, <1>2, <2>1 DEF TypeOK
<1>5. \A j \in Items: where'[j] = "allocated" <=> where[j] = "allocated" /\ j # i
  BY <1>1 DEF TypeOK
<1>6. Chained("allocated", allocateditems)'
  <2> DEFINE h == allocateditems'
             n == next'
             p == prev'
             w == where'
             q == place'
  <2> HIDE DEF h, n, p, w, q
  <2>1. IsChain(h, n, p, w, q)
    <3>1. h = IF allocateditems = i THEN next[i] ELSE allocateditems
      BY <1>1 DEF h
    <3>2. /\ n \in [Items -> Items \cup {NULL}]
          /\ p \in [Items -> Items \cup {NULL}]
          /\ w \in [Items -> {"free", "allocated", "outside"}]
          /\ q \in [Items -> Nat]
          /\ h \in Items \cup {NULL}
      BY <1>2 DEF h, n, p, w, q
    <3>3. OthersKept(i, n, p, w, q)
      BY <1>4, <1>5 DEF OthersKept, n, p, w, q
    <3>4. where[i] = "allocated" /\ i \in Items
      BY <1>1
    <3> QED BY <3>1, <3>2, <3>3, <3>4, Unlinked
  <2> QED BY <2>1 DEF IsChain, Chained, h, n, p, w, q
<1>7. /\ \A j \in Items: where[j] = "free" =>
            /\ next'[j] = next[j] /\ place'[j] = place[j] /\ j # i
            /\ prev'[j] = IF j = freeitems THEN i ELSE prev[j]
            /\ where'[j] = "free"
      /\ \A j \in Items: where'[j] = "free" <=> where[j] = "free" \/ j = i
      /\ next'[i] = freeitems /\ prev'[i] = NULL /\ place'[i] = ops + 1
  <2>1. \A j \in Items: where[j] = "free" => j # prev[i] /\ j # next[i]
    BY <1>1, PoolAssumption DEF WellFormed, Chained
  <2> QED BY <1>1, <1>2, <2>1 DEF NextWithout, PrevWithout, TypeOK
<1>8. Chained("free", freeitems)'
  BY <1>1, <1>3, <1>7, PoolAssumption DEF WellFormed, Chained, TypeOK
<1>9. \A j \in Items: where'[j] = "outside" => next'[j] = NULL /\ prev'[j] = NULL
  <2>1. \A j \in Items: where[j] = "outside" =>
            j # prev[i] /\ j # next[i] /\ j # i /\ j # freeitems
    BY <1>1, <1>3, PoolAssumption DEF WellFormed, Chained
  <2> QED BY <1>1, <1>2, <2>1 DEF NextWithout, PrevWithout, TypeOK, WellFormed
<1>10. \A j, k \in Items:
         /\ place'[j] <= ops'
         /\ j # k /\ where'[j] # "outside" /\ where'[k] # "outside"
            => place'[j] # place'[k]
  BY <1>1 DEF TypeOK, WellFormed
<1> QED BY <1>6, <1>8, <1>9, <1>10 DEF WellFormed

\* put_memory of a dynamic item unlinks it and gives it back to the heap.
LEMMA FreeKeepsLists ==
    ASSUME TypeOK, WellFormed, HeapAccounted,
           NEW t \in Threads, NEW i \in Items, PutDynamic(t, i)
    PROVE  WellFormed'
<1>1. /\ where[i] = "allocated"
      /\ where' = [where EXCEPT ![i] = "outside"]
      /\ place' = place /\ ops' = ops
      /\ allocateditems' = IF allocateditems = i THEN next[i] ELSE allocateditems
      /\ freeitems' = freeitems
      /\ next' = [NextWithout(i) EXCEPT ![i] = NULL]
      /\ prev' = [PrevWithout(i) EXCEPT ![i] = NULL]
  BY ItemPutIs DEF PutDynamic, MayPut
<1>2. /\ next' \in [Items -> Items \cup {NULL}]
      /\ prev' \in [Items -> Items \cup {NULL}]
      /\ NextWithout(i) \in [Items -> Items \cup {NULL}]
      /\ PrevWithout(i) \in [Items -> Items \cup {NULL}]
      /\ where' \in [Items -> {"free", "allocated", "outside"}]
      /\ place' \in [Items -> Nat]
      /\ allocateditems' \in Items \cup {NULL}
  BY <1>1 DEF NextWithout, PrevWithout, TypeOK
<1>3. \A j \in Items: where[j] = "allocated" /\ j # i =>
         /\ next'[j] = NextWithout(i)[j] /\ prev'[j] = PrevWithout(i)[j]
         /\ place'[j] = place[j]
  BY <1>1, <1>2
<1>4. \A j \in Items: where'[j] = "allocated" <=> where[j] = "allocated" /\ j # i
  BY <1>1 DEF TypeOK
<1>5. Chained("allocated", allocateditems)'
  <2> DEFINE h == allocateditems'
             n == next'
             p == prev'
             w == where'
             q == place'
  <2> HIDE DEF h, n, p, w, q
  <2>1. IsChain(h, n, p, w, q)
    <3>1. h = IF allocateditems = i THEN next[i] ELSE allocateditems
      BY <1>1 DEF h
    <3>2. /\ n \in [Items -> Items \cup {NULL}]
          /\ p \in [Items -> Items \cup {NULL}]
          /\ w \in [Items -> {"free", "allocated", "outside"}]
          /\ q \in [Items -> Nat]
          /\ h \in Items \cup {NULL}
      BY <1>2 DEF h, n, p, w, q
    <3>3. OthersKept(i, n, p, w, q)
      BY <1>3, <1>4 DEF OthersKept, n, p, w, q
    <3>4. where[i] = "allocated"
      BY <1>1
    <3> QED BY <3>1, <3>2, <3>3, <3>4, Unlinked
  <2> QED BY <2>1 DEF IsChain, Chained, h, n, p, w, q
<1>6. \A j \in Items: where[j] # "allocated" =>
         /\ next'[j] = next[j] /\ prev'[j] = prev[j] /\ j # i
         /\ where'[j] = where[j] /\ place'[j] = place[j]
  <2>1. \A j \in Items: where[j] # "allocated" => j # prev[i] /\ j # next[i]
    BY <1>1, PoolAssumption DEF WellFormed, Chained
  <2> QED BY <1>1, <1>2, <2>1 DEF NextWithout, PrevWithout, TypeOK
<1>7. Chained("free", freeitems)'
  <2>1. \A j \in Items: where'[j] = "free" <=> where[j] = "free"
    BY <1>1 DEF TypeOK
  <2> QED BY <1>1, <1>6, <2>1 DEF WellFormed, Chained
<1>8. \A j \in Items: where'[j] = "outside" => next'[j] = NULL /\ prev'[j] = NULL
  BY <1>1, <1>2, <1>6 DEF WellFormed, TypeOK
<1>9. \A j, k \in Items:
         /\ place'[j] <= ops'
         /\ j # k /\ where'[j] # "outside" /\ where'[k] # "outside"
            => place'[j] # place'[k]
  BY <1>1 DEF TypeOK, WellFormed
<1> QED BY <1>5, <1>7, <1>8, <1>9 DEF WellFormed

-----------------------------------------------------------------------------
\* What put_memory does to the elements in use.
LEMMA PutsAccounted ==
    ASSUME TypeOK, WellFormed, HeapAccounted,
           NEW t \in Threads, NEW i \in Items, PutStatic(t, i) \/ PutDynamic(t, i)
    PROVE  HeapAccounted'
<1>1. /\ i \in held /\ held' = held \ {i} /\ embedded' = embedded
      /\ where[i] = "allocated" /\ ItemPut(i) \in Items
  BY ItemPutIs DEF PutStatic, PutDynamic, MayPut
<1>2. /\ held \in SUBSET (Items \ WithoutData) /\ i \in Items \ WithoutData
      /\ dynamic \in SUBSET HeapItems
      /\ where \in [Items -> {"free", "allocated", "outside"}]
  BY <1>1 DEF TypeOK
<1>3. \A d \in HeapItems:
        /\ d \in Items /\ MemOf[d] \in Items
        /\ MemOf[d] \notin HeapItems /\ MemOf[d] \in WithoutData
        /\ \A e \in HeapItems: MemOf[d] = MemOf[e] => d = e
  BY PoolAssumption DEF WithoutData
<1>4. CASE PutDynamic(t, i)
  <2>1. /\ where' = [where EXCEPT ![i] = "outside"] /\ dynamic' = dynamic \ {i}
        /\ i \in HeapItems /\ ~ embedded
    <3>1. ItemPut(i) \in dynamic
      BY <1>4 DEF PutDynamic
    <3> QED BY <1>1, <1>2, <1>3, <1>4, <3>1, ItemPutIs DEF PutDynamic
  <2> QED BY <1>1, <1>2, <1>3, <2>1 DEF HeapAccounted, Allocated
<1>5. CASE PutStatic(t, i)
  <2> DEFINE p == ItemPut(i)
  <2>1. where' = [where EXCEPT ![p] = "free"] /\ dynamic' = dynamic /\ p \notin dynamic
    BY <1>5 DEF PutStatic, Pushed
  <2>2. CASE i \notin HeapItems
    <3>1. p = i
      BY <1>3, <2>2 DEF ItemPut
    <3> QED BY <1>1, <1>2, <1>3, <2>1, <2>2, <3>1 DEF HeapAccounted, Allocated
  <2>3. CASE i \in HeapItems
    <3>1. embedded /\ p = MemOf[i]
      <4>1. i \in dynamic
        BY <1>1, <2>3 DEF HeapAccounted
      <4> QED BY <1>1, <2>1, <2>3, <4>1 DEF ItemPut
    <3> HIDE DEF p
    <3>2. held' \subseteq Allocated'
      BY <1>1, <1>2, <1>3, <2>1, <2>3, <3>1 DEF HeapAccounted, Allocated
    <3>3. ASSUME NEW d \in HeapItems
          PROVE  /\ where'[d] = where[d]
                 /\ where'[MemOf[d]] # "outside" <=> where[MemOf[d]] # "outside" \/ d = i
      BY <1>1, <1>2, <1>3, <2>1, <2>3, <3>1
    <3> QED BY <1>1, <1>2, <1>3, <2>1, <2>3, <3>1, <3>2, <3>3 DEF HeapAccounted, Allocated
  <2> QED BY <2>2, <2>3
<1> QED BY <1>4, <1>5

\* The lists and the account of the heap, each of which the other needs.
PoolInv == WellFormed /\ HeapAccounted

LEMMA PoolInvariant == Spec => []PoolInv
<1>1. Init => PoolInv
  BY PoolAssumption DEF Init, PoolInv, WellFormed, Chained, HeapAccounted, Allocated
<1>2. TypeOK /\ PoolInv /\ [Next]_vars => PoolInv'
  <2> SUFFICES ASSUME TypeOK, WellFormed, HeapAccounted, [Next]_vars
               PROVE  WellFormed' /\ HeapAccounted'
    BY DEF PoolInv
  <2>1. ASSUME NEW i \in Items, InitItem(i)
        PROVE  WellFormed' /\ HeapAccounted'
    <3>1. /\ i \in StaticItems /\ where[i] = "outside"
          /\ where' = [where EXCEPT ![i] = "free"]
          /\ dynamic' = dynamic /\ held' = held /\ embedded' = embedded
      BY <2>1 DEF InitItem, Pushed
    <3>2. \A j \in Items \ StaticItems: where'[j] = where[j]
      BY <3>1 DEF TypeOK
    <3>3. held' \subseteq Allocated'
      BY <3>1 DEF HeapAccounted, Allocated, TypeOK
    <3>4. HeapAccounted'
      BY <3>1, <3>2, <3>3, PoolAssumption DEF HeapAccounted, Allocated
    <3> QED BY <2>1, <3>4, InitKeepsLists
  <2>2. ASSUME NEW t \in Threads, GetStatic(t)
        PROVE  WellFormed' /\ HeapAccounted'
    <3> DEFINE i == freeitems
    <3>1. i \in Items /\ where[i] = "free" /\ i \notin HeapItems
      BY <2>2 DEF GetStatic, WellFormed, Chained, HeapAccounted
    <3>2. /\ where' = [where EXCEPT ![i] = "allocated"]
          /\ dynamic' = dynamic /\ embedded' = embedded
          /\ held' = held \cup ({i} \ WithoutData)
      BY <2>2 DEF GetStatic, Pushed
    <3> HIDE DEF i
    <3>3. \A j \in Items: /\ where'[j] = "outside" <=> where[j] = "outside"
                          /\ where[j] = "allocated" => where'[j] = "allocated"
                          /\ j # i => where'[j] = where[j]
      BY <3>1, <3>2 DEF TypeOK
    <3>4. held' \subseteq Allocated'
      BY <3>1, <3>2, <3>3 DEF HeapAccounted, Allocated, TypeOK
    <3>5. \A d \in HeapItems: d \in held' <=> d \in held
      BY <3>1, <3>2
    <3>6. HeapAccounted'
      BY <3>1, <3>2, <3>3, <3>4, <3>5, PoolAssumption DEF HeapAccounted, Allocated
    <3> QED BY <2>2, <3>6, GetKeepsLists
  <2>3. ASSUME NEW t \in Threads, GetDynamic(t)
        PROVE  WellFormed' /\ HeapAccounted'
    <3>1. PICK i \in HeapItems:
            /\ where[i] = "outside"
            /\ where' = [where EXCEPT ![i] = "allocated"]
            /\ dynamic' = dynamic \cup {i} /\ held' = held \cup {i}
            /\ embedded' = embedded
      BY <2>3 DEF GetDynamic, Pushed
    <3>2. \A j \in Items: /\ where'[j] = "outside" <=> where[j] = "outside" /\ j # i
                          /\ j # i => where'[j] = where[j]
                          /\ where'[j] = "allocated" <=> where[j] = "allocated" \/ j = i
      BY <3>1 DEF TypeOK
    <3>3. held' \subseteq Allocated'
      BY <3>1, <3>2, PoolAssumption DEF HeapAccounted, Allocated
    <3>4. HeapAccounted'
      BY <3>1, <3>2, <3>3, PoolAssumption DEF HeapAccounted, Allocated
    <3> QED BY <2>3, <3>4, GrowKeepsLists
  <2>4. ASSUME NEW t \in Threads, NEW i \in Items, PutStatic(t, i) \/ PutDynamic(t, i)
        PROVE  WellFormed' /\ HeapAccounted'
    BY <2>4, PutKeepsLists, FreeKeepsLists, PutsAccounted
  <2>5. ASSUME UNCHANGED <<links, dynamic, embedded, held, where, place, ops>>
        PROVE  WellFormed' /\ HeapAccounted'
    BY <2>5, SameLists DEF HeapAccounted, Allocated
  <2> QED
    BY <2>1, <2>2, <2>3, <2>4, <2>5 DEF Next, WalkStart, WalkStep, vars, links
<1> QED BY <1>1, <1>2, PoolTypeCorrect, PTL DEF Spec

\* The lists of a pool are well formed whatever get_memory and put_memory are
\* called for, the mem of elements from the heap included.
THEOREM ListsWellFormed == Spec => []WellFormed
<1>1. PoolInv => WellFormed
  BY DEF PoolInv
<1> QED BY <1>1, PoolInvariant, PTL

\* Memory of the heap that a list refers to has not been given back, and an
\* element that is put back by its mem costs its item for good and leaves one
\* item without data in the lists.
THEOREM HeapIsAccounted == Spec => []HeapAccounted
<1>1. PoolInv => HeapAccounted
  BY DEF PoolInv
<1> QED BY <1>1, PoolInvariant, PTL

-----------------------------------------------------------------------------
\* A walk without the mutex is safe from everything but a destruction: it
\* stays on allocated items and reaches all that were there when it began.
WalkSafe == WalkStaysAllocated /\ WalkMissesNothing

\* A walk is safe as long as nobody gives an item back during it.
LEMMA WalkSafeWithoutPut ==
    ASSUME ~ PutDuringWalk
    PROVE  Spec => []WalkSafe
<1>1. Init => WalkSafe
  BY DEF Init, WalkSafe, WalkStaysAllocated, WalkMissesNothing, Walking
<1>2. TypeOK /\ WellFormed /\ WalkSafe /\ [Next]_vars => WalkSafe'
  <2> SUFFICES ASSUME TypeOK, WellFormed, WalkSafe, [Next]_vars
               PROVE  WalkSafe'
    OBVIOUS
  <2> USE DEF WalkSafe, WalkStaysAllocated, WalkMissesNothing, Walking, Allocated
  <2>1. ASSUME NEW i \in Items, InitItem(i)
        PROVE  WalkSafe'
    BY <2>1 DEF InitItem, Pushed, walks, TypeOK
  <2>2. ASSUME NEW t \in Threads, GetStatic(t)
        PROVE  WalkSafe'
    <3>1. freeitems \in Items /\ where[freeitems] = "free"
      BY <2>2 DEF GetStatic, WellFormed, Chained
    <3> QED BY <2>2, <3>1 DEF GetStatic, Pushed, walks, TypeOK
  <2>3. ASSUME NEW t \in Threads, GetDynamic(t)
        PROVE  WalkSafe'
    BY <2>3 DEF GetDynamic, Pushed, walks, TypeOK
  <2>4. ASSUME NEW t \in Threads, NEW i \in Items, PutStatic(t, i) \/ PutDynamic(t, i)
        PROVE  WalkSafe'
    <3>1. \A u \in Threads: cursor'[u] = NULL /\ pending'[u] = {}
      BY <2>4 DEF PutStatic, PutDynamic, MayPut, walks
    <3> QED BY <3>1
  <2>5. ASSUME NEW t \in Threads, WalkStart(t)
        PROVE  WalkSafe'
    <3>1. /\ allocateditems \in Items /\ where[allocateditems] = "allocated"
          /\ \A i \in Allocated \ {allocateditems}:
                place[i] < place[allocateditems]
      <4>1. /\ allocateditems \in Items /\ where[allocateditems] = "allocated"
            /\ \A i \in Allocated: place[i] <= place[allocateditems]
        BY <2>5 DEF WalkStart, WellFormed, Chained
      <4>2. \A i \in Allocated \ {allocateditems}:
                place[i] # place[allocateditems]
        BY <4>1 DEF WellFormed
      <4> QED BY <4>1, <4>2 DEF TypeOK
    <3> QED BY <2>5, <3>1 DEF WalkStart, links, TypeOK
  <2>6. ASSUME NEW t \in Threads, WalkStep(t)
        PROVE  WalkSafe'
    <3> DEFINE c == cursor[t]
    <3>1. c \in Items /\ where[c] = "allocated" /\ c # NULL
      BY <2>6 DEF WalkStep, TypeOK
    <3>2. next[c] # NULL => next[c] \in Items /\ where[next[c]] = "allocated"
      BY <3>1 DEF WellFormed, Chained
    <3>3. \A i \in pending[t]: /\ i \in Allocated /\ next[c] # NULL
                               /\ i # next[c] => place[i] < place[next[c]]
      <4> TAKE i \in pending[t]
      <4>1. i \in Items /\ where[i] = "allocated" /\ place[i] < place[c]
        OBVIOUS
      <4>2. next[c] # NULL /\ place[i] <= place[next[c]]
        BY <3>1, <4>1 DEF WellFormed, Chained
      <4> QED BY <3>2, <4>1, <4>2 DEF WellFormed, TypeOK
    <3>4. /\ cursor' = [cursor EXCEPT ![t] = next[c]]
          /\ pending' = [pending EXCEPT ![t] = @ \ {next[c]}]
          /\ where' = where /\ place' = place
      BY <2>6 DEF WalkStep
    <3> HIDE DEF c
    <3> QED BY <3>2, <3>3, <3>4 DEF TypeOK
  <2>7. CASE UNCHANGED vars
    BY <2>7 DEF vars
  <2> QED BY <2>1, <2>2, <2>3, <2>4, <2>5, <2>6, <2>7 DEF Next
<1> QED
  BY <1>1, <1>2, PoolTypeCorrect, ListsWellFormed, PTL DEF Spec, WalkSafe

\* A callback that follows next without the mutex of the pool stands on an
\* allocated item all the way, as long as nothing is put back meanwhile.
THEOREM WalksStayAllocated ==
    ASSUME ~ PutDuringWalk
    PROVE  Spec => []WalkStaysAllocated
<1>1. WalkSafe => WalkStaysAllocated
  BY DEF WalkSafe
<1> QED BY <1>1, WalkSafeWithoutPut, PTL

\* Under the same assumption every item that was allocated when the callback
\* began, and has not been visited, is still ahead of it.
THEOREM WalksMissNothing ==
    ASSUME ~ PutDuringWalk
    PROVE  Spec => []WalkMissesNothing
<1>1. WalkSafe => WalkMissesNothing
  BY DEF WalkSafe
<1> QED BY <1>1, WalkSafeWithoutPut, PTL

-----------------------------------------------------------------------------
\* The path that starts at h and follows the pointers n to their end: what
\* the code calls a list.
IsPath(q, n, h) ==
    /\ q \in Seq(Items) /\ IsInjective(q)
    /\ q = <<>> <=> h = NULL
    /\ q # <<>> => q[1] = h
    /\ \A k \in 1..Len(q): n[q[k]] = IF k = Len(q) THEN NULL ELSE q[k + 1]

\* f gives the walks of at most m items along n.
Walks(f, n, m) ==
    f = [k \in 0..m |->
            [i \in Items \cup {NULL} |->
                IF k = 0 \/ i = NULL THEN <<>> ELSE <<i>> \o f[k - 1][n[i]]]]

\* For every number of items there is such an f: the least number without one
\* would follow a number with one, whose f can be continued by a row.
LEMMA WalksExist ==
    ASSUME NEW n \in [Items -> Items \cup {NULL}], NEW m \in Nat
    PROVE  \E f: Walks(f, n, m)
<1> DEFINE S == {k \in Nat: ~ \E f: Walks(f, n, k)}
<1>1. S # {} => \E k \in S: \A j \in S: k <= j
  BY LeastNatural
<1>2. 0 \notin S
  <2> DEFINE f == [k \in {0} |-> [i \in Items \cup {NULL} |-> <<>>]]
  <2>1. Walks(f, n, 0)
    <3>1. 0..0 = {0}
      OBVIOUS
    <3> QED BY <3>1 DEF Walks
  <2> QED BY <2>1
<1>3. ASSUME NEW k \in Nat, \E f: Walks(f, n, k)
      PROVE  \E f: Walks(f, n, k + 1)
  <2>1. PICK f: Walks(f, n, k)
    BY <1>3
  <2> DEFINE Row(j, g) == [i \in Items \cup {NULL} |->
                             IF j = 0 \/ i = NULL THEN <<>> ELSE <<i>> \o g[j - 1][n[i]]]
             g == [j \in 0..(k + 1) |-> IF j <= k THEN f[j] ELSE Row(j, f)]
  <2>2. \A j \in 0..k: f[j] = Row(j, f)
    BY <2>1 DEF Walks
  <2>3. ASSUME NEW j \in 0..(k + 1)
        PROVE  g[j] = Row(j, g)
    <3>1. g[j] = Row(j, f)
      <4> HIDE DEF Row
      <4>1. g[j] = IF j <= k THEN f[j] ELSE Row(j, f)
        OBVIOUS
      <4>2. j <= k => j \in 0..k
        OBVIOUS
      <4> QED BY <2>2, <4>1, <4>2
    <3>2. j # 0 => j - 1 \in 0..k /\ g[j - 1] = f[j - 1]
      OBVIOUS
    <3>3. Row(j, f) = Row(j, g)
      <4> HIDE DEF g
      <4>1. CASE j = 0
        BY <4>1
      <4>2. CASE j # 0
        BY <3>2, <4>2
      <4> QED BY <4>1, <4>2
    <3> QED BY <3>1, <3>3
  <2>4. g = [j \in 0..(k + 1) |-> Row(j, g)]
    <3>1. g = [j \in 0..(k + 1) |-> g[j]]
      OBVIOUS
    <3> HIDE DEF g, Row
    <3> QED BY <2>3, <3>1
  <2>5. Walks(g, n, k + 1)
    BY <2>4 DEF Walks
  <2> QED BY <2>5
<1>4. S = {}
  <2> SUFFICES ASSUME NEW k \in S, \A j \in S: k <= j
               PROVE  FALSE
    BY <1>1
  <2>1. k \in Nat /\ k # 0
    BY <1>2
  <2>2. k - 1 \in Nat /\ ~ (k <= k - 1)
    BY <2>1
  <2>3. k - 1 \notin S
    <3> HIDE DEF S
    <3> QED BY <2>2
  <2>4. \E f: Walks(f, n, (k - 1) + 1)
    BY <1>3, <2>2, <2>3
  <2>5. (k - 1) + 1 = k
    BY <2>1
  <2> QED BY <2>4, <2>5
<1> QED BY <1>4

\* So the recursion of Chain has a solution, and Chain reads it.
LEMMA ChainIsWalk ==
    ASSUME NEW n \in [Items -> Items \cup {NULL}], NEW h
    PROVE  \E f: Walks(f, n, Cardinality(Items)) /\ Chain(n, h) = f[Cardinality(Items)][h]
<1> DEFINE f == CHOOSE walk: Walks(walk, n, Cardinality(Items))
<1>1. Cardinality(Items) \in Nat
  BY PoolAssumption, FS_CardinalityType
<1>2. Walks(f, n, Cardinality(Items))
  BY <1>1, WalksExist
<1>3. Chain(n, h) = f[Cardinality(Items)][h]
  BY DEF Chain, Walks
<1> QED BY <1>2, <1>3

\* A path is what a walk finds: after its item k there are only Len(q) - k.
LEMMA ChainIsPath ==
    ASSUME NEW n \in [Items -> Items \cup {NULL}], NEW h \in Items \cup {NULL},
           NEW q, IsPath(q, n, h)
    PROVE  Chain(n, h) = q
<1> DEFINE N == Cardinality(Items)
           L == Len(q)
<1>1. N \in Nat /\ L \in Nat /\ DOMAIN q = 1..L /\ q \in [1..L -> Items]
  BY PoolAssumption, FS_CardinalityType, LenProperties DEF IsPath
<1>2. L <= N
  <2>1. q \in Injection(1..L, Items)
    BY <1>1 DEF IsPath, Injection
  <2>2. Cardinality(1..L) <= N
    BY <2>1, PoolAssumption, FS_Injection
  <2>3. Cardinality(1..L) = IF 1 > L THEN 0 ELSE L - 1 + 1
    <3>1. 1 \in Int /\ L \in Int
      BY <1>1
    <3> QED BY <3>1, FS_Interval, Zenon
  <2>4. Cardinality(1..L) = L
    BY <1>1, <2>3
  <2> QED BY <2>2, <2>4
<1>3. PICK f: Walks(f, n, N) /\ Chain(n, h) = f[N][h]
  BY ChainIsWalk
<1> HIDE DEF N, L
<1>4. \A m \in 0..N, i \in Items \cup {NULL}:
        f[m][i] = IF m = 0 \/ i = NULL THEN <<>> ELSE <<i>> \o f[m - 1][n[i]]
  BY <1>3 DEF Walks
<1> DEFINE Reaches(m) == m <= N => \A k \in 1..L: L - k < m => f[m][q[k]] = SubSeq(q, k, L)
           S == {m \in Nat: ~ Reaches(m)}
<1>5. 0 \notin S
  BY <1>1
<1>6. ASSUME NEW m \in Nat, Reaches(m)
      PROVE  Reaches(m + 1)
  <2> SUFFICES ASSUME m + 1 <= N, NEW k \in 1..L, L - k < m + 1
               PROVE  f[m + 1][q[k]] = SubSeq(q, k, L)
    OBVIOUS
  <2>1. m + 1 \in 0..N /\ m \in 0..N /\ m + 1 # 0 /\ (m + 1) - 1 = m
    BY <1>1
  <2>2. q[k] \in Items /\ q[k] # NULL
    BY <1>1, PoolAssumption
  <2>3. f[m + 1][q[k]] = <<q[k]>> \o f[m][n[q[k]]]
    <3> DEFINE r == m + 1
               i == q[k]
    <3>1. r \in 0..N /\ i \in Items \cup {NULL} /\ ~ (r = 0 \/ i = NULL)
      BY <2>1, <2>2
    <3>2. r - 1 = m
      BY <2>1
    <3> HIDE DEF r, i
    <3>3. f[r][i] = <<i>> \o f[r - 1][n[i]]
      BY <1>4, <3>1
    <3> QED BY <3>2, <3>3 DEF r, i
  <2>4. f[m][n[q[k]]] = SubSeq(q, k + 1, L)
    <3>1. CASE k = L
      <4>1. n[q[k]] = NULL
        BY <3>1 DEF IsPath, L
      <4>2. f[m][NULL] = <<>>
        BY <1>4, <2>1
      <4>3. SubSeq(q, k + 1, L) = <<>>
        BY <1>1, <3>1, SubSeqEmpty
      <4> QED BY <4>1, <4>2, <4>3
    <3>2. CASE k # L
      <4>1. n[q[k]] = q[k + 1]
        BY <3>2 DEF IsPath, L
      <4>2. k + 1 \in 1..L /\ L - (k + 1) < m /\ m <= N
        BY <1>1, <3>2
      <4> QED BY <1>6, <4>1, <4>2
    <3> QED BY <3>1, <3>2
  <2>5. SubSeq(q, k, L) = <<q[k]>> \o SubSeq(q, k + 1, L)
    <3>1. q \in Seq(Items) /\ k \in 1..Len(q) /\ L \in k..Len(q)
      BY <1>1 DEF IsPath, L
    <3> QED BY <3>1, SubSeqRecursiveFirst
  <2> QED BY <2>3, <2>4, <2>5
<1>7. Reaches(N)
  <2> HIDE DEF Reaches
  <2>1. S # {} => \E m \in S: \A j \in S: m <= j
    BY LeastNatural
  <2> SUFFICES ASSUME NEW m \in S, \A j \in S: m <= j
               PROVE  FALSE
    BY <1>1, <2>1
  <2>2. m \in Nat /\ m # 0 /\ ~ Reaches(m)
    BY <1>5
  <2>3. m - 1 \in Nat /\ ~ (m <= m - 1) /\ (m - 1) + 1 = m
    BY <2>2
  <2>4. Reaches(m - 1)
    BY <2>3
  <2> QED BY <1>6, <2>2, <2>3, <2>4
<1>8. CASE h = NULL
  <2>1. f[N][NULL] = <<>>
    <3>1. N \in 0..N
      BY <1>1
    <3> QED BY <1>4, <3>1
  <2> QED BY <1>3, <1>8, <2>1 DEF IsPath
<1>9. CASE h # NULL
  <2>1. q # <<>> /\ q[1] = h /\ q \in Seq(Items)
    BY <1>9 DEF IsPath
  <2>2. L # 0
    BY <2>1, EmptySeq DEF L
  <2>3. 1 \in 1..L /\ L - 1 < N
    BY <1>1, <1>2, <2>2
  <2>4. f[N][h] = SubSeq(q, 1, L)
    BY <1>1, <1>7, <2>1, <2>3
  <2> QED BY <1>3, <2>1, <2>4, SubSeqFull DEF L
<1> QED BY <1>8, <1>9

\* Pointers of items elsewhere do not matter to a path.
LEMMA PathSame ==
    ASSUME NEW q, NEW n, NEW m, NEW h, IsPath(q, n, h),
           \A i \in ToSet(q): m[i] = n[i]
    PROVE  IsPath(q, m, h)
<1>1. DOMAIN q = 1..Len(q)
  BY LenProperties DEF IsPath
<1>2. \A k \in 1..Len(q): q[k] \in ToSet(q)
  BY <1>1 DEF ToSet
<1> QED BY <1>2 DEF IsPath

\* An item that points to the head of a path comes first in a longer one.
LEMMA PathPush ==
    ASSUME NEW q, NEW n, NEW h, IsPath(q, n, h), NULL \notin Items,
           NEW i \in Items, i \notin ToSet(q), n[i] = h
    PROVE  IsPath(<<i>> \o q, n, i)
<1> DEFINE p == <<i>> \o q
           L == Len(q)
<1>1. q \in Seq(Items) /\ L \in Nat /\ DOMAIN q = 1..L
  BY LenProperties DEF IsPath
<1>2. p \in Seq(Items) /\ IsInjective(p)
  BY <1>1, PrependedOne DEF IsPath
<1>3. /\ Len(p) = L + 1
      /\ \A k \in 1..(L + 1): p[k] = IF k = 1 THEN i ELSE q[k - 1]
  <2>1. <<i>> \in Seq(Items) /\ Len(<<i>>) = 1 /\ <<i>>[1] = i
    OBVIOUS
  <2>2. /\ Len(p) = 1 + L
        /\ \A k \in 1..(1 + L): p[k] = IF k <= 1 THEN <<i>>[k] ELSE q[k - 1]
    BY <1>1, <2>1, ConcatProperties
  <2> QED BY <1>1, <2>1, <2>2
<1> HIDE DEF p
<1>4. p # <<>> /\ p[1] = i /\ i # NULL
  <2>1. 1 \in 1..(L + 1)
    BY <1>1
  <2>2. Len(p) # 0
    BY <1>1, <1>3
  <2> QED BY <1>3, <2>1, <2>2
<1>5. ASSUME NEW k \in 1..(L + 1)
      PROVE  n[p[k]] = IF k = L + 1 THEN NULL ELSE p[k + 1]
  <2>1. CASE k = 1 /\ L = 0
    <3>1. h = NULL
      <4>1. q = <<>>
        BY <1>1, <2>1, EmptySeq
      <4> QED BY <4>1 DEF IsPath
    <3> QED BY <1>4, <2>1, <3>1
  <2>2. CASE k = 1 /\ L # 0
    <3>1. q # <<>> /\ q[1] = h
      BY <1>1, <2>2, EmptySeq DEF IsPath
    <3>2. p[2] = q[1]
      <4>1. 2 \in 1..(L + 1) /\ 2 # 1 /\ 2 - 1 = 1
        BY <1>1, <2>2
      <4> QED BY <1>3, <4>1
    <3>3. k # L + 1 /\ k + 1 = 2
      BY <1>1, <2>2
    <3> QED BY <1>4, <2>2, <3>1, <3>2, <3>3
  <2>3. CASE k # 1
    <3>1. k - 1 \in 1..L /\ (k - 1 = L <=> k = L + 1) /\ (k - 1) + 1 = k
      BY <1>1, <2>3
    <3>2. p[k] = q[k - 1]
      BY <1>3, <2>3
    <3>3. n[q[k - 1]] = IF k - 1 = L THEN NULL ELSE q[k]
      BY <3>1 DEF IsPath
    <3>4. k # L + 1 => p[k + 1] = q[k]
      <4>1. k # L + 1 => k + 1 \in 1..(L + 1) /\ k + 1 # 1 /\ (k + 1) - 1 = k
        BY <1>1
      <4> QED BY <1>3, <4>1
    <3> QED BY <3>1, <3>2, <3>3, <3>4
  <2> QED BY <2>1, <2>2, <2>3
<1>6. IsPath(p, n, i)
  BY <1>2, <1>3, <1>4, <1>5 DEF IsPath
<1> QED BY <1>6 DEF p

\* Without its first item a path begins at the next one.
LEMMA PathPop ==
    ASSUME NEW q, NEW n, NEW h \in Items, IsPath(q, n, h), NULL \notin Items
    PROVE  /\ q # <<>> /\ Head(q) = h
           /\ IsPath(Tail(q), n, n[h]) /\ ToSet(Tail(q)) \subseteq ToSet(q) \ {h}
<1> DEFINE t == Tail(q)
           L == Len(q)
<1>1. q \in Seq(Items) /\ q # <<>> /\ q[1] = h
  BY DEF IsPath
<1>2. L \in Nat \ {0} /\ Head(q) = q[1]
  BY <1>1, EmptySeq, LenProperties
<1>3. /\ t \in Seq(Items) /\ IsInjective(t)
      /\ ToSet(t) \subseteq ToSet(q) \ {h}
  BY <1>1, <1>2, FirstTaken DEF IsPath
<1>4. Len(t) = L - 1 /\ \A k \in 1..(L - 1): t[k] = q[k + 1]
  BY <1>1, HeadTailProperties
<1> HIDE DEF t, L
<1>5. \A k \in 1..L: n[q[k]] = IF k = L THEN NULL ELSE q[k + 1]
  BY DEF IsPath, L
<1>6. n[h] = IF L = 1 THEN NULL ELSE q[2]
  <2>1. 1 \in 1..L /\ 1 + 1 = 2
    BY <1>2
  <2> QED BY <1>1, <1>5, <2>1
<1>7. t = <<>> <=> n[h] = NULL
  <2>1. t = <<>> <=> L = 1
    BY <1>2, <1>3, <1>4, EmptySeq
  <2>2. L # 1 => q[2] \in Items
    <3>1. L # 1 => 2 \in 1..L
      BY <1>2
    <3> QED BY <1>1, <3>1, ElementOfSeq DEF L
  <2> QED BY <1>6, <2>1, <2>2
<1>8. t # <<>> => t[1] = n[h]
  <2>1. t # <<>> => L # 1 /\ 1 \in 1..(L - 1)
    BY <1>2, <1>3, <1>4, EmptySeq
  <2>2. 1 + 1 = 2
    OBVIOUS
  <2> QED BY <1>4, <1>6, <2>1, <2>2
<1>9. ASSUME NEW k \in 1..(L - 1)
      PROVE  n[t[k]] = IF k = L - 1 THEN NULL ELSE t[k + 1]
  <2>1. k + 1 \in 1..L /\ (k + 1 = L <=> k = L - 1)
    BY <1>2
  <2>2. n[q[k + 1]] = IF k + 1 = L THEN NULL ELSE q[(k + 1) + 1]
    BY <1>5, <2>1
  <2>3. k # L - 1 => t[k + 1] = q[(k + 1) + 1]
    <3>1. k # L - 1 => k + 1 \in 1..(L - 1)
      BY <1>2
    <3> QED BY <1>4, <3>1
  <2> QED BY <1>4, <2>1, <2>2, <2>3
<1>10. IsPath(t, n, n[h])
  BY <1>3, <1>4, <1>7, <1>8, <1>9 DEF IsPath
<1> QED BY <1>1, <1>2, <1>3, <1>10 DEF t

\* When the pointer to an item is set to the one behind it, a path is the
\* same without the item.
LEMMA PathRemove ==
    ASSUME NEW q, NEW n, NEW m, NEW h \in Items, IsPath(q, n, h), NULL \notin Items,
           NEW i \in DOMAIN q,
           \A k \in DOMAIN q: k # i =>
                m[q[k]] = IF k = i - 1 THEN n[q[i]] ELSE n[q[k]]
    PROVE  IsPath(RemoveAt(q, i), m, IF i = 1 THEN n[h] ELSE h)
<1> DEFINE r == RemoveAt(q, i)
           L == Len(q)
           g == IF i = 1 THEN n[h] ELSE h
<1>1. /\ q \in Seq(Items) /\ q # <<>> /\ q[1] = h /\ L \in Nat \ {0}
      /\ DOMAIN q = 1..L
  BY EmptySeq, LenProperties DEF IsPath
<1>2. /\ r \in Seq(Items)
      /\ \A k \in 1..(L - 1): r[k] = IF k < i THEN q[k] ELSE q[k + 1]
  BY <1>1, RemovedItems
<1>3. IsInjective(r) /\ Len(r) = L - 1
  BY <1>1, RemovedItems, RemovedOne DEF IsPath
<1> HIDE DEF r, L
<1>4. \A k \in 1..L: n[q[k]] = IF k = L THEN NULL ELSE q[k + 1]
  BY DEF IsPath, L
<1>5. \A k \in 1..L: q[k] \in Items /\ q[k] # NULL
  BY <1>1, ElementOfSeq DEF L
<1>6. /\ n[h] = IF L = 1 THEN NULL ELSE q[2]
      /\ r = <<>> <=> L = 1
  <2>1. 1 \in 1..L /\ 1 + 1 = 2
    BY <1>1
  <2>2. n[h] = IF L = 1 THEN NULL ELSE q[2]
    BY <1>1, <1>4, <2>1
  <2>3. r = <<>> <=> L = 1
    BY <1>1, <1>2, <1>3, EmptySeq
  <2> QED BY <2>2, <2>3
<1>7. r = <<>> <=> g = NULL
  <2>1. L = 1 => i = 1
    BY <1>1
  <2>2. L # 1 => 1 \in 1..L /\ 2 \in 1..L
    BY <1>1
  <2>3. L # 1 => g # NULL
    BY <1>5, <1>6, <2>2
  <2> QED BY <1>6, <2>1, <2>3
<1>8. r # <<>> => r[1] = g
  <2> SUFFICES ASSUME L # 1
               PROVE  r[1] = g
    BY <1>6
  <2>1. 1 \in 1..(L - 1) /\ 1 + 1 = 2 /\ (1 < i <=> i # 1)
    BY <1>1
  <2> QED BY <1>1, <1>2, <1>6, <2>1
<1>9. ASSUME NEW k \in 1..(L - 1)
      PROVE  m[r[k]] = IF k = L - 1 THEN NULL ELSE r[k + 1]
  <2>0. k \in 1..L /\ k + 1 \in 1..L /\ k # L /\ (k + 1 = L <=> k = L - 1) /\ i \in 1..L
    BY <1>1
  <2>1. k # L - 1 => r[k + 1] = IF k + 1 < i THEN q[k + 1] ELSE q[(k + 1) + 1]
    <3>1. k # L - 1 => k + 1 \in 1..(L - 1)
      BY <1>1
    <3> QED BY <1>2, <3>1
  <2>2. CASE k < i - 1
    <3>1. k < i /\ k # i /\ k # i - 1 /\ k + 1 < i /\ k # L - 1
      BY <2>0, <2>2
    <3>2. m[q[k]] = n[q[k]] /\ n[q[k]] = q[k + 1]
      BY <1>1, <1>4, <2>0, <3>1
    <3> QED BY <1>2, <2>1, <3>1, <3>2
  <2>3. CASE k = i - 1
    <3>1. k < i /\ k # i /\ ~ (k + 1 < i) /\ k + 1 = i
      BY <2>0, <2>3
    <3>2. m[q[k]] = n[q[i]]
      BY <1>1, <2>0, <2>3, <3>1
    <3>3. n[q[i]] = IF i = L THEN NULL ELSE q[i + 1]
      BY <1>4, <2>0
    <3> QED BY <1>2, <2>0, <2>1, <3>1, <3>2, <3>3
  <2>4. CASE k >= i
    <3>1. ~ (k < i) /\ k + 1 # i /\ k + 1 # i - 1 /\ ~ (k + 1 < i)
      BY <2>0, <2>4
    <3>2. m[q[k + 1]] = n[q[k + 1]]
      BY <1>1, <2>0, <3>1
    <3>3. n[q[k + 1]] = IF k + 1 = L THEN NULL ELSE q[(k + 1) + 1]
      BY <1>4, <2>0
    <3> QED BY <1>2, <2>0, <2>1, <3>1, <3>2, <3>3
  <2> QED BY <2>0, <2>2, <2>3, <2>4
<1>10. IsPath(r, m, g)
  BY <1>2, <1>3, <1>7, <1>8, <1>9 DEF IsPath
<1> QED BY <1>10 DEF r

\* The items of a list.
In(list) == {i \in Items: where[i] = list}

\* From every item of a list a path leads through the items pushed earlier.
LEMMA PathFrom ==
    ASSUME TypeOK, WellFormed, NEW list \in {"free", "allocated"}, NEW i \in In(list)
    PROVE  \E q: IsPath(q, next, i)
                  /\ ToSet(q) = {j \in In(list): place[j] <= place[i]}
<1> DEFINE Leads(j) == \E q: IsPath(q, next, j)
                             /\ ToSet(q) = {k \in In(list): place[k] <= place[j]}
           S == {place[j]: j \in {k \in In(list): ~ Leads(k)}}
<1> HIDE DEF Leads
<1>1. S \in SUBSET Nat
  BY DEF TypeOK, In
<1>2. S # {} => \E m \in S: \A k \in S: m <= k
  <2> HIDE DEF S
  <2> QED BY <1>1, LeastNatural
<1>3. SUFFICES ASSUME NEW j \in In(list), ~ Leads(j),
                      \A k \in In(list): ~ Leads(k) => place[j] <= place[k]
               PROVE  FALSE
  <2>1. S = {} => Leads(i)
    OBVIOUS
  <2> QED BY <1>2, <2>1 DEF Leads
<1>4. /\ next[j] # NULL => next[j] \in In(list) /\ place[next[j]] < place[j]
      /\ \A k \in In(list): place[k] < place[j] =>
            next[j] # NULL /\ place[k] <= place[next[j]]
  BY DEF WellFormed, Chained, In
<1>5. \A k, l \in In(list): k # l => place[k] # place[l]
  BY DEF WellFormed, In
<1>6. \A k \in In(list): k \in Items /\ place[k] \in Nat
  BY DEF In, TypeOK
<1>7. NULL \notin Items
  BY PoolAssumption
<1>8. CASE next[j] = NULL
  <2>1. PICK q: IsPath(q, next, NULL) /\ ToSet(q) = {}
    <3>1. <<>> \in Seq(Items) /\ Len(<<>>) = 0 /\ DOMAIN <<>> = {}
      OBVIOUS
    <3>2. 1..0 = {}
      OBVIOUS
    <3>3. IsPath(<<>>, next, NULL) /\ ToSet(<<>>) = {}
      BY <3>1, <3>2 DEF IsPath, IsInjective, ToSet
    <3> QED BY <3>3
  <2>2. IsPath(<<j>> \o q, next, j)
    BY <1>6, <1>7, <1>8, <2>1, PathPush
  <2>3. ToSet(<<j>> \o q) = {j}
    <3>1. q \in Seq(Items) /\ j \in Items
      BY <1>6, <2>1 DEF IsPath
    <3>2. ToSet(<<j>> \o q) = ToSet(q) \cup {j}
      BY <3>1, PrependedOne
    <3> QED BY <2>1, <3>2
  <2>4. {k \in In(list): place[k] <= place[j]} = {j}
    BY <1>4, <1>5, <1>6, <1>8
  <2> QED BY <1>3, <2>2, <2>3, <2>4 DEF Leads
<1>9. CASE next[j] # NULL
  <2> DEFINE e == next[j]
  <2>1. e \in In(list) /\ place[e] < place[j]
    BY <1>4, <1>9
  <2>2. Leads(e)
    BY <1>3, <1>6, <2>1
  <2>3. PICK q: IsPath(q, next, e) /\ ToSet(q) = {k \in In(list): place[k] <= place[e]}
    BY <2>2 DEF Leads
  <2> HIDE DEF e
  <2>4. j \notin ToSet(q)
    BY <1>6, <2>1, <2>3
  <2>5. IsPath(<<j>> \o q, next, j)
    BY <1>6, <1>7, <2>3, <2>4, PathPush DEF e
  <2>6. ToSet(<<j>> \o q) = ToSet(q) \cup {j}
    BY <1>6, <2>3, PrependedOne DEF IsPath
  <2>7. {k \in In(list): place[k] <= place[j]} = ToSet(q) \cup {j}
    BY <1>4, <1>5, <1>6, <2>1, <2>3 DEF e
  <2> QED BY <1>3, <2>5, <2>6, <2>7 DEF Leads
<1> QED BY <1>8, <1>9

\* What a walk finds from the head of a list: its items, each once.
LEMMA PathOf ==
    ASSUME TypeOK, WellFormed, NEW list \in {"free", "allocated"},
           NEW h \in Items \cup {NULL}, Chained(list, h)
    PROVE  /\ IsPath(Chain(next, h), next, h)
           /\ ToSet(Chain(next, h)) = In(list)
<1>1. \E q: IsPath(q, next, h) /\ ToSet(q) = In(list)
  <2>1. CASE h = NULL
    <3>1. In(list) = {}
      BY <2>1 DEF Chained, In
    <3>2. IsPath(<<>>, next, h) /\ ToSet(<<>>) = {}
      <4>1. <<>> \in Seq(Items) /\ Len(<<>>) = 0 /\ DOMAIN <<>> = {}
        OBVIOUS
      <4>2. 1..0 = {}
        OBVIOUS
      <4> QED BY <2>1, <4>1, <4>2 DEF IsPath, IsInjective, ToSet
    <3> QED BY <3>1, <3>2
  <2>2. CASE h # NULL
    <3>1. h \in In(list) /\ {j \in In(list): place[j] <= place[h]} = In(list)
      BY <2>2 DEF Chained, In
    <3> QED BY <3>1, PathFrom
  <2> QED BY <2>1, <2>2
<1>2. next \in [Items -> Items \cup {NULL}]
  BY DEF TypeOK
<1> QED BY <1>1, <1>2, ChainIsPath

-----------------------------------------------------------------------------
\* A step seen from the two lists that walks find: what must be shown of it.
LEMMA ListStep ==
    ASSUME TypeOK, TypeOK', NEW f, NEW a,
           IsPath(f, next', freeitems'), IsPath(a, next', allocateditems')
    PROVE  Chain(next, freeitems)' = f /\ Chain(next, allocateditems)' = a
<1>1. next' \in [Items -> Items \cup {NULL}]
      /\ freeitems' \in Items \cup {NULL} /\ allocateditems' \in Items \cup {NULL}
  BY DEF TypeOK
<1> QED BY <1>1, ChainIsPath

\* The two lists of a state.
LEMMA ListState ==
    ASSUME TypeOK, WellFormed
    PROVE  /\ IsPath(Chain(next, freeitems), next, freeitems)
           /\ ToSet(Chain(next, freeitems)) = In("free")
           /\ IsPath(Chain(next, allocateditems), next, allocateditems)
           /\ ToSet(Chain(next, allocateditems)) = In("allocated")
BY PathOf DEF TypeOK, WellFormed

\* A push of an item that no list has.
LEMMA PushIsInitialise ==
    ASSUME TypeOK, TypeOK', WellFormed, NEW i \in Items, i \notin HeapItems,
           where[i] = "outside", next' = PushNext(next, i, freeitems),
           freeitems' = i, allocateditems' = allocateditems
    PROVE  Lists!Initialise
<1> DEFINE f == Chain(next, freeitems)
           a == Chain(next, allocateditems)
<1>1. /\ IsPath(f, next, freeitems) /\ ToSet(f) = In("free")
      /\ IsPath(a, next, allocateditems) /\ ToSet(a) = In("allocated")
  BY ListState
<1> HIDE DEF f, a
<1>2. /\ i \in Items \ HeapItems /\ i \notin ToSet(f) /\ i \notin ToSet(a)
      /\ next' = [next EXCEPT ![i] = freeitems]
      /\ freeitems' = i /\ allocateditems' = allocateditems
  BY <1>1 DEF In, PushNext
<1>3. /\ next'[i] = freeitems
      /\ \A j \in ToSet(f) \cup ToSet(a): next'[j] = next[j]
  BY <1>1, <1>2 DEF TypeOK, In
<1> HIDE DEF f, a
<1>4. IsPath(<<i>> \o f, next', freeitems') /\ IsPath(a, next', allocateditems')
  <2>1. IsPath(a, next', allocateditems') /\ IsPath(f, next', freeitems)
    BY <1>1, <1>2, <1>3, PathSame
  <2> QED BY <1>2, <1>3, <2>1, PathPush, PoolAssumption
<1>5. f' = <<i>> \o f /\ a' = a
  BY <1>4, ListStep DEF f, a
<1> QED BY <1>2, <1>5 DEF Lists!Initialise, Lists!Known, Lists!Range, ToSet, f, a

\* RMW_INIT_MEMORY is such a push.
LEMMA InitIsInitialise ==
    ASSUME TypeOK, TypeOK', WellFormed, NEW i \in Items, InitItem(i)
    PROVE  Lists!Initialise
BY PushIsInitialise, PoolAssumption DEF InitItem

\* get_memory moves the first free item.
LEMMA GetIsGet ==
    ASSUME TypeOK, TypeOK', WellFormed, NEW t \in Threads, GetStatic(t)
    PROVE  Lists!Get
<1> DEFINE f == Chain(next, freeitems)
           a == Chain(next, allocateditems)
           i == freeitems
<1>1. /\ IsPath(f, next, freeitems) /\ ToSet(f) = In("free")
      /\ IsPath(a, next, allocateditems) /\ ToSet(a) = In("allocated")
  BY ListState
<1>2. i \in Items /\ i \in In("free")
  BY PoolAssumption DEF GetStatic, TypeOK, WellFormed, Chained, In
<1> HIDE DEF f, a
<1>3. /\ next' = [next EXCEPT ![i] = allocateditems]
      /\ freeitems' = next[i] /\ allocateditems' = i
  BY DEF GetStatic, PushNext
<1>4. /\ f # <<>> /\ Head(f) = i
      /\ IsPath(Tail(f), next, next[i]) /\ ToSet(Tail(f)) \subseteq ToSet(f) \ {i}
  BY <1>1, <1>2, PathPop, PoolAssumption
<1>5. /\ next'[i] = allocateditems /\ i \notin ToSet(a)
      /\ \A j \in ToSet(Tail(f)) \cup ToSet(a): next'[j] = next[j]
  BY <1>1, <1>2, <1>3, <1>4 DEF TypeOK, In
<1>6. IsPath(Tail(f), next', freeitems')
  BY <1>3, <1>4, <1>5, PathSame
<1>7. IsPath(<<i>> \o a, next', allocateditems')
  <2>1. IsPath(a, next', allocateditems)
    BY <1>1, <1>5, PathSame
  <2> QED BY <1>2, <1>3, <1>5, <2>1, PathPush, PoolAssumption
<1>8. f' = Tail(f) /\ a' = <<i>> \o a
  BY <1>6, <1>7, ListStep DEF f, a
<1> QED BY <1>4, <1>8 DEF Lists!Get, f, a

\* get_memory with nothing free adds an item that no list has.
LEMMA GetIsGrow ==
    ASSUME TypeOK, TypeOK', WellFormed, NEW t \in Threads, GetDynamic(t)
    PROVE  Lists!Grow
<1> DEFINE f == Chain(next, freeitems)
           a == Chain(next, allocateditems)
<1>1. /\ IsPath(f, next, freeitems) /\ ToSet(f) = In("free")
      /\ IsPath(a, next, allocateditems) /\ ToSet(a) = In("allocated")
  BY ListState
<1> HIDE DEF f, a
<1>2. PICK i \in HeapItems:
        /\ i \in Items
        /\ where[i] = "outside"
        /\ next' = [next EXCEPT ![i] = allocateditems]
        /\ allocateditems' = i
  BY PoolAssumption DEF GetDynamic, PushNext
<1>3. DynamicAllowed /\ freeitems = NULL /\ freeitems' = NULL
  BY DEF GetDynamic
<1>4. f = <<>>
  BY <1>1, <1>3 DEF IsPath
<1>5. /\ i \notin ToSet(f) /\ i \notin ToSet(a) /\ next'[i] = allocateditems
      /\ \A j \in ToSet(f) \cup ToSet(a): next'[j] = next[j]
  BY <1>1, <1>2 DEF TypeOK, In
<1>6. IsPath(f, next', freeitems')
  BY <1>1, <1>3, <1>5, PathSame
<1>7. IsPath(<<i>> \o a, next', allocateditems')
  <2>1. IsPath(a, next', allocateditems)
    BY <1>1, <1>5, PathSame
  <2> QED BY <1>2, <1>5, <2>1, PathPush, PoolAssumption
<1>8. f' = f /\ a' = <<i>> \o a
  BY <1>6, <1>7, ListStep DEF f, a
<1> QED
  BY <1>2, <1>3, <1>4, <1>5, <1>8
     DEF Lists!Grow, Lists!Known, Lists!Range, ToSet, f, a

\* Unlinking an allocated item takes it out of what the walk finds.
LEMMA UnlinkIsRemove ==
    ASSUME TypeOK, WellFormed, NEW i \in In("allocated"),
           NEW m \in [Items -> Items \cup {NULL}], NEW h,
           \A j \in In("allocated"): j # i => m[j] = NextWithout(i)[j],
           h = IF allocateditems = i THEN next[i] ELSE allocateditems
    PROVE  LET a == Chain(next, allocateditems)
           IN  \E k \in DOMAIN a: a[k] = i /\ IsPath(RemoveAt(a, k), m, h)
<1> DEFINE a == Chain(next, allocateditems)
<1>1. IsPath(a, next, allocateditems) /\ ToSet(a) = In("allocated")
  BY ListState
<1> HIDE DEF a
<1>2. i \in Items /\ NULL \notin Items /\ next[i] \in Items \cup {NULL}
      /\ prev[i] \in Items \cup {NULL}
  BY PoolAssumption DEF In, TypeOK
<1>3. allocateditems \in Items /\ a # <<>> /\ a[1] = allocateditems
  <2>1. a # <<>>
    BY <1>1 DEF ToSet
  <2> QED BY <1>1, <1>2, <2>1 DEF IsPath, TypeOK
<1>4. PICK k \in DOMAIN a: a[k] = i
  BY <1>1 DEF ToSet
<1>5. /\ a \in Seq(Items) /\ DOMAIN a = 1..Len(a) /\ Len(a) \in Nat
      /\ \A j, l \in DOMAIN a: a[j] = a[l] => j = l
      /\ \A j \in DOMAIN a: a[j] \in In("allocated")
      /\ \A j \in DOMAIN a: next[a[j]] = IF j = Len(a) THEN NULL ELSE a[j + 1]
  BY <1>1, LenProperties DEF IsPath, IsInjective, ToSet
<1>6. k = 1 <=> allocateditems = i
  <2>1. 1 \in DOMAIN a
    BY <1>4, <1>5
  <2> QED BY <1>3, <1>4, <1>5, <2>1
<1>7. /\ k = 1 => prev[i] = NULL
      /\ k # 1 => prev[i] = a[k - 1]
  <2>1. k = 1 => prev[i] = NULL
    BY <1>4, <1>5, <1>6 DEF WellFormed, Chained, In
  <2>2. ASSUME k # 1
        PROVE  prev[i] = a[k - 1]
    <3>1. k - 1 \in DOMAIN a /\ k - 1 # Len(a) /\ (k - 1) + 1 = k
      BY <1>4, <1>5, <2>2
    <3>2. next[a[k - 1]] = i
      BY <1>4, <1>5, <3>1
    <3>3. a[k - 1] \in In("allocated")
      BY <1>5, <3>1
    <3> QED BY <1>2, <3>2, <3>3 DEF WellFormed, Chained, In
  <2> QED BY <2>1, <2>2
<1>8. ASSUME NEW j \in DOMAIN a, j # k
      PROVE  m[a[j]] = IF j = k - 1 THEN next[a[k]] ELSE next[a[j]]
  <2>1. a[j] # i /\ a[j] \in In("allocated") /\ a[j] \in Items
    BY <1>4, <1>5, <1>8 DEF In
  <2>2. m[a[j]] = NextWithout(i)[a[j]]
    BY <2>1
  <2>3. NextWithout(i)[a[j]] = IF a[j] = prev[i] THEN next[i] ELSE next[a[j]]
    BY <1>2, <2>1 DEF NextWithout, TypeOK
  <2>4. a[j] = prev[i] <=> j = k - 1
    <3>1. CASE k = 1
      BY <1>2, <1>5, <1>7, <2>1, <3>1
    <3>2. CASE k # 1
      <4>1. k - 1 \in DOMAIN a
        BY <1>4, <1>5, <3>2
      <4> QED BY <1>5, <1>7, <3>2, <4>1
    <3> QED BY <3>1, <3>2
  <2> QED BY <1>4, <2>2, <2>3, <2>4
<1>9. IsPath(RemoveAt(a, k), m, IF k = 1 THEN next[allocateditems] ELSE allocateditems)
  BY <1>1, <1>2, <1>3, <1>8, PathRemove
<1>10. h = IF k = 1 THEN next[allocateditems] ELSE allocateditems
  BY <1>6
<1> QED BY <1>4, <1>9, <1>10 DEF a

\* put_memory of an item that is not dynamic moves it to the free list; the mem
\* of an element from the heap is new there.
LEMMA PutStaticIsMove ==
    ASSUME TypeOK, TypeOK', WellFormed, HeapAccounted,
           NEW t \in Threads, NEW e \in Items, PutStatic(t, e)
    PROVE  Lists!Put \/ Lists!Initialise
<1> DEFINE f == Chain(next, freeitems)
           a == Chain(next, allocateditems)
           i == ItemPut(e)
<1>p. /\ freeitems' = i
      /\ allocateditems' = IF allocateditems = i THEN next[i] ELSE allocateditems
      /\ next' = PushNext(NextWithout(i), i, freeitems)
  BY DEF PutStatic
<1>0. i \in Items /\ i \notin HeapItems /\ where[i] \in {"allocated", "outside"}
  <2>1. e \in held /\ i \notin dynamic
    BY DEF PutStatic, MayPut
  <2> QED BY <2>1, ItemPutIs DEF HeapAccounted
<1>1. /\ IsPath(f, next, freeitems) /\ ToSet(f) = In("free")
      /\ IsPath(a, next, allocateditems) /\ ToSet(a) = In("allocated")
  BY ListState
<1> HIDE DEF i
<1>n. CASE where[i] = "outside"
  <2>1. next[i] = NULL /\ prev[i] = NULL /\ allocateditems # i
    BY <1>0, <1>n, PoolAssumption DEF WellFormed, Chained
  <2>2. NextWithout(i) = next
    BY <2>1 DEF NextWithout
  <2> QED BY <1>0, <1>n, <1>p, <2>1, <2>2, PushIsInitialise
<1>o. SUFFICES ASSUME where[i] = "allocated"
               PROVE  Lists!Put
  BY <1>0, <1>n
<1>2. /\ i \in In("allocated") /\ i \in Items \ HeapItems
      /\ allocateditems' = IF allocateditems = i THEN next[i] ELSE allocateditems
      /\ next' = [NextWithout(i) EXCEPT ![i] = freeitems]
      /\ freeitems' = i
  BY <1>0, <1>o, <1>p DEF In, PushNext
<1>3. /\ NextWithout(i) \in [Items -> Items \cup {NULL}]
      /\ next' \in [Items -> Items \cup {NULL}]
  BY <1>0 DEF NextWithout, TypeOK
<1>4. PICK k \in DOMAIN a: a[k] = i /\ IsPath(RemoveAt(a, k), next', allocateditems')
  <2>1. \A j \in In("allocated"): j # i => next'[j] = NextWithout(i)[j]
    BY <1>2, <1>3 DEF In
  <2> QED BY <1>2, <1>3, <2>1, UnlinkIsRemove
<1> HIDE DEF f, a
<1>5. IsPath(<<i>> \o f, next', freeitems')
  <2>1. \A j \in ToSet(f): next'[j] = next[j]
    <3>1. prev[i] # NULL => prev[i] \in In("allocated")
      BY <1>2 DEF WellFormed, Chained, In
    <3>2. \A j \in ToSet(f): j # prev[i] /\ j # i /\ j \in Items
      BY <1>1, <1>2, <3>1, PoolAssumption DEF In
    <3> QED BY <1>2, <1>3, <3>2 DEF NextWithout, TypeOK
  <2>2. next'[i] = freeitems /\ i \notin ToSet(f)
    BY <1>1, <1>2, <1>3 DEF In
  <2>3. IsPath(f, next', freeitems)
    BY <1>1, <2>1, PathSame
  <2> QED BY <1>2, <2>2, <2>3, PathPush, PoolAssumption
<1>6. f' = <<i>> \o f /\ a' = RemoveAt(a, k)
  BY <1>4, <1>5, ListStep DEF f, a
<1> QED BY <1>2, <1>4, <1>6 DEF Lists!Put, Lists!RemoveAt, RemoveAt, f, a

\* put_memory of a dynamic item leaves the free list alone.
LEMMA PutDynamicIsPut ==
    ASSUME TypeOK, TypeOK', WellFormed, HeapAccounted,
           NEW t \in Threads, NEW i \in Items, PutDynamic(t, i)
    PROVE  Lists!Put
<1> DEFINE f == Chain(next, freeitems)
           a == Chain(next, allocateditems)
<1>1. /\ IsPath(f, next, freeitems) /\ ToSet(f) = In("free")
      /\ IsPath(a, next, allocateditems) /\ ToSet(a) = In("allocated")
  BY ListState
<1>2. /\ i \in In("allocated") /\ i \in HeapItems
      /\ allocateditems' = IF allocateditems = i THEN next[i] ELSE allocateditems
      /\ next' = [NextWithout(i) EXCEPT ![i] = NULL]
      /\ freeitems' = freeitems
  BY ItemPutIs DEF PutDynamic, MayPut, TypeOK, In
<1>3. /\ NextWithout(i) \in [Items -> Items \cup {NULL}]
      /\ next' \in [Items -> Items \cup {NULL}]
  BY DEF NextWithout, TypeOK
<1>4. PICK k \in DOMAIN a: a[k] = i /\ IsPath(RemoveAt(a, k), next', allocateditems')
  <2>1. \A j \in In("allocated"): j # i => next'[j] = NextWithout(i)[j]
    BY <1>2, <1>3 DEF In
  <2> QED BY <1>2, <1>3, <2>1, UnlinkIsRemove
<1> HIDE DEF f, a
<1>5. IsPath(f, next', freeitems')
  <2>1. prev[i] # NULL => prev[i] \in In("allocated")
    BY <1>2 DEF WellFormed, Chained, In
  <2>2. \A j \in ToSet(f): j # prev[i] /\ j # i /\ j \in Items
    BY <1>1, <1>2, <2>1, PoolAssumption DEF In
  <2>3. \A j \in ToSet(f): next'[j] = next[j]
    BY <1>2, <1>3, <2>2 DEF NextWithout, TypeOK
  <2> QED BY <1>1, <1>2, <2>3, PathSame
<1>6. f' = f /\ a' = RemoveAt(a, k)
  BY <1>4, <1>5, ListStep DEF f, a
<1> QED BY <1>2, <1>4, <1>6 DEF Lists!Put, Lists!RemoveAt, RemoveAt, f, a

\* The pointers of a pool implement two plain lists: for any number of items
\* and threads, a walk along next from the two heads finds a stack of free
\* items and a newest-first list of allocated ones, and every get_memory and
\* put_memory is one move between them.
THEOREM ListsImplemented == Spec => ImplementsLists
<1>1. Init => Lists!Init
  <2> SUFFICES ASSUME Init
               PROVE  Chain(next, NULL) = <<>>
    BY DEF Init, Lists!Init
  <2>1. next \in [Items -> Items \cup {NULL}]
    BY DEF Init
  <2>2. IsPath(<<>>, next, NULL)
    <3>1. <<>> \in Seq(Items) /\ Len(<<>>) = 0 /\ DOMAIN <<>> = {}
      OBVIOUS
    <3>2. 1..0 = {}
      OBVIOUS
    <3> QED BY <3>1, <3>2 DEF IsPath, IsInjective
  <2> QED BY <2>1, <2>2, ChainIsPath
<1>2. TypeOK /\ TypeOK' /\ WellFormed /\ HeapAccounted /\ [Next]_vars
        => [Lists!Next]_(Lists!lvars)
  <2> SUFFICES ASSUME TypeOK, TypeOK', WellFormed, HeapAccounted, [Next]_vars
               PROVE  Lists!Next \/ UNCHANGED Lists!lvars
    OBVIOUS
  <2>1. ASSUME NEW i \in Items, InitItem(i)
        PROVE  Lists!Next
    BY <2>1, InitIsInitialise DEF Lists!Next
  <2>2. ASSUME NEW t \in Threads, GetStatic(t)
        PROVE  Lists!Next
    BY <2>2, GetIsGet DEF Lists!Next
  <2>3. ASSUME NEW t \in Threads, GetDynamic(t)
        PROVE  Lists!Next
    BY <2>3, GetIsGrow DEF Lists!Next
  <2>4. ASSUME NEW t \in Threads, NEW i \in Items, PutStatic(t, i)
        PROVE  Lists!Next
    BY <2>4, PutStaticIsMove DEF Lists!Next
  <2>5. ASSUME NEW t \in Threads, NEW i \in Items, PutDynamic(t, i)
        PROVE  Lists!Next
    BY <2>5, PutDynamicIsPut DEF Lists!Next
  <2>6. ASSUME UNCHANGED <<next, freeitems, allocateditems>>
        PROVE  UNCHANGED Lists!lvars
    BY <2>6 DEF Lists!lvars, Chain
  <2> QED
    BY <2>1, <2>2, <2>3, <2>4, <2>5, <2>6
       DEF Next, WalkStart, WalkStep, links, vars
<1> QED
  BY <1>1, <1>2, PoolTypeCorrect, ListsWellFormed, HeapIsAccounted, PTL
     DEF Spec, ImplementsLists, Lists!ListSpec
=============================================================================
