---------------------------- MODULE GraphProofs ----------------------------
(***************************************************************************)
(* Proofs about Graph for any number of threads, graphs and queries: what  *)
(* no lock orders but the code's own order does, and what each query       *)
(* function makes of a graph of any size.                                  *)
(***************************************************************************)
EXTENDS Graph, ListLemmas, FiniteSetTheorems, SequenceTheorems, TLAPS

Bytes == Graphs \cup {None}
Places == {"idle", "length", "first", "second", "answer"}

Types ==
    /\ setup \in {"out", "creating", "asked"}
    /\ initialized \in BOOLEAN /\ has_changed \in BOOLEAN
    /\ length \in Bytes
    /\ micro_buffer \in [1..2 -> Bytes]
    /\ writing \in [graph: Bytes, step: {"none", "first", "second", "flags"}]
    /\ latest \in Bytes \cup {Broken}
    /\ pc \in [Readers -> Places]
    /\ query \in [Readers -> Queries \cup {None}]
    /\ read \in [Readers -> [1..3 -> Bytes]]
    /\ seen \in [Readers -> Bytes]
    /\ answer = [r \in Readers |-> answer[r]]

\* The length is always that of the message that is being copied, and between
\* messages it and the buffer are of the last graph, if that was copied whole.
BufferInv ==
    /\ writing = Idle \/ (writing.graph \in Graphs /\ writing.step # "none")
    /\ writing # Idle => length = writing.graph
    /\ writing = Idle /\ latest \in Graphs =>
         micro_buffer[1] = latest /\ micro_buffer[2] = latest /\ length = latest

\* Messages and queries are only on a context that is there, which is
\* initialized by its own first message, not by those of its predecessor.
SetupInv ==
    /\ setup # "asked" => writing = Idle /\ \A r \in Readers: pc[r] = "idle"
    /\ setup # "out" => (initialized <=> latest # None)
    /\ \A r \in Readers: pc[r] # "idle" => initialized

\* What r has read of the length and the two halves.
HasRead(r) ==
    CASE pc[r] = "first" -> {1}
      [] pc[r] = "second" -> {1, 2}
      [] pc[r] = "answer" -> {1, 2, 3}
      [] OTHER -> {}

\* A query that no message overlapped has read the last graph, so far.
QueryInv ==
    \A r \in Readers: pc[r] # "idle" /\ seen[r] # None =>
        /\ writing = Idle /\ seen[r] = latest /\ latest \in Graphs
        /\ \A k \in HasRead(r): read[r][k] = latest

GraphInv == Types /\ BufferInv /\ SetupInv /\ QueryInv

-----------------------------------------------------------------------------
\* A context starts in memory of an earlier one, with nothing asked.
LEMMA GraphAtInit == Init => GraphInv
<1> SUFFICES ASSUME Init PROVE GraphInv
  OBVIOUS
<1>1. None \notin Graphs
  BY GraphAssumption
<1>2. Types
  <2>1. micro_buffer \in Bytes \X Bytes
    BY DEF Init, Bytes
  <2>2. micro_buffer \in [1..2 -> Bytes]
    BY <2>1
  <2> QED BY <2>2 DEF Init, Types, Bytes, Places, Idle, NothingRead
<1>3. BufferInv
  BY <1>1 DEF Init, BufferInv, Idle
<1>4. SetupInv /\ QueryInv
  BY <1>1 DEF Init, SetupInv, QueryInv
<1> QED BY <1>2, <1>3, <1>4 DEF GraphInv

\* The setup of a context forgets the graph of the last one in its memory.
LEMMA SetupStep ==
    ASSUME GraphInv, GraphInit \/ GraphCreated \/ Shutdown
    PROVE  GraphInv'
<1> USE DEF info, asking
<1>1. Types /\ BufferInv /\ SetupInv /\ QueryInv
  BY DEF GraphInv
<1>2. UNCHANGED <<length, micro_buffer, writing, asking, seen>>
  BY DEF GraphInit, GraphCreated, Shutdown
<1>3. BufferInv'
  <2>1. latest' = latest \/ latest' = None
    BY DEF GraphInit, GraphCreated, Shutdown
  <2> QED BY <1>1, <1>2, <2>1, GraphAssumption DEF BufferInv
<1>4. ASSUME GraphInit PROVE Types' /\ SetupInv' /\ QueryInv'
  <2>1. /\ setup = "out" /\ setup' = "creating" /\ initialized' = FALSE
        /\ has_changed' = FALSE /\ latest' = None
    BY <1>4 DEF GraphInit
  <2>2. writing = Idle /\ \A r \in Readers: pc[r] = "idle"
    BY <1>1, <2>1 DEF SetupInv
  <2> QED BY <1>1, <1>2, <2>1, <2>2 DEF Types, Bytes, SetupInv, QueryInv
<1>5. ASSUME GraphCreated \/ Shutdown PROVE Types' /\ SetupInv' /\ QueryInv'
  <2>1. UNCHANGED <<initialized, has_changed, latest>>
    BY <1>5 DEF GraphCreated, Shutdown
  <2>2. /\ setup # "out" /\ setup' \in {"asked", "out"}
        /\ writing = Idle /\ \A r \in Readers: pc[r] = "idle"
    BY <1>1, <1>5 DEF GraphCreated, Shutdown, SetupInv
  <2>3. Types' /\ SetupInv'
    BY <1>1, <1>2, <2>1, <2>2 DEF Types, SetupInv
  <2>4. QueryInv'
    BY <1>2, <2>2 DEF QueryInv
  <2> QED BY <2>3, <2>4
<1> QED BY <1>3, <1>4, <1>5 DEF GraphInv

\* A message overlaps every query that goes on.
LEMMA OnTopicStep ==
    ASSUME GraphInv, NEW g \in Graphs, OnTopic(g)
    PROVE  GraphInv'
<1> USE DEF info, asking
<1>1. Types /\ BufferInv /\ SetupInv /\ QueryInv
  BY DEF GraphInv
<1>2. /\ setup = "asked" /\ length' = g /\ writing' = [graph |-> g, step |-> "first"]
      /\ seen' = [r \in Readers |-> None]
      /\ UNCHANGED <<setup, initialized, has_changed, micro_buffer, latest, asking>>
  BY DEF OnTopic
<1>3. Types'
  BY <1>1, <1>2 DEF Types, Bytes
<1>4. BufferInv' /\ writing' # Idle
  BY <1>2 DEF BufferInv, Idle
<1>5. SetupInv'
  BY <1>1, <1>2, <1>4 DEF SetupInv
<1>6. QueryInv'
  BY <1>2 DEF QueryInv
<1> QED BY <1>3, <1>4, <1>5, <1>6 DEF GraphInv

\* The bytes come before the flag, and no query of seen data is going on.
LEMMA CopyStep ==
    ASSUME GraphInv, CopyGraph \/ SetFlags
    PROVE  GraphInv'
<1> USE DEF info, asking
<1>1. Types /\ BufferInv /\ SetupInv /\ QueryInv
  BY DEF GraphInv
<1>2. /\ writing # Idle /\ writing.graph \in Graphs /\ length = writing.graph
      /\ setup = "asked"
      /\ UNCHANGED <<setup, length, asking, seen>>
  BY <1>1 DEF CopyGraph, Copy, SetFlags, Idle, BufferInv, SetupInv
<1>3. QueryInv'
  BY <1>1, <1>2 DEF QueryInv
<1>4. CASE CopyGraph
  <2>1. /\ UNCHANGED <<initialized, has_changed, latest>>
        /\ micro_buffer' \in [1..2 -> Bytes]
        /\ writing' \in [graph: Bytes, step: {"none", "first", "second", "flags"}]
        /\ writing'.graph = writing.graph /\ writing'.step \in {"second", "flags"}
    BY <1>1, <1>2, <1>4 DEF CopyGraph, Copy, Types, Bytes
  <2>2. writing' # Idle
    BY <2>1 DEF Idle
  <2>3. Types'
    BY <1>1, <1>2, <2>1 DEF Types
  <2>4. BufferInv' /\ SetupInv'
    BY <1>1, <1>2, <2>1, <2>2 DEF BufferInv, SetupInv
  <2> QED BY <1>3, <2>3, <2>4 DEF GraphInv
<1>5. CASE SetFlags
  <2>1. /\ initialized' = TRUE /\ has_changed' = TRUE
        /\ writing' = Idle /\ UNCHANGED micro_buffer
        /\ latest' = IF \A half \in 1..2: micro_buffer[half] = writing.graph
                     THEN writing.graph ELSE Broken
    BY <1>5 DEF SetFlags
  <2>2. latest' \in Graphs \cup {Broken} /\ latest' # None
    BY <1>2, <2>1, GraphAssumption
  <2>3. Types'
    BY <1>1, <1>2, <2>1, <2>2 DEF Types, Bytes, Idle
  <2>4. BufferInv'
    <3>1. latest' \in Graphs => /\ micro_buffer[1] = latest' /\ micro_buffer[2] = latest'
                                /\ latest' = writing.graph
      BY <2>1, GraphAssumption
    <3> QED BY <1>2, <2>1, <3>1 DEF BufferInv, Idle
  <2>5. SetupInv'
    BY <1>1, <1>2, <2>1, <2>2 DEF SetupInv
  <2> QED BY <1>3, <2>3, <2>4, <2>5 DEF GraphInv
<1> QED BY <1>4, <1>5

\* What a thread asks, reads and is answered is its own.
LEMMA QueryStep ==
    ASSUME GraphInv, NEW r \in Readers,
           (\E q \in Queries: Ask(r, q)) \/ Read(r) \/ AnswerQuery(r)
    PROVE  GraphInv'
<1> USE DEF info
<1>1. Types /\ BufferInv /\ SetupInv /\ QueryInv
  BY DEF GraphInv
<1>2. UNCHANGED <<setup, initialized, has_changed, length, micro_buffer, writing, latest>>
  BY DEF Ask, Read, AnswerQuery
<1>3. BufferInv'
  BY <1>1, <1>2 DEF BufferInv
<1>4. ASSUME NEW q \in Queries, Ask(r, q) PROVE GraphInv'
  <2>1. /\ setup = "asked" /\ pc[r] = "idle" /\ UNCHANGED read
        /\ \/ /\ initialized /\ pc' = [pc EXCEPT ![r] = "length"]
              /\ query' = [query EXCEPT ![r] = q]
              /\ seen' = [seen EXCEPT ![r] = IF writing = Idle /\ latest # Broken
                                            THEN latest ELSE None]
           \/ UNCHANGED <<pc, query, seen>>
        /\ \E a: answer' = [answer EXCEPT ![r] = a]
    BY <1>4 DEF Ask
  <2>2. answer' = [x \in Readers |-> answer'[x]]
    BY <1>1, <2>1 DEF Types
  <2>3. pc' \in [Readers -> Places] /\ seen' \in [Readers -> Bytes]
        /\ query' \in [Readers -> Queries \cup {None}]
    <3>1. (IF writing = Idle /\ latest # Broken THEN latest ELSE None) \in Bytes
      BY <1>1 DEF Types, Bytes
    <3>2. seen' \in [Readers -> Bytes]
      BY <1>1, <2>1, <3>1 DEF Types
    <3>3. pc' \in [Readers -> Places]
      BY <1>1, <2>1 DEF Types, Places
    <3>4. query' \in [Readers -> Queries \cup {None}]
      BY <1>1, <2>1 DEF Types
    <3> QED BY <3>2, <3>3, <3>4
  <2>4. Types'
    BY <1>1, <1>2, <2>1, <2>2, <2>3 DEF Types
  <2>5. /\ pc'[r] = "idle" \/ (pc'[r] = "length" /\ initialized)
        /\ \A x \in Readers \ {r}: pc'[x] = pc[x] /\ seen'[x] = seen[x]
        /\ pc'[r] # "idle" /\ seen'[r] # None =>
             writing = Idle /\ seen'[r] = latest /\ latest \in Graphs
    BY <1>1, <2>1 DEF Types, Bytes
  <2>6. SetupInv'
    BY <1>1, <1>2, <2>1, <2>5 DEF SetupInv
  <2>7. QueryInv'
    <3> SUFFICES ASSUME NEW x \in Readers, pc'[x] # "idle", seen'[x] # None
                 PROVE  /\ writing = Idle /\ seen'[x] = latest /\ latest \in Graphs
                        /\ \A k \in HasRead(x)': read[x][k] = latest
      BY <1>2, <2>1 DEF QueryInv
    <3>1. CASE x = r
      <4>1. HasRead(x)' = {}
        BY <2>5, <3>1 DEF HasRead
      <4> QED BY <2>5, <3>1, <4>1
    <3>2. CASE x # r
      <4>1. pc'[x] = pc[x] /\ seen'[x] = seen[x]
        BY <2>5, <3>2
      <4>2. HasRead(x)' = HasRead(x)
        BY <4>1 DEF HasRead
      <4> QED BY <1>1, <4>1, <4>2 DEF QueryInv
    <3> QED BY <3>1, <3>2
  <2> QED BY <1>3, <2>4, <2>6, <2>7 DEF GraphInv
<1>5. CASE Read(r)
  <2> DEFINE source == <<length, micro_buffer[1], micro_buffer[2]>>
  <2>1. PICK k \in 1..3:
          /\ pc[r] = Steps[k] /\ pc' = [pc EXCEPT ![r] = Steps[k + 1]]
          /\ read' = [read EXCEPT ![r][k] = source[k]]
          /\ UNCHANGED <<query, seen, answer>>
    BY <1>5 DEF Read
  <2>2. source[k] \in Bytes
    BY <1>1 DEF Types
  <2>3. writing = Idle /\ latest \in Graphs => source[k] = latest
    BY <1>1 DEF BufferInv
  <2> HIDE DEF source
  <2>4. /\ pc[r] # "idle" /\ Steps[k + 1] \in Places \ {"idle", "length"}
    BY <2>1 DEF Steps, Places
  <2>5. /\ pc' \in [Readers -> Places] /\ pc'[r] = Steps[k + 1]
        /\ \A x \in Readers \ {r}: pc'[x] = pc[x]
    BY <1>1, <2>1, <2>4 DEF Types
  <2>6. read' \in [Readers -> [1..3 -> Bytes]]
    BY <1>1, <2>1, <2>2 DEF Types
  <2>7. Types'
    BY <1>1, <1>2, <2>1, <2>5, <2>6 DEF Types
  <2>8. SetupInv'
    BY <1>1, <1>2, <2>4, <2>5 DEF SetupInv
  <2>9. QueryInv'
    <3> SUFFICES ASSUME NEW x \in Readers, pc'[x] # "idle", seen[x] # None
                 PROVE  /\ writing = Idle /\ seen[x] = latest /\ latest \in Graphs
                        /\ \A j \in HasRead(x)': read'[x][j] = latest
      BY <1>2, <2>1 DEF QueryInv
    <3>1. CASE x = r
      <4>1. /\ writing = Idle /\ seen[r] = latest /\ latest \in Graphs
            /\ \A j \in HasRead(r): read[r][j] = latest
        BY <1>1, <2>4, <3>1 DEF QueryInv
      <4>3. HasRead(r)' \subseteq HasRead(r) \cup {k} /\ HasRead(r)' \subseteq 1..3
        BY <2>1, <2>5 DEF HasRead, Steps
      <4>4. read'[r][k] = latest /\ \A j \in 1..3 \ {k}: read'[r][j] = read[r][j]
        BY <1>1, <2>1, <2>3, <4>1 DEF Types
      <4> QED BY <3>1, <4>1, <4>3, <4>4
    <3>2. CASE x # r
      <4>1. pc'[x] = pc[x] /\ read'[x] = read[x]
        BY <1>1, <2>1, <2>5, <3>2 DEF Types
      <4>2. HasRead(x)' = HasRead(x)
        BY <4>1 DEF HasRead
      <4> QED BY <1>1, <4>1, <4>2 DEF QueryInv
    <3> QED BY <3>1, <3>2
  <2> QED BY <1>3, <2>7, <2>8, <2>9 DEF GraphInv
<1>6. CASE AnswerQuery(r)
  <2>1. /\ pc[r] = "answer" /\ pc' = [pc EXCEPT ![r] = "idle"]
        /\ query' = [query EXCEPT ![r] = None] /\ seen' = [seen EXCEPT ![r] = None]
        /\ read' = [read EXCEPT ![r] = NothingRead]
        /\ \E a: answer' = [answer EXCEPT ![r] = a]
    BY <1>6 DEF AnswerQuery
  <2>2. answer' = [x \in Readers |-> answer'[x]]
    BY <1>1, <2>1 DEF Types
  <2>3. /\ pc' \in [Readers -> Places] /\ pc'[r] = "idle"
        /\ \A x \in Readers \ {r}: pc'[x] = pc[x]
    BY <1>1, <2>1 DEF Types, Places
  <2>4. Types'
    <3>1. NothingRead \in [1..3 -> Bytes]
      BY DEF NothingRead, Bytes
    <3>2. read' \in [Readers -> [1..3 -> Bytes]] /\ seen' \in [Readers -> Bytes]
          /\ query' \in [Readers -> Queries \cup {None}]
      BY <1>1, <2>1, <3>1 DEF Types, Bytes
    <3> QED BY <1>1, <1>2, <2>1, <2>2, <2>3, <3>2 DEF Types
  <2>5. SetupInv'
    BY <1>1, <1>2, <2>3 DEF SetupInv
  <2>6. QueryInv'
    <3> SUFFICES ASSUME NEW x \in Readers, x # r, pc[x] # "idle", seen[x] # None
                 PROVE  /\ writing = Idle /\ seen[x] = latest /\ latest \in Graphs
                        /\ \A j \in HasRead(x)': read[x][j] = latest
      <4>1. \A x \in Readers \ {r}: /\ seen'[x] = seen[x] /\ read'[x] = read[x]
                                    /\ pc'[x] = pc[x]
        BY <1>1, <2>1, <2>3 DEF Types
      <4> QED BY <1>2, <2>3, <4>1 DEF QueryInv
    <3>1. HasRead(x)' = HasRead(x)
      BY <2>3 DEF HasRead
    <3> QED BY <1>1, <3>1 DEF QueryInv
  <2> QED BY <1>3, <2>4, <2>5, <2>6 DEF GraphInv
<1> QED BY <1>4, <1>5, <1>6

\* Every step keeps the invariant.
LEMMA GraphStep == GraphInv /\ [Next]_vars => GraphInv'
<1> SUFFICES ASSUME GraphInv, [Next]_vars PROVE GraphInv'
  OBVIOUS
<1>1. ASSUME UNCHANGED vars PROVE GraphInv'
  <2>1. \A r \in Readers: HasRead(r)' = HasRead(r)
    BY <1>1 DEF HasRead, vars, asking
  <2> QED BY <1>1, <2>1 DEF vars, info, asking, GraphInv, Types, BufferInv, SetupInv, QueryInv
<1> QED BY <1>1, SetupStep, OnTopicStep, CopyStep, QueryStep DEF Next

-----------------------------------------------------------------------------
\* Every variable stays in its domain, and from a message that was copied whole to
\* the next one the buffer and its length are of its graph, whatever copies failed
\* before and whatever the last context in the memory left.
THEOREM GraphTypeCorrect == Spec => []TypeOK
<1>1. GraphInv => TypeOK
  <2> SUFFICES ASSUME GraphInv PROVE TypeOK
    OBVIOUS
  <2>1. Types /\ BufferInv
    BY DEF GraphInv
  <2>2. micro_buffer \in Seq(Graphs \cup {None}) /\ Len(micro_buffer) = 2
    <3>1. micro_buffer \in [1..2 -> Bytes]
      BY <2>1 DEF Types
    <3>2. micro_buffer \in Seq(Bytes)
      BY <3>1, SeqDef
    <3>3. Len(micro_buffer) = 2
      <4>1. DOMAIN micro_buffer = 1..Len(micro_buffer) /\ Len(micro_buffer) \in Nat
        BY <3>2, LenProperties
      <4>2. DOMAIN micro_buffer = 1..2
        BY <3>1
      <4>3. \A n \in Nat: 1..n = 1..2 => n = 2
        <5> SUFFICES ASSUME NEW n \in Nat, 1..n = 1..2 PROVE n = 2
          OBVIOUS
        <5>1. 2 \in 1..n /\ (n \in 1..n \/ n = 0)
          OBVIOUS
        <5>2. n \in 1..2
          BY <5>1
        <5> QED BY <5>1, <5>2
      <4> QED BY <4>1, <4>2, <4>3
    <3> QED BY <3>2, <3>3 DEF Bytes
  <2>3. writing = Idle /\ latest \in Graphs =>
          ToSet(micro_buffer) = {latest} /\ length = latest
    BY <2>1 DEF Types, BufferInv, ToSet
  <2> QED BY <2>1, <2>2, <2>3 DEF Types, Bytes, Places, TypeOK
<1> QED BY <1>1, GraphAtInit, GraphStep, PTL DEF Spec

\* No thread looks into the buffer before the first message of its own context has
\* been dealt with, for any number of threads: initialized is set last, and reset
\* first.
THEOREM FirstMessageIsDone == Spec => []FirstMessageDone
<1>1. GraphInv => FirstMessageDone
  BY DEF GraphInv, SetupInv, FirstMessageDone
<1> QED BY <1>1, GraphAtInit, GraphStep, PTL DEF Spec

\* What a query that no message overlapped is answered.
UndisturbedAnswer ==
    \A r \in Readers: pc[r] = "answer" /\ pc'[r] = "idle" /\ seen[r] # None =>
        answer'[r] = IF Parses(seen[r]) THEN Answer(query[r], seen[r]) ELSE "ERROR"

\* A query that no message overlapped, after a message that was copied whole,
\* answers what its function computes of that graph, whatever the other threads
\* ask meanwhile and whatever copies failed before.
THEOREM UndisturbedAnswers == Spec => [][UndisturbedAnswer]_vars
<1>1. ASSUME GraphInv, [Next]_vars, NEW r \in Readers,
             pc[r] = "answer", pc'[r] = "idle", seen[r] # None
      PROVE  answer'[r] = IF Parses(seen[r]) THEN Answer(query[r], seen[r]) ELSE "ERROR"
  <2>1. Types /\ BufferInv /\ SetupInv /\ QueryInv
    BY <1>1 DEF GraphInv
  <2>2. AnswerQuery(r)
    <3>1. ASSUME NEW x \in Readers, x # r,
                 (\E q \in Queries: Ask(x, q)) \/ Read(x) \/ AnswerQuery(x)
          PROVE  pc'[r] = pc[r]
      BY <2>1, <3>1 DEF Types, Ask, Read, AnswerQuery
    <3>2. ~ (\E q \in Queries: Ask(r, q))
      BY <1>1 DEF Ask
    <3>3. ~ Read(r)
      BY <1>1 DEF Read, Steps
    <3>4. pc' # pc
      BY <1>1
    <3> QED BY <1>1, <3>1, <3>2, <3>3, <3>4
         DEF Next, vars, asking, GraphInit, GraphCreated, Shutdown, OnTopic, CopyGraph, SetFlags
  <2>3. \A k \in 1..3: read[r][k] = seen[r]
    BY <1>1, <2>1 DEF QueryInv, HasRead
  <2>4. ToSet(read[r]) = {seen[r]}
    BY <2>1, <2>3 DEF Types, ToSet
  <2>5. ~ (Cardinality(ToSet(read[r])) > 1)
    <3>1. Cardinality({seen[r]}) = 1
      BY FS_Singleton
    <3> QED BY <2>4, <3>1
  <2>6. answer' = [answer EXCEPT ![r] = IF Parses(seen[r]) THEN Answer(query[r], seen[r])
                                         ELSE "ERROR"]
    BY <2>2, <2>3, <2>5 DEF AnswerQuery
  <2> QED BY <2>1, <2>6 DEF Types
<1>2. GraphInv /\ [Next]_vars => UndisturbedAnswer
  BY <1>1 DEF UndisturbedAnswer
<1> QED BY <1>2, GraphAtInit, GraphStep, PTL DEF Spec

-----------------------------------------------------------------------------
\* What is looked through: a sequence of nodes with sequences of entities.
IsGraph(g) ==
    /\ g \in Seq(ToSet(g))
    /\ \A i \in DOMAIN g: g[i].entities \in Seq(ToSet(g[i].entities))

\* The places of the entities of some nodes, and what Entries has of a place.
Spots(g, nodes) == UNION {{i} \X DOMAIN g[i].entities : i \in nodes}

EntryAt(g, x) == [node |-> g[x[1]], entity |-> g[x[1]].entities[x[2]]]

Row(g, i) == [j \in DOMAIN g[i].entities |-> [node |-> g[i], entity |-> g[i].entities[j]]]

EntrySet(g) == {EntryAt(g, x): x \in Spots(g, DOMAIN g)}

\* The entities of one node.
LEMMA RowEntries ==
    ASSUME NEW g, IsGraph(g), NEW i \in DOMAIN g
    PROVE  /\ Row(g, i) \in Seq(EntrySet(g))
           /\ Len(Row(g, i)) = Len(g[i].entities)
           /\ \A j \in 1..Len(g[i].entities): Row(g, i)[j] = EntryAt(g, <<i, j>>)
<1> DEFINE m == Len(g[i].entities)
<1>1. m \in Nat /\ DOMAIN g[i].entities = 1..m
  BY LenProperties DEF IsGraph
<1>2. \A j \in 1..m: /\ Row(g, i)[j] = EntryAt(g, <<i, j>>)
                     /\ <<i, j>> \in Spots(g, DOMAIN g)
  BY <1>1 DEF Row, EntryAt, Spots
<1>3. \A j \in 1..m: Row(g, i)[j] \in EntrySet(g)
  BY <1>2 DEF EntrySet
<1>4. Row(g, i) \in [1..m -> EntrySet(g)]
  BY <1>1, <1>3 DEF Row
<1>5. Row(g, i) \in Seq(EntrySet(g)) /\ Len(Row(g, i)) = m
  <2> HIDE DEF m
  <2> QED BY <1>1, <1>4, IsASeq, LenProperties
<1> QED BY <1>2, <1>5

\* The steps of Entries.
LEMMA EntriesFold ==
    ASSUME NEW g, IsGraph(g)
    PROVE  \E h \in [0..Len(g) -> Seq(EntrySet(g))]:
             /\ h[0] = <<>> /\ h[Len(g)] = Entries(g)
             /\ \A k \in 1..Len(g): h[k] = h[k - 1] \o Row(g, k)
<1> DEFINE n == Len(g)
           L == Seq(EntrySet(g))
           Body(l, k) == l \o Row(g, k)
           G == [p \in L \X (1..n) |-> Body(p[1], p[2])]
           it == CHOOSE f: f = [t \in SUBSET (1..n) |->
                                  IF t = {} THEN <<>> ELSE Body(f[t \ {Max(t)}], Max(t))]
<1>1. n \in Nat /\ DOMAIN g = 1..n
  BY LenProperties DEF IsGraph
<1>2. \A l \in L: \A k \in 1..n: Body(l, k) \in L
  <2> TAKE l \in L
  <2> TAKE k \in 1..n
  <2>1. Row(g, k) \in L
    BY <1>1, RowEntries
  <2> HIDE DEF L, n
  <2> QED BY <2>1, ConcatProperties DEF L
<1> DEFINE base == <<>>
<1>3. base \in L
  OBVIOUS
<1> HIDE DEF n, Body, L, base, it
<1>4. G \in [L \X (1..n) -> L] /\ \A l \in L: \A k \in 1..n: G[<<l, k>>] = Body(l, k)
  BY <1>2
<1> HIDE DEF G
<1>5. PICK e: FoldsPlaces(e, n, L, base, G)
  <2>1. n \in Nat /\ base \in L /\ G \in [L \X (1..n) -> L]
    BY <1>1, <1>3, <1>4
  <2> QED BY <2>1, FoldExists
<1>6. \A t \in SUBSET (1..n):
        e[t] = IF t = {} THEN base ELSE Body(e[t \ {Max(t)}], Max(t))
  <2> TAKE t \in SUBSET (1..n)
  <2>1. CASE t # {}
    <3>1. Max(t) \in 1..n /\ t \ {Max(t)} \in SUBSET (1..n)
      BY <1>1, <2>1, LastNumber
    <3>2. e[t \ {Max(t)}] \in L
      BY <1>5, <3>1 DEF FoldsPlaces
    <3>3. G[<<e[t \ {Max(t)}], Max(t)>>] = Body(e[t \ {Max(t)}], Max(t))
      BY <1>4, <3>1, <3>2
    <3> QED BY <1>5, <3>3 DEF FoldsPlaces
  <2> QED BY <1>5, <2>1 DEF FoldsPlaces
<1>7. e = [t \in SUBSET (1..n) |->
             IF t = {} THEN base ELSE Body(e[t \ {Max(t)}], Max(t))]
  BY <1>5, <1>6 DEF FoldsPlaces
<1>8. it = [t \in SUBSET (1..n) |->
              IF t = {} THEN base ELSE Body(it[t \ {Max(t)}], Max(t))]
  BY <1>7 DEF it, base
<1>9. Entries(g) = it[1..n]
  BY <1>1 DEF Entries, FoldLeft, MapThenFoldSet, Body, Row, it
<1>10. it[{}] = base
  BY <1>8
<1>11. ASSUME NEW k \in 1..n, it[1..(k - 1)] \in L
       PROVE  it[1..k] = G[<<it[1..(k - 1)], k>>]
  <2>1. /\ 1..k \in SUBSET (1..n) /\ 1..k # {}
        /\ Max(1..k) = k /\ (1..k) \ {k} = 1..(k - 1)
    BY <1>1, PrefixPlaces
  <2>2. it[1..k] = Body(it[1..(k - 1)], k)
    BY <1>8, <2>1
  <2> QED BY <1>4, <1>11, <2>2
<1>12. Takes(it, n, L, base, G)
  <2> HIDE DEF it
  <2> QED BY <1>10, <1>11 DEF Takes
<1>13. PICK h: FoldsAlong(h, n, L, base, G, it[1..n])
  BY <1>1, <1>3, <1>4, <1>12, FoldAlong
<1>14. \A k \in 1..n: h[k] = Body(h[k - 1], k)
  <2> TAKE k \in 1..n
  <2>1. k - 1 \in 0..n
    BY <1>1
  <2> QED BY <1>4, <1>13, <2>1 DEF FoldsAlong
<1> QED BY <1>9, <1>13, <1>14 DEF FoldsAlong, n, L, Body, base

\* All of it is of the graph.
LEMMA EntriesSeq ==
    ASSUME NEW g, IsGraph(g)
    PROVE  Entries(g) \in Seq(EntrySet(g))
<1>1. Len(g) \in Nat
  BY LenProperties DEF IsGraph
<1> QED BY <1>1, EntriesFold

\* The steps of Those.
ThoseSteps(h, s, T) ==
    /\ h[0] = <<>> /\ h[Len(s)] = Those(s, T)
    /\ \A k \in 1..Len(s):
         h[k] = IF s[k] \in T THEN Append(h[k - 1], s[k]) ELSE h[k - 1]

LEMMA ThoseFold ==
    ASSUME NEW S, NEW s \in Seq(S), NEW T
    PROVE  \E h \in [0..Len(s) -> Seq(S)]: ThoseSteps(h, s, T)
<1> DEFINE n == Len(s)
           L == Seq(S)
           Body(l, k) == IF s[k] \in T THEN Append(l, s[k]) ELSE l
           G == [p \in L \X (1..n) |-> Body(p[1], p[2])]
           it == CHOOSE f: f = [t \in SUBSET (1..n) |->
                                  IF t = {} THEN <<>> ELSE Body(f[t \ {Max(t)}], Max(t))]
<1>1. n \in Nat /\ DOMAIN s = 1..n /\ \A k \in 1..n: s[k] \in S
  OBVIOUS
<1>2. \A l \in L: \A k \in 1..n: Body(l, k) \in L
  BY <1>1
<1> DEFINE base == <<>>
<1>3. base \in L
  OBVIOUS
<1> HIDE DEF n, Body, L, base, it
<1>4. G \in [L \X (1..n) -> L] /\ \A l \in L: \A k \in 1..n: G[<<l, k>>] = Body(l, k)
  BY <1>2
<1> HIDE DEF G
<1>5. PICK e: FoldsPlaces(e, n, L, base, G)
  <2>1. n \in Nat /\ base \in L /\ G \in [L \X (1..n) -> L]
    BY <1>1, <1>3, <1>4
  <2> QED BY <2>1, FoldExists
<1>6. \A t \in SUBSET (1..n):
        e[t] = IF t = {} THEN base ELSE Body(e[t \ {Max(t)}], Max(t))
  <2> TAKE t \in SUBSET (1..n)
  <2>1. CASE t # {}
    <3>1. Max(t) \in 1..n /\ t \ {Max(t)} \in SUBSET (1..n)
      BY <1>1, <2>1, LastNumber
    <3>2. e[t \ {Max(t)}] \in L
      BY <1>5, <3>1 DEF FoldsPlaces
    <3>3. G[<<e[t \ {Max(t)}], Max(t)>>] = Body(e[t \ {Max(t)}], Max(t))
      BY <1>4, <3>1, <3>2
    <3> QED BY <1>5, <3>3 DEF FoldsPlaces
  <2> QED BY <1>5, <2>1 DEF FoldsPlaces
<1>7. e = [t \in SUBSET (1..n) |->
             IF t = {} THEN base ELSE Body(e[t \ {Max(t)}], Max(t))]
  BY <1>5, <1>6 DEF FoldsPlaces
<1>8. it = [t \in SUBSET (1..n) |->
              IF t = {} THEN base ELSE Body(it[t \ {Max(t)}], Max(t))]
  BY <1>7 DEF it, base
<1>9. Those(s, T) = it[1..n]
  BY <1>1 DEF Those, FoldLeft, MapThenFoldSet, Body, it
<1>10. it[{}] = base
  BY <1>8
<1>11. ASSUME NEW k \in 1..n, it[1..(k - 1)] \in L
       PROVE  it[1..k] = G[<<it[1..(k - 1)], k>>]
  <2>1. /\ 1..k \in SUBSET (1..n) /\ 1..k # {}
        /\ Max(1..k) = k /\ (1..k) \ {k} = 1..(k - 1)
    BY <1>1, PrefixPlaces
  <2>2. it[1..k] = Body(it[1..(k - 1)], k)
    BY <1>8, <2>1
  <2> QED BY <1>4, <1>11, <2>2
<1>12. Takes(it, n, L, base, G)
  <2> HIDE DEF it
  <2> QED BY <1>10, <1>11 DEF Takes
<1>13. PICK h: FoldsAlong(h, n, L, base, G, it[1..n])
  BY <1>1, <1>3, <1>4, <1>12, FoldAlong
<1>14. \A k \in 1..n: h[k] = Body(h[k - 1], k)
  <2> TAKE k \in 1..n
  <2>1. k - 1 \in 0..n
    BY <1>1
  <2> QED BY <1>4, <1>13, <2>1 DEF FoldsAlong
<1> QED BY <1>9, <1>13, <1>14 DEF ThoseSteps, FoldsAlong, n, L, Body, base

\* The steps of NamesAndTypes.
NamesSteps(h, g, kinds) ==
    LET s == Entries(g) IN
    /\ h[0] = <<>> /\ h[Len(s)] = NamesAndTypes(g, kinds)
    /\ \A k \in 1..Len(s):
         h[k] = IF /\ s[k].entity.kind \in kinds
                   /\ \A y \in ToSet(h[k - 1]): y.name # s[k].entity.name
                THEN Append(h[k - 1], NameAndTypes(s[k])) ELSE h[k - 1]

LEMMA NamesFold ==
    ASSUME NEW g, IsGraph(g), NEW kinds
    PROVE  \E h \in [0..Len(Entries(g)) -> Seq({NameAndTypes(x): x \in EntrySet(g)})]:
             NamesSteps(h, g, kinds)
<1> DEFINE s == Entries(g)
           n == Len(s)
           L == Seq({NameAndTypes(x): x \in EntrySet(g)})
           Body(l, k) == IF /\ s[k].entity.kind \in kinds
                            /\ \A y \in ToSet(l): y.name # s[k].entity.name
                         THEN Append(l, NameAndTypes(s[k])) ELSE l
           G == [p \in L \X (1..n) |-> Body(p[1], p[2])]
           it == CHOOSE f: f = [t \in SUBSET (1..n) |->
                                  IF t = {} THEN <<>> ELSE Body(f[t \ {Max(t)}], Max(t))]
<1> HIDE DEF s
<1>1. n \in Nat /\ DOMAIN s = 1..n /\ \A k \in 1..n: s[k] \in EntrySet(g)
  BY EntriesSeq, LenProperties DEF s
<1>2. \A l \in L: \A k \in 1..n: Body(l, k) \in L
  <2> TAKE l \in L
  <2> TAKE k \in 1..n
  <2>1. NameAndTypes(s[k]) \in {NameAndTypes(x): x \in EntrySet(g)}
    BY <1>1
  <2> HIDE DEF n
  <2> QED BY <2>1, AppendProperties
<1> DEFINE base == <<>>
<1>3. base \in L
  OBVIOUS
<1> HIDE DEF n, Body, L, base, it
<1>4. G \in [L \X (1..n) -> L] /\ \A l \in L: \A k \in 1..n: G[<<l, k>>] = Body(l, k)
  BY <1>2
<1> HIDE DEF G
<1>5. PICK e: FoldsPlaces(e, n, L, base, G)
  <2>1. n \in Nat /\ base \in L /\ G \in [L \X (1..n) -> L]
    BY <1>1, <1>3, <1>4
  <2> QED BY <2>1, FoldExists
<1>6. \A t \in SUBSET (1..n):
        e[t] = IF t = {} THEN base ELSE Body(e[t \ {Max(t)}], Max(t))
  <2> TAKE t \in SUBSET (1..n)
  <2>1. CASE t # {}
    <3>1. Max(t) \in 1..n /\ t \ {Max(t)} \in SUBSET (1..n)
      BY <1>1, <2>1, LastNumber
    <3>2. e[t \ {Max(t)}] \in L
      BY <1>5, <3>1 DEF FoldsPlaces
    <3>3. G[<<e[t \ {Max(t)}], Max(t)>>] = Body(e[t \ {Max(t)}], Max(t))
      BY <1>4, <3>1, <3>2
    <3> QED BY <1>5, <3>3 DEF FoldsPlaces
  <2> QED BY <1>5, <2>1 DEF FoldsPlaces
<1>7. e = [t \in SUBSET (1..n) |->
             IF t = {} THEN base ELSE Body(e[t \ {Max(t)}], Max(t))]
  BY <1>5, <1>6 DEF FoldsPlaces
<1>8. it = [t \in SUBSET (1..n) |->
              IF t = {} THEN base ELSE Body(it[t \ {Max(t)}], Max(t))]
  BY <1>7 DEF it, base
<1>9. NamesAndTypes(g, kinds) = it[1..n]
  BY <1>1 DEF NamesAndTypes, FoldLeft, MapThenFoldSet, Body, s, it
<1>10. it[{}] = base
  BY <1>8
<1>11. ASSUME NEW k \in 1..n, it[1..(k - 1)] \in L
       PROVE  it[1..k] = G[<<it[1..(k - 1)], k>>]
  <2>1. /\ 1..k \in SUBSET (1..n) /\ 1..k # {}
        /\ Max(1..k) = k /\ (1..k) \ {k} = 1..(k - 1)
    BY <1>1, PrefixPlaces
  <2>2. it[1..k] = Body(it[1..(k - 1)], k)
    BY <1>8, <2>1
  <2> QED BY <1>4, <1>11, <2>2
<1>12. Takes(it, n, L, base, G)
  <2> HIDE DEF it
  <2> QED BY <1>10, <1>11 DEF Takes
<1>13. PICK h: FoldsAlong(h, n, L, base, G, it[1..n])
  BY <1>1, <1>3, <1>4, <1>12, FoldAlong
<1>14. \A k \in 1..n: h[k] = Body(h[k - 1], k)
  <2> TAKE k \in 1..n
  <2>1. k - 1 \in 0..n
    BY <1>1
  <2> QED BY <1>4, <1>13, <2>1 DEF FoldsAlong
<1> QED BY <1>9, <1>13, <1>14 DEF NamesSteps, FoldsAlong, n, L, Body, base, s

-----------------------------------------------------------------------------
\* A list of entries that has one for each place of X.
Lists(b, s, X, g) ==
    /\ Counts(b, Len(s), X)
    /\ \A k \in 1..Len(s): s[k] = EntryAt(g, b[k])

\* Entries has one for each entity of the graph.
LEMMA EntriesCounted ==
    ASSUME NEW g, IsGraph(g)
    PROVE  \E b: Lists(b, Entries(g), Spots(g, DOMAIN g), g)
<1> DEFINE n == Len(g)
           L == Seq(EntrySet(g))
<1>1. n \in Nat /\ DOMAIN g = 1..n
  BY LenProperties DEF IsGraph
<1>2. PICK h \in [0..n -> L]:
        /\ h[0] = <<>> /\ h[n] = Entries(g)
        /\ \A k \in 1..n: h[k] = h[k - 1] \o Row(g, k)
  BY EntriesFold
<1> DEFINE V == {k \in 0..n: \E b: Lists(b, h[k], Spots(g, 1..k), g)}
<1> HIDE DEF n
<1>3. 0 \in V
  <2> DEFINE b == [i \in 1..0 |-> 0]
  <2>1. Spots(g, 1..0) = {} /\ 1..0 = {} /\ 0 \in 0..n
    BY <1>1 DEF Spots
  <2>2. Len(h[0]) = 0
    BY <1>2
  <2>3. Lists(b, h[0], Spots(g, 1..0), g)
    BY <2>1, <2>2 DEF Lists, Counts
  <2> QED BY <2>1, <2>3
<1>4. ASSUME NEW k \in 1..n, k - 1 \in V
      PROVE  k \in V
  <2>1. PICK b: Lists(b, h[k - 1], Spots(g, 1..(k - 1)), g)
    BY <1>4
  <2>2. k - 1 \in 0..n /\ k \in 0..n /\ k \in DOMAIN g
    BY <1>1
  <2> DEFINE l == h[k - 1]
             m == Len(l)
             r == Row(g, k)
             p == Len(r)
             c == [j \in 1..p |-> <<k, j>>]
             X == Spots(g, 1..(k - 1))
             Y == {k} \X DOMAIN g[k].entities
             d == Then(b, m, c, p)
  <2>3. l \in L /\ m \in Nat /\ r \in L /\ p \in Nat
    BY <1>2, <2>2, RowEntries, LenProperties
  <2>4. /\ DOMAIN g[k].entities = 1..p
        /\ \A j \in 1..p: r[j] = EntryAt(g, c[j])
    BY <2>2, RowEntries, LenProperties DEF IsGraph
  <2>5. Counts(c, p, Y)
    <3> HIDE DEF p
    <3>1. c \in [1..p -> Y]
      BY <2>4
    <3>2. \A i, j \in 1..p: c[i] = c[j] => i = j
      OBVIOUS
    <3>3. \A y \in Y: \E i \in 1..p: c[i] = y
      <4> TAKE y \in Y
      <4>1. PICK i \in 1..p: y = <<k, i>>
        BY <2>4
      <4> QED BY <4>1
    <3> HIDE DEF c, Y
    <3> QED BY <3>1, <3>2, <3>3 DEF Counts
  <2>6. X \cap Y = {} /\ X \cup Y = Spots(g, 1..k)
    <3>1. (1..(k - 1)) \cup {k} = 1..k /\ k \notin 1..(k - 1)
      BY <1>1
    <3>2. X \cup Y = Spots(g, (1..(k - 1)) \cup {k})
      BY DEF Spots
    <3>3. X \cap Y = {}
      <4> SUFFICES ASSUME NEW x \in X, x \in Y
                   PROVE  FALSE
        OBVIOUS
      <4>1. PICK i \in 1..(k - 1): x \in {i} \X DOMAIN g[i].entities
        BY DEF Spots
      <4>2. x[1] = i /\ x[1] = k
        BY <4>1
      <4> QED BY <3>1, <4>2
    <3> QED BY <3>1, <3>2, <3>3
  <2> HIDE DEF c, X, Y, d
  <2>7. Counts(d, m + p, X \cup Y)
    <3>1. Counts(b, m, X)
      BY <2>1 DEF Lists, X
    <3> HIDE DEF m, p, l, r
    <3> QED BY <2>3, <2>5, <2>6, <3>1, CountsMore DEF d
  <2>8. /\ Len(h[k]) = m + p
        /\ \A i \in 1..(m + p): h[k][i] = IF i <= m THEN l[i] ELSE r[i - m]
    <3> HIDE DEF l, r
    <3>1. h[k] = l \o r
      BY <1>2 DEF l, r
    <3> QED BY <2>3, <3>1, ConcatProperties
  <2>9. ASSUME NEW i \in 1..(m + p)
        PROVE  h[k][i] = EntryAt(g, d[i])
    <3>1. CASE i <= m
      <4>1. i \in 1..m
        BY <2>3, <3>1
      <4> QED BY <2>1, <2>8, <3>1, <4>1 DEF Lists, Then, d
    <3>2. CASE ~ (i <= m)
      <4>1. i - m \in 1..p
        <5> HIDE DEF m, p
        <5> QED BY <2>3, <3>2
      <4> QED BY <2>4, <2>8, <3>2, <4>1 DEF Then, d
    <3> QED BY <3>1, <3>2
  <2>10. Lists(d, h[k], Spots(g, 1..k), g)
    <3> HIDE DEF m, p
    <3> QED BY <2>6, <2>7, <2>8, <2>9 DEF Lists
  <2> QED BY <2>2, <2>10
<1>5. n \in V
  <2>1. n \in 0..n
    BY <1>1
  <2> HIDE DEF V
  <2> QED BY <1>1, <1>3, <1>4, <2>1, AllNumbers
<1> QED BY <1>1, <1>2, <1>5

\* c counts the places of s that have an element of T, in the order of Those.
Picks(c, s, T) ==
    /\ Counts(c, Len(Those(s, T)), {k \in 1..Len(s): s[k] \in T})
    /\ \A i \in 1..Len(Those(s, T)): Those(s, T)[i] = s[c[i]]

\* Those has one for each place of the list that has an element of T.
LEMMA ThoseCounted ==
    ASSUME NEW S, NEW s \in Seq(S), NEW T
    PROVE  /\ Those(s, T) \in Seq(S)
           /\ \E c: Picks(c, s, T)
<1> DEFINE n == Len(s)
           L == Seq(S)
           At(k) == {i \in 1..k: s[i] \in T}
<1>1. n \in Nat /\ DOMAIN s = 1..n /\ \A k \in 1..n: s[k] \in S
  OBVIOUS
<1>2. PICK h \in [0..n -> L]: ThoseSteps(h, s, T)
  BY ThoseFold
<1>3. /\ h[0] = <<>> /\ h[n] = Those(s, T)
      /\ \A k \in 1..n:
           h[k] = IF s[k] \in T THEN Append(h[k - 1], s[k]) ELSE h[k - 1]
  BY <1>2 DEF ThoseSteps
<1> DEFINE Done(c, k) ==
             /\ Counts(c, Len(h[k]), At(k))
             /\ \A i \in 1..Len(h[k]): h[k][i] = s[c[i]]
           V == {k \in 0..n: \E c: Done(c, k)}
<1> HIDE DEF n
<1>4. 0 \in V
  <2> DEFINE c == [i \in 1..0 |-> 0]
  <2>1. At(0) = {} /\ 1..0 = {} /\ 0 \in 0..n
    BY <1>1
  <2>2. Len(h[0]) = 0
    BY <1>3
  <2>3. Done(c, 0)
    BY <2>1, <2>2 DEF Counts
  <2> QED BY <2>1, <2>3
<1>5. ASSUME NEW k \in 1..n, k - 1 \in V
      PROVE  k \in V
  <2>1. PICK c: Done(c, k - 1)
    <3> HIDE DEF Done
    <3> QED BY <1>5
  <2>2. k - 1 \in 0..n /\ k \in 0..n /\ k \notin At(k - 1)
    BY <1>1
  <2>3. h[k - 1] \in L /\ Len(h[k - 1]) \in Nat
    BY <1>2, <2>2, LenProperties
  <2>4. CASE s[k] \in T
    <3> DEFINE m == Len(h[k - 1])
               d == OneMore(c, m, k)
    <3>1. At(k) = At(k - 1) \cup {k}
      BY <1>1, <2>4
    <3>2. h[k] = Append(h[k - 1], s[k])
      BY <1>3, <2>4
    <3>3. /\ Len(h[k]) = m + 1
          /\ \A i \in 1..m: h[k][i] = h[k - 1][i]
          /\ h[k][m + 1] = s[k]
      BY <1>1, <2>3, <3>2
    <3>4. Counts(c, m, At(k - 1))
      BY <2>1
    <3> HIDE DEF At
    <3>5. Counts(d, m + 1, At(k))
      <4>1. m \in Nat
        BY <2>3
      <4> HIDE DEF m
      <4> QED BY <2>2, <3>1, <3>4, <4>1, CountsOneMore
    <3>6. ASSUME NEW i \in 1..(m + 1)
          PROVE  h[k][i] = s[d[i]]
      <4>1. CASE i <= m
        <5>1. i \in 1..m
          BY <2>3, <4>1
        <5> QED BY <2>1, <3>3, <4>1, <5>1 DEF OneMore
      <4>2. CASE ~ (i <= m)
        <5>1. i = m + 1
          <6>1. m \in Nat
            BY <2>3
          <6> HIDE DEF m
          <6> QED BY <4>2, <6>1
        <5> QED BY <3>3, <4>2, <5>1 DEF OneMore
      <4> QED BY <4>1, <4>2
    <3>7. Done(d, k)
      <4> HIDE DEF d
      <4> QED BY <3>3, <3>5, <3>6
    <3> HIDE DEF d, Done
    <3> QED BY <2>2, <3>7
  <2>5. CASE s[k] \notin T
    <3>1. At(k) = At(k - 1)
      BY <1>1, <2>5
    <3>2. h[k] = h[k - 1]
      BY <1>3, <2>5
    <3>3. Done(c, k)
      <4> HIDE DEF At
      <4> QED BY <2>1, <3>1, <3>2
    <3> HIDE DEF Done
    <3> QED BY <2>2, <3>3
  <2> QED BY <2>4, <2>5
<1>6. n \in V
  <2>1. n \in 0..n
    BY <1>1
  <2> HIDE DEF V
  <2> QED BY <1>1, <1>4, <1>5, <2>1, AllNumbers
<1>7. n \in 0..n
  BY <1>1
<1>8. PICK c: Done(c, n)
  <2> HIDE DEF Done
  <2> QED BY <1>6
<1>9. h[n] = Those(s, T) /\ h[n] \in L
  BY <1>2, <1>7, <1>3
<1> QED BY <1>8, <1>9 DEF Picks, n

-----------------------------------------------------------------------------
\* What a loop over the entities stops at: one for each place that has one of T.
LEMMA LoopCounted ==
    ASSUME NEW g, IsGraph(g), NEW T
    PROVE  \E b: Lists(b, Those(Entries(g), T),
                       {x \in Spots(g, DOMAIN g): EntryAt(g, x) \in T}, g)
<1> DEFINE s == Entries(g)
           n == Len(s)
           X == Spots(g, DOMAIN g)
           r == Those(s, T)
           m == Len(r)
           I == {k \in 1..n: s[k] \in T}
           Y == {x \in X: EntryAt(g, x) \in T}
<1>1. s \in Seq(EntrySet(g)) /\ n \in Nat
  BY EntriesSeq, LenProperties
<1>2. PICK b: Lists(b, s, X, g)
  BY EntriesCounted
<1> HIDE DEF X, s
<1>3. PICK c: Counts(c, m, I) /\ \A i \in 1..m: r[i] = s[c[i]]
  <2>1. PICK c: Picks(c, s, T)
    BY <1>1, ThoseCounted
  <2> QED BY <2>1 DEF Picks
<1>4. r \in Seq(EntrySet(g)) /\ m \in Nat
  BY <1>1, ThoseCounted, LenProperties
<1> DEFINE d == Along(b, c, m)
<1> HIDE DEF r, m, n
<1>5. Counts(b, n, X) /\ \A k \in 1..n: s[k] = EntryAt(g, b[k])
  BY <1>2 DEF Lists, n
<1>6. I \in SUBSET (1..n)
  OBVIOUS
<1>7. {b[i]: i \in I} = Y
  <2>1. ASSUME NEW i \in I
        PROVE  b[i] \in Y
    BY <1>5 DEF Counts
  <2>2. ASSUME NEW y \in Y
        PROVE  \E i \in I: b[i] = y
    <3>1. PICK i \in 1..n: b[i] = y
      BY <1>5 DEF Counts
    <3>2. i \in I
      BY <1>5, <3>1
    <3> QED BY <3>1, <3>2
  <2> HIDE DEF I, Y
  <2> QED BY <2>1, <2>2
<1>8. \A k \in 1..m: c[k] \in 1..n
  BY <1>3 DEF Counts
<1> HIDE DEF I, Y
<1>9. Counts(d, m, Y)
  BY <1>1, <1>3, <1>4, <1>5, <1>6, <1>7, CountsAlong
<1>10. \A k \in 1..m: r[k] = EntryAt(g, d[k])
  BY <1>3, <1>5, <1>8 DEF Along
<1> HIDE DEF d
<1>11. Lists(d, r, Y, g)
  BY <1>9, <1>10 DEF Lists, m
<1> QED BY <1>11 DEF r, s, Y, X

\* Which of them are of a kind.
LEMMA OfKindAt ==
    ASSUME NEW g, IsGraph(g), NEW kind, NEW x \in Spots(g, DOMAIN g)
    PROVE  EntryAt(g, x) \in OfKind(g, kind) <=> g[x[1]].entities[x[2]].kind = kind
<1>1. PICK b: Lists(b, Entries(g), Spots(g, DOMAIN g), g)
  BY EntriesCounted
<1>2. DOMAIN Entries(g) = 1..Len(Entries(g))
  BY EntriesSeq, LenProperties
<1>3. PICK k \in 1..Len(Entries(g)): b[k] = x
  BY <1>1 DEF Lists, Counts
<1>4. Entries(g)[k] = EntryAt(g, x)
  BY <1>1, <1>3 DEF Lists
<1>5. EntryAt(g, x) \in ToSet(Entries(g))
  BY <1>2, <1>3, <1>4 DEF ToSet
<1>6. EntryAt(g, x).entity.kind = g[x[1]].entities[x[2]].kind
  BY DEF EntryAt
<1> QED BY <1>5, <1>6 DEF OfKind

\* The places of the entities of a kind on a topic.
OnTopics(g, kind, topic) ==
    {x \in Found(g, {kind}, DOMAIN g): g[x[1]].entities[x[2]].name = topic}

\* Matching has one for each of them.
LEMMA MatchingCounted ==
    ASSUME NEW g, IsGraph(g), NEW kind, NEW topic
    PROVE  \E b: Lists(b, Matching(g, kind, topic), OnTopics(g, kind, topic), g)
<1> DEFINE T == {x \in OfKind(g, kind): x.entity.name = topic}
           Y == {x \in Spots(g, DOMAIN g): EntryAt(g, x) \in T}
<1>1. ASSUME NEW x \in Spots(g, DOMAIN g)
      PROVE  x \in Y <=> x \in OnTopics(g, kind, topic)
  <2>1. EntryAt(g, x).entity.name = g[x[1]].entities[x[2]].name
    BY DEF EntryAt
  <2>2. EntryAt(g, x) \in OfKind(g, kind) <=> g[x[1]].entities[x[2]].kind = kind
    BY OfKindAt
  <2>3. x \in OnTopics(g, kind, topic) <=> /\ g[x[1]].entities[x[2]].kind = kind
                                           /\ g[x[1]].entities[x[2]].name = topic
    BY DEF OnTopics, Found, Spots
  <2> QED BY <2>1, <2>2, <2>3
<1>2. OnTopics(g, kind, topic) \subseteq Spots(g, DOMAIN g)
  BY DEF OnTopics, Found, Spots
<1>3. Y = OnTopics(g, kind, topic)
  <2>1. Y \subseteq Spots(g, DOMAIN g)
    OBVIOUS
  <2> HIDE DEF Y
  <2> QED BY <1>1, <1>2, <2>1
<1>4. PICK b: Lists(b, Those(Entries(g), T), Y, g)
  BY LoopCounted
<1> HIDE DEF Y
<1> QED BY <1>3, <1>4 DEF Matching

-----------------------------------------------------------------------------
\* What each function promises.

\* Matching is a list.
LEMMA MatchingSeq ==
    ASSUME NEW g, IsGraph(g), NEW kind, NEW topic
    PROVE  /\ Len(Matching(g, kind, topic)) \in Nat
           /\ DOMAIN Matching(g, kind, topic) = 1..Len(Matching(g, kind, topic))
<1>1. Matching(g, kind, topic) \in Seq(EntrySet(g))
  <2>1. Entries(g) \in Seq(EntrySet(g))
    BY EntriesSeq
  <2> QED BY <2>1, ThoseCounted DEF Matching
<1> QED BY <1>1, LenProperties

\* __rmw_count_entities and the functions that count matched endpoints return
\* how many entities of the kind the topic has.
LEMMA CountPromised ==
    ASSUME NEW g, IsGraph(g), NEW kind, NEW topic
    PROVE  /\ Count(g, kind, topic) = Cardinality(OnTopics(g, kind, topic))
           /\ Matched(g, kind, topic) = Cardinality(OnTopics(g, kind, topic))
<1> DEFINE n == Len(Matching(g, kind, topic))
<1>1. n \in Nat /\ DOMAIN Matching(g, kind, topic) = 1..n
  BY MatchingSeq
<1>2. n = Cardinality(OnTopics(g, kind, topic))
  <2>1. PICK b: Lists(b, Matching(g, kind, topic), OnTopics(g, kind, topic), g)
    BY MatchingCounted
  <2>2. Counts(b, n, OnTopics(g, kind, topic))
    BY <2>1 DEF Lists
  <2> HIDE DEF n
  <2> QED BY <1>1, <2>2, CountsAll
<1>3. Count(g, kind, topic) = n
  BY DEF Count
<1> HIDE DEF n
<1>4. Len(EndpointInfo(g, kind, topic)) = n
  <2> DEFINE e == EndpointInfo(g, kind, topic)
  <2>1. e = [k \in 1..n |-> e[k]]
    BY <1>1 DEF EndpointInfo
  <2>2. Len(e) = n
    <3> HIDE DEF e
    <3> QED BY <1>1, <2>1
  <2> QED BY <2>2 DEF e
<1> QED BY <1>2, <1>3, <1>4 DEF Matched

\* __rmw_get_endpoint_info_by_topic lists each of them, and nothing else.
LEMMA EndpointsPromised ==
    ASSUME NEW g, IsGraph(g), NEW kind, NEW topic, NEW v
    PROVE  LET a == EndpointInfo(g, kind, topic) IN
           Cardinality({k \in DOMAIN a: a[k] = v})
           = Cardinality({x \in OnTopics(g, kind, topic):
                            [node |-> g[x[1]].name, namespace |-> g[x[1]].namespace,
                             type |-> g[x[1]].entities[x[2]].types[1],
                             kind |-> g[x[1]].entities[x[2]].kind] = v})
<1> DEFINE a == EndpointInfo(g, kind, topic)
           s == Matching(g, kind, topic)
           n == Len(s)
           X == OnTopics(g, kind, topic)
           Endpoint(x) == [node |-> g[x[1]].name, namespace |-> g[x[1]].namespace,
                           type |-> g[x[1]].entities[x[2]].types[1],
                           kind |-> g[x[1]].entities[x[2]].kind]
           val == [x \in X |-> Endpoint(x)]
<1>1. n \in Nat /\ DOMAIN s = 1..n
  BY MatchingSeq
<1>2. PICK b: Lists(b, s, X, g)
  BY MatchingCounted
<1>3. \A x \in X: g[x[1]].entities[x[2]].kind = kind
  BY DEF OnTopics, Found
<1>4. DOMAIN a = 1..n
  BY <1>1 DEF EndpointInfo
<1>5. ASSUME NEW k \in 1..n
      PROVE  a[k] = val[b[k]]
  <2>1. s[k] = EntryAt(g, b[k]) /\ b[k] \in X
    BY <1>2 DEF Lists, Counts
  <2>2. a[k] = [node |-> s[k].node.name, namespace |-> s[k].node.namespace,
                type |-> s[k].entity.types[1], kind |-> kind]
    BY <1>1 DEF EndpointInfo
  <2>3. a[k] = Endpoint(b[k])
    <3>1. s[k].node = g[b[k][1]] /\ s[k].entity = g[b[k][1]].entities[b[k][2]]
      BY <2>1 DEF EntryAt
    <3> HIDE DEF s, a
    <3> QED BY <1>3, <2>1, <2>2, <3>1
  <2> HIDE DEF a, X, Endpoint
  <2> QED BY <2>1, <2>3
<1>6. Counts(b, n, X)
  BY <1>2 DEF Lists
<1>7. \A x \in X: val[x] = Endpoint(x)
  OBVIOUS
<1> HIDE DEF a, s, n, X, val
<1>8. Cardinality({k \in 1..n: a[k] = v}) = Cardinality({x \in X: val[x] = v})
  <2>1. ListsValues(a, n, val, b)
    BY <1>5 DEF ListsValues
  <2>2. Cardinality(WithValue(a, 1..n, v)) = Cardinality(WithValue(val, X, v))
    BY <1>1, <1>6, <2>1, ValuesCounted
  <2> QED BY <2>2 DEF WithValue
<1>9. {x \in X: val[x] = v} = {x \in X: Endpoint(x) = v}
  <2> HIDE DEF Endpoint
  <2> QED BY <1>7
<1> QED BY <1>4, <1>8, <1>9 DEF a, X

\* The names that a list of k entries has for the kinds asked for: each once.
Kept(s, k, kinds) == {i \in 1..k: s[i].entity.kind \in kinds}

NamesOnce(a, s, k, kinds) ==
    /\ \A i, j \in 1..Len(a): a[i].name = a[j].name => i = j
    /\ \A i \in 1..Len(a): \E j \in Kept(s, k, kinds): a[i] = NameAndTypes(s[j])
    /\ \A j \in Kept(s, k, kinds): \E i \in 1..Len(a): a[i].name = s[j].entity.name

\* One turn of the loop keeps that.
LEMMA OneNameMore ==
    ASSUME NEW S, NEW a \in Seq(S), NEW s, NEW k \in Nat \ {0}, NEW kinds,
           NamesOnce(a, s, k - 1, kinds), NameAndTypes(s[k]) \in S
    PROVE  NamesOnce(IF /\ s[k].entity.kind \in kinds
                        /\ \A y \in ToSet(a): y.name # s[k].entity.name
                     THEN Append(a, NameAndTypes(s[k])) ELSE a, s, k, kinds)
<1> DEFINE n == Len(a)
           x == NameAndTypes(s[k])
<1>1. n \in Nat /\ DOMAIN a = 1..n /\ ToSet(a) = {a[i]: i \in 1..n}
  BY LenProperties DEF ToSet
<1>2. x.name = s[k].entity.name
  BY DEF NameAndTypes
<1>3. \A i \in Kept(s, k, kinds): i = k \/ i \in Kept(s, k - 1, kinds)
  BY DEF Kept
<1>4. \A i \in Kept(s, k - 1, kinds): i \in Kept(s, k, kinds)
  BY DEF Kept
<1>5. k \in Kept(s, k, kinds) <=> s[k].entity.kind \in kinds
  BY DEF Kept
<1>6. CASE s[k].entity.kind \in kinds /\ \A y \in ToSet(a): y.name # s[k].entity.name
  <2> DEFINE e == Append(a, x)
  <2>1. Len(e) = n + 1 /\ e[n + 1] = x /\ \A i \in 1..n: e[i] = a[i]
    OBVIOUS
  <2>2. \A i \in 1..n: a[i].name # x.name
    <3> HIDE DEF n
    <3> QED BY <1>1, <1>2, <1>6
  <2> HIDE DEF e, n, x
  <2>3. \A i \in 1..(n + 1): i \in 1..n \/ i = n + 1
    BY <1>1
  <2>4. \A i \in 1..n: i \in 1..(n + 1)
    BY <1>1
  <2>5. n + 1 \in 1..(n + 1)
    BY <1>1
  <2>6. /\ \A i, j \in 1..n: a[i].name = a[j].name => i = j
        /\ \A i \in 1..n: \E j \in Kept(s, k - 1, kinds): a[i] = NameAndTypes(s[j])
        /\ \A j \in Kept(s, k - 1, kinds): \E i \in 1..n: a[i].name = s[j].entity.name
    BY DEF NamesOnce, n
  <2>7. ASSUME NEW i \in 1..(n + 1), NEW j \in 1..(n + 1), e[i].name = e[j].name
        PROVE  i = j
    <3>1. CASE i \in 1..n /\ j \in 1..n
      BY <2>1, <2>6, <2>7, <3>1
    <3>2. CASE i \in 1..n /\ j = n + 1
      BY <2>1, <2>2, <2>7, <3>2
    <3>3. CASE j \in 1..n /\ i = n + 1
      BY <2>1, <2>2, <2>7, <3>3
    <3> QED BY <2>3, <3>1, <3>2, <3>3
  <2>8. ASSUME NEW i \in 1..(n + 1)
        PROVE  \E j \in Kept(s, k, kinds): e[i] = NameAndTypes(s[j])
    <3>1. CASE i \in 1..n
      BY <1>4, <2>1, <2>6, <3>1
    <3>2. CASE i = n + 1
      BY <1>5, <1>6, <2>1, <3>2 DEF x
    <3> QED BY <2>3, <3>1, <3>2
  <2>9. ASSUME NEW j \in Kept(s, k, kinds)
        PROVE  \E i \in 1..(n + 1): e[i].name = s[j].entity.name
    <3>1. CASE j = k
      BY <1>2, <2>1, <2>5, <3>1
    <3>2. CASE j \in Kept(s, k - 1, kinds)
      <4>1. PICK i \in 1..n: a[i].name = s[j].entity.name
        BY <2>6, <3>2
      <4> QED BY <2>1, <2>4, <4>1
    <3> QED BY <1>3, <3>1, <3>2
  <2>10. NamesOnce(e, s, k, kinds)
    BY <2>1, <2>7, <2>8, <2>9 DEF NamesOnce
  <2> QED BY <1>6, <2>10 DEF e, x
<1>7. CASE ~ (s[k].entity.kind \in kinds /\ \A y \in ToSet(a): y.name # s[k].entity.name)
  <2>1. ASSUME NEW j \in Kept(s, k, kinds)
        PROVE  \E i \in 1..n: a[i].name = s[j].entity.name
    <3>1. CASE j \in Kept(s, k - 1, kinds)
      BY <3>1 DEF NamesOnce
    <3>2. CASE j = k
      <4>1. PICK y \in ToSet(a): y.name = s[k].entity.name
        BY <1>5, <1>7, <3>2
      <4> HIDE DEF n
      <4> QED BY <1>1, <3>2, <4>1
    <3> QED BY <1>3, <3>1, <3>2
  <2>2. NamesOnce(a, s, k, kinds)
    BY <1>4, <2>1 DEF NamesOnce
  <2> QED BY <1>7, <2>2
<1> QED BY <1>6, <1>7

\* So the whole loop has it of all entries.
LEMMA NamesListed ==
    ASSUME NEW g, IsGraph(g), NEW kinds
    PROVE  /\ NamesOnce(NamesAndTypes(g, kinds), Entries(g), Len(Entries(g)), kinds)
           /\ NamesAndTypes(g, kinds) \in Seq({NameAndTypes(x): x \in EntrySet(g)})
<1> DEFINE s == Entries(g)
           n == Len(s)
           S == {NameAndTypes(x): x \in EntrySet(g)}
           L == Seq(S)
<1>1. s \in Seq(EntrySet(g)) /\ n \in Nat /\ \A k \in 1..n: s[k] \in EntrySet(g)
  BY EntriesSeq, LenProperties
<1>2. PICK h \in [0..n -> L]: NamesSteps(h, g, kinds)
  BY NamesFold
<1>3. /\ h[0] = <<>> /\ h[n] = NamesAndTypes(g, kinds)
      /\ \A k \in 1..n:
           h[k] = IF /\ s[k].entity.kind \in kinds
                     /\ \A y \in ToSet(h[k - 1]): y.name # s[k].entity.name
                  THEN Append(h[k - 1], NameAndTypes(s[k])) ELSE h[k - 1]
  BY <1>2 DEF NamesSteps
<1>4. \A k \in 1..n: NameAndTypes(s[k]) \in S
  BY <1>1
<1> DEFINE V == {k \in 0..n: NamesOnce(h[k], s, k, kinds)}
<1> HIDE DEF n, s, S
<1>5. 0 \in V
  <2>1. Len(h[0]) = 0 /\ 1..0 = {} /\ 0 \in 0..n
    BY <1>1, <1>3
  <2> QED BY <2>1 DEF NamesOnce, Kept
<1>6. ASSUME NEW k \in 1..n, k - 1 \in V
      PROVE  k \in V
  <2>1. k \in Nat \ {0} /\ k - 1 \in 0..n /\ k \in 0..n
    BY <1>1
  <2>2. h[k - 1] \in L /\ NamesOnce(h[k - 1], s, k - 1, kinds)
    BY <1>2, <1>6, <2>1
  <2>3. NamesOnce(IF /\ s[k].entity.kind \in kinds
                     /\ \A y \in ToSet(h[k - 1]): y.name # s[k].entity.name
                  THEN Append(h[k - 1], NameAndTypes(s[k])) ELSE h[k - 1], s, k, kinds)
    BY <1>4, <2>1, <2>2, OneNameMore
  <2>4. NamesOnce(h[k], s, k, kinds)
    BY <1>3, <2>3
  <2> QED BY <2>1, <2>4
<1>7. n \in V
  <2>1. n \in 0..n
    BY <1>1
  <2> HIDE DEF V
  <2> QED BY <1>1, <1>5, <1>6, <2>1, AllNumbers
<1>8. n \in 0..n
  BY <1>1
<1> QED BY <1>2, <1>3, <1>7, <1>8 DEF n, s, S

\* Each name of the entities of these kinds once, with types one of them has.
Listing(a, g, kinds) ==
    LET found == Found(g, kinds, DOMAIN g)
        At(x) == g[x[1]].entities[x[2]]
    IN  /\ {y.name : y \in ToSet(a)} = {At(x).name : x \in found}
        /\ Cardinality({At(x).name : x \in found}) = Len(a)
        /\ ToSet(a) \subseteq {[name |-> At(x).name, types |-> At(x).types] : x \in found}

\* The names and types of topics and of services.
LEMMA NamesPromised ==
    ASSUME NEW g, IsGraph(g), NEW kinds
    PROVE  Listing(NamesAndTypes(g, kinds), g, kinds)
<1> DEFINE a == NamesAndTypes(g, kinds)
           found == Found(g, kinds, DOMAIN g)
           At(x) == g[x[1]].entities[x[2]]
           s == Entries(g)
           n == Len(s)
           names == {At(x).name : x \in found}
<1>1. PICK b: Lists(b, s, Spots(g, DOMAIN g), g)
  BY EntriesCounted
<1>2. NamesOnce(a, s, n, kinds)
  BY NamesListed
<1>3. Len(a) \in Nat /\ DOMAIN a = 1..Len(a) /\ ToSet(a) = {a[i]: i \in 1..Len(a)}
  BY NamesListed, LenProperties DEF ToSet
<1>4. /\ \A x \in found: x \in Spots(g, DOMAIN g) /\ At(x).kind \in kinds
      /\ \A x \in Spots(g, DOMAIN g): At(x).kind \in kinds => x \in found
  BY DEF Found, Spots
<1>5. ASSUME NEW x
      PROVE  EntryAt(g, x).entity = At(x)
  BY DEF EntryAt
<1> HIDE DEF a, found, At, s
<1>6. /\ \A k \in 1..n: b[k] \in Spots(g, DOMAIN g) /\ s[k] = EntryAt(g, b[k])
      /\ \A x \in Spots(g, DOMAIN g): \E k \in 1..n: b[k] = x
  BY <1>1 DEF Lists, Counts
<1> HIDE DEF n
<1>7. ASSUME NEW j \in Kept(s, n, kinds)
      PROVE  \E x \in found: s[j].entity = At(x)
  <2>1. j \in 1..n /\ s[j].entity.kind \in kinds
    BY DEF Kept
  <2>2. s[j].entity = At(b[j])
    BY <1>5, <1>6, <2>1
  <2> QED BY <1>4, <1>6, <2>1, <2>2
<1>8. ASSUME NEW x \in found
      PROVE  \E j \in Kept(s, n, kinds): s[j].entity = At(x)
  <2>1. PICK j \in 1..n: b[j] = x
    BY <1>4, <1>6
  <2>2. s[j].entity = At(x)
    BY <1>5, <1>6, <2>1
  <2> QED BY <1>4, <2>2 DEF Kept
<1>9. ASSUME NEW i \in 1..Len(a)
      PROVE  \E x \in found: a[i] = [name |-> At(x).name, types |-> At(x).types]
  <2>1. PICK j \in Kept(s, n, kinds): a[i] = NameAndTypes(s[j])
    BY <1>2 DEF NamesOnce
  <2>2. PICK x \in found: s[j].entity = At(x)
    BY <1>7
  <2> QED BY <2>1, <2>2 DEF NameAndTypes
<1>10. ASSUME NEW x \in found
       PROVE  \E i \in 1..Len(a): a[i].name = At(x).name
  <2>1. PICK j \in Kept(s, n, kinds): s[j].entity = At(x)
    BY <1>8
  <2>2. PICK i \in 1..Len(a): a[i].name = s[j].entity.name
    BY <1>2 DEF NamesOnce
  <2> QED BY <2>1, <2>2
<1>11. \A i \in 1..Len(a): a[i].name \in names
  <2> TAKE i \in 1..Len(a)
  <2>1. PICK x \in found: a[i] = [name |-> At(x).name, types |-> At(x).types]
    BY <1>9
  <2>2. a[i].name = At(x).name
    BY <2>1
  <2> QED BY <2>2
<1>12. \A v \in names: \E i \in 1..Len(a): a[i].name = v
  BY <1>10
<1>13. {y.name : y \in ToSet(a)} = names
  <2>1. ASSUME NEW y \in ToSet(a)
        PROVE  y.name \in names
    <3>1. PICK i \in 1..Len(a): y = a[i]
      BY <1>3
    <3> HIDE DEF names
    <3> QED BY <1>11, <3>1
  <2>2. ASSUME NEW v \in names
        PROVE  \E y \in ToSet(a): y.name = v
    <3>1. PICK i \in 1..Len(a): a[i].name = v
      BY <1>12
    <3> QED BY <1>3, <3>1
  <2> HIDE DEF names
  <2> QED BY <2>1, <2>2
<1>14. Cardinality(names) = Len(a)
  <2> DEFINE c == [i \in 1..Len(a) |-> a[i].name]
  <2>1. \A i, j \in 1..Len(a): a[i].name = a[j].name => i = j
    BY <1>2 DEF NamesOnce
  <2> HIDE DEF names
  <2>2. Counts(c, Len(a), names)
    BY <1>11, <1>12, <2>1 DEF Counts
  <2> HIDE DEF c
  <2> QED BY <1>3, <2>2, CountsAll
<1>15. ToSet(a) \subseteq {[name |-> At(x).name, types |-> At(x).types] : x \in found}
  <2> SUFFICES ASSUME NEW y \in ToSet(a)
               PROVE  \E x \in found: y = [name |-> At(x).name, types |-> At(x).types]
    OBVIOUS
  <2>1. PICK i \in 1..Len(a): y = a[i]
    BY <1>3
  <2> QED BY <1>9, <2>1
<1> QED BY <1>13, <1>14, <1>15 DEF Listing, a, found, At, names

\* What is answered of one node, and the places with the types v.
OfNode(g, kind, m) ==
    LET node == <<g[m]>>
        of == Those(Entries(node), OfKind(node, kind))
    IN  [k \in DOMAIN of |-> NameAndTypes(of[k])]

TypedAs(g, X, v) ==
    {x \in X: [name |-> g[x[1]].entities[x[2]].name,
               types |-> g[x[1]].entities[x[2]].types] = v}

\* Every entity of the kind in that node is listed, and nothing else.
LEMMA NodePromised ==
    ASSUME NEW g, IsGraph(g), NEW kind, NEW m \in DOMAIN g, NEW v
    PROVE  Cardinality(WithValue(OfNode(g, kind, m), DOMAIN OfNode(g, kind, m), v))
           = Cardinality(TypedAs(g, Found(g, {kind}, {m}), v))
<1> DEFINE node == <<g[m]>>
           of == Those(Entries(node), OfKind(node, kind))
           a == [k \in DOMAIN of |-> NameAndTypes(of[k])]
           n == Len(of)
           X == Found(g, {kind}, {m})
           Typed(x) == [name |-> g[x[1]].entities[x[2]].name,
                        types |-> g[x[1]].entities[x[2]].types]
           val == [x \in X |-> Typed(x)]
           Y == {x \in Spots(node, DOMAIN node): EntryAt(node, x) \in OfKind(node, kind)}
<1>1. /\ IsGraph(node) /\ DOMAIN node = {1} /\ node[1] = g[m]
  <2>1. node \in Seq({g[m]}) /\ Len(node) = 1 /\ node[1] = g[m]
    OBVIOUS
  <2>2. DOMAIN node = {1}
    OBVIOUS
  <2>3. ToSet(node) = {g[m]}
    <3> HIDE DEF node
    <3> QED BY <2>1, <2>2 DEF ToSet
  <2>4. g[m].entities \in Seq(ToSet(g[m].entities))
    BY DEF IsGraph
  <2> HIDE DEF node
  <2> QED BY <2>1, <2>2, <2>3, <2>4 DEF IsGraph
<1> HIDE DEF node
<1>2. PICK b: Lists(b, of, Y, node)
  BY <1>1, LoopCounted
<1>3. n \in Nat /\ DOMAIN of = 1..n
  <2>1. Entries(node) \in Seq(EntrySet(node))
    BY <1>1, EntriesSeq
  <2>2. of \in Seq(EntrySet(node))
    BY <2>1, ThoseCounted
  <2> HIDE DEF of
  <2> QED BY <2>2, LenProperties
<1>4. \A x \in Y: /\ x = <<1, x[2]>> /\ <<m, x[2]>> \in X
                  /\ EntryAt(node, x).entity = g[m].entities[x[2]]
  <2> TAKE x \in Y
  <2>1. x \in {1} \X DOMAIN g[m].entities
    BY <1>1 DEF Spots
  <2>2. node[x[1]].entities[x[2]].kind = kind
    BY <1>1, OfKindAt
  <2>3. x[1] = 1 /\ x[2] \in DOMAIN g[m].entities /\ x = <<1, x[2]>>
    BY <2>1
  <2>4. g[m].entities[x[2]].kind = kind
    BY <1>1, <2>2, <2>3
  <2>5. <<m, x[2]>> \in X
    BY <2>3, <2>4 DEF Found
  <2>6. EntryAt(node, x).entity = g[m].entities[x[2]]
    BY <1>1, <2>3 DEF EntryAt
  <2> QED BY <2>3, <2>5, <2>6
<1>5. \A y \in X: y = <<m, y[2]>> /\ <<1, y[2]>> \in Y
  <2> TAKE y \in X
  <2>1. y \in {m} \X DOMAIN g[m].entities /\ g[y[1]].entities[y[2]].kind = kind
    BY DEF Found
  <2>2. y[1] = m /\ y[2] \in DOMAIN g[m].entities /\ y = <<m, y[2]>>
    BY <2>1
  <2> DEFINE x == <<1, y[2]>>
  <2>3. x \in Spots(node, DOMAIN node)
    BY <1>1, <2>2 DEF Spots
  <2>4. node[x[1]].entities[x[2]].kind = kind
    BY <1>1, <2>1, <2>2
  <2>5. EntryAt(node, x) \in OfKind(node, kind)
    <3> HIDE DEF x
    <3> QED BY <1>1, <2>3, <2>4, OfKindAt
  <2> QED BY <2>2, <2>3, <2>5
<1> HIDE DEF X, Y
<1> DEFINE c == [k \in 1..n |-> <<m, b[k][2]>>]
<1>6. Counts(b, n, Y) /\ \A k \in 1..n: of[k] = EntryAt(node, b[k]) /\ b[k] \in Y
  BY <1>2 DEF Lists, Counts
<1> HIDE DEF n, of
<1>7. Counts(c, n, X)
  <2>1. \A k \in 1..n: c[k] = <<m, b[k][2]>> /\ c[k][2] = b[k][2] /\ c[k] \in X
    BY <1>4, <1>6
  <2>2. c \in [1..n -> X]
    BY <2>1
  <2> HIDE DEF c
  <2>3. \A i, j \in 1..n: c[i] = c[j] => i = j
    <3> SUFFICES ASSUME NEW i \in 1..n, NEW j \in 1..n, c[i] = c[j]
                 PROVE  i = j
      OBVIOUS
    <3>1. b[i][2] = b[j][2]
      BY <2>1
    <3>2. b[i] = <<1, b[i][2]>> /\ b[j] = <<1, b[j][2]>>
      BY <1>4, <1>6
    <3>3. b[i] = b[j]
      BY <3>1, <3>2
    <3> QED BY <1>6, <3>3 DEF Counts
  <2>4. \A y \in X: \E k \in 1..n: c[k] = y
    <3> TAKE y \in X
    <3>1. PICK k \in 1..n: b[k] = <<1, y[2]>>
      BY <1>5, <1>6 DEF Counts
    <3>2. b[k][2] = y[2]
      BY <3>1
    <3> QED BY <1>5, <2>1, <3>2
  <2> QED BY <2>2, <2>3, <2>4 DEF Counts
<1>8. DOMAIN a = 1..n
  BY <1>3
<1>9. ASSUME NEW k \in 1..n
      PROVE  a[k] = val[c[k]]
  <2>1. c[k] = <<m, b[k][2]>> /\ c[k] \in X
    BY <1>4, <1>6
  <2>2. of[k].entity = g[m].entities[b[k][2]]
    BY <1>4, <1>6
  <2>3. a[k] = NameAndTypes(of[k])
    BY <1>3
  <2> HIDE DEF a, c
  <2>4. c[k][1] = m /\ c[k][2] = b[k][2]
    BY <2>1
  <2>5. val[c[k]] = Typed(c[k])
    BY <2>1
  <2>6. NameAndTypes(of[k]) = Typed(c[k])
    BY <2>2, <2>4 DEF NameAndTypes
  <2> QED BY <2>3, <2>5, <2>6
<1>10. \A x \in X: val[x] = Typed(x)
  OBVIOUS
<1> HIDE DEF a, c, val
<1>11. ListsValues(a, n, val, c)
  BY <1>9 DEF ListsValues
<1>12. Cardinality(WithValue(a, 1..n, v)) = Cardinality(WithValue(val, X, v))
  BY <1>3, <1>7, <1>11, ValuesCounted
<1>13. WithValue(val, X, v) = {x \in X: Typed(x) = v}
  <2> HIDE DEF Typed
  <2> QED BY <1>10 DEF WithValue
<1>14. Cardinality({k \in DOMAIN a: a[k] = v}) = Cardinality({x \in X: Typed(x) = v})
  BY <1>8, <1>12, <1>13 DEF WithValue
<1>15. OfNode(g, kind, m) = a
  BY DEF OfNode, a, of, node
<1> QED BY <1>14, <1>15 DEF WithValue, TypedAs, X

\* What each function computes of a graph is what it promises.
LEMMA AnswerPromised ==
    ASSUME NEW g \in Graphs, NEW q \in Queries, NEW a, a = Answer(q, g)
    PROVE  Promised(q, g, a)
<1>1. IsGraph(g)
  BY GraphAssumption DEF IsGraph, Node, ToSet
<1>2. \A kind, topic:
        {x \in Found(g, {kind}, DOMAIN g): g[x[1]].entities[x[2]].name = topic}
        = OnTopics(g, kind, topic)
  BY DEF OnTopics
<1>3. CASE q.ask = "count"
  <2>1. a = Count(g, q.kind, q.topic)
    BY <1>3 DEF Answer
  <2>2. a = Cardinality(OnTopics(g, q.kind, q.topic))
    BY <1>1, <2>1, CountPromised
  <2> QED BY <1>3, <2>2 DEF Promised, OnTopics
<1>4. CASE q.ask = "matched"
  <2>1. a = Matched(g, q.kind, q.topic)
    BY <1>4 DEF Answer
  <2>2. a = Cardinality(OnTopics(g, q.kind, q.topic))
    BY <1>1, <2>1, CountPromised
  <2> QED BY <1>4, <2>2 DEF Promised, OnTopics
<1>5. CASE q.ask = "endpoints"
  <2>1. a = EndpointInfo(g, q.kind, q.topic)
    BY <1>5 DEF Answer
  <2>2. \A v: Cardinality({k \in DOMAIN a: a[k] = v})
              = Cardinality({x \in OnTopics(g, q.kind, q.topic):
                              [node |-> g[x[1]].name, namespace |-> g[x[1]].namespace,
                               type |-> g[x[1]].entities[x[2]].types[1],
                               kind |-> g[x[1]].entities[x[2]].kind] = v})
    BY <1>1, <2>1, EndpointsPromised
  <2> QED BY <1>5, <2>2 DEF Promised, SameBag, OnTopics
<1>6. CASE q.ask = "topics"
  <2>1. a = NamesAndTypes(g, {"publisher", "subscriber"})
    BY <1>6 DEF Answer
  <2>2. Listing(a, g, {"publisher", "subscriber"})
    BY <1>1, <2>1, NamesPromised
  <2> QED BY <1>6, <2>2 DEF Promised, Listing
<1>7. CASE q.ask = "services"
  <2>1. a = NamesAndTypes(g, {"service", "client"})
    BY <1>7 DEF Answer
  <2>2. Listing(a, g, {"service", "client"})
    BY <1>1, <2>1, NamesPromised
  <2> QED BY <1>7, <2>2 DEF Promised, Listing
<1>8. CASE q.ask = "by_node"
  <2> DEFINE here == {i \in DOMAIN g: g[i].name = q.name /\ g[i].namespace = q.namespace}
  <2>1. CASE here = {}
    <3>1. a = <<>>
      BY <1>8, <2>1 DEF Answer, ByNode
    <3> QED BY <1>8, <2>1, <3>1 DEF Promised
  <2>2. CASE here # {}
    <3> DEFINE m == Min(here)
    <3>1. m \in here
      <4>1. here \in SUBSET Nat
        BY <1>1, LenProperties DEF IsGraph
      <4> HIDE DEF here
      <4> QED BY <2>2, <4>1, LeastNatural DEF Min
    <3>2. a = OfNode(g, q.kind, m)
      BY <1>8, <2>2 DEF Answer, ByNode, OfNode
    <3>3. m \in DOMAIN g
      BY <3>1
    <3> HIDE DEF m
    <3>4. \A v: Cardinality(WithValue(a, DOMAIN a, v))
                = Cardinality(TypedAs(g, Found(g, {q.kind}, {m}), v))
      BY <1>1, <3>2, <3>3, NodePromised
    <3> QED BY <1>8, <2>2, <3>1, <3>4 DEF Promised, SameBag, WithValue, TypedAs
  <2> QED BY <2>1, <2>2
<1>9. CASE q.ask = "nodes"
  <2>1. a = NodeNames(g)
    BY <1>9 DEF Answer
  <2>2. Len(g) \in Nat /\ DOMAIN g = 1..Len(g)
    BY <1>1, LenProperties DEF IsGraph
  <2>3. ASSUME NEW i \in DOMAIN g, NEW s \in {g[i].name, g[i].namespace}, NameLen[s] < Len(g)
        PROVE  Min({NameLen[s], Len(g) - 1}) = NameLen[s]
    <3>1. NameLen[s] \in Nat
      BY GraphAssumption DEF Node, ToSet
    <3>2. NameLen[s] <= Len(g) - 1
      BY <2>2, <2>3, <3>1
    <3> QED BY <2>2, <3>1, <3>2 DEF Min
  <2>4. Len(NodeNames(g)) = Len(g)
    BY <2>2 DEF NodeNames
  <2>5. ASSUME NEW i \in DOMAIN g
        PROVE  /\ a[i].name.of = g[i].name
               /\ NameLen[g[i].name] < Len(g) => a[i].name.characters = NameLen[g[i].name]
               /\ a[i].namespace.of = g[i].namespace
               /\ NameLen[g[i].namespace] < Len(g) =>
                    a[i].namespace.characters = NameLen[g[i].namespace]
    <3> DEFINE m == Min({NameLen[g[i].name], Len(g) - 1})
               k == Min({NameLen[g[i].namespace], Len(g) - 1})
    <3>0. a[i] = [name |-> [of |-> g[i].name, characters |-> m],
                  namespace |-> [of |-> g[i].namespace, characters |-> k]]
      BY <2>1 DEF NodeNames
    <3> HIDE DEF m, k
    <3>1. /\ a[i].name.of = g[i].name /\ a[i].namespace.of = g[i].namespace
          /\ a[i].name.characters = m /\ a[i].namespace.characters = k
      BY <3>0
    <3>2. /\ NameLen[g[i].name] < Len(g) =>
               Min({NameLen[g[i].name], Len(g) - 1}) = NameLen[g[i].name]
          /\ NameLen[g[i].namespace] < Len(g) =>
               Min({NameLen[g[i].namespace], Len(g) - 1}) = NameLen[g[i].namespace]
      BY <2>3
    <3> QED BY <3>1, <3>2 DEF m, k
  <2> QED BY <1>9, <2>1, <2>4, <2>5 DEF Promised
<1> QED BY <1>3, <1>4, <1>5, <1>6, <1>7, <1>8, <1>9, GraphAssumption

-----------------------------------------------------------------------------
\* A thread that is in a call has asked something.
AskedInv == \A r \in Readers: pc[r] # "idle" => query[r] \in Queries

\* Nothing but Ask changes it, and Ask asks one of Queries.
LEMMA AskedStep == Types /\ AskedInv /\ [Next]_vars => AskedInv'
<1> SUFFICES ASSUME Types, AskedInv, [Next]_vars, NEW r \in Readers, pc'[r] # "idle"
             PROVE  query'[r] \in Queries
  BY DEF AskedInv
<1> USE DEF info, asking
<1>1. CASE UNCHANGED asking
  BY <1>1 DEF AskedInv
<1>2. ASSUME NEW x \in Readers, NEW q \in Queries, Ask(x, q)
      PROVE  query'[r] \in Queries
  <2>1. \/ query' = [query EXCEPT ![x] = q] /\ pc' = [pc EXCEPT ![x] = "length"]
        \/ UNCHANGED <<query, pc>>
    BY <1>2 DEF Ask
  <2>2. CASE UNCHANGED <<query, pc>>
    BY <2>2 DEF AskedInv
  <2>3. CASE query' = [query EXCEPT ![x] = q] /\ pc' = [pc EXCEPT ![x] = "length"]
    BY <2>3 DEF Types, AskedInv
  <2> QED BY <2>1, <2>2, <2>3
<1>3. ASSUME NEW x \in Readers, Read(x) \/ AnswerQuery(x)
      PROVE  query'[r] \in Queries
  <2>1. CASE Read(x)
    <3>1. PICK k \in 1..3: /\ pc[x] = Steps[k] /\ pc' = [pc EXCEPT ![x] = Steps[k + 1]]
                           /\ UNCHANGED query
      BY <2>1 DEF Read
    <3>2. pc[x] # "idle"
      BY <3>1 DEF Steps
    <3> QED BY <3>1, <3>2 DEF Types, AskedInv
  <2>2. CASE AnswerQuery(x)
    <3>1. query' = [query EXCEPT ![x] = None] /\ pc' = [pc EXCEPT ![x] = "idle"]
      BY <2>2 DEF AnswerQuery
    <3> QED BY <3>1 DEF Types, AskedInv
  <2> QED BY <1>3, <2>1, <2>2
<1> QED BY <1>1, <1>2, <1>3
     DEF Next, vars, GraphInit, GraphCreated, Shutdown, OnTopic, CopyGraph, SetFlags

\* A query that no message overlapped, after a message that was copied whole,
\* answers what its function promises of that graph, for any graph, any query and
\* any number of threads; or an error if a string is too long to be read.
THEOREM AnswersPromised == Spec => AnswersFromOneGraph
<1>1. Init => AskedInv
  BY DEF Init, AskedInv
<1>2. Spec => [](GraphInv /\ AskedInv)
  <2>1. GraphInv /\ AskedInv /\ [Next]_vars => (GraphInv /\ AskedInv)'
    BY GraphStep, AskedStep DEF GraphInv
  <2> QED BY <1>1, <2>1, GraphAtInit, PTL DEF Spec
<1>3. GraphInv /\ AskedInv /\ UndisturbedAnswer =>
        \A r \in Readers: pc[r] = "answer" /\ pc'[r] = "idle" /\ seen[r] # None =>
          IF Parses(seen[r]) THEN Promised(query[r], seen[r], answer'[r])
          ELSE answer'[r] = "ERROR"
  <2> SUFFICES ASSUME GraphInv, AskedInv, UndisturbedAnswer, NEW r \in Readers,
                      pc[r] = "answer", pc'[r] = "idle", seen[r] # None
               PROVE  IF Parses(seen[r]) THEN Promised(query[r], seen[r], answer'[r])
                      ELSE answer'[r] = "ERROR"
    OBVIOUS
  <2>1. query[r] \in Queries /\ seen[r] \in Graphs
    BY DEF GraphInv, AskedInv, Types, Bytes
  <2>2. answer'[r] = IF Parses(seen[r]) THEN Answer(query[r], seen[r]) ELSE "ERROR"
    BY DEF UndisturbedAnswer
  <2>3. CASE Parses(seen[r])
    <3>1. PICK g \in Graphs: g = seen[r]
      BY <2>1
    <3>2. PICK q \in Queries: q = query[r]
      BY <2>1
    <3>3. PICK a: a = answer'[r]
      OBVIOUS
    <3>4. a = Answer(q, g)
      BY <2>2, <2>3, <3>1, <3>2, <3>3
    <3>5. Promised(q, g, a)
      BY <3>4, AnswerPromised
    <3> QED BY <2>3, <3>1, <3>2, <3>3, <3>5
  <2> QED BY <2>2, <2>3
<1> QED BY <1>2, <1>3, UndisturbedAnswers, PTL DEF AnswersFromOneGraph
=============================================================================
