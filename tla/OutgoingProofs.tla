--------------------------- MODULE OutgoingProofs ---------------------------
(***************************************************************************)
(* Proofs about Outgoing for any number of entities, threads and calls, any*)
(* lengths of names and any sizes of buffers and of the stream.            *)
(***************************************************************************)
EXTENDS Outgoing, TLAPS

-----------------------------------------------------------------------------
\* The texts for each kind of entity.

\* The graph has texts of its own, in either mode.
LEMMA GraphTopicTexts ==
    ASSUME NEW e, NEW r, KindOf[e] = "graph_topic"
    PROVE  Texts(e, r) = TopicXml(e)
  BY DEF Texts

\* So for the reader.
LEMMA GraphReaderTexts ==
    ASSUME NEW e, NEW r, KindOf[e] = "graph_reader"
    PROVE  Texts(e, r) = ReaderXml(e)
  BY DEF Texts

\* The texts of the others depend on the mode.
LEMMA OtherTexts ==
    ASSUME NEW e, NEW r, KindOf[e] \notin {"graph_topic", "graph_reader"}
    PROVE  Texts(e, r) = IF r THEN TextsWithRefs(e) ELSE TextsWithoutRefs(e)
  BY DEF Texts

\* With references services and clients have XML, the others a profile or nothing.
LEMMA WithRefs ==
    ASSUME NEW e \in Named
    PROVE  \/ KindOf[e] \in {"service", "client"} /\ TextsWithRefs(e) = ServiceXml(e)
           \/ KindOf[e] \notin {"service", "client"}
              /\ \E n: TextsWithRefs(e) = Profile(n) \/ TextsWithRefs(e) = << >>
  BY DEF TextsWithRefs

\* Without references each kind has texts of its own.
LEMMA WithoutRefs ==
    ASSUME NEW e \in Named
    PROVE  /\ KindOf[e] = "node" => TextsWithoutRefs(e) =
                << Call({"xrce_node_name"}, NameLen[e], NodeMax, FALSE, {}) >>
           /\ KindOf[e] = "topic" => TextsWithoutRefs(e) = TopicTexts(e)
           /\ KindOf[e] = "service" => TextsWithoutRefs(e) = ServiceTexts(e)
           /\ KindOf[e] = "client" => TextsWithoutRefs(e) = ClientTexts(e)
           /\ KindOf[e] \notin {"node", "topic", "service", "client"} =>
                TextsWithoutRefs(e) = << >>
  BY DEF TextsWithoutRefs

\* What a call copies was written by a call before it.
Ordered(todo) ==
    \A i \in DOMAIN todo:
        /\ i \in Nat \ {0} /\ 1..i \subseteq DOMAIN todo
        /\ todo[i].quotes = {} \/ \E j \in DOMAIN todo: j < i /\ todo[i].quotes = todo[j].buffers

\* Three texts, the last of which copies those of one before it.
LEMMA TripleOrdered ==
    ASSUME NEW c, NEW d, NEW x, c.quotes = {}, d.quotes = {},
           x.quotes = c.buffers \/ x.quotes = d.buffers
    PROVE  Ordered(<<c, d, x>>)
<1> DEFINE g == <<c, d, x>>
<1>1. DOMAIN g = 1..3 /\ g[1] = c /\ g[2] = d /\ g[3] = x
  OBVIOUS
<1> HIDE DEF g
<1>2. \A i \in 1..3: i = 1 \/ i = 2 \/ i = 3
  OBVIOUS
<1>3. \E j \in DOMAIN g: j < 3 /\ g[3].quotes = g[j].buffers
  <2>1. 1 \in DOMAIN g /\ 2 \in DOMAIN g /\ 1 < 3 /\ 2 < 3
    BY <1>1
  <2> QED BY <1>1, <2>1
<1>4. Ordered(g)
  BY <1>1, <1>2, <1>3 DEF Ordered
<1> QED BY <1>4 DEF g

\* The XML of the graph's topic copies the type name written before it.
LEMMA TopicXmlOrdered ==
    ASSUME NEW e
    PROVE  Ordered(TopicXml(e))
<1> DEFINE c == Call({}, NameLen[e], TopicMax + 1, TRUE, {})
           d == Call({"build_topic_xml type_name_buffer"}, TypeLen[e], TypeMax, TRUE, {})
           x == Call({NamingBuffer}, 60 + NameLen[e] + TypeLen[e], RefMax, FALSE,
                     {"build_topic_xml type_name_buffer"})
<1>1. TopicXml(e) = <<c, d, x>>
  BY DEF TopicXml
<1>2. c.quotes = {} /\ d.quotes = {} /\ x.quotes = d.buffers
  BY DEF Call
<1> HIDE DEF c, d, x
<1> QED BY <1>1, <1>2, TripleOrdered

\* So does that of its data reader.
LEMMA ReaderXmlOrdered ==
    ASSUME NEW e
    PROVE  Ordered(ReaderXml(e))
<1> DEFINE c == Call({"build_xml type_name_buffer"}, TypeLen[e], TypeMax, TRUE, {})
           x == Call({NamingBuffer}, 279 + NameLen[e] + TypeLen[e], RefMax, FALSE,
                     {"build_xml type_name_buffer"})
           g == <<c, x>>
<1>1. ReaderXml(e) = g
  BY DEF ReaderXml
<1>2. c.quotes = {} /\ x.quotes = c.buffers
  BY DEF Call
<1> HIDE DEF c, x
<1>3. DOMAIN g = 1..2 /\ g[1] = c /\ g[2] = x
  OBVIOUS
<1> HIDE DEF g
<1>4. \A i \in 1..2: i = 1 \/ i = 2
  OBVIOUS
<1>5. \E j \in DOMAIN g: j < 2 /\ g[2].quotes = g[j].buffers
  <2>1. 1 \in DOMAIN g /\ 1 < 2
    BY <1>3
  <2> QED BY <1>2, <1>3, <2>1
<1> QED BY <1>1, <1>2, <1>3, <1>4, <1>5 DEF Ordered

\* The XML of a service or client copies the two type names written before it.
LEMMA ServiceXmlOrdered ==
    ASSUME NEW e
    PROVE  Ordered(ServiceXml(e))
<1> DEFINE c == Call({"req_type_name_buffer", "res_type_name_buffer"},
                     TypeLen[e], TypeMax, FALSE, {})
           d == ServiceTopicNames(e)
           x == Call({NamingBuffer},
                     (IF KindOf[e] = "client" THEN 193 ELSE 189) + 3 * NameLen[e]
                       + 2 * TypeLen[e],
                     RefMax, FALSE, {"req_type_name_buffer", "res_type_name_buffer"})
<1>1. ServiceXml(e) = <<c, d, x>>
  BY DEF ServiceXml
<1>2. c.quotes = {} /\ d.quotes = {} /\ x.quotes = c.buffers
  BY DEF Call, ServiceTopicNames
<1> HIDE DEF c, d, x
<1> QED BY <1>1, <1>2, TripleOrdered

\* At most two texts that copy nothing are ordered.
LEMMA PlainOrdered ==
    ASSUME NEW todo,
           \/ todo = << >>
           \/ \E c: todo = <<c>> /\ c.quotes = {}
           \/ \E c, d: todo = <<c, d>> /\ c.quotes = {} /\ d.quotes = {}
    PROVE  Ordered(todo)
<1>1. CASE todo = << >>
  BY <1>1 DEF Ordered
<1>2. CASE \E c: todo = <<c>> /\ c.quotes = {}
  BY <1>2 DEF Ordered
<1>3. CASE \E c, d: todo = <<c, d>> /\ c.quotes = {} /\ d.quotes = {}
  BY <1>3 DEF Ordered
<1> QED BY <1>1, <1>2, <1>3

\* Two such texts, the form in which the lemma is used.
LEMMA PairOrdered ==
    ASSUME NEW c, NEW d, c.quotes = {}, d.quotes = {}
    PROVE  Ordered(<<c, d>>)
  BY PlainOrdered

\* The texts for every entity are ordered.
LEMMA TextsOrdered ==
    ASSUME NEW e \in Named, NEW r \in BOOLEAN
    PROVE  Ordered(Texts(e, r))
<1>1. CASE KindOf[e] = "graph_topic"
  <2>1. Texts(e, r) = TopicXml(e)
    BY <1>1, GraphTopicTexts
  <2> QED BY <2>1, TopicXmlOrdered
<1>4. CASE KindOf[e] = "graph_reader"
  <2>1. Texts(e, r) = ReaderXml(e)
    BY <1>4, GraphReaderTexts
  <2> QED BY <2>1, ReaderXmlOrdered
<1>2. CASE KindOf[e] \notin {"graph_topic", "graph_reader"} /\ r
  <2>1. Texts(e, r) = TextsWithRefs(e)
    BY <1>2, OtherTexts
  <2>2. \A n: Ordered(Profile(n))
    BY PlainOrdered DEF Profile, Call
  <2>3. Ordered(<< >>)
    BY PlainOrdered
  <2> QED BY <2>1, <2>2, <2>3, WithRefs, ServiceXmlOrdered
<1>3. CASE KindOf[e] \notin {"graph_topic", "graph_reader"} /\ ~ r
  <2>1. Texts(e, r) = TextsWithoutRefs(e)
    BY <1>3, OtherTexts
  <2>2. Ordered(<< Call({"xrce_node_name"}, NameLen[e], NodeMax, FALSE, {}) >>)
    BY PlainOrdered DEF Call
  <2>3. Ordered(TopicTexts(e))
    BY PlainOrdered DEF TopicTexts, Call
  <2>4. Ordered(ServiceTexts(e))
    <3> DEFINE c == Call({"service req_type_name", "service res_type_name"},
                         TypeLen[e], TypeMax, TRUE, {})
    <3> DEFINE d == Call({"service req_topic_name", "service res_topic_name"},
                         NameLen[e] + 9, TopicMax, TRUE, {})
    <3>1. ServiceTexts(e) = <<c, d>>
      BY DEF ServiceTexts
    <3>2. c.quotes = {} /\ d.quotes = {}
      BY DEF Call
    <3> HIDE DEF c, d
    <3> QED BY <3>1, <3>2, PairOrdered
  <2>5. Ordered(ClientTexts(e))
    <3> DEFINE c == Call({"client req_type_name", "client res_type_name"},
                         TypeLen[e], TypeMax, TRUE, {})
    <3> DEFINE d == Call({"client req_topic_name", "client res_topic_name"},
                         NameLen[e] + 9, TopicMax, TRUE, {})
    <3>1. ClientTexts(e) = <<c, d>>
      BY DEF ClientTexts
    <3>2. c.quotes = {} /\ d.quotes = {}
      BY DEF Call
    <3> HIDE DEF c, d
    <3> QED BY <3>1, <3>2, PairOrdered
  <2>6. Ordered(<< >>)
    BY PlainOrdered
  <2> QED BY <2>1, <2>2, <2>3, <2>4, <2>5, <2>6, WithoutRefs
<1> QED BY <1>1, <1>2, <1>3, <1>4

\* The texts are written into, and copied from, the shared buffers.
LEMMA CallsInBuffers ==
    ASSUME NEW e \in Named, NEW r \in BOOLEAN, NEW i \in DOMAIN Texts(e, r)
    PROVE  /\ Texts(e, r)[i].buffers \subseteq Buffers
           /\ Texts(e, r)[i].quotes \subseteq Buffers
<1>1. \A j \in DOMAIN Texts(e, r): Texts(e, r)[j].buffers \subseteq Buffers
  <2> DEFINE U(x, y) == UNION {Texts(x, y)[j].buffers : j \in DOMAIN Texts(x, y)}
  <2>1. U(e, r) \in {U(x, y) : x \in Named, y \in BOOLEAN}
    <3> HIDE DEF U
    <3> QED OBVIOUS
  <2>2. Buffers = UNION {U(x, y) : x \in Named, y \in BOOLEAN}
    BY DEF Buffers
  <2>3. \A j \in DOMAIN Texts(e, r): Texts(e, r)[j].buffers \subseteq U(e, r)
    OBVIOUS
  <2> HIDE DEF U
  <2>4. U(e, r) \subseteq Buffers
    BY <2>1, <2>2
  <2> QED BY <2>3, <2>4
<1>2. \/ Texts(e, r)[i].quotes = {}
      \/ \E j \in DOMAIN Texts(e, r): Texts(e, r)[i].quotes = Texts(e, r)[j].buffers
  BY TextsOrdered DEF Ordered
<1> QED BY <1>1, <1>2

\* A request carries texts of shared buffers only.
LEMMA CarriedInBuffers ==
    ASSUME NEW e \in Named, NEW r \in BOOLEAN
    PROVE  Carried(e, r) \subseteq Buffers
  BY CallsInBuffers DEF Carried

-----------------------------------------------------------------------------
\* Type correctness.

TextType == [of: SUBSET Named, cut: BOOLEAN]

\* What a call writes is a text.
LEMMA WrittenType ==
    ASSUME NEW e \in Named, NEW r \in BOOLEAN, NEW i \in DOMAIN Texts(e, r),
           NEW txt \in [Buffers -> TextType]
    PROVE  Written(e, Texts(e, r)[i], txt) \in TextType
<1> DEFINE c == Texts(e, r)[i]
<1>1. c.quotes \subseteq Buffers
  BY CallsInBuffers
<1>2. \A b \in c.quotes: txt[b].of \subseteq Named
  BY <1>1 DEF TextType
<1> HIDE DEF c
<1>3. UNION {txt[b].of : b \in c.quotes} \subseteq Named
  BY <1>2
<1> DEFINE ct == ~ (c.length < c.size) \/ \E b \in c.quotes: txt[b].cut
           o == {e} \cup UNION {txt[b].of : b \in c.quotes}
<1>4. ct \in BOOLEAN
  OBVIOUS
<1>5. o \in SUBSET Named
  BY <1>3
<1>6. Written(e, c, txt) = [of |-> o, cut |-> ct]
  BY DEF Written
<1> HIDE DEF ct, o
<1>7. Written(e, c, txt) \in TextType
  BY <1>4, <1>5, <1>6 DEF TextType
<1> QED BY <1>7 DEF c

\* What every action needs of the constants, of the type invariant and of a
\* thread in a call.
LEMMA InCall ==
    ASSUME TypeOK, NEW t \in Threads, pc[t] # "idle"
    PROVE  /\ mine[t] \in Calls /\ mine[t] \in 1..calls
           /\ pc[t] \in {"texts", "status"} => Subject(t) \in Named
           /\ pc[t] \notin {"texts", "status"} =>
                /\ Subject(t) \in Senders
                /\ Stream(t) \in Streams
                /\ Role[Subject(t)] \in {"publisher", "client", "service"}
<1>1. mine[t] \in 1..calls /\ 1..calls \subseteq Calls
  BY OutgoingAssumption DEF TypeOK, Calls
<1>2. pc[t] \notin {"texts", "status"} => Subject(t) \in Senders
  BY DEF TypeOK
<1>3. pc[t] \in {"texts", "status"} => Subject(t) \in Named
  BY DEF TypeOK
<1> QED BY <1>1, <1>2, <1>3, OutgoingAssumption DEF Stream

\* A call that returns keeps the types of what it changes.
LEMMA ReturnsType ==
    ASSUME TypeOK, NEW t \in Threads, NEW r \in {"OK", "ERROR"}, Returns(t, r),
           mine[t] \in Calls, UNCHANGED <<mine, calls, subject>>
    PROVE  /\ pc' \in [Threads -> {"idle", "texts", "status", "prepare", "fragments",
                                   "write", "confirm", "flash"}]
           /\ result' \in [Calls -> {"none", "OK", "ERROR"}]
           /\ \A u \in Threads: pc'[u] # "idle" =>
                /\ mine'[u] # 0
                /\ subject'[mine'[u]] \in
                     IF pc'[u] \in {"texts", "status"} THEN Named ELSE Senders
  BY DEF TypeOK, Returns, Subject

\* A call that begins keeps the types of what it changes.
LEMMA BeginType ==
    ASSUME TypeOK, NEW t \in Threads, NEW e \in Senders \cup Named, Begin(t, e),
           NEW p \in {"prepare", "texts"}, pc' = [pc EXCEPT ![t] = p],
           p = "texts" <=> e \in Named
    PROVE  /\ calls' \in 0..MaxCalls /\ calls' = calls + 1
           /\ mine' \in [Threads -> 0..calls']
           /\ subject' \in [Calls -> Senders \cup Named \cup {Nobody}]
           /\ queued' \subseteq 1..calls' /\ effort' \subseteq 1..calls'
           /\ \A u \in Threads: pc'[u] # "idle" =>
                /\ mine'[u] # 0
                /\ subject'[mine'[u]] \in
                     IF pc'[u] \in {"texts", "status"} THEN Named ELSE Senders
<1>1. calls \in Nat /\ MaxCalls \in Nat /\ calls + 1 \in Calls /\ calls' = calls + 1
  BY OutgoingAssumption DEF TypeOK, Calls, Begin
<1>2. mine' \in [Threads -> 0..calls'] /\ calls' \in 0..MaxCalls
  BY <1>1 DEF TypeOK, Begin
<1>3. subject' = [subject EXCEPT ![calls + 1] = e]
      /\ subject' \in [Calls -> Senders \cup Named \cup {Nobody}]
  BY <1>1 DEF TypeOK, Begin
<1>4. queued' \subseteq 1..calls' /\ effort' \subseteq 1..calls'
  BY <1>1 DEF TypeOK, Begin, stream
<1>5. ASSUME NEW u \in Threads, pc'[u] # "idle"
      PROVE  /\ mine'[u] # 0
             /\ subject'[mine'[u]] \in
                  IF pc'[u] \in {"texts", "status"} THEN Named ELSE Senders
  <2>1. CASE u = t
    <3>1. mine'[t] = calls + 1 /\ pc'[t] = p
      BY DEF TypeOK, Begin
    <3>2. subject'[calls + 1] = e
      BY <1>1, <1>3 DEF TypeOK
    <3> QED BY <1>1, <2>1, <3>1, <3>2, OutgoingAssumption
  <2>2. CASE u # t
    <3>1. mine'[u] = mine[u] /\ pc'[u] = pc[u]
      BY <2>2 DEF TypeOK, Begin
    <3>2. mine[u] \in 1..calls
      BY <1>5, <3>1, InCall
    <3>3. subject'[mine[u]] = subject[mine[u]]
      BY <1>1, <1>3, <3>2 DEF TypeOK, Calls
    <3> QED BY <1>1, <1>5, <3>1, <3>2, <3>3 DEF TypeOK, Subject
  <2> QED BY <2>1, <2>2
<1> QED BY <1>1, <1>2, <1>3, <1>4, <1>5

\* A thread that is in a call and goes on in it keeps TypeOK's last part.
LEMMA GoesOn ==
    ASSUME TypeOK, NEW t \in Threads, pc[t] # "idle",
           NEW p \in {"texts", "status", "prepare", "fragments", "write", "confirm", "flash"},
           pc' = [pc EXCEPT ![t] = p],
           p \in {"texts", "status"} <=> pc[t] \in {"texts", "status"},
           UNCHANGED <<mine, calls, subject>>
    PROVE  /\ pc' \in [Threads -> {"idle", "texts", "status", "prepare", "fragments",
                                   "write", "confirm", "flash"}]
           /\ \A u \in Threads: pc'[u] # "idle" =>
                /\ mine'[u] # 0
                /\ subject'[mine'[u]] \in
                     IF pc'[u] \in {"texts", "status"} THEN Named ELSE Senders
  BY DEF TypeOK, Subject

\* A reserved message is that of a call, and its stream is locked by a thread.
LEMMA ReserveType ==
    ASSUME TypeOK, NEW t \in Threads, pc[t] \in {"prepare", "fragments"}, Reserve(t),
           UNCHANGED <<refs, texts, mine, calls, subject>>
    PROVE  TypeOK'
<1>1. mine[t] \in Calls /\ mine[t] \in 1..calls /\ Stream(t) \in Streams
  BY InCall
<1>2. /\ lock' \in [Streams -> Threads \cup {Nobody}]
      /\ content' \in [Calls -> {"none", "blank", "good", "bad"}]
  BY <1>1 DEF TypeOK, Reserve
<1>3. queued' \subseteq 1..calls /\ effort' \subseteq 1..calls
  BY <1>1 DEF TypeOK, Reserve
<1>4. pc' = [pc EXCEPT ![t] = "write"]
  BY DEF Reserve
<1>5. /\ pc' \in [Threads -> {"idle", "texts", "status", "prepare", "fragments",
                              "write", "confirm", "flash"}]
      /\ \A u \in Threads: pc'[u] # "idle" =>
           /\ mine'[u] # 0
           /\ subject'[mine'[u]] \in
                IF pc'[u] \in {"texts", "status"} THEN Named ELSE Senders
  BY <1>4, GoesOn
<1> QED BY <1>2, <1>3, <1>5 DEF TypeOK, Reserve, texts, Subject

\* Writing a text keeps TypeOK.
LEMMA MakeTextType ==
    ASSUME TypeOK, NEW t \in Threads, MakeText(t)
    PROVE  TypeOK'
<1> DEFINE todo == Texts(Subject(t), refs)
           c == todo[step[t]]
<1>1. pc[t] = "texts" /\ Subject(t) \in Named /\ mine[t] \in Calls /\ refs \in BOOLEAN
  BY InCall DEF MakeText, Creating, TypeOK
<1>2. step[t] \in DOMAIN todo
  BY DEF MakeText
<1>3. Written(Subject(t), c, text) \in TextType
  BY <1>1, <1>2, WrittenType DEF TypeOK, TextType
<1>4. text' = [b \in Buffers |-> IF b \in c.buffers
                                 THEN Written(Subject(t), c, text) ELSE text[b]]
  BY DEF MakeText
<1> DEFINE w == Written(Subject(t), c, text)
           buffers == c.buffers
<1>5. text' \in [Buffers -> TextType]
  <2>1. text \in [Buffers -> TextType]
    BY DEF TypeOK, TextType
  <2>2. w \in TextType
    BY <1>3
  <2>3. text' = [b \in Buffers |-> IF b \in buffers THEN w ELSE text[b]]
    BY <1>4
  <2> HIDE DEF w, buffers, c
  <2> QED BY <2>1, <2>2, <2>3
<1>6. \/ step' = [step EXCEPT ![t] = @ + 1] /\ UNCHANGED <<pc, result>>
      \/ Returns(t, "ERROR") /\ UNCHANGED step
  BY DEF MakeText
<1>7. UNCHANGED <<refs, mine, alone, calls, subject, stream, carried>>
  BY DEF MakeText
<1>8. step' \in [Threads -> Nat]
  BY <1>6 DEF TypeOK
<1> HIDE DEF todo, c
<1>9. CASE UNCHANGED <<pc, result>>
  BY <1>5, <1>7, <1>8, <1>9 DEF TypeOK, stream, TextType, Subject
<1>10. CASE Returns(t, "ERROR")
  BY <1>1, <1>5, <1>7, <1>8, <1>10, ReturnsType DEF TypeOK, stream, TextType, Subject
<1> QED BY <1>6, <1>9, <1>10

\* Buffering a request keeps TypeOK.
LEMMA BufferRequestType ==
    ASSUME TypeOK, NEW t \in Threads, BufferRequest(t)
    PROVE  TypeOK'
<1>1. pc[t] = "texts" /\ Subject(t) \in Named /\ refs \in BOOLEAN
      /\ mine[t] \in Calls /\ mine[t] \in 1..calls
  BY InCall DEF BufferRequest, Creating, TypeOK
<1>2. \A b \in Carried(Subject(t), refs): text[b] \in TextType
  BY <1>1, CarriedInBuffers DEF TypeOK, TextType
<1> DEFINE ct == {text[b] : b \in Carried(Subject(t), refs)}
<1>3. ct \in SUBSET TextType
  BY <1>2
<1>4. \/ carried' = [carried EXCEPT ![mine[t]] = [texts |-> ct, alone |-> alone[t]]]
      \/ UNCHANGED carried
  BY DEF BufferRequest
<1> HIDE DEF ct
<1>5. carried' \in [Calls -> [texts: SUBSET TextType, alone: BOOLEAN]]
  BY <1>1, <1>3, <1>4 DEF TypeOK, TextType
<1>6. content' \in [Calls -> {"none", "blank", "good", "bad"}] /\ queued' \subseteq 1..calls
  <2>1. CASE content' = [content EXCEPT ![mine[t]] = "good"]
             /\ queued' = queued \cup {mine[t]}
    BY <1>1, <2>1 DEF TypeOK
  <2>2. CASE UNCHANGED <<content, queued>>
    BY <2>2 DEF TypeOK
  <2> QED BY <2>1, <2>2 DEF BufferRequest
<1>7. pc' = [pc EXCEPT ![t] = "status"]
  BY DEF BufferRequest, Awaits
<1>8. /\ pc' \in [Threads -> {"idle", "texts", "status", "prepare", "fragments",
                              "write", "confirm", "flash"}]
      /\ \A u \in Threads: pc'[u] # "idle" =>
           /\ mine'[u] # 0
           /\ subject'[mine'[u]] \in
                IF pc'[u] \in {"texts", "status"} THEN Named ELSE Senders
  <2>1. UNCHANGED <<mine, calls, subject>>
    BY DEF BufferRequest
  <2> QED BY <1>1, <1>7, <2>1, GoesOn
<1> QED BY <1>5, <1>6, <1>8 DEF TypeOK, BufferRequest, TextType, Subject

\* Every step keeps TypeOK.
LEMMA OutgoingTypeStep ==
    ASSUME TypeOK, [Next]_vars
    PROVE  TypeOK'
<1>1. ASSUME NEW t \in Threads, NEW e \in Senders, BeginSend(t, e) PROVE TypeOK'
  <2>1. Begin(t, e) /\ pc' = [pc EXCEPT ![t] = "prepare"] /\ UNCHANGED <<step, alone>>
        /\ e \notin Named
    BY <1>1, OutgoingAssumption DEF BeginSend
  <2>2. /\ calls' \in 0..MaxCalls /\ mine' \in [Threads -> 0..calls']
        /\ subject' \in [Calls -> Senders \cup Named \cup {Nobody}]
        /\ queued' \subseteq 1..calls' /\ effort' \subseteq 1..calls'
        /\ \A u \in Threads: pc'[u] # "idle" =>
             /\ mine'[u] # 0
             /\ subject'[mine'[u]] \in
                  IF pc'[u] \in {"texts", "status"} THEN Named ELSE Senders
    BY <2>1, BeginType
  <2> QED BY <2>1, <2>2 DEF TypeOK, Begin, stream, Subject
<1>2. ASSUME NEW t \in Threads, NEW e \in Named, BeginCreation(t, e) PROVE TypeOK'
  <2>1. Begin(t, e) /\ pc' = [pc EXCEPT ![t] = "texts"] /\ step' = [step EXCEPT ![t] = 1]
    BY <1>2 DEF BeginCreation
  <2>2. /\ calls' \in 0..MaxCalls /\ mine' \in [Threads -> 0..calls']
        /\ subject' \in [Calls -> Senders \cup Named \cup {Nobody}]
        /\ queued' \subseteq 1..calls' /\ effort' \subseteq 1..calls'
        /\ \A u \in Threads: pc'[u] # "idle" =>
             /\ mine'[u] # 0
             /\ subject'[mine'[u]] \in
                  IF pc'[u] \in {"texts", "status"} THEN Named ELSE Senders
    BY <2>1, BeginType
  <2>3. alone' \in [Threads -> BOOLEAN]
    <3> DEFINE others == {u \in Threads: Creating(u) /\ Shares(Subject(u), e)}
    <3>1. alone' = [u \in Threads |-> CASE u = t -> others = {}
                                        [] u \in others -> FALSE
                                        [] OTHER -> alone[u]]
      BY <1>2 DEF BeginCreation
    <3> HIDE DEF others
    <3> QED BY <3>1 DEF TypeOK
  <2> QED BY <2>1, <2>2, <2>3 DEF TypeOK, Begin, stream, Subject
<1>3. ASSUME NEW t \in Threads, ThreadStep(t) PROVE TypeOK'
  <2>1. CASE MakeText(t)
    BY <2>1, MakeTextType
  <2>2. CASE BufferRequest(t)
    BY <2>2, BufferRequestType
  <2>3. ASSUME NEW r \in {"OK", "ERROR"}, Status(t, r) PROVE TypeOK'
    <3>1. mine[t] \in Calls
      BY <2>3, InCall DEF Status
    <3>2. Returns(t, r) /\ UNCHANGED <<refs, texts, mine, calls, subject, stream>>
      BY <2>3 DEF Status
    <3> QED BY <3>1, <3>2, ReturnsType DEF TypeOK, texts, stream, Subject
  <2>4. CASE Prepare(t)
    BY <2>4, ReserveType DEF Prepare
  <2>5. CASE PrepareFails(t)
    <3>1. UNCHANGED <<refs, texts, mine, calls, subject, stream>> /\ pc[t] = "prepare"
      BY <2>5 DEF PrepareFails
    <3>2. CASE pc' = [pc EXCEPT ![t] = "fragments"] /\ UNCHANGED result
      BY <3>1, <3>2, GoesOn DEF TypeOK, texts, stream, Subject
    <3>3. CASE Returns(t, "ERROR")
      BY <3>1, <3>3, InCall, ReturnsType DEF TypeOK, texts, stream, Subject
    <3> QED BY <2>5, <3>2, <3>3 DEF PrepareFails
  <2>6. CASE PrepareFragments(t)
    BY <2>6, ReserveType DEF PrepareFragments
  <2>7. CASE FlushTimeout(t)
    BY <2>7, InCall, ReturnsType DEF FlushTimeout, TypeOK, texts, stream, Subject
  <2>8. ASSUME NEW ok \in BOOLEAN, Write(t, ok) PROVE TypeOK'
    <3>1. mine[t] \in Calls /\ Stream(t) \in Streams /\ pc[t] = "write"
      BY <2>8, InCall DEF Write
    <3>2. /\ content' \in [Calls -> {"none", "blank", "good", "bad"}]
          /\ lock' \in [Streams -> Threads \cup {Nobody}]
      BY <2>8, <3>1 DEF Write, TypeOK
    <3> DEFINE p == IF Stream(t) = "reliable" THEN "confirm" ELSE "flash"
    <3>3. p \in {"confirm", "flash"} /\ pc' = [pc EXCEPT ![t] = p]
      BY <2>8 DEF Write
    <3> HIDE DEF p
    <3>4. UNCHANGED <<refs, texts, mine, calls, subject, queued, effort, received, result>>
      BY <2>8 DEF Write
    <3> QED BY <3>1, <3>2, <3>3, <3>4, GoesOn DEF TypeOK, texts, Subject
  <2>9. ASSUME NEW sent \in SUBSET effort, Flash(t, sent) PROVE TypeOK'
    <3> DEFINE r == IF Role[Subject(t)] = "publisher" /\ content[mine[t]] = "bad"
                    THEN "ERROR" ELSE "OK"
    <3>1. mine[t] \in Calls /\ r \in {"OK", "ERROR"} /\ Returns(t, r)
      BY <2>9, InCall DEF Flash
    <3> HIDE DEF r
    <3>2. UNCHANGED <<refs, texts, mine, calls, subject, lock, content, queued>>
      BY <2>9 DEF Flash
    <3>3. received' \in [Calls -> {"none", "blank", "good", "bad"}] /\ effort' = {}
      BY <2>9 DEF Flash, TypeOK
    <3> QED BY <3>1, <3>2, <3>3, ReturnsType DEF TypeOK, texts, Subject
  <2>10. ASSUME NEW delivered \in BOOLEAN, Confirm(t, delivered) PROVE TypeOK'
    <3> DEFINE r == IF Role[Subject(t)] = "publisher"
                         /\ (content[mine[t]] = "bad" \/ ~ delivered)
                    THEN "ERROR" ELSE "OK"
    <3>1. mine[t] \in Calls /\ r \in {"OK", "ERROR"} /\ Returns(t, r)
      BY <2>10, InCall DEF Confirm
    <3> HIDE DEF r
    <3>2. UNCHANGED <<refs, texts, mine, calls, subject, stream>>
      BY <2>10 DEF Confirm
    <3> QED BY <3>1, <3>2, ReturnsType DEF TypeOK, texts, stream, Subject
  <2> QED BY <1>3, <2>1, <2>2, <2>3, <2>4, <2>5, <2>6, <2>7, <2>8, <2>9, <2>10
        DEF ThreadStep
<1>4. ASSUME NEW n \in Calls, Transmit(n) PROVE TypeOK'
  BY <1>4 DEF Transmit, TypeOK, texts, Subject
<1>5. ASSUME NEW n \in Calls, Acknowledge(n) PROVE TypeOK'
  BY <1>5 DEF Acknowledge, TypeOK, texts, Subject
<1>6. CASE UNCHANGED vars
  BY <1>6 DEF vars, TypeOK, Subject
<1> QED BY <1>1, <1>2, <1>3, <1>4, <1>5, <1>6 DEF Next

\* Every variable of the sending path stays in its domain, whatever the number
\* of threads and calls and the lengths of the names.
THEOREM OutgoingTypeCorrect == Spec => []TypeOK
<1>1. Init => TypeOK
  BY OutgoingAssumption DEF Init, TypeOK, Calls, Subject
<1>2. TypeOK /\ [Next]_vars => TypeOK'
  BY OutgoingTypeStep
<1> QED BY <1>1, <1>2, PTL DEF Spec

-----------------------------------------------------------------------------
\* What the stream holds and what the agent gets.

\* Every thread has a call of its own.
OwnCalls ==
    \A t, u \in Threads: t # u /\ mine[t] = mine[u] => mine[t] = 0

\* Calls not made yet have left nothing.
NoneAhead ==
    \A n \in Calls: n > calls =>
        content[n] = "none" /\ received[n] = "none" /\ result[n] = "none"

\* Before a message is reserved the stream has nothing of the call; while it
\* is written the thread holds the lock of its stream.
Progress ==
    \A t \in Threads:
        /\ pc[t] \in {"texts", "prepare", "fragments"} => content[mine[t]] = "none"
        /\ pc[t] = "write" => lock[Stream(t)] = t /\ content[mine[t]] = "blank"
        /\ pc[t] = "flash" => Stream(t) = "best_effort"
        /\ pc[t] \in {"write", "confirm"} /\ Stream(t) = "reliable" =>
             mine[t] \in queued \/ received[mine[t]] # "none"

\* A message that is not written yet is being written by some thread.
BlankHasWriter ==
    \A n \in Calls: content[n] = "blank" => \E t \in Threads: pc[t] = "write" /\ mine[t] = n

\* A stream holds messages of its own senders; creations are reliable.
RightStream ==
    /\ \A n \in queued: subject[n] \in Senders => StreamOf[subject[n]] = "reliable"
    /\ \A n \in effort: subject[n] \in Senders /\ StreamOf[subject[n]] = "best_effort"

\* What the agent got is what was written.
AsWritten ==
    \A n \in Calls:
        /\ received[n] # "none" => received[n] = content[n] /\ received[n] # "blank"
        /\ subject[n] \in Named => content[n] \in {"none", "good"}

SendInv ==
    /\ TypeOK
    /\ OwnCalls
    /\ NoneAhead
    /\ Progress
    /\ BlankHasWriter
    /\ RightStream
    /\ AsWritten
    /\ OkDelivered

\* What OkDelivered says of call n.
Delivered(n) ==
    /\ subject[n] \in Named => received[n] = "good"
    /\ subject[n] \in Senders /\ StreamOf[subject[n]] = "reliable" =>
         IF Role[subject[n]] = "publisher" THEN received[n] = "good"
         ELSE n \in queued \/ received[n] # "none"

\* A call that returns changes nothing in the streams, and has delivered what
\* it says.
LEMMA ReturnsInv ==
    ASSUME SendInv, TypeOK', NEW t \in Threads, pc[t] \notin {"idle", "write"},
           NEW r \in {"OK", "ERROR"}, Returns(t, r), r = "OK" => Delivered(mine[t]),
           UNCHANGED <<mine, calls, subject, stream>>
    PROVE  SendInv'
<1>1. TypeOK /\ mine[t] \in Calls /\ mine[t] \in 1..calls
  BY InCall DEF SendInv
<1>2. pc' = [pc EXCEPT ![t] = "idle"] /\ result' = [result EXCEPT ![mine[t]] = r]
  BY DEF Returns
<1>3. OwnCalls'
  BY DEF SendInv, OwnCalls
<1>4. NoneAhead'
  BY <1>1, <1>2 DEF SendInv, NoneAhead, TypeOK, stream
<1>5. Progress'
  BY <1>1, <1>2 DEF SendInv, Progress, TypeOK, stream, Stream, Subject
<1>6. BlankHasWriter'
  BY <1>1, <1>2 DEF SendInv, BlankHasWriter, TypeOK, stream
<1>7. RightStream' /\ AsWritten'
  BY DEF SendInv, RightStream, AsWritten, stream
<1>8. OkDelivered'
  <2> SUFFICES ASSUME NEW n \in Calls, result'[n] = "OK" PROVE Delivered(n)'
    BY DEF OkDelivered, Delivered
  <2>1. CASE n = mine[t]
    BY <1>1, <1>2, <2>1 DEF TypeOK, Delivered, stream
  <2>2. CASE n # mine[t]
    BY <1>1, <1>2, <2>2 DEF TypeOK, Delivered, stream, SendInv, OkDelivered
  <2> QED BY <2>1, <2>2
<1> QED BY <1>3, <1>4, <1>5, <1>6, <1>7, <1>8 DEF SendInv

\* A new call has a number that no thread has, and nothing of it is sent yet.
LEMMA BeginInv ==
    ASSUME SendInv, TypeOK', NEW t \in Threads, NEW e \in Senders \cup Named, Begin(t, e),
           NEW p \in {"prepare", "texts"}, pc' = [pc EXCEPT ![t] = p]
    PROVE  SendInv'
<1>1. /\ TypeOK /\ calls \in Nat /\ calls + 1 \in Calls /\ calls' = calls + 1
      /\ pc[t] = "idle"
      /\ mine' = [mine EXCEPT ![t] = calls + 1]
      /\ subject' = [subject EXCEPT ![calls + 1] = e]
      /\ UNCHANGED <<lock, content, queued, effort, received, result>>
  BY OutgoingAssumption DEF TypeOK, Calls, Begin, SendInv, stream
<1>2. /\ content[calls + 1] = "none" /\ received[calls + 1] = "none"
      /\ result[calls + 1] = "none"
      /\ calls + 1 \notin queued /\ calls + 1 \notin effort
  BY <1>1 DEF SendInv, NoneAhead, TypeOK
<1>3. \A u \in Threads: mine[u] \in 0..calls
  BY <1>1 DEF TypeOK
<1>4. \A u \in Threads: u # t => pc'[u] = pc[u] /\ mine'[u] = mine[u]
  BY <1>1 DEF TypeOK
<1>5. pc'[t] = p /\ mine'[t] = calls + 1
  BY <1>1 DEF TypeOK
<1>6. \A n \in Calls: n # calls + 1 => subject'[n] = subject[n]
  BY <1>1 DEF TypeOK
<1>7. OwnCalls'
  BY <1>1, <1>3, <1>4, <1>5 DEF SendInv, OwnCalls
<1>8. NoneAhead'
  BY <1>1 DEF SendInv, NoneAhead, Calls
<1>9. Progress'
  <2> SUFFICES ASSUME NEW u \in Threads
               PROVE  /\ pc'[u] \in {"texts", "prepare", "fragments"} =>
                           content'[mine'[u]] = "none"
                      /\ pc'[u] = "write" => lock'[Stream(u)'] = u /\ content'[mine'[u]] = "blank"
                      /\ pc'[u] = "flash" => Stream(u)' = "best_effort"
                      /\ pc'[u] \in {"write", "confirm"} /\ Stream(u)' = "reliable" =>
                           mine'[u] \in queued' \/ received'[mine'[u]] # "none"
    BY DEF Progress
  <2>1. CASE u = t
    BY <1>1, <1>2, <1>5, <2>1
  <2>2. CASE u # t /\ pc[u] # "idle"
    <3>1. mine[u] \in Calls /\ mine[u] # calls + 1
      BY <1>1, <1>3, <2>2, InCall
    <3>2. Stream(u)' = Stream(u)
      BY <1>4, <1>6, <2>2, <3>1 DEF Stream, Subject
    <3> QED BY <1>1, <1>4, <2>2, <3>2 DEF SendInv, Progress
  <2>3. CASE u # t /\ pc[u] = "idle"
    BY <1>4, <2>3
  <2> QED BY <2>1, <2>2, <2>3
<1>10. BlankHasWriter'
  BY <1>1, <1>4 DEF SendInv, BlankHasWriter
<1>11. RightStream' /\ AsWritten'
  <2>1. RightStream'
    BY <1>1, <1>2, <1>6 DEF SendInv, RightStream, TypeOK, Calls
  <2>2. AsWritten'
    BY <1>1, <1>2, <1>6 DEF SendInv, AsWritten
  <2> QED BY <2>1, <2>2
<1>12. OkDelivered'
  <2> SUFFICES ASSUME NEW n \in Calls, result'[n] = "OK" PROVE Delivered(n)'
    BY DEF OkDelivered, Delivered
  <2>1. n # calls + 1 /\ result[n] = "OK"
    BY <1>1, <1>2
  <2> QED BY <1>1, <1>6, <2>1 DEF Delivered, SendInv, OkDelivered
<1> QED BY <1>7, <1>8, <1>9, <1>10, <1>11, <1>12 DEF SendInv

\* A thread that reserves a message becomes its writer and holds the lock.
LEMMA ReserveInv ==
    ASSUME SendInv, TypeOK', NEW t \in Threads, pc[t] \in {"prepare", "fragments"},
           Reserve(t), UNCHANGED <<mine, calls, subject>>
    PROVE  SendInv'
<1> DEFINE m == mine[t]
<1>1. /\ TypeOK /\ m \in Calls /\ m \in 1..calls /\ m # 0
      /\ Subject(t) \in Senders /\ Stream(t) \in Streams
      /\ calls \in Nat
  <2>1. TypeOK /\ pc[t] # "idle" /\ pc[t] \notin {"texts", "status"}
    BY DEF SendInv
  <2>2. /\ mine[t] \in Calls /\ mine[t] \in 1..calls
        /\ Subject(t) \in Senders /\ Stream(t) \in Streams
    BY <2>1, InCall
  <2> QED BY <2>1, <2>2 DEF TypeOK
<1>2. /\ lock[Stream(t)] = Nobody
      /\ lock' = [lock EXCEPT ![Stream(t)] = t]
      /\ content' = [content EXCEPT ![m] = "blank"]
      /\ pc' = [pc EXCEPT ![t] = "write"]
      /\ UNCHANGED <<received, result, mine, calls, subject>>
  BY DEF Reserve
<1>3. \/ Stream(t) = "reliable" /\ queued' = queued \cup {m} /\ effort' = effort
      \/ Stream(t) = "best_effort" /\ effort' = effort \cup {m} /\ queued' = queued
  BY <1>1 DEF Reserve, Streams
<1>4. content[m] = "none" /\ received[m] = "none"
  BY <1>1 DEF SendInv, Progress, AsWritten
<1>5. \A u \in Threads: u # t => mine[u] # m /\ pc'[u] = pc[u]
  BY <1>1, <1>2 DEF SendInv, OwnCalls, TypeOK
<1>6. m \in Calls /\ pc'[t] = "write" /\ content'[m] = "blank" /\ lock'[Stream(t)] = t
  BY <1>1, <1>2 DEF TypeOK
<1>7. \A n \in Calls: n # m => content'[n] = content[n]
  BY <1>1, <1>2 DEF TypeOK
<1>8. subject[m] \in Senders /\ subject[m] \notin Named /\ Stream(t) = StreamOf[subject[m]]
  BY <1>1, OutgoingAssumption DEF Subject, Stream
<1>9. mine' = mine /\ mine[t] = m
  BY <1>2
<1> HIDE DEF m
<1>10. OwnCalls' /\ NoneAhead'
  BY <1>1, <1>2, <1>7 DEF SendInv, OwnCalls, NoneAhead
<1>11. Progress'
  <2> SUFFICES ASSUME NEW u \in Threads
               PROVE  /\ pc'[u] \in {"texts", "prepare", "fragments"} =>
                           content'[mine[u]] = "none"
                      /\ pc'[u] = "write" => lock'[Stream(u)] = u /\ content'[mine[u]] = "blank"
                      /\ pc'[u] = "flash" => Stream(u) = "best_effort"
                      /\ pc'[u] \in {"write", "confirm"} /\ Stream(u) = "reliable" =>
                           mine[u] \in queued' \/ received[mine[u]] # "none"
    BY <1>2 DEF Progress, Stream, Subject
  <2>1. CASE u = t
    BY <1>3, <1>6, <1>9, <2>1
  <2>2. CASE u # t /\ pc[u] = "idle"
    BY <1>5, <2>2
  <2>3. CASE u # t /\ pc[u] # "idle"
    <3>1. mine[u] \in Calls /\ mine[u] # m /\ pc'[u] = pc[u]
      BY <1>1, <1>5, <2>3, InCall
    <3>2. content'[mine[u]] = content[mine[u]]
      BY <1>7, <3>1
    <3>3. pc[u] = "write" => lock'[Stream(u)] = u
      <4>1. ASSUME pc[u] = "write" PROVE lock'[Stream(u)] = u
        <5>1. lock[Stream(u)] = u /\ u # Nobody /\ Stream(u) \in Streams
          BY <1>1, <4>1, InCall, OutgoingAssumption DEF SendInv, Progress
        <5>2. Stream(u) # Stream(t)
          BY <1>2, <5>1
        <5> QED BY <1>1, <1>2, <5>1, <5>2 DEF TypeOK
      <4> QED BY <4>1
    <3> QED BY <1>3, <3>1, <3>2, <3>3 DEF SendInv, Progress
  <2> QED BY <2>1, <2>2, <2>3
<1>12. BlankHasWriter'
  <2> SUFFICES ASSUME NEW n \in Calls, content'[n] = "blank"
               PROVE  \E u \in Threads: pc'[u] = "write" /\ mine[u] = n
    BY <1>9 DEF BlankHasWriter
  <2>1. CASE n = m
    BY <1>6, <1>9, <2>1
  <2>2. CASE n # m
    <3>1. PICK u \in Threads: pc[u] = "write" /\ mine[u] = n
      BY <1>7, <2>2 DEF SendInv, BlankHasWriter
    <3> QED BY <1>5, <1>9, <2>2, <3>1
  <2> QED BY <2>1, <2>2
<1>13. RightStream'
  BY <1>2, <1>3, <1>8 DEF SendInv, RightStream
<1>14. AsWritten'
  BY <1>2, <1>4, <1>7, <1>8 DEF SendInv, AsWritten
<1>15. OkDelivered'
  BY <1>2, <1>3 DEF SendInv, OkDelivered
<1> QED BY <1>10, <1>11, <1>12, <1>13, <1>14, <1>15 DEF SendInv

\* The request that creates an entity is complete as soon as it is in the stream.
LEMMA BufferRequestInv ==
    ASSUME SendInv, TypeOK', NEW t \in Threads, BufferRequest(t)
    PROVE  SendInv'
<1> DEFINE m == mine[t]
<1>1. /\ TypeOK /\ m \in Calls /\ m \in 1..calls /\ pc[t] = "texts"
      /\ Subject(t) \in Named
  <2>1. TypeOK /\ pc[t] = "texts"
    BY DEF SendInv, BufferRequest, Creating
  <2> QED BY <2>1, InCall
<1>2. /\ pc' = [pc EXCEPT ![t] = "status"]
      /\ UNCHANGED <<mine, lock, calls, subject, effort, received, result>>
  BY DEF BufferRequest, Awaits
<1>3. \/ content' = [content EXCEPT ![m] = "good"] /\ queued' = queued \cup {m}
      \/ UNCHANGED <<content, queued>>
  BY DEF BufferRequest
<1>4. content[m] = "none" /\ received[m] = "none" /\ calls \in Nat
  BY <1>1 DEF SendInv, Progress, AsWritten, TypeOK
<1>5. \A n \in Calls: content'[n] = content[n] \/ (n = m /\ content'[n] = "good")
  <2>1. CASE content' = [content EXCEPT ![m] = "good"]
    BY <1>1, <2>1 DEF TypeOK
  <2>2. CASE UNCHANGED content
    BY <2>2
  <2> QED BY <1>3, <2>1, <2>2
<1>6. \A u \in Threads: u # t => mine[u] # m /\ pc'[u] = pc[u]
  BY <1>1, <1>2 DEF SendInv, OwnCalls, TypeOK
<1>7. pc'[t] = "status" /\ mine[t] = m /\ mine' = mine
  BY <1>2 DEF SendInv, TypeOK
<1>8. queued \subseteq queued' /\ queued' \subseteq queued \cup {m}
  BY <1>3
<1>9. subject[m] \in Named /\ subject[m] \notin Senders
  BY <1>1, OutgoingAssumption DEF Subject
<1> HIDE DEF m
<1>10. OwnCalls' /\ NoneAhead'
  BY <1>1, <1>2, <1>4, <1>5 DEF SendInv, OwnCalls, NoneAhead
<1>11. Progress'
  <2> SUFFICES ASSUME NEW u \in Threads
               PROVE  /\ pc'[u] \in {"texts", "prepare", "fragments"} =>
                           content'[mine[u]] = "none"
                      /\ pc'[u] = "write" => lock[Stream(u)] = u /\ content'[mine[u]] = "blank"
                      /\ pc'[u] = "flash" => Stream(u) = "best_effort"
                      /\ pc'[u] \in {"write", "confirm"} /\ Stream(u) = "reliable" =>
                           mine[u] \in queued' \/ received[mine[u]] # "none"
    BY <1>2 DEF Progress, Stream, Subject
  <2>1. CASE u = t \/ pc'[u] = "idle"
    BY <1>7, <2>1
  <2>2. CASE u # t /\ pc'[u] # "idle"
    <3>1. mine[u] \in Calls /\ mine[u] # m /\ pc'[u] = pc[u]
      BY <1>1, <1>6, <2>2, InCall
    <3> QED BY <1>5, <1>8, <3>1 DEF SendInv, Progress
  <2> QED BY <2>1, <2>2
<1>12. BlankHasWriter'
  <2> SUFFICES ASSUME NEW n \in Calls, content'[n] = "blank"
               PROVE  \E u \in Threads: pc'[u] = "write" /\ mine[u] = n
    BY <1>7 DEF BlankHasWriter
  <2>1. PICK u \in Threads: pc[u] = "write" /\ mine[u] = n
    BY <1>5 DEF SendInv, BlankHasWriter
  <2> QED BY <1>1, <1>6, <2>1
<1>13. RightStream'
  BY <1>2, <1>8, <1>9 DEF SendInv, RightStream
<1>14. AsWritten'
  BY <1>2, <1>4, <1>5, <1>9 DEF SendInv, AsWritten
<1>15. OkDelivered'
  BY <1>2, <1>8 DEF SendInv, OkDelivered
<1> QED BY <1>10, <1>11, <1>12, <1>13, <1>14, <1>15 DEF SendInv

\* The writer of a message writes it and gives the lock back.
LEMMA WriteInv ==
    ASSUME SendInv, TypeOK', NEW t \in Threads, NEW ok \in BOOLEAN, Write(t, ok)
    PROVE  SendInv'
<1> DEFINE m == mine[t]
           p == IF Stream(t) = "reliable" THEN "confirm" ELSE "flash"
           c == IF ok THEN "good" ELSE "bad"
<1>1. /\ TypeOK /\ m \in Calls /\ m \in 1..calls /\ pc[t] = "write"
      /\ Subject(t) \in Senders /\ Stream(t) \in Streams
  <2>1. TypeOK /\ pc[t] = "write"
    BY DEF SendInv, Write
  <2> QED BY <2>1, InCall
<1>2. /\ pc' = [pc EXCEPT ![t] = p]
      /\ content' = [content EXCEPT ![m] = c]
      /\ lock' = [lock EXCEPT ![Stream(t)] = Nobody]
      /\ UNCHANGED <<mine, calls, subject, queued, effort, received, result>>
  BY DEF Write
<1>3. c \in {"good", "bad"} /\ p \in {"confirm", "flash"}
      /\ (p = "flash" => Stream(t) = "best_effort")
  BY <1>1 DEF Streams
<1>4. /\ lock[Stream(t)] = t /\ content[m] = "blank" /\ received[m] = "none"
      /\ Stream(t) = "reliable" => m \in queued
  BY <1>1 DEF SendInv, Progress, AsWritten
<1>5. \A n \in Calls: n # m => content'[n] = content[n]
  BY <1>1, <1>2 DEF TypeOK
<1>6. \A u \in Threads: u # t => mine[u] # m /\ pc'[u] = pc[u]
  BY <1>1, <1>2 DEF SendInv, OwnCalls, TypeOK
<1>7. pc'[t] = p /\ mine[t] = m /\ mine' = mine /\ content'[m] = c
  BY <1>1, <1>2 DEF TypeOK
<1>8. subject[m] \in Senders /\ subject[m] \notin Named
  BY <1>1, OutgoingAssumption DEF Subject
<1>9. calls \in Nat
  BY <1>1 DEF TypeOK
<1> HIDE DEF m, p, c
<1>10. OwnCalls' /\ NoneAhead'
  BY <1>1, <1>2, <1>5, <1>9 DEF SendInv, OwnCalls, NoneAhead
<1>11. Progress'
  <2> SUFFICES ASSUME NEW u \in Threads
               PROVE  /\ pc'[u] \in {"texts", "prepare", "fragments"} =>
                           content'[mine[u]] = "none"
                      /\ pc'[u] = "write" => lock'[Stream(u)] = u /\ content'[mine[u]] = "blank"
                      /\ pc'[u] = "flash" => Stream(u) = "best_effort"
                      /\ pc'[u] \in {"write", "confirm"} /\ Stream(u) = "reliable" =>
                           mine[u] \in queued \/ received[mine[u]] # "none"
    BY <1>2 DEF Progress, Stream, Subject
  <2>1. CASE u = t
    BY <1>3, <1>4, <1>7, <2>1
  <2>2. CASE pc'[u] = "idle"
    BY <2>2
  <2>3. CASE u # t /\ pc'[u] # "idle"
    <3>1. mine[u] \in Calls /\ mine[u] # m /\ pc'[u] = pc[u]
      BY <1>1, <1>6, <2>3, InCall
    <3>2. pc[u] = "write" => lock'[Stream(u)] = u
      <4>1. ASSUME pc[u] = "write" PROVE lock'[Stream(u)] = u
        <5>1. lock[Stream(u)] = u /\ Stream(u) \in Streams
          BY <1>1, <4>1, InCall DEF SendInv, Progress
        <5>2. Stream(u) # Stream(t)
          BY <1>4, <2>3, <5>1
        <5> QED BY <1>1, <1>2, <5>1, <5>2 DEF TypeOK
      <4> QED BY <4>1
    <3> QED BY <1>5, <3>1, <3>2 DEF SendInv, Progress
  <2> QED BY <2>1, <2>2, <2>3
<1>12. BlankHasWriter'
  <2> SUFFICES ASSUME NEW n \in Calls, content'[n] = "blank"
               PROVE  \E u \in Threads: pc'[u] = "write" /\ mine[u] = n
    BY <1>7 DEF BlankHasWriter
  <2>1. n # m
    BY <1>3, <1>7
  <2>2. PICK u \in Threads: pc[u] = "write" /\ mine[u] = n
    BY <1>5, <2>1 DEF SendInv, BlankHasWriter
  <2> QED BY <1>6, <1>7, <2>1, <2>2
<1>13. RightStream'
  BY <1>2 DEF SendInv, RightStream
<1>14. AsWritten'
  BY <1>2, <1>4, <1>5, <1>8 DEF SendInv, AsWritten
<1>15. OkDelivered'
  BY <1>2 DEF SendInv, OkDelivered
<1> QED BY <1>10, <1>11, <1>12, <1>13, <1>14, <1>15 DEF SendInv

\* While nobody holds the lock of a stream, no message in it is half written.
LEMMA UnlockedIsWritten ==
    ASSUME SendInv
    PROVE  /\ lock["reliable"] = Nobody => \A n \in queued: content[n] # "blank"
           /\ lock["best_effort"] = Nobody => \A n \in effort: content[n] # "blank"
<1>1. ASSUME NEW n \in Calls, content[n] = "blank"
      PROVE  subject[n] \in Senders /\ lock[StreamOf[subject[n]]] # Nobody
  <2>1. PICK t \in Threads: pc[t] = "write" /\ mine[t] = n
    BY <1>1 DEF SendInv, BlankHasWriter
  <2>2. lock[Stream(t)] = t /\ t # Nobody
    BY <2>1, OutgoingAssumption DEF SendInv, Progress
  <2>3. TypeOK
    BY DEF SendInv
  <2>4. Subject(t) \in Senders /\ subject[n] = Subject(t)
    BY <2>1, <2>3, InCall DEF Subject
  <2> QED BY <2>2, <2>4 DEF Stream
<1>2. queued \subseteq Calls /\ effort \subseteq Calls
  BY OutgoingAssumption DEF SendInv, TypeOK, Calls
<1>3. ASSUME NEW n \in queued, content[n] = "blank", lock["reliable"] = Nobody PROVE FALSE
  BY <1>1, <1>2, <1>3 DEF SendInv, RightStream
<1>4. ASSUME NEW n \in effort, content[n] = "blank", lock["best_effort"] = Nobody PROVE FALSE
  BY <1>1, <1>2, <1>4 DEF SendInv, RightStream
<1> QED BY <1>3, <1>4

\* Flashing the best-effort stream returns from a best-effort call, and what
\* arrives then is written.
LEMMA FlashInv ==
    ASSUME SendInv, TypeOK', NEW t \in Threads, NEW sent \in SUBSET effort, Flash(t, sent)
    PROVE  SendInv'
<1> DEFINE m == mine[t]
<1>1. /\ TypeOK /\ m \in Calls /\ m \in 1..calls /\ pc[t] = "flash"
      /\ Subject(t) \in Senders
  <2>1. TypeOK /\ pc[t] = "flash"
    BY DEF SendInv, Flash
  <2> QED BY <2>1, InCall
<1>2. /\ pc' = [pc EXCEPT ![t] = "idle"] /\ effort' = {}
      /\ UNCHANGED <<mine, lock, calls, subject, content, queued>>
  BY DEF Flash, Returns
<1>3. \A n \in Calls: n # m => result'[n] = result[n]
  BY <1>1 DEF Flash, Returns, TypeOK
<1>4. \A n \in Calls:
        \/ received'[n] = received[n]
        \/ n \in effort /\ received'[n] = content[n] /\ content[n] # "blank"
  <2>1. \A n \in effort: content[n] # "blank"
    BY UnlockedIsWritten DEF Flash
  <2>2. received' = [n \in Calls |-> IF n \in sent THEN content[n] ELSE received[n]]
    BY DEF Flash
  <2> QED BY <2>1, <2>2
<1>5. \A n \in effort: /\ subject[n] \in Senders /\ subject[n] \notin Named
                       /\ StreamOf[subject[n]] = "best_effort"
  BY OutgoingAssumption DEF SendInv, RightStream
<1>6. /\ subject[m] \in Senders /\ subject[m] \notin Named
      /\ StreamOf[subject[m]] = "best_effort"
  BY <1>1, OutgoingAssumption DEF SendInv, Progress, Subject, Stream
<1>7. \A u \in Threads: IF u = t THEN pc'[u] = "idle" ELSE pc'[u] = pc[u]
  BY <1>2 DEF SendInv, TypeOK
<1>8. effort \subseteq 1..calls /\ calls \in Nat
  BY <1>1 DEF TypeOK
<1> HIDE DEF m
<1>9. OwnCalls'
  BY <1>2 DEF SendInv, OwnCalls
<1>10. NoneAhead'
  BY <1>1, <1>2, <1>3, <1>4, <1>8 DEF SendInv, NoneAhead
<1>11. Progress'
  <2> SUFFICES ASSUME NEW u \in Threads, pc[u] # "idle", u # t
               PROVE  /\ pc[u] \in {"texts", "prepare", "fragments"} =>
                           content[mine[u]] = "none"
                      /\ pc[u] = "write" => lock[Stream(u)] = u /\ content[mine[u]] = "blank"
                      /\ pc[u] = "flash" => Stream(u) = "best_effort"
                      /\ pc[u] \in {"write", "confirm"} /\ Stream(u) = "reliable" =>
                           mine[u] \in queued \/ received'[mine[u]] # "none"
    BY <1>2, <1>7 DEF Progress, Stream, Subject
  <2>1. mine[u] \in Calls
    BY <1>1, InCall
  <2>2. Stream(u) = "reliable" => received'[mine[u]] = received[mine[u]]
    BY <1>4, <1>5, <2>1 DEF Stream, Subject
  <2> QED BY <2>2 DEF SendInv, Progress
<1>12. BlankHasWriter'
  <2> SUFFICES ASSUME NEW n \in Calls, content[n] = "blank"
               PROVE  \E u \in Threads: pc'[u] = "write" /\ mine[u] = n
    BY <1>2 DEF BlankHasWriter
  <2>1. PICK u \in Threads: pc[u] = "write" /\ mine[u] = n
    BY DEF SendInv, BlankHasWriter
  <2> QED BY <1>1, <1>7, <2>1
<1>13. RightStream'
  BY <1>2 DEF SendInv, RightStream
<1>14. AsWritten'
  BY <1>2, <1>4 DEF SendInv, AsWritten
<1>15. OkDelivered'
  <2> SUFFICES ASSUME NEW n \in Calls, result'[n] = "OK" PROVE Delivered(n)'
    BY DEF OkDelivered, Delivered
  <2>1. CASE n = m
    BY <1>2, <1>6, <2>1 DEF Delivered
  <2>2. CASE n \in effort
    BY <1>2, <1>5, <2>2 DEF Delivered
  <2>3. CASE n # m /\ n \notin effort
    BY <1>2, <1>3, <1>4, <2>3 DEF Delivered, SendInv, OkDelivered
  <2> QED BY <2>1, <2>2, <2>3
<1> QED BY <1>9, <1>10, <1>11, <1>12, <1>13, <1>14, <1>15 DEF SendInv

\* A message arrives as it was written, and only afterwards is it acknowledged.
LEMMA AgentInv ==
    ASSUME SendInv, TypeOK', NEW n \in Calls, Transmit(n) \/ Acknowledge(n)
    PROVE  SendInv'
<1>1. TypeOK /\ UNCHANGED <<pc, mine, lock, calls, subject, content, effort, result>>
  BY DEF Transmit, Acknowledge, SendInv
<1>2. /\ n \in queued
      /\ \A k \in Calls: received'[k] = received[k]
                         \/ (/\ k = n /\ received[k] = "none" /\ received'[k] = content[k]
                             /\ content[k] # "blank")
  <2>1. CASE Transmit(n)
    <3>1. content[n] # "blank"
      BY <2>1, UnlockedIsWritten DEF Transmit
    <3> QED BY <1>1, <2>1, <3>1 DEF Transmit, TypeOK
  <2>2. CASE Acknowledge(n)
    BY <2>2 DEF Acknowledge
  <2> QED BY <2>1, <2>2
<1>3. \A k \in queued: k \in queued' \/ received'[k] # "none"
  BY DEF Transmit, Acknowledge
<1>4. queued' \subseteq queued /\ queued \subseteq 1..calls /\ calls \in Nat
  BY <1>1 DEF Transmit, Acknowledge, TypeOK
<1>5. \A k \in Calls: received[k] # "none" => received'[k] = received[k]
  BY <1>2
<1>6. OwnCalls' /\ NoneAhead' /\ BlankHasWriter' /\ RightStream'
  <2>1. OwnCalls' /\ BlankHasWriter' /\ RightStream'
    BY <1>1, <1>4 DEF SendInv, OwnCalls, BlankHasWriter, RightStream
  <2>2. NoneAhead'
    BY <1>1, <1>2, <1>4 DEF SendInv, NoneAhead
  <2> QED BY <2>1, <2>2
<1>7. Progress'
  <2> SUFFICES ASSUME NEW u \in Threads, pc[u] \in {"write", "confirm"},
                      Stream(u) = "reliable"
               PROVE  mine[u] \in queued' \/ received'[mine[u]] # "none"
    BY <1>1 DEF SendInv, Progress, Stream, Subject
  <2>1. mine[u] \in Calls
    BY <1>1, InCall
  <2> QED BY <1>3, <1>5, <2>1 DEF SendInv, Progress
<1>8. AsWritten'
  BY <1>1, <1>2 DEF SendInv, AsWritten
<1>9. OkDelivered'
  <2> SUFFICES ASSUME NEW k \in Calls, result'[k] = "OK" PROVE Delivered(k)'
    BY DEF OkDelivered, Delivered
  <2>1. Delivered(k)
    BY <1>1 DEF SendInv, OkDelivered, Delivered
  <2> QED BY <1>1, <1>3, <1>5, <2>1 DEF Delivered
<1> QED BY <1>6, <1>7, <1>8, <1>9 DEF SendInv

\* Preparing fails, and a publisher goes on to fragments, with nothing sent.
LEMMA FragmentsInv ==
    ASSUME SendInv, TypeOK', NEW t \in Threads, pc[t] = "prepare",
           pc' = [pc EXCEPT ![t] = "fragments"],
           UNCHANGED <<mine, calls, subject, stream, result>>
    PROVE  SendInv'
<1>1. \A u \in Threads: pc'[u] = pc[u] \/ (u = t /\ pc'[u] = "fragments")
  BY DEF SendInv, TypeOK
<1>2. UNCHANGED <<mine, calls, subject, lock, content, queued, effort, received, result>>
  BY DEF stream
<1>3. OwnCalls' /\ NoneAhead' /\ RightStream' /\ AsWritten' /\ OkDelivered'
  BY <1>2 DEF SendInv, OwnCalls, NoneAhead, RightStream, AsWritten, OkDelivered
<1>4. Progress'
  BY <1>1, <1>2 DEF SendInv, Progress, Stream, Subject
<1>5. BlankHasWriter'
  BY <1>1, <1>2 DEF SendInv, BlankHasWriter
<1> QED BY <1>3, <1>4, <1>5 DEF SendInv

\* A creation goes on to its next text, with nothing sent.
LEMMA MakeTextInv ==
    ASSUME SendInv, TypeOK', NEW t \in Threads, MakeText(t)
    PROVE  SendInv'
<1>1. pc[t] = "texts" /\ UNCHANGED <<mine, calls, subject, stream>>
  BY DEF MakeText, Creating
<1>2. UNCHANGED <<pc, result>> \/ Returns(t, "ERROR")
  BY DEF MakeText
<1>3. CASE UNCHANGED <<pc, result>>
  <2>1. UNCHANGED <<pc, mine, calls, subject, lock, content, queued, effort, received, result>>
    BY <1>1, <1>3 DEF stream
  <2> QED BY <2>1 DEF SendInv, OwnCalls, NoneAhead, Progress, BlankHasWriter,
          RightStream, AsWritten, OkDelivered, Stream, Subject
<1>4. CASE Returns(t, "ERROR")
  BY <1>1, <1>4, ReturnsInv
<1> QED BY <1>2, <1>3, <1>4

\* A creation succeeds only when the agent has its request.
LEMMA StatusInv ==
    ASSUME SendInv, TypeOK', NEW t \in Threads, NEW r \in {"OK", "ERROR"}, Status(t, r)
    PROVE  SendInv'
<1>1. pc[t] = "status" /\ Returns(t, r) /\ UNCHANGED <<mine, calls, subject, stream>>
  BY DEF Status
<1>2. mine[t] \in Calls /\ subject[mine[t]] \in Named /\ subject[mine[t]] \notin Senders
  <2>1. TypeOK
    BY DEF SendInv
  <2>2. mine[t] \in Calls /\ Subject(t) \in Named
    BY <1>1, <2>1, InCall
  <2> QED BY <2>2, OutgoingAssumption DEF Subject
<1>3. r = "OK" => received[mine[t]] = "good"
  BY <1>2 DEF SendInv, AsWritten, Status
<1> QED BY <1>1, <1>2, <1>3, ReturnsInv DEF Delivered

\* A publication is confirmed only when the stream has no message left.
LEMMA ConfirmInv ==
    ASSUME SendInv, TypeOK', NEW t \in Threads, NEW delivered \in BOOLEAN,
           Confirm(t, delivered)
    PROVE  SendInv'
<1> DEFINE m == mine[t]
           r == IF Role[Subject(t)] = "publisher" /\ (content[m] = "bad" \/ ~ delivered)
                THEN "ERROR" ELSE "OK"
<1>1. /\ pc[t] = "confirm" /\ Returns(t, r) /\ r \in {"OK", "ERROR"}
      /\ delivered => queued = {}
      /\ UNCHANGED <<mine, calls, subject, stream>>
  BY DEF Confirm
<1>2. TypeOK /\ m \in Calls /\ subject[m] \in Senders /\ subject[m] \notin Named
  <2>1. TypeOK
    BY DEF SendInv
  <2>2. m \in Calls /\ Subject(t) \in Senders
    BY <1>1, <2>1, InCall
  <2> QED BY <2>1, <2>2, OutgoingAssumption DEF Subject
<1>3. StreamOf[subject[m]] = "reliable" => m \in queued \/ received[m] # "none"
  BY <1>1 DEF SendInv, Progress, Stream, Subject
<1>4. /\ received[m] # "none" => received[m] = content[m] /\ received[m] # "blank"
      /\ content[m] \in {"none", "blank", "good", "bad"}
  BY <1>2 DEF SendInv, AsWritten, TypeOK
<1>5. r = "OK" /\ Role[subject[m]] = "publisher" => queued = {} /\ content[m] # "bad"
  BY <1>1 DEF Subject
<1>6. r = "OK" => Delivered(m)
  BY <1>2, <1>3, <1>4, <1>5 DEF Delivered
<1> HIDE DEF r
<1> QED BY <1>1, <1>6, ReturnsInv

\* SendInv holds at the start, when no call has been made.
LEMMA SendInit == Init => SendInv
<1> SUFFICES ASSUME Init PROVE SendInv
  OBVIOUS
<1>1. TypeOK
  BY OutgoingAssumption DEF Init, TypeOK, Calls, Subject
<1> QED BY <1>1 DEF Init, SendInv, OwnCalls, NoneAhead, Progress, BlankHasWriter,
        RightStream, AsWritten, OkDelivered

\* Every step keeps SendInv.
LEMMA SendStep ==
    ASSUME SendInv, [Next]_vars
    PROVE  SendInv'
<1>1. TypeOK'
  BY OutgoingTypeStep DEF SendInv
<1>2. ASSUME NEW t \in Threads, NEW e \in Senders, BeginSend(t, e) PROVE SendInv'
  BY <1>1, <1>2, BeginInv DEF BeginSend
<1>3. ASSUME NEW t \in Threads, NEW e \in Named, BeginCreation(t, e) PROVE SendInv'
  BY <1>1, <1>3, BeginInv DEF BeginCreation
<1>4. ASSUME NEW t \in Threads, ThreadStep(t) PROVE SendInv'
  <2>1. CASE MakeText(t)
    BY <1>1, <2>1, MakeTextInv
  <2>2. CASE BufferRequest(t)
    BY <1>1, <2>2, BufferRequestInv
  <2>3. ASSUME NEW r \in {"OK", "ERROR"}, Status(t, r) PROVE SendInv'
    BY <1>1, <2>3, StatusInv
  <2>4. CASE Prepare(t)
    BY <1>1, <2>4, ReserveInv DEF Prepare
  <2>5. CASE PrepareFails(t)
    <3>1. /\ pc[t] = "prepare" /\ UNCHANGED <<mine, calls, subject, stream>>
          /\ \/ pc' = [pc EXCEPT ![t] = "fragments"] /\ UNCHANGED result
             \/ Returns(t, "ERROR")
      BY <2>5 DEF PrepareFails
    <3>2. CASE pc' = [pc EXCEPT ![t] = "fragments"] /\ UNCHANGED result
      BY <1>1, <3>1, <3>2, FragmentsInv
    <3>3. CASE Returns(t, "ERROR")
      BY <1>1, <3>1, <3>3, ReturnsInv
    <3> QED BY <3>1, <3>2, <3>3
  <2>6. CASE PrepareFragments(t)
    BY <1>1, <2>6, ReserveInv DEF PrepareFragments
  <2>7. CASE FlushTimeout(t)
    BY <1>1, <2>7, ReturnsInv DEF FlushTimeout
  <2>8. ASSUME NEW ok \in BOOLEAN, Write(t, ok) PROVE SendInv'
    BY <1>1, <2>8, WriteInv
  <2>9. ASSUME NEW sent \in SUBSET effort, Flash(t, sent) PROVE SendInv'
    BY <1>1, <2>9, FlashInv
  <2>10. ASSUME NEW delivered \in BOOLEAN, Confirm(t, delivered) PROVE SendInv'
    BY <1>1, <2>10, ConfirmInv
  <2> QED BY <1>4, <2>1, <2>2, <2>3, <2>4, <2>5, <2>6, <2>7, <2>8, <2>9, <2>10
        DEF ThreadStep
<1>5. ASSUME NEW n \in Calls, Transmit(n) \/ Acknowledge(n) PROVE SendInv'
  BY <1>1, <1>5, AgentInv
<1>6. CASE UNCHANGED vars
  BY <1>6 DEF vars, SendInv, TypeOK, OwnCalls, NoneAhead, Progress, BlankHasWriter,
      RightStream, AsWritten, OkDelivered, Stream, Subject
<1> QED BY <1>2, <1>3, <1>4, <1>5, <1>6 DEF Next

\* The agent never gets a message that is reserved but not yet written: the
\* lock of the stream is kept from the one to the other.
THEOREM NeverHalfWritten == Spec => []NothingHalfWritten
<1>1. SendInv => NothingHalfWritten
  BY DEF SendInv, AsWritten, NothingHalfWritten
<1>2. SendInv /\ [Next]_vars => SendInv'
  BY SendStep
<1> QED BY <1>1, <1>2, SendInit, PTL DEF Spec

\* A publication or a creation that returns RMW_RET_OK is with the agent, and
\* a request or response is at least still in the reliable stream.
THEOREM OkIsDelivered == Spec => []OkDelivered
<1>1. SendInv => OkDelivered
  BY DEF SendInv
<1>2. SendInv /\ [Next]_vars => SendInv'
  BY SendStep
<1> QED BY <1>1, <1>2, SendInit, PTL DEF Spec

-----------------------------------------------------------------------------
\* What a creation request names.

\* The buffers that the creation of an entity of kind k writes, without references.
KindBuffers(k) ==
    CASE k = "node" -> {"xrce_node_name"}
      [] k = "topic" -> {"full_topic_name", "type_name"}
      [] k = "service" -> {"service req_type_name", "service res_type_name",
                           "service req_topic_name", "service res_topic_name"}
      [] k = "client" -> {"client req_type_name", "client res_type_name",
                          "client req_topic_name", "client res_topic_name"}
      [] k \in {"graph_topic", "graph_reader"} ->
           {"build_topic_xml type_name_buffer", "build_xml type_name_buffer",
            "rmw_uxrce_entity_naming_buffer"}
      [] OTHER -> {}

\* A sequence of at most two texts whose buffers are among bs.
LEMMA TwoCalls ==
    ASSUME NEW c, NEW d, NEW bs, c.buffers \subseteq bs, d.buffers \subseteq bs,
           NEW i \in DOMAIN <<c, d>>
    PROVE  <<c, d>>[i].buffers \subseteq bs
<1>1. DOMAIN <<c, d>> = 1..2 /\ <<c, d>>[1] = c /\ <<c, d>>[2] = d
  OBVIOUS
<1>2. i = 1 \/ i = 2
  BY <1>1
<1> QED BY <1>1, <1>2

\* The same of three.
LEMMA ThreeCalls ==
    ASSUME NEW c, NEW d, NEW x, NEW bs,
           c.buffers \subseteq bs, d.buffers \subseteq bs, x.buffers \subseteq bs,
           NEW i \in DOMAIN <<c, d, x>>
    PROVE  <<c, d, x>>[i].buffers \subseteq bs
<1>1. /\ DOMAIN <<c, d, x>> = 1..3
      /\ <<c, d, x>>[1] = c /\ <<c, d, x>>[2] = d /\ <<c, d, x>>[3] = x
  OBVIOUS
<1>2. i = 1 \/ i = 2 \/ i = 3
  BY <1>1
<1> QED BY <1>1, <1>2

\* The same of at most one text.
LEMMA OneCall ==
    ASSUME NEW todo, NEW c, NEW bs, todo = << >> \/ todo = <<c>>, c.buffers \subseteq bs,
           NEW i \in DOMAIN todo
    PROVE  todo[i].buffers \subseteq bs
<1>1. CASE todo = << >>
  BY <1>1
<1>2. CASE todo = <<c>>
  <2>1. DOMAIN todo = 1..1 /\ todo[1] = c
    BY <1>2
  <2> QED BY <2>1
<1> QED BY <1>1, <1>2

\* Each kind writes its own buffers.
LEMMA BuffersOfKind ==
    ASSUME NEW e \in Named, NEW i \in DOMAIN Texts(e, FALSE)
    PROVE  Texts(e, FALSE)[i].buffers \subseteq KindBuffers(KindOf[e])
<1> DEFINE k == KindOf[e]
           bs == KindBuffers(k)
<1>8. k \notin {"graph_topic", "graph_reader"} => Texts(e, FALSE) = TextsWithoutRefs(e)
  BY OtherTexts
<1>1. CASE k = "graph_topic"
  <2>1. Texts(e, FALSE) = TopicXml(e)
    BY <1>1, GraphTopicTexts
  <2>2. bs = {"build_topic_xml type_name_buffer", "build_xml type_name_buffer",
              "rmw_uxrce_entity_naming_buffer"}
    BY <1>1 DEF KindBuffers
  <2> HIDE DEF bs
  <2> DEFINE c == Call({}, NameLen[e], TopicMax + 1, TRUE, {})
             d == Call({"build_topic_xml type_name_buffer"}, TypeLen[e], TypeMax, TRUE, {})
             x == Call({NamingBuffer}, 60 + NameLen[e] + TypeLen[e], RefMax, FALSE,
                       {"build_topic_xml type_name_buffer"})
  <2>3. c.buffers \subseteq bs /\ d.buffers \subseteq bs /\ x.buffers \subseteq bs
    BY <2>2 DEF Call, NamingBuffer
  <2>4. Texts(e, FALSE) = <<c, d, x>>
    BY <2>1 DEF TopicXml
  <2> HIDE DEF c, d, x
  <2> QED BY <2>3, <2>4, ThreeCalls DEF bs
<1>7. CASE k = "graph_reader"
  <2>1. Texts(e, FALSE) = ReaderXml(e)
    BY <1>7, GraphReaderTexts
  <2>2. bs = {"build_topic_xml type_name_buffer", "build_xml type_name_buffer",
              "rmw_uxrce_entity_naming_buffer"}
    BY <1>7 DEF KindBuffers
  <2> HIDE DEF bs
  <2> DEFINE c == Call({"build_xml type_name_buffer"}, TypeLen[e], TypeMax, TRUE, {})
             d == Call({NamingBuffer},
                       279 + NameLen[e] + TypeLen[e], RefMax, FALSE, {"build_xml type_name_buffer"})
  <2>3. c.buffers \subseteq bs /\ d.buffers \subseteq bs
    BY <2>2 DEF Call, NamingBuffer
  <2>4. Texts(e, FALSE) = <<c, d>>
    BY <2>1 DEF ReaderXml
  <2> HIDE DEF c, d
  <2> QED BY <2>3, <2>4, TwoCalls DEF bs
<1>2. CASE k = "node"
  <2> DEFINE c == Call({"xrce_node_name"}, NameLen[e], NodeMax, FALSE, {})
  <2>1. Texts(e, FALSE) = <<c>>
    <3>1. TextsWithoutRefs(e) = <<c>>
      BY <1>2, WithoutRefs
    <3> QED BY <1>2, <1>8, <3>1
  <2>2. bs = {"xrce_node_name"} /\ c.buffers = {"xrce_node_name"}
    BY <1>2 DEF KindBuffers, Call
  <2> HIDE DEF bs, c
  <2>3. Texts(e, FALSE)[i].buffers \subseteq bs
    BY <2>1, <2>2, OneCall
  <2> QED BY <2>3 DEF bs
<1>3. CASE k = "topic"
  <2>1. Texts(e, FALSE) = TopicTexts(e)
    <3>1. TextsWithoutRefs(e) = TopicTexts(e)
      BY <1>3, WithoutRefs
    <3> QED BY <1>3, <1>8, <3>1
  <2>2. bs = {"full_topic_name", "type_name"}
    BY <1>3 DEF KindBuffers
  <2> HIDE DEF bs
  <2> DEFINE c == Call({"full_topic_name"}, NameLen[e] + 2, TopicMax, TRUE, {})
             d == Call({"type_name"}, TypeLen[e], TypeMax, TRUE, {})
  <2>3. c.buffers \subseteq bs /\ d.buffers \subseteq bs
    BY <2>2 DEF Call
  <2>4. Texts(e, FALSE) = <<c, d>>
    BY <2>1 DEF TopicTexts
  <2> HIDE DEF c, d
  <2> QED BY <2>3, <2>4, TwoCalls DEF bs
<1>4. CASE k = "service"
  <2>1. Texts(e, FALSE) = ServiceTexts(e)
    <3>1. TextsWithoutRefs(e) = ServiceTexts(e)
      BY <1>4, WithoutRefs
    <3> QED BY <1>4, <1>8, <3>1
  <2>2. bs = {"service req_type_name", "service res_type_name",
              "service req_topic_name", "service res_topic_name"}
    BY <1>4 DEF KindBuffers
  <2> HIDE DEF bs
  <2> DEFINE c == Call({"service req_type_name", "service res_type_name"},
                       TypeLen[e], TypeMax, TRUE, {})
             d == Call({"service req_topic_name", "service res_topic_name"},
                       NameLen[e] + 9, TopicMax, TRUE, {})
  <2>3. c.buffers \subseteq bs /\ d.buffers \subseteq bs
    BY <2>2 DEF Call
  <2>4. Texts(e, FALSE) = <<c, d>>
    BY <2>1 DEF ServiceTexts
  <2> HIDE DEF c, d
  <2> QED BY <2>3, <2>4, TwoCalls DEF bs
<1>5. CASE k = "client"
  <2>1. Texts(e, FALSE) = ClientTexts(e)
    <3>1. TextsWithoutRefs(e) = ClientTexts(e)
      BY <1>5, WithoutRefs
    <3> QED BY <1>5, <1>8, <3>1
  <2>2. bs = {"client req_type_name", "client res_type_name",
              "client req_topic_name", "client res_topic_name"}
    BY <1>5 DEF KindBuffers
  <2> HIDE DEF bs
  <2> DEFINE c == Call({"client req_type_name", "client res_type_name"},
                       TypeLen[e], TypeMax, TRUE, {})
             d == Call({"client req_topic_name", "client res_topic_name"},
                       NameLen[e] + 9, TopicMax, TRUE, {})
  <2>3. c.buffers \subseteq bs /\ d.buffers \subseteq bs
    BY <2>2 DEF Call
  <2>4. Texts(e, FALSE) = <<c, d>>
    BY <2>1 DEF ClientTexts
  <2> HIDE DEF c, d
  <2> QED BY <2>3, <2>4, TwoCalls DEF bs
<1>6. CASE k \notin {"node", "topic", "service", "client", "graph_topic", "graph_reader"}
  <2>1. Texts(e, FALSE) = << >>
    <3>1. TextsWithoutRefs(e) = << >>
      BY <1>6, WithoutRefs
    <3> QED BY <1>6, <1>8, <3>1
  <2> DEFINE c == [buffers |-> {}]
  <2>2. c.buffers \subseteq bs
    OBVIOUS
  <2> HIDE DEF bs, c
  <2>3. Texts(e, FALSE)[i].buffers \subseteq bs
    BY <2>1, <2>2, OneCall
  <2> QED BY <2>3 DEF bs
<1> QED BY <1>1, <1>2, <1>3, <1>4, <1>5, <1>6, <1>7

\* Creations that do not share a buffer write different ones.
LEMMA BuffersApart ==
    ASSUME refs \in BOOLEAN, NEW e \in Named, NEW f \in Named, ~ Shares(e, f),
           NEW i \in DOMAIN Texts(e, refs), NEW j \in DOMAIN Texts(f, refs)
    PROVE  Texts(e, refs)[i].buffers \cap Texts(f, refs)[j].buffers = {}
<1>1. ~ refs /\ KindOf[e] # KindOf[f]
      /\ ~ ({KindOf[e], KindOf[f]} \subseteq {"graph_topic", "graph_reader"})
  BY DEF Shares
<1>2. refs = FALSE
  BY <1>1
<1>3. /\ Texts(e, refs)[i].buffers \subseteq KindBuffers(KindOf[e])
      /\ Texts(f, refs)[j].buffers \subseteq KindBuffers(KindOf[f])
  BY <1>2, BuffersOfKind
<1>4. \A k, l \in Kinds:
        k # l /\ ~ ({k, l} \subseteq {"graph_topic", "graph_reader"}) =>
          KindBuffers(k) \cap KindBuffers(l) = {}
  <2> TAKE k, l \in Kinds
  <2> HAVE k # l /\ ~ ({k, l} \subseteq {"graph_topic", "graph_reader"})
  <2>1. CASE k = "node"
    BY <2>1 DEF KindBuffers, Kinds
  <2>2. CASE k = "topic"
    BY <2>2 DEF KindBuffers, Kinds
  <2>3. CASE k = "writer"
    BY <2>3 DEF KindBuffers, Kinds
  <2>4. CASE k = "service"
    BY <2>4 DEF KindBuffers, Kinds
  <2>5. CASE k = "client"
    BY <2>5 DEF KindBuffers, Kinds
  <2>6. CASE k \in {"graph_topic", "graph_reader"}
    BY <2>6 DEF KindBuffers, Kinds
  <2> QED BY <2>1, <2>2, <2>3, <2>4, <2>5, <2>6 DEF Kinds
<1>5. KindOf[e] \in Kinds /\ KindOf[f] \in Kinds
  BY NamingAssumption
<1> QED BY <1>1, <1>3, <1>4, <1>5

\* Buffer b holds what the request for e may carry.
Names(b, e) == text[b].of = {e} /\ (text[b].cut => SentThoughCut(e))

\* A creation that has been alone finds in its buffers what it wrote there.
AloneNames ==
    \A t \in Threads: Creating(t) /\ alone[t] =>
        /\ \A u \in Threads: u # t /\ Creating(u) => ~ Shares(Subject(t), Subject(u))
        /\ \A i \in DOMAIN Texts(Subject(t), refs): i < step[t] =>
             \A b \in Texts(Subject(t), refs)[i].buffers: Names(b, Subject(t))

\* Calls not made yet carry nothing.
CarryNone == \A n \in Calls: n > calls => carried[n].texts = {}

NamesInv ==
    /\ TypeOK
    /\ OwnCalls
    /\ \A t \in Threads: step[t] >= 1
    /\ AloneNames
    /\ CarryNone
    /\ RequestNamesItsEntity

\* Sharing a buffer goes both ways.
LEMMA SharesBothWays ==
    ASSUME NEW e, NEW f
    PROVE  Shares(e, f) <=> Shares(f, e)
  BY DEF Shares

\* A cut text of any other request is seen.
LEMMA OthersLook ==
    ASSUME refs \in BOOLEAN, NEW e \in Named, ~ SentThoughCut(e),
           NEW i \in DOMAIN Texts(e, refs)
    PROVE  Texts(e, refs)[i].checked
<1> DEFINE k == KindOf[e]
           seen(todo) == \A j \in DOMAIN todo: todo[j].checked
<1>1. k \notin {"graph_topic", "graph_reader"}
      /\ (refs => k \notin {"service", "client"}) /\ (~ refs => k # "node")
  BY DEF SentThoughCut
<1>2. Texts(e, refs) = IF refs THEN TextsWithRefs(e) ELSE TextsWithoutRefs(e)
  BY <1>1, OtherTexts
<1>3. \A n: seen(Profile(n))
  BY DEF Profile, Call
<1>4. seen(TopicTexts(e)) /\ seen(ServiceTexts(e)) /\ seen(ClientTexts(e)) /\ seen(<< >>)
  <2>1. \A c, d: c.checked /\ d.checked => seen(<<c, d>>)
    <3> TAKE c, d
    <3> HAVE c.checked /\ d.checked
    <3>1. DOMAIN <<c, d>> = 1..2 /\ <<c, d>>[1] = c /\ <<c, d>>[2] = d
      OBVIOUS
    <3>2. \A j \in 1..2: j = 1 \/ j = 2
      OBVIOUS
    <3> QED BY <3>1, <3>2
  <2>2. seen(<< >>)
    OBVIOUS
  <2> HIDE DEF seen
  <2>3. seen(TopicTexts(e))
    <3> DEFINE c == Call({"full_topic_name"}, NameLen[e] + 2, TopicMax, TRUE, {})
               d == Call({"type_name"}, TypeLen[e], TypeMax, TRUE, {})
    <3>1. TopicTexts(e) = <<c, d>>
      BY DEF TopicTexts
    <3>2. c.checked /\ d.checked
      BY DEF Call
    <3> HIDE DEF c, d
    <3> QED BY <2>1, <3>1, <3>2
  <2>4. seen(ServiceTexts(e))
    <3> DEFINE c == Call({"service req_type_name", "service res_type_name"},
                         TypeLen[e], TypeMax, TRUE, {})
               d == Call({"service req_topic_name", "service res_topic_name"},
                         NameLen[e] + 9, TopicMax, TRUE, {})
    <3>1. ServiceTexts(e) = <<c, d>>
      BY DEF ServiceTexts
    <3>2. c.checked /\ d.checked
      BY DEF Call
    <3> HIDE DEF c, d
    <3> QED BY <2>1, <3>1, <3>2
  <2>5. seen(ClientTexts(e))
    <3> DEFINE c == Call({"client req_type_name", "client res_type_name"},
                         TypeLen[e], TypeMax, TRUE, {})
               d == Call({"client req_topic_name", "client res_topic_name"},
                         NameLen[e] + 9, TopicMax, TRUE, {})
    <3>1. ClientTexts(e) = <<c, d>>
      BY DEF ClientTexts
    <3>2. c.checked /\ d.checked
      BY DEF Call
    <3> HIDE DEF c, d
    <3> QED BY <2>1, <3>1, <3>2
  <2> QED BY <2>2, <2>3, <2>4, <2>5
<1>5. CASE refs
  <2>1. \E n: Texts(e, refs) = Profile(n) \/ Texts(e, refs) = << >>
    BY <1>1, <1>2, <1>5, WithRefs
  <2> QED BY <1>3, <1>4, <2>1
<1>6. CASE ~ refs
  <2>1. Texts(e, refs) \in {TopicTexts(e), ServiceTexts(e), ClientTexts(e), << >>}
    BY <1>1, <1>2, <1>6, WithoutRefs
  <2> HIDE DEF seen
  <2>2. seen(Texts(e, refs))
    BY <1>4, <2>1
  <2> QED BY <2>2 DEF seen
<1> QED BY <1>5, <1>6

\* The text a creation writes names its entity, and is cut only if nobody checks.
LEMMA WrittenNames ==
    ASSUME NamesInv, NEW t \in Threads, MakeText(t), alone[t],
           Accepted(Texts(Subject(t), refs)[step[t]])
    PROVE  LET w == Written(Subject(t), Texts(Subject(t), refs)[step[t]], text) IN
           w.of = {Subject(t)} /\ (w.cut => SentThoughCut(Subject(t)))
<1> DEFINE e == Subject(t)
           todo == Texts(e, refs)
           k == step[t]
           c == todo[k]
<1>1. TypeOK /\ pc[t] = "texts" /\ k \in DOMAIN todo /\ refs \in BOOLEAN
  BY DEF NamesInv, MakeText, Creating, TypeOK
<1>2. e \in Named
  BY <1>1, InCall
<1>3. Ordered(todo)
  BY <1>1, <1>2, TextsOrdered
<1>4. \A b \in c.quotes: Names(b, e)
  <2>1. CASE c.quotes = {}
    BY <2>1
  <2>2. CASE \E j \in DOMAIN todo: j < k /\ c.quotes = todo[j].buffers
    BY <1>1, <2>2 DEF NamesInv, AloneNames, Creating
  <2> QED BY <1>1, <1>3, <2>1, <2>2 DEF Ordered
<1>5. Accepted(c)
  OBVIOUS
<1>6. ~ c.checked => SentThoughCut(e)
  BY <1>1, <1>2, OthersLook
<1>7. \A b \in c.quotes: text[b].of = {e} /\ (text[b].cut => SentThoughCut(e))
  BY <1>4 DEF Names
<1> HIDE DEF c, e
<1> DEFINE w == Written(e, c, text)
<1>8. w.of = {e}
  BY <1>7 DEF Written
<1>9. w.cut => SentThoughCut(e)
  BY <1>5, <1>6, <1>7 DEF Written, Accepted, Fits
<1> QED BY <1>8, <1>9 DEF c, e

\* Writing a text leaves those of other creations that are alone as they were.
LEMMA MakeTextNames ==
    ASSUME NamesInv, TypeOK', NEW t \in Threads, MakeText(t)
    PROVE  NamesInv'
<1> DEFINE e == Subject(t)
           c == Texts(e, refs)[step[t]]
           w == Written(e, c, text)
<1>1. /\ TypeOK /\ pc[t] = "texts" /\ step[t] \in DOMAIN Texts(e, refs) /\ refs \in BOOLEAN
      /\ UNCHANGED <<refs, mine, alone, calls, subject, carried>>
  BY DEF NamesInv, MakeText, Creating, TypeOK
<1>2. e \in Named /\ c.buffers \subseteq Buffers
  BY <1>1, InCall, CallsInBuffers
<1>3. \A b \in Buffers: text'[b] = IF b \in c.buffers THEN w ELSE text[b]
  BY DEF MakeText
<1>4. \/ /\ Accepted(c) /\ UNCHANGED pc
         /\ step' = [step EXCEPT ![t] = @ + 1]
      \/ pc' = [pc EXCEPT ![t] = "idle"] /\ UNCHANGED step
  BY DEF MakeText, Returns
<1>5. OwnCalls' /\ CarryNone' /\ RequestNamesItsEntity'
  BY <1>1 DEF NamesInv, OwnCalls, CarryNone, RequestNamesItsEntity, SentThoughCut
<1>6. \A u \in Threads: step'[u] >= 1
  BY <1>1, <1>4 DEF NamesInv, TypeOK
<1>7. \A u \in Threads: Creating(u)' => Creating(u) /\ Subject(u)' = Subject(u)
  BY <1>1, <1>4 DEF Creating, Subject, TypeOK
<1>8. ASSUME NEW u \in Threads, Creating(u)', alone'[u],
             NEW i \in DOMAIN Texts(Subject(u), refs), i < step'[u],
             NEW b \in Texts(Subject(u), refs)[i].buffers
      PROVE  text'[b].of = {Subject(u)} /\ (text'[b].cut => SentThoughCut(Subject(u)))
  <2>1. Creating(u) /\ alone[u] /\ Subject(u) \in Named /\ b \in Buffers
    <3>1. Creating(u) /\ alone[u]
      BY <1>1, <1>7, <1>8
    <3>2. Subject(u) \in Named
      BY <1>1, <3>1, InCall DEF Creating
    <3> QED BY <1>1, <1>8, <3>1, <3>2, CallsInBuffers
  <2>2. CASE u # t
    <3>1. i < step[u]
      BY <1>1, <1>4, <1>8, <2>2 DEF TypeOK
    <3>2. Names(b, Subject(u))
      BY <1>8, <2>1, <3>1 DEF NamesInv, AloneNames
    <3>3. ~ Shares(Subject(u), e)
      BY <1>1, <2>1, <2>2 DEF NamesInv, AloneNames, Creating
    <3>4. b \notin c.buffers
      BY <1>1, <1>2, <1>8, <2>1, <3>3, BuffersApart
    <3>5. text'[b] = text[b]
      BY <1>3, <2>1, <3>4
    <3> QED BY <3>2, <3>5 DEF Names
  <2>3. CASE u = t
    <3>1. Accepted(c) /\ step'[t] = step[t] + 1 /\ step[t] \in Nat
      BY <1>1, <1>4, <1>8, <2>3 DEF Creating, TypeOK
    <3>2. w.of = {e} /\ (w.cut => SentThoughCut(e))
      BY <2>1, <2>3, <3>1, WrittenNames
    <3>3. CASE b \in c.buffers
      BY <1>3, <2>1, <2>3, <3>2, <3>3
    <3>4. CASE b \notin c.buffers
      <4>1. i # step[t]
        BY <1>8, <2>3, <3>4
      <4>2. i \in Nat
        BY <1>1, <1>8, <2>1, TextsOrdered DEF Ordered
      <4>3. i < step[t]
        BY <1>8, <2>3, <3>1, <4>1, <4>2
      <4>4. Names(b, Subject(u))
        BY <1>8, <2>1, <2>3, <4>3 DEF NamesInv, AloneNames
      <4>5. text'[b] = text[b]
        BY <1>3, <2>1, <3>4
      <4> QED BY <4>4, <4>5 DEF Names
    <3> QED BY <3>3, <3>4
  <2> QED BY <2>2, <2>3
<1>9. ASSUME NEW u \in Threads, Creating(u)', alone'[u],
             NEW v \in Threads, v # u, Creating(v)'
      PROVE  ~ Shares(Subject(u), Subject(v))
  BY <1>1, <1>7, <1>9 DEF NamesInv, AloneNames
<1> HIDE DEF e, c, w
<1>10. AloneNames'
  <2>1. \A f, g: Shares(f, g)' <=> Shares(f, g)
    BY <1>1 DEF Shares
  <2>2. refs' = refs
    BY <1>1
  <2>3. \A u \in Threads: Creating(u)' => Subject(u)' = Subject(u)
    BY <1>7
  <2> SUFFICES ASSUME NEW u \in Threads, Creating(u)', alone'[u]
      PROVE  /\ \A v \in Threads: v # u /\ Creating(v)' => ~ Shares(Subject(u), Subject(v))'
             /\ \A i \in DOMAIN Texts(Subject(u), refs): i < step'[u] =>
                  \A b \in Texts(Subject(u), refs)[i].buffers:
                    text'[b].of = {Subject(u)} /\ (text'[b].cut => SentThoughCut(Subject(u)))
    BY <2>2, <2>3 DEF AloneNames, Names, SentThoughCut
  <2>4. ASSUME NEW v \in Threads, v # u, Creating(v)'
        PROVE  ~ Shares(Subject(u), Subject(v))'
    <3>1. ~ Shares(Subject(u), Subject(v))
      BY <1>9, <2>4
    <3> QED BY <2>2, <2>3, <2>4, <3>1 DEF Shares
  <2> QED BY <1>8, <2>4
<1> QED BY <1>5, <1>6, <1>10 DEF NamesInv

\* Steps that write no text and begin no creation.
LEMMA QuietNames ==
    ASSUME NamesInv, TypeOK', UNCHANGED <<refs, texts, mine, calls, subject>>,
           \A u \in Threads: Creating(u)' => Creating(u)
    PROVE  NamesInv'
<1>1. UNCHANGED <<refs, text, step, alone, carried, mine, calls, subject>>
  BY DEF texts
<1>2. OwnCalls' /\ CarryNone' /\ RequestNamesItsEntity' /\ \A u \in Threads: step'[u] >= 1
  BY <1>1 DEF NamesInv, OwnCalls, CarryNone, RequestNamesItsEntity, SentThoughCut
<1>3. AloneNames'
  BY <1>1 DEF NamesInv, AloneNames, Shares, Subject, Names, SentThoughCut
<1> QED BY <1>2, <1>3 DEF NamesInv

\* Beginning to send is no creation either.
LEMMA BeginSendNames ==
    ASSUME NamesInv, TypeOK', NEW t \in Threads, NEW e \in Senders, BeginSend(t, e)
    PROVE  NamesInv'
<1>1. /\ TypeOK /\ calls \in Nat /\ calls + 1 \in Calls /\ calls' = calls + 1
      /\ pc' = [pc EXCEPT ![t] = "prepare"]
      /\ mine' = [mine EXCEPT ![t] = calls + 1]
      /\ subject' = [subject EXCEPT ![calls + 1] = e]
      /\ UNCHANGED <<refs, text, step, alone, carried>>
  BY OutgoingAssumption DEF TypeOK, Calls, BeginSend, Begin, NamesInv
<1>2. \A u \in Threads: mine[u] \in 0..calls
  BY <1>1 DEF TypeOK
<1>3. \A u \in Threads: Creating(u)' => Creating(u) /\ mine'[u] = mine[u] /\ u # t
  BY <1>1 DEF TypeOK, Creating
<1>4. \A u \in Threads: Creating(u)' => Subject(u)' = Subject(u)
  <2> SUFFICES ASSUME NEW u \in Threads, Creating(u)' PROVE Subject(u)' = Subject(u)
    OBVIOUS
  <2>1. Creating(u) /\ mine'[u] = mine[u]
    BY <1>3
  <2>2. mine[u] \in 1..calls /\ mine[u] \in Calls
    BY <1>1, <2>1, InCall DEF Creating
  <2> QED BY <1>1, <2>1, <2>2 DEF Subject, TypeOK
<1>5. OwnCalls' /\ CarryNone' /\ \A u \in Threads: step'[u] >= 1
  <2>1. OwnCalls'
    BY <1>1, <1>2 DEF NamesInv, OwnCalls, TypeOK
  <2> QED BY <1>1, <2>1 DEF NamesInv, CarryNone, Calls
<1>6. RequestNamesItsEntity'
  <2>1. carried[calls + 1].texts = {}
    BY <1>1 DEF NamesInv, CarryNone
  <2>2. \A n \in Calls: n # calls + 1 => subject'[n] = subject[n]
    BY <1>1 DEF TypeOK
  <2>3. refs' = refs /\ carried' = carried
    BY <1>1
  <2> QED BY <2>1, <2>2, <2>3 DEF NamesInv, RequestNamesItsEntity, SentThoughCut
<1>7. AloneNames'
  BY <1>1, <1>3, <1>4 DEF NamesInv, AloneNames, Shares, Names, SentThoughCut
<1> QED BY <1>5, <1>6, <1>7 DEF NamesInv

\* A creation that begins spoils those it shares a buffer with, and is alone
\* itself only if there are none.
LEMMA BeginCreationNames ==
    ASSUME NamesInv, TypeOK', NEW t \in Threads, NEW e \in Named, BeginCreation(t, e)
    PROVE  NamesInv'
<1> DEFINE others == {u \in Threads: Creating(u) /\ Shares(Subject(u), e)}
<1>1. /\ TypeOK /\ calls \in Nat /\ calls + 1 \in Calls /\ calls' = calls + 1
      /\ pc[t] = "idle" /\ pc' = [pc EXCEPT ![t] = "texts"]
      /\ mine' = [mine EXCEPT ![t] = calls + 1]
      /\ subject' = [subject EXCEPT ![calls + 1] = e]
      /\ step' = [step EXCEPT ![t] = 1]
      /\ UNCHANGED <<refs, text, carried>>
  BY OutgoingAssumption DEF TypeOK, Calls, BeginCreation, Begin, NamesInv
<1>2. \A u \in Threads: mine[u] \in 0..calls
  BY <1>1 DEF TypeOK
<1>3. /\ \A u \in Threads: u # t /\ Creating(u)' => Creating(u) /\ mine'[u] = mine[u]
      /\ mine'[t] = calls + 1
      /\ step'[t] = 1
      /\ \A u \in Threads: u # t => step'[u] = step[u]
  BY <1>1 DEF TypeOK, Creating
<1>4. /\ Subject(t)' = e
      /\ \A u \in Threads: u # t /\ Creating(u)' => Subject(u)' = Subject(u)
  <2>1. Subject(t)' = e
    BY <1>1, <1>3 DEF Subject, TypeOK
  <2> SUFFICES ASSUME NEW u \in Threads, u # t, Creating(u)' PROVE Subject(u)' = Subject(u)
    BY <2>1
  <2>2. Creating(u) /\ mine'[u] = mine[u]
    BY <1>3
  <2>3. mine[u] \in 1..calls /\ mine[u] \in Calls
    BY <1>1, <2>2, InCall DEF Creating
  <2> QED BY <1>1, <2>2, <2>3 DEF Subject, TypeOK
<1>5. /\ alone'[t] => others = {}
      /\ \A u \in Threads: u # t /\ alone'[u] => alone[u] /\ u \notin others
  <2>1. alone' = [u \in Threads |-> CASE u = t -> others = {}
                                      [] u \in others -> FALSE
                                      [] OTHER -> alone[u]]
    BY DEF BeginCreation
  <2> HIDE DEF others
  <2> QED BY <2>1
<1>6. OwnCalls' /\ CarryNone' /\ \A u \in Threads: step'[u] >= 1
  <2>1. OwnCalls'
    BY <1>1, <1>2 DEF NamesInv, OwnCalls, TypeOK
  <2> QED BY <1>1, <1>3, <2>1 DEF NamesInv, CarryNone, Calls
<1>7. RequestNamesItsEntity'
  <2>1. carried[calls + 1].texts = {}
    BY <1>1 DEF NamesInv, CarryNone
  <2>2. \A n \in Calls: n # calls + 1 => subject'[n] = subject[n]
    BY <1>1 DEF TypeOK
  <2>3. refs' = refs /\ carried' = carried
    BY <1>1
  <2> QED BY <2>1, <2>2, <2>3 DEF NamesInv, RequestNamesItsEntity, SentThoughCut
<1>8. AloneNames'
  <2> SUFFICES ASSUME NEW u \in Threads, Creating(u)', alone'[u]
      PROVE  /\ \A v \in Threads: v # u /\ Creating(v)' => ~ Shares(Subject(u)', Subject(v)')
             /\ \A i \in DOMAIN Texts(Subject(u)', refs): i < step'[u] =>
                  \A b \in Texts(Subject(u)', refs)[i].buffers:
                    text[b].of = {Subject(u)'} /\ (text[b].cut => SentThoughCut(Subject(u)'))
    BY <1>1 DEF AloneNames, Shares, Names, SentThoughCut
  <2>1. CASE u = t
    <3>1. \A i \in DOMAIN Texts(e, refs): ~ (i < step'[t])
      BY <1>1, <1>3, TextsOrdered DEF Ordered, TypeOK
    <3>2. \A v \in Threads: v # t /\ Creating(v)' => ~ Shares(Subject(v), e)
      BY <1>3, <1>5, <2>1
    <3> QED BY <1>4, <2>1, <3>1, <3>2, SharesBothWays
  <2>2. CASE u # t
    <3>1. Creating(u) /\ alone[u] /\ ~ Shares(Subject(u), e)
      BY <1>3, <1>5, <2>2
    <3>2. \A v \in Threads: v # u /\ Creating(v)' => ~ Shares(Subject(u), Subject(v)')
      BY <1>3, <1>4, <3>1 DEF NamesInv, AloneNames
    <3>3. Subject(u)' = Subject(u) /\ step'[u] = step[u]
      BY <1>3, <1>4, <2>2
    <3> QED BY <3>1, <3>2, <3>3 DEF NamesInv, AloneNames, Names
  <2> QED BY <2>1, <2>2
<1> QED BY <1>6, <1>7, <1>8 DEF NamesInv

\* A request is buffered when all its texts are written.
LEMMA BufferRequestNames ==
    ASSUME NamesInv, TypeOK', NEW t \in Threads, BufferRequest(t)
    PROVE  NamesInv'
<1> DEFINE e == Subject(t)
           m == mine[t]
           todo == Texts(e, refs)
           ct == {text[b] : b \in Carried(e, refs)}
<1>1. /\ TypeOK /\ Creating(t) /\ step[t] \notin DOMAIN todo /\ refs \in BOOLEAN
      /\ pc' = [pc EXCEPT ![t] = "status"]
      /\ UNCHANGED <<refs, text, mine, step, alone, calls, subject>>
  BY DEF NamesInv, BufferRequest, Awaits, TypeOK
<1>2. e \in Named /\ m \in Calls /\ m \in 1..calls /\ calls \in Nat
  <2>1. e \in Named /\ m \in Calls /\ m \in 1..calls
    BY <1>1, InCall DEF Creating
  <2> QED BY <1>1, <2>1 DEF TypeOK
<1>3. \A u \in Threads: Creating(u)' => Creating(u)
  BY <1>1 DEF Creating, TypeOK
<1>4. \/ carried' = [carried EXCEPT ![m] = [texts |-> ct, alone |-> alone[t]]]
      \/ UNCHANGED carried
  BY DEF BufferRequest
<1>5. \A i \in DOMAIN todo: i < step[t]
  <2> SUFFICES ASSUME NEW i \in DOMAIN todo, ~ (i < step[t]) PROVE FALSE
    OBVIOUS
  <2>1. i \in Nat /\ 1..i \subseteq DOMAIN todo
    BY <1>1, <1>2, TextsOrdered DEF Ordered
  <2>2. step[t] \in 1..i
    BY <1>1, <2>1 DEF NamesInv, TypeOK
  <2> QED BY <1>1, <2>1, <2>2
<1>6. alone[t] => \A x \in ct: x.of = {e} /\ (x.cut => SentThoughCut(e))
  <2> SUFFICES ASSUME alone[t], NEW b \in Carried(e, refs) PROVE Names(b, e)
    BY DEF Names
  <2>1. PICK i \in DOMAIN todo: b \in todo[i].buffers
    BY DEF Carried
  <2> QED BY <1>1, <1>5, <2>1 DEF NamesInv, AloneNames
<1>7. subject[m] = e
  BY DEF Subject
<1> HIDE DEF ct, e, m
<1>8. OwnCalls' /\ \A u \in Threads: step'[u] >= 1
  BY <1>1 DEF NamesInv, OwnCalls
<1>9. \A n \in Calls: \/ carried'[n] = carried[n]
                      \/ n = m /\ carried'[n].texts = ct /\ carried'[n].alone = alone[t]
  BY <1>1, <1>2, <1>4 DEF TypeOK
<1>10. CarryNone'
  BY <1>1, <1>2, <1>9 DEF NamesInv, CarryNone
<1>11. RequestNamesItsEntity'
  BY <1>1, <1>6, <1>7, <1>9 DEF NamesInv, RequestNamesItsEntity, SentThoughCut
<1>12. AloneNames'
  BY <1>1, <1>3 DEF NamesInv, AloneNames, Shares, Subject, Names, SentThoughCut
<1> QED BY <1>8, <1>10, <1>11, <1>12 DEF NamesInv

\* At the start nothing is created and nothing carried.
LEMMA NamesInit == Init => NamesInv
<1> SUFFICES ASSUME Init PROVE NamesInv
  OBVIOUS
<1>1. TypeOK
  BY OutgoingAssumption DEF Init, TypeOK, Calls, Subject
<1> QED BY <1>1 DEF Init, NamesInv, OwnCalls, AloneNames, CarryNone,
        RequestNamesItsEntity, Creating

\* Every step keeps NamesInv.
LEMMA NamesStep ==
    ASSUME NamesInv, [Next]_vars
    PROVE  NamesInv'
<1>1. TypeOK' /\ TypeOK
  BY OutgoingTypeStep DEF NamesInv
<1>2. ASSUME NEW t \in Threads, NEW e \in Senders, BeginSend(t, e) PROVE NamesInv'
  BY <1>1, <1>2, BeginSendNames
<1>3. ASSUME NEW t \in Threads, NEW e \in Named, BeginCreation(t, e) PROVE NamesInv'
  BY <1>1, <1>3, BeginCreationNames
<1>4. ASSUME NEW t \in Threads, ThreadStep(t) PROVE NamesInv'
  <2>1. CASE MakeText(t)
    BY <1>1, <2>1, MakeTextNames
  <2>2. CASE BufferRequest(t)
    BY <1>1, <2>2, BufferRequestNames
  <2>3. ASSUME NEW p, p # "texts", pc' = [pc EXCEPT ![t] = p],
               UNCHANGED <<refs, texts, mine, calls, subject>>
        PROVE  NamesInv'
    <3>1. \A u \in Threads: Creating(u)' => Creating(u)
      BY <1>1, <2>3 DEF Creating, TypeOK
    <3> QED BY <1>1, <2>3, <3>1, QuietNames
  <2>4. ASSUME NEW r \in {"OK", "ERROR"}, Status(t, r) PROVE NamesInv'
    BY <2>3, <2>4 DEF Status, Returns
  <2>5. CASE Prepare(t)
    BY <2>3, <2>5 DEF Prepare, Reserve
  <2>6. CASE PrepareFails(t)
    BY <2>3, <2>6 DEF PrepareFails, Returns
  <2>7. CASE PrepareFragments(t)
    BY <2>3, <2>7 DEF PrepareFragments, Reserve
  <2>8. CASE FlushTimeout(t)
    BY <2>3, <2>8 DEF FlushTimeout, Returns
  <2>9. ASSUME NEW ok \in BOOLEAN, Write(t, ok) PROVE NamesInv'
    BY <2>3, <2>9 DEF Write
  <2>10. ASSUME NEW sent \in SUBSET effort, Flash(t, sent) PROVE NamesInv'
    BY <2>3, <2>10 DEF Flash, Returns
  <2>11. ASSUME NEW delivered \in BOOLEAN, Confirm(t, delivered) PROVE NamesInv'
    BY <2>3, <2>11 DEF Confirm, Returns
  <2> QED BY <1>4, <2>1, <2>2, <2>4, <2>5, <2>6, <2>7, <2>8, <2>9, <2>10, <2>11
        DEF ThreadStep
<1>5. ASSUME NEW n \in Calls, Transmit(n) \/ Acknowledge(n) PROVE NamesInv'
  <2>1. UNCHANGED <<refs, texts, pc, mine, calls, subject>>
    BY <1>5 DEF Transmit, Acknowledge
  <2> QED BY <1>1, <2>1, QuietNames DEF Creating
<1>6. CASE UNCHANGED vars
  <2>1. UNCHANGED <<refs, texts, pc, mine, calls, subject>>
    BY <1>6 DEF vars, texts
  <2> QED BY <1>1, <2>1, QuietNames DEF Creating
<1> QED BY <1>2, <1>3, <1>4, <1>5, <1>6 DEF Next

\* A creation request carries the names of its entity, in full unless nobody
\* checks, if no other creation that shares its buffers ran meanwhile.
THEOREM RequestsNameTheirEntity == Spec => []RequestNamesItsEntity
<1>1. NamesInv => RequestNamesItsEntity
  BY DEF NamesInv
<1>2. NamesInv /\ [Next]_vars => NamesInv'
  BY NamesStep
<1> QED BY <1>1, <1>2, NamesInit, PTL DEF Spec
=============================================================================
