------------------------------- MODULE Graph -------------------------------
(***************************************************************************)
(* The graph of a context (RMW_UXRCE_GRAPH): rmw_graph_init asks the agent *)
(* for its graph topic, on_topic copies each message into micro_buffer     *)
(* while some thread runs the session, and the query functions of the      *)
(* application deserialise the buffer, without a lock, and look through    *)
(* its nodes.                                                              *)
(*                                                                         *)
(* The bytes of a message are two halves, each known by the graph it is    *)
(* from; a buffer whose halves and length agree is that graph again.  A    *)
(* message may end before the length it announces: on_topic does not look  *)
(* whether the copy failed.                                                *)
(***************************************************************************)
EXTENDS Integers, Sequences, FiniteSets, SequencesExt, FiniteSetsExt

CONSTANTS
    Graphs,     \* the graphs the agent may send
    Readers,    \* threads that ask
    Queries,    \* what they ask
    NameLen,    \* NameLen[s]: characters of the string s
    TempSize,   \* sizeof(temp_string)
    None,       \* no graph
    Broken      \* bytes that are no graph

Kinds == {"publisher", "subscriber", "service", "client"}

\* A node of a graph, and an entity of a node: the agent gives it a type.
Entity(e) == e.kind \in Kinds /\ e.name \in DOMAIN NameLen /\ e.types # <<>>
Node(n) ==
    /\ {n.name, n.namespace} \subseteq DOMAIN NameLen
    /\ n.entities \in Seq(ToSet(n.entities))
    /\ \A e \in ToSet(n.entities): Entity(e)

ASSUME GraphAssumption ==
    /\ None \notin Graphs /\ Broken \notin Graphs /\ None # Broken
    /\ NameLen \in [DOMAIN NameLen -> Nat]
    /\ \A g \in Graphs: g \in Seq(ToSet(g)) /\ \A n \in ToSet(g): Node(n)
    /\ \A q \in Queries: q.ask \in {"count", "matched", "endpoints", "topics",
                                    "services", "by_node", "nodes"}

VARIABLES
    setup,          \* how far rmw_graph_init is
    initialized,    \* graph_info->initialized
    has_changed,    \* graph_info->has_changed
    length,         \* the graph that micro_buffer_length is of
    micro_buffer,   \* the graphs its halves are of
    writing,        \* the message on_topic copies, and its next step
    latest,         \* the graph of the last message for this context, None
                    \* before the first one; Broken when its copy failed
    pc,             \* pc[r]: what thread r does next
    query,          \* query[r]: what r asks
    read,           \* read[r]: the graphs of the length and the bytes r has read
    seen,           \* seen[r]: latest when r began, if it was a graph and no
                    \* message came since
    answer          \* answer[r]: what r was answered

info == <<initialized, has_changed, length, micro_buffer>>
asking == <<pc, query, read, answer>>
vars == <<setup, info, writing, latest, asking, seen>>

Idle == [graph |-> None, step |-> "none"]
NothingRead == <<None, None, None>>

-----------------------------------------------------------------------------
\* What the functions make of a graph.

\* The strings of a graph, and whether rmw_graph_fill_data_from_buffer reads
\* each into temp_string.
Strings(g) ==
    UNION {{n.name, n.namespace}
           \cup UNION {{e.name} \cup ToSet(e.types) : e \in ToSet(n.entities)} :
             n \in ToSet(g)}
Parses(g) == \A s \in Strings(g): NameLen[s] < TempSize

\* All entities with their nodes, in the order of the two loops.
Entries(g) ==
    FoldLeft(LAMBDA list, n:
               list \o [j \in DOMAIN n.entities |-> [node |-> n, entity |-> n.entities[j]]],
             <<>>, g)

\* Those that a loop over list stops at, for a set of entries.
Those(list, entries) ==
    FoldLeft(LAMBDA some, x: IF x \in entries THEN Append(some, x) ELSE some, <<>>, list)

OfKind(g, kind) == {x \in ToSet(Entries(g)): x.entity.kind = kind}

Matching(g, kind, topic) ==
    Those(Entries(g), {x \in OfKind(g, kind): x.entity.name = topic})

\* __rmw_count_entities
Count(g, kind, topic) == Len(Matching(g, kind, topic))

\* __rmw_get_endpoint_info_by_topic: node and first type of each.
EndpointInfo(g, kind, topic) ==
    [k \in DOMAIN Matching(g, kind, topic) |->
        LET x == Matching(g, kind, topic)[k] IN
        [node |-> x.node.name, namespace |-> x.node.namespace,
         type |-> x.entity.types[1], kind |-> kind]]

\* rmw_publisher_count_matched_subscriptions, and its like for subscriptions:
\* the size of that array for the topic.
Matched(g, kind, topic) == Len(EndpointInfo(g, kind, topic))

NameAndTypes(x) == [name |-> x.entity.name, types |-> x.entity.types]

\* Mutant: it is not looked up whether the list has the name already.
NamesAndTypesTwice(g, kinds) ==
    FoldLeft(LAMBDA list, x:
               IF x.entity.kind \in kinds THEN Append(list, NameAndTypes(x)) ELSE list,
             <<>>, Entries(g))

\* rmw_get_topic_names_and_types, rmw_get_service_names_and_types: the first
\* entity of each name.
NamesAndTypes(g, kinds) ==
    FoldLeft(LAMBDA list, x:
               IF x.entity.kind \in kinds /\ \A y \in ToSet(list): y.name # x.entity.name
               THEN Append(list, NameAndTypes(x)) ELSE list,
             <<>>, Entries(g))

\* __rmw_get_entity_names_and_types_by_node: the loop ends at the first node
\* of that name and namespace.
ByNode(g, kind, name, namespace) ==
    LET here == {i \in DOMAIN g: g[i].name = name /\ g[i].namespace = namespace} IN
    IF here = {} THEN <<>>
    ELSE LET node == <<g[Min(here)]>>
             of == Those(Entries(node), OfKind(node, kind))
         IN  [k \in DOMAIN of |-> NameAndTypes(of[k])]

\* rmw_get_node_names: the bound given to snprintf is the number of nodes, so
\* that is what a name is cut to.
NodeNames(g) ==
    LET Cut(s) == [of |-> s, characters |-> Min({NameLen[s], Len(g) - 1})] IN
    [i \in DOMAIN g |-> [name |-> Cut(g[i].name), namespace |-> Cut(g[i].namespace)]]

\* The answer to q from a graph.
Answer(q, g) ==
    CASE q.ask = "count" -> Count(g, q.kind, q.topic)
      [] q.ask = "matched" -> Matched(g, q.kind, q.topic)
      [] q.ask = "endpoints" -> EndpointInfo(g, q.kind, q.topic)
      [] q.ask = "topics" -> NamesAndTypes(g, {"publisher", "subscriber"})
      [] q.ask = "services" -> NamesAndTypes(g, {"service", "client"})
      [] q.ask = "by_node" -> ByNode(g, q.kind, q.name, q.namespace)
      [] q.ask = "nodes" -> NodeNames(g)

-----------------------------------------------------------------------------
\* A context gets memory of session_memory as the last one in it left it, some
\* copies for which may have failed.
Init ==
    /\ setup = "out"
    /\ initialized \in BOOLEAN
    /\ has_changed = initialized
    /\ length \in IF initialized THEN Graphs ELSE {None}
    /\ micro_buffer \in IF initialized THEN (Graphs \cup {None}) \X (Graphs \cup {None})
                       ELSE {<<None, None>>}
    /\ writing = Idle
    /\ latest = None
    /\ pc = [r \in Readers |-> "idle"]
    /\ query = [r \in Readers |-> None]
    /\ read = [r \in Readers |-> NothingRead]
    /\ seen = [r \in Readers |-> None]
    /\ answer = [r \in Readers |-> None]

\* rmw_graph_init: the structure is reset, the bytes are not; then participant,
\* subscriber, topic and data reader are requested.
GraphInit ==
    /\ setup = "out"
    /\ initialized' = FALSE /\ has_changed' = FALSE
    /\ latest' = None
    /\ setup' = "creating"
    /\ UNCHANGED <<length, micro_buffer, writing, asking, seen>>

\* The agent confirms all four in time, and the data is asked for; or not, and
\* rmw_init fails.
GraphCreated ==
    /\ setup = "creating"
    /\ setup' \in {"asked", "out"}
    /\ UNCHANGED <<info, writing, latest, asking, seen>>

\* rmw_shutdown: no other thread is in a call on the context.
Shutdown ==
    /\ setup = "asked"
    /\ writing = Idle
    /\ \A r \in Readers: pc[r] = "idle"
    /\ setup' = "out"
    /\ UNCHANGED <<info, writing, latest, asking, seen>>

-----------------------------------------------------------------------------
\* Mutant: the length of the last message is kept.
OnTopicOldLength(g) ==
    /\ setup = "asked"
    /\ writing = Idle
    /\ writing' = [graph |-> g, step |-> "first"]
    /\ seen' = [r \in Readers |-> None]
    /\ UNCHANGED <<setup, info, latest, asking>>

\* on_topic with the identifier of the graph's data reader, in its order.
OnTopic(g) ==
    /\ setup = "asked"
    /\ writing = Idle
    /\ length' = g
    /\ writing' = [graph |-> g, step |-> "first"]
    /\ seen' = [r \in Readers |-> None]
    /\ UNCHANGED <<setup, initialized, has_changed, micro_buffer, latest, asking>>

\* Mutant: initialized is set before the rest is copied.
CopyEarly ==
    \/ /\ writing.step = "first"
       /\ micro_buffer' = [micro_buffer EXCEPT ![1] = writing.graph]
       /\ writing' = [writing EXCEPT !.step = "second"]
       /\ initialized' = TRUE
    \/ /\ writing.step = "second"
       /\ micro_buffer' = [micro_buffer EXCEPT ![2] = writing.graph]
       /\ writing' = [writing EXCEPT !.step = "flags"]
       /\ UNCHANGED initialized

\* ucdr_deserialize_array_uint8_t, in two parts, either of which may fail
Copy ==
    \/ /\ writing.step = "first"
       /\ micro_buffer' = [micro_buffer EXCEPT ![1] = writing.graph]
       /\ writing' = [writing EXCEPT !.step = "second"]
       /\ UNCHANGED initialized
    \/ /\ writing.step = "second"
       /\ micro_buffer' = [micro_buffer EXCEPT ![2] = writing.graph]
       /\ writing' = [writing EXCEPT !.step = "flags"]
       /\ UNCHANGED initialized
    \/ /\ writing.step \in {"first", "second"}
       /\ writing' = [writing EXCEPT !.step = "flags"]
       /\ UNCHANGED <<initialized, micro_buffer>>

CopyGraph ==
    /\ Copy
    /\ UNCHANGED <<setup, has_changed, length, latest, asking, seen>>

\* The flags are set after a failed copy too.
SetFlags ==
    /\ writing.step = "flags"
    /\ initialized' = TRUE /\ has_changed' = TRUE
    /\ latest' = IF \A half \in 1..2: micro_buffer[half] = writing.graph
                 THEN writing.graph ELSE Broken
    /\ writing' = Idle
    /\ UNCHANGED <<setup, length, micro_buffer, asking, seen>>

-----------------------------------------------------------------------------
\* A thread asks; before the first message there is nothing to look through.
Ask(r, q) ==
    /\ setup = "asked"
    /\ pc[r] = "idle"
    /\ IF initialized
       THEN /\ pc' = [pc EXCEPT ![r] = "length"]
            /\ query' = [query EXCEPT ![r] = q]
            /\ seen' = [seen EXCEPT ![r] = IF writing = Idle /\ latest # Broken
                                          THEN latest ELSE None]
            /\ answer' = [answer EXCEPT ![r] = None]
       ELSE /\ answer' = [answer EXCEPT ![r] = "empty"]
            /\ UNCHANGED <<pc, query, seen>>
    /\ UNCHANGED <<setup, info, writing, latest, read>>

\* rmw_graph_fill_data_from_buffer reads the length, then the bytes in order.
Steps == <<"length", "first", "second", "answer">>

Read(r) ==
    \E k \in 1..3:
      /\ pc[r] = Steps[k]
      /\ read' = [read EXCEPT ![r][k] = <<length, micro_buffer[1], micro_buffer[2]>>[k]]
      /\ pc' = [pc EXCEPT ![r] = Steps[k + 1]]
      /\ UNCHANGED <<setup, info, writing, latest, query, seen, answer>>

\* The query function returns. Bytes of several graphs do not parse, or as a
\* graph that nobody sent.
AnswerQuery(r) ==
    LET g == read[r][1] IN
    /\ pc[r] = "answer"
    /\ answer' \in {[answer EXCEPT ![r] = a] :
         a \in IF Cardinality(ToSet(read[r])) > 1 THEN {"ERROR", "mixed"}
               ELSE IF Parses(g) THEN {Answer(query[r], g)} ELSE {"ERROR"}}
    /\ pc' = [pc EXCEPT ![r] = "idle"]
    /\ query' = [query EXCEPT ![r] = None]
    /\ read' = [read EXCEPT ![r] = NothingRead]
    /\ seen' = [seen EXCEPT ![r] = None]
    /\ UNCHANGED <<setup, info, writing, latest>>

Next ==
    \/ GraphInit
    \/ GraphCreated
    \/ Shutdown
    \/ \E g \in Graphs: OnTopic(g)
    \/ CopyGraph
    \/ SetFlags
    \/ \E r \in Readers:
         \/ \E q \in Queries: Ask(r, q)
         \/ Read(r)
         \/ AnswerQuery(r)

Spec == Init /\ [][Next]_vars

-----------------------------------------------------------------------------
\* Every variable stays in its domain, and after a message that was copied whole
\* the buffer and its length are of its graph until the next message.
TypeOK ==
    /\ setup \in {"out", "creating", "asked"}
    /\ {initialized, has_changed} \subseteq BOOLEAN
    /\ length \in Graphs \cup {None}
    /\ micro_buffer \in Seq(Graphs \cup {None}) /\ Len(micro_buffer) = 2
    /\ writing.graph \in Graphs \cup {None}
    /\ writing.step \in {"none", "first", "second", "flags"}
    /\ latest \in Graphs \cup {None, Broken}
    /\ writing = Idle /\ latest \in Graphs =>
         ToSet(micro_buffer) = {latest} /\ length = latest
    /\ pc \in [Readers -> {"idle", "length", "first", "second", "answer"}]
    /\ query \in [Readers -> Queries \cup {None}]
    /\ seen \in [Readers -> Graphs \cup {None}]

\* The entities of g that the loops of a query should find.
Found(g, kinds, nodes) ==
    {x \in UNION {{i} \X DOMAIN g[i].entities : i \in nodes} :
        g[x[1]].entities[x[2]].kind \in kinds}

\* Two sequences of answers and of what they are about agree up to order.
SameBag(list, found, Value(_)) ==
    \A v \in ToSet(list) \cup {Value(x) : x \in found}:
        Cardinality({k \in DOMAIN list: list[k] = v}) = Cardinality({x \in found: Value(x) = v})

\* What each function promises of the graph g. The names of nodes are promised in
\* full only if they are shorter than their number (rmw_node_names.c:86).
Promised(q, g, a) ==
    LET At(x) == g[x[1]].entities[x[2]]
        Endpoint(x) == [node |-> g[x[1]].name, namespace |-> g[x[1]].namespace,
                        type |-> At(x).types[1], kind |-> At(x).kind]
        Typed(x) == [name |-> At(x).name, types |-> At(x).types]
        OnTopics(kinds, topic) == {x \in Found(g, kinds, DOMAIN g): At(x).name = topic}
        Listed(kinds) ==
          LET found == Found(g, kinds, DOMAIN g) IN
          /\ {y.name : y \in ToSet(a)} = {At(x).name : x \in found}
          /\ Cardinality({At(x).name : x \in found}) = Len(a)
          /\ ToSet(a) \subseteq {Typed(x) : x \in found}
        Names(part, s) ==
          /\ part.of = s
          /\ NameLen[s] < Len(g) => part.characters = NameLen[s]
    IN
    CASE q.ask \in {"count", "matched"} -> a = Cardinality(OnTopics({q.kind}, q.topic))
      [] q.ask = "endpoints" -> SameBag(a, OnTopics({q.kind}, q.topic), Endpoint)
      [] q.ask = "topics" -> Listed({"publisher", "subscriber"})
      [] q.ask = "services" -> Listed({"service", "client"})
      [] q.ask = "by_node" ->
           LET named == {i \in DOMAIN g: g[i].name = q.name /\ g[i].namespace = q.namespace} IN
           IF named = {} THEN a = <<>>
           ELSE \E i \in named: SameBag(a, Found(g, {q.kind}, {i}), Typed)
      [] q.ask = "nodes" ->
           /\ Len(a) = Len(g)
           /\ \A i \in DOMAIN g: Names(a[i].name, g[i].name)
                                /\ Names(a[i].namespace, g[i].namespace)

\* A query that no message of the graph overlapped, after one that was copied
\* whole, answers from that graph and nothing else, also when a copy had failed
\* before: every entity asked for, each topic and service once, each node, but
\* long names of nodes cut; or with an error, when a string of the graph is
\* longer than temp_string.
AnswersFromOneGraph ==
    [][\A r \in Readers: pc[r] = "answer" /\ pc'[r] = "idle" /\ seen[r] # None =>
         IF Parses(seen[r]) THEN Promised(query[r], seen[r], answer'[r])
         ELSE answer'[r] = "ERROR"]_vars

\* Until the first message of this context has been dealt with, every query is
\* answered with nothing: neither bytes that the last context in the memory left
\* nor a message that is being copied are looked at. A message whose copy failed
\* counts as dealt with (callbacks.c:54).
FirstMessageDone ==
    \A r \in Readers: pc[r] # "idle" => latest # None
=============================================================================
