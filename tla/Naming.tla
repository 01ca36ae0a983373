------------------------------- MODULE Naming -------------------------------
(***************************************************************************)
(* The texts that name an entity in its creation request (utils.c and the  *)
(* callers of its generate_ and build_ functions).  Every text is written  *)
(* with snprintf into a buffer that all threads share: a static local of   *)
(* the function, or, with RMW_UXRCE_USE_REFS and for the graph,            *)
(* rmw_uxrce_entity_naming_buffer.  Of a text the module keeps whose names *)
(* it consists of and whether snprintf cut it.                             *)
(***************************************************************************)
EXTENDS Integers, Sequences

CONSTANTS
    Named,      \* what is created: each thing stands for its creation request
    KindOf,     \* KindOf[e]: "node", "topic", "writer", "service", "client", ...
    NameLen,    \* NameLen[e]: characters of its name, with namespace
    TypeLen,    \* TypeLen[e]: characters of its longest type name
    NodeMax,    \* RMW_UXRCE_NODE_NAME_MAX_LENGTH
    TopicMax,   \* RMW_UXRCE_TOPIC_NAME_MAX_LENGTH
    TypeMax,    \* RMW_UXRCE_TYPE_NAME_MAX_LENGTH
    RefMax      \* RMW_UXRCE_ENTITY_NAMING_BUFFER_LENGTH

Kinds == {"node", "topic", "writer", "service", "client", "graph_topic", "graph_reader"}

ASSUME NamingAssumption ==
    /\ KindOf \in [Named -> Kinds]
    /\ NameLen \in [Named -> Nat]
    /\ TypeLen \in [Named -> Nat]
    /\ {NodeMax, TopicMax, TypeMax, RefMax} \subseteq Nat

\* A call that writes texts: the buffers, the length of the longest text,
\* their size, whether the caller sees that a text is cut, and the buffers
\* whose texts it copies.
Call(buffers, length, size, checked, quotes) ==
    [buffers |-> buffers, length |-> length, size |-> size,
     checked |-> checked, quotes |-> quotes]

NamingBuffer == "rmw_uxrce_entity_naming_buffer"

\* generate_topic_name, generate_type_name: "rt" and the name; the type.
TopicTexts(e) ==
    << Call({"full_topic_name"}, NameLen[e] + 2, TopicMax, TRUE, {}),
       Call({"type_name"}, TypeLen[e], TypeMax, TRUE, {}) >>

\* generate_service_types, generate_service_topics, each for two texts: "rq",
\* the name and "Request" are the longer ones.
ServiceTexts(e) ==
    << Call({"service req_type_name", "service res_type_name"},
            TypeLen[e], TypeMax, TRUE, {}),
       Call({"service req_topic_name", "service res_topic_name"},
            NameLen[e] + 9, TopicMax, TRUE, {}) >>

\* Mutant: rmw_create_client writes into the buffers of rmw_create_service.
SharedClientTexts(e) == ServiceTexts(e)

\* The same in rmw_create_client, which has static locals of its own.
ClientTexts(e) ==
    << Call({"client req_type_name", "client res_type_name"},
            TypeLen[e], TypeMax, TRUE, {}),
       Call({"client req_topic_name", "client res_topic_name"},
            NameLen[e] + 9, TopicMax, TRUE, {}) >>

\* The names of the topics in the XML of a service, in local arrays that hold
\* TopicMax + 13 and TopicMax + 11 characters; "rq", "Request" and "rr", "Reply"
\* leave the same room for the name.
ServiceTopicNames(e) == Call({}, NameLen[e] + 9, TopicMax + 13, TRUE, {})

\* build_service_xml: 189 characters of its text are neither name nor type (a
\* profile name has three), and "requester" is longer than "replier". It looks
\* at the names of the topics, not at the types, and its check for a cut XML,
\* (ret < 0) && (ret >= size), never holds.
ServiceXml(e) ==
    << Call({"req_type_name_buffer", "res_type_name_buffer"},
            TypeLen[e], TypeMax, FALSE, {}),
       ServiceTopicNames(e),
       Call({NamingBuffer},
            (IF KindOf[e] = "client" THEN 193 ELSE 189) + 3 * NameLen[e] + 2 * TypeLen[e],
            RefMax, FALSE, {"req_type_name_buffer", "res_type_name_buffer"}) >>

\* build_topic_xml: a name or a type name that is too long is seen, an XML that
\* does not fit is not. The graph's topic has no "rt" before its name, since
\* rmw_graph_init avoids the ROS namespace conventions.
TopicXml(e) ==
    << Call({}, NameLen[e], TopicMax + 1, TRUE, {}),
       Call({"build_topic_xml type_name_buffer"}, TypeLen[e], TypeMax, TRUE, {}),
       Call({NamingBuffer}, 60 + NameLen[e] + TypeLen[e], RefMax, FALSE,
            {"build_topic_xml type_name_buffer"}) >>

\* build_xml for build_datareader_xml ("RELIABLE") looks at the type name only;
\* the name is the one that build_topic_xml has accepted.
ReaderXml(e) ==
    << Call({"build_xml type_name_buffer"}, TypeLen[e], TypeMax, TRUE, {}),
       Call({NamingBuffer}, 279 + NameLen[e] + TypeLen[e], RefMax, FALSE,
            {"build_xml type_name_buffer"}) >>

\* build_topic_profile and build_datawriter_profile (build_datareader_profile)
\* drop the "/" of the name and append "__t", "__dw" or "__dr".
Profile(length) == << Call({NamingBuffer}, length, RefMax, TRUE, {}) >>

\* What is written, in order, before the request that creates e is buffered.
TextsWithRefs(e) ==
    CASE KindOf[e] = "node" -> Profile(19)
      [] KindOf[e] = "topic" -> Profile(NameLen[e] + 2)
      [] KindOf[e] = "writer" -> Profile(NameLen[e] + 3)
      [] KindOf[e] \in {"service", "client"} -> ServiceXml(e)
      [] OTHER -> << >>

TextsWithoutRefs(e) ==
    CASE KindOf[e] = "node" ->
           << Call({"xrce_node_name"}, NameLen[e], NodeMax, FALSE, {}) >>
      [] KindOf[e] = "topic" -> TopicTexts(e)
      [] KindOf[e] = "service" -> ServiceTexts(e)
      [] KindOf[e] = "client" -> ClientTexts(e)
      [] OTHER -> << >>

\* The requests of rmw_graph_init are XML in either mode.
Texts(e, refs) ==
    CASE KindOf[e] = "graph_topic" -> TopicXml(e)
      [] KindOf[e] = "graph_reader" -> ReaderXml(e)
      [] OTHER -> IF refs THEN TextsWithRefs(e) ELSE TextsWithoutRefs(e)

\* All shared buffers of texts.
Buffers ==
    UNION {UNION {Texts(e, r)[i].buffers : i \in DOMAIN Texts(e, r)} :
             e \in Named, r \in BOOLEAN}

\* snprintf returned less than the size of the buffer.
Fits(c) == c.length < c.size

\* The caller goes on to the next text.
Accepted(c) == c.checked => Fits(c)

\* The buffers whose texts the request for e carries.
Carried(e, refs) ==
    LET calls == {Texts(e, refs)[i] : i \in DOMAIN Texts(e, refs)} IN
    UNION {c.buffers : c \in calls} \ UNION {c.quotes : c \in calls}

\* The text that call c leaves in its buffers when they are as in text.
Written(e, c, text) ==
    [of |-> {e} \cup UNION {text[b].of : b \in c.quotes},
     cut |-> ~ (c.length < c.size) \/ \E b \in c.quotes: text[b].cut]
=============================================================================
