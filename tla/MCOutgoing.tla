----------------------------- MODULE MCOutgoing -----------------------------
(***************************************************************************)
(* Outgoing on small instances, with the default sizes of the texts.       *)
(***************************************************************************)
EXTENDS Outgoing, TLC

CONSTANTS
    chatter, scan, ask, answer,     \* two publishers, a client, a service
    node, topic, longTopic, server, caller, graph   \* creations

Roles == (chatter :> "publisher") @@ (scan :> "publisher")
         @@ (ask :> "client") @@ (answer :> "service")
StreamsOf == (chatter :> "reliable") @@ (scan :> "best_effort")
             @@ (ask :> "reliable") @@ (answer :> "best_effort")

\* The name of node is too long and that of longTopic is one character too
\* long for its buffer; those of the services just fit. The XML of services,
\* clients and the graph does not fit the default buffer of 100 characters.
KindsOf == (node :> "node") @@ (topic :> "topic") @@ (longTopic :> "topic")
           @@ (server :> "service") @@ (caller :> "client") @@ (graph :> "graph_topic")
NameLens == (node :> 70) @@ (topic :> 57) @@ (longTopic :> 58)
            @@ (server :> 50) @@ (caller :> 50) @@ (graph :> 21)
TypeLens == (node :> 0) @@ (topic :> 30) @@ (longTopic :> 30)
            @@ (server :> 40) @@ (caller :> 40) @@ (graph :> 33)
=============================================================================
