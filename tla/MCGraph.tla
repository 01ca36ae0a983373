------------------------------ MODULE MCGraph ------------------------------
(***************************************************************************)
(* Graph with one thread that asks, and graphs that have two nodes of the  *)
(* same name, a topic with two types, a node with two publishers on a      *)
(* topic, and a string longer than temp_string.  Of their names the        *)
(* namespace is short enough to be answered in full when there are two.    *)
(***************************************************************************)
EXTENDS Graph, TLC

Is(kind, name, types) == [kind |-> kind, name |-> name, types |-> types]

Talker == [name |-> "talker", namespace |-> "/", entities |->
             << Is("publisher", "chatter", <<"String">>),
                Is("publisher", "chatter", <<"Int", "Long">>),
                Is("service", "add", <<"Add">>) >>]
Listener == [name |-> "talker", namespace |-> "/", entities |->
               << Is("subscriber", "chatter", <<"String">>),
                  Is("client", "add", <<"Add">>),
                  Is("publisher", "log", <<"Log">>) >>]
LongNode == [name |-> "long", namespace |-> "/", entities |-> <<>>]

Few == << Talker >>
Many == << Listener, Talker >>
Long == << LongNode, Talker >>
AllGraphs == {<<>>, Few, Many, Long}

Lengths == [s \in {"talker", "chatter", "log", "add", "String", "Int", "Long",
                   "Add", "Log"} |-> 6] @@ ("/" :> 1) @@ ("long" :> 300)

AllQueries ==
    {[ask |-> a] : a \in {"topics", "services", "nodes"}}
    \cup {[ask |-> a, kind |-> k, topic |-> "chatter"] :
            a \in {"count", "endpoints"}, k \in {"publisher", "subscriber"}}
    \cup {[ask |-> "matched", kind |-> "publisher", topic |-> "chatter"]}
    \cup {[ask |-> "by_node", kind |-> k, name |-> n, namespace |-> "/"] :
            k \in {"publisher", "client"}, n \in {"talker", "nobody"}}
=============================================================================
