------------------------------- MODULE Catalog -------------------------------
(***************************************************************************)
(* What the creation and destruction of nodes and their entities promises: *)
(* a call that creates either adds one thing or changes nothing, an entity *)
(* belongs to a node that lives, and a node is removed after its entities. *)
(* EntityLifecycle implements this specification.                          *)
(***************************************************************************)
CONSTANTS Nodes, Entities

VARIABLES
    live,       \* nodes and entities the application has
    ownerOf     \* ownerOf[e]: the node of the entity e, for every live entity

cvars == <<live, ownerOf>>

Init == live = {} /\ ownerOf = [e \in {} |-> e]

\* The node of an entity never changes while the entity lives.
OwnersKept == \A e \in DOMAIN ownerOf \cap live': ownerOf'[e] = ownerOf[e]

AddNode(n) ==
    /\ n \notin live
    /\ live' = live \cup {n}
    /\ DOMAIN ownerOf' = live \cap Entities /\ OwnersKept

AddEntity(e) ==
    /\ e \notin live
    /\ live' = live \cup {e}
    /\ DOMAIN ownerOf' = live' \cap Entities /\ OwnersKept
    /\ ownerOf'[e] \in live \cap Nodes

Remove(x) ==
    /\ x \in live
    /\ \A e \in live \cap Entities: ownerOf[e] # x
    /\ live' = live \ {x}
    /\ DOMAIN ownerOf' = live' \cap Entities /\ OwnersKept

Next ==
    \/ \E n \in Nodes: AddNode(n) \/ Remove(n)
    \/ \E e \in Entities: AddEntity(e) \/ Remove(e)

CatalogSpec == Init /\ [][Next]_cvars
=============================================================================
