---------------------------- MODULE MCKadNode ----------------------------
(* Eight environments, each busy in its own corner of the node.            *)
EXTENDS KadNode
Budget(f) == [k \in Kinds |-> IF k \in DOMAIN f THEN f[k] ELSE 0]
AllBudgets ==
    {Budget([ident |-> 1, control |-> 2, gc |-> 1]),
     Budget([control |-> 1, query |-> 2, gc |-> 1]),
     Budget([bootstrap |-> 2, timer |-> 1, close |-> 1]),
     Budget([request |-> 2, control |-> 1]),
     Budget([request |-> 1, control |-> 2]),
     Budget([request |-> 1, control |-> 1, timer |-> 1]),
     Budget([bootstrap |-> 1, addrs |-> 1]),
     Budget([conn |-> 3])}
\* Without what no step reads.
View == <<tableVars, storeVars, refreshing, queries, walk, bootstraps, chanVars, envVars, connected_peers, local_addrs, checks, asked>>
==========================================================================
