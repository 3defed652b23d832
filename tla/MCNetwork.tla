----------------------------- MODULE MCNetwork -----------------------------
(* Instances of Network for TLC. *)
EXTENDS Network

\* The node with the smallest address has the highest metric; the others tie.
MCMetric == [n \in Addr |-> IF n = 1 THEN 2 ELSE 1]

\* All within range.
MCMesh == {l \in Addr \X Addr : l[1] # l[2]}

\* The best node is within range of one of the three others only.
MCPendant == {l \in MCMesh : l \notin {<<1, 3>>, <<3, 1>>, <<1, 4>>, <<4, 1>>}}
=============================================================================
