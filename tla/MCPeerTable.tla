----------------------------- MODULE MCPeerTable -----------------------------
(* Instances of PeerTable for TLC. *)
EXTENDS PeerTable

\* Node 2 wins by its address, and node 0 when it advertises its metric.
MCAdvertised ==
  [a \in Addr |->
    IF a = 0 THEN {ResetSelf(0, SelfMetric + 1, SelfCounter)}
    ELSE {}]

MCVersions == {<<1, 1>>}
=============================================================================
