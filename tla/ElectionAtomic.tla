--------------------------- MODULE ElectionAtomic ---------------------------
(***************************************************************************)
(* What awdl_election_run promises its callers: in one step our election   *)
(* state becomes the outcome of the election over the current peer table.  *)
(* In between the table changes as frames arrive and peers time out.       *)
(***************************************************************************)
EXTENDS Election

CONSTANTS
  Self,        \* our own address
  SelfMetric,  \* our self_metric (AWDL_ELECTION_METRIC_INIT)
  SelfCounter, \* our self_counter (AWDL_ELECTION_COUNTER_INIT)
  PeerRecords  \* the peer records the environment can put into the table

VARIABLES peers, own

Others == Addr \ {Self}

Reset == ResetSelf(Self, SelfMetric, SelfCounter)

Init == peers = EmptyTable /\ own = Reset

\* A frame from p creates or rewrites its entry.
SetPeer(p, rec) ==
  /\ peers' = [a \in DOMAIN peers \cup {p} |-> IF a = p THEN rec ELSE peers[a]]
  /\ own' = own

\* The entry of p times out.
DropPeer(p) ==
  /\ peers' = [a \in DOMAIN peers \ {p} |-> peers[a]]
  /\ own' = own

Elect ==
  /\ Elected(Self, Reset, peers, own')
  /\ peers' = peers

Next ==
  \/ \E p \in Others, rec \in PeerRecords : SetPeer(p, rec)
  \/ \E p \in DOMAIN peers : DropPeer(p)
  \/ Elect

Spec == Init /\ [][Next]_<<peers, own>>
=============================================================================
