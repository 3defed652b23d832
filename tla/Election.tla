------------------------------ MODULE Election ------------------------------
(***************************************************************************)
(* Master election (src/src/election.c): what one election decides.        *)
(*                                                                         *)
(* A node keeps an election state for itself and one per peer, filled from *)
(* the peer's advertisements.  awdl_election_run compares them and adopts  *)
(* the best one as its synchronisation master.  This module states the     *)
(* outcome declaratively, as the best candidate of the table; ElectionRun  *)
(* has the loop of the code, and Election_proofs shows that the loop       *)
(* computes this outcome whatever the iteration order of the hash table.   *)
(*                                                                         *)
(* An address is a natural number: memcmp orders addresses totally and     *)
(* nothing else about them matters.  The self_addr of an election state is *)
(* the key it is stored under.                                             *)
(***************************************************************************)
EXTENDS Naturals

CONSTANTS
  Addr,        \* link-layer addresses
  MAX_HEIGHT,  \* AWDL_ELECTION_TREE_MAX_HEIGHT
  UINT32       \* modulus of uint32_t (scaled down by the runs)

ASSUME AddrAssumption == Addr \subseteq Nat
ASSUME HeightAssumption == /\ MAX_HEIGHT \in Nat
                           /\ UINT32 \in Nat
                           /\ MAX_HEIGHT < UINT32

ElectionState ==
  [height : 0 .. UINT32 - 1, master_addr : Addr, sync_addr : Addr,
   master_metric : Nat, master_counter : Nat]

\* A node that is its own master.  The code never changes self_metric and
\* self_counter after awdl_election_state_init, so they are parameters.
ResetSelf(n, metric, counter) ==
  [height |-> 0, master_addr |-> n, sync_addr |-> n,
   master_metric |-> metric, master_counter |-> counter]

\* height + 1 is computed in uint32_t.
Succ(height) == (height + 1) % UINT32

\* awdl_election_compare_master: counter first, then metric.
HigherMaster(a, b) ==
  \/ a.master_counter > b.master_counter
  \/ a.master_counter = b.master_counter /\ a.master_metric > b.master_metric

SameMaster(a, b) ==
  a.master_counter = b.master_counter /\ a.master_metric = b.master_metric

\* Node p with election state ps wins over node m with election state ms.
Preferred(p, ps, m, ms) ==
  \/ HigherMaster(ps, ms)
  \/ /\ SameMaster(ps, ms)
     /\ \/ ps.height < ms.height
        \/ ps.height = ms.height /\ p > m

\* Wrong: the check of the height is missing.
EligibleAnyHeight(n, peer) ==
  peer.is_valid /\ peer.election.sync_addr # n

\* The three rejections that do not depend on the best candidate so far.
Eligible(n, peer) ==
  /\ peer.is_valid
  /\ Succ(peer.election.height) <= MAX_HEIGHT
  /\ peer.election.sync_addr # n

-----------------------------------------------------------------------------
EmptyTable == [p \in {} |-> 0]

(* The outcome of an election of node n whose reset state is own, among    *)
(* the peers of table tab (a function from addresses to peers).            *)

Candidates(n, tab) == {n} \cup {p \in DOMAIN tab : Eligible(n, tab[p])}

StateOf(n, own, tab, c) == IF c = n THEN own ELSE tab[c].election

IsBest(n, own, tab, b) ==
  /\ b \in Candidates(n, tab)
  /\ \A c \in Candidates(n, tab) \ {b} :
       Preferred(b, StateOf(n, own, tab, b), c, StateOf(n, own, tab, c))

\* Wrong: the sync master is taken for the master.
AdoptNeighbor(n, own, tab, b) ==
  IF b = n THEN own
  ELSE [height         |-> Succ(tab[b].election.height),
        master_addr    |-> b,
        sync_addr      |-> b,
        master_metric  |-> tab[b].election.master_metric,
        master_counter |-> tab[b].election.master_counter]

\* Adoption of the winner b as sync master; nothing to adopt when it is n.
Adopt(n, own, tab, b) ==
  IF b = n THEN own
  ELSE [height         |-> Succ(tab[b].election.height),
        master_addr    |-> tab[b].election.master_addr,
        sync_addr      |-> b,
        master_metric  |-> tab[b].election.master_metric,
        master_counter |-> tab[b].election.master_counter]

\* new is what the election makes of the reset state own.  There is at most
\* one best candidate, and the loop of the code ends with it: see
\* WinnerUnique and LoopResult in Election_proofs.
Elected(n, own, tab, new) ==
  \E b \in Candidates(n, tab) :
    IsBest(n, own, tab, b) /\ new = Adopt(n, own, tab, b)
=============================================================================
