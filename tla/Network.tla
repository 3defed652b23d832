------------------------------ MODULE Network ------------------------------
(***************************************************************************)
(* Several nodes that run the daemon, some of them out of range of each    *)
(* other: the synchronisation tree that their elections build.             *)
(*                                                                         *)
(* A node is the election part of module PeerTable, reduced to the peers   *)
(* it has found valid: it hears the election parameters another node       *)
(* broadcasts (awdl_send_psf, awdl_send_mif; awdl_rx_action), and its peer *)
(* timer removes the peers it has not heard for too long and elects        *)
(* (awdl_clean_peers).  Broadcasts are unreliable: any node may miss any   *)
(* of them, which is a Hear that does not happen, and a node that misses   *)
(* many in a row is forgotten although it is there (a lapse).              *)
(***************************************************************************)
EXTENDS Election, FiniteSetsExt

CONSTANTS
  Links,       \* pairs of nodes that are within range of each other
  Metric,      \* Addr -> Nat: self_metric (devices of others use their own)
  MaxLeaves,   \* bound: departures and returns of nodes
  MaxLapses    \* bound: removals of a peer that is still there

ASSUME NetworkAssumption ==
  /\ Links \subseteq Addr \X Addr
  /\ \A l \in Links : l[1] # l[2] /\ <<l[2], l[1]>> \in Links
  /\ Metric \in [Addr -> Nat]
  /\ MaxLeaves \in Nat /\ MaxLapses \in Nat
  /\ MAX_HEIGHT + 1 < UINT32

VARIABLES
  here,      \* nodes that are switched on
  election,  \* election state of each node
  heard,     \* heard[n]: n's peer table, address -> peer
  leaves, lapses

netVars == <<here, election, heard, leaves, lapses>>

ResetNode(n) == ResetSelf(n, Metric[n], 0)

NetworkInit ==
  /\ here = Addr
  /\ election = [n \in Addr |-> ResetNode(n)]
  /\ heard = [n \in Addr |-> EmptyTable]
  /\ leaves = 0 /\ lapses = 0

\* The nodes n is connected to, each with the number of hops to it.
Distances(n) ==
  LET R[k \in 0 .. Cardinality(Addr)] ==
        IF k = 0 THEN {n}
        ELSE R[k - 1] \cup {m \in here : \E l \in R[k - 1] : <<l, m>> \in Links}
  IN  [m \in R[Cardinality(Addr)] |->
         CHOOSE k \in 0 .. Cardinality(Addr) :
           m \in R[k] /\ (k > 0 => m \notin R[k - 1])]

\* All have heard those within range and follow the node b: the state that
\* Converges is about, as a start for what happens when b leaves.
Settled(b) ==
  LET distance == Distances(b)
      Above(n) == {m \in Addr : <<n, m>> \in Links /\ distance[m] = distance[n] - 1}
      settled == [n \in Addr |->
        IF n = b THEN ResetNode(b)
        ELSE [ResetNode(b) EXCEPT !.height = distance[n], !.sync_addr = Max(Above(n))]]
  IN  /\ election = settled
      /\ heard = [n \in Addr |->
                    [a \in {m \in Addr : <<n, m>> \in Links} |->
                       [is_valid |-> TRUE, election |-> settled[a]]]]

\* n receives a frame with the election parameters of m.
Hear(n, m) ==
  /\ <<n, m>> \in Links /\ {n, m} \subseteq here
  /\ LET peer == [is_valid |-> TRUE, election |-> election[m]]
     IN  heard' = [heard EXCEPT ![n] =
           [a \in DOMAIN heard[n] \cup {m} |-> IF a = m THEN peer ELSE heard[n][a]]]
  /\ UNCHANGED <<here, election, leaves, lapses>>

\* Wrong: the election runs, but nothing is removed.
CleanPeersKeeps(n, gone) ==
  /\ n \in here /\ gone \subseteq DOMAIN heard[n]
  /\ lapses + Cardinality(gone \cap here) <= MaxLapses
  /\ \E b \in Candidates(n, heard[n]) :
       /\ IsBest(n, ResetNode(n), heard[n], b)
       /\ election' = [election EXCEPT ![n] = Adopt(n, ResetNode(n), heard[n], b)]
  /\ lapses' = lapses + Cardinality(gone \cap here)
  /\ UNCHANGED <<here, heard, leaves>>

\* The peer timer of n removes the peers in gone and elects.
CleanPeers(n, gone) ==
  /\ n \in here /\ gone \subseteq DOMAIN heard[n]
  /\ lapses + Cardinality(gone \cap here) <= MaxLapses
  /\ LET left == [a \in DOMAIN heard[n] \ gone |-> heard[n][a]]
     IN  /\ heard' = [heard EXCEPT ![n] = left]
         /\ \E b \in Candidates(n, left) :
              /\ IsBest(n, ResetNode(n), left, b)
              /\ election' = [election EXCEPT ![n] = Adopt(n, ResetNode(n), left, b)]
  /\ lapses' = lapses + Cardinality(gone \cap here)
  /\ UNCHANGED <<here, leaves>>

\* A node is switched off, or on again with nothing kept.
Leave(n) ==
  /\ n \in here /\ leaves < MaxLeaves
  /\ here' = here \ {n} /\ leaves' = leaves + 1
  /\ UNCHANGED <<election, heard, lapses>>

Enter(n) ==
  /\ n \notin here /\ leaves < MaxLeaves
  /\ here' = here \cup {n} /\ leaves' = leaves + 1
  /\ election' = [election EXCEPT ![n] = ResetNode(n)]
  /\ heard' = [heard EXCEPT ![n] = EmptyTable]
  /\ UNCHANGED lapses

\* Everything that is gone is removed by the same sweep.
Sweep(n) == CleanPeers(n, DOMAIN heard[n] \ here)

NetworkNext ==
  \/ \E l \in Links : Hear(l[1], l[2])
  \/ \E n \in Addr : \E gone \in SUBSET DOMAIN heard[n] : CleanPeers(n, gone)
  \/ \E n \in Addr : Leave(n) \/ Enter(n)

\* Every node broadcasts for ever and not all of it is lost; every peer timer
\* keeps firing, and the silence of a node that is gone exceeds the timeout.
Fairness ==
  /\ \A l \in Links : WF_netVars(Hear(l[1], l[2]))
  /\ \A n \in Addr : WF_netVars(Sweep(n))

NetworkSpec == NetworkInit /\ [][NetworkNext]_netVars

\* The best of the nodes in area wins over all others by its own parameters.
\* Between equal metrics the shorter tree wins, and the shortest is one's own:
\* a master that wins by its address alone is followed one hop far.
Best(b, area) ==
  \A m \in area \ {b} : Preferred(b, ResetNode(b), m, ResetNode(m))

Followed(b, area) ==
  IF \A m \in area \ {b} : HigherMaster(ResetNode(b), ResetNode(m))
  THEN Cardinality(area) ELSE 1

\* Two ways to begin, each with a budget of its own: all are switched on at
\* once; all follow the best node, and then either some leave and return or
\* one is forgotten although it is there.
StartInit ==
  /\ here = Addr
  /\ \/ /\ election = [n \in Addr |-> ResetNode(n)]
        /\ heard = [n \in Addr |-> EmptyTable]
        /\ leaves = MaxLeaves /\ lapses = MaxLapses
     \/ /\ \E b \in Addr : Best(b, Addr) /\ Settled(b)
        /\ \/ leaves = 0 /\ lapses = MaxLapses
           \/ leaves = MaxLeaves /\ lapses = 0

StartSpec == StartInit /\ [][NetworkNext]_netVars /\ Fairness

-----------------------------------------------------------------------------
\* No node hangs lower in the tree than MAX_HEIGHT, and a node is at height 0
\* exactly when it is its own master: also while news of a master that has
\* left is passed around.
HeightsFit ==
  \A n \in Addr : /\ election[n].height <= MAX_HEIGHT
                  /\ election[n].height = 0 <=> election[n].sync_addr = n

\* Nobody is worse off than alone: whoever a node follows, the master at the
\* top outranks the node's own parameters, or ties with them and is its direct
\* neighbour with the greater address, and what the node tells others of this
\* master are the master's own parameters, over however many hops and from
\* whatever stale tables they came.
NeverWorse ==
  \A n \in Addr :
    /\ SameMaster(election[n], ResetNode(election[n].master_addr))
    /\ election[n].sync_addr # n =>
         \/ HigherMaster(election[n], ResetNode(n))
         \/ /\ SameMaster(election[n], ResetNode(n))
            /\ election[n].height = 1 /\ election[n].sync_addr > n

\* The comment at election.c:88, "reject: do not allow cycles in sync tree":
\* no set of nodes that are there synchronise only among themselves.
NoCycle ==
  \A C \in SUBSET here \ {{}} :
    \E n \in C : election[n].sync_addr = n \/ election[n].sync_addr \notin C

\* All nodes that are connected follow the best of them, over the shortest way.
Agreed ==
  \A b \in here :
    LET distance == Distances(b)
        area == DOMAIN distance
    IN  Best(b, area) =>
          /\ election[b] = ResetNode(b)
          /\ \A n \in area \ {b} : distance[n] <= Followed(b, area) =>
               /\ election[n].master_addr = b
               /\ election[n].height = distance[n]
               /\ election[n].sync_addr \in area
               /\ distance[election[n].sync_addr] = distance[n] - 1

\* Once nodes stop leaving and lapsing, those that are connected agree on the
\* best of them and follow it over the shortest way; the height limit ends
\* the circulation of the parameters of a master that is gone.
Converges == <>[]Agreed
=============================================================================
