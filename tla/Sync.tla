-------------------------------- MODULE Sync --------------------------------
(***************************************************************************)
(* Nodes that follow each other's clocks.  A path of the sync tree is a    *)
(* chain: node 0 at the top, node i hops below it.  A node puts the time   *)
(* left in its EAW and its window number into every action frame           *)
(* (src/src/tx.c), and awdl_handle_sync_params_tlv (src/src/rx.c) sets the *)
(* clock of the node below from them.  The nodes' clocks run at one speed  *)
(* but were started at different times; a frame is handled up to MaxDelay  *)
(* after its fields were computed; frames are lost at will.  The rules of  *)
(* TxSchedule tell each node when to send, by its own clock.               *)
(***************************************************************************)
EXTENDS TxSchedule

CONSTANTS
  Hops,      \* length of the chain
  Ahead,     \* Ahead[i]: how long node i has been running at the start
  MaxDelay,  \* bound: from computing the fields to handling them
  MaxTime,   \* bound: length of a behaviour
  MaxMoves,  \* bound: how often the clock of node 0 is set
  Nexts,     \* times to the next EAW that a new master of node 0 advertises
  Counters   \* window numbers that it advertises

\* How much a hop can lag: the delay of the frame and the fraction of a TU
\* that awdl_sync_next_aw_tu cuts off.
MaxLag == MaxDelay + TU - 1

\* The time left in an EAW fits in 16 bits, and the guards are wider than the
\* lag of the whole chain.
ASSUME ChainAssumption ==
  /\ Hops \in Nat /\ Ahead \in [0 .. Hops -> 0 .. U64 - 1]
  /\ MaxDelay \in Nat /\ MaxTime \in Nat /\ MaxMoves \in Nat
  /\ Nexts \subseteq 0 .. U16 - 1 /\ Counters \subseteq 0 .. U16 - 1
  /\ EawTu < U16
  /\ Hops * MaxLag < TU * UnicastGuard
  /\ Hops * MaxLag < TU * MulticastGuard

VARIABLES
  now,      \* time since the start
  sync,     \* the sync state of each node
  air,      \* the frame on its way to each node, or none
  synced,   \* history: this node's clock comes, over the nodes above it, from
            \* the present clock of node 0
  moves     \* how often the clock of node 0 was set

vars == <<now, sync, air, synced, moves>>

Node == 0 .. Hops
Clock(i) == now + Ahead[i]
NoFrame == [next |-> 0, aw |-> 0, age |-> -1, fresh |-> FALSE]

\* Node 0 was set by another node, the others ran awdl_sync_state_init.
Init ==
  /\ now = 0
  /\ \E aw \in Counters :
       sync = [i \in Node |->
                 IF i = 0 THEN UpdateLast(Clock(0), EawTu, aw)
                 ELSE [last_update |-> Clock(i), aw_counter |-> 0]]
  /\ air = [i \in Node |-> NoFrame]
  /\ synced = [i \in Node |-> i = 0]
  /\ moves = 0

\* Time passes; what is not handled within MaxDelay was lost.
Tick ==
  /\ now < MaxTime
  /\ now' = now + 1
  /\ air' = [i \in Node |-> IF air[i].age \in 0 .. MaxDelay - 1
                            THEN [air[i] EXCEPT !.age = @ + 1] ELSE NoFrame]
  /\ UNCHANGED <<sync, synced, moves>>

\* awdl_init_sync_params_tlv: node i computes the fields of a frame, which
\* takes the place of one that node i + 1 never got.
SendAction(i) ==
  /\ i < Hops
  /\ air' = [air EXCEPT ![i + 1] =
               [next |-> NextAwTu(Clock(i), sync[i]),
                aw |-> CurrentAw(Clock(i), sync[i]),
                age |-> 0, fresh |-> synced[i]]]
  /\ UNCHANGED <<now, sync, synced, moves>>

\* awdl_handle_sync_params_tlv: node i handles the frame.  The error against
\* the old clock is only counted (meas_err) and logged.
HandleSyncParams(i) ==
  /\ air[i] # NoFrame
  /\ sync' = [sync EXCEPT ![i] = UpdateLast(Clock(i), air[i].next, air[i].aw)]
  /\ synced' = [synced EXCEPT ![i] = air[i].fresh]
  /\ air' = [air EXCEPT ![i] = NoFrame]
  /\ UNCHANGED <<now, moves>>

\* Node 0 follows another node from now on, and its clock jumps.
MasterMoves(next, aw) ==
  /\ moves < MaxMoves
  /\ moves' = moves + 1
  /\ sync' = [sync EXCEPT ![0] = UpdateLast(Clock(0), next, aw)]
  /\ synced' = [i \in Node |-> i = 0]
  /\ air' = [i \in Node |-> [air[i] EXCEPT !.fresh = FALSE]]
  /\ UNCHANGED now

Next ==
  \/ Tick
  \/ \E i \in Node : SendAction(i) \/ HandleSyncParams(i)
  \/ \E next \in Nexts, aw \in Counters : MasterMoves(next, aw)

Spec == Init /\ [][Next]_vars

-----------------------------------------------------------------------------
SyncState == [last_update : 0 .. U64 - 1, aw_counter : 0 .. U16 - 1]

\* Type invariant.
TypeOK ==
  /\ now \in 0 .. MaxTime
  /\ sync \in [Node -> SyncState]
  /\ air \in [Node -> [next : 0 .. EawTu, aw : 0 .. U16 - 1,
                       age : -1 .. MaxDelay, fresh : BOOLEAN]]
  /\ synced \in [Node -> BOOLEAN]
  /\ moves \in 0 .. MaxMoves

\* Where in the channel sequence a clock is: the EAW, and the time left in it.
Position(t, s) == <<CurrentEaw(t, s), NextAwUs(t, s)>>

\* The sync parameters hand the clock down the tree: a node i hops below node
\* 0 is where node 0 was at most i lags ago, and stays so without further
\* frames, however the frames of the hops interleave, across wrap-arounds of
\* the 16 bit window counter and underflows of last_update right after boot.
Aligned ==
  \A i \in Node : synced[i] =>
    \E lag \in 0 .. i * MaxLag :
      Position(Clock(i), sync[i]) = Position(Clock(0) - lag, sync[0])

\* What awdl_send_unicast and awdl_send_multicast send by the clock of one
\* node is heard by the clock of another: when awdl_can_send_unicast_in lets a
\* node send, the other one is in a slot on the shared channel, too, and when
\* awdl_send_multicast sends, the other one is in a multicast slot.
Heard ==
  \A i, j \in Node : synced[i] /\ synced[j] =>
    /\ \A common \in Common :
         CanSendUnicastIn(Clock(i), sync[i], common, UnicastGuard) = 0
           => SameChannel(Clock(j), sync[j], common)
    /\ MulticastDelay(Clock(i), sync[i]) = 0 => IsMulticastEaw(Clock(j), sync[j])

\* The error awdl_sync_error_tu reports for a master that we already follow is
\* no more than the lag, up to a cycle of the window counter: at a wrap-around
\* it is off by a whole cycle, which only the statistics see.
ErrorIsLag ==
  [][\A i \in Node :
       HandleSyncParams(i) /\ synced[i] /\ air[i].fresh =>
         LET cycle == (U16 \div Presence) * EawTu
             bound == (i * MaxLag) \div TU + 1
             error == ErrorTu(Clock(i), air[i].next, air[i].aw, sync[i])
         IN  \E e \in -bound .. bound : (error - e) % cycle = 0]_vars
=============================================================================
