------------------------------ MODULE PeerTable ------------------------------
(***************************************************************************)
(* The peer table of the daemon and everything that writes to it:          *)
(*                                                                         *)
(*   src/src/rx.c       awdl_rx_action and the handlers of its TLVs        *)
(*   src/src/peers.c    awdl_peer_add, awdl_peers_remove                   *)
(*   src/daemon/core.c  awdl_clean_peers (with the election it triggers),  *)
(*                      awdl_neighbor_add, awdl_neighbor_remove            *)
(*                                                                         *)
(* The daemon is single threaded: a callback of the event loop runs to its *)
(* end before the next one starts.  The reception of one action frame is   *)
(* split into the steps of its TLV loop because every TLV may fail and     *)
(* leave the entry half updated; rx says which frame is being handled and  *)
(* no other callback runs before it is "none" again.                       *)
(*                                                                         *)
(* Time is counted in units of the cleaning interval's resolution.  Only   *)
(* the difference between now and a peer's last_update is ever looked at,  *)
(* so an entry has its age, which saturates right above the timeout.       *)
(***************************************************************************)
EXTENDS Election, Integers

CONSTANTS
  Self,           \* our own address
  SelfMetric,     \* AWDL_ELECTION_METRIC_INIT
  SelfCounter,    \* AWDL_ELECTION_COUNTER_INIT
  Timeout,        \* peers.timeout
  CleanInterval,  \* peers.clean_interval
  MaxTlvs,        \* bound: TLVs in one frame
  Refusable,      \* addresses whose neighbor entry netlink may refuse
  Advertised,     \* election states that each node can advertise in a TLV
  Versions        \* <<version, devclass>> pairs of a version TLV

ASSUME PeerTableAssumption ==
  /\ Self \in Addr
  /\ SelfMetric \in Nat /\ SelfCounter \in Nat
  /\ Timeout \in Nat /\ CleanInterval \in Nat /\ MaxTlvs \in Nat
  /\ Refusable \subseteq Addr
  /\ Advertised \in [Addr -> SUBSET ElectionState]
  /\ Versions \subseteq Nat \X Nat

VARIABLES
  peers,   \* the table: address -> struct awdl_peer
  neigh,   \* the kernel's neighbor table: addresses with an entry
  failed,  \* history: addresses whose last neighbor_add or _remove failed, or
           \* was not made because the map lost the entry
  own,     \* our struct awdl_election_state
  clock,   \* the node our clock was last set from (Self: free running)
  rx,      \* the action frame being handled, or none
  clean,   \* time until the peer timer fires
  up,      \* time since boot, saturating at Timeout (CLOCK_MONOTONIC)
  mifs,    \* history: nodes that have had a MIF handled to its end since they
           \* are in the table
  orphan,  \* history: the map lost our sync master since the last election
  quiet    \* history: time since a frame of each node was last taken

history == <<mifs, orphan, quiet>>

vars == <<peers, neigh, failed, own, clock, rx, clean, up, mifs, orphan, quiet>>

-----------------------------------------------------------------------------
Others == Addr \ {Self}

Reset == ResetSelf(Self, SelfMetric, SelfCounter)

\* awdl_peer_new: the election state of a new entry is that of a node of its
\* own, with our initial metric.
PeerNew(a) ==
  [election |-> ResetSelf(a, SelfMetric, SelfCounter),
   version |-> 0, devclass |-> 0, supports_v2 |-> FALSE,
   sent_mif |-> FALSE, is_valid |-> FALSE, age |-> 0]

\* awdl_peer_is_valid
Complete(peer) == peer.sent_mif /\ peer.devclass # 0 /\ peer.version # 0

\* Function update that may extend the domain (hashmap_put).
Put(tab, a, peer) ==
  [b \in DOMAIN tab \cup {a} |-> IF b = a THEN peer ELSE tab[b]]

Lookup(a) == IF a \in DOMAIN peers THEN peers[a] ELSE PeerNew(a)

\* awdl_peer_add on an entry: it is fresh, and valid once complete.
Refreshed(peer) ==
  [peer EXCEPT !.age = 0, !.is_valid = @ \/ Complete(peer)]

\* What netlink does with the calls for some addresses, of which it performs
\* those in done and refuses the others; the callbacks ignore the result.
Netlink(calls, done) ==
  /\ calls \ done \subseteq Refusable
  /\ failed' = (failed \ done) \cup (calls \ done)

\* neighbor_add_rfc4291: without NLM_F_EXCL an entry that exists is kept.
NeighborAdd(calls) ==
  \E done \in SUBSET calls : Netlink(calls, done) /\ neigh' = neigh \cup done

\* neighbor_remove_rfc4291: an entry that does not exist stays away.
NeighborRemove(calls) ==
  \E done \in SUBSET calls : Netlink(calls, done) /\ neigh' = neigh \ done

\* Wrong: only an entry that is new can turn valid.
PeerAddCallsForNew(a, peer) ==
  /\ peers' = Put(peers, a, Refreshed(peer))
  /\ NeighborAdd(IF a \notin DOMAIN peers /\ Complete(peer) THEN {a} ELSE {})

\* awdl_peer_add, with the callback awdl_neighbor_add when the peer has just
\* turned valid.
PeerAdd(a, peer) ==
  /\ peers' = Put(peers, a, Refreshed(peer))
  /\ NeighborAdd(IF ~peer.is_valid /\ Complete(peer) THEN {a} ELSE {})

\* awdl_peer_add for a node without an entry when hashmap_put runs out of
\* memory: the node gets none, and a rehash that stops half way loses some of
\* the others, for which nothing calls back (PutFails of module PeerMap).
PeerAddFails(a) ==
  /\ a \notin DOMAIN peers
  /\ \E gone \in SUBSET DOMAIN peers :
       /\ peers' = [b \in DOMAIN peers \ gone |-> peers[b]]
       /\ failed' = failed \cup {b \in gone : peers[b].is_valid}
       /\ orphan' = (orphan \/ own.sync_addr \in gone)
       /\ mifs' = mifs \ gone
  /\ UNCHANGED neigh

-----------------------------------------------------------------------------
NoFrame == [src |-> Self, mif |-> FALSE, tlvs |-> 0]

Idle == rx = NoFrame

Init ==
  /\ peers = EmptyTable
  /\ neigh = {} /\ failed = {}
  /\ own = Reset
  /\ clock = Self
  /\ rx = NoFrame
  /\ clean = CleanInterval
  /\ up \in 0 .. Timeout
  /\ mifs = {} /\ orphan = FALSE
  /\ quiet = [a \in Others |-> Timeout + 1]

\* The received signal: above the threshold, above it only thanks to the
\* grace for known peers.  A weaker frame is ignored without any effect, as
\* is a frame from ourselves or with another action header.
RssiClasses == {"strong", "grace"}

\* Wrong: the TLVs are handled without an entry for the peer.
RxBeginWithoutAdd(src, mif, rssi) ==
  /\ Idle
  /\ rssi = "grace" => src \in DOMAIN peers
  /\ rx' = [src |-> src, mif |-> mif, tlvs |-> MaxTlvs]
  /\ quiet' = [quiet EXCEPT ![src] = 0]
  /\ UNCHANGED <<peers, neigh, failed, own, clock, clean, up, mifs, orphan>>

\* Wrong: a MIF counts before its TLVs are handled.
RxBeginCountsMif(src, mif, rssi) ==
  /\ Idle
  /\ rssi = "grace" => src \in DOMAIN peers
  /\ PeerAdd(src, [Lookup(src) EXCEPT !.sent_mif = @ \/ mif])
  /\ rx' = [src |-> src, mif |-> mif, tlvs |-> MaxTlvs]
  /\ quiet' = [quiet EXCEPT ![src] = 0]
  /\ UNCHANGED <<own, clock, clean, up, mifs, orphan>>

\* awdl_rx_action up to the TLV loop: RSSI filter, first awdl_peer_add.  The
\* entry is then found (module Hashmap); were it not, as the comment at
\* rx.c:290 says, the return would have the effect of RxBadFrame.
RxBegin(src, mif, rssi) ==
  /\ Idle
  /\ rssi = "grace" => src \in DOMAIN peers
  /\ PeerAdd(src, Lookup(src))
  /\ rx' = [src |-> src, mif |-> mif, tlvs |-> MaxTlvs]
  /\ quiet' = [quiet EXCEPT ![src] = 0]
  /\ UNCHANGED <<own, clock, clean, up, mifs, orphan>>

\* The same when there is no memory for the entry: the frame is ignored.
RxNoEntry(src) ==
  /\ Idle
  /\ PeerAddFails(src)
  /\ UNCHANGED <<own, clock, rx, clean, up, quiet>>

\* A TLV of the frame has been handled and the loop goes on.
NextTlv ==
  /\ rx.src # Self
  /\ rx.tlvs > 0
  /\ rx' = [rx EXCEPT !.tlvs = @ - 1]
  /\ UNCHANGED <<neigh, failed, own, clean, up, history>>

\* A TLV could not be parsed: the frame is given up, what was written stays.
Fail ==
  /\ rx.src # Self
  /\ rx' = NoFrame
  /\ UNCHANGED <<neigh, failed, own, clock, clean, up, history>>

SetEntry(peer) == peers' = [peers EXCEPT ![rx.src] = peer]

\* Wrong: every peer sets our clock.
RxSyncParamsFromAnyone ==
  /\ NextTlv
  /\ clock' = rx.src
  /\ UNCHANGED peers

\* awdl_handle_sync_params_tlv: only our sync master sets our clock.
RxSyncParams ==
  /\ NextTlv
  /\ own.sync_addr = rx.src
  /\ clock' = rx.src
  /\ UNCHANGED peers

\* awdl_handle_election_params_tlv; ignored once the peer speaks version 2.
\* It carries neither a sync_addr nor a counter.
V1Update(e, adv) ==
  [e EXCEPT !.height = adv.height, !.master_addr = adv.master_addr,
            !.master_metric = adv.master_metric]

RxElectionV1(adv) ==
  /\ NextTlv
  /\ ~peers[rx.src].supports_v2
  /\ SetEntry([peers[rx.src] EXCEPT !.election = V1Update(@, adv)])
  /\ UNCHANGED clock

\* The TLV ends before, or between, the fields that are read in this order.
RxElectionV1Short(adv) ==
  /\ Fail
  /\ ~peers[rx.src].supports_v2
  /\ \E e \in LET old == peers[rx.src].election IN
              {[old EXCEPT !.height = adv.height],
               [old EXCEPT !.height = adv.height, !.master_addr = adv.master_addr],
               V1Update(old, adv)} :
       SetEntry([peers[rx.src] EXCEPT !.election = e])

\* awdl_handle_election_params_v2_tlv
RxElectionV2(adv) ==
  /\ NextTlv
  /\ SetEntry([peers[rx.src] EXCEPT !.election = adv, !.supports_v2 = TRUE])
  /\ UNCHANGED clock

\* The TLV ends after the counter or after the metric: fields are written but
\* supports_v2 is not.
RxElectionV2Short(adv) ==
  /\ Fail
  /\ \E e \in {[adv EXCEPT !.master_metric = peers[rx.src].election.master_metric],
               adv} :
       SetEntry([peers[rx.src] EXCEPT !.election = e])

\* awdl_handle_version_tlv
RxVersion(v) ==
  /\ NextTlv
  /\ SetEntry([peers[rx.src] EXCEPT !.version = v[1], !.devclass = v[2]])
  /\ UNCHANGED clock

\* Any TLV that fails before it writes, and bytes left over after the last.
RxBadFrame ==
  /\ Fail
  /\ UNCHANGED peers

\* The end of awdl_rx_action: a MIF counts, then the second awdl_peer_add.
\* It is also reached with TLVs to spare: MaxTlvs only bounds the frame.
RxEnd ==
  /\ rx.src # Self
  /\ PeerAdd(rx.src, [peers[rx.src] EXCEPT !.sent_mif = @ \/ rx.mif])
  /\ rx' = NoFrame
  /\ mifs' = IF rx.mif THEN mifs \cup {rx.src} ELSE mifs
  /\ UNCHANGED <<own, clock, clean, up, orphan, quiet>>

-----------------------------------------------------------------------------
Older(age) == IF age > Timeout THEN age ELSE age + 1

\* Time passes between two callbacks.
Tick ==
  /\ Idle
  /\ peers' = [a \in DOMAIN peers |-> [peers[a] EXCEPT !.age = Older(@)]]
  /\ clean' = IF clean > 0 THEN clean - 1 ELSE 0
  /\ up' = IF up < Timeout THEN up + 1 ELSE up
  /\ quiet' = [a \in Others |-> Older(quiet[a])]
  /\ UNCHANGED <<neigh, failed, own, clock, rx, mifs, orphan>>

\* Wrong: a peer is removed one unit too early.
StaleTooEarly(a) == up < Timeout \/ peers[a].age >= Timeout

\* Wrong: silence is never noticed.
StaleOnlyAfterBoot(a) == up < Timeout

\* last_update < now - timeout, in uint64_t: right after boot the difference
\* wraps around and every entry counts as too old.
Stale(a) == up < Timeout \/ peers[a].age > Timeout

\* Wrong: the election comes before the removal.
CleanPeersElectsFirst ==
  /\ Idle
  /\ clean = 0
  /\ LET gone == {a \in DOMAIN peers : Stale(a)}
     IN  /\ peers' = [a \in DOMAIN peers \ gone |-> peers[a]]
         /\ NeighborRemove({a \in gone : peers[a].is_valid})
         /\ mifs' = mifs \ gone
  /\ Elected(Self, Reset, peers, own')
  /\ orphan' = FALSE
  /\ clean' = CleanInterval
  /\ UNCHANGED <<clock, rx, up, quiet>>

\* awdl_clean_peers: the peer timer removes stale entries (with the callback
\* awdl_neighbor_remove for the valid ones), runs the election over what is
\* left and starts the timer again.
CleanPeers ==
  /\ Idle
  /\ clean = 0
  /\ LET gone == {a \in DOMAIN peers : Stale(a)}
         left == [a \in DOMAIN peers \ gone |-> peers[a]]
     IN  /\ peers' = left
         /\ NeighborRemove({a \in gone : peers[a].is_valid})
         /\ Elected(Self, Reset, left, own')
         /\ mifs' = mifs \ gone
  /\ orphan' = FALSE
  /\ clean' = CleanInterval
  /\ UNCHANGED <<clock, rx, up, quiet>>

RxTlv ==
  \/ RxSyncParams
  \/ \E adv \in Advertised[rx.src] :
       \/ RxElectionV1(adv) \/ RxElectionV1Short(adv)
       \/ RxElectionV2(adv) \/ RxElectionV2Short(adv)
  \/ \E v \in Versions : RxVersion(v)
  \/ RxBadFrame

Next ==
  \/ \E src \in Others, mif \in BOOLEAN, rssi \in RssiClasses :
       RxBegin(src, mif, rssi)
  \/ \E src \in Others : RxNoEntry(src)
  \/ RxTlv
  \/ RxEnd
  \/ Tick
  \/ CleanPeers

\* The event loop serves every expired timer and every readable descriptor in
\* each round, and time passes: no source of events starves another.
Fairness ==
  /\ WF_vars(RxTlv \/ RxEnd)
  /\ SF_vars(Tick)
  /\ SF_vars(CleanPeers)

Spec == Init /\ [][Next]_vars

FairSpec == Spec /\ Fairness

-----------------------------------------------------------------------------
Peer ==
  [election : ElectionState, version : Nat, devclass : Nat,
   supports_v2 : BOOLEAN, sent_mif : BOOLEAN, is_valid : BOOLEAN,
   age : 0 .. Timeout + 1]

\* Type invariant; a frame being handled belongs to an entry of the table.
TypeOK ==
  /\ DOMAIN peers \subseteq Others
  /\ peers \in [DOMAIN peers -> Peer]
  /\ neigh \subseteq Addr /\ failed \subseteq Addr
  /\ own \in ElectionState
  /\ clock \in Addr
  /\ rx \in [src : {Self} \cup DOMAIN peers, mif : BOOLEAN, tlvs : 0 .. MaxTlvs]
  /\ rx.src = Self => rx = NoFrame
  /\ clean \in 0 .. CleanInterval
  /\ up \in 0 .. Timeout
  /\ mifs \subseteq Others /\ orphan \in BOOLEAN
  /\ quiet \in [Others -> 0 .. Timeout + 1]

ValidPeer(a) == a \in DOMAIN peers /\ peers[a].is_valid

\* README.md:68, "Discovered AWDL peers are automatically added (and removed)
\* to (and from) the system's neighbor table": exactly the valid peers of the
\* table have a neighbor entry, however the frames, the failing frames and the
\* removals interleave.  A netlink call that is refused is never repeated, and
\* an entry that the map loses takes none back, but both matter only until the
\* next call for that address.
NeighborsMatch ==
  \A a \in Addr \ failed : a \in neigh <=> ValidPeer(a)

\* A peer is announced to the host only after a MIF of it has been handled to
\* the end since it is in the table: neither the first awdl_peer_add of a frame
\* nor what failing frames leave in the entry makes it valid without.
AnnouncedAfterMif ==
  \A a \in DOMAIN peers : peers[a].is_valid => a \in mifs

\* We never follow a node that is not a valid peer: awdl_clean_peers runs the
\* election in the same callback that removes entries, and nothing else takes
\* validity away or removes any, but a map that is out of memory.
SyncMasterIsPeer ==
  own.sync_addr # Self => ValidPeer(own.sync_addr) \/ orphan

\* Hence awdl_handle_sync_params_tlv sets the clock from valid peers only,
\* although it looks at our election state and not at the table.
ClockFromValidPeer ==
  [][RxSyncParams => ValidPeer(rx.src) \/ orphan]_vars

\* A node that is not heard any more is forgotten: it leaves the table and
\* the neighbor table, unless netlink refused, and we stop following it.
SilentPeerForgotten ==
  \A a \in Others :
    \/ []<>(rx.src = a)
    \/ <>[](/\ a \notin DOMAIN peers /\ own.sync_addr # a
            /\ a \in neigh => a \in failed)

\* A MIF of a that completes its entry is handled to the end.
GoodMif(a) ==
  RxEnd /\ rx.src = a /\ rx.mif /\ Complete([peers[a] EXCEPT !.sent_mif = TRUE])

\* A node that sends good MIFs and is never silent for longer than the timeout
\* is a valid peer for good in the end, whatever else it sends and however the
\* sweeps fall in between: the underflow of now - timeout costs it its entry
\* only right after boot, and so does the map as long as memory is short.
SteadyPeerStays ==
  \A a \in Others :
    \/ ~[]<><<GoodMif(a)>>_vars
    \/ []<>(quiet[a] > Timeout)
    \/ []<><<\E src \in Others : RxNoEntry(src)>>_vars
    \/ <>[]ValidPeer(a)
=============================================================================
