--------------------------- MODULE PeerTable_proofs ---------------------------
(***************************************************************************)
(* The invariants of PeerTable for every set of addresses, every timeout   *)
(* and every frame.  Three facts carry the proofs: a TLV handler writes an *)
(* entry but never its is_valid or sent_mif (TlvKeeps), awdl_peer_add      *)
(* turns an entry valid at most once and reports exactly that (AddEffect), *)
(* and an election only elects us or a valid entry (ElectedFollows).       *)
(***************************************************************************)
EXTENDS PeerTable, TLAPS

\* The entry awdl_peer_new creates, and our own reset state, are well typed.
LEMMA NewTypes ==
  /\ Reset \in ElectionState
  /\ \A a \in Addr : PeerNew(a) \in Peer
BY PeerTableAssumption, HeightAssumption
DEF Reset, ResetSelf, ElectionState, PeerNew, Peer

\* A handler that replaces the election state keeps the entry well typed,
\* also when the TLV was cut short between two fields.
LEMMA PartialElection ==
  ASSUME NEW e \in ElectionState, NEW adv \in ElectionState
  PROVE  /\ [e EXCEPT !.height = adv.height] \in ElectionState
         /\ [e EXCEPT !.height = adv.height, !.master_addr = adv.master_addr]
              \in ElectionState
         /\ V1Update(e, adv) \in ElectionState
         /\ [adv EXCEPT !.master_metric = e.master_metric] \in ElectionState
BY Zenon DEF ElectionState, V1Update

\* What one entry looks like after a TLV handler has written to it.
KeepsValidity(old, new) ==
  /\ new \in Peer
  /\ new.is_valid = old.is_valid
  /\ new.sent_mif = old.sent_mif

\* No TLV handler adds or removes entries, or changes whether one is valid.
LEMMA TlvKeeps ==
  ASSUME TypeOK, RxTlv
  PROVE  /\ DOMAIN peers' = DOMAIN peers
         /\ peers' \in [DOMAIN peers -> Peer]
         /\ \A a \in DOMAIN peers : KeepsValidity(peers[a], peers'[a])
         /\ UNCHANGED <<neigh, failed, own, clean, up, history>>
<1> DEFINE s == rx.src
           Writes(new) == /\ peers' = [peers EXCEPT ![s] = new]
                          /\ KeepsValidity(peers[s], new)
<1>1. rx.src # Self /\ UNCHANGED <<neigh, failed, own, clean, up, history>>
  BY Zenon DEF RxTlv, RxSyncParams, RxElectionV1, RxElectionV1Short, RxElectionV2,
         RxElectionV2Short, RxVersion, RxBadFrame, NextTlv, Fail
<1>2. /\ s \in DOMAIN peers /\ peers[s] \in Peer /\ peers[s].election \in ElectionState
      /\ Advertised[s] \subseteq ElectionState
  BY <1>1, PeerTableAssumption DEF TypeOK, Peer, Others
<1>3. peers' = peers \/ \E new : Writes(new)
  <2>1. ASSUME NEW e \in ElectionState,
               SetEntry([peers[s] EXCEPT !.election = e])
        PROVE  \E new : Writes(new)
    <3>1. KeepsValidity(peers[s], [peers[s] EXCEPT !.election = e])
      BY <1>2 DEF KeepsValidity, Peer
    <3> QED BY <2>1, <3>1, Zenon DEF SetEntry
  <2>2. CASE RxSyncParams \/ RxBadFrame
    BY <2>2 DEF RxSyncParams, RxBadFrame
  <2>3. ASSUME NEW adv \in Advertised[s], RxElectionV1(adv)
        PROVE  \E new : Writes(new)
    <3>1. V1Update(peers[s].election, adv) \in ElectionState
      BY <1>2, PartialElection, Zenon
    <3>2. SetEntry([peers[s] EXCEPT !.election = V1Update(peers[s].election, adv)])
      BY <1>2, <2>3 DEF RxElectionV1, Peer
    <3> QED BY <2>1, <3>1, <3>2
  <2>4. ASSUME NEW adv \in Advertised[s], RxElectionV1Short(adv)
        PROVE  \E new : Writes(new)
    <3>1. \E e \in ElectionState : SetEntry([peers[s] EXCEPT !.election = e])
      BY <1>2, <2>4, PartialElection, Zenon DEF RxElectionV1Short
    <3> QED BY <2>1, <3>1
  <2>5. ASSUME NEW adv \in Advertised[s], RxElectionV2(adv)
        PROVE  \E new : Writes(new)
    <3> DEFINE new == [peers[s] EXCEPT !.election = adv, !.supports_v2 = TRUE]
    <3>1. KeepsValidity(peers[s], new)
      BY <1>2, Zenon DEF KeepsValidity, Peer
    <3> QED BY <2>5, <3>1, Zenon DEF RxElectionV2, SetEntry
  <2>6. ASSUME NEW adv \in Advertised[s], RxElectionV2Short(adv)
        PROVE  \E new : Writes(new)
    <3>1. \E e \in ElectionState : SetEntry([peers[s] EXCEPT !.election = e])
      BY <1>2, <2>6, PartialElection, Zenon DEF RxElectionV2Short
    <3> QED BY <2>1, <3>1
  <2>7. ASSUME NEW v \in Versions, RxVersion(v)
        PROVE  \E new : Writes(new)
    <3> DEFINE new == [peers[s] EXCEPT !.version = v[1], !.devclass = v[2]]
    <3>1. v[1] \in Nat /\ v[2] \in Nat
      BY PeerTableAssumption
    <3>2. KeepsValidity(peers[s], new)
      BY <1>2, <3>1, Zenon DEF KeepsValidity, Peer
    <3> QED BY <2>7, <3>2, Zenon DEF RxVersion, SetEntry
  <2> QED BY <2>2, <2>3, <2>4, <2>5, <2>6, <2>7 DEF RxTlv
<1>4. CASE peers' = peers
  BY <1>1, <1>4 DEF TypeOK, KeepsValidity
<1>5. ASSUME NEW new, Writes(new)
      PROVE  /\ DOMAIN peers' = DOMAIN peers
             /\ peers' \in [DOMAIN peers -> Peer]
             /\ \A a \in DOMAIN peers : KeepsValidity(peers[a], peers'[a])
  BY <1>2, <1>5 DEF TypeOK, KeepsValidity
<1> QED BY <1>1, <1>3, <1>4, <1>5

\* awdl_peer_add on the entry of a: only that entry changes, it stays valid
\* or turns valid, and the neighbor callback is called exactly when it turns.
LEMMA AddEffect ==
  ASSUME TypeOK, NEW a \in Others, NEW peer \in Peer, PeerAdd(a, peer)
  PROVE  /\ DOMAIN peers' = DOMAIN peers \cup {a}
         /\ peers' \in [DOMAIN peers' -> Peer]
         /\ peers'[a].is_valid = (peer.is_valid \/ Complete(peer))
         /\ peers'[a].sent_mif = peer.sent_mif
         /\ \A b \in DOMAIN peers \ {a} : peers'[b] = peers[b]
         /\ NeighborAdd(IF ~peer.is_valid /\ Complete(peer) THEN {a} ELSE {})
<1>1. Complete(peer) \in BOOLEAN
  BY DEF Complete, Peer
<1>2. /\ Refreshed(peer) \in Peer
      /\ Refreshed(peer).is_valid = (peer.is_valid \/ Complete(peer))
      /\ Refreshed(peer).sent_mif = peer.sent_mif
  <2> DEFINE v == peer.is_valid \/ Complete(peer)
  <2>1. v \in BOOLEAN /\ 0 \in 0 .. Timeout + 1
    BY PeerTableAssumption
  <2>2. Refreshed(peer) = [peer EXCEPT !.age = 0, !.is_valid = v]
    BY DEF Refreshed, Peer
  <2> HIDE DEF v
  <2>3. /\ [peer EXCEPT !.age = 0, !.is_valid = v] \in Peer
        /\ [peer EXCEPT !.age = 0, !.is_valid = v].is_valid = v
        /\ [peer EXCEPT !.age = 0, !.is_valid = v].sent_mif = peer.sent_mif
    BY <2>1, Zenon DEF Peer
  <2> QED BY <2>2, <2>3 DEF v
<1>3. peers' = Put(peers, a, Refreshed(peer))
  BY DEF PeerAdd
<1> QED BY <1>2, <1>3 DEF PeerAdd, Put, TypeOK

\* Who is elected is a candidate: ourselves, in the reset state, or a valid
\* entry of the table, which becomes our sync_addr.
LEMMA ElectedFollows ==
  ASSUME NEW tab, NEW T, tab \in [T -> Peer], T \subseteq Others,
         NEW new, Elected(Self, Reset, tab, new)
  PROVE  /\ new \in ElectionState
         /\ new.sync_addr # Self => /\ new.sync_addr \in T
                                    /\ tab[new.sync_addr].is_valid
<1> DOMAIN tab = T
  OBVIOUS
<1> PICK b \in Candidates(Self, tab) : new = Adopt(Self, Reset, tab, b)
  BY DEF Elected
<1>1. CASE b = Self
  BY <1>1, NewTypes DEF Adopt, Reset, ResetSelf
<1>2. CASE b # Self
  <2>1. b \in T /\ tab[b].is_valid /\ b \in Addr
    BY <1>2 DEF Candidates, Eligible, Others
  <2>2. tab[b].election \in ElectionState
    BY <2>1 DEF Peer
  <2>3. Succ(tab[b].election.height) \in 0 .. UINT32 - 1
    BY <2>2, HeightAssumption DEF Succ, ElectionState
  <2>4. new.sync_addr = b
    BY <1>2 DEF Adopt
  <2>5. new \in ElectionState
    BY <1>2, <2>1, <2>2, <2>3 DEF Adopt, ElectionState
  <2> QED BY <2>1, <2>4, <2>5
<1> QED BY <1>1, <1>2

-----------------------------------------------------------------------------
\* The two netlink calls touch the addresses they are given only.
LEMMA NetlinkTypes ==
  ASSUME TypeOK, NEW calls, calls \subseteq Addr,
         NeighborAdd(calls) \/ NeighborRemove(calls)
  PROVE  neigh' \subseteq Addr /\ failed' \subseteq Addr
BY DEF TypeOK, NeighborAdd, NeighborRemove, Netlink

-----------------------------------------------------------------------------
\* The two calls of awdl_peer_add in awdl_rx_action, seen as one operation: the
\* entry they are given is well typed and as valid as the one in the table.
LEMMA AddCalls ==
  ASSUME TypeOK,
         \/ \E src \in Others, mif \in BOOLEAN, rssi \in RssiClasses :
              RxBegin(src, mif, rssi)
         \/ RxEnd
  PROVE  \E a \in Others, peer \in Peer :
           /\ PeerAdd(a, peer)
           /\ peer.is_valid = (a \in DOMAIN peers /\ peers[a].is_valid)
           /\ peer.sent_mif => a \in mifs' \/ (a \in DOMAIN peers /\ peers[a].sent_mif)
           /\ rx' \in [src : {Self, a}, mif : BOOLEAN, tlvs : 0 .. MaxTlvs]
           /\ rx'.src = Self => rx' = NoFrame
           /\ mifs \subseteq mifs' /\ mifs' \subseteq mifs \cup {a}
           /\ quiet' \in [Others -> 0 .. Timeout + 1]
           /\ UNCHANGED <<own, clock, clean, up, orphan>>
<1>1. ASSUME NEW a \in Others, NEW mif \in BOOLEAN, NEW rssi \in RssiClasses,
             RxBegin(a, mif, rssi)
      PROVE  /\ Lookup(a) \in Peer
             /\ PeerAdd(a, Lookup(a))
             /\ Lookup(a).is_valid = (a \in DOMAIN peers /\ peers[a].is_valid)
             /\ Lookup(a).sent_mif => a \in DOMAIN peers /\ peers[a].sent_mif
             /\ rx' \in [src : {Self, a}, mif : BOOLEAN, tlvs : 0 .. MaxTlvs]
             /\ rx'.src = Self => rx' = NoFrame
             /\ quiet' \in [Others -> 0 .. Timeout + 1]
             /\ UNCHANGED <<own, clock, clean, up, mifs, orphan>>
  <2>1. PeerAdd(a, Lookup(a)) /\ UNCHANGED <<own, clock, clean, up, mifs, orphan>>
    BY <1>1 DEF RxBegin
  <2>5. quiet' \in [Others -> 0 .. Timeout + 1]
    BY <1>1, PeerTableAssumption DEF RxBegin, TypeOK
  <2>2. rx' = [src |-> a, mif |-> mif, tlvs |-> MaxTlvs]
    BY <1>1 DEF RxBegin
  <2>3. CASE a \in DOMAIN peers
    BY <2>1, <2>2, <2>3, <2>5, PeerTableAssumption DEF Lookup, TypeOK, Others, Peer
  <2>4. CASE a \notin DOMAIN peers
    <3>1. Lookup(a) \in Peer /\ Lookup(a).is_valid = FALSE /\ Lookup(a).sent_mif = FALSE
      BY <2>4, NewTypes DEF Lookup, PeerNew, Others
    <3>2. Lookup(a).is_valid = (a \in DOMAIN peers /\ peers[a].is_valid)
      BY <2>4, <3>1, Zenon
    <3>3. /\ rx' \in [src : {Self, a}, mif : BOOLEAN, tlvs : 0 .. MaxTlvs]
          /\ rx'.src # Self
      BY <2>2, PeerTableAssumption DEF Others
    <3> QED BY <2>1, <2>4, <2>5, <3>1, <3>2, <3>3
  <2> QED BY <2>3, <2>4
<1>2. CASE RxEnd
  <2> DEFINE a == rx.src
             peer == [peers[a] EXCEPT !.sent_mif = @ \/ rx.mif]
  <2>1. a \in DOMAIN peers /\ a \in Others /\ peers[a] \in Peer /\ rx.mif \in BOOLEAN
    BY <1>2 DEF RxEnd, TypeOK
  <2>2. (peers[a].sent_mif \/ rx.mif) \in BOOLEAN
    OBVIOUS
  <2>3. /\ peer \in Peer
        /\ peer.is_valid = peers[a].is_valid
        /\ peer.sent_mif = (peers[a].sent_mif \/ rx.mif)
        /\ peers[a].is_valid \in BOOLEAN
    BY <2>1, <2>2 DEF Peer
  <2>4. /\ PeerAdd(a, peer) /\ rx' = NoFrame
        /\ mifs' = IF rx.mif THEN mifs \cup {a} ELSE mifs
        /\ UNCHANGED <<own, clock, clean, up, orphan, quiet>>
    BY <1>2 DEF RxEnd
  <2>5. NoFrame \in [src : {Self, a}, mif : BOOLEAN, tlvs : 0 .. MaxTlvs]
    BY PeerTableAssumption DEF NoFrame
  <2> HIDE DEF peer, a
  <2>6. peer.is_valid = (a \in DOMAIN peers /\ peers[a].is_valid)
    BY <2>1, <2>3
  <2>7. quiet' \in [Others -> 0 .. Timeout + 1]
    BY <2>4 DEF TypeOK
  <2>8. peer.sent_mif => a \in mifs' \/ (a \in DOMAIN peers /\ peers[a].sent_mif)
    BY <2>1, <2>3, <2>4
  <2>9. mifs \subseteq mifs' /\ mifs' \subseteq mifs \cup {a}
    BY <2>4
  <2> QED BY <2>1, <2>3, <2>4, <2>5, <2>6, <2>7, <2>8, <2>9
<1> QED BY <1>1, <1>2

\* A frame that is ignored because there is no memory for the entry: entries
\* may go, none comes or changes.
LEMMA NoEntryEffect ==
  ASSUME TypeOK, NEW src \in Others, RxNoEntry(src)
  PROVE  \E gone \in SUBSET DOMAIN peers :
           /\ DOMAIN peers' = DOMAIN peers \ gone
           /\ \A b \in DOMAIN peers' : peers'[b] = peers[b]
           /\ peers' \in [DOMAIN peers' -> Peer]
           /\ failed' = failed \cup {b \in gone : peers[b].is_valid}
           /\ orphan' = (orphan \/ own.sync_addr \in gone)
           /\ mifs' = mifs \ gone
           /\ rx = NoFrame
           /\ UNCHANGED <<neigh, own, clock, rx, clean, up, quiet>>
<1>1. PICK gone \in SUBSET DOMAIN peers :
        /\ peers' = [b \in DOMAIN peers \ gone |-> peers[b]]
        /\ failed' = failed \cup {b \in gone : peers[b].is_valid}
        /\ orphan' = (orphan \/ own.sync_addr \in gone)
        /\ mifs' = mifs \ gone
  BY DEF RxNoEntry, PeerAddFails
<1>2. rx = NoFrame /\ UNCHANGED <<neigh, own, clock, rx, clean, up, quiet>>
  BY DEF RxNoEntry, PeerAddFails, Idle
<1>3. /\ DOMAIN peers' = DOMAIN peers \ gone
      /\ \A b \in DOMAIN peers' : peers'[b] = peers[b]
      /\ peers' \in [DOMAIN peers' -> Peer]
  BY <1>1 DEF TypeOK
<1> QED BY <1>1, <1>2, <1>3, Zenon

-----------------------------------------------------------------------------
\* The type invariant: in particular the frame being handled always has an
\* entry, so awdl_rx_action never works on a peer that was removed.
THEOREM Typing == Spec => []TypeOK
<1>1. Init => TypeOK
  <2> SUFFICES ASSUME Init PROVE TypeOK
    OBVIOUS
  <2>1. quiet \in [Others -> 0 .. Timeout + 1]
    BY PeerTableAssumption DEF Init
  <2>2. rx \in [src : {Self}, mif : BOOLEAN, tlvs : 0 .. MaxTlvs]
    BY PeerTableAssumption DEF Init, NoFrame
  <2>3. clean \in 0 .. CleanInterval /\ up \in 0 .. Timeout
    BY PeerTableAssumption DEF Init
  <2> QED BY <2>1, <2>2, <2>3, NewTypes, PeerTableAssumption
          DEF Init, TypeOK, EmptyTable, NoFrame
<1>2. TypeOK /\ [Next]_vars => TypeOK'
  <2> SUFFICES ASSUME TypeOK, [Next]_vars PROVE TypeOK'
    OBVIOUS
  <2>1. CASE \/ \E src \in Others, mif \in BOOLEAN, rssi \in RssiClasses :
                  RxBegin(src, mif, rssi)
             \/ RxEnd
    <3>1. PICK a \in Others, peer \in Peer :
            /\ PeerAdd(a, peer)
            /\ rx' \in [src : {Self, a}, mif : BOOLEAN, tlvs : 0 .. MaxTlvs]
            /\ rx'.src = Self => rx' = NoFrame
            /\ mifs' \subseteq mifs \cup {a}
            /\ quiet' \in [Others -> 0 .. Timeout + 1]
            /\ UNCHANGED <<own, clock, clean, up, orphan>>
      BY <2>1, AddCalls, Zenon
    <3>2. /\ DOMAIN peers' = DOMAIN peers \cup {a}
          /\ peers' \in [DOMAIN peers' -> Peer]
      BY <3>1, AddEffect, Zenon
    <3>3. neigh' \subseteq Addr /\ failed' \subseteq Addr
      BY <3>1, NetlinkTypes DEF PeerAdd, Others
    <3> QED BY <3>1, <3>2, <3>3 DEF TypeOK, NoFrame
  <2>2. CASE RxTlv
    <3>1. (NextTlv \/ Fail) /\ clock' \in {clock, rx.src}
      BY Zenon, <2>2 DEF RxTlv, RxSyncParams, RxElectionV1, RxElectionV1Short,
                  RxElectionV2, RxElectionV2Short, RxVersion, RxBadFrame, Fail
    <3>2. /\ rx' \in [src : {Self} \cup DOMAIN peers, mif : BOOLEAN,
                      tlvs : 0 .. MaxTlvs]
          /\ rx'.src = Self => rx' = NoFrame
      <4>1. CASE NextTlv
        BY <4>1, PeerTableAssumption DEF NextTlv, TypeOK
      <4>2. CASE Fail
        BY <4>2, PeerTableAssumption DEF Fail, NoFrame
      <4> QED BY <3>1, <4>1, <4>2
    <3>3. clock' \in Addr
      BY <3>1, PeerTableAssumption DEF TypeOK, Others
    <3>4. /\ DOMAIN peers' = DOMAIN peers
          /\ peers' \in [DOMAIN peers -> Peer]
          /\ UNCHANGED <<neigh, failed, own, clean, up, mifs, orphan, quiet>>
      BY <2>2, TlvKeeps DEF history
    <3> QED BY <3>2, <3>3, <3>4 DEF TypeOK, NoFrame
  <2>3. CASE Tick
    <3>1. \A x \in 0 .. Timeout + 1 : Older(x) \in 0 .. Timeout + 1
      BY PeerTableAssumption DEF Older
    <3>2. \A a \in DOMAIN peers :
            [peers[a] EXCEPT !.age = Older(@)] \in Peer
      BY <3>1 DEF TypeOK, Peer
    <3>3. DOMAIN peers' = DOMAIN peers /\ peers' \in [DOMAIN peers -> Peer]
      BY <2>3, <3>2 DEF Tick
    <3>4. clean' \in 0 .. CleanInterval /\ up' \in 0 .. Timeout
      BY <2>3, PeerTableAssumption DEF Tick, TypeOK
    <3>5. quiet' \in [Others -> 0 .. Timeout + 1]
      BY <2>3, <3>1 DEF Tick, TypeOK
    <3> QED BY <2>3, <3>3, <3>4, <3>5 DEF Tick, TypeOK, NoFrame
  <2>4. CASE CleanPeers
    <3> DEFINE T == DOMAIN peers \ {a \in DOMAIN peers : Stale(a)}
               left == [a \in T |-> peers[a]]
    <3>1. T \subseteq Others /\ left \in [T -> Peer]
      BY DEF TypeOK
    <3>2. peers' = left /\ Elected(Self, Reset, left, own')
      BY <2>4 DEF CleanPeers
    <3>3. own' \in ElectionState
      BY <3>1, <3>2, ElectedFollows
    <3>4. neigh' \subseteq Addr /\ failed' \subseteq Addr
      <4>1. NeighborRemove({a \in {c \in DOMAIN peers : Stale(c)} : peers[a].is_valid})
        BY <2>4 DEF CleanPeers
      <4> QED BY <4>1, NetlinkTypes DEF TypeOK, Others
    <3>5. /\ rx' = NoFrame /\ clean' = CleanInterval
          /\ mifs' \subseteq mifs /\ orphan' = FALSE
          /\ UNCHANGED <<clock, up, quiet>>
      BY <2>4 DEF CleanPeers, Idle
    <3>6. /\ NoFrame \in [src : {Self} \cup T, mif : BOOLEAN, tlvs : 0 .. MaxTlvs]
          /\ CleanInterval \in 0 .. CleanInterval
      BY PeerTableAssumption DEF NoFrame
    <3>7. DOMAIN peers' = T
      BY <3>2
    <3> QED BY <3>1, <3>2, <3>3, <3>4, <3>5, <3>6, <3>7 DEF TypeOK, NoFrame
  <2>5. CASE UNCHANGED vars
    BY <2>5 DEF vars, TypeOK, NoFrame
  <2>6. ASSUME NEW src \in Others, RxNoEntry(src)
        PROVE  TypeOK'
    <3>1. PICK gone \in SUBSET DOMAIN peers :
            /\ DOMAIN peers' = DOMAIN peers \ gone
            /\ peers' \in [DOMAIN peers' -> Peer]
            /\ failed' = failed \cup {b \in gone : peers[b].is_valid}
            /\ orphan' = (orphan \/ own.sync_addr \in gone)
            /\ mifs' = mifs \ gone
            /\ rx = NoFrame
            /\ UNCHANGED <<neigh, own, clock, rx, clean, up, quiet>>
      BY <2>6, NoEntryEffect, Zenon
    <3>2. orphan' \in BOOLEAN
      BY <3>1, Zenon
    <3> QED BY <3>1, <3>2 DEF TypeOK, NoFrame, Others
  <2> QED BY <2>1, <2>2, <2>3, <2>4, <2>5, <2>6 DEF Next
<1> QED BY <1>1, <1>2, PTL DEF Spec

\* A peer is announced to the host only after a MIF of it was handled to the
\* end.  Both flags have to be in the invariant: a MIF that is handled sets
\* sent_mif, and any later frame may make the entry valid.
THEOREM AnnouncedTheorem == Spec => []AnnouncedAfterMif
<1> DEFINE Marked(a) == peers[a].sent_mif \/ peers[a].is_valid
           MifInv == \A a \in DOMAIN peers : Marked(a) => a \in mifs
<1>1. Init => MifInv
  BY DEF Init, EmptyTable
<1>2. TypeOK /\ MifInv /\ [Next]_vars => MifInv'
  <2> SUFFICES ASSUME TypeOK, MifInv, [Next]_vars, NEW b \in DOMAIN peers', Marked(b)'
               PROVE  b \in mifs'
    OBVIOUS
  <2>0. b \in DOMAIN peers /\ Marked(b) => b \in mifs
    OBVIOUS
  <2>1. CASE \/ \E src \in Others, mif \in BOOLEAN, rssi \in RssiClasses :
                  RxBegin(src, mif, rssi)
             \/ RxEnd
    <3>1. PICK a \in Others, peer \in Peer :
            /\ PeerAdd(a, peer)
            /\ peer.is_valid = (a \in DOMAIN peers /\ peers[a].is_valid)
            /\ peer.sent_mif => a \in mifs' \/ (a \in DOMAIN peers /\ peers[a].sent_mif)
            /\ mifs \subseteq mifs'
      BY <2>1, AddCalls, Zenon
    <3>2. /\ DOMAIN peers' = DOMAIN peers \cup {a}
          /\ peers'[a].is_valid = (peer.is_valid \/ Complete(peer))
          /\ peers'[a].sent_mif = peer.sent_mif
          /\ \A c \in DOMAIN peers \ {a} : peers'[c] = peers[c]
      BY <3>1, AddEffect, Zenon
    <3>3. CASE b = a
      <4>1. peer.sent_mif \/ peer.is_valid
        BY <3>2, <3>3, Zenon DEF Complete
      <4> QED BY <2>0, <3>1, <3>3, <4>1
    <3>4. CASE b # a
      BY <2>0, <3>1, <3>2, <3>4
    <3> QED BY <3>3, <3>4
  <2>2. CASE RxTlv
    BY <2>0, <2>2, TlvKeeps DEF KeepsValidity, history
  <2>3. CASE Tick
    BY <2>0, <2>3 DEF Tick, TypeOK, Peer
  <2>4. CASE CleanPeers
    BY <2>0, <2>4 DEF CleanPeers
  <2>5. CASE UNCHANGED vars
    BY <2>0, <2>5 DEF vars
  <2>6. ASSUME NEW src \in Others, RxNoEntry(src)
        PROVE  b \in mifs'
    BY <2>0, <2>6, NoEntryEffect
  <2> QED BY <2>1, <2>2, <2>3, <2>4, <2>5, <2>6 DEF Next
<1>3. MifInv => AnnouncedAfterMif
  BY DEF AnnouncedAfterMif
<1> QED BY <1>1, <1>2, <1>3, Typing, PTL DEF Spec

-----------------------------------------------------------------------------
\* README.md:68: the neighbor table holds an entry for each valid peer and
\* none for anybody else, whatever frames arrive, fail or stop arriving; only
\* an address whose last netlink call was refused may differ.
THEOREM NeighborsTheorem == Spec => []NeighborsMatch
<1>1. Init => NeighborsMatch
  BY DEF Init, NeighborsMatch, ValidPeer, EmptyTable
<1>2. TypeOK /\ NeighborsMatch /\ [Next]_vars => NeighborsMatch'
  <2> SUFFICES ASSUME TypeOK, NeighborsMatch, [Next]_vars,
                      NEW b \in Addr, b \notin failed'
               PROVE  b \in neigh' <=> ValidPeer(b)'
    BY DEF NeighborsMatch
  <2>0. b \notin failed => (b \in neigh <=> ValidPeer(b))
    BY DEF NeighborsMatch
  <2>1. CASE \/ \E src \in Others, mif \in BOOLEAN, rssi \in RssiClasses :
                  RxBegin(src, mif, rssi)
             \/ RxEnd
    <3>1. PICK a \in Others, peer \in Peer :
            /\ PeerAdd(a, peer)
            /\ peer.is_valid = (a \in DOMAIN peers /\ peers[a].is_valid)
      BY <2>1, AddCalls
    <3> DEFINE calls == IF ~peer.is_valid /\ Complete(peer) THEN {a} ELSE {}
    <3>2. /\ DOMAIN peers' = DOMAIN peers \cup {a}
          /\ peers'[a].is_valid = (peer.is_valid \/ Complete(peer))
          /\ \A c \in DOMAIN peers \ {a} : peers'[c] = peers[c]
          /\ NeighborAdd(calls)
      BY <3>1, AddEffect, Zenon
    <3>3. CASE b \in calls
      <4>1. b \in neigh'
        BY <3>2, <3>3 DEF NeighborAdd, Netlink
      <4>2. b = a /\ Complete(peer)
        BY <3>3
      <4> QED BY <3>2, <4>1, <4>2, Zenon DEF ValidPeer
    <3>4. CASE b \notin calls
      <4>1. /\ b \in neigh' <=> b \in neigh
            /\ b \in failed' <=> b \in failed
        BY <3>2, <3>4 DEF NeighborAdd, Netlink
      <4>2. ValidPeer(b)' <=> ValidPeer(b)
        BY <3>1, <3>2, <3>4, Zenon DEF ValidPeer
      <4> QED BY <2>0, <4>1, <4>2
    <3> QED BY <3>3, <3>4
  <2>2. CASE RxTlv
    BY <2>0, <2>2, TlvKeeps DEF KeepsValidity, ValidPeer
  <2>3. CASE Tick
    BY <2>0, <2>3 DEF Tick, TypeOK, Peer, ValidPeer
  <2>4. CASE CleanPeers
    <3> DEFINE gone == {a \in DOMAIN peers : Stale(a)}
               calls == {a \in gone : peers[a].is_valid}
    <3>1. NeighborRemove(calls) /\ peers' = [a \in DOMAIN peers \ gone |-> peers[a]]
      BY <2>4 DEF CleanPeers
    <3>2. CASE b \in calls
      BY <3>1, <3>2 DEF NeighborRemove, Netlink, ValidPeer
    <3>3. CASE b \notin calls
      <4>1. ValidPeer(b)' <=> ValidPeer(b)
        BY <3>1, <3>3 DEF ValidPeer
      <4>2. /\ b \in neigh' <=> b \in neigh
            /\ b \in failed' <=> b \in failed
        BY <3>1, <3>3 DEF NeighborRemove, Netlink
      <4> QED BY <2>0, <4>1, <4>2
    <3> QED BY <3>2, <3>3
  <2>5. CASE UNCHANGED vars
    BY <2>0, <2>5 DEF vars, ValidPeer
  <2>6. ASSUME NEW src \in Others, RxNoEntry(src)
        PROVE  b \in neigh' <=> ValidPeer(b)'
    <3>1. PICK gone \in SUBSET DOMAIN peers :
            /\ DOMAIN peers' = DOMAIN peers \ gone
            /\ \A c \in DOMAIN peers' : peers'[c] = peers[c]
            /\ failed' = failed \cup {c \in gone : peers[c].is_valid}
            /\ neigh' = neigh
      BY <2>6, NoEntryEffect, Zenon
    <3> QED BY <2>0, <3>1 DEF ValidPeer
  <2> QED BY <2>1, <2>2, <2>3, <2>4, <2>5, <2>6 DEF Next
<1> QED BY <1>1, <1>2, Typing, PTL DEF Spec

\* We only follow valid peers: removal and election are one callback, and no
\* frame removes an entry or its validity.
THEOREM FollowTheorem == Spec => []SyncMasterIsPeer
<1>1. Init => SyncMasterIsPeer
  BY DEF Init, SyncMasterIsPeer, Reset, ResetSelf
<1>2. TypeOK /\ SyncMasterIsPeer /\ [Next]_vars => SyncMasterIsPeer'
  <2> SUFFICES ASSUME TypeOK, SyncMasterIsPeer, [Next]_vars
               PROVE  SyncMasterIsPeer'
    OBVIOUS
  <2>1. CASE \/ \E src \in Others, mif \in BOOLEAN, rssi \in RssiClasses :
                  RxBegin(src, mif, rssi)
             \/ RxEnd
    <3>1. PICK a \in Others, peer \in Peer :
            /\ PeerAdd(a, peer)
            /\ peer.is_valid = (a \in DOMAIN peers /\ peers[a].is_valid)
            /\ own' = own /\ orphan' = orphan
      BY <2>1, AddCalls, Zenon
    <3>2. \A c : ValidPeer(c) => ValidPeer(c)'
      BY <3>1, AddEffect, ZenonT(30) DEF ValidPeer
    <3> QED BY <3>1, <3>2 DEF SyncMasterIsPeer, ValidPeer
  <2>2. CASE RxTlv
    BY <2>2, TlvKeeps DEF SyncMasterIsPeer, ValidPeer, KeepsValidity, history
  <2>3. CASE Tick
    BY <2>3 DEF Tick, TypeOK, Peer, SyncMasterIsPeer, ValidPeer
  <2>4. CASE CleanPeers
    <3> DEFINE T == DOMAIN peers \ {a \in DOMAIN peers : Stale(a)}
               left == [a \in T |-> peers[a]]
    <3>1. T \subseteq Others /\ left \in [T -> Peer]
      BY DEF TypeOK
    <3>2. peers' = left /\ Elected(Self, Reset, left, own')
      BY <2>4 DEF CleanPeers
    <3>3. own'.sync_addr # Self =>
            own'.sync_addr \in T /\ left[own'.sync_addr].is_valid
      BY <3>1, <3>2, ElectedFollows
    <3>4. DOMAIN peers' = T
      BY <3>2
    <3> QED BY <3>2, <3>3, <3>4 DEF SyncMasterIsPeer, ValidPeer
  <2>5. CASE UNCHANGED vars
    BY <2>5 DEF vars, SyncMasterIsPeer, ValidPeer
  <2>6. ASSUME NEW src \in Others, RxNoEntry(src)
        PROVE  SyncMasterIsPeer'
    <3>1. PICK gone \in SUBSET DOMAIN peers :
            /\ DOMAIN peers' = DOMAIN peers \ gone
            /\ \A c \in DOMAIN peers' : peers'[c] = peers[c]
            /\ orphan' = (orphan \/ own.sync_addr \in gone)
            /\ own' = own
      BY <2>6, NoEntryEffect, Zenon
    <3>2. own.sync_addr # Self /\ ~orphan' => ValidPeer(own.sync_addr)'
      BY <3>1, Zenon DEF SyncMasterIsPeer, ValidPeer
    <3> QED BY <3>1, <3>2, Zenon DEF SyncMasterIsPeer, ValidPeer
  <2> QED BY <2>1, <2>2, <2>3, <2>4, <2>5, <2>6 DEF Next
<1> QED BY <1>1, <1>2, Typing, PTL DEF Spec

\* Our clock is only ever set from a valid peer.
THEOREM ClockTheorem == Spec => ClockFromValidPeer
<1>1. SyncMasterIsPeer => [RxSyncParams => ValidPeer(rx.src) \/ orphan]_vars
  BY DEF SyncMasterIsPeer, RxSyncParams, NextTlv, ValidPeer
<1> QED BY <1>1, FollowTheorem, PTL DEF ClockFromValidPeer
=============================================================================
