----------------------------- MODULE ActionFrame -----------------------------
(***************************************************************************)
(* Action frames: the sender's side (src/src/tx.c), which fills the packed *)
(* structures of src/src/frame.h, and the receiver's (src/src/rx.c), which *)
(* reads at literal offsets, for two nodes that run this code.             *)
(***************************************************************************)
EXTENDS Wire

CONSTANTS
  NoPeer,         \* model value
  Sender, Name, NameLength, Version, DevClass,
  HOST_NAME_LENGTH_MAX,
  Slots,          \* AWDL_CHANSEQ_LENGTH
  Presence        \* sync.presence_mode

VARIABLES
  election,   \* the sender's election state
  chan,       \* the sender's channel: its sequence is static
  following,  \* the receiver's sync master is the sender
  peer,       \* the receiver's entry for the sender, or NoPeer
  sync        \* what the receiver's clock was last set to

-----------------------------------------------------------------------------
(* src/src/tx.c *)

\* Every awdl_init_..._tlv ends by setting the length to what was filled.
Tlv(type, fields) ==
  LET val == Encode(fields)
  IN  Encode(<< <<1, type>>, <<2, Len(val)>> >>) \o val

\* awdl_init_chanseq: every channel takes the two bytes of the opclass encoding.
ChanSeq ==
  << <<1, Slots - 1>>, <<1, "opclass">>, <<1, 0>>, <<1, 3>>, <<2, "repeat">> >>
    \o [i \in 1 .. Slots |-> <<2, chan>>]

SyncParamsTlv(c) ==
  Tlv("sync", << <<1, chan>>, <<2, c[1]>>, <<1, chan>>, Zero(1), Zero(2), Zero(2),
                 Zero(2), Zero(2), Zero(2), Zero(2),
                 Zero(1), Zero(1), Zero(1), Zero(1),
                 <<6, election.master_addr>>, <<1, Presence>>, Zero(1),
                 <<2, c[2]>>, <<2, c[2]>> >> \o ChanSeq \o <<Zero(2)>>)

\* distancetop has one byte.
ElectionTlv ==
  Tlv("election", << Zero(1), Zero(2), <<1, election.height % 256>>, Zero(1),
                     <<6, election.master_addr>>, <<4, election.master_metric>>,
                     <<4, election.self_metric>>, Zero(2) >>)

ChanSeqTlv == Tlv("chanseq", ChanSeq \o <<Zero(3)>>)

ElectionV2Tlv ==
  Tlv("election_v2",
      << <<6, election.master_addr>>, <<6, election.sync_addr>>,
         <<4, election.master_counter>>, <<4, election.height>>,
         <<4, election.master_metric>>, <<4, election.self_metric>>,
         Zero(4), Zero(4), <<4, election.self_counter>> >>)

ServiceParamsTlv == Tlv("service", <<Zero(3), Zero(2), Zero(4)>>)

HtCapabilitiesTlv == Tlv("ht", <<Zero(2), Zero(2), Zero(1), Zero(1), Zero(2)>>)

ArpaTlv == Tlv("arpa", << Zero(1), <<1, NameLength>>, <<NameLength, Name>>, Zero(2) >>)

\* The flags 0x8f24, as the set of those that the receiver knows.
DataPathTlv ==
  Tlv("data_path", << <<2, {"country", "social", "awdl_addr"}>>, <<3, "X0">>,
                      <<2, chan>>, <<6, Sender>>, Zero(2) >>)

VersionTlv == Tlv("version", << <<1, Version>>, <<1, DevClass>> >>)

\* ieee80211_init_awdl_hdr.  Nothing that is modelled reads the sequence
\* number.
Ieee80211Hdr(type, src, dst) ==
  Encode(<< <<2, type>>, Zero(2), <<6, dst>>, <<6, src>>, <<6, "bssid">>, Zero(2) >>)

IEEE80211_HDR_LEN == 24

\* awdl_init_action
ActionHdr(subtype) ==
  Encode(<< <<1, "vendor">>, <<3, "oui">>, <<1, "awdl">>, <<1, "compat">>,
            <<1, subtype>>, Zero(1), Zero(4), Zero(4) >>)

ACTION_HDR_LEN == 16

\* awdl_init_full_action_frame, without the radiotap header that the driver
\* takes off.
ActionFrame(subtype, c) ==
  FlattenSeq(
    << Ieee80211Hdr("action", Sender, "broadcast"), ActionHdr(subtype),
       SyncParamsTlv(c), ElectionTlv, ChanSeqTlv, ElectionV2Tlv, ServiceParamsTlv >>
    \o (IF subtype = "MIF" THEN <<HtCapabilitiesTlv, ArpaTlv>> ELSE <<>>)
    \o <<DataPathTlv, VersionTlv>>)

-----------------------------------------------------------------------------
(* src/src/rx.c: a handler maps s = [peer, sync, ok] to its next value.     *)

NewElection ==
  [height |-> 0, master_addr |-> Sender, sync_addr |-> Sender,
   master_metric |-> 60, self_metric |-> 60,
   master_counter |-> 0, self_counter |-> 0]

NewPeer ==
  [election |-> NewElection, sequence |-> [i \in 1 .. Slots |-> 0],
   name |-> "", country |-> "NA", version |-> 0, devclass |-> 0,
   supports_v2 |-> FALSE, sent_mif |-> FALSE, is_valid |-> FALSE]

\* Wrong: every node sets our clock.
HandleSyncParamsOfAnyone(s, val) ==
  LET r == ReadAll([next |-> 0, aw |-> 0], val, << <<1, 2, "next">>, <<29, 2, "aw">> >>)
  IN  [s EXCEPT !.sync = IF r.ok THEN r.rec ELSE @, !.ok = r.ok]

HandleSyncParams(s, val) ==
  LET r == ReadAll([next |-> 0, aw |-> 0], val, << <<1, 2, "next">>, <<29, 2, "aw">> >>)
  IN  IF following
      THEN [s EXCEPT !.sync = IF r.ok THEN r.rec ELSE @, !.ok = r.ok]
      ELSE s

\* awdl_chan_encoding_size
EncodingSize(enc) ==
  CASE enc = "simple" -> 1 [] enc \in {"legacy", "opclass"} -> 2 [] OTHER -> 0

\* Only one configuration is supported; a refused TLV changes nothing.
HandleChanSeq(s, val) ==
  LET size == EncodingSize(Read(val, 1, 1))
      list == [i \in 1 .. Slots |-> Read(val, 6 + size * (i - 1), size)]
      ok == /\ Read(val, 0, 1) = Slots - 1
            /\ Read(val, 2, 1) = 0
            /\ Read(val, 3, 1) = Presence - 1
            /\ Read(val, 4, 2) = "repeat"
            /\ size > 0
            /\ \A i \in 1 .. Slots : list[i] # OutOfBounds
  IN  IF ok THEN [s EXCEPT !.peer.sequence = list] ELSE [s EXCEPT !.ok = FALSE]

ElectionPlan ==
  << <<3, 1, "height">>, <<5, 6, "master_addr">>, <<11, 4, "master_metric">>,
     <<15, 4, "self_metric">> >>

HandleElection(s, val) ==
  LET r == ReadAll(s.peer.election, val, ElectionPlan)
  IN  IF s.peer.supports_v2 THEN s
      ELSE [s EXCEPT !.peer.election = r.rec, !.ok = r.ok]

\* Wrong: counter and height are swapped.
ElectionV2PlanSwapped ==
  << <<12, 4, "height">>, <<0, 6, "master_addr">>, <<6, 6, "sync_addr">>,
     <<16, 4, "master_counter">>, <<20, 4, "master_metric">>,
     <<24, 4, "self_metric">>, <<36, 4, "self_counter">> >>

ElectionV2Plan ==
  << <<16, 4, "height">>, <<0, 6, "master_addr">>, <<6, 6, "sync_addr">>,
     <<12, 4, "master_counter">>, <<20, 4, "master_metric">>,
     <<24, 4, "self_metric">>, <<36, 4, "self_counter">> >>

HandleElectionV2(s, val) ==
  LET r == ReadAll(s.peer.election, val, ElectionV2Plan)
  IN  [s EXCEPT !.peer.election = r.rec, !.ok = r.ok,
                !.peer.supports_v2 = @ \/ r.ok]

\* read_int_string: no more of the name than there is room for.
HandleArpa(s, val) ==
  LET len == Read(val, 1, 1)
      room == IF len > HOST_NAME_LENGTH_MAX THEN HOST_NAME_LENGTH_MAX ELSE len
      r == ReadAll(s.peer, val, << <<2, room, "name">> >>)
  IN  [s EXCEPT !.peer = r.rec, !.ok = r.ok]

\* The optional fields, <<width, flag, what becomes of it>>, follow each other.
\* Nothing uses the address of the infrastructure network.
DataPathFields ==
  << <<3, "country", "country">>, <<2, "social", "ignored">>,
     <<6, "infra_info", "ignored">>, <<2, "infra_info", "ignored">>,
     <<6, "infra_addr", "ignored">>, <<6, "awdl_addr", "ignored">> >>

DataPathPlan(flags) ==
  LET Present(f) == f[2] \in flags
      fields == SelectSeq(DataPathFields, Present)
      offset[i \in 1 .. Len(fields)] ==
        IF i = 1 THEN 2 ELSE offset[i - 1] + fields[i - 1][1]
  IN  [i \in 1 .. Len(fields) |-> <<offset[i], fields[i][1], fields[i][3]>>]

HandleDataPath(s, val) ==
  LET r == ReadAll([country |-> s.peer.country, ignored |-> 0], val,
                   DataPathPlan(Read(val, 0, 2)))
  IN  [s EXCEPT !.peer.country = r.rec.country, !.ok = r.ok]

HandleVersion(s, val) ==
  LET r == ReadAll(s.peer, val, << <<0, 1, "version">>, <<1, 1, "devclass">> >>)
  IN  [s EXCEPT !.peer = IF r.ok THEN r.rec ELSE @, !.ok = r.ok]

\* awdl_handle_tlv
HandleTlv(s, type, val) ==
  CASE type = "sync" -> HandleSyncParams(s, val)
    [] type = "chanseq" -> HandleChanSeq(s, val)
    [] type = "election" -> HandleElection(s, val)
    [] type = "election_v2" -> HandleElectionV2(s, val)
    [] type = "arpa" -> HandleArpa(s, val)
    [] type = "data_path" -> HandleDataPath(s, val)
    [] type = "version" -> HandleVersion(s, val)
    [] OTHER -> s

\* Wrong: a peer counts without a MIF.
RefreshedWithoutMif(p) ==
  [p EXCEPT !.is_valid = @ \/ (p.version # 0 /\ p.devclass # 0)]

\* awdl_peer_add
Refreshed(p) ==
  [p EXCEPT !.is_valid = @ \/ (p.sent_mif /\ p.version # 0 /\ p.devclass # 0)]

\* awdl_parse_action_hdr: the subtype, or "none".
ActionSubtype(buf) ==
  IF /\ Len(buf) >= ACTION_HDR_LEN
     /\ Read(buf, 0, 1) = "vendor" /\ Read(buf, 1, 3) = "oui"
     /\ Read(buf, 4, 1) = "awdl" /\ Read(buf, 5, 1) = "compat"
     /\ Read(buf, 6, 1) \in {"PSF", "MIF"}
  THEN Read(buf, 6, 1) ELSE "none"
=============================================================================
