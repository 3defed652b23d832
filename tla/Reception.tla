------------------------------ MODULE Reception ------------------------------
(***************************************************************************)
(* Two nodes that run this code: one sends action frames and what its host *)
(* writes, the other receives them among the frames of others.  Any frame  *)
(* may be lost.  Action and data frames meet in the peer table: data is    *)
(* taken only from nodes with an entry, and an action frame makes one.     *)
(***************************************************************************)
EXTENDS Receive

CONSTANTS
  Elections,      \* election states the sender can be in
  Channels,       \* channels the sender can be started with
  Clocks,         \* <<time to the next EAW, window number>> of the sender
  MTU,            \* of the host device
  HostFrames,     \* Ethernet frames that the sender's host writes
  Foreign,        \* frames of nodes that run other code
  Flags           \* radiotap flags with which the sender's frames arrive

\* Frames that the host may write fit into the buffers of poll_host_device
\* and awdl_rx_data; awdl_init_state clamps our name; no
\* A-MSDU has more subframes than the array of awdl_receive_frame.
ASSUME ReceptionAssumption ==
  /\ MTU \in Nat /\ ETHER_LENGTH + MTU <= ETHER_MAX_LEN
  /\ \A e \in HostFrames : Len(e.payload) <= MTU
  /\ NameLength <= HOST_NAME_LENGTH_MAX
  /\ \A f \in Foreign : Len(f.carries) <= MAX_NUM_AMPDU

VARIABLES
  told,   \* history: what the last frame that was taken said of the election
  mif     \* history: a MIF was handled to its end since NoPeer

vars == <<rxVars, election, chan, following, peer, sync, told, mif>>

Init ==
  /\ RxInit
  /\ election = NewElection
  /\ chan \in Channels
  /\ following = FALSE
  /\ peer = NoPeer
  /\ sync = [next |-> 0, aw |-> 0]
  /\ told = NewElection /\ mif = FALSE

\* A frame of the sender on the air.  A driver that reports an FCS leaves it
\* at the end.
OnAir(bytes, flags, kind, carries) ==
  [radiotap |-> "ok", flags |-> flags, kind |-> kind, broken |-> {}, missing |-> 0,
   carries |-> carries,
   bytes |-> IF flags = "fcs" THEN bytes \o Encode(<< <<4, "fcs">> >>) ELSE bytes]

\* awdl_send_action, and the frame arrives.
SendAction(type, c, flags) ==
  /\ ReceiveFrame(OnAir(ActionFrame(type, c), flags, type, <<>>))
  /\ UNCHANGED <<election, chan, following, peer, sync, told, mif>>

\* host_recv: one frame, as much of it as the buffer takes.
HostRecv(e) ==
  LET buf == EtherFrame(e)
  IN  SubSeq(buf, 1, IF Len(buf) > ETHER_MAX_LEN THEN ETHER_MAX_LEN ELSE Len(buf))

\* awdl_send_data for what the host wrote, and the frame arrives.
HostWrites(e, flags) ==
  /\ SendData(HostRecv(e)) # TX_FAIL
  /\ ReceiveFrame(OnAir(SendData(HostRecv(e)), flags, "own data", <<e>>))
  /\ UNCHANGED <<election, chan, following, peer, sync, told, mif>>

ForeignFrame(f) ==
  /\ ReceiveFrame(f)
  /\ UNCHANGED <<election, chan, following, peer, sync, told, mif>>

Handle ==
  /\ RxStep
  /\ told' = IF pc = "action" /\ pc' = "tlv" THEN election ELSE told
  /\ mif' = (mif \/ (pc = "tlv" /\ subtype = "MIF" /\ result' = "OK" /\ pc' = "done"))
  /\ UNCHANGED <<election, chan, following>>

\* Elections and timeouts, never while a frame is handled.
SenderElects(e) ==
  /\ pc = "idle" /\ election' = e
  /\ UNCHANGED <<rxVars, chan, following, peer, sync, told, mif>>

ReceiverElects(f) ==
  /\ pc = "idle" /\ following' = (f /\ peer # NoPeer)
  /\ UNCHANGED <<rxVars, election, chan, peer, sync, told, mif>>

Forget ==
  /\ pc = "idle" /\ peer' = NoPeer /\ mif' = FALSE /\ following' = FALSE
  /\ UNCHANGED <<rxVars, election, chan, sync, told>>

\* The entries of other nodes come and go (module PeerTable).
OthersChange(p) ==
  /\ pc = "idle" /\ peers' = p
  /\ UNCHANGED <<pc, left, from, to, subtype, data, result, host, lost, about,
                 election, chan, following, peer, sync, told, mif>>

Next ==
  \/ \E type \in {"PSF", "MIF"}, c \in Clocks, flags \in Flags : SendAction(type, c, flags)
  \/ \E e \in HostFrames, flags \in Flags : HostWrites(e, flags)
  \/ \E f \in Foreign : ForeignFrame(f)
  \/ Handle
  \/ \E e \in Elections : SenderElects(e)
  \/ \E f \in BOOLEAN : ReceiverElects(f)
  \/ Forget
  \/ \E p \in SUBSET Other : OthersChange(p)

Spec == Init /\ [][Next]_vars

-----------------------------------------------------------------------------
\* What becomes of an Ethernet frame on its way.  Our transmitter sends
\* everything as IPv6 (tx.c:46); the last n bytes do not arrive; and the
\* receiver leaves out a payload that is too long for its buffer (rx.c:377).
ArrivesAs(e, n) ==
  LET type == IF about.kind = "own data" THEN "IPv6" ELSE e.type
      cut == [e EXCEPT !.type = type, !.payload = Take(@, n)]
  IN  IF Len(EtherFrame(cut)) <= ETHER_MAX_LEN THEN cut ELSE [cut EXCEPT !.payload = <<>>]

\* What the host is to get of a frame that lost its last n bytes: a plain
\* frame cut within its payload is taken for a shorter one, any other cut
\* gives nothing.
ToHost(n) ==
  IF \/ n > 0 /\ about.kind = "amsdu"
     \/ \E i \in 1 .. Len(about.due) : n > Len(about.due[i].payload)
  THEN <<>>
  ELSE [i \in 1 .. Len(about.due) |-> ArrivesAs(about.due[i], n)]

\* The host got the frames es: each in a buffer of fixed length, behind it
\* only what was in memory before.
Delivered(es) ==
  /\ Len(host) = Len(es)
  /\ \A i \in 1 .. Len(host) :
       LET e == EtherFrame(es[i])
       IN  /\ IsPrefix(e, host[i])
           /\ \A j \in Len(e) + 1 .. Len(host[i]) : host[i][j][3] = Garbage

\* The receiving host gets exactly the frames that the peers among the senders
\* wrote: same addresses, same bytes, in order, none missing, none added,
\* through both conversions and through A-MSDUs that mix peers and strangers;
\* and nothing of a frame in which a peer's part is malformed.
\* There are four exceptions and no other: the type of what our transmitter
\* sends, a payload that is too long (ArrivesAs), a plain frame that was cut
\* within its payload (ToHost), and a radiotap header without flags.  Then
\* check_fcs goes by an uninitialised variable: it may take 4 bytes of the
\* frame for its checksum or drop the frame, although rx.c:479 says that it
\* passes.
HostGetsWritten ==
  pc = "done" =>
    \/ Delivered(ToHost(about.missing))
    \/ about.flags = "absent" /\ (Delivered(ToHost(about.missing + 4)) \/ host = <<>>)

\* The only buffers that are never freed are those converted from an A-MSDU
\* that fails later on: awdl_receive_frame frees nothing on an error.
LostOnlyByFailedAmsdu ==
  pc = "done" /\ lost > 0 => about.kind = "amsdu" /\ result \in Errors

\* Our receiver takes every frame of our transmitter to its end, unless the
\* signal is weak, the radiotap flags are missing or there is no memory: all offsets it reads lie
\* within what tx.c filled and all its sanity checks agree.  What it then keeps
\* of the sender is what the sender was when it built the last frame that was
\* taken, all of it from that frame, although the frame has the election
\* parameters twice.
EntryIsSnapshot ==
  /\ pc = "done" /\ about.kind \in {"PSF", "MIF"} /\ about.flags # "absent" =>
       \/ result \in {"OK", "IGNORE_RSSI"}
       \/ result = "IGNORE" /\ peer = NoPeer
  /\ pc \in {"idle", "done"} /\ peer # NoPeer =>
       /\ peer.election = told
       /\ peer.sequence = [i \in 1 .. Slots |-> chan]
       /\ peer.country = "X0"
       /\ <<peer.version, peer.devclass>> \in {<<0, 0>>, <<Version, DevClass>>}

\* The sender is a valid peer, with its name known, from its first MIF on
\* that arrived in full; PSFs alone never make it one, nor a MIF that lost its
\* last TLV.
ValidFromMif ==
  pc \in {"idle", "done"} /\ peer # NoPeer =>
    /\ peer.is_valid = mif
    /\ mif => peer.name = Name

\* The clock is only ever set to a pair of values that the sender computed
\* together, and only while the sender is the sync master.
ClockTakenWhole ==
  [][sync' # sync => following /\ <<sync'.next, sync'.aw>> \in Clocks]_vars
=============================================================================
