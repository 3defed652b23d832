------------------------------- MODULE Receive -------------------------------
(***************************************************************************)
(* The receive path of the daemon: awdl_receive_frame (src/daemon/core.c)  *)
(* and awdl_rx (src/src/rx.c).                                             *)
(*                                                                         *)
(* Handling a frame takes several steps here, one for every iteration of   *)
(* the loops over TLVs and subframes: each may fail and leave behind what  *)
(* the earlier ones did.  No other callback runs in between.               *)
(*                                                                         *)
(* A frame is [radiotap, flags, bytes, kind, broken, missing, carries]:    *)
(* whether the radiotap header is good, malformed or longer than the       *)
(* frame; its flags field; the bytes behind it.  The others are for the    *)
(* properties: what was sent, the nodes whose part of it is malformed, how *)
(* many bytes were cut off its end on the way, and the Ethernet frames     *)
(* that were put into it.                                                  *)
(***************************************************************************)
EXTENDS DataFrame

CONSTANTS
  Self, Other,      \* our address; the nodes other than Sender
  MAX_NUM_AMPDU     \* room in the array of converted frames

ASSUME ReceiveAssumption ==
  /\ ETHER_MAX_LEN \in Nat /\ ETHER_MAX_LEN > ETHER_LENGTH
  /\ MAX_NUM_AMPDU \in Nat \ {0}
  /\ Self \notin Other /\ Sender \notin Other \cup {Self}

VARIABLES
  pc,       \* "idle", the loop or function that handles the frame, or "done"
  left,     \* the bytes of it that are not yet handled
  from, to, \* addresses in its 802.11 header
  subtype,  \* of an action frame
  data,     \* the Ethernet frames converted so far (data_arr)
  result,   \* of the last awdl_rx
  peers,    \* the nodes of Other that are in the peer table
  host,     \* Ethernet frames handed to the host, from the last frame
  lost,     \* buffers of the last frame that nobody will free
  about     \* history: [flags, kind, missing, due] of the last frame

rxVars == <<pc, left, from, to, subtype, data, result, peers, host, lost, about>>

\* Sender's entry is peer, those of the others are not told apart.
Known == peers \cup (IF peer = NoPeer THEN {} ELSE {Sender})

Errors == {"UNEXPECTED_FORMAT", "UNEXPECTED_TYPE", "TOO_SHORT"}

NoFrame == [flags |-> "none", kind |-> "other", missing |-> 0, due |-> <<>>]

RxInit ==
  /\ pc = "idle" /\ left = <<>> /\ from = Self /\ to = Self /\ subtype = "none"
  /\ data = <<>> /\ result = "OK" /\ peers = {} /\ host = <<>> /\ lost = 0
  /\ about = NoFrame

-----------------------------------------------------------------------------
\* The flags that check_fcs sees.  radiotap_parse leaves the variable alone
\* when the field is absent, and awdl_rx does not initialise it.
SeenFlags(f) ==
  IF f.flags = "absent" THEN {"none", "fcs", "badfcs"} ELSE {f.flags}

\* check_fcs, and what it leaves of the frame.
FailedCrc(f, flags) == flags = "badfcs" \/ (flags = "fcs" /\ Len(f.bytes) < 4)
Unchecked(f, flags) == IF flags = "fcs" THEN Take(f.bytes, 4) ELSE f.bytes

\* The QoS control field follows the header.
QosBody(buf) == Strip(buf, IEEE80211_HDR_LEN + 2)

\* awdl_rx up to the dispatch: a result, or the function that goes on.
Dispatch(f, flags) ==
  LET buf == Unchecked(f, flags)
      fc == Read(buf, 0, 2)
  IN  IF f.radiotap = "bad" THEN "UNEXPECTED_FORMAT"
      ELSE IF f.radiotap = "long" THEN "TOO_SHORT"
      ELSE IF FailedCrc(f, flags) THEN "IGNORE_FAILED_CRC"
      ELSE IF Len(buf) < IEEE80211_HDR_LEN THEN "TOO_SHORT"
      ELSE IF Read(buf, 10, 6) = Self THEN "IGNORE_FROM_SELF"
      ELSE IF fc \in {"action", "data"} THEN fc
      ELSE IF fc # "qos data" THEN "UNEXPECTED_TYPE"
      ELSE IF Len(buf) < IEEE80211_HDR_LEN + 2 THEN "TOO_SHORT"
      ELSE IF Read(buf, IEEE80211_HDR_LEN, 2) = "A-MSDU" THEN "amsdu"
      ELSE "qos data"

\* What the host should get of a frame, in this order: what the peers put
\* into it, and nothing when a peer's part of it is malformed.
Due(f) ==
  IF f.broken \cap Known # {} THEN <<>>
  ELSE SelectSeq(f.carries, LAMBDA e : e.src \in Known)

\* wlan_device_ready: pcap hands over one frame.
ReceiveFrame(f) ==
  /\ pc = "idle"
  /\ \E flags \in SeenFlags(f) :
       LET next == Dispatch(f, flags)
           buf == Unchecked(f, flags)
           goes == next \in {"action", "data", "qos data", "amsdu"}
       IN  /\ pc' = CASE ~goes -> "done"
                      [] next = "qos data" -> "data"
                      [] OTHER -> next
           /\ result' = IF goes THEN "OK" ELSE next
           /\ from' = IF goes THEN Read(buf, 10, 6) ELSE Self
           /\ to' = IF goes THEN Read(buf, 4, 6) ELSE Self
           /\ left' = CASE ~goes -> <<>>
                        [] next \in {"qos data", "amsdu"} -> QosBody(buf)
                        [] OTHER -> Strip(buf, IEEE80211_HDR_LEN)
  /\ about' = [flags |-> f.flags, kind |-> f.kind, missing |-> f.missing,
               due |-> Due(f)]
  /\ UNCHANGED <<subtype, data, peers, host, lost>>

\* Wrong: frames are handed over and not freed.
ReturnNeverFrees(r, out) ==
  /\ pc' = "done" /\ left' = <<>> /\ data' = <<>> /\ from' = Self /\ to' = Self
  /\ result' = r
  /\ host' = IF r = "OK" THEN out ELSE <<>>
  /\ lost' = Len(out)
  /\ UNCHANGED <<peers, about>>

\* awdl_receive_frame after awdl_rx: converted frames are handed over and
\* freed when all went well, and only then.
Return(r, out) ==
  /\ pc' = "done" /\ left' = <<>> /\ data' = <<>> /\ from' = Self /\ to' = Self
  /\ result' = r
  /\ host' = IF r = "OK" THEN out ELSE <<>>
  /\ lost' = IF r = "OK" THEN 0 ELSE Len(out)
  /\ UNCHANGED <<peers, about>>

\* Back in the event loop.
Done ==
  /\ pc = "done"
  /\ pc' = "idle" /\ subtype' = "none" /\ result' = "OK"
  /\ host' = <<>> /\ lost' = 0 /\ about' = NoFrame
  /\ UNCHANGED <<left, from, to, data, peers, peer, sync>>

-----------------------------------------------------------------------------
(* awdl_rx_action.  All action frames are those of Sender. *)

\* Not an AWDL action frame, such as a block acknowledgement.
RxIgnoreAction ==
  /\ pc = "action" /\ ActionSubtype(left) = "none"
  /\ Return("IGNORE", <<>>)
  /\ UNCHANGED <<subtype, peer, sync>>

\* The signal is below the threshold.
RxWeakAction ==
  /\ pc = "action" /\ ActionSubtype(left) # "none"
  /\ Return("IGNORE_RSSI", <<>>)
  /\ UNCHANGED <<subtype, peer, sync>>

\* awdl_peer_add finds no memory for a new entry.  That an entry cannot be
\* found right after it was added (rx.c:288) does not happen: module Hashmap.
RxNoMemory ==
  /\ pc = "action" /\ ActionSubtype(left) # "none" /\ peer = NoPeer
  /\ Return("IGNORE", <<>>)
  /\ UNCHANGED <<subtype, peer, sync>>

\* Up to the loop over the TLVs.
RxAction ==
  /\ pc = "action" /\ ActionSubtype(left) # "none"
  /\ pc' = "tlv"
  /\ peer' = Refreshed(IF peer = NoPeer THEN NewPeer ELSE peer)
  /\ subtype' = ActionSubtype(left)
  /\ left' = Strip(left, ACTION_HDR_LEN)
  /\ UNCHANGED <<from, to, data, result, peers, host, lost, about, sync>>

\* One TLV; the first that fails ends the frame.
RxTlv ==
  /\ pc = "tlv" /\ TlvValue(left) # OutOfBounds
  /\ LET val == TlvValue(left)
         s == HandleTlv([peer |-> peer, sync |-> sync, ok |-> TRUE], Read(left, 0, 1), val)
     IN  /\ peer' = s.peer /\ sync' = s.sync
         /\ IF s.ok
            THEN /\ left' = Strip(left, 3 + Len(val))
                 /\ UNCHANGED <<pc, from, to, data, result, peers, host, lost, about>>
            ELSE Return("UNEXPECTED_FORMAT", <<>>)
  /\ UNCHANGED subtype

\* The end of the frame, with or without bytes that are no TLV.
RxActionEnd ==
  /\ pc = "tlv" /\ TlvValue(left) = OutOfBounds
  /\ \/ /\ left = <<>>
        /\ peer' = Refreshed([peer EXCEPT !.sent_mif = @ \/ subtype = "MIF"])
        /\ Return("OK", <<>>)
     \/ /\ left # <<>>
        /\ Return("UNEXPECTED_FORMAT", <<>>)
        /\ UNCHANGED peer
  /\ UNCHANGED <<subtype, sync>>

-----------------------------------------------------------------------------
(* awdl_rx_data and awdl_rx_data_amsdu. *)

\* One payload, from and to those of the header.
RxData ==
  /\ pc = "data"
  /\ LET r == DataResult(left, from \in Known)
     IN  Return(r, IF r = "OK" THEN <<Converted(left, from, to)>> ELSE <<>>)
  /\ UNCHANGED <<subtype, peer, sync>>

Padding(len) == (4 - ((14 + len) % 4)) % 4

\* One subframe.  One from a node that is not a peer is skipped; any other
\* problem ends the A-MSDU.
RxSubframe ==
  /\ pc = "amsdu" /\ left # <<>>
  /\ LET dst == Read(left, 0, 6)
         src == Read(left, 6, 6)
         len == Read(left, 12, 2)
         cut == IF len \in {OutOfBounds, Garbage} THEN TRUE ELSE 14 + len > Len(left)
         sub == SubSeq(left, 15, 14 + len)
         r == DataResult(sub, src \in Known)
         out == IF r = "OK" THEN Append(data, Converted(sub, src, dst)) ELSE data
         rest == Strip(left, 14 + len)
     IN  \/ /\ cut
            /\ Return("TOO_SHORT", data)
         \/ /\ ~cut /\ r \in Errors
            /\ Return(r, data)
         \/ /\ ~cut /\ r \notin Errors
            /\ Len(rest) \in 1 .. Padding(len) - 1
            /\ Return("TOO_SHORT", out)
         \/ /\ ~cut /\ r \notin Errors
            /\ Len(rest) \notin 1 .. Padding(len) - 1
            /\ data' = out
            /\ left' = IF rest = <<>> THEN rest ELSE Strip(rest, Padding(len))
            /\ UNCHANGED <<pc, from, to, result, peers, host, lost, about>>
  /\ UNCHANGED <<subtype, peer, sync>>

RxAmsduEnd ==
  /\ pc = "amsdu" /\ left = <<>>
  /\ Return("OK", data)
  /\ UNCHANGED <<subtype, peer, sync>>

RxStep ==
  \/ RxIgnoreAction \/ RxWeakAction \/ RxNoMemory \/ RxAction \/ RxTlv \/ RxActionEnd
  \/ RxData \/ RxSubframe \/ RxAmsduEnd \/ Done
=============================================================================
