------------------------------- MODULE TxQueue -------------------------------
(***************************************************************************)
(* The transmit side of the daemon (src/daemon/core.c): frames of the host *)
(* are read from the tun device into one slot for a unicast frame (next)   *)
(* and a bounded queue for multicast frames, and are sent when the         *)
(* schedule of TxSchedule allows it.  Three watchers of the event loop     *)
(* drive it: the readable host device, the unicast timer and the multicast *)
(* timer.                                                                  *)
(*                                                                         *)
(* Each callback runs to its end, and host_device_ready calls the other    *)
(* two, so an action is a composition of functions on the daemon's state   *)
(* st.  Time counts modulo the channel sequence.                           *)
(***************************************************************************)
EXTENDS TxSchedule, Sequences, FiniteSets

CONSTANTS
  Peer,       \* addresses of other nodes
  Dest,       \* where the frames of the host go, see below
  Capacity,   \* of tx_queue_multicast
  MaxFrames,  \* bound: frames the host writes
  MaxChanges  \* bound: moves of our clock and new channel sequences

ASSUME TxAssumption ==
  /\ Capacity \in Nat \ {0}
  /\ MaxFrames \in Nat /\ MaxChanges \in Nat
  /\ {"mcast", "self", "runt"} \cap Peer = {}
  /\ Dest \subseteq Peer \cup {"mcast", "self", "runt"}

VARIABLES
  st,       \* the daemon's side, a record: see TypeOK
  host,     \* frames in the tun device, oldest first
  written,  \* number of frames the host has written
  known,    \* the peers in the peer table
  slots,    \* slots[p]: the slots of peer p that are on our channel
  now,      \* our clock
  changes,  \* moves of our clock and new channel sequences so far
  sent,     \* history: frames handed to the radio, in order
  gone      \* history: frames dropped or sent back to the host

vars == <<st, host, written, known, slots, now, changes, sent, gone>>

\* A frame goes to a peer, to all, or back to us (self); a runt is too short
\* to hold a destination.
Frame == [id : 1 .. MaxFrames, to : Dest]

None == [id |-> 0, to |-> "runt"]

IsMulticast(f) == f.to = "mcast"

\* A timer is the time until it fires, or off.
Off == -1

Cycle == Slots * EawUs

sync == [last_update |-> 0, aw_counter |-> 0]

\* awdl_init, awdl_schedule: both timers start at 0.
Init ==
  /\ st = [next |-> None, mq |-> <<>>, tx_timer |-> 0, tx_mcast_timer |-> 0,
           fed |-> FALSE]
  /\ host = <<>> /\ written = 0 /\ known = {}
  /\ slots \in [Peer -> Common]
  /\ now = 0 /\ changes = 0
  /\ sent = <<>> /\ gone = {}

-----------------------------------------------------------------------------
(* poll_host_device: reads while there is no unicast frame waiting and the *)
(* multicast queue is not full.  It therefore reads a run of multicast     *)
(* frames and then, if there is room left, the frame that ends the run.    *)

\* Wrong: the queue is found full one frame too late.
RoomForOneMore == IF st.next = None THEN Capacity - Len(st.mq) + 1 ELSE 0

Room == IF st.next = None THEN Capacity - Len(st.mq) ELSE 0

\* Length of the run of multicast frames at the front of the device.
RunLength ==
  CHOOSE n \in 0 .. Len(host) :
    /\ \A i \in 1 .. n : IsMulticast(host[i])
    /\ n < Len(host) => ~IsMulticast(host[n + 1])

NewMulticast == IF RunLength < Room THEN RunLength ELSE Room

ReadsOther == NewMulticast < Room /\ NewMulticast < Len(host)

Other == host[NewMulticast + 1]

NewUnicast == ReadsOther /\ Other.to # "runt"

\* circular_buf_put overwrites the oldest frame when the queue is full.
PutAll(q, frames) ==
  LET all == q \o frames
  IN  IF Len(all) <= Capacity THEN all
      ELSE SubSeq(all, Len(all) - Capacity + 1, Len(all))

\* Wrong: new multicast frames go to the front.
PolledToFront ==
  [st EXCEPT !.mq = PutAll(SubSeq(host, 1, NewMulticast), @),
             !.next = IF NewUnicast THEN Other ELSE @,
             !.fed = FALSE]

Polled ==
  [st EXCEPT !.mq = PutAll(@, SubSeq(host, 1, NewMulticast)),
             !.next = IF NewUnicast THEN Other ELSE @,
             !.fed = FALSE]

-----------------------------------------------------------------------------
(* The two send callbacks, as the state they leave and the frame they send *)
(* (or None).                                                              *)

\* awdl_send_multicast after the send: a timer for what is left, or a call
\* of the host watcher for more.
RearmMulticast(s, in) ==
  IF s.mq # <<>> THEN [s EXCEPT !.tx_mcast_timer = in]
                 ELSE [s EXCEPT !.fed = TRUE]

SendsMulticast(s) == s.mq # <<>> /\ MulticastDelay(now, sync) = 0

SendMulticast(s) ==
  RearmMulticast(IF SendsMulticast(s) THEN [s EXCEPT !.mq = Tail(@)] ELSE s,
                 MulticastDelay(now, sync))

\* awdl_send_unicast: next is sent to a peer in the table, sent back to the
\* host (self), or dropped; only the first has to wait.
UnicastIn(s) ==
  IF s.next.to \in known THEN UnicastDelay(now, sync, slots[s.next.to]) ELSE 0

Leaves(s) == s.next # None /\ UnicastIn(s) = 0

SendsUnicast(s) == Leaves(s) /\ s.next.to \in known

\* Wrong: the host is polled, but no timer set.
RearmUnicastOnlyFeeds(s, in) == [s EXCEPT !.fed = TRUE]

RearmUnicast(s, in) ==
  IF s.next # None THEN [s EXCEPT !.tx_timer = in]
                   ELSE [s EXCEPT !.fed = TRUE]

SendUnicast(s) ==
  RearmUnicast(IF Leaves(s) THEN [s EXCEPT !.next = None] ELSE s, UnicastIn(s))

\* A send fails without anyone noticing: awdl_send_data's result is ignored
\* and the frame is freed, so "sent" is handed to the radio.
Log(mcast, ucast, lost) == /\ sent' = sent \o mcast \o ucast
                           /\ gone' = gone \cup lost

One(cond, f) == IF cond THEN <<f>> ELSE <<>>

Lost(s) == IF Leaves(s) /\ ~SendsUnicast(s) THEN {s.next} ELSE {}

-----------------------------------------------------------------------------
\* host_device_ready: the watcher is level triggered, or was fed.
HostDeviceReady ==
  /\ host # <<>> \/ st.fed
  /\ LET s1 == IF NewMulticast > 0 THEN SendMulticast(Polled) ELSE Polled
         s2 == IF NewUnicast THEN SendUnicast(s1) ELSE s1
         runt == IF ReadsOther /\ ~NewUnicast THEN {Other} ELSE {}
     IN  /\ st' = s2
         /\ Log(One(NewMulticast > 0 /\ SendsMulticast(Polled), Head(Polled.mq)),
                One(NewUnicast /\ SendsUnicast(s1), s1.next),
                runt \cup IF NewUnicast THEN Lost(s1) ELSE {})
  /\ host' = SubSeq(host, NewMulticast + (IF ReadsOther THEN 2 ELSE 1), Len(host))
  /\ UNCHANGED <<written, known, slots, now, changes>>

\* The one-shot timers: they are off when their callback runs.
TxTimer ==
  /\ st.tx_timer = 0
  /\ LET s == [st EXCEPT !.tx_timer = Off]
     IN  st' = SendUnicast(s) /\ Log(<<>>, One(SendsUnicast(s), s.next), Lost(s))
  /\ UNCHANGED <<host, written, known, slots, now, changes>>

TxMcastTimer ==
  /\ st.tx_mcast_timer = 0
  /\ LET s == [st EXCEPT !.tx_mcast_timer = Off]
     IN  st' = SendMulticast(s) /\ Log(One(SendsMulticast(s), Head(s.mq)), <<>>, {})
  /\ UNCHANGED <<host, written, known, slots, now, changes>>

\* Expired timers are served before time goes on; module Schedule has timers
\* that fire late.
Tick ==
  /\ st.tx_timer # 0 /\ st.tx_mcast_timer # 0
  /\ LET Down(timer) == IF timer = Off THEN Off ELSE timer - 1
     IN  st' = [st EXCEPT !.tx_timer = Down(@), !.tx_mcast_timer = Down(@)]
  /\ now' = (now + 1) % Cycle
  /\ UNCHANGED <<host, written, known, slots, changes, sent, gone>>

\* The host writes a frame.
HostWrites(to) ==
  /\ written < MaxFrames
  /\ written' = written + 1
  /\ host' = Append(host, [id |-> written + 1, to |-> to])
  /\ UNCHANGED <<st, known, slots, now, changes, sent, gone>>

\* Peers come and go (module PeerTable).
PeersChange(k) ==
  /\ known' = k
  /\ UNCHANGED <<st, host, written, slots, now, changes, sent, gone>>

\* A peer advertises another channel sequence, or the sync master moves our
\* clock (module Sync); the timers are left as they are.
SlotsChange(new, t) ==
  /\ changes < MaxChanges
  /\ changes' = changes + 1
  /\ slots' = new /\ now' = t
  /\ UNCHANGED <<st, host, written, known, sent, gone>>

Next ==
  \/ HostDeviceReady \/ TxTimer \/ TxMcastTimer \/ Tick
  \/ \E to \in Dest : HostWrites(to)
  \/ \E k \in SUBSET Peer : PeersChange(k)
  \/ \E new \in [Peer -> Common] : SlotsChange(new, now)
  \/ \E t \in 0 .. Cycle - 1 : SlotsChange(slots, t)

\* The event loop serves every pending watcher, and time passes.
Fairness ==
  /\ WF_vars(HostDeviceReady) /\ WF_vars(TxTimer) /\ WF_vars(TxMcastTimer)
  /\ WF_vars(Tick)

Spec == Init /\ [][Next]_vars

FairSpec == Spec /\ Fairness

-----------------------------------------------------------------------------
\* Type invariant.
TypeOK ==
  /\ st \in [next : Frame \cup {None}, mq : Seq(Frame), tx_timer : Int,
             tx_mcast_timer : Int, fed : BOOLEAN]
  /\ host \in Seq(Frame)
  /\ written \in 0 .. MaxFrames
  /\ known \subseteq Peer /\ slots \in [Peer -> Common]
  /\ now \in 0 .. Cycle - 1 /\ changes \in 0 .. MaxChanges
  /\ sent \in Seq(Frame)
  /\ gone \subseteq Frame

\* Nothing waits without a timer: whenever next or the multicast queue hold a
\* frame, the timer that will send it is armed, although host_device_ready
\* calls the senders itself and shares the timers with them.
NoLostWakeup ==
  /\ st.next # None => st.tx_timer # Off
  /\ st.mq # <<>> => st.tx_mcast_timer # Off

Waiting == IF st.next = None THEN <<>> ELSE <<st.next>>

Ids(s) == {s[i].id : i \in 1 .. Len(s)}

\* Every frame the host wrote is in exactly one place: still in the device,
\* waiting, handed to the radio once, or dropped.  In particular the queue is
\* never overwritten: poll_host_device stops reading while it is full.
Accounted ==
  LET lost == {f.id : f \in gone}
      places == <<Ids(host), Ids(st.mq), Ids(Waiting), Ids(sent), lost>>
  IN  /\ UNION {places[i] : i \in 1 .. 5} = 1 .. written
      /\ \A i, j \in 1 .. 5 : i # j => places[i] \cap places[j] = {}
      /\ Cardinality(Ids(sent)) = Len(sent)

\* The multicast frames of s (or its other frames) have increasing numbers.
Ordered(s, multicast) ==
  \A i, j \in 1 .. Len(s) :
    i < j /\ IsMulticast(s[i]) = multicast /\ IsMulticast(s[j]) = multicast
      => s[i].id < s[j].id

\* Multicast frames are sent in the order in which the host wrote them, and
\* so are unicast frames.  (The two kinds may overtake each other.)
InOrder ==
  /\ \A i \in 1 .. Len(st.mq) : IsMulticast(st.mq[i])
  /\ ~IsMulticast(st.next)
  /\ Ordered(sent \o st.mq \o host, TRUE)
  /\ Ordered(sent \o Waiting \o host, FALSE)

\* The frame in next waits for a peer that is never on our channel.
Blocked ==
  st.next # None /\ st.next.to \in known /\ slots[st.next.to] = {}

\* Every frame the host writes leaves the daemon in the end: the timers lead
\* both senders into slots in which they may send, whatever arrives meanwhile.
\* (The host writes MaxFrames, so infinitely often none waiting means that each
\* one leaves.)  There is one exception: a unicast frame for a peer without a
\* common slot stays in next, and poll_host_device reads nothing behind it,
\* until the peer is removed.
AllServed ==
  <>[](~Blocked) => []<>(1 .. written \subseteq Ids(sent) \cup {f.id : f \in gone})
=============================================================================
