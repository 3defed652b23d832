------------------------------ MODULE Schedule ------------------------------
(***************************************************************************)
(* A queued frame and its timer: awdl_send_unicast and awdl_send_multicast *)
(* of src/daemon/core.c send the frame at the head of their queue or arm   *)
(* the timer again, by the rules of TxSchedule.  Timers fire up to Late    *)
(* units late.                                                             *)
(***************************************************************************)
EXTENDS TxSchedule, FiniteSets

CONSTANTS
  Late,            \* bound: how late a timer fires
  MaxTries         \* bound: attempts at one frame that are counted

\* A 16-bit count of units holds the length of an EAW.
ASSUME ScheduleAssumption ==
  Late \in Nat /\ MaxTries \in Nat /\ EawTu < U16

\* The window counter wraps around after whole channel sequences.  Timers are
\* late by less than a guard, and so little that a multicast frame which
\* begins a slot before the end guard is still before it when it meets the
\* next multicast slot: in any gap slots in a row there is one.
ASSUME LatenessAssumption ==
  /\ (U16 \div Presence) % Slots = 0
  /\ 2 * (TU * UnicastGuard) + Late <= EawUs /\ Late < TU * MulticastGuard
  /\ MaxTries >= Slots + 2
  /\ \E gap \in 1 .. Slots :
       /\ \A q \in 0 .. Slots - 1 :
            \E k \in 0 .. gap - 1 : (q + k) % Slots \in MulticastSlots
       /\ 3 * (TU * MulticastGuard) + gap * Late <= EawUs + 1
       /\ MaxTries >= 2 * gap + 1

VARIABLES
  kind,    \* "unicast" or "multicast": the frame that is waiting
  common,  \* the slots of the frame's peer that are on our channel
  clock,   \* our clock when the timer fires, modulo a channel sequence
  sent,    \* the frame was sent
  tries    \* how often the timer has fired

timerVars == <<kind, common, clock, sent, tries>>

\* The clock since it was last set: every behaviour starts at a point of the
\* channel sequence of its own, as it does whenever the master moves us.
start == [last_update |-> 0, aw_counter |-> 0]

Cycle == Slots * EawUs

-----------------------------------------------------------------------------
TimerInit ==
  /\ kind \in {"unicast", "multicast"}
  /\ common \in Common
  /\ clock \in 0 .. Cycle - 1
  /\ sent = FALSE
  /\ tries = 0

Delay == IF kind = "unicast" THEN UnicastDelay(clock, start, common)
         ELSE MulticastDelay(clock, start)

Counted == IF tries < MaxTries THEN tries + 1 ELSE tries

\* The timer fires and the frame is sent.
Send ==
  /\ ~sent
  /\ Delay = 0
  /\ sent' = TRUE
  /\ tries' = Counted
  /\ UNCHANGED <<kind, common, clock>>

\* The timer fires and is rearmed; it fires again, late by up to Late.
TryLater(late) ==
  /\ ~sent
  /\ Delay > 0
  /\ clock' = (clock + Delay + late) % Cycle
  /\ tries' = Counted
  /\ UNCHANGED <<kind, common, sent>>

TimerNext == Send \/ \E late \in 0 .. Late : TryLater(late)

TimerSpec == TimerInit /\ [][TimerNext]_timerVars

-----------------------------------------------------------------------------
Near(guard) ==
  LET wide == TU * guard - 1 IN {clock + e : e \in -wide .. wide}

\* A unicast frame is sent only while a peer whose clock is off by less than
\* the guard, in either direction, listens on our channel: where the guard is
\* ignored the neighbouring slot is a common one, too.
UnicastHeard ==
  sent /\ kind = "unicast" =>
    \A t \in Near(UnicastGuard) : SameChannel(t, start, common)

\* A multicast frame is sent only while every node whose clock is off by less
\* than the guard is in one of the multicast slots.
MulticastHeard ==
  sent /\ kind = "multicast" =>
    \A t \in Near(MulticastGuard) : IsMulticastEaw(t, start)

\* A frame that waits is sent after a bounded number of timers: the delays
\* lead to the next usable slot without jumping over one for ever.
SentSoon ==
  kind = "multicast" \/ common # {} => (tries = MaxTries => sent)
=============================================================================
