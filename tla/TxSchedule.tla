----------------------------- MODULE TxSchedule -----------------------------
(***************************************************************************)
(* When a queued frame may be sent (src/src/schedule.c), and how long a    *)
(* frame that may not be sent yet has to wait (awdl_send_unicast and       *)
(* awdl_send_multicast of src/daemon/core.c), by the clock t and the sync  *)
(* state s of the sender.                                                  *)
(*                                                                         *)
(* Our own channel never changes (awdl_init_state starts a static channel  *)
(* sequence and nothing replaces it), so all that counts about a peer is   *)
(* common, the set of slots of its sequence that are on our channel.       *)
(***************************************************************************)
EXTENDS SyncClock

CONSTANTS
  Slots,           \* AWDL_CHANSEQ_LENGTH
  UnicastGuard,    \* AWDL_UNICAST_GUARD_TU
  MulticastGuard,  \* AWDL_MULTICAST_GUARD_TU
  MulticastSlots,  \* the slots of awdl_is_multicast_eaw
  Common           \* the sets of common slots a peer can have

ASSUME GuardAssumption ==
  /\ Slots \in Nat \ {0} /\ UnicastGuard \in Nat /\ MulticastGuard \in Nat
  /\ 2 * UnicastGuard < EawTu /\ 2 * MulticastGuard < EawTu
  /\ MulticastSlots \subseteq 0 .. Slots - 1
  /\ \A c \in Common : c \subseteq 0 .. Slots - 1

Slot(t, s) == CurrentEaw(t, s) % Slots

\* awdl_same_channel_as_peer; the peer's sync_offset is always 0.
SameChannel(t, s, common) == Slot(t, s) \in common

IsMulticastEaw(t, s) == Slot(t, s) \in MulticastSlots

\* Wrong: no guard at the beginning of the slot.
CanSendInBeforeEnd(t, s, guard) ==
  LET next == NextAwUs(t, s)
  IN  IF next < TU * guard THEN -(TU * guard - next) ELSE 0

\* awdl_can_send_in: 0, or positive before and negative after the part of
\* the slot that is outside the guards.
CanSendIn(t, s, guard) ==
  LET next == NextAwUs(t, s)
      wide == TU * guard
  IN  IF next < wide THEN -(wide - next)
      ELSE IF EawUs - next < wide THEN wide - (EawUs - next)
      ELSE 0

\* Wrong: no guards.
CanSendUnicastInSlot(t, s, common, guard) ==
  IF SameChannel(t, s, common) THEN 0 ELSE NextAwUs(t, s)

\* awdl_can_send_unicast_in: a guard next to another common slot is ignored.
CanSendUnicastIn(t, s, common, guard) ==
  LET next == NextAwUs(t, s)
      wide == TU * guard
      before == next < wide
      after == EawUs - next < wide
  IN  IF ~SameChannel(t, s, common) THEN next
      ELSE IF before /\ ~SameChannel(t + EawUs, s, common) THEN -(wide - next)
      ELSE IF ~before /\ after /\ ~SameChannel(t - EawUs, s, common)
           THEN wide - (EawUs - next)
      ELSE 0

\* The delays of awdl_send_unicast and awdl_send_multicast: 0 sends.
Retry(in, guard) == IF in < 0 THEN -in + TU * guard ELSE in

UnicastDelay(t, s, common) ==
  Retry(CanSendUnicastIn(t, s, common, UnicastGuard), UnicastGuard)

\* Wrong: the next attempt comes at once.
MulticastDelayPolls(t, s) ==
  LET in == CanSendIn(t, s, MulticastGuard)
  IN  IF in = 0 THEN IF IsMulticastEaw(t, s) THEN 0 ELSE 1
      ELSE Retry(in, MulticastGuard)

\* Wrong: every other slot is left out.
MulticastDelayTwoSlots(t, s) ==
  LET in == CanSendIn(t, s, MulticastGuard)
  IN  IF in = 0 THEN IF IsMulticastEaw(t, s) THEN 0 ELSE 2 * EawUs
      ELSE Retry(in, MulticastGuard)

MulticastDelay(t, s) ==
  LET in == CanSendIn(t, s, MulticastGuard)
  IN  IF in = 0 THEN IF IsMulticastEaw(t, s) THEN 0 ELSE EawUs
      ELSE Retry(in, MulticastGuard)
=============================================================================
