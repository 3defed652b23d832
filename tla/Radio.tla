-------------------------------- MODULE Radio --------------------------------
(***************************************************************************)
(* The timers that drive the radio (src/daemon/core.c): channel switching, *)
(* master indication frames (MIF) and periodic synchronisation frames      *)
(* (PSF), while frames of the sync master move our clock.                  *)
(*                                                                         *)
(* The channel sequence is static (awdl_init_state), so of our clock only  *)
(* the position within the extended availability window counts.  A timer   *)
(* is the time until it fires; a move of the clock leaves timers alone.    *)
(***************************************************************************)
EXTENDS Integers

CONSTANTS
  Eaw,          \* length of an extended availability window; even
  PsfInterval,  \* psf_interval
  MaxMoves      \* bound: how often the clock is moved

ASSUME RadioAssumption ==
  /\ Eaw \in Nat \ {0} /\ Eaw % 2 = 0
  /\ PsfInterval \in Nat \ {0}
  /\ MaxMoves \in Nat

VARIABLES
  phase,     \* our clock: position within the EAW
  chan, mif, psf,   \* time until the timer fires
  current,   \* channel.current is set (CHAN_NULL at first)
  card,      \* what the WLAN card says of our channel, or "file": a savefile
  tuned,     \* the radio is on our channel
  moves,     \* number of moves of the clock
  steady,    \* history: awdl_send_mif set its timer, the clock has not moved since
  quiet,     \* history: time since the last MIF (saturating), -1: none yet
  sentAt     \* history: position of the last MIF if it was steady, or -1

vars == <<phase, chan, mif, psf, current, card, tuned, moves, steady,
          quiet, sentAt>>

\* Our channel is one of the card's, or is not.
Card == {"present", "absent", "file"}

\* awdl_sync_next_aw_us
NextAw == Eaw - phase

\* awdl_schedule: channel and MIF timer fire at once, the PSF timer later.
Init ==
  /\ phase = 0
  /\ chan = 0 /\ mif = 0 /\ psf = PsfInterval
  /\ current = FALSE /\ card \in Card /\ tuned = FALSE
  /\ moves = 0 /\ steady = FALSE /\ quiet = -1 /\ sentAt = -1

\* set_channel: may fail.
SetChannel == tuned' \in {tuned, tuned \/ card # "absent"}

\* Wrong: the channel is current only if the card took it.
SwitchChannelChecked ==
  /\ chan = 0
  /\ IF current \/ card = "file" THEN UNCHANGED tuned
                               ELSE SetChannel
  /\ current' = tuned'
  /\ chan' = NextAw
  /\ UNCHANGED <<phase, mif, psf, card, moves, steady, quiet, sentAt>>

\* awdl_switch_channel: takes the channel as set whatever set_channel returns.
\* is_channel_available only logs: its answer is not used.
SwitchChannel ==
  /\ chan = 0
  /\ IF current \/ card = "file" THEN UNCHANGED tuned
                               ELSE SetChannel
  /\ current' = TRUE
  /\ chan' = NextAw
  /\ UNCHANGED <<phase, mif, psf, card, moves, steady, quiet, sentAt>>

\* Wrong: the next MIF is due at the start of the EAW.
SendMifAtStart ==
  /\ mif = 0
  /\ IF current THEN /\ quiet' = 0
                     /\ sentAt' = IF steady THEN phase ELSE -1
                ELSE UNCHANGED <<quiet, sentAt>>
  /\ mif' = NextAw
  /\ steady' = TRUE
  /\ UNCHANGED <<phase, chan, psf, current, card, tuned, moves>>

\* awdl_send_mif: nothing is sent before the first channel is set.
SendMif ==
  /\ mif = 0
  /\ IF current THEN /\ quiet' = 0
                     /\ sentAt' = IF steady THEN phase ELSE -1
                ELSE UNCHANGED <<quiet, sentAt>>
  /\ mif' = NextAw + Eaw \div 2
  /\ steady' = TRUE
  /\ UNCHANGED <<phase, chan, psf, current, card, tuned, moves>>

\* awdl_send_psf, a repeating timer
SendPsf ==
  /\ psf = 0
  /\ psf' = PsfInterval
  /\ UNCHANGED <<phase, chan, mif, current, card, tuned, moves, steady,
                 quiet, sentAt>>

\* Expired timers are served before time goes on.
Tick ==
  /\ chan > 0 /\ mif > 0 /\ psf > 0
  /\ chan' = chan - 1 /\ mif' = mif - 1 /\ psf' = psf - 1
  /\ phase' = (phase + 1) % Eaw
  /\ quiet' = IF quiet \in {-1, 2 * Eaw} THEN quiet ELSE quiet + 1
  /\ UNCHANGED <<current, card, tuned, moves, steady, sentAt>>

\* Wrong: the MIF timer is set again whenever the clock moves.
ClockMovesRearms(p) ==
  /\ moves < MaxMoves
  /\ moves' = moves + 1
  /\ phase' = p
  /\ mif' = Eaw - p + Eaw \div 2
  /\ steady' = FALSE
  /\ UNCHANGED <<chan, psf, current, card, tuned, quiet, sentAt>>

\* awdl_sync_update_last, from a frame of the sync master
ClockMoves(p) ==
  /\ moves < MaxMoves
  /\ moves' = moves + 1
  /\ phase' = p
  /\ steady' = FALSE
  /\ UNCHANGED <<chan, mif, psf, current, card, tuned, quiet, sentAt>>

Timers == SwitchChannel \/ SendMif \/ SendPsf \/ Tick

-----------------------------------------------------------------------------
\* Type invariant.
TypeOK ==
  /\ phase \in 0 .. Eaw - 1
  /\ chan \in 0 .. Eaw /\ mif \in 0 .. Eaw + Eaw \div 2 /\ psf \in 0 .. PsfInterval
  /\ current \in BOOLEAN /\ tuned \in BOOLEAN /\ steady \in BOOLEAN
  /\ card \in Card
  /\ moves \in 0 .. MaxMoves
  /\ quiet \in -1 .. 2 * Eaw
  /\ sentAt \in -1 .. Eaw - 1

\* core.c:198, "schedule next in the middle of EAW": a MIF whose timer was set
\* by awdl_send_mif and saw no move of the clock is sent in the middle, at
\* whatever position awdl_send_mif ran.
MifCentred == sentAt \in {-1, Eaw \div 2}

\* The clock may be moved at any time and however often: after the first MIF
\* there is never more than one and a half EAW without one, because a move
\* does not touch the timer.
MifGap == quiet <= Eaw + Eaw \div 2
=============================================================================
