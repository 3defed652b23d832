------------------------------ MODULE SyncClock ------------------------------
(***************************************************************************)
(* The clock arithmetic of src/src/sync.c.  Time is divided into extended  *)
(* availability windows (EAW) of Presence windows (AW) each; the windows   *)
(* are counted in 16 bits.  A node knows when an EAW began (last_update,   *)
(* in microseconds of its own clock) and the number of its first window    *)
(* (aw_counter); everything else is computed from the time since then, in  *)
(* unsigned arithmetic.  The runs scale all widths down.                   *)
(***************************************************************************)
EXTENDS Integers

CONSTANTS
  TU,        \* microseconds per time unit (1024)
  AwPeriod,  \* sync.aw_period, in TU (16)
  Presence,  \* sync.presence_mode (4)
  U16,       \* modulus of uint16_t
  U64        \* modulus of uint64_t

EawTu == Presence * AwPeriod
EawUs == TU * EawTu

\* Powers of two: a wrap-around of the 64 bit time is a whole number of
\* cycles of the 16 bit window counter, which is a whole number of EAWs.
ASSUME WidthAssumption ==
  /\ {TU, AwPeriod, Presence, U16, U64} \subseteq Nat \ {0}
  /\ U16 % Presence = 0
  /\ U64 % (EawUs * (U16 \div Presence)) = 0

\* now - last_update, in uint64_t
Since(now, s) == (now - s.last_update) % U64

\* awdl_sync_next_aw_tu and awdl_sync_next_aw_us: time left in this EAW
NextAwTu(now, s) == (EawTu - ((Since(now, s) \div TU) % EawTu)) % U16

NextAwUs(now, s) == EawUs - (Since(now, s) % EawUs)

\* awdl_sync_current_aw and awdl_sync_current_eaw
CurrentAw(now, s) ==
  LET tu == Since(now, s) \div TU
  IN  (s.aw_counter + ((tu % EawTu) \div AwPeriod) + Presence * (tu \div EawTu)) % U16

CurrentEaw(now, s) == CurrentAw(now, s) \div Presence

\* Wrong: sign of the second term.
ErrorTuWrongSign(now, next, aw, s) ==
  (aw \div Presence - CurrentEaw(now, s)) * EawTu + (next - NextAwTu(now, s))

\* awdl_sync_error_tu
ErrorTu(now, next, aw, s) ==
  (aw \div Presence - CurrentEaw(now, s)) * EawTu - (next - NextAwTu(now, s))

\* Wrong: the number within the EAW is kept.
UpdateLastUnmasked(now, next, aw) ==
  [last_update |-> (now - TU * (EawTu - next)) % U64, aw_counter |-> aw]

\* awdl_sync_update_last; the mask 0xfffc clears the number within the EAW.
UpdateLast(now, next, aw) ==
  [last_update |-> (now - TU * (EawTu - next)) % U64,
   aw_counter  |-> aw - (aw % Presence)]
=============================================================================
