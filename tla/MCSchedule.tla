----------------------------- MODULE MCSchedule -----------------------------
(* Instances of Schedule for TLC, with the real windows, guards and slots of
   the code; one unit of time is one TU. *)
EXTENDS Schedule

\* One common slot at either end, two neighbours, across the wrap-around of
\* the sequence, every other slot, all, none (a peer that we know but that has
\* not sent a channel sequence).
MCCommon ==
  {{}, {0}, {15}, {7, 8}, {0, 15}, {s \in 0 .. 15 : s % 2 = 0}, 0 .. 15}
=============================================================================
