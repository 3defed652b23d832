-------------------------- MODULE MCCircularBuffer --------------------------
(* An instance of CircularBuffer for TLC: three slots, so that the pointers
   wrap at different times, and three frames that can be told apart. *)
EXTENDS CircularBuffer
=============================================================================
