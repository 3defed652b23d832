------------------------------ MODULE MCDaemon ------------------------------
(* Instance of Daemon for TLC: every command line, every failure of start-up,
   and windows of four units, so that their middle differs from both ends. *)
EXTENDS Daemon
=============================================================================
