------------------------------- MODULE MCSync -------------------------------
(* An instance of Sync for TLC: a chain of two hops, an EAW of 16
   microseconds, a window counter that wraps after four EAWs, and the unicast
   guard of the code, 3 TU. *)
EXTENDS Sync

MCAhead == [i \in 0 .. 2 |-> <<37, 0, 21>>[i + 1]]
MCCommon == {{0}, {1, 2}, {0, 3}}
=============================================================================
