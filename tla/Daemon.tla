------------------------------- MODULE Daemon -------------------------------
(***************************************************************************)
(* A run of the program: Startup until the event loop is entered, then the *)
(* timers of Radio.  The two meet in the WLAN device: which kind it is,    *)
(* and whether it was opened.                                              *)
(***************************************************************************)
EXTENDS Radio

VARIABLES pc, opt, file, link, monitor, wlan, addr, host, hostFd, fds

S == INSTANCE Startup

startupVars == <<pc, opt, file, link, monitor, wlan, addr, host, hostFd, fds>>

daemonVars == <<vars, startupVars>>

\* The card has its properties from the start; "file": -i names a
\* savefile that can be read (after daemonize, from the root directory).
DaemonInit == Init /\ S!Init

StartupStep ==
  /\ S!Next
  /\ pc = "savefile" => file' = (card = "file")
  /\ UNCHANGED vars

\* The event loop.  Without a WLAN device it is given the descriptor -1,
\* which libev does not allow: what happens then is left out.
Running == pc = "running" /\ wlan

TimerStep == Running /\ Timers /\ UNCHANGED startupVars

MoveStep(p) == Running /\ ClockMoves(p) /\ UNCHANGED startupVars

DaemonNext == StartupStep \/ TimerStep \/ \E p \in 0 .. Eaw - 1 : MoveStep(p)

\* libev fires every timer; at the same time in any order.
DaemonSpec == DaemonInit /\ [][DaemonNext]_daemonVars /\ WF_daemonVars(TimerStep)

-----------------------------------------------------------------------------
\* Whenever the radio is put on a channel, the interface is up although
\* link_updown does not look at whether the change took effect, in monitor
\* mode unless -N said it is already, and shares its address with the TAP
\* device (io.c:326).
TunedReady ==
  tuned => /\ pc = "running" /\ ~file
           /\ link
           /\ opt.noMonitor \/ monitor
           /\ opt.host => host = "own"

\* host_send and host_recv take descriptor 0 for no TAP device (io.c:374, 384).
\* The TAP device never has it, although a daemonised process starts with
\* every descriptor closed and the WLAN device may not have been opened.
TapIsNotZero == pc = "running" /\ host # "none" => hostFd > 0

\* A daemon in its event loop sends a MIF in the end, in whatever order the
\* timers expire and whether or not the card takes the channel.
MifSent == Running ~> quiet >= 0
=============================================================================
