---------------------------- MODULE Daemon_proofs ----------------------------
(***************************************************************************)
(* The timers of the radio and the start-up of the daemon, for every       *)
(* length of the EAW, every PSF interval and any number of moves of the    *)
(* clock.                                                                  *)
(***************************************************************************)
EXTENDS Daemon, FiniteSetTheorems, TLAPS

(* The MIF timer and the clock: as long as nothing moves the clock, the     *)
(* timer fires in the middle of an EAW; and from one MIF to the next, the   *)
(* time that has passed and the time left add up to one and a half EAW at   *)
(* most.                                                                    *)
MifInv ==
  /\ TypeOK
  /\ steady => phase + mif \in {Eaw \div 2, Eaw + Eaw \div 2}
  /\ quiet >= 0 => current /\ quiet + mif <= Eaw + Eaw \div 2
  /\ MifCentred

\* Half an EAW is a whole number of units.
LEMMA HalfEaw ==
  /\ Eaw \div 2 \in Nat /\ Eaw = 2 * (Eaw \div 2) /\ Eaw \div 2 > 0
BY RadioAssumption

\* awdl_schedule establishes the invariant.
LEMMA MifInit == Init => MifInv
<1> SUFFICES ASSUME Init PROVE MifInv
  OBVIOUS
<1>1. current \in BOOLEAN /\ tuned \in BOOLEAN /\ steady \in BOOLEAN
  BY Zenon DEF Init
<1>2. /\ phase = 0 /\ chan = 0 /\ mif = 0 /\ psf = PsfInterval /\ card \in Card
      /\ moves = 0 /\ quiet = -1 /\ sentAt = -1
  BY Zenon DEF Init
<1>3. ~steady
  BY Zenon DEF Init
<1> QED BY <1>1, <1>2, <1>3, RadioAssumption, HalfEaw DEF MifInv, TypeOK, MifCentred

\* Every timer callback, and time itself, keeps it.
LEMMA MifTimers == MifInv /\ Timers => MifInv'
<1> SUFFICES ASSUME MifInv, Timers PROVE MifInv'
  OBVIOUS
<1> DEFINE half == Eaw \div 2
<1>0. half \in Nat /\ Eaw = 2 * half /\ half > 0
  BY HalfEaw
<1>1. CASE SwitchChannel
  <2>1. current' \in BOOLEAN /\ tuned' \in BOOLEAN
    BY <1>1, Zenon DEF SwitchChannel, SetChannel, MifInv, TypeOK
  <2>2. /\ chan' = NextAw
        /\ UNCHANGED <<phase, mif, psf, card, moves, steady, quiet, sentAt>>
    BY <1>1 DEF SwitchChannel
  <2>3. current'
    BY <1>1 DEF SwitchChannel
  <2> QED BY <1>0, <2>1, <2>2, <2>3 DEF MifInv, TypeOK, MifCentred, NextAw
<1>2. CASE SendMif
  <2>1. steady' \in BOOLEAN
    BY <1>2, Zenon DEF SendMif
  <2>2. /\ mif = 0 /\ mif' = NextAw + half
        /\ UNCHANGED <<phase, chan, psf, current, card, tuned, moves>>
    BY <1>2 DEF SendMif
  <2>3. \/ quiet' = quiet /\ sentAt' = sentAt
        \/ quiet' = 0 /\ sentAt' = -1
        \/ quiet' = 0 /\ sentAt' = phase /\ steady
    BY <1>2 DEF SendMif
  <2>4. current => quiet' = 0
    BY <1>2 DEF SendMif
  <2>5. quiet' >= 0 => quiet' = 0 /\ current'
    BY <2>2, <2>3, <2>4, <1>2 DEF SendMif, MifInv, TypeOK
  <2>6. quiet' >= 0 => quiet' + mif' <= Eaw + half
    <3>1. mif' \in Int /\ mif' <= Eaw + half
      BY <1>0, <2>2 DEF MifInv, TypeOK, NextAw
    <3> QED BY <1>0, <2>5, <3>1
  <2>7. phase' + mif' = Eaw + half
    BY <1>0, <2>2 DEF MifInv, TypeOK, NextAw
  <2>8. sentAt' \in {-1, half} /\ sentAt' \in -1 .. Eaw - 1
    BY <1>0, <2>2, <2>3 DEF MifInv, TypeOK, MifCentred
  <2>9. TypeOK'
    BY <1>0, <2>1, <2>2, <2>3, <2>8, RadioAssumption DEF MifInv, TypeOK, NextAw
  <2> QED BY <2>5, <2>6, <2>7, <2>8, <2>9 DEF MifInv, MifCentred
<1>3. CASE SendPsf
  BY <1>3, RadioAssumption DEF SendPsf, MifInv, TypeOK, MifCentred
<1>4. CASE Tick
  <2>1. /\ chan' = chan - 1 /\ mif' = mif - 1 /\ psf' = psf - 1
        /\ chan > 0 /\ mif > 0 /\ psf > 0
        /\ UNCHANGED <<current, card, tuned, moves, steady, sentAt>>
    BY <1>4 DEF Tick
  <2>2. phase' = IF phase = Eaw - 1 THEN 0 ELSE phase + 1
    BY <1>4, RadioAssumption DEF Tick, MifInv, TypeOK
  <2>3. /\ quiet < 0 => quiet' = quiet
        /\ quiet >= 0 => quiet' \in {quiet, quiet + 1} /\ quiet' <= 2 * Eaw
    BY <1>4, RadioAssumption DEF Tick, MifInv, TypeOK
  <2>4. quiet' >= 0 => current' /\ quiet' + mif' <= Eaw + half
    BY <1>0, <2>1, <2>3 DEF MifInv, TypeOK
  <2>5. steady' => phase' + mif' \in {half, Eaw + half}
    <3>1. /\ phase \in 0 .. Eaw - 1 /\ mif \in Int /\ half \in Nat /\ Eaw \in Nat
          /\ steady => phase + mif \in {half, Eaw + half}
      BY <1>0 DEF MifInv, TypeOK
    <3>2. CASE phase = Eaw - 1
      BY <2>1, <2>2, <3>1, <3>2
    <3>3. CASE phase # Eaw - 1
      BY <2>1, <2>2, <3>1, <3>3
    <3> QED BY <3>2, <3>3
  <2>6. TypeOK'
    BY <1>0, <2>1, <2>2, <2>3, RadioAssumption DEF MifInv, TypeOK
  <2> QED BY <2>1, <2>4, <2>5, <2>6 DEF MifInv, MifCentred
<1> QED BY <1>1, <1>2, <1>3, <1>4 DEF Timers

\* So does a move of the clock, which leaves the timers as they are.
LEMMA MifMoves ==
  ASSUME MifInv, NEW p \in 0 .. Eaw - 1, ClockMoves(p)
  PROVE  MifInv'
<1>1. ~steady' /\ steady' \in BOOLEAN
  BY Zenon DEF ClockMoves
<1>2. /\ phase' = p /\ moves < MaxMoves /\ moves' = moves + 1
      /\ UNCHANGED <<chan, mif, psf, current, card, tuned, quiet, sentAt>>
  BY DEF ClockMoves
<1> QED BY <1>1, <1>2, RadioAssumption DEF MifInv, TypeOK, MifCentred

\* The invariant of the timers holds in every reachable state of the daemon.
LEMMA MifInvariant == DaemonSpec => []MifInv
<1>1. DaemonInit => MifInv
  BY MifInit DEF DaemonInit
<1>2. MifInv /\ [DaemonNext]_daemonVars => MifInv'
  <2> SUFFICES ASSUME MifInv, [DaemonNext]_daemonVars PROVE MifInv'
    OBVIOUS
  <2>1. CASE UNCHANGED vars
    BY <2>1 DEF vars, MifInv, TypeOK, MifCentred
  <2>2. CASE Timers
    BY <2>2, MifTimers
  <2>3. ASSUME NEW p \in 0 .. Eaw - 1, ClockMoves(p) PROVE MifInv'
    BY <2>3, MifMoves
  <2> QED
    BY <2>1, <2>2, <2>3
    DEF DaemonNext, StartupStep, TimerStep, MoveStep, daemonVars
<1> QED BY <1>1, <1>2, PTL DEF DaemonSpec

\* core.c:198: a MIF whose timer was set by awdl_send_mif and saw no move of
\* the clock is sent in the middle of the EAW.
THEOREM MifCentredTheorem == DaemonSpec => []MifCentred
BY MifInvariant, PTL DEF MifInv

\* Once a MIF was sent there is never more than one and a half EAW without
\* one, however often the sync master moves the clock.
THEOREM MifGapTheorem == DaemonSpec => []MifGap
<1>1. MifInv => MifGap
  BY HalfEaw DEF MifInv, TypeOK, MifGap
<1> QED BY <1>1, MifInvariant, PTL

-----------------------------------------------------------------------------
(* What each step of the start-up leaves behind, as long as the process has *)
(* not exited.                                                              *)

\* The steps before the WLAN device is looked at, and those after it.
Early == {"getopt", "daemonize", "options", "netutils", "savefile"}
Late == {"host", "hostname", "running"}

\* A WLAN interface that was opened is up, has an address that we know, and
\* is in monitor mode; nothing is tuned before the event loop.
WlanInv ==
  /\ pc \in Early => ~file /\ ~wlan
  /\ pc \notin Early \cup {"exit"} => (file <=> card = "file")
  /\ (pc \in {"link_up", "open", "addr"} \cup Late) /\ ~file => opt.noMonitor \/ monitor
  /\ pc # "exit" /\ wlan /\ ~file => link /\ (pc = "addr" \/ (pc \in Late /\ addr))
  /\ pc \in {"hostname", "running"} => host = S!TapDevice
  /\ tuned => Running /\ card = "present"

\* Descriptor 0 is taken when the TAP device is opened: by standard input or,
\* in a daemonised process, by a netlink socket.
FdInv ==
  /\ pc \notin {"getopt", "daemonize", "options", "netutils", "exit"} => 0 \in fds
  /\ host # "none" => hostFd > 0

\* The sockets of netutils_init take descriptor 0 if it is free.
LEMMA ZeroTaken == 0 \in fds \cup S!NextFds(2)
<1> DEFINE free == 0 .. S!MaxFd \ fds
<1>1. CASE 0 \notin fds
  <2>1. 0 \in free
    BY <1>1 DEF S!MaxFd
  <2>2. {c \in free : c < 0} = {}
    BY DEF S!MaxFd
  <2>3. S!Cardinality({}) = 0
    BY FS_EmptySet DEF S!Cardinality, Cardinality
  <2> QED BY <2>1, <2>2, <2>3 DEF S!NextFds
<1> QED BY <1>1

\* The TAP device never has descriptor 0, which host_send and host_recv take
\* for no device (io.c:374, 384).
THEOREM TapTheorem == DaemonSpec => []TapIsNotZero
<1>1. DaemonInit => FdInv
  BY DEF DaemonInit, S!Init, FdInv
<1>2. FdInv /\ [DaemonNext]_daemonVars => FdInv'
  <2> SUFFICES ASSUME FdInv, [DaemonNext]_daemonVars PROVE FdInv'
    OBVIOUS
  <2>1. CASE UNCHANGED startupVars
    BY <2>1 DEF startupVars, FdInv
  <2>2. CASE S!NetutilsInit
    BY <2>2, ZeroTaken DEF S!NetutilsInit, S!Fail, S!At, S!Devices, FdInv
  <2>3. CASE S!InitHost
    <3>1. CASE hostFd' \in S!NextFds(1) /\ fds' = fds \cup S!NextFds(1) /\ pc = "host"
      <4>1. 0 \in fds
        BY <3>1 DEF FdInv
      <4>2. hostFd' > 0
        BY <3>1, <4>1 DEF S!NextFds, S!MaxFd
      <4> QED BY <3>1, <4>1, <4>2 DEF FdInv
    <3>2. CASE UNCHANGED <<hostFd, fds>> /\ (host' = host \/ host' = "none")
               /\ pc = "host"
      BY <3>2 DEF FdInv
    <3> QED
      BY <2>3, <3>1, <3>2 DEF S!InitHost, S!TapDevice, S!Fail, S!At, S!Devices
  <2>4. CASE /\ pc' # "savefile" /\ UNCHANGED <<host, hostFd>>
             /\ fds \subseteq fds' \/ pc = "daemonize"
             /\ pc' \in {"daemonize", "options", "netutils", "exit"}
                  \/ pc \notin {"getopt", "daemonize", "options", "netutils", "exit"}
    BY <2>4 DEF FdInv
  <2>5. CASE S!Next /\ ~S!NetutilsInit /\ ~S!InitHost
    BY <2>4, <2>5, Zenon
    DEF S!Next, S!ParseOptions, S!Daemonize, S!CheckOptions,
        S!TrySavefile, S!FindInterface, S!LinkDown, S!SetMonitorMode, S!LinkUp,
        S!LinkUpDown, S!OpenDevice, S!GetAddress, S!InitState,
        S!Fail, S!At, S!Devices
  <2> QED
    BY <2>1, <2>2, <2>3, <2>5
    DEF DaemonNext, StartupStep, TimerStep, MoveStep, daemonVars
<1>3. FdInv => TapIsNotZero
  BY DEF FdInv, TapIsNotZero
<1> QED BY <1>1, <1>2, <1>3, PTL DEF DaemonSpec

\* Every step of the start-up keeps what the radio relies on.
LEMMA WlanStartup == WlanInv /\ StartupStep => WlanInv'
<1> SUFFICES ASSUME WlanInv, StartupStep PROVE WlanInv'
  OBVIOUS
<1> USE DEF S!At, S!Fail, S!Devices, S!TapDevice, Running, Early, Late, WlanInv
<1>0. card' = card /\ tuned' = tuned /\ opt' = opt
  BY Zenon DEF StartupStep, vars, S!Next, S!ParseOptions, S!Daemonize,
         S!CheckOptions, S!NetutilsInit, S!TrySavefile, S!FindInterface,
         S!LinkDown, S!SetMonitorMode, S!LinkUp, S!LinkUpDown, S!OpenDevice,
         S!GetAddress, S!InitHost, S!InitState
<1>1. CASE S!ParseOptions
  BY <1>0, <1>1 DEF S!ParseOptions
<1>2. CASE S!Daemonize
  BY <1>0, <1>2 DEF S!Daemonize
<1>3. CASE S!CheckOptions
  BY <1>0, <1>3 DEF S!CheckOptions
<1>4. CASE S!NetutilsInit
  BY <1>0, <1>4 DEF S!NetutilsInit
<1>5. CASE S!TrySavefile
  <2>1. pc = "savefile" /\ (file' <=> card = "file")
    BY <1>5, Zenon DEF S!TrySavefile, StartupStep
  <2>2. \/ pc' = "host" /\ file'
        \/ pc' = "ifindex" /\ wlan' = wlan
    BY <1>5, Zenon DEF S!TrySavefile
  <2> QED BY <1>0, <2>1, <2>2
<1>6. CASE S!FindInterface
  BY <1>0, <1>6 DEF S!FindInterface
<1>7. CASE S!LinkDown
  <2>1. /\ pc = "link_down" /\ pc' \in {"monitor", "exit"}
        /\ file' = file /\ wlan' = wlan
    BY <1>7, Zenon DEF S!LinkDown, S!LinkUpDown
  <2> QED BY <1>0, <2>1
<1>8. CASE S!SetMonitorMode
  <2>1. /\ pc = "monitor" /\ pc' \in {"link_up", "exit"}
        /\ file' = file /\ wlan' = wlan
    BY <1>8, Zenon DEF S!SetMonitorMode
  <2>2. pc' = "link_up" => opt.noMonitor \/ monitor'
    BY <1>8, Zenon DEF S!SetMonitorMode
  <2> QED BY <1>0, <2>1, <2>2
<1>9. CASE S!LinkUp
  <2>1. /\ pc = "link_up" /\ pc' \in {"open", "exit"}
        /\ file' = file /\ wlan' = wlan /\ monitor' = monitor
    BY <1>9, Zenon DEF S!LinkUp, S!LinkUpDown
  <2> QED BY <1>0, <2>1
<1>10. CASE S!OpenDevice
  <2>1. /\ pc = "open" /\ file' = file /\ monitor' = monitor /\ link' = link
        /\ \/ pc' = "addr" /\ link
           \/ pc' = "host" /\ wlan' = wlan
    BY <1>10, Zenon DEF S!OpenDevice
  <2> QED BY <1>0, <2>1
<1>11. CASE S!GetAddress
  BY <1>0, <1>11 DEF S!GetAddress
<1>12. CASE S!InitHost
  BY <1>0, <1>12 DEF S!InitHost
<1>13. CASE S!InitState
  BY <1>0, <1>13 DEF S!InitState
<1> QED
  BY Zenon, <1>1, <1>2, <1>3, <1>4, <1>5, <1>6, <1>7, <1>8, <1>9, <1>10, <1>11,
     <1>12, <1>13
  DEF StartupStep, S!Next

\* Whenever the radio is put on a channel, the interface is up, in monitor
\* mode unless -N was given, and shares its address with the TAP device.
THEOREM TunedTheorem == DaemonSpec => []TunedReady
<1>1. DaemonInit => WlanInv
  BY DEF DaemonInit, Init, S!Init, WlanInv, Early, Late
<1>2. MifInv /\ WlanInv /\ [DaemonNext]_daemonVars => WlanInv'
  <2> SUFFICES ASSUME MifInv, WlanInv, [DaemonNext]_daemonVars PROVE WlanInv'
    OBVIOUS
  <2>1. CASE StartupStep
    BY <2>1, WlanStartup
  <2>2. CASE UNCHANGED startupVars /\ UNCHANGED <<card, tuned>>
    BY <2>2 DEF startupVars, WlanInv, S!TapDevice, Running
  <2>3. CASE Running /\ SwitchChannel /\ UNCHANGED startupVars
    <3>1. tuned' => tuned \/ card = "present"
      BY <2>3, Zenon DEF SwitchChannel, SetChannel, MifInv, TypeOK, Card
    <3>2. card' = card
      BY <2>3 DEF SwitchChannel
    <3> QED BY <2>3, <3>1, <3>2 DEF startupVars, WlanInv, S!TapDevice, Running
  <2> QED
    BY <2>1, <2>2, <2>3
    DEF DaemonNext, TimerStep, Timers, SendMif, SendPsf, Tick, MoveStep,
        ClockMoves, daemonVars, vars
<1>3. WlanInv => TunedReady
  BY DEF WlanInv, TunedReady, Running, S!TapDevice, Early, Late
<1> QED BY <1>1, <1>2, <1>3, MifInvariant, PTL DEF DaemonSpec
=============================================================================
