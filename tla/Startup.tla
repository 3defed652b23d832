------------------------------- MODULE Startup -------------------------------
(***************************************************************************)
(* From main to the event loop (src/daemon/owl.c, awdl_init in core.c, the *)
(* set-up of both devices in io.c, on Linux).  Every call to the kernel or *)
(* to libpcap may fail.                                                    *)
(***************************************************************************)
EXTENDS Integers, FiniteSets

VARIABLES
  pc,       \* the step main is at
  opt,      \* the command line: which options are given, and are good
  file,     \* wlan_is_file
  link,     \* the WLAN interface is up
  monitor,  \* the WLAN interface is in monitor mode
  wlan,     \* wlan_fd and wlan_handle are valid
  addr,     \* if_ether_addr is the address of the WLAN interface
  host,     \* the TAP device: "none", "own" (has the WLAN address) or "other"
  hostFd,   \* host_fd, or -1 (the variable is not set without a TAP device)
  fds       \* open file descriptors

MaxFd == 6  \* no descriptor above this one is ever the lowest free one

\* Started with standard input, output and error.
Init ==
  /\ pc = "getopt"
  /\ opt \in [daemon : BOOLEAN, channel : BOOLEAN, wlan : BOOLEAN,
            noMonitor : BOOLEAN, host : BOOLEAN]
  /\ link \in BOOLEAN /\ monitor \in BOOLEAN
  /\ file = FALSE /\ wlan = FALSE /\ addr = FALSE /\ host = "none"
  /\ hostFd = -1 /\ fds = 0 .. 2

At(step, next) == pc = step /\ pc' = next
Devices == <<file, link, monitor, wlan, addr, host, hostFd, fds>>

\* The n descriptors the kernel hands out next: the lowest free ones.
NextFds(n) ==
  LET free == 0 .. MaxFd \ fds
  IN {d \in free : Cardinality({c \in free : c < d}) < n}

\* An error returned up to main, which ends the process.
Fail(step) ==
  /\ pc = step /\ pc' = "exit"
  /\ UNCHANGED <<opt, Devices>>

\* main: an option getopt does not know ends the process.
ParseOptions ==
  \/ At("getopt", "daemonize") /\ UNCHANGED <<opt, Devices>>
  \/ Fail("getopt")

\* daemonize, with -D: fork or setsid may fail; what goes on is the second
\* child, with every descriptor closed.
Daemonize ==
  \/ /\ At("daemonize", "options")
     /\ fds' = IF opt.daemon THEN {} ELSE fds
     /\ UNCHANGED <<opt, file, link, monitor, wlan, addr, host, hostFd>>
  \/ opt.daemon /\ Fail("daemonize")

\* main: channel and interface of the command line
CheckOptions ==
  IF opt.channel /\ opt.wlan
  THEN At("options", "netutils") /\ UNCHANGED <<opt, Devices>>
  ELSE Fail("options")

\* Wrong: the sockets are closed again.
NetutilsInitCloses ==
  \/ At("netutils", "savefile") /\ UNCHANGED <<opt, Devices>>
  \/ Fail("netutils")

\* netutils_init: opens two netlink sockets, which stay open.
NetutilsInit ==
  \/ /\ At("netutils", "savefile") /\ fds' = fds \cup NextFds(2)
     /\ UNCHANGED <<opt, file, link, monitor, wlan, addr, host, hostFd>>
  \/ Fail("netutils")

\* io_state_init_wlan_try_savefile: when there is no such file, the name is
\* taken for an interface.
TrySavefile ==
  \/ /\ At("savefile", "host") /\ file' = TRUE /\ wlan' = TRUE
     /\ fds' = fds \cup NextFds(1)
     /\ UNCHANGED <<opt, link, monitor, addr, host, hostFd>>
  \/ At("savefile", "ifindex") /\ UNCHANGED <<opt, Devices>>

\* if_nametoindex
FindInterface ==
  \/ At("ifindex", "link_down") /\ UNCHANGED <<opt, Devices>>
  \/ Fail("ifindex")

\* link_updown: fails when the link is not found.  The result of
\* rtnl_link_change is not used: when it fails the link stays as it is, and
\* the start-up goes on.
LinkUpDown(step, up, next) ==
  \/ At(step, next) /\ link' \in {link, up}
     /\ UNCHANGED <<opt, file, monitor, wlan, addr, host, hostFd, fds>>
  \/ Fail(step)

LinkDown == LinkUpDown("link_down", FALSE, "monitor")
LinkUp == LinkUpDown("link_up", TRUE, "open")

\* set_monitor_mode, unless -N is given
SetMonitorMode ==
  \/ At("monitor", "link_up") /\ monitor' = (monitor \/ ~opt.noMonitor)
     /\ UNCHANGED <<opt, file, link, wlan, addr, host, hostFd, fds>>
  \/ ~opt.noMonitor /\ Fail("monitor")

\* open_nonblocking_device: libpcap opens only an interface that is up, with
\* one descriptor or two.  When it fails, and with a bad filter leaves the
\* descriptors open, io_state_init_wlan returns err, which link_up has set
\* to 0.
OpenDevice ==
  \/ /\ link /\ At("open", "addr") /\ wlan' = TRUE
     /\ \E n \in 1 .. 2 : fds' = fds \cup NextFds(n)
     /\ UNCHANGED <<opt, file, link, monitor, addr, host, hostFd>>
  \/ /\ At("open", "host")
     /\ \E n \in IF link THEN 0 .. 2 ELSE {0} : fds' = fds \cup NextFds(n)
     /\ UNCHANGED <<opt, file, link, monitor, wlan, addr, host, hostFd>>

\* Wrong: the result of link_ether_addr_get is not looked at.
GetAddressUnchecked ==
  /\ At("addr", "host")
  /\ addr' \in BOOLEAN
  /\ UNCHANGED <<opt, file, link, monitor, wlan, host, hostFd, fds>>

\* link_ether_addr_get
GetAddress ==
  \/ At("addr", "host") /\ addr' = TRUE
     /\ UNCHANGED <<opt, file, link, monitor, wlan, host, hostFd, fds>>
  \/ Fail("addr")

\* io_state_init_host with open_tun: the TAP device gets the address in
\* if_ether_addr.
TapDevice == IF ~opt.host THEN "none" ELSE IF addr THEN "own" ELSE "other"

InitHost ==
  \/ /\ At("host", "hostname") /\ host' = TapDevice
     /\ IF opt.host THEN hostFd' \in NextFds(1) /\ fds' = fds \cup NextFds(1)
                    ELSE UNCHANGED <<hostFd, fds>>
     /\ UNCHANGED <<opt, file, link, monitor, wlan, addr>>
  \/ opt.host /\ Fail("host")

\* get_hostname, then the initialisation of the state and the event loop
\* (awdl_schedule), which cannot fail.
InitState ==
  \/ At("hostname", "running") /\ UNCHANGED <<opt, Devices>>
  \/ Fail("hostname")

Next ==
  \/ ParseOptions \/ Daemonize \/ CheckOptions \/ NetutilsInit \/ TrySavefile \/ FindInterface \/ LinkDown
  \/ SetMonitorMode \/ LinkUp \/ OpenDevice \/ GetAddress \/ InitHost \/ InitState
=============================================================================
