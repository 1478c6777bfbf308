---------------------------- MODULE Registration ----------------------------
(***************************************************************************)
(* How a daemon comes and goes: the start-up and the end of                *)
(* userspace_driver_main() and the option -k of the daemon, the init       *)
(* script around them, and conf_write(), where a daemon registers with the *)
(* kernel module ("pid=...", then "con=...").                              *)
(*                                                                         *)
(* The pidfile is the daemons' lock; conf_mutex protects the registration; *)
(* gen_syndrome_mutex is 0 until a daemon has registered.  conf_write()    *)
(* returns without up() in three places: when the module is already        *)
(* configured, when the write is too long, and when it cannot be copied.   *)
(***************************************************************************)
EXTENDS Naturals, FiniteSets

CONSTANTS
  Daemons,   \* process ids of daemons; an id may be used again
  None,      \* no process id
  Overlaps,  \* whether a daemon is started while another one is running
  Crashes,   \* whether a daemon may be killed or crash
  Deletes,   \* whether somebody deletes the pidfile of a dead daemon
  Strangers  \* whether somebody else than a daemon writes to the conf file

ASSUME NoneAssumption == None \notin Daemons
ASSUME EnvAssumption == {Overlaps, Crashes, Deletes, Strangers} \subseteq BOOLEAN

VARIABLES
  dpc,                 \* where each daemon is in userspace_driver_main()
  mode,                \* its connection mode; "none" is not a valid one
  keep_going,          \* its loop flag
  pidfile,             \* content of /tmp/baracuda_pid, None: no such file
  node,                \* whether /dev/barracuda exists
  stopping,            \* a stop() of the init script is under way
  PID, configured,     \* the module's registration
  conf_mutex,          \* counting semaphores
  gen_syndrome_mutex,
  refused              \* history: a write was refused before the configuration

moduleVars == <<PID, configured, conf_mutex, gen_syndrome_mutex, refused>>
scriptVars == <<node, stopping>>
vars == <<dpc, mode, keep_going, pidfile, scriptVars, moduleVars>>

Modes == {"NL", "IOCTL", "PROCFS", "none"}
Starting == {"stat", "pidfile", "conf_pid", "conf_con", "handlers", "open_dev",
             "open_server"}

Init ==
  /\ dpc = [d \in Daemons |-> "off"]
  /\ mode = [d \in Daemons |-> "none"]
  /\ keep_going = [d \in Daemons |-> TRUE]
  /\ pidfile = None
  /\ node = FALSE
  /\ stopping = FALSE
  /\ PID = None /\ configured = FALSE
  /\ conf_mutex = 1
  /\ gen_syndrome_mutex = 0   \* down() in barracuda_start()
  /\ refused = FALSE

Goto(d, from, to) == dpc[d] = from /\ dpc' = [dpc EXCEPT ![d] = to]

-----------------------------------------------------------------------------
(* conf_write()                                                             *)

\* Mutant: the result of down() is ignored.
RegisteredNoWait(pid, con, leak, d) ==
  /\ conf_mutex' = IF leak THEN conf_mutex - 1 ELSE conf_mutex
  /\ PID' = IF pid THEN d ELSE PID
  /\ configured' = IF con THEN TRUE ELSE configured
  /\ gen_syndrome_mutex' = IF con THEN gen_syndrome_mutex + 1 ELSE gen_syndrome_mutex

\* What is left of a write once down(&conf_mutex) has been passed.  pid, con:
\* whether it registers d, whether it chooses the connection; leak: whether
\* it returns without up().
Registered(pid, con, leak, d) ==
  /\ conf_mutex > 0
  /\ conf_mutex' = IF leak THEN conf_mutex - 1 ELSE conf_mutex
  /\ PID' = IF pid THEN d ELSE PID
  /\ configured' = IF con THEN TRUE ELSE configured
  /\ gen_syndrome_mutex' = IF con THEN gen_syndrome_mutex + 1 ELSE gen_syndrome_mutex

\* Mutant: the check for an existing configuration is missing.
conf_writeUnchecked(instruction, d) ==
  /\ Registered(PID = None /\ instruction = "pid", PID # None /\ instruction = "con",
                instruction = "refused", d)
  /\ refused' = (refused \/ instruction = "refused")

\* Mutant: the connection is chosen before a PID is known.
conf_writeNoPid(instruction, d) ==
  /\ Registered(~configured /\ PID = None /\ instruction = "pid", ~configured /\ instruction = "con",
                configured \/ instruction = "refused", d)
  /\ refused' = (refused \/ (~configured /\ instruction = "refused"))

\* Mutant: a write that changes nothing returns without up(), too.
conf_writeLeaks(instruction, d) ==
  /\ Registered(~configured /\ PID = None /\ instruction = "pid",
                ~configured /\ PID # None /\ instruction = "con",
                configured \/ instruction = "refused" \/ (PID # None /\ instruction = "pid"), d)
  /\ refused' = (refused \/ (~configured /\ instruction = "refused"))

\* A write of "pid=d" or "con=...", or one of more than 40 bytes or from an
\* address that cannot be read ("refused").  An early return without up() if
\* the module is configured, or else if the write is refused; otherwise the
\* PID is taken from the first "pid", the connection from the first "con"
\* after it, and any other write is ignored.
conf_write(instruction, d) ==
  /\ Registered(~configured /\ PID = None /\ instruction = "pid",
                ~configured /\ PID # None /\ instruction = "con",
                configured \/ instruction = "refused", d)
  /\ refused' = (refused \/ (~configured /\ instruction = "refused"))

-----------------------------------------------------------------------------
(* userspace_driver_main()                                                  *)

\* start() of the init script: a new device node, and the daemon is run.
Start(d) ==
  /\ Overlaps \/ \A e \in Daemons : dpc[e] = "off"
  /\ Goto(d, "off", "stat")
  /\ \E m \in Modes : mode' = [mode EXCEPT ![d] = m]
  /\ keep_going' = [keep_going EXCEPT ![d] = TRUE]
  /\ node' = TRUE
  /\ UNCHANGED <<pidfile, stopping, moduleVars>>

\* stat() of the pidfile: if it exists the daemon returns EXIT_FAILURE.
StatPidfile(d) ==
  /\ Goto(d, "stat", IF pidfile = None THEN "pidfile" ELSE "off")
  /\ UNCHANGED <<mode, keep_going, pidfile, scriptVars, moduleVars>>

WritePidfile(d) ==
  /\ Goto(d, "pidfile", "conf_pid")
  /\ pidfile' = d
  /\ UNCHANGED <<mode, keep_going, scriptVars, moduleVars>>

RegisterPid(d) ==
  /\ Goto(d, "conf_pid", "conf_con")
  /\ conf_write("pid", d)
  /\ UNCHANGED <<mode, keep_going, pidfile, scriptVars>>

\* Without a valid mode the daemon returns EXIT_FAILURE, the pidfile stays.
RegisterMode(d) ==
  /\ IF mode[d] = "none"
       THEN Goto(d, "conf_con", "off") /\ UNCHANGED moduleVars
       ELSE Goto(d, "conf_con", "handlers") /\ conf_write("con", d)
  /\ UNCHANGED <<mode, keep_going, pidfile, scriptVars>>

\* signal(SIGALRM, ...), signal(SIGTERM, ...)
InstallHandlers(d) ==
  /\ Goto(d, "handlers", "open_dev")
  /\ UNCHANGED <<mode, keep_going, pidfile, scriptVars, moduleVars>>

\* Without the device node the daemon returns -1, the pidfile stays.
OpenDevice(d) ==
  /\ Goto(d, "open_dev", IF node THEN "open_server" ELSE "off")
  /\ UNCHANGED <<mode, keep_going, pidfile, scriptVars, moduleVars>>

\* server_ioctl_callback() opens the device a second time; if it is gone by
\* then the function returns to the cleanup.
OpenServer(d) ==
  /\ Goto(d, "open_server", IF mode[d] = "IOCTL" /\ ~node THEN "cleanup" ELSE "serve")
  /\ UNCHANGED <<mode, keep_going, pidfile, scriptVars, moduleVars>>

\* server_netlink() calls exit(0) when it gets no socket, the pidfile stays.
RefuseSocket(d) ==
  /\ mode[d] = "NL"
  /\ Goto(d, "open_server", "off")
  /\ UNCHANGED <<mode, keep_going, pidfile, scriptVars, moduleVars>>

\* The server loop ends (modules ProcfsConn, IoctlConn and NetlinkConn say
\* when it does).
EndServer(d) ==
  /\ ~keep_going[d]
  /\ Goto(d, "serve", "cleanup")
  /\ UNCHANGED <<mode, keep_going, pidfile, scriptVars, moduleVars>>

\* remove("/tmp/baracuda_pid") and the end of the process
Cleanup(d) ==
  /\ Goto(d, "cleanup", "off")
  /\ pidfile' = None
  /\ UNCHANGED <<mode, keep_going, scriptVars, moduleVars>>

\* Blocked in down(&conf_mutex), which no signal ends.
Blocked(d) == dpc[d] \in {"conf_pid", "conf_con"} /\ conf_mutex = 0

\* A fatal signal or a crash: nothing is cleaned up.
Crash(d) ==
  /\ Crashes
  /\ dpc[d] # "off" /\ ~Blocked(d)
  /\ dpc' = [dpc EXCEPT ![d] = "off"]
  /\ UNCHANGED <<mode, keep_going, pidfile, scriptVars, moduleVars>>

-----------------------------------------------------------------------------
(* stop() of the init script, and the option -k of the daemon               *)

\* rm -rf /dev/barracuda
StopBegins ==
  /\ ~stopping
  /\ node' = FALSE
  /\ stopping' = TRUE
  /\ UNCHANGED <<dpc, mode, keep_going, pidfile, moduleVars>>

\* SIGALRM to the process in the pidfile.  Before its handlers are installed
\* the signal ends the process; after it, alarm_handler() clears keep_going.
StopSignals ==
  /\ stopping
  /\ stopping' = FALSE
  /\ CASE pidfile = None \/ dpc[pidfile] \in {"off", "cleanup"} \/ Blocked(pidfile) ->
            UNCHANGED <<dpc, keep_going>>
       [] dpc[pidfile] \in {"open_dev", "open_server", "serve"} ->
            keep_going' = [keep_going EXCEPT ![pidfile] = FALSE] /\ UNCHANGED dpc
       [] OTHER ->
            dpc' = [dpc EXCEPT ![pidfile] = "off"] /\ UNCHANGED keep_going
  /\ UNCHANGED <<mode, pidfile, node, moduleVars>>

\* "If the baracuda-process isn't already running, please delete
\* /tmp/baracuda_pid"
DeletePidfile ==
  /\ Deletes
  /\ pidfile # None
  /\ \A d \in Daemons : dpc[d] = "off"
  /\ pidfile' = None
  /\ UNCHANGED <<dpc, mode, keep_going, scriptVars, moduleVars>>

\* Somebody else than a daemon writes to /proc/barracuda/conf.
StrangerWrites ==
  /\ Strangers
  /\ \E instruction \in {"con", "refused"} : conf_write(instruction, None)
  /\ UNCHANGED <<dpc, mode, keep_going, pidfile, scriptVars>>

Main(d) ==
  \/ StatPidfile(d) \/ WritePidfile(d) \/ RegisterPid(d) \/ RegisterMode(d)
  \/ InstallHandlers(d) \/ OpenDevice(d) \/ OpenServer(d) \/ RefuseSocket(d)
  \/ EndServer(d) \/ Cleanup(d)

Next ==
  \/ \E d \in Daemons : Main(d) \/ Start(d) \/ Crash(d)
  \/ StopBegins \/ StopSignals
  \/ DeletePidfile \/ StrangerWrites

\* A started process runs on, but its server loop may wait for ever.  Nobody
\* has to start, stop or crash a daemon.
Spec ==
  /\ Init /\ [][Next]_vars
  /\ \A d \in Daemons : WF_vars(dpc[d] # "serve" /\ Main(d))

-----------------------------------------------------------------------------
(* Properties                                                               *)

\* Type invariant of the registration.
TypeOK ==
  /\ dpc \in [Daemons -> Starting \cup {"off", "serve", "cleanup"}]
  /\ mode \in [Daemons -> Modes]
  /\ keep_going \in [Daemons -> BOOLEAN]
  /\ pidfile \in Daemons \cup {None}
  /\ node \in BOOLEAN /\ stopping \in BOOLEAN
  /\ PID \in Daemons \cup {None} /\ configured \in BOOLEAN
  /\ conf_mutex \in Nat /\ gen_syndrome_mutex \in Nat
  /\ refused \in BOOLEAN

\* However often and in whatever overlap daemons are started, stopped and
\* killed, gen_syndrome() is opened once: gen_syndrome_mutex never becomes 2
\* (which would let two callers share *actual_snc), and it is open only when
\* a PID is registered, so that no caller sends its work to process 0.
GenOpenedOnce ==
  /\ gen_syndrome_mutex = (IF configured THEN 1 ELSE 0)
  /\ configured => PID # None

\* conf_write() loses conf_mutex on three ways out only: the early return
\* for a configured module and the two errors for a write that is refused.
\* Until one of them has been taken, no write to /proc/barracuda/conf blocks.
ConfFreeUntilConfigured == conf_mutex = 1 \/ configured \/ refused

\* A daemon that is started while nothing is configured does not hang: it
\* serves, or gives up, or the module gets configured by another one; unless
\* a refused write has taken conf_mutex away, after which its start-up waits.
FirstStartEnds ==
  \A d \in Daemons :
    (dpc[d] \in Starting /\ ~configured) ~> (dpc[d] \notin Starting \/ configured \/ refused)

-----------------------------------------------------------------------------
(* What the documentation says and the code does not do                     *)

\* A call of the init script with restart, or a later start, ends in a
\* daemon that serves or in a daemon that gives up; none hangs in start-up.
StartEnds == \A d \in Daemons : dpc[d] \in Starting ~> dpc[d] \notin Starting
=============================================================================
