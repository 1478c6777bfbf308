------------------------------ MODULE IoctlConn ------------------------------
(***************************************************************************)
(* The IOCTL connection: call_usp_ioctl() and ioctl_callback() in          *)
(* raid6cuda.c, and the daemon's loop server_ioctl_callback().             *)
(*                                                                         *)
(* One ioctl() of the daemon does two things: it reports the job of the    *)
(* previous ioctl() done (flag 1) and then waits for the next job (flag    *)
(* 0).  Since the first part would wipe out a job published while the      *)
(* daemon is not inside ioctl(), a caller publishes only after it has      *)
(* taken a credit from ioctl_init_mutex, which every ioctl() puts there.   *)
(*                                                                         *)
(* ioctl_callback_mutex is left out: each ioctl() does up() before down(), *)
(* so that the down() never blocks and the count is 1 again after it.      *)
(***************************************************************************)
EXTENDS Marshalling

CONSTANT MaxCredits   \* bound: no signal cuts a wait while the credits,
                      \* which every cut increases, are at this bound
ASSUME CreditsAssumption == MaxCredits \in Nat

VARIABLES
  ioctl_wq_enter_flag,
  ioctl_init_mutex,      \* counting semaphore, taken by barracuda_start()
  call_usp_ioctl_mutex   \* counting semaphore

connVars == <<ioctl_wq_enter_flag, ioctl_init_mutex, call_usp_ioctl_mutex>>
vars == <<stubVars, connVars>>

CallerLabels == {"down_call", "memcpy", "raise", "wait", "up_call"}
DaemonLabels == {"ioctl", "ioctl_open", "ioctl_wait"}

Init ==
  /\ StubInit
  /\ ioctl_wq_enter_flag = 1
  /\ ioctl_init_mutex = 0
  /\ call_usp_ioctl_mutex = 1

-----------------------------------------------------------------------------
(* call_usp_ioctl()                                                         *)

CallerOnly == UNCHANGED <<gen_syndrome_mutex, disks, blockVars, signalVars, parity, dpc>>

\* Mutant: the caller does not wait for the daemon's ioctl().
DownInitMissing(c) ==
  /\ At(c, {"call_usp"})
  /\ Goto(c, "down_call")
  /\ UNCHANGED <<actual_snc, connVars>>
  /\ CallerOnly

DownInit(c) ==
  /\ At(c, {"call_usp"})
  /\ ioctl_init_mutex > 0
  /\ ioctl_init_mutex' = ioctl_init_mutex - 1
  /\ Goto(c, "down_call")
  /\ UNCHANGED <<actual_snc, ioctl_wq_enter_flag, call_usp_ioctl_mutex>>
  /\ CallerOnly

DownCallUsp(c) ==
  /\ At(c, {"down_call"})
  /\ call_usp_ioctl_mutex > 0
  /\ call_usp_ioctl_mutex' = call_usp_ioctl_mutex - 1
  /\ Goto(c, "memcpy")
  /\ UNCHANGED <<actual_snc, ioctl_wq_enter_flag, ioctl_init_mutex>>
  /\ CallerOnly

\* memcpy(actual_snc, &snc, ...)
Publish(c) ==
  /\ At(c, {"memcpy"})
  /\ actual_snc' = c
  /\ Goto(c, "raise")
  /\ UNCHANGED connVars
  /\ CallerOnly

\* ioctl_wq_enter_flag = 0 and wake_up_interruptible()
RaiseFlag(c) ==
  /\ At(c, {"raise"})
  /\ ioctl_wq_enter_flag' = 0
  /\ Goto(c, "wait")
  /\ UNCHANGED <<actual_snc, ioctl_init_mutex, call_usp_ioctl_mutex>>
  /\ CallerOnly

\* Mutant: the caller waits for the value that procfs uses.
AnsweredAtTwo(c) ==
  /\ At(c, {"wait"})
  /\ ioctl_wq_enter_flag = 2
  /\ Goto(c, "up_call")
  /\ UNCHANGED <<actual_snc, connVars>>
  /\ CallerOnly

\* the caller's wait for ioctl_wq_enter_flag == 1 ends
Answered(c) ==
  /\ At(c, {"wait"})
  /\ ioctl_wq_enter_flag = 1
  /\ Goto(c, "up_call")
  /\ UNCHANGED <<actual_snc, connVars>>
  /\ CallerOnly

\* Mutant: call_usp_ioctl() returns without up().
UpCallUspMissing(c) ==
  /\ At(c, {"up_call"})
  /\ Goto(c, "kill")
  /\ UNCHANGED <<actual_snc, connVars>>
  /\ CallerOnly

UpCallUsp(c) ==
  /\ At(c, {"up_call"})
  /\ call_usp_ioctl_mutex' = call_usp_ioctl_mutex + 1
  /\ Goto(c, "kill")
  /\ UNCHANGED <<actual_snc, ioctl_wq_enter_flag, ioctl_init_mutex>>
  /\ CallerOnly

Caller(c) ==
  \/ Stub(c) /\ UNCHANGED connVars
  \/ DownInit(c)
  \/ DownCallUsp(c)
  \/ Publish(c)
  \/ RaiseFlag(c)
  \/ Answered(c)
  \/ UpCallUsp(c)

-----------------------------------------------------------------------------
(* server_ioctl_callback() and, inside its ioctl(), ioctl_callback()        *)

DaemonOnly == UNCHANGED <<callVars, blockVars, actual_snc, parity, call_usp_ioctl_mutex>>

\* while( keep_going ), before the first job and after each one
LoopTest ==
  /\ dpc \in {"loop", "served"}
  /\ dpc' = IF keep_going THEN "ioctl" ELSE "exit"
  /\ UNCHANGED <<signalVars, ioctl_wq_enter_flag, ioctl_init_mutex>>
  /\ DaemonOnly

\* ioctl_wq_enter_flag = 1 and wake_up_interruptible(): the previous job, if
\* there is one, is reported done.
EnterIoctl ==
  /\ dpc = "ioctl"
  /\ ioctl_wq_enter_flag' = 1
  /\ dpc' = "ioctl_open"
  /\ UNCHANGED <<signalVars, ioctl_init_mutex>>
  /\ DaemonOnly

\* up(&ioctl_init_mutex)
OpenInit ==
  /\ dpc = "ioctl_open"
  /\ ioctl_init_mutex' = ioctl_init_mutex + 1
  /\ dpc' = "ioctl_wait"
  /\ UNCHANGED <<signalVars, ioctl_wq_enter_flag>>
  /\ DaemonOnly

\* ioctl() returns to the server loop, which goes on to get the block.
LeaveIoctl(cut) ==
  /\ dpc = "ioctl_wait"
  /\ dpc' = "get"
  /\ LeaveWait(cut)
  /\ UNCHANGED <<ioctl_wq_enter_flag, ioctl_init_mutex>>
  /\ DaemonOnly

IoctlJob == ioctl_wq_enter_flag = 0 /\ LeaveIoctl(FALSE)
IoctlCut == ioctl_wq_enter_flag # 0 /\ pending # {} /\ LeaveIoctl(TRUE)

\* The daemon's steps other than the end of a wait by a signal.
Daemon ==
  \/ (Connect \/ Job) /\ UNCHANGED connVars
  \/ LoopTest
  \/ EnterIoctl
  \/ OpenInit
  \/ IoctlJob

InIoctl == dpc \in {"ioctl_open", "ioctl_wait"}

SignalDaemon ==
  /\ InIoctl => ioctl_init_mutex < MaxCredits
  /\ \E s \in Signals : Signal(s, InIoctl)
  /\ UNCHANGED connVars

QuietNext == Daemon \/ SignalDaemon \/ \E c \in Callers : Caller(c)
Next == QuietNext \/ IoctlCut

Spec == Init /\ [][Next]_vars

\* A runnable thread is scheduled eventually, and down() is served in the
\* order of arrival.
CallerFairness(c) ==
  /\ WF_vars(Caller(c) /\ pc[c] # "idle")
  /\ SF_vars(DownGenSyndrome(c) /\ UNCHANGED connVars)

FairSpec == Spec /\ WF_vars(Daemon \/ IoctlCut) /\ \A c \in Callers : CallerFairness(c)

\* The behaviours in which no signal ends a wait of the daemon.
QuietSafety == Init /\ [][QuietNext]_vars
QuietSpec == QuietSafety /\ WF_vars(Daemon) /\ \A c \in Callers : CallerFairness(c)

-----------------------------------------------------------------------------
(* Properties                                                               *)

\* Type invariant of the ioctl connection.
TypeOK ==
  /\ StubTypeOK(CallerLabels, DaemonLabels)
  /\ ioctl_wq_enter_flag \in {0, 1}
  /\ ioctl_init_mutex \in Nat
  /\ call_usp_ioctl_mutex \in Nat

InGen(c) == At(c, {"pack", "call_usp", "kill", "up_gen"} \cup CallerLabels)

\* The global *actual_snc belongs to one caller from its memcpy until it has
\* freed its container.
PublishedStable ==
  \A c \in Callers : At(c, {"raise", "wait", "up_call", "kill"}) => actual_snc = c

\* Unless a signal has cut an ioctl() short, a job is announced only while
\* the daemon sits in ioctl(): an announced job is being awaited or worked
\* on, and the next ioctl(), which reports it done, comes after its parity.
\* (The credit of ioctl_init_mutex is what ensures it.)
AnnouncedIsAwaited ==
  ~interrupted =>
    \A c \in Callers :
      At(c, {"wait"}) /\ ioctl_wq_enter_flag = 0 =>
        \/ dpc \in {"ioctl_wait", "get", "map", "compute", "dead"}
        \/ c \in parity
        \/ disks[c] = 0

\* Unless a signal has cut an ioctl() short, call_usp_ioctl() returns only
\* when the parity of that very call has been computed, or when the call was
\* marshalled without disks.
ReturnComputed ==
  \A c \in Callers :
    ~interrupted /\ At(c, {"up_call", "kill", "up_gen"}) => c \in parity \/ disks[c] = 0

\* A caller that waits for its answer gets it, signals or not, as long as
\* the daemon neither ends nor dies.
CallReturns ==
  \A c \in Callers : At(c, {"wait"}) ~> (~At(c, {"wait"}) \/ Gone)

\* A job that was computed is answered before the daemon ends: "Please use
\* <barracuda stop> to shutdown into a secure state."  The ioctl() that would
\* report the last job is not made once keep_going is 0.
ExitAnswersComputed ==
  dpc = "exit" => ~\E c \in Callers : At(c, {"wait"}) /\ c \in parity

\* Refinement: calls through ioctl() behave as SyndromeService promises.
CallState ==
  [c \in Callers |->
     IF At(c, {"idle"}) THEN "idle"
     ELSE IF c \in parity THEN "served"
     ELSE IF ~At(c, {"down_gen", "pack"}) /\ disks[c] = 0 THEN "dropped"
     ELSE "pending"]

Service == INSTANCE SyndromeService WITH state <- CallState, broken <- interrupted \/ Gone

\* The connection implements the service, signals and failures included,
\* until a wait of the daemon is cut short or the daemon has gone.
ImplementsService == Service!Spec
=============================================================================
