--------------------------- MODULE IoctlConnProofs ---------------------------
(***************************************************************************)
(* Proofs about the ioctl connection, for any set of callers, any number   *)
(* of disks, any signals, failures and bound on the credits.               *)
(*                                                                         *)
(* The invariant has the three layers of the procfs proof: control,        *)
(* ownership, progress of the one job.  What is peculiar to ioctl is the   *)
(* credit: ioctl_init_mutex is 1 only while the daemon sits in an ioctl()  *)
(* and nobody has taken the credit yet, and a caller that holds it finds   *)
(* the daemon still there when it announces its job.                       *)
(***************************************************************************)
EXTENDS IoctlConn, TLAPS

-----------------------------------------------------------------------------
(* The inductive invariant                                                  *)

\* What the labels of the daemon say about its own variables.
DaemonInv ==
  /\ dpc \notin {"map", "compute", "unget"} => hdr = 0 /\ got = 0 /\ mapped = {}
  /\ dpc \in {"compute", "unget"} => got = hdr
  /\ got = 0 <=> mapped = {}

ControlInv == TypeOK /\ DaemonInv

\* One caller at a time is between down() and up() of gen_syndrome_mutex.
MutexInv ==
  /\ gen_syndrome_mutex \in {0, 1}
  /\ dpc = "conf" \/ gen_syndrome_mutex = 1 => \A c \in Callers : ~InGen(c)
  /\ dpc = "conf" => gen_syndrome_mutex = 0
  /\ \A c, d \in Callers : InGen(c) /\ InGen(d) => c = d

\* The flag is 0 only for a caller that waits.
FlagInv == ioctl_wq_enter_flag = 0 => \E c \in Callers : At(c, {"wait"})

OwnerInv == MutexInv /\ PublishedStable /\ FlagInv

\* The caller has taken the credit and not announced its job yet.
Holding(c) == At(c, {"down_call", "memcpy", "raise"})
Computed(c) == c \in parity \/ disks[c] = 0
Finished == dpc \in {"unget", "served", "ioctl", "exit"}

\* As long as no ioctl() was cut short, the credit is there only for a daemon
\* that waits in ioctl(), and the job goes its way from the announcement to
\* the next ioctl().
CreditInv ==
  /\ ioctl_init_mutex > 0 =>
       /\ ioctl_init_mutex = 1 /\ dpc = "ioctl_wait" /\ ioctl_wq_enter_flag = 1
       /\ \A c \in Callers : ~Holding(c)
  /\ \A c \in Callers : Holding(c) => dpc = "ioctl_wait" /\ ioctl_wq_enter_flag = 1
  /\ dpc \in JobLabels \cup {"served"} => ioctl_wq_enter_flag = 0
  /\ ioctl_wq_enter_flag = 0 => dpc \notin {"conf", "loop", "ioctl_open"}
ProgressInv ==
  /\ \A c \in Callers : At(c, {"wait"}) /\ ioctl_wq_enter_flag = 0 =>
       /\ mapped \subseteq {c}
       /\ dpc \in {"map", "compute", "unget"} => hdr = disks[c]
       /\ c \in parity => Finished
       /\ Finished => Computed(c)
  /\ \A c \in Callers : At(c, {"wait"}) /\ ioctl_wq_enter_flag = 1 => Computed(c)
  /\ \A c \in Callers : At(c, {"up_call", "kill", "up_gen"}) => Computed(c)
  /\ \A c \in Callers : At(c, {"down_gen", "pack", "call_usp"}) \/ Holding(c) => c \notin parity
JobInv == ~interrupted => CreditInv /\ ProgressInv

IndInv == ControlInv /\ OwnerInv /\ JobInv

-----------------------------------------------------------------------------
(* Every step preserves it                                                  *)

\* keep_going stays a truth value whatever signals are handled.
LEMMA HandledType ==
  ASSUME keep_going \in BOOLEAN, NEW S PROVE Handled(S) \in BOOLEAN
BY Zenon DEF Handled

\* No step of call_usp_ioctl(), ioctl_callback(), server_ioctl_callback() or a
\* signal handler leaves the types or separates the daemon's mappings from
\* its place in the loop.
LEMMA ControlStep == ControlInv /\ [Next]_vars => ControlInv'
<1> SUFFICES ASSUME ControlInv, [Next]_vars PROVE ControlInv'
  OBVIOUS
<1> USE CallersAssumption, DisksAssumption, SignalsAssumption
<1> USE DEF ControlInv, TypeOK, StubTypeOK, DaemonInv, JobLabels, CallerLabels,
            DaemonLabels, At, Goto, callVars, blockVars, signalVars
<1>1. ASSUME NEW c \in Callers, RaidCall(c), UNCHANGED connVars
      PROVE  ControlInv'
  BY <1>1 DEF RaidCall, connVars
<1>2. ASSUME NEW c \in Callers, DownGenSyndrome(c), UNCHANGED connVars
      PROVE  ControlInv'
  BY <1>2 DEF DownGenSyndrome, connVars
<1>3. ASSUME NEW c \in Callers, PackSmc(c), UNCHANGED connVars
      PROVE  ControlInv'
  BY <1>3 DEF PackSmc, connVars
<1>4. ASSUME NEW c \in Callers, KillSmc(c), UNCHANGED connVars
      PROVE  ControlInv'
  BY <1>4 DEF KillSmc, connVars, Freed
<1>5. ASSUME NEW c \in Callers, UpGenSyndrome(c), UNCHANGED connVars
      PROVE  ControlInv'
  BY <1>5 DEF UpGenSyndrome, connVars
<1>6. ASSUME NEW c \in Callers, DownInit(c)
      PROVE  ControlInv'
  BY <1>6 DEF DownInit, CallerOnly, connVars
<1>7. ASSUME NEW c \in Callers, DownCallUsp(c)
      PROVE  ControlInv'
  BY <1>7 DEF DownCallUsp, CallerOnly, connVars
<1>8. ASSUME NEW c \in Callers, Publish(c)
      PROVE  ControlInv'
  BY <1>8 DEF Publish, CallerOnly, connVars
<1>9. ASSUME NEW c \in Callers, RaiseFlag(c)
      PROVE  ControlInv'
  BY <1>9 DEF RaiseFlag, CallerOnly, connVars
<1>10. ASSUME NEW c \in Callers, Answered(c)
      PROVE  ControlInv'
  BY <1>10 DEF Answered, CallerOnly, connVars
<1>11. ASSUME NEW c \in Callers, UpCallUsp(c)
      PROVE  ControlInv'
  BY <1>11 DEF UpCallUsp, CallerOnly, connVars
<1>12. CASE Connect /\ UNCHANGED connVars
  BY <1>12 DEF Connect, connVars
<1>13. CASE ReadHeader /\ UNCHANGED connVars
  BY <1>13 DEF ReadHeader, connVars
<1>14. CASE MapDisk /\ UNCHANGED connVars
  BY <1>14 DEF MapDisk, connVars, Block
<1>15. CASE MapFails /\ UNCHANGED connVars
  BY <1>15 DEF MapFails, connVars
<1>16. CASE MapDone /\ UNCHANGED connVars
  BY <1>16 DEF MapDone, connVars
<1>17. CASE GenSyndrome /\ UNCHANGED connVars
  BY <1>17 DEF GenSyndrome, connVars
<1>18. CASE UngetBlock /\ UNCHANGED connVars
  BY <1>18 DEF UngetBlock, connVars
<1>19. CASE LoopTest
  BY <1>19 DEF LoopTest, DaemonOnly
<1>20. CASE EnterIoctl
  BY <1>20 DEF EnterIoctl, DaemonOnly
<1>21. CASE OpenInit
  BY <1>21 DEF OpenInit, DaemonOnly
<1>22. ASSUME NEW cut \in BOOLEAN, LeaveIoctl(cut), cut = (ioctl_wq_enter_flag # 0)
      PROVE  ControlInv'
  <2>1. keep_going' \in BOOLEAN /\ interrupted' \in BOOLEAN
    BY <1>22, HandledType, Zenon DEF LeaveIoctl, LeaveWait
  <2> QED
    BY <1>22, <2>1 DEF LeaveIoctl, LeaveWait, DaemonOnly
<1>23. ASSUME NEW s \in Signals, Signal(s, InIoctl), UNCHANGED connVars
      PROVE  ControlInv'
  <2>1. keep_going' \in BOOLEAN
    BY <1>23, HandledType, Zenon DEF Signal
  <2> QED
    BY <1>23, <2>1 DEF Signal, connVars
<1>24. CASE UNCHANGED vars
  BY <1>24 DEF vars, stubVars, connVars
<1> QED
  BY <1>1, <1>2, <1>3, <1>4, <1>5, <1>6, <1>7, <1>8, <1>9, <1>10, <1>11, <1>12, <1>13,
     <1>14, <1>15, <1>16, <1>17, <1>18, <1>19, <1>20, <1>21, <1>22, <1>23, <1>24
  DEF Next, QuietNext, Caller, Stub, Daemon, Job, SignalDaemon, IoctlJob, IoctlCut

\* No step lets a second caller into raid6_cuda_gen_syndrome(), overwrites
\* the published container, or leaves the flag at 0 without a waiting caller.
LEMMA OwnerStep == ControlInv /\ OwnerInv /\ [Next]_vars => OwnerInv'
<1> SUFFICES ASSUME ControlInv, OwnerInv, [Next]_vars PROVE OwnerInv'
  OBVIOUS
<1> USE CallersAssumption
<1> USE DEF ControlInv, TypeOK, StubTypeOK, JobLabels, DaemonLabels, OwnerInv,
            MutexInv, PublishedStable, FlagInv, InGen, CallerLabels,
            At, Goto, callVars, blockVars, signalVars
<1>1. ASSUME NEW c \in Callers, RaidCall(c), UNCHANGED connVars
      PROVE  OwnerInv'
  BY <1>1 DEF RaidCall, connVars
<1>2. ASSUME NEW c \in Callers, DownGenSyndrome(c), UNCHANGED connVars
      PROVE  OwnerInv'
  BY <1>2 DEF DownGenSyndrome, connVars
<1>3. ASSUME NEW c \in Callers, PackSmc(c), UNCHANGED connVars
      PROVE  OwnerInv'
  BY <1>3 DEF PackSmc, connVars
<1>4. ASSUME NEW c \in Callers, KillSmc(c), UNCHANGED connVars
      PROVE  OwnerInv'
  BY <1>4 DEF KillSmc, connVars, Freed
<1>5. ASSUME NEW c \in Callers, UpGenSyndrome(c), UNCHANGED connVars
      PROVE  OwnerInv'
  BY <1>5 DEF UpGenSyndrome, connVars
<1>6. ASSUME NEW c \in Callers, DownInit(c)
      PROVE  OwnerInv'
  BY <1>6 DEF DownInit, CallerOnly, connVars
<1>7. ASSUME NEW c \in Callers, DownCallUsp(c)
      PROVE  OwnerInv'
  BY <1>7 DEF DownCallUsp, CallerOnly, connVars
<1>8. ASSUME NEW c \in Callers, Publish(c)
      PROVE  OwnerInv'
  BY <1>8 DEF Publish, CallerOnly, connVars
<1>9. ASSUME NEW c \in Callers, RaiseFlag(c)
      PROVE  OwnerInv'
  BY <1>9 DEF RaiseFlag, CallerOnly, connVars
<1>10. ASSUME NEW c \in Callers, Answered(c)
      PROVE  OwnerInv'
  BY <1>10 DEF Answered, CallerOnly, connVars
<1>11. ASSUME NEW c \in Callers, UpCallUsp(c)
      PROVE  OwnerInv'
  BY <1>11 DEF UpCallUsp, CallerOnly, connVars
<1>12. CASE Connect /\ UNCHANGED connVars
  BY <1>12 DEF Connect, connVars
<1>13. CASE ReadHeader /\ UNCHANGED connVars
  BY <1>13 DEF ReadHeader, connVars
<1>14. CASE MapDisk /\ UNCHANGED connVars
  BY <1>14 DEF MapDisk, connVars, Block
<1>15. CASE MapFails /\ UNCHANGED connVars
  BY <1>15 DEF MapFails, connVars
<1>16. CASE MapDone /\ UNCHANGED connVars
  BY <1>16 DEF MapDone, connVars
<1>17. CASE GenSyndrome /\ UNCHANGED connVars
  BY <1>17 DEF GenSyndrome, connVars
<1>18. CASE UngetBlock /\ UNCHANGED connVars
  BY <1>18 DEF UngetBlock, connVars
<1>19. CASE LoopTest
  BY <1>19 DEF LoopTest, DaemonOnly
<1>20. CASE EnterIoctl
  BY <1>20 DEF EnterIoctl, DaemonOnly
<1>21. CASE OpenInit
  BY <1>21 DEF OpenInit, DaemonOnly
<1>22. ASSUME NEW cut \in BOOLEAN, LeaveIoctl(cut), cut = (ioctl_wq_enter_flag # 0)
      PROVE  OwnerInv'
  BY <1>22 DEF LeaveIoctl, LeaveWait, DaemonOnly
<1>23. ASSUME NEW s \in Signals, Signal(s, InIoctl), UNCHANGED connVars
      PROVE  OwnerInv'
  BY <1>23 DEF Signal, connVars
<1>24. CASE UNCHANGED vars
  BY <1>24 DEF vars, stubVars, connVars
<1> QED
  BY <1>1, <1>2, <1>3, <1>4, <1>5, <1>6, <1>7, <1>8, <1>9, <1>10, <1>11, <1>12, <1>13,
     <1>14, <1>15, <1>16, <1>17, <1>18, <1>19, <1>20, <1>21, <1>22, <1>23, <1>24
  DEF Next, QuietNext, Caller, Stub, Daemon, Job, SignalDaemon, IoctlJob, IoctlCut

\* Until a signal cuts an ioctl() short, no job is announced to a daemon that
\* is not in ioctl(), and none is reported done that was not computed.
LEMMA JobStep == ControlInv /\ OwnerInv /\ JobInv /\ [Next]_vars => JobInv'
<1> SUFFICES ASSUME ControlInv, DaemonInv', OwnerInv, JobInv, [Next]_vars PROVE JobInv'
  BY ControlStep DEF ControlInv
<1> USE CallersAssumption, DisksAssumption
<1> USE DEF ControlInv, TypeOK, StubTypeOK, DaemonInv, JobLabels, DaemonLabels,
            OwnerInv, MutexInv, PublishedStable, FlagInv, InGen, CallerLabels,
            JobInv, CreditInv, ProgressInv, Holding, Finished, Computed,
            At, Goto, callVars, blockVars, signalVars
<1>1. ASSUME NEW c \in Callers, RaidCall(c), UNCHANGED connVars
      PROVE  JobInv'
  BY <1>1 DEF RaidCall, connVars
<1>2. ASSUME NEW c \in Callers, DownGenSyndrome(c), UNCHANGED connVars
      PROVE  JobInv'
  BY <1>2 DEF DownGenSyndrome, connVars
<1>3. ASSUME NEW c \in Callers, PackSmc(c), UNCHANGED connVars
      PROVE  JobInv'
  BY <1>3 DEF PackSmc, connVars
<1>4. ASSUME NEW c \in Callers, KillSmc(c), UNCHANGED connVars
      PROVE  JobInv'
  BY <1>4 DEF KillSmc, connVars, Freed
<1>5. ASSUME NEW c \in Callers, UpGenSyndrome(c), UNCHANGED connVars
      PROVE  JobInv'
  BY <1>5 DEF UpGenSyndrome, connVars
<1>6. ASSUME NEW c \in Callers, DownInit(c)
      PROVE  JobInv'
  BY <1>6 DEF DownInit, CallerOnly, connVars
<1>7. ASSUME NEW c \in Callers, DownCallUsp(c)
      PROVE  JobInv'
  BY <1>7 DEF DownCallUsp, CallerOnly, connVars
<1>8. ASSUME NEW c \in Callers, Publish(c)
      PROVE  JobInv'
  BY <1>8 DEF Publish, CallerOnly, connVars
<1>9. ASSUME NEW c \in Callers, RaiseFlag(c)
      PROVE  JobInv'
  BY <1>9 DEF RaiseFlag, CallerOnly, connVars
<1>10. ASSUME NEW c \in Callers, Answered(c)
      PROVE  JobInv'
  BY <1>10 DEF Answered, CallerOnly, connVars
<1>11. ASSUME NEW c \in Callers, UpCallUsp(c)
      PROVE  JobInv'
  BY <1>11 DEF UpCallUsp, CallerOnly, connVars
<1>12. CASE Connect /\ UNCHANGED connVars
  BY <1>12 DEF Connect, connVars
<1>13. CASE ReadHeader /\ UNCHANGED connVars
  BY <1>13 DEF ReadHeader, connVars
<1>14. CASE MapDisk /\ UNCHANGED connVars
  BY <1>14 DEF MapDisk, connVars, Block
<1>15. CASE MapFails /\ UNCHANGED connVars
  BY <1>15 DEF MapFails, connVars
<1>16. CASE MapDone /\ UNCHANGED connVars
  BY <1>16 DEF MapDone, connVars
<1>17. CASE GenSyndrome /\ UNCHANGED connVars
  BY <1>17 DEF GenSyndrome, connVars
<1>18. CASE UngetBlock /\ UNCHANGED connVars
  BY <1>18 DEF UngetBlock, connVars
<1>19. CASE LoopTest
  BY <1>19 DEF LoopTest, DaemonOnly
<1>20. CASE EnterIoctl
  BY <1>20 DEF EnterIoctl, DaemonOnly
<1>21. CASE OpenInit
  BY <1>21 DEF OpenInit, DaemonOnly
<1>22. ASSUME NEW cut \in BOOLEAN, LeaveIoctl(cut), cut = (ioctl_wq_enter_flag # 0)
      PROVE  JobInv'
  BY <1>22 DEF LeaveIoctl, LeaveWait, DaemonOnly
<1>23. ASSUME NEW s \in Signals, Signal(s, InIoctl), UNCHANGED connVars
      PROVE  JobInv'
  BY <1>23 DEF Signal, connVars
<1>24. CASE UNCHANGED vars
  BY <1>24 DEF vars, stubVars, connVars
<1> QED
  BY <1>1, <1>2, <1>3, <1>4, <1>5, <1>6, <1>7, <1>8, <1>9, <1>10, <1>11, <1>12, <1>13,
     <1>14, <1>15, <1>16, <1>17, <1>18, <1>19, <1>20, <1>21, <1>22, <1>23, <1>24
  DEF Next, QuietNext, Caller, Stub, Daemon, Job, SignalDaemon, IoctlJob, IoctlCut

\* The invariant holds once barracuda_start() has taken gen_syndrome_mutex
\* and ioctl_init_mutex and no daemon has registered.
LEMMA InitInv == Init => IndInv
<1> SUFFICES ASSUME Init PROVE IndInv
  OBVIOUS
<1> USE CallersAssumption, DisksAssumption DEF Init, StubInit, At
<1>1. TypeOK
  <2>1. keep_going \in BOOLEAN /\ interrupted \in BOOLEAN
    BY Zenon
  <2> QED
    BY <2>1 DEF TypeOK, StubTypeOK, CallerLabels, DaemonLabels, JobLabels
<1>2. DaemonInv
  BY DEF DaemonInv
<1>3. MutexInv /\ PublishedStable /\ FlagInv
  BY DEF MutexInv, PublishedStable, FlagInv, InGen, CallerLabels
<1>4. JobInv
  BY DEF JobInv, CreditInv, ProgressInv, Holding, Finished, Computed, JobLabels
<1> QED
  BY <1>1, <1>2, <1>3, <1>4 DEF IndInv, ControlInv, OwnerInv

\* Every reachable state of the ioctl connection satisfies the inductive
\* invariant.
THEOREM Invariance == Spec => []IndInv
<1>1. IndInv /\ [Next]_vars => IndInv'
  BY ControlStep, OwnerStep, JobStep DEF IndInv
<1> QED
  BY InitInv, <1>1, PTL DEF Spec

-----------------------------------------------------------------------------
(* The properties                                                           *)

\* From its memcpy to its kill_smc() a caller's container stays the one in
\* *actual_snc, whatever signals the daemon gets.
THEOREM PublishedStays == Spec => []PublishedStable
BY Invariance, PTL DEF IndInv, OwnerInv

\* Until a signal cuts an ioctl() short, a job is announced only to a daemon
\* that sits in ioctl(), and the ioctl() that reports it done comes after
\* its parity.
THEOREM AnnouncedAreAwaited == Spec => []AnnouncedIsAwaited
<1>1. IndInv => AnnouncedIsAwaited
  BY DEF IndInv, ControlInv, TypeOK, StubTypeOK, JobLabels, DaemonLabels, JobInv, CreditInv,
         ProgressInv, Finished, Computed, AnnouncedIsAwaited
<1> QED
  BY <1>1, Invariance, PTL

\* Until a signal cuts an ioctl() short, call_usp_ioctl() returns only when
\* the parity of that call has been computed or the call had no disks.
THEOREM ReturnsComputed == Spec => []ReturnComputed
<1>1. IndInv => ReturnComputed
  BY DEF IndInv, JobInv, ProgressInv, ReturnComputed, Computed
<1> QED
  BY <1>1, Invariance, PTL

-----------------------------------------------------------------------------
(* The refinement                                                           *)

\* When the promise of the service is over.
Over == interrupted \/ Gone

\* A wait that was cut short stays so, and the daemon does not come back.
LEMMA OverStays == IndInv /\ Over /\ [Next]_vars => Over'
<1> SUFFICES ASSUME IndInv, Over, [Next]_vars PROVE Over'
  OBVIOUS
<1> USE DEF Over, Gone
<1>1. ASSUME NEW c \in Callers, Caller(c) PROVE Over'
  BY <1>1 DEF Caller, Stub, RaidCall, DownGenSyndrome, PackSmc, KillSmc,
     UpGenSyndrome, DownInit, DownCallUsp, Publish, RaiseFlag, Answered, UpCallUsp,
     CallerOnly, signalVars
<1>2. CASE (Connect \/ Job) /\ UNCHANGED connVars
  BY <1>2 DEF Connect, Job, ReadHeader, MapDisk, MapFails, MapDone,
     GenSyndrome, UngetBlock, signalVars
<1>3. CASE LoopTest \/ EnterIoctl \/ OpenInit
  BY <1>3 DEF LoopTest, EnterIoctl, OpenInit, signalVars
<1>4. CASE IoctlJob \/ IoctlCut
  BY <1>4 DEF IoctlJob, IoctlCut, LeaveIoctl, LeaveWait, IndInv, ControlInv, TypeOK, StubTypeOK
<1>5. CASE SignalDaemon
  BY <1>5 DEF SignalDaemon, Signal
<1>6. CASE UNCHANGED vars
  BY <1>6 DEF vars, stubVars, signalVars
<1> QED
  BY <1>1, <1>2, <1>3, <1>4, <1>5, <1>6 DEF Next, QuietNext, Daemon

\* A step that leaves a caller's label, its parity and its disks alone
\* leaves its call in the same abstract state.
LEMMA SameState ==
  ASSUME pc' = pc, parity' = parity, disks' = disks
  PROVE  CallState' = CallState
BY DEF CallState, At

\* A step of one call in the abstract state.
Moves(c, from, to) == CallState[c] = from /\ CallState' = [CallState EXCEPT ![c] = to]
Requests(c) == Moves(c, "idle", "pending")
Serves(c) == Moves(c, "pending", "served")
Drops(c) == Moves(c, "pending", "dropped")
Returns(c) == Moves(c, "served", "idle") \/ Moves(c, "dropped", "idle")

\* While the promise holds, every step of the connection is a step of one
\* call or none.
LEMMA ServiceStep ==
  IndInv /\ ~Over /\ ~Over' /\ [Next]_vars =>
    \/ \E c \in Callers : Requests(c) \/ Serves(c) \/ Drops(c) \/ Returns(c)
    \/ CallState' = CallState
<1> SUFFICES ASSUME IndInv, ~interrupted, ~interrupted', [Next]_vars
             PROVE  \/ \E c \in Callers : Requests(c) \/ Serves(c) \/ Drops(c) \/ Returns(c)
                    \/ CallState' = CallState
  BY DEF Over
<1> USE CallersAssumption, DisksAssumption
<1> USE DEF IndInv, ControlInv, TypeOK, StubTypeOK, CallerLabels, At, Goto, CallState,
            Requests, Serves, Drops, Returns, Moves
<1>1. ASSUME NEW c \in Callers, RaidCall(c) PROVE Requests(c)
  BY <1>1 DEF RaidCall
<1>2. ASSUME NEW c \in Callers, PackSmc(c)
      PROVE  Drops(c) \/ CallState' = CallState
  <2>1. PICK n \in {0, Disks} : disks' = [disks EXCEPT ![c] = n]
    BY <1>2 DEF PackSmc
  <2>2. c \notin parity /\ pc[c] = "pack" /\ parity' = parity
    BY <1>2 DEF PackSmc, JobInv, ProgressInv
  <2>3. pc' = [pc EXCEPT ![c] = "call_usp"]
    BY <1>2 DEF PackSmc
  <2>4. CASE n = 0
    <3>1. CallState[c] = "pending" /\ CallState'[c] = "dropped"
      BY <2>1, <2>2, <2>3, <2>4
    <3>2. \A d \in Callers \ {c} : CallState'[d] = CallState[d]
      BY <2>1, <2>2, <2>3
    <3>3. CallState' = [CallState EXCEPT ![c] = "dropped"]
      BY <3>1, <3>2
    <3> QED
      BY <3>1, <3>3
  <2>5. CASE n = Disks
    BY <2>1, <2>2, <2>3, <2>5
  <2> QED BY <2>4, <2>5
<1>3. ASSUME NEW c \in Callers, UpGenSyndrome(c) PROVE Returns(c)
  BY <1>3 DEF UpGenSyndrome, JobInv, ProgressInv, Computed
<1>4. ASSUME NEW c \in Callers,
             DownGenSyndrome(c) \/ KillSmc(c) \/ DownInit(c) \/ DownCallUsp(c) \/ Publish(c)
               \/ RaiseFlag(c) \/ Answered(c) \/ UpCallUsp(c)
      PROVE  CallState' = CallState
  BY <1>4 DEF DownGenSyndrome, KillSmc, DownInit, DownCallUsp, Publish, RaiseFlag,
              Answered, UpCallUsp, CallerOnly, JobInv, ProgressInv
<1>5. CASE GenSyndrome
  <2>1. PICK d \in Callers : At(d, {"wait"}) /\ mapped \subseteq {d}
    BY <1>5 DEF GenSyndrome, JobLabels, JobInv, CreditInv, ProgressInv, OwnerInv, FlagInv
  <2>2. CASE mapped = {d} /\ got = disks[d] /\ d \notin parity
    <3>1. disks[d] # 0
      BY <2>2 DEF DaemonInv
    <3>2. parity' = parity \cup {d}
      BY <1>5, <2>2 DEF GenSyndrome
    <3>3. pc' = pc /\ disks' = disks
      BY <1>5 DEF GenSyndrome, callVars
    <3>4. Serves(d)
      BY <2>1, <2>2, <3>1, <3>2, <3>3
    <3> QED BY <3>4
  <2>3. CASE ~(mapped = {d} /\ got = disks[d] /\ d \notin parity)
    <3>1. parity' = parity
      BY <1>5, <2>1, <2>3 DEF GenSyndrome
    <3> QED BY <1>5, <3>1, SameState DEF GenSyndrome, callVars
  <2> QED BY <2>2, <2>3
<1>6. CASE Connect \/ ReadHeader \/ MapDisk \/ MapFails \/ MapDone \/ UngetBlock
  BY <1>6, SameState
  DEF Connect, ReadHeader, MapDisk, MapFails, MapDone, UngetBlock, callVars
<1>7. CASE LoopTest \/ EnterIoctl \/ OpenInit \/ IoctlJob \/ IoctlCut
  BY <1>7, SameState
  DEF LoopTest, EnterIoctl, OpenInit, IoctlJob, IoctlCut, LeaveIoctl, DaemonOnly, callVars
<1>8. CASE SignalDaemon
  BY <1>8, SameState DEF SignalDaemon, Signal, callVars
<1>9. CASE UNCHANGED vars
  BY <1>9, SameState DEF vars, stubVars, callVars
<1> QED
  BY <1>1, <1>2, <1>3, <1>4, <1>5, <1>6, <1>7, <1>8, <1>9
  DEF Next, QuietNext, Daemon, Caller, Stub, Job

\* raid6_cuda_gen_syndrome() over ioctl implements the safety part of
\* SyndromeService, for any signals and failures: until an ioctl() is cut
\* short or the daemon has gone, a call is served or dropped exactly once,
\* after it was made and before it returns.
THEOREM Refinement == Spec => Service!Safety
<1>1. Init => Service!Init
  <2> SUFFICES ASSUME Init PROVE Service!Init
    OBVIOUS
  <2>1. CallState = [c \in Callers |-> "idle"]
    BY DEF Init, StubInit, CallState, At
  <2>2. ~interrupted /\ ~Gone
    BY DEF Init, StubInit, Gone
  <2> QED BY <2>1, <2>2, Zenon DEF Service!Init
<1>2. IndInv /\ [Next]_vars => [Service!Next]_<<CallState, interrupted \/ Gone>>
  <2> SUFFICES ASSUME IndInv, [Next]_vars
               PROVE  Service!Next \/ UNCHANGED <<CallState, interrupted \/ Gone>>
    OBVIOUS
  <2>1. CASE Over'
    <3>1. (interrupted \/ Gone)' = TRUE
      BY <2>1, Zenon DEF Over
    <3>2. CallState' \in [Callers -> Service!States]
      BY DEF CallState, Service!States
    <3> QED BY <3>1, <3>2, Zenon DEF Service!Next, Service!Break
  <2>2. CASE ~Over'
    <3>1. ~Over
      BY <2>2, OverStays
    <3>2. (interrupted \/ Gone)' = FALSE /\ (interrupted \/ Gone) = FALSE
      BY <2>2, <3>1, Zenon DEF Over
    <3>3. ASSUME NEW c \in Callers, NEW from, NEW to, Moves(c, from, to)
          PROVE  Service!Move(c, from, to)
      BY <3>2, <3>3, Zenon DEF Moves, Service!Move
    <3>4. ASSUME NEW c \in Callers, Requests(c) \/ Serves(c) \/ Drops(c) \/ Returns(c)
          PROVE  Service!Next
      BY <3>3, <3>4, Zenon DEF Requests, Serves, Drops, Returns, Service!Next,
         Service!Request, Service!Serve, Service!Drop, Service!Return
    <3>5. CASE CallState' = CallState
      BY <3>2, <3>5, Zenon
    <3> QED BY <2>2, <3>1, <3>4, <3>5, ServiceStep
  <2> QED BY <2>1, <2>2
<1> QED
  BY <1>1, <1>2, Invariance, PTL DEF Spec, Service!Safety
=============================================================================
