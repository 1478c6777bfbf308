-------------------------- MODULE ProcfsConnProofs --------------------------
(***************************************************************************)
(* Proofs about the procfs connection, for any set of callers, any number  *)
(* of disks, any signals and any of the failures.                          *)
(*                                                                         *)
(* The inductive invariant of ProcfsConn is built in three layers, each    *)
(* preserved on the strength of the ones before it:                        *)
(*   ControlInv  the types, and what the daemon's place in its loop says   *)
(*               about its own variables;                                  *)
(*   OwnerInv    gen_syndrome_mutex keeps the callers apart, so *actual_snc *)
(*               and procfs_wq_flag belong to one caller;                  *)
(*   JobInv      how far the job of that caller is, as long as no signal   *)
(*               has cut a proc_read() short.                              *)
(* The proof that a step preserves a layer has one step per action.        *)
(***************************************************************************)
EXTENDS ProcfsConn, TLAPS

\* The first layer: types and the daemon's own variables.
ControlInv == TypeOK /\ DaemonInv

\* keep_going stays a truth value whatever signals kill_handler() and
\* alarm_handler() handle.
LEMMA HandledType ==
  ASSUME keep_going \in BOOLEAN, NEW S PROVE Handled(S) \in BOOLEAN
BY Zenon DEF Handled

\* No step of call_usp_proc(), proc_read(), proc_write(), server_procfs() or
\* a signal handler leaves the types or separates the daemon's variables
\* (blocks mapped, reads made, answer buffered) from its place in the loop.
LEMMA ControlStep == ControlInv /\ [Next]_vars => ControlInv'
<1> SUFFICES ASSUME ControlInv, [Next]_vars PROVE ControlInv'
  OBVIOUS
<1> USE CallersAssumption, DisksAssumption, SignalsAssumption
<1> USE DEF ControlInv, TypeOK, StubTypeOK, DaemonInv, JobLabels, CallerLabels,
            DaemonLabels, At, Goto, callVars, blockVars, signalVars, readVars
<1>1. ASSUME NEW c \in Callers, RaidCall(c), UNCHANGED connVars
      PROVE  ControlInv'
  BY <1>1 DEF RaidCall, connVars
<1>2. ASSUME NEW c \in Callers, DownGenSyndrome(c), UNCHANGED connVars
      PROVE  ControlInv'
  BY <1>2 DEF DownGenSyndrome, connVars
<1>3. ASSUME NEW c \in Callers, PackSmc(c), UNCHANGED connVars
      PROVE  ControlInv'
  BY <1>3 DEF PackSmc, connVars
<1>4. ASSUME NEW c \in Callers, KillSmc(c), UNCHANGED connVars
      PROVE  ControlInv'
  BY <1>4 DEF KillSmc, connVars, Freed
<1>5. ASSUME NEW c \in Callers, UpGenSyndrome(c), UNCHANGED connVars
      PROVE  ControlInv'
  BY <1>5 DEF UpGenSyndrome, connVars
<1>6. ASSUME NEW c \in Callers, DownCallUsp(c)
      PROVE  ControlInv'
  BY <1>6 DEF DownCallUsp, CallerOnly
<1>7. ASSUME NEW c \in Callers, Publish(c)
      PROVE  ControlInv'
  BY <1>7 DEF Publish, CallerOnly
<1>8. ASSUME NEW c \in Callers, RaiseFlag(c)
      PROVE  ControlInv'
  BY <1>8 DEF RaiseFlag, CallerOnly
<1>9. ASSUME NEW c \in Callers, Answered(c)
      PROVE  ControlInv'
  BY <1>9 DEF Answered, CallerOnly
<1>10. ASSUME NEW c \in Callers, UpCallUsp(c)
      PROVE  ControlInv'
  BY <1>10 DEF UpCallUsp, CallerOnly
<1>11. CASE Connect /\ UNCHANGED connVars
  BY <1>11 DEF Connect, connVars
<1>12. CASE ReadHeader /\ UNCHANGED connVars
  BY <1>12 DEF ReadHeader, connVars
<1>13. CASE MapDisk /\ UNCHANGED connVars
  BY <1>13 DEF MapDisk, connVars, Block
<1>14. CASE MapFails /\ UNCHANGED connVars
  BY <1>14 DEF MapFails, connVars
<1>15. CASE MapDone /\ UNCHANGED connVars
  BY <1>15 DEF MapDone, connVars
<1>16. CASE GenSyndrome /\ UNCHANGED connVars
  BY <1>16 DEF GenSyndrome, connVars
<1>17. CASE UngetBlock /\ UNCHANGED connVars
  BY <1>17 DEF UngetBlock, connVars
<1>18. CASE LoopTest
  BY <1>18 DEF LoopTest, DaemonOnly
<1>19. ASSUME NEW next \in {"read", "close"}, ProcWrite(next)
      PROVE  ControlInv'
  BY <1>19 DEF ProcWrite, DaemonOnly
<1>20. CASE EnterRead
  BY <1>20 DEF EnterRead, DaemonOnly
<1>21. ASSUME NEW cut \in BOOLEAN, LeaveRead(cut), cut = (procfs_wq_flag # 0)
      PROVE  ControlInv'
  <2>1. keep_going' \in BOOLEAN /\ interrupted' \in BOOLEAN
    BY <1>21, HandledType, Zenon DEF LeaveRead, LeaveWait
  <2> QED
    BY <1>21, <2>1 DEF LeaveRead, LeaveWait, DaemonOnly

<1>22. CASE BufferAnswer
  BY <1>22 DEF BufferAnswer, DaemonOnly
<1>23. CASE Exit
  BY <1>23 DEF Exit, DaemonOnly
<1>24. ASSUME NEW s \in Signals, Signal(s, dpc = "read_wait"), UNCHANGED connVars
      PROVE  ControlInv'
  <2>1. keep_going' \in BOOLEAN
    BY <1>24, HandledType, Zenon DEF Signal
  <2>2. pending' \subseteq Signals
    <3>1. pending' = pending \/ pending' = pending \cup {s}
      BY <1>24, Zenon DEF Signal
    <3> QED
      BY <3>1
  <2>3. UNCHANGED <<callVars, blockVars, interrupted, actual_snc, parity, dpc, connVars>>
    BY <1>24 DEF Signal
  <2> QED
    BY <2>1, <2>2, <2>3 DEF connVars

<1>25. CASE UNCHANGED vars
  BY <1>25 DEF vars, stubVars, connVars
<1> QED
  BY <1>1, <1>2, <1>3, <1>4, <1>5, <1>6, <1>7, <1>8, <1>9, <1>10, <1>11, <1>12, <1>13,
     <1>14, <1>15, <1>16, <1>17, <1>18, <1>19, <1>20, <1>21, <1>22, <1>23, <1>24, <1>25
  DEF Next, Caller, Stub, Daemon, Job, SignalDaemon, ReadJob, ReadCut

\* gen_syndrome_mutex keeps the callers apart, and with it *actual_snc and
\* the flag belong to the caller that published last.
OwnerInv == MutexInv /\ PublishedStable /\ FlagInv

\* No step lets a second caller into raid6_cuda_gen_syndrome(), overwrites
\* the published container, or leaves the flag at 0 without a waiting caller.
LEMMA OwnerStep == ControlInv /\ OwnerInv /\ [Next]_vars => OwnerInv'
<1> SUFFICES ASSUME ControlInv, OwnerInv, [Next]_vars PROVE OwnerInv'
  OBVIOUS
<1> USE CallersAssumption
<1> USE DEF ControlInv, TypeOK, StubTypeOK, JobLabels, DaemonLabels, OwnerInv,
            MutexInv, PublishedStable, FlagInv, InGen, CallerLabels,
            At, Goto, callVars, blockVars, signalVars, readVars
<1>1. ASSUME NEW c \in Callers, RaidCall(c), UNCHANGED connVars
      PROVE  OwnerInv'
  BY <1>1 DEF RaidCall, connVars
<1>2. ASSUME NEW c \in Callers, DownGenSyndrome(c), UNCHANGED connVars
      PROVE  OwnerInv'
  BY <1>2 DEF DownGenSyndrome, connVars
<1>3. ASSUME NEW c \in Callers, PackSmc(c), UNCHANGED connVars
      PROVE  OwnerInv'
  BY <1>3 DEF PackSmc, connVars
<1>4. ASSUME NEW c \in Callers, KillSmc(c), UNCHANGED connVars
      PROVE  OwnerInv'
  BY <1>4 DEF KillSmc, connVars, Freed
<1>5. ASSUME NEW c \in Callers, UpGenSyndrome(c), UNCHANGED connVars
      PROVE  OwnerInv'
  BY <1>5 DEF UpGenSyndrome, connVars
<1>6. ASSUME NEW c \in Callers, DownCallUsp(c)
      PROVE  OwnerInv'
  BY <1>6 DEF DownCallUsp, CallerOnly
<1>7. ASSUME NEW c \in Callers, Publish(c)
      PROVE  OwnerInv'
  BY <1>7 DEF Publish, CallerOnly
<1>8. ASSUME NEW c \in Callers, RaiseFlag(c)
      PROVE  OwnerInv'
  BY <1>8 DEF RaiseFlag, CallerOnly
<1>9. ASSUME NEW c \in Callers, Answered(c)
      PROVE  OwnerInv'
  BY <1>9 DEF Answered, CallerOnly
<1>10. ASSUME NEW c \in Callers, UpCallUsp(c)
      PROVE  OwnerInv'
  BY <1>10 DEF UpCallUsp, CallerOnly
<1>11. CASE Connect /\ UNCHANGED connVars
  BY <1>11 DEF Connect, connVars
<1>12. CASE ReadHeader /\ UNCHANGED connVars
  BY <1>12 DEF ReadHeader, connVars
<1>13. CASE MapDisk /\ UNCHANGED connVars
  BY <1>13 DEF MapDisk, connVars
<1>14. CASE MapFails /\ UNCHANGED connVars
  BY <1>14 DEF MapFails, connVars
<1>15. CASE MapDone /\ UNCHANGED connVars
  BY <1>15 DEF MapDone, connVars
<1>16. CASE GenSyndrome /\ UNCHANGED connVars
  BY <1>16 DEF GenSyndrome, connVars
<1>17. CASE UngetBlock /\ UNCHANGED connVars
  BY <1>17 DEF UngetBlock, connVars
<1>18. CASE LoopTest
  BY <1>18 DEF LoopTest, DaemonOnly
<1>19. ASSUME NEW next \in {"read", "close"}, ProcWrite(next)
      PROVE  OwnerInv'
  BY <1>19 DEF ProcWrite, DaemonOnly
<1>20. CASE EnterRead
  BY <1>20 DEF EnterRead, DaemonOnly
<1>21. ASSUME NEW cut \in BOOLEAN, LeaveRead(cut), cut = (procfs_wq_flag # 0)
      PROVE  OwnerInv'
  BY <1>21 DEF LeaveRead, LeaveWait, DaemonOnly
<1>22. CASE BufferAnswer
  BY <1>22 DEF BufferAnswer, DaemonOnly
<1>23. CASE Exit
  BY <1>23 DEF Exit, DaemonOnly
<1>24. ASSUME NEW s \in Signals, Signal(s, dpc = "read_wait"), UNCHANGED connVars
      PROVE  OwnerInv'
  BY <1>24 DEF Signal, connVars
<1>25. CASE UNCHANGED vars
  BY <1>25 DEF vars, stubVars, connVars
<1> QED
  BY <1>1, <1>2, <1>3, <1>4, <1>5, <1>6, <1>7, <1>8, <1>9, <1>10, <1>11, <1>12, <1>13,
     <1>14, <1>15, <1>16, <1>17, <1>18, <1>19, <1>20, <1>21, <1>22, <1>23, <1>24, <1>25
  DEF Next, Caller, Stub, Daemon, Job, SignalDaemon, ReadJob, ReadCut

\* Until a signal cuts a proc_read() short, no step makes server_procfs() work
\* on anything but the published job or answer a job it has not computed.
LEMMA JobStep == ControlInv /\ OwnerInv /\ JobInv /\ [Next]_vars => JobInv'
<1> SUFFICES ASSUME ControlInv, DaemonInv', OwnerInv, JobInv, [Next]_vars PROVE JobInv'
  BY ControlStep DEF ControlInv
<1> USE CallersAssumption, DisksAssumption
<1> USE DEF ControlInv, TypeOK, StubTypeOK, DaemonInv, JobLabels, DaemonLabels,
            OwnerInv, MutexInv, PublishedStable, FlagInv, InGen, CallerLabels,
            JobInv, Serving, Answering, Computed,
            At, Goto, callVars, blockVars, signalVars, readVars
<1>1. ASSUME NEW c \in Callers, RaidCall(c), UNCHANGED connVars
      PROVE  JobInv'
  BY <1>1 DEF RaidCall, connVars
<1>2. ASSUME NEW c \in Callers, DownGenSyndrome(c), UNCHANGED connVars
      PROVE  JobInv'
  BY <1>2 DEF DownGenSyndrome, connVars
<1>3. ASSUME NEW c \in Callers, PackSmc(c), UNCHANGED connVars
      PROVE  JobInv'
  BY <1>3 DEF PackSmc, connVars
<1>4. ASSUME NEW c \in Callers, KillSmc(c), UNCHANGED connVars
      PROVE  JobInv'
  BY <1>4 DEF KillSmc, connVars, Freed
<1>5. ASSUME NEW c \in Callers, UpGenSyndrome(c), UNCHANGED connVars
      PROVE  JobInv'
  BY <1>5 DEF UpGenSyndrome, connVars
<1>6. ASSUME NEW c \in Callers, DownCallUsp(c)
      PROVE  JobInv'
  BY <1>6 DEF DownCallUsp, CallerOnly
<1>7. ASSUME NEW c \in Callers, Publish(c)
      PROVE  JobInv'
  BY <1>7 DEF Publish, CallerOnly
<1>8. ASSUME NEW c \in Callers, RaiseFlag(c)
      PROVE  JobInv'
  BY <1>8 DEF RaiseFlag, CallerOnly
<1>9. ASSUME NEW c \in Callers, Answered(c)
      PROVE  JobInv'
  BY <1>9 DEF Answered, CallerOnly
<1>10. ASSUME NEW c \in Callers, UpCallUsp(c)
      PROVE  JobInv'
  BY <1>10 DEF UpCallUsp, CallerOnly
<1>11. CASE Connect /\ UNCHANGED connVars
  BY <1>11 DEF Connect, connVars
<1>12. CASE ReadHeader /\ UNCHANGED connVars
  BY <1>12 DEF ReadHeader, connVars
<1>13. CASE MapDisk /\ UNCHANGED connVars
  BY <1>13 DEF MapDisk, connVars, Block
<1>14. CASE MapFails /\ UNCHANGED connVars
  BY <1>14 DEF MapFails, connVars
<1>15. CASE MapDone /\ UNCHANGED connVars
  BY <1>15 DEF MapDone, connVars
<1>16. CASE GenSyndrome /\ UNCHANGED connVars
  BY <1>16 DEF GenSyndrome, connVars
<1>17. CASE UngetBlock /\ UNCHANGED connVars
  BY <1>17 DEF UngetBlock, connVars
<1>18. CASE LoopTest
  BY <1>18 DEF LoopTest, DaemonOnly
<1>19. ASSUME NEW next \in {"read", "close"}, ProcWrite(next)
      PROVE  JobInv'
  BY <1>19 DEF ProcWrite, DaemonOnly
<1>20. CASE EnterRead
  BY <1>20 DEF EnterRead, DaemonOnly
<1>21. ASSUME NEW cut \in BOOLEAN, LeaveRead(cut), cut = (procfs_wq_flag # 0)
      PROVE  JobInv'
  BY <1>21 DEF LeaveRead, LeaveWait, DaemonOnly
<1>22. CASE BufferAnswer
  BY <1>22 DEF BufferAnswer, DaemonOnly
<1>23. CASE Exit
  BY <1>23 DEF Exit, DaemonOnly
<1>24. ASSUME NEW s \in Signals, Signal(s, dpc = "read_wait"), UNCHANGED connVars
      PROVE  JobInv'
  BY <1>24 DEF Signal, connVars
<1>25. CASE UNCHANGED vars
  BY <1>25 DEF vars, stubVars, connVars
<1> QED
  BY <1>1, <1>2, <1>3, <1>4, <1>5, <1>6, <1>7, <1>8, <1>9, <1>10, <1>11, <1>12, <1>13,
     <1>14, <1>15, <1>16, <1>17, <1>18, <1>19, <1>20, <1>21, <1>22, <1>23, <1>24, <1>25
  DEF Next, Caller, Stub, Daemon, Job, SignalDaemon, ReadJob, ReadCut

\* The invariant holds once barracuda_start() has taken gen_syndrome_mutex
\* and no daemon has registered.
LEMMA InitInv == Init => IndInv
<1> SUFFICES ASSUME Init PROVE IndInv
  OBVIOUS
<1> USE CallersAssumption, DisksAssumption DEF Init, StubInit, At
<1>1. TypeOK
  <2>1. keep_going \in BOOLEAN /\ interrupted \in BOOLEAN /\ outbuf \in BOOLEAN
    BY Zenon
  <2> QED
    BY <2>1 DEF TypeOK, StubTypeOK, CallerLabels, DaemonLabels, JobLabels
<1>2. DaemonInv
  BY DEF DaemonInv
<1>3. MutexInv /\ PublishedStable /\ FlagInv
  BY DEF MutexInv, PublishedStable, FlagInv, InGen, CallerLabels
<1>4. JobInv
  BY DEF JobInv, Serving, Answering, Computed, JobLabels
<1> QED
  BY <1>1, <1>2, <1>3, <1>4 DEF IndInv

\* The three layers together are preserved by every step.
LEMMA StepInv == IndInv /\ [Next]_vars => IndInv'
BY ControlStep, OwnerStep, JobStep DEF IndInv, ControlInv, OwnerInv

\* Every reachable state of the procfs connection satisfies the inductive
\* invariant.
THEOREM Invariance == Spec => []IndInv
BY InitInv, StepInv, PTL DEF Spec

\* The variables of call_usp_proc(), proc_read() and server_procfs() keep
\* their types; in particular the semaphores stay nonnegative and no more
\* blocks are mapped than the header announces.
THEOREM TypeCorrect == Spec => []TypeOK
BY Invariance, PTL DEF IndInv

\* From its memcpy to its kill_smc() a caller's container stays the one in
\* *actual_snc: call_usp_proc() of two callers never overlap, whatever
\* signals the daemon gets.
THEOREM PublishedStays == Spec => []PublishedStable
BY Invariance, PTL DEF IndInv

\* The invariant names the caller server_procfs() is working for.
LEMMA InvServes == IndInv => ServesPublished
<1> SUFFICES ASSUME IndInv, ~interrupted, Serving
             PROVE \E c \in Callers : /\ At(c, {"wait"}) /\ procfs_wq_flag = 0
                                       /\ actual_snc = c
                                       /\ mapped \subseteq {c}
  BY DEF ServesPublished
<1>1. procfs_wq_flag = 0
  BY DEF IndInv, JobInv
<1>2. PICK c \in Callers : At(c, {"wait"})
  BY <1>1 DEF IndInv, FlagInv
<1>3. actual_snc = c /\ mapped \subseteq {c}
  BY <1>1, <1>2 DEF IndInv, PublishedStable, JobInv, At
<1> QED
  BY <1>1, <1>2, <1>3

\* Until a signal cuts a proc_read() short, server_procfs() works only on the
\* published container of a caller that waits in call_usp_proc().
THEOREM DaemonServesPublished == Spec => []ServesPublished
BY Invariance, InvServes, PTL

\* The invariant says that a caller past its wait has been computed.
LEMMA InvReturn == IndInv => ReturnComputed
BY DEF IndInv, JobInv, ReturnComputed, Computed

\* Until a signal cuts a proc_read() short, call_usp_proc() returns only when
\* the parity of that call has been computed or the call had no disks.
THEOREM ReturnsComputed == Spec => []ReturnComputed
BY Invariance, InvReturn, PTL

\* The invariant says that a computed job has its answer on the way.
LEMMA InvExit == IndInv => ExitAnswersComputed
BY DEF IndInv, DaemonInv, JobInv, ExitAnswersComputed, Answering

\* Whenever the shutdown comes, fclose() in server_procfs() has flushed the
\* answer of the last computed job before the daemon ends.
THEOREM ComputedIsAnswered == Spec => []ExitAnswersComputed
BY Invariance, InvExit, PTL

\* When the promise of the service is over.
Over == interrupted \/ Gone

\* A wait that was cut short stays so, and the daemon does not come back.
LEMMA OverStays == IndInv /\ Over /\ [Next]_vars => Over'
<1> SUFFICES ASSUME IndInv, Over, [Next]_vars PROVE Over'
  OBVIOUS
<1> USE DEF Over, Gone
<1>1. ASSUME NEW c \in Callers, Caller(c) PROVE Over'
  BY <1>1 DEF Caller, Stub, RaidCall, DownGenSyndrome, PackSmc, KillSmc,
     UpGenSyndrome, DownCallUsp, Publish, RaiseFlag, Answered, UpCallUsp,
     CallerOnly, signalVars
<1>2. CASE (Connect \/ Job) /\ UNCHANGED connVars
  BY <1>2 DEF Connect, Job, ReadHeader, MapDisk, MapFails, MapDone,
     GenSyndrome, UngetBlock, signalVars
<1>3. CASE LoopTest \/ EnterRead \/ BufferAnswer \/ Exit
           \/ (dpc = "flush" /\ ProcWrite("read"))
           \/ (dpc = "close" /\ ProcWrite("close"))
  BY <1>3 DEF LoopTest, EnterRead, BufferAnswer, Exit, ProcWrite, signalVars
<1>4. CASE ReadJob \/ ReadCut
  BY <1>4 DEF ReadJob, ReadCut, LeaveRead, LeaveWait, IndInv, TypeOK, StubTypeOK
<1>5. CASE SignalDaemon
  BY <1>5 DEF SignalDaemon, Signal
<1>6. CASE UNCHANGED vars
  BY <1>6 DEF vars, stubVars, signalVars
<1> QED
  BY <1>1, <1>2, <1>3, <1>4, <1>5, <1>6 DEF Next, Daemon

\* A step that leaves a caller's label, its parity and its disks alone
\* leaves its call in the same abstract state.
LEMMA SameState ==
  ASSUME pc' = pc, parity' = parity, disks' = disks
  PROVE  CallState' = CallState
BY DEF CallState, At

\* A step of one call in the abstract state.
Moves(c, from, to) == CallState[c] = from /\ CallState' = [CallState EXCEPT ![c] = to]
Requests(c) == Moves(c, "idle", "pending")
Serves(c) == Moves(c, "pending", "served")
Drops(c) == Moves(c, "pending", "dropped")
Returns(c) == Moves(c, "served", "idle") \/ Moves(c, "dropped", "idle")

\* While the promise holds, every step of the connection is a step of one
\* call or none.
LEMMA ServiceStep ==
  IndInv /\ ~Over /\ ~Over' /\ [Next]_vars =>
    \/ \E c \in Callers : Requests(c) \/ Serves(c) \/ Drops(c) \/ Returns(c)
    \/ CallState' = CallState
<1> SUFFICES ASSUME IndInv, ~interrupted, ~interrupted', [Next]_vars
             PROVE  \/ \E c \in Callers : Requests(c) \/ Serves(c) \/ Drops(c) \/ Returns(c)
                    \/ CallState' = CallState
  BY DEF Over
<1> USE CallersAssumption, DisksAssumption
<1> USE DEF IndInv, TypeOK, StubTypeOK, CallerLabels, At, Goto, CallState,
            Requests, Serves, Drops, Returns, Moves
<1>1. ASSUME NEW c \in Callers, RaidCall(c) PROVE Requests(c)
  BY <1>1 DEF RaidCall
<1>2. ASSUME NEW c \in Callers, PackSmc(c)
      PROVE  Drops(c) \/ CallState' = CallState
  <2>1. PICK n \in {0, Disks} : disks' = [disks EXCEPT ![c] = n]
    BY <1>2 DEF PackSmc
  <2>2. c \notin parity /\ pc[c] = "pack" /\ parity' = parity
    BY <1>2 DEF PackSmc, JobInv
  <2>3. pc' = [pc EXCEPT ![c] = "call_usp"]
    BY <1>2 DEF PackSmc
  <2>4. CASE n = 0
    <3>1. CallState[c] = "pending" /\ CallState'[c] = "dropped"
      BY <2>1, <2>2, <2>3, <2>4
    <3>2. \A d \in Callers \ {c} : CallState'[d] = CallState[d]
      BY <2>1, <2>2, <2>3
    <3>3. CallState' = [CallState EXCEPT ![c] = "dropped"]
      BY <3>1, <3>2
    <3> QED
      BY <3>1, <3>3
  <2>5. CASE n = Disks
    BY <2>1, <2>2, <2>3, <2>5
  <2> QED BY <2>4, <2>5
<1>3. ASSUME NEW c \in Callers, UpGenSyndrome(c) PROVE Returns(c)
  BY <1>3 DEF UpGenSyndrome, JobInv, Computed
<1>4. ASSUME NEW c \in Callers,
             DownGenSyndrome(c) \/ KillSmc(c) \/ DownCallUsp(c) \/ Publish(c)
               \/ RaiseFlag(c) \/ Answered(c) \/ UpCallUsp(c)
      PROVE  CallState' = CallState
  BY <1>4 DEF DownGenSyndrome, KillSmc, DownCallUsp, Publish, RaiseFlag,
              Answered, UpCallUsp, CallerOnly, JobInv
<1>5. CASE GenSyndrome
  <2>1. PICK d \in Callers : At(d, {"wait"}) /\ mapped \subseteq {d}
    BY <1>5, InvServes DEF ServesPublished, Serving, GenSyndrome, JobLabels
  <2>2. CASE mapped = {d} /\ got = disks[d] /\ d \notin parity
    <3>1. disks[d] # 0
      BY <2>2 DEF DaemonInv
    <3>2. parity' = parity \cup {d}
      BY <1>5, <2>2 DEF GenSyndrome
    <3>3. pc' = pc /\ disks' = disks
      BY <1>5 DEF GenSyndrome, callVars
    <3>4. Serves(d)
      BY <2>1, <2>2, <3>1, <3>2, <3>3
    <3> QED BY <3>4
  <2>3. CASE ~(mapped = {d} /\ got = disks[d] /\ d \notin parity)
    <3>1. parity' = parity
      BY <1>5, <2>1, <2>3 DEF GenSyndrome
    <3> QED BY <1>5, <3>1, SameState DEF GenSyndrome, callVars
  <2> QED BY <2>2, <2>3
<1>6. CASE Connect \/ ReadHeader \/ MapDisk \/ MapFails \/ MapDone \/ UngetBlock
  BY <1>6, SameState
  DEF Connect, ReadHeader, MapDisk, MapFails, MapDone, UngetBlock, callVars
<1>7. CASE LoopTest \/ EnterRead \/ ReadJob \/ ReadCut \/ BufferAnswer \/ Exit
           \/ ProcWrite("read") \/ ProcWrite("close")
  BY <1>7, SameState
  DEF LoopTest, EnterRead, ReadJob, ReadCut, LeaveRead, BufferAnswer, Exit, ProcWrite,
      DaemonOnly, callVars
<1>8. CASE SignalDaemon
  BY <1>8, SameState DEF SignalDaemon, Signal, callVars
<1>9. CASE UNCHANGED vars
  BY <1>9, SameState DEF vars, stubVars, callVars
<1> QED
  BY <1>1, <1>2, <1>3, <1>4, <1>5, <1>6, <1>7, <1>8, <1>9
  DEF Next, Daemon, Caller, Stub, Job

\* raid6_cuda_gen_syndrome() over procfs implements the safety part of
\* SyndromeService, for any signals and failures: until a proc_read() is cut
\* short or the daemon has gone, a call is served or dropped exactly once,
\* after it was made and before it returns.
THEOREM Refinement == Spec => Service!Safety
<1>1. Init => Service!Init
  <2> SUFFICES ASSUME Init PROVE Service!Init
    OBVIOUS
  <2>1. CallState = [c \in Callers |-> "idle"]
    BY DEF Init, StubInit, CallState, At
  <2>2. ~interrupted /\ ~Gone
    BY DEF Init, StubInit, Gone
  <2> QED BY <2>1, <2>2, Zenon DEF Service!Init
<1>2. IndInv /\ [Next]_vars => [Service!Next]_<<CallState, interrupted \/ Gone>>
  <2> SUFFICES ASSUME IndInv, [Next]_vars
               PROVE  Service!Next \/ UNCHANGED <<CallState, interrupted \/ Gone>>
    OBVIOUS
  <2>1. CASE Over'
    <3>1. (interrupted \/ Gone)' = TRUE
      BY <2>1, Zenon DEF Over
    <3>2. CallState' \in [Callers -> Service!States]
      BY DEF CallState, Service!States
    <3> QED BY <3>1, <3>2, Zenon DEF Service!Next, Service!Break
  <2>2. CASE ~Over'
    <3>1. ~Over
      BY <2>2, OverStays
    <3>2. (interrupted \/ Gone)' = FALSE /\ (interrupted \/ Gone) = FALSE
      BY <2>2, <3>1, Zenon DEF Over
    <3>3. ASSUME NEW c \in Callers, NEW from, NEW to, Moves(c, from, to)
          PROVE  Service!Move(c, from, to)
      BY <3>2, <3>3, Zenon DEF Moves, Service!Move
    <3>4. ASSUME NEW c \in Callers, Requests(c) \/ Serves(c) \/ Drops(c) \/ Returns(c)
          PROVE  Service!Next
      BY <3>3, <3>4, Zenon DEF Requests, Serves, Drops, Returns, Service!Next,
         Service!Request, Service!Serve, Service!Drop, Service!Return
    <3>5. CASE CallState' = CallState
      BY <3>2, <3>5, Zenon
    <3> QED BY <2>2, <3>1, <3>4, <3>5, ServiceStep
  <2> QED BY <2>1, <2>2
<1> QED
  BY <1>1, <1>2, Invariance, PTL DEF Spec, Service!Safety
=============================================================================
