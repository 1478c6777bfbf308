------------------------- MODULE RegistrationProofs -------------------------
(***************************************************************************)
(* The registration, for any number of daemons that are started, stopped,  *)
(* killed and started again in any overlap.                                *)
(***************************************************************************)
EXTENDS Registration, TLAPS

\* The three invariants support each other: a write that configures the
\* module finds it unconfigured, and so gen_syndrome_mutex at 0, and has
\* seen a PID, which nothing takes back.
RegInv == TypeOK /\ GenOpenedOnce /\ ConfFreeUntilConfigured

\* A daemon is at one place at a time.
LEMMA GotoType ==
  ASSUME TypeOK, NEW d \in Daemons, NEW from,
         NEW to \in Starting \cup {"off", "serve", "cleanup"}, Goto(d, from, to)
  PROVE  dpc' \in [Daemons -> Starting \cup {"off", "serve", "cleanup"}]
  BY DEF TypeOK, Goto

\* A write to /proc/barracuda/conf keeps the registration in order: only the
\* returns for a configured module and for a refused write take conf_mutex
\* away, and it opens gen_syndrome_mutex only after a PID is registered.
LEMMA WriteKeeps ==
  ASSUME RegInv, NEW d \in Daemons \cup {None},
         NEW instruction \in {"pid", "con", "refused"},
         instruction = "pid" => d \in Daemons,
         conf_write(instruction, d)
  PROVE  /\ PID' \in Daemons \cup {None} /\ configured' \in BOOLEAN
         /\ conf_mutex' \in Nat /\ gen_syndrome_mutex' \in Nat /\ refused' \in BOOLEAN
         /\ GenOpenedOnce' /\ ConfFreeUntilConfigured'
<1> USE DEF RegInv, TypeOK, GenOpenedOnce, ConfFreeUntilConfigured
<1>1. refused' \in BOOLEAN /\ (refused => refused')
  BY DEF conf_write
<1>2. conf_mutex' \in Nat
  BY DEF conf_write, Registered
<1>3. CASE configured
  <2>1. configured' /\ configured' \in BOOLEAN
    BY <1>3, Zenon DEF conf_write, Registered
  <2>2. gen_syndrome_mutex' = gen_syndrome_mutex /\ PID' = PID
    BY <1>3 DEF conf_write, Registered
  <2>. QED
    BY <1>1, <1>2, <1>3, <2>1, <2>2
<1>4. CASE ~configured
  <2>1. gen_syndrome_mutex = 0
    BY <1>4
  <2>2. conf_mutex' = 1 \/ refused'
    <3>1. CASE instruction = "refused"
      BY <1>4, <3>1 DEF conf_write
    <3>2. CASE instruction # "refused"
      BY <1>1, <1>4, <3>2 DEF conf_write, Registered
    <3>. QED
      BY <3>1, <3>2
  <2>3. CASE PID # None /\ instruction = "con"
    <3>1. configured' = TRUE
      BY <1>4, <2>3, Zenon DEF conf_write, Registered
    <3>2. gen_syndrome_mutex' = gen_syndrome_mutex + 1 /\ PID' = PID
      BY <1>4, <2>3 DEF conf_write, Registered
    <3>. QED
      BY <1>1, <1>2, <2>1, <2>3, <3>1, <3>2
  <2>4. CASE ~(PID # None /\ instruction = "con")
    <3>1. configured' = configured
      BY <1>4, <2>4, Zenon DEF conf_write, Registered
    <3>2. gen_syndrome_mutex' = gen_syndrome_mutex /\ PID' \in {PID, d}
      BY <1>4, <2>4 DEF conf_write, Registered
    <3>. QED
      BY <1>1, <1>2, <1>4, <2>1, <2>2, <3>1, <3>2
  <2>. QED
    BY <2>3, <2>4
<1>. QED
  BY <1>3, <1>4

\* A step of a daemon keeps the invariant.
LEMMA MainKeeps ==
  ASSUME RegInv, NEW d \in Daemons, Main(d)
  PROVE  RegInv'
<1> USE DEF RegInv
<1> DEFINE Labels == Starting \cup {"off", "serve", "cleanup"}
<1>1. CASE StatPidfile(d)
  <2>1. dpc' \in [Daemons -> Labels]
    BY <1>1, GotoType DEF StatPidfile, Starting
  <2>. QED
    BY <1>1, <2>1 DEF StatPidfile, TypeOK, GenOpenedOnce, ConfFreeUntilConfigured, scriptVars, moduleVars
<1>2. CASE WritePidfile(d)
  <2>1. dpc' \in [Daemons -> Labels]
    BY <1>2, GotoType DEF WritePidfile, Starting
  <2>. QED
    BY <1>2, <2>1 DEF WritePidfile, TypeOK, GenOpenedOnce, ConfFreeUntilConfigured, scriptVars, moduleVars
<1>3. CASE RegisterPid(d)
  <2>1. dpc' \in [Daemons -> Labels]
    BY <1>3, GotoType DEF RegisterPid, Starting
  <2>. QED
    BY <1>3, <2>1, WriteKeeps DEF RegisterPid, TypeOK, scriptVars
<1>4. CASE RegisterMode(d) /\ mode[d] = "none"
  <2>1. dpc' \in [Daemons -> Labels]
    BY <1>4, GotoType DEF RegisterMode
  <2>. QED
    BY <1>4, <2>1 DEF RegisterMode, TypeOK, GenOpenedOnce, ConfFreeUntilConfigured, scriptVars, moduleVars
<1>5. CASE RegisterMode(d) /\ mode[d] # "none"
  <2>1. dpc' \in [Daemons -> Labels]
    BY <1>5, GotoType DEF RegisterMode, Starting
  <2>. QED
    BY <1>5, <2>1, WriteKeeps DEF RegisterMode, TypeOK, scriptVars
<1>6. CASE InstallHandlers(d) \/ OpenDevice(d) \/ OpenServer(d) \/ RefuseSocket(d) \/ EndServer(d)
  <2>1. dpc' \in [Daemons -> Labels]
    BY <1>6, GotoType DEF InstallHandlers, OpenDevice, OpenServer, RefuseSocket, EndServer, Starting
  <2>2. UNCHANGED <<mode, keep_going, pidfile, scriptVars, moduleVars>>
    BY <1>6 DEF InstallHandlers, OpenDevice, OpenServer, RefuseSocket, EndServer
  <2>. QED
    BY <2>1, <2>2 DEF TypeOK, GenOpenedOnce, ConfFreeUntilConfigured, scriptVars, moduleVars
<1>7. CASE Cleanup(d)
  <2>1. dpc' \in [Daemons -> Labels]
    BY <1>7, GotoType DEF Cleanup
  <2>. QED
    BY <1>7, <2>1 DEF Cleanup, TypeOK, GenOpenedOnce, ConfFreeUntilConfigured, scriptVars, moduleVars
<1>. QED
  BY <1>1, <1>2, <1>3, <1>4, <1>5, <1>6, <1>7 DEF Main

\* RegInv holds in every state.
THEOREM Invariance == Spec => []RegInv
<1>1. ASSUME Init
      PROVE  RegInv
  <2>1. TypeOK
    BY <1>1 DEF Init, TypeOK, Modes
  <2>2. ~configured
    BY <1>1 DEF Init
  <2>. QED
    BY <1>1, <2>1, <2>2 DEF Init, RegInv, GenOpenedOnce, ConfFreeUntilConfigured
<1>2. ASSUME RegInv, [Next]_vars
      PROVE  RegInv'
  <2> USE <1>2 DEF RegInv
  <2>1. ASSUME NEW d \in Daemons, Main(d)
        PROVE  RegInv'
    BY <2>1, MainKeeps
  <2>2. ASSUME NEW d \in Daemons, Start(d)
        PROVE  RegInv'
    <3>1. dpc' \in [Daemons -> Starting \cup {"off", "serve", "cleanup"}]
      BY <2>2, GotoType DEF Start, Starting
    <3>. QED
      BY <2>2, <3>1 DEF Start, TypeOK, GenOpenedOnce, ConfFreeUntilConfigured, moduleVars
  <2>3. ASSUME NEW d \in Daemons, Crash(d)
        PROVE  RegInv'
    BY <2>3 DEF Crash, TypeOK, GenOpenedOnce, ConfFreeUntilConfigured, scriptVars, moduleVars
  <2>4. CASE StopBegins
    BY <2>4 DEF StopBegins, TypeOK, GenOpenedOnce, ConfFreeUntilConfigured, moduleVars
  <2>5. CASE StopSignals
    <3>1. dpc' \in [Daemons -> Starting \cup {"off", "serve", "cleanup"}]
      BY <2>5 DEF StopSignals, TypeOK
    <3>2. keep_going' \in [Daemons -> BOOLEAN]
      BY <2>5 DEF StopSignals, TypeOK
    <3>. QED
      BY <2>5, <3>1, <3>2 DEF StopSignals, TypeOK, GenOpenedOnce, ConfFreeUntilConfigured, moduleVars
  <2>6. CASE DeletePidfile
    BY <2>6 DEF DeletePidfile, TypeOK, GenOpenedOnce, ConfFreeUntilConfigured, scriptVars, moduleVars
  <2>7. CASE StrangerWrites
    <3>1. PICK instruction \in {"con", "refused"} : conf_write(instruction, None)
      BY <2>7 DEF StrangerWrites
    <3>. QED
      BY <2>7, <3>1, WriteKeeps DEF StrangerWrites, TypeOK, scriptVars
  <2>8. CASE UNCHANGED vars
    BY <2>8 DEF vars, TypeOK, GenOpenedOnce, ConfFreeUntilConfigured, scriptVars, moduleVars
  <2>. QED
    BY <2>1, <2>2, <2>3, <2>4, <2>5, <2>6, <2>7, <2>8 DEF Next
<1>. QED
  BY <1>1, <1>2, PTL DEF Spec

\* The places of the daemons and the contents of pidfile and registration are
\* what they should be, and no semaphore is negative.
THEOREM TypeCorrect == Spec => []TypeOK
  BY Invariance, PTL DEF RegInv

\* Any number of daemons in any overlap, with stops, crashes and refused
\* writes at any moment: conf_write() opens gen_syndrome_mutex exactly once,
\* and only with a registered PID.
THEOREM OpenedOnce == Spec => []GenOpenedOnce
  BY Invariance, PTL DEF RegInv

\* No write to /proc/barracuda/conf blocks before the module is configured
\* or a write has been refused: these are the ways conf_mutex gets lost.
THEOREM ConfFree == Spec => []ConfFreeUntilConfigured
  BY Invariance, PTL DEF RegInv
=============================================================================
