----------------------------- MODULE ProcfsConn -----------------------------
(***************************************************************************)
(* The PROCFS connection: call_usp_proc(), proc_read() and proc_write() in *)
(* raid6cuda.c, and the server loop server_procfs() of the daemon, which   *)
(* reads /proc/barracuda/stub for a job and writes it to report the job    *)
(* done.                                                                   *)
(*                                                                         *)
(* procfs_wq_flag is 0 while a job waits for its answer and 2 otherwise.   *)
(* The kernel threads that call are not signalled; the daemon may be.  All *)
(* waits are wait_event_interruptible() calls whose result is ignored: a   *)
(* signal ends a wait as if its condition held.                            *)
(***************************************************************************)
EXTENDS Marshalling

VARIABLES
  procfs_wq_flag,
  call_usp_proc_mutex,  \* counting semaphores
  proc_read_mutex,
  reads,                \* calls of proc_read() made by the current fread()
  outbuf                \* the stream's buffer holds an answer not yet flushed

readVars == <<proc_read_mutex, reads>>
connVars == <<procfs_wq_flag, call_usp_proc_mutex, readVars, outbuf>>
vars == <<stubVars, connVars>>

CallerLabels == {"memcpy", "raise", "wait", "up_call"}
DaemonLabels == {"flush", "read", "read_wait", "close"}

Init ==
  /\ StubInit
  /\ procfs_wq_flag = 2
  /\ call_usp_proc_mutex = 1
  /\ proc_read_mutex = 1
  /\ reads = 0
  /\ outbuf = FALSE

-----------------------------------------------------------------------------
(* call_usp_proc()                                                          *)

CallerOnly == UNCHANGED <<gen_syndrome_mutex, disks, blockVars, signalVars,
                          parity, dpc, readVars, outbuf>>

\* Mutant: the flag is raised before the container is copied.
DownCallUspRaises(c) ==
  /\ At(c, {"call_usp"})
  /\ call_usp_proc_mutex > 0
  /\ call_usp_proc_mutex' = call_usp_proc_mutex - 1
  /\ procfs_wq_flag' = 0
  /\ Goto(c, "memcpy")
  /\ UNCHANGED actual_snc
  /\ CallerOnly

DownCallUsp(c) ==
  /\ At(c, {"call_usp"})
  /\ call_usp_proc_mutex > 0
  /\ call_usp_proc_mutex' = call_usp_proc_mutex - 1
  /\ Goto(c, "memcpy")
  /\ UNCHANGED <<actual_snc, procfs_wq_flag>>
  /\ CallerOnly

\* memcpy(actual_snc, &snc, ...)
Publish(c) ==
  /\ At(c, {"memcpy"})
  /\ actual_snc' = c
  /\ Goto(c, "raise")
  /\ UNCHANGED <<call_usp_proc_mutex, procfs_wq_flag>>
  /\ CallerOnly

\* procfs_wq_flag = 0 and wake_up_interruptible()
RaiseFlag(c) ==
  /\ At(c, {"raise"})
  /\ procfs_wq_flag' = 0
  /\ Goto(c, "wait")
  /\ UNCHANGED <<actual_snc, call_usp_proc_mutex>>
  /\ CallerOnly

\* the caller's wait for procfs_wq_flag == 2 ends
Answered(c) ==
  /\ At(c, {"wait"})
  /\ procfs_wq_flag = 2
  /\ Goto(c, "up_call")
  /\ UNCHANGED <<actual_snc, call_usp_proc_mutex, procfs_wq_flag>>
  /\ CallerOnly

UpCallUsp(c) ==
  /\ At(c, {"up_call"})
  /\ call_usp_proc_mutex' = call_usp_proc_mutex + 1
  /\ Goto(c, "kill")
  /\ UNCHANGED <<actual_snc, procfs_wq_flag>>
  /\ CallerOnly

Caller(c) ==
  \/ Stub(c) /\ UNCHANGED connVars
  \/ DownCallUsp(c)
  \/ Publish(c)
  \/ RaiseFlag(c)
  \/ Answered(c)
  \/ UpCallUsp(c)

-----------------------------------------------------------------------------
(* server_procfs()                                                          *)

DaemonOnly == UNCHANGED <<callVars, blockVars, actual_snc, parity,
                          call_usp_proc_mutex>>

\* while( keep_going ) fread(...): the stream flushes a buffered answer
\* before it reads; leaving the loop, fclose() flushes it.
LoopTest ==
  /\ dpc = "loop"
  /\ dpc' = CASE ~keep_going -> "close"
              [] keep_going /\ outbuf -> "flush"
              [] OTHER -> "read"
  /\ UNCHANGED <<signalVars, procfs_wq_flag, readVars, outbuf>>
  /\ DaemonOnly

\* Mutant: the answer is consumed without resetting procfs_wq_flag.
ProcWriteNoReset(next) ==
  /\ outbuf
  /\ outbuf' = FALSE
  /\ dpc' = next
  /\ UNCHANGED <<signalVars, readVars, procfs_wq_flag>>
  /\ DaemonOnly

\* proc_write(): the daemon writes back the address it has read, so neither
\* error return is taken.  It needs no lock that another process holds.
ProcWrite(next) ==
  /\ outbuf
  /\ procfs_wq_flag' = 2
  /\ outbuf' = FALSE
  /\ dpc' = next
  /\ UNCHANGED <<signalVars, readVars>>
  /\ DaemonOnly

\* proc_read(): down(), then the wait for a job.
EnterRead ==
  /\ dpc = "read"
  /\ proc_read_mutex > 0
  /\ proc_read_mutex' = proc_read_mutex - 1
  /\ reads' = reads + 1
  /\ dpc' = "read_wait"
  /\ UNCHANGED <<signalVars, procfs_wq_flag, outbuf>>
  /\ DaemonOnly

\* proc_read() returns; an fread() of ten bytes is one or two calls of it.
LeaveRead(cut) ==
  /\ dpc = "read_wait"
  /\ proc_read_mutex' = proc_read_mutex + 1
  /\ \/ dpc' = "get" /\ reads' = 0
     \/ dpc' = "read" /\ reads = 1 /\ UNCHANGED reads
  /\ LeaveWait(cut)
  /\ UNCHANGED <<procfs_wq_flag, outbuf>>
  /\ DaemonOnly

ReadJob == procfs_wq_flag = 0 /\ LeaveRead(FALSE)
ReadCut == procfs_wq_flag # 0 /\ pending # {} /\ LeaveRead(TRUE)

\* fwrite() of the answer: it stays in the stream's buffer.
BufferAnswer ==
  /\ dpc = "served"
  /\ outbuf' = TRUE
  /\ dpc' = "loop"
  /\ UNCHANGED <<signalVars, procfs_wq_flag, readVars>>
  /\ DaemonOnly

\* Mutant: the stream is not closed, the last answer stays in its buffer.
ExitUnflushed ==
  /\ dpc = "close"
  /\ dpc' = "exit"
  /\ UNCHANGED <<signalVars, procfs_wq_flag, readVars, outbuf>>
  /\ DaemonOnly

\* fclose() with nothing left to flush, and the end of the daemon.
Exit ==
  /\ dpc = "close"
  /\ ~outbuf
  /\ dpc' = "exit"
  /\ UNCHANGED <<signalVars, procfs_wq_flag, readVars, outbuf>>
  /\ DaemonOnly

\* The daemon's steps other than the end of a wait by a signal.
Daemon ==
  \/ (Connect \/ Job) /\ UNCHANGED connVars
  \/ LoopTest
  \/ dpc = "flush" /\ ProcWrite("read")
  \/ dpc = "close" /\ ProcWrite("close")
  \/ EnterRead
  \/ ReadJob
  \/ BufferAnswer
  \/ Exit

SignalDaemon ==
  /\ \E s \in Signals : Signal(s, dpc = "read_wait")
  /\ UNCHANGED connVars

Next == Daemon \/ ReadCut \/ SignalDaemon \/ \E c \in Callers : Caller(c)

Spec == Init /\ [][Next]_vars

\* Semaphores are handed over in the order of arrival, so a caller is not
\* overtaken for ever; a runnable thread is scheduled eventually.
CallerFairness(c) ==
  /\ WF_vars(Caller(c) /\ pc[c] # "idle")
  /\ SF_vars(DownGenSyndrome(c) /\ UNCHANGED connVars)

FairSpec == Spec /\ WF_vars(Daemon \/ ReadCut) /\ \A c \in Callers : CallerFairness(c)

-----------------------------------------------------------------------------
(* Properties                                                               *)

\* Type invariant of the procfs connection.
TypeOK ==
  /\ StubTypeOK(CallerLabels, DaemonLabels)
  /\ procfs_wq_flag \in {0, 2}
  /\ call_usp_proc_mutex \in Nat
  /\ proc_read_mutex \in Nat
  /\ reads \in 0 .. 2
  /\ outbuf \in BOOLEAN

InGen(c) == At(c, {"pack", "call_usp", "kill", "up_gen"} \cup CallerLabels)
InCallUsp(c) == At(c, CallerLabels)

\* The global *actual_snc belongs to one caller from its memcpy until it has
\* freed its container: no second caller overwrites the container or takes
\* the first one's answer (gen_syndrome_mutex, call_usp_proc_mutex).
PublishedStable ==
  \A c \in Callers : At(c, {"raise", "wait", "up_call", "kill"}) => actual_snc = c

Serving == dpc \in JobLabels \cup {"served"} \/ outbuf

\* Unless a signal has cut a proc_read() short, the daemon works on one job
\* from the read to the answer: the caller of that job is waiting all the
\* while, its container is the published one, and no block of another or of
\* a freed container is mapped.
ServesPublished ==
  ~interrupted /\ Serving =>
    \E c \in Callers :
      /\ At(c, {"wait"}) /\ procfs_wq_flag = 0
      /\ actual_snc = c
      /\ mapped \subseteq {c}

\* Unless a signal has cut a proc_read() short, call_usp_proc() returns only
\* when the parity of that very call has been computed, or when pack_smc()
\* had no memory and the call was marshalled without disks.
ReturnComputed ==
  \A c \in Callers :
    ~interrupted /\ At(c, {"up_call", "kill", "up_gen"}) => c \in parity \/ disks[c] = 0

\* A job that was computed is answered before the daemon ends, whenever the
\* shutdown arrives: fclose() flushes the last answer (unless a proc_read()
\* was cut short and the job taken up before it was announced).
ExitAnswersComputed ==
  ~interrupted /\ dpc = "exit" => ~\E c \in Callers : At(c, {"wait"}) /\ procfs_wq_flag = 0 /\ c \in parity

\* A caller that waits for its answer gets it, signals or not, as long as
\* the daemon neither ends nor dies.
CallReturns ==
  \A c \in Callers : At(c, {"wait"}) ~> (~At(c, {"wait"}) \/ Gone)

-----------------------------------------------------------------------------
(* What the documentation says and the code does not do                     *)

\* "This function gets called, if the job is done" (of proc_write): an
\* answered call has been computed, whatever signals the daemon handles.
AnswerMeansDone ==
  \A c \in Callers : At(c, {"up_call", "kill", "up_gen"}) => c \in parity

-----------------------------------------------------------------------------
(* The inductive invariant                                                  *)

\* What the labels of the daemon say about its own variables.
DaemonInv ==
  /\ dpc \notin {"map", "compute", "unget"} => hdr = 0 /\ got = 0 /\ mapped = {}
  /\ dpc \in {"compute", "unget"} => got = hdr
  /\ got = 0 <=> mapped = {}
  /\ outbuf => dpc \in {"loop", "flush", "close"}
  /\ dpc \notin {"read", "read_wait"} => reads = 0
  /\ dpc = "read" => reads \in {0, 1}
  /\ dpc = "read_wait" => reads \in {1, 2}

\* gen_syndrome_mutex admits one caller, and none before "con=..." is written.
MutexInv ==
  /\ gen_syndrome_mutex \in {0, 1}
  /\ dpc = "conf" \/ gen_syndrome_mutex = 1 => \A c \in Callers : ~InGen(c)
  /\ dpc = "conf" => gen_syndrome_mutex = 0
  /\ \A c, d \in Callers : InGen(c) /\ InGen(d) => c = d

\* The flag says that some caller waits for its answer.
FlagInv == procfs_wq_flag = 0 => \E c \in Callers : At(c, {"wait"})

Computed(c) == c \in parity \/ disks[c] = 0
Answering == dpc \in {"unget", "served"} \/ outbuf

\* The progress of the one job, as long as no wait was cut short.
JobInv ==
  ~interrupted =>
    /\ Serving => procfs_wq_flag = 0
    /\ \A c \in Callers : At(c, {"wait"}) /\ procfs_wq_flag = 0 =>
         /\ mapped \subseteq {c}
         /\ dpc \in {"map", "compute", "unget"} => hdr = disks[c]
         /\ c \in parity => Answering
         /\ Answering => Computed(c)
    /\ \A c \in Callers : At(c, {"wait"}) /\ procfs_wq_flag = 2 => Computed(c)
    /\ \A c \in Callers : At(c, {"up_call", "kill", "up_gen"}) => Computed(c)
    /\ \A c \in Callers :
         At(c, {"down_gen", "pack", "call_usp", "memcpy", "raise"}) => c \notin parity

IndInv == TypeOK /\ DaemonInv /\ MutexInv /\ PublishedStable /\ FlagInv /\ JobInv

-----------------------------------------------------------------------------
\* Refinement: calls through procfs behave as SyndromeService promises.
CallState ==
  [c \in Callers |->
     IF At(c, {"idle"}) THEN "idle"
     ELSE IF c \in parity THEN "served"
     ELSE IF ~At(c, {"down_gen", "pack"}) /\ disks[c] = 0 THEN "dropped"
     ELSE "pending"]

Service == INSTANCE SyndromeService WITH state <- CallState, broken <- interrupted \/ Gone

\* The connection implements the service, signals and failures included,
\* until a wait of the daemon is cut short or the daemon has gone.
ImplementsService == Service!Spec
=============================================================================
