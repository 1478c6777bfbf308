----------------------------- MODULE MCLifecycle -----------------------------
(***************************************************************************)
(* The life of the programs around the connections, for TLC: a behaviour   *)
(* is one process of the daemon program, or one load of the kernel module  *)
(* with its tester, or one of the prototypes.                              *)
(***************************************************************************)
EXTENDS FrontEnd, ModuleLife, PingPong, MmapExample

\* Options, four implementations (CUDA is in one build only), a benchmark,
\* a name that is too long, and a connection; any of them may also be the
\* value of another.
Words == {"-h", "-V", "-d", "-k", "-m", "-B", "-c", "SMP", "DUMMY", "MULTI", "CUDA", "DRYRUN", "CUDA_SHIFT", "NL"}

vars == <<frontVars, lifeVars, pingVars, exampleVars>>

Init == FrontInit /\ LifeInit /\ PingInit /\ ExampleInit

Process(A) ==
  mpc = "out" /\ proto = "none" /\ ping = "out" /\ A /\ UNCHANGED <<lifeVars, pingVars, exampleVars>>
Life(A) ==
  fpc = "off" /\ proto = "none" /\ ping = "out" /\ A /\ UNCHANGED <<frontVars, pingVars, exampleVars>>
PingPongs(A) ==
  fpc = "off" /\ mpc = "out" /\ ping = "out" /\ A /\ UNCHANGED <<frontVars, lifeVars, exampleVars>>
Example(A) ==
  fpc = "off" /\ mpc = "out" /\ proto = "none" /\ A /\ UNCHANGED <<frontVars, lifeVars, pingVars>>

Next ==
  \/ Process(FrontNext)
  \/ Life(LifeNext)
  \/ PingPongs(PingNext)
  \/ Example(ExampleNext)

\* The threads and the programs are scheduled, time passes; somebody starts a daemon for
\* the tester, and the daemon answers.
Fairness ==
  /\ WF_vars(Life(Tester))
  /\ WF_vars(Life(Tick))
  /\ WF_vars(Life(Answer))
  /\ WF_vars(Life(Configure))
  /\ WF_vars(Life(OpenDevice))
  /\ WF_vars(PingPongs(Kernel))
  /\ WF_vars(PingPongs(Program))

FairSpec == Init /\ [][Next]_vars /\ Fairness
=============================================================================
