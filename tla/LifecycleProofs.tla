--------------------------- MODULE LifecycleProofs ---------------------------
(***************************************************************************)
(* The life of the module, for any number of benchmark runs, any HZ and    *)
(* any width of jiffies: barracuda_stop() runs only when nobody uses what  *)
(* it removes, and the benchmark's timer is exact.                         *)
(*                                                                         *)
(* The front end of the daemon, for any command line: benchmark and driver *)
(* take the implementation that the last -m names, and the validator finds *)
(* the implementations out that do not compute the parity.                 *)
(*                                                                         *)
(* The prototypes: the ping-pong over procfs, ioctl and netlink, for every *)
(* number of tests and of pings of a test, and the reversing processes of  *)
(* the mmap example, for every number of processes and of bytes.           *)
(***************************************************************************)
EXTENDS FrontEnd, ModuleLife, PingPong, MmapExample, Gf256Proofs

-----------------------------------------------------------------------------
(* The module: the inductive invariants                                     *)

Served == {"wait", "answered", "free", "tail", "gone"}

LifeType ==
  /\ mpc \in {"out", "start", "create", "loaded", "exit", "stop", "unloaded"}
  /\ step \in 1 .. 7
  /\ tester \in {"none", "alloc", "call", "enter", "publish", "oops"} \cup Served
  /\ round \in 0 .. Rounds
  /\ daemon \in {"none", "configured", "open", "left"}

\* What is there: nothing before insmod, the parts up to step while
\* barracuda_start() is at work, and the container only with everything else.
PartsInv ==
  /\ mpc = "out" => made = {} /\ step = 1 /\ daemon = "none"
  /\ mpc = "start" => made = {Parts[k] : k \in 1 .. step - 1}
  /\ "actual_snc" \in made => made = AllParts

\* Where insmod, rmmod and the thread can be at a time: only the end of the
\* thread releases dont_kill_mutex, and only a call that found the container
\* gets there.
ThreadInv ==
  /\ mpc \in {"out", "start", "create"} => tester = "none"
  /\ mpc \in {"start", "create"} => dont_kill_mutex = 0
  /\ tester \in Served => made = AllParts \/ mpc = "unloaded"
  /\ tester \in {"tail", "gone"} => round = 0
  /\ tester \notin {"tail", "gone"} => round >= 1
  /\ dont_kill_mutex = 1 => mpc \in {"out", "unloaded"} \/ tester \in {"tail", "gone"}
  /\ mpc \in {"stop", "unloaded"} => tester \in {"tail", "gone"}
  /\ mpc \in {"exit", "stop"} => daemon # "open"

LifeInv == LifeType /\ PartsInv /\ ThreadInv

\* The timer lags behind by what the call in progress has taken, which is
\* the distance from t1 to jiffies.
ClockInv ==
  /\ jiffies \in 0 .. JiffyWrap - 1 /\ t1 \in 0 .. JiffyWrap - 1
  /\ jiffie_timer \in Nat /\ spent \in Nat
  /\ tester \in {"call", "free"} => jiffie_timer = spent
  /\ InCall => spent - jiffie_timer \in 0 .. MaxTicks
               /\ jiffies = (t1 + (spent - jiffie_timer)) % JiffyWrap

-----------------------------------------------------------------------------
(* Lemmas                                                                   *)

\* The parts made before the last one do not include the container.
LEMMA LastIsContainer ==
  ASSUME NEW n \in 1 .. 7
  PROVE  "actual_snc" \notin {Parts[k] : k \in 1 .. n - 1}
  BY DEF Parts

\* Making one more part.
LEMMA OnePartMore ==
  ASSUME NEW n \in 1 .. 7
  PROVE  {Parts[k] : k \in 1 .. n - 1} \cup {Parts[n]} = {Parts[k] : k \in 1 .. (n + 1) - 1}
  OBVIOUS

\* The last part makes all of them.
LEMMA AllMade == {Parts[k] : k \in 1 .. 6} \cup {"actual_snc"} = AllParts
  BY DEF Parts, AllParts

-----------------------------------------------------------------------------
(* barracuda_stop() finds the module quiescent                              *)

\* LifeInv holds in every state.
THEOREM Invariance == LifeSpec => []LifeInv
<1>1. LifeInit => LifeInv
  BY ModuleAssumption DEF LifeInit, LifeInv, LifeType, PartsInv, ThreadInv, Served
<1>2. ASSUME LifeInv, [LifeNext]_lifeVars
      PROVE  LifeInv'
  <2> USE <1>2 DEF LifeInv, LifeType, Served
  <2>1. CASE Insmod
    BY <2>1 DEF Insmod, PartsInv, ThreadInv, clock
  <2>2. CASE StartPart
    <3>1. made' = {Parts[k] : k \in 1 .. step' - 1}
      BY <2>2, OnePartMore DEF StartPart, PartsInv
    <3>2. "actual_snc" \notin made'
      BY <3>1, <2>2, LastIsContainer DEF StartPart
    <3>. QED
      BY <2>2, <3>1, <3>2 DEF StartPart, PartsInv, ThreadInv, clock
  <2>3. CASE StartFails
    <3>1. "actual_snc" \notin made'
      BY <2>3, LastIsContainer DEF StartFails, PartsInv
    <3>. QED
      BY <2>3, <3>1 DEF StartFails, PartsInv, ThreadInv, clock
  <2>4. CASE StartReturns
    <3>1. "actual_snc" \in made' => made' = AllParts
      BY <2>4, LastIsContainer, AllMade DEF StartReturns, PartsInv
    <3>. QED
      BY <2>4, <3>1 DEF StartReturns, PartsInv, ThreadInv, clock
  <2>5. CASE CreateThread
    BY <2>5 DEF CreateThread, PartsInv, ThreadInv, clock
  <2>6. CASE Allocate
    BY <2>6 DEF Allocate, PartsInv, ThreadInv, module
  <2>7. CASE StartTimer \/ EnterCall
    BY <2>7 DEF StartTimer, EnterCall, PartsInv, ThreadInv, module, clock
  <2>8. CASE PublishCall
    BY <2>8 DEF PublishCall, PartsInv, ThreadInv, module, clock
  <2>9. CASE Tick \/ Answer
    BY <2>9 DEF Tick, Answer, PartsInv, ThreadInv, module, clock
  <2>10. CASE ReturnCall
    BY <2>10 DEF ReturnCall, PartsInv, ThreadInv, module
  <2>11. CASE FreeBlocks
    BY <2>11, ModuleAssumption DEF FreeBlocks, PartsInv, ThreadInv, module, clock
  <2>12. CASE ThreadEnds
    BY <2>12 DEF ThreadEnds, PartsInv, ThreadInv, module, clock
  <2>13. CASE Configure
    BY <2>13 DEF Configure, PartsInv, ThreadInv, module, clock
  <2>14. CASE OpenDevice
    BY <2>14 DEF OpenDevice, PartsInv, ThreadInv, module, clock
  <2>15. CASE Leave
    BY <2>15 DEF Leave, PartsInv, ThreadInv, module, clock
  <2>16. CASE Rmmod
    BY <2>16 DEF Rmmod, PartsInv, ThreadInv, clock
  <2>17. CASE Exit
    BY <2>17 DEF Exit, PartsInv, ThreadInv, clock
  <2>18. CASE Stop
    BY <2>18 DEF Stop, PartsInv, ThreadInv, clock
  <2>19. CASE UNCHANGED lifeVars
    BY <2>19 DEF lifeVars, PartsInv, ThreadInv
  <2>. QED
    BY <2>1, <2>2, <2>3, <2>4, <2>5, <2>6, <2>7, <2>8, <2>9, <2>10, <2>11, <2>12, <2>13,
       <2>14, <2>15, <2>16, <2>17, <2>18, <2>19 DEF LifeNext, Tester
<1>. QED
  BY <1>1, <1>2, PTL DEF LifeSpec

\* Whatever registration fails and whenever rmmod and the daemon come,
\* barracuda_stop() runs only after the last call, with the blocks freed, the
\* device closed and every part there.
THEOREM StopIsQuiescent == LifeSpec => []StopsQuiescent
<1>1. LifeInv => StopsQuiescent
  BY DEF LifeInv, LifeType, PartsInv, ThreadInv, StopsQuiescent, Served
<1>. QED
  BY <1>1, Invariance, PTL

-----------------------------------------------------------------------------
(* The timer is exact                                                       *)

\* A difference of less than half of a wrap survives the wrap, and is not
\* taken for time that runs backwards.
LEMMA ElapsedIsTicks ==
  ASSUME NEW from \in 0 .. JiffyWrap - 1, NEW ticks \in 0 .. MaxTicks
  PROVE  Elapsed(from, (from + ticks) % JiffyWrap) = ticks
<1> DEFINE to == (from + ticks) % JiffyWrap
<1>1. (to - from) % JiffyWrap = ticks
  <2>1. CASE from + ticks < JiffyWrap
    <3>1. to = from + ticks
      BY <2>1, ModuleAssumption
    <3>. QED
      BY <3>1, ModuleAssumption
  <2>2. CASE from + ticks >= JiffyWrap
    <3>1. to = from + ticks - JiffyWrap
      BY <2>2, ModuleAssumption
    <3>2. (ticks - JiffyWrap) % JiffyWrap = ticks
      BY ModuleAssumption
    <3>. QED
      BY <3>1, <3>2, ModuleAssumption
  <2>. QED
    BY <2>1, <2>2, ModuleAssumption
<1>2. ~time_after(from, to)
  BY <1>1, ModuleAssumption DEF time_after
<1>. QED
  BY <1>1, <1>2 DEF Elapsed

\* One more jiffy.
LEMMA NextJiffy ==
  ASSUME NEW from \in 0 .. JiffyWrap - 1, NEW ticks \in 0 .. MaxTicks, ticks < MaxTicks
  PROVE  (((from + ticks) % JiffyWrap) + 1) % JiffyWrap = (from + (ticks + 1)) % JiffyWrap
<1> DEFINE to == (from + ticks) % JiffyWrap
<1>1. CASE from + ticks < JiffyWrap
  <2>1. to = from + ticks
    BY <1>1, ModuleAssumption
  <2>. QED
    BY <2>1, ModuleAssumption
<1>2. CASE from + ticks >= JiffyWrap
  <2>1. to = from + ticks - JiffyWrap /\ to + 1 < JiffyWrap
    BY <1>2, ModuleAssumption
  <2>2. from + (ticks + 1) = (to + 1) + JiffyWrap
    BY <2>1, ModuleAssumption
  <2>3. (to + 1) % JiffyWrap = to + 1 /\ (from + (ticks + 1)) % JiffyWrap = to + 1
    BY <2>1, <2>2, ModuleAssumption
  <2>. QED
    BY <2>3
<1>. QED
  BY <1>1, <1>2, ModuleAssumption

\* ClockInv holds in every state.
THEOREM ClockInvariance == LifeSpec => []ClockInv
<1>1. LifeInit => ClockInv
  BY ModuleAssumption DEF LifeInit, ClockInv, InCall
<1>2. ASSUME ClockInv, [LifeNext]_lifeVars
      PROVE  ClockInv'
  <2> USE <1>2 DEF ClockInv
  <2>1. CASE Insmod \/ StartPart \/ StartFails \/ StartReturns \/ Rmmod \/ Exit \/ Stop
    BY <2>1 DEF Insmod, StartPart, StartFails, StartReturns, Rmmod, Exit, Stop, clock, InCall
  <2>2. CASE CreateThread
    BY <2>2 DEF CreateThread, clock, InCall
  <2>3. CASE Allocate
    BY <2>3 DEF Allocate, InCall
  <2>4. CASE StartTimer
    <3>1. (jiffies + 0) % JiffyWrap = jiffies
      BY ModuleAssumption
    <3>. QED
      BY <2>4, <3>1, ModuleAssumption DEF StartTimer, InCall
  <2>5. CASE EnterCall \/ PublishCall \/ Answer
    BY <2>5 DEF EnterCall, PublishCall, Answer, InCall, clock
  <2>6. CASE Tick
    <3>1. jiffies' \in 0 .. JiffyWrap - 1
      BY <2>6, ModuleAssumption DEF Tick
    <3>2. CASE InCall
      <4> DEFINE ticks == spent - jiffie_timer
      <4>1. /\ ticks \in 0 .. MaxTicks /\ ticks < MaxTicks
            /\ jiffies = (t1 + ticks) % JiffyWrap
        BY <2>6, <3>2 DEF Tick
      <4>2. (((t1 + ticks) % JiffyWrap) + 1) % JiffyWrap = (t1 + (ticks + 1)) % JiffyWrap
        BY <4>1, NextJiffy
      <4>3. spent' = spent + 1 /\ jiffie_timer' = jiffie_timer /\ t1' = t1 /\ tester' = tester
            /\ jiffies' = (jiffies + 1) % JiffyWrap
        BY <2>6, <3>2 DEF Tick
      <4>4. spent' - jiffie_timer' = ticks + 1 /\ ticks + 1 \in 0 .. MaxTicks
        BY <4>1, <4>3, ModuleAssumption
      <4>5. jiffies' = (t1' + (spent' - jiffie_timer')) % JiffyWrap
        BY <4>1, <4>2, <4>3, <4>4
      <4>. QED
        BY <3>1, <3>2, <4>3, <4>4, <4>5 DEF InCall
    <3>3. CASE ~InCall
      BY <2>6, <3>1, <3>3 DEF Tick, InCall
    <3>. QED
      BY <3>2, <3>3
  <2>7. CASE ReturnCall
    <3>1. /\ spent - jiffie_timer \in 0 .. MaxTicks
          /\ jiffies = (t1 + (spent - jiffie_timer)) % JiffyWrap
      BY <2>7 DEF ReturnCall, InCall
    <3>2. Elapsed(t1, jiffies) = spent - jiffie_timer
      BY <3>1, ElapsedIsTicks
    <3>. QED
      BY <2>7, <3>1, <3>2 DEF ReturnCall, InCall
  <2>8. CASE FreeBlocks \/ ThreadEnds \/ Configure \/ OpenDevice \/ Leave
    BY <2>8 DEF FreeBlocks, ThreadEnds, Configure, OpenDevice, Leave, clock, InCall
  <2>9. CASE UNCHANGED lifeVars
    BY <2>9 DEF lifeVars, InCall
  <2>. QED
    BY <2>1, <2>2, <2>3, <2>4, <2>5, <2>6, <2>7, <2>8, <2>9 DEF LifeNext, Tester
<1>. QED
  BY <1>1, <1>2, PTL DEF LifeSpec

\* Between two calls jiffie_timer is the number of jiffies that the calls
\* have taken, however often jiffies has wrapped.
THEOREM TimerIsExact == LifeSpec => []TimerIsElapsed
<1>1. ClockInv => TimerIsElapsed
  BY DEF ClockInv, TimerIsElapsed
<1>. QED
  BY <1>1, ClockInvariance, PTL

-----------------------------------------------------------------------------
(* The front end: benchmark and driver use the same implementation          *)

AllNames == {Names[k] : k \in DOMAIN Names}

FrontType ==
  /\ number_of_generators \in {0} \cup Builds
  /\ opts \in [validation : BOOLEAN, mode_type : AllNames \cup {"DRYRUN", "other", Absent},
               benchmark_type : AllNames \cup {"DRYRUN", "other", Absent},
               deamonize : BOOLEAN, kill : BOOLEAN, c_mode : 0 .. 3, rs_mode : 0 .. 4]

\* Both things that -m sets come from the same word.
ModeInv == opts.mode_type \in AllNames => Names[opts.rs_mode + 1] = opts.mode_type

\* The search of choose_implementation() has found the name of -m.
Chosen ==
  opts.mode_type \in Registered =>
    gen_syndrome \in 0 .. 4 /\ Names[gen_syndrome + 1] = opts.mode_type

\* What is settled when main() has come to a point.
MainInv ==
  /\ fpc \in {"chosen", "benchmark", "ready", "driver"} => Chosen
  /\ fpc \in {"off", "vars", "parse", "options", "chosen"} => benchmarked = {}
  /\ benchmarked # {} => benchmarked = {opts.rs_mode} /\ Chosen
  /\ fpc = "driver" => driver = tc
  /\ child = "started" => fpc \in {"cloned", "returned"}

FrontInv == FrontType /\ ModeInv /\ MainInv

\* The names are different from each other and from the other words.
LEMMA NamesDiffer ==
  /\ DOMAIN Names = 1 .. 5
  /\ \A j, k \in 1 .. 5 : Names[j] = Names[k] => j = k
  /\ AllNames = {"SOFT", "SMP", "DUMMY", "MULTI", "CUDA"}
  /\ Absent \notin AllNames
BY DEF Names, AllNames, Absent

\* One word of the command line sets the name of -m and its number together.
LEMMA OptionKeeps ==
  ASSUME FrontType, ModeInv, NEW w, NEW next, opts' = Option(w, next),
         number_of_generators' = number_of_generators
  PROVE  FrontType' /\ ModeInv'
<1> USE NamesDiffer
<1>1. CASE w = "-m" /\ next # Absent
  <2> DEFINE name == Compared(next)
             number == ModeNumber(next, opts.rs_mode)
  <2>1. opts' = [opts EXCEPT !.mode_type = name, !.rs_mode = number]
    BY <1>1 DEF Option
  <2>2. name \in AllNames \cup {"DRYRUN", "other"} /\ (name \in AllNames => name = next)
    BY DEF Compared, AllNames
  <2>3. CASE next \in AllNames
    <3>1. PICK k \in 1 .. 5 : Names[k] = next
      BY <2>3 DEF AllNames
    <3>2. (CHOOSE j \in DOMAIN Names : Names[j] = next) = k
      BY <3>1
    <3>3. number = k - 1
      BY <3>1, <3>2 DEF ModeNumber
    <3>4. number \in 0 .. 4 /\ Names[number + 1] = next
      BY <3>1, <3>3
    <3> HIDE DEF name, number
    <3> QED
      BY <2>1, <2>2, <3>4 DEF FrontType, ModeInv
  <2>4. CASE next \notin AllNames
    <3>1. number = opts.rs_mode /\ name \notin AllNames
      BY <2>2, <2>4 DEF ModeNumber, AllNames
    <3> HIDE DEF name, number
    <3> QED
      BY <2>1, <2>2, <3>1 DEF FrontType, ModeInv
  <2> QED
    BY <2>3, <2>4
<1>2. CASE w = "-B" /\ next # Absent
  <2> DEFINE name == Compared(next)
  <2>1. name \in AllNames \cup {"DRYRUN", "other"}
    BY DEF Compared, AllNames
  <2>2. opts' = [opts EXCEPT !.benchmark_type = name]
    BY <1>2 DEF Option
  <2> HIDE DEF name
  <2> QED
    BY <2>1, <2>2 DEF FrontType, ModeInv
<1>3. CASE w = "-V"
  BY <1>3 DEF Option, FrontType, ModeInv
<1>4. CASE w = "-d"
  BY <1>4 DEF Option, FrontType, ModeInv
<1>5. CASE w = "-k"
  BY <1>5 DEF Option, FrontType, ModeInv
<1>6. CASE w = "-c" /\ next \in DOMAIN Connections
  <2>1. Connections[next] \in 0 .. 3
    BY <1>6 DEF Connections
  <2> QED
    BY <1>6, <2>1 DEF Option, FrontType, ModeInv
<1>7. CASE /\ ~(w = "-m" /\ next # Absent) /\ ~(w = "-B" /\ next # Absent)
           /\ w \notin {"-V", "-d", "-k"} /\ ~(w = "-c" /\ next \in DOMAIN Connections)
  <2>1. opts' = opts
    BY <1>7 DEF Option
  <2> QED
    BY <2>1 DEF FrontType, ModeInv
<1> QED
  BY <1>1, <1>2, <1>3, <1>4, <1>5, <1>6, <1>7

\* FrontInv holds in every state.
THEOREM FrontInvariance == FrontSpec => []FrontInv
<1>1. FrontInit => FrontInv
  BY NamesDiffer DEF FrontInit, FrontInv, FrontType, ModeInv, MainInv
<1>2. FrontInv /\ [FrontNext]_frontVars => FrontInv'
  <2> SUFFICES ASSUME FrontInv, [FrontNext]_frontVars PROVE FrontInv'
    OBVIOUS
  <2>1. ASSUME NEW number \in Builds, Exec(number) PROVE FrontInv'
    BY <2>1 DEF FrontInv, FrontType, ModeInv, MainInv, Exec
  <2>2. ASSUME NEW file \in CpuFiles, set_internal_vars(file) PROVE FrontInv'
    BY <2>2 DEF FrontInv, FrontType, ModeInv, MainInv, set_internal_vars
  <2>3. ASSUME NEW next \in Arguments \cup {Absent}, ReadArgument(next) PROVE FrontInv'
    <3>1. FrontType' /\ ModeInv'
      BY <2>3, OptionKeeps DEF FrontInv, ReadArgument, build
    <3>2. fpc' \in {"returned", "crashed", "smashed", "options", "parse"}
      BY <2>3 DEF ReadArgument
    <3>3. MainInv'
      BY <2>3, <3>2 DEF FrontInv, MainInv, ReadArgument
    <3> QED
      BY <3>1, <3>3 DEF FrontInv
  <2>4. CASE Kill \/ NoMode
    BY <2>4 DEF FrontInv, FrontType, ModeInv, MainInv, Kill, NoMode, build
  <2>5. CASE choose_implementation
    <3>1. FrontType' /\ ModeInv'
      BY <2>5 DEF FrontInv, FrontType, ModeInv, choose_implementation, build
    <3>2. Chosen'
      <4> SUFFICES ASSUME opts.mode_type \in Registered
                   PROVE  gen_syndrome' \in 0 .. 4 /\ Names[gen_syndrome' + 1] = opts.mode_type
        BY <2>5 DEF Chosen, Registered, choose_implementation, build
      <4>1. PICK k \in 1 .. 5 : Names[k] = opts.mode_type
        <5>1. number_of_generators \in 0 .. 5
          BY FrontEndAssumption DEF FrontInv, FrontType
        <5> QED
          BY <5>1 DEF Registered
      <4>2. (CHOOSE j \in DOMAIN Names : Names[j] = opts.mode_type) = k
        BY <4>1, NamesDiffer
      <4>3. gen_syndrome' = k - 1
        BY <2>5, <4>2 DEF choose_implementation
      <4> QED
        BY <4>1, <4>3
    <3>3. MainInv'
      BY <2>5, <3>2 DEF FrontInv, MainInv, choose_implementation
    <3> QED
      BY <3>1, <3>3 DEF FrontInv
  <2>6. CASE Validate
    <3>1. fpc = "chosen" /\ fpc' \in {"valid", "invalid", "failed", "smashed"}
      BY <2>6 DEF Validate
    <3> QED
      BY <2>6, <3>1 DEF FrontInv, FrontType, ModeInv, MainInv, Chosen, Registered, Validate, build
  <2>7. CASE baracuda_benchmarker
    BY <2>7 DEF FrontInv, FrontType, ModeInv, MainInv, Chosen, Registered,
       baracuda_benchmarker, build
  <2>8. ASSUME NEW milliseconds \in 0 .. 1, compare_all_implementations_one_run(milliseconds)
        PROVE  FrontInv'
    <3>1. fpc = "benchmark" /\ fpc' \in {"crashed", "ready", "benchmark", "failed"}
      BY <2>8 DEF compare_all_implementations_one_run
    <3> QED
      BY <2>8, <3>1 DEF FrontInv, FrontType, ModeInv, MainInv, Chosen, Registered,
         compare_all_implementations_one_run, build
  <2>9. CASE NoBenchmark
    BY <2>9 DEF FrontInv, FrontType, ModeInv, MainInv, Chosen, Registered, NoBenchmark, build
  <2>10. CASE Foreground
    BY <2>10 DEF FrontInv, FrontType, ModeInv, MainInv, Chosen, Registered, tc, Foreground, build
  <2>11. CASE Clone
    BY <2>11 DEF FrontInv, FrontType, ModeInv, MainInv, Chosen, Registered, Clone, build
  <2>12. CASE MainReturns
    BY <2>12 DEF FrontInv, FrontType, ModeInv, MainInv, Chosen, Registered, MainReturns, build
  <2>13. CASE ChildReads
    BY <2>13 DEF FrontInv, FrontType, ModeInv, MainInv, Chosen, Registered, ChildReads, build
  <2>14. CASE UNCHANGED frontVars
    BY <2>14 DEF FrontInv, FrontType, ModeInv, MainInv, Chosen, Registered, tc, frontVars
  <2> QED
    BY <2>1, <2>2, <2>3, <2>4, <2>5, <2>6, <2>7, <2>8, <2>9, <2>10, <2>11, <2>12, <2>13,
       <2>14 DEF FrontNext, Main
<1> QED
  BY <1>1, <1>2, PTL DEF FrontSpec

\* BenchmarkIsDriver, for every command line of every build: a benchmark
\* measures, and the driver uses, the implementation that the last -m names.
THEOREM BenchmarksDriver == FrontSpec => []BenchmarkIsDriver
<1>1. FrontInv => BenchmarkIsDriver
  <2> SUFFICES ASSUME FrontInv PROVE BenchmarkIsDriver
    OBVIOUS
  <2>1. Registered \subseteq AllNames
    <3>1. number_of_generators \in 0 .. 5
      BY FrontEndAssumption DEF FrontInv, FrontType
    <3> QED
      BY <3>1, NamesDiffer DEF Registered, AllNames
  <2>2. ASSUME benchmarked # {}, opts.mode_type \in Registered
        PROVE  gen_syndrome \in benchmarked
    <3>1. /\ benchmarked = {opts.rs_mode} /\ opts.rs_mode \in 0 .. 4 /\ gen_syndrome \in 0 .. 4
          /\ Names[opts.rs_mode + 1] = Names[gen_syndrome + 1]
      BY <2>1, <2>2 DEF FrontInv, FrontType, ModeInv, MainInv, Chosen
    <3>2. opts.rs_mode + 1 = gen_syndrome + 1
      BY <3>1, NamesDiffer
    <3> QED
      BY <3>1, <3>2
  <2>3. ASSUME fpc = "driver", opts.mode_type \in Registered
        PROVE  Names[driver.gen_syndrome + 1] = opts.mode_type
    BY <2>3 DEF FrontInv, MainInv, Chosen, tc
  <2> QED
    BY <2>2, <2>3 DEF BenchmarkIsDriver
<1> QED
  BY <1>1, FrontInvariance, PTL

-----------------------------------------------------------------------------
(* The validator                                                            *)

\* The bytes of the stripe, as polynomials.
LEMMA Stripe ==
  /\ DataDisks = {0, 1, 2, 3, 4} /\ IsFiniteSet(DataDisks) /\ DataDisks \subseteq Nat
  /\ \A d \in DataDisks : Filled[d] = d /\ d \in 0 .. 255
  /\ Polynomial(0) = {} /\ Polynomial(1) = {0} /\ Polynomial(2) = {1}
  /\ Polynomial(3) = {0, 1} /\ Polynomial(4) = {2}
<1>1. DataDisks = 0 .. 4 /\ DataDisks = {0, 1, 2, 3, 4} /\ DataDisks \subseteq Nat
  BY DEF DataDisks, Disks
<1>2. IsFiniteSet(DataDisks)
  <2>1. 0 \in Int /\ 4 \in Int
    OBVIOUS
  <2>2. IsFiniteSet(0 .. 4)
    BY <2>1, FS_Interval
  <2> QED
    BY <1>1, <2>2
<1>3. \A d \in DataDisks : Filled[d] = d /\ d \in 0 .. 255
  BY <1>1 DEF Filled, Disks
<1>5. ASSUME NEW v \in 0 .. 4
      PROVE  /\ Polynomial(v) \subseteq {0, 1, 2}
             /\ 0 \in Polynomial(v) <=> v \in {1, 3}
             /\ 1 \in Polynomial(v) <=> v \in {2, 3}
             /\ 2 \in Polynomial(v) <=> v = 4
  <2>1. v \in 0 .. 255
    OBVIOUS
  <2>2. /\ Polynomial(v) \subseteq {0, 1, 2, 3, 4, 5, 6, 7}
        /\ 0 \in Polynomial(v) <=> v % 2 = 1
        /\ 1 \in Polynomial(v) <=> (v \div 2) % 2 = 1
        /\ 2 \in Polynomial(v) <=> (v \div 4) % 2 = 1
        /\ 3 \in Polynomial(v) <=> (v \div 8) % 2 = 1
        /\ 4 \in Polynomial(v) <=> (v \div 16) % 2 = 1
        /\ 5 \in Polynomial(v) <=> (v \div 32) % 2 = 1
        /\ 6 \in Polynomial(v) <=> (v \div 64) % 2 = 1
        /\ 7 \in Polynomial(v) <=> (v \div 128) % 2 = 1
    BY <2>1, PolynomialBits, DegreesList DEF Polynomials
  <2>3. v = 0 \/ v = 1 \/ v = 2 \/ v = 3 \/ v = 4
    OBVIOUS
  <2> QED
    BY <2>2, <2>3
<1>6. \A v \in 0 .. 4 :
             /\ Polynomial(v) \subseteq {0, 1, 2}
             /\ 0 \in Polynomial(v) <=> v \in {1, 3}
             /\ 1 \in Polynomial(v) <=> v \in {2, 3}
             /\ 2 \in Polynomial(v) <=> v = 4
  BY <1>5
<1>7. Polynomial(0) = {} /\ Polynomial(1) = {0} /\ Polynomial(2) = {1}
  BY <1>6
<1>8. Polynomial(3) = {0, 1} /\ Polynomial(4) = {2}
  BY <1>6
<1> QED
  BY <1>1, <1>2, <1>3, <1>7, <1>8

\* The products of powers of x that occur here.
LEMMA Products ==
  /\ TimesXPower[1][{0}] = {1} /\ TimesXPower[2][{0}] = {2} /\ TimesXPower[3][{0}] = {3}
  /\ TimesXPower[4][{0}] = {4} /\ TimesXPower[2][{1}] = {3} /\ TimesXPower[3][{1}] = {4}
  /\ TimesXPower[6][{1}] = {7} /\ TimesXPower[2][{2}] = {4} /\ TimesXPower[4][{2}] = {6}
  /\ TimesXPower[2][{4}] = {6}
<1> DEFINE T(n, r) == TimesXPower[n][r]
<1>1. /\ {0} \in Polynomials /\ {1} \in Polynomials /\ {2} \in Polynomials /\ {4} \in Polynomials
  BY DegreesList DEF Polynomials
<1>2. /\ TimesX({0}) = {1} /\ TimesX({1}) = {2} /\ TimesX({2}) = {3} /\ TimesX({3}) = {4}
      /\ TimesX({4}) = {5} /\ TimesX({5}) = {6} /\ TimesX({6}) = {7}
  BY TimesXMonomial
<1>3. \A r \in Polynomials :
        /\ T(1, r) = TimesX(r) /\ T(2, r) = TimesX(T(1, r)) /\ T(3, r) = TimesX(T(2, r))
        /\ T(4, r) = TimesX(T(3, r)) /\ T(5, r) = TimesX(T(4, r)) /\ T(6, r) = TimesX(T(5, r))
  <2>1. \A n \in Nat : \A r \in Polynomials : TimesXPower[n + 1][r] = TimesX(TimesXPower[n][r])
    BY TimesXPowerDef
  <2>2. \A r \in Polynomials :
          /\ TimesXPower[0][r] = r
          /\ TimesXPower[0 + 1][r] = TimesX(TimesXPower[0][r])
          /\ TimesXPower[1 + 1][r] = TimesX(TimesXPower[1][r])
          /\ TimesXPower[2 + 1][r] = TimesX(TimesXPower[2][r])
          /\ TimesXPower[3 + 1][r] = TimesX(TimesXPower[3][r])
          /\ TimesXPower[4 + 1][r] = TimesX(TimesXPower[4][r])
          /\ TimesXPower[5 + 1][r] = TimesX(TimesXPower[5][r])
    BY <2>1, TimesXPowerDef
  <2> QED
    BY <2>2
<1> HIDE DEF T
<1>4. T(1, {0}) = {1} /\ T(2, {0}) = {2} /\ T(3, {0}) = {3} /\ T(4, {0}) = {4}
  <2>1. /\ T(1, {0}) = TimesX({0}) /\ T(2, {0}) = TimesX(T(1, {0})) /\ T(3, {0}) = TimesX(T(2, {0}))
        /\ T(4, {0}) = TimesX(T(3, {0}))
    BY <1>1, <1>3
  <2> QED
    BY <2>1, <1>2
<1>5. /\ T(1, {1}) = {2} /\ T(2, {1}) = {3} /\ T(3, {1}) = {4}
      /\ T(4, {1}) = {5} /\ T(5, {1}) = {6} /\ T(6, {1}) = {7}
  <2>1. /\ T(1, {1}) = TimesX({1}) /\ T(2, {1}) = TimesX(T(1, {1})) /\ T(3, {1}) = TimesX(T(2, {1}))
        /\ T(4, {1}) = TimesX(T(3, {1})) /\ T(5, {1}) = TimesX(T(4, {1})) /\ T(6, {1}) = TimesX(T(5, {1}))
    BY <1>1, <1>3
  <2> QED
    BY <2>1, <1>2
<1>6. T(1, {2}) = {3} /\ T(2, {2}) = {4} /\ T(3, {2}) = {5} /\ T(4, {2}) = {6}
  <2>1. /\ T(1, {2}) = TimesX({2}) /\ T(2, {2}) = TimesX(T(1, {2})) /\ T(3, {2}) = TimesX(T(2, {2}))
        /\ T(4, {2}) = TimesX(T(3, {2}))
    BY <1>1, <1>3
  <2> QED
    BY <2>1, <1>2
<1>7. T(1, {4}) = {5} /\ T(2, {4}) = {6}
  <2>1. /\ T(1, {4}) = TimesX({4}) /\ T(2, {4}) = TimesX(T(1, {4}))
    BY <1>1, <1>3
  <2> QED
    BY <2>1, <1>2
<1> QED
  BY <1>4, <1>5, <1>6, <1>7 DEF T

\* P of the stripe has x^2 and no constant term; Q has x^6.
LEMMA ExactParity ==
  0 \notin Parity(Filled)[1] /\ 2 \in Parity(Filled)[1] /\ 6 \in Parity(Filled)[2]
<1> DEFINE p == [d \in DataDisks |-> Polynomial(Filled[d])]
           q == [d \in DataDisks |-> Mul(Power[d][{1}], Polynomial(Filled[d]))]
<1>1. Parity(Filled) = <<Sum(p), Sum(q)>>
  BY DEF Parity
<1>2. DOMAIN p = DataDisks /\ \A d \in DataDisks : p[d] = Polynomial(d)
  BY Stripe
<1>3. DOMAIN q = DataDisks /\ \A d \in DataDisks : q[d] = TimesXPower[d][Polynomial(d)]
  <2>1. \A d \in DataDisks : Polynomial(d) \in Polynomials /\ d \in Nat
    BY Stripe, PolynomialBits
  <2> QED
    BY <2>1, Stripe, MulPowerOfTwo
<1> HIDE DEF p, q
<1>0. 0 \in DataDisks /\ 1 \in DataDisks /\ 2 \in DataDisks /\ 3 \in DataDisks /\ 4 \in DataDisks
  BY Stripe
<1>4. p[0] = {} /\ p[1] = {0} /\ p[2] = {1} /\ p[3] = {0, 1} /\ p[4] = {2}
  BY <1>0, <1>2, Stripe
<1>5. q[0] = {} /\ q[1] = {1} /\ q[2] = {3} /\ q[3] = {3, 4} /\ q[4] = {6}
  <2>1. /\ q[0] = TimesXPower[0][{}] /\ q[1] = TimesXPower[1][{0}] /\ q[2] = TimesXPower[2][{1}]
        /\ q[3] = TimesXPower[3][{0, 1}] /\ q[4] = TimesXPower[4][{2}]
    BY <1>0, <1>3, Stripe
  <2>2. TimesXPower[0][{}] = {}
    BY TimesXPowerDef DEF Polynomials
  <2>3. TimesXPower[3][{0, 1}] = {3, 4}
    <3>1. {0, 1} = Plus({0}, {1}) /\ {3, 4} = Plus({3}, {4})
      BY DEF Plus
    <3>2. {0} \in Polynomials /\ {1} \in Polynomials
      BY DegreesList DEF Polynomials
    <3>3. TimesXPower[3][{0}] = {3} /\ TimesXPower[3][{1}] = {4}
      BY Products
    <3>4. TimesXPower[3][Plus({0}, {1})] = Plus(TimesXPower[3][{0}], TimesXPower[3][{1}])
      <4>1. 3 \in Nat
        OBVIOUS
      <4> QED
        BY <4>1, <3>2, TimesXPowerPlus, Zenon
    <3> QED
      BY <3>1, <3>3, <3>4, Zenon
  <2> QED
    BY <2>1, <2>2, <2>3, Products
<1>6. 0 \notin Sum(p)
  <2>1. {k \in DOMAIN p : 0 \in p[k]} = Plus({1}, {3})
    BY <1>2, <1>4, Stripe DEF Plus
  <2>2. ~Odd(Plus({1}, {3}))
    <3>1. IsFiniteSet({1}) /\ IsFiniteSet({3})
      BY FS_Singleton
    <3>2. Odd({1}) /\ Odd({3})
      BY OddSingle, Zenon
    <3> QED
      BY <3>1, <3>2, OddPlus, Zenon
  <2> QED
    BY <2>1, <2>2 DEF Sum
<1>7. 2 \in Sum(p)
  <2>1. {k \in DOMAIN p : 2 \in p[k]} = {4}
    BY <1>2, <1>4, Stripe
  <2> QED
    BY <2>1, OddSingle, DegreesList DEF Sum
<1>8. 6 \in Sum(q)
  <2>1. {k \in DOMAIN q : 6 \in q[k]} = {4}
    BY <1>3, <1>5, Stripe
  <2> QED
    BY <2>1, OddSingle, DegreesList DEF Sum
<1> QED
  BY <1>1, <1>6, <1>7, <1>8

\* MULTI without CUDA: the fourth row is x^4 + x^7.
LEMMA MultiRow == 6 \notin multi_rs_soft_gen_syndrome(Filled)[2]
<1> DEFINE f == [d \in 0 .. high_disk - 1 |-> Mul(Power[d + 1][Polynomial(4)], Polynomial(Filled[d]))]
<1>1. multi_rs_soft_gen_syndrome(Filled)[2] = Sum(f)
  BY DEF multi_rs_soft_gen_syndrome, check_row
<1>2. DOMAIN f = {0, 1, 2}
  BY DEF high_disk, Disks, CHECK_SYMBOLS
<1>3. /\ f[0] = Mul(Power[1][{2}], {}) /\ f[1] = Mul(Power[2][{2}], {0})
      /\ f[2] = Mul(Power[3][{2}], {1})
  <2>1. /\ f[0] = Mul(Power[0 + 1][Polynomial(4)], Polynomial(Filled[0]))
        /\ f[1] = Mul(Power[1 + 1][Polynomial(4)], Polynomial(Filled[1]))
        /\ f[2] = Mul(Power[2 + 1][Polynomial(4)], Polynomial(Filled[2]))
    BY <1>2
  <2>2. Filled[0] = 0 /\ Filled[1] = 1 /\ Filled[2] = 2
    BY Stripe
  <2> HIDE DEF f
  <2> QED
    BY <2>1, <2>2, Stripe
<1> HIDE DEF f
<1>4. /\ {2} \in Polynomials /\ {4} \in Polynomials /\ {0} \in Polynomials /\ {1} \in Polynomials
      /\ 2 \in Degrees /\ 4 \in Degrees /\ 6 \in Degrees
  BY DegreesList DEF Polynomials
<1>5. /\ Power[0 + 1][{2}] = Mul({2}, Power[0][{2}]) /\ Power[0][{2}] = {0}
      /\ Power[1 + 1][{2}] = Mul({2}, Power[1][{2}])
      /\ Power[2 + 1][{2}] = Mul({2}, Power[2][{2}])
  BY <1>4, PowerDef
<1>6. /\ Mul({2}, {0}) = TimesXPower[2][{0}] /\ Mul({2}, {2}) = TimesXPower[2][{2}]
      /\ Mul({2}, {4}) = TimesXPower[2][{4}] /\ Mul({4}, {0}) = TimesXPower[4][{0}]
      /\ Mul({6}, {1}) = TimesXPower[6][{1}]
  BY <1>4, MulMonomial, Zenon
<1>7. /\ Mul({2}, {0}) = {2} /\ Mul({2}, {2}) = {4} /\ Mul({2}, {4}) = {6}
      /\ Mul({4}, {0}) = {4} /\ Mul({6}, {1}) = {7}
  BY <1>6, Products, Zenon
<1>8. Power[1][{2}] = {2} /\ Power[2][{2}] = {4} /\ Power[3][{2}] = {6}
  <2>1. Power[1][{2}] = {2}
    BY <1>5, <1>7
  <2>2. Power[2][{2}] = {4}
    BY <1>5, <1>7, <2>1
  <2> QED
    BY <1>5, <1>7, <2>1, <2>2
<1>9. f[0] = {} /\ f[1] = {4} /\ f[2] = {7}
  BY <1>3, <1>4, <1>7, <1>8, MulEmptyRight
<1>10. {k \in DOMAIN f : 6 \in f[k]} = {}
  BY <1>2, <1>9
<1> QED
  BY <1>1, <1>10, OddEmpty DEF Sum

\* What the comparison says of each result.
LEMMA Verdicts ==
  /\ compare_syndrome(Parity(Filled), Parity(Filled))
  /\ ~compare_syndrome(Parity(Filled), raid6_dummy_gen_syndrome(Filled))
  /\ ~compare_syndrome(Parity(Filled), multi_rs_soft_gen_syndrome(Filled))
  /\ \A w20 \in Leftover : ~compare_syndrome(Parity(Filled), syndrome_block(Filled, w20))
<1>0. Polynomial(Filled[0]) = {}
  BY Stripe
<1>1. compare_syndrome(Parity(Filled), Parity(Filled))
  BY DEF compare_syndrome
<1>2. ~compare_syndrome(Parity(Filled), raid6_dummy_gen_syndrome(Filled))
  <2>1. raid6_dummy_gen_syndrome(Filled)[1] = {}
    BY <1>0 DEF raid6_dummy_gen_syndrome
  <2> QED
    BY <2>1, ExactParity DEF compare_syndrome
<1>3. ~compare_syndrome(Parity(Filled), multi_rs_soft_gen_syndrome(Filled))
  BY MultiRow, ExactParity DEF compare_syndrome
<1>4. ASSUME NEW w20 \in Leftover
      PROVE  ~compare_syndrome(Parity(Filled), syndrome_block(Filled, w20))
  <2>1. syndrome_block(Filled, w20)[2] = Plus({}, w20)
    BY <1>0 DEF syndrome_block
  <2>2. 6 \notin Plus({}, w20)
    BY DEF Leftover, Plus
  <2> QED
    BY <2>1, <2>2, ExactParity DEF compare_syndrome
<1> QED
  BY <1>1, <1>2, <1>3, <1>4

\* The verdict is about the chosen implementation.
VerdictInv == gen_syndrome \in 0 .. 4 /\ ValidatorSeparates

\* ValidatorSeparates, for every command line of every build.
THEOREM ValidatorExact == FrontSpec => []ValidatorSeparates
<1>1. FrontInit => VerdictInv
  BY DEF FrontInit, VerdictInv, ValidatorSeparates
<1>2. FrontInv /\ VerdictInv /\ [FrontNext]_frontVars => VerdictInv'
  <2> SUFFICES ASSUME FrontInv, VerdictInv, [FrontNext]_frontVars PROVE VerdictInv'
    OBVIOUS
  <2>1. CASE Validate
    <3> DEFINE name == Names[gen_syndrome + 1]
    <3>1. gen_syndrome' = gen_syndrome
      BY <2>1 DEF Validate
    <3>2. name \in {"SOFT", "SMP", "DUMMY", "MULTI", "CUDA"}
      <4>1. gen_syndrome + 1 \in 1 .. 5
        BY DEF VerdictInv
      <4> QED
        BY <4>1 DEF Names
    <3>3. ASSUME NEW result \in Results(gen_syndrome)
          PROVE  compare_syndrome(Parity(Filled), result) <=> name \in {"SOFT", "SMP"}
      <4> HIDE DEF name
      <4>1. Results(gen_syndrome) =
              CASE name \in {"SOFT", "SMP"} -> {Parity(Filled)}
                [] name = "DUMMY" -> {raid6_dummy_gen_syndrome(Filled)}
                [] name = "CUDA" -> {syndrome_block(Filled, w20) : w20 \in Leftover}
                [] OnCard(gen_syndrome) -> {}
                [] OTHER -> {multi_rs_soft_gen_syndrome(Filled)}
        BY DEF Results, name
      <4>2. CASE name \in {"SOFT", "SMP"}
        <5>1. result = Parity(Filled)
          BY <4>1, <4>2, <3>2
        <5> QED
          BY <5>1, <4>2, Verdicts
      <4>3. CASE name = "DUMMY"
        <5>1. result = raid6_dummy_gen_syndrome(Filled)
          BY <4>1, <4>3
        <5> QED
          BY <5>1, <4>3, Verdicts
      <4>4. CASE name = "CUDA"
        <5>1. PICK w20 \in Leftover : result = syndrome_block(Filled, w20)
          BY <4>1, <4>4
        <5> QED
          BY <5>1, <4>4, Verdicts
      <4>5. CASE name = "MULTI"
        <5>1. result = multi_rs_soft_gen_syndrome(Filled)
          BY <4>1, <4>5
        <5> QED
          BY <5>1, <4>5, Verdicts
      <4> QED
        BY <3>2, <4>2, <4>3, <4>4, <4>5
    <3>4. \/ fpc' = "valid" /\ name \in {"SOFT", "SMP"}
          \/ fpc' = "invalid" /\ name \notin {"SOFT", "SMP"}
          \/ fpc' \in {"failed", "smashed"}
      <4> HIDE DEF name
      <4> QED
        BY <2>1, <3>3 DEF Validate
    <3> QED
      BY <3>1, <3>2, <3>4 DEF VerdictInv, ValidatorSeparates
  <2>2. CASE choose_implementation
    <3>1. gen_syndrome' \in 0 .. 4
      <4>1. CASE opts.mode_type \in Registered
        <5>1. number_of_generators \in 0 .. 5
          BY FrontEndAssumption DEF FrontInv, FrontType
        <5>2. PICK k \in 1 .. 5 : Names[k] = opts.mode_type
          BY <4>1, <5>1 DEF Registered
        <5>3. (CHOOSE j \in DOMAIN Names : Names[j] = opts.mode_type) = k
          BY <5>2, NamesDiffer
        <5> QED
          BY <2>2, <4>1, <5>3 DEF choose_implementation
      <4> QED
        BY <2>2, <4>1 DEF choose_implementation
    <3> QED
      BY <2>2, <3>1 DEF choose_implementation, VerdictInv, ValidatorSeparates
  <2>3. CASE ~Validate /\ ~choose_implementation
    <3>1. gen_syndrome' = gen_syndrome
      BY <2>3 DEF FrontNext, Main, Exec, set_internal_vars, ReadArgument, Kill, NoMode,
         baracuda_benchmarker, compare_all_implementations_one_run,
         NoBenchmark, Foreground, Clone, MainReturns, ChildReads, frontVars
    <3>2. fpc' \in {"valid", "invalid"} => fpc' = fpc
      BY <2>3 DEF FrontNext, Main, Exec, set_internal_vars, ReadArgument, Kill, NoMode,
         baracuda_benchmarker, compare_all_implementations_one_run,
         NoBenchmark, Foreground, Clone, MainReturns, ChildReads, frontVars
    <3> QED
      BY <3>1, <3>2 DEF VerdictInv, ValidatorSeparates
  <2> QED
    BY <2>1, <2>2, <2>3
<1>3. VerdictInv => ValidatorSeparates
  BY DEF VerdictInv
<1> QED
  BY <1>1, <1>2, <1>3, FrontInvariance, PTL DEF FrontSpec

-----------------------------------------------------------------------------
(* The ping-pong                                                            *)

PingType ==
  /\ proto \in Protocols \cup {"none"}
  /\ kleft \in Int /\ uleft \in Int /\ tests \in Int
  /\ wq_flag \in {0, 1, 2} /\ thread_flag \in {0, 1}
  /\ buffered \in BOOLEAN
  /\ inbox \in Nat /\ seen \in Nat /\ returned \in Nat

\* Before a module is loaded nothing has happened.
UnloadedInv ==
  proto = "none" =>
    /\ kpc = "out" /\ upc = "out" /\ ~buffered
    /\ inbox = 0 /\ seen = 0 /\ returned = 0 /\ tests >= 1

\* procfs: a ping is pending while wq_flag is 0; a pong, in the buffer or
\* delivered and not yet taken, answers a ping that was read.
ProcInv ==
  proto = "proc" =>
    /\ kpc \in {"ping", "pinged", "done", "failed", "unloaded"}
    /\ upc \in {"out", "read", "dead"}
    /\ wq_flag \in {0, 2}
    /\ wq_flag = 0 => kpc = "pinged"
    /\ buffered => wq_flag = 0
    /\ buffered \/ (kpc = "pinged" /\ wq_flag = 2) => returned + 1 <= seen
    /\ returned <= seen

\* ioctl: the one ping ahead has been taken inside a call, and the program
\* catches up when the call leaves.
IoctlInv ==
  proto = "ioctl" =>
    /\ kpc \in {"ping", "pinged", "done", "failed", "unloaded"}
    /\ upc \in {"out", "enter", "inside", "dead"}
    /\ wq_flag = 0 => kpc = "pinged"
    /\ upc \in {"out", "enter"} => returned <= seen
    /\ kpc = "pinged" /\ wq_flag = 1 => upc \in {"inside", "dead"} /\ returned <= seen
    /\ returned <= seen + 1

\* nl_ksp: a message is in skb_global, not yet taken by the thread.
Pending == kpc = "await" /\ wq_flag = 1

\* The counts of both sides are in step: the program is ahead by the message
\* that is pending.
InStep ==
  /\ uleft \in 1 .. Runs + 1
  /\ uleft = IF ~Pending THEN kleft ELSE IF kleft = 1 THEN Runs + 1 ELSE kleft - 1

\* A program that has sent waits for exactly one of: the thread takes its
\* message, the thread answers it, the answer arrives.
OneUnderway ==
  \/ Pending /\ inbox = 0
  \/ kpc = "unicast" /\ inbox = 0
  \/ inbox = 1 /\ ~Pending /\ kpc # "unicast"

KspInv ==
  proto = "nl_ksp" =>
    /\ kpc \in {"ask", "await", "unicast", "deaf", "done", "unloaded"}
    /\ upc \in {"out", "send", "recv", "unheard", "ended", "dead"}
    /\ wq_flag = 0 => kpc = "await"
    /\ kleft \in 1 .. Runs + 1
    /\ upc = "out" => kleft = Runs + 1 /\ ~Pending /\ inbox = 0 /\ kpc # "unicast"
    /\ upc \in {"out", "send", "recv"} => tests >= 1
    /\ upc \in {"send", "recv"} => InStep
    /\ upc = "send" =>
         /\ inbox = 0 /\ kpc # "unicast"
         /\ uleft <= Runs => ~Pending /\ returned + 1 <= seen
    /\ upc = "recv" => uleft <= Runs /\ OneUnderway
    /\ Pending /\ kleft <= Runs => returned + 1 <= seen
    /\ returned <= seen

\* nl_usp: an answer is on its way only after its request was received.
UspInv ==
  proto = "nl_usp" =>
    /\ kpc \in {"server", "deaf", "unloaded"}
    /\ upc \in {"out", "send", "recv", "unheard", "ended", "dead"}
    /\ returned + inbox <= seen

PingInv ==
  /\ PingType
  /\ UnloadedInv
  /\ ProcInv
  /\ IoctlInv
  /\ KspInv
  /\ UspInv

\* Every step of the thread, of the program, of a signal and of insmod and
\* rmmod keeps the invariant.
LEMMA PingStep == PingInv /\ [PingNext]_pingVars => PingInv'
<1> SUFFICES ASSUME PingInv, [PingNext]_pingVars PROVE PingInv'
  OBVIOUS
<1> USE PingAssumption DEF PingInv, PingType, UnloadedInv
<1>1. CASE \E p \in {"proc", "ioctl"} : LoadModule(p)
  <2> PICK p \in {"proc", "ioctl"} : LoadModule(p)
    BY <1>1
  <2>0. proto = "none"
    BY DEF LoadModule, Protocols, ProcInv, IoctlInv, KspInv, UspInv
  <2>1. PingType'
    BY <2>0 DEF LoadModule, kernel, program, Protocols
  <2>2. UnloadedInv'
    BY <2>0 DEF LoadModule, kernel, program, Protocols
  <2>3. ProcInv'
    BY <2>0 DEF ProcInv, LoadModule, kernel, program, Protocols
  <2>4. IoctlInv'
    BY <2>0 DEF IoctlInv, LoadModule, kernel, program, Protocols
  <2>5. KspInv'
    BY <2>0 DEF KspInv, LoadModule, kernel, program, Protocols, Pending, InStep, OneUnderway
  <2>6. UspInv'
    BY <2>0 DEF UspInv, LoadModule, kernel, program, Protocols
  <2> QED
    BY <2>1, <2>2, <2>3, <2>4, <2>5, <2>6
<1>2. CASE StartProgram
  <2>1. PingType'
    BY <1>2 DEF StartProgram, kernel, program, Protocols
  <2>2. UnloadedInv'
    BY <1>2 DEF StartProgram, kernel, program, Protocols
  <2>3. ProcInv'
    BY <1>2 DEF ProcInv, StartProgram, kernel, program, Protocols
  <2>4. IoctlInv'
    BY <1>2 DEF IoctlInv, StartProgram, kernel, program, Protocols
  <2>5. KspInv'
    BY <1>2 DEF KspInv, StartProgram, kernel, program, Protocols, Pending, InStep, OneUnderway
  <2>6. UspInv'
    BY <1>2 DEF UspInv, StartProgram, kernel, program, Protocols
  <2> QED
    BY <2>1, <2>2, <2>3, <2>4, <2>5, <2>6
<1>3. CASE Ping
  <2>1. PingType'
    BY <1>3 DEF Ping, kernel, program, Protocols
  <2>2. UnloadedInv'
    BY <1>3 DEF Ping, kernel, program, Protocols
  <2>3. ProcInv'
    BY <1>3 DEF ProcInv, Ping, kernel, program, Protocols
  <2>4. IoctlInv'
    BY <1>3 DEF IoctlInv, Ping, kernel, program, Protocols
  <2>5. KspInv'
    BY <1>3 DEF KspInv, Ping, kernel, program, Protocols, Pending, InStep, OneUnderway
  <2>6. UspInv'
    BY <1>3 DEF UspInv, Ping, kernel, program, Protocols
  <2> QED
    BY <2>1, <2>2, <2>3, <2>4, <2>5, <2>6
<1>4. CASE Pong
  <2>1. PingType'
    BY <1>4 DEF Pong, kernel, program, Protocols
  <2>2. UnloadedInv'
    BY <1>4 DEF Pong, kernel, program, Protocols
  <2>3. ProcInv'
    BY <1>4 DEF ProcInv, Pong, kernel, program, Protocols
  <2>4. IoctlInv'
    BY <1>4 DEF IoctlInv, Pong, kernel, program, Protocols
  <2>5. KspInv'
    BY <1>4 DEF KspInv, Pong, kernel, program, Protocols, Pending, InStep, OneUnderway
  <2>6. UspInv'
    BY <1>4 DEF UspInv, Pong, kernel, program, Protocols
  <2> QED
    BY <2>1, <2>2, <2>3, <2>4, <2>5, <2>6
<1>5. CASE NlAsk
  <2>1. PingType'
    BY <1>5 DEF NlAsk, kernel, program, Protocols
  <2>2. UnloadedInv'
    BY <1>5 DEF NlAsk, kernel, program, Protocols
  <2>3. ProcInv'
    BY <1>5 DEF ProcInv, NlAsk, kernel, program, Protocols
  <2>4. IoctlInv'
    BY <1>5 DEF IoctlInv, NlAsk, kernel, program, Protocols
  <2>5. KspInv'
    BY <1>5 DEF KspInv, NlAsk, kernel, program, Protocols, Pending, InStep, OneUnderway
  <2>6. UspInv'
    BY <1>5 DEF UspInv, NlAsk, kernel, program, Protocols
  <2> QED
    BY <2>1, <2>2, <2>3, <2>4, <2>5, <2>6
<1>6. CASE NlTake
  <2>1. PingType'
    BY <1>6 DEF NlTake, kernel, program, Protocols
  <2>2. UnloadedInv'
    BY <1>6 DEF NlTake, kernel, program, Protocols
  <2>3. ProcInv'
    BY <1>6 DEF ProcInv, NlTake, kernel, program, Protocols
  <2>4. IoctlInv'
    BY <1>6 DEF IoctlInv, NlTake, kernel, program, Protocols
  <2>5. KspInv'
    BY <1>6 DEF KspInv, NlTake, kernel, program, Protocols, Pending, InStep, OneUnderway
  <2>6. UspInv'
    BY <1>6 DEF UspInv, NlTake, kernel, program, Protocols
  <2> QED
    BY <2>1, <2>2, <2>3, <2>4, <2>5, <2>6
<1>7. CASE NlUnicast
  <2>1. PingType'
    BY <1>7 DEF NlUnicast, kernel, program, Protocols
  <2>2. UnloadedInv'
    BY <1>7 DEF NlUnicast, kernel, program, Protocols
  <2>3. ProcInv'
    BY <1>7 DEF ProcInv, NlUnicast, kernel, program, Protocols
  <2>4. IoctlInv'
    BY <1>7 DEF IoctlInv, NlUnicast, kernel, program, Protocols
  <2>5. KspInv'
    BY <1>7 DEF KspInv, NlUnicast, kernel, program, Protocols, Pending, InStep, OneUnderway
  <2>6. UspInv'
    BY <1>7 DEF UspInv, NlUnicast, kernel, program, Protocols
  <2> QED
    BY <2>1, <2>2, <2>3, <2>4, <2>5, <2>6
<1>8. CASE Flush
  <2>1. PingType'
    BY <1>8 DEF Flush, kernel, program, Protocols
  <2>2. UnloadedInv'
    BY <1>8 DEF Flush, kernel, program, Protocols
  <2>3. ProcInv'
    BY <1>8 DEF ProcInv, Flush, kernel, program, Protocols
  <2>4. IoctlInv'
    BY <1>8 DEF IoctlInv, Flush, kernel, program, Protocols
  <2>5. KspInv'
    BY <1>8 DEF KspInv, Flush, kernel, program, Protocols, Pending, InStep, OneUnderway
  <2>6. UspInv'
    BY <1>8 DEF UspInv, Flush, kernel, program, Protocols
  <2> QED
    BY <2>1, <2>2, <2>3, <2>4, <2>5, <2>6
<1>9. CASE Read
  <2>1. PingType'
    BY <1>9 DEF Read, kernel, program, Protocols
  <2>2. UnloadedInv'
    BY <1>9 DEF Read, kernel, program, Protocols
  <2>3. ProcInv'
    BY <1>9 DEF ProcInv, Read, kernel, program, Protocols
  <2>4. IoctlInv'
    BY <1>9 DEF IoctlInv, Read, kernel, program, Protocols
  <2>5. KspInv'
    BY <1>9 DEF KspInv, Read, kernel, program, Protocols, Pending, InStep, OneUnderway
  <2>6. UspInv'
    BY <1>9 DEF UspInv, Read, kernel, program, Protocols
  <2> QED
    BY <2>1, <2>2, <2>3, <2>4, <2>5, <2>6
<1>10. CASE IoctlEnter
  <2>1. PingType'
    BY <1>10 DEF IoctlEnter, kernel, program, Protocols
  <2>2. UnloadedInv'
    BY <1>10 DEF IoctlEnter, kernel, program, Protocols
  <2>3. ProcInv'
    BY <1>10 DEF ProcInv, IoctlEnter, kernel, program, Protocols
  <2>4. IoctlInv'
    BY <1>10 DEF IoctlInv, IoctlEnter, kernel, program, Protocols
  <2>5. KspInv'
    BY <1>10 DEF KspInv, IoctlEnter, kernel, program, Protocols, Pending, InStep, OneUnderway
  <2>6. UspInv'
    BY <1>10 DEF UspInv, IoctlEnter, kernel, program, Protocols
  <2> QED
    BY <2>1, <2>2, <2>3, <2>4, <2>5, <2>6
<1>11. CASE IoctlLeave
  <2>1. PingType'
    BY <1>11 DEF IoctlLeave, kernel, program, Protocols
  <2>2. UnloadedInv'
    BY <1>11 DEF IoctlLeave, kernel, program, Protocols
  <2>3. ProcInv'
    BY <1>11 DEF ProcInv, IoctlLeave, kernel, program, Protocols
  <2>4. IoctlInv'
    BY <1>11 DEF IoctlInv, IoctlLeave, kernel, program, Protocols
  <2>5. KspInv'
    BY <1>11 DEF KspInv, IoctlLeave, kernel, program, Protocols, Pending, InStep, OneUnderway
  <2>6. UspInv'
    BY <1>11 DEF UspInv, IoctlLeave, kernel, program, Protocols
  <2> QED
    BY <2>1, <2>2, <2>3, <2>4, <2>5, <2>6
<1>12. CASE NlSend
  <2>1. PingType'
    BY <1>12 DEF NlSend, NextTest, kernel, program, Protocols
  <2>2. UnloadedInv'
    BY <1>12 DEF NlSend, NextTest, kernel, program, Protocols
  <2>3. ProcInv'
    BY <1>12 DEF ProcInv, NlSend, NextTest, kernel, program, Protocols
  <2>4. IoctlInv'
    BY <1>12 DEF IoctlInv, NlSend, NextTest, kernel, program, Protocols
  <2>5. KspInv'
    <3> SUFFICES ASSUME proto' = "nl_ksp" PROVE KspInv'
      BY DEF KspInv
    <3>1. /\ tests >= 1 /\ proto = "nl_ksp" /\ upc = "send" /\ kpc = "await" /\ wq_flag = 0 /\ inbox = 0
          /\ uleft = kleft /\ kleft \in 1 .. Runs + 1
          /\ uleft <= Runs => returned + 1 <= seen
          /\ returned <= seen
      BY <1>12 DEF KspInv, NlSend, Pending, InStep
    <3>2. /\ kpc' = "await" /\ wq_flag' = 1 /\ inbox' = 0 /\ kleft' = kleft
          /\ seen' = seen /\ returned' = returned
          /\ uleft' = IF uleft > 1 THEN uleft - 1 ELSE Runs + 1
          /\ \/ uleft > 1 /\ upc' = "recv" /\ tests' = tests
             \/ uleft = 1 /\ tests > 1 /\ upc' = "send" /\ tests' = tests - 1
             \/ uleft = 1 /\ tests = 1 /\ upc' = "ended"
      BY <1>12, <3>1 DEF NlSend, NextTest, kernel
    <3> QED
      BY <3>1, <3>2 DEF KspInv, Pending, InStep, OneUnderway
  <2>6. UspInv'
    BY <1>12 DEF UspInv, NlSend, NextTest, kernel, program, Protocols
  <2> QED
    BY <2>1, <2>2, <2>3, <2>4, <2>5, <2>6
<1>13. CASE NlRecv
  <2>1. PingType'
    BY <1>13 DEF NlRecv, kernel, program, Protocols
  <2>2. UnloadedInv'
    BY <1>13 DEF NlRecv, kernel, program, Protocols
  <2>3. ProcInv'
    BY <1>13 DEF ProcInv, NlRecv, kernel, program, Protocols
  <2>4. IoctlInv'
    BY <1>13 DEF IoctlInv, NlRecv, kernel, program, Protocols
  <2>5. KspInv'
    BY <1>13 DEF KspInv, NlRecv, kernel, program, Protocols, Pending, InStep, OneUnderway
  <2>6. UspInv'
    BY <1>13 DEF UspInv, NlRecv, kernel, program, Protocols
  <2> QED
    BY <2>1, <2>2, <2>3, <2>4, <2>5, <2>6
<1>14. CASE UspSend
  <2>1. PingType'
    BY <1>14 DEF UspSend, kernel, program, Protocols
  <2>2. UnloadedInv'
    BY <1>14 DEF UspSend, kernel, program, Protocols
  <2>3. ProcInv'
    BY <1>14 DEF ProcInv, UspSend, kernel, program, Protocols
  <2>4. IoctlInv'
    BY <1>14 DEF IoctlInv, UspSend, kernel, program, Protocols
  <2>5. KspInv'
    BY <1>14 DEF KspInv, UspSend, kernel, program, Protocols, Pending, InStep, OneUnderway
  <2>6. UspInv'
    BY <1>14 DEF UspInv, UspSend, kernel, program, Protocols
  <2> QED
    BY <2>1, <2>2, <2>3, <2>4, <2>5, <2>6
<1>15. CASE UspRecv
  <2>1. PingType'
    BY <1>15 DEF UspRecv, NextTest, kernel, program, Protocols
  <2>2. UnloadedInv'
    BY <1>15 DEF UspRecv, NextTest, kernel, program, Protocols
  <2>3. ProcInv'
    BY <1>15 DEF ProcInv, UspRecv, NextTest, kernel, program, Protocols
  <2>4. IoctlInv'
    BY <1>15 DEF IoctlInv, UspRecv, NextTest, kernel, program, Protocols
  <2>5. KspInv'
    BY <1>15 DEF KspInv, UspRecv, NextTest, kernel, program, Protocols, Pending, InStep, OneUnderway
  <2>6. UspInv'
    BY <1>15 DEF UspInv, UspRecv, NextTest, kernel, program, Protocols
  <2> QED
    BY <2>1, <2>2, <2>3, <2>4, <2>5, <2>6
<1>16. CASE Killed
  <2>1. PingType'
    BY <1>16 DEF Killed, kernel, program, Protocols
  <2>2. UnloadedInv'
    BY <1>16 DEF Killed, kernel, program, Protocols
  <2>3. ProcInv'
    BY <1>16 DEF ProcInv, Killed, kernel, program, Protocols
  <2>4. IoctlInv'
    BY <1>16 DEF IoctlInv, Killed, kernel, program, Protocols
  <2>5. KspInv'
    BY <1>16 DEF KspInv, Killed, kernel, program, Protocols, Pending, InStep, OneUnderway
  <2>6. UspInv'
    BY <1>16 DEF UspInv, Killed, kernel, program, Protocols
  <2> QED
    BY <2>1, <2>2, <2>3, <2>4, <2>5, <2>6
<1>17. CASE StopThread
  <2>1. PingType'
    BY <1>17 DEF StopThread, kernel, program, Protocols
  <2>2. UnloadedInv'
    BY <1>17 DEF StopThread, kernel, program, Protocols
  <2>3. ProcInv'
    BY <1>17 DEF ProcInv, StopThread, kernel, program, Protocols
  <2>4. IoctlInv'
    BY <1>17 DEF IoctlInv, StopThread, kernel, program, Protocols
  <2>5. KspInv'
    BY <1>17 DEF KspInv, StopThread, kernel, program, Protocols, Pending, InStep, OneUnderway
  <2>6. UspInv'
    BY <1>17 DEF UspInv, StopThread, kernel, program, Protocols
  <2> QED
    BY <2>1, <2>2, <2>3, <2>4, <2>5, <2>6
<1>18. CASE UnloadModule
  <2>1. PingType'
    BY <1>18 DEF UnloadModule, kernel, program, Protocols
  <2>2. UnloadedInv'
    BY <1>18 DEF UnloadModule, kernel, program, Protocols
  <2>3. ProcInv'
    BY <1>18 DEF ProcInv, UnloadModule, kernel, program, Protocols
  <2>4. IoctlInv'
    BY <1>18 DEF IoctlInv, UnloadModule, kernel, program, Protocols
  <2>5. KspInv'
    BY <1>18 DEF KspInv, UnloadModule, kernel, program, Protocols, Pending, InStep, OneUnderway
  <2>6. UspInv'
    BY <1>18 DEF UspInv, UnloadModule, kernel, program, Protocols
  <2> QED
    BY <2>1, <2>2, <2>3, <2>4, <2>5, <2>6
<1>19. CASE UNCHANGED pingVars
  <2>1. PingType'
    BY <1>19 DEF pingVars
  <2>2. UnloadedInv'
    BY <1>19 DEF pingVars
  <2>3. ProcInv'
    BY <1>19 DEF ProcInv, pingVars
  <2>4. IoctlInv'
    BY <1>19 DEF IoctlInv, pingVars
  <2>5. KspInv'
    BY <1>19 DEF KspInv, pingVars, Pending, InStep, OneUnderway
  <2>6. UspInv'
    BY <1>19 DEF UspInv, pingVars
  <2> QED
    BY <2>1, <2>2, <2>3, <2>4, <2>5, <2>6
<1>20. CASE LoadNlKsp
  <2>0. proto = "none"
    BY <1>20 DEF LoadNlKsp, Protocols, ProcInv, IoctlInv, KspInv, UspInv
  <2>1. PingType'
    BY <1>20, <2>0 DEF LoadNlKsp, kernel, program, Protocols
  <2>2. UnloadedInv'
    BY <1>20, <2>0 DEF LoadNlKsp, kernel, program, Protocols
  <2>3. ProcInv'
    BY <1>20, <2>0 DEF ProcInv, LoadNlKsp, kernel, program, Protocols
  <2>4. IoctlInv'
    BY <1>20, <2>0 DEF IoctlInv, LoadNlKsp, kernel, program, Protocols
  <2>5. KspInv'
    BY <1>20, <2>0 DEF KspInv, LoadNlKsp, kernel, program, Protocols, Pending, InStep, OneUnderway
  <2>6. UspInv'
    BY <1>20, <2>0 DEF UspInv, LoadNlKsp, kernel, program, Protocols
  <2> QED
    BY <2>1, <2>2, <2>3, <2>4, <2>5, <2>6
<1>21. CASE LoadNlUsp
  <2>0. proto = "none"
    BY <1>21 DEF LoadNlUsp, Protocols, ProcInv, IoctlInv, KspInv, UspInv
  <2>1. PingType'
    BY <1>21, <2>0 DEF LoadNlUsp, kernel, program, Protocols
  <2>2. UnloadedInv'
    BY <1>21, <2>0 DEF LoadNlUsp, kernel, program, Protocols
  <2>3. ProcInv'
    BY <1>21, <2>0 DEF ProcInv, LoadNlUsp, kernel, program, Protocols
  <2>4. IoctlInv'
    BY <1>21, <2>0 DEF IoctlInv, LoadNlUsp, kernel, program, Protocols
  <2>5. KspInv'
    BY <1>21, <2>0 DEF KspInv, LoadNlUsp, kernel, program, Protocols, Pending, InStep, OneUnderway
  <2>6. UspInv'
    BY <1>21, <2>0 DEF UspInv, LoadNlUsp, kernel, program, Protocols
  <2> QED
    BY <2>1, <2>2, <2>3, <2>4, <2>5, <2>6
<1>22. CASE SendNowhere
  <2>1. PingType'
    BY <1>22 DEF SendNowhere, kernel, program, Protocols
  <2>2. UnloadedInv'
    BY <1>22 DEF SendNowhere, kernel, program, Protocols
  <2>3. ProcInv'
    BY <1>22 DEF ProcInv, SendNowhere, kernel, program, Protocols
  <2>4. IoctlInv'
    BY <1>22 DEF IoctlInv, SendNowhere, kernel, program, Protocols
  <2>5. KspInv'
    BY <1>22 DEF KspInv, SendNowhere, kernel, program, Protocols, Pending, InStep, OneUnderway
  <2>6. UspInv'
    BY <1>22 DEF UspInv, SendNowhere, kernel, program, Protocols
  <2> QED
    BY <2>1, <2>2, <2>3, <2>4, <2>5, <2>6
<1> QED
  BY <1>1, <1>2, <1>3, <1>4, <1>5, <1>6, <1>7, <1>8, <1>9, <1>10, <1>11, <1>12, <1>13, <1>14, <1>15, <1>16, <1>17, <1>18, <1>19,
     <1>20, <1>21, <1>22 DEF PingNext, Kernel, Program

\* The invariant holds in every behaviour.
THEOREM PingInvariance == PingSpec => []PingInv
<1>1. PingInit => PingInv
  <2> SUFFICES ASSUME PingInit PROVE PingInv
    OBVIOUS
  <2>1. buffered \in BOOLEAN /\ ~buffered
    BY DEF PingInit
  <2>2. PingType
    BY <2>1, PingAssumption DEF PingInit, PingType
  <2>3. UnloadedInv
    BY <2>1, PingAssumption DEF PingInit, UnloadedInv
  <2> QED
    BY <2>2, <2>3 DEF PingInit, PingInv, ProcInv, IoctlInv, KspInv, UspInv
<1> QED
  BY <1>1, PingStep, PTL DEF PingSpec

\* PingSeen, for every number of tests and pings: no prototype takes a ping to
\* be answered that nobody has seen, but for the first one over ioctl, also
\* when its program is killed.
THEOREM AnsweredIsSeen == PingSpec => []PingSeen
<1>1. PingInv => PingSeen
  BY DEF PingInv, PingType, Protocols, UnloadedInv, ProcInv, IoctlInv, KspInv, UspInv, PingSeen
<1> QED
  BY <1>1, PingInvariance, PTL

-----------------------------------------------------------------------------
(* The mmap example                                                         *)

Share(i) == ShareStart(i) .. ShareStop(i) - 1

KidsInv ==
  \A i \in Kids :
    /\ kids[i] \in {"read", "work", "unget"} => i \in users
    /\ kids[i] \in {"unget", "gone"} => Share(i) \subseteq reversed

ParentInv ==
  /\ xpc \in {"map", "fork", "send", "unget", "early"} => Parent \in users
  /\ xpc \in {"unget", "ended"} => \A i \in Kids : kids[i] = "gone"
  /\ xpc = "out" => users = {}

ExampleInv ==
  /\ kids \in [Kids -> {"none", "read", "work", "unget", "gone"}]
  /\ forked \in Nat
  /\ KidsInv
  /\ ParentInv
  /\ ping # "loaded" => users = {}
  /\ reversed \subseteq 0 .. BlockBytes - 1

\* A share that ends with process i < n ends within n shares.
LEMMA MulMono ==
  ASSUME NEW c \in Nat, NEW i \in Nat, NEW n \in Nat, i < n
  PROVE  c * i + c <= c * n
<1> DEFINE k == n - i - 1
<1>1. k \in Nat /\ n = i + 1 + k
  OBVIOUS
<1> HIDE DEF k
<1>2. c * n = c * i + c + c * k
  BY <1>1
<1>3. c * k \in Nat
  BY <1>1
<1> QED
  BY <1>1, <1>2, <1>3

\* A product of naturals is a natural.
LEMMA MulNat ==
  ASSUME NEW a \in Nat, NEW b \in Nat
  PROVE  a * b \in Nat
OBVIOUS

\* The quotient of a division and its remainder.
LEMMA DivBounds ==
  ASSUME NEW b \in Nat, NEW n \in Nat \ {0}
  PROVE  /\ b \div n \in Nat
         /\ n * (b \div n) <= b
         /\ b < n * (b \div n) + n
OBVIOUS

\* The share of every process lies in the block.
LEMMA ShareInside ==
  ASSUME NEW i \in Kids
  PROVE  Share(i) \subseteq 0 .. BlockBytes - 1
<1> DEFINE c == BlockBytes \div Processes
<1>1. BlockBytes \in Nat /\ Processes \in Nat \ {0} /\ i \in Nat /\ i < Processes
  BY ExampleAssumption DEF Kids
<1>2. c \in Nat /\ Processes * c <= BlockBytes
  BY <1>1, DivBounds
<1>3. ShareStart(i) = c * i /\ ShareStop(i) \in {BlockBytes, c * i + c}
  BY DEF ShareStart, ShareStop
<1> HIDE DEF c
<1>4. c * i \in Nat /\ c * i + c <= c * Processes /\ c * Processes = Processes * c
  BY <1>1, <1>2, MulMono, MulNat
<1>5. ShareStart(i) \in Nat /\ ShareStop(i) \in Nat /\ ShareStop(i) <= BlockBytes
  BY <1>1, <1>2, <1>3, <1>4
<1> QED
  BY <1>1, <1>5 DEF Share

\* Every byte of the block lies in the share of some process, also when the
\* division has a remainder and when there are more processes than bytes.
LEMMA SharesCover ==
  ASSUME NEW b \in 0 .. BlockBytes - 1
  PROVE  \E i \in Kids : b \in Share(i)
<1> DEFINE c == BlockBytes \div Processes
           last == Processes - 1
<1>1. BlockBytes \in Nat /\ Processes \in Nat \ {0} /\ b \in Nat /\ b < BlockBytes
  BY ExampleAssumption
<1>2. c \in Nat /\ last \in Nat /\ last \in Kids
  BY <1>1, DivBounds DEF Kids
<1>3. \A i \in Kids : ShareStart(i) = c * i
  BY DEF ShareStart
<1>4. \A i \in Kids : i # last => ShareStop(i) = c * i + c
  BY <1>1 DEF ShareStop, ShareStart, Kids
<1>5. ShareStop(last) = BlockBytes
  BY <1>1 DEF ShareStop
<1> HIDE DEF c, last
<1>6. ASSUME NEW i \in Kids, NEW lo \in Nat, NEW hi \in Nat,
             ShareStart(i) = lo, ShareStop(i) = hi, lo <= b, b < hi
      PROVE  b \in Share(i)
  BY <1>1, <1>6 DEF Share
<1>7. CASE c * last <= b
  <2>1. c * last \in Nat
    BY <1>2, MulNat
  <2> QED
    BY <1>1, <1>2, <1>3, <1>5, <1>6, <1>7, <2>1
<1>8. CASE ~(c * last <= b)
  <2>1. c * last \in Nat /\ b < c * last
    BY <1>1, <1>2, <1>8, MulNat
  <2>2. c # 0
    BY <1>1, <1>2, <2>1
  <2> DEFINE i == b \div c
  <2>3. i \in Nat /\ c * i <= b /\ b < c * i + c
    BY <1>1, <1>2, <2>2, DivBounds
  <2> HIDE DEF i
  <2>4. i < last
    <3> SUFFICES ASSUME ~(i < last) PROVE FALSE
      OBVIOUS
    <3>1. CASE i = last
      BY <2>1, <2>3, <3>1
    <3>2. CASE last < i
      <4>1. c * last + c <= c * i
        BY <1>2, <2>3, <3>2, MulMono
      <4>2. c * i \in Nat
        BY <1>2, <2>3, MulNat
      <4> QED
        BY <1>1, <1>2, <2>1, <2>3, <4>1, <4>2
    <3> QED
      BY <1>2, <2>3, <3>1, <3>2
  <2>5. i \in Kids /\ i # last /\ c * i \in Nat /\ c * i + c \in Nat
    BY <1>1, <1>2, <2>3, <2>4, MulNat DEF Kids, last
  <2> QED
    BY <1>3, <1>4, <1>6, <2>3, <2>5
<1> QED
  BY <1>7, <1>8

\* The invariant holds in every behaviour.
THEOREM ExampleInvariance == ExampleSpec => []ExampleInv
<1>1. ExampleInit => ExampleInv
  BY DEF ExampleInit, ExampleInv, KidsInv, ParentInv
<1>2. ExampleInv /\ [ExampleNext]_exampleVars => ExampleInv'
  <2> SUFFICES ASSUME ExampleInv, [ExampleNext]_exampleVars PROVE ExampleInv'
    OBVIOUS
  <2>0. Parent \notin Kids
    BY ExampleAssumption DEF Parent, Kids
  <2>1. CASE InsmodExample
    BY <2>1 DEF ExampleInv, InsmodExample, KidsInv, ParentInv
  <2>2. CASE RmmodExample
    BY <2>2 DEF ExampleInv, RmmodExample, KidsInv, ParentInv
  <2>3. CASE OpenPing
    BY <2>0, <2>3 DEF ExampleInv, OpenPing, KidsInv, ParentInv
  <2>4. CASE GetBlocks
    BY <2>0, <2>4 DEF ExampleInv, GetBlocks, KidsInv, ParentInv
  <2>5. CASE Fork
    <3>1. forked \in Kids
      BY <2>5, ExampleAssumption DEF ExampleInv, Fork, Kids
    <3>2. kids' \in [Kids -> {"none", "read", "work", "unget", "gone"}]
      BY <2>5, <3>1 DEF ExampleInv, Fork
    <3>3. KidsInv'
      BY <2>5, <3>1 DEF ExampleInv, Fork, KidsInv
    <3>4. ParentInv' /\ (ping # "loaded" => users = {})'
      BY <2>5 DEF ExampleInv, Fork, ParentInv
    <3> QED
      BY <2>5, <3>2, <3>3, <3>4 DEF ExampleInv, Fork
  <2>6. CASE PipeFails
    BY <2>6 DEF ExampleInv, PipeFails, KidsInv, ParentInv
  <2>7. CASE ForkFails
    BY <2>0, <2>7 DEF ExampleInv, ForkFails, KidsInv, ParentInv
  <2>8. CASE SendNumber
    BY <2>8 DEF ExampleInv, SendNumber, KidsInv, ParentInv
  <2>9. CASE WaitAll
    BY <2>9 DEF ExampleInv, WaitAll, KidsInv, ParentInv
  <2>10. CASE ParentEnds
    BY <2>0, <2>10 DEF ExampleInv, ParentEnds, KidsInv, ParentInv
  <2>11. ASSUME NEW i \in Kids, ReadNumber(i)
         PROVE  ExampleInv'
    <3>1. KidsInv'
      BY <2>11 DEF ExampleInv, ReadNumber, KidsInv
    <3> QED
      BY <2>11, <3>1 DEF ExampleInv, ReadNumber, ParentInv
  <2>12. ASSUME NEW i \in Kids, proc_thread_dep_syndrome(i)
         PROVE  ExampleInv'
    <3>1. KidsInv'
      BY <2>12 DEF ExampleInv, proc_thread_dep_syndrome, KidsInv, Share
    <3>2. (reversed \subseteq 0 .. BlockBytes - 1)'
      BY <2>12, ShareInside DEF ExampleInv, proc_thread_dep_syndrome, Share
    <3> QED
      BY <2>12, <3>1, <3>2 DEF ExampleInv, proc_thread_dep_syndrome, ParentInv
  <2>13. ASSUME NEW i \in Kids, ChildEnds(i)
         PROVE  ExampleInv'
    <3>1. KidsInv'
      BY <2>13 DEF ExampleInv, ChildEnds, KidsInv
    <3> QED
      BY <2>0, <2>13, <3>1 DEF ExampleInv, ChildEnds, ParentInv
  <2>14. CASE UNCHANGED exampleVars
    BY <2>14 DEF exampleVars, ExampleInv, KidsInv, ParentInv
  <2> QED
    BY <2>1, <2>2, <2>3, <2>4, <2>5, <2>6, <2>7, <2>8, <2>9, <2>10, <2>11, <2>12,
       <2>13, <2>14 DEF ExampleNext
<1> QED
  BY <1>1, <1>2, PTL DEF ExampleSpec

\* BlocksFinal, for every number of processes and bytes: a program that ends
\* its regular way leaves every byte written and no child behind, and no child
\* works in blocks that rmmod has freed.
THEOREM BlocksAreFinal == ExampleSpec => []BlocksFinal
<1>1. ExampleInv => BlocksFinal
  <2> SUFFICES ASSUME ExampleInv PROVE BlocksFinal
    OBVIOUS
  <2>1. ASSUME xpc = "ended"
        PROVE  reversed = 0 .. BlockBytes - 1 /\ \A i \in Kids : kids[i] = "gone"
    <3>1. \A i \in Kids : kids[i] = "gone" /\ Share(i) \subseteq reversed
      BY <2>1 DEF ExampleInv, KidsInv, ParentInv
    <3>2. 0 .. BlockBytes - 1 \subseteq reversed
      BY <3>1, SharesCover
    <3> QED
      BY <3>1, <3>2 DEF ExampleInv
  <2>2. ASSUME ping = "unloaded"
        PROVE  \A i \in Kids : kids[i] \in {"none", "gone"}
    BY <2>2 DEF ExampleInv, KidsInv
  <2> QED
    BY <2>1, <2>2 DEF BlocksFinal
<1> QED
  BY <1>1, ExampleInvariance, PTL
=============================================================================
