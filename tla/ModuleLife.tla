----------------------------- MODULE ModuleLife -----------------------------
(***************************************************************************)
(* The life of the kernel module with its tester: insmod runs mod_init(),  *)
(* which calls barracuda_start() and creates a thread that benchmarks      *)
(* raid6_cuda_gen_syndrome(); rmmod runs mod_exit(), which waits for the   *)
(* thread and calls barracuda_stop().                                      *)
(*                                                                         *)
(* The daemon is what the module sees of it: it configures a connection    *)
(* (module Registration), opens the device, answers calls (ProcfsConn,     *)
(* IoctlConn, NetlinkConn) and leaves.  Every registration, vmalloc() and  *)
(* the creation of the thread may fail.                                    *)
(***************************************************************************)
EXTENDS Integers

CONSTANTS
  Rounds,      \* benchmark runs of the thread (60 numbers of disks, 10 each)
  HZ,          \* jiffies of a second
  JiffyWrap,   \* jiffies is counted modulo this (2^32 or 2^64)
  MaxTicks     \* a call lasts no longer: less than half of a wrap

ASSUME ModuleAssumption ==
  /\ Rounds \in Nat \ {0}
  /\ HZ \in Nat \ {0}
  /\ MaxTicks \in Nat \ {0}
  /\ JiffyWrap \in Nat /\ JiffyWrap > 2 * MaxTicks

VARIABLES
  mpc,                  \* where insmod or rmmod is
  step,                 \* next registration of barracuda_start()
  made,                 \* what is registered or allocated
  dont_kill_mutex,
  gen_syndrome_mutex,
  tester,               \* where the thread is
  round,                \* benchmark runs left
  jiffies, t1, jiffie_timer,
  spent,                \* history: jiffies that passed in calls of this run
  daemon                \* "none", "configured", "open", "left"

lifeVars == <<mpc, step, made, dont_kill_mutex, gen_syndrome_mutex, tester,
              round, jiffies, t1, jiffie_timer, spent, daemon>>
module == <<mpc, step, made>>
clock == <<jiffies, t1, jiffie_timer, spent>>

\* What barracuda_start() creates, in this order; actual_snc is the last.
Parts == <<"directory", "stub", "conf", "region", "cdev", "netlink", "actual_snc">>
AllParts == {Parts[k] : k \in 1 .. 7}

LifeInit ==
  /\ mpc = "out" /\ step = 1 /\ made = {}
  /\ dont_kill_mutex = 1 /\ gen_syndrome_mutex = 1
  /\ tester = "none" /\ round = Rounds
  /\ jiffies = 0 /\ t1 = 0 /\ jiffie_timer = 0 /\ spent = 0
  /\ daemon = "none"

-----------------------------------------------------------------------------
(* insmod                                                                   *)

\* mod_init() and barracuda_start() take both mutexes.
Insmod ==
  /\ mpc = "out"
  /\ mpc' = "start"
  /\ dont_kill_mutex' = 0 /\ gen_syndrome_mutex' = 0
  /\ UNCHANGED <<step, made, tester, round, clock, daemon>>

StartPart ==
  /\ mpc = "start" /\ step < 7
  /\ made' = made \cup {Parts[step]}
  /\ step' = step + 1
  /\ UNCHANGED <<mpc, dont_kill_mutex, gen_syndrome_mutex, tester, round, clock, daemon>>

\* return -EIO; only a failing cdev_add() takes the region back.
StartFails ==
  /\ mpc = "start" /\ step < 7
  /\ made' = IF Parts[step] = "cdev" THEN made \ {"region"} ELSE made
  /\ mpc' = "create"
  /\ UNCHANGED <<step, dont_kill_mutex, gen_syndrome_mutex, tester, round, clock, daemon>>

\* vmalloc(), whose result is not looked at, and return 0
StartReturns ==
  /\ mpc = "start" /\ step = 7
  /\ made' \in {made, made \cup {"actual_snc"}}
  /\ mpc' = "create"
  /\ UNCHANGED <<step, dont_kill_mutex, gen_syndrome_mutex, tester, round, clock, daemon>>

\* mod_init() goes on whatever barracuda_start() has returned.  A failing
\* kernel_thread() returns a negative number, mod_init() expects 0.
CreateThread ==
  /\ mpc = "create"
  /\ mpc' = "loaded"
  /\ tester' \in {"alloc", "none"}
  /\ UNCHANGED <<step, made, dont_kill_mutex, gen_syndrome_mutex, round, clock, daemon>>

-----------------------------------------------------------------------------
(* thread_code()                                                            *)

\* The array of disk pointers, or a write through NULL.
Allocate ==
  /\ tester = "alloc"
  /\ \/ tester' = "call"
     \/ tester' = "oops"
  /\ jiffie_timer' = 0 /\ spent' = 0
  /\ UNCHANGED <<module, dont_kill_mutex, gen_syndrome_mutex, round, jiffies, t1, daemon>>

\* t1 = jiffies, before the call
StartTimer ==
  /\ tester = "call"
  /\ t1' = jiffies
  /\ tester' = "enter"
  /\ UNCHANGED <<module, dont_kill_mutex, gen_syndrome_mutex, round, jiffies, jiffie_timer, spent, daemon>>

\* raid6_cuda_gen_syndrome() waits for its mutex.
EnterCall ==
  /\ tester = "enter" /\ gen_syndrome_mutex = 1
  /\ gen_syndrome_mutex' = 0
  /\ tester' = "publish"
  /\ UNCHANGED <<module, dont_kill_mutex, round, clock, daemon>>

\* Time passes, in a call or between two of them.
InCall == tester \in {"enter", "publish", "wait", "answered"}
Tick ==
  /\ tester # "none"
  /\ InCall => spent - jiffie_timer < MaxTicks
  /\ jiffies' = (jiffies + 1) % JiffyWrap
  /\ spent' = IF InCall THEN spent + 1 ELSE spent
  /\ UNCHANGED <<module, dont_kill_mutex, gen_syndrome_mutex, tester, round, t1, jiffie_timer, daemon>>

\* The connection writes *actual_snc.  (Over IOCTL or NETLINK a call waits for
\* ever instead when the device or the socket is missing: it does not come
\* back either.)
PublishCall ==
  /\ tester = "publish"
  /\ tester' = IF "actual_snc" \in made THEN "wait" ELSE "oops"
  /\ UNCHANGED <<module, dont_kill_mutex, gen_syndrome_mutex, round, clock, daemon>>

\* The daemon answers.  A call of at least five blocks of 2 MB takes a jiffy
\* or more.
Answer ==
  /\ tester = "wait" /\ daemon = "open"
  /\ spent > jiffie_timer
  /\ tester' = "answered"
  /\ UNCHANGED <<module, dont_kill_mutex, gen_syndrome_mutex, round, clock, daemon>>

\* time_after(a, b): the difference is negative as a signed number.
time_after(a, b) == 2 * ((b - a) % JiffyWrap) >= JiffyWrap

\* Mutant: the times are compared as plain numbers.
ElapsedPlain(from, to) == IF from > to THEN from - to ELSE to - from

\* What is added to jiffie_timer for a call.
Elapsed(from, to) ==
  IF ~time_after(from, to) THEN (to - from) % JiffyWrap ELSE (from - to) % JiffyWrap

\* Mutant: the mutex is not released after a call.
ReturnCallKeeps ==
  /\ tester = "answered"
  /\ jiffie_timer' = jiffie_timer + Elapsed(t1, jiffies)
  /\ tester' = IF jiffie_timer' < 2 * HZ THEN "call" ELSE "free"
  /\ UNCHANGED <<module, dont_kill_mutex, gen_syndrome_mutex, round, jiffies, t1, spent, daemon>>

\* The stub releases its mutex; t2 = jiffies; the loop goes on for two
\* seconds.
ReturnCall ==
  /\ tester = "answered"
  /\ gen_syndrome_mutex' = 1
  /\ jiffie_timer' = jiffie_timer + Elapsed(t1, jiffies)
  /\ tester' = IF jiffie_timer' < 2 * HZ THEN "call" ELSE "free"
  /\ UNCHANGED <<module, dont_kill_mutex, round, jiffies, t1, spent, daemon>>

\* vfree() of the blocks and of the array; the next run or the end, where
\* the thread releases mod_exit().
FreeBlocks ==
  /\ tester = "free"
  /\ round' = round - 1
  /\ IF round = 1
     THEN tester' = "tail" /\ dont_kill_mutex' = 1
     ELSE tester' = "alloc" /\ UNCHANGED dont_kill_mutex
  /\ UNCHANGED <<module, gen_syndrome_mutex, clock, daemon>>

\* The rest of thread_code() is module code still.
ThreadEnds ==
  /\ tester = "tail"
  /\ tester' = "gone"
  /\ UNCHANGED <<module, dont_kill_mutex, gen_syndrome_mutex, round, clock, daemon>>

Tester ==
  \/ Allocate
  \/ StartTimer
  \/ EnterCall
  \/ PublishCall
  \/ ReturnCall
  \/ FreeBlocks
  \/ ThreadEnds

-----------------------------------------------------------------------------
(* The daemon                                                               *)

\* conf_write() of a connection opens the stub.
Configure ==
  /\ daemon = "none" /\ "conf" \in made
  /\ daemon' = "configured"
  /\ gen_syndrome_mutex' = 1
  /\ UNCHANGED <<module, dont_kill_mutex, tester, round, clock>>

\* open("/dev/barracuda") takes a reference of the module, which fails once
\* the module is going.
OpenDevice ==
  /\ daemon = "configured" /\ "cdev" \in made
  /\ mpc \in {"start", "create", "loaded"}
  /\ daemon' = "open"
  /\ UNCHANGED <<module, dont_kill_mutex, gen_syndrome_mutex, tester, round, clock>>

\* It ends, or its open() has failed.
Leave ==
  /\ daemon \in {"configured", "open"}
  /\ daemon' = "left"
  /\ UNCHANGED <<module, dont_kill_mutex, gen_syndrome_mutex, tester, round, clock>>

-----------------------------------------------------------------------------
(* rmmod                                                                    *)

\* Refused while the device is open (fops.owner).
Rmmod ==
  /\ mpc = "loaded" /\ daemon # "open"
  /\ mpc' = "exit"
  /\ UNCHANGED <<step, made, dont_kill_mutex, gen_syndrome_mutex, tester, round, clock, daemon>>

\* Mutant: mod_exit() does not wait for the thread.
ExitNoWait ==
  /\ mpc = "exit"
  /\ mpc' = "stop"
  /\ UNCHANGED <<step, made, dont_kill_mutex, gen_syndrome_mutex, tester, round, clock, daemon>>

\* down(&dont_kill_mutex) of mod_exit(); the signal that follows goes to a
\* thread that has released it.
Exit ==
  /\ mpc = "exit" /\ dont_kill_mutex = 1
  /\ dont_kill_mutex' = 0
  /\ mpc' = "stop"
  /\ UNCHANGED <<step, made, gen_syndrome_mutex, tester, round, clock, daemon>>

\* barracuda_stop() removes every part, created or not.
Stop ==
  /\ mpc = "stop"
  /\ made' = {}
  /\ dont_kill_mutex' = 1
  /\ mpc' = "unloaded"
  /\ UNCHANGED <<step, gen_syndrome_mutex, tester, round, clock, daemon>>

LifeNext ==
  \/ Insmod
  \/ StartPart
  \/ StartFails
  \/ StartReturns
  \/ CreateThread
  \/ Tester
  \/ Tick
  \/ Answer
  \/ Configure
  \/ OpenDevice
  \/ Leave
  \/ Rmmod
  \/ Exit
  \/ Stop

\* The thread is scheduled, time passes, and somebody starts a daemon, which answers.
LifeFairness ==
  /\ WF_lifeVars(Tester)
  /\ WF_lifeVars(Tick)
  /\ WF_lifeVars(Answer)
  /\ WF_lifeVars(Configure)
  /\ WF_lifeVars(OpenDevice)

LifeSpec == LifeInit /\ [][LifeNext]_lifeVars

-----------------------------------------------------------------------------
(* Properties                                                               *)

\* barracuda_stop() runs only when the thread makes no more calls, has its
\* blocks freed, nobody has the device open, and every part that it removes
\* is there: although mod_init() ignores a failing barracuda_start(), a
\* module that has started half-way is never stopped (its thread blocks or
\* dies, and rmmod waits for ever).
StopsQuiescent ==
  mpc = "stop" =>
    /\ tester \in {"tail", "gone"} /\ round = 0
    /\ daemon # "open"
    /\ made = AllParts

\* The benchmark measures the time of the calls, the wait for the mutex
\* included: jiffie_timer is the number of jiffies that have passed in them,
\* also across a wrap of jiffies.
TimerIsElapsed == tester \in {"call", "free"} => jiffie_timer = spent

\* The test ends when the module has started completely: every call of the
\* thread is let in and answered, unless the daemon leaves, rmmod has begun
\* (a daemon cannot open the device any more), or there is no memory.
TestEnds ==
  (made = AllParts /\ tester = "alloc")
    ~> (tester \in {"gone", "oops"} \/ daemon = "left" \/ mpc = "exit")
=============================================================================
