------------------------------ MODULE FrontEnd ------------------------------
(***************************************************************************)
(* main() of the daemon program: the command line, the choice of an        *)
(* implementation, validation, benchmark, and the start of the userspace   *)
(* driver in the foreground or in a clone.                                 *)
(*                                                                         *)
(* The arguments are read one at a time, each with a look at the next: a   *)
(* value is read as an option of its own too.  Any sequence of words may   *)
(* follow, so the number of arguments has no bound.                        *)
(***************************************************************************)
EXTENDS Integers, Sequences, Validator

CONSTANTS
  Builds,      \* values of number_of_generators: 5 with CUDA, 4 without
  Arguments,   \* the words that occur on a command line
  LastDisks    \* disks of the last benchmark (64)

ASSUME FrontEndAssumption ==
  /\ Builds \subseteq {4, 5}
  /\ LastDisks \in Nat /\ LastDisks >= 5

VARIABLES
  fpc,                   \* where main() is
  number_of_generators,
  NUMBER_OF_CPUS_INSTALLED,
  word,                  \* argv[i]
  opts,                  \* what the arguments have set
  gen_syndrome,          \* index of the chosen implementation
  benchmarked,           \* indices that a benchmark has called
  disks,                 \* loop variable of the benchmark
  child,                 \* the clone: "none", "started", "driver"
  driver                 \* the settings of the userspace driver, once there is one

frontVars == <<fpc, number_of_generators, NUMBER_OF_CPUS_INSTALLED, word, opts,
               gen_syndrome, benchmarked, disks, child, driver>>
build == <<number_of_generators, NUMBER_OF_CPUS_INSTALLED>>

\* The end of argv, and an option that was not given.
Absent == "absent"

\* implemenatation_names[], without its last one where there is no CUDA
Names == <<"SOFT", "SMP", "DUMMY", "MULTI", "CUDA">>
Registered == {Names[k] : k \in 1 .. number_of_generators}

FrontInit ==
  /\ fpc = "off"
  /\ number_of_generators = 0
  /\ NUMBER_OF_CPUS_INSTALLED = 0
  /\ word = Absent
  /\ opts = [validation |-> FALSE, mode_type |-> Absent, benchmark_type |-> Absent,
             deamonize |-> FALSE, kill |-> FALSE, c_mode |-> 0, rs_mode |-> 0]
  /\ gen_syndrome = 0
  /\ benchmarked = {}
  /\ disks = 0
  /\ child = "none"
  /\ driver = [c_mode |-> 0, gen_syndrome |-> 0]

\* exec() of one of the builds; argv[0] is no option.
Exec(number) ==
  /\ fpc = "off"
  /\ fpc' = "vars"
  /\ number_of_generators' = number
  /\ word' = "baracuda_deamon"
  /\ UNCHANGED <<NUMBER_OF_CPUS_INSTALLED, opts, gen_syndrome, benchmarked, disks, child, driver>>

\* What /sys/devices/system/cpu/online may be, and the number that is made of
\* it: no file at all, the range 0-3, or a single cpu 0, where strtok() finds
\* no second part and atoi(NULL) crashes.
CpuFiles == {"none", "0-3", "0"}
set_internal_vars(file) ==
  /\ fpc = "vars"
  /\ fpc' = IF file = "0" THEN "crashed" ELSE "parse"
  /\ NUMBER_OF_CPUS_INSTALLED' = IF file = "0-3" THEN 4 ELSE 1
  /\ UNCHANGED <<number_of_generators, word, opts, gen_syndrome, benchmarked, disks, child, driver>>

-----------------------------------------------------------------------------
(* The loop over argv                                                       *)

\* Mutant: a name of the chain of strcmp() has the number of its neighbour.
ModeNumberOff(name, old) ==
  IF \E k \in DOMAIN Names : Names[k] = name
  THEN (CHOOSE k \in DOMAIN Names : Names[k] = name) % 5
  ELSE old

\* rs_mode: the names are numbered here whatever the build; another word
\* leaves the number of an earlier -m.
ModeNumber(name, old) ==
  IF \E k \in DOMAIN Names : Names[k] = name
  THEN (CHOOSE k \in DOMAIN Names : Names[k] = name) - 1
  ELSE old

\* mode_type[] and benchmark_type[] have ten characters, strcpy() copies more.
TooLong == {"CUDA_BANDWIDTH", "CUDA_SHIFT", "baracuda_deamon"}

\* Of mode_type and benchmark_type only the names count that are compared.
Compared(w) == IF w \in {"DRYRUN"} \cup {Names[k] : k \in DOMAIN Names} THEN w ELSE "other"

Connections == [NL |-> 1, IOCTL |-> 2, PFS |-> 3]

\* The settings after the word w, which is followed by next.
Option(w, next) ==
  CASE w = "-V" -> [opts EXCEPT !.validation = TRUE]
    [] w = "-m" /\ next # Absent ->
         [opts EXCEPT !.mode_type = Compared(next), !.rs_mode = ModeNumber(next, @)]
    [] w = "-B" /\ next # Absent -> [opts EXCEPT !.benchmark_type = Compared(next)]
    [] w = "-d" -> [opts EXCEPT !.deamonize = TRUE]
    [] w = "-k" -> [opts EXCEPT !.kill = TRUE]
    [] w = "-c" /\ next \in DOMAIN Connections -> [opts EXCEPT !.c_mode = Connections[next]]
    [] OTHER -> opts

\* One round of for(i=0; i < argc; i++).  A -c at the end compares argv[argc],
\* which is NULL.
ReadArgument(next) ==
  /\ fpc = "parse"
  /\ word' = next
  /\ opts' = Option(word, next)
  /\ fpc' = CASE word = "-h" -> "returned"
              [] word = "-c" /\ next = Absent -> "crashed"
              [] word \in {"-m", "-B"} /\ next \in TooLong -> "smashed"
              [] next = Absent -> "options"
              [] OTHER -> "parse"
  /\ UNCHANGED <<build, gen_syndrome, benchmarked, disks, child, driver>>

-----------------------------------------------------------------------------
(* After the loop                                                           *)

\* if(kill == 1): the pidfile is missing, or its process gets SIGALRM.
Kill ==
  /\ fpc = "options" /\ opts.kill
  /\ fpc' \in {"failed", "returned"}
  /\ UNCHANGED <<build, word, opts, gen_syndrome, benchmarked, disks, child, driver>>

NoMode ==
  /\ fpc = "options" /\ ~opts.kill /\ opts.mode_type = Absent
  /\ fpc' = "failed"
  /\ UNCHANGED <<build, word, opts, gen_syndrome, benchmarked, disks, child, driver>>

\* Only the names of this build are searched; without a match it is SOFT.
choose_implementation ==
  /\ fpc = "options" /\ ~opts.kill /\ opts.mode_type # Absent
  /\ fpc' = "chosen"
  /\ gen_syndrome' = IF opts.mode_type \in Registered
                     THEN (CHOOSE k \in DOMAIN Names : Names[k] = opts.mode_type) - 1
                     ELSE 0
  /\ UNCHANGED <<build, word, opts, benchmarked, disks, child, driver>>

\* The implementation with that index is built for the card.
OnCard(index) == number_of_generators = 5 /\ Names[index + 1] \in {"MULTI", "CUDA"}

\* exit() in an implementation: SMP cannot create or join a thread, or there
\* is no memory on the card.
MayExit(index) == Names[index + 1] = "SMP" \/ OnCard(index)

\* The parity bytes after choosen_gen_syndrome() of 512 bytes.  MULTI on the
\* card does not come that far.
Results(index) ==
  CASE Names[index + 1] \in {"SOFT", "SMP"} -> {Parity(Filled)}
    [] Names[index + 1] = "DUMMY" -> {raid6_dummy_gen_syndrome(Filled)}
    [] Names[index + 1] = "CUDA" -> {syndrome_block(Filled, w20) : w20 \in Leftover}
    [] OnCard(index) -> {}
    [] OTHER -> {multi_rs_soft_gen_syndrome(Filled)}

\* validate_implemenataion() and the message of main().  MULTI on the card
\* copies blocks of 512 KB from and to the 512 bytes.
Validate ==
  /\ fpc = "chosen" /\ opts.validation
  /\ \/ \E result \in Results(gen_syndrome) :
          fpc' = IF compare_syndrome(Parity(Filled), result) THEN "valid" ELSE "invalid"
     \/ MayExit(gen_syndrome) /\ fpc' = "failed"
     \/ OnCard(gen_syndrome) /\ Names[gen_syndrome + 1] = "MULTI" /\ fpc' = "smashed"
  /\ UNCHANGED <<build, word, opts, gen_syndrome, benchmarked, disks, child, driver>>

\* baracuda_benchmarker(): only DRYRUN calls an implementation.  It takes the
\* number of -m and does not compare it with the number of implementations.
baracuda_benchmarker ==
  /\ fpc = "chosen" /\ ~opts.validation /\ opts.benchmark_type # Absent
  /\ IF opts.benchmark_type = "DRYRUN"
     THEN /\ fpc' = IF opts.rs_mode < number_of_generators THEN "benchmark" ELSE "smashed"
          /\ benchmarked' = {opts.rs_mode}
          /\ disks' = 5
     ELSE fpc' = "ready" /\ UNCHANGED <<benchmarked, disks>>
  /\ UNCHANGED <<build, word, opts, gen_syndrome, child, driver>>

\* The ten runs with one number of disks; a run of less than a millisecond
\* divides by zero.
compare_all_implementations_one_run(milliseconds) ==
  /\ fpc = "benchmark"
  /\ disks' = disks + 1
  /\ \/ fpc' = CASE milliseconds = 0 -> "crashed"
                 [] disks = LastDisks -> "ready"
                 [] OTHER -> "benchmark"
     \/ MayExit(opts.rs_mode) /\ fpc' = "failed"
  /\ UNCHANGED <<build, word, opts, gen_syndrome, benchmarked, child, driver>>

NoBenchmark ==
  /\ fpc = "chosen" /\ ~opts.validation /\ opts.benchmark_type = Absent
  /\ fpc' = "ready"
  /\ UNCHANGED <<build, word, opts, gen_syndrome, benchmarked, disks, child, driver>>

\* The thread_container tc of main().
tc == [c_mode |-> opts.c_mode, gen_syndrome |-> gen_syndrome]

Foreground ==
  /\ fpc = "ready" /\ ~opts.deamonize
  /\ fpc' = "driver"
  /\ driver' = tc
  /\ UNCHANGED <<build, word, opts, gen_syndrome, benchmarked, disks, child>>

\* clone(CLONE_VM) with a pointer to tc, or its failure
Clone ==
  /\ fpc = "ready" /\ opts.deamonize
  /\ \/ fpc' = "cloned" /\ child' = "started"
     \/ fpc' = "failed" /\ UNCHANGED child
  /\ UNCHANGED <<build, word, opts, gen_syndrome, benchmarked, disks, driver>>

\* main() returns, and its frame with tc is free for exit() to use.
MainReturns ==
  /\ fpc = "cloned"
  /\ fpc' = "returned"
  /\ UNCHANGED <<build, word, opts, gen_syndrome, benchmarked, disks, child, driver>>

\* The clone reads c_mode and gen_syndrome through the pointer.  After main()
\* has returned it may find anything.
Anything == [c_mode : 0 .. 3, gen_syndrome : 0 .. number_of_generators - 1]
ChildReads ==
  /\ child = "started"
  /\ child' = "driver"
  /\ \E found \in IF fpc = "cloned" THEN {tc} ELSE {tc} \cup Anything : driver' = found
  /\ UNCHANGED <<fpc, build, word, opts, gen_syndrome, benchmarked, disks>>

Main ==
  \/ \E number \in Builds : Exec(number)
  \/ \E file \in CpuFiles : set_internal_vars(file)
  \/ \E next \in Arguments \cup {Absent} : ReadArgument(next)
  \/ Kill
  \/ NoMode
  \/ choose_implementation
  \/ Validate
  \/ baracuda_benchmarker
  \/ \E milliseconds \in 0 .. 1 : compare_all_implementations_one_run(milliseconds)
  \/ NoBenchmark
  \/ Foreground
  \/ Clone
  \/ MainReturns

FrontNext == Main \/ ChildReads

FrontSpec == FrontInit /\ [][FrontNext]_frontVars

-----------------------------------------------------------------------------
(* Properties                                                               *)

\* Benchmark and driver agree: the -m that counts is the last one, and when
\* it names an implementation of this build then a benchmark measures this
\* implementation, and main() passes the same one to the driver.  The two
\* numbers come from two different searches.
BenchmarkIsDriver ==
  /\ benchmarked # {} /\ opts.mode_type \in Registered => gen_syndrome \in benchmarked
  /\ fpc = "driver" /\ opts.mode_type \in Registered =>
       Names[driver.gen_syndrome + 1] = opts.mode_type

\* What -V says of each implementation, whatever the card's shared memory
\* held before: it accepts SOFT and SMP; it rejects DUMMY (which copies disk
\* 0), MULTI (whose third and fourth check rows lie where P and Q are
\* compared) and CUDA (whose P is right and whose Q is not).
ValidatorSeparates ==
  /\ fpc = "valid" => Names[gen_syndrome + 1] \in {"SOFT", "SMP"}
  /\ fpc = "invalid" => Names[gen_syndrome + 1] \in {"DUMMY", "MULTI", "CUDA"}

\* The daemon runs with the connection and the implementation of its command
\* line: the container that is passed to the clone reaches it.
DaemonTakesSettings == child = "driver" => driver = tc
=============================================================================
