# A verification project for barracuda

Barracuda is a micro driver for the Linux RAID-6 layer. A kernel module takes
the place of `gen_syndrome()`, the function that computes the two parity blocks
P and Q of a stripe; it hands each call to a daemon in user space, which
computes the parity on CPUs or on a GPU and reports back. This directory holds
TLA+ models of the module, of the daemon, of their protocols and of the
programs around them, TLC configurations that check them, and proofs for TLAPS.

Abbreviations: K is `src/barracuda_kernel_module/raid6cuda.c`, T is
`raid6cuda_tst.c` beside it, U is `src/barracuda_deamon/userspace_driver.cu`, D
is `baracuda_deamon.cu` beside it.

## Inventory

| Part | State | Operations | Talks to |
|---|---|---|---|
| stub and marshalling (K:156-176, 812-1018; U:765-890) | `gen_syndrome_mutex`, the global `*actual_snc`, the daemon's mappings | gen_syndrome, pack_smc, kill_smc, mmap, get/unget of a block | md (caller), the chosen `call_usp` |
| PROCFS connection (K:343-441, U:561-644) | `procfs_wq_flag`, three semaphores, the stream's buffer | call_usp_proc, proc_read, proc_write, server_procfs | shared flag and wait queue |
| IOCTL connection (K:447-551, U:332-399) | `ioctl_wq_enter_flag`, `ioctl_init_mutex`, `call_usp_ioctl_mutex` | call_usp_ioctl, ioctl_callback, server_ioctl_callback | shared flag and wait queue |
| NETLINK connection (K:557-736, U:413-547, 902-1002) | `nl_receive_flag`, `skb_global`, the socket's queue, payload buffers | call_usp_nl, nl_recv_pkg, nl_data_ready, server_netlink | messages both ways |
| registration and daemon life cycle (K:192-327, U:125-317, D -k, init script) | `PID`, `configured`, `conf_mutex`, the pidfile, the device node, `keep_going` | conf_write, conf_read, start-up and end of the daemon, start/stop/restart, signal handlers | /proc/barracuda/conf, signals |
| SOFT (`vanilla/raid6vanilla.cu`) | none | word loop, SHLBYTE, MASK | called by the server loops |
| SMP (`smp/raid6smp.cu`) | threads, their offsets, the parity blocks | create, join, one share per thread | threads |
| CUDA (`cuda/raid6cuda.cu`) | card memory, a static pointer array | rounds of copies and launches | GPU |
| MULTI (`multrs/raid6multrs.cu`) | card memory, logarithm tables | encoder on the CPU; rounds and kernel on the card | GPU |
| DUMMY (`dummy/raid6dummy.cu`) | none | two copies | called by the server loops |
| front end (D, `service.cu`), validator, benchmark | options, chosen implementation, the clone | command line, -V, -B, start of the driver | all implementations, the driver |
| module life cycle and tester (K:1026-1235, T) | registered parts, `dont_kill_mutex`, `jiffies` | insmod, rmmod, the test thread, open and release of the device | the stub, the daemon |
| prototypes (`src/prototypes`) | flags, messages, forked processes | ping and pong over four connections, mapped blocks | programs of their own |

What is hard here: callers, daemon and signals interleave at every statement
(nothing but semaphores, one flag and one global container tie them together);
all waits are `wait_event_interruptible()` with the result thrown away; a
daemon may be stopped, killed or restarted at any point; several error returns
keep a semaphore or leave half of the initialisation behind; the
implementations compute many bytes at once with word arithmetic, and cut a
stripe into shares and rounds whose remainders are each treated in their own
way. The hazards are listed, each at its line, in `PROJECT.json`.

What makes a part correct: a call returns once, and only when its own parity is
there (connections); the container that the daemon maps is that of a waiting
caller (marshalling); gen_syndrome is opened once and a start-up never hangs
(registration); every byte of P and Q is stored in its place and has the
Reed-Solomon value (implementations); the daemon runs what its command line
says (front end); the module goes away only when nobody uses it (module life).

## Modules

### Connections

`SyndromeService` is the abstract specification: a call is requested, then
served or dropped (no memory to marshal it), then returns, and it does return.
The promise ends where the code gives it up: its variable `broken` becomes true
once a wait of the daemon was cut short by a signal or the daemon has gone
(netlink: or a message was lost), and from then on nothing is promised.

`Marshalling` is what all connections share: the callers' way through
`raid6_cuda_gen_syndrome()`, one job of the daemon from `get` to `served`, and
the signal handlers. It is extended by `ProcfsConn`, `IoctlConn` and
`NetlinkConn`, each of which adds the handshake of one connection type as the
code has it: one action per statement that another process can observe, with
the label of the next statement in `pc[c]` (callers) or `dpc` (daemon). Each
of the three defines `CallState`, the refinement mapping to `SyndromeService`.

What is kept of the data: a container is the name of its caller, or `Dangling`
when it is not (any more) that of a call in progress; a mapped block is the
container it was found through; the parity is the set of callers whose current
call was computed over exactly its own blocks. Netlink payloads are byte
sequences, since `strcpy()` makes it matter where they are zero.

Signals. `Signal` is delivered at once in user mode; inside a kernel wait it
becomes pending and may end the wait with its condition false (`ReadCut`,
`IoctlCut`, `Deliver(TRUE)`), which sets the history variable `interrupted`.
Properties with the premise `~interrupted` say what the handshake guarantees by
itself; `QuietSpec` is a specification with signals but without cut waits.
Kernel callers are md threads, which are not signalled.

`Registration` models the daemons' start-up and end, `conf_write()` and the
init script. Its `Connect`-to-`serve` part is the single action `Connect` of
`Marshalling`, and its action `EndServer` stands for the end of a server loop.
`conf_write()` has all three of its returns without `up()`: the one for a
configured module and the two errors for a write that is too long or cannot be
copied, which the history variable `refused` remembers. The daemons' own commands
are never refused, so that such writes, and a "con" without a PID, come from
somebody else (`StrangerWrites`).

### Implementations

`Gf256` defines the field GF(2^8) from polynomials, as sets of degrees; it is
the reference. `SyndromeWord` is the loop over the disks for one word, with the
word-parallel operators; a word is the set of its 1 bits, so that a shift moves
the bits, `NBYTES` repeats a byte, and the subtraction of `MASK` is written with
its borrows, across the bytes and out at the top. `onCard` distinguishes the
loop of SOFT and SMP from that of a thread of `syndrome_block()`, which differs:
it overwrites the sum `wq0` with the mask and reduces with a word `w20` that was
left over in shared memory (`Leftovers`). `SmpSyndrome` models the threads of
SMP and which bytes of P and Q they have stored; the outer loop of SOFT is its
one-thread case. `MultRs` is the encoder of MULTI for one byte of each disk: the
tables as they stand in the source (an assumption that TLC evaluates says that
`setup_tables()` of the prototype generates them), the eight-bit sum of
logarithms, the byte behind the table. `CudaCopy` models how CUDA and MULTI take
a stripe to the card and back, in words, with what earlier calls have left on
the card and in the static pointer of `synccopy`; `RsKernel` is one block of
threads of the kernel of MULTI, at the granularity of its shared memory. The
lanes of a warp take each step together and the warps interleave. The pointers
`local_accu` and `local_fetch_tmp` are shared by the whole block (lines 563-567),
but not volatile: a build may keep each thread's value in a register
(`inRegisters`) or load the shared pointer wherever it is used, and the model has
both builds. What
`CudaCopy` follows is where the parity of a word ends up; what the kernel makes
of the word is in `SyndromeWord`. `MCWord` gives a few words, and has TLC
compare the subtraction and `NBYTES` on sets of bits with those on numbers.
`MCImpl` composes `SyndromeWord`, `MultRs`, `CudaCopy`, `RsKernel` and
`SmpSyndrome`: a behaviour is one word, or calls of the encoder, or one process
that uses the card, or one block of threads, or one call of SMP. `MCMultRs` takes
the encoder alone for a run.

### Around them

`Validator` and `FrontEnd` are the validator and `main()` of the daemon program:
the arguments read one by one, the choice of the implementation, validation,
benchmark, and the driver in the foreground or in a clone. `Validator` has the
stripe as the code fills it and what each of the five implementations leaves in
the two blocks that are compared: P and Q for SOFT and SMP, disk 0 for DUMMY,
check rows 3 and 4 over three disks for MULTI on the CPU, and for CUDA the P and Q
of its kernel for every content that shared memory may have had. A failing
`pthread_create()` and missing memory on the card end the program (`MayExit`), and
MULTI on the card copies whole DMA blocks over the 512 bytes of the stripe, after
which nothing is known ("smashed"). `ModuleLife` is the
kernel module with its tester from insmod to rmmod, with a failure at every
registration; time passes at every step of a benchmark's call, its wait in
`down()` included. `PingPong` holds the four handshake prototypes, `MmapExample` the
prototype of the marshalling with its forked children. `MCLifecycle` composes
them: a behaviour is one process of the daemon program, one load of the module,
or one run of a prototype. `MCFront` takes the daemon program alone for a run.

The other `MC*` modules instantiate a connection or the registration. The
`*Proofs` modules hold the proofs. Definitions named in a comment "Mutant:" are
deliberate errors next to the definition they would replace; no specification
uses them, they serve to show that the properties can fail.

## Runs

| Run | Checks | Instance |
|---|---|---|
| `procfs` | TypeOK, PublishedStable, ServesPublished, ReturnComputed, ExitAnswersComputed, CallReturns, ImplementsService | 2 callers, 2 disks, both signals, vmalloc and mmap may fail |
| `ioctl` | PublishedStable, AnnouncedIsAwaited, ReturnComputed, CallReturns, ImplementsService | as procfs, at most 3 credits |
| `nl` | ServesPublished, ReturnComputed, AckAccepted, ImplementsService | as procfs, with stale PID, no skb, lost unicast |
| `registration` | TypeOK, GenOpenedOnce, ConfFreeUntilConfigured, FirstStartEnds | 2 daemons, overlaps, crashes, deleted pidfiles, writes of others |
| `implementations` | ParityIsReference, TwoErasures, RowsExact, ParityPlaced, CopiesInside, KernelSums, SmpTypeOK, ReturnCovers, StoresBounded, StoresInside, CallEnds | see Bounds |
| `lifecycle` | BenchmarkIsDriver, ValidatorSeparates, StopsQuiescent, TimerIsElapsed, TestEnds, PingSeen, PingsEnd, BlocksFinal | see Bounds |
| `procfs_sigterm` | AnswerMeansDone, violated | see Findings |
| `ioctl_stop` | ExitAnswersComputed, violated | see Findings |
| `restart_hangs` | StartEnds, violated | see Findings |
| `daemon_settings` | DaemonTakesSettings, violated | see Findings |
| `cuda_kernel` | CardGeneratesSyndrome, violated | see Findings |
| `mult_gf` | CheckBytesExact, violated | see Findings |

What `implementations` shows is not only good news, and its properties say exactly
where the code is right: `ParityIsReference` has Q for SOFT and SMP only, since
the kernel of CUDA does not compute it; `ParityPlaced` gives the stripe lengths
for which `synccopy()` puts its parity in place (shorter than two DMA blocks,
whole blocks, or with a single block before the rest) and excludes a process that
has run a benchmark before; `RowsExact` says that MULTI computes the Reed-Solomon
rows as long as no sum of logarithms exceeds eight bits (`mult_gf` shows what
happens otherwise); `CopiesInside` holds for MULTI only on stripes of whole
blocks; `KernelSums` says that every thread of MULTI's kernel stores its own sum
if the build keeps the shared pointers in registers, and that otherwise at most
one thread of a warp stores anything but zero. For SMP, `ReturnCovers` says that
nothing is left out and `StoresBounded` that the last thread may store up to a
word less one byte behind the blocks.

In `lifecycle`, `ValidatorSeparates` is what -V says of each implementation, and
`BenchmarkIsDriver` that the implementation named by -m, found by two separate
searches, is the one that a benchmark measures and the one that the driver gets.
In `registration`, `GenOpenedOnce` includes that a PID is registered, and
`ConfFreeUntilConfigured` and `FirstStartEnds` end with the configuration or with
the first refused write.

### Bounds

Two callers suffice to compete for every semaphore, and one more only queues
behind the same `gen_syndrome_mutex`; the proofs remove the bound. Two disks make
a partly mapped job possible. `MaxCredits` stops signals inside ioctl() once three
credits have piled up: two already allow the early announcement, the third shows
that nothing further happens. Two daemons make every overlap of two starts and a
stop; the proofs take any number. For SMP the stripes include the empty one (a
call marshalled without memory), one shorter than a word, and sizes the threads
divide with and without a remainder, for one to three threads and words of four
bytes; the proofs remove the bound.

In `implementations` a word has two bytes, and the words have high bits on both
sides of the byte boundary, which suffices to see a carry or a borrow cross from
one byte to the next and leave at the top; the same words may be left over on the
card; three data disks give the loop a
first, a middle and a last round. The bytes of MULTI include zero, one, both
sides of the overflow of the logarithms, and 255, which is behind the table;
`LogBeyond` gives two values for what is read there. A DMA block has four words
and a block of threads two, and stripes reach from empty to two pairs of blocks
and a rest, so that every combination of pairs, single block and rest occurs;
`MaxCalls` is two, one call of the benchmark and one of the server or two of the
same, which is all that the static pointer and the content of the card can tell
apart. The kernel has two warps of two threads, and its three loading threads are
in both: the barrier matters, lanes compete for the shared pointers and so do the
warps. One data disk makes its loop go round twice, since it includes the row
behind the disks. The proofs take any
words, bytes and numbers of disks, any sizes of transfers, stripes and blocks of
threads, and any number of calls.

In `lifecycle` the command line has no bound: any sequence of the fourteen words
may come, and a word may be the value of the one before. `LastDisks` gives the
benchmark two rounds. `JiffyWrap` is eight, a call takes one to `MaxTicks`, three,
ticks and a run of the benchmark four to six, so `jiffies` wraps inside a run and
inside a call; the assumption of `ModuleLife` is that a call is shorter than half
a wrap, which for `jiffies` is days at least, and the proof removes the other
bounds. The ping-pong tests are two of two pings, which makes the counts of the
two sides meet inside a test and between two. Three processes on seven bytes
leave a remainder in the last share. The proofs remove these bounds too.

Deadlock is checked in `registration` and `restart_hangs`. The other
systems may really stop: the daemon exits or dies and the callers then wait for
ever, a program ends, a module is unloaded.

### Fairness

A runnable thread is scheduled eventually: weak fairness of the daemon, of each
caller that is inside the stub, of the SMP threads, of the test thread, and of
the prototypes' threads and programs. `down()` serves its waiters in the order of
arrival, so a caller is not overtaken for ever at `gen_syndrome_mutex`: strong
fairness of that step alone. md need not call, nobody need send a signal, start
or stop a daemon in the connections and the registration, and no failure need
happen. In `FairSpec` of the connections a pending signal may end a wait, and the
daemon's fairness covers that step together with its others. For `TestEnds`
somebody does start a daemon, which configures its connection, opens the device
and answers; that it may leave at any time is an escape of the property. The
clock goes on ticking.

## Findings

* `procfs_sigterm`: `proc_read()` ignores that its wait was interrupted
  (K:390). After a SIGTERM, which `kill_handler` survives on purpose, the daemon
  takes up a container that was not announced and its answer releases a caller
  whose parity was never computed. K:404-405 says that `proc_write()` "gets
  called, if the job is done".
* `ioctl_stop`: a job is reported done by the `ioctl()` of the next round
  (U:356-393). A stop during the job ends the loop without it; the caller waits
  for ever with `gen_syndrome_mutex` held, although U:262 recommends the stop as
  the way "to shutdown into a secure state".
* `restart_hangs`: `conf_write()` returns without `up( &conf_mutex )` when the
  module is configured (K:209-213); the daemon of the next start, which
  `tools/scripts/barracuda:10` offers as `restart`, blocks at its second write.
* `daemon_settings`: with -d the clone shares the memory of `main()` and reads
  its settings through a pointer into the frame of `main()`, which returns
  without waiting (D:305-316). The daemon may run with another connection or
  implementation than the command line says.
* `cuda_kernel`: `syndrome_block()` has the mask overwrite `wq0` where its own
  comment (`cuda/raid6cuda.cu:619`) says `w20 = MASK(wq0)`, and reads `w20`
  without ever writing it first. Q is wrong already for two disks and cleared
  shared memory, although line 572 says that the kernel generates the syndrome.
  The validator does notice (`ValidatorSeparates`).

* `mult_gf`: `mult_gf()` adds two logarithms in an `unsigned char`
  (`multrs/raid6multrs.cu:229`); where the sum is 256 or more it returns half of
  the product, although lines 214 and 219 say that the function "implements
  multiplication on an GF(2) with lookup tables" and returns the "result of the
  GF(2) multiplication". Byte 142 in check row 3 is enough. `mult_gf_shader()`
  has the same lines.

Seen while modelling, and without a run of their own:

* With -B DRYRUN only the implementation of -m is measured (`gen_syndrome_list[c_mode]`,
  `bench/gen_syndrome_test.cu:85`), although `benchmarker.cu:83` says "testing all
  implementations" and `gen_syndrome_test.cu:67` "Benchmarks the pure Speed of all
  registered implementations". `BenchmarkIsDriver` is about which one that is, not
  about this promise.
* A build of `rs_kernel()` that uses the `__shared__` pointers as they stand
  (`multrs/raid6multrs.cu:563-567`) loses the sums of all threads of a warp but
  one; `KernelSums` says so.
* The comments of the validator speak of a "random" data set (`validator.cu:61`)
  and of blocks that all point to one page (`validator.cu:128`). The code fills disk
  i with the byte i, and `service.cu:105-124` allocates every block on its own, so
  that freeing the first leaves the others behind. Its data set is too tame to
  overflow a logarithm of MULTI or to set a mask, and leaving out disk 0, which
  holds zeros, would change nothing.
* `conf_write()` also returns without `up()` for a write of more than 40 bytes
  and for one that cannot be copied (K:216-219); one such write makes every later
  one wait for ever, before the module was ever configured.
* `netlink_kernel_create()` may fail in the netlink prototypes (`nl_ksp/ping.c:209`,
  `nl_usp/ping.c:116`) and its result is not looked at: the module is loaded and
  deaf. `major` of the mmap prototype is unsigned (`ping.c:77`), so that its check for
  a failing registration (`ping.c:405`) never fires and insmod succeeds without a
  device. Both are in the models.
* `mod_init()` of the tester calls the initialisation "neccessary" (T:267) and
  ignores its result. After a failing registration a daemon can still open the
  stub, and the test thread's call publishes into a container that was never
  allocated (the test thread ends in "oops").

## Proofs

All theorems hold for every value of the constants that the named assumptions
(`ASSUME`) of the modules allow.

`ProcfsConnProofs` proves, for any callers, disks, signals and failures, the
theorems `TypeCorrect`, `PublishedStays`, `DaemonServesPublished`,
`ReturnsComputed`, `ComputedIsAnswered` and `Refinement` (the safety part of
`ImplementsService`). The assumptions are those of `Marshalling`: `Dangling` is
no caller, there is at least one disk, signals are TERM and ALRM. None of the
properties is inductive. The invariant `IndInv` has three layers:
`TypeOK /\ DaemonInv` (what the daemon's place in the loop says of its
variables), `MutexInv /\ PublishedStable /\ FlagInv` (one caller in the stub,
and the flag is 0 only for a caller that waits) and `JobInv` (as long as no wait
was cut: the header, the mapped blocks and the parity are those of the waiting
caller, and a job is answered only when computed). Each layer is preserved on
the strength of the ones before it; the properties follow from the invariant,
and the refinement from the invariant step by step: only `RaidCall`, `PackSmc`,
`GenSyndrome` and `UpGenSyndrome` change the state of a call, and a cut wait or
the end of the daemon is the abstract `Break`.

`IoctlConnProofs` proves `PublishedStays`, `AnnouncedAreAwaited`,
`ReturnsComputed` and `Refinement` for the ioctl connection in the same three
layers; `Invariance` includes its type invariant. What is new is `CreditInv`:
until a wait is cut there is at most one credit in `ioctl_init_mutex`, it exists
only for a daemon that sits in ioctl(), and a caller that has taken it finds the
daemon still there when it announces its job. This is what keeps the next
ioctl() from reporting an unseen job done.

`RegistrationProofs` proves `TypeCorrect`, `OpenedOnce` and `ConfFree` for any
set of daemons and writes of others. The three are inductive together: a write
that configures the module finds it unconfigured and a PID registered, and so
`gen_syndrome_mutex` at 0; a write that loses `conf_mutex` is refused or finds the
module configured.

`SmpSyndromeProofs` proves `TypeCorrect`, `ReturnIsComplete`, `OverrunBounded`
and `WholeWordsInside` for every word size, stripe size and number of CPUs. Its
invariant says of each thread that all bytes from the start of its share to its
offset are stored (`Progress`), and of the main thread which threads exist or
are finished. That the shares cover the stripe and stay inside it are lemmas on
integer division.

`NetlinkConnProofs` proves `TypeCorrect`, `DaemonServesPublished`,
`ReturnsComputed`, `AcksAccepted` and `Refinement` for the netlink connection,
with lost messages and a stale PID. Init and acknowledgement share one flag and
one `skb_global`, so the third layer has a part of its own, `PlaceInv`: while a
caller has taken the init and not yet sent its job, the daemon is in `recv()`,
and from the sending of the job to its acknowledgement the daemon is at work on
it, about to receive it, or dead; it is never at the sending of an init. This is
why the second wait of a call is not ended by an init. `AcksAccepted` needs one
layer more, `TextInv`, which follows the bytes of the address through the copies
of both sides. Its hypothesis `PlainBytes` says that the address has no zero
byte before its last byte that is not zero: the daemon copies the payload with
`strcpy()` (U:1001), which ends at the first zero, and an address with a zero
inside would come back cut and be refused. The other theorems of the module do
without it.

`ImplementationProofs` proves `ParityIsPlaced` and `CopiesStayInside` for every
DMA size, every number of threads that divides it and every stripe length, as
`CopyAssumption` states. The core are lemmas on the list of rounds that a call
makes (`PairsRounds`, `BlocksRounds`, `RestRounds`, and from them `SynccopyRounds`
and `MultiRounds`): each round is inside the blocks, covers the words it copies
out by its launch, and together they reach a word exactly if the stripe's length
is one of the good ones. `CopyInv` then follows a call through its rounds: what is
on the card between two steps (`CardInv`), that a parity word is right or still
owed by a remaining round (`PlacedInv`), and that the static pointer is the
benchmark's exactly if a benchmark has run (`CapturedInv`). Where nothing is
promised, MULTI on a stripe with a rest, the invariant keeps only types. The same
module proves `KernelSumsHold` for any number of threads, loading threads, lanes
and disks: no warp passes the barrier before all have loaded (`BarrierInv`); with
the pointers in registers each thread's sum holds the rows so far (`OwnInv`); with
shared pointers there is one thread of each warp, the one that has won the
assignment, and only these ever own a sum (`SharedInv`).

The arithmetic rests on `Gf256Proofs`, the algebra of the field: sums of finite
families of polynomials (`SumPlus`, `SumMore`, `SumTwo`), products (`MulPlus`,
`MulCommutes`, `MulPowerOfTwo`), bytes as polynomials, and the theorem
`PowersDiffer`: x has the order 255. For this the multiplication by a few powers
of x is written out bit by bit (`Map1` to `Map170`), which shows that x^255 is 1
and that x^15, x^51 and x^85 fix nothing but zero; the smallest period of a
polynomial divides 255, so it would divide one of these three. A fact about all
numbers is proved by `SetInduction` (a set of naturals with 0 and the successors
of its elements is Nat, from the well-founded order of the library), a recursive
function is unfolded by `Iteration`, and a fact about all polynomials comes from
`Span`, since both sides of it are additive: so the library's induction rules,
which take an operator, are not needed.

`ParityIsReferenceHolds` takes any width of a word, any data and any number of
disks. Its lemmas say what the operators do in each byte: `ByteSHLBYTE`, and
`ByteMASK`, where the borrows of the subtraction have to be followed from bit to
bit (`LendsStep`): a borrow begins at the lowest bit of a byte whose high bit is
set, and the bit that the left shift has put behind the byte pays for it.
Together they are a multiplication by x (`ByteTimesTwo`), and one more disk
multiplies the whole sum by x (`RefStep`). `WordInv` adds the
types to the property. `TwoErasuresHolds` follows for up to 255 data disks
(hypothesis `MaxDisks <= 255`, which is the limit of the code's block table):
where P agrees, the two changed columns differ by the same polynomial e
(`ColumnsEqual`), where Q agrees too, x^a * e = x^b * e, and `PowersDiffer` makes
e zero in every byte.

`RowsExactHolds` is about MULTI, for any number of data
disks, any bytes and any byte behind the table. `TablesGenerated`, which TLC
evaluates, says that each entry of the table is the next power after the one
before and that the logarithms are its inverse; `PowerTable` and `LogTable` make
powers of x of this, and `Product` the product in the field, or half of it when
the sum has overflowed. `RsInv` says that the row's factor is the power of its
number and the check byte the sum so far, as long as nothing overflowed.

`LifecycleProofs` proves `StopIsQuiescent` and `TimerIsExact` for any number of
rounds, any HZ, and any width of `jiffies` and length of a call below half of it. `LifeInv` says which parts exist at
each step of `barracuda_start()`, and that only a thread that found the container,
the last part, can release `dont_kill_mutex`: this is why a module that has
started half-way is never stopped. `ClockInv` says that the timer lags by the
ticks of the call in progress; the lemma `ElapsedIsTicks` is the subtraction
modulo the width. For the front end it proves `BenchmarksDriver`, for every
command line and build: `ModeInv` keeps the number of the benchmark's chain of
names in step with the last -m, `MainInv` says from where on the search of the
list has found the same entry. `ValidatorExact` proves `ValidatorSeparates`, for
every command line, build and content of the card's shared memory. `Verdicts`
compares what the implementations leave: P of the stripe has bit 2 of disk 4,
which the zeros of DUMMY lack, and Q has bit 6 (`ExactParity`), which the fourth
check row of MULTI lacks (`MultiRow`) and so does the Q of CUDA, all of whose bits
are those of 0x1d.

For the prototypes the same module proves `AnsweredIsSeen` for any number of tests
and pings, with one invariant per connection. That of `nl_ksp` is the largest: the
counts of program and thread are in step but for the one message underway
(`InStep`, `OneUnderway`), across the end of one test and the beginning of the
next. `BlocksAreFinal` is proved for any number of processes and bytes: a child
has the blocks mapped while it works (`KidsInv`), the program ends regularly only
after all of them, and the shares cover the blocks (`SharesCover`).

Every invariant and every action property of the passing runs is proved. Only
model-checked are the liveness properties (`CallReturns`, `FirstStartEnds`,
`CallEnds`, `TestEnds`, `PingsEnd`) and the fairness part of the refinements:
fairness and ENABLED are out of the prover's reach. That the tables of MULTI are
as `TablesGenerated` says, and that numbers and sets of bits agree in `MCWord`, is
evaluated by TLC.

## Not modelled

* Page tables and page offsets of the mappings; syslog, printk and help texts;
  the text of the commands written to /proc (a command is its parsed form).
* `COPY_MARSHALLING` (commented out at U:110), the asynchronous copy of the CUDA
  implementation and the tester without `BENCHMARK`: none of them is compiled.
* The XOR, shift and bandwidth benchmarks and the stand-alone memory check of
  the card, which nothing else uses; what a benchmark prints.
* The prototype `smp_gs`, a predecessor of the SMP implementation with the same
  shares, and the encoder of the prototype `multi_rs_cuda`, a predecessor of
  MULTI with fixed sizes.
* Errors of the card after its memory was found: the code does not look at the
  results of its copies and launches.
* Calls of the tester that take half a wrap of `jiffies` or longer.
* A failing `kernel_thread()` in the ping-pong prototypes, and `try_restart` of
  the init script.
* The error returns of `proc_write()`, which the daemon does not reach, since it
  writes back the address it has read. `ioctl_callback_mutex` and
  `proc_write_mutex`: the first goes up before it goes down in every call, the
  second is taken by the one daemon only.

## What may come next

1. Action properties of the registration, from `RegistrationProofs`: which steps
   may still change `PID` and the mode once a daemon is registered.
2. The asynchronous copy of the CUDA implementation, should it be built again.
