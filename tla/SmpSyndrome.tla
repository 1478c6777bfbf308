----------------------------- MODULE SmpSyndrome -----------------------------
(***************************************************************************)
(* The implementation SMP of gen_syndrome(): raid6_smp_gen_syndrome()      *)
(* starts one thread per CPU, gives each a share of the stripe and joins   *)
(* them.  A thread, proc_thread_dep_syndrome(), goes through its share in  *)
(* steps of NSIZE bytes; each step stores one word of the P block and then *)
(* one word of the Q block.                                                *)
(*                                                                         *)
(* The value stored at a byte of P or Q depends on the data bytes with the *)
(* same offset only (module SyndromeWord), not on the word it is part of.  *)
(* So what is kept of the two blocks is which bytes have been stored; the  *)
(* order in which two threads store the same byte does not matter.         *)
(***************************************************************************)
EXTENDS Integers, FiniteSets

CONSTANTS
  NSIZE,        \* bytes of a word
  StripeSizes,  \* the numbers of bytes per disk gen_syndrome() is called with
  CpuCounts,    \* what get_number_of_phys_cpus() may return
  CreateFails   \* whether pthread_create() may fail

ASSUME SmpAssumption ==
  /\ NSIZE \in Nat \ {0}
  /\ StripeSizes \subseteq Nat
  /\ CpuCounts \subseteq Nat \ {0}
  /\ CreateFails \in BOOLEAN

VARIABLES
  bytes, number_of_threads,   \* of this call
  main,      \* where the calling thread is
  i,         \* its loop counter
  tpc,       \* where each thread is
  offset,    \* the offset of each thread
  p, q       \* the bytes stored into the P and into the Q block

smpVars == <<bytes, number_of_threads, main, i, tpc, offset, p, q>>
smpCall == <<bytes, number_of_threads>>

Workers == 0 .. number_of_threads - 1

\* The share of a thread; the last one takes what the division leaves.
start(t) == (bytes \div number_of_threads) * t

\* Mutant: the remainder of the division is forgotten.
stopShort(t) == start(t) + bytes \div number_of_threads

stop(t) ==
  IF t + 1 = number_of_threads THEN bytes ELSE start(t) + bytes \div number_of_threads

Word(at) == at .. at + NSIZE - 1

SmpInit ==
  /\ bytes = 0 /\ number_of_threads = 1
  /\ main = "idle"
  /\ i = 0
  /\ tpc = [t \in {0} |-> "none"]
  /\ offset = [t \in {0} |-> 0]
  /\ p = {} /\ q = {}

-----------------------------------------------------------------------------
(* raid6_smp_gen_syndrome()                                                 *)

\* A call for n bytes, on a machine with this number of CPUs.
SmpBegin(n, cpus) ==
  /\ main = "idle"
  /\ main' = "create"
  /\ bytes' = n /\ number_of_threads' = cpus
  /\ tpc' = [t \in 0 .. cpus - 1 |-> "none"]
  /\ offset' = [t \in 0 .. cpus - 1 |-> 0]
  /\ UNCHANGED <<i, p, q>>

\* Mutant: one thread too many (i <= number_of_threads).
CreateOneMore ==
  /\ main = "create"
  /\ i <= number_of_threads
  /\ tpc' = [tpc EXCEPT ![i] = "loop"]
  /\ offset' = [offset EXCEPT ![i] = start(i)]
  /\ i' = i + 1
  /\ UNCHANGED <<smpCall, main, p, q>>

\* pthread_create(): the thread gets its arguments and may start at once.
Create ==
  /\ main = "create"
  /\ i < number_of_threads
  /\ tpc' = [tpc EXCEPT ![i] = "loop"]
  /\ offset' = [offset EXCEPT ![i] = start(i)]
  /\ i' = i + 1
  /\ UNCHANGED <<smpCall, main, p, q>>

\* pthread_create() fails: exit(-1) ends the process and all its threads.
CreateError ==
  /\ CreateFails
  /\ main = "create"
  /\ i < number_of_threads
  /\ main' = "exit"
  /\ tpc' = [t \in Workers |-> "none"]
  /\ UNCHANGED <<smpCall, i, offset, p, q>>

CreateDone ==
  /\ main = "create"
  /\ i = number_of_threads
  /\ main' = "join"
  /\ i' = 0
  /\ UNCHANGED <<smpCall, tpc, offset, p, q>>

\* pthread_join()
Join ==
  /\ main = "join"
  /\ i < number_of_threads
  /\ tpc[i] = "done"
  /\ i' = i + 1
  /\ UNCHANGED <<smpCall, main, tpc, offset, p, q>>

Return ==
  /\ main = "join"
  /\ i = number_of_threads
  /\ main' = "returned"
  /\ UNCHANGED <<smpCall, i, tpc, offset, p, q>>

-----------------------------------------------------------------------------
(* proc_thread_dep_syndrome()                                               *)

\* Mutant: d <= stop.
LoopInclusive(t) ==
  /\ tpc[t] = "loop"
  /\ tpc' = [tpc EXCEPT ![t] = IF offset[t] <= stop(t) THEN "p" ELSE "done"]
  /\ UNCHANGED <<smpCall, main, i, offset, p, q>>

\* for( d = start; d < stop; ...): the word is read and computed.
Loop(t) ==
  /\ tpc[t] = "loop"
  /\ tpc' = [tpc EXCEPT ![t] = IF offset[t] < stop(t) THEN "p" ELSE "done"]
  /\ UNCHANGED <<smpCall, main, i, offset, p, q>>

\* *(unative_t *)&p[d] = wp0
StoreP(t) ==
  /\ tpc[t] = "p"
  /\ p' = p \cup Word(offset[t])
  /\ tpc' = [tpc EXCEPT ![t] = "q"]
  /\ UNCHANGED <<smpCall, main, i, offset, q>>

\* Mutant: the offset is not advanced.
StoreQStays(t) ==
  /\ tpc[t] = "q"
  /\ q' = q \cup Word(offset[t])
  /\ tpc' = [tpc EXCEPT ![t] = "loop"]
  /\ UNCHANGED <<smpCall, main, i, offset, p>>

\* *(unative_t *)&q[d] = wq0, and d += NSIZE
StoreQ(t) ==
  /\ tpc[t] = "q"
  /\ q' = q \cup Word(offset[t])
  /\ offset' = [offset EXCEPT ![t] = @ + NSIZE]
  /\ tpc' = [tpc EXCEPT ![t] = "loop"]
  /\ UNCHANGED <<smpCall, main, i, p>>

Main == Create \/ CreateDone \/ Join \/ Return
Thread(t) == Loop(t) \/ StoreP(t) \/ StoreQ(t)

SmpNext ==
  \/ \E n \in StripeSizes, cpus \in CpuCounts : SmpBegin(n, cpus)
  \/ Main \/ CreateError
  \/ \E t \in Workers : Thread(t)

SmpSpec == SmpInit /\ [][SmpNext]_smpVars

-----------------------------------------------------------------------------
(* Properties                                                               *)

\* Type invariant of a call of raid6_smp_gen_syndrome().
SmpTypeOK ==
  /\ bytes \in StripeSizes \cup {0} /\ number_of_threads \in CpuCounts \cup {1}
  /\ main \in {"idle", "create", "join", "returned", "exit"}
  /\ i \in 0 .. number_of_threads
  /\ tpc \in [Workers -> {"none", "loop", "p", "q", "done"}]
  /\ offset \in [Workers -> Nat]
  /\ p \subseteq Nat /\ q \subseteq Nat

\* When raid6_smp_gen_syndrome() returns, every byte of both parity blocks
\* has been stored, whatever bytes and the number of CPUs are: the shares
\* leave no gap and no thread is still at work.
ReturnCovers ==
  main = "returned" => 0 .. bytes - 1 \subseteq p \cap q

\* A thread may run into the next share by less than a word, and the last
\* one as far behind the end of the blocks, but never further.
StoresBounded == p \cup q \subseteq 0 .. bytes + NSIZE - 2

\* When the shares consist of whole words nothing is stored behind the
\* blocks.  (For 4096 bytes the number of CPUs must be a power of two.)
StoresInside ==
  bytes % (number_of_threads * NSIZE) = 0 => p \cup q \subseteq 0 .. bytes - 1

\* The call comes to an end: no thread loops for ever, no join is missed.
CallEnds == main = "create" ~> main \in {"returned", "exit"}
=============================================================================
