------------------------------ MODULE RsKernel ------------------------------
(***************************************************************************)
(* One block of threads of rs_kernel(), the kernel of the MULTI            *)
(* implementation on the card, for one check row.  The first threads load  *)
(* 32 entries of both tables each, all threads meet at __syncthreads(),    *)
(* then each adds up the words of its own place over the disks.            *)
(*                                                                         *)
(* The block runs in warps: the lanes of a warp take each step together,   *)
(* the warps are interleaved in any order.  accu[] and fetch_tmp[] have    *)
(* one entry per thread, but the pointers local_accu and local_fetch_tmp   *)
(* into them are __shared__ as well: the block has one of each, and of the *)
(* lanes that assign it at a time any one wins.  They are not volatile: a  *)
(* build may keep each thread's own value in a register, or load the       *)
(* shared one again wherever it is used.                                   *)
(*                                                                         *)
(* A sum is the set of its terms <<place, row of the disk>>; adding a term *)
(* a second time cancels it.                                               *)
(***************************************************************************)
EXTENDS Integers, FiniteSets

CONSTANTS
  Loaders,    \* number of threads that load a part of the tables (8)
  Threads,    \* number of threads of the block, at least Loaders (256)
  WarpSize,   \* number of lanes of a warp (32)
  HighDisk    \* number of data disks: disks - CHECK_SYMBOLS

ASSUME KernelAssumption ==
  /\ Loaders \in Nat /\ Threads \in Nat /\ Loaders <= Threads
  /\ WarpSize \in Nat \ {0} /\ HighDisk \in Nat

VARIABLES
  inRegisters,      \* which of the two builds it is
  wpc,              \* where each warp is
  loaded,           \* the parts of the tables that are there
  local_accu,       \* the entry of accu[] the shared pointer points to
  local_fetch_tmp,  \* the entry of fetch_tmp[] it points to
  fetch_tmp, accu,
  sums,             \* sum about to be written back, and where it came from
  row,              \* loop variable i of each warp
  stored            \* the sums written to DEVICE_PQ

kernelVars == <<inRegisters, wpc, loaded, local_accu, local_fetch_tmp, fetch_tmp,
                accu, sums, row, stored>>
pointers == <<inRegisters, local_accu, local_fetch_tmp>>
slots == <<fetch_tmp, accu, sums>>

T == 0 .. Threads - 1
Warp(t) == t \div WarpSize
Warps == {Warp(t) : t \in T}
Lanes(w) == {t \in T : Warp(t) = w}
Nothing == [t \in T |-> {}]

KernelInit ==
  /\ inRegisters \in BOOLEAN
  /\ wpc = [w \in Warps |-> "ready"]
  /\ loaded = {}
  /\ local_accu = 0 /\ local_fetch_tmp = 0
  /\ fetch_tmp = Nothing /\ accu = Nothing
  /\ sums = [t \in T |-> [to |-> 0, sum |-> {}]]
  /\ row = [w \in Warps |-> 0]
  /\ stored = Nothing

Goes(w, from, to) == wpc[w] = from /\ wpc' = [wpc EXCEPT ![w] = to]

\* Every lane of warp w assigns its own entry of f.
ByLanes(f, w, Value(_)) == [t \in T |-> IF t \in Lanes(w) THEN Value(t) ELSE f[t]]

\* if(tx == ...){ k_gflog[..] = ..; k_gfilog[..] = ..; }
LoadTables(w) ==
  /\ Goes(w, "ready", "barrier")
  /\ loaded' = loaded \cup {t \in Lanes(w) : t < Loaders}
  /\ UNCHANGED <<pointers, slots, row, stored>>

\* Mutant: there is no __syncthreads().
SyncMissing(w) ==
  /\ Goes(w, "barrier", "point_accu")
  /\ UNCHANGED <<loaded, pointers, slots, row, stored>>

\* __syncthreads()
Sync(w) ==
  /\ Goes(w, "barrier", "point_accu")
  /\ \A v \in Warps : wpc[v] # "ready"
  /\ UNCHANGED <<loaded, pointers, slots, row, stored>>

\* local_accu = &accu[tx]: one of the lanes wins
PointAccu(w) ==
  /\ Goes(w, "point_accu", "point_fetch")
  /\ \E t \in Lanes(w) : local_accu' = t
  /\ UNCHANGED <<inRegisters, local_fetch_tmp, loaded, slots, row, stored>>

\* local_fetch_tmp = &fetch_tmp[tx]: one of the lanes wins
PointFetch(w) ==
  /\ Goes(w, "point_fetch", "begin")
  /\ \E t \in Lanes(w) : local_fetch_tmp' = t
  /\ UNCHANGED <<inRegisters, local_accu, loaded, slots, row, stored>>

\* The entries that thread t reaches through the two pointers.
AccuOf(t) == IF inRegisters THEN t ELSE local_accu
FetchOf(t) == IF inRegisters THEN t ELSE local_fetch_tmp

\* accu[tx] = 0
BeginSum(w) ==
  /\ Goes(w, "begin", "fetch")
  /\ accu' = ByLanes(accu, w, LAMBDA t : {})
  /\ row' = [row EXCEPT ![w] = 0]
  /\ UNCHANGED <<loaded, pointers, fetch_tmp, sums, stored>>

\* fetch_tmp[tx] = the word of disk i; the loop includes i = high_disk
Fetch(w) ==
  /\ row[w] <= HighDisk
  /\ Goes(w, "fetch", "multiply")
  /\ fetch_tmp' = ByLanes(fetch_tmp, w, LAMBDA t : {<<t, row[w]>>})
  /\ UNCHANGED <<loaded, pointers, accu, sums, row, stored>>

\* mult_gf_shader() with tables that are not complete gives anything.
mult_gf_shader(words) == IF loaded = 0 .. Loaders - 1 THEN words ELSE {<<-1, -1>>}

XorSum(a, b) == (a \ b) \cup (b \ a)

\* local_accu[k] ^ mult_gf_shader(local_fetch_tmp[k], ...), k = 0 .. 7
Multiply(w) ==
  /\ Goes(w, "multiply", "write")
  /\ sums' = ByLanes(sums, w,
                     LAMBDA t : [to |-> AccuOf(t),
                                 sum |-> XorSum(accu[AccuOf(t)],
                                                mult_gf_shader(fetch_tmp[FetchOf(t)]))])
  /\ UNCHANGED <<loaded, pointers, fetch_tmp, accu, row, stored>>

\* ... is written back, to where it came from or through the pointer as it
\* is by now; lanes that write to the same entry write the same sum.
WriteBack(w) ==
  /\ Goes(w, "write", "fetch")
  /\ \E again \in BOOLEAN :
       LET To(t) == IF again THEN AccuOf(t) ELSE sums[t].to
           From(u) == {t \in Lanes(w) : To(t) = u}
       IN  accu' = [u \in T |-> IF From(u) = {} THEN accu[u]
                                ELSE sums[CHOOSE t \in From(u) : TRUE].sum]
  /\ row' = [row EXCEPT ![w] = @ + 1]
  /\ UNCHANGED <<loaded, pointers, fetch_tmp, sums, stored>>

\* *(unsigned long *)&DEVICE_PQ[...] = accu[tx]
Store(w) ==
  /\ row[w] > HighDisk
  /\ Goes(w, "fetch", "done")
  /\ stored' = ByLanes(stored, w, LAMBDA t : accu[t])
  /\ UNCHANGED <<loaded, pointers, slots, row>>

KernelWarp(w) ==
  \/ LoadTables(w) \/ Sync(w) \/ PointAccu(w) \/ PointFetch(w) \/ BeginSum(w)
  \/ Fetch(w) \/ Multiply(w) \/ WriteBack(w) \/ Store(w)

KernelNext == \E w \in Warps : KernelWarp(w)

KernelSpec == KernelInit /\ [][KernelNext]_kernelVars

-----------------------------------------------------------------------------
(* Properties                                                               *)

\* No sum is computed with tables that are not complete.  A build that keeps
\* the pointers in registers stores in each thread the sum over its own place
\* of all data disks, and of the row behind them, which the loop takes in,
\* however the warps are interleaved.  A build that loads the shared pointers
\* again loses all threads of a warp but one: of any two lanes of a warp one
\* stores 0.
KernelSums ==
  \A t \in T : wpc[Warp(t)] = "done" =>
    IF inRegisters
      THEN stored[t] = {t} \X (0 .. HighDisk)
      ELSE /\ stored[t] \subseteq T \X (0 .. HighDisk)
           /\ \A u \in Lanes(Warp(t)) \ {t} : stored[t] = {} \/ stored[u] = {}
=============================================================================
