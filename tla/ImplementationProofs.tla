------------------------- MODULE ImplementationProofs -------------------------
(***************************************************************************)
(* Proofs about the implementations of gen_syndrome().  On the graphics    *)
(* card: what a stripe's way to the card and back makes of it, for every   *)
(* size of the transfers, of the blocks of threads and of the stripe, and  *)
(* what one block of threads of rs_kernel() adds up, for every number of   *)
(* threads and of disks.  The arithmetic: a word of P and Q, for every     *)
(* width of the word and every data, and a Reed-Solomon code word, for     *)
(* every stripe; both against the field of module Gf256.                   *)
(***************************************************************************)
EXTENDS CudaCopy, RsKernel, SyndromeWord, MultRs, Gf256Proofs, SequenceTheorems

-----------------------------------------------------------------------------
(* rs_kernel()                                                              *)

\* Where a warp may be; a warp is past its assignment of local_accu, or in
\* the loop over the disks.
KernelLabels == {"ready", "barrier", "point_accu", "point_fetch", "begin", "fetch",
                 "multiply", "write", "done"}
Pointing == {"ready", "barrier", "point_accu"}
Past(w) == wpc[w] \notin Pointing

KernelTerms == T \X (0 .. HighDisk)

KernelType ==
  /\ inRegisters \in BOOLEAN
  /\ wpc \in [Warps -> KernelLabels]
  /\ accu \in [T -> SUBSET KernelTerms]
  /\ fetch_tmp \in [T -> SUBSET KernelTerms]
  /\ sums \in [T -> [to : T, sum : SUBSET KernelTerms]]
  /\ row \in [Warps -> Nat]
  /\ stored \in [T -> SUBSET KernelTerms]

\* What __syncthreads() is there for: no warp is past it unless all have
\* loaded their part of the tables.
BarrierInv ==
  /\ loaded = {t \in T : t < Loaders /\ wpc[Warp(t)] # "ready"}
  /\ (\E w \in Warps : wpc[w] \notin {"ready", "barrier"}) => \A w \in Warps : wpc[w] # "ready"

\* The build that keeps the pointers in registers: each thread works on its
\* own entries and has the terms of the rows so far.
Upto(t, n) == {t} \X {i \in 0 .. HighDisk : i < n}
OwnInv ==
  inRegisters => \A t \in T :
    LET w == Warp(t)
    IN  /\ wpc[w] \in {"fetch", "multiply"} => accu[t] = Upto(t, row[w])
        /\ wpc[w] \in {"multiply", "write"} => row[w] \in 0 .. HighDisk
        /\ wpc[w] = "multiply" => fetch_tmp[t] = {<<t, row[w]>>}
        /\ wpc[w] = "write" => sums[t].to = t /\ sums[t].sum = Upto(t, row[w] + 1)
        /\ wpc[w] = "done" => stored[t] = {t} \X (0 .. HighDisk)

\* The build that loads them again, with the lane won[w] whose assignment of
\* local_accu took effect in warp w: only that entry is ever written to.
Won(won, t) == Past(Warp(t)) /\ won[Warp(t)] = t
SharedInv(won) ==
  /\ \A w \in Warps : Past(w) => local_accu \in T /\ Won(won, local_accu)
  /\ \A w \in Warps : wpc[w] \in {"begin", "fetch", "multiply", "write"} => local_fetch_tmp \in T
  /\ \A t \in T : accu[t] # {} => Won(won, t)
  /\ \A t \in T : wpc[Warp(t)] = "write" => Won(won, sums[t].to)
  /\ \A t \in T : stored[t] # {} => Won(won, t)

KernelInv ==
  /\ KernelType
  /\ BarrierInv
  /\ OwnInv
  /\ ~inRegisters => \E won \in [Warps -> T] : SharedInv(won)

LEMMA WarpType ==
  /\ \A t \in T : Warp(t) \in Warps
  /\ \A w : \A t \in Lanes(w) : t \in T /\ Warp(t) = w
  /\ \A w \in Warps : \E t \in T : t \in Lanes(w)
BY DEF Warps, Lanes

\* Past the barrier the tables are complete.
LEMMA Complete ==
  ASSUME BarrierInv, NEW w \in Warps, wpc[w] \notin {"ready", "barrier"}
  PROVE  loaded = 0 .. Loaders - 1
BY KernelAssumption, WarpType DEF BarrierInv, T

\* The terms up to a row: none, one more, all.
LEMMA UptoFacts ==
  /\ \A t : Upto(t, 0) = {}
  /\ \A t : \A n \in 0 .. HighDisk : XorSum(Upto(t, n), {<<t, n>>}) = Upto(t, n + 1)
  /\ \A t : \A n \in Nat : n > HighDisk => Upto(t, n) = {t} \X (0 .. HighDisk)
<1> USE KernelAssumption DEF Upto
<1>1. ASSUME NEW t PROVE Upto(t, 0) = {}
  OBVIOUS
<1>2. ASSUME NEW t, NEW n \in 0 .. HighDisk
      PROVE  XorSum(Upto(t, n), {<<t, n>>}) = Upto(t, n + 1)
  <2>1. {i \in 0 .. HighDisk : i < n + 1} = {i \in 0 .. HighDisk : i < n} \cup {n}
    OBVIOUS
  <2>2. <<t, n>> \notin Upto(t, n)
    OBVIOUS
  <2>3. Upto(t, n + 1) = Upto(t, n) \cup {<<t, n>>}
    BY <2>1
  <2>. QED
    BY <2>2, <2>3 DEF XorSum
<1>3. ASSUME NEW t, NEW n \in Nat, n > HighDisk
      PROVE  Upto(t, n) = {t} \X (0 .. HighDisk)
  <2>1. {i \in 0 .. HighDisk : i < n} = 0 .. HighDisk
    BY <1>3
  <2>. QED
    BY <2>1
<1>. QED
  BY <1>1, <1>2, <1>3

\* A step of a warp keeps the invariant.
LEMMA KernelStep == KernelInv /\ [KernelNext]_kernelVars => KernelInv'
<1> SUFFICES ASSUME KernelInv, [KernelNext]_kernelVars PROVE KernelInv'
  OBVIOUS
<1> USE KernelAssumption, WarpType DEF KernelInv, Goes, pointers, slots
<1>0. \A t \in T : \A i \in 0 .. HighDisk : {<<t, i>>} \in SUBSET KernelTerms
  BY DEF KernelTerms
<1>1. ASSUME NEW w \in Warps, LoadTables(w) PROVE KernelInv'
  <2>1. KernelType'
    BY <1>0, <1>1 DEF LoadTables, KernelType, KernelLabels, ByLanes
  <2>2. BarrierInv'
    <3>1. \A t \in T : wpc'[Warp(t)] # "ready" <=> wpc[Warp(t)] # "ready" \/ t \in Lanes(w)
      BY <1>1 DEF LoadTables, KernelType, Lanes
    <3>2. loaded' = {t \in T : t < Loaders /\ wpc'[Warp(t)] # "ready"}
      BY <1>1, <3>1 DEF LoadTables, BarrierInv, Lanes
    <3>3. \A v \in Warps : wpc[v] \in {"ready", "barrier"}
      BY <1>1 DEF LoadTables, BarrierInv
    <3>. QED
      BY <1>1, <3>2, <3>3 DEF LoadTables, KernelType, BarrierInv
  <2>3. OwnInv'
    BY <1>1 DEF LoadTables, KernelType, OwnInv, ByLanes
  <2>4. ASSUME ~inRegisters' PROVE \E won \in [Warps -> T] : SharedInv(won)'
    <3>1. PICK won \in [Warps -> T] : SharedInv(won)
      BY <1>1, <2>4 DEF LoadTables
    <3>2. SharedInv(won)'
      BY <1>1, <3>1 DEF LoadTables, KernelType, SharedInv, Won, Past, Pointing, ByLanes
    <3>. QED
      BY <3>2
  <2>. QED
    BY <2>1, <2>2, <2>3, <2>4
<1>2. ASSUME NEW w \in Warps, Sync(w) PROVE KernelInv'
  <2>1. KernelType'
    BY <1>0, <1>2 DEF Sync, KernelType, KernelLabels, ByLanes
  <2>2. BarrierInv'
    BY <1>2 DEF Sync, KernelType, BarrierInv
  <2>3. OwnInv'
    BY <1>2 DEF Sync, KernelType, OwnInv, ByLanes
  <2>4. ASSUME ~inRegisters' PROVE \E won \in [Warps -> T] : SharedInv(won)'
    <3>1. PICK won \in [Warps -> T] : SharedInv(won)
      BY <1>2, <2>4 DEF Sync
    <3>2. SharedInv(won)'
      BY <1>2, <3>1 DEF Sync, KernelType, SharedInv, Won, Past, Pointing, ByLanes
    <3>. QED
      BY <3>2
  <2>. QED
    BY <2>1, <2>2, <2>3, <2>4
<1>3. ASSUME NEW w \in Warps, PointAccu(w) PROVE KernelInv'
  <2>1. KernelType'
    BY <1>0, <1>3 DEF PointAccu, KernelType, KernelLabels, ByLanes
  <2>2. BarrierInv'
    BY <1>3 DEF PointAccu, KernelType, BarrierInv
  <2>3. OwnInv'
    BY <1>3 DEF PointAccu, KernelType, OwnInv, ByLanes
  <2>4. ASSUME ~inRegisters' PROVE \E won \in [Warps -> T] : SharedInv(won)'
    <3>1. PICK won \in [Warps -> T] : SharedInv(won)
      BY <1>3, <2>4 DEF PointAccu
    <3>2. PICK t \in Lanes(w) : local_accu' = t
      BY <1>3 DEF PointAccu
    <3> DEFINE now == [won EXCEPT ![w] = t]
    <3>3. now \in [Warps -> T] /\ now[w] = t /\ Past(w)' /\ ~Past(w)
      BY <1>3, <3>2 DEF PointAccu, KernelType, Past, Pointing
    <3>4. \A v \in Warps : v # w => now[v] = won[v] /\ (Past(v)' <=> Past(v))
      BY <1>3 DEF PointAccu, KernelType, Past
    <3>5. \A u \in T : Won(won, u) => Won(now, u)'
      BY <3>3, <3>4 DEF Won
    <3>6. Won(now, t)'
      BY <3>2, <3>3 DEF Won
    <3>7. \A u \in T : wpc'[Warp(u)] = "write" => wpc[Warp(u)] = "write" /\ sums[u].to \in T
      BY <1>3 DEF PointAccu, KernelType
    <3> HIDE DEF now
    <3>8. SharedInv(now)'
      BY <1>3, <3>1, <3>2, <3>5, <3>6, <3>7 DEF PointAccu, KernelType, SharedInv
    <3>. QED
      BY <3>3, <3>8
  <2>. QED
    BY <2>1, <2>2, <2>3, <2>4
<1>4. ASSUME NEW w \in Warps, PointFetch(w) PROVE KernelInv'
  <2>1. KernelType'
    BY <1>0, <1>4 DEF PointFetch, KernelType, KernelLabels, ByLanes
  <2>2. BarrierInv'
    BY <1>4 DEF PointFetch, KernelType, BarrierInv
  <2>3. OwnInv'
    BY <1>4 DEF PointFetch, KernelType, OwnInv, ByLanes
  <2>4. ASSUME ~inRegisters' PROVE \E won \in [Warps -> T] : SharedInv(won)'
    <3>1. PICK won \in [Warps -> T] : SharedInv(won)
      BY <1>4, <2>4 DEF PointFetch
    <3>2. SharedInv(won)'
      BY <1>4, <3>1 DEF PointFetch, KernelType, SharedInv, Won, Past, Pointing, ByLanes
    <3>. QED
      BY <3>2
  <2>. QED
    BY <2>1, <2>2, <2>3, <2>4
<1>5. ASSUME NEW w \in Warps, BeginSum(w) PROVE KernelInv'
  <2>1. KernelType'
    BY <1>0, <1>5 DEF BeginSum, KernelType, KernelLabels, ByLanes
  <2>2. BarrierInv'
    BY <1>5 DEF BeginSum, KernelType, BarrierInv, ByLanes
  <2>3. OwnInv'
    BY <1>5, UptoFacts DEF BeginSum, KernelType, OwnInv, ByLanes, Lanes
  <2>4. ASSUME ~inRegisters' PROVE \E won \in [Warps -> T] : SharedInv(won)'
    <3>1. PICK won \in [Warps -> T] : SharedInv(won)
      BY <1>5, <2>4 DEF BeginSum, ByLanes
    <3>2. SharedInv(won)'
      BY <1>5, <3>1 DEF BeginSum, KernelType, SharedInv, Won, Past, Pointing, ByLanes
    <3>. QED
      BY <3>2
  <2>. QED
    BY <2>1, <2>2, <2>3, <2>4
<1>6. ASSUME NEW w \in Warps, Fetch(w) PROVE KernelInv'
  <2>1. KernelType'
    BY <1>0, <1>6 DEF Fetch, KernelType, KernelLabels, ByLanes
  <2>2. BarrierInv'
    BY <1>6 DEF Fetch, KernelType, BarrierInv, ByLanes
  <2>3. OwnInv'
    <3>1. \A t \in Lanes(w) : fetch_tmp'[t] = {<<t, row[w]>>}
      BY <1>6 DEF Fetch, ByLanes, Lanes
    <3>2. \A t \in T : Warp(t) # w => fetch_tmp'[t] = fetch_tmp[t] /\ wpc'[Warp(t)] = wpc[Warp(t)]
      BY <1>6 DEF Fetch, ByLanes, Lanes, KernelType
    <3>3. row[w] \in 0 .. HighDisk /\ wpc'[w] = "multiply"
      BY <1>6 DEF Fetch, KernelType, ByLanes
    <3>. QED
      BY <1>6, <3>1, <3>2, <3>3 DEF Fetch, KernelType, OwnInv, Lanes, ByLanes
  <2>4. ASSUME ~inRegisters' PROVE \E won \in [Warps -> T] : SharedInv(won)'
    <3>1. PICK won \in [Warps -> T] : SharedInv(won)
      BY <1>6, <2>4 DEF Fetch, ByLanes
    <3>2. SharedInv(won)'
      BY <1>6, <3>1 DEF Fetch, KernelType, SharedInv, Won, Past, Pointing, ByLanes
    <3>. QED
      BY <3>2
  <2>. QED
    BY <2>1, <2>2, <2>3, <2>4
<1>7. ASSUME NEW w \in Warps, Multiply(w) PROVE KernelInv'
  <2>1. KernelType'
    <3>1. wpc' \in [Warps -> KernelLabels]
      BY <1>7 DEF Multiply, KernelType, KernelLabels, ByLanes
    <3>2. loaded = 0 .. Loaders - 1
      BY <1>7, Complete DEF Multiply, ByLanes
    <3>3. \A t \in Lanes(w) : AccuOf(t) \in T /\ FetchOf(t) \in T
      BY <1>7 DEF Multiply, KernelType, AccuOf, FetchOf, SharedInv, Past, Pointing, ByLanes
    <3>4. \A t \in Lanes(w) : XorSum(accu[AccuOf(t)], mult_gf_shader(fetch_tmp[FetchOf(t)])) \in SUBSET KernelTerms
      BY <3>2, <3>3 DEF KernelType, XorSum, mult_gf_shader
    <3>5. sums' \in [T -> [to : T, sum : SUBSET KernelTerms]]
      BY <1>7, <3>3, <3>4 DEF Multiply, KernelType, ByLanes
    <3>. QED
      BY <1>7, <3>1, <3>5 DEF Multiply, KernelType, ByLanes
  <2>2. BarrierInv'
    BY <1>7 DEF Multiply, KernelType, BarrierInv, ByLanes
  <2>3. OwnInv'
    <3>0. SUFFICES ASSUME inRegisters PROVE OwnInv'
      BY <1>7 DEF Multiply, OwnInv, ByLanes
    <3>1. loaded = 0 .. Loaders - 1
      BY <1>7, Complete DEF Multiply, ByLanes
    <3>2. ASSUME NEW t \in Lanes(w)
          PROVE  sums'[t].to = t /\ sums'[t].sum = Upto(t, row[w] + 1) /\ row[w] \in 0 .. HighDisk
      <4>1. sums'[t] = [to |-> t, sum |-> XorSum(accu[t], fetch_tmp[t])]
        BY <1>7, <3>0, <3>1 DEF Multiply, ByLanes, AccuOf, FetchOf, mult_gf_shader
      <4>2. accu[t] = Upto(t, row[w]) /\ fetch_tmp[t] = {<<t, row[w]>>} /\ row[w] \in 0 .. HighDisk
        BY <1>7, <3>0 DEF Multiply, OwnInv, ByLanes
      <4>. QED
        BY <4>1, <4>2, UptoFacts
    <3>3. \A t \in T : Warp(t) # w => sums'[t] = sums[t] /\ wpc'[Warp(t)] = wpc[Warp(t)]
      BY <1>7 DEF Multiply, ByLanes, Lanes, KernelType
    <3>4. wpc'[w] = "write"
      BY <1>7 DEF Multiply, KernelType, ByLanes
    <3>. QED
      BY <1>7, <3>2, <3>3, <3>4 DEF Multiply, KernelType, OwnInv, Lanes, ByLanes
  <2>4. ASSUME ~inRegisters' PROVE \E won \in [Warps -> T] : SharedInv(won)'
    <3>1. PICK won \in [Warps -> T] : SharedInv(won)
      BY <1>7, <2>4 DEF Multiply, ByLanes
    <3>2. \A t \in T : Won(won, t)' <=> Won(won, t)
      BY <1>7 DEF Multiply, KernelType, Won, Past, Pointing, ByLanes
    <3>3. Won(won, local_accu) /\ local_accu \in T
      BY <1>7, <3>1 DEF Multiply, SharedInv, Past, Pointing, ByLanes
    <3>4. ASSUME NEW t \in T, wpc'[Warp(t)] = "write" PROVE Won(won, sums[t].to)'
      <4>1. CASE t \in Lanes(w)
        <5>1. sums'[t].to = local_accu
          BY <1>7, <2>4, <4>1 DEF Multiply, ByLanes, AccuOf
        <5>. QED
          BY <3>2, <3>3, <5>1
      <4>2. CASE t \notin Lanes(w)
        <5>1. sums'[t] = sums[t] /\ wpc[Warp(t)] = "write"
          BY <1>7, <3>4, <4>2 DEF Multiply, ByLanes, Lanes, KernelType
        <5>. QED
          BY <3>1, <3>2, <5>1 DEF SharedInv, KernelType
      <4>. QED
        BY <4>1, <4>2
    <3>5. \A v \in Warps : /\ Past(v)' <=> Past(v)
                           /\ wpc'[v] \in {"begin", "fetch", "multiply", "write"}
                                => wpc[v] \in {"begin", "fetch", "multiply", "write"}
      BY <1>7 DEF Multiply, KernelType, Past, Pointing, ByLanes
    <3>6. SharedInv(won)'
      BY <1>7, <3>1, <3>2, <3>4, <3>5 DEF Multiply, SharedInv, ByLanes
    <3>. QED
      BY <3>6
  <2>. QED
    BY <2>1, <2>2, <2>3, <2>4
<1>8. ASSUME NEW w \in Warps, WriteBack(w) PROVE KernelInv'
  <2>1. KernelType'
    BY <1>0, <1>8 DEF WriteBack, KernelType, KernelLabels, ByLanes
  <2>2. BarrierInv'
    BY <1>8 DEF WriteBack, KernelType, BarrierInv
  <2>3. OwnInv'
    <3>0. SUFFICES ASSUME inRegisters PROVE OwnInv'
      BY <1>8 DEF WriteBack, OwnInv
    <3>1. \A t \in Lanes(w) : sums[t].to = t /\ sums[t].sum = Upto(t, row[w] + 1)
      BY <1>8, <3>0 DEF WriteBack, OwnInv
    <3>2. PICK again \in BOOLEAN :
            accu' = [u \in T |->
              LET From == {t \in Lanes(w) : (IF again THEN AccuOf(t) ELSE sums[t].to) = u}
              IN  IF From = {} THEN accu[u] ELSE sums[CHOOSE t \in From : TRUE].sum]
      BY <1>8 DEF WriteBack
    <3>3. ASSUME NEW u \in T
          PROVE  {t \in Lanes(w) : (IF again THEN AccuOf(t) ELSE sums[t].to) = u} = Lanes(w) \cap {u}
      BY <3>0, <3>1 DEF AccuOf
    <3>4. ASSUME NEW u \in Lanes(w) PROVE accu'[u] = Upto(u, row[w] + 1)
      <4>1. Lanes(w) \cap {u} = {u} /\ (CHOOSE t \in {u} : TRUE) = u
        OBVIOUS
      <4>. QED
        BY <3>1, <3>2, <3>3, <4>1
    <3>5. ASSUME NEW u \in T, Warp(u) # w
          PROVE  accu'[u] = accu[u] /\ row'[Warp(u)] = row[Warp(u)] /\ wpc'[Warp(u)] = wpc[Warp(u)]
      <4>1. Lanes(w) \cap {u} = {}
        BY <3>5
      <4>. QED
        BY <1>8, <3>2, <3>3, <3>5, <4>1 DEF WriteBack, KernelType
    <3>6. wpc'[w] = "fetch" /\ row'[w] = row[w] + 1
      BY <1>8 DEF WriteBack, KernelType
    <3>. QED
      BY <1>8, <3>4, <3>5, <3>6 DEF WriteBack, KernelType, OwnInv, Lanes
  <2>4. ASSUME ~inRegisters' PROVE \E won \in [Warps -> T] : SharedInv(won)'
    <3>1. PICK won \in [Warps -> T] : SharedInv(won)
      BY <1>8, <2>4 DEF WriteBack
    <3>2. \A t \in T : Won(won, t)' <=> Won(won, t)
      BY <1>8 DEF WriteBack, KernelType, Won, Past, Pointing
    <3>3. ASSUME NEW t \in Lanes(w) PROVE Won(won, AccuOf(t)) /\ Won(won, sums[t].to)
      BY <1>8, <2>4, <3>1 DEF WriteBack, SharedInv, Past, Pointing, AccuOf
    <3>4. PICK again \in BOOLEAN :
            accu' = [u \in T |->
              LET From == {t \in Lanes(w) : (IF again THEN AccuOf(t) ELSE sums[t].to) = u}
              IN  IF From = {} THEN accu[u] ELSE sums[CHOOSE t \in From : TRUE].sum]
      BY <1>8 DEF WriteBack
    <3>5. ASSUME NEW u \in T, accu'[u] # {} PROVE Won(won, u)
      <4>1. CASE accu[u] # {}
        BY <3>1, <4>1 DEF SharedInv
      <4>2. CASE accu[u] = {}
        <5>1. PICK t \in Lanes(w) : (IF again THEN AccuOf(t) ELSE sums[t].to) = u
          BY <3>4, <3>5, <4>2
        <5>. QED
          BY <3>3, <5>1
      <4>. QED
        BY <4>1, <4>2
    <3>6. \A v \in Warps : /\ Past(v)' <=> Past(v)
                           /\ wpc'[v] = "write" => wpc[v] = "write"
                           /\ wpc'[v] \in {"begin", "fetch", "multiply", "write"}
                                => wpc[v] \in {"begin", "fetch", "multiply", "write"}
      BY <1>8 DEF WriteBack, KernelType, Past, Pointing
    <3>7. \A t \in T : sums[t].to \in T
      BY DEF KernelType
    <3>8. SharedInv(won)'
      BY <1>8, <3>1, <3>2, <3>5, <3>6, <3>7 DEF WriteBack, SharedInv
    <3>. QED
      BY <3>8
  <2>. QED
    BY <2>1, <2>2, <2>3, <2>4
<1>9. ASSUME NEW w \in Warps, Store(w) PROVE KernelInv'
  <2>1. KernelType'
    BY <1>0, <1>9 DEF Store, KernelType, KernelLabels, ByLanes
  <2>2. BarrierInv'
    BY <1>9 DEF Store, KernelType, BarrierInv, ByLanes
  <2>3. OwnInv'
    <3>1. \A t \in Lanes(w) : stored'[t] = accu[t]
      BY <1>9 DEF Store, ByLanes
    <3>2. \A t \in T : Warp(t) # w => stored'[t] = stored[t] /\ wpc'[Warp(t)] = wpc[Warp(t)]
      BY <1>9 DEF Store, ByLanes, Lanes, KernelType
    <3>3. wpc'[w] = "done" /\ wpc[w] = "fetch" /\ row[w] \in Nat /\ row[w] > HighDisk
      BY <1>9 DEF Store, KernelType, ByLanes
    <3>4. inRegisters => \A t \in Lanes(w) : stored'[t] = {t} \X (0 .. HighDisk)
      BY <3>1, <3>3, UptoFacts DEF OwnInv
    <3>. QED
      BY <1>9, <3>2, <3>3, <3>4 DEF Store, KernelType, OwnInv, Lanes, ByLanes
  <2>4. ASSUME ~inRegisters' PROVE \E won \in [Warps -> T] : SharedInv(won)'
    <3>1. PICK won \in [Warps -> T] : SharedInv(won)
      BY <1>9, <2>4 DEF Store, ByLanes
    <3>2. SharedInv(won)'
      BY <1>9, <3>1 DEF Store, KernelType, SharedInv, Won, Past, Pointing, ByLanes
    <3>. QED
      BY <3>2
  <2>. QED
    BY <2>1, <2>2, <2>3, <2>4
<1>10. CASE UNCHANGED kernelVars
  BY <1>10 DEF kernelVars, KernelType, BarrierInv, OwnInv, SharedInv, Won, Past
<1>. QED
  BY <1>1, <1>2, <1>3, <1>4, <1>5, <1>6, <1>7, <1>8, <1>9, <1>10 DEF KernelNext, KernelWarp

\* KernelInv holds in every state of a block.
THEOREM KernelInvariance == KernelSpec => []KernelInv
<1>1. KernelInit => KernelInv
  <2> SUFFICES ASSUME KernelInit PROVE KernelInv
    OBVIOUS
  <2> USE KernelAssumption, WarpType
  <2>1. KernelType
    BY DEF KernelInit, KernelType, KernelLabels, Nothing, T
  <2>2. BarrierInv
    BY DEF KernelInit, BarrierInv
  <2>3. OwnInv
    BY DEF KernelInit, OwnInv
  <2>4. \E won \in [Warps -> T] : SharedInv(won)
    <3>1. [w \in Warps |-> CHOOSE t \in T : t \in Lanes(w)] \in [Warps -> T]
      OBVIOUS
    <3>2. ASSUME NEW won \in [Warps -> T] PROVE SharedInv(won)
      BY DEF KernelInit, SharedInv, Past, Pointing, Nothing
    <3>. QED
      BY <3>1, <3>2
  <2>. QED
    BY <2>1, <2>2, <2>3, <2>4 DEF KernelInv
<1>. QED
  BY <1>1, KernelStep, PTL DEF KernelSpec

\* For any number of threads and lanes per warp, any number of data disks and
\* any interleaving of the warps: complete tables, every thread its own sum
\* in a build with the pointers in registers, and at most one thread per warp
\* with a sum in a build that loads the shared pointers again.
THEOREM KernelSumsHold == KernelSpec => []KernelSums
<1>1. KernelInv => KernelSums
  <2> SUFFICES ASSUME KernelInv, NEW t \in T, wpc[Warp(t)] = "done"
               PROVE  IF inRegisters
                        THEN stored[t] = {t} \X (0 .. HighDisk)
                        ELSE /\ stored[t] \subseteq T \X (0 .. HighDisk)
                             /\ \A u \in Lanes(Warp(t)) \ {t} : stored[t] = {} \/ stored[u] = {}
    BY DEF KernelSums
  <2>1. CASE inRegisters
    BY <2>1 DEF KernelInv, OwnInv
  <2>2. CASE ~inRegisters
    <3>1. PICK won \in [Warps -> T] : SharedInv(won)
      BY <2>2 DEF KernelInv
    <3>2. stored[t] \subseteq T \X (0 .. HighDisk)
      BY DEF KernelInv, KernelType, KernelTerms
    <3>3. ASSUME NEW u \in Lanes(Warp(t)) \ {t} PROVE stored[t] = {} \/ stored[u] = {}
      BY <3>1, WarpType DEF SharedInv, Won
    <3>. QED
      BY <2>2, <3>2, <3>3
  <2>. QED
    BY <2>1, <2>2
<1>. QED
  BY <1>1, KernelInvariance, PTL

-----------------------------------------------------------------------------
(* The copies                                                               *)

Wholes == 0 .. DMA_BLOCKSIZE - 1

TransferSet == SUBSET [buf : 1 .. 2, at : Nat, in : Nat, blocks : Nat, out : Nat]

\* The rounds of the last call.
Rounds == IF call.impl = "CUDA" THEN synccopy(call.bytes) ELSE multi_rs(call.bytes)

\* A round that takes words of the stripe to buffers of their own, computes
\* all of them and puts them back where they belong.
GoodRound(R, n) ==
  \A t \in R :
    /\ t.in = t.out /\ t.out <= DMA_BLOCKSIZE
    /\ t.out <= t.blocks * THREAD_BLOCKSIZE
    /\ t.at + t.out <= n
    /\ \A u \in R : u.buf = t.buf => u = t

GoodRounds(s, n) == \A k \in DOMAIN s : GoodRound(s[k], n)

\* The word w is copied back in one of the rounds of s.
LandsIn(s, w) == \E k \in DOMAIN s : \E t \in s[k] : w \in Lands(t)

\* The calls of which ParityPlaced and CopiesInside speak.
Promised == call.impl = "CUDA" \/ call.bytes % DMA_BLOCKSIZE = 0

CopyType ==
  /\ cpc \in {"idle", "in", "launch", "out", "exit"}
  /\ serving \in BOOLEAN
  /\ captured \in {"none", "bench", "global"}
  /\ call \in [impl : {"none", "CUDA", "MULTI"}, ptrs : {"none", "bench", "global"}, bytes : Nat]
  /\ todo \in Seq(TransferSet) /\ (cpc \in {"launch", "out"} => todo # <<>>)
  /\ card \in [1 .. 2 -> [dp : [Wholes -> Int], pq : [Wholes -> Int]]]
  /\ calls \in Seq({"bench", "global"})

\* The static variable of synccopy() is the benchmark's array exactly if the
\* benchmark has been run.
CapturedInv ==
  /\ call.impl = "none" => captured = "none" /\ calls = <<>>
  /\ ~serving => captured # "global" /\ \A k \in DOMAIN calls : calls[k] = "bench"
  /\ call.impl = "CUDA" =>
       /\ captured # "none"
       /\ captured = "bench" <=> Benchmarked
       /\ captured = call.ptrs <=> ~(call.ptrs = "global" /\ Benchmarked)

\* What is on the card between the steps of a round.
CardInv ==
  /\ cpc \in {"launch", "out"} =>
       \A t \in Head(todo) : \A w \in 0 .. t.out - 1 : card[t.buf].dp[w] = t.at + w
  /\ cpc = "out" =>
       \A t \in Head(todo) : \A w \in 0 .. t.out - 1 : card[t.buf].pq[w] = t.at + w

\* The parity words that are there are right, and those that are not are old
\* ones that either no round copies or a remaining round does.
PlacedInv ==
  /\ DOMAIN parity = 0 .. call.bytes - 1
  /\ \A w \in 0 .. call.bytes - 1 :
       /\ parity[w] \in {Old, w}
       /\ parity[w] = w => LandsIn(Rounds, w)
       /\ LandsIn(todo, w) => LandsIn(Rounds, w)
       /\ LandsIn(Rounds, w) => parity[w] = w \/ LandsIn(todo, w)

CopyInv ==
  /\ CopyType
  /\ CapturedInv
  /\ Promised =>
       /\ GoodRounds(todo, call.bytes)
       /\ CardInv
       /\ PlacedInv

\* The next multiple is at least one more multiplicand away.
LEMMA MulMono ==
  ASSUME NEW c \in Nat, NEW i \in Nat, NEW n \in Nat, i < n
  PROVE  c * i + c <= c * n
<1> DEFINE k == n - i - 1
<1>1. k \in Nat /\ n = i + 1 + k
  OBVIOUS
<1> HIDE DEF k
<1>2. c * n = c * i + c + c * k
  BY <1>1
<1>3. c * k \in Nat
  BY <1>1
<1> QED
  BY <1>1, <1>2, <1>3

\* A product of naturals is a natural.
LEMMA MulNat ==
  ASSUME NEW a \in Nat, NEW b \in Nat
  PROVE  a * b \in Nat
OBVIOUS

\* Quotient and remainder.
LEMMA DivMod ==
  ASSUME NEW n \in Nat, NEW m \in Nat \ {0}
  PROVE  /\ n \div m \in Nat /\ n % m \in 0 .. m - 1
         /\ n = m * (n \div m) + (n % m)
OBVIOUS

\* There is one quotient and one remainder.
LEMMA DivModUnique ==
  ASSUME NEW n \in Nat, NEW m \in Nat \ {0}, NEW q \in Nat, NEW r \in 0 .. m - 1,
         n = m * q + r
  PROVE  n \div m = q /\ n % m = r
<1> DEFINE x == n \div m
           y == n % m
<1>1. x \in Nat /\ y \in 0 .. m - 1 /\ n = m * x + y
  BY DivMod
<1> HIDE DEF x, y
<1>2. m * x \in Nat /\ m * q \in Nat
  BY <1>1, MulNat
<1>3. ~(x < q)
  <2> SUFFICES ASSUME x < q PROVE FALSE
    OBVIOUS
  <2>1. m * x + m <= m * q
    BY <1>1, MulMono
  <2> QED
    BY <1>1, <1>2, <2>1
<1>4. ~(q < x)
  <2> SUFFICES ASSUME q < x PROVE FALSE
    OBVIOUS
  <2>1. m * q + m <= m * x
    BY <1>1, MulMono
  <2> QED
    BY <1>1, <1>2, <2>1
<1>5. x = q
  BY <1>1, <1>3, <1>4
<1>6. y = r
  BY <1>1, <1>2, <1>5
<1> QED
  BY <1>5, <1>6 DEF x, y

\* The grid of a whole block has a thread for each of its words.
LEMMA WholeGrid == (DMA_BLOCKSIZE \div THREAD_BLOCKSIZE) * THREAD_BLOCKSIZE = DMA_BLOCKSIZE
<1> DEFINE k == DMA_BLOCKSIZE \div THREAD_BLOCKSIZE
<1>1. k \in Nat /\ DMA_BLOCKSIZE = THREAD_BLOCKSIZE * k
  BY CopyAssumption, DivMod
<1> HIDE DEF k
<1>2. THREAD_BLOCKSIZE * k = k * THREAD_BLOCKSIZE
  BY <1>1, CopyAssumption
<1> QED
  BY <1>1, <1>2 DEF k

\* The grid of a rest has at least one thread for each of its words.
LEMMA RestGrid ==
  ASSUME NEW n \in Nat
  PROVE  /\ n \div THREAD_BLOCKSIZE + 1 \in Nat
         /\ n <= (n \div THREAD_BLOCKSIZE + 1) * THREAD_BLOCKSIZE
<1> DEFINE k == n \div THREAD_BLOCKSIZE
<1>1. k \in Nat /\ n < THREAD_BLOCKSIZE * k + THREAD_BLOCKSIZE
  <2>1. k \in Nat /\ n % THREAD_BLOCKSIZE \in 0 .. THREAD_BLOCKSIZE - 1
        /\ n = THREAD_BLOCKSIZE * k + (n % THREAD_BLOCKSIZE)
    BY CopyAssumption, DivMod
  <2> HIDE DEF k
  <2>2. THREAD_BLOCKSIZE * k \in Nat
    BY <2>1, CopyAssumption, MulNat
  <2> QED
    BY <2>1, <2>2, CopyAssumption
<1> HIDE DEF k
<1>2. (k + 1) * THREAD_BLOCKSIZE = THREAD_BLOCKSIZE * k + THREAD_BLOCKSIZE
  BY <1>1, CopyAssumption
<1>3. THREAD_BLOCKSIZE * k + THREAD_BLOCKSIZE \in Nat
  BY <1>1, CopyAssumption
<1> QED
  BY <1>1, <1>2, <1>3 DEF k

-----------------------------------------------------------------------------
(* Sequences of rounds                                                      *)

\* A single round.
LEMMA SingleRound ==
  ASSUME NEW R \in TransferSet, NEW n \in Nat, GoodRound(R, n)
  PROVE  /\ <<R>> \in Seq(TransferSet) /\ GoodRounds(<<R>>, n)
         /\ \A w : LandsIn(<<R>>, w) <=> \E t \in R : w \in Lands(t)
BY DEF GoodRounds, LandsIn

\* No round.
LEMMA NoRound ==
  ASSUME NEW n
  PROVE  /\ <<>> \in Seq(TransferSet) /\ GoodRounds(<<>>, n)
         /\ \A w : ~LandsIn(<<>>, w)
BY DEF GoodRounds, LandsIn

\* Rounds after rounds.
LEMMA MoreRounds ==
  ASSUME NEW r \in Seq(TransferSet), NEW s \in Seq(TransferSet), NEW n
  PROVE  /\ r \o s \in Seq(TransferSet)
         /\ GoodRounds(r, n) /\ GoodRounds(s, n) => GoodRounds(r \o s, n)
         /\ \A w : LandsIn(r \o s, w) <=> LandsIn(r, w) \/ LandsIn(s, w)
<1>1. /\ r \o s \in Seq(TransferSet) /\ Len(r) \in Nat /\ Len(s) \in Nat
      /\ DOMAIN (r \o s) = 1 .. Len(r) + Len(s)
      /\ DOMAIN r = 1 .. Len(r) /\ DOMAIN s = 1 .. Len(s)
  OBVIOUS
<1>2. \A k \in DOMAIN (r \o s) :
        \/ k \in DOMAIN r /\ (r \o s)[k] = r[k]
        \/ k - Len(r) \in DOMAIN s /\ (r \o s)[k] = s[k - Len(r)]
  BY <1>1
<1>3. \A k \in DOMAIN r : k \in DOMAIN (r \o s) /\ (r \o s)[k] = r[k]
  BY <1>1
<1>4. \A k \in DOMAIN s : Len(r) + k \in DOMAIN (r \o s) /\ (r \o s)[Len(r) + k] = s[k]
  BY <1>1
<1>5. GoodRounds(r, n) /\ GoodRounds(s, n) => GoodRounds(r \o s, n)
  BY <1>2 DEF GoodRounds
<1>6. \A w : LandsIn(r \o s, w) <=> LandsIn(r, w) \/ LandsIn(s, w)
  BY <1>2, <1>3, <1>4 DEF LandsIn
<1> QED
  BY <1>1, <1>5, <1>6

\* The first of some rounds, and the others.
LEMMA FirstRound ==
  ASSUME NEW s \in Seq(TransferSet), s # <<>>, NEW n
  PROVE  /\ Head(s) \in TransferSet /\ Tail(s) \in Seq(TransferSet)
         /\ GoodRounds(s, n) => GoodRound(Head(s), n) /\ GoodRounds(Tail(s), n)
         /\ \A w : LandsIn(s, w) <=> (\E t \in Head(s) : w \in Lands(t)) \/ LandsIn(Tail(s), w)
<1>1. /\ Len(s) \in Nat \ {0} /\ DOMAIN s = 1 .. Len(s)
      /\ Tail(s) \in Seq(TransferSet) /\ DOMAIN Tail(s) = 1 .. Len(s) - 1
      /\ Head(s) = s[1] /\ Head(s) \in TransferSet
  OBVIOUS
<1>2. \A k \in DOMAIN Tail(s) : k + 1 \in DOMAIN s /\ Tail(s)[k] = s[k + 1]
  BY <1>1
<1>3. \A k \in DOMAIN s : k = 1 \/ (k - 1 \in DOMAIN Tail(s) /\ Tail(s)[k - 1] = s[k])
  BY <1>1
<1>4. 1 \in DOMAIN s
  BY <1>1
<1>5. GoodRounds(s, n) => GoodRound(Head(s), n) /\ GoodRounds(Tail(s), n)
  BY <1>1, <1>2, <1>4 DEF GoodRounds
<1>6. \A w : LandsIn(s, w) <=> (\E t \in Head(s) : w \in Lands(t)) \/ LandsIn(Tail(s), w)
  BY <1>1, <1>2, <1>3, <1>4 DEF LandsIn
<1> QED
  BY <1>1, <1>5, <1>6

-----------------------------------------------------------------------------
(* The rounds of the two implementations                                    *)

Pair == 2 * DMA_BLOCKSIZE
Pairs(runs) ==
  [k \in 1 .. runs |-> {Whole(1, (k - 1) * Pair), Whole(2, (k - 1) * Pair + DMA_BLOCKSIZE)}]
Blocks(runs) == [k \in 1 .. runs |-> {Whole(1, (k - 1) * DMA_BLOCKSIZE)}]

\* The stripes of which ParityPlaced says that synccopy() treats them right.
Placeable(n) == n < Pair \/ n % DMA_BLOCKSIZE = 0 \/ n % Pair > DMA_BLOCKSIZE

\* A transfer of a whole block.
LEMMA WholeTransfer ==
  ASSUME NEW b \in 1 .. 2, NEW at \in Nat
  PROVE  /\ Whole(b, at) \in [buf : 1 .. 2, at : Nat, in : Nat, blocks : Nat, out : Nat]
         /\ Whole(b, at).buf = b /\ Whole(b, at).at = at
         /\ Whole(b, at).in = DMA_BLOCKSIZE /\ Whole(b, at).out = DMA_BLOCKSIZE
         /\ DMA_BLOCKSIZE <= Whole(b, at).blocks * THREAD_BLOCKSIZE
         /\ Lands(Whole(b, at)) = at .. at + DMA_BLOCKSIZE - 1
<1>1. DMA_BLOCKSIZE \div THREAD_BLOCKSIZE \in Nat
  BY CopyAssumption, DivMod
<1>2. DMA_BLOCKSIZE <= (DMA_BLOCKSIZE \div THREAD_BLOCKSIZE) * THREAD_BLOCKSIZE
  BY CopyAssumption, WholeGrid
<1> QED
  BY <1>1, <1>2, CopyAssumption DEF Whole, Transfer, Lands

\* A round of one whole block.
LEMMA BlockRound ==
  ASSUME NEW at \in Nat, NEW n \in Nat, at + DMA_BLOCKSIZE <= n
  PROVE  /\ {Whole(1, at)} \in TransferSet /\ GoodRound({Whole(1, at)}, n)
         /\ \A w : (\E t \in {Whole(1, at)} : w \in Lands(t)) <=> w \in at .. at + DMA_BLOCKSIZE - 1
<1> DEFINE x == Whole(1, at)
<1>1. /\ x \in [buf : 1 .. 2, at : Nat, in : Nat, blocks : Nat, out : Nat]
      /\ x.at = at /\ x.in = DMA_BLOCKSIZE /\ x.out = DMA_BLOCKSIZE
      /\ DMA_BLOCKSIZE <= x.blocks * THREAD_BLOCKSIZE
      /\ Lands(x) = at .. at + DMA_BLOCKSIZE - 1
  BY WholeTransfer
<1> HIDE DEF x
<1>2. {x} \in TransferSet
  BY <1>1 DEF TransferSet
<1>3. GoodRound({x}, n)
  BY <1>1, CopyAssumption DEF GoodRound
<1> QED
  BY <1>1, <1>2, <1>3 DEF x

\* A round of two neighbouring blocks.
LEMMA PairRound ==
  ASSUME NEW at \in Nat, NEW n \in Nat, at + Pair <= n
  PROVE  LET R == {Whole(1, at), Whole(2, at + DMA_BLOCKSIZE)}
         IN  /\ R \in TransferSet /\ GoodRound(R, n)
             /\ \A w : (\E t \in R : w \in Lands(t)) <=> w \in at .. at + Pair - 1
<1> DEFINE x == Whole(1, at)
           y == Whole(2, at + DMA_BLOCKSIZE)
<1>0. at + DMA_BLOCKSIZE \in Nat
  BY CopyAssumption
<1>1. /\ x \in [buf : 1 .. 2, at : Nat, in : Nat, blocks : Nat, out : Nat] /\ x.buf = 1
      /\ x.at = at /\ x.in = DMA_BLOCKSIZE /\ x.out = DMA_BLOCKSIZE
      /\ DMA_BLOCKSIZE <= x.blocks * THREAD_BLOCKSIZE
      /\ Lands(x) = at .. at + DMA_BLOCKSIZE - 1
  BY WholeTransfer
<1>2. /\ y \in [buf : 1 .. 2, at : Nat, in : Nat, blocks : Nat, out : Nat] /\ y.buf = 2
      /\ y.at = at + DMA_BLOCKSIZE /\ y.in = DMA_BLOCKSIZE /\ y.out = DMA_BLOCKSIZE
      /\ DMA_BLOCKSIZE <= y.blocks * THREAD_BLOCKSIZE
      /\ Lands(y) = at + DMA_BLOCKSIZE .. at + DMA_BLOCKSIZE + DMA_BLOCKSIZE - 1
  BY <1>0, WholeTransfer, SMTT(20)
<1> HIDE DEF x, y
<1>3. {x, y} \in TransferSet
  BY <1>1, <1>2 DEF TransferSet
<1>4. GoodRound({x, y}, n)
  BY <1>1, <1>2, CopyAssumption DEF GoodRound, Pair
<1>5. \A w : (\E t \in {x, y} : w \in Lands(t)) <=> w \in at .. at + Pair - 1
  BY <1>1, <1>2, CopyAssumption DEF Pair
<1> QED
  BY <1>3, <1>4, <1>5 DEF x, y

\* The place of a round of a regular sequence, and the round of a place.
LEMMA Regular ==
  ASSUME NEW m \in Nat \ {0}, NEW runs \in Nat
  PROVE  /\ \A k \in 1 .. runs : (k - 1) * m \in Nat /\ (k - 1) * m + m <= m * runs
         /\ \A w \in Nat : w < m * runs =>
              \E k \in 1 .. runs : w \in (k - 1) * m .. (k - 1) * m + m - 1
<1>1. ASSUME NEW k \in 1 .. runs
      PROVE  (k - 1) * m \in Nat /\ (k - 1) * m + m <= m * runs
  <2>1. k - 1 \in Nat /\ k - 1 < runs
    OBVIOUS
  <2>2. m * (k - 1) + m <= m * runs
    BY <2>1, MulMono
  <2>3. (k - 1) * m = m * (k - 1) /\ m * (k - 1) \in Nat
    BY <2>1
  <2> QED
    BY <2>2, <2>3
<1>2. ASSUME NEW w \in Nat, w < m * runs
      PROVE  \E k \in 1 .. runs : w \in (k - 1) * m .. (k - 1) * m + m - 1
  <2> DEFINE j == w \div m
             r == w % m
  <2>1. j \in Nat /\ r \in 0 .. m - 1 /\ w = m * j + r
    BY DivMod
  <2> HIDE DEF j, r
  <2>2. m * j \in Nat /\ m * runs \in Nat
    BY <2>1, MulNat
  <2>3. j < runs
    <3> SUFFICES ASSUME ~(j < runs) PROVE FALSE
      OBVIOUS
    <3>1. CASE j = runs
      BY <1>2, <2>1, <2>2, <3>1
    <3>2. CASE runs < j
      <4>1. m * runs + m <= m * j
        BY <2>1, <3>2, MulMono
      <4> QED
        BY <1>2, <2>1, <2>2, <4>1
    <3> QED
      BY <2>1, <3>1, <3>2
  <2> DEFINE k == j + 1
  <2>4. k \in 1 .. runs /\ (k - 1) * m = m * j
    BY <2>1, <2>3
  <2> HIDE DEF k
  <2>5. w \in (k - 1) * m .. (k - 1) * m + m - 1
    BY <2>1, <2>2, <2>4
  <2> QED
    BY <2>4, <2>5
<1> QED
  BY <1>1, <1>2

\* The rounds of the pairs.
LEMMA PairsRounds ==
  ASSUME NEW runs \in Nat, NEW n \in Nat, Pair * runs <= n
  PROVE  /\ Pairs(runs) \in Seq(TransferSet) /\ GoodRounds(Pairs(runs), n)
         /\ \A w \in Nat : LandsIn(Pairs(runs), w) <=> w < Pair * runs
<1>1. Pair \in Nat \ {0} /\ Pair * runs \in Nat
  BY CopyAssumption, MulNat DEF Pair
<1>2. \A k \in 1 .. runs : (k - 1) * Pair \in Nat /\ (k - 1) * Pair + Pair <= Pair * runs
  BY <1>1, Regular
<1>3. \A w \in Nat : w < Pair * runs =>
        \E k \in 1 .. runs : w \in (k - 1) * Pair .. (k - 1) * Pair + Pair - 1
  BY <1>1, Regular
<1>4. ASSUME NEW k \in 1 .. runs
      PROVE  /\ Pairs(runs)[k] \in TransferSet /\ GoodRound(Pairs(runs)[k], n)
             /\ \A w : (\E t \in Pairs(runs)[k] : w \in Lands(t)) <=>
                         w \in (k - 1) * Pair .. (k - 1) * Pair + Pair - 1
  <2> DEFINE at == (k - 1) * Pair
  <2>1. at \in Nat /\ at + Pair <= n
    BY <1>1, <1>2
  <2>2. Pairs(runs)[k] = {Whole(1, at), Whole(2, at + DMA_BLOCKSIZE)}
    BY DEF Pairs
  <2> HIDE DEF at
  <2>3. /\ Pairs(runs)[k] \in TransferSet /\ GoodRound(Pairs(runs)[k], n)
        /\ \A w : (\E t \in Pairs(runs)[k] : w \in Lands(t)) <=> w \in at .. at + Pair - 1
    BY <2>1, <2>2, PairRound
  <2> QED
    BY <2>3 DEF at
<1>5. DOMAIN Pairs(runs) = 1 .. runs /\ Pairs(runs) \in Seq(TransferSet)
  <2>1. Pairs(runs) \in [1 .. runs -> TransferSet]
    BY <1>4 DEF Pairs
  <2> QED
    BY <2>1, SeqDef
<1>6. GoodRounds(Pairs(runs), n)
  BY <1>4, <1>5 DEF GoodRounds
<1>7. \A w \in Nat : LandsIn(Pairs(runs), w) <=> w < Pair * runs
  <2> TAKE w \in Nat
  <2>1. LandsIn(Pairs(runs), w) <=>
          \E k \in 1 .. runs : w \in (k - 1) * Pair .. (k - 1) * Pair + Pair - 1
    BY <1>4, <1>5 DEF LandsIn
  <2>2. ASSUME NEW k \in 1 .. runs, w \in (k - 1) * Pair .. (k - 1) * Pair + Pair - 1
        PROVE  w < Pair * runs
    BY <1>1, <1>2, <2>2
  <2> QED
    BY <1>3, <2>1, <2>2
<1> QED
  BY <1>5, <1>6, <1>7

\* The rounds of single blocks.
LEMMA BlocksRounds ==
  ASSUME NEW runs \in Nat, NEW n \in Nat, DMA_BLOCKSIZE * runs <= n
  PROVE  /\ Blocks(runs) \in Seq(TransferSet) /\ GoodRounds(Blocks(runs), n)
         /\ \A w \in Nat : w < DMA_BLOCKSIZE * runs => LandsIn(Blocks(runs), w)
<1> DEFINE D == DMA_BLOCKSIZE
<1>1. D \in Nat \ {0} /\ D * runs \in Nat
  BY CopyAssumption, MulNat
<1>2. \A k \in 1 .. runs : (k - 1) * D \in Nat /\ (k - 1) * D + D <= D * runs
  BY <1>1, Regular
<1>3. \A w \in Nat : w < D * runs => \E k \in 1 .. runs : w \in (k - 1) * D .. (k - 1) * D + D - 1
  BY <1>1, Regular
<1>4. ASSUME NEW k \in 1 .. runs
      PROVE  /\ Blocks(runs)[k] \in TransferSet /\ GoodRound(Blocks(runs)[k], n)
             /\ \A w : (\E t \in Blocks(runs)[k] : w \in Lands(t)) <=>
                         w \in (k - 1) * D .. (k - 1) * D + D - 1
  <2> DEFINE at == (k - 1) * D
  <2>1. at \in Nat /\ at + D <= n
    BY <1>1, <1>2
  <2>2. Blocks(runs)[k] = {Whole(1, at)}
    BY DEF Blocks
  <2> HIDE DEF at
  <2>3. /\ Blocks(runs)[k] \in TransferSet /\ GoodRound(Blocks(runs)[k], n)
        /\ \A w : (\E t \in Blocks(runs)[k] : w \in Lands(t)) <=> w \in at .. at + D - 1
    BY <2>1, <2>2, BlockRound
  <2> QED
    BY <2>3 DEF at
<1>5. DOMAIN Blocks(runs) = 1 .. runs /\ Blocks(runs) \in Seq(TransferSet)
  <2>1. Blocks(runs) \in [1 .. runs -> TransferSet]
    BY <1>4 DEF Blocks
  <2> QED
    BY <2>1, SeqDef
<1>6. GoodRounds(Blocks(runs), n)
  BY <1>4, <1>5 DEF GoodRounds
<1>7. \A w \in Nat : w < D * runs => LandsIn(Blocks(runs), w)
  BY <1>3, <1>4, <1>5 DEF LandsIn
<1> QED
  BY <1>5, <1>6, <1>7

\* The round of the rest, if there is one.
LEMMA RestRounds ==
  ASSUME NEW at \in Nat, NEW r \in 0 .. DMA_BLOCKSIZE - 1, NEW n \in Nat, at + r <= n
  PROVE  /\ Rest(at, r) \in Seq(TransferSet) /\ GoodRounds(Rest(at, r), n)
         /\ \A w : LandsIn(Rest(at, r), w) <=> w \in at .. at + r - 1
<1>1. CASE r = 0
  BY <1>1, NoRound DEF Rest
<1>2. CASE r # 0
  <2> DEFINE x == Transfer(1, at, r, r \div THREAD_BLOCKSIZE + 1, r)
  <2>1. Rest(at, r) = <<{x}>>
    BY <1>2 DEF Rest
  <2>2. /\ x \in [buf : 1 .. 2, at : Nat, in : Nat, blocks : Nat, out : Nat]
        /\ x.at = at /\ x.in = r /\ x.out = r /\ r <= x.blocks * THREAD_BLOCKSIZE
    BY RestGrid, CopyAssumption DEF Transfer
  <2> HIDE DEF x
  <2>3. {x} \in TransferSet /\ GoodRound({x}, n) /\ Lands(x) = at .. at + r - 1
    BY <2>2, CopyAssumption DEF TransferSet, GoodRound, Lands
  <2> QED
    BY <2>1, <2>3, SingleRound
<1> QED
  BY <1>1, <1>2

\* synccopy() copies only good rounds, and every word of the stripe exactly if
\* the stripe is one of the Placeable ones.
LEMMA SynccopyRounds ==
  ASSUME NEW n \in Nat
  PROVE  /\ synccopy(n) \in Seq(TransferSet) /\ GoodRounds(synccopy(n), n)
         /\ Placeable(n) <=> \A w \in 0 .. n - 1 : LandsIn(synccopy(n), w)
<1> DEFINE D == DMA_BLOCKSIZE
           runs == n \div Pair
           carry == n % Pair
           odd == carry >= D
           single == IF odd THEN <<{Whole(1, runs * Pair)}>> ELSE <<>>
           rest == Rest(RestIndex(runs, odd) * D, carry % D)
<1>1. D \in Nat \ {0} /\ Pair = 2 * D /\ Pair \in Nat \ {0}
  BY CopyAssumption DEF Pair
<1>2. runs \in Nat /\ carry \in 0 .. Pair - 1 /\ n = Pair * runs + carry
  BY <1>1, DivMod
<1>3. Pair * runs \in Nat /\ runs * Pair = Pair * runs
  <2> HIDE DEF runs
  <2> QED
    BY <1>1, <1>2, MulNat
<1>4. n - runs * Pair = carry
  BY <1>2, <1>3
<1>5. synccopy(n) = Pairs(runs) \o single \o rest
  BY <1>4 DEF synccopy, Pairs, Pair
<1> HIDE DEF runs, carry
<1>6. /\ Pairs(runs) \in Seq(TransferSet) /\ GoodRounds(Pairs(runs), n)
      /\ \A w \in Nat : LandsIn(Pairs(runs), w) <=> w < Pair * runs
  BY <1>2, <1>3, PairsRounds
<1>7. ASSUME single \in Seq(TransferSet), rest \in Seq(TransferSet),
             GoodRounds(single, n), GoodRounds(rest, n)
      PROVE  /\ synccopy(n) \in Seq(TransferSet) /\ GoodRounds(synccopy(n), n)
             /\ \A w \in Nat : LandsIn(synccopy(n), w) <=>
                  w < Pair * runs \/ LandsIn(single, w) \/ LandsIn(rest, w)
  <2> HIDE DEF single, rest
  <2> DEFINE first == Pairs(runs) \o single
  <2>1. /\ first \in Seq(TransferSet) /\ GoodRounds(first, n)
        /\ \A w : LandsIn(first, w) <=> LandsIn(Pairs(runs), w) \/ LandsIn(single, w)
    BY <1>6, <1>7, MoreRounds
  <2> HIDE DEF first
  <2>2. /\ first \o rest \in Seq(TransferSet) /\ GoodRounds(first \o rest, n)
        /\ \A w : LandsIn(first \o rest, w) <=> LandsIn(first, w) \/ LandsIn(rest, w)
    BY <1>7, <2>1, MoreRounds
  <2>3. synccopy(n) = first \o rest
    BY <1>5 DEF first
  <2> QED
    BY <1>6, <2>1, <2>2, <2>3
<1>8. CASE odd
  <2> DEFINE r == carry - D
             x == Pair * runs
             at == (2 * runs + 1) * D
  <2>1. r \in 0 .. D - 1 /\ carry = D * 1 + r /\ carry \in Nat
    BY <1>1, <1>2, <1>8
  <2>2. carry % D = r
    BY <1>1, <2>1, DivModUnique
  <2>3. at = x + D
    BY <1>1, <1>2
  <2>4. n % D = r
    <3> DEFINE q == 2 * runs + 1
    <3>1. q \in Nat /\ D * q = x + D
      BY <1>1, <1>2
    <3>2. n = (x + D) + r
      BY <1>1, <1>2, <1>3, <2>1
    <3> HIDE DEF q, x, r
    <3>3. n = D * q + r
      BY <3>1, <3>2
    <3> QED
      BY <1>1, <2>1, <3>1, <3>3, DivModUnique
  <2>5. single = <<{Whole(1, x)}>> /\ rest = Rest(at, r)
    BY <1>3, <1>8, <2>2 DEF RestIndex
  <2>6. x \in Nat /\ at \in Nat /\ n = x + D + r /\ n % Pair = D + r
    BY <1>1, <1>2, <1>3, <2>1, <2>3 DEF carry
  <2> HIDE DEF x, at, r, single, rest
  <2>7. /\ single \in Seq(TransferSet) /\ GoodRounds(single, n)
        /\ \A w : LandsIn(single, w) <=> w \in x .. x + D - 1
    <3>1. x + D <= n
      BY <1>1, <2>1, <2>6
    <3> QED
      BY <2>5, <2>6, <3>1, BlockRound, SingleRound
  <2>8. /\ rest \in Seq(TransferSet) /\ GoodRounds(rest, n)
        /\ \A w : LandsIn(rest, w) <=> w \in at .. at + r - 1
    <3>1. at + r <= n
      BY <1>1, <2>1, <2>3, <2>6
    <3> QED
      BY <2>1, <2>5, <2>6, <3>1, RestRounds
  <2>9. \A w \in 0 .. n - 1 : w \in Nat /\ (w < x \/ w \in x .. x + D - 1 \/ w \in at .. at + r - 1)
    BY <1>1, <2>1, <2>3, <2>6
  <2>10. \A w \in 0 .. n - 1 : LandsIn(synccopy(n), w)
    BY <1>7, <2>7, <2>8, <2>9 DEF x
  <2>11. Placeable(n)
    BY <1>1, <2>1, <2>4, <2>6 DEF Placeable
  <2> QED
    BY <1>7, <2>7, <2>8, <2>10, <2>11
<1>9. CASE ~odd
  <2> DEFINE x == Pair * runs
             at == runs * D
  <2>1. carry \in 0 .. D - 1 /\ carry = D * 0 + carry /\ carry \in Nat
    BY <1>1, <1>2, <1>9
  <2>2. carry % D = carry
    BY <1>1, <2>1, DivModUnique
  <2>3. at \in Nat /\ x = at + at
    BY <1>1, <1>2
  <2>4. n % D = carry
    <3> DEFINE q == 2 * runs
    <3>1. q \in Nat /\ D * q = x
      BY <1>1, <1>2
    <3> HIDE DEF q, x
    <3>2. n = D * q + carry
      BY <1>2, <3>1 DEF x
    <3> QED
      BY <1>1, <2>1, <3>1, <3>2, DivModUnique
  <2>5. single = <<>> /\ rest = Rest(at, carry)
    BY <1>9, <2>2 DEF RestIndex
  <2>6. x \in Nat /\ n = x + carry /\ n % Pair = carry
    BY <1>2, <1>3 DEF carry
  <2>7. CASE runs = 0
    <3>1. at = 0 /\ x = 0
      BY <1>1, <2>7
    <3> HIDE DEF x, at, single, rest
    <3>2. /\ single \in Seq(TransferSet) /\ GoodRounds(single, n) /\ \A w : ~LandsIn(single, w)
      BY <2>5, NoRound
    <3>3. /\ rest \in Seq(TransferSet) /\ GoodRounds(rest, n)
          /\ \A w : LandsIn(rest, w) <=> w \in 0 .. 0 + carry - 1
      BY <2>1, <2>5, <2>6, <3>1, RestRounds
    <3>4. \A w \in 0 .. n - 1 : w \in Nat /\ w \in 0 .. 0 + carry - 1
      BY <2>1, <2>6, <3>1
    <3>5. Placeable(n)
      BY <1>1, <2>1, <2>6, <3>1 DEF Placeable
    <3> QED
      BY <1>7, <3>2, <3>3, <3>4, <3>5
  <2>8. CASE runs # 0
    <3>1. D <= at
      <4>1. runs \in Nat /\ 0 < runs
        BY <1>2, <2>8
      <4>2. D * 0 + D <= D * runs
        BY <1>1, <4>1, MulMono
      <4>3. D * runs = at
        BY <1>1, <4>1
      <4> HIDE DEF at
      <4> QED
        BY <1>1, <4>2, <4>3
    <3> HIDE DEF x, at, single, rest
    <3>2. /\ single \in Seq(TransferSet) /\ GoodRounds(single, n) /\ \A w : ~LandsIn(single, w)
      BY <2>5, NoRound
    <3>3. /\ rest \in Seq(TransferSet) /\ GoodRounds(rest, n)
          /\ \A w : LandsIn(rest, w) <=> w \in at .. at + carry - 1
      <4>1. at + carry <= n
        BY <2>1, <2>3, <2>6
      <4> QED
        BY <2>1, <2>3, <2>5, <4>1, RestRounds
    <3>4. \A w \in Nat : LandsIn(synccopy(n), w) <=> w < x \/ w \in at .. at + carry - 1
      BY <1>7, <3>2, <3>3 DEF x
    <3>5. CASE carry = 0
      BY <1>7, <2>3, <2>4, <2>6, <3>2, <3>3, <3>4, <3>5 DEF Placeable
    <3>6. CASE carry # 0
      <4>1. ~Placeable(n)
        BY <1>1, <2>1, <2>3, <2>4, <2>6, <3>1, <3>6 DEF Placeable
      <4>2. n - 1 \in 0 .. n - 1 /\ n - 1 \in Nat
        BY <2>1, <2>6, <3>6
      <4>3. ~(n - 1 < x) /\ n - 1 \notin at .. at + carry - 1
        BY <1>1, <2>1, <2>3, <2>6, <3>1, <3>6
      <4> QED
        BY <1>7, <3>2, <3>3, <3>4, <4>1, <4>2, <4>3
    <3> QED
      BY <3>5, <3>6
  <2> QED
    BY <2>7, <2>8
<1> QED
  BY <1>8, <1>9

\* The MULTI version copies good rounds, and every word, for a stripe of whole
\* blocks.
LEMMA MultiRounds ==
  ASSUME NEW n \in Nat
  PROVE  /\ multi_rs(n) \in Seq(TransferSet)
         /\ n % DMA_BLOCKSIZE = 0 =>
              /\ GoodRounds(multi_rs(n), n)
              /\ \A w \in 0 .. n - 1 : LandsIn(multi_rs(n), w)
<1> DEFINE D == DMA_BLOCKSIZE
           runs == n \div D
           carry == n % D
           x == Transfer(1, runs * carry, D, carry \div THREAD_BLOCKSIZE, D)
           rest == IF carry > 0 THEN <<{x}>> ELSE <<>>
<1>1. D \in Nat \ {0}
  BY CopyAssumption
<1>2. runs \in Nat /\ carry \in 0 .. D - 1 /\ n = D * runs + carry
  BY <1>1, DivMod
<1>3. D * runs \in Nat /\ runs * D = D * runs
  <2> HIDE DEF runs
  <2> QED
    BY <1>1, <1>2, MulNat
<1>4. n - runs * D = carry
  BY <1>2, <1>3
<1>5. multi_rs(n) = Blocks(runs) \o rest
  BY <1>4 DEF multi_rs, Blocks
<1> HIDE DEF runs, carry
<1>6. /\ Blocks(runs) \in Seq(TransferSet) /\ GoodRounds(Blocks(runs), n)
      /\ \A w \in Nat : w < D * runs => LandsIn(Blocks(runs), w)
  BY <1>1, <1>2, <1>3, BlocksRounds
<1>7. rest \in Seq(TransferSet)
  <2>1. runs * carry \in Nat /\ carry \div THREAD_BLOCKSIZE \in Nat
    BY <1>1, <1>2, CopyAssumption, MulNat, DivMod
  <2>2. {x} \in TransferSet
    BY <1>1, <2>1 DEF Transfer, TransferSet
  <2> HIDE DEF x
  <2> QED
    BY <2>2
<1>8. multi_rs(n) \in Seq(TransferSet)
  <2> HIDE DEF rest
  <2> QED
    BY <1>5, <1>6, <1>7, MoreRounds
<1>9. ASSUME carry = 0
      PROVE  GoodRounds(multi_rs(n), n) /\ \A w \in 0 .. n - 1 : LandsIn(multi_rs(n), w)
  <2>1. multi_rs(n) = Blocks(runs)
    BY <1>5, <1>6, <1>9
  <2> QED
    BY <1>2, <1>3, <1>6, <1>9, <2>1
<1> QED
  BY <1>8, <1>9 DEF carry

-----------------------------------------------------------------------------
(* Invariance                                                               *)

\* A transfer of a good round is the only one of its buffer.
LEMMA OnlyTransfer ==
  ASSUME CopyType, todo # <<>>, NEW n \in Nat, GoodRound(Head(todo), n), NEW t \in Head(todo)
  PROVE  Transfers(t.buf) = {t}
BY DEF GoodRound, Transfers

\* The beginning of a call.
LEMMA CallStep ==
  ASSUME CopyInv, NEW impl \in {"CUDA", "MULTI"}, NEW bytes \in Sizes, Call(impl, bytes)
  PROVE  CopyInv'
<1> DEFINE ptrs == IF serving THEN "global" ELSE "bench"
<1>1. /\ call.impl \in {"none", impl}
      /\ call' = [impl |-> impl, ptrs |-> ptrs, bytes |-> bytes]
      /\ captured' = IF impl = "CUDA" /\ captured = "none" THEN ptrs ELSE captured
      /\ todo' = IF impl = "CUDA" THEN synccopy(bytes) ELSE multi_rs(bytes)
      /\ cpc' = "in"
      /\ parity' = [w \in 0 .. bytes - 1 |-> Old]
      /\ calls' = Append(calls, ptrs)
      /\ serving' = serving /\ card' = card
  BY DEF Call
<1>2. bytes \in Nat /\ ptrs \in {"bench", "global"}
  BY CopyAssumption
<1>3. call'.impl = impl /\ call'.ptrs = ptrs /\ call'.bytes = bytes
  BY <1>1
<1>4. todo' = Rounds'
  BY <1>1, <1>3 DEF Rounds
<1>5. todo' \in Seq(TransferSet)
  BY <1>1, <1>2, SynccopyRounds, MultiRounds
<1>6. CopyType'
  BY <1>1, <1>2, <1>5 DEF CopyInv, CopyType
<1>7. CapturedInv'
  <2>1. /\ calls \in Seq({"bench", "global"}) /\ Len(calls) \in Nat
        /\ DOMAIN calls = 1 .. Len(calls) /\ DOMAIN calls' = 1 .. Len(calls) + 1
        /\ calls'[Len(calls) + 1] = ptrs
        /\ \A k \in DOMAIN calls : calls'[k] = calls[k]
    BY <1>1, <1>2 DEF CopyInv, CopyType
  <2>2. Benchmarked' <=> Benchmarked \/ ptrs = "bench"
    BY <2>1 DEF Benchmarked
  <2>3. ~serving' => captured' # "global" /\ \A k \in DOMAIN calls' : calls'[k] = "bench"
    <3> SUFFICES ASSUME ~serving PROVE captured' # "global" /\ \A k \in DOMAIN calls' : calls'[k] = "bench"
      BY <1>1
    <3>1. captured # "global" /\ (\A k \in DOMAIN calls : calls[k] = "bench") /\ ptrs = "bench"
      BY DEF CopyInv, CapturedInv
    <3> QED
      BY <1>1, <2>1, <3>1
  <2>4. CASE impl = "CUDA"
    <3>1. CASE captured = "none"
      <4>1. call.impl = "none" /\ calls = <<>>
        BY <1>1, <2>4, <3>1 DEF CopyInv, CapturedInv
      <4>2. ~Benchmarked /\ captured' = ptrs
        BY <1>1, <2>4, <3>1, <4>1 DEF Benchmarked
      <4> QED
        BY <1>2, <1>3, <2>2, <2>3, <2>4, <4>2 DEF CapturedInv
    <3>2. CASE captured # "none"
      <4>1. call.impl = "CUDA" /\ captured' = captured /\ (captured = "bench" <=> Benchmarked)
        BY <1>1, <2>4, <3>2 DEF CopyInv, CapturedInv
      <4>2. captured \in {"bench", "global"} /\ (ptrs = "bench" => captured = "bench")
        BY <3>2 DEF CopyInv, CopyType, CapturedInv
      <4> QED
        BY <1>2, <1>3, <2>2, <2>3, <2>4, <3>2, <4>1, <4>2 DEF CapturedInv
    <3> QED
      BY <3>1, <3>2
  <2>5. CASE impl = "MULTI"
    BY <1>3, <2>3, <2>5 DEF CapturedInv
  <2> QED
    BY <2>4, <2>5
<1>8. ASSUME Promised'
      PROVE  GoodRounds(todo', call'.bytes) /\ CardInv' /\ PlacedInv'
  <2>1. GoodRounds(todo', call'.bytes)
    BY <1>1, <1>2, <1>3, <1>8, SynccopyRounds, MultiRounds DEF Promised
  <2>2. CardInv'
    BY <1>1 DEF CardInv
  <2>3. PlacedInv'
    BY <1>1, <1>2, <1>3, <1>4 DEF PlacedInv, Old
  <2> QED
    BY <2>1, <2>2, <2>3
<1> QED
  BY <1>6, <1>7, <1>8 DEF CopyInv

\* The copies to the card.
LEMMA CopyInStep ==
  ASSUME CopyInv, CopyIn
  PROVE  CopyInv'
<1> DEFINE dp(b) == [w \in Wholes |-> IF \E t \in Transfers(b) : w < t.in
                                      THEN (CHOOSE t \in Transfers(b) : TRUE).at + w
                                      ELSE card[b].dp[w]]
<1>0. CopyType /\ todo # <<>>
  BY DEF CopyInv, CopyIn
<1>1. card' = [b \in 1 .. 2 |-> [card[b] EXCEPT !.dp = dp(b)]]
  BY <1>0 DEF CopyIn, CopyType
<1>2. \A b \in 1 .. 2 : dp(b) \in [Wholes -> Int]
  <2> TAKE b \in 1 .. 2
  <2>1. \A t \in Transfers(b) : t.at \in Nat
    BY <1>0, FirstRound DEF CopyType, Transfers, TransferSet
  <2>2. (\E t \in Transfers(b) : TRUE) => (CHOOSE t \in Transfers(b) : TRUE) \in Transfers(b)
    OBVIOUS
  <2>3. \A w \in Wholes : w \in Int /\ card[b].dp[w] \in Int
    <3>1. Wholes \subseteq Int
      BY CopyAssumption DEF Wholes
    <3> QED
      BY <1>0, <3>1 DEF CopyType
  <2> QED
    BY <2>1, <2>2, <2>3
<1> HIDE DEF dp
<1>3. /\ card' \in [1 .. 2 -> [dp : [Wholes -> Int], pq : [Wholes -> Int]]]
      /\ \A b \in 1 .. 2 : card'[b].dp = dp(b)
  BY <1>0, <1>1, <1>2 DEF CopyType
<1>4. CopyType'
  BY <1>0, <1>3 DEF CopyIn, CopyType
<1>5. CapturedInv' /\ Rounds' = Rounds /\ (Promised' <=> Promised)
  BY DEF CopyIn, CopyInv, CapturedInv, Benchmarked, Rounds, Promised
<1>6. ASSUME Promised
      PROVE  GoodRounds(todo', call'.bytes) /\ CardInv' /\ PlacedInv'
  <2>1. GoodRounds(todo, call.bytes) /\ PlacedInv /\ call.bytes \in Nat
    BY <1>6 DEF CopyInv, CopyType
  <2>2. GoodRound(Head(todo), call.bytes) /\ Head(todo) \in TransferSet
    BY <1>0, <2>1, FirstRound DEF CopyType
  <2>3. ASSUME NEW t \in Head(todo), NEW w \in 0 .. t.out - 1
        PROVE  card'[t.buf].dp[w] = t.at + w
    <3>1. Transfers(t.buf) = {t}
      BY <1>0, <2>1, <2>2, OnlyTransfer
    <3>2. t.buf \in 1 .. 2 /\ w \in Wholes /\ w < t.in
      BY <2>2, CopyAssumption DEF TransferSet, GoodRound, Wholes
    <3>3. (CHOOSE u \in Transfers(t.buf) : TRUE) = t
      BY <3>1
    <3> QED
      BY <1>3, <3>1, <3>2, <3>3 DEF dp
  <2>4. CardInv'
    BY <1>0, <2>3 DEF CopyIn, CardInv
  <2>5. PlacedInv'
    BY <1>5, <2>1 DEF CopyIn, PlacedInv
  <2> QED
    BY <2>1, <2>4, <2>5 DEF CopyIn
<1> QED
  BY <1>4, <1>5, <1>6 DEF CopyInv

\* The launch of the kernel.
LEMMA LaunchStep ==
  ASSUME CopyInv, Launch
  PROVE  CopyInv'
<1> DEFINE pq(b) == [w \in Wholes |-> IF \E t \in Transfers(b) : w < t.blocks * THREAD_BLOCKSIZE
                                      THEN card[b].dp[w] ELSE card[b].pq[w]]
<1>0. CopyType
  BY DEF CopyInv
<1>1. card' = [b \in 1 .. 2 |-> [card[b] EXCEPT !.pq = pq(b)]]
  BY <1>0 DEF Launch, CopyType
<1>2. \A b \in 1 .. 2 : pq(b) \in [Wholes -> Int]
  BY <1>0 DEF CopyType
<1> HIDE DEF pq
<1>3. /\ card' \in [1 .. 2 -> [dp : [Wholes -> Int], pq : [Wholes -> Int]]]
      /\ \A b \in 1 .. 2 : card'[b].dp = card[b].dp /\ card'[b].pq = pq(b)
  BY <1>0, <1>1, <1>2 DEF CopyType
<1>4. CopyType'
  BY <1>0, <1>3 DEF Launch, CopyType
<1>5. CapturedInv' /\ Rounds' = Rounds /\ (Promised' <=> Promised)
  BY DEF Launch, CopyInv, CapturedInv, Benchmarked, Rounds, Promised
<1>6. ASSUME Promised
      PROVE  GoodRounds(todo', call'.bytes) /\ CardInv' /\ PlacedInv'
  <2>1. GoodRounds(todo, call.bytes) /\ PlacedInv /\ CardInv /\ call.bytes \in Nat /\ todo # <<>>
    BY <1>6 DEF CopyInv, CopyType, Launch
  <2>2. GoodRound(Head(todo), call.bytes) /\ Head(todo) \in TransferSet
    BY <1>0, <2>1, FirstRound DEF CopyType
  <2>3. ASSUME NEW t \in Head(todo), NEW w \in 0 .. t.out - 1
        PROVE  card'[t.buf].dp[w] = t.at + w /\ card'[t.buf].pq[w] = t.at + w
    <3>1. t.buf \in 1 .. 2 /\ w \in Wholes
      BY <2>2, CopyAssumption DEF TransferSet, GoodRound, Wholes
    <3>2. t \in Transfers(t.buf) /\ w < t.blocks * THREAD_BLOCKSIZE
      <4>1. /\ t.blocks \in Nat /\ t.out \in Nat /\ t.out <= t.blocks * THREAD_BLOCKSIZE
            /\ t.blocks * THREAD_BLOCKSIZE \in Nat
        BY <2>2, CopyAssumption, MulNat DEF TransferSet, GoodRound
      <4> QED
        BY <4>1 DEF Transfers
    <3>3. card[t.buf].dp[w] = t.at + w
      BY <2>1 DEF CardInv, Launch
    <3> QED
      BY <1>3, <3>1, <3>2, <3>3 DEF pq
  <2>4. CardInv'
    BY <2>1, <2>3 DEF Launch, CardInv
  <2>5. PlacedInv'
    BY <1>5, <2>1 DEF Launch, PlacedInv
  <2> QED
    BY <2>1, <2>4, <2>5 DEF Launch
<1> QED
  BY <1>4, <1>5, <1>6 DEF CopyInv

\* The copies of the parity back.
LEMMA CopyOutStep ==
  ASSUME CopyInv, CopyOut
  PROVE  CopyInv'
<1>0. CopyType
  BY DEF CopyInv
<1>1. CapturedInv' /\ Rounds' = Rounds /\ (Promised' <=> Promised)
  BY DEF CopyOut, CopyInv, CapturedInv, Benchmarked, Rounds, Promised
<1>2. CopyType'
  <2>1. Tail(todo) \in Seq(TransferSet)
    BY <1>0, FirstRound DEF CopyOut, CopyType
  <2> QED
    BY <1>0, <2>1 DEF CopyOut, CopyType
<1>3. ASSUME Promised
      PROVE  GoodRounds(todo', call'.bytes) /\ CardInv' /\ PlacedInv'
  <2> DEFINE n == call.bytes
             R == Head(todo)
  <2>1. GoodRounds(todo, n) /\ PlacedInv /\ CardInv /\ n \in Nat /\ todo # <<>>
    BY <1>3 DEF CopyInv, CopyType, CopyOut
  <2>2. /\ GoodRound(R, n) /\ R \in TransferSet /\ GoodRounds(Tail(todo), n)
        /\ \A w : LandsIn(todo, w) <=> (\E t \in R : w \in Lands(t)) \/ LandsIn(Tail(todo), w)
    BY <1>0, <2>1, FirstRound DEF CopyType
  <2>3. ASSUME NEW t \in R, NEW w \in Lands(t)
        PROVE  w \in 0 .. n - 1 /\ card[t.buf].pq[w - t.at] = w
    <3>1. t.at \in Nat /\ t.out \in Nat /\ t.at + t.out <= n
      BY <2>2 DEF TransferSet, GoodRound
    <3>2. w \in Int /\ w >= t.at /\ w <= t.at + t.out - 1
      BY <3>1 DEF Lands
    <3>3. w - t.at \in 0 .. t.out - 1 /\ t.at + (w - t.at) = w /\ w \in 0 .. n - 1
      BY <2>1, <3>1, <3>2
    <3> QED
      BY <2>1, <3>3 DEF CardInv, CopyOut
  <2>4. /\ DOMAIN parity' = 0 .. n - 1
        /\ \A w \in 0 .. n - 1 :
             parity'[w] = IF \E t \in R : w \in Lands(t) THEN w ELSE parity[w]
    <3> DEFINE ws == DOMAIN parity \cup UNION {Lands(t) : t \in R}
               value(w) == IF \E t \in R : w \in Lands(t)
                           THEN LET t == CHOOSE t \in R : w \in Lands(t)
                                IN  card[t.buf].pq[w - t.at]
                           ELSE parity[w]
    <3>1. parity' = [w \in ws |-> value(w)]
      BY DEF CopyOut
    <3>2. ws = 0 .. n - 1
      BY <2>1, <2>3 DEF PlacedInv
    <3>3. ASSUME NEW w, \E t \in R : w \in Lands(t)
          PROVE  value(w) = w
      <4> DEFINE t == CHOOSE t \in R : w \in Lands(t)
      <4>1. t \in R /\ w \in Lands(t)
        BY <3>3
      <4>2. value(w) = card[t.buf].pq[w - t.at]
        BY <3>3
      <4> HIDE DEF t, value
      <4> QED
        BY <2>3, <4>1, <4>2
    <3>4. ASSUME NEW w, ~\E t \in R : w \in Lands(t)
          PROVE  value(w) = parity[w]
      BY <3>4
    <3> HIDE DEF ws, value
    <3> QED
      BY <3>1, <3>2, <3>3, <3>4
  <2>5. todo' = Tail(todo) /\ call' = call /\ cpc' = "in"
    BY DEF CopyOut
  <2>6. PlacedInv'
    <3> SUFFICES ASSUME NEW w \in 0 .. n - 1
                 PROVE  /\ parity'[w] \in {Old, w}
                        /\ parity'[w] = w => LandsIn(Rounds, w)
                        /\ LandsIn(Tail(todo), w) => LandsIn(Rounds, w)
                        /\ LandsIn(Rounds, w) => parity'[w] = w \/ LandsIn(Tail(todo), w)
      BY <1>1, <2>4, <2>5 DEF PlacedInv
    <3>1. /\ parity[w] \in {Old, w}
          /\ parity[w] = w => LandsIn(Rounds, w)
          /\ LandsIn(Rounds, w) => parity[w] = w \/ LandsIn(todo, w)
          /\ LandsIn(todo, w) => LandsIn(Rounds, w)
      BY <2>1 DEF PlacedInv
    <3> QED
      BY <2>2, <2>4, <3>1
  <2>7. CardInv'
    BY <2>5 DEF CardInv
  <2> QED
    BY <2>2, <2>5, <2>6, <2>7
<1> QED
  BY <1>1, <1>2, <1>3 DEF CopyInv

\* The invariant holds in every behaviour.
THEOREM CopyInvariance == CopySpec => []CopyInv
<1>1. CopyInit => CopyInv
  <2> SUFFICES ASSUME CopyInit PROVE CopyInv
    OBVIOUS
  <2>1. CopyType
    <3>1. Blank \in [Wholes -> Int]
      BY DEF Blank, Wholes, Old
    <3>2. card \in [1 .. 2 -> [dp : [Wholes -> Int], pq : [Wholes -> Int]]]
      BY <3>1 DEF CopyInit
    <3>3. <<>> \in Seq(TransferSet) /\ <<>> \in Seq({"bench", "global"})
      OBVIOUS
    <3> QED
      BY <3>2, <3>3 DEF CopyInit, CopyType
  <2>2. CapturedInv
    BY DEF CopyInit, CapturedInv
  <2>3. GoodRounds(todo, call.bytes) /\ CardInv /\ PlacedInv
    BY DEF CopyInit, GoodRounds, CardInv, PlacedInv
  <2> QED
    BY <2>1, <2>2, <2>3 DEF CopyInv
<1>2. CopyInv /\ [CopyNext]_copyVars => CopyInv'
  <2> SUFFICES ASSUME CopyInv, [CopyNext]_copyVars PROVE CopyInv'
    OBVIOUS
  <2>1. ASSUME NEW c \in {"idle", "exit"}, cpc' = c, serving => serving', serving' \in BOOLEAN,
               UNCHANGED <<captured, call, todo, card, parity, calls>>
        PROVE  CopyInv'
    <3>1. CopyType' /\ CapturedInv'
      BY <2>1 DEF CopyInv, CopyType, CapturedInv, Benchmarked
    <3>2. CardInv'
      BY <2>1 DEF CardInv
    <3>3. Promised' => Promised
      BY <2>1 DEF Promised
    <3>4. Promised => GoodRounds(todo', call'.bytes) /\ PlacedInv'
      BY <2>1 DEF CopyInv, PlacedInv, Rounds
    <3> QED
      BY <3>1, <3>2, <3>3, <3>4 DEF CopyInv
  <2>2. serving \in BOOLEAN
    BY DEF CopyInv, CopyType
  <2>3. CASE Serve
    BY <2>1, <2>3 DEF Serve
  <2>4. CASE CardMemFails
    BY <2>1, <2>2, <2>4 DEF CardMemFails
  <2>5. CASE CopyReturn
    BY <2>1, <2>2, <2>5 DEF CopyReturn
  <2>6. CASE UNCHANGED copyVars
    BY <2>6 DEF copyVars, CopyInv, CopyType, CapturedInv, Benchmarked, Promised, CardInv,
       PlacedInv, Rounds
  <2> QED
    BY <2>3, <2>4, <2>5, <2>6, CallStep, CopyInStep, LaunchStep, CopyOutStep DEF CopyNext
<1> QED
  BY <1>1, <1>2, PTL DEF CopySpec

\* CopiesInside, for every size of transfer and stripe: nothing is copied
\* behind the parity blocks by synccopy(), nor by the MULTI version for a
\* stripe of whole blocks.
THEOREM CopiesStayInside == CopySpec => []CopiesInside
<1>1. CopyInv => CopiesInside
  BY DEF CopyInv, Promised, PlacedInv, CopiesInside
<1> QED
  BY <1>1, CopyInvariance, PTL

\* ParityPlaced, for every size of transfer and stripe: exactly which stripes
\* synccopy() treats right, and that the MULTI version treats those of whole
\* blocks right.
THEOREM ParityIsPlaced == CopySpec => []ParityPlaced
<1>1. CopyInv => ParityPlaced
  <2> SUFFICES ASSUME CopyInv PROVE ParityPlaced
    OBVIOUS
  <2> DEFINE n == call.bytes
  <2>1. n \in Nat
    BY DEF CopyInv, CopyType
  <2>2. ASSUME Promised, cpc = "in", todo = <<>>
        PROVE  ParityRight <=> \A w \in 0 .. n - 1 : LandsIn(Rounds, w)
    <3>1. \A w : ~LandsIn(todo, w)
      BY <2>2 DEF LandsIn
    <3>2. \A w \in 0 .. n - 1 : parity[w] = w <=> LandsIn(Rounds, w)
      BY <2>2, <3>1 DEF CopyInv, PlacedInv
    <3> QED
      BY <3>2 DEF ParityRight
  <2>3. ASSUME Returning("CUDA")
        PROVE  /\ ParityRight <=> Placeable(n)
               /\ captured = call.ptrs <=> ~(call.ptrs = "global" /\ Benchmarked)
    <3>1. Promised /\ Rounds = synccopy(n) /\ cpc = "in" /\ todo = <<>> /\ call.impl = "CUDA"
      BY <2>3 DEF Returning, Promised, Rounds
    <3>2. ParityRight <=> Placeable(n)
      BY <2>1, <2>2, <3>1, SynccopyRounds
    <3> QED
      BY <3>1, <3>2 DEF CopyInv, CapturedInv
  <2>4. ASSUME Returning("MULTI"), n % DMA_BLOCKSIZE = 0
        PROVE  ParityRight
    <3>1. Promised /\ Rounds = multi_rs(n) /\ cpc = "in" /\ todo = <<>>
      BY <2>4 DEF Returning, Promised, Rounds
    <3> QED
      BY <2>1, <2>2, <2>4, <3>1, MultiRounds
  <2> QED
    BY <2>3, <2>4 DEF ParityPlaced, Placeable, Pair
<1> QED
  BY <1>1, CopyInvariance, PTL

-----------------------------------------------------------------------------
(* The words of the code, byte by byte                                      *)

\* The bits of a word
LEMMA BitsDef ==
  /\ 8 * WordBytes \in Nat
  /\ \A n : n \in Bits <=> n \in Int /\ 0 <= n /\ n < 8 * WordBytes
BY WordAssumption DEF Bits

\* Bit i of byte k is a bit of the word, and every bit is one of these.
LEMMA BitOfByte ==
  ASSUME NEW k \in Positions, NEW i \in Degrees
  PROVE  /\ 8 * (k - 1) + i \in Bits
         /\ (8 * (k - 1) + i) % 8 = i
<1>1. k \in Int /\ 1 <= k /\ k <= WordBytes /\ WordBytes \in Int
  BY WordAssumption DEF Positions
<1>2. i \in Int /\ 0 <= i /\ i <= 7
  BY DEF Degrees
<1>3. (8 * (k - 1) + i) % 8 = i
  BY <1>1, <1>2
<1> QED
  BY <1>1, <1>2, <1>3, BitsDef

\* A byte of a word is a polynomial.
LEMMA ByteType ==
  ASSUME NEW k, NEW v
  PROVE  Byte(k, v) \in Polynomials
BY DEF Byte, Polynomials

\* The exclusive or of two words, byte by byte
LEMMA BytePlus ==
  ASSUME NEW k, NEW u, NEW v
  PROVE  Byte(k, Plus(u, v)) = Plus(Byte(k, u), Byte(k, v))
BY DEF Byte, Plus

\* NBYTES(): every byte of the constant is that byte.
LEMMA ByteNBYTES ==
  ASSUME NEW k \in Positions, NEW v, NEW x
  PROVE  Byte(k, v \cap NBYTES(x)) = Byte(k, v) \cap Polynomial(x)
<1>1. ASSUME NEW i \in Degrees
      PROVE  8 * (k - 1) + i \in NBYTES(x) <=> i \in Polynomial(x)
  BY BitOfByte DEF NBYTES
<1>2. Polynomial(x) \subseteq Degrees
  BY DEF Polynomial
<1> QED
  BY <1>1, <1>2 DEF Byte

\* The constants of the code
LEMMA CodeBytes ==
  /\ Polynomial(254) = Degrees \ {0}
  /\ Polynomial(128) = {7}
  /\ Polynomial(29) = {4, 3, 2, 0}
<1>1. \A x \in {254, 128, 29} : x \in 0 .. 255
  OBVIOUS
<1>2. Polynomial(254) = Degrees \ {0}
  <2> DEFINE p == Polynomial(254)
  <2>1. /\ 0 \notin p /\ 1 \in p /\ 2 \in p /\ 3 \in p /\ 4 \in p /\ 5 \in p /\ 6 \in p /\ 7 \in p
        /\ p \in Polynomials
    BY <1>1, PolynomialBits
  <2> HIDE DEF p
  <2>2. \A n \in Degrees : n \in p <=> n \in Degrees \ {0}
    BY <2>1, DegreesList
  <2>3. p \subseteq Degrees /\ Degrees \ {0} \subseteq Degrees
    BY <2>1, DegreesList DEF Polynomials
  <2>4. p = Degrees \ {0}
    BY <2>2, <2>3
  <2> QED
    BY <2>4 DEF p
<1>3. Polynomial(128) = {7}
  <2> DEFINE p == Polynomial(128)
  <2>1. /\ 0 \notin p /\ 1 \notin p /\ 2 \notin p /\ 3 \notin p /\ 4 \notin p /\ 5 \notin p
        /\ 6 \notin p /\ 7 \in p /\ p \in Polynomials
    BY <1>1, PolynomialBits
  <2> HIDE DEF p
  <2>2. \A n \in Degrees : n \in p <=> n \in {7}
    BY <2>1, DegreesList
  <2>3. p \subseteq Degrees /\ {7} \subseteq Degrees
    BY <2>1, DegreesList DEF Polynomials
  <2>4. p = {7}
    BY <2>2, <2>3
  <2> QED
    BY <2>4 DEF p
<1>4. Polynomial(29) = {4, 3, 2, 0}
  <2> DEFINE p == Polynomial(29)
  <2>1. /\ 0 \in p /\ 1 \notin p /\ 2 \in p /\ 3 \in p /\ 4 \in p /\ 5 \notin p
        /\ 6 \notin p /\ 7 \notin p /\ p \in Polynomials
    BY <1>1, PolynomialBits
  <2> HIDE DEF p
  <2>2. \A n \in Degrees : n \in p <=> n \in {4, 3, 2, 0}
    BY <2>1, DegreesList
  <2>3. p \subseteq Degrees /\ {4, 3, 2, 0} \subseteq Degrees
    BY <2>1, DegreesList DEF Polynomials
  <2>4. p = {4, 3, 2, 0}
    BY <2>2, <2>3
  <2> QED
    BY <2>4 DEF p
<1> QED
  BY <1>2, <1>3, <1>4

\* SHLBYTE() shifts every byte by itself.
LEMMA ByteSHLBYTE ==
  ASSUME NEW k \in Positions, NEW v \in Words, NEW i \in Degrees
  PROVE  i \in Byte(k, SHLBYTE(v)) <=> i - 1 \in Byte(k, v)
<1> DEFINE s == ShiftLeft(v, 1)
<1>1. Byte(k, SHLBYTE(v)) = Byte(k, s) \cap (Degrees \ {0})
  <2>2. Byte(k, s \cap NBYTES(254)) = Byte(k, s) \cap Polynomial(254)
    BY ByteNBYTES
  <2> QED
    BY <2>2, CodeBytes DEF SHLBYTE
<1>2. i \in Byte(k, s) <=> (8 * (k - 1) + i) - 1 \in v
  BY BitOfByte DEF Byte, ShiftLeft
<1>3. CASE i = 0
  <2>1. i - 1 \notin Degrees
    BY <1>3 DEF Degrees
  <2> QED
    BY <1>1, <1>3, <2>1 DEF Byte
<1>4. CASE i # 0
  <2>1. i - 1 \in Degrees /\ (8 * (k - 1) + i) - 1 = 8 * (k - 1) + (i - 1)
    BY <1>4 DEF Degrees, Positions
  <2>2. i - 1 \in Byte(k, v) <=> (8 * (k - 1) + i) - 1 \in v
    BY <2>1 DEF Byte
  <2> HIDE DEF s
  <2> QED
    BY <1>1, <1>2, <1>4, <2>2
<1> QED
  BY <1>3, <1>4

\* How a borrow passes from bit to bit
LEMMA LendsStep ==
  ASSUME NEW a \in Words, NEW b \in Words, NEW n \in Nat
  PROVE  /\ ~Lends(a, b, 0)
         /\ Lends(a, b, n + 1) <=> (n \in b \ a) \/ (Lends(a, b, n) /\ n \notin a \ b)
<1>1. \A m \in a \cup b : m \in Int /\ 0 <= m
  BY BitsDef DEF Words
<1>2. ~Lends(a, b, 0)
  BY <1>1 DEF Lends
<1>3. ASSUME Lends(a, b, n + 1), n \notin b \ a
      PROVE  Lends(a, b, n) /\ n \notin a \ b
  <2>1. PICK m \in b \ a : m < n + 1 /\ \A i \in a \ b : ~(m < i /\ i < n + 1)
    BY <1>3 DEF Lends
  <2>2. m # n /\ m < n
    BY <1>1, <1>3, <2>1
  <2>3. n \notin a \ b
    BY <2>1, <2>2
  <2>4. \A i \in a \ b : ~(m < i /\ i < n)
    BY <1>1, <2>1
  <2> QED
    BY <2>2, <2>3, <2>4 DEF Lends
<1>4. ASSUME n \in b \ a
      PROVE  Lends(a, b, n + 1)
  <2>1. n < n + 1 /\ \A i \in a \ b : ~(n < i /\ i < n + 1)
    BY <1>1
  <2> QED
    BY <1>4, <2>1 DEF Lends
<1>5. ASSUME Lends(a, b, n), n \notin a \ b
      PROVE  Lends(a, b, n + 1)
  <2>1. PICK m \in b \ a : m < n /\ \A i \in a \ b : ~(m < i /\ i < n)
    BY <1>5 DEF Lends
  <2>2. m < n + 1
    BY <1>1, <2>1
  <2>3. \A i \in a \ b : ~(m < i /\ i < n + 1)
    <3> TAKE i \in a \ b
    <3>1. i # n /\ i \in Int
      BY <1>1, <1>5
    <3> QED
      BY <2>1, <3>1
  <2> QED
    BY <2>2, <2>3 DEF Lends
<1> QED
  BY <1>2, <1>3, <1>4, <1>5

\* MASK() is 0xFF in a byte whose high bit is 1 and 0 in the others: every
\* borrow ends where the next higher byte has lent it.
LEMMA ByteMASK ==
  ASSUME NEW k \in Positions, NEW v \in Words
  PROVE  Byte(k, MASK(v)) = IF 7 \in Byte(k, v) THEN Degrees ELSE {}
<1> DEFINE vv == v \cap NBYTES(128)
           a == ShiftLeft(vv, 1)
           b == ShiftRight(vv, 7)
           High(j) == 8 * j + 7 \in v
<1>1. \A n \in Int : n \in vv <=> n \in v /\ n % 8 = 7
  BY BitsDef, CodeBytes DEF NBYTES, Words
<1>2. \A n \in Bits : n \in a <=> n % 8 = 0 /\ n - 1 \in v
  <2> TAKE n \in Bits
  <2>1. n \in Int /\ (n - 1) \in Int /\ ((n - 1) % 8 = 7 <=> n % 8 = 0)
    BY BitsDef
  <2>2. n \in a <=> n - 1 \in vv
    BY DEF ShiftLeft
  <2> HIDE DEF vv, a
  <2> QED
    BY <1>1, <2>1, <2>2
<1>3. \A n \in Bits : n \in b <=> n % 8 = 0 /\ n + 7 \in v
  <2> TAKE n \in Bits
  <2>1. n \in Int /\ (n + 7) \in Int /\ ((n + 7) % 8 = 7 <=> n % 8 = 0)
    BY BitsDef
  <2>2. n \in b <=> n + 7 \in vv
    BY DEF ShiftRight
  <2> HIDE DEF vv, b
  <2> QED
    BY <1>1, <2>1, <2>2
<1>4. a \in Words /\ b \in Words
  BY DEF ShiftLeft, ShiftRight, Words
<1>5. MASK(v) = Minus(a, b)
  BY DEF MASK
<1> HIDE DEF vv, a, b
<1> DEFINE N == {n \in Nat : n < 8 * WordBytes =>
                   (Lends(a, b, n + 1) <=> High(n \div 8))}
<1>6. 0 \in N
  <2>1. 0 \in Bits /\ 0 + 1 \in Nat
    BY WordAssumption DEF Bits
  <2>2. 0 - 1 \notin v
    BY BitsDef DEF Words
  <2>3. 0 \notin a /\ (0 \in b <=> High(0 \div 8))
    BY <1>2, <1>3, <2>1, <2>2
  <2>4. Lends(a, b, 0 + 1) <=> 0 \in b
    BY <1>4, <2>3, LendsStep
  <2> QED
    BY <2>3, <2>4
<1>7. ASSUME NEW n \in N PROVE n + 1 \in N
  <2>0. n \in Nat /\ n + 1 \in Nat
    OBVIOUS
  <2> SUFFICES ASSUME n + 1 < 8 * WordBytes
               PROVE  Lends(a, b, (n + 1) + 1) <=> High((n + 1) \div 8)
    BY <2>0
  <2>1. Lends(a, b, n + 1) <=> High(n \div 8)
    BY <2>0, BitsDef
  <2>2. n + 1 \in Bits
    BY <2>0, BitsDef
  <2>3. Lends(a, b, (n + 1) + 1) <=> (n + 1 \in b \ a) \/ (Lends(a, b, n + 1) /\ n + 1 \notin a \ b)
    BY <1>4, <2>0, LendsStep
  <2>4. CASE (n + 1) % 8 = 0
    <3>1. 8 * (n \div 8) + 7 = n /\ 8 * ((n + 1) \div 8) + 7 = (n + 1) + 7 /\ (n + 1) - 1 = n
      BY <2>0, <2>4
    <3>2. (n + 1 \in a <=> High(n \div 8)) /\ (n + 1 \in b <=> High((n + 1) \div 8))
      BY <1>2, <1>3, <2>2, <2>4, <3>1
    <3> HIDE DEF High
    <3> QED
      BY <2>1, <2>3, <3>2
  <2>5. CASE (n + 1) % 8 # 0
    <3>1. n \div 8 = (n + 1) \div 8
      BY <2>0, <2>5
    <3>2. n + 1 \notin a /\ n + 1 \notin b
      BY <1>2, <1>3, <2>2, <2>5
    <3> HIDE DEF High
    <3> QED
      BY <2>1, <2>3, <3>1, <3>2
  <2> QED
    BY <2>4, <2>5
<1>8. N = Nat
  <2>1. N \in SUBSET Nat
    OBVIOUS
  <2> HIDE DEF N
  <2> QED
    BY <1>6, <1>7, <2>1, SetInduction
<1>9. ASSUME NEW i \in Degrees
      PROVE  i \in Byte(k, MASK(v)) <=> 7 \in Byte(k, v)
  <2> DEFINE n == 8 * (k - 1) + i
  <2>1. n \in Bits /\ n % 8 = i /\ i \in Int /\ 0 <= i /\ i <= 7
    <3>1. i \in Int /\ 0 <= i /\ i <= 7
      BY DEF Degrees
    <3> QED
      BY <3>1, BitOfByte
  <2>2. k \in Int /\ 1 <= k
    BY DEF Positions
  <2>3. n \in Nat /\ n < 8 * WordBytes
    BY <2>1, BitsDef
  <2>4. 7 \in Byte(k, v) <=> High(k - 1)
    BY DEF Byte, Degrees
  <2>5. i \in Byte(k, MASK(v)) <=> n \in Minus(a, b)
    BY <1>5 DEF Byte
  <2>6. n \in Minus(a, b) <=> ~(~(n \in a <=> n \in b) <=> Lends(a, b, n))
    <3> HIDE DEF n
    <3>1. n \in Plus(a, b) <=> ~(n \in a <=> n \in b)
      BY DEF Plus
    <3>2. n \in {j \in Bits : Lends(a, b, j)} <=> Lends(a, b, n)
      BY <2>1
    <3>3. \A A, B : n \in Plus(A, B) <=> ~(n \in A <=> n \in B)
      BY DEF Plus
    <3>4. Minus(a, b) = Plus(Plus(a, b), {j \in Bits : Lends(a, b, j)})
      BY DEF Minus
    <3> QED
      BY <3>1, <3>2, <3>3, <3>4
  <2>7. CASE i = 0
    <3>1. n % 8 = 0 /\ n + 7 = 8 * (k - 1) + 7
      BY <2>1, <2>2, <2>7
    <3>2. n \in b <=> High(k - 1)
      BY <1>3, <2>1, <3>1
    <3>3. n \in a <=> Lends(a, b, n)
      <4>1. CASE n = 0
        <5>1. n - 1 \notin v
          BY <4>1, BitsDef DEF Words
        <5> HIDE DEF n
        <5> QED
          BY <1>2, <1>4, <2>1, <4>1, <5>1, LendsStep
      <4>2. CASE n # 0
        <5>1. n - 1 \in Nat /\ n - 1 < 8 * WordBytes /\ (n - 1) + 1 = n
          BY <2>3, <4>2, BitsDef
        <5>2. 8 * ((n - 1) \div 8) + 7 = n - 1
          BY <2>3, <3>1, <4>2
        <5>3. Lends(a, b, n) <=> n - 1 \in v
          <6>1. n - 1 \in N
            BY <1>8, <5>1
          <6> HIDE DEF n
          <6>2. Lends(a, b, (n - 1) + 1) <=> High((n - 1) \div 8)
            BY <5>1, <6>1
          <6> QED
            BY <5>1, <5>2, <6>2
        <5> HIDE DEF n
        <5> QED
          BY <1>2, <2>1, <3>1, <5>3
      <4> QED
        BY <4>1, <4>2
    <3> HIDE DEF n, High
    <3> QED
      BY <2>4, <2>5, <2>6, <3>2, <3>3
  <2>8. CASE i # 0
    <3>1. n % 8 # 0
      BY <2>1, <2>8
    <3>2. n \notin a /\ n \notin b
      <4> HIDE DEF n
      <4> QED
        BY <1>2, <1>3, <2>1, <3>1
    <3>3. n - 1 \in Nat /\ n - 1 < 8 * WordBytes /\ (n - 1) + 1 = n /\ (n - 1) \div 8 = k - 1
      BY <2>1, <2>2, <2>3, <2>8, BitsDef
    <3>4. Lends(a, b, n) <=> High(k - 1)
      <4>1. n - 1 \in N
        BY <1>8, <3>3
      <4> HIDE DEF n
      <4>2. Lends(a, b, (n - 1) + 1) <=> High((n - 1) \div 8)
        BY <3>3, <4>1
      <4> QED
        BY <3>3, <4>2
    <3> HIDE DEF n, High
    <3> QED
      BY <2>4, <2>5, <2>6, <3>2, <3>4
  <2> QED
    BY <2>7, <2>8
<1> QED
  BY <1>9 DEF Byte

\* A round multiplies every byte by 2 in the field.
LEMMA ByteTimesTwo ==
  ASSUME NEW k \in Positions, NEW v \in Words
  PROVE  Byte(k, TimesTwo(v)) = TimesX(Byte(k, v))
<1> DEFINE p == Byte(k, v)
           s == Byte(k, SHLBYTE(v))
           m == Byte(k, MASK(v) \cap NBYTES(29))
<1>1. Byte(k, TimesTwo(v)) = Plus(s, m)
  BY BytePlus DEF TimesTwo
<1>2. m = IF 7 \in p THEN {4, 3, 2, 0} ELSE {}
  <2>2. m = Byte(k, MASK(v)) \cap {4, 3, 2, 0}
    <3>1. m = Byte(k, MASK(v)) \cap Polynomial(29)
      BY ByteNBYTES
    <3> QED
      BY <3>1, CodeBytes
  <2>3. {4, 3, 2, 0} \subseteq Degrees
    BY DEF Degrees
  <2>4. Byte(k, MASK(v)) = IF 7 \in p THEN Degrees ELSE {}
    BY ByteMASK
  <2> HIDE DEF m, p
  <2> QED
    BY <2>2, <2>3, <2>4
<1>3. \A i \in Degrees : i \in s <=> i - 1 \in p
  BY ByteSHLBYTE
<1>4. p \in Polynomials /\ s \in Polynomials /\ m \in Polynomials
  BY ByteType
<1> HIDE DEF p, s, m
<1>5. \A i \in Degrees : i \in Plus(s, m) <=> i \in TimesX(p)
  <2> TAKE i \in Degrees
  <2>1. i \in m <=> (7 \in p /\ i \in {4, 3, 2, 0})
    BY <1>2
  <2>2. i \in TimesX(p) <=> ~(i - 1 \in p <=> (7 \in p /\ i \in {4, 3, 2, 0}))
    BY <1>4, TimesXBits
  <2>3. i \in Plus(s, m) <=> ~(i \in s <=> i \in m)
    BY DEF Plus
  <2> QED
    BY <1>3, <2>1, <2>2, <2>3
<1>6. Plus(s, m) \subseteq Degrees /\ TimesX(p) \subseteq Degrees
  BY <1>4, PlusType, TimesXBits DEF Polynomials
<1>7. Plus(s, m) = TimesX(p)
  BY <1>5, <1>6
<1> QED
  BY <1>1, <1>7 DEF p

-----------------------------------------------------------------------------
(* The reference                                                            *)

\* Q as a sum of multiples of powers of x
LEMMA RefQSum ==
  ASSUME NEW n \in Nat, NEW c \in [1 .. n -> Polynomials]
  PROVE  /\ [j \in 1 .. n |-> TimesXPower[n - j][c[j]]] \in [1 .. n -> Polynomials]
         /\ RefQ(c) = Sum([j \in 1 .. n |-> TimesXPower[n - j][c[j]]])
<1>1. Len(c) = n /\ DOMAIN c = 1 .. n
  BY SequenceTerms
<1>2. \A j \in 1 .. n : n - j \in Nat /\ c[j] \in Polynomials
  OBVIOUS
<1>3. \A j \in 1 .. n : Mul(Power[n - j][{1}], c[j]) = TimesXPower[n - j][c[j]]
  BY <1>2, MulPowerOfTwo
<1>4. \A j \in 1 .. n : TimesXPower[n - j][c[j]] \in Polynomials
  BY <1>2, TimesXPowerDef
<1>5. RefQ(c) = Sum([j \in 1 .. n |-> Mul(Power[n - j][{1}], c[j])])
  BY <1>1 DEF RefQ
<1>6. [j \in 1 .. n |-> Mul(Power[n - j][{1}], c[j])] = [j \in 1 .. n |-> TimesXPower[n - j][c[j]]]
  BY <1>3
<1> QED
  BY <1>4, <1>5, <1>6

\* One more disk
LEMMA RefStep ==
  ASSUME NEW n \in Nat, NEW c \in [1 .. n -> Polynomials],
         NEW disk \in [1 .. n + 1 -> Polynomials], \A j \in 1 .. n : disk[j] = c[j]
  PROVE  /\ RefP(disk) = Plus(RefP(c), disk[n + 1])
         /\ RefQ(disk) = Plus(TimesX(RefQ(c)), disk[n + 1])
<1>0. n + 1 \in Nat /\ 1 .. n + 1 = (1 .. n) \cup {n + 1} /\ n + 1 \notin 1 .. n
  OBVIOUS
<1>1. IsFiniteSet(1 .. n)
  BY SequenceTerms
<1>2. RefP(disk) = Plus(RefP(c), disk[n + 1])
  BY SumNext DEF RefP
<1> DEFINE g == [j \in 1 .. n |-> TimesXPower[n - j][c[j]]]
           h == [j \in 1 .. n |-> TimesX(g[j])]
           f == [j \in 1 .. n + 1 |-> TimesXPower[(n + 1) - j][disk[j]]]
<1>3. g \in [1 .. n -> Polynomials] /\ RefQ(c) = Sum(g)
  BY RefQSum
<1>4. f \in [1 .. n + 1 -> Polynomials] /\ RefQ(disk) = Sum(f)
  BY <1>0, RefQSum
<1>5. h \in [1 .. n -> Polynomials]
  <2> HIDE DEF g
  <2> QED
    BY <1>3, TimesXBits
<1>6. \A j \in 1 .. n : f[j] = h[j]
  <2> TAKE j \in 1 .. n
  <2>1. n - j \in Nat /\ (n + 1) - j = (n - j) + 1 /\ c[j] \in Polynomials /\ disk[j] = c[j] /\ j \in 1 .. n + 1
    OBVIOUS
  <2>2. f[j] = TimesXPower[(n + 1) - j][disk[j]]
    BY <2>1
  <2>3. h[j] = TimesX(TimesXPower[n - j][c[j]])
    OBVIOUS
  <2>4. TimesXPower[(n - j) + 1][c[j]] = TimesX(TimesXPower[n - j][c[j]])
    BY <2>1, TimesXPowerDef
  <2> HIDE DEF f, h, g
  <2> QED
    BY <2>1, <2>2, <2>3, <2>4
<1>7. f[n + 1] = disk[n + 1]
  <2>1. n + 1 \in 1 .. n + 1 /\ (n + 1) - (n + 1) = 0 /\ disk[n + 1] \in Polynomials
    OBVIOUS
  <2>2. f[n + 1] = TimesXPower[(n + 1) - (n + 1)][disk[n + 1]]
    BY <2>1
  <2> HIDE DEF f
  <2> QED
    BY <2>1, <2>2, TimesXPowerDef
<1>8. TimesX(Sum(g)) = Sum(h)
  <2> HIDE DEF g
  <2> QED
    BY <1>1, <1>3, TimesXSum
<1> HIDE DEF f, g, h
<1>9. Sum(f) = Plus(Sum(h), f[n + 1])
  BY <1>4, <1>5, <1>6, SumNext
<1> QED
  BY <1>2, <1>3, <1>4, <1>7, <1>8, <1>9

\* The bytes of the disks at one position are polynomials.
LEMMA ColumnType ==
  ASSUME NEW k, NEW words \in Seq(Words)
  PROVE  /\ Len(words) \in Nat
         /\ Column(k, words) \in [1 .. Len(words) -> Polynomials]
         /\ \A j \in 1 .. Len(words) : Column(k, words)[j] = Byte(k, words[j])
<1>1. Len(words) \in Nat /\ DOMAIN words = 1 .. Len(words)
  OBVIOUS
<1>2. Column(k, words) = [j \in 1 .. Len(words) |-> Byte(k, words[j])]
  BY <1>1 DEF Column
<1> QED
  BY <1>1, <1>2, ByteType

-----------------------------------------------------------------------------
(* The loop                                                                 *)

WordInv ==
  /\ onCard \in BOOLEAN
  /\ data \in Seq(DataWords) /\ Len(data) <= MaxDisks
  /\ wp0 \in Words /\ wq0 \in Words /\ w20 \in Words
  /\ ParityIsReference

\* SHLBYTE() and MASK() leave a word a word.
LEMMA TimesTwoType ==
  ASSUME NEW v
  PROVE  SHLBYTE(v) \in Words /\ MASK(v) \in Words /\ TimesTwo(v) \in Words
<1>1. SHLBYTE(v) \in Words
  BY DEF SHLBYTE, ShiftLeft, Words
<1>2. MASK(v) \in Words
  BY DEF MASK, Minus, Plus, ShiftLeft, ShiftRight, Words
<1>3. TimesTwo(v) \in Words
  BY <1>1, <1>2 DEF TimesTwo, Plus, Words
<1> QED
  BY <1>1, <1>2, <1>3

\* The exclusive or of two words is a word.
LEMMA WordPlusType ==
  ASSUME NEW u \in Words, NEW v \in Words
  PROVE  Plus(u, v) \in Words
BY DEF Plus, Words

\* The reference after one more disk
LEMMA NextReference ==
  ASSUME NEW words \in Seq(Words), NEW w \in Words, NEW k
  PROVE  /\ RefP(Column(k, Append(words, w))) = Plus(RefP(Column(k, words)), Byte(k, w))
         /\ RefQ(Column(k, Append(words, w))) = Plus(TimesX(RefQ(Column(k, words))), Byte(k, w))
<1> DEFINE n == Len(words)
           more == Append(words, w)
           c == Column(k, words)
           disk == Column(k, more)
<1>1. n \in Nat /\ more \in Seq(Words) /\ Len(more) = n + 1 /\ more[n + 1] = w
      /\ \A j \in 1 .. n : more[j] = words[j]
  OBVIOUS
<1> HIDE DEF more, n
<1>2. c \in [1 .. n -> Polynomials] /\ \A j \in 1 .. n : c[j] = Byte(k, words[j])
  BY ColumnType DEF n
<1>3. disk \in [1 .. n + 1 -> Polynomials] /\ \A j \in 1 .. n + 1 : disk[j] = Byte(k, more[j])
  BY <1>1, ColumnType
<1> HIDE DEF c, disk
<1>4. \A j \in 1 .. n : disk[j] = c[j]
  <2>1. \A j \in 1 .. n : j \in 1 .. n + 1
    BY <1>1
  <2> QED
    BY <1>1, <1>2, <1>3, <2>1
<1>5. disk[n + 1] = Byte(k, w)
  <2>1. n + 1 \in 1 .. n + 1
    BY <1>1
  <2> QED
    BY <1>1, <1>3, <2>1
<1>6. RefP(disk) = Plus(RefP(c), Byte(k, w)) /\ RefQ(disk) = Plus(TimesX(RefQ(c)), Byte(k, w))
  BY <1>1, <1>2, <1>3, <1>4, <1>5, RefStep
<1> QED
  BY <1>6 DEF c, disk, more

\* Nothing has been read.
LEMMA NoDisk ==
  ASSUME NEW k
  PROVE  RefP(Column(k, <<>>)) = {} /\ RefQ(Column(k, <<>>)) = {}
<1> DEFINE c == Column(k, <<>>)
<1>1. DOMAIN c = {}
  BY DEF Column
<1> HIDE DEF c
<1>2. RefP(c) = {}
  BY <1>1, SumEmpty DEF RefP
<1>3. RefQ(c) = {}
  <2> DEFINE f == [j \in DOMAIN c |-> Mul(Power[Len(c) - j][{1}], c[j])]
  <2>1. DOMAIN f = {} /\ RefQ(c) = Sum(f)
    BY <1>1 DEF RefQ
  <2> HIDE DEF f
  <2> QED
    BY <2>1, SumEmpty
<1> QED
  BY <1>2, <1>3 DEF c

\* One disk is its own parity.
LEMMA OneDisk ==
  ASSUME NEW k, NEW w \in Words
  PROVE  RefP(Column(k, <<w>>)) = Byte(k, w) /\ RefQ(Column(k, <<w>>)) = Byte(k, w)
<1>1. <<>> \in Seq(Words) /\ Append(<<>>, w) = <<w>>
  OBVIOUS
<1>2. \A p : Plus({}, p) = p
  BY DEF Plus
<1>3. RefP(Column(k, Append(<<>>, w))) = Plus({}, Byte(k, w))
      /\ RefQ(Column(k, Append(<<>>, w))) = Plus(TimesX({}), Byte(k, w))
  BY <1>1, NextReference, NoDisk
<1> QED
  BY <1>1, <1>2, <1>3, TimesXMonomial

\* WordInv holds before the first disk.
LEMMA WordInvInit == WordInit => WordInv
<1> SUFFICES ASSUME WordInit PROVE WordInv
  OBVIOUS
<1>1. onCard = FALSE /\ data = <<>> /\ wp0 = {} /\ wq0 = {} /\ w20 = {}
  BY DEF WordInit
<1>2. {} \in Words /\ data \in Seq(DataWords) /\ Len(data) <= MaxDisks
  BY <1>1, WordAssumption DEF Words
<1>3. \A k : Byte(k, {}) = {}
  BY DEF Byte
<1>4. PExact /\ QExact
  BY <1>1, <1>3, NoDisk DEF PExact, QExact
<1> QED
  BY <1>1, <1>2, <1>4 DEF WordInv, ParityIsReference

\* Every round of the loop over the disks preserves WordInv, on the host and
\* on the card.
LEMMA WordInvStep == WordInv /\ [WordNext]_wordVars => WordInv'
<1> SUFFICES ASSUME WordInv, [WordNext]_wordVars PROVE WordInv'
  OBVIOUS
<1>1. /\ onCard \in BOOLEAN
      /\ data \in Seq(DataWords) /\ Len(data) <= MaxDisks
      /\ wp0 \in Words /\ wq0 \in Words /\ w20 \in Words
      /\ PExact /\ (~onCard => QExact)
  BY DEF WordInv, ParityIsReference
<1>2. data \in Seq(Words) /\ Len(data) \in Nat /\ \A w \in DataWords : w \in Words
  BY <1>1, WordAssumption
<1>3. ASSUME NEW w \in DataWords, HighestDisk(w) PROVE WordInv'
  <2>1. data' = <<w>> /\ wp0' = w /\ wq0' = w /\ onCard' \in BOOLEAN /\ w20' \in Words
    BY <1>3, WordAssumption DEF HighestDisk, Words
  <2>2. data' \in Seq(DataWords) /\ Len(data') <= MaxDisks
    BY <2>1, WordAssumption
  <2>3. PExact' /\ QExact'
    BY <1>2, <2>1, OneDisk DEF PExact, QExact
  <2> QED
    BY <1>2, <2>1, <2>2, <2>3 DEF WordInv, ParityIsReference
<1>4. ASSUME NEW w \in DataWords, NextDisk(w) PROVE WordInv'
  <2>1. /\ data' = Append(data, w) /\ Len(data) < MaxDisks /\ ~onCard
        /\ wp0' = Plus(wp0, w) /\ wq0' = Plus(TimesTwo(wq0), w)
        /\ onCard' = onCard /\ w20' = w20
    BY <1>4 DEF NextDisk
  <2>2. data' \in Seq(DataWords) /\ Len(data') <= MaxDisks
    BY <1>1, <1>2, <2>1, WordAssumption
  <2>3. wp0' \in Words /\ wq0' \in Words
    BY <1>1, <1>2, <2>1, WordPlusType, TimesTwoType
  <2>4. ASSUME NEW k \in Positions PROVE Byte(k, wp0') = RefP(Column(k, data'))
    BY <1>1, <1>2, <2>1, BytePlus, NextReference DEF PExact
  <2>5. ASSUME NEW k \in Positions PROVE Byte(k, wq0') = RefQ(Column(k, data'))
    <3>1. Byte(k, wq0) = RefQ(Column(k, data))
      BY <1>1, <2>1 DEF QExact
    <3>2. Byte(k, wq0') = Plus(Byte(k, TimesTwo(wq0)), Byte(k, w))
      BY <2>1, BytePlus
    <3>3. Byte(k, TimesTwo(wq0)) = TimesX(Byte(k, wq0))
      BY <1>1, ByteTimesTwo
    <3>4. RefQ(Column(k, Append(data, w))) = Plus(TimesX(RefQ(Column(k, data))), Byte(k, w))
      BY <1>2, NextReference
    <3> QED
      BY <2>1, <3>1, <3>2, <3>3, <3>4
  <2>6. PExact' /\ QExact'
    BY <2>4, <2>5 DEF PExact, QExact
  <2> QED
    BY <1>1, <2>1, <2>2, <2>3, <2>6 DEF WordInv, ParityIsReference
<1>5. ASSUME NEW w \in DataWords, NextDiskOnCard(w) PROVE WordInv'
  <2>1. /\ data' = Append(data, w) /\ Len(data) < MaxDisks /\ onCard
        /\ wp0' = Plus(wp0, w) /\ w20' = w20 \cap NBYTES(29)
        /\ wq0' = Plus(Plus(SHLBYTE(MASK(wq0)), w20'), w)
        /\ onCard' = onCard
    BY <1>5 DEF NextDiskOnCard
  <2>2. data' \in Seq(DataWords) /\ Len(data') <= MaxDisks
    BY <1>1, <1>2, <2>1, WordAssumption
  <2>3. wp0' \in Words /\ w20' \in Words
    BY <1>1, <1>2, <2>1, WordPlusType DEF Words
  <2>4. wq0' \in Words
    BY <1>2, <2>1, <2>3, WordPlusType, TimesTwoType
  <2>5. ASSUME NEW k \in Positions PROVE Byte(k, wp0') = RefP(Column(k, data'))
    BY <1>1, <1>2, <2>1, BytePlus, NextReference DEF PExact
  <2>6. PExact'
    BY <2>5 DEF PExact
  <2> QED
    BY <1>1, <2>1, <2>2, <2>3, <2>4, <2>6 DEF WordInv, ParityIsReference
<1>6. CASE UNCHANGED wordVars
  BY <1>6 DEF wordVars, WordInv, ParityIsReference, PExact, QExact
<1> QED
  BY <1>3, <1>4, <1>5, <1>6 DEF WordNext

\* For every word size, every number of disks and every data, the loop of
\* SOFT and SMP computes the Reed-Solomon parity of every byte column, and
\* the loop on the card computes P.
THEOREM ParityIsReferenceHolds == WordSpec => []ParityIsReference
<1>1. WordInv => ParityIsReference
  BY DEF WordInv
<1> QED
  BY <1>1, WordInvInit, WordInvStep, PTL DEF WordSpec

-----------------------------------------------------------------------------
(* Two lost disks                                                           *)

\* Two columns that differ at most at x and y and have the same parity bytes
\* are the same: with the difference e of the bytes at x the parities differ
\* by e + e and by 2^(n-x) * e + 2^(n-y) * e.
LEMMA ColumnsEqual ==
  ASSUME NEW n \in Nat, n <= 255, NEW c \in [1 .. n -> Polynomials], NEW disk \in [1 .. n -> Polynomials],
         NEW x \in 1 .. n, NEW y \in 1 .. n, x < y,
         \A j \in 1 .. n : j # x /\ j # y => c[j] = disk[j],
         RefP(c) = RefP(disk), RefQ(c) = RefQ(disk)
  PROVE  c[x] = disk[x] /\ c[y] = disk[y]
<1> DEFINE D == 1 .. n
           f == [j \in D |-> Plus(c[j], disk[j])]
           gc == [j \in D |-> TimesXPower[n - j][c[j]]]
           gd == [j \in D |-> TimesXPower[n - j][disk[j]]]
           g == [j \in D |-> Plus(gc[j], gd[j])]
           e == Plus(c[x], disk[x])
           u == n - y
           w == n - x
<1>1. IsFiniteSet(D) /\ x # y
  BY SequenceTerms
<1>2. \A j \in D : n - j \in Nat /\ c[j] \in Polynomials /\ disk[j] \in Polynomials
  OBVIOUS
<1>3. f \in [D -> Polynomials] /\ \A j \in D : j # x /\ j # y => f[j] = {}
  <2>1. \A j \in D : Plus(c[j], disk[j]) \in Polynomials
    BY <1>2, PlusType
  <2>2. \A j \in D : j # x /\ j # y => Plus(c[j], disk[j]) = {}
    BY PlusEmpty
  <2> QED
    BY <2>1, <2>2
<1>4. Plus(c[x], disk[x]) = Plus(c[y], disk[y])
  <2>1. Sum(f) = Plus(Sum(c), Sum(disk))
    <3> HIDE DEF D
    <3> QED
      BY <1>1, SumPlus DEF D
  <2>2. Sum(f) = {}
    BY <2>1, PlusEmpty DEF RefP
  <2>3. Sum(f) = Plus(f[x], f[y])
    <3> HIDE DEF f
    <3> QED
      BY <1>1, <1>3, SumTwo
  <2>4. f[x] = f[y]
    <3> HIDE DEF f
    <3> QED
      BY <2>2, <2>3, PlusEmpty
  <2> QED
    BY <2>4
<1>5. /\ gc \in [D -> Polynomials] /\ RefQ(c) = Sum(gc)
      /\ gd \in [D -> Polynomials] /\ RefQ(disk) = Sum(gd)
  BY RefQSum
<1>6. \A j \in D : g[j] = TimesXPower[n - j][Plus(c[j], disk[j])]
  BY <1>2, TimesXPowerPlus
<1>7. g \in [D -> Polynomials] /\ \A j \in D : j # x /\ j # y => g[j] = {}
  <2>1. \A j \in D : Plus(gc[j], gd[j]) \in Polynomials
    <3> HIDE DEF gc, gd
    <3> QED
      BY <1>5, PlusType
  <2>2. \A j \in D : j # x /\ j # y => gc[j] = gd[j]
    OBVIOUS
  <2> HIDE DEF gc, gd
  <2> QED
    BY <2>1, <2>2, PlusEmpty
<1>8. g[x] = g[y]
  <2>1. Sum(g) = Plus(Sum(gc), Sum(gd))
    <3> HIDE DEF gc, gd, D
    <3> QED
      BY <1>1, <1>5, SumPlus
  <2>2. Sum(g) = {}
    <3> HIDE DEF g, gc, gd
    <3> QED
      BY <1>5, <2>1, PlusEmpty
  <2>3. Sum(g) = Plus(g[x], g[y])
    <3> HIDE DEF g
    <3> QED
      BY <1>1, <1>7, SumTwo
  <2> HIDE DEF g
  <2> QED
    BY <2>2, <2>3, PlusEmpty
<1>9. TimesXPower[w][e] = TimesXPower[u][e]
  <2> HIDE DEF g
  <2> QED
    BY <1>4, <1>6, <1>8
<1>10. u \in Nat /\ w \in Nat /\ u < w /\ w - u < 255 /\ e \in Polynomials
  <2>1. e \in Polynomials
    BY <1>2, PlusType
  <2> QED
    BY <2>1
<1> HIDE DEF e, u, w
<1>11. e = {}
  BY <1>9, <1>10, PowersDiffer
<1> QED
  BY <1>4, <1>11, PlusEmpty DEF e

\* A word is its bytes.
LEMMA WordsEqual ==
  ASSUME NEW u \in Words, NEW v \in Words, \A k \in Positions : Byte(k, u) = Byte(k, v)
  PROVE  u = v
<1> SUFFICES ASSUME NEW n \in Bits PROVE n \in u <=> n \in v
  BY DEF Words
<1> DEFINE k == (n \div 8) + 1
           i == n % 8
<1>1. n \in Int /\ 0 <= n /\ n < 8 * WordBytes /\ WordBytes \in Nat
  BY BitsDef, WordAssumption
<1>2. n \div 8 \in Int /\ 0 <= n \div 8 /\ 8 * (n \div 8) <= n
  BY <1>1
<1>3. n \div 8 < WordBytes
  BY <1>1, <1>2
<1>4. k \in Positions /\ i \in Degrees /\ 8 * (k - 1) + i = n
  BY <1>1, <1>2, <1>3 DEF Positions, Degrees
<1> HIDE DEF k, i
<1>5. (i \in Byte(k, u) <=> n \in u) /\ (i \in Byte(k, v) <=> n \in v)
  BY <1>4 DEF Byte
<1> QED
  BY <1>4, <1>5

\* For every word size and data, and up to 255 data disks (x has 255
\* different powers): P and Q determine any two lost disks.
THEOREM TwoErasuresHolds ==
  ASSUME MaxDisks <= 255
  PROVE  WordSpec => []TwoErasures
<1>1. ASSUME WordInv PROVE TwoErasures
  <2> SUFFICES ASSUME NEW x \in DOMAIN data, NEW y \in DOMAIN data, x < y,
                      NEW a \in DataWords, NEW b \in DataWords, ~onCard,
                      \A k \in Positions :
                        /\ Byte(k, wp0) = RefP(Column(k, [data EXCEPT ![x] = a, ![y] = b]))
                        /\ Byte(k, wq0) = RefQ(Column(k, [data EXCEPT ![x] = a, ![y] = b]))
               PROVE  [data EXCEPT ![x] = a, ![y] = b] = data
    BY DEF TwoErasures
  <2> DEFINE other == [data EXCEPT ![x] = a, ![y] = b]
             n == Len(data)
  <2>1. data \in Seq(Words) /\ n \in Nat /\ DOMAIN data = 1 .. n /\ n <= 255 /\ a \in Words /\ b \in Words
    BY <1>1, WordAssumption DEF WordInv
  <2>2. x \in 1 .. n /\ y \in 1 .. n /\ x # y
    BY <2>1
  <2>3. other \in Seq(Words) /\ Len(other) = n /\ DOMAIN other = 1 .. n
    BY <2>1
  <2>4. /\ other[x] = a /\ other[y] = b
        /\ \A j \in 1 .. n : j # x /\ j # y => other[j] = data[j]
    BY <2>1, <2>2
  <2> HIDE DEF other, n
  <2>5. ASSUME NEW k \in Positions
        PROVE  Byte(k, data[x]) = Byte(k, a) /\ Byte(k, data[y]) = Byte(k, b)
    <3> DEFINE c == Column(k, data)
               disk == Column(k, other)
    <3>1. c \in [1 .. n -> Polynomials] /\ \A j \in 1 .. n : c[j] = Byte(k, data[j])
      BY <2>1, ColumnType DEF n
    <3>2. disk \in [1 .. n -> Polynomials] /\ \A j \in 1 .. n : disk[j] = Byte(k, other[j])
      BY <2>3, ColumnType
    <3>3. RefP(c) = RefP(disk) /\ RefQ(c) = RefQ(disk)
      BY <1>1 DEF WordInv, ParityIsReference, PExact, QExact, other
    <3> HIDE DEF c, disk
    <3>4. \A j \in 1 .. n : j # x /\ j # y => c[j] = disk[j]
      BY <2>4, <3>1, <3>2
    <3>5. c[x] = disk[x] /\ c[y] = disk[y]
      BY <2>1, <2>2, <3>1, <3>2, <3>3, <3>4, ColumnsEqual
    <3> QED
      BY <2>2, <2>4, <3>1, <3>2, <3>5
  <2>6. data[x] = a /\ data[y] = b
    <3>1. data[x] \in Words /\ data[y] \in Words
      BY <2>1, <2>2
    <3> QED
      BY <2>1, <2>5, <3>1, WordsEqual
  <2>7. \A j \in 1 .. n : other[j] = data[j]
    BY <2>4, <2>6
  <2>8. other = data
    BY <2>1, <2>3, <2>7
  <2> QED
    BY <2>8 DEF other
<1> QED
  BY <1>1, WordInvInit, WordInvStep, PTL DEF WordSpec

BytesRange == 0 .. 255

\* The exclusive or of two bytes is the sum of their polynomials.
LEMMA XorByte ==
  ASSUME NEW a \in BytesRange, NEW b \in BytesRange
  PROVE  /\ Xor(a, b) \in BytesRange
         /\ Polynomial(Xor(a, b)) = Plus(Polynomial(a), Polynomial(b))
<1>1. Polynomial(a) \in Polynomials /\ Polynomial(b) \in Polynomials
  BY PolynomialBits DEF BytesRange
<1>2. Plus(Polynomial(a), Polynomial(b)) \in Polynomials
  BY <1>1, PlusType
<1> QED
  BY <1>2, PolynomialValue DEF Xor, BytesRange

\* 0x1d, the constant of setup_tables()
LEMMA Polynomial29 == Polynomial(29) = {4, 3, 2, 0}
<1> DEFINE p == Polynomial(29)
<1>1. /\ 0 \in p /\ 1 \notin p /\ 2 \in p /\ 3 \in p /\ 4 \in p /\ 5 \notin p
      /\ 6 \notin p /\ 7 \notin p /\ p \in Polynomials
  <2>1. 29 \in 0 .. 255
    OBVIOUS
  <2> QED
    BY <2>1, PolynomialBits
<1> HIDE DEF p
<1>2. \A n \in Degrees : n \in p <=> n \in {4, 3, 2, 0}
  BY <1>1, DegreesList
<1>3. p \subseteq Degrees /\ {4, 3, 2, 0} \subseteq Degrees
  BY <1>1, DegreesList DEF Polynomials
<1>4. p = {4, 3, 2, 0}
  BY <1>2, <1>3
<1> QED
  BY <1>4 DEF p

\* A byte shifted by one: the bits move up by one.
LEMMA DoubledBits ==
  ASSUME NEW b \in BytesRange, NEW c \in BytesRange, c = 2 * b \/ c = 2 * b - 256
  PROVE  \A n \in Degrees : n \in Polynomial(c) <=> n - 1 \in Polynomial(b)
<1>1. b \in 0 .. 255 /\ c \in 0 .. 255
  BY DEF BytesRange
<1>2. /\ c % 2 = 0
      /\ (c \div 2) % 2 = b % 2
      /\ (c \div 4) % 2 = (b \div 2) % 2
      /\ (c \div 8) % 2 = (b \div 4) % 2
      /\ (c \div 16) % 2 = (b \div 8) % 2
      /\ (c \div 32) % 2 = (b \div 16) % 2
      /\ (c \div 64) % 2 = (b \div 32) % 2
      /\ (c \div 128) % 2 = (b \div 64) % 2
  <2>1. CASE c = 2 * b
    BY <1>1, <2>1
  <2>2. CASE c = 2 * b - 256
    BY <1>1, <2>2
  <2> QED
    BY <2>1, <2>2
<1>3. -1 \notin Polynomial(b)
  BY DEF Polynomial, Degrees
<1>4. /\ 0 \notin Polynomial(c)
      /\ 1 \in Polynomial(c) <=> 0 \in Polynomial(b)
      /\ 2 \in Polynomial(c) <=> 1 \in Polynomial(b)
      /\ 3 \in Polynomial(c) <=> 2 \in Polynomial(b)
      /\ 4 \in Polynomial(c) <=> 3 \in Polynomial(b)
      /\ 5 \in Polynomial(c) <=> 4 \in Polynomial(b)
      /\ 6 \in Polynomial(c) <=> 5 \in Polynomial(b)
      /\ 7 \in Polynomial(c) <=> 6 \in Polynomial(b)
  BY <1>1, <1>2, PolynomialBits
<1> QED
  BY <1>3, <1>4, DegreesList

\* setup_tables() multiplies by x.
LEMMA NextPowerByte ==
  ASSUME NEW b \in BytesRange
  PROVE  NextPower(b) \in BytesRange /\ Polynomial(NextPower(b)) = TimesX(Polynomial(b))
<1> DEFINE p == Polynomial(b)
<1>0. p \in Polynomials /\ b \in 0 .. 255 /\ (7 \in p <=> (b \div 128) % 2 = 1)
  BY PolynomialBits DEF BytesRange
<1>1. CASE 2 * b >= 256
  <2> DEFINE c == 2 * b - 256
             q == Polynomial(c)
             r == Polynomial(NextPower(b))
  <2>1. c \in BytesRange /\ 29 \in BytesRange /\ (b \div 128) % 2 = 1
    BY <1>0, <1>1 DEF BytesRange
  <2>2. NextPower(b) = Xor(c, 29)
    BY <1>1 DEF NextPower
  <2>3. NextPower(b) \in BytesRange /\ r = Plus(q, {4, 3, 2, 0})
    BY <2>1, <2>2, XorByte, Polynomial29
  <2>4. \A n \in Degrees : n \in q <=> n - 1 \in p
    <3> HIDE DEF c
    <3>1. c = 2 * b - 256
      BY DEF c
    <3> QED
      BY <2>1, <3>1, DoubledBits
  <2>5. \A n \in Degrees : n \in r <=> n \in TimesX(p)
    <3> TAKE n \in Degrees
    <3>1. n \in TimesX(p) <=> ~(n - 1 \in p <=> (7 \in p /\ n \in {4, 3, 2, 0}))
      BY <1>0, TimesXBits
    <3>2. n \in r <=> ~(n \in q <=> n \in {4, 3, 2, 0})
      BY <2>3 DEF Plus
    <3> HIDE DEF p, q, r
    <3> QED
      BY <1>0, <2>1, <2>4, <3>1, <3>2
  <2>6. r \in Polynomials /\ TimesX(p) \in Polynomials
    BY <1>0, <2>3, PolynomialBits, TimesXBits DEF BytesRange
  <2> HIDE DEF r, p, q
  <2>7. r = TimesX(p)
    BY <2>5, <2>6 DEF Polynomials
  <2> QED
    BY <2>3, <2>7 DEF r, p
<1>2. CASE 2 * b < 256
  <2> DEFINE c == 2 * b
             q == Polynomial(c)
  <2>1. c \in BytesRange /\ (b \div 128) % 2 = 0 /\ NextPower(b) = c
    BY <1>0, <1>2 DEF BytesRange, NextPower
  <2>2. \A n \in Degrees : n \in q <=> n - 1 \in p
    <3> HIDE DEF c
    <3>1. c = 2 * b
      BY DEF c
    <3> QED
      BY <2>1, <3>1, DoubledBits
  <2>3. q \in Polynomials /\ TimesX(p) \in Polynomials
    BY <1>0, <2>1, PolynomialBits, TimesXBits DEF BytesRange
  <2>4. \A n \in Degrees : n \in TimesX(p) <=> ~(n - 1 \in p <=> (7 \in p /\ n \in {4, 3, 2, 0}))
    BY <1>0, TimesXBits
  <2> HIDE DEF q, p
  <2>5. q = TimesX(p)
    <3>1. 7 \notin p
      BY <1>0, <2>1
    <3> QED
      BY <2>2, <2>3, <2>4, <3>1 DEF Polynomials
  <2> QED
    BY <2>1, <2>5 DEF q, p
<1>3. 2 * b \in Int
  BY <1>0
<1> QED
  BY <1>1, <1>2, <1>3

\* The table of the powers
LEMMA PowerTable ==
  ASSUME NEW i \in 0 .. 254
  PROVE  gfilog(i) \in BytesRange /\ Polynomial(gfilog(i)) = TimesXPower[i][{0}]
<1> DEFINE S == {n \in Nat : n <= 254 => /\ gfilog(n) \in BytesRange
                                          /\ Polynomial(gfilog(n)) = TimesXPower[n][{0}]}
<1>1. 0 \in S
  <2>1. gfilog(0) = 1 /\ 1 \in 0 .. 255
    <3>1. gfilog(0) = gfilog_bytes[1]
      <4>1. 0 + 1 = 1
        OBVIOUS
      <4> QED
        BY <4>1 DEF gfilog
    <3>2. gfilog_bytes[1] = 1
      BY TablesGenerated
    <3> QED
      BY <3>1, <3>2
  <2>2. Polynomial(1) = {0}
    <3> DEFINE p == Polynomial(1)
    <3>1. /\ 0 \in p /\ 1 \notin p /\ 2 \notin p /\ 3 \notin p /\ 4 \notin p /\ 5 \notin p
          /\ 6 \notin p /\ 7 \notin p /\ p \in Polynomials
      BY <2>1, PolynomialBits
    <3> HIDE DEF p
    <3>2. \A n \in Degrees : n \in p <=> n \in {0}
      BY <3>1, DegreesList
    <3>3. p = {0}
      BY <3>1, <3>2, DegreesList DEF Polynomials
    <3> QED
      BY <3>3 DEF p
  <2>3. TimesXPower[0][{0}] = {0}
    BY One, TimesXPowerDef
  <2>4. gfilog(0) \in BytesRange /\ Polynomial(gfilog(0)) = TimesXPower[0][{0}]
    BY <2>1, <2>2, <2>3 DEF BytesRange
  <2> QED
    BY <2>4
<1>2. ASSUME NEW n \in S PROVE n + 1 \in S
  <2> SUFFICES ASSUME n + 1 <= 254
               PROVE  gfilog(n + 1) \in BytesRange /\ Polynomial(gfilog(n + 1)) = TimesXPower[n + 1][{0}]
    OBVIOUS
  <2>1. n \in Nat /\ n \in 0 .. 253 /\ n <= 254 /\ (n + 1) + 1 = n + 2
    OBVIOUS
  <2>2. gfilog(n) \in BytesRange /\ Polynomial(gfilog(n)) = TimesXPower[n][{0}]
    BY <2>1
  <2>3. gfilog(n + 1) = NextPower(gfilog(n))
    BY <2>1, TablesGenerated DEF gfilog
  <2>4. TimesXPower[n + 1][{0}] = TimesX(TimesXPower[n][{0}])
    BY <2>1, One, TimesXPowerDef
  <2> HIDE DEF S
  <2> QED
    BY <2>2, <2>3, <2>4, NextPowerByte
<1>3. S = Nat
  <2>1. S \in SUBSET Nat
    OBVIOUS
  <2> HIDE DEF S
  <2> QED
    BY <1>1, <1>2, <2>1, SetInduction
<1>4. i \in Nat /\ i <= 254
  OBVIOUS
<1> QED
  BY <1>3, <1>4

\* The logarithm of a byte other than 0 and 255
LEMMA LogTable ==
  ASSUME NEW a \in 1 .. 254
  PROVE  gflog(a) \in 0 .. 254 /\ Polynomial(a) = TimesXPower[gflog(a)][{0}]
<1>1. gflog(a) = gflog_bytes[a + 1] /\ gflog(a) \in 0 .. 254 /\ gfilog(gflog(a)) = a
  <2>1. gflog(a) = gflog_bytes[a + 1]
    BY DEF gflog
  <2>2. gflog_bytes[a + 1] \in 0 .. 254 /\ gfilog_bytes[gflog_bytes[a + 1] + 1] = a
    BY TablesGenerated
  <2> QED
    BY <2>1, <2>2 DEF gfilog
<1> QED
  BY <1>1, PowerTable

\* The byte 0
LEMMA PolynomialZero == Polynomial(0) = {}
<1>1. 0 \in 0 .. 255
  OBVIOUS
<1> QED
  BY <1>1, PolynomialBits, NoBits

\* mult_gf() is the product, or half of it when the sum has overflowed.
LEMMA Product ==
  ASSUME NEW a \in 0 .. 254, NEW b \in 0 .. 254
  PROVE  Mul(Polynomial(a), Polynomial(b)) =
           IF Fits(a, b) THEN Polynomial(mult_gf(a, b)) ELSE TimesX(Polynomial(mult_gf(a, b)))
<1>0. Polynomial(a) \in Polynomials /\ Polynomial(b) \in Polynomials
  BY PolynomialBits
<1>1. CASE a = 0 \/ b = 0
  <2>1. Fits(a, b) /\ mult_gf(a, b) = 0
    BY <1>1 DEF Fits, mult_gf
  <2>2. Mul(Polynomial(a), Polynomial(b)) = {}
    BY <1>0, <1>1, PolynomialZero, MulEmpty, MulEmptyRight
  <2> QED
    BY <2>1, <2>2, PolynomialZero
<1>2. CASE a # 0 /\ b # 0
  <2> DEFINE i == gflog(a)
             j == gflog(b)
             m == mult_gf(a, b)
  <2>1. a \in 1 .. 254 /\ b \in 1 .. 254
    BY <1>2
  <2>2. i \in 0 .. 254 /\ j \in 0 .. 254 /\ i \in Nat /\ j \in Nat
    <3>1. i \in 0 .. 254 /\ j \in 0 .. 254
      BY <2>1, LogTable
    <3> HIDE DEF i, j
    <3> QED
      BY <3>1
  <2>3. Polynomial(a) = TimesXPower[i][{0}] /\ Polynomial(b) = TimesXPower[j][{0}]
    BY <2>1, LogTable
  <2>4. Mul(Polynomial(a), Polynomial(b)) = TimesXPower[i + j][{0}]
    <3>1. Mul(TimesXPower[i][{0}], Polynomial(b)) = TimesXPower[i][Mul({0}, Polynomial(b))]
      BY <1>0, <2>2, One, MulTimesXPower
    <3>2. TimesXPower[i + j][{0}] = TimesXPower[i][TimesXPower[j][{0}]]
      BY <2>2, One, TimesXPowerAdd
    <3> QED
      BY <1>0, <2>3, <3>1, <3>2, One
  <2>5. Fits(a, b) <=> i + j <= 255
    BY <1>2, <2>1 DEF Fits
  <2>6. m = LET sum == (i + j) % 256 IN gfilog(IF sum >= 255 THEN sum - 255 ELSE sum)
    BY <1>2 DEF mult_gf
  <2> HIDE DEF i, j, m
  <2>7. CASE i + j < 255
    <3>1. (i + j) % 256 = i + j /\ i + j \in 0 .. 254
      BY <2>2, <2>7
    <3>2. m = gfilog(i + j)
      BY <2>2, <2>6, <2>7, <3>1
    <3> QED
      <4>1. Polynomial(m) = TimesXPower[i + j][{0}]
        BY <3>1, <3>2, PowerTable
      <4>2. Fits(a, b)
        BY <2>2, <2>5, <2>7
      <4> QED
        BY <2>4, <4>1, <4>2 DEF m
  <2>8. CASE i + j = 255
    <3>1. (i + j) % 256 = 255
      BY <2>8
    <3>2. m = gfilog(0)
      BY <2>6, <3>1
    <3>3. 0 \in 0 .. 254
      OBVIOUS
    <3>4. Polynomial(m) = {0}
      BY <3>2, <3>3, PowerTable, One, TimesXPowerDef
    <3>5. TimesXPower[i + j][{0}] = {0}
      BY <2>8, One, Power255
    <3> QED
      BY <2>4, <2>5, <2>8, <3>4, <3>5 DEF m
  <2>9. CASE i + j > 255
    <3> DEFINE k == i + j - 256
    <3>1. k \in 0 .. 254 /\ k \in Nat /\ (i + j) % 256 = k /\ k < 255 /\ i + j = 255 + (k + 1)
      BY <2>2, <2>9
    <3> HIDE DEF k
    <3>2. m = gfilog(k)
      BY <2>6, <3>1
    <3>3. Polynomial(m) = TimesXPower[k][{0}]
      BY <3>1, <3>2, PowerTable
    <3>4. TimesXPower[k + 1][{0}] = TimesX(Polynomial(m))
      BY <3>1, <3>3, One, TimesXPowerDef
    <3>5. TimesXPower[255 + (k + 1)][{0}] = TimesXPower[255][TimesXPower[k + 1][{0}]]
      <4> DEFINE l == k + 1
      <4>1. 255 \in Nat /\ l \in Nat
        BY <3>1
      <4> HIDE DEF l
      <4>2. TimesXPower[255 + l][{0}] = TimesXPower[255][TimesXPower[l][{0}]]
        BY <4>1, One, TimesXPowerAdd
      <4> QED
        BY <4>2 DEF l
    <3>6. TimesXPower[k + 1][{0}] \in Polynomials
      BY <3>1, One, TimesXPowerDef
    <3>7. TimesXPower[i + j][{0}] = TimesX(Polynomial(m))
      BY <3>1, <3>4, <3>5, <3>6, Power255
    <3>8. ~Fits(a, b)
      BY <2>2, <2>5, <2>9
    <3> QED
      BY <2>4, <3>7, <3>8 DEF m
  <2> QED
    BY <2>2, <2>7, <2>8, <2>9
<1> QED
  BY <1>1, <1>2

\* mult_gf() multiplies: the sum of the two logarithms stays inside the
\* table.
LEMMA FitsProduct ==
  ASSUME NEW a \in BytesRange, NEW b \in BytesRange, Fits(a, b)
  PROVE  Polynomial(mult_gf(a, b)) = Mul(Polynomial(a), Polynomial(b))
<1>1. CASE a = 0 \/ b = 0
  <2>1. mult_gf(a, b) = 0
    BY <1>1 DEF mult_gf
  <2>2. Polynomial(a) \in Polynomials /\ Polynomial(b) \in Polynomials
    BY PolynomialBits DEF BytesRange
  <2> QED
    BY <1>1, <2>1, <2>2, PolynomialZero, MulEmpty, MulEmptyRight
<1>2. CASE a # 0 /\ b # 0
  <2>1. a \in 0 .. 254 /\ b \in 0 .. 254
    BY <1>2 DEF Fits, BytesRange
  <2> QED
    BY <2>1, Product
<1> QED
  BY <1>1, <1>2

\* mult_gf() of two bytes is a byte.
LEMMA MultGfType ==
  ASSUME beyond \in BytesRange, NEW a \in BytesRange, NEW b \in BytesRange
  PROVE  mult_gf(a, b) \in BytesRange
<1>1. CASE a = 0 \/ b = 0
  BY <1>1 DEF mult_gf, BytesRange
<1>2. CASE a # 0 /\ b # 0
  <2> DEFINE sum == (gflog(a) + gflog(b)) % 256
             k == IF sum >= 255 THEN sum - 255 ELSE sum
  <2>1. \A c \in BytesRange : c # 0 => gflog(c) \in Int
    <3> TAKE c \in BytesRange
    <3> SUFFICES ASSUME c # 0 PROVE gflog(c) \in Int
      OBVIOUS
    <3>1. CASE c = 255
      BY <3>1 DEF gflog, BytesRange
    <3>2. CASE c # 255
      <4>1. c \in 1 .. 254
        BY <3>2 DEF BytesRange
      <4>2. gflog(c) \in 0 .. 254
        BY <4>1, LogTable
      <4> HIDE DEF gflog
      <4> QED
        BY <4>2
    <3> QED
      BY <3>1, <3>2
  <2>2. sum \in 0 .. 255
    <3> DEFINE i == gflog(a)
               j == gflog(b)
    <3>1. i \in Int /\ j \in Int
      BY <1>2, <2>1
    <3> HIDE DEF i, j
    <3>2. (i + j) % 256 \in 0 .. 255
      BY <3>1
    <3> QED
      BY <3>2 DEF i, j
  <2>3. mult_gf(a, b) = gfilog(k)
    BY <1>2 DEF mult_gf
  <2> HIDE DEF sum
  <2>4. k \in 0 .. 254
    BY <2>2
  <2> HIDE DEF k
  <2> QED
    BY <2>3, <2>4, PowerTable
<1> QED
  BY <1>1, <1>2

-----------------------------------------------------------------------------
(* The encoder                                                              *)

\* The first n terms of the current row
Terms(n) ==
  [k \in 1 .. n |-> Mul(Power[k][Polynomial(matrix_pos_y)], Polynomial(column[k]))]

RsType ==
  /\ beyond \in BytesRange /\ matrix_pos_x \in BytesRange /\ d \in Nat /\ exact \in BOOLEAN
  /\ column \in Seq(BytesRange) /\ check \in Seq(BytesRange) /\ Len(check) <= CHECK_SYMBOLS
  /\ column = <<>> => check = <<>>
  /\ column # <<>> => Len(check) >= 1 /\ d >= 1 /\ d <= Len(column) + 1

\* While no sum has overflowed, the factor is the power d of the row's number
\* and the check byte is the sum over the disks before d.
RsInv ==
  /\ RsType
  /\ column # <<>> /\ exact =>
       /\ Polynomial(matrix_pos_x) = Power[d][Polynomial(matrix_pos_y)]
       /\ Polynomial(check[matrix_pos_y]) = Sum(Terms(d - 1))

\* RsInv holds before the first row.
LEMMA RsInvInit == RsInit => RsInv
BY DEF RsInit, RsInv, RsType, BytesRange, CHECK_SYMBOLS

\* The start of a row
LEMMA BeginRowStep ==
  ASSUME RsType, BeginRow, column' \in Seq(BytesRange), column' # <<>>, beyond' \in BytesRange,
         matrix_pos_y < CHECK_SYMBOLS
  PROVE  RsInv'
<1>1. /\ check' = Append(check, 0) /\ matrix_pos_x' = Len(check) + 1
      /\ d' = 1 /\ exact' = TRUE /\ check \in Seq(BytesRange) /\ Len(check) < 4
  BY DEF BeginRow, RsType, matrix_pos_y, CHECK_SYMBOLS
<1> DEFINE y == Len(check) + 1
<1>2. y \in 1 .. 4 /\ y \in BytesRange /\ 0 \in BytesRange /\ Len(check) \in Nat
  BY <1>1 DEF BytesRange
<1>3. check' \in Seq(BytesRange) /\ Len(check') = y /\ check'[y] = 0
  BY <1>1, <1>2
<1> HIDE DEF y
<1>4. RsType'
  <2>1. Len(column') \in Nat
    OBVIOUS
  <2>2. matrix_pos_x' \in BytesRange
    BY <1>1, <1>2 DEF y
  <2> QED
    BY <1>1, <1>2, <1>3, <2>1, <2>2 DEF RsType, CHECK_SYMBOLS
<1>5. Power[1][Polynomial(y)] = Polynomial(y)
  <2>1. Polynomial(y) \in Polynomials
    BY <1>2, PolynomialBits DEF BytesRange
  <2>2. Power[0 + 1][Polynomial(y)] = Mul(Polynomial(y), Power[0][Polynomial(y)])
    BY <2>1, PowerDef
  <2>3. 0 + 1 = 1 /\ Power[0][Polynomial(y)] = {0}
    BY <2>1, PowerDef
  <2> QED
    BY <2>1, <2>2, <2>3, One, MulCommutes
<1>6. Sum(Terms(0)') = {}
  <2>1. DOMAIN (Terms(0)') = {}
    BY DEF Terms
  <2> QED
    BY <2>1, SumEmpty
<1>7. /\ Polynomial(matrix_pos_x') = Power[d'][Polynomial(matrix_pos_y')]
      /\ Polynomial(check'[matrix_pos_y']) = Sum(Terms(d - 1)')
  <2>1. matrix_pos_x' = y /\ matrix_pos_y' = y /\ d' = 1
    BY <1>1, <1>3 DEF y, matrix_pos_y
  <2>2. Terms(d - 1)' = Terms(0)'
    BY <2>1 DEF Terms
  <2> QED
    BY <1>3, <1>5, <1>6, <2>1, <2>2, PolynomialZero
<1> QED
  BY <1>4, <1>7 DEF RsInv

\* A round of the inner loop
LEMMA RoundStep ==
  ASSUME RsInv, Round
  PROVE  RsInv'
<1> DEFINE y == Len(check)
           n == Len(column)
           x == matrix_pos_x
           v == column[d]
           old == check[y]
<1>1. /\ column # <<>> /\ d <= n
      /\ check' = [check EXCEPT ![y] = Xor(@, mult_gf(x, v))]
      /\ matrix_pos_x' = mult_gf(x, y) /\ d' = d + 1
      /\ exact' = (exact /\ Fits(x, v) /\ Fits(x, y))
      /\ column' = column /\ beyond' = beyond
  BY DEF Round, matrix_pos_y, high_disk
<1>2. /\ beyond \in BytesRange /\ x \in BytesRange /\ d \in Nat /\ exact \in BOOLEAN
      /\ column \in Seq(BytesRange) /\ check \in Seq(BytesRange) /\ y <= 4 /\ y >= 1 /\ d >= 1
      /\ n \in Nat /\ y \in Nat
  BY <1>1 DEF RsInv, RsType, CHECK_SYMBOLS
<1>3. d \in 1 .. n /\ v \in BytesRange /\ y \in BytesRange /\ old \in BytesRange /\ y \in 1 .. y
  <2>1. d \in 1 .. n /\ y \in 1 .. y /\ y \in 0 .. 255
    <3>1. d \in Nat /\ d >= 1 /\ d <= n /\ n \in Nat /\ y \in Nat /\ y >= 1 /\ y <= 4
      BY <1>1, <1>2
    <3> HIDE DEF y, n
    <3> QED
      BY <3>1
  <2>2. v \in BytesRange /\ old \in BytesRange
    BY <1>2, <2>1
  <2> QED
    BY <2>1, <2>2 DEF BytesRange
<1>4. mult_gf(x, v) \in BytesRange /\ mult_gf(x, y) \in BytesRange
  BY <1>2, <1>3, MultGfType
<1>5. check' \in Seq(BytesRange) /\ Len(check') = y /\ check'[y] = Xor(old, mult_gf(x, v))
  <2>1. Xor(old, mult_gf(x, v)) \in BytesRange
    BY <1>3, <1>4, XorByte
  <2> HIDE DEF BytesRange
  <2> QED
    BY <1>1, <1>2, <1>3, <2>1
<1>6. RsType'
  <2>1. d' \in Nat /\ d' >= 1 /\ d' <= n + 1
    BY <1>1, <1>2, <1>3
  <2>2. exact' \in BOOLEAN
    BY <1>1
  <2> QED
    BY <1>1, <1>2, <1>4, <1>5, <2>1, <2>2 DEF RsType, CHECK_SYMBOLS
<1>7. ASSUME exact'
      PROVE  /\ Polynomial(matrix_pos_x') = Power[d'][Polynomial(matrix_pos_y')]
             /\ Polynomial(check'[matrix_pos_y']) = Sum(Terms(d - 1)')
  <2>1. exact /\ Fits(x, v) /\ Fits(x, y)
    BY <1>1, <1>7
  <2>2. /\ Polynomial(x) = Power[d][Polynomial(y)]
        /\ Polynomial(old) = Sum(Terms(d - 1))
    BY <1>1, <2>1 DEF RsInv, matrix_pos_y
  <2>3. matrix_pos_y' = y /\ matrix_pos_y = y
    BY <1>5 DEF matrix_pos_y
  <2>4. Polynomial(x) \in Polynomials /\ Polynomial(y) \in Polynomials
    BY <1>2, <1>3, PolynomialBits DEF BytesRange
  <2>5. Polynomial(matrix_pos_x') = Power[d'][Polynomial(y)]
    <3>1. Polynomial(matrix_pos_x') = Mul(Polynomial(x), Polynomial(y))
      BY <1>1, <1>2, <1>3, <2>1, FitsProduct
    <3>2. Power[d + 1][Polynomial(y)] = Mul(Polynomial(y), Power[d][Polynomial(y)])
      BY <1>2, <2>4, PowerDef
    <3> QED
      BY <1>1, <2>2, <2>4, <3>1, <3>2, MulCommutes
  <2>6. Polynomial(check'[y]) = Plus(Sum(Terms(d - 1)), Mul(Polynomial(x), Polynomial(v)))
    <3>1. Polynomial(check'[y]) = Plus(Polynomial(old), Polynomial(mult_gf(x, v)))
      BY <1>3, <1>4, <1>5, XorByte
    <3>2. Polynomial(mult_gf(x, v)) = Mul(Polynomial(x), Polynomial(v))
      BY <1>2, <1>3, <2>1, FitsProduct
    <3> QED
      BY <2>2, <3>1, <3>2
  <2>7. Sum(Terms(d)) = Plus(Sum(Terms(d - 1)), Mul(Polynomial(x), Polynomial(v)))
    <3> DEFINE m == d - 1
               f == Terms(d)
               g == Terms(m)
               Term(k) == Mul(Power[k][Polynomial(y)], Polynomial(column[k]))
    <3>1. m \in Nat /\ d = m + 1 /\ d \in 1 .. d
      BY <1>2
    <3>2. f = [k \in 1 .. d |-> Term(k)] /\ g = [k \in 1 .. m |-> Term(k)]
      BY <2>3 DEF Terms
    <3>3. \A k : Term(k) \in Polynomials
      BY MulType
    <3>4. Term(d) = Mul(Polynomial(x), Polynomial(v))
      BY <2>2
    <3> HIDE DEF Term, m
    <3>5. f[d] = Term(d) /\ f \in [1 .. m + 1 -> Polynomials] /\ g \in [1 .. m -> Polynomials]
      BY <3>1, <3>2, <3>3
    <3>6. \A k \in 1 .. m : f[k] = g[k]
      BY <3>1, <3>2
    <3> HIDE DEF f, g
    <3>7. Sum(f) = Plus(Sum(g), f[m + 1])
      BY <3>1, <3>5, <3>6, SumNext
    <3>8. Sum(f) = Plus(Sum(g), Mul(Polynomial(x), Polynomial(v)))
      BY <3>1, <3>4, <3>5, <3>7
    <3> QED
      BY <3>8 DEF f, g, m
  <2>8. Terms(d - 1)' = Terms(d)
    <3>1. (d + 1) - 1 = d
      BY <1>2
    <3> QED
      BY <1>1, <2>3, <3>1 DEF Terms
  <2> QED
    BY <2>3, <2>5, <2>6, <2>7, <2>8
<1> QED
  BY <1>6, <1>7 DEF RsInv

\* Every step of the encoder preserves RsInv.
LEMMA RsInvStep == RsInv /\ [RsNext]_rsVars => RsInv'
<1> SUFFICES ASSUME RsInv, [RsNext]_rsVars PROVE RsInv'
  OBVIOUS
<1>1. ASSUME NEW n \in HighDisks, NEW bytes \in [1 .. n -> DataBytes], NEW behind \in LogBeyond,
             RsCall(bytes, behind)
      PROVE  RsInv'
  <2>1. column = <<>> /\ column' = bytes /\ beyond' = behind /\ BeginRow
    BY <1>1 DEF RsCall
  <2>2. n \in Nat /\ n >= 1 /\ behind \in BytesRange
    BY RsAssumption DEF BytesRange
  <2>3. column' \in Seq(BytesRange) /\ column' # <<>>
    <3>1. bytes \in [1 .. n -> BytesRange]
      BY RsAssumption DEF BytesRange
    <3>2. bytes \in Seq(BytesRange) /\ Len(bytes) = n
      BY <2>2, <3>1
    <3> QED
      BY <2>1, <2>2, <3>2
  <2>4. RsType /\ matrix_pos_y < CHECK_SYMBOLS
    BY <2>1 DEF RsInv, RsType, matrix_pos_y, CHECK_SYMBOLS
  <2> QED
    BY <2>1, <2>2, <2>3, <2>4, BeginRowStep
<1>2. CASE Round
  BY <1>2, RoundStep
<1>3. CASE NextRow
  <2>1. column # <<>> /\ matrix_pos_y < CHECK_SYMBOLS /\ BeginRow /\ column' = column /\ beyond' = beyond
    BY <1>3 DEF NextRow
  <2> QED
    BY <2>1, BeginRowStep DEF RsInv, RsType
<1>4. CASE RsReturn
  BY <1>4 DEF RsReturn, RsInv, RsType, BytesRange, CHECK_SYMBOLS
<1>5. CASE UNCHANGED rsVars
  BY <1>5 DEF rsVars, RsInv, RsType, Terms, matrix_pos_y, CHECK_SYMBOLS
<1> QED
  BY <1>1, <1>2, <1>3, <1>4, <1>5 DEF RsNext

\* For every number of disks and all data bytes: a row in which no sum of
\* logarithms has overflowed is the Reed-Solomon sum of the row.
THEOREM RowsExactHolds == RsSpec => []RowsExact
<1>1. ASSUME RsInv PROVE RowsExact
  <2> SUFFICES ASSUME column # <<>>, d > high_disk, exact
               PROVE  Polynomial(check[matrix_pos_y]) = Sum(Terms(high_disk))
    BY DEF RowsExact, RowSum, Terms
  <2>1. d - 1 = high_disk
    BY <1>1 DEF RsInv, RsType, high_disk
  <2> QED
    BY <1>1, <2>1 DEF RsInv
<1> QED
  BY <1>1, RsInvInit, RsInvStep, PTL DEF RsSpec
=============================================================================
