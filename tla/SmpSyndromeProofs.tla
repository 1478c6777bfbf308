-------------------------- MODULE SmpSyndromeProofs --------------------------
(***************************************************************************)
(* Proofs about the SMP implementation, for every number of bytes, of      *)
(* threads and of bytes per word.                                          *)
(*                                                                         *)
(* The inductive invariant says how far each thread has come (Progress)    *)
(* and which threads exist at each point of raid6_smp_gen_syndrome()       *)
(* (MainInv).  That the shares cover the stripe is a fact about division,  *)
(* lemma SharesCover.                                                      *)
(***************************************************************************)
EXTENDS SmpSyndrome, TLAPS

\* Which threads have been created, and which have been joined.
MainInv ==
  /\ main = "idle" => i = 0 /\ p = {} /\ q = {} /\ \A t \in Workers : tpc[t] = "none"
  /\ main = "create" => \A t \in Workers : tpc[t] = "none" <=> t >= i
  /\ main = "join" => \A t \in Workers : tpc[t] # "none" /\ (t < i => tpc[t] = "done")
  /\ main = "returned" => \A t \in Workers : tpc[t] = "done"

\* What a thread has stored of its share.
Progress(t) ==
  /\ tpc[t] # "none" =>
       /\ start(t) <= offset[t]
       /\ start(t) .. offset[t] - 1 \subseteq p \cap q
  /\ tpc[t] \in {"p", "q"} => offset[t] < stop(t)
  /\ tpc[t] = "q" => Word(offset[t]) \subseteq p
  /\ tpc[t] = "done" => stop(t) <= offset[t]

\* In whole-word shares a thread is always at the beginning of a word.
Aligned(t) ==
  bytes % (number_of_threads * NSIZE) = 0 /\ tpc[t] # "none" =>
    \E k \in Nat : offset[t] = NSIZE * k

IndInv ==
  /\ SmpTypeOK
  /\ MainInv
  /\ \A t \in Workers : Progress(t) /\ Aligned(t)
  /\ StoresBounded
  /\ StoresInside

-----------------------------------------------------------------------------
(* Arithmetic                                                               *)

\* A share that ends with thread t < n ends within n shares.
LEMMA MulMono ==
  ASSUME NEW c \in Nat, NEW t \in Nat, NEW n \in Nat, t < n
  PROVE  c * t + c <= c * n
<1> DEFINE k == n - t - 1
<1>1. k \in Nat /\ n = t + 1 + k
  OBVIOUS
<1> HIDE DEF k
<1>2. c * n = c * t + c + c * k
  BY <1>1
<1>3. c * k \in Nat
  BY <1>1
<1> QED
  BY <1>1, <1>2, <1>3

\* A product of naturals is a natural.
LEMMA MulNat ==
  ASSUME NEW a \in Nat, NEW b \in Nat
  PROVE  a * b \in Nat
OBVIOUS

\* The quotient of a division and its remainder.
LEMMA DivBounds ==
  ASSUME NEW b \in Nat, NEW n \in Nat \ {0}
  PROVE  /\ b \div n \in Nat
         /\ n * (b \div n) <= b
         /\ b < n * (b \div n) + n
OBVIOUS

\* A division without remainder.
LEMMA ModZero ==
  ASSUME NEW b \in Nat, NEW m \in Nat \ {0}, b % m = 0
  PROVE  \E k \in Nat : b = m * k
<1>1. b = m * (b \div m) + (b % m)
  OBVIOUS
<1>2. b \div m \in Nat /\ b = m * (b \div m)
  BY <1>1, DivBounds
<1> QED
  BY <1>2

\* Dividing a multiple gives the factor back.
LEMMA DivExact ==
  ASSUME NEW n \in Nat \ {0}, NEW k \in Nat
  PROVE  (n * k) \div n = k
<1>1. n * k \in Nat
  BY MulNat
<1> DEFINE x == (n * k) \div n
<1>2. x \in Nat /\ n * x <= n * k /\ n * k < n * x + n
  BY <1>1, DivBounds
<1> HIDE DEF x
<1>3. CASE x < k
  <2>1. n * x + n <= n * k
    BY <1>2, <1>3, MulMono
  <2> QED
    BY <1>2, <2>1, MulNat
<1>4. CASE k < x
  <2>1. n * k + n <= n * x
    BY <1>2, <1>4, MulMono
  <2>2. n * k \in Nat /\ n * x \in Nat
    BY <1>2, MulNat
  <2> QED
    BY <1>2, <2>1, <2>2
<1> QED
  BY <1>2, <1>3, <1>4 DEF x

-----------------------------------------------------------------------------
(* The shares                                                               *)

\* The share of every thread lies in the stripe.
LEMMA ShareInside ==
  ASSUME SmpTypeOK, NEW t \in Workers
  PROVE  /\ start(t) \in Nat /\ stop(t) \in Nat
         /\ stop(t) <= bytes
<1> DEFINE c == bytes \div number_of_threads
<1>1. bytes \in Nat /\ number_of_threads \in Nat \ {0} /\ t \in Nat /\ t < number_of_threads
  BY SmpAssumption DEF SmpTypeOK, Workers
<1>2. c \in Nat /\ number_of_threads * c <= bytes
  BY <1>1, DivBounds
<1> HIDE DEF c
<1>3. c * t \in Nat /\ c * t + c <= c * number_of_threads
  BY <1>1, <1>2, MulMono, MulNat
<1>4. c * number_of_threads = number_of_threads * c
  BY <1>1, <1>2
<1>5. start(t) = c * t /\ stop(t) \in {bytes, c * t + c}
  BY DEF start, stop, c
<1> QED
  BY <1>1, <1>2, <1>3, <1>4, <1>5

\* Every byte of the stripe lies in the share of some thread.
LEMMA SharesCover ==
  ASSUME SmpTypeOK, NEW b \in 0 .. bytes - 1
  PROVE  \E t \in Workers : start(t) <= b /\ b < stop(t)
<1> DEFINE c == bytes \div number_of_threads
           last == number_of_threads - 1
<1>1. bytes \in Nat /\ number_of_threads \in Nat \ {0} /\ b \in Nat /\ b < bytes
  BY SmpAssumption DEF SmpTypeOK
<1>2. c \in Nat /\ last \in Nat /\ last \in Workers
  BY <1>1, DivBounds DEF Workers
<1>3. \A t : start(t) = c * t
  BY DEF start
<1>4. \A t \in Workers : t # last => stop(t) = c * t + c
  BY <1>1 DEF stop, start, Workers
<1>5. stop(last) = bytes
  BY <1>1 DEF stop
<1> HIDE DEF c, last
<1>6. CASE c * last <= b
  BY <1>1, <1>2, <1>3, <1>5, <1>6
<1>7. CASE ~(c * last <= b)
  <2>1. c * last \in Nat /\ b < c * last
    BY <1>1, <1>2, <1>7, MulNat
  <2>2. c # 0
    BY <1>1, <1>2, <2>1
  <2> DEFINE t == b \div c
  <2>3. t \in Nat /\ c * t <= b /\ b < c * t + c
    BY <1>1, <1>2, <2>2, DivBounds
  <2> HIDE DEF t
  <2>4. t < last
    <3> SUFFICES ASSUME ~(t < last) PROVE FALSE
      OBVIOUS
    <3>1. CASE t = last
      BY <2>1, <2>3, <3>1
    <3>2. CASE last < t
      <4>1. c * last + c <= c * t
        BY <1>2, <2>3, <3>2, MulMono
      <4>2. c * t \in Nat
        BY <1>2, <2>3, MulNat
      <4> QED
        BY <1>1, <1>2, <2>1, <2>3, <4>1, <4>2
    <3> QED
      BY <1>2, <2>3, <3>1, <3>2
  <2>5. t \in Workers /\ t # last
    BY <1>1, <1>2, <2>3, <2>4 DEF Workers, last
  <2> QED
    BY <1>3, <1>4, <2>3, <2>5
<1> QED
  BY <1>6, <1>7

\* In whole-word shares every share begins, and the stripe ends, at a word.
LEMMA SharesAligned ==
  ASSUME SmpTypeOK, bytes % (number_of_threads * NSIZE) = 0, NEW t \in Workers
  PROVE  /\ \E k \in Nat : start(t) = NSIZE * k
         /\ \E k \in Nat : bytes = NSIZE * k
<1> DEFINE n == number_of_threads
<1>1. bytes \in Nat /\ n \in Nat \ {0} /\ NSIZE \in Nat \ {0} /\ t \in Nat
  BY SmpAssumption DEF SmpTypeOK, Workers
<1> HIDE DEF n
<1>2. n * NSIZE \in Nat \ {0}
  BY <1>1
<1>3. PICK k \in Nat : bytes = (n * NSIZE) * k
  BY <1>1, <1>2, ModZero DEF n
<1>4. NSIZE * k \in Nat /\ n * k \in Nat
  BY <1>1, MulNat
<1>5. bytes = n * (NSIZE * k) /\ bytes = NSIZE * (n * k)
  BY <1>1, <1>3
<1>6. bytes \div n = NSIZE * k
  BY <1>1, <1>4, <1>5, DivExact
<1>7. start(t) = (NSIZE * k) * t
  BY <1>6 DEF start, n
<1>8. k * t \in Nat /\ (NSIZE * k) * t = NSIZE * (k * t)
  BY <1>1, MulNat
<1> QED
  BY <1>4, <1>5, <1>7, <1>8

\* A word that begins before a word boundary ends before it.
LEMMA WordInside ==
  ASSUME NEW N \in Nat \ {0}, NEW x \in Nat, NEW k \in Nat, NEW m \in Nat,
         x = N * k, x < N * m
  PROVE  x + N <= N * m
<1>1. k < m
  <2> SUFFICES ASSUME m <= k PROVE FALSE
    OBVIOUS
  <2>1. CASE m = k
    BY <2>1
  <2>2. CASE m < k
    <3>1. N * m + N <= N * k
      BY <2>2, MulMono
    <3>2. N * m \in Nat
      BY MulNat
    <3> QED
      BY <3>1, <3>2
  <2> QED
    BY <2>1, <2>2
<1> QED
  BY <1>1, MulMono

-----------------------------------------------------------------------------
(* Invariance                                                               *)

\* Before the call there is no thread and nothing stored.
LEMMA InitInv == SmpInit => IndInv
<1> SUFFICES ASSUME SmpInit PROVE IndInv
  OBVIOUS
<1> USE SmpAssumption
<1>1. SmpTypeOK
  BY DEF SmpInit, SmpTypeOK, Workers
<1>2. MainInv
  BY <1>1 DEF SmpInit, MainInv, Workers, SmpTypeOK
<1>3. \A t \in Workers : Progress(t) /\ Aligned(t)
  BY <1>2 DEF SmpInit, MainInv, Progress, Aligned
<1>4. StoresBounded /\ StoresInside
  BY DEF SmpInit, StoresBounded, StoresInside
<1> QED
  BY <1>1, <1>2, <1>3, <1>4 DEF IndInv

\* A call begins with no thread and nothing stored.
LEMMA BeginStep ==
  ASSUME IndInv, NEW n \in StripeSizes, NEW cpus \in CpuCounts, SmpBegin(n, cpus)
  PROVE  IndInv'
<1> USE SmpAssumption
<1>1. i = 0 /\ p = {} /\ q = {}
  BY DEF IndInv, MainInv, SmpBegin
<1>2. Workers' = 0 .. cpus - 1 /\ \A t \in Workers' : tpc'[t] = "none"
  BY DEF SmpBegin, Workers
<1>3. SmpTypeOK'
  BY <1>1, <1>2 DEF SmpBegin, SmpTypeOK
<1>4. MainInv'
  <2>1. main' = "create" /\ i' = 0 /\ \A t \in Workers' : t >= i'
    BY <1>1, <1>2 DEF SmpBegin
  <2> QED
    BY <1>2, <2>1 DEF MainInv
<1>5. \A t \in Workers' : Progress(t)' /\ Aligned(t)'
  BY <1>2 DEF Progress, Aligned
<1>6. StoresBounded' /\ StoresInside'
  BY <1>1 DEF SmpBegin, StoresBounded, StoresInside
<1> QED
  BY <1>3, <1>4, <1>5, <1>6 DEF IndInv

\* Every step of the calling thread keeps the invariant.
LEMMA MainStep ==
  ASSUME IndInv, Main \/ CreateError \/ UNCHANGED smpVars
  PROVE  IndInv'
<1> USE SmpAssumption
<1>0. SmpTypeOK /\ MainInv /\ (\A t \in Workers : Progress(t) /\ Aligned(t))
      /\ StoresBounded /\ StoresInside
  BY DEF IndInv
<1>1. CASE Create
  <2>1. i \in Workers /\ i \in Nat /\ Workers' = Workers
    BY <1>0, <1>1 DEF Create, SmpTypeOK, Workers, smpCall
  <2>2. start(i) \in Nat /\ stop(i) \in Nat
    BY <1>0, <2>1, ShareInside
  <2>3. SmpTypeOK'
    BY <1>0, <1>1, <2>1, <2>2 DEF Create, SmpTypeOK, Workers, smpCall
  <2>4. MainInv'
    BY <1>0, <1>1, <2>1 DEF Create, MainInv, SmpTypeOK, Workers, smpCall
  <2>5. ASSUME NEW t \in Workers PROVE Progress(t)' /\ Aligned(t)'
    <3>1. CASE t = i
      <4>1. tpc'[t] = "loop" /\ offset'[t] = start(t) /\ start(t)' = start(t)
        BY <1>0, <1>1, <2>1, <3>1 DEF Create, SmpTypeOK, start, smpCall
      <4>2. Progress(t)'
        BY <2>2, <3>1, <4>1 DEF Progress
      <4>3. Aligned(t)'
        BY <1>0, <1>1, <4>1, SharesAligned DEF Aligned, Create, smpCall
      <4> QED
        BY <4>2, <4>3
    <3>2. CASE t # i
      <4>1. tpc'[t] = tpc[t] /\ offset'[t] = offset[t]
        BY <1>0, <1>1, <3>2 DEF Create, SmpTypeOK
      <4> QED
        BY <1>0, <1>1, <4>1 DEF Create, Progress, Aligned, start, stop, smpCall, Word
    <3> QED
      BY <3>1, <3>2
  <2>6. StoresBounded' /\ StoresInside'
    BY <1>0, <1>1 DEF Create, StoresBounded, StoresInside, smpCall
  <2> QED
    BY <2>1, <2>3, <2>4, <2>5, <2>6 DEF IndInv
<1>2. CASE CreateError
  <2>1. SmpTypeOK' /\ MainInv'
    BY <1>0, <1>2 DEF CreateError, SmpTypeOK, MainInv, Workers, smpCall
  <2>2. \A t \in Workers' : Progress(t)' /\ Aligned(t)'
    BY <1>2 DEF CreateError, Progress, Aligned, Workers, smpCall
  <2>3. StoresBounded' /\ StoresInside'
    BY <1>0, <1>2 DEF CreateError, StoresBounded, StoresInside, smpCall
  <2> QED
    BY <2>1, <2>2, <2>3 DEF IndInv
<1>3. CASE CreateDone \/ Join \/ Return \/ UNCHANGED smpVars
  <2>1. UNCHANGED <<bytes, number_of_threads, tpc, offset, p, q>>
    BY <1>3 DEF CreateDone, Join, Return, smpVars, smpCall
  <2>2. SmpTypeOK' /\ MainInv'
    <3>1. CASE CreateDone
      BY <1>0, <3>1 DEF CreateDone, SmpTypeOK, MainInv, Workers, smpCall
    <3>2. CASE Join
      BY <1>0, <3>2 DEF Join, SmpTypeOK, MainInv, Workers, smpCall
    <3>3. CASE Return
      BY <1>0, <3>3 DEF Return, SmpTypeOK, MainInv, Workers, smpCall
    <3>4. CASE UNCHANGED smpVars
      BY <1>0, <3>4 DEF smpVars, SmpTypeOK, MainInv, Workers
    <3> QED
      BY <1>3, <3>1, <3>2, <3>3, <3>4
  <2>3. \A t \in Workers' : Progress(t)' /\ Aligned(t)'
    BY <1>0, <2>1 DEF Progress, Aligned, Workers, start, stop, Word
  <2>4. StoresBounded' /\ StoresInside'
    BY <1>0, <2>1 DEF StoresBounded, StoresInside
  <2> QED
    BY <2>2, <2>3, <2>4 DEF IndInv
<1> QED
  BY <1>1, <1>2, <1>3 DEF Main

\* Every step of a thread keeps the invariant.
LEMMA ThreadStep ==
  ASSUME IndInv, NEW t \in Workers, Thread(t)
  PROVE  IndInv'
<1> USE SmpAssumption
<1>0. SmpTypeOK /\ MainInv /\ (\A u \in Workers : Progress(u) /\ Aligned(u))
      /\ StoresBounded /\ StoresInside
  BY DEF IndInv
<1>1. bytes \in Nat /\ NSIZE \in Nat \ {0} /\ offset[t] \in Nat /\ start(t) \in Nat
      /\ stop(t) \in Nat /\ stop(t) <= bytes
  BY <1>0, ShareInside DEF SmpTypeOK
<1>2. Workers' = Workers /\ bytes' = bytes /\ number_of_threads' = number_of_threads
      /\ main' = main /\ i' = i
  BY DEF Thread, Loop, StoreP, StoreQ, Workers, smpCall
<1>3. \A u : start(u)' = start(u) /\ stop(u)' = stop(u)
  BY <1>2 DEF start, stop
<1>4. tpc[t] \notin {"none", "done"}
  BY DEF Thread, Loop, StoreP, StoreQ
<1>5. Progress(t) /\ Aligned(t)
  BY <1>0
\* The word at d[t] lies within the bounds of the blocks.
<1>6. ASSUME tpc[t] \in {"p", "q"}
      PROVE  /\ Word(offset[t]) \subseteq 0 .. bytes + NSIZE - 2
             /\ bytes % (number_of_threads * NSIZE) = 0 => Word(offset[t]) \subseteq 0 .. bytes - 1
  <2>1. offset[t] < bytes
    BY <1>1, <1>5, <1>6 DEF Progress
  <2>2. Word(offset[t]) \subseteq 0 .. bytes + NSIZE - 2
    BY <1>1, <2>1 DEF Word
  <2>3. ASSUME bytes % (number_of_threads * NSIZE) = 0 PROVE Word(offset[t]) \subseteq 0 .. bytes - 1
    <3>1. PICK k \in Nat : offset[t] = NSIZE * k
      BY <1>5, <1>6, <2>3 DEF Aligned
    <3>2. PICK m \in Nat : bytes = NSIZE * m
      BY <1>0, <2>3, SharesAligned
    <3>3. offset[t] + NSIZE <= bytes
      BY <1>1, <2>1, <3>1, <3>2, WordInside
    <3> QED
      BY <1>1, <3>3 DEF Word
  <2> QED
    BY <2>2, <2>3
<1>7. CASE Loop(t)
  <2>1. SmpTypeOK' /\ MainInv'
    BY <1>0, <1>2, <1>4, <1>7 DEF Loop, SmpTypeOK, MainInv, Workers, smpCall
  <2>2. ASSUME NEW u \in Workers PROVE Progress(u)' /\ Aligned(u)'
    <3>1. offset' = offset /\ p' = p /\ q' = q
      BY <1>7 DEF Loop
    <3>2. CASE u = t
      <4>1. tpc'[t] = IF offset[t] < stop(t) THEN "p" ELSE "done"
        BY <1>0, <1>7 DEF Loop, SmpTypeOK
      <4>2. Progress(t)'
        BY <1>1, <1>3, <1>4, <1>5, <3>1, <4>1 DEF Progress
      <4> QED
        BY <1>2, <1>4, <1>5, <3>1, <3>2, <4>2 DEF Aligned
    <3>3. CASE u # t
      <4>1. tpc'[u] = tpc[u]
        BY <1>0, <1>7, <3>3 DEF Loop, SmpTypeOK
      <4> QED
        BY <1>0, <1>2, <1>3, <3>1, <4>1 DEF Progress, Aligned, Word
    <3> QED
      BY <3>2, <3>3
  <2>3. StoresBounded' /\ StoresInside'
    BY <1>0, <1>2, <1>7 DEF Loop, StoresBounded, StoresInside
  <2> QED
    BY <1>2, <2>1, <2>2, <2>3 DEF IndInv
<1>8. CASE StoreP(t)
  <2>1. SmpTypeOK' /\ MainInv'
    <3>1. Word(offset[t]) \subseteq Nat
      BY <1>1 DEF Word
    <3>2. SmpTypeOK'
      BY <1>0, <1>1, <1>2, <1>8, <3>1 DEF StoreP, SmpTypeOK
    <3>3. MainInv'
      BY <1>0, <1>2, <1>4, <1>8 DEF StoreP, SmpTypeOK, MainInv
    <3> QED
      BY <3>2, <3>3
  <2>2. ASSUME NEW u \in Workers PROVE Progress(u)' /\ Aligned(u)'
    <3>1. offset' = offset /\ p' = p \cup Word(offset[t]) /\ q' = q
      BY <1>8 DEF StoreP
    <3>2. CASE u = t
      <4>1. tpc[t] = "p" /\ tpc'[t] = "q"
        BY <1>0, <1>8 DEF StoreP, SmpTypeOK
      <4>2. Progress(t)'
        BY <1>3, <1>5, <3>1, <4>1 DEF Progress, Word
      <4> QED
        BY <1>2, <1>5, <3>1, <3>2, <4>1, <4>2 DEF Aligned
    <3>3. CASE u # t
      <4>1. tpc'[u] = tpc[u]
        BY <1>0, <1>8, <3>3 DEF StoreP, SmpTypeOK
      <4>2. Progress(u) /\ Aligned(u)
        BY <1>0
      <4>3. Progress(u)'
        BY <1>3, <3>1, <4>1, <4>2 DEF Progress, Word
      <4> QED
        BY <1>2, <3>1, <4>1, <4>2, <4>3 DEF Aligned
    <3> QED
      BY <3>2, <3>3
  <2>3. tpc[t] \in {"p", "q"}
    BY <1>8 DEF StoreP
  <2>4. StoresBounded' /\ StoresInside'
    BY <1>0, <1>2, <1>6, <1>8, <2>3 DEF StoreP, StoresBounded, StoresInside
  <2> QED
    BY <1>2, <2>1, <2>2, <2>4 DEF IndInv
<1>9. CASE StoreQ(t)
  <2>0. tpc[t] = "q" /\ tpc'[t] = "loop" /\ offset'[t] = offset[t] + NSIZE /\ q' = q \cup Word(offset[t]) /\ p' = p
    BY <1>0, <1>9 DEF StoreQ, SmpTypeOK
  <2>1. SmpTypeOK' /\ MainInv'
    <3>1. Word(offset[t]) \subseteq Nat
      BY <1>1 DEF Word
    <3>2. SmpTypeOK'
      <4>1. q' \subseteq Nat /\ p' \subseteq Nat
        BY <1>0, <2>0, <3>1 DEF SmpTypeOK
      <4>2. offset[t] + NSIZE \in Nat
        BY <1>1
      <4>3. offset' \in [Workers -> Nat]
        BY <1>0, <1>9, <4>2 DEF StoreQ, SmpTypeOK
      <4>4. tpc' \in [Workers -> {"none", "loop", "p", "q", "done"}]
        BY <1>0, <1>9 DEF StoreQ, SmpTypeOK
      <4> QED
        BY <1>0, <1>2, <4>1, <4>3, <4>4 DEF SmpTypeOK
    <3>3. MainInv'
      BY <1>0, <1>2, <1>4, <1>9 DEF StoreQ, SmpTypeOK, MainInv
    <3> QED
      BY <3>2, <3>3
  <2>2. ASSUME NEW u \in Workers PROVE Progress(u)' /\ Aligned(u)'
    <3>1. CASE u = t
      <4>1. start(t) .. offset'[t] - 1 \subseteq (start(t) .. offset[t] - 1) \cup Word(offset[t])
        BY <1>1, <2>0 DEF Word
      <4>2. start(t) .. offset'[t] - 1 \subseteq p' \cap q'
        BY <1>5, <2>0, <4>1 DEF Progress
      <4>3. Progress(t)'
        BY <1>1, <1>3, <1>5, <2>0, <4>2 DEF Progress
      <4>4. Aligned(t)'
        <5> SUFFICES ASSUME bytes % (number_of_threads * NSIZE) = 0
                     PROVE  \E k \in Nat : offset'[t] = NSIZE * k
          BY <1>2 DEF Aligned
        <5>1. PICK k \in Nat : offset[t] = NSIZE * k
          BY <1>5, <2>0 DEF Aligned
        <5>2. k + 1 \in Nat /\ offset'[t] = NSIZE * (k + 1)
          BY <1>1, <2>0, <5>1
        <5> QED
          BY <5>2
      <4> QED
        BY <3>1, <4>3, <4>4
    <3>2. CASE u # t
      <4>1. tpc'[u] = tpc[u] /\ offset'[u] = offset[u]
        BY <1>0, <1>9, <3>2 DEF StoreQ, SmpTypeOK
      <4>2. Progress(u) /\ Aligned(u)
        BY <1>0
      <4>3. Progress(u)'
        BY <1>3, <2>0, <4>1, <4>2 DEF Progress, Word
      <4> QED
        BY <1>2, <4>1, <4>2, <4>3 DEF Aligned
    <3> QED
      BY <3>1, <3>2
  <2>3. StoresBounded' /\ StoresInside'
    BY <1>0, <1>2, <1>6, <2>0 DEF StoresBounded, StoresInside
  <2> QED
    BY <1>2, <2>1, <2>2, <2>3 DEF IndInv
<1> QED
  BY <1>7, <1>8, <1>9 DEF Thread

\* The inductive invariant of a call of raid6_smp_gen_syndrome().
THEOREM Invariance == SmpSpec => []IndInv
<1>1. SmpInit => IndInv
  BY InitInv
<1>2. IndInv /\ [SmpNext]_smpVars => IndInv'
  BY BeginStep, MainStep, ThreadStep DEF SmpNext
<1> QED
  BY <1>1, <1>2, PTL DEF SmpSpec

\* The type invariant holds in every call of raid6_smp_gen_syndrome().
THEOREM TypeCorrect == SmpSpec => []SmpTypeOK
<1>1. IndInv => SmpTypeOK
  BY DEF IndInv
<1> QED
  BY <1>1, Invariance, PTL

\* Whatever the size of the stripe and the number of CPUs, when
\* raid6_smp_gen_syndrome() has joined its threads every byte of both parity
\* blocks has been stored.
THEOREM ReturnIsComplete == SmpSpec => []ReturnCovers
<1>1. IndInv => ReturnCovers
  <2> SUFFICES ASSUME IndInv, main = "returned", NEW b \in 0 .. bytes - 1
               PROVE  b \in p \cap q
    BY DEF ReturnCovers
  <2>1. SmpTypeOK /\ MainInv /\ (\A t \in Workers : Progress(t))
    BY DEF IndInv
  <2>2. PICK t \in Workers : start(t) <= b /\ b < stop(t)
    BY <2>1, SharesCover
  <2>3. tpc[t] = "done" /\ stop(t) <= offset[t] /\ start(t) .. offset[t] - 1 \subseteq p \cap q
    BY <2>1 DEF MainInv, Progress
  <2>4. offset[t] \in Nat /\ start(t) \in Nat /\ stop(t) \in Nat /\ b \in Nat
    BY <2>1, ShareInside DEF SmpTypeOK
  <2>5. b \in start(t) .. offset[t] - 1
    BY <2>2, <2>3, <2>4
  <2> QED
    BY <2>3, <2>5
<1> QED
  BY <1>1, Invariance, PTL

\* No thread of proc_thread_dep_syndrome() stores a whole word or more behind
\* the end of the parity blocks.
THEOREM OverrunBounded == SmpSpec => []StoresBounded
<1>1. IndInv => StoresBounded
  BY DEF IndInv
<1> QED
  BY <1>1, Invariance, PTL

\* With shares of whole words nothing is stored behind the parity blocks.
THEOREM WholeWordsInside == SmpSpec => []StoresInside
<1>1. IndInv => StoresInside
  BY DEF IndInv
<1> QED
  BY <1>1, Invariance, PTL
=============================================================================
