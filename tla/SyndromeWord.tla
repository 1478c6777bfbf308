---------------------------- MODULE SyndromeWord ----------------------------
(***************************************************************************)
(* What gen_syndrome() computes: the loop over the data disks for one word *)
(* of the stripe, as raid6_vanilla_gen_syndrome() (SOFT) has it, and with  *)
(* the same words proc_thread_dep_syndrome() (SMP), and as a thread of     *)
(* syndrome_block() (CUDA) has it on the card.                             *)
(*                                                                         *)
(* The loop treats the bytes of a word at the same time, with arithmetic   *)
(* modulo the word's size.  The reference computes in GF(2^8) (module      *)
(* Gf256), byte by byte:                                                   *)
(*     P = sum of D_z,   Q = sum of 2^z * D_z.                             *)
(* A word is the set of the positions of its 1 bits.                       *)
(***************************************************************************)
EXTENDS Integers, Sequences, Gf256

CONSTANTS
  WordBytes,   \* bytes of a word (8 in the code)
  DataWords,   \* the words that occur on the data disks
  Leftovers,   \* what the card's shared memory may hold before a kernel
  MaxDisks     \* bound on the number of data disks

Bits == 0 .. 8 * WordBytes - 1
Words == SUBSET Bits

ASSUME WordAssumption ==
  /\ WordBytes \in Nat \ {0}
  /\ DataWords \subseteq Words
  /\ Leftovers \subseteq Words
  /\ MaxDisks \in Nat \ {0}

VARIABLES
  onCard,      \* the loop is the one of syndrome_block()
  data,        \* the words read so far, from the highest data disk down
  wp0, wq0,    \* the accumulators of P and Q
  w20          \* the mask; syndrome_block() reads it and never writes it first

wordVars == <<onCard, data, wp0, wq0, w20>>

-----------------------------------------------------------------------------
(* The words of the code                                                    *)

Positions == 1 .. WordBytes

ShiftLeft(v, k) == {n \in Bits : n - k \in v}
ShiftRight(v, k) == {n \in Bits : n + k \in v}

\* Subtraction modulo the word's size.  Bit n lends one if b is greater than
\* a below it: the highest bit in which they differ is one of b.
Lends(a, b, n) ==
  \E m \in b \ a : m < n /\ \A i \in a \ b : ~(m < i /\ i < n)
Minus(a, b) == Plus(Plus(a, b), {n \in Bits : Lends(a, b, n)})

\* The same byte at every position of a word: (x) * 0x0101...01UL
NBYTES(x) == {n \in Bits : n % 8 \in Polynomial(x)}

\* v << 1 with the bits cleared that come from the next lower byte
SHLBYTE(v) == ShiftLeft(v, 1) \cap NBYTES(254)

\* Mutant: the top bit of a word is lost before the subtraction.
MASKSigned(v) ==
  LET vv == v \cap NBYTES(128)
  IN  Minus(ShiftLeft(vv, 1), ShiftRight(vv \ {8 * WordBytes - 1}, 7))

\* 0xFF in any byte whose high bit is 1; the subtraction borrows across the
\* bytes, and its overflow on the top bit is meant to happen.
MASK(v) ==
  LET vv == v \cap NBYTES(128)
  IN  Minus(ShiftLeft(vv, 1), ShiftRight(vv, 7))

\* w10 ^= MASK(wq0) & NBYTES(0x1d)
TimesTwo(v) == Plus(SHLBYTE(v), MASK(v) \cap NBYTES(29))

WordInit == onCard = FALSE /\ data = <<>> /\ wp0 = {} /\ wq0 = {} /\ w20 = {}

\* The loop starts with the highest data disk.
HighestDisk(wd0) ==
  /\ data = <<>>
  /\ data' = <<wd0>>
  /\ wp0' = wd0 /\ wq0' = wd0
  /\ \/ onCard' = FALSE /\ w20' = {}
     \/ onCard' = TRUE /\ w20' \in Leftovers

\* Mutant: the sum of the higher disks is not doubled.
NextDiskPlain(wd0) ==
  /\ data # <<>> /\ ~onCard /\ Len(data) < MaxDisks
  /\ data' = Append(data, wd0)
  /\ wp0' = Plus(wp0, wd0)
  /\ wq0' = Plus(wq0, wd0)
  /\ UNCHANGED <<onCard, w20>>

\* One round of for( z = z0-1; z >= 0; z-- )
NextDisk(wd0) ==
  /\ data # <<>> /\ ~onCard /\ Len(data) < MaxDisks
  /\ data' = Append(data, wd0)
  /\ wp0' = Plus(wp0, wd0)
  /\ wq0' = Plus(TimesTwo(wq0), wd0)
  /\ UNCHANGED <<onCard, w20>>

\* The same round on the card.  The mask replaces wq0 and not w20: what is
\* shifted is the mask, and what is reduced is left over in shared memory.
NextDiskOnCard(wd0) ==
  /\ data # <<>> /\ onCard /\ Len(data) < MaxDisks
  /\ data' = Append(data, wd0)
  /\ wp0' = Plus(wp0, wd0)
  /\ w20' = w20 \cap NBYTES(29)
  /\ wq0' = Plus(Plus(SHLBYTE(MASK(wq0)), w20'), wd0)
  /\ UNCHANGED onCard

WordNext == \E w \in DataWords : HighestDisk(w) \/ NextDisk(w) \/ NextDiskOnCard(w)

WordSpec == WordInit /\ [][WordNext]_wordVars

-----------------------------------------------------------------------------
(* The reference, byte by byte                                              *)

Byte(k, v) == {n \in Degrees : 8 * (k - 1) + n \in v}
\* Parity bytes of a column; column[j] is on the disk Len(column) - j.
RefP(column) == Sum(column)
RefQ(column) ==
  Sum([j \in DOMAIN column |-> Mul(Power[Len(column) - j][{1}], column[j])])

Column(k, words) == [j \in DOMAIN words |-> Byte(k, words[j])]

-----------------------------------------------------------------------------
(* Properties                                                               *)

PExact == \A k \in Positions : Byte(k, wp0) = RefP(Column(k, data))
QExact == \A k \in Positions : Byte(k, wq0) = RefQ(Column(k, data))

\* In every byte of the word the loop computes the Reed-Solomon parity of
\* that byte's column, no carry or borrow passes from one byte to another:
\* P everywhere, Q in the implementations SOFT and SMP.
ParityIsReference == PExact /\ (~onCard => QExact)

\* What P and Q are for: any two data disks can be lost.  No other stripe
\* that agrees with this one on all but two disks has these parity words.
TwoErasures ==
  \A x, y \in DOMAIN data : x < y =>
    \A a, b \in DataWords :
      LET other == [data EXCEPT ![x] = a, ![y] = b]
      IN  other # data /\ ~onCard =>
            \E k \in Positions : \/ Byte(k, wp0) # RefP(Column(k, other))
                                 \/ Byte(k, wq0) # RefQ(Column(k, other))

\* What the comment of syndrome_block() says: the kernel generates the
\* syndrome, Q included.
CardGeneratesSyndrome == onCard => QExact
=============================================================================
