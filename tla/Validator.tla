------------------------------ MODULE Validator ------------------------------
(***************************************************************************)
(* The validator (-V): one stripe of seven disks and 512 bytes goes        *)
(* through the SOFT version and through the chosen one, and the last two   *)
(* blocks are compared.  Every byte of disk i holds i, so one byte stands  *)
(* for the 512.  What the implementations make of it is taken from the     *)
(* modules that model them (SyndromeWord, SmpSyndrome, MultRs, CudaCopy).  *)
(***************************************************************************)
EXTENDS Integers, Sequences, Gf256

Disks == 7
DataDisks == 0 .. Disks - 3

\* memset(dptrs[i], i, bytes)
Filled == [i \in 0 .. Disks - 1 |-> i]

\* SOFT and SMP: P and Q of the data disks.
Parity(stripe) ==
  << Sum([d \in DataDisks |-> Polynomial(stripe[d])]),
     Sum([d \in DataDisks |-> Mul(Power[d][{1}], Polynomial(stripe[d]))]) >>

\* memcpy(ptrs[disks-1], ptrs[0], bytes); memcpy(ptrs[disks-2], ptrs[0], bytes)
raid6_dummy_gen_syndrome(stripe) ==
  <<Polynomial(stripe[0]), Polynomial(stripe[0])>>

\* MULTI without CUDA: four check rows over the first three disks; the last
\* two rows are stored where the others have P and Q.  (No sum of logarithms
\* of these bytes overflows.)
CHECK_SYMBOLS == 4
high_disk == Disks - CHECK_SYMBOLS
check_row(stripe, matrix_pos_y) ==
  Sum([d \in 0 .. high_disk - 1 |->
         Mul(Power[d + 1][Polynomial(matrix_pos_y)], Polynomial(stripe[d]))])
multi_rs_soft_gen_syndrome(stripe) == <<check_row(stripe, 3), check_row(stripe, 4)>>

\* CUDA: P is right.  The bytes are too small for a mask, so that Q is disk 0
\* and what was left of w20 in shared memory, of which only the bits of 0x1d
\* count.
Leftover == SUBSET {4, 3, 2, 0}
syndrome_block(stripe, w20) == <<Parity(stripe)[1], Plus(Polynomial(stripe[0]), w20)>>

\* Mutant: only the parity P is compared.
compare_syndromeP(van, cho) == van[1] = cho[1]

\* EXIT_SUCCESS if both parity blocks agree
compare_syndrome(van, cho) == van[1] = cho[1] /\ van[2] = cho[2]
=============================================================================
