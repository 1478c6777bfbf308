------------------------------- MODULE MCWord -------------------------------
(***************************************************************************)
(* The loop over one word, for TLC: a few words of two bytes.              *)
(***************************************************************************)
EXTENDS SyndromeWord

\* The word of a number.
WordOf(v) == {n \in Bits : (v \div 2 ^ n) % 2 = 1}

\* High bits set and clear on both sides of the boundary between the bytes of
\* a word of two bytes (0x0080 and 0x8000, for example).
SomeWords == {WordOf(v) : v \in {0, 1, 128, 255, 32768, 32767, 33023, 36381}}

\* Shared memory that has been cleared.
Cleared == {{}}

\* The words of the model are the unsigned numbers of the code: a subtraction
\* wraps modulo the word's size, and NBYTES() repeats a byte.
Modulus == 2 ^ (8 * WordBytes)
Samples == {n \in 0 .. Modulus - 1 : n % 128 \in {0, 1, 127} /\ n % 255 \in 0 .. 30}
ASSUME SubtractionWraps ==
  \A a, b \in Samples : Minus(WordOf(a), WordOf(b)) = WordOf((a - b) % Modulus)
ASSUME NBYTESRepeats ==
  \A x \in {254, 128, 29} : NBYTES(x) = WordOf(x * ((Modulus - 1) \div 255))
=============================================================================
