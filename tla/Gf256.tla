-------------------------------- MODULE Gf256 --------------------------------
(***************************************************************************)
(* The field GF(2^8) with the polynomial x^8 + x^4 + x^3 + x^2 + 1, from   *)
(* the definition: the elements are polynomials over GF(2) of degree below *)
(* 8, and a product is reduced modulo that polynomial.  The reference for  *)
(* the parity code; no code of the repository computes this way.           *)
(*                                                                         *)
(* A polynomial is the set of the degrees of its terms.                    *)
(***************************************************************************)
EXTENDS Integers, FiniteSets

Degrees == 0 .. 7
Polynomials == SUBSET Degrees

Odd(S) == Cardinality(S) % 2 = 1

\* The sum of two polynomials, and of the polynomials f[k].
Plus(p, q) == (p \ q) \cup (q \ p)
Sum(f) == {n \in Degrees : Odd({k \in DOMAIN f : n \in f[k]})}

\* x * p, where x^8 = x^4 + x^3 + x^2 + 1
TimesX(p) == Plus({n + 1 : n \in p \ {7}}, IF 7 \in p THEN {4, 3, 2, 0} ELSE {})

\* x^n * p
TimesXPower[n \in Nat] ==
  [p \in Polynomials |-> IF n = 0 THEN p ELSE TimesX(TimesXPower[n - 1][p])]

\* The product of p and q: the sum of x^k * q over the terms x^k of p.
Mul(p, q) == Sum([k \in p |-> TimesXPower[k][q]])

\* q to the power n
Power[n \in Nat] ==
  [q \in Polynomials |-> IF n = 0 THEN {0} ELSE Mul(q, Power[n - 1][q])]

-----------------------------------------------------------------------------
(* Bytes                                                                    *)

Weight(n) == <<1, 2, 4, 8, 16, 32, 64, 128>>[n + 1]

\* The polynomial of a byte, and the byte of a polynomial.
Polynomial(v) == {n \in Degrees : (v \div Weight(n)) % 2 = 1}
Value(p) ==
  LET Term(n) == IF n \in p THEN Weight(n) ELSE 0
  IN  Term(0) + Term(1) + Term(2) + Term(3) + Term(4) + Term(5) + Term(6) + Term(7)
=============================================================================
