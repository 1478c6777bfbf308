----------------------------- MODULE Gf256Proofs -----------------------------
(***************************************************************************)
(* The algebra of GF(2^8) that the proofs about the parity code rest on:   *)
(* sums and products of polynomials, the order of x, and polynomials as    *)
(* bytes.  The main result is PowersDiffer: x has the order 255, which is  *)
(* what lets Q tell the disks of a stripe apart.                           *)
(*                                                                         *)
(* A fact about all numbers is proved by SetInduction, with the set of the *)
(* numbers that have it; a fact about all polynomials by Span, since both  *)
(* sides of it are additive.                                               *)
(***************************************************************************)
EXTENDS Gf256, Sequences, FiniteSetTheorems, TLAPS

\* Induction over the natural numbers, for a set of them.
LEMMA SetInduction ==
  ASSUME NEW S \in SUBSET Nat, 0 \in S, \A n \in S : n + 1 \in S
  PROVE  S = Nat
<1> DEFINE T == Nat \ S
           R == OpToRel(<, Nat)
<1> SUFFICES ASSUME T # {} PROVE FALSE
  OBVIOUS
<1>1. IsWellFoundedOn(R, Nat)
  BY NatLessThanWellFounded
<1>2. PICK m \in T : \A k \in T : ~(<<k, m>> \in R)
  <2> HIDE DEF R
  <2> QED
    BY <1>1, WFMin
<1>3. m # 0 /\ m - 1 \in Nat
  OBVIOUS
<1>4. <<m - 1, m>> \in R
  BY <1>3 DEF OpToRel
<1>5. m - 1 \in S
  BY <1>2, <1>3, <1>4
<1> QED
  BY <1>3, <1>5

\* A function is defined by iteration.
LEMMA Iteration ==
  ASSUME NEW V, NEW a \in V, NEW F \in [V -> V]
  PROVE  \E f \in [Nat -> V] : f[0] = a /\ \A n \in Nat : f[n + 1] = F[f[n]]
<1> DEFINE Good(n, g) == g \in [0 .. n -> V] /\ g[0] = a /\ \A i \in 0 .. n - 1 : g[i + 1] = F[g[i]]
           S == {n \in Nat : \E g : Good(n, g)}
           g(n) == CHOOSE h : Good(n, h)
<1>1. 0 \in S
  <2>1. Good(0, [i \in 0 .. 0 |-> a])
    OBVIOUS
  <2> QED
    BY <2>1
<1>2. ASSUME NEW n \in S PROVE n + 1 \in S
  <2>1. PICK h : Good(n, h)
    OBVIOUS
  <2> DEFINE k == [i \in 0 .. n + 1 |-> IF i <= n THEN h[i] ELSE F[h[n]]]
  <2>2. Good(n + 1, k)
    <3>1. k \in [0 .. n + 1 -> V]
      BY <2>1
    <3>2. k[0] = a
      BY <2>1
    <3>3. ASSUME NEW i \in 0 .. n PROVE k[i + 1] = F[k[i]]
      BY <2>1, <3>3
    <3>4. (n + 1) - 1 = n
      OBVIOUS
    <3> HIDE DEF k
    <3> QED
      BY <3>1, <3>2, <3>3, <3>4
  <2> HIDE DEF Good, k
  <2> QED
    BY <2>2
<1>3. S = Nat
  <2> HIDE DEF S
  <2>1. S \in SUBSET Nat
    BY DEF S
  <2> QED
    BY <1>1, <1>2, <2>1, SetInduction
<1>4. \A n \in Nat : Good(n, g(n))
  <2> HIDE DEF Good
  <2> QED
    BY <1>3
<1>5. ASSUME NEW n \in Nat PROVE g(n + 1)[n] = g(n)[n]
  <2> DEFINE A == {i \in Nat : i <= n => g(n + 1)[i] = g(n)[i]}
  <2>1. 0 \in A
    <3> HIDE DEF g
    <3> QED
      BY <1>4
  <2>2. ASSUME NEW i \in A PROVE i + 1 \in A
    <3> SUFFICES ASSUME i + 1 <= n PROVE g(n + 1)[i + 1] = g(n)[i + 1]
      OBVIOUS
    <3>1. i \in 0 .. n - 1 /\ i \in 0 .. n
      OBVIOUS
    <3>2. g(n + 1)[i + 1] = F[g(n + 1)[i]] /\ g(n)[i + 1] = F[g(n)[i]]
      <4> HIDE DEF g
      <4> QED
        BY <1>4, <3>1
    <3> HIDE DEF g
    <3> QED
      BY <3>1, <3>2
  <2>3. A = Nat
    <3>1. A \in SUBSET Nat
      OBVIOUS
    <3> HIDE DEF A
    <3> QED
      BY <2>1, <2>2, <3>1, SetInduction
  <2> HIDE DEF g
  <2> QED
    BY <2>3
<1> DEFINE f == [n \in Nat |-> g(n)[n]]
<1>6. f \in [Nat -> V] /\ f[0] = a
  <2> HIDE DEF g
  <2> QED
    BY <1>4
<1>7. ASSUME NEW n \in Nat PROVE f[n + 1] = F[f[n]]
  <2>1. g(n + 1)[n + 1] = F[g(n + 1)[n]]
    <3> HIDE DEF g
    <3> QED
      BY <1>4
  <2> HIDE DEF g
  <2> QED
    BY <1>5, <2>1
<1> HIDE DEF f
<1> QED
  BY <1>6, <1>7

-----------------------------------------------------------------------------
(* Sums                                                                     *)

\* The sum of two polynomials is a polynomial.
LEMMA PlusType ==
  ASSUME NEW p \in Polynomials, NEW q \in Polynomials
  PROVE  Plus(p, q) \in Polynomials
BY DEF Plus, Polynomials

\* The degrees, one by one.
LEMMA DegreesList == Degrees = {0, 1, 2, 3, 4, 5, 6, 7}
BY DEF Degrees

\* A polynomial has finitely many terms.
LEMMA DegreesFinite ==
  ASSUME NEW p \in Polynomials
  PROVE  IsFiniteSet(p)
<1>1. IsFiniteSet(0 .. 7)
  <2>1. 0 \in Int /\ 7 \in Int
    OBVIOUS
  <2> QED
    BY <2>1, FS_Interval
<1> QED
  BY <1>1, FS_Subset DEF Polynomials, Degrees

\* A sum is a polynomial.
LEMMA SumType ==
  ASSUME NEW f
  PROVE  Sum(f) \in Polynomials
BY DEF Sum, Polynomials

\* The empty set has an even number of elements.
LEMMA OddEmpty == ~Odd({})
BY FS_EmptySet DEF Odd

\* A set of one element has an odd number of them.
LEMMA OddSingle == \A x : Odd({x})
<1> TAKE x
<1>1. Cardinality({x}) = 1
  BY FS_Singleton
<1> QED
  BY <1>1 DEF Odd

\* A set of at most one element is odd exactly if it has one.
LEMMA OddPart ==
  ASSUME NEW x, NEW A, A = {x} \/ A = {}
  PROVE  IsFiniteSet(A) /\ (Odd(A) <=> A # {})
<1>1. IsFiniteSet({x}) /\ Odd({x})
  BY FS_Singleton, OddSingle
<1>2. IsFiniteSet({}) /\ ~Odd({})
  BY FS_EmptySet, OddEmpty
<1> QED
  BY <1>1, <1>2

\* The number of elements of a symmetric difference is odd if exactly one of
\* the numbers of elements is.
LEMMA OddPlus ==
  ASSUME NEW A, NEW B, IsFiniteSet(A), IsFiniteSet(B)
  PROVE  Odd(Plus(A, B)) <=> ~(Odd(A) <=> Odd(B))
<1> DEFINE a == Cardinality(A)
           b == Cardinality(B)
           c == Cardinality(A \cap B)
           m == Cardinality(A \ B)
           n == Cardinality(B \ A)
<1>1. IsFiniteSet(A \cap B) /\ c \in Nat /\ a \in Nat /\ b \in Nat
  BY FS_Intersection, FS_CardinalityType
<1>2. IsFiniteSet(A \ B) /\ IsFiniteSet(B \ A) /\ m = a - c /\ n = b - c
  <2>1. B \cap A = A \cap B
    OBVIOUS
  <2>2. IsFiniteSet(A \ B) /\ m = a - Cardinality(A \cap B)
    BY FS_Difference
  <2>3. IsFiniteSet(B \ A) /\ n = b - Cardinality(B \cap A)
    BY FS_Difference
  <2> HIDE DEF a, b, m, n
  <2> QED
    BY <2>1, <2>2, <2>3
<1>3. (A \ B) \cap (B \ A) = {}
  OBVIOUS
<1>4. Cardinality(Plus(A, B)) = m + n
  <2>1. Cardinality((A \ B) \cap (B \ A)) = 0
    BY <1>3, FS_EmptySet
  <2>2. m \in Nat /\ n \in Nat
    BY <1>2, FS_CardinalityType
  <2>3. Cardinality(Plus(A, B)) = m + n - Cardinality((A \ B) \cap (B \ A))
    BY <1>2, FS_Union DEF Plus
  <2> QED
    BY <2>1, <2>2, <2>3
<1> HIDE DEF a, b, c, m, n
<1>5. Cardinality(Plus(A, B)) = a + b - 2 * c
  BY <1>1, <1>2, <1>4
<1>6. (a + b - 2 * c) % 2 = 1 <=> ~(a % 2 = 1 <=> b % 2 = 1)
  BY <1>1
<1> QED
  BY <1>5, <1>6 DEF Odd, a, b

\* A part of a finite set is finite.
LEMMA PartFinite ==
  ASSUME NEW D, IsFiniteSet(D), NEW f, NEW n
  PROVE  IsFiniteSet({k \in D : n \in f[k]})
<1>1. {k \in D : n \in f[k]} \in SUBSET D
  OBVIOUS
<1> QED
  BY <1>1, FS_Subset

\* The sum of nothing
LEMMA SumEmpty ==
  ASSUME NEW f, DOMAIN f = {}
  PROVE  Sum(f) = {}
<1>1. \A n : {k \in DOMAIN f : n \in f[k]} = {}
  OBVIOUS
<1> QED
  BY <1>1, OddEmpty DEF Sum

\* The sum of one polynomial is this polynomial.
LEMMA SumSingle ==
  ASSUME NEW f, NEW e, DOMAIN f = {e}, f[e] \in Polynomials
  PROVE  Sum(f) = f[e]
<1>1. \A n : {k \in DOMAIN f : n \in f[k]} = IF n \in f[e] THEN {e} ELSE {}
  OBVIOUS
<1>2. \A n \in Degrees : n \in Sum(f) <=> n \in f[e]
  BY <1>1, OddEmpty, OddSingle DEF Sum
<1> QED
  BY <1>2 DEF Sum, Polynomials

\* Sums are added term by term.
LEMMA SumPlus ==
  ASSUME NEW D, IsFiniteSet(D), NEW f \in [D -> Polynomials], NEW g \in [D -> Polynomials]
  PROVE  Sum([k \in D |-> Plus(f[k], g[k])]) = Plus(Sum(f), Sum(g))
<1> DEFINE h == [k \in D |-> Plus(f[k], g[k])]
<1>1. ASSUME NEW n \in Degrees
      PROVE  n \in Sum(h) <=> ~(n \in Sum(f) <=> n \in Sum(g))
  <2> DEFINE F == {k \in D : n \in f[k]}
             G == {k \in D : n \in g[k]}
             H == {k \in D : n \in h[k]}
  <2>1. H = Plus(F, G)
    BY DEF Plus
  <2>2. IsFiniteSet(F) /\ IsFiniteSet(G)
    BY PartFinite
  <2>3. (n \in Sum(h) <=> Odd(H)) /\ (n \in Sum(f) <=> Odd(F)) /\ (n \in Sum(g) <=> Odd(G))
    BY DEF Sum
  <2> HIDE DEF F, G, H
  <2> QED
    BY <2>1, <2>2, <2>3, OddPlus
<1> HIDE DEF h
<1>2. Sum(h) \subseteq Degrees /\ Sum(f) \subseteq Degrees /\ Sum(g) \subseteq Degrees
  BY DEF Sum
<1>3. Sum(h) = Plus(Sum(f), Sum(g))
  BY <1>1, <1>2 DEF Plus
<1> QED
  BY <1>3 DEF h

\* One more term.
LEMMA SumMore ==
  ASSUME NEW D, IsFiniteSet(D), NEW e, e \notin D, NEW f \in [D \cup {e} -> Polynomials],
         NEW g \in [D -> Polynomials], \A k \in D : f[k] = g[k]
  PROVE  Sum(f) = Plus(Sum(g), f[e])
<1>1. ASSUME NEW n \in Degrees
      PROVE  n \in Sum(f) <=> ~(n \in Sum(g) <=> n \in f[e])
  <2> DEFINE F == {k \in D \cup {e} : n \in f[k]}
             G == {k \in D : n \in g[k]}
             E == IF n \in f[e] THEN {e} ELSE {}
  <2>1. F = Plus(G, E)
    BY DEF Plus
  <2>2. IsFiniteSet(G) /\ IsFiniteSet(E) /\ (Odd(E) <=> n \in f[e])
    <3>1. IsFiniteSet(G)
      BY PartFinite
    <3>2. (E = {e} \/ E = {}) /\ (n \in f[e] <=> E # {})
      OBVIOUS
    <3> HIDE DEF E, G
    <3>3. IsFiniteSet(E) /\ (Odd(E) <=> E # {})
      BY <3>2, OddPart
    <3> QED
      BY <3>1, <3>2, <3>3
  <2>3. (n \in Sum(f) <=> Odd(F)) /\ (n \in Sum(g) <=> Odd(G))
    BY DEF Sum
  <2> HIDE DEF F, G, E
  <2> QED
    BY <2>1, <2>2, <2>3, OddPlus
<1>2. Sum(f) \subseteq Degrees /\ Sum(g) \subseteq Degrees /\ f[e] \subseteq Degrees
  BY DEF Sum, Polynomials
<1> QED
  BY <1>1, <1>2 DEF Plus

\* A sum is zero exactly if both polynomials are the same.
LEMMA PlusEmpty ==
  ASSUME NEW p, NEW q
  PROVE  (Plus(p, q) = {} <=> p = q) /\ Plus(p, p) = {}
BY DEF Plus

\* All terms but two are zero.
LEMMA SumTwo ==
  ASSUME NEW D, IsFiniteSet(D), NEW h \in [D -> Polynomials],
         NEW x \in D, NEW y \in D, x # y, \A k \in D : k # x /\ k # y => h[k] = {}
  PROVE  Sum(h) = Plus(h[x], h[y])
<1>1. ASSUME NEW n \in Degrees
      PROVE  n \in Sum(h) <=> ~(n \in h[x] <=> n \in h[y])
  <2> DEFINE A == IF n \in h[x] THEN {x} ELSE {}
             B == IF n \in h[y] THEN {y} ELSE {}
             H == {k \in D : n \in h[k]}
  <2>1. H = Plus(A, B)
    <3>1. \A k : k \in H <=> (k = x /\ n \in h[x]) \/ (k = y /\ n \in h[y])
      OBVIOUS
    <3>2. \A k : (k \in A <=> k = x /\ n \in h[x]) /\ (k \in B <=> k = y /\ n \in h[y])
      OBVIOUS
    <3> HIDE DEF A, B, H
    <3>3. \A k : k \in H <=> k \in Plus(A, B)
      BY <3>1, <3>2 DEF Plus
    <3> QED
      BY <3>3
  <2>2. IsFiniteSet(A) /\ (Odd(A) <=> n \in h[x])
    <3>1. A = {x} \/ A = {}
      OBVIOUS
    <3>2. n \in h[x] <=> A # {}
      OBVIOUS
    <3> HIDE DEF A
    <3>3. IsFiniteSet(A) /\ (Odd(A) <=> A # {})
      BY <3>1, OddPart
    <3> QED
      BY <3>2, <3>3
  <2>3. IsFiniteSet(B) /\ (Odd(B) <=> n \in h[y])
    <3>1. B = {y} \/ B = {}
      OBVIOUS
    <3>2. n \in h[y] <=> B # {}
      OBVIOUS
    <3> HIDE DEF B
    <3>3. IsFiniteSet(B) /\ (Odd(B) <=> B # {})
      BY <3>1, OddPart
    <3> QED
      BY <3>2, <3>3
  <2>4. n \in Sum(h) <=> Odd(H)
    BY DEF Sum
  <2> HIDE DEF A, B, H
  <2> QED
    BY <2>1, <2>2, <2>3, <2>4, OddPlus
<1>2. Sum(h) \subseteq Degrees /\ h[x] \subseteq Degrees /\ h[y] \subseteq Degrees
  BY DEF Sum, Polynomials
<1> QED
  BY <1>1, <1>2 DEF Plus

\* The terms of a sequence
LEMMA SequenceTerms ==
  ASSUME NEW n \in Nat, NEW c \in [1 .. n -> Polynomials]
  PROVE  Len(c) = n /\ DOMAIN c = 1 .. n /\ IsFiniteSet(1 .. n)
<1>1. c \in Seq(Polynomials) /\ DOMAIN c = 1 .. n
  OBVIOUS
<1>2. Len(c) = n
  BY <1>1
<1>3. IsFiniteSet(1 .. n)
  <2>1. 1 \in Int /\ n \in Int
    OBVIOUS
  <2> QED
    BY <2>1, FS_Interval
<1> QED
  BY <1>1, <1>2, <1>3

\* The sum of a sequence with one term more
LEMMA SumNext ==
  ASSUME NEW n \in Nat, NEW c \in [1 .. n -> Polynomials],
         NEW d \in [1 .. n + 1 -> Polynomials], \A j \in 1 .. n : d[j] = c[j]
  PROVE  Sum(d) = Plus(Sum(c), d[n + 1])
<1>1. 1 .. n + 1 = (1 .. n) \cup {n + 1} /\ n + 1 \notin 1 .. n
  OBVIOUS
<1>2. IsFiniteSet(1 .. n)
  BY SequenceTerms
<1> QED
  BY <1>1, <1>2, SumMore

-----------------------------------------------------------------------------
(* Multiplication by x                                                      *)

\* The bits of x * p: each moves up, and bit 7 comes back as x^4 + x^3 + x^2
\* + 1.
LEMMA TimesXBits ==
  ASSUME NEW p \in Polynomials
  PROVE  /\ TimesX(p) \in Polynomials
         /\ \A n \in Degrees :
              n \in TimesX(p) <=> ~(n - 1 \in p <=> (7 \in p /\ n \in {4, 3, 2, 0}))
<1> DEFINE s == {n + 1 : n \in p \ {7}}
           r == IF 7 \in p THEN {4, 3, 2, 0} ELSE {}
<1>1. \A n \in Degrees : n \in s <=> n - 1 \in p
  BY DEF Polynomials, Degrees
<1>2. s \subseteq Degrees /\ r \subseteq Degrees
  BY DEF Polynomials, Degrees
<1>3. \A n : n \in r <=> (7 \in p /\ n \in {4, 3, 2, 0})
  OBVIOUS
<1>4. TimesX(p) = Plus(s, r)
  BY DEF TimesX
<1> HIDE DEF s, r
<1> QED
  BY <1>1, <1>2, <1>3, <1>4 DEF Plus, Polynomials

\* x * (p + q) = x * p + x * q
LEMMA TimesXPlus ==
  ASSUME NEW p \in Polynomials, NEW q \in Polynomials
  PROVE  TimesX(Plus(p, q)) = Plus(TimesX(p), TimesX(q))
<1> DEFINE r == Plus(p, q)
<1>1. r \in Polynomials
  BY PlusType
<1>2. \A n : n \in r <=> ~(n \in p <=> n \in q)
  BY DEF Plus
<1> HIDE DEF r
<1>3. ASSUME NEW n \in Degrees
      PROVE  n \in TimesX(r) <=> ~(n \in TimesX(p) <=> n \in TimesX(q))
  <2>1. (n - 1 \in r <=> ~(n - 1 \in p <=> n - 1 \in q)) /\ (7 \in r <=> ~(7 \in p <=> 7 \in q))
    BY <1>2
  <2> QED
    BY <1>1, <2>1, TimesXBits
<1>4. TimesX(r) \subseteq Degrees /\ TimesX(p) \subseteq Degrees /\ TimesX(q) \subseteq Degrees
  BY <1>1, TimesXBits DEF Polynomials
<1>5. TimesX(r) = Plus(TimesX(p), TimesX(q))
  BY <1>3, <1>4 DEF Plus
<1> QED
  BY <1>5 DEF r

\* A sum is multiplied by x term by term.
LEMMA TimesXSum ==
  ASSUME NEW D, IsFiniteSet(D), NEW f \in [D -> Polynomials]
  PROVE  TimesX(Sum(f)) = Sum([k \in D |-> TimesX(f[k])])
<1> DEFINE g == [k \in D |-> TimesX(f[k])]
<1>1. ASSUME NEW n \in Degrees
      PROVE  n \in TimesX(Sum(f)) <=> n \in Sum(g)
  <2> DEFINE A == {k \in D : n - 1 \in f[k]}
             B == {k \in D : 7 \in f[k] /\ n \in {4, 3, 2, 0}}
             G == {k \in D : n \in g[k]}
  <2>1. G = Plus(A, B)
    <3>1. \A k \in D : n \in g[k] <=> ~(n - 1 \in f[k] <=> (7 \in f[k] /\ n \in {4, 3, 2, 0}))
      BY TimesXBits
    <3> HIDE DEF g
    <3> QED
      BY <3>1 DEF Plus
  <2>2. IsFiniteSet(A) /\ IsFiniteSet(B)
    <3>1. A \in SUBSET D /\ B \in SUBSET D
      OBVIOUS
    <3> QED
      BY <3>1, FS_Subset
  <2>3. n \in Sum(g) <=> Odd(G)
    BY DEF Sum
  <2>4. n - 1 \in Sum(f) <=> Odd(A)
    <3>1. CASE n = 0
      <4>1. A = {} /\ n - 1 \notin Degrees
        BY <3>1 DEF Polynomials, Degrees
      <4> QED
        BY <4>1, OddEmpty DEF Sum
    <3>2. CASE n # 0
      <4>1. n - 1 \in Degrees
        BY <3>2 DEF Degrees
      <4> QED
        BY <4>1 DEF Sum
    <3> QED
      BY <3>1, <3>2
  <2>5. (7 \in Sum(f) /\ n \in {4, 3, 2, 0}) <=> Odd(B)
    <3>1. 7 \in Sum(f) <=> Odd({k \in D : 7 \in f[k]})
      BY DEF Sum, Degrees
    <3>2. B = IF n \in {4, 3, 2, 0} THEN {k \in D : 7 \in f[k]} ELSE {}
      OBVIOUS
    <3> QED
      BY <3>1, <3>2, OddEmpty
  <2>6. n \in TimesX(Sum(f)) <=> ~(n - 1 \in Sum(f) <=> (7 \in Sum(f) /\ n \in {4, 3, 2, 0}))
    BY SumType, TimesXBits
  <2> HIDE DEF A, B, G
  <2> QED
    BY <2>1, <2>2, <2>3, <2>4, <2>5, <2>6, OddPlus
<1>2. TimesX(Sum(f)) \subseteq Degrees /\ Sum(g) \subseteq Degrees
  BY SumType, TimesXBits DEF Polynomials
<1> HIDE DEF g
<1>3. TimesX(Sum(f)) = Sum(g)
  BY <1>1, <1>2
<1> QED
  BY <1>3 DEF g

\* x * p determines p: the polynomial of the field has a constant term.
LEMMA TimesXInjective ==
  ASSUME NEW p \in Polynomials, NEW q \in Polynomials, TimesX(p) = TimesX(q)
  PROVE  p = q
<1>1. \A n \in {0, 1, 2, 3, 4, 5, 6, 7} :
        /\ n \in TimesX(p) <=> ~(n - 1 \in p <=> (7 \in p /\ n \in {4, 3, 2, 0}))
        /\ n \in TimesX(q) <=> ~(n - 1 \in q <=> (7 \in q /\ n \in {4, 3, 2, 0}))
  BY TimesXBits DEF Degrees
<1>2. -1 \notin p /\ -1 \notin q
  BY DEF Polynomials, Degrees
<1>3. 7 \in p <=> 7 \in q
  BY <1>1, <1>2
<1>4. \A n \in {1, 2, 3, 4, 5, 6, 7} : n - 1 \in p <=> n - 1 \in q
  BY <1>1, <1>3
<1>5. \A n \in Degrees : n \in p <=> n \in q
  <2>1. (0 \in p <=> 0 \in q) /\ (1 \in p <=> 1 \in q) /\ (2 \in p <=> 2 \in q)
    BY <1>4
  <2>2. (3 \in p <=> 3 \in q) /\ (4 \in p <=> 4 \in q) /\ (5 \in p <=> 5 \in q) /\ (6 \in p <=> 6 \in q)
    BY <1>4
  <2> QED
    BY <1>3, <2>1, <2>2 DEF Degrees
<1> QED
  BY <1>5 DEF Polynomials

-----------------------------------------------------------------------------
(* Powers of x                                                              *)

\* The recursive function TimesXPower is what its definition says.
LEMMA TimesXPowerDef ==
  /\ TimesXPower \in [Nat -> [Polynomials -> Polynomials]]
  /\ \A p \in Polynomials : TimesXPower[0][p] = p
  /\ \A n \in Nat : \A p \in Polynomials : TimesXPower[n + 1][p] = TimesX(TimesXPower[n][p])
<1> DEFINE V == [Polynomials -> Polynomials]
           a == [p \in Polynomials |-> p]
           F == [h \in V |-> [p \in Polynomials |-> TimesX(h[p])]]
           D(f) == [n \in Nat |-> [p \in Polynomials |-> IF n = 0 THEN p ELSE TimesX(f[n - 1][p])]]
<1>1. a \in V /\ F \in [V -> V]
  BY TimesXBits
<1>2. PICK f \in [Nat -> V] : f[0] = a /\ \A n \in Nat : f[n + 1] = F[f[n]]
  <2> HIDE DEF a, V, F
  <2> QED
    BY <1>1, Iteration
<1>3. f = D(f)
  <2>1. ASSUME NEW n \in Nat
        PROVE  f[n] = [p \in Polynomials |-> IF n = 0 THEN p ELSE TimesX(f[n - 1][p])]
    <3>1. CASE n = 0
      BY <1>2, <3>1
    <3>2. CASE n # 0
      <4>1. n - 1 \in Nat /\ (n - 1) + 1 = n
        BY <3>2
      <4>2. f[n] = F[f[n - 1]]
        BY <1>2, <4>1
      <4> QED
        BY <1>2, <3>2, <4>1, <4>2
    <3> QED
      BY <3>1, <3>2
  <2> QED
    BY <1>2, <2>1
<1>4. TimesXPower = D(TimesXPower)
  <2> HIDE DEF D
  <2>1. TimesXPower = CHOOSE g : g = D(g)
    BY DEF TimesXPower, D
  <2> QED
    BY <1>3, <2>1
<1>5. \A n \in Nat : TimesXPower[n] = [p \in Polynomials |-> IF n = 0 THEN p ELSE TimesX(TimesXPower[n - 1][p])]
  BY <1>4
<1> DEFINE S == {n \in Nat : TimesXPower[n] \in V}
<1>6. S = Nat
  <2>1. 0 \in S
    BY <1>5
  <2>2. ASSUME NEW n \in S PROVE n + 1 \in S
    <3>1. n \in Nat /\ n + 1 \in Nat /\ n + 1 # 0 /\ (n + 1) - 1 = n /\ TimesXPower[n] \in V
      OBVIOUS
    <3>2. TimesXPower[n + 1] = [p \in Polynomials |-> TimesX(TimesXPower[n][p])]
      BY <1>5, <3>1
    <3>3. \A p \in Polynomials : TimesX(TimesXPower[n][p]) \in Polynomials
      BY <3>1, TimesXBits
    <3> QED
      BY <3>1, <3>2, <3>3
  <2>3. S \in SUBSET Nat
    OBVIOUS
  <2> HIDE DEF S
  <2> QED
    BY <2>1, <2>2, <2>3, SetInduction
<1>7. TimesXPower \in [Nat -> V]
  <2>1. TimesXPower = [n \in Nat |-> TimesXPower[n]]
    BY <1>4
  <2>2. \A n \in Nat : TimesXPower[n] \in V
    BY <1>6
  <2> HIDE DEF V
  <2> QED
    BY <2>1, <2>2
<1> QED
  BY <1>5, <1>7

\* x^n * (p + q) = x^n * p + x^n * q
LEMMA TimesXPowerPlus ==
  ASSUME NEW n \in Nat, NEW p \in Polynomials, NEW q \in Polynomials
  PROVE  TimesXPower[n][Plus(p, q)] = Plus(TimesXPower[n][p], TimesXPower[n][q])
<1> DEFINE S == {m \in Nat : TimesXPower[m][Plus(p, q)] = Plus(TimesXPower[m][p], TimesXPower[m][q])}
<1>1. 0 \in S
  BY PlusType, TimesXPowerDef
<1>2. ASSUME NEW m \in S PROVE m + 1 \in S
  BY PlusType, TimesXPowerDef, TimesXPlus
<1>3. S \in SUBSET Nat
  OBVIOUS
<1>4. S = Nat
  <2> HIDE DEF S
  <2> QED
    BY <1>1, <1>2, <1>3, SetInduction
<1> QED
  BY <1>4

\* x^(m+n) * p = x^m * (x^n * p)
LEMMA TimesXPowerAdd ==
  ASSUME NEW m \in Nat, NEW n \in Nat, NEW p \in Polynomials
  PROVE  TimesXPower[m + n][p] = TimesXPower[m][TimesXPower[n][p]]
<1> DEFINE S == {k \in Nat : TimesXPower[k + n][p] = TimesXPower[k][TimesXPower[n][p]]}
<1>0. TimesXPower[n][p] \in Polynomials
  BY TimesXPowerDef
<1>1. 0 \in S
  BY <1>0, TimesXPowerDef
<1>2. ASSUME NEW k \in S PROVE k + 1 \in S
  <2>1. (k + 1) + n = (k + n) + 1 /\ k + n \in Nat
    OBVIOUS
  <2>2. TimesXPower[(k + n) + 1][p] = TimesX(TimesXPower[k + n][p])
    BY <2>1, TimesXPowerDef
  <2>3. TimesXPower[k + 1][TimesXPower[n][p]] = TimesX(TimesXPower[k][TimesXPower[n][p]])
    BY <1>0, TimesXPowerDef
  <2> QED
    BY <2>1, <2>2, <2>3
<1>3. S \in SUBSET Nat
  OBVIOUS
<1>4. S = Nat
  <2> HIDE DEF S
  <2> QED
    BY <1>1, <1>2, <1>3, SetInduction
<1> QED
  BY <1>4

\* x^n * p determines p.
LEMMA TimesXPowerInjective ==
  ASSUME NEW n \in Nat, NEW p \in Polynomials, NEW q \in Polynomials,
         TimesXPower[n][p] = TimesXPower[n][q]
  PROVE  p = q
<1> DEFINE S == {m \in Nat : TimesXPower[m][p] = TimesXPower[m][q] => p = q}
<1>1. 0 \in S
  BY TimesXPowerDef
<1>2. ASSUME NEW m \in S PROVE m + 1 \in S
  <2>1. TimesXPower[m][p] \in Polynomials /\ TimesXPower[m][q] \in Polynomials
    BY TimesXPowerDef
  <2> QED
    BY <2>1, TimesXPowerDef, TimesXInjective
<1>3. S \in SUBSET Nat
  OBVIOUS
<1>4. S = Nat
  <2> HIDE DEF S
  <2> QED
    BY <1>1, <1>2, <1>3, SetInduction
<1> QED
  BY <1>4

\* The polynomials are the sums of the powers of x.
LEMMA Span ==
  ASSUME NEW S \in SUBSET Polynomials, {} \in S, \A k \in Degrees : {k} \in S,
         \A p, q \in S : Plus(p, q) \in S
  PROVE  S = Polynomials
<1> SUFFICES ASSUME NEW p \in Polynomials PROVE p \in S
  OBVIOUS
<1> DEFINE Below(n) == {k \in p : k < n}
           N == {n \in Nat : Below(n) \in S}
<1>0. p \subseteq Degrees /\ \A k \in p : k \in Int /\ 0 <= k /\ k < 8
  BY DEF Polynomials, Degrees
<1>1. 0 \in N
  <2>1. Below(0) = {}
    BY <1>0
  <2> QED
    BY <2>1
<1>2. ASSUME NEW n \in N PROVE n + 1 \in N
  <2>0. n \in Nat /\ n + 1 \in Nat /\ Below(n) \in S
    OBVIOUS
  <2>1. CASE n \in p
    <3>1. ASSUME NEW k PROVE k \in Below(n + 1) <=> k \in Below(n) \/ k = n
      <4>1. n < n + 1
        BY <2>0
      <4>2. k \in p => (k < n + 1 <=> k < n \/ k = n)
        BY <1>0, <2>0
      <4> QED
        BY <2>1, <4>1, <4>2
    <3>2. n \notin Below(n)
      BY <2>0
    <3>3. Below(n + 1) = Plus(Below(n), {n})
      <4> HIDE DEF Below
      <4> QED
        BY <3>1, <3>2 DEF Plus
    <3>4. n \in Degrees
      BY <1>0, <2>1
    <3>5. Below(n + 1) \in S
      <4> HIDE DEF Below
      <4> QED
        BY <2>0, <3>3, <3>4
    <3> QED
      BY <2>0, <3>5
  <2>2. CASE n \notin p
    <3>1. Below(n + 1) = Below(n)
      BY <1>0, <2>0, <2>2
    <3>2. Below(n + 1) \in S
      <4> HIDE DEF Below
      <4> QED
        BY <2>0, <3>1
    <3> QED
      BY <2>0, <3>2
  <2> QED
    BY <2>1, <2>2
<1>3. N \in SUBSET Nat
  OBVIOUS
<1>4. N = Nat
  <2> HIDE DEF N
  <2> QED
    BY <1>1, <1>2, <1>3, SetInduction
<1>5. Below(8) = p
  BY <1>0
<1>6. Below(8) \in S
  <2>1. 8 \in N
    BY <1>4
  <2> QED
    BY <2>1
<1> HIDE DEF Below
<1> QED
  BY <1>5, <1>6

\* x * x^k = x^(k+1), and x^8 is reduced.
LEMMA TimesXMonomial ==
  /\ TimesX({}) = {}
  /\ \A k \in 0 .. 6 : TimesX({k}) = {k + 1}
  /\ TimesX({7}) = {4, 3, 2, 0}
<1>1. TimesX({}) = {}
  BY DEF TimesX, Plus
<1>2. ASSUME NEW k \in 0 .. 6 PROVE TimesX({k}) = {k + 1}
  BY DEF TimesX, Plus
<1>3. TimesX({7}) = {4, 3, 2, 0}
  BY DEF TimesX, Plus
<1> QED
  BY <1>1, <1>2, <1>3

\* x^k as the product of x^k and 1
LEMMA Monomial ==
  ASSUME NEW k \in Degrees
  PROVE  {k} \in Polynomials /\ TimesXPower[k][{0}] = {k}
<1> DEFINE S == {n \in Nat : n <= 7 => TimesXPower[n][{0}] = {n}}
<1>0. {0} \in Polynomials /\ {k} \in Polynomials
  BY DEF Polynomials, Degrees
<1>1. 0 \in S
  BY <1>0, TimesXPowerDef
<1>2. ASSUME NEW n \in S PROVE n + 1 \in S
  <2>1. SUFFICES ASSUME n + 1 <= 7 PROVE TimesXPower[n + 1][{0}] = {n + 1}
    OBVIOUS
  <2>2. n \in 0 .. 6 /\ n \in Nat /\ TimesXPower[n][{0}] = {n}
    <3>1. n \in Nat /\ (n <= 7 => TimesXPower[n][{0}] = {n})
      OBVIOUS
    <3>2. n <= 7 /\ n \in 0 .. 6
      BY <2>1, <3>1
    <3> QED
      BY <3>1, <3>2
  <2>3. TimesXPower[n + 1][{0}] = TimesX(TimesXPower[n][{0}])
    <3> HIDE DEF S
    <3> QED
      BY <1>0, <2>2, TimesXPowerDef
  <2> QED
    BY <2>2, <2>3, TimesXMonomial
<1>3. S \in SUBSET Nat
  OBVIOUS
<1>4. S = Nat
  <2> HIDE DEF S
  <2> QED
    BY <1>1, <1>2, <1>3, SetInduction
<1> QED
  BY <1>0, <1>4 DEF Degrees

\* The terms of {4, 3, 2, 0}
LEMMA Remainder == Plus(Plus({4}, {3}), Plus({2}, {0})) = {4, 3, 2, 0}
BY DEF Plus

\* x^8 = x^4 + x^3 + x^2 + 1
LEMMA TimesX8 ==
  ASSUME NEW q \in Polynomials
  PROVE  TimesXPower[8][q] = Plus(Plus(TimesXPower[4][q], TimesXPower[3][q]),
                                  Plus(TimesXPower[2][q], TimesXPower[0][q]))
<1> DEFINE T(n, p) == TimesXPower[n][p]
           R(p) == Plus(Plus(T(4, p), T(3, p)), Plus(T(2, p), T(0, p)))
           S == {p \in Polynomials : T(8, p) = R(p)}
<1>0. \A n \in Nat : \A p \in Polynomials : T(n, p) \in Polynomials
  BY TimesXPowerDef
<1>1. \A n \in Nat : \A p, r \in Polynomials : T(n, Plus(p, r)) = Plus(T(n, p), T(n, r))
  BY TimesXPowerPlus
<1>2. \A m, n \in Nat : \A p \in Polynomials : T(m, T(n, p)) = T(n, T(m, p))
  <2> TAKE m, n \in Nat
  <2> TAKE p \in Polynomials
  <2>1. T(m + n, p) = T(m, T(n, p)) /\ T(n + m, p) = T(n, T(m, p))
    BY TimesXPowerAdd
  <2>2. m + n = n + m
    OBVIOUS
  <2> HIDE DEF T
  <2> QED
    BY <2>1, <2>2
<1> DEFINE e == {0}
<1>3. e \in Polynomials /\ \A k \in Degrees : T(k, e) = {k}
  BY Monomial DEF Degrees
<1>4. T(8, e) = R(e)
  <2>1. T(8, e) = TimesX(T(7, e))
    <3>1. 8 = 7 + 1 /\ 7 \in Nat
      OBVIOUS
    <3> QED
      BY <1>3, <3>1, TimesXPowerDef
  <2>2. T(7, e) = {7} /\ T(4, e) = {4} /\ T(3, e) = {3} /\ T(2, e) = {2} /\ T(0, e) = {0}
    <3> HIDE DEF e
    <3> QED
      BY <1>3 DEF Degrees
  <2> HIDE DEF T, e
  <2> QED
    BY <2>1, <2>2, TimesXMonomial, Remainder
<1>5. ASSUME NEW k \in Degrees PROVE {k} \in S
  <2>1. k \in Nat
    BY DEF Degrees
  <2>2. T(8, T(k, e)) = T(k, R(e))
    <3> HIDE DEF T, R, e
    <3> QED
      BY <1>2, <1>3, <1>4, <2>1
  <2>3. T(k, R(e)) = R(T(k, e))
    <3>1. \A n \in {0, 2, 3, 4} : n \in Nat /\ T(n, e) \in Polynomials /\ T(k, T(n, e)) = T(n, T(k, e))
      <4> HIDE DEF T, e
      <4> QED
        BY <1>0, <1>2, <1>3, <2>1
    <3>2. Plus(T(4, e), T(3, e)) \in Polynomials /\ Plus(T(2, e), T(0, e)) \in Polynomials
      BY <3>1, PlusType
    <3> HIDE DEF T, e
    <3>3. T(k, R(e)) = Plus(T(k, Plus(T(4, e), T(3, e))), T(k, Plus(T(2, e), T(0, e))))
      BY <1>1, <2>1, <3>2 DEF R
    <3>4. T(k, Plus(T(4, e), T(3, e))) = Plus(T(k, T(4, e)), T(k, T(3, e)))
      BY <1>1, <2>1, <3>1
    <3>5. T(k, Plus(T(2, e), T(0, e))) = Plus(T(k, T(2, e)), T(k, T(0, e)))
      BY <1>1, <2>1, <3>1
    <3> QED
      BY <3>1, <3>3, <3>4, <3>5 DEF R
  <2>4. T(k, e) = {k} /\ {k} \in Polynomials
    BY <1>3, Monomial
  <2> HIDE DEF T, R, e
  <2> QED
    BY <2>2, <2>3, <2>4
<1>6. {} \in S
  <2>1. {} \in Polynomials /\ {} = Plus(e, e)
    BY DEF Plus, Polynomials
  <2>2. \A n \in Nat : T(n, {}) = {}
    <3> TAKE n \in Nat
    <3>1. T(n, {}) = Plus(T(n, e), T(n, e))
      <4> HIDE DEF T, e
      <4> QED
        BY <1>1, <1>3, <2>1
    <3> HIDE DEF T, e
    <3> QED
      BY <3>1 DEF Plus
  <2> HIDE DEF T
  <2> QED
    BY <2>1, <2>2 DEF Plus
<1>7. ASSUME NEW p \in S, NEW r \in S PROVE Plus(p, r) \in S
  <2>1. p \in Polynomials /\ r \in Polynomials /\ Plus(p, r) \in Polynomials
    BY PlusType
  <2>2. \A n \in {0, 2, 3, 4, 8} : T(n, Plus(p, r)) = Plus(T(n, p), T(n, r))
    <3> HIDE DEF T
    <3> QED
      BY <1>1, <2>1
  <2> HIDE DEF T
  <2>3. \A a, b, c, d, aa, bb, cc, dd :
          Plus(Plus(Plus(a, aa), Plus(b, bb)), Plus(Plus(c, cc), Plus(d, dd)))
            = Plus(Plus(Plus(a, b), Plus(c, d)), Plus(Plus(aa, bb), Plus(cc, dd)))
    BY DEF Plus
  <2>4. R(Plus(p, r)) = Plus(R(p), R(r))
    BY <2>2, <2>3
  <2>5. T(8, p) = R(p) /\ T(8, r) = R(r)
    OBVIOUS
  <2> HIDE DEF R
  <2> QED
    BY <2>1, <2>2, <2>4, <2>5
<1>8. S \in SUBSET Polynomials
  OBVIOUS
<1>9. S = Polynomials
  <2> HIDE DEF S
  <2> QED
    BY <1>5, <1>6, <1>7, <1>8, Span
<1> QED
  BY <1>9

-----------------------------------------------------------------------------
(* Products                                                                 *)

\* A product is a polynomial.
LEMMA MulType ==
  ASSUME NEW p, NEW q
  PROVE  Mul(p, q) \in Polynomials
BY SumType DEF Mul

\* (a + b) * q = a * q + b * q
LEMMA MulPlus ==
  ASSUME NEW a \in Polynomials, NEW b \in Polynomials, NEW q \in Polynomials
  PROVE  Mul(Plus(a, b), q) = Plus(Mul(a, q), Mul(b, q))
<1> DEFINE Terms(p, n) == {k \in p : n \in TimesXPower[k][q]}
<1>1. \A p, n : n \in Mul(p, q) <=> n \in Degrees /\ Odd(Terms(p, n))
  <2> TAKE p, n
  <2> DEFINE f == [k \in p |-> TimesXPower[k][q]]
  <2>1. DOMAIN f = p /\ \A k \in p : f[k] = TimesXPower[k][q]
    OBVIOUS
  <2>2. {k \in DOMAIN f : n \in f[k]} = Terms(p, n)
    <3> HIDE DEF f
    <3> QED
      BY <2>1
  <2>3. n \in Sum(f) <=> n \in Degrees /\ Odd({k \in DOMAIN f : n \in f[k]})
    <3> HIDE DEF f
    <3> QED
      BY DEF Sum
  <2>4. Mul(p, q) = Sum(f)
    BY DEF Mul
  <2> HIDE DEF f, Terms
  <2> QED
    BY <2>2, <2>3, <2>4
<1>2. ASSUME NEW n \in Degrees
      PROVE  Odd(Terms(Plus(a, b), n)) <=> ~(Odd(Terms(a, n)) <=> Odd(Terms(b, n)))
  <2>1. Terms(Plus(a, b), n) = Plus(Terms(a, n), Terms(b, n))
    BY DEF Plus
  <2>2. IsFiniteSet(Terms(a, n)) /\ IsFiniteSet(Terms(b, n))
    <3>1. Terms(a, n) \in SUBSET a /\ Terms(b, n) \in SUBSET b
      OBVIOUS
    <3>2. IsFiniteSet(a) /\ IsFiniteSet(b)
      BY DegreesFinite
    <3> HIDE DEF Terms
    <3> QED
      BY <3>1, <3>2, FS_Subset
  <2> HIDE DEF Terms
  <2> QED
    BY <2>1, <2>2, OddPlus
<1> HIDE DEF Terms
<1> QED
  BY <1>1, <1>2 DEF Plus

\* The product with a polynomial of one term
LEMMA MulMonomial ==
  ASSUME NEW k \in Degrees, NEW q \in Polynomials
  PROVE  Mul({k}, q) = TimesXPower[k][q]
<1> DEFINE f == [i \in {k} |-> TimesXPower[i][q]]
<1>1. k \in Nat
  BY DEF Degrees
<1>2. DOMAIN f = {k} /\ f[k] = TimesXPower[k][q] /\ f[k] \in Polynomials
  BY <1>1, TimesXPowerDef
<1>3. Mul({k}, q) = Sum(f)
  BY DEF Mul
<1> HIDE DEF f
<1> QED
  BY <1>2, <1>3, SumSingle

\* 0 * q = 0
LEMMA MulEmpty ==
  ASSUME NEW q
  PROVE  Mul({}, q) = {}
<1> DEFINE f == [i \in {} |-> TimesXPower[i][q]]
<1>1. DOMAIN f = {}
  OBVIOUS
<1>2. Mul({}, q) = Sum(f)
  BY DEF Mul
<1> HIDE DEF f
<1> QED
  BY <1>1, <1>2, SumEmpty

\* (x * p) * q = x * (p * q)
LEMMA MulTimesX ==
  ASSUME NEW p \in Polynomials, NEW q \in Polynomials
  PROVE  Mul(TimesX(p), q) = TimesX(Mul(p, q))
<1> DEFINE S == {r \in Polynomials : Mul(TimesX(r), q) = TimesX(Mul(r, q))}
<1>1. {} \in S
  <2>1. {} \in Polynomials
    BY DEF Polynomials
  <2> QED
    BY <2>1, MulEmpty, TimesXMonomial
<1>2. ASSUME NEW k \in Degrees PROVE {k} \in S
  <2>1. {k} \in Polynomials /\ k \in Nat
    <3>1. {k} \in Polynomials
      BY Monomial
    <3> QED
      BY <3>1 DEF Degrees
  <2>2. TimesX(Mul({k}, q)) = TimesXPower[k + 1][q]
    BY <2>1, MulMonomial, TimesXPowerDef
  <2>3. CASE k # 7
    <3>1. k \in 0 .. 6 /\ k + 1 \in Degrees
      BY <2>3 DEF Degrees
    <3>2. Mul(TimesX({k}), q) = TimesXPower[k + 1][q]
      BY <3>1, MulMonomial, TimesXMonomial
    <3> QED
      BY <2>1, <2>2, <3>2
  <2>4. CASE k = 7
    <3>1. \A n \in {4, 3, 2, 0} : n \in Degrees /\ {n} \in Polynomials /\ Mul({n}, q) = TimesXPower[n][q]
      <4>1. \A n \in {4, 3, 2, 0} : n \in Degrees
        BY DEF Degrees
      <4> QED
        BY <4>1, Monomial, MulMonomial
    <3>2. Plus({4}, {3}) \in Polynomials /\ Plus({2}, {0}) \in Polynomials
      BY <3>1, PlusType
    <3>3. Mul(Plus(Plus({4}, {3}), Plus({2}, {0})), q) = Plus(Mul(Plus({4}, {3}), q), Mul(Plus({2}, {0}), q))
      BY <3>2, MulPlus
    <3>4. Mul(Plus({4}, {3}), q) = Plus(Mul({4}, q), Mul({3}, q))
      BY <3>1, MulPlus
    <3>5. Mul(Plus({2}, {0}), q) = Plus(Mul({2}, q), Mul({0}, q))
      BY <3>1, MulPlus
    <3>6. Mul({4, 3, 2, 0}, q) = TimesXPower[8][q]
      BY <3>1, <3>3, <3>4, <3>5, Remainder, TimesX8
    <3>7. k + 1 = 8
      BY <2>4
    <3> QED
      BY <2>1, <2>2, <2>4, <3>6, <3>7, TimesXMonomial
  <2> QED
    BY <2>3, <2>4
<1>3. ASSUME NEW r \in S, NEW s \in S PROVE Plus(r, s) \in S
  <2>1. r \in Polynomials /\ s \in Polynomials /\ Plus(r, s) \in Polynomials
    BY PlusType
  <2>2. TimesX(r) \in Polynomials /\ TimesX(s) \in Polynomials
    BY <2>1, TimesXBits
  <2>3. Mul(TimesX(Plus(r, s)), q) = Plus(Mul(TimesX(r), q), Mul(TimesX(s), q))
    BY <2>1, <2>2, TimesXPlus, MulPlus
  <2>4. TimesX(Mul(Plus(r, s), q)) = Plus(TimesX(Mul(r, q)), TimesX(Mul(s, q)))
    BY <2>1, MulType, TimesXPlus, MulPlus
  <2> QED
    BY <2>1, <2>3, <2>4
<1>4. S \in SUBSET Polynomials
  OBVIOUS
<1>5. S = Polynomials
  <2> HIDE DEF S
  <2> QED
    BY <1>1, <1>2, <1>3, <1>4, Span
<1> QED
  BY <1>5

\* (x^n) * q = x^n * q: the power is a product.
LEMMA MulTimesXPower ==
  ASSUME NEW n \in Nat, NEW p \in Polynomials, NEW q \in Polynomials
  PROVE  Mul(TimesXPower[n][p], q) = TimesXPower[n][Mul(p, q)]
<1> DEFINE S == {m \in Nat : Mul(TimesXPower[m][p], q) = TimesXPower[m][Mul(p, q)]}
<1>0. Mul(p, q) \in Polynomials
  BY MulType
<1>1. 0 \in S
  BY <1>0, TimesXPowerDef
<1>2. ASSUME NEW m \in S PROVE m + 1 \in S
  <2>1. TimesXPower[m][p] \in Polynomials
    BY TimesXPowerDef
  <2> QED
    BY <1>0, <2>1, TimesXPowerDef, MulTimesX
<1>3. S \in SUBSET Nat
  OBVIOUS
<1>4. S = Nat
  <2> HIDE DEF S
  <2> QED
    BY <1>1, <1>2, <1>3, SetInduction
<1> QED
  BY <1>4

-----------------------------------------------------------------------------
(* The order of x                                                           *)

\* Multiplication by a power of x, bit by bit: q = x^n * p.
Map1(p, q) ==
  /\ 0 \in q <=> 7 \in p
  /\ 1 \in q <=> 0 \in p
  /\ 2 \in q <=> ((1 \in p) # (7 \in p))
  /\ 3 \in q <=> ((2 \in p) # (7 \in p))
  /\ 4 \in q <=> ((3 \in p) # (7 \in p))
  /\ 5 \in q <=> 4 \in p
  /\ 6 \in q <=> 5 \in p
  /\ 7 \in q <=> 6 \in p

Map2(p, q) ==
  /\ 0 \in q <=> 6 \in p
  /\ 1 \in q <=> 7 \in p
  /\ 2 \in q <=> ((0 \in p) # (6 \in p))
  /\ 3 \in q <=> ((1 \in p) # ((6 \in p) # (7 \in p)))
  /\ 4 \in q <=> ((2 \in p) # ((6 \in p) # (7 \in p)))
  /\ 5 \in q <=> ((3 \in p) # (7 \in p))
  /\ 6 \in q <=> 4 \in p
  /\ 7 \in q <=> 5 \in p

Map4(p, q) ==
  /\ 0 \in q <=> 4 \in p
  /\ 1 \in q <=> 5 \in p
  /\ 2 \in q <=> ((4 \in p) # (6 \in p))
  /\ 3 \in q <=> ((4 \in p) # ((5 \in p) # (7 \in p)))
  /\ 4 \in q <=> (((0 \in p) # (4 \in p)) # ((5 \in p) # (6 \in p)))
  /\ 5 \in q <=> (((1 \in p) # (5 \in p)) # ((6 \in p) # (7 \in p)))
  /\ 6 \in q <=> ((2 \in p) # ((6 \in p) # (7 \in p)))
  /\ 7 \in q <=> ((3 \in p) # (7 \in p))

Map8(p, q) ==
  /\ 0 \in q <=> (((0 \in p) # (4 \in p)) # ((5 \in p) # (6 \in p)))
  /\ 1 \in q <=> (((1 \in p) # (5 \in p)) # ((6 \in p) # (7 \in p)))
  /\ 2 \in q <=> (((0 \in p) # (2 \in p)) # ((4 \in p) # ((5 \in p) # (7 \in p))))
  /\ 3 \in q <=> (((0 \in p) # (1 \in p)) # ((3 \in p) # (4 \in p)))
  /\ 4 \in q <=> (((0 \in p) # (1 \in p)) # ((2 \in p) # (6 \in p)))
  /\ 5 \in q <=> (((1 \in p) # (2 \in p)) # ((3 \in p) # (7 \in p)))
  /\ 6 \in q <=> ((2 \in p) # ((3 \in p) # (4 \in p)))
  /\ 7 \in q <=> ((3 \in p) # ((4 \in p) # (5 \in p)))

Map16(p, q) ==
  /\ 0 \in q <=> ((2 \in p) # ((5 \in p) # (7 \in p)))
  /\ 1 \in q <=> ((3 \in p) # (6 \in p))
  /\ 2 \in q <=> (((0 \in p) # (2 \in p)) # ((4 \in p) # (5 \in p)))
  /\ 3 \in q <=> (((0 \in p) # ((1 \in p) # (2 \in p))) # ((3 \in p) # ((6 \in p) # (7 \in p))))
  /\ 4 \in q <=> (((1 \in p) # (3 \in p)) # ((4 \in p) # (5 \in p)))
  /\ 5 \in q <=> (((2 \in p) # (4 \in p)) # ((5 \in p) # (6 \in p)))
  /\ 6 \in q <=> (((0 \in p) # (3 \in p)) # ((5 \in p) # ((6 \in p) # (7 \in p))))
  /\ 7 \in q <=> (((1 \in p) # (4 \in p)) # ((6 \in p) # (7 \in p)))

Map17(p, q) ==
  /\ 0 \in q <=> (((1 \in p) # (4 \in p)) # ((6 \in p) # (7 \in p)))
  /\ 1 \in q <=> ((2 \in p) # ((5 \in p) # (7 \in p)))
  /\ 2 \in q <=> (((1 \in p) # (3 \in p)) # ((4 \in p) # (7 \in p)))
  /\ 3 \in q <=> (((0 \in p) # ((1 \in p) # (2 \in p))) # ((5 \in p) # ((6 \in p) # (7 \in p))))
  /\ 4 \in q <=> (((0 \in p) # (2 \in p)) # ((3 \in p) # (4 \in p)))
  /\ 5 \in q <=> (((1 \in p) # (3 \in p)) # ((4 \in p) # (5 \in p)))
  /\ 6 \in q <=> (((2 \in p) # (4 \in p)) # ((5 \in p) # (6 \in p)))
  /\ 7 \in q <=> (((0 \in p) # (3 \in p)) # ((5 \in p) # ((6 \in p) # (7 \in p))))

Map34(p, q) ==
  /\ 0 \in q <=> ((2 \in p) # (5 \in p))
  /\ 1 \in q <=> ((0 \in p) # ((3 \in p) # (6 \in p)))
  /\ 2 \in q <=> (((0 \in p) # ((1 \in p) # (2 \in p))) # ((4 \in p) # ((5 \in p) # (7 \in p))))
  /\ 3 \in q <=> (((0 \in p) # (1 \in p)) # ((3 \in p) # (6 \in p)))
  /\ 4 \in q <=> (((1 \in p) # (4 \in p)) # ((5 \in p) # (7 \in p)))
  /\ 5 \in q <=> ((2 \in p) # ((5 \in p) # (6 \in p)))
  /\ 6 \in q <=> (((0 \in p) # (3 \in p)) # ((6 \in p) # (7 \in p)))
  /\ 7 \in q <=> ((1 \in p) # ((4 \in p) # (7 \in p)))

Map51(p, q) ==
  /\ 0 \in q <=> ((5 \in p) # (7 \in p))
  /\ 1 \in q <=> ((0 \in p) # (6 \in p))
  /\ 2 \in q <=> ((1 \in p) # (5 \in p))
  /\ 3 \in q <=> (((0 \in p) # (2 \in p)) # ((5 \in p) # ((6 \in p) # (7 \in p))))
  /\ 4 \in q <=> (((1 \in p) # (3 \in p)) # ((5 \in p) # (6 \in p)))
  /\ 5 \in q <=> (((2 \in p) # (4 \in p)) # ((6 \in p) # (7 \in p)))
  /\ 6 \in q <=> ((3 \in p) # ((5 \in p) # (7 \in p)))
  /\ 7 \in q <=> ((4 \in p) # (6 \in p))

Map85(p, q) ==
  /\ 0 \in q <=> (((1 \in p) # ((2 \in p) # (4 \in p))) # ((5 \in p) # ((6 \in p) # (7 \in p))))
  /\ 1 \in q <=> (((0 \in p) # ((2 \in p) # (3 \in p))) # ((5 \in p) # ((6 \in p) # (7 \in p))))
  /\ 2 \in q <=> (((0 \in p) # (2 \in p)) # ((3 \in p) # (5 \in p)))
  /\ 3 \in q <=> (((2 \in p) # (3 \in p)) # ((5 \in p) # (7 \in p)))
  /\ 4 \in q <=> (((0 \in p) # ((1 \in p) # (2 \in p))) # ((3 \in p) # ((5 \in p) # (7 \in p))))
  /\ 5 \in q <=> (((1 \in p) # (2 \in p)) # ((3 \in p) # ((4 \in p) # (6 \in p))))
  /\ 6 \in q <=> (((0 \in p) # ((2 \in p) # (3 \in p))) # ((4 \in p) # ((5 \in p) # (7 \in p))))
  /\ 7 \in q <=> (((0 \in p) # ((1 \in p) # (3 \in p))) # ((4 \in p) # ((5 \in p) # (6 \in p))))

Map170(p, q) ==
  /\ 0 \in q <=> (((0 \in p) # ((1 \in p) # (2 \in p))) # (((4 \in p) # (5 \in p)) # ((6 \in p) # (7 \in p))))
  /\ 1 \in q <=> (((0 \in p) # ((1 \in p) # (2 \in p))) # (((3 \in p) # (5 \in p)) # ((6 \in p) # (7 \in p))))
  /\ 2 \in q <=> ((0 \in p) # ((3 \in p) # (5 \in p)))
  /\ 3 \in q <=> ((2 \in p) # ((5 \in p) # (7 \in p)))
  /\ 4 \in q <=> (((0 \in p) # ((1 \in p) # (2 \in p))) # (((3 \in p) # (4 \in p)) # ((5 \in p) # (7 \in p))))
  /\ 5 \in q <=> (((1 \in p) # ((2 \in p) # (3 \in p))) # ((4 \in p) # ((5 \in p) # (6 \in p))))
  /\ 6 \in q <=> (((0 \in p) # ((2 \in p) # (3 \in p))) # (((4 \in p) # (5 \in p)) # ((6 \in p) # (7 \in p))))
  /\ 7 \in q <=> (((0 \in p) # ((1 \in p) # (3 \in p))) # (((4 \in p) # (5 \in p)) # ((6 \in p) # (7 \in p))))

\* x^1 * p, bit by bit
LEMMA Power1 ==
  ASSUME NEW p \in Polynomials
  PROVE  TimesXPower[1][p] \in Polynomials /\ Map1(p, TimesXPower[1][p])
<1> DEFINE q == TimesX(p)
<1>1. TimesXPower[1][p] = q
  <2>1. 1 = 0 + 1 /\ 0 \in Nat
    OBVIOUS
  <2> QED
    BY <2>1, TimesXPowerDef
<1>2. q \in Polynomials
  BY TimesXBits
<1>3. \A n \in {0, 1, 2, 3, 4, 5, 6, 7} :
        n \in q <=> ~(n - 1 \in p <=> (7 \in p /\ n \in {4, 3, 2, 0}))
  BY TimesXBits DEF Degrees
<1>4. -1 \notin p
  BY DEF Polynomials, Degrees
<1> HIDE DEF q
<1>5. (0 \in q <=> 7 \in p) /\ (1 \in q <=> 0 \in p)
  BY <1>3, <1>4
<1>6. (2 \in q <=> ((1 \in p) # (7 \in p))) /\ (3 \in q <=> ((2 \in p) # (7 \in p)))
  BY <1>3
<1>7. (4 \in q <=> ((3 \in p) # (7 \in p))) /\ (5 \in q <=> 4 \in p)
  BY <1>3
<1>8. (6 \in q <=> 5 \in p) /\ (7 \in q <=> 6 \in p)
  BY <1>3
<1> QED
  BY <1>1, <1>2, <1>5, <1>6, <1>7, <1>8 DEF Map1

\* x^2 * p, bit by bit
LEMMA Power2 ==
  ASSUME NEW p \in Polynomials
  PROVE  TimesXPower[2][p] \in Polynomials /\ Map2(p, TimesXPower[2][p])
<1> DEFINE q == TimesXPower[1][p]
           r == TimesXPower[1][q]
<1>1. q \in Polynomials /\ Map1(p, q)
  BY Power1
<1> HIDE DEF q
<1>2. r \in Polynomials /\ Map1(q, r)
  BY <1>1, Power1
<1>3. TimesXPower[2][p] = r
  <2>1. 2 = 1 + 1 /\ 1 \in Nat /\ 1 \in Nat
    OBVIOUS
  <2> QED
    BY <2>1, TimesXPowerAdd DEF q
<1> HIDE DEF r
<1>4. Map2(p, r)
  BY <1>1, <1>2 DEF Map1, Map2
<1> QED
  BY <1>2, <1>3, <1>4

\* x^4 * p, bit by bit
LEMMA Power4 ==
  ASSUME NEW p \in Polynomials
  PROVE  TimesXPower[4][p] \in Polynomials /\ Map4(p, TimesXPower[4][p])
<1> DEFINE q == TimesXPower[2][p]
           r == TimesXPower[2][q]
<1>1. q \in Polynomials /\ Map2(p, q)
  BY Power2
<1> HIDE DEF q
<1>2. r \in Polynomials /\ Map2(q, r)
  BY <1>1, Power2
<1>3. TimesXPower[4][p] = r
  <2>1. 4 = 2 + 2 /\ 2 \in Nat /\ 2 \in Nat
    OBVIOUS
  <2> QED
    BY <2>1, TimesXPowerAdd DEF q
<1> HIDE DEF r
<1>4. Map4(p, r)
  BY <1>1, <1>2 DEF Map2, Map4
<1> QED
  BY <1>2, <1>3, <1>4

\* x^8 * p, bit by bit
LEMMA Power8 ==
  ASSUME NEW p \in Polynomials
  PROVE  TimesXPower[8][p] \in Polynomials /\ Map8(p, TimesXPower[8][p])
<1> DEFINE q == TimesXPower[4][p]
           r == TimesXPower[4][q]
<1>1. q \in Polynomials /\ Map4(p, q)
  BY Power4
<1> HIDE DEF q
<1>2. r \in Polynomials /\ Map4(q, r)
  BY <1>1, Power4
<1>3. TimesXPower[8][p] = r
  <2>1. 8 = 4 + 4 /\ 4 \in Nat /\ 4 \in Nat
    OBVIOUS
  <2> QED
    BY <2>1, TimesXPowerAdd DEF q
<1> HIDE DEF r
<1>4. Map8(p, r)
  BY <1>1, <1>2 DEF Map4, Map8
<1> QED
  BY <1>2, <1>3, <1>4

\* x^16 * p, bit by bit
LEMMA Power16 ==
  ASSUME NEW p \in Polynomials
  PROVE  TimesXPower[16][p] \in Polynomials /\ Map16(p, TimesXPower[16][p])
<1> DEFINE q == TimesXPower[8][p]
           r == TimesXPower[8][q]
<1>1. q \in Polynomials /\ Map8(p, q)
  BY Power8
<1> HIDE DEF q
<1>2. r \in Polynomials /\ Map8(q, r)
  BY <1>1, Power8
<1>3. TimesXPower[16][p] = r
  <2>1. 16 = 8 + 8 /\ 8 \in Nat /\ 8 \in Nat
    OBVIOUS
  <2> QED
    BY <2>1, TimesXPowerAdd DEF q
<1> HIDE DEF r
<1>4. Map16(p, r)
  BY <1>1, <1>2 DEF Map8, Map16
<1> QED
  BY <1>2, <1>3, <1>4

\* x^17 * p, bit by bit
LEMMA Power17 ==
  ASSUME NEW p \in Polynomials
  PROVE  TimesXPower[17][p] \in Polynomials /\ Map17(p, TimesXPower[17][p])
<1> DEFINE q == TimesXPower[16][p]
           r == TimesXPower[1][q]
<1>1. q \in Polynomials /\ Map16(p, q)
  BY Power16
<1> HIDE DEF q
<1>2. r \in Polynomials /\ Map1(q, r)
  BY <1>1, Power1
<1>3. TimesXPower[17][p] = r
  <2>1. 17 = 1 + 16 /\ 1 \in Nat /\ 16 \in Nat
    OBVIOUS
  <2> QED
    BY <2>1, TimesXPowerAdd DEF q
<1> HIDE DEF r
<1>4. Map17(p, r)
  BY <1>1, <1>2 DEF Map1, Map16, Map17
<1> QED
  BY <1>2, <1>3, <1>4

\* x^34 * p, bit by bit
LEMMA Power34 ==
  ASSUME NEW p \in Polynomials
  PROVE  TimesXPower[34][p] \in Polynomials /\ Map34(p, TimesXPower[34][p])
<1> DEFINE q == TimesXPower[17][p]
           r == TimesXPower[17][q]
<1>1. q \in Polynomials /\ Map17(p, q)
  BY Power17
<1> HIDE DEF q
<1>2. r \in Polynomials /\ Map17(q, r)
  BY <1>1, Power17
<1>3. TimesXPower[34][p] = r
  <2>1. 34 = 17 + 17 /\ 17 \in Nat /\ 17 \in Nat
    OBVIOUS
  <2> QED
    BY <2>1, TimesXPowerAdd DEF q
<1> HIDE DEF r
<1>4. Map34(p, r)
  BY <1>1, <1>2 DEF Map17, Map34
<1> QED
  BY <1>2, <1>3, <1>4

\* x^51 * p, bit by bit
LEMMA Power51 ==
  ASSUME NEW p \in Polynomials
  PROVE  TimesXPower[51][p] \in Polynomials /\ Map51(p, TimesXPower[51][p])
<1> DEFINE q == TimesXPower[34][p]
           r == TimesXPower[17][q]
<1>1. q \in Polynomials /\ Map34(p, q)
  BY Power34
<1> HIDE DEF q
<1>2. r \in Polynomials /\ Map17(q, r)
  BY <1>1, Power17
<1>3. TimesXPower[51][p] = r
  <2>1. 51 = 17 + 34 /\ 17 \in Nat /\ 34 \in Nat
    OBVIOUS
  <2> QED
    BY <2>1, TimesXPowerAdd DEF q
<1> HIDE DEF r
<1>4. Map51(p, r)
  BY <1>1, <1>2 DEF Map17, Map34, Map51
<1> QED
  BY <1>2, <1>3, <1>4

\* x^85 * p, bit by bit
LEMMA Power85 ==
  ASSUME NEW p \in Polynomials
  PROVE  TimesXPower[85][p] \in Polynomials /\ Map85(p, TimesXPower[85][p])
<1> DEFINE q == TimesXPower[51][p]
           r == TimesXPower[34][q]
<1>1. q \in Polynomials /\ Map51(p, q)
  BY Power51
<1> HIDE DEF q
<1>2. r \in Polynomials /\ Map34(q, r)
  BY <1>1, Power34
<1>3. TimesXPower[85][p] = r
  <2>1. 85 = 34 + 51 /\ 34 \in Nat /\ 51 \in Nat
    OBVIOUS
  <2> QED
    BY <2>1, TimesXPowerAdd DEF q
<1> HIDE DEF r
<1>4. Map85(p, r)
  BY <1>1, <1>2 DEF Map34, Map51, Map85
<1> QED
  BY <1>2, <1>3, <1>4

\* x^170 * p, bit by bit
LEMMA Power170 ==
  ASSUME NEW p \in Polynomials
  PROVE  TimesXPower[170][p] \in Polynomials /\ Map170(p, TimesXPower[170][p])
<1> DEFINE q == TimesXPower[85][p]
           r == TimesXPower[85][q]
<1>1. q \in Polynomials /\ Map85(p, q)
  BY Power85
<1> HIDE DEF q
<1>2. r \in Polynomials /\ Map85(q, r)
  BY <1>1, Power85
<1>3. TimesXPower[170][p] = r
  <2>1. 170 = 85 + 85 /\ 85 \in Nat /\ 85 \in Nat
    OBVIOUS
  <2> QED
    BY <2>1, TimesXPowerAdd DEF q
<1> HIDE DEF r
<1>4. Map170(p, r)
  BY <1>1, <1>2 DEF Map85, Map170
<1> QED
  BY <1>2, <1>3, <1>4

\* x^255 = 1
LEMMA Power255 ==
  ASSUME NEW p \in Polynomials
  PROVE  TimesXPower[255][p] = p
<1> DEFINE q == TimesXPower[170][p]
           r == TimesXPower[85][q]
<1>1. q \in Polynomials /\ Map170(p, q)
  BY Power170
<1> HIDE DEF q
<1>2. r \in Polynomials /\ Map85(q, r)
  BY <1>1, Power85
<1>3. TimesXPower[255][p] = r
  <2>1. 255 = 85 + 170 /\ 85 \in Nat /\ 170 \in Nat
    OBVIOUS
  <2> QED
    BY <2>1, TimesXPowerAdd DEF q
<1> HIDE DEF r
<1>4. /\ 0 \in r <=> 0 \in p
      /\ 1 \in r <=> 1 \in p
      /\ 2 \in r <=> 2 \in p
      /\ 3 \in r <=> 3 \in p
      /\ 4 \in r <=> 4 \in p
      /\ 5 \in r <=> 5 \in p
      /\ 6 \in r <=> 6 \in p
      /\ 7 \in r <=> 7 \in p
  BY <1>1, <1>2 DEF Map85, Map170
<1>5. \A n \in Degrees : n \in r <=> n \in p
  BY <1>4 DEF Degrees
<1> QED
  BY <1>2, <1>3, <1>5 DEF Polynomials

\* No bit is set.
LEMMA NoBits ==
  ASSUME NEW p \in Polynomials, 0 \notin p, 1 \notin p, 2 \notin p, 3 \notin p,
         4 \notin p, 5 \notin p, 6 \notin p, 7 \notin p
  PROVE  p = {}
BY DEF Polynomials, Degrees

\* The powers 15, 51 and 85 of x are not 1: they move everything but zero.
LEMMA Moves ==
  ASSUME NEW p \in Polynomials
  PROVE  /\ TimesXPower[15][p] = p => p = {}
         /\ TimesXPower[51][p] = p => p = {}
         /\ TimesXPower[85][p] = p => p = {}
<1>1. ASSUME TimesXPower[15][p] = p PROVE p = {}
  <2> DEFINE q == TimesXPower[1][p]
  <2>1. q \in Polynomials /\ Map1(p, q)
    BY Power1
  <2>2. TimesXPower[16][p] = q
    <3>1. 16 = 1 + 15 /\ 1 \in Nat /\ 15 \in Nat
      OBVIOUS
    <3> QED
      BY <1>1, <3>1, TimesXPowerAdd
  <2>3. Map16(p, q)
    BY <2>2, Power16
  <2> HIDE DEF q
  <2> QED
    BY <2>1, <2>3, NoBits DEF Map1, Map16
<1>2. ASSUME TimesXPower[51][p] = p PROVE p = {}
  <2>1. Map51(p, p)
    BY <1>2, Power51
  <2> QED
    BY <2>1, NoBits DEF Map51
<1>3. ASSUME TimesXPower[85][p] = p PROVE p = {}
  <2>1. Map85(p, p)
    BY <1>3, Power85
  <2> QED
    BY <2>1, NoBits DEF Map85
<1> QED
  BY <1>1, <1>2, <1>3

\* The divisors of 255 below it
LEMMA Divisors ==
  ASSUME NEW l \in 1 .. 254, NEW q \in Nat, 255 = q * l
  PROVE  l \in {1, 3, 5, 15, 17, 51, 85}
<1>1. l <= 15 \/ q <= 15
  <2> SUFFICES ASSUME l >= 16, q >= 16 PROVE FALSE
    OBVIOUS
  <2>1. \E a, b \in Nat : l = 16 + a /\ q = 16 + b
    <3>1. l - 16 \in Nat /\ q - 16 \in Nat /\ l = 16 + (l - 16) /\ q = 16 + (q - 16)
      OBVIOUS
    <3> QED
      BY <3>1
  <2>2. PICK a, b \in Nat : l = 16 + a /\ q = 16 + b
    BY <2>1
  <2>3. a * b \in Nat /\ q * l = 256 + 16 * a + 16 * b + a * b
    BY <2>2
  <2> QED
    BY <2>3
<1>2. CASE l <= 15
  <2>1. l \in {1, 2, 3, 4, 5, 6, 7, 8, 9, 10, 11, 12, 13, 14, 15}
    BY <1>2
  <2>2. \A k \in Nat : /\ 255 # k * 2 /\ 255 # k * 4 /\ 255 # k * 6 /\ 255 # k * 7
                       /\ 255 # k * 8 /\ 255 # k * 9 /\ 255 # k * 10 /\ 255 # k * 11
                       /\ 255 # k * 12 /\ 255 # k * 13 /\ 255 # k * 14
    OBVIOUS
  <2> QED
    BY <2>1, <2>2
<1>3. CASE q <= 15
  <2>1. q \in {0, 1, 2, 3, 4, 5, 6, 7, 8, 9, 10, 11, 12, 13, 14, 15}
    BY <1>3
  <2>2. /\ 255 # 2 * l /\ 255 # 4 * l /\ 255 # 6 * l /\ 255 # 7 * l
        /\ 255 # 8 * l /\ 255 # 9 * l /\ 255 # 10 * l /\ 255 # 11 * l
        /\ 255 # 12 * l /\ 255 # 13 * l /\ 255 # 14 * l /\ 255 # 0 * l /\ 255 # 1 * l
    OBVIOUS
  <2>3. q \in {3, 5, 15}
    BY <2>1, <2>2
  <2>4. (255 = 3 * l => l = 85) /\ (255 = 5 * l => l = 51) /\ (255 = 15 * l => l = 17)
    OBVIOUS
  <2> QED
    BY <2>3, <2>4
<1> QED
  BY <1>1, <1>2, <1>3

\* If x^l * e = e then every multiple of l is a period of e as well.
LEMMA Multiples ==
  ASSUME NEW e \in Polynomials, NEW l \in Nat, TimesXPower[l][e] = e, NEW k \in Nat
  PROVE  k * l \in Nat /\ TimesXPower[k * l][e] = e
<1> DEFINE S == {n \in Nat : n * l \in Nat /\ TimesXPower[n * l][e] = e}
<1>1. 0 \in S
  BY TimesXPowerDef
<1>2. ASSUME NEW n \in S PROVE n + 1 \in S
  <2>1. n * l \in Nat /\ TimesXPower[n * l][e] = e
    OBVIOUS
  <2>2. (n + 1) * l = l + n * l /\ (n + 1) * l \in Nat
    BY <2>1
  <2>3. TimesXPower[l + n * l][e] = TimesXPower[l][TimesXPower[n * l][e]]
    BY <2>1, TimesXPowerAdd
  <2> QED
    BY <2>1, <2>2, <2>3
<1>3. S \in SUBSET Nat
  OBVIOUS
<1>4. S = Nat
  <2> HIDE DEF S
  <2> QED
    BY <1>1, <1>2, <1>3, SetInduction
<1> QED
  BY <1>4

\* Powers of x below 255 move everything but zero: x has the order 255, and
\* 1 + x^m has an inverse.
LEMMA Order ==
  ASSUME NEW e \in Polynomials, NEW m \in 1 .. 254, TimesXPower[m][e] = e
  PROVE  e = {}
<1> DEFINE S == {n \in Nat : n > 0 /\ TimesXPower[n][e] = e}
           R == OpToRel(<, Nat)
<1>1. PICK l \in S : \A k \in S : ~(<<k, l>> \in R)
  <2>1. IsWellFoundedOn(R, Nat)
    BY NatLessThanWellFounded
  <2>2. S \subseteq Nat /\ S # {}
    <3>1. m \in S
      OBVIOUS
    <3> QED
      BY <3>1
  <2> HIDE DEF R, S
  <2> QED
    BY <2>1, <2>2, WFMin
<1>2. \A k \in S : l <= k
  <2> TAKE k \in S
  <2>1. k \in Nat /\ l \in Nat /\ ~(<<k, l>> \in R)
    BY <1>1
  <2>2. ~(k < l)
    BY <2>1 DEF OpToRel
  <2> HIDE DEF R, S
  <2> QED
    BY <2>1, <2>2
<1>3. l \in 1 .. 254 /\ TimesXPower[l][e] = e
  <2>1. m \in S /\ l \in S
    OBVIOUS
  <2> QED
    BY <1>2, <2>1
<1> DEFINE q == 255 \div l
           r == 255 % l
<1>4. q \in Nat /\ r \in Nat /\ r < l /\ 255 = r + q * l
  BY <1>3
<1> HIDE DEF q, r
<1>5. TimesXPower[r][e] = e
  <2>1. q * l \in Nat /\ TimesXPower[q * l][e] = e
    BY <1>3, <1>4, Multiples
  <2>2. TimesXPower[r + q * l][e] = TimesXPower[r][TimesXPower[q * l][e]]
    <3>1. r \in Nat /\ q * l \in Nat
      BY <1>4, <2>1
    <3> HIDE DEF S, R
    <3> QED
      BY <3>1, TimesXPowerAdd, Zenon
  <2>3. TimesXPower[255][e] = e
    BY Power255
  <2>4. TimesXPower[255] = TimesXPower[r + q * l]
    BY <1>4
  <2> QED
    BY <2>1, <2>2, <2>3, <2>4, Zenon
<1>6. r = 0
  <2>1. r > 0 => r \in S
    BY <1>4, <1>5
  <2> HIDE DEF S
  <2> QED
    BY <1>2, <1>3, <1>4, <2>1
<1>7. l \in {1, 3, 5, 15, 17, 51, 85}
  <2>1. 255 = q * l
    BY <1>3, <1>4, <1>6
  <2> QED
    BY <1>3, <1>4, <2>1, Divisors
<1>8. CASE l \in {1, 3, 5, 15}
  <2>1. PICK k \in Nat : k * l = 15
    <3>1. 15 * 1 = 15 /\ 5 * 3 = 15 /\ 3 * 5 = 15 /\ 1 * 15 = 15
      OBVIOUS
    <3> QED
      BY <1>8, <3>1
  <2>2. TimesXPower[k * l][e] = e
    <3>1. l \in Nat
      BY <1>3
    <3> HIDE DEF S
    <3> QED
      BY <1>3, <3>1, Multiples
  <2>3. TimesXPower[15][e] = e
    BY <2>1, <2>2
  <2> QED
    BY <2>3, Moves
<1>9. CASE l \in {17, 51}
  <2>1. PICK k \in Nat : k * l = 51
    <3>1. 3 * 17 = 51 /\ 1 * 51 = 51
      OBVIOUS
    <3> QED
      BY <1>9, <3>1
  <2>2. TimesXPower[k * l][e] = e
    <3>1. l \in Nat
      BY <1>3
    <3> HIDE DEF S
    <3> QED
      BY <1>3, <3>1, Multiples
  <2>3. TimesXPower[51][e] = e
    BY <2>1, <2>2
  <2> QED
    BY <2>3, Moves
<1>10. CASE l = 85
  BY <1>3, <1>10, Moves
<1> QED
  BY <1>7, <1>8, <1>9, <1>10

\* Two powers of x that are less than 255 apart differ on everything but zero:
\* the coefficients that raid6_gen_syndrome() gives the disks, x^d for disk d,
\* are different for up to 255 data disks.
THEOREM PowersDiffer ==
  ASSUME NEW e \in Polynomials, NEW a \in Nat, NEW b \in Nat, a < b, b - a < 255,
         TimesXPower[a][e] = TimesXPower[b][e]
  PROVE  e = {}
<1>1. b - a \in 1 .. 254 /\ b - a \in Nat /\ b = a + (b - a)
  OBVIOUS
<1>2. TimesXPower[b - a][e] \in Polynomials
  BY <1>1, TimesXPowerDef
<1>3. TimesXPower[b][e] = TimesXPower[a][TimesXPower[b - a][e]]
  <2> DEFINE c == b - a
  <2>1. c \in Nat /\ b = a + c
    BY <1>1
  <2> HIDE DEF c
  <2>2. TimesXPower[b][e] = TimesXPower[a][TimesXPower[c][e]]
    BY <2>1, TimesXPowerAdd
  <2> QED
    BY <2>2 DEF c
<1>4. e = TimesXPower[b - a][e]
  BY <1>2, <1>3, TimesXPowerInjective
<1> QED
  BY <1>1, <1>4, Order

-----------------------------------------------------------------------------
(* Powers                                                                   *)

\* The recursive function Power is what its definition says.
LEMMA PowerDef ==
  /\ Power \in [Nat -> [Polynomials -> Polynomials]]
  /\ \A p \in Polynomials : Power[0][p] = {0}
  /\ \A n \in Nat : \A p \in Polynomials : Power[n + 1][p] = Mul(p, Power[n][p])
<1> DEFINE V == [Polynomials -> Polynomials]
           a == [p \in Polynomials |-> {0}]
           F == [h \in V |-> [p \in Polynomials |-> Mul(p, h[p])]]
           D(f) == [n \in Nat |-> [p \in Polynomials |-> IF n = 0 THEN {0} ELSE Mul(p, f[n - 1][p])]]
<1>0. {0} \in Polynomials
  BY DEF Polynomials, Degrees
<1>1. a \in V /\ F \in [V -> V]
  BY <1>0, MulType
<1>2. PICK f \in [Nat -> V] : f[0] = a /\ \A n \in Nat : f[n + 1] = F[f[n]]
  <2> HIDE DEF a, V, F
  <2> QED
    BY <1>1, Iteration
<1>3. f = D(f)
  <2>1. ASSUME NEW n \in Nat
        PROVE  f[n] = [p \in Polynomials |-> IF n = 0 THEN {0} ELSE Mul(p, f[n - 1][p])]
    <3>1. CASE n = 0
      BY <1>2, <3>1
    <3>2. CASE n # 0
      <4>1. n - 1 \in Nat /\ (n - 1) + 1 = n
        BY <3>2
      <4>2. f[n] = F[f[n - 1]]
        BY <1>2, <4>1
      <4> QED
        BY <1>2, <3>2, <4>1, <4>2
    <3> QED
      BY <3>1, <3>2
  <2> QED
    BY <1>2, <2>1
<1>4. Power = D(Power)
  <2> HIDE DEF D
  <2>1. Power = CHOOSE g : g = D(g)
    BY DEF Power, D
  <2> QED
    BY <1>3, <2>1
<1>5. \A n \in Nat : Power[n] = [p \in Polynomials |-> IF n = 0 THEN {0} ELSE Mul(p, Power[n - 1][p])]
  BY <1>4
<1>6. ASSUME NEW n \in Nat PROVE Power[n] \in V
  <2>1. \A p \in Polynomials : (IF n = 0 THEN {0} ELSE Mul(p, Power[n - 1][p])) \in Polynomials
    BY <1>0, MulType
  <2> QED
    BY <1>5, <2>1
<1>7. Power \in [Nat -> V]
  <2>1. Power = [n \in Nat |-> Power[n]]
    BY <1>4
  <2> HIDE DEF V
  <2> QED
    BY <1>6, <2>1
<1> QED
  BY <1>5, <1>7

\* 1 * q = q
LEMMA One == {0} \in Polynomials /\ \A q \in Polynomials : Mul({0}, q) = q
<1>1. 0 \in Degrees
  BY DEF Degrees
<1> QED
  BY <1>1, Monomial, MulMonomial, TimesXPowerDef

\* x^n * 0 = 0
LEMMA TimesXPowerEmpty ==
  ASSUME NEW n \in Nat
  PROVE  {} \in Polynomials /\ TimesXPower[n][{}] = {}
<1>1. {} \in Polynomials /\ {} = Plus({}, {})
  BY DEF Plus, Polynomials
<1>2. TimesXPower[n][{}] = Plus(TimesXPower[n][{}], TimesXPower[n][{}])
  BY <1>1, TimesXPowerPlus
<1>3. \A p : Plus(p, p) = {}
  BY DEF Plus
<1> QED
  BY <1>1, <1>2, <1>3

\* Products are additive in the second factor as well.
LEMMA MulPlusRight ==
  ASSUME NEW p \in Polynomials, NEW a \in Polynomials, NEW b \in Polynomials
  PROVE  Mul(p, Plus(a, b)) = Plus(Mul(p, a), Mul(p, b))
<1> DEFINE f == [k \in p |-> TimesXPower[k][a]]
           g == [k \in p |-> TimesXPower[k][b]]
           h == [k \in p |-> TimesXPower[k][Plus(a, b)]]
<1>1. \A k \in p : k \in Nat
  BY DEF Polynomials, Degrees
<1>2. f \in [p -> Polynomials] /\ g \in [p -> Polynomials]
  BY <1>1, TimesXPowerDef
<1>3. h = [k \in p |-> Plus(f[k], g[k])]
  BY <1>1, TimesXPowerPlus
<1>4. IsFiniteSet(p)
  BY DegreesFinite
<1>5. Mul(p, Plus(a, b)) = Sum(h) /\ Mul(p, a) = Sum(f) /\ Mul(p, b) = Sum(g)
  BY DEF Mul
<1> HIDE DEF f, g, h
<1> QED
  BY <1>2, <1>3, <1>4, <1>5, SumPlus

\* p * 0 = 0
LEMMA MulEmptyRight ==
  ASSUME NEW p \in Polynomials
  PROVE  Mul(p, {}) = {}
<1>1. {} \in Polynomials /\ {} = Plus({}, {})
  BY DEF Plus, Polynomials
<1>2. Mul(p, {}) = Plus(Mul(p, {}), Mul(p, {}))
  BY <1>1, MulPlusRight
<1>3. \A q : Plus(q, q) = {}
  BY DEF Plus
<1> QED
  BY <1>2, <1>3

\* p * q = q * p: by Span it is enough to look at the powers of x.
LEMMA MulCommutes ==
  ASSUME NEW p \in Polynomials, NEW q \in Polynomials
  PROVE  Mul(p, q) = Mul(q, p)
<1>1. ASSUME NEW k \in Degrees, NEW r \in Polynomials
      PROVE  Mul({k}, r) = Mul(r, {k})
  <2> DEFINE S == {s \in Polynomials : Mul({k}, s) = Mul(s, {k})}
  <2>0. {k} \in Polynomials /\ k \in Nat
    <3>1. {k} \in Polynomials
      BY Monomial
    <3> QED
      BY <3>1 DEF Degrees
  <2>1. {} \in S
    <3>1. {} \in Polynomials
      BY DEF Polynomials
    <3> QED
      BY <2>0, <3>1, MulEmpty, MulEmptyRight
  <2>2. ASSUME NEW j \in Degrees PROVE {j} \in S
    <3>1. {j} \in Polynomials /\ TimesXPower[j][{0}] = {j} /\ TimesXPower[k][{0}] = {k}
      BY Monomial
    <3>2. j \in Nat /\ j + k = k + j
      BY <2>0 DEF Degrees
    <3>3. Mul({k}, {j}) = TimesXPower[k][{j}] /\ Mul({j}, {k}) = TimesXPower[j][{k}]
      BY <2>0, <3>1, MulMonomial
    <3>4. TimesXPower[k + j][{0}] = TimesXPower[k][{j}] /\ TimesXPower[j + k][{0}] = TimesXPower[j][{k}]
      <4>1. TimesXPower[k + j][{0}] = TimesXPower[k][TimesXPower[j][{0}]]
        BY <2>0, <3>2, One, TimesXPowerAdd
      <4>2. TimesXPower[j + k][{0}] = TimesXPower[j][TimesXPower[k][{0}]]
        BY <2>0, <3>2, One, TimesXPowerAdd
      <4> QED
        BY <3>1, <4>1, <4>2
    <3> QED
      BY <3>1, <3>2, <3>3, <3>4
  <2>3. ASSUME NEW s \in S, NEW t \in S PROVE Plus(s, t) \in S
    <3>1. s \in Polynomials /\ t \in Polynomials /\ Plus(s, t) \in Polynomials
      BY PlusType
    <3> QED
      BY <2>0, <3>1, MulPlus, MulPlusRight
  <2>4. S \in SUBSET Polynomials
    OBVIOUS
  <2>5. S = Polynomials
    <3> HIDE DEF S
    <3> QED
      BY <2>1, <2>2, <2>3, <2>4, Span
  <2> QED
    BY <2>5
<1> DEFINE S == {s \in Polynomials : Mul(s, q) = Mul(q, s)}
<1>2. {} \in S
  <2>1. {} \in Polynomials
    BY DEF Polynomials
  <2> QED
    BY <2>1, MulEmpty, MulEmptyRight
<1>3. ASSUME NEW k \in Degrees PROVE {k} \in S
  BY <1>1, Monomial
<1>4. ASSUME NEW s \in S, NEW t \in S PROVE Plus(s, t) \in S
  <2>1. s \in Polynomials /\ t \in Polynomials /\ Plus(s, t) \in Polynomials
    BY PlusType
  <2> QED
    BY <2>1, MulPlus, MulPlusRight
<1>5. S \in SUBSET Polynomials
  OBVIOUS
<1>6. S = Polynomials
  <2> HIDE DEF S
  <2> QED
    BY <1>2, <1>3, <1>4, <1>5, Span
<1> QED
  BY <1>6

\* The power z of 2, times c
LEMMA MulPowerOfTwo ==
  ASSUME NEW z \in Nat, NEW c \in Polynomials
  PROVE  Mul(Power[z][{1}], c) = TimesXPower[z][c]
<1> DEFINE S == {n \in Nat : Power[n][{1}] = TimesXPower[n][{0}]}
<1>0. {1} \in Polynomials
  BY DEF Polynomials, Degrees
<1>1. 0 \in S
  BY <1>0, One, PowerDef, TimesXPowerDef
<1>2. ASSUME NEW n \in S PROVE n + 1 \in S
  <2>1. n \in Nat /\ Power[n][{1}] = TimesXPower[n][{0}] /\ TimesXPower[n][{0}] \in Polynomials
    BY One, TimesXPowerDef
  <2>2. Power[n + 1][{1}] = Mul({1}, Power[n][{1}])
    BY <1>0, <2>1, PowerDef
  <2>3. Mul({1}, Power[n][{1}]) = TimesXPower[1][Power[n][{1}]]
    <3>1. 1 \in Degrees
      BY DEF Degrees
    <3> QED
      BY <2>1, <3>1, MulMonomial
  <2>4. TimesXPower[1 + n][{0}] = TimesXPower[1][TimesXPower[n][{0}]]
    BY <2>1, One, TimesXPowerAdd
  <2>5. 1 + n = n + 1 /\ n + 1 \in Nat
    BY <2>1
  <2> QED
    BY <2>1, <2>2, <2>3, <2>4, <2>5
<1>3. S \in SUBSET Nat
  OBVIOUS
<1>4. S = Nat
  <2> HIDE DEF S
  <2> QED
    BY <1>1, <1>2, <1>3, SetInduction
<1>5. Mul(TimesXPower[z][{0}], c) = TimesXPower[z][c]
  BY One, MulTimesXPower
<1> QED
  BY <1>4, <1>5

-----------------------------------------------------------------------------
(* Bytes                                                                    *)

\* The weights of the bits, one by one.
LEMMA Weights ==
  /\ Weight(0) = 1 /\ Weight(1) = 2 /\ Weight(2) = 4 /\ Weight(3) = 8
  /\ Weight(4) = 16 /\ Weight(5) = 32 /\ Weight(6) = 64 /\ Weight(7) = 128
BY DEF Weight

\* The bits of a byte
LEMMA PolynomialBits ==
  ASSUME NEW v \in 0 .. 255
  PROVE  /\ Polynomial(v) \in Polynomials
         /\ 0 \in Polynomial(v) <=> v % 2 = 1
         /\ 1 \in Polynomial(v) <=> (v \div 2) % 2 = 1
         /\ 2 \in Polynomial(v) <=> (v \div 4) % 2 = 1
         /\ 3 \in Polynomial(v) <=> (v \div 8) % 2 = 1
         /\ 4 \in Polynomial(v) <=> (v \div 16) % 2 = 1
         /\ 5 \in Polynomial(v) <=> (v \div 32) % 2 = 1
         /\ 6 \in Polynomial(v) <=> (v \div 64) % 2 = 1
         /\ 7 \in Polynomial(v) <=> (v \div 128) % 2 = 1
<1>1. Polynomial(v) \in Polynomials
  BY DEF Polynomial, Polynomials
<1>2. \A n \in {0, 1, 2, 3, 4, 5, 6, 7} : n \in Polynomial(v) <=> (v \div Weight(n)) % 2 = 1
  BY DEF Polynomial, Degrees
<1>3. v \div 1 = v
  OBVIOUS
<1> QED
  BY <1>1, <1>2, <1>3, Weights

\* A byte is the value of its polynomial.
LEMMA ValuePolynomial ==
  ASSUME NEW v \in 0 .. 255
  PROVE  Value(Polynomial(v)) = v
<1> DEFINE p == Polynomial(v)
           T(n) == IF n \in p THEN Weight(n) ELSE 0
<1>1. /\ T(0) = v % 2
      /\ T(1) = 2 * ((v \div 2) % 2)
      /\ T(2) = 4 * ((v \div 4) % 2)
      /\ T(3) = 8 * ((v \div 8) % 2)
      /\ T(4) = 16 * ((v \div 16) % 2)
      /\ T(5) = 32 * ((v \div 32) % 2)
      /\ T(6) = 64 * ((v \div 64) % 2)
      /\ T(7) = 128 * ((v \div 128) % 2)
  <2> HIDE DEF p
  <2> USE Weights, PolynomialBits DEF p
  <2>1. \A n \in Int : n % 2 \in {0, 1}
    OBVIOUS
  <2>2. \A n \in {2, 4, 8, 16, 32, 64, 128} : v \div n \in Int
    OBVIOUS
  <2> QED
    BY <2>1, <2>2
<1>2. Value(p) = T(0) + T(1) + T(2) + T(3) + T(4) + T(5) + T(6) + T(7)
  BY DEF Value
<1>3. /\ v = 2 * (v \div 2) + (v % 2)
      /\ v \div 2 = 2 * (v \div 4) + ((v \div 2) % 2)
      /\ v \div 4 = 2 * (v \div 8) + ((v \div 4) % 2)
      /\ v \div 8 = 2 * (v \div 16) + ((v \div 8) % 2)
      /\ v \div 16 = 2 * (v \div 32) + ((v \div 16) % 2)
      /\ v \div 32 = 2 * (v \div 64) + ((v \div 32) % 2)
      /\ v \div 64 = 2 * (v \div 128) + ((v \div 64) % 2)
      /\ v \div 128 = (v \div 128) % 2
  OBVIOUS
<1> HIDE DEF p, T
<1>4. Value(p) = v
  BY <1>1, <1>2, <1>3
<1> QED
  BY <1>4 DEF p

\* A polynomial is the polynomial of its value, which is a byte.
LEMMA PolynomialValue ==
  ASSUME NEW p \in Polynomials
  PROVE  Value(p) \in 0 .. 255 /\ Polynomial(Value(p)) = p
<1> DEFINE T(n) == IF n \in p THEN Weight(n) ELSE 0
           v == Value(p)
<1>1. v = T(0) + T(1) + T(2) + T(3) + T(4) + T(5) + T(6) + T(7)
  BY DEF Value
<1>2. /\ T(0) = (IF 0 \in p THEN 1 ELSE 0) /\ T(1) = (IF 1 \in p THEN 2 ELSE 0)
      /\ T(2) = (IF 2 \in p THEN 4 ELSE 0) /\ T(3) = (IF 3 \in p THEN 8 ELSE 0)
      /\ T(4) = (IF 4 \in p THEN 16 ELSE 0) /\ T(5) = (IF 5 \in p THEN 32 ELSE 0)
      /\ T(6) = (IF 6 \in p THEN 64 ELSE 0) /\ T(7) = (IF 7 \in p THEN 128 ELSE 0)
  BY Weights
<1> HIDE DEF T, v
<1>3. v \in 0 .. 255
  BY <1>1, <1>2
<1>4. v % 2 = 1 <=> 0 \in p
  BY <1>1, <1>2
<1>5. (v \div 2) % 2 = 1 <=> 1 \in p
  BY <1>1, <1>2
<1>6. (v \div 4) % 2 = 1 <=> 2 \in p
  BY <1>1, <1>2
<1>7. (v \div 8) % 2 = 1 <=> 3 \in p
  BY <1>1, <1>2
<1>8. (v \div 16) % 2 = 1 <=> 4 \in p
  BY <1>1, <1>2
<1>9. (v \div 32) % 2 = 1 <=> 5 \in p
  BY <1>1, <1>2
<1>10. (v \div 64) % 2 = 1 <=> 6 \in p
  BY <1>1, <1>2
<1>11. (v \div 128) % 2 = 1 <=> 7 \in p
  BY <1>1, <1>2
<1>12. \A n \in Degrees : n \in Polynomial(v) <=> n \in p
  BY <1>3, <1>4, <1>5, <1>6, <1>7, <1>8, <1>9, <1>10, <1>11, PolynomialBits DEF Degrees
<1>13. Polynomial(v) = p
  BY <1>3, <1>12, PolynomialBits DEF Polynomials
<1> QED
  BY <1>3, <1>13 DEF v
=============================================================================
