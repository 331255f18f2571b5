----------------------------- MODULE Recursion -----------------------------
(***************************************************************************)
(* Induction over numbers, recursive functions and division, for the proof *)
(* modules.                                                                *)
(* A proof by induction takes the set of the numbers for which the claim   *)
(* holds; a recursive function is what it is defined to be because one     *)
(* with its values exists.                                                 *)
(***************************************************************************)
EXTENDS Integers, WellFoundedInduction, TLAPS

(* A set of natural numbers has a least one: what proofs by induction use.   *)
LEMMA LeastNat ==
  ASSUME NEW T \in SUBSET Nat, T # {}
  PROVE  \E x \in T : \A y \in T : x <= y
<1> DEFINE R == {p \in Nat \X Nat : p[1] < p[2]}
<1>1. IsWellFoundedOn(R, Nat)
  BY NatLessThanWellFounded, Zenon DEF OpToRel
<1> HIDE DEF R
<1>2. PICK x \in T : \A y \in T : ~(<<y, x>> \in R)
  BY <1>1, WFMin
<1>3. ASSUME NEW y \in T PROVE x <= y
  <2>1. x \in Nat /\ y \in Nat /\ <<y, x>> \notin R
    BY <1>2
  <2>2. ~(y < x)
    BY <2>1 DEF R
  <2> QED BY <2>1, <2>2
<1> QED BY <1>2, <1>3

(* Induction up to n: a set of numbers that has 0, and with k - 1 also k,     *)
(* has all of them.                                                          *)
LEMMA UpTo ==
  ASSUME NEW n \in Nat, NEW T, 0 \in T,
         \A k \in 1 .. n : k - 1 \in T => k \in T
  PROVE  \A k \in 0 .. n : k \in T
<1> SUFFICES ASSUME NEW k \in 0 .. n, k \notin T PROVE FALSE
  OBVIOUS
<1> DEFINE U == {j \in 0 .. n : j \notin T}
<1>1. PICK x \in U : \A y \in U : x <= y
  <2>1. U \in SUBSET Nat /\ U # {}
    OBVIOUS
  <2> QED BY <2>1, LeastNat
<1>2. x \in 1 .. n /\ x - 1 \in 0 .. n /\ x - 1 \notin U
  BY <1>1
<1> QED BY <1>1, <1>2

(* A recursive function on 0 .. n with its values in S exists.               *)
IsStep(S, n, step) == step \in [S \X (1 .. n) -> S]
Solves(f, S, base, n, step) ==
  f \in [0 .. n -> S] /\ f[0] = base /\ \A k \in 1 .. n : f[k] = step[<<f[k - 1], k>>]

LEMMA RecursionExists ==
  ASSUME NEW S, NEW base \in S, NEW n \in Nat, NEW step, IsStep(S, n, step)
  PROVE  \E f : Solves(f, S, base, n, step)
<1> USE DEF IsStep
<1> DEFINE Good(m, f) == f[0] = base /\ \A k \in 1 .. m : f[k] = step[<<f[k - 1], k>>]
           T == {m \in 0 .. n : \E f \in [0 .. m -> S] : Good(m, f)}
<1>1. 0 \in T
  <2> DEFINE f == [k \in 0 .. 0 |-> base]
  <2>1. f \in [0 .. 0 -> S]
    OBVIOUS
  <2>2. Good(0, f)
    OBVIOUS
  <2>3. \E h \in [0 .. 0 -> S] : Good(0, h)
    <3> HIDE DEF f, Good
    <3> QED BY <2>1, <2>2
  <2> QED BY <2>3
<1>2. ASSUME NEW m \in 1 .. n, m - 1 \in T PROVE m \in T
  <2>1. PICK f \in [0 .. m - 1 -> S] : Good(m - 1, f)
    BY <1>2
  <2> DEFINE g == [k \in 0 .. m |-> IF k = m THEN step[<<f[m - 1], m>>] ELSE f[k]]
  <2>2. g \in [0 .. m -> S]
    OBVIOUS
  <2>3. ASSUME NEW k \in 1 .. m PROVE g[k] = step[<<g[k - 1], k>>]
    <3>1. g[m] = step[<<f[m - 1], m>>] /\ g[k - 1] = f[k - 1] /\ (k # m => g[k] = f[k])
      OBVIOUS
    <3>2. k # m => f[k] = step[<<f[k - 1], k>>]
      BY <2>1
    <3> QED BY <3>1, <3>2
  <2>4. Good(m, g)
    <3>1. g[0] = base
      BY <2>1
    <3> QED BY <2>3, <3>1
  <2>5. \E h \in [0 .. m -> S] : Good(m, h)
    <3> HIDE DEF g, Good
    <3> QED BY <2>2, <2>4
  <2>6. m \in 0 .. n
    OBVIOUS
  <2> HIDE DEF Good
  <2> QED BY <2>5, <2>6
<1> HIDE DEF T
<1>3. n \in T
  BY <1>1, <1>2, UpTo
<1> QED BY <1>3 DEF T, Solves

(* Induction over all numbers.                                               *)
LEMMA AllNat ==
  ASSUME NEW T, 0 \in T, \A k \in Nat : k \in T => k + 1 \in T
  PROVE  \A n \in Nat : n \in T
<1> SUFFICES ASSUME NEW n \in Nat PROVE n \in T
  OBVIOUS
<1>1. ASSUME NEW k \in 1 .. n, k - 1 \in T PROVE k \in T
  <2>1. k - 1 \in Nat /\ (k - 1) + 1 = k
    OBVIOUS
  <2> QED BY <1>1, <2>1
<1>2. \A k \in 0 .. n : k \in T
  BY <1>1, UpTo
<1> QED BY <1>2

(* A recursive function on all numbers with its values in S exists.          *)
IsNatStep(S, step) == step \in [S \X Nat -> S]
NatSolves(f, S, base, step) ==
  f \in [Nat -> S] /\ f[0] = base /\ \A k \in Nat : f[k + 1] = step[<<f[k], k + 1>>]

LEMMA NatRecursionExists ==
  ASSUME NEW S, NEW base \in S, NEW step, IsNatStep(S, step)
  PROVE  \E f : NatSolves(f, S, base, step)
<1> USE DEF IsNatStep
<1> DEFINE part(n) == [x \in S \X (1 .. n) |-> step[x]]
           F(n) == CHOOSE f : Solves(f, S, base, n, part(n))
           g == [n \in Nat |-> F(n)[n]]
<1>1. ASSUME NEW n \in Nat
      PROVE  F(n) \in [0 .. n -> S] /\ F(n)[0] = base /\ \A k \in 1 .. n : F(n)[k] = step[<<F(n)[k - 1], k>>]
  <2>1. part(n) \in [S \X (1 .. n) -> S]
    OBVIOUS
  <2>2. IsStep(S, n, part(n))
    BY <2>1 DEF IsStep
  <2>3. \E f : Solves(f, S, base, n, part(n))
    <3> HIDE DEF part
    <3> QED BY <2>2, RecursionExists
  <2>4. Solves(F(n), S, base, n, part(n))
    <3> HIDE DEF part
    <3> QED BY <2>3
  <2> HIDE DEF F
  <2>5. F(n) \in [0 .. n -> S] /\ F(n)[0] = base /\ \A k \in 1 .. n : F(n)[k] = part(n)[<<F(n)[k - 1], k>>]
    <3> HIDE DEF part
    <3> QED BY <2>4 DEF Solves
  <2>6. ASSUME NEW k \in 1 .. n PROVE F(n)[k] = step[<<F(n)[k - 1], k>>]
    <3>1. <<F(n)[k - 1], k>> \in S \X (1 .. n)
      BY <2>5
    <3> QED BY <2>5, <3>1
  <2> QED BY <2>5, <2>6
<1> HIDE DEF F
<1>2. ASSUME NEW n \in Nat PROVE F(n + 1)[n] = F(n)[n]
  <2> DEFINE T == {k \in 0 .. n : F(n + 1)[k] = F(n)[k]}
  <2>0. n + 1 \in Nat
    OBVIOUS
  <2>1. 0 \in T
    BY <1>1, <2>0
  <2>2. ASSUME NEW k \in 1 .. n, k - 1 \in T PROVE k \in T
    <3>1. F(n)[k] = step[<<F(n)[k - 1], k>>] /\ F(n + 1)[k] = step[<<F(n + 1)[k - 1], k>>]
      BY <1>1, <2>0
    <3> QED BY <2>2, <3>1
  <2>3. \A k \in 0 .. n : k \in T
    <3> HIDE DEF T
    <3> QED BY <2>1, <2>2, UpTo
  <2> QED BY <2>3
<1>3. g \in [Nat -> S]
  <2>1. \A n \in Nat : F(n)[n] \in S
    BY <1>1
  <2> QED BY <2>1
<1>4. g[0] = base
  BY <1>1
<1>5. ASSUME NEW k \in Nat PROVE g[k + 1] = step[<<g[k], k + 1>>]
  <2>1. k + 1 \in Nat /\ k + 1 \in 1 .. k + 1 /\ (k + 1) - 1 = k
    OBVIOUS
  <2>2. F(k + 1)[k + 1] = step[<<F(k + 1)[(k + 1) - 1], k + 1>>]
    BY <1>1, <2>1
  <2>3. F(k + 1)[(k + 1) - 1] = F(k)[k]
    BY <1>2, <2>1
  <2> QED BY <2>1, <2>2, <2>3
<1> HIDE DEF g
<1> QED BY <1>3, <1>4, <1>5 DEF NatSolves

-----------------------------------------------------------------------------
(* Quotients and remainders                                                *)

\* n divided by w is q with the remainder r.
Split(n, w, q, r) == q \in Nat /\ r \in 0 .. w - 1 /\ n = q * w + r
Pos1 == Nat \ {0}

LEMMA DivSplit ==
  ASSUME NEW n \in Nat, NEW w \in Pos1
  PROVE  Split(n, w, n \div w, n % w)
<1>1. \A m, v \in Nat : v >= 1 => Split(m, v, m \div v, m % v)
  BY DEF Split
<1>2. w \in Nat /\ w >= 1
  BY DEF Pos1
<1> QED BY <1>1, <1>2, Zenon

LEMMA TimesLess ==
  ASSUME NEW a \in Nat, NEW b \in Nat, NEW w \in Nat, a < b
  PROVE  a * w + w <= b * w
OBVIOUS

LEMMA SplitUnique ==
  ASSUME NEW n \in Nat, NEW w \in Pos1, NEW q, NEW r, NEW x, NEW y, Split(n, w, q, r), Split(n, w, x, y)
  PROVE  q = x /\ r = y
<1>0. w \in Nat /\ w >= 1
  BY DEF Pos1
<1>1. q \in Nat /\ r \in 0 .. w - 1 /\ x \in Nat /\ y \in 0 .. w - 1 /\ q * w + r = x * w + y
  BY DEF Split
<1>2. ~(x < q)
  <2> SUFFICES ASSUME x < q PROVE FALSE
    OBVIOUS
  <2>1. x * w + w <= q * w
    BY <1>0, <1>1, TimesLess
  <2> QED BY <2>1, <1>0, <1>1
<1>3. ~(q < x)
  <2> SUFFICES ASSUME q < x PROVE FALSE
    OBVIOUS
  <2>1. q * w + w <= x * w
    BY <1>0, <1>1, TimesLess
  <2> QED BY <2>1, <1>0, <1>1
<1>4. q = x
  BY <1>1, <1>2, <1>3
<1> QED BY <1>0, <1>1, <1>4

(* A quotient and a remainder are known when they are found.                 *)
LEMMA DivIs ==
  ASSUME NEW n \in Nat, NEW w \in Pos1, NEW q, NEW r, Split(n, w, q, r)
  PROVE  n \div w = q /\ n % w = r
<1> DEFINE x == n \div w  y == n % w
<1>1. Split(n, w, x, y)
  BY DivSplit
<1> HIDE DEF x, y
<1>2. x = q /\ y = r
  BY <1>1, SplitUnique
<1> QED BY <1>2, Zenon DEF x, y
=============================================================================
