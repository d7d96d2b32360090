------------------------------ MODULE Arithmetic ------------------------------
(***************************************************************************)
(* Lemmas about numbers, for the proofs of the other modules: induction,   *)
(* the existence of what is defined by recursion, and division.            *)
(* Induction is about membership of a set, as no prover here can           *)
(* instantiate a predicate.                                                *)
(***************************************************************************)
EXTENDS Integers, TLAPS, WellFoundedInduction

\* A set of numbers that is not empty has a least one.
LEMMA LeastElement ==
  ASSUME NEW S \in SUBSET Nat, S # {}
  PROVE  \E n \in S : \A m \in S : n <= m
<1> DEFINE R == OpToRel(<, Nat)
<1>1. IsWellFoundedOn(R, Nat)
  BY NatLessThanWellFounded
<1>2. \A m, n \in Nat : m < n => <<m, n>> \in R
  BY SMT DEF OpToRel
<1> HIDE DEF R
<1>3. PICK n \in S : \A m \in S : <<m, n>> \notin R
  BY <1>1, WFMin
<1>4. ASSUME NEW m \in S PROVE n <= m
  <2>1. m \in Nat /\ n \in Nat
    OBVIOUS
  <2>2. ~ (m < n)
    BY <1>2, <1>3, <2>1
  <2> QED BY <2>1, <2>2
<1> QED BY <1>4

\* What holds of 0 and of the successor of every number it holds of.
LEMMA Induction ==
  ASSUME NEW S, 0 \in S, \A n \in Nat : n \in S => n + 1 \in S
  PROVE  \A n \in Nat : n \in S
<1> DEFINE T == Nat \ S
<1>1. SUFFICES ASSUME T # {} PROVE FALSE
  OBVIOUS
<1>2. PICK n \in T : \A m \in T : n <= m
  <2> HIDE DEF T
  <2>1. T \in SUBSET Nat
    BY DEF T
  <2> QED BY <2>1, <1>1, LeastElement
<1>3. n # 0 /\ n - 1 \in Nat /\ n - 1 \in S
  BY <1>2
<1> QED BY <1>3, <1>2

\* f[0] is base, and each step leads from a value to the next.
Recursion(f, n, base, step) == f[0] = base /\ \A i \in 1..n : f[i] = step[i][f[i - 1]]

\* Any base and steps define a value for every number.
LEMMA RecursionExists ==
  ASSUME NEW n \in Nat, NEW D, NEW base \in D, NEW step \in [1..n -> [D -> D]]
  PROVE  \E f \in [0..n -> D] : Recursion(f, n, base, step)
<1> DEFINE Good(k, f) == Recursion(f, k, base, step)
           S == {k \in Nat : k <= n => \E f \in [0..k -> D] : Good(k, f)}
<1>1. 0 \in S
  <2> DEFINE f == [i \in 0..0 |-> base]
  <2>1. f \in [0..0 -> D] /\ f[0] = base
    OBVIOUS
  <2>2. Good(0, f)
    BY <2>1 DEF Recursion
  <2> QED BY <2>1, <2>2
<1>2. ASSUME NEW k \in Nat, k \in S PROVE k + 1 \in S
  <2>1. SUFFICES ASSUME k + 1 <= n PROVE \E f \in [0..k+1 -> D] : Good(k + 1, f)
    OBVIOUS
  <2>2. PICK f \in [0..k -> D] : Good(k, f)
    BY <1>2, <2>1
  <2> DEFINE g == [i \in 0..k+1 |-> IF i = k + 1 THEN step[k + 1][f[k]] ELSE f[i]]
  <2>3. g \in [0..k+1 -> D]
    BY <2>1
  <2>4. g[0] = base
    BY <2>2 DEF Recursion
  <2>5. ASSUME NEW i \in 1..k+1 PROVE g[i] = step[i][g[i - 1]]
    <3>1. i - 1 \in 0..k /\ g[i - 1] = f[i - 1]
      OBVIOUS
    <3>2. CASE i = k + 1
      BY <3>1, <3>2
    <3>3. CASE i # k + 1
      <4>1. i \in 1..k /\ f[i] = step[i][f[i - 1]] /\ g[i] = f[i]
        BY <2>2, <3>3 DEF Recursion
      <4> QED BY <3>1, <4>1
    <3> QED BY <3>2, <3>3
  <2>6. Good(k + 1, g)
    BY <2>4, <2>5 DEF Recursion
  <2> QED BY <2>3, <2>6
<1>3. n \in S
  <2> HIDE DEF S
  <2> QED BY <1>1, <1>2, Induction
<1>4. PICK f \in [0..n -> D] : Good(n, f)
  BY <1>3
<1> QED BY <1>4

\* Quotient and remainder, in the form the proofs use.
LEMMA Division ==
  ASSUME NEW a \in Nat, NEW b \in Nat \ {0}
  PROVE  /\ a \div b \in Nat /\ a % b \in 0..b-1
         /\ a = b * (a \div b) + (a % b)
OBVIOUS

\* A common factor can be left out of a comparison.
LEMMA QuotientIsLess ==
  ASSUME NEW b \in Nat \ {0}, NEW q \in Nat, NEW k \in Nat, b * q < b * k
  PROVE  q < k
<1>1. SUFFICES ASSUME q >= k PROVE b * q >= b * k
  OBVIOUS
<1>2. q = k + (q - k) /\ q - k \in Nat
  BY <1>1
<1>3. b * (q - k) >= 0
  BY <1>2
<1>4. b * q = b * k + b * (q - k)
  OBVIOUS
<1> QED BY <1>3, <1>4

\* A quotient and a remainder that fit are those of the division.
LEMMA QuotientIsUnique ==
  ASSUME NEW a \in Nat, NEW b \in Nat \ {0}, NEW q \in Nat, NEW r \in Nat, r < b, a = b * q + r
  PROVE  a \div b = q
<1> DEFINE p == a \div b
<1>1. p \in Nat /\ a % b \in 0..b-1 /\ a = b * p + (a % b)
  BY Division
<1> HIDE DEF p
<1>2. b * q < b * p + b /\ b * p < b * q + b
  <2>1. b * q \in Nat /\ b * p \in Nat
    BY <1>1
  <2> QED BY <1>1, <2>1
<1>3. b * p + b = b * (p + 1) /\ b * q + b = b * (q + 1)
  BY <1>1
<1>4. q < p + 1 /\ p < q + 1
  BY <1>1, <1>2, <1>3, QuotientIsLess
<1>5. p = q
  BY <1>1, <1>4
<1> QED BY <1>5 DEF p

\* Division keeps the order.
LEMMA QuotientIsMonotonic ==
  ASSUME NEW a \in Nat, NEW c \in Nat, NEW b \in Nat \ {0}, a <= c
  PROVE  a \div b <= c \div b
<1> DEFINE p == a \div b
           q == c \div b
<1>1. p \in Nat /\ a % b \in 0..b-1 /\ a = b * p + (a % b)
  BY Division
<1>2. q \in Nat /\ c % b \in 0..b-1 /\ c = b * q + (c % b)
  BY Division
<1> HIDE DEF p, q
<1>3. b * p < b * (q + 1)
  <2>1. b * p \in Nat /\ b * q \in Nat /\ b * (q + 1) = b * q + b
    BY <1>1, <1>2
  <2> QED BY <1>1, <1>2, <2>1
<1>4. p < q + 1
  BY <1>1, <1>2, <1>3, QuotientIsLess
<1> QED BY <1>1, <1>2, <1>4 DEF p, q

\* Remainders do not see multiples.
LEMMA RemainderOfShift ==
  ASSUME NEW a \in Int, NEW j \in Int, NEW b \in Nat \ {0}
  PROVE  (a + b * j) % b = a % b
<1> DEFINE c == a + b * j
           p == a \div b
           q == c \div b
           r == a % b
           s == c % b
<1>0. c \in Int
  OBVIOUS
<1>1. p \in Int /\ r \in 0..b-1 /\ a = b * p + r
  OBVIOUS
<1>2. q \in Int /\ s \in 0..b-1 /\ c = b * q + s
  BY <1>0
<1> HIDE DEF p, q, r, s
<1>3. b * (p + j - q) = s - r
  <2>1. b * (p + j - q) = b * p + b * j - b * q
    BY <1>1, <1>2
  <2> QED BY <1>1, <1>2, <2>1
<1> DEFINE d == p + j - q
<1>4. d \in Int /\ b * d < b /\ b * d > -b
  BY <1>1, <1>2, <1>3
<1> HIDE DEF d
<1>5. d = 0
  <2>1. CASE d >= 1
    <3>1. b * d >= b
      BY <1>4, <2>1
    <3> QED BY <1>4, <3>1
  <2>2. CASE d <= -1
    <3>1. b * (-d) >= b /\ b * (-d) = -(b * d)
      BY <1>4, <2>2
    <3> QED BY <1>4, <3>1
  <2> QED BY <1>4, <2>1, <2>2
<1>6. s = r
  BY <1>1, <1>2, <1>3, <1>5 DEF d
<1> QED BY <1>6 DEF r, s
==============================================================================
