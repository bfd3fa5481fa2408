---------------------------- MODULE IndexLemmas ----------------------------
(***************************************************************************)
(* Facts about naturals that the proofs of several modules rest on: least  *)
(* and greatest members of a set of indices, and quotients.                *)
(***************************************************************************)
EXTENDS Integers, FiniteSets, FiniteSetTheorems, TLAPS

\* A nonempty set of naturals has a least element: of the intervals below its
\* members one has no other inside it.
LEMMA Least ==
  ASSUME NEW S \in SUBSET Nat, S # {}
  PROVE  \E i \in S : \A j \in S : i <= j
<1>. DEFINE Below == {1..i : i \in S}
<1>1. IsWellFoundedOn(StrictSubsetOrdering(Nat), FiniteSubsetsOf(Nat))
  BY FS_StrictSubsetOrderingWellFounded
<1>2. Below \subseteq FiniteSubsetsOf(Nat)
  <2>1. ASSUME NEW i \in S PROVE 1..i \in FiniteSubsetsOf(Nat)
    <3>1. IsFiniteSet(1..i)
      BY FS_Interval
    <3>2. 1..i \in SUBSET Nat
      OBVIOUS
    <3>. QED BY <3>1, <3>2 DEF FiniteSubsetsOf
  <2>. QED BY <2>1
<1>3. PICK b \in Below : \A d \in Below : ~(<<d, b>> \in StrictSubsetOrdering(Nat))
  <2>1. Below # {}
    OBVIOUS
  <2>. HIDE DEF Below
  <2>. QED BY <1>1, <1>2, <2>1, WFMin
<1>4. PICK i \in S : b = 1..i
  OBVIOUS
<1>5. ASSUME NEW j \in S, ~(i <= j) PROVE FALSE
  <2>1. 1..j \in Below
    OBVIOUS
  <2>2. /\ 1..j \subseteq 1..i /\ i \in 1..i /\ i \notin 1..j
        /\ 1..j \subseteq Nat /\ 1..i \subseteq Nat
    BY <1>5
  <2>3. <<1..j, 1..i>> \in StrictSubsetOrdering(Nat)
    BY <2>2 DEF StrictSubsetOrdering
  <2>. QED BY <1>3, <1>4, <2>1, <2>3
<1>. QED BY <1>5

\* A nonempty set of indices has a greatest one.
LEMMA Greatest ==
  ASSUME NEW n \in Nat, NEW S \in SUBSET (1..n), S # {}
  PROVE  \E i \in S : \A j \in S : j <= i
<1>. DEFINE R == {n - i : i \in S}
<1>1. R \subseteq Nat /\ R # {}
  OBVIOUS
<1>2. PICK k \in R : \A j \in R : k <= j
  <2>. HIDE DEF R
  <2>. QED BY <1>1, Least
<1>3. PICK i \in S : k = n - i
  OBVIOUS
<1>4. ASSUME NEW j \in S PROVE j <= i
  <2>1. n - j \in R
    OBVIOUS
  <2>. QED BY <1>2, <1>3, <2>1
<1>. QED BY <1>4

\* A quotient is no greater than what times the divisor exceeds the dividend.
LEMMA QuotientBounds ==
  ASSUME NEW n \in Nat, NEW d \in Nat \ {0}, NEW r \in Nat, n <= r * d
  PROVE  n \div d \in Nat /\ n \div d <= r
<1>1. n \div d \in Nat
  BY SMT
<1>2. n = (d * (n \div d)) + (n % d) /\ n % d \in 0..(d - 1)
  BY SMT
<1>. DEFINE q == n \div d
<1>. HIDE DEF q
<1>3. SUFFICES ASSUME q \in Nat, d * q <= r * d, q >= r + 1 PROVE FALSE
  BY <1>1, <1>2 DEF q
<1>4. d * q >= d * (r + 1)
  BY <1>3, SMT
<1>5. d * (r + 1) = r * d + d
  BY SMT
<1>. QED BY <1>3, <1>4, <1>5

\* Rounding a quotient down keeps the order of the dividends.
LEMMA QuotientMonotone ==
  ASSUME NEW m \in Nat, NEW n \in Nat, NEW d \in Nat \ {0}, m <= n
  PROVE  m \div d <= n \div d
<1>. DEFINE a == m \div d
            b == n \div d
<1>1. a \in Nat /\ b \in Nat
  BY SMT
<1>2. /\ m = (d * a) + (m % d) /\ m % d \in 0..(d - 1)
      /\ n = (d * b) + (n % d) /\ n % d \in 0..(d - 1)
  BY SMT
<1>. HIDE DEF a, b
<1>3. d * a <= m /\ n < d * b + d /\ d * a \in Nat /\ d * b \in Nat
  BY <1>1, <1>2, SMT
<1>4. SUFFICES ASSUME a >= b + 1 PROVE FALSE
  BY <1>1 DEF a, b
<1>5. d * a >= d * (b + 1)
  BY <1>1, <1>4, SMT
<1>6. d * (b + 1) = d * b + d
  BY <1>1, SMT
<1>. QED BY <1>1, <1>3, <1>5, <1>6
============================================================================
