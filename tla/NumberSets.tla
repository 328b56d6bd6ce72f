------------------------------- MODULE NumberSets -------------------------------
(***************************************************************************)
(* Facts about sets of numbers that the proofs of several modules use.     *)
(***************************************************************************)
EXTENDS Integers, FiniteSets, FiniteSetsExt, FiniteSetTheorems, WellFoundedInduction, TLAPS

\* Sets of numbers within bounds are finite, and their sizes are ordered as they are.
LEMMA Within ==
    ASSUME NEW a \in Int, NEW b \in Int, NEW S \in SUBSET (a .. b), NEW T \in SUBSET S
    PROVE  /\ IsFiniteSet(S) /\ IsFiniteSet(T)
           /\ Cardinality(S) \in Nat /\ Cardinality(T) \in Nat
           /\ Cardinality(T) <= Cardinality(S)
           /\ Cardinality(T) = Cardinality(S) => T = S
<1>1. IsFiniteSet(a .. b)
  BY FS_Interval
<1>2. IsFiniteSet(S)
  BY <1>1, FS_Subset
<1> QED
  BY <1>2, FS_Subset, FS_CardinalityType

\* A set of natural numbers that is not empty has a least one: the intervals below
\* its members are finite, so one of them contains no other.
LEMMA Least ==
    ASSUME NEW S \in SUBSET Nat, S # {}
    PROVE  \E x \in S : \A y \in S : x <= y
<1> DEFINE below == {0 .. (x - 1) : x \in S}
<1>1. below \subseteq FiniteSubsetsOf(Nat) /\ below # {}
  <2>1. \A x \in S : x \in Int /\ 0 .. (x - 1) \in SUBSET Nat
    OBVIOUS
  <2>2. \A x \in S : IsFiniteSet(0 .. (x - 1))
    BY <2>1, FS_Interval
  <2> QED
    BY <2>1, <2>2 DEF FiniteSubsetsOf
<1> HIDE DEF below
<1>2. PICK b \in below : \A c \in below : ~(<<c, b>> \in StrictSubsetOrdering(Nat))
  BY <1>1, FS_StrictSubsetOrderingWellFounded, WFMin
<1>3. PICK x \in S : b = 0 .. (x - 1)
  BY DEF below
<1>4. ASSUME NEW y \in S PROVE x <= y
  <2>1. 0 .. (y - 1) \in below
    BY DEF below
  <2>2. ~(0 .. (y - 1) \subseteq 0 .. (x - 1) /\ 0 .. (y - 1) # 0 .. (x - 1))
    <3>1. 0 .. (y - 1) \in SUBSET Nat /\ 0 .. (x - 1) \in SUBSET Nat
      OBVIOUS
    <3>2. <<0 .. (y - 1), 0 .. (x - 1)>> \notin StrictSubsetOrdering(Nat)
      BY <1>2, <1>3, <2>1
    <3> QED
      BY <3>1, <3>2, Zenon DEF StrictSubsetOrdering
  <2>3. x \in Nat /\ y \in Nat
    OBVIOUS
  <2>4. CASE y < x
    <3>1. 0 .. (y - 1) \subseteq 0 .. (x - 1) /\ y \in 0 .. (x - 1) /\ y \notin 0 .. (y - 1)
      BY <2>3, <2>4
    <3> QED
      BY <2>2, <3>1
  <2> QED
    BY <2>3, <2>4
<1> QED
  BY <1>4

LEMMA MinOf ==
    ASSUME NEW S \in SUBSET Nat, S # {}
    PROVE  Min(S) \in S /\ \A y \in S : Min(S) <= y
BY Least DEF Min

\* A set of natural numbers that is bounded has a greatest one: what is missing to
\* the bound has a least one.
LEMMA MaxOf ==
    ASSUME NEW n \in Nat, NEW S \in SUBSET (0 .. n), S # {}
    PROVE  Max(S) \in S /\ \A y \in S : y <= Max(S)
<1> DEFINE missing == {n - x : x \in S}
<1>1. missing \in SUBSET Nat /\ missing # {}
  <2>1. \A x \in S : n - x \in Nat
    OBVIOUS
  <2> QED
    BY <2>1
<1>2. PICK m \in missing : \A k \in missing : m <= k
  BY <1>1, Least
<1>3. PICK x \in S : m = n - x
  BY <1>2
<1>4. ASSUME NEW y \in S PROVE x >= y
  <2>1. n - x <= n - y
    BY <1>2, <1>3
  <2> QED
    BY <2>1
<1>5. \E z \in S : \A y \in S : z >= y
  BY <1>4
<1>6. Max(S) \in S /\ \A y \in S : Max(S) >= y
  BY <1>5 DEF Max
<1> QED
  BY <1>6
=============================================================================
