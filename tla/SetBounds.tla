------------------------------ MODULE SetBounds ------------------------------
(***************************************************************************)
(* Lemmas about the least and the greatest element of a set of naturals,   *)
(* as FiniteSetsExt defines them.                                          *)
(***************************************************************************)
EXTENDS Integers, FiniteSets, FiniteSetsExt, FiniteSetTheorems, WellFoundedInduction, TLAPS

Less == {pair \in Nat \X Nat : pair[1] < pair[2]}

\* The order of the naturals, as a relation, is well-founded.
LEMMA LessWellFounded == IsWellFoundedOn(Less, Nat)
<1>1. OpToRel(<, Nat) = Less
  BY Zenon DEF OpToRel, Less
<1>. QED
  BY <1>1, NatLessThanWellFounded, Zenon

\* A non-empty set of naturals has a least element, and Min is it.
LEMMA MinNat ==
  ASSUME NEW S \in SUBSET Nat, S # {}
  PROVE  Min(S) \in S /\ \A x \in S : Min(S) <= x
<1>1. PICK m \in S : \A y \in S : ~(<<y, m>> \in Less)
  BY LessWellFounded, WFMin, Zenon
<1>2. ASSUME NEW y \in S
      PROVE  m <= y
  <2>1. ~(<<y, m>> \in Less)
    BY <1>1
  <2>2. <<y, m>> \in Nat \X Nat
    OBVIOUS
  <2>3. ~(y < m)
    BY <2>1, <2>2 DEF Less
  <2>4. y \in Nat /\ m \in Nat
    OBVIOUS
  <2>. QED
    BY <2>3, <2>4
<1>. QED
  BY <1>2 DEF Min

\* A non-empty bounded set of naturals has a greatest element, and Max is it:
\* the least of its upper bounds.
LEMMA MaxNat ==
  ASSUME NEW n \in Nat, NEW S \in SUBSET (0..n), S # {}
  PROVE  Max(S) \in S /\ \A x \in S : Max(S) >= x
<1>. DEFINE T == {i \in Nat : \A x \in S : x <= i}
<1>0. \A x \in S : x \in Nat /\ x <= n
  OBVIOUS
<1>1. T \in SUBSET Nat /\ n \in T
  BY <1>0
<1>2. Min(T) \in T /\ \A x \in T : Min(T) <= x
  BY <1>1, MinNat
<1>. HIDE DEF T
<1>3. PICK m \in Nat : m = Min(T) /\ m \in T
  BY <1>1, <1>2
<1>4. \A x \in S : x <= m
  BY <1>3 DEF T
<1>5. m \in S
  <2>1. SUFFICES ASSUME m \notin S
                 PROVE  FALSE
    OBVIOUS
  <2>2. \A x \in S : x <= m - 1
    BY <1>0, <1>4, <2>1
  <2>3. PICK x \in S : TRUE
    OBVIOUS
  <2>4. m - 1 \in Nat
    BY <2>2, <2>3, <1>0
  <2>5. m - 1 \in T
    BY <2>2, <2>4 DEF T
  <2>. QED
    BY <2>5, <1>2, <1>3
<1>6. \A x \in S : m >= x
  BY <1>0, <1>4
<1>. QED
  BY <1>5, <1>6 DEF Max

-----------------------------------------------------------------------------
(* The places of a set, in their order.                                    *)

Rank(places, i) == Cardinality({j \in places : j <= i})
\* The place that a number of places, itself among them, is not past.
Ranked(places, k) == CHOOSE i \in places : Cardinality({j \in places : j <= i}) = k

\* A later place ranks higher.
LEMMA RankGrows ==
  ASSUME NEW S \in SUBSET Nat, IsFiniteSet(S), NEW i \in S, NEW k \in S, i < k
  PROVE  Rank(S, i) < Rank(S, k)
<1>. DEFINE upto(n) == {j \in S : j <= n}
<1>1. upto(i) \in SUBSET S /\ upto(k) \in SUBSET S
  OBVIOUS
<1>2. upto(i) \cup {k} \subseteq upto(k) /\ k \notin upto(i)
  <2>1. \A j \in S : j \in Nat
    OBVIOUS
  <2>2. \A j \in S : j <= i => j <= k
    BY <2>1
  <2>3. ~(k <= i)
    BY <2>1
  <2>4. upto(i) \subseteq upto(k)
    BY <2>2
  <2>5. k \in upto(k) /\ k \notin upto(i)
    BY <2>1, <2>3
  <2>. HIDE DEF upto
  <2>. QED
    BY <2>4, <2>5
<1>3. Rank(S, i) = Cardinality(upto(i)) /\ Rank(S, k) = Cardinality(upto(k))
  BY DEF Rank
<1>. HIDE DEF upto
<1>4. IsFiniteSet(upto(i)) /\ IsFiniteSet(upto(k))
  BY <1>1, FS_Subset
<1>5. Cardinality(upto(i) \cup {k}) = Cardinality(upto(i)) + 1
  BY <1>2, <1>4, FS_AddElement
<1>6. Cardinality(upto(i) \cup {k}) <= Cardinality(upto(k))
  BY <1>2, <1>4, FS_Subset
<1>7. Cardinality(upto(i)) \in Nat /\ Cardinality(upto(k)) \in Nat
  BY <1>4, FS_CardinalityType
<1>. QED
  BY <1>3, <1>5, <1>6, <1>7

\* A place ranks among as many as there are.
LEMMA RankBound ==
  ASSUME NEW S \in SUBSET Nat, IsFiniteSet(S), NEW i \in S
  PROVE  Rank(S, i) \in 1..Cardinality(S) /\ Cardinality(S) \in Nat
<1>. DEFINE upto == {j \in S : j <= i}
<1>1. upto \in SUBSET S /\ i \in upto
  OBVIOUS
<1>2. Rank(S, i) = Cardinality(upto)
  BY DEF Rank
<1>. HIDE DEF upto
<1>3. IsFiniteSet(upto) /\ Cardinality(upto) <= Cardinality(S)
  BY <1>1, FS_Subset
<1>4. Cardinality(upto) \in Nat /\ Cardinality(S) \in Nat
  BY <1>3, FS_CardinalityType
<1>5. Cardinality(upto) # 0
  BY <1>1, <1>3, FS_EmptySet
<1>. QED
  BY <1>2, <1>3, <1>4, <1>5

\* The place of a rank is the one that has it.
LEMMA RankedOfRank ==
  ASSUME NEW S \in SUBSET Nat, IsFiniteSet(S), NEW i \in S
  PROVE  Ranked(S, Rank(S, i)) = i
<1>1. \A k \in S : Rank(S, k) = Rank(S, i) => k = i
  <2>. SUFFICES ASSUME NEW k \in S, Rank(S, k) = Rank(S, i), k # i
                PROVE  FALSE
    OBVIOUS
  <2>1. k < i \/ i < k
    OBVIOUS
  <2>2. Rank(S, k) < Rank(S, i) \/ Rank(S, i) < Rank(S, k)
    BY <2>1, RankGrows
  <2>3. Rank(S, k) \in Nat /\ Rank(S, i) \in Nat
    BY RankBound
  <2>. QED
    BY <2>2, <2>3
<1>2. Ranked(S, Rank(S, i)) = CHOOSE k \in S : Rank(S, k) = Rank(S, i)
  BY DEF Ranked, Rank
<1>. QED
  BY <1>1, <1>2

\* There is a place of every rank.
LEMMA RankTaken ==
  ASSUME NEW S \in SUBSET Nat, IsFiniteSet(S), NEW k \in 1..Cardinality(S)
  PROVE  \E i \in S : Rank(S, i) = k /\ Ranked(S, k) = i
<1>. DEFINE n == Cardinality(S)
            rank == [i \in S |-> Rank(S, i)]
<1>1. n \in Nat
  BY FS_CardinalityType
<1>2. rank \in [S -> 1..n]
  BY RankBound
<1>3. \A i, j \in S : rank[i] = rank[j] => i = j
  <2>. SUFFICES ASSUME NEW i \in S, NEW j \in S, Rank(S, i) = Rank(S, j)
                PROVE  i = j
    OBVIOUS
  <2>1. Ranked(S, Rank(S, i)) = i /\ Ranked(S, Rank(S, j)) = j
    BY RankedOfRank
  <2>. QED
    BY <2>1
<1>4. IsFiniteSet(1..n) /\ Cardinality(1..n) = n
  BY <1>1, FS_Interval
<1>5. rank \in Injection(S, 1..n)
  <2>. HIDE DEF rank, n
  <2>. QED
    BY <1>2, <1>3 DEF Injection, IsInjective
<1>6. rank \in Surjection(S, 1..n)
  <2>. HIDE DEF rank
  <2>. QED
    BY <1>4, <1>5, FS_Injection
<1>7. \E i \in S : rank[i] = k
  <2>. HIDE DEF rank
  <2>. QED
    BY <1>6 DEF Surjection
<1>8. PICK i \in S : Rank(S, i) = k
  BY <1>7
<1>. QED
  BY <1>8, RankedOfRank

LEMMA RankedIn ==
  ASSUME NEW S \in SUBSET Nat, IsFiniteSet(S), NEW k \in 1..Cardinality(S)
  PROVE  Ranked(S, k) \in S
BY RankTaken
=============================================================================
