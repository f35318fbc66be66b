---------------------------- MODULE OrderLemmas ----------------------------
(* Least elements, as facts the other proofs cite.                         *)
EXTENDS Integers, FiniteSets, FiniteSetTheorems, NaturalsInduction,
        WellFoundedInduction, TLAPS

\* A set of numbers has a least one.
LEMMA LeastNat ==
  ASSUME NEW S, S \subseteq Nat, S # {}
  PROVE  \E n \in S : \A m \in S : n <= m
<1>1. PICK n \in S : \A m \in S : <<m, n>> \notin OpToRel(<, Nat)
  BY NatLessThanWellFounded, WFMin
<1>2. \A m \in S : ~(m < n)
  BY <1>1 DEF OpToRel
<1> QED
  BY <1>2

\* A finite set has a least element of a total preorder, given as the set of
\* its pairs.
LEMMA LeastOfPreorder ==
  ASSUME NEW S, S # {}, IsFiniteSet(S), NEW R,
         \A a, b \in S : <<a, b>> \in R \/ <<b, a>> \in R,
         \A a, b, c \in S : <<a, b>> \in R /\ <<b, c>> \in R => <<a, c>> \in R
  PROVE  \E n \in S : \A m \in S : <<n, m>> \in R
<1> DEFINE Bad == {T \in FiniteSubsetsOf(S) : T # {} /\ ~ \E n \in T : \A m \in T : <<n, m>> \in R}
<1> SUFFICES ASSUME S \in Bad PROVE FALSE
  BY FS_FiniteSubsetsOfFinite
<1>1. IsWellFoundedOn(StrictSubsetOrdering(S), FiniteSubsetsOf(S))
  BY FS_StrictSubsetOrderingWellFounded
<1>2. PICK T \in Bad : \A U \in Bad : <<U, T>> \notin StrictSubsetOrdering(S)
  <2> HIDE DEF Bad
  <2>1. Bad \subseteq FiniteSubsetsOf(S)
    BY DEF Bad
  <2> QED
    BY <1>1, <2>1, WFMin
<1>3. T \subseteq S /\ T # {}
  <2>1. T \in FiniteSubsetsOf(S) /\ T # {}
    OBVIOUS
  <2> HIDE DEF Bad
  <2> QED BY <2>1, FS_FiniteSubsetsOfFinite
<1>4. PICK x \in T : TRUE
  BY <1>3
<1>5. T \ {x} \in SUBSET S /\ <<T \ {x}, T>> \in StrictSubsetOrdering(S)
  BY <1>3, <1>4 DEF StrictSubsetOrdering
<1>6. T \ {x} \notin Bad
  BY <1>2, <1>5
<1>7. CASE T \ {x} = {}
  BY <1>3, <1>4, <1>7
<1>8. CASE T \ {x} # {}
  <2> DEFINE U == T \ {x}
  <2>0. U \in FiniteSubsetsOf(S)
    BY <1>5, FS_FiniteSubsetsOfFinite
  <2>1. PICK n \in U : \A m \in U : <<n, m>> \in R
    <3> HIDE DEF U
    <3> QED BY <1>6, <1>8, <2>0 DEF U
  <2>2. CASE <<x, n>> \in R
    BY <1>3, <1>4, <2>1, <2>2
  <2>3. CASE <<n, x>> \in R
    BY <1>3, <1>4, <2>1, <2>3
  <2> QED BY <1>3, <1>4, <2>1, <2>2, <2>3
<1> QED
  BY <1>7, <1>8

\* So has a finite set of integers, negative ones included.
LEMMA LeastOfFinite ==
  ASSUME NEW S, S \subseteq Int, S # {}, IsFiniteSet(S)
  PROVE  \E n \in S : \A m \in S : n <= m
<1> DEFINE R == {p \in S \X S : p[1] <= p[2]}
<1>1. \A a, b \in S : <<a, b>> \in R <=> a <= b
  OBVIOUS
<1>2. /\ \A a, b \in S : <<a, b>> \in R \/ <<b, a>> \in R
      /\ \A a, b, c \in S : <<a, b>> \in R /\ <<b, c>> \in R => <<a, c>> \in R
  BY <1>1
<1> HIDE DEF R
<1> QED BY <1>1, <1>2, LeastOfPreorder

\* Among subsets of a finite set there is one with no other inside it.
LEMMA LeastSubset ==
  ASSUME NEW S, IsFiniteSet(S), NEW Bad, Bad \subseteq SUBSET S, Bad # {}
  PROVE  \E T \in Bad : \A U \in Bad : U \subseteq T => U = T
<1>1. IsWellFoundedOn(StrictSubsetOrdering(S), FiniteSubsetsOf(S))
  BY FS_StrictSubsetOrderingWellFounded
<1>2. Bad \subseteq FiniteSubsetsOf(S)
  BY FS_FiniteSubsetsOfFinite
<1>3. PICK T \in Bad : \A U \in Bad : <<U, T>> \notin StrictSubsetOrdering(S)
  BY <1>1, <1>2, WFMin
<1> QED BY <1>3 DEF StrictSubsetOrdering
=============================================================================
