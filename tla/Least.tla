-------------------------------- MODULE Least --------------------------------
(* The least number of a finite set, as the kernel's choice of descriptors. *)
EXTENDS Integers, FiniteSets, FiniteSetTheorems, TLAPS

\* A finite set of numbers that is not empty has a least one: the number with
\* the smallest set of numbers below it.
LEMMA LeastExists ==
  ASSUME NEW S \in SUBSET Nat, IsFiniteSet(S), S # {}
  PROVE  \E n \in S : \A m \in S : n <= m
<1> DEFINE Below(n) == {m \in S : m < n}
           T == {Below(n) : n \in S}
<1>1. T \subseteq FiniteSubsetsOf(S) /\ T # {}
  <2>1. \A n \in S : Below(n) \in SUBSET S /\ IsFiniteSet(Below(n))
    BY FS_Subset
  <2> QED
    BY <2>1 DEF FiniteSubsetsOf
<1>2. PICK x \in T : \A y \in T : <<y, x>> \notin StrictSubsetOrdering(S)
  BY <1>1, FS_StrictSubsetOrderingWellFounded, WFMin, Zenon
<1>3. PICK n \in S : x = Below(n)
  OBVIOUS
<1>4. ASSUME NEW k \in S, k < n
      PROVE  FALSE
  <2>0. k \in Nat /\ n \in Nat /\ \A m \in S : m \in Nat
    OBVIOUS
  <2>1. /\ \A m \in S : m < k => m < n
        /\ k < n /\ ~(k < k)
    BY <1>4, <2>0
  <2>2. Below(k) \subseteq Below(n) /\ k \in Below(n) /\ k \notin Below(k)
    BY <2>1
  <2>3. <<Below(k), Below(n)>> \in StrictSubsetOrdering(S)
    BY <2>2 DEF StrictSubsetOrdering
  <2> QED
    BY <1>2, <1>3, <2>3
<1> QED
  BY <1>4
=============================================================================
