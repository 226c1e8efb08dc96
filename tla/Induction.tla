----------------------------- MODULE Induction -----------------------------
(***************************************************************************)
(* Induction over the natural numbers, for sets: the form the recursive    *)
(* functions of this project need.  It rests on the pigeonhole principle:  *)
(* were n missing from a set that holds 0 and with k also k + 1, then      *)
(* adding one would map the part of it up to n into itself without 0.      *)
(***************************************************************************)
EXTENDS Naturals, FiniteSetTheorems, TLAPS

\* A set with 0 and with the successor of each of its members has every number.
LEMMA SetInduction ==
    ASSUME NEW S \in SUBSET Nat, 0 \in S, \A n \in S : n + 1 \in S
    PROVE  \A n \in Nat : n \in S
  <1> SUFFICES ASSUME NEW n \in Nat, n \notin S
               PROVE  FALSE
    OBVIOUS
  <1> DEFINE E == S \cap (0 .. n)
             D == E \ {0}
             next == [k \in E |-> k + 1]
  <1>1. IsFiniteSet(E)
    <2>1. IsFiniteSet(0 .. n)
      BY FS_Interval
    <2> QED
      BY <2>1, FS_Subset
  <1>2. /\ IsFiniteSet(D)
        /\ Cardinality(D) = Cardinality(E) - 1
    <2>1. 0 \in E
      OBVIOUS
    <2> HIDE DEF E
    <2> QED
      BY <1>1, <2>1, FS_RemoveElement
  <1>3. Cardinality(E) \in Nat
    BY <1>1, FS_CardinalityType
  <1>4. ASSUME NEW k \in E
        PROVE  k + 1 \in D
    BY k # n
  <1>5. next \in [E -> D]
    BY <1>4
  <1>6. \A x, y \in E : next[x] = next[y] => x = y
    OBVIOUS
  <1> HIDE DEF D, E, next
  <1>7. \E x, y \in E : x # y /\ next[x] = next[y]
    BY <1>1, <1>2, <1>3, <1>5, FS_PigeonHole
  <1> QED
    BY <1>6, <1>7
=============================================================================
