--------------------------- MODULE TablingProofs ---------------------------
(***************************************************************************)
(* Proofs about module Tabling, for every set of ground atoms and every    *)
(* program whose negation is never left to a probe (NafFree): computeWFS   *)
(* computes the alternating fixpoint, which is the well-founded model, and *)
(* ends within its budget.                                                 *)
(*                                                                         *)
(* The argument: phi's operator is monotone in what it has derived and     *)
(* antimonotone in what it judges negation against, so Phi is antimonotone *)
(* and its square monotone.  Phi(J) is closed and least, so a growing set  *)
(* stays inside it and equals it once a round adds nothing.  From that the *)
(* bounds of the alternation are inductive.  The interpretation they meet  *)
(* in is saturated and lies below every saturated one, so it is the        *)
(* well-founded model.                                                     *)
(***************************************************************************)
EXTENDS Tabling, FiniteSetTheorems, TLAPS

\* Every program the machine may be built over is free of probes.
PlainPrograms == \A p \in Programs : NafFree(p)

\* What the lemmas need to know of the program.
ProgramOK == rules \subseteq Rules /\ NafFree(rules)

-----------------------------------------------------------------------------
(* The operator Phi. *)

\* More derived atoms and fewer judged ones derive more.
LEMMA DerivesMonotone ==
    ASSUME ProgramOK, NEW r \in rules, NEW P1, NEW P2, NEW N1, NEW N2,
           P1 \subseteq P2, N2 \subseteq N1, Derives(r, P1, N1)
    PROVE  Derives(r, P2, N2)
  <1> SUFFICES ASSUME NEW k \in DOMAIN r.body
               PROVE  Holds(r.body[k], P2, N2)
    BY DEF Derives
  <1>1. Holds(r.body[k], P1, N1)
    BY DEF Derives
  <1>2. r.body[k].op # "naf"
    BY DEF ProgramOK, NafFree
  <1> QED
    BY <1>1, <1>2 DEF Holds

\* Phi(J) is a set of atoms, and below every closed one.
LEMMA PhiLeast ==
    ASSUME NEW J, NEW S \in SUBSET Atoms, Closed(S, J)
    PROVE  Phi(J) \subseteq S
  BY DEF Phi

\* Phi(J) is closed itself.
LEMMA PhiClosed ==
    ASSUME ProgramOK, NEW J
    PROVE  Phi(J) \in SUBSET Atoms /\ Closed(Phi(J), J)
  <1>1. Phi(J) \in SUBSET Atoms
    BY DEF Phi
  <1>2. ASSUME NEW r \in rules, Derives(r, Phi(J), J)
        PROVE  r.head \in Phi(J)
    <2>1. r.head \in Atoms
      BY DEF ProgramOK, Rules
    <2>2. ASSUME NEW S \in SUBSET Atoms, Closed(S, J)
          PROVE  r.head \in S
      <3>1. Phi(J) \subseteq S
        BY <2>2, PhiLeast
      <3>2. Derives(r, S, J)
        BY <1>2, <3>1, DerivesMonotone
      <3> QED
        BY <2>2, <3>2 DEF Closed
    <2> QED
      BY <2>1, <2>2 DEF Phi
  <1> QED
    BY <1>1, <1>2 DEF Closed

\* Judging against more derives less.
LEMMA PhiAntimonotone ==
    ASSUME ProgramOK, NEW J1, NEW J2, J1 \subseteq J2
    PROVE  Phi(J2) \subseteq Phi(J1)
  <1>1. Phi(J1) \in SUBSET Atoms /\ Closed(Phi(J1), J1)
    BY PhiClosed
  <1>2. ASSUME NEW r \in rules, Derives(r, Phi(J1), J2)
        PROVE  r.head \in Phi(J1)
    <2>1. Derives(r, Phi(J1), J1)
      BY <1>2, DerivesMonotone
    <2> QED
      BY <1>1, <2>1 DEF Closed
  <1>3. Closed(Phi(J1), J2)
    BY <1>2 DEF Closed
  <1> QED
    BY <1>1, <1>3, PhiLeast

\* The double step is monotone.
LEMMA DoublePhiMonotone ==
    ASSUME ProgramOK, NEW J1, NEW J2, J1 \subseteq J2
    PROVE  Phi(Phi(J1)) \subseteq Phi(Phi(J2))
  <1>1. Phi(J2) \subseteq Phi(J1)
    BY PhiAntimonotone
  <1> QED
    BY <1>1, PhiAntimonotone

-----------------------------------------------------------------------------
(* One round. *)

\* A round only adds atoms, and stays inside Phi.
LEMMA StepStaysInside ==
    ASSUME ProgramOK, NEW J, NEW S, S \subseteq Phi(J)
    PROVE  S \subseteq TpStep(S, J) /\ TpStep(S, J) \subseteq Phi(J)
  <1>1. S \subseteq TpStep(S, J)
    BY DEF TpStep
  <1>2. ASSUME NEW r \in rules, Derives(r, S, J)
        PROVE  r.head \in Phi(J)
    <2>1. Derives(r, Phi(J), J)
      BY <1>2, DerivesMonotone
    <2> QED
      BY <2>1, PhiClosed DEF Closed
  <1>3. Derived(S, J) \subseteq Phi(J)
    BY <1>2 DEF Derived
  <1> QED
    BY <1>1, <1>3 DEF TpStep

\* Subsets of Phi(J) are finite.
LEMMA InsideIsFinite ==
    ASSUME NEW S \in SUBSET Atoms
    PROVE  IsFiniteSet(S) /\ Cardinality(S) \in Nat
  BY AtomsAssumption, FS_Subset, FS_CardinalityType

\* A round that leaves the size alone has reached Phi: comparing the sizes is
\* as good as comparing the sets (tabling.go:101).
LEMMA StableIsPhi ==
    ASSUME ProgramOK, NEW J, NEW S, S \subseteq Phi(J),
           Cardinality(TpStep(S, J)) = Cardinality(S)
    PROVE  TpStep(S, J) = S /\ S = Phi(J)
  <1>1. S \subseteq TpStep(S, J) /\ TpStep(S, J) \subseteq Phi(J)
    BY StepStaysInside
  <1>2. TpStep(S, J) \in SUBSET Atoms
    BY <1>1, PhiClosed
  <1>3. TpStep(S, J) = S
    BY <1>1, <1>2, InsideIsFinite, FS_Subset
  <1>4. ASSUME NEW r \in rules, Derives(r, S, J)
        PROVE  r.head \in S
    BY <1>3, <1>4 DEF TpStep, Derived
  <1>5. Phi(J) \subseteq S
    BY <1>1, <1>2, <1>4, PhiLeast DEF Closed
  <1> QED
    BY <1>3, <1>5

\* A round that changes the size has grown.
LEMMA UnstableGrows ==
    ASSUME ProgramOK, NEW J, NEW S, S \subseteq Phi(J),
           Cardinality(TpStep(S, J)) # Cardinality(S)
    PROVE  Cardinality(TpStep(S, J)) >= Cardinality(S) + 1
  <1>1. S \subseteq TpStep(S, J) /\ TpStep(S, J) \in SUBSET Atoms
    BY StepStaysInside, PhiClosed
  <1>2. IsFiniteSet(TpStep(S, J)) /\ Cardinality(TpStep(S, J)) \in Nat /\ Cardinality(S) \in Nat
    BY <1>1, InsideIsFinite
  <1>3. Cardinality(S) <= Cardinality(TpStep(S, J))
    BY <1>1, <1>2, FS_Subset
  <1> QED
    BY <1>2, <1>3

-----------------------------------------------------------------------------
(* The inductive invariant. *)

\* The program is one of those the machine may be built over, and it stays.
ProgramFixed == rules \in Programs

IInv == /\ ProgramFixed /\ TypeOK
        /\ GrowsInsidePhi /\ LowerBound /\ WithinBudget
        /\ ModelIsAlternatingFixpoint

LEMMA ProgramIsOK ==
    ASSUME PlainPrograms, ProgramFixed
    PROVE  ProgramOK
  BY ProgramsAssumption DEF PlainPrograms, ProgramFixed, ProgramOK

\* Of two finite sets of atoms, the larger one has more elements.
LEMMA StrictlyMore ==
    ASSUME NEW S \in SUBSET Atoms, NEW T \in SUBSET Atoms, S \subseteq T, S # T
    PROVE  Cardinality(T) >= Cardinality(S) + 1
  <1>1. IsFiniteSet(T) /\ Cardinality(T) \in Nat /\ Cardinality(S) \in Nat
    BY InsideIsFinite
  <1>2. Cardinality(S) <= Cardinality(T) /\ Cardinality(S) # Cardinality(T)
    BY <1>1, FS_Subset
  <1> QED
    BY <1>1, <1>2

\* Initially nothing is derived and there is no model.
LEMMA InitEstablishes == Init => IInv
  <1> SUFFICES ASSUME Init PROVE IInv
    OBVIOUS
  <1>1. ProgramFixed
    BY DEF Init, ProgramFixed
  <1>2. TypeOK
    BY ProgramsAssumption, BoundsAssumption DEF Init, TypeOK
  <1>3. GrowsInsidePhi /\ LowerBound /\ WithinBudget /\ ModelIsAlternatingFixpoint
    BY DEF Init, GrowsInsidePhi, LowerBound, WithinBudget, ModelIsAlternatingFixpoint, Grounding
  <1> QED
    BY <1>1, <1>2, <1>3 DEF IInv

\* The types do not depend on the program's being plain.
LEMMA TypeStep == TypeOK /\ [Next]_vars => TypeOK'
  <1> SUFFICES ASSUME TypeOK, [Next]_vars PROVE TypeOK'
    OBVIOUS
  <1> USE BoundsAssumption DEF TypeOK, Grounding
  <1>1. Derived(i, j) \subseteq Atoms /\ Judged(i, j) \subseteq Atoms
    <2>1. \A r \in rules : r.head \in Atoms /\ r.body \in Seq(Literals)
      BY DEF Rules
    <2>2. \A r \in rules : \A k \in DOMAIN r.body : r.body[k] \in Literals
      BY <2>1
    <2>3. \A r \in rules : \A k \in DOMAIN r.body : r.body[k].atom \in Atoms
      BY <2>2 DEF Literals
    <2>4. Derived(i, j) \subseteq Atoms
      BY <2>1 DEF Derived
    <2>5. Judged(i, j) \subseteq Atoms
      BY <2>3 DEF Judged
    <2> QED
      BY <2>4, <2>5
  <1>2. CASE Solve
    BY <1>2 DEF Solve, Phi0
  <1>3. CASE Grow
    BY <1>1, <1>3 DEF Grow, Round, TpStep
  <1>4. CASE OverDone
    BY <1>1, <1>4 DEF OverDone, Round, TpStep, Phi0
  <1>5. CASE NextRound
    BY <1>1, <1>5 DEF NextRound, Round, TpStep, Phi0
  <1>6. CASE Converged
    BY <1>1, <1>6 DEF Converged, Round, TpStep, Phi0
  <1>7. CASE Classify
    <2>1. Model(TpStep(i, j), universe') \in [{"true", "false", "undefined"} -> SUBSET Atoms]
      BY <1>1, <1>7 DEF Classify, Round, Model
    <2> QED
      BY <1>1, <1>7, <2>1 DEF Classify, Round
  <1>8. CASE OverBudget \/ Aborted \/ QueryDone
    BY <1>8 DEF OverBudget, Aborted, QueryDone, local
  <1>9. CASE Terminated \/ UNCHANGED vars
    BY <1>9 DEF Terminated, vars
  <1> QED
    BY <1>2, <1>3, <1>4, <1>5, <1>6, <1>7, <1>8, <1>9 DEF Next, Compute
\* As long as the program stays, so does Phi.
LEMMA PhiStays ==
    ASSUME rules' = rules, NEW J
    PROVE  Phi(J)' = Phi(J)
  BY DEF Phi, Closed, Derives, Holds

\* The steps that only end a run or start a query leave the model alone, and
\* outside the grounding nothing else is claimed.
LEMMA QuietStep ==
    ASSUME IInv, rules' = rules, lastModel' = lastModel, phase' \notin Grounding
    PROVE  /\ (GrowsInsidePhi /\ LowerBound /\ WithinBudget)'
           /\ ModelIsAlternatingFixpoint'
  BY PhiStays DEF IInv, GrowsInsidePhi, LowerBound, WithinBudget, ModelIsAlternatingFixpoint

\* What a complete phi has computed, while grounding.
LEMMA RoundFacts ==
    ASSUME IInv, PlainPrograms, phase \in Grounding
    PROVE  /\ ProgramOK
           /\ i \in SUBSET Atoms /\ i \subseteq Phi(j)
           /\ trueSet \in SUBSET Atoms
           /\ TpStep(i, j) \in SUBSET Atoms /\ TpStep(i, j) \subseteq Phi(j)
           /\ Stable => TpStep(i, j) = Phi(j)
           /\ ~Stable => Cardinality(TpStep(i, j)) >= Cardinality(i) + 1
  <1>1. ProgramOK
    BY ProgramIsOK DEF IInv
  <1>2. i \in SUBSET Atoms /\ i \subseteq Phi(j) /\ trueSet \in SUBSET Atoms
    BY DEF IInv, GrowsInsidePhi, TypeOK
  <1>3. TpStep(i, j) \subseteq Phi(j) /\ Phi(j) \in SUBSET Atoms
    BY <1>1, <1>2, StepStaysInside, PhiClosed
  <1>4. ASSUME Stable PROVE TpStep(i, j) = Phi(j)
    BY <1>1, <1>2, <1>4, StableIsPhi DEF Stable
  <1>5. ASSUME ~Stable PROVE Cardinality(TpStep(i, j)) >= Cardinality(i) + 1
    BY <1>1, <1>2, <1>5, UnstableGrows DEF Stable
  <1> QED
    BY <1>1, <1>2, <1>3, <1>4, <1>5

\* A round that adds something goes on inside the same phi.
LEMMA GrowStep ==
    ASSUME IInv, PlainPrograms, Grow
    PROVE  (GrowsInsidePhi /\ LowerBound /\ WithinBudget /\ ModelIsAlternatingFixpoint)'
  <1> USE DEF IInv, Grow, Round
  <1>1. GrowsInsidePhi'
    BY RoundFacts, PhiStays DEF GrowsInsidePhi
  <1>2. LowerBound' /\ ModelIsAlternatingFixpoint'
    BY PhiStays DEF LowerBound, ModelIsAlternatingFixpoint
  <1>3. WithinBudget'
    <2>1. Cardinality(i) \in Nat /\ Cardinality(TpStep(i, j)) \in Nat
      BY RoundFacts, InsideIsFinite
    <2> QED
      BY <2>1, RoundFacts DEF WithinBudget, TypeOK
  <1> QED
    BY <1>1, <1>2, <1>3

\* The first phi of a round of the alternation is complete.
LEMMA OverDoneStep ==
    ASSUME IInv, PlainPrograms, OverDone
    PROVE  (GrowsInsidePhi /\ LowerBound /\ WithinBudget /\ ModelIsAlternatingFixpoint)'
  <1> USE DEF IInv, OverDone, Round
  <1>1. j = trueSet /\ TpStep(i, j) = Phi(j)
    BY RoundFacts DEF GrowsInsidePhi, Grounding
  <1>2. GrowsInsidePhi'
    BY <1>1, PhiStays DEF GrowsInsidePhi, Phi0
  <1>3. LowerBound' /\ ModelIsAlternatingFixpoint'
    BY PhiStays DEF LowerBound, ModelIsAlternatingFixpoint, Grounding
  <1>4. WithinBudget'
    BY FS_EmptySet DEF WithinBudget, Phi0
  <1> QED
    BY <1>2, <1>3, <1>4

\* The double step gave a larger lower bound.
LEMMA NextRoundStep ==
    ASSUME IInv, PlainPrograms, NextRound
    PROVE  (GrowsInsidePhi /\ LowerBound /\ WithinBudget /\ ModelIsAlternatingFixpoint)'
  <1> USE DEF IInv, NextRound, Round
  <1> DEFINE T == Phi(Phi(trueSet))
  <1>1. ProgramOK /\ trueSet' = T
    BY RoundFacts DEF GrowsInsidePhi
  <1>2. /\ trueSet \subseteq Phi(trueSet) /\ trueSet \subseteq T
        /\ \A X \in SUBSET Atoms : Phi(Phi(X)) \subseteq X => trueSet \subseteq X
    BY DEF LowerBound
  <1>3. T \in SUBSET Atoms /\ trueSet \in SUBSET Atoms
    BY <1>1, RoundFacts
  <1>4. GrowsInsidePhi'
    BY <1>1, PhiStays DEF GrowsInsidePhi, Phi0
  <1>5. LowerBound'
    <2>1. T \subseteq Phi(T)
      BY <1>1, <1>2, DoublePhiMonotone
    <2>2. T \subseteq Phi(Phi(T))
      BY <1>1, <1>2, DoublePhiMonotone
    <2>3. ASSUME NEW X \in SUBSET Atoms, Phi(Phi(X)) \subseteq X
          PROVE  T \subseteq X
      BY <1>1, <1>2, <2>3, DoublePhiMonotone
    <2> QED
      BY <1>1, <2>1, <2>2, <2>3, PhiStays DEF LowerBound
  <1>6. WithinBudget'
    <2>1. Cardinality(trueSet) \in Nat /\ Cardinality(T) \in Nat
      BY <1>3, InsideIsFinite
    <2>2. Cardinality(T) >= Cardinality(trueSet) + 1
      BY <1>1, <1>2, <1>3, StrictlyMore
    <2> QED
      BY <1>1, <2>1, <2>2, FS_EmptySet DEF WithinBudget, Phi0, TypeOK
  <1>7. ModelIsAlternatingFixpoint'
    BY PhiStays DEF ModelIsAlternatingFixpoint
  <1> QED
    BY <1>4, <1>5, <1>6, <1>7

\* The double step gave the lower bound back.
LEMMA ConvergedStep ==
    ASSUME IInv, PlainPrograms, Converged
    PROVE  (GrowsInsidePhi /\ LowerBound /\ WithinBudget /\ ModelIsAlternatingFixpoint)'
  <1> USE DEF IInv, Converged, Round
  <1>1. trueSet = Phi(Phi(trueSet))
    BY RoundFacts DEF GrowsInsidePhi
  <1>2. GrowsInsidePhi'
    BY PhiStays DEF GrowsInsidePhi, Phi0
  <1>3. LowerBound'
    BY <1>1, PhiStays DEF LowerBound
  <1>4. WithinBudget' /\ ModelIsAlternatingFixpoint'
    BY FS_EmptySet, PhiStays DEF WithinBudget, Phi0, ModelIsAlternatingFixpoint
  <1> QED
    BY <1>2, <1>3, <1>4

\* The upper bound is complete: the model is the alternating fixpoint.
LEMMA ClassifyStep ==
    ASSUME IInv, PlainPrograms, Classify
    PROVE  (GrowsInsidePhi /\ LowerBound /\ WithinBudget /\ ModelIsAlternatingFixpoint)'
  <1> USE DEF IInv, Classify, Round
  <1> DEFINE U == Phi(trueSet)
  <1>1. TpStep(i, j) = U
    BY RoundFacts DEF GrowsInsidePhi
  <1>2. /\ trueSet \subseteq U /\ trueSet = Phi(Phi(trueSet))
        /\ \A X \in SUBSET Atoms : Phi(Phi(X)) \subseteq X => trueSet \subseteq X
    BY DEF LowerBound
  <1>3. U \subseteq universe'
    BY <1>1 DEF TpStep, TypeOK
  <1>4. /\ lastModel'.true = trueSet
        /\ lastModel'.undefined = (universe' \cap U) \ trueSet
        /\ lastModel'.false = universe' \ (trueSet \cup U)
    BY <1>1 DEF Model
  <1>5. ModelIsAlternatingFixpoint'
    <2> DEFINE M == lastModel'
    <2>1. /\ Phi(Phi(M.true)) = M.true
          /\ \A X \in SUBSET Atoms : Phi(Phi(X)) \subseteq X => M.true \subseteq X
      BY <1>2, <1>4
    <2>2. /\ M.true \cup M.undefined = Phi(M.true)
          /\ M.true \cap M.undefined = {}
          /\ M.false \cap Phi(M.true) = {}
      BY <1>2, <1>3, <1>4
    <2> HIDE DEF IInv, Classify, Round
    <2>3. rules' = rules
      BY DEF Classify, Round
    <2> QED
      BY <2>1, <2>2, <2>3, PhiStays DEF ModelIsAlternatingFixpoint
  <1>6. (GrowsInsidePhi /\ LowerBound /\ WithinBudget)'
    BY DEF GrowsInsidePhi, LowerBound, WithinBudget, Grounding
  <1> QED
    BY <1>5, <1>6

\* A run begins: the lower bound is empty.
LEMMA SolveStep ==
    ASSUME IInv, PlainPrograms, Solve
    PROVE  (GrowsInsidePhi /\ LowerBound /\ WithinBudget /\ ModelIsAlternatingFixpoint)'
  <1> USE DEF IInv, Solve
  <1>1. GrowsInsidePhi'
    BY DEF GrowsInsidePhi, Phi0
  <1>2. LowerBound'
    BY DEF LowerBound
  <1>3. WithinBudget'
    BY FS_EmptySet DEF WithinBudget, Phi0
  <1>4. ModelIsAlternatingFixpoint'
    BY PhiStays DEF ModelIsAlternatingFixpoint
  <1> QED
    BY <1>1, <1>2, <1>3, <1>4

\* Every step keeps the inductive invariant.
LEMMA StepPreserves == PlainPrograms /\ IInv /\ [Next]_vars => IInv'
  <1> SUFFICES ASSUME PlainPrograms, IInv, [Next]_vars PROVE IInv'
    OBVIOUS
  <1>1. TypeOK'
    BY TypeStep DEF IInv
  <1>2. ProgramFixed' /\ rules' = rules
    BY DEF IInv, ProgramFixed, Next, Compute, Solve, Grow, OverDone, NextRound, Converged, Classify,
           OverBudget, Aborted, QueryDone, Terminated, Round, vars
  <1>3. (GrowsInsidePhi /\ LowerBound /\ WithinBudget /\ ModelIsAlternatingFixpoint)'
    <2>1. CASE Solve
      BY <2>1, SolveStep
    <2>2. CASE Grow
      BY <2>2, GrowStep
    <2>3. CASE OverDone
      BY <2>3, OverDoneStep
    <2>4. CASE NextRound
      BY <2>4, NextRoundStep
    <2>5. CASE Converged
      BY <2>5, ConvergedStep
    <2>6. CASE Classify
      BY <2>6, ClassifyStep
    <2>7. CASE OverBudget \/ Aborted \/ QueryDone
      BY <1>2, <2>7, QuietStep DEF OverBudget, Aborted, QueryDone, Grounding
    <2>8. CASE Terminated \/ UNCHANGED vars
      BY <2>8, PhiStays DEF Terminated, vars, IInv, GrowsInsidePhi, LowerBound, WithinBudget,
         ModelIsAlternatingFixpoint
    <2> QED
      BY <2>1, <2>2, <2>3, <2>4, <2>5, <2>6, <2>7, <2>8 DEF Next, Compute
  <1> QED
    BY <1>1, <1>2, <1>3 DEF IInv

-----------------------------------------------------------------------------
(* The theorems. *)

\* The state of a machine with tabled predicates is well-typed, whatever its
\* program (tabling.go:29-44).
THEOREM TypeCorrect == Spec => []TypeOK
  <1>1. Init => TypeOK
    BY InitEstablishes DEF IInv
  <1> QED
    BY <1>1, TypeStep, PTL DEF Spec

\* The inductive invariant, from which the others follow.
LEMMA Invariant == PlainPrograms /\ Spec => []IInv
  <1> SUFFICES ASSUME PlainPrograms PROVE Spec => []IInv
    OBVIOUS
  <1>1. IInv /\ [Next]_vars => IInv'
    BY StepPreserves
  <1> QED
    BY <1>1, InitEstablishes, PTL DEF Spec

\* phi computes the least fixpoint: what it has grown is inside Phi of the set
\* the alternation judges negation against (tabling.go:89-106).
THEOREM PhiNeverOvershoots == PlainPrograms /\ Spec => []GrowsInsidePhi
  <1>1. IInv => GrowsInsidePhi
    BY DEF IInv
  <1> QED
    BY <1>1, Invariant, PTL

\* The lower bound of the alternation only ever holds atoms that are true in
\* every three-valued model, and it is the fixpoint when the loop ends
\* (tabling.go:46-64).
THEOREM LowerBoundIsSound == PlainPrograms /\ Spec => []LowerBound
  <1>1. IInv => LowerBound
    BY DEF IInv
  <1> QED
    BY <1>1, Invariant, PTL

\* The model a machine reports is the alternating fixpoint of its program: the
\* least fixpoint of Phi's square, with its upper bound (tabling.go:36-87).
THEOREM ModelIsCorrect == PlainPrograms /\ Spec => []ModelIsAlternatingFixpoint
  <1>1. IInv => ModelIsAlternatingFixpoint
    BY DEF IInv
  <1> QED
    BY <1>1, Invariant, PTL

\* Neither loop outlives the number of ground atoms: the iteration budget can
\* only be met by a grounding larger than it (tabling.go:23-27).
THEOREM BudgetSuffices == PlainPrograms /\ Spec => []WithinBudget
  <1>1. IInv => WithinBudget
    BY DEF IInv
  <1> QED
    BY <1>1, Invariant, PTL

-----------------------------------------------------------------------------
(* The alternating fixpoint is the well-founded model: the interpretation    *)
(* that calls true its true atoms and false what is outside its upper bound  *)
(* is saturated, and it is below every other saturated one.                  *)

\* The bodies of the program are made of literals that judge tabled atoms.
LEMMA LiteralFacts ==
    ASSUME ProgramOK, NEW r \in rules, NEW k \in DOMAIN r.body
    PROVE  /\ r.body[k].atom \in Atoms /\ r.body[k].op \in {"pos", "neg"}
           /\ Negative(r.body[k]) <=> r.body[k].op = "neg"
  <1>1. r.body \in Seq(Literals)
    BY DEF ProgramOK, Rules
  <1>2. r.body[k] \in Literals
    BY <1>1
  <1>3. r.body[k].op # "naf"
    BY DEF ProgramOK, NafFree
  <1> QED
    BY <1>2, <1>3 DEF Literals, Negative

\* A set of true atoms and its upper bound, as an interpretation.
Bounds(T) == [t |-> T, f |-> Atoms \ Phi(T)]

LEMMA BoundsSaturated ==
    ASSUME ProgramOK, NEW T \in SUBSET Atoms, Phi(Phi(T)) = T
    PROVE  Bounds(T) \in Interpretations /\ Saturated(Bounds(T))
  <1> DEFINE I == Bounds(T)
             U == Phi(T)
  <1>1. I.t = T /\ I.f = Atoms \ U
    BY DEF Bounds
  <1>2. /\ U \in SUBSET Atoms /\ Closed(U, T) /\ Closed(T, U)
    BY PhiClosed
  <1>3. I \in Interpretations
    BY <1>2 DEF Bounds, Interpretations
  <1> HIDE DEF I, U
  <1>4. ASSUME NEW r \in rules, \A k \in DOMAIN r.body : LitTrue(r.body[k], I)
        PROVE  r.head \in I.t
    <2>1. ASSUME NEW k \in DOMAIN r.body
          PROVE  Holds(r.body[k], T, U)
      <3>1. LitTrue(r.body[k], I)
        BY <1>4
      <3> QED
        BY <1>1, <3>1, LiteralFacts DEF LitTrue, Holds
    <2> QED
      BY <1>1, <1>2, <2>1 DEF Closed, Derives
  <1>5. ASSUME NEW S \in SUBSET Atoms, Unfounded(S, I)
        PROVE  S \subseteq I.f
    <2>1. ASSUME NEW r \in rules, Derives(r, U \ S, T)
          PROVE  r.head \in U \ S
      <3>1. r.head \in U
        BY <1>2, <2>1, DerivesMonotone DEF Closed
      <3>2. ASSUME r.head \in S
            PROVE  FALSE
        <4>1. PICK k \in DOMAIN r.body : \/ LitFalse(r.body[k], I)
                                         \/ ~Negative(r.body[k]) /\ r.body[k].atom \in S
          BY <1>5, <3>2 DEF Unfounded
        <4>2. Holds(r.body[k], U \ S, T)
          BY <2>1 DEF Derives
        <4> QED
          BY <1>1, <4>1, <4>2, LiteralFacts DEF LitFalse, Holds
      <3> QED
        BY <3>1, <3>2
    <2>2. Closed(U \ S, T)
      BY <2>1 DEF Closed
    <2>3. Phi(T) \subseteq U \ S
      BY <1>2, <2>2, PhiLeast
    <2>4. U \cap S = {}
      BY <2>3 DEF U
    <2> QED
      BY <1>1, <2>4
  <1> QED
    BY <1>3, <1>4, <1>5 DEF Saturated, I

LEMMA BoundsLeast ==
    ASSUME ProgramOK, NEW T \in SUBSET Atoms,
           \A X \in SUBSET Atoms : Phi(Phi(X)) \subseteq X => T \subseteq X,
           NEW I \in Interpretations, Saturated(I)
    PROVE  T \subseteq I.t /\ Atoms \ Phi(T) \subseteq I.f
  <1> DEFINE X == I.t
             Y == Atoms \ I.f
             S == Atoms \ Phi(X)
  <1>1. X \in SUBSET Atoms /\ I.f \in SUBSET Atoms
    BY DEF Interpretations
  <1> HIDE DEF X, Y, S
  <1>2. Phi(Y) \subseteq X
    <2>1. ASSUME NEW r \in rules, Derives(r, X, Y)
          PROVE  r.head \in X
      <3>1. ASSUME NEW k \in DOMAIN r.body
            PROVE  LitTrue(r.body[k], I)
        <4>1. Holds(r.body[k], X, Y)
          BY <2>1 DEF Derives
        <4> QED
          BY <4>1, LiteralFacts DEF Holds, LitTrue, X, Y
      <3> QED
        BY <3>1 DEF Saturated, X
    <2> QED
      BY <1>1, <2>1, PhiLeast DEF Closed
  <1>3. Y \subseteq Phi(X)
    <2>1. Phi(X) \in SUBSET Atoms /\ Closed(Phi(X), X)
      BY PhiClosed
    <2>2. ASSUME NEW r \in rules, r.head \in S
          PROVE  \E k \in DOMAIN r.body : \/ LitFalse(r.body[k], I)
                                          \/ ~Negative(r.body[k]) /\ r.body[k].atom \in S
      <3>1. ~Derives(r, Phi(X), X)
        BY <2>1, <2>2 DEF Closed, S
      <3>2. PICK k \in DOMAIN r.body : ~Holds(r.body[k], Phi(X), X)
        BY <3>1 DEF Derives
      <3> QED
        BY <3>2, LiteralFacts DEF Holds, LitFalse, S, X
    <2>3. Unfounded(S, I)
      BY <2>2 DEF Unfounded
    <2>4. S \subseteq I.f
      BY <2>3 DEF Saturated, S
    <2> QED
      BY <2>4 DEF S, Y
  <1>4. Phi(Phi(X)) \subseteq X
    BY <1>2, <1>3, PhiAntimonotone
  <1>5. T \subseteq X
    BY <1>1, <1>4
  <1>6. Phi(X) \subseteq Phi(T)
    BY <1>5, PhiAntimonotone
  <1>7. Atoms \ Phi(T) \subseteq I.f
    BY <1>3, <1>6 DEF Y
  <1> QED
    BY <1>5, <1>7 DEF X

\* So they are the two halves of the well-founded model.
LEMMA WellFoundedIs ==
    ASSUME ProgramOK, NEW T \in SUBSET Atoms, Phi(Phi(T)) = T,
           \A X \in SUBSET Atoms : Phi(Phi(X)) \subseteq X => T \subseteq X
    PROVE  WellFounded.t = T /\ WellFounded.f = Atoms \ Phi(T)
  <1> DEFINE all == {I \in Interpretations : Saturated(I)}
  <1>1. Bounds(T) \in all /\ Bounds(T).t = T /\ Bounds(T).f = Atoms \ Phi(T)
    BY BoundsSaturated DEF Bounds
  <1>2. \A I \in all : T \subseteq I.t /\ Atoms \ Phi(T) \subseteq I.f
    BY BoundsLeast
  <1>3. /\ WellFounded.t = {x \in Atoms : \A I \in all : x \in I.t}
        /\ WellFounded.f = {x \in Atoms : \A I \in all : x \in I.f}
    BY DEF WellFounded
  <1> HIDE DEF all
  <1>4. WellFounded.t = T
    BY <1>1, <1>2, <1>3
  <1>5. WellFounded.f = Atoms \ Phi(T)
    BY <1>1, <1>2, <1>3
  <1> QED
    BY <1>4, <1>5

\* The true atoms of the model on record.
LEMMA ModelTypes ==
    ASSUME IInv, lastModel # <<>>
    PROVE  /\ lastModel.true \in SUBSET Atoms /\ lastModel.false \in SUBSET Atoms
           /\ lastModel.undefined \in SUBSET Atoms
  BY DEF IInv, TypeOK

LEMMA ModelIsTheWellFounded ==
    ASSUME PlainPrograms, IInv
    PROVE  ModelIsWellFounded
  <1> SUFFICES ASSUME lastModel # <<>>
               PROVE  /\ lastModel.true = WellFounded.t
                      /\ lastModel.undefined = Atoms \ (WellFounded.t \cup WellFounded.f)
                      /\ lastModel.false \subseteq WellFounded.f
    BY DEF ModelIsWellFounded
  <1> DEFINE T == lastModel.true
  <1>1. ProgramOK
    BY ProgramIsOK DEF IInv
  <1>2. /\ T \in SUBSET Atoms /\ lastModel.false \in SUBSET Atoms
        /\ lastModel.undefined \in SUBSET Atoms
    BY ModelTypes
  <1>3. /\ Phi(Phi(T)) = T
        /\ \A X \in SUBSET Atoms : Phi(Phi(X)) \subseteq X => T \subseteq X
        /\ T \cup lastModel.undefined = Phi(T)
        /\ T \cap lastModel.undefined = {}
        /\ lastModel.false \cap Phi(T) = {}
    BY DEF IInv, ModelIsAlternatingFixpoint
  <1> HIDE DEF T
  <1>4. WellFounded.t = T /\ WellFounded.f = Atoms \ Phi(T)
    BY <1>1, <1>2, <1>3, WellFoundedIs
  <1> QED
    BY <1>2, <1>3, <1>4 DEF T

\* The model a machine reports is the well-founded model of its program: the
\* least interpretation that holds the consequences of its true and false atoms
\* and calls false whatever is unfounded (tabling.go:9-17, 36-87).
THEOREM ModelIsTheWellFoundedOne == PlainPrograms /\ Spec => []ModelIsWellFounded
  <1> SUFFICES ASSUME PlainPrograms PROVE Spec => []ModelIsWellFounded
    OBVIOUS
  <1>1. IInv => ModelIsWellFounded
    BY ModelIsTheWellFounded
  <1> QED
    BY <1>1, Invariant, PTL

\* A query only runs over a model.
QueryHasModel == phase = "query" => lastModel # <<>>

LEMMA QueryHasModelStep ==
    ASSUME QueryHasModel, [Next]_vars
    PROVE  QueryHasModel'
  <1>1. CASE Classify
    <2>1. \A U, s : Model(U, s) # <<>>
      <3>1. \A U, s : "true" \in DOMAIN Model(U, s)
        BY DEF Model
      <3>2. "true" \notin DOMAIN <<>>
        OBVIOUS
      <3> QED
        BY <3>1, <3>2
    <2> QED
      BY <1>1, <2>1 DEF Classify, QueryHasModel
  <1>2. CASE ~Classify
    BY <1>2 DEF QueryHasModel, Next, Compute, Solve, Grow, OverDone, NextRound, Converged,
       OverBudget, Aborted, QueryDone, Terminated, vars, Grounding
  <1> QED
    BY <1>1, <1>2

\* Over an interrupted or a complete run alike, a query is told an atom exactly
\* if it is true in the well-founded model, its negation only if it is false,
\* and an undefined atom neither way (tabling.go:14-17, 164-176).
THEOREM AnswersAreWellFounded == PlainPrograms /\ Spec => []AnswersFollowModel
  <1>1. Init => QueryHasModel
    BY DEF Init, QueryHasModel
  <1>2. QueryHasModel /\ [Next]_vars => QueryHasModel'
    BY QueryHasModelStep
  <1>3. ModelIsWellFounded /\ QueryHasModel => AnswersFollowModel
    <2> SUFFICES ASSUME ModelIsWellFounded, QueryHasModel, phase = "query", NEW x \in Atoms
                 PROVE  /\ Answer([op |-> "pos", atom |-> x]) <=> x \in WellFounded.t
                        /\ Answer([op |-> "neg", atom |-> x]) => x \in WellFounded.f
      BY DEF AnswersFollowModel
    <2>1. lastModel.true = WellFounded.t /\ lastModel.false \subseteq WellFounded.f
      BY DEF ModelIsWellFounded, QueryHasModel
    <2>2. /\ Answer([op |-> "pos", atom |-> x]) <=> x \in lastModel.true
          /\ Answer([op |-> "neg", atom |-> x]) => x \in lastModel.false
      BY DEF Answer
    <2> QED
      BY <2>1, <2>2
  <1>4. PlainPrograms /\ Spec => []ModelIsWellFounded
    BY ModelIsTheWellFoundedOne
  <1> QED
    BY <1>1, <1>2, <1>3, <1>4, PTL DEF Spec
=============================================================================
