------------------------------ MODULE Tabling ------------------------------
(***************************************************************************)
(* Tabled predicates under well-founded semantics (tabling.go): computeWFS *)
(* grounds the tabled clauses round by round and alternates two fixpoints; *)
(* the query that Solve then runs reads the model it built.                *)
(*                                                                         *)
(* A clause is represented by its ground instances: a head atom and the    *)
(* literals its body consults, left to right, after resolution over the    *)
(* predicates that are not tabled.  A literal is                           *)
(*   pos  the tabled atom, answered from posOracle (answerTabled),         *)
(*   neg  \+ of the ground tabled atom, judged by negHolds,                *)
(*   naf  \+ of anything else whose proof needs the atom: a predicate that *)
(*        is not tabled and calls it, or the atom when \+ met it before it *)
(*        was ground.  These run as probes (succeeds) over posOracle.      *)
(*                                                                         *)
(* One step is one tpStep, with what its caller makes of the result.       *)
(***************************************************************************)
EXTENDS Naturals, FiniteSets, Sequences

CONSTANTS
    Atoms,     \* ground atoms of tabled predicates
    Programs,  \* the sets of ground rules a machine may be built over
    IterCap,   \* tablingIterCap
    MaxRuns    \* bound: how often Solve is called on the machine

Literals == [op : {"pos", "neg", "naf"}, atom : Atoms]
Rules    == [head : Atoms, body : Seq(Literals)]

ASSUME AtomsAssumption    == IsFiniteSet(Atoms)
ASSUME ProgramsAssumption == \A p \in Programs : p \subseteq Rules
ASSUME BoundsAssumption   == IterCap \in Nat /\ MaxRuns \in Nat

VARIABLES
    rules,     \* m.tabledClauses
    phase,     \* "idle", "over", "under", "upper" (inside computeWFS), "query"
    i,         \* the interpretation phi is growing: posOracle
    j,         \* what negation is judged against: negJ
    iter,      \* phi's iteration count
    rounds,    \* computeWFS's iteration count
    trueSet,   \* the lower bound of the alternating fixpoint
    universe,  \* m.wfsUniverse
    lastModel, \* m.lastModel: <<>> before the first one
    runs       \* how often Solve was called

local == <<i, j, iter, rounds, trueSet, universe>>
vars  == <<rules, phase, i, j, iter, rounds, trueSet, universe, lastModel, runs>>

Grounding == {"over", "under", "upper"}

-----------------------------------------------------------------------------
(* One round of immediate consequence. *)

\* mutant: negation consults the set being grown
Holds_NegCurrent(l, pos, neg) ==
    \/ l.op = "pos" /\ l.atom \in pos
    \/ l.op = "neg" /\ l.atom \notin pos
    \/ l.op = "naf" /\ l.atom \notin pos

\* Literal l during grounding, with posOracle = pos and negJ = neg.
Holds(l, pos, neg) ==
    \/ l.op = "pos" /\ l.atom \in pos
    \/ l.op = "neg" /\ l.atom \notin neg
    \/ l.op = "naf" /\ l.atom \notin pos

\* Literal k of a body is reached: resolution solved everything before it.
Reached(r, k, pos, neg) == \A n \in 1 .. k - 1 : Holds(r.body[n], pos, neg)

Derives(r, pos, neg) == \A k \in DOMAIN r.body : Holds(r.body[k], pos, neg)

\* The heads one round adds.
Derived(pos, neg) == {r.head : r \in {q \in rules : Derives(q, pos, neg)}}

\* The atoms that negHolds records as it judges them.
Judged(pos, neg) ==
    UNION {{r.body[k].atom : k \in {n \in DOMAIN r.body : /\ r.body[n].op = "neg"
                                                         /\ Reached(r, n, pos, neg)}}
             : r \in rules}

\* tpStep: what was derived stays derived.
TpStep(pos, neg) == pos \cup Derived(pos, neg)

-----------------------------------------------------------------------------
(* computeWFS. *)

Init ==
    /\ rules \in Programs
    /\ phase = "idle"
    /\ i = {} /\ j = {} /\ iter = 0 /\ rounds = 0 /\ trueSet = {} /\ universe = {}
    /\ lastModel = <<>>
    /\ runs = 0

\* mutant: the iterations of earlier calls count against the budget
Phi0_KeepCount(neg) == i' = {} /\ j' = neg /\ iter' = iter

\* phi starts over, with negation judged against neg.
Phi0(neg) == i' = {} /\ j' = neg /\ iter' = 0

\* Solve on a machine with tabled predicates: computeWFS begins.
Solve ==
    /\ phase = "idle" /\ runs < MaxRuns
    /\ runs' = runs + 1
    /\ phase' = "over"
    /\ Phi0({})
    /\ rounds' = 0 /\ trueSet' = {} /\ universe' = {}
    /\ UNCHANGED <<rules, lastModel>>

\* mutant: only judged atoms enter the universe, derived ones do not
Round_ForgetHeads ==
    /\ phase \in Grounding
    /\ iter <= IterCap /\ rounds <= IterCap
    /\ universe' = universe \cup Judged(i, j)
    /\ UNCHANGED <<rules, runs>>

\* One tpStep, within the budgets; its effect on the universe.
Round ==
    /\ phase \in Grounding
    /\ iter <= IterCap /\ rounds <= IterCap
    /\ universe' = universe \cup Derived(i, j) \cup Judged(i, j)
    /\ UNCHANGED <<rules, runs>>

\* phi compares sizes only.
Stable == Cardinality(TpStep(i, j)) = Cardinality(i)

Grow ==
    /\ Round /\ ~Stable
    /\ i' = TpStep(i, j)
    /\ iter' = iter + 1
    /\ UNCHANGED <<phase, j, rounds, trueSet, lastModel>>

\* mutant: the over-estimate is taken for the next lower bound
OverDone_TakeOver ==
    /\ Round /\ Stable /\ phase = "over"
    /\ phase' = "under"
    /\ trueSet' = TpStep(i, j)
    /\ Phi0(trueSet')
    /\ UNCHANGED <<rounds, lastModel>>

\* p1 is complete: compute p2 = phi(p1).
OverDone ==
    /\ Round /\ Stable /\ phase = "over"
    /\ phase' = "under"
    /\ Phi0(TpStep(i, j))
    /\ UNCHANGED <<rounds, trueSet, lastModel>>

\* mutant: the lower bound is not replaced, and the rounds are not counted
NextRound_SameBound ==
    /\ Round /\ Stable /\ phase = "under" /\ TpStep(i, j) # trueSet
    /\ phase' = "over"
    /\ Phi0(trueSet)
    /\ UNCHANGED <<rounds, trueSet, lastModel>>

\* p2 differs from the lower bound: it is the new one.
NextRound ==
    /\ Round /\ Stable /\ phase = "under" /\ TpStep(i, j) # trueSet
    /\ phase' = "over"
    /\ trueSet' = TpStep(i, j)
    /\ Phi0(trueSet')
    /\ rounds' = rounds + 1
    /\ UNCHANGED lastModel

\* mutant: the upper bound is judged against the previous over-estimate
Converged_StaleNegation ==
    /\ Round /\ Stable /\ phase = "under" /\ TpStep(i, j) = trueSet
    /\ phase' = "upper"
    /\ Phi0(j)
    /\ UNCHANGED <<rounds, trueSet, lastModel>>

\* p2 is the lower bound again: compute the upper bound U = phi(true).
Converged ==
    /\ Round /\ Stable /\ phase = "under" /\ TpStep(i, j) = trueSet
    /\ phase' = "upper"
    /\ Phi0(trueSet)
    /\ UNCHANGED <<rounds, trueSet, lastModel>>

\* mutant: the possibly true atoms are reported as false
Model_UpperIsFalse(upper, seen) ==
    [true |-> trueSet, undefined |-> {}, false |-> seen \ trueSet]

\* The three-valued model over the atoms that were seen.
Model(upper, seen) ==
    [true |-> trueSet, undefined |-> (seen \cap upper) \ trueSet,
     false |-> seen \ (trueSet \cup upper)]

\* U is complete: the model is built and the query starts.
Classify ==
    /\ Round /\ Stable /\ phase = "upper"
    /\ phase' = "query"
    /\ lastModel' = Model(TpStep(i, j), universe')
    /\ UNCHANGED <<i, j, iter, rounds, trueSet>>

\* An iteration count passed the cap: Solve returns ErrTablingBudget.
OverBudget ==
    /\ phase \in Grounding
    /\ iter > IterCap \/ rounds > IterCap
    /\ phase' = "idle"
    /\ UNCHANGED <<rules, local, lastModel, runs>>

\* mutant: the interrupted run leaves a model of what it had
Aborted_PartialModel ==
    /\ phase \in Grounding /\ rules # {}
    /\ phase' = "idle"
    /\ lastModel' = Model(i, universe)
    /\ UNCHANGED <<rules, local, runs>>

\* The body of a clause was interrupted or failed hard: so does Solve, and
\* the model of an earlier run stays where it is.
Aborted ==
    /\ phase \in Grounding /\ rules # {}
    /\ phase' = "idle"
    /\ UNCHANGED <<rules, local, lastModel, runs>>

\* The query is over (how it goes is a matter of module Engine).
QueryDone ==
    /\ phase = "query"
    /\ phase' = "idle"
    /\ UNCHANGED <<rules, local, lastModel, runs>>

Terminated == phase = "idle" /\ runs = MaxRuns /\ UNCHANGED vars

Compute == Grow \/ OverDone \/ NextRound \/ Converged \/ Classify \/ OverBudget
Next    == Solve \/ Compute \/ Aborted \/ QueryDone \/ Terminated

\* Solve runs to its end in its caller's goroutine.
Spec == Init /\ [][Next]_vars /\ WF_vars(Compute) /\ WF_vars(QueryDone)

-----------------------------------------------------------------------------
(* What the query sees (answerTabled and negHolds in query mode). *)

\* mutant: \+ holds for whatever is not true
Answer_NotTrueIsFalse(l) ==
    \/ l.op = "pos" /\ l.atom \in lastModel.true
    \/ l.op = "neg" /\ l.atom \notin lastModel.true
    \/ l.op = "naf" /\ l.atom \notin lastModel.true

Answer(l) ==
    \/ l.op = "pos" /\ l.atom \in lastModel.true
    \/ l.op = "neg" /\ l.atom \in lastModel.false
    \/ l.op = "naf" /\ l.atom \notin lastModel.true
-----------------------------------------------------------------------------
(* The operator the alternation is about. *)

\* The rules, with negation judged against J, derive nothing outside S.
Closed(S, J) == \A r \in rules : Derives(r, S, J) => r.head \in S

\* Phi(J): the least set closed under the rules (tabling.go:89-90).
Phi(J) == {a \in Atoms : \A S \in SUBSET Atoms : Closed(S, J) => a \in S}

\* No literal was left to ordinary negation as failure.
NafFree(p) == \A r \in p : \A k \in DOMAIN r.body : r.body[k].op # "naf"

-----------------------------------------------------------------------------
(* Properties. *)

\* The state has the types of the code, and every atom in a derived set was
\* recorded in the universe the model is later read off (tabling.go:29-44).
TypeOK ==
    /\ rules \subseteq Rules
    /\ phase \in {"idle", "query"} \cup Grounding
    /\ i \subseteq Atoms /\ j \subseteq Atoms
    /\ iter \in Nat /\ rounds \in Nat
    /\ universe \subseteq Atoms /\ i \subseteq universe /\ trueSet \subseteq universe
    /\ lastModel = <<>> \/ lastModel \in [{"true", "false", "undefined"} -> SUBSET Atoms]
    /\ runs \in 0 .. MaxRuns

\* phi never overshoots: what it has grown so far is below the least fixpoint
\* it computes, and the judged set is the one the alternation calls for.
GrowsInsidePhi ==
    phase \in Grounding =>
        /\ i \subseteq Phi(j)
        /\ j = IF phase = "under" THEN Phi(trueSet) ELSE trueSet

\* Every candidate for the lower bound is consistent (it lies below the upper
\* bound it induces), the next one extends it, and it lies below every set that
\* the double step maps into itself: an atom enters it only if it is true in
\* every three-valued model (tabling.go:46-66).
LowerBound ==
    phase \in Grounding =>
        /\ trueSet \subseteq Phi(trueSet)
        /\ trueSet \subseteq Phi(Phi(trueSet))
        /\ \A X \in SUBSET Atoms : Phi(Phi(X)) \subseteq X => trueSet \subseteq X
        /\ phase = "upper" => trueSet = Phi(Phi(trueSet))

\* The model on record, of this run or of an earlier one, is the alternating
\* fixpoint: its true atoms are a fixpoint of the double step and below every
\* other, true and undefined atoms together are the upper bound, and what it
\* calls false is outside it (tabling.go:29-34, 65-86).
ModelIsAlternatingFixpoint ==
    lastModel # <<>> =>
        LET T == lastModel.true IN
        /\ Phi(Phi(T)) = T
        /\ \A X \in SUBSET Atoms : Phi(Phi(X)) \subseteq X => T \subseteq X
        /\ T \cup lastModel.undefined = Phi(T)
        /\ T \cap lastModel.undefined = {}
        /\ lastModel.false \cap Phi(T) = {}

\* Both loops end by themselves: each iteration but the last adds an atom, so a
\* program with at most tablingIterCap ground atoms never meets the budget
\* (tabling.go:23-27, 49-51, 94-96).
WithinBudget ==
    phase \in Grounding => iter <= Cardinality(i) /\ rounds <= Cardinality(trueSet)

-----------------------------------------------------------------------------
(* The well-founded model, defined by unfounded sets. *)

\* A partial interpretation: the atoms it calls true and those it calls false.
Interpretations == [t : SUBSET Atoms, f : SUBSET Atoms]

Negative(l)    == l.op # "pos"
LitTrue(l, I)  == l.atom \in (IF Negative(l) THEN I.f ELSE I.t)
LitFalse(l, I) == l.atom \in (IF Negative(l) THEN I.t ELSE I.f)

\* Every rule for an atom of S has a body with a literal that is false in I or
\* a positive one in S.
Unfounded(S, I) ==
    \A r \in rules : r.head \in S =>
        \E k \in DOMAIN r.body : \/ LitFalse(r.body[k], I)
                                 \/ ~Negative(r.body[k]) /\ r.body[k].atom \in S

\* I holds the heads of the bodies that are true in it, and calls false what is
\* unfounded in it.
Saturated(I) ==
    /\ \A r \in rules : (\A k \in DOMAIN r.body : LitTrue(r.body[k], I)) => r.head \in I.t
    /\ \A S \in SUBSET Atoms : Unfounded(S, I) => S \subseteq I.f

\* The well-founded model is the least such interpretation.
WellFounded ==
    LET all == {I \in Interpretations : Saturated(I)}
    IN  [t |-> {x \in Atoms : \A I \in all : x \in I.t},
         f |-> {x \in Atoms : \A I \in all : x \in I.f}]

\* The model on record, of this run or of an earlier one, is the well-founded
\* model of the program, over the atoms it has seen: an atom it never saw is
\* false (tabling.go:9-17, 36-87).
ModelIsWellFounded ==
    lastModel # <<>> =>
        LET W == WellFounded IN
        /\ lastModel.true = W.t
        /\ lastModel.undefined = Atoms \ (W.t \cup W.f)
        /\ lastModel.false \subseteq W.f

\* A query is never told more than the model says: an atom is answered only if
\* it is true, its negation only if it is false, and an undefined atom neither
\* way (tabling.go:14-17, 164-176).
AnswersFollowModel ==
    phase = "query" =>
        LET W == WellFounded IN
        \A x \in Atoms : /\ Answer([op |-> "pos", atom |-> x]) <=> x \in W.t
                         /\ Answer([op |-> "neg", atom |-> x]) => x \in W.f
=============================================================================
