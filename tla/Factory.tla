------------------------------- MODULE Factory -------------------------------
(***************************************************************************)
(* A tool call (factory.go): the goal's text and the program's text in,    *)
(* one row per answer out.  The reader and the projection to facts         *)
(* (facts.go) are modelled in full; of Solve only what it hands over is:   *)
(* substitutions of the goal's variables that are resolved, so that a      *)
(* variable occurring in an answer is free, and maps to itself if it is    *)
(* one of the goal's.                                                      *)
(***************************************************************************)
EXTENDS Writer

CONSTANTS Calls,      \* [program, goal]: the texts of the calls
          Values,     \* the terms answers are made of
          MaxAnswers  \* how many answers a query has at most

ASSUME CallsAssumption == \A c \in Calls : DOMAIN c = {"program", "goal"}

VARIABLES pc,         \* "goal", "program", "instantiate" or "returned"
          text,       \* the goal's text
          goal,       \* the goal
          sols,       \* Solve's answers
          atoms,      \* the answers instantiated so far
          inst,       \* the term Resolve is working on
          turn,       \* the iterations of walk's loop, modulo 2
          rows        \* what the call returns

callVars == <<pc, text, goal, sols, atoms, inst, turn, rows>>
vars     == <<readerVars, callVars>>

Solutions(vs) == {sol \in [vs -> Values] : \A v, u \in vs : u \in VarsOf(sol[v]) => sol[u] = VarTerm(u)}

Init ==
    \E c \in Calls :
        /\ ReaderInit(c.program)
        /\ text = c.goal
        /\ pc = "goal"
        /\ goal = Nil /\ inst = Nil
        /\ sols = <<>> /\ atoms = <<>> /\ rows = <<>>
        /\ turn = 0

\* No goal, or one that does not parse, ends the call.
ParseGoal ==
    /\ pc = "goal"
    /\ \E r \in {IF text = <<>> THEN Error(1) ELSE ParseTerm(text)} :
          IF r.ok THEN pc' = "program" /\ goal' = r.term
                  ELSE pc' = "returned" /\ goal' = goal
    /\ UNCHANGED <<readerVars, text, sols, atoms, inst, turn, rows>>

ParseProgram ==
    /\ pc = "program"
    /\ ReaderNext
    /\ UNCHANGED callVars

Solve ==
    /\ pc = "program" /\ ended
    /\ \E all \in {Solutions(VarsOf(goal))}, n \in 0 .. MaxAnswers : sols' \in [1 .. n -> all]
    /\ pc' = "instantiate"
    /\ inst' = goal
    /\ UNCHANGED <<readerVars, text, goal, atoms, turn, rows>>

SolveFails ==
    /\ pc = "program" /\ ended
    /\ pc' = "returned"
    /\ UNCHANGED <<readerVars, text, goal, sols, atoms, inst, turn, rows>>

-----------------------------------------------------------------------------
(* Instantiate binds every variable of the answer to its value and resolves  *)
(* the goal.                                                                 *)

Bound_Top(t, sol) == IF t.kind = "var" THEN {t.name} \cap DOMAIN sol ELSE {}
Bound(t, sol) == VarsOf(t) \cap DOMAIN sol

Walk_Stay ==
    /\ pc = "instantiate" /\ Len(atoms) < Len(sols)
    /\ Bound(inst, sols[Len(atoms) + 1]) # {}
    /\ turn' = 1 - turn
    /\ UNCHANGED <<readerVars, pc, text, goal, sols, atoms, inst, rows>>

\* One turn of walk's loop, for one of the bound variables.
Walk ==
    LET k == Len(atoms) + 1
        v == CHOOSE n \in Bound(inst, sols[k]) : TRUE
    IN  /\ pc = "instantiate" /\ k <= Len(sols)
        /\ Bound(inst, sols[k]) # {}
        /\ inst' = Replace(inst, [n \in {v} |-> sols[k][v]])
        /\ turn' = 1 - turn
        /\ UNCHANGED <<readerVars, pc, text, goal, sols, atoms, rows>>

Resolved ==
    LET k == Len(atoms) + 1
    IN  /\ pc = "instantiate" /\ k <= Len(sols)
        /\ Bound(inst, sols[k]) = {}
        /\ atoms' = Append(atoms, inst)
        /\ inst' = goal
        /\ UNCHANGED <<readerVars, pc, text, goal, sols, turn, rows>>

-----------------------------------------------------------------------------
(* AtomFacts. *)

Scalar(t) == IF t.kind = "atom" THEN t.name ELSE Key(t)
Args(t)   == IF t.kind = "compound" THEN t.args ELSE <<>>
Scalars(t) == [i \in DOMAIN Args(t) |-> Scalar(Args(t)[i])]
AtomKey(t) == FoldLeft(LAMBDA key, v : key \o "|" \o v, t.name, Scalars(t))

Row(t) ==
    CASE Args(t) = <<>>     -> [record |-> t.name, attribute |-> "holds", value |-> <<>>]
      [] Len(Args(t)) = 1   -> [record |-> Scalars(t)[1], attribute |-> t.name, value |-> <<>>]
      [] OTHER              -> [record |-> AtomKey(t), attribute |-> t.name, value |-> Scalars(t)]

\* What is neither an atom nor a compound is left out (with a diagnostic that
\* the call drops).
AtomFacts(ts) ==
    LET facts == SelectSeq(ts, LAMBDA t : t.kind \in {"atom", "compound"})
    IN  [i \in DOMAIN facts |-> Row(facts[i])]

Return ==
    /\ pc = "instantiate" /\ Len(atoms) = Len(sols)
    /\ rows' = AtomFacts(atoms)
    /\ pc' = "returned"
    /\ UNCHANGED <<readerVars, text, goal, sols, atoms, inst, turn>>

Terminated == pc = "returned" /\ UNCHANGED vars

Step == ParseGoal \/ ParseProgram \/ Solve \/ SolveFails \/ Walk \/ Resolved \/ Return
Next == Step \/ Terminated

\* The call runs on one goroutine that nothing suspends.
Spec == Init /\ [][Next]_vars /\ WF_vars(Step)

=============================================================================
