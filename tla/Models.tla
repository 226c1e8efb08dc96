------------------------------- MODULE Models -------------------------------
(***************************************************************************)
(* The declarative reading of a program: a goal under an environment is    *)
(* true or false, with no order, no trail and no call stack.  A model of a *)
(* set of clauses is any set of true pairs <<goal, environment>> that is   *)
(* closed under the clauses, read as implications, and under the meaning   *)
(* of the constructs.  Answers of module Engine are compared with every    *)
(* model: an answer is right when all its instances are true in all of     *)
(* them.                                                                   *)
(*                                                                         *)
(* '!' only removes answers, so it reads as true; so does \+, whose        *)
(* success says that nothing was found and not that something holds; and   *)
(* assert, which changes the program and not the answer.                   *)
(***************************************************************************)
EXTENDS EngineInv

CONSTANTS
    DefiniteGoals,     \* goals of conjunctions, disjunctions, equations and calls only
    Values,            \* what a variable may stand for
    Interpretations(_) \* the interpretations that answers over given clauses
                       \* are compared with, sets of goals with environments

ASSUME DefiniteAssumption ==
    \A g \in DefiniteGoals :
        /\ g \in Goals /\ g.op \in {"true", "fail", "and", "or", "eq", "call"}
        /\ g.op \in {"and", "or"} => g.left \in DefiniteGoals /\ g.right \in DefiniteGoals

Envs == [Names -> Values]

\* A source term under environment e.
ValueIn(t, e) == IF t \in Names THEN e[t] ELSE t

\* What makes goal g true under e, when the pairs of H are and the clauses are cs.
Follows(g, e, H, cs) ==
    \/ g.op \in {"true", "cut", "not", "asserta", "assertz"}
    \/ g.op \in {"and", "then"} /\ <<g.left, e>> \in H /\ <<g.right, e>> \in H
    \/ g.op \in {"or", "catch"} /\ (<<g.left, e>> \in H \/ <<g.right, e>> \in H)
    \/ g.op = "once" /\ <<g.left, e>> \in H
    \/ g.op = "eq"   /\ ValueIn(g.arg, e) = ValueIn(g.arg2, e)
    \/ g.op = "neq"  /\ ValueIn(g.arg, e) # ValueIn(g.arg2, e)
    \/ g.op = "call" /\ \E c \in cs, d \in Envs :
          /\ c.pred = g.pred /\ ValueIn(c.arg, d) = ValueIn(g.arg, e)
          /\ \A k \in DOMAIN c.body : <<c.body[k], d>> \in H
    \/ g.op = "retract" /\ \E c \in cs, d \in Envs :
          c.pred = g.pred /\ c.body = <<>> /\ ValueIn(c.arg, d) = ValueIn(g.arg, e)
    \* Every constant that was collected is the template of a solution.
    \/ g.op = "findall" /\ ValueIn(g.arg, e) \in Lists /\
          LET items == ValueIn(g.arg, e).list
          IN  \A k \in DOMAIN items : items[k] \in Consts =>
                 \E d \in Envs : <<g.left, d>> \in H /\ ValueIn(g.tmpl, d) = items[k]

\* What is true or false: a goal under an environment.
Judgements == Goals \X Envs

IsModel(H, cs) == \A g \in Goals, e \in Envs : Follows(g, e, H, cs) => <<g, e>> \in H

-----------------------------------------------------------------------------
\* The clauses the run could use: those of the program and those it asserted.
Available == {prog[i] : i \in DOMAIN prog}
             \cup {log[i].clause : i \in {j \in DOMAIN log : log[j].op # "retract"}}

\* e is an instance of the answer: it agrees with what is bound, and variables
\* that were left free but shared stand for the same.
InstanceOf(e, answer) ==
    /\ \A n \in Names : answer[n] \notin Vars => e[n] = answer[n]
    /\ \A n, k \in Names : answer[n] = answer[k] => e[n] = e[k]

\* The query is true in H under every instance of every answer.
AnswersIn(H) ==
    \A i \in DOMAIN out : \A e \in Envs :
        InstanceOf(e, out[i]) => \A k \in DOMAIN query : <<query[k], e>> \in H

\* Every answer of a run is a consequence of its program: true, with every
\* instance of it, in every model of the clauses the run could use, whatever
\* was cut, probed, caught, collected, asserted or retracted on the way there
\* and whatever the trail was cut back to in between (solve.go:225-566).
AnswersTrue ==
    pc = "done" /\ ~leaked /\ out # <<>> =>
        \A H \in Interpretations(Available) : AnswersIn(H) \/ ~IsModel(H, Available)
-----------------------------------------------------------------------------
\* The other direction.  In an interpretation that the clauses support, what is
\* true is true for a reason: it follows from what is true.
IsSupported(H, cs) ==
    \A g \in DefiniteGoals, e \in Envs : <<g, e>> \in H => Follows(g, e, H, cs)

\* A run of a definite query over a definite program.
DefiniteRun ==
    /\ \A i \in DOMAIN prog : \A k \in DOMAIN prog[i].body : prog[i].body[k] \in DefiniteGoals
    /\ \A k \in DOMAIN query : query[k] \in DefiniteGoals

Found(e) == \E i \in DOMAIN out : InstanceOf(e, out[i])

\* Every environment that makes the query true in H is an instance of an answer.
SolutionsIn(H) ==
    \A e \in Envs : (\A k \in DOMAIN query : <<query[k], e>> \in H) => Found(e)

\* A run of a definite program that ends by itself has found every solution:
\* what makes the query true in an interpretation that the program supports is
\* an instance of an answer.  No clause, branch or binding of the search is
\* lost; and a query that fails is false in every such interpretation, which is
\* what \+ takes its failure for (solve.go:225-237, 333-340, 448-482).
SolutionsFound ==
    pc = "done" /\ DefiniteRun /\ ret.err = NoErr /\ (cap = 0 \/ Len(out) < cap) =>
        \A H \in Interpretations(Available) : SolutionsIn(H) \/ ~IsSupported(H, Available)
=============================================================================
