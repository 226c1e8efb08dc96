------------------------------ MODULE EngineMC ------------------------------
(***************************************************************************)
(* Model checking of module Engine: every program of a family, run to the  *)
(* end, and compared with what module SLD says its query means.            *)
(***************************************************************************)
EXTENDS Models, FiniteSets

CONSTANTS X, Y,            \* variable names
          a, b, oops,      \* atoms
          NoTerm

MCNames  == {X, Y}
MCConsts == {a, b, oops, PermissionError}

R == INSTANCE SLD

\* Source goals.
true          == [op |-> "true"]
fail          == [op |-> "fail"]
cut           == [op |-> "cut"]
And(g, h)     == [op |-> "and", left |-> g, right |-> h]
Or(g, h)      == [op |-> "or", left |-> g, right |-> h]
If(c, g)      == [op |-> "then", left |-> c, right |-> g]
Ite(c, g, h)  == Or(If(c, g), h)
Not(g)        == [op |-> "not", left |-> g]
Once(g)       == [op |-> "once", left |-> g]
Eq(s, t)      == [op |-> "eq", arg |-> s, arg2 |-> t]
Neq(s, t)     == [op |-> "neq", arg |-> s, arg2 |-> t]
throw(t)      == [op |-> "throw", arg |-> t]
Catch(g, t, r) == [op |-> "catch", left |-> g, arg |-> t, right |-> r]
Findall(t, g, l) == [op |-> "findall", tmpl |-> t, left |-> g, arg |-> l]
p(t)          == [op |-> "call", pred |-> "p", arg |-> t]
q(t)          == [op |-> "call", pred |-> "q", arg |-> t]
r(t)          == [op |-> "call", pred |-> "r", arg |-> t]
s(t)          == [op |-> "call", pred |-> "s", arg |-> t]
Assertz(f, t) == [op |-> "assertz", pred |-> f, arg |-> t]
Asserta(f, t) == [op |-> "asserta", pred |-> f, arg |-> t]
Retract(f, t) == [op |-> "retract", pred |-> f, arg |-> t]

Rule(f, t, body) == [pred |-> f, arg |-> t, body |-> body]

\* Two answers for q, one for r that is q's second.
Facts == <<Fact("q", a), Fact("q", b), Fact("r", b)>>

-----------------------------------------------------------------------------
(* Programs of control: p(X) :- Before, Construct, After.  p(oops).  over the *)
(* facts: every construct between goals that bind, fail, cut and throw, and    *)
(* with those same goals inside it.                                            *)

Simple == {q(X), r(X), cut, fail, Eq(X, a), throw(X)}
Inner  == Simple \cup {And(q(X), cut), And(q(Y), Neq(X, Y))}
Conds  == {q(X), r(X), cut, fail, Neq(X, a), And(Eq(X, a), fail), And(q(X), And(cut, fail))}
Few    == {q(X), r(X), cut, Eq(X, b)}

Constructs ==
    {Or(g, h) : g \in Inner, h \in Simple}
    \cup {If(c, g) : c \in Inner, g \in Few}
    \cup {Ite(c, g, h) : c \in Conds, g \in Few, h \in Few}
    \cup {Not(g) : g \in Inner} \cup {Once(g) : g \in Inner}
    \cup {Catch(g, X, h) : g \in Inner, h \in Few}
    \cup {Findall(X, g, Y) : g \in Inner}

Bodies(before, constructs, after) ==
    {<<g, c, h>> : g \in before, c \in constructs, h \in after}

OneLevel ==
    {Facts \o <<Rule("p", X, body), Fact("p", oops)>> :
        body \in Bodies({true, q(X), q(Y)}, Constructs, {true, r(X), cut, throw(Y)})}

\* The construct one call deeper, with cuts at both levels and constructs
\* around the call: what escapes from s(X) has to pass the loop of s, the
\* construct and the loop of p.
TwoLevelOf(calls) ==
    {Facts \o <<Rule("s", X, <<c, h>>), Fact("s", b), Rule("p", X, <<d, k>>), Fact("p", oops)>> :
        c \in {q(X), Or(q(X), cut), Or(And(q(X), cut), Eq(X, b)), Once(q(X)),
               Ite(r(X), cut, fail), Catch(q(X), X, fail), Or(q(X), throw(b))},
        h \in {true, cut, r(X), throw(X)},
        d \in calls,
        k \in {true, cut, r(X), Once(And(q(X), throw(X))), Catch(throw(a), b, true)}}

TwoLevel ==
    TwoLevelOf({s(X), Or(s(X), r(X)), Once(s(X)), Not(And(s(X), fail)), If(s(X), true),
                Ite(Not(s(X)), true, s(X)), Catch(s(X), Y, q(X)), Findall(X, s(X), Y),
                Catch(And(s(X), r(X)), a, cut)})

\* Recursion that only the depth bound stops, through every construct.
LoopingPrograms ==
    {Facts \o <<Fact("p", a), Rule("p", X, <<g, h>>)>> :
        g \in {p(X), Or(q(X), p(X)), Not(p(Y)), Once(And(fail, p(X))), Ite(p(b), true, true),
               Catch(p(Y), X, true), Findall(X, p(Y), Y), Catch(q(X), Y, true)},
        h \in {true, p(Y), fail}}

InterruptPrograms == TwoLevelOf({s(X), Once(s(X)), Not(And(s(X), fail)), Findall(X, s(X), Y),
                                 Catch(s(X), Y, q(X)), Ite(Not(s(X)), true, s(X))})
                     \cup LoopingPrograms

\* Programs that change q while they enumerate it, and try to change r. They
\* store atoms only: Y, when it is a list of findall, is not asserted.
Changes == {Assertz("q", X), Asserta("q", a), Retract("q", X), Retract("q", b),
            Not(Retract("q", Y)), Catch(Asserta("r", X), X, q(X)),
            Once(And(Retract("q", X), r(X)))}
Afters  == {true, fail, cut, q(X), Retract("q", Y), Assertz("q", X), throw(X)}

DatabasePrograms ==
    {Facts \o <<Rule("p", X, body), Rule("p", X, <<q(X)>>)>> :
        body \in Bodies({Findall(X, q(X), Y)}, Changes, Afters)
                 \cup Bodies({q(X), q(Y), Assertz("q", oops)},
                             Changes \cup {Or(Assertz("q", Y), Retract("q", X))}, Afters)}

ControlPrograms == OneLevel \cup TwoLevel
AllPrograms     == ControlPrograms \cup DatabasePrograms
ControlQueries  == {<<p(X)>>, <<q(Y), p(X)>>}
OneQuery        == {<<p(X)>>}

-----------------------------------------------------------------------------
\* The goals of some programs and their subgoals.
SubGoals(g) ==
    {g} \cup (IF "left" \in DOMAIN g THEN {g.left} ELSE {})
        \cup (IF "right" \in DOMAIN g THEN {g.right} ELSE {})
Close(gs) == UNION {SubGoals(g) : g \in gs}
GoalsOf(ps) == UNION {UNION {{pr[i].body[j] : j \in DOMAIN pr[i].body} : i \in DOMAIN pr} : pr \in ps}

\* Constructs nest three deep at most.
MCGoals(ps) == Close(Close(Close(GoalsOf(ps) \cup {p(X), q(Y)})))
ControlGoals   == MCGoals(ControlPrograms)
InterruptGoals == MCGoals(InterruptPrograms)
AllGoals       == MCGoals(AllPrograms)
MCDynamic      == {"q"}

\* The goals in which no construct but these occurs.
Definite(gs) ==
    {g \in gs : \A h \in Close(Close(Close({g}))) : h.op \in {"true", "fail", "and", "or", "eq", "call"}}
DefiniteControl   == Definite(ControlGoals)
DefiniteInterrupt == Definite(InterruptGoals)
DefiniteAll       == Definite(AllGoals)

-----------------------------------------------------------------------------
(* Properties. *)

Finished == pc = "done"

\* The answers the run collected, in the form of module SLD.
Collected == [i \in 1 .. Len(out) |-> R!Shown(out[i])]
Thrown    == IF ret.err = NoErr THEN <<>> ELSE <<R!Plain(Ball(ret.err))>>

Agrees ==
    LET want == R!Meaning(prog, query)
    IN  IF cap > 0 /\ Len(want.answers) >= cap
        THEN Collected = SubSeq(want.answers, 1, cap) /\ ret.err = NoErr
        ELSE Collected = want.answers /\ Thrown = want.ball

\* A run that ends has collected exactly the answers the program means, in
\* order: the alternatives of every choice point start from the same bindings.
\* unify.go:30-34 says the engine guarantees it ("undoTo(s.mark) before each
\* alternative"); Else after a failed condition is the alternative that does not.
AnswersAlwaysAgree == Finished => Agrees

\* A run that ends by itself has collected exactly the answers the program
\* means, in order, and ends with its ball (solve.go, the whole of solve): no
\* choice point lost to a cut or to the unwinding of a stop, none left in that
\* a cut should have removed, no binding of one alternative seen by the next.
\* Runs in which an Else saw its condition's bindings are the exception; module
\* SLD does not say what programs mean that change themselves.
AnswersAgree == Finished /\ ~leaked /\ prog \notin DatabasePrograms => Agrees

\* A run that the depth bound or the caller cut short has a prefix of the
\* answers and says so; one that reports no such error has them all.
CutOffIsSignalled ==
    Finished /\ ~leaked /\ prog \notin LoopingPrograms =>
        IF ret.err \in {Depth, Interrupt}
        THEN \E n \in 0 .. Len(R!Meaning(prog, query).answers) :
                Collected = SubSeq(R!Meaning(prog, query).answers, 1, n)
        ELSE Agrees

\* Goal g under e, when the facts in F are all that is known of predicates.
RECURSIVE Holds(_, _, _)
Holds(g, e, F) ==
    CASE g.op \in {"and", "then"} -> Holds(g.left, e, F) /\ Holds(g.right, e, F)
      [] g.op \in {"or", "catch"} -> Holds(g.left, e, F) \/ Holds(g.right, e, F)
      [] g.op = "once"             -> Holds(g.left, e, F)
      [] g.op = "eq"               -> ValueIn(g.arg, e) = ValueIn(g.arg2, e)
      [] g.op = "neq"              -> ValueIn(g.arg, e) # ValueIn(g.arg2, e)
      [] g.op \in {"call", "retract"} -> <<g.pred, ValueIn(g.arg, e)>> \in F
      [] OTHER                     -> g.op \notin {"fail", "throw"}

\* What follows from the clauses cs, starting from nothing.
RECURSIVE Consequences(_, _)
Consequences(F, cs) ==
    LET more == UNION {{<<c.pred, ValueIn(c.arg, e)>> :
                          e \in {d \in Envs : \A k \in DOMAIN c.body : Holds(c.body[k], d, F)}} : c \in cs}
    IN  IF more \subseteq F THEN F ELSE Consequences(F \cup more, cs)

\* The answers are compared with the least model.  Over atoms there is none when
\* findall makes lists.
MakesLists(c) == \E g \in Close(Close({c.body[k] : k \in DOMAIN c.body})) : g.op = "findall"
LeastModel(cs) ==
    IF \E c \in cs : MakesLists(c) THEN {}
    ELSE LET F == Consequences({}, cs) IN {{x \in Judgements : Holds(x[1], x[2], F)}}

\* Whatever the program, the depth bound ends the run (solve.go:37-40).
Termination == <>Finished
=============================================================================
