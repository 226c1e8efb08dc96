--------------------------------- MODULE SLD ---------------------------------
(***************************************************************************)
(* What a Prolog program means, as the answers of a query in order: no     *)
(* trail, no handles, no barriers, no call stack.  Substitutions are       *)
(* values, a goal denotes the sequence of its answer substitutions, and a  *)
(* cut or a ball is a flag on the end of that sequence.  The answers are   *)
(* those the comments of solve.go promise: depth-first, clauses in order,  *)
(* '!' local to its clause, \+ binds nothing, once and the condition of -> *)
(* stop at the first answer, catch covers its goal and not the             *)
(* continuation.  Only databases that do not change are described.         *)
(*                                                                         *)
(* Goals and terms have the shape they have in module Engine.              *)
(***************************************************************************)
EXTENDS Naturals, Sequences

CONSTANTS Names,   \* variable names
          Consts,  \* atoms
          NoTerm   \* shown in place of a variable the machine invented

\* A substitution: its bindings, fully applied to each other, and the number
\* of the last activation whose variables it mentions.
Empty == [to |-> <<>>, n |-> 0]

IsVar(t) == t \in [var : Names, act : Nat]
TermOf(t, a) == IF t \in Names THEN [var |-> t, act |-> a] ELSE t

Apply(t, s) == IF IsVar(t) /\ t \in DOMAIN s.to THEN s.to[t] ELSE t

Compose(s, v, t) ==
    [s EXCEPT !.to = [u \in DOMAIN s.to \cup {v} |->
                        IF u = v \/ s.to[u] = v THEN t ELSE s.to[u]]]

\* The substitutions, none or one, that make t and u equal in the most general way.
Mgu(t, u, s) ==
    LET x == Apply(t, s)
        y == Apply(u, s)
    IN  IF x = y THEN <<s>>
        ELSE IF IsVar(x) THEN <<Compose(s, x, y)>>
        ELSE IF IsVar(y) THEN <<Compose(s, y, x)>>
        ELSE <<>>

Answers(sols, cut, ball) == [sols |-> sols, cut |-> cut, ball |-> ball]
None   == Answers(<<>>, FALSE, <<>>)
One(s) == Answers(<<s>>, FALSE, <<>>)
Of(ss) == Answers(ss, FALSE, <<>>)
Then(ss, r)  == [r EXCEPT !.sols = ss \o @]
Ends(r)      == r.cut \/ r.ball # <<>>
OpaqueCut(r) == [r EXCEPT !.cut = FALSE]

\* A goal in activation a; `bound' when a '!' in it cuts a clause.
At(g, a, bound) == [g |-> g, act |-> a, bound |-> bound]

RECURSIVE Goal(_, _, _), Body(_, _, _), ForEach(_, _, _), FromClause(_, _, _, _)

Body(p, gs, s) ==
    IF gs = <<>> THEN One(s) ELSE ForEach(p, Goal(p, Head(gs), s), Tail(gs))

\* The continuation gs run on the answers r, until it cuts or throws.
ForEach(p, r, gs) ==
    IF r.sols = <<>> THEN r
    ELSE LET q == Body(p, gs, Head(r.sols))
         IN  IF Ends(q) THEN q
             ELSE Then(q.sols, ForEach(p, [r EXCEPT !.sols = Tail(@)], gs))

\* A call t of predicate pr, from clause i on.
FromClause(p, i, c, s) ==
    IF i > Len(p) THEN None
    ELSE IF p[i].pred # c.g.pred THEN FromClause(p, i + 1, c, s)
    ELSE LET n == s.n + 1
             u == Mgu(TermOf(c.g.arg, c.act), TermOf(p[i].arg, n), [s EXCEPT !.n = n])
             bd == [k \in DOMAIN p[i].body |-> At(p[i].body[k], n, TRUE)]
             r == IF u = <<>> THEN None ELSE Body(p, bd, u[1])
         IN  IF Ends(r) THEN OpaqueCut(r) ELSE Then(r.sols, FromClause(p, i + 1, c, s))

\* The answers of one goal.  A probe (\+, once, the condition of ->) never sees
\* a ball that comes after its first answer.
Goal(p, c, s) ==
    LET g      == c.g
        arg    == TermOf(g.arg, c.act)
        sub(h) == At(h, c.act, c.bound)
        inner  == Goal(p, At(g.left, c.act, FALSE), s)
        ite    == g.op = "or" /\ g.left.op = "then"
        test   == Goal(p, sub(IF ite THEN g.left.left ELSE g.left), s)
        then   == IF ite THEN g.left.right ELSE g.right
        lost(r) == r.sols = <<>> /\ r.ball # <<>>
        copy(t, u, n) == LET x == Apply(t, u) IN IF IsVar(x) THEN [x EXCEPT !.act = n] ELSE x
    IN
    CASE g.op = "true"  -> One(s)
      [] g.op = "fail"  -> None
      [] g.op = "cut"   -> Answers(<<s>>, c.bound, <<>>)
      [] g.op = "and"   -> Body(p, <<sub(g.left), sub(g.right)>>, s)
      [] g.op = "or" /\ ~ite ->
            LET r == Goal(p, sub(g.left), s)
            IN  IF Ends(r) THEN r ELSE Then(r.sols, Goal(p, sub(g.right), s))
      [] g.op = "then" \/ ite ->
            IF lost(test) THEN OpaqueCut(test)
            ELSE IF test.sols # <<>> THEN Goal(p, sub(then), test.sols[1])
            ELSE IF ite THEN Goal(p, sub(g.right), s) ELSE None
      [] g.op = "not"   -> IF lost(inner) THEN inner ELSE IF inner.sols = <<>> THEN One(s) ELSE None
      [] g.op = "once"  -> IF inner.sols # <<>> THEN One(Head(inner.sols)) ELSE OpaqueCut(inner)
      [] g.op = "eq"    -> Of(Mgu(arg, TermOf(g.arg2, c.act), s))
      [] g.op = "neq"   -> IF Mgu(arg, TermOf(g.arg2, c.act), s) = <<>> THEN One(s) ELSE None
      [] g.op = "throw" -> Answers(<<>>, FALSE, <<copy(arg, s, s.n + 1), s.n + 1>>)
      [] g.op = "catch" ->
            IF inner.ball = <<>> THEN inner
            ELSE LET u == Mgu(arg, inner.ball[1], [s EXCEPT !.n = inner.ball[2]])
                 IN  IF u = <<>> THEN inner
                     ELSE Then(inner.sols, Goal(p, At(g.right, c.act, FALSE), u[1]))
      [] g.op = "findall" ->
            IF inner.ball # <<>> THEN [inner EXCEPT !.sols = <<>>]
            ELSE LET k     == Len(inner.sols)
                     items == [i \in 1 .. k |-> copy(TermOf(g.tmpl, c.act), inner.sols[i], s.n + i)]
                 IN  Of(Mgu(arg, [list |-> items], [s EXCEPT !.n = s.n + k]))
      [] g.op = "call"  -> FromClause(p, 1, c, s)

-----------------------------------------------------------------------------
\* A term without the names the machine invented.
Plain(t) == IF t \in Consts THEN t
            ELSE IF IsVar(t) THEN NoTerm
            ELSE [list |-> [i \in DOMAIN t.list |-> IF IsVar(t.list[i]) THEN NoTerm ELSE t.list[i]]]

\* An answer likewise; query variables that share an unbound value say so.
Shown(ans) ==
    [v \in Names |-> IF IsVar(ans[v]) THEN [shared |-> {w \in Names : ans[w] = ans[v]}]
                     ELSE Plain(ans[v])]

\* All the answers of query q over program p, and the ball that ended them.
Meaning(p, q) ==
    LET r == Body(p, [i \in 1 .. Len(q) |-> At(q[i], 0, FALSE)], Empty)
    IN  [answers |-> [i \in 1 .. Len(r.sols) |->
                        Shown([v \in Names |-> Apply([var |-> v, act |-> 0], r.sols[i])])],
         ball    |-> IF r.ball = <<>> THEN <<>> ELSE <<Plain(r.ball[1])>>]
=============================================================================
