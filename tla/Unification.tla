----------------------------- MODULE Unification -----------------------------
(***************************************************************************)
(* The trail store and unification on compound terms (unify.go), and the   *)
(* renaming of clauses and of copied terms.  A store is the map and the    *)
(* trail of bindStore; module Engine has the backing array of the trail,   *)
(* which matters only for a mark beyond its length.                        *)
(***************************************************************************)
EXTENDS Terms, TLC

EmptyStore == [map |-> <<>>, trail |-> <<>>]

Bind(st, n, t) == [map |-> (n :> t) @@ st.map, trail |-> Append(st.trail, n)]
Mark(st)       == Len(st.trail)

UndoTo_Last(st, mark) ==
    IF Mark(st) = mark THEN st
    ELSE [map   |-> Restrict(st.map, DOMAIN st.map \ {st.trail[Mark(st)]}),
          trail |-> SubSeq(st.trail, 1, mark)]
UndoTo(st, mark) ==
    [map   |-> Restrict(st.map, DOMAIN st.map \ {st.trail[i] : i \in mark + 1 .. Mark(st)}),
     trail |-> SubSeq(st.trail, 1, mark)]

RECURSIVE Walk(_, _), Resolve(_, _), Occurs(_, _, _)

Walk(t, st) == IF t.kind = "var" /\ t.name \in DOMAIN st.map THEN Walk(st.map[t.name], st) ELSE t

Resolve(t, st) ==
    LET u == Walk(t, st)
    IN  IF u.kind = "compound"
        THEN Compound(u.name, [i \in DOMAIN u.args |-> Resolve(u.args[i], st)])
        ELSE u

Occurs_Top(n, t, st) == Walk(t, st) = VarTerm(n)
Occurs(n, t, st) ==
    LET u == Walk(t, st)
    IN  \/ u = VarTerm(n)
        \/ u.kind = "compound" /\ \E i \in DOMAIN u.args : Occurs(n, u.args[i], st)

Yes(st) == [ok |-> TRUE, store |-> st]
No(st)  == [ok |-> FALSE, store |-> st]

RECURSIVE UnifyStep(_, _, _), UnifyArgs(_, _, _, _)

BindVar(n, t, st) == IF Occurs(n, t, st) THEN No(st) ELSE Yes(Bind(st, n, t))

UnifyStep(s, t, st) ==
    LET a == Walk(s, st)
        b == Walk(t, st)
        isVar(u)  == u.kind = "var"
        alike == a.kind = "compound" /\ Is(b, a.name, Len(a.args))
    IN  CASE isVar(a) /\ a = b        -> Yes(st)
          [] isVar(a) /\ a # b        -> BindVar(a.name, b, st)
          [] ~isVar(a) /\ isVar(b)    -> BindVar(b.name, a, st)
          [] ~isVar(a) /\ alike       -> UnifyArgs(a.args, b.args, 1, st)
          [] OTHER                    -> [ok |-> a = b, store |-> st]

\* The arguments from the k-th on, left to right, up to one that fails.
UnifyArgs(xs, ys, k, st) ==
    IF k > Len(xs) THEN Yes(st)
    ELSE LET r == UnifyStep(xs[k], ys[k], st)
         IN  IF r.ok THEN UnifyArgs(xs, ys, k + 1, r.store) ELSE r

\* A failed unification leaves the store as it was.
Unify(a, b, st) ==
    LET r == UnifyStep(a, b, st)
    IN  IF r.ok THEN r ELSE No(UndoTo(r.store, Mark(st)))

-----------------------------------------------------------------------------
(* Fresh names: the n-th renaming of a run marks every variable with n. *)

Renamed(t, mark, n) == Replace(t, [v \in VarsOf(t) |-> VarTerm(v \o mark \o ToString(n))])

\* rename, for one term of a clause.
Rename(t, n) == Renamed(t, "#", n)

\* copyOut: the free variables that remain are new ones.
CopyOut_Shared(t, st, n) == Resolve(t, st)
CopyOut(t, st, n) == Renamed(Resolve(t, st), "~", n)

=============================================================================
