------------------------------- MODULE Builtins -------------------------------
(***************************************************************************)
(* The deterministic builtins (solve.go, builtins.go, meta.go): each takes *)
(* the store and the rename counter and says yes or no or throws.  A       *)
(* builtin that says no may leave bindings behind: it is the clause loop's *)
(* business to undo them.                                                  *)
(*                                                                         *)
(* The arithmetic kernel is another package's: of it only what is/2 and    *)
(* the comparisons need on small numbers is modelled.                      *)
(***************************************************************************)
EXTENDS Unification

CONSTANTS
    NameRank,   \* the place of a name in the order of strings
    Spelling,   \* a text as the sequence of its characters
    CodeOf,     \* the code of a character
    NumberOf    \* the texts that are numbers, with the number

\* A unification gives a new handle on the store, a test keeps the caller's.
Result(res, st, n) == [res |-> res, store |-> st, ct |-> n, ball |-> Nil]
Answer(r, n)       == Result(IF r.ok THEN "unified" ELSE "no", r.store, n)
Test(holds, st, n) == Result(IF holds THEN "holds" ELSE "no", st, n)
Thrown(ball, st, n) == [res |-> "throw", store |-> st, ct |-> n, ball |-> ball]

-----------------------------------------------------------------------------
(* The standard order. *)

Sign(n) == IF n < 0 THEN -1 ELSE IF n > 0 THEN 1 ELSE 0

TypeRank(t) == CASE t.kind = "var"                -> 0
                 [] t.kind \in {"int", "float"}   -> 1
                 [] t.kind = "atom"               -> 2
                 [] t.kind = "compound"           -> 3

IsNumber(t) == t.kind \in {"int", "float"}
Halves(t)   == IF t.kind = "int" THEN 2 * t.val ELSE t.val
FloatFirst_Tie(a, b) == 0
FloatFirst(a, b) == IF a.kind = b.kind THEN 0 ELSE IF a.kind = "float" THEN -1 ELSE 1

\* Different variables are ordered by name too, but the engine's own names have
\* no rank here: they come out unordered.
CompareNames(m, n) ==
    CASE m = n -> 0
      [] m # n /\ {m, n} \subseteq DOMAIN NameRank -> Sign(NameRank[m] - NameRank[n])
      [] OTHER -> 1

RECURSIVE Compare(_, _), CompareArgs(_, _, _)
Compare(a, b) ==
    LET first(c, d) == IF c # 0 THEN c ELSE d
    IN  CASE TypeRank(a) # TypeRank(b) -> Sign(TypeRank(a) - TypeRank(b))
          [] TypeRank(a) = TypeRank(b) /\ IsNumber(a) ->
                first(Sign(Halves(a) - Halves(b)), FloatFirst(a, b))
          [] TypeRank(a) = TypeRank(b) /\ a.kind = "compound" ->
                first(Sign(Len(a.args) - Len(b.args)),
                      first(CompareNames(a.name, b.name), CompareArgs(a.args, b.args, 1)))
          [] OTHER -> CompareNames(a.name, b.name)

CompareArgs(xs, ys, k) ==
    IF k > Len(xs) \/ k > Len(ys) THEN 0
    ELSE LET c == Compare(xs[k], ys[k]) IN IF c # 0 THEN c ELSE CompareArgs(xs, ys, k + 1)

Sorted(ts) == SortSeq(ts, LAMBDA x, y : Compare(x, y) < 0)

\* Sorted, and only the first of equal neighbours kept.
SortDedup(ts) ==
    LET s    == Sorted(ts)
        kept == SelectSeq([i \in DOMAIN s |-> i], LAMBDA i : i = 1 \/ Compare(s[i - 1], s[i]) # 0)
    IN  [k \in DOMAIN kept |-> s[kept[k]]]

Orders == {"==", "\\==", "@<", "@>", "@=<", "@>="}
HoldsOrder(op, c) == CASE op = "=="   -> c = 0
                       [] op = "\\==" -> c # 0
                       [] op = "@<"   -> c < 0
                       [] op = "@>"   -> c > 0
                       [] op = "@=<"  -> c <= 0
                       [] op = "@>="  -> c >= 0

-----------------------------------------------------------------------------
(* Arithmetic: a value, or a ball. *)

Relations == {"=:=", "=\\=", "<", ">", ">=", "=<"}
HoldsRelation(op, c) == CASE op = "=:="   -> c = 0
                          [] op = "=\\=" -> c # 0
                          [] op = "<"     -> c < 0
                          [] op = ">"     -> c > 0
                          [] op = ">="    -> c >= 0
                          [] op = "=<"    -> c <= 0

Value(t)     == [ok |-> TRUE, num |-> t]
Ball(name)   == [ok |-> FALSE, ball |-> AtomTerm(name)]

\* The kernel, on numbers that are not negative where it divides: an integer
\* from integers, otherwise a float.
KernelBinary(op, a, b) ==
    LET ints == a.kind = "int" /\ b.kind = "int"
        sum  == IF op = "+" THEN Halves(a) + Halves(b) ELSE Halves(a) - Halves(b)
    IN  CASE op \in {"+", "-"} -> Value(IF ints THEN IntTerm(sum \div 2) ELSE FloatTerm(sum))
          [] op \in {"//", "mod"} /\ ints /\ b.val = 0 -> Ball("evaluation_error")
          [] op = "//" /\ ints /\ b.val # 0 -> Value(IntTerm(a.val \div b.val))
          [] op = "mod" /\ ints /\ b.val # 0 -> Value(IntTerm(a.val % b.val))
          [] OTHER -> Ball("type_error")
KernelNeg(a)        == [a EXCEPT !.val = -@]
KernelCompare(a, b) == Sign(Halves(a) - Halves(b))

RECURSIVE EvalArith(_)
EvalArith(t) ==
    LET a == EvalArith(t.args[1])
        b == EvalArith(t.args[2])
    IN  CASE IsNumber(t)    -> Value(t)
          [] t.kind = "var" -> Ball("instantiation_error")
          [] t.kind = "compound" /\ Len(t.args) = 1 ->
                CASE ~a.ok                                    -> a
                  [] a.ok /\ t.name = "-"                     -> Value(KernelNeg(a.num))
                  [] a.ok /\ t.name = "abs" /\ a.num.val < 0  -> Value(KernelNeg(a.num))
                  [] a.ok /\ (t.name = "+" \/ (t.name = "abs" /\ a.num.val >= 0)) -> a
                  [] OTHER                                    -> Ball("type_error")
          [] t.kind = "compound" /\ Len(t.args) = 2 ->
                CASE ~a.ok         -> a
                  [] a.ok /\ ~b.ok -> b
                  [] OTHER         -> KernelBinary(t.name, a.num, b.num)
          [] OTHER -> Ball("type_error")

BiIs(x, e, st, n) ==
    LET v == EvalArith(Resolve(e, st))
    IN  IF v.ok THEN Answer(Unify(x, v.num, st), n) ELSE Thrown(v.ball, st, n)

BiRelation(op, x, y, st, n) ==
    LET a == EvalArith(Resolve(x, st))
        b == EvalArith(Resolve(y, st))
    IN  CASE ~a.ok         -> Thrown(a.ball, st, n)
          [] a.ok /\ ~b.ok -> Thrown(b.ball, st, n)
          [] OTHER         -> Test(HoldsRelation(op, KernelCompare(a.num, b.num)), st, n)

-----------------------------------------------------------------------------
(* Structure. *)

NoList == [ok |-> FALSE, items |-> <<>>]
RECURSIVE TermToList(_, _)
TermToList(t, st) ==
    LET u    == Walk(t, st)
        rest == TermToList(u.args[2], st)
    IN  CASE u = Nil       -> [ok |-> TRUE, items |-> <<>>]
          [] Is(u, ".", 2) -> IF rest.ok THEN [ok |-> TRUE, items |-> <<u.args[1]>> \o rest.items] ELSE NoList
          [] OTHER         -> NoList

Fresh(n, k) == [i \in 1 .. k |-> VarTerm("_G" \o ToString(n + i))]

BiFunctor(t, name, arity, st, n) ==
    LET u  == Walk(t, st)
        k  == Walk(arity, st)
        nm == Walk(name, st)
        inspect(v, size) == LET r == Unify(name, v, st)
                            IN  IF r.ok THEN Unify(arity, IntTerm(size), r.store) ELSE r
    IN  CASE u.kind = "compound"            -> Answer(inspect(AtomTerm(u.name), Len(u.args)), n)
          [] u.kind \notin {"compound", "var"} -> Answer(inspect(u, 0), n)
          [] u.kind = "var" /\ k.kind = "int" /\ k.val = 0 -> Answer(Unify(t, nm, st), n)
          [] u.kind = "var" /\ k.kind = "int" /\ k.val > 0 /\ nm.kind = "atom" ->
                Answer(Unify(t, Compound(nm.name, Fresh(n, k.val)), st), n + k.val)
          [] OTHER -> Test(FALSE, st, n)

BiArg(i, cmp, arg, st, n) ==
    LET k == Walk(i, st)
        c == Walk(cmp, st)
    IN  IF k.kind = "int" /\ c.kind = "compound" /\ k.val \in DOMAIN c.args
        THEN Answer(Unify(arg, c.args[k.val], st), n)
        ELSE Test(FALSE, st, n)

BiUniv(t, list, st, n) ==
    LET u     == Walk(t, st)
        elems == TermToList(list, st)
        head  == Walk(elems.items[1], st)
        size  == Len(elems.items)
    IN  CASE u.kind = "compound" -> Answer(Unify(list, List(<<AtomTerm(u.name)>> \o u.args, Nil), st), n)
          [] u.kind \notin {"compound", "var"} -> Answer(Unify(list, List(<<u>>, Nil), st), n)
          [] u.kind = "var" /\ elems.ok /\ size = 1 -> Answer(Unify(t, head, st), n)
          [] u.kind = "var" /\ elems.ok /\ size > 1 /\ head.kind = "atom" ->
                Answer(Unify(t, Compound(head.name, SubSeq(elems.items, 2, size)), st), n)
          [] OTHER -> Test(FALSE, st, n)

BiSort(list, out, dedup, st, n) ==
    LET elems == TermToList(list, st)
        ts    == [i \in DOMAIN elems.items |-> Resolve(elems.items[i], st)]
    IN  IF elems.ok THEN Answer(Unify(out, List(IF dedup THEN SortDedup(ts) ELSE Sorted(ts), Nil), st), n)
        ELSE Test(FALSE, st, n)

TypeTests == {"var", "nonvar", "atom", "atomic", "number", "integer", "float", "compound", "callable",
              "is_list", "ground"}
HoldsType(name, arg, st) ==
    LET t == Walk(arg, st)
    IN  CASE name = "var"      -> t.kind = "var"
          [] name = "nonvar"   -> t.kind # "var"
          [] name = "atom"     -> t.kind = "atom"
          [] name = "integer"  -> t.kind = "int"
          [] name = "float"    -> t.kind = "float"
          [] name = "number"   -> IsNumber(t)
          [] name = "atomic"   -> IsNumber(t) \/ t.kind = "atom"
          [] name = "compound" -> t.kind = "compound"
          [] name = "callable" -> t.kind \in {"atom", "compound"}
          [] name = "is_list"  -> TermToList(t, st).ok
          [] name = "ground"   -> IsGround(Resolve(t, st))

OrderAtom(c) == AtomTerm(CASE c = -1 -> "<" [] c = 0 -> "=" [] c = 1 -> ">")

-----------------------------------------------------------------------------
(* Texts. *)

IsAtomic(t)   == t.kind = "atom" \/ IsNumber(t)
FloatText(t)  == ToString(t.val \div 2) \o (IF t.val % 2 = 0 THEN "" ELSE ".5")
AtomicText(t) == CASE t.kind = "atom"  -> t.name
                   [] t.kind = "int"   -> ToString(t.val)
                   [] t.kind = "float" -> FloatText(t)
TextOf(chars) == CHOOSE text \in DOMAIN Spelling : Spelling[text] = chars

CharTerm(c)  == AtomTerm(c)
CodeTerm(c)  == IntTerm(CodeOf[c])
Element(c, asChars) == IF asChars THEN CharTerm(c) ELSE CodeTerm(c)
CharsOf(ts, asChars) == [i \in DOMAIN ts |-> CHOOSE c \in DOMAIN CodeOf : Element(c, asChars) = ts[i]]

\* atom_chars and atom_codes, and number_codes if the text is to be a number.
\* (The elements of a list are single characters.)
BiAtomText(a, seq, st, n, asChars, asNumber) ==
    LET u     == Walk(a, st)
        elems == TermToList(seq, st)
        ts    == [i \in DOMAIN elems.items |-> Walk(elems.items[i], st)]
        chars == Spelling[AtomicText(u)]
        text  == TextOf(CharsOf(ts, asChars))
    IN  CASE IsAtomic(u) -> Answer(Unify(seq, List([i \in DOMAIN chars |-> Element(chars[i], asChars)], Nil), st), n)
          [] /\ u.kind = "var" /\ elems.ok
             /\ \A i \in DOMAIN ts : ts[i] \in {Element(c, asChars) : c \in DOMAIN CodeOf}
             /\ asNumber => text \in DOMAIN NumberOf ->
                Answer(Unify(a, IF asNumber THEN NumberOf[text] ELSE AtomTerm(text), st), n)
          [] OTHER -> Test(FALSE, st, n)

BiCharCode(ch, code, st, n) ==
    LET c == Walk(ch, st)
        k == Walk(code, st)
    IN  CASE c.kind = "atom" /\ c.name \in DOMAIN CodeOf -> Answer(Unify(code, CodeTerm(c.name), st), n)
          [] c.kind # "atom" /\ k.kind = "int" ->
                Answer(Unify(ch, CharTerm(CHOOSE x \in DOMAIN CodeOf : CodeOf[x] = k.val), st), n)
          [] OTHER -> Test(FALSE, st, n)

BiAtomLength(a, size, st, n) ==
    LET u == Walk(a, st)
    IN  IF IsAtomic(u) THEN Answer(Unify(size, IntTerm(Len(Spelling[AtomicText(u)])), st), n)
        ELSE Test(FALSE, st, n)

-----------------------------------------------------------------------------
(* The switch: the builtins among the goals, and what a call of one does. *)

Indicator(g) == IF g.kind = "compound" THEN <<g.name, Len(g.args)>> ELSE <<g.name, 0>>

TextBuiltins == {"atom_chars", "atom_codes", "number_codes"}

IsDet(g) ==
    \/ g.kind = "compound" /\ Indicator(g) \in
          {<<"=", 2>>, <<"\\=", 2>>, <<"is", 2>>, <<"compare", 3>>, <<"copy_term", 2>>, <<"functor", 3>>,
           <<"arg", 3>>, <<"=..", 2>>, <<"msort", 2>>, <<"sort", 2>>, <<"atom_length", 2>>, <<"char_code", 2>>}
             \cup (TextBuiltins \X {2})
             \cup ((Relations \cup Orders) \X {2}) \cup (TypeTests \X {1})

Det(g, st, n) ==
    LET x == g.args[1]
        y == g.args[2]
        z == g.args[3]
        differ == Unify(x, y, st)
        order(s, t) == Compare(Resolve(s, st), Resolve(t, st))
    IN  CASE g.name = "="         -> Answer(Unify(x, y, st), n)
          [] g.name = "\\="       -> Test(~differ.ok, differ.store, n)
          [] g.name = "is"        -> BiIs(x, y, st, n)
          [] g.name \in Relations -> BiRelation(g.name, x, y, st, n)
          [] g.name \in Orders    -> Test(HoldsOrder(g.name, order(x, y)), st, n)
          [] g.name = "compare"   -> Answer(Unify(x, OrderAtom(order(y, z)), st), n)
          [] g.name = "copy_term" -> Answer(Unify(y, CopyOut(x, st, n + 1), st), n + 1)
          [] g.name = "functor"   -> BiFunctor(x, y, z, st, n)
          [] g.name = "arg"       -> BiArg(x, y, z, st, n)
          [] g.name = "=.."       -> BiUniv(x, y, st, n)
          [] g.name \in {"sort", "msort"} -> BiSort(x, y, g.name = "sort", st, n)
          [] g.name = "atom_length" -> BiAtomLength(x, y, st, n)
          [] g.name = "char_code"   -> BiCharCode(x, y, st, n)
          [] g.name = "atom_chars"  -> BiAtomText(x, y, st, n, TRUE, FALSE)
          [] g.name \in {"atom_codes", "number_codes"} ->
                BiAtomText(x, y, st, n, FALSE, g.name = "number_codes")
          [] g.name \in TypeTests -> Test(HoldsType(g.name, x, st), st, n)

=============================================================================
