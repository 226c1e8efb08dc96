-------------------------------- MODULE Terms --------------------------------
(***************************************************************************)
(* Prolog terms (term.go): variables, atoms, integers, floats and          *)
(* compounds; a list is a chain of compounds with functor "." ending in    *)
(* the atom "[]".  Floats are counted in halves, which is enough to have a *)
(* float that is a whole number and one that is not.                       *)
(***************************************************************************)
EXTENDS Integers, Sequences, SequencesExt

VarTerm(n)        == [kind |-> "var", name |-> n]
AtomTerm(n)       == [kind |-> "atom", name |-> n]
IntTerm(n)        == [kind |-> "int", val |-> n]
FloatTerm(halves) == [kind |-> "float", val |-> halves]
Compound(f, args) == [kind |-> "compound", name |-> f, args |-> args]

Is(t, f, n) == t.kind = "compound" /\ t.name = f /\ Len(t.args) = n

Nil           == AtomTerm("[]")
Cell(h, t)    == Compound(".", <<h, t>>)
List(items, tail) == FoldRight(Cell, items, tail)

\* The names of the variables in t.
RECURSIVE VarsOf(_)
VarsOf(t) ==
    CASE t.kind = "var"      -> {t.name}
      [] t.kind = "compound" -> UNION {VarsOf(t.args[i]) : i \in DOMAIN t.args}
      [] OTHER               -> {}

IsGround(t) == VarsOf(t) = {}

\* The term and every term below it.
RECURSIVE SubTerms(_)
SubTerms(t) ==
    {t} \cup IF t.kind = "compound" THEN UNION {SubTerms(t.args[i]) : i \in DOMAIN t.args} ELSE {}

\* Every variable in the domain of the function replaced, all at once.
RECURSIVE Replace(_, _)
Replace(t, by) ==
    CASE t.kind = "var" /\ t.name \in DOMAIN by -> by[t.name]
      [] t.kind = "compound"                    ->
            Compound(t.name, [i \in DOMAIN t.args |-> Replace(t.args[i], by)])
      [] OTHER                                  -> t

=============================================================================
