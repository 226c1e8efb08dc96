----------------------------- MODULE TablingMC -----------------------------
(***************************************************************************)
(* Model checking of module Tabling, on families of small ground programs. *)
(***************************************************************************)
EXTENDS Tabling

CONSTANTS a, b, c

ABC == {a, b, c}
AB  == {a, b}

Lit(o, x)   == [op |-> o, atom |-> x]
Rule(h, bd) == [head |-> h, body |-> bd]

\* The bodies of at most n literals over the atoms A and the literal kinds ops.
Bodies(A, ops, n) ==
    UNION {[1 .. k -> {Lit(o, x) : o \in ops, x \in A}] : k \in 0 .. n}

\* Every atom x of the domain of max has at most max[x] rules (two or fewer),
\* with bodies in bodies.
RulesEach(max, bodies) ==
    LET few     == {{}} \cup {{x, y} : x \in bodies, y \in bodies}
        choices == {f \in [DOMAIN max -> few] : \A x \in DOMAIN max : Cardinality(f[x]) <= max[x]}
    IN  {UNION {{Rule(x, bd) : bd \in f[x]} : x \in DOMAIN max} : f \in choices}

OneRuleEach(A)  == [x \in A |-> 1]
TwoRulesEach(A) == [x \in A |-> 2]
TwoRulesFor(x)  == [y \in ABC |-> IF y = x THEN 2 ELSE 1]

\* The game of every graph over A: a position is won that has a move to a
\* position that is not.
Games(A) == {{Rule(e[1], <<Lit("neg", e[2])>>) : e \in E} : E \in SUBSET (A \X A)}

\* A chain, whose growth takes as many rounds as it has atoms.
Chain == {Rule(a, <<>>), Rule(b, <<Lit("pos", a)>>), Rule(c, <<Lit("pos", b)>>)}

Plain         == {"pos", "neg"}
PlainPrograms == RulesEach(OneRuleEach(AB), Bodies(AB, Plain, 2))
                     \cup RulesEach(TwoRulesEach(AB), Bodies(AB, Plain, 1))
                     \cup RulesEach(TwoRulesFor(a), Bodies(ABC, Plain, 1))
                     \cup Games(ABC)
FewPrograms   == RulesEach(TwoRulesEach(AB), Bodies(AB, Plain, 1)) \cup {Chain}
NafPrograms   == RulesEach(OneRuleEach(AB), Bodies(AB, Plain \cup {"naf"}, 1))

-----------------------------------------------------------------------------
(* Properties. *)

\* A query is told all of the model: the negation of a false atom holds
\* (tabling.go:164-176).
FalseAtomsAreRefuted ==
    phase = "query" => \A x \in WellFounded.f : Answer(Lit("neg", x))

\* Grounding ends.
GroundingEnds == phase \in Grounding ~> phase \notin Grounding
=============================================================================
