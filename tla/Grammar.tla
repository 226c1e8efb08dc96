------------------------------- MODULE Grammar -------------------------------
(***************************************************************************)
(* What a text means, without a parser: the terms a sequence of tokens     *)
(* derives, by the ways it splits.  The operator table is the reader's.    *)
(*                                                                         *)
(* A derivation is a term, its priority (0 unless it ends up as an infix   *)
(* operator's term), and the operators its right edge claims: `\+ a = b`   *)
(* is `\+ (a = b)`, because a prefix operator's operand extends as far as  *)
(* its priority allows.                                                    *)
(***************************************************************************)
EXTENDS Reader

Derivation(t, p, claims) == [term |-> t, prec |-> p, claims |-> claims]
Simple(t) == {Derivation(t, 0, {})}

Before(w, k)  == SubSeq(w, 1, k - 1)
Beyond(w, k)  == SubSeq(w, k + 1, Len(w))
Inside(w, k)  == SubSeq(w, k + 1, Len(w) - 1)      \* after token k, without the last

RECURSIVE Derive(_), ArgSeqs(_), ItemLists(_)

UpTo(w, max) == {d \in Derive(w) : d.prec <= max}

Name(w)        == AtomName[w[1]]
IsAtom(w)      == w # <<>> /\ Kind(w[1]) = "atom"
IsCall(w)      == IsAtom(w) /\ Len(w) > 2 /\ w[2] = "(" /\ w[Len(w)] = ")"
IsBracketed(w, open, close) == Len(w) > 1 /\ w[1] = open /\ w[Len(w)] = close
OpensPrefix(w) ==
    /\ Len(w) > 1
    /\ \/ Kind(w[1]) = "op" /\ w[1] \in PrefixOps
       \/ IsAtom(w) /\ Name(w) \in PrefixOps /\ StartsTerm(w[2]) /\ w[2] # "("

\* A prefix operator's name used as an atom cannot stand before a term.
Constants(w) ==
    IF Len(w) # 1 THEN {}
    ELSE CASE Kind(w[1]) = "int"   -> Simple(IntTerm(IntOf[w[1]]))
           [] Kind(w[1]) = "float" -> Simple(FloatTerm(FloatOf[w[1]]))
           [] Kind(w[1]) = "var"   -> Simple(VarTerm(w[1]))
           [] Kind(w[1]) = "atom"  ->
                 {Derivation(AtomTerm(Name(w)), 0,
                             IF Name(w) \in PrefixOps THEN {x \in InfixOps : StartsTerm(x)} ELSE {})}
           [] OTHER                -> {}

Negatives(w) ==
    IF Len(w) # 2 \/ (w # <<>> /\ w[1] # "-") THEN {}
    ELSE CASE Kind(w[2]) = "int"   -> Simple(IntTerm(-IntOf[w[2]]))
           [] Kind(w[2]) = "float" -> Simple(FloatTerm(-FloatOf[w[2]]))
           [] OTHER                -> {}

CallTerms(w) ==
    IF ~IsCall(w) THEN {}
    ELSE {Derivation(Compound(Name(w), args), 0, {}) :
             args \in IF Inside(w, 2) = <<>> THEN {<<>>} ELSE ArgSeqs(Inside(w, 2))}

Groups(w) ==
    IF ~IsBracketed(w, "(", ")") THEN {}
    ELSE {Derivation(d.term, 0, {}) : d \in UpTo(Inside(w, 1), 1200)}

Lists(w) ==
    IF ~IsBracketed(w, "[", "]") THEN {}
    ELSE IF Len(w) = 2 THEN Simple(Nil)
    ELSE {Derivation(l, 0, {}) : l \in ItemLists(Inside(w, 1))}

PrefixTerms(w) ==
    IF ~OpensPrefix(w) THEN {}
    ELSE LET op == IF IsAtom(w) THEN Name(w) ELSE w[1]
         IN  {Derivation(Compound(op, <<d.term>>), 0,
                         d.claims \cup {x \in InfixOps : Prec(x) <= PrefixMax(op)}) :
                 d \in UpTo(Beyond(w, 1), PrefixMax(op))}

InfixAt(w, k) ==
    LET op == AsInfix(w[k])
    IN  IF op \notin InfixOps THEN {}
        ELSE {Derivation(Compound(op, <<l.term, r.term>>), Prec(op), r.claims) :
                 l \in {d \in UpTo(Before(w, k), IF op \in RightAssoc THEN Prec(op) - 1 ELSE Prec(op)) :
                           op \notin d.claims},
                 r \in UpTo(Beyond(w, k), RightMax(op))}

Derive(w) ==
    Constants(w) \cup Negatives(w) \cup CallTerms(w) \cup Groups(w) \cup Lists(w) \cup PrefixTerms(w)
    \cup UNION {InfixAt(w, k) : k \in 2 .. Len(w) - 1}

\* Arguments: the commas no argument claims separate them.
Separated(w, k, x) == {d \in UpTo(Before(w, k), 999) : w[k] = x /\ (x = "|" \/ "," \notin d.claims)}

ArgSeqs(w) ==
    {<<d.term>> : d \in UpTo(w, 999)}
    \cup UNION {{<<d.term>> \o rest : d \in Separated(w, k, ","), rest \in ArgSeqs(Beyond(w, k))} :
                   k \in 2 .. Len(w) - 1}

ItemLists(w) ==
    {List(<<d.term>>, Nil) : d \in UpTo(w, 999)}
    \cup UNION {{Cell(d.term, rest) : d \in Separated(w, k, ","), rest \in ItemLists(Beyond(w, k))} :
                   k \in 2 .. Len(w) - 1}
    \cup UNION {{Cell(d.term, e.term) : d \in Separated(w, k, "|"), e \in UpTo(Beyond(w, k), 999)} :
                   k \in 2 .. Len(w) - 1}

\* The terms a text between two full stops means: none if it is malformed.
Readings(w) == {d.term : d \in UpTo(w, 1200)}

=============================================================================
