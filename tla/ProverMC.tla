------------------------------ MODULE ProverMC ------------------------------
(***************************************************************************)
(* Model checking of module Prover: queries over the library, the builtins *)
(* and small programs of facts, their answers compared with what the       *)
(* predicates mean.  The meaning is given for ground goals, without        *)
(* unification: an answer stands for its ground instances.                 *)
(***************************************************************************)
EXTENDS Prover, FiniteSets

MCNames    == <<"*", "-", ".", "<", "=", ">", "X", "Y", "Z", "[]", "a", "ab", "b", "c", "f", "g">>
MCNameRank == [n \in {MCNames[i] : i \in DOMAIN MCNames} |-> CHOOSE i \in DOMAIN MCNames : MCNames[i] = n]
MCCodeOf   == "1" :> 49 @@ "2" :> 50 @@ "a" :> 97 @@ "b" :> 98
MCSpelling == "a" :> <<"a">> @@ "b" :> <<"b">> @@ "ab" :> <<"a", "b">> @@ "1" :> <<"1">> @@ "2" :> <<"2">>
              @@ "12" :> <<"1", "2">>
MCNumberOf == "1" :> IntTerm(1) @@ "2" :> IntTerm(2) @@ "12" :> IntTerm(12)

TX == VarTerm("X")
TY == VarTerm("Y")
TZ == VarTerm("Z")
Ta == AtomTerm("a")
Tb == AtomTerm("b")
Tc == AtomTerm("c")
T0 == IntTerm(0)
T1 == IntTerm(1)
T2 == IntTerm(2)
F(x)    == Compound("f", <<x>>)
FF(x, y) == Compound("f", <<x, y>>)
G(x)    == Compound("g", <<x>>)
L(s)    == List(s, Nil)
P(x, y) == Compound("p", <<x, y>>)
Call1(f, x)       == Compound(f, <<x>>)
Call2(f, x, y)    == Compound(f, <<x, y>>)
Call3(f, x, y, z) == Compound(f, <<x, y, z>>)
Fact(h) == [head |-> h, body |-> <<>>]

-----------------------------------------------------------------------------
(* Queries. *)

\* Over the library and the builtins, all of whose ground instances are answered.
Enumerated ==
    {Call3("append", TX, TY, L(<<Ta, Tb>>)), Call3("append", L(<<Ta>>), TX, TY),
     Call3("append", L(<<TX>>), TY, L(<<Ta, Tb>>)),
     Call2("member", TX, L(<<Ta, TY, Ta>>)), Call2("member", TX, Cell(Ta, Tb)),
     Call2("reverse", L(<<Ta, TX>>), TY), Call2("last", L(<<Ta, TX>>), TY),
     Call2("length", TX, T2), Call2("length", L(<<Ta, TY>>), TX), Call2("length", Cell(Ta, TX), T1),
     Call3("nth0", TX, L(<<Ta, Tb, Ta>>), TY), Call3("nth0", T1, TX, Ta), Call3("nth1", T1, L(<<Ta, Tb>>), TX),
     Call3("nth1", TX, L(<<TY, Tb>>), Tb), Call3("select", TX, L(<<Ta, Tb, Ta>>), TY),
     Call3("select", Ta, TX, L(<<Tb>>)), Call3("between", T0, T2, TX), Call3("between", T2, T1, TX),
     Call3("functor", FF(Ta, TY), TX, TZ), Call3("functor", TX, AtomTerm("f"), T2), Call3("functor", TX, Ta, T0),
     Call3("arg", T1, FF(TX, Tb), TY), Call3("arg", T0, F(Ta), TX), Call3("arg", T2, F(Ta), TX),
     Call2("=..", FF(TX, Tb), TY), Call2("=..", TX, L(<<AtomTerm("f"), TY>>)), Call2("=..", Ta, TX),
     Call2("sort", L(<<Tb, T1, FloatTerm(2), F(Ta), Tb, Ta>>), TX),
     Call2("msort", L(<<Tb, FF(Ta, Ta), G(Ta), Nil, Tb>>), TX),
     Call3("compare", TX, FloatTerm(2), T1), Call3("compare", TX, FF(Ta, Tb), FF(Ta, T1)),
     Call2("is", TX, Call2("+", T1, Call2("mod", T2, T2))), Call2("is", TX, Call1("abs", Call1("-", T2))),
     Call2("atom_length", IntTerm(12), TX), Call2("atom_chars", TX, L(<<Ta, Tb>>)),
     Call2("atom_chars", IntTerm(12), TX), Call2("atom_codes", AtomTerm("ab"), TX),
     Call2("number_codes", TX, L(<<IntTerm(49), IntTerm(50)>>)), Call2("number_codes", TX, L(<<IntTerm(97)>>)),
     Call2("char_code", TX, IntTerm(98)), Call2("char_code", Ta, TX)}

\* ... in every mode that ends
Patterns == {TX, TY, Ta, F(TX), F(TY), G(TX), FF(TX, TY), FF(TY, Ta), FF(F(TX), TY), L(<<TX, TY>>), Cell(Ta, TX)}
Elements == {Ta, Tb, T1, FloatTerm(2), Nil, G(Tb), FF(Ta, Ta)}
Modes ==
    {Call2("=", s, t) : s \in Patterns, t \in Patterns}
        \cup {Call3("append", x, y, z) : x \in {TX, Nil, L(<<Ta>>), L(<<TY>>), Cell(Ta, TY)},
                                        y \in {TX, TY, L(<<Tb>>), L(<<TX>>)},
                                        z \in {Nil, L(<<Ta>>), L(<<Ta, Tb>>), L(<<TY, Tb>>), L(<<Ta, Tb, Ta>>)}}
        \cup {Call3("select", x, y, z) : x \in {TX, Ta, F(TY)}, y \in {L(<<Ta, Tb, Ta>>), L(<<TY, Tb>>), L(<<TY, TX>>)},
                                        z \in {TX, TY, L(<<Ta, Tb>>), L(<<TY>>)}}
        \cup {Call2(f, L(<<x, y, z>>), TX) : f \in {"sort", "msort"}, x \in Elements, y \in Elements, z \in Elements}

\* ... conjunctions of them
Conjunctions ==
    {<<Call2("=", TX, F(TX))>>, <<Call2("=", TX, F(TY)), Call2("=", TY, G(TX))>>,
     <<Call2("=", FF(TX, TY), FF(F(TY), Ta))>>, <<Call2("=", FF(TX, F(TX)), FF(TY, TY))>>,
     <<Call2("=", TX, TY), Call2("member", TY, L(<<Ta, F(TX), Tb>>))>>,
     <<Call2("member", TX, L(<<Ta, Tb>>)), Call2("member", TY, L(<<Tb, TX>>)), Call2("@<", TX, TY)>>,
     <<Call3("append", TX, TY, L(<<Ta, Tb>>)), Call2("\\==", TX, Nil), Call2("\\=", TY, Nil)>>,
     <<Call3("between", T0, T2, TX), Compound(",", <<Call2("is", TY, Call2("-", T2, TX)), Call2("=<", TX, TY)>>)>>,
     <<Call2("member", TX, L(<<Ta, F(Ta), T1, Nil>>)), Call1("atomic", TX), Call1("callable", TX)>>,
     <<Call2("member", TX, L(<<Ta, L(<<Ta>>), T1>>)), Call1("is_list", TX), Call1("ground", TX)>>,
     <<AtomTerm("!"), Call2("=", TX, Ta), AtomTerm("true")>>, <<Call2("=", TX, Ta), AtomTerm("fail")>>}

\* ... and those that are cut off, or leave instances out, or throw.
Partial ==
    {<<Call2("length", TX, TY)>>, <<Call3("append", TX, L(<<Ta>>), TY)>>,
     <<Call3("nth0", TX, TY, Ta)>>, <<Call2("memberchk", TX, L(<<Ta, Tb>>))>>,
     <<Call2("member", TX, L(<<T1, T0>>)), Call2("is", TY, Call2("//", T2, TX))>>,
     <<Call3("between", T0, TX, TY)>>, <<Call2("<", Ta, T1)>>}

\* A program of facts, which redefines last/2.
Facts == <<Fact(P(Ta, T2)), Fact(P(Tb, T1)), Fact(P(Ta, T1)), Fact(P(Ta, T2)), Fact(P(TX, T0)),
           Fact(P(TX, T2)), Fact(Call2("last", L(<<Ta, Tb>>), Ta))>>
FactGoals == {<<P(TX, TY)>>, <<P(Ta, TX), P(TY, TX)>>, <<Call2("last", L(<<TX, Tb>>), TY)>>,
              <<Call2("memberchk", Ta, L(<<Tb, Ta>>)), P(TX, T0), P(TY, T0)>>}

Conc(x, y) == Call2("-", x, y)
Ex(v, g)   == Call2("^", v, g)
CollectGoals ==
    {<<Call3("findall", Conc(TX, TY), P(TX, TY), TZ)>>, <<Call3("findall", TX, P(TX, Tc), TZ)>>,
     <<Call3("findall", FF(TX, TY), Call2("member", TX, L(<<Ta, TY, G(TY)>>)), TZ)>>,
     <<Call3("bagof", TX, P(TX, TY), TZ)>>, <<Call3("bagof", TY, P(TX, TY), TZ)>>,
     <<Call3("bagof", TX, Ex(TY, P(TX, TY)), TZ)>>, <<Call3("bagof", TX, P(TX, Tc), TZ)>>,
     <<Call3("setof", TX, P(TX, TY), TZ)>>, <<Call3("setof", Tc, Ex(TX, P(TX, TY)), TZ)>>,
     <<Call3("setof", Tc, Call2("member", P(TX, TY), L(<<P(Ta, T2), P(Tb, T1), P(Ta, T1), P(Ta, T2)>>)), TZ)>>,
     <<Call3("bagof", TX, P(TX, TY), TZ), Call2("member", TY, L(<<T2, T0>>))>>,
     <<Call3("setof", TX, P(TX, TY), TZ), Call2("memberchk", TY, L(<<T0, T2>>))>>,
     <<Call3("setof", TX, P(TX, TY), L(<<TZ, Tb>>))>>}
CopyGoals == {<<Call2("copy_term", FF(TX, FF(TY, TX)), TZ)>>, <<Call2("copy_term", FF(TX, TX), FF(Ta, TZ))>>}

Query(program, goals, cap, use) == [program |-> program, goals |-> goals, cap |-> cap, use |-> use]
MCQueries ==
    {Query(<<>>, <<g>>, 0, "all") : g \in Enumerated \cup Modes}
        \cup {Query(<<>>, gs, 0, "all") : gs \in Conjunctions}
        \cup {Query(<<>>, gs, 2, "some") : gs \in Partial}
        \cup {Query(<<>>, <<Call2("reverse", TX, L(<<Ta, Tb>>))>>, 1, "some")}
        \cup {Query(<<>>, <<Call3("findall", TX, Call2("is", TX, Ta), TY)>>, 0, "throw")}
        \cup {Query(Facts, gs, 0, "all") : gs \in FactGoals}
        \cup {Query(Facts, gs, c, "collect") : gs \in CollectGoals, c \in {0, 1}}
        \cup {Query(<<>>, gs, 0, "copy") : gs \in CopyGoals}

-----------------------------------------------------------------------------
(* What ground goals mean. *)

\* The substitutions that make p into t, whose own variables count as constants:
\* none or one.
RECURSIVE Matches(_, _)
Matches(p, t) ==
    CASE p.kind = "var" -> {p.name :> t}
      [] p.kind = "compound" ->
            IF ~Is(t, p.name, Len(p.args)) THEN {}
            ELSE LET parts == [i \in DOMAIN p.args |-> Matches(p.args[i], t.args[i])]
                     agree(m, n) == \A v \in DOMAIN m \cap DOMAIN n : m[v] = n[v]
                     all   == UNION {parts[i] : i \in DOMAIN parts}
                 IN  IF (\E i \in DOMAIN parts : parts[i] = {}) \/ (\E m, n \in all : ~agree(m, n)) THEN {}
                     ELSE {[v \in UNION {DOMAIN m : m \in all} |->
                               (CHOOSE m \in all : v \in DOMAIN m)[v]]}
      [] OTHER -> IF p = t THEN {<<>>} ELSE {}

IsInstance(t, p) == Matches(p, t) # {}
Alike(s, t)      == IsInstance(s, t) /\ IsInstance(t, s)

\* The elements of a chain of list cells, and what ends it.
RECURSIVE Items(_), End(_)
Items(t) == IF Is(t, ".", 2) THEN <<t.args[1]>> \o Items(t.args[2]) ELSE <<>>
End(t)   == IF Is(t, ".", 2) THEN End(t.args[2]) ELSE t
Proper(t) == End(t) = Nil

Ascending(ts) == \A i, j \in DOMAIN ts : i < j => Compare(ts[i], ts[j]) < 0
InOrder(ts)   == \A i, j \in DOMAIN ts : i < j => Compare(ts[i], ts[j]) <= 0
Times(x, ts)  == Cardinality({i \in DOMAIN ts : ts[i] = x})
Spell(t, element(_)) == L([i \in DOMAIN Spelling[AtomicText(t)] |-> element(Spelling[AtomicText(t)][i])])
Printable(t)  == IsAtomic(t) /\ AtomicText(t) \in DOMAIN Spelling
Count(holds)  == IF holds THEN 1 ELSE 0

\* In how many ways a ground goal is proved.
RECURSIVE Ways(_)
Ways(g) ==
    LET x == g.args[1]
        y == g.args[2]
        z == g.args[3]
        nth(from) == x.kind = "int" /\ x.val - from + 1 \in DOMAIN Items(y) /\ Items(y)[x.val - from + 1] = z
        name(t)   == IF t.kind = "compound" THEN AtomTerm(t.name) ELSE t
        args(t)   == IF t.kind = "compound" THEN t.args ELSE <<>>
    IN  CASE g.kind = "atom"      -> Count(g.name # "fail")
          [] g.name \in {query.program[i].head.name : i \in DOMAIN query.program} ->
                Cardinality({i \in DOMAIN query.program : IsInstance(g, query.program[i].head)})
          [] g.name = "="         -> Count(x = y)
          [] g.name = "\\="       -> Count(x # y)
          [] g.name = "append"    -> Count(Proper(x) /\ z = List(Items(x), y))
          [] g.name = "member"    -> Times(x, Items(y))
          [] g.name = "memberchk" -> Count(Times(x, Items(y)) > 0)
          [] g.name = "reverse"   -> Count(Proper(x) /\ y = L(Reverse(Items(x))))
          [] g.name = "last"      -> Count(Proper(x) /\ x # Nil /\ y = Last(Items(x)))
          [] g.name = "length"    -> Count(Proper(x) /\ y = IntTerm(Len(Items(x))))
          [] g.name = "nth0"      -> Count(nth(0))
          [] g.name = "nth1"      -> Count(nth(1))
          [] g.name = "select"    -> Cardinality({i \in DOMAIN Items(y) :
                                        Items(y)[i] = x /\ z = List(RemoveAt(Items(y), i), End(y))})
          [] g.name = "between"   -> Count(y.kind = "int" /\ z.kind = "int" /\ x.val <= z.val /\ z.val <= y.val)
          [] g.name = "functor"   -> Count(y = name(x) /\ z = IntTerm(Len(args(x))))
          [] g.name = "arg"       -> Count(x.val \in DOMAIN args(y) /\ args(y)[x.val] = z)
          [] g.name = "=.."       -> Count(y = L(<<name(x)>> \o args(x)))
          [] g.name = "sort"      -> Count(Proper(y) /\ Ascending(Items(y))
                                           /\ ToSet(Items(x)) = ToSet(Items(y)))
          [] g.name = "msort"     -> Count(Proper(y) /\ InOrder(Items(y))
                                           /\ \A t \in ToSet(Items(x) \o Items(y)) :
                                                 Times(t, Items(x)) = Times(t, Items(y)))
          [] g.name = "atom_length" -> Count(y = IntTerm(Len(Spelling[AtomicText(x)])))
          [] g.name = "atom_chars"  -> Count(Printable(x) /\ y = Spell(x, CharTerm))
          [] g.name \in {"atom_codes", "number_codes"} ->
                Count(Printable(x) /\ y = Spell(x, CodeTerm) /\ (g.name = "number_codes" => IsNumber(x)))
          [] g.name = "char_code" -> Count(x.kind = "atom" /\ x.name \in DOMAIN CodeOf /\ y = CodeTerm(x.name))
          [] g.name = "is"        -> Count(EvalArith(y).ok /\ EvalArith(y).num = x)
          [] g.name = ","         -> Ways(x) * Ways(y)
          [] OTHER                -> Count(Det(g, EmptyStore, 0).res \in {"holds", "unified"})

RECURSIVE WaysOfAll(_)
WaysOfAll(gs) == IF gs = <<>> THEN 1 ELSE Ways(Head(gs)) * WaysOfAll(Tail(gs))

\* What the variables of a query are replaced with: the terms queries are about...
Universe == {Ta, Tb, T0, T1, T2, Nil, F(Ta), F(Tb), FF(Ta, Tb), G(Ta), G(F(Ta)), F(G(Ta)), AtomTerm("f"), AtomTerm("<"),
             AtomTerm("ab"), IntTerm(97), IntTerm(12), Cell(Ta, Tb), FloatTerm(2),
             L(<<Ta>>), L(<<Tb>>), L(<<Ta, Tb>>), L(<<Tb, Ta>>), L(<<Ta, Ta>>), L(<<Ta, Tb, Ta>>),
             L(<<Tb, Tb>>), L(<<AtomTerm("f"), Ta>>), L(<<AtomTerm("f"), Ta, Tb>>),
             L(<<T1, T2>>), L(<<AtomTerm("1"), AtomTerm("2")>>), L(<<IntTerm(97), IntTerm(98)>>),
             L(<<FloatTerm(2), T1, Ta, Tb, F(Ta)>>), L(<<T1, Ta, Tb, F(Ta)>>), L(<<FloatTerm(2), T1, Ta, Tb, Tb, F(Ta)>>),
             L(<<Nil, Tb, Tb, G(Ta), FF(Ta, Ta)>>), L(<<Nil, Tb, G(Ta), FF(Ta, Ta)>>)}

\* ... and what was answered.
Samples == Universe \cup {t \in UNION {{out[k][v] : v \in QueryVars} : k \in DOMAIN out} : IsGround(t)}

Ended   == pc = "done"
Vs      == SetToSeq(QueryVars)
Row(m)  == L([i \in DOMAIN Vs |-> m[Vs[i]]])

\* Every ground instance of the query is an instance of as many answers as it has
\* proofs, and of none if it has none: answers are sound, and complete unless
\* they are cut off (solve.go:186-191 and the modes of prelude.go:5-12).
AnswersAreTheInstances ==
    Ended /\ query.use \in {"all", "some"} =>
        \A m \in [QueryVars -> Samples] :
            LET answers == Cardinality({k \in DOMAIN out : IsInstance(Row(m), Row(out[k]))})
                ways    == WaysOfAll([i \in DOMAIN query.goals |-> Replace(query.goals[i], m)])
            IN  IF query.use = "all" THEN ret.err = <<>> /\ answers = ways ELSE answers <= ways

-----------------------------------------------------------------------------
(* The store. *)

\* What each binding of the store reaches in one step.
Reaches == [v \in DOMAIN store.map |-> VarsOf(store.map[v]) \cap DOMAIN store.map]

\* The variables from which one never gets out of vs.
RECURSIVE Knots(_)
Knots(vs) == LET left == {v \in vs : Reaches[v] \cap vs # {}} IN IF left = vs THEN vs ELSE Knots(left)

\* The trail lists every bound variable once, a call starts with the handle it
\* was given at the end of the trail, and no variable is bound to a term it
\* occurs in, however many bindings away (unify.go:28-37, 77-81): undoing to a
\* mark is all that backtracking has to do, and walk and Resolve come to an end.
StoreSound ==
    /\ DOMAIN store.map = ToSet(store.trail)
    /\ Cardinality(DOMAIN store.map) = Mark(store)
    /\ pc = "call" => call.mark = Mark(store)
    /\ Knots(DOMAIN store.map) = {}

-----------------------------------------------------------------------------
(* Collecting. *)

Collects == query.use = "collect" /\ pc = "done"
Kind     == query.goals[1].name
Template == query.goals[1].args[1]
RECURSIVE Inner(_), Quantified(_)
Inner(g)      == IF Is(g, "^", 2) THEN Inner(g.args[2]) ELSE g
Quantified(g) == IF Is(g, "^", 2) THEN VarsOf(g.args[1]) \cup Quantified(g.args[2]) ELSE {}
Wanted   == Inner(query.goals[1].args[2])
FreeVars == IF Kind = "findall" THEN {}
            ELSE VarsOf(Wanted) \ (VarsOf(Template) \cup Quantified(query.goals[1].args[2]))

\* The elements member/2 or the facts give the goal, in order, each a substitution
\* of the goal's variables.
Found ==
    LET heads == IF Wanted.name = "member"
                 THEN [i \in DOMAIN Items(Wanted.args[2]) |->
                          Call2("member", Items(Wanted.args[2])[i], Wanted.args[2])]
                 ELSE [i \in DOMAIN query.program |-> query.program[i].head]
        hits  == SelectSeq(heads, LAMBDA h : IsInstance(h, Wanted))
    IN  [k \in DOMAIN hits |-> CHOOSE m \in Matches(Wanted, hits[k]) : TRUE]

Key(k)    == [v \in FreeVars |-> Found[k][v]]
KeyList(k) == L([i \in DOMAIN SetToSeq(FreeVars) |-> Key(k)[SetToSeq(FreeVars)[i]]])
Together(j, k) == j = k \/ (IsGround(KeyList(k)) /\ Key(j) = Key(k))
Indices   == [k \in DOMAIN Found |-> k]
Leaders   == SelectSeq(Indices, LAMBDA k : \A j \in 1 .. k - 1 : ~Together(j, k))

AlikeSeq(ss, ts) == Len(ss) = Len(ts) /\ \A i \in DOMAIN ss : Alike(ss[i], ts[i])

\* What is collected with solution k.
Group(k) ==
    LET members == SelectSeq(Indices, LAMBDA j : Kind = "findall" \/ Together(j, k))
        items   == [i \in DOMAIN members |-> Replace(Template, Found[members[i]])]
    IN  IF Kind = "setof" THEN SetToSortSeq(ToSet(items), LAMBDA t, u : Compare(t, u) < 0) ELSE items

\* The solutions whose groups are answers, in the order of the answers.
Expected ==
    LET keys == CASE Kind = "findall" -> <<0>>
                  [] Kind = "bagof"   -> Leaders
                  [] Kind = "setof"   -> SortSeq(Leaders, LAMBDA j, k : Compare(KeyList(j), KeyList(k)) < 0)
    IN  SelectSeq(keys, LAMBDA k : /\ IsInstance(L(Group(k)), query.goals[1].args[3])
                                   /\ \A g \in ToSet(Tail(query.goals)) : Ways(Replace(g, Key(k))) > 0)

\* findall gives one answer, whether anything is found or not; bagof and setof one
\* for each value of the free variables, and none if nothing is found; a solution
\* that leaves a free variable open is a group of its own.  Nothing that happens
\* after one group is seen by the next (meta.go:130-252).
CollectsAllSolutions ==
    Collects =>
        /\ Len(out) = IF query.cap > 0 /\ Len(Expected) > query.cap THEN query.cap ELSE Len(Expected)
        /\ \A i \in DOMAIN out :
              /\ AlikeSeq(Items(Replace(query.goals[1].args[3], out[i])), Group(Expected[i]))
              /\ \A v \in FreeVars : Alike(out[i][v], Key(Expected[i])[v])

\* The variables of the goals that are still to run, and of the query.
LiveVars ==
    LET vars_(gs) == UNION {VarsOf(gs[i]) : i \in DOMAIN gs}
    IN  QueryVars \cup DOMAIN store.map \cup vars_(call.goals) \cup UNION {vars_(stack[i].rest) : i \in DOMAIN stack}

\* A term that was copied out shares no variable with the running proof or with
\* another copy, so that no later step can bind one (meta.go:103-110, 133-135).
CopiesAreFresh ==
    /\ \A f \in ToSet(stack) : f.kind \in Collectors =>
          \A i, j \in DOMAIN f.items :
              /\ VarsOf(f.items[i]) \cap LiveVars = {}
              /\ i # j => VarsOf(f.items[i]) \cap VarsOf(f.items[j]) = {}
    /\ query.use = "copy" /\ Ended =>
          LET t == Replace(query.goals[1].args[1], out[1])
              c == Replace(query.goals[1].args[2], out[1])
          IN  Len(out) = 1 /\ IsInstance(c, t) /\ VarsOf(c) \cap QueryVars = {}

=============================================================================
