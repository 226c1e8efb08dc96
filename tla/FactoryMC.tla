------------------------------ MODULE FactoryMC ------------------------------
(***************************************************************************)
(* Model checking of module Factory: every tool call of a family, its      *)
(* program read by the reader and compared with what module Grammar says   *)
(* its sentences mean, its answers followed to the rows returned.          *)
(***************************************************************************)
EXTENDS Factory, Grammar, FiniteSets

\* The lexemes.  '+' and 'X' are quoted atoms.
MCAtomName == [x \in {"a", "p", "nl", "write", "is", "dynamic"} |-> x] @@ ("'+'" :> "+") @@ ("'X'" :> "X")
MCVarNames == {"X", "Y", "_", "Z"}
MCIntOf    == "1" :> 1 @@ "2" :> 2 @@ "0" :> 0
MCFloatOf  == "1.0" :> 2 @@ "1.5" :> 3

\* A text with layout between all its lexemes, and one with none between two
\* symbols.
Spaced(w) == [i \in 1 .. 2 * Len(w) |-> IF i % 2 = 1 THEN Layout ELSE w[i \div 2]]
Tight(w)  ==
    LET glued(i) == i > 1 /\ i % 2 = 1 /\ Runs(w[i \div 2]) /\ Runs(w[i \div 2 + 1])
        kept     == SelectSeq([i \in 1 .. 2 * Len(w) |-> i], LAMBDA i : ~glued(i))
    IN  [k \in DOMAIN kept |-> Spaced(w)[kept[k]]]

-----------------------------------------------------------------------------
(* Programs: well-formed sentences, the first of them with an edit that may  *)
(* break it, and short texts of any lexemes.                                 *)

LastTwo   == <<"p", "(", "a", ")", ".", "p", "(", "1.0", ")", ".">>
Sentences == {<<"p", "(", "X", ")", ":-", "\\+", "p", "(", "1", ",", "_", ")", ",", "nl", ".">>,
              <<"p", "(", "[", "X", "|", "_", "]", ",", "X", ")", ".">>,
              <<"p", ":-", "X", "is", "1", "-", "1", "-", "-", "1.5", ",", "write", "(", "X", ")", ".">>,
              <<":-", "dynamic", "p", "/", "1", ",", "a", "/", "2", ".">>,
              <<"p", "(", "(", "a", ",", "X", ")", ",", "[", "a", "=", "1.0", "]", ")", ".">>}
Alphabet  == {"a", "dynamic", "X", "1", "(", ")", "[", "]", ",", "|", ".", "-", "\\+", "'+'"}

Edits(w) ==
    {w} \cup {RemoveAt(w, k) : k \in DOMAIN w}
        \cup {[w EXCEPT ![k] = x] : k \in DOMAIN w, x \in Alphabet}
        \cup {InsertAt(w, k, x) : k \in DOMAIN w, x \in Alphabet}

\* p((\+ (a, X), a)).   p((a :- X), 1 * (1 - X)).   p((1 ^ X) ^ a, X - (1 - X)).
ManyBrackets == <<"p", "(", "(", "\\+", "(", "a", ",", "X", ")", ",", "a", ")", ")", ".",
                  "p", "(", "(", "a", ":-", "X", ")", ",", "1", "*", "(", "1", "-", "X", ")", ")", ".",
                  "p", "(", "(", "1", "^", "X", ")", "^", "a", ",", "X", "-", "(", "1", "-", "X", ")", ")", ".">>

EditedPrograms == {w \o LastTwo : w \in UNION {Edits(s) : s \in Sentences}
                                     \cup UNION {[1 .. n -> Alphabet] : n \in 0 .. 3}}

\* Goals whose answers are followed to the rows, and two that are refused.
Goals == {<<"p", "(", "X", ")">>, <<"p", "(", "X", ",", "p", "(", "X", ",", "Y", ")", ")">>,
          <<"1">>, <<>>, <<"p", "(">>}

EditCalls   == {[program |-> w, goal |-> <<"a">>] :
                   w \in {Spaced(w) : w \in EditedPrograms} \cup {Tight(w) : w \in EditedPrograms}
                           \cup {Spaced(ManyBrackets)}}

\* A body that breaks off before the full stop; a list with a bracketed element.
BrokenCalls == {[program |-> Spaced(<<"p", ":-", "p", "(", "X", ")", ",", ".">> \o LastTwo), goal |-> <<"a">>]}
ListCalls   == {[program |-> Spaced(<<"p", "(", "[", "(", "a", ",", "X", ")", "]", ")", ".">>), goal |-> <<"a">>]}
AnswerCalls == {[program |-> <<>>, goal |-> Spaced(g)] : g \in Goals}
MCCalls     == EditCalls \cup AnswerCalls

MCValues == {AtomTerm("a"), AtomTerm("X"), IntTerm(1), FloatTerm(3), VarTerm("X"), VarTerm("Y"), VarTerm("Z"),
             Compound("p", <<VarTerm("Y")>>), List(<<AtomTerm("a"), VarTerm("X")>>, Nil)}

-----------------------------------------------------------------------------
(* Sentences: what lies between two full stops. *)

Stops       == {j \in DOMAIN source : source[j] = "."}
Starts      == {1} \cup {j + 1 : j \in Stops}
StopOf(i)   == CHOOSE j \in Stops : j >= i /\ \A k \in Stops : k >= i => j <= k
Complete(i) == \E j \in Stops : j >= i
Words(i)    == SubSeq(source, i, StopOf(i) - 1)
MeaningAt(i) == IF Complete(i) THEN Readings(Words(i)) ELSE {}
WellFormed(i) == MeaningAt(i) # {}

ReadAll == pc = "program" /\ ended
Read    == SelectSeq(spans, LAMBDA s : s.kind = "clause")

\* A clause as one term.
Joined(c) ==
    IF c.body = <<>> THEN c.head
    ELSE LET n == Len(c.body)
         IN  Compound(":-", <<c.head, FoldRight(LAMBDA g, t : Compound(",", <<g, t>>),
                                                SubSeq(c.body, 1, n - 1), c.body[n])>>)

\* Wherever the reader starts on a sentence it takes exactly that sentence, as
\* the one term the operator table gives it, and reports a syntax error if and
\* only if there is none (reader.go, the whole parser).
ReaderFollowsGrammar ==
    ReadAll =>
        /\ \A k \in DOMAIN spans :
              LET s == spans[k]
              IN  /\ s.kind # "error" <=> WellFormed(s.from)
                  /\ s.kind # "error"  => s.to = StopOf(s.from)
        /\ Len(clauses) = Len(Read)
        /\ \A k \in DOMAIN clauses : {Joined(clauses[k])} = MeaningAt(Read[k].from)

\* The words end in the arguments of a call that is not closed.
OpenCall(w) ==
    \E k \in 1 .. Len(w) - 2 : /\ Kind(w[k]) = "atom" /\ AsInfix(w[k]) \notin InfixOps
                               /\ w[k + 1] = "(" /\ ArgSeqs(Beyond(w, k + 1)) # {}

\* Recovery stops at the end of a sentence that ends where a separator of a
\* call's arguments is due: the full stop is handed back to resync, and the next
\* clause is read (reader.go:286-291).
UnclosedCallCostsOneClause ==
    ReadAll =>
        \A k \in DOMAIN spans :
            LET s == spans[k]
            IN  s.kind = "error" /\ Complete(s.from) /\ OpenCall(Words(s.from)) => s.to = StopOf(s.from)

\* A syntax error costs the offending clause only: the reader starts on every
\* well-formed sentence (reader.go:57-63, "on the offending clause so a whole
\* file still yields its runnable clauses"; README.md:33).
OnlyOffendersAreLost ==
    ReadAll => \A i \in Starts : WellFormed(i) => \E k \in DOMAIN spans : spans[k].from = i

\* Each turn of Parse's loop but the last moves on in the text (reader.go:67-81,
\* 352-359).
ReaderAdvances == [][pc = "program" /\ pc' = "program" => ended' \/ pos' > pos]_vars

-----------------------------------------------------------------------------
(* Reading back. *)

Written == UNION {SubTerms(t) : t \in IF ReadAll THEN {Joined(clauses[k]) : k \in DOMAIN clauses}
                                                  ELSE Range(atoms)}
IsReadAs(lexemes, t) == LET r == ParseTerm(lexemes) IN r.ok /\ r.term = t

\* Infix operators and \+ over calls, variables, integers and floats with a
\* fraction, with no symbolic or prefix operator for a name.
RECURSIVE OperatorTerm(_)
OperatorTerm(t) ==
    LET plain == Kind(t.name) # "op" /\ t.name \notin PrefixOps
    IN  CASE t.kind \in {"var", "int"} -> TRUE
          [] t.kind = "float"          -> t.val % 2 = 1
          [] t.kind = "atom"           -> plain
          [] t.kind = "compound"       ->
                /\ \/ Len(t.args) = 2 /\ t.name \in InfixOps
                   \/ Is(t, "\\+", 1)
                   \/ plain /\ t.name # "."
                /\ \A k \in DOMAIN t.args : OperatorTerm(t.args[k])

\* The writer leaves out only brackets the reader does without: operators of
\* every priority, on either side of each other and as arguments, keep their
\* operands once the lexemes are told apart (term.go:86-108).
BracketsSuffice ==
    \A t \in Written : OperatorTerm(t) => IsReadAs(Spaced(String(t)), t)

\* Every term is read back as what it is: the notation is "canonical,
\* read-back-correct" (term.go:74-77).  Tables (tabling.go:125) and facts
\* (facts.go:77) know terms by what is written.
ReadsBack == \A t \in Written : IsReadAs(String(t), t)

-----------------------------------------------------------------------------
(* Answers. *)

\* An answer that leaves a variable of the goal free, or equal to another.
FreeAnswer ==
    pc = "instantiate" /\ \E k \in DOMAIN sols : \E v \in DOMAIN sols[k] : VarsOf(sols[k][v]) \cap DOMAIN sols[k] # {}

\* One row per answer, in order, each of the goal with all its variables replaced
\* at once: going through the bindings one variable at a time (facts.go:94-100)
\* gives the same (factory.go:21-23).
RowsAnswer ==
    pc = "returned" /\ goal.kind \in {"atom", "compound"} =>
        /\ Len(rows) = Len(sols)
        /\ \A k \in DOMAIN sols :
              LET args == Args(Replace(goal, sols[k]))
              IN  CASE Len(args) = 0 -> rows[k].record = goal.name
                    [] Len(args) = 1 -> rows[k].attribute = goal.name /\ rows[k].record = Scalar(args[1])
                    [] OTHER         -> rows[k].attribute = goal.name
                                        /\ rows[k].value = [i \in DOMAIN args |-> Scalar(args[i])]

\* Every call returns unless an answer leaves a variable of the goal free.
CallReturns == <>(pc = "returned" \/ FreeAnswer)

\* "the goal with its variables replaced" (facts.go:91-93) exists for every answer.
InstantiateReturns == pc = "instantiate" ~> pc = "returned"

=============================================================================
