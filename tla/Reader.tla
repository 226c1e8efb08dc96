-------------------------------- MODULE Reader --------------------------------
(***************************************************************************)
(* The reader (reader.go): source text to clauses, declarations and        *)
(* diagnostics.                                                            *)
(*                                                                         *)
(* A lexeme is a string; the constants say which strings are atoms,        *)
(* variables and numbers, " " is layout, and every other string that is    *)
(* not punctuation is a run of symbol characters.  The parser's lookahead  *)
(* is a position: peekTok leaves it where it is, advance moves it on and   *)
(* unread moves it back.  One step of the state machine is one call of     *)
(* clause() together with what Parse does with its result.                 *)
(***************************************************************************)
EXTENDS Terms

CONSTANTS AtomName,   \* lexemes of atoms, quoted or not, to their names
          VarNames,   \* lexemes of variables
          IntOf,      \* lexemes of integers to their values
          FloatOf     \* lexemes of floats to their halves

EOF    == "<eof>"
Layout == " "
Punct  == {"(", ")", "[", "]", ",", "|", "{", "}"}

Kind(x) == CASE x = EOF               -> "eof"
             [] x \in Punct \cup {"."} -> "punct"
             [] x \in DOMAIN AtomName -> "atom"
             [] x \in VarNames        -> "var"
             [] x \in DOMAIN IntOf    -> "int"
             [] x \in DOMAIN FloatOf  -> "float"
             [] OTHER                 -> "op"

\* Symbol characters with nothing between them are one token, the full stop
\* among them: only a "." on its own ends a clause.
Runs(x) == Kind(x) = "op" \/ x = "."

Lex(text) ==
    LET Glued(l, x) == [l EXCEPT !.toks[Len(l.toks)] = @ \o x]
        Next(l, x)  == CASE x = Layout       -> [l EXCEPT !.run = FALSE]
                         [] l.run /\ Runs(x) -> Glued(l, x)
                         [] OTHER            -> [toks |-> Append(l.toks, x), run |-> Runs(x)]
        upTo[n \in 0 .. Len(text)] ==
            IF n = 0 THEN [toks |-> <<>>, run |-> FALSE] ELSE Next(upTo[n - 1], text[n])
    IN  upTo[Len(text)].toks

-----------------------------------------------------------------------------
(* Operators. *)

Comparisons == {"=", "\\=", "=..", "==", "\\==", "is", "=:=", "=\\=", "<", ">", "=<", ">=",
                "@<", "@>", "@=<", "@>="}
InfixOps    == Comparisons \cup {":-", ";", "->", ",", "+", "-", "*", "/", "//", "mod", "^"}

Prec(op) == CASE op = ":-"                      -> 1200
              [] op = ";"                       -> 1100
              [] op = "->"                      -> 1050
              [] op = ","                       -> 1000
              [] op \in Comparisons             -> 700
              [] op \in {"+", "-"}              -> 500
              [] op \in {"*", "/", "//", "mod"} -> 400
              [] op = "^"                       -> 200

RightAssoc == {":-", ";", "->", ",", "^"}
RightMax_Same(op) == Prec(op)
RightMax(op) == IF op \in RightAssoc THEN Prec(op) ELSE Prec(op) - 1

PrefixOps == {"\\+", ":-", "?-", "dynamic", "table"}
PrefixMax(op) == CASE op = "\\+"                -> 900
                   [] op \in {":-", "?-"}       -> 1200
                   [] op \in {"dynamic", "table"} -> 1150

StartsTerm(x) ==
    \/ Kind(x) \in {"int", "float", "var", "atom"}
    \/ x \in {"(", "[", "-"}
    \/ Kind(x) = "op" /\ x \in PrefixOps

\* The infix operator a token stands for, or a string that is none.
AsInfix(x) == CASE Kind(x) = "op" \/ x = ","                                      -> x
                [] Kind(x) = "atom" /\ AtomName[x] \in {";", "is", "mod"}         -> AtomName[x]
                [] OTHER                                                          -> EOF

-----------------------------------------------------------------------------
(* The parser: from a position, a term or an error, and the position after. *)

Tok(s, i)   == IF i <= Len(s) THEN s[i] ELSE EOF
After(s, i) == IF i <= Len(s) THEN i + 1 ELSE i
Found(t, i) == [ok |-> TRUE, term |-> t, pos |-> i]
Error(i)    == [ok |-> FALSE, pos |-> i]

\* What follows a term that was found; an error is handed on.  (The set makes
\* TLC parse the term once.)
Then(found, Next(_)) == CHOOSE r \in {IF f.ok THEN Next(f) ELSE f : f \in {found}} : TRUE

RECURSIVE TermAt(_, _, _), Climb(_, _, _, _), Primary(_, _), ArgList(_, _, _), ListItems(_, _, _)

TermAt(s, i, max) == Then(Primary(s, i), LAMBDA left : Climb(s, left.term, left.pos, max))

Climb(s, left, i, max) ==
    LET op == AsInfix(Tok(s, i))
    IN  IF op \notin InfixOps \/ (op \in InfixOps /\ Prec(op) > max) THEN Found(left, i)
        ELSE Then(TermAt(s, After(s, i), RightMax(op)),
                  LAMBDA right : Climb(s, Compound(op, <<left, right.term>>), right.pos, max))

Prefixed(s, i, op) ==
    Then(TermAt(s, i, PrefixMax(op)), LAMBDA arg : Found(Compound(op, <<arg.term>>), arg.pos))

Parenthesised(s, i) ==
    Then(TermAt(s, i, 1200),
         LAMBDA inner : IF Tok(s, inner.pos) = ")" THEN Found(inner.term, inner.pos + 1)
                        ELSE Error(After(s, inner.pos)))

\* What an atom begins: a compound, a prefix operator's term, or itself.
AtomPrimary(s, name, i) ==
    CASE Tok(s, i) = "(" /\ Tok(s, i + 1) = ")" -> Found(Compound(name, <<>>), i + 2)
      [] Tok(s, i) = "(" /\ Tok(s, i + 1) # ")" ->
            Then(ArgList(s, i + 1, <<>>), LAMBDA args : Found(Compound(name, args.term), args.pos))
      [] Tok(s, i) # "(" /\ name \in PrefixOps /\ StartsTerm(Tok(s, i)) -> Prefixed(s, i, name)
      [] OTHER -> Found(AtomTerm(name), i)

Primary(s, i) ==
    LET x    == Tok(s, i)
        next == After(s, i)
        y    == Tok(s, next)
    IN  CASE Kind(x) = "int"   -> Found(IntTerm(IntOf[x]), next)
          [] Kind(x) = "float" -> Found(FloatTerm(FloatOf[x]), next)
          [] Kind(x) = "var"   -> Found(VarTerm(x), next)
          [] x = "-" /\ Kind(y) = "int"   -> Found(IntTerm(-IntOf[y]), After(s, next))
          [] x = "-" /\ Kind(y) = "float" -> Found(FloatTerm(-FloatOf[y]), After(s, next))
          [] Kind(x) = "op" /\ x \in PrefixOps -> Prefixed(s, next, x)
          [] Kind(x) = "atom" -> AtomPrimary(s, AtomName[x], next)
          [] x = "("  -> Parenthesised(s, next)
          [] x = "["  -> IF y = "]" THEN Found(Nil, next + 1) ELSE ListItems(s, next, <<>>)
          [] OTHER    -> Error(next)

\* Where an argument list leaves the parser whose separator is wrong: a
\* terminator is unread, so that resync finds it.
BadSeparator_Swallow(s, i) == After(s, i)
BadSeparator(s, i) == IF Tok(s, i) \in {".", EOF} THEN i ELSE After(s, i)

ArgList(s, i, args) ==
    LET Rest(arg) ==
            LET sep == Tok(s, arg.pos)
                all == Append(args, arg.term)
            IN  CASE sep = "," -> ArgList(s, arg.pos + 1, all)
                  [] sep = ")" -> Found(all, arg.pos + 1)
                  [] OTHER     -> Error(BadSeparator(s, arg.pos))
    IN  Then(TermAt(s, i, 999), Rest)

ListItems(s, i, items) ==
    LET Close(all, tail) == IF Tok(s, tail.pos) = "]" THEN Found(List(all, tail.term), tail.pos + 1)
                            ELSE Error(After(s, tail.pos))
        Rest(item) ==
            LET sep == Tok(s, item.pos)
                all == Append(items, item.term)
            IN  CASE sep = "," -> ListItems(s, item.pos + 1, all)
                  [] sep = "]" -> Found(List(all, Nil), item.pos + 1)
                  [] sep = "|" -> Then(TermAt(s, item.pos + 1, 999), LAMBDA tail : Close(all, tail))
                  [] OTHER     -> Error(After(s, item.pos))
    IN  Then(TermAt(s, i, 999), Rest)

\* ParseTerm: the text with a full stop after it; what follows the term is
\* not looked at.
ParseTerm(text) == TermAt(Lex(text \o <<Layout, ".">>), 1, 1200)

-----------------------------------------------------------------------------
(* Clauses. *)

\* Past the next full stop.
Resync(s, i) == LET stops == {j \in i .. Len(s) : s[j] = "."}
                IN  IF stops = {} THEN Len(s) + 1 ELSE 1 + CHOOSE j \in stops : \A k \in stops : j <= k

RECURSIVE FlattenConj(_)
FlattenConj(t) == IF Is(t, ",", 2) THEN <<t.args[1]>> \o FlattenConj(t.args[2]) ELSE <<t>>

SplitClause(t) == IF Is(t, ":-", 2) THEN [head |-> t.args[1], body |-> FlattenConj(t.args[2])]
                  ELSE [head |-> t, body |-> <<>>]

\* The indicators <<name, arity>> a directive declares.
Indicators(directive, functor) ==
    LET Declares(t) == Is(t, "/", 2) /\ t.args[1].kind = "atom" /\ t.args[2].kind = "int"
        specs       == SelectSeq(FlattenConj(directive.args[1]), Declares)
    IN  IF Is(directive, functor, 1)
        THEN [i \in DOMAIN specs |-> <<specs[i].args[1].name, specs[i].args[2].val>>]
        ELSE <<>>

Input  == {"write", "writeln", "print", "read"}
\* The diagnostics of a goal the engine does not execute, and of all below it.
RECURSIVE Scan(_)
Scan(t) ==
    LET name == t.name
        here == CASE t.kind = "atom" -> IF name = "nl" THEN <<"io">> ELSE <<>>
                  [] t.kind = "compound" /\ Len(t.args) = 1 /\ name \in Input        -> <<"io">>
                  [] t.kind = "compound" /\ Len(t.args) \in 1 .. 3 /\ name = "format" -> <<"io">>
                  [] t.kind = "compound" /\ Len(t.args) = 1 /\ name \in {"retractall", "abolish"} -> <<"database">>
                  [] Is(t, "forall", 2) \/ Is(t, "aggregate_all", 3)                 -> <<"unsupported">>
                  [] OTHER -> <<>>
    IN  IF t.kind = "compound" THEN FoldLeft(LAMBDA d, u : d \o Scan(u), here, t.args) ELSE here

Syntax(i) == [kind |-> "error", pos |-> i]

AtEnd_Never(s, i) == FALSE
AtEnd(s, i) == Tok(s, i) = EOF

\* clause(): what starts at position i, and the position after it.
ClauseAt(s, i) ==
    LET read(t) == CASE ~t.ok               -> Syntax(Resync(s, t.pos))
                     [] t.ok /\ Tok(s, t.pos) # "." -> Syntax(Resync(s, After(s, t.pos)))
                     [] OTHER -> [kind |-> IF Is(t.term, ":-", 1) THEN "directive" ELSE "clause",
                                  term |-> t.term, pos |-> t.pos + 1]
    IN  IF AtEnd(s, i) THEN [kind |-> "eof", pos |-> i]
        ELSE CHOOSE c \in {read(t) : t \in {TermAt(s, i, 1200)}} : TRUE

-----------------------------------------------------------------------------
(* Parse. *)

VARIABLES source,            \* the tokens of the text
          pos,               \* the parser's position in them
          clauses,           \* Program.Clauses
          dynamic, tabled,   \* Program.Dynamic, Program.Tabled
          diagnostics,       \* the kinds of Program.Diagnostics
          ended,             \* whether Parse has returned
          spans              \* history: what each call of clause() consumed

readerVars == <<source, pos, clauses, dynamic, tabled, diagnostics, ended, spans>>

ReaderInit(text) ==
    /\ source = Lex(text)
    /\ pos = 1
    /\ clauses = <<>> /\ dynamic = <<>> /\ tabled = <<>> /\ diagnostics = <<>>
    /\ ended = FALSE
    /\ spans = <<>>

\* Parse's loop takes the next clause, c.
Take(c) ==
    /\ ~ended
    /\ pos' = c.pos
    /\ spans' = Append(spans, [kind |-> c.kind, from |-> pos, to |-> c.pos - 1])
    /\ UNCHANGED <<source, ended>>

ReadClause(c) ==
    /\ c.kind = "clause"
    /\ Take(c)
    /\ clauses' = Append(clauses, SplitClause(c.term))
    /\ diagnostics' = FoldLeft(LAMBDA d, g : d \o Scan(g), diagnostics, SplitClause(c.term).body)
    /\ UNCHANGED <<dynamic, tabled>>

ReadDirective(c) ==
    /\ c.kind = "directive"
    /\ Take(c)
    /\ dynamic' = dynamic \o Indicators(c.term.args[1], "dynamic")
    /\ tabled' = tabled \o Indicators(c.term.args[1], "table")
    /\ UNCHANGED <<clauses, diagnostics>>

SkipClause(c) ==
    /\ c.kind = "error"
    /\ Take(c)
    /\ diagnostics' = Append(diagnostics, "syntax")
    /\ UNCHANGED <<clauses, dynamic, tabled>>

EndOfText(c) ==
    /\ c.kind = "eof"
    /\ ~ended
    /\ ended' = TRUE
    /\ UNCHANGED <<source, pos, clauses, dynamic, tabled, diagnostics, spans>>

ReaderNext ==
    \E c \in {ClauseAt(source, pos)} : ReadClause(c) \/ ReadDirective(c) \/ SkipClause(c) \/ EndOfText(c)

=============================================================================
