-------------------------------- MODULE Writer --------------------------------
(***************************************************************************)
(* The writer (term.go): a term as the lexemes of its canonical text.      *)
(* Whether two neighbouring lexemes are read back as two is the lexer's    *)
(* business; Key is the text itself, by which tables know their atoms.     *)
(***************************************************************************)
EXTENDS Reader

\* A name that would be read as something else is quoted; a symbolic one is not.
NeedsQuote(name) == name \in Punct \/ Kind(name) \in {"var", "int", "float"}
Quoted(name)     == CHOOSE x \in DOMAIN AtomName : AtomName[x] = name

WriteAtom(name) == CASE name = "[]"       -> <<"[", "]">>
                     [] NeedsQuote(name)  -> <<Quoted(name)>>
                     [] OTHER             -> <<name>>

\* Numbers; a float that is a whole number is written without a point.
Digits(n) == CHOOSE x \in DOMAIN IntOf : IntOf[x] = n
WriteInt(n) == IF n < 0 THEN <<"-", Digits(-n)>> ELSE <<Digits(n)>>
WriteFloat(h) ==
    IF h % 2 = 0 THEN WriteInt(h \div 2)
    ELSE LET x(n) == CHOOSE y \in DOMAIN FloatOf : FloatOf[y] = n
         IN  IF h < 0 THEN <<"-", x(-h)>> ELSE <<x(h)>>

Alphabetic == {"is", "mod", "dynamic", "table"}
OpText(op)      == IF op \in Alphabetic THEN <<Layout, op, Layout>> ELSE <<op>>
PrefixText(op)  == IF op \in Alphabetic THEN <<op, Layout>> ELSE <<op>>
LeftMax_Same(op) == Prec(op)
LeftMax(op) == IF op \in RightAssoc THEN Prec(op) - 1 ELSE Prec(op)
Bracketed(text, needed) == IF needed THEN <<"(">> \o text \o <<")">> ELSE text

RECURSIVE WriteTerm(_, _), WriteTail(_)

WriteArgs(args) ==
    FoldLeft(LAMBDA text, t : text \o (IF text = <<>> THEN <<>> ELSE <<",">>) \o WriteTerm(t, 999),
             <<>>, args)

WriteTerm(t, max) ==
    CASE t.kind = "var"   -> <<t.name>>
      [] t.kind = "atom"  -> WriteAtom(t.name)
      [] t.kind = "int"   -> WriteInt(t.val)
      [] t.kind = "float" -> WriteFloat(t.val)
      [] Is(t, ".", 2)    -> <<"[">> \o WriteTerm(t.args[1], 1200) \o WriteTail(t.args[2])
      [] t.kind = "compound" /\ Len(t.args) = 2 /\ t.name \in InfixOps ->
            Bracketed(WriteTerm(t.args[1], LeftMax(t.name)) \o OpText(t.name)
                          \o WriteTerm(t.args[2], RightMax(t.name)),
                      Prec(t.name) > max)
      [] t.kind = "compound" /\ Len(t.args) = 1 /\ t.name \in PrefixOps ->
            Bracketed(PrefixText(t.name) \o WriteTerm(t.args[1], PrefixMax(t.name)),
                      PrefixMax(t.name) > max)
      [] OTHER -> WriteAtom(t.name) \o <<"(">> \o WriteArgs(t.args) \o <<")">>

\* The rest of a list whose last written element is before it; elements are
\* written as they would be on their own.
WriteTail(t) ==
    CASE Is(t, ".", 2) -> <<",">> \o WriteTerm(t.args[1], 1200) \o WriteTail(t.args[2])
      [] t = Nil       -> <<"]">>
      [] OTHER         -> <<"|">> \o WriteTerm(t, 1200) \o <<"]">>

String(t) == WriteTerm(t, 1200)
Key(t)    == FoldLeft(LAMBDA text, x : text \o x, "", String(t))

=============================================================================
