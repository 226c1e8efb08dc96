------------------------------- MODULE Prelude -------------------------------
(***************************************************************************)
(* The library every machine starts with (prelude.go), clause by clause in *)
(* the order of its text.                                                  *)
(***************************************************************************)
EXTENDS Terms

V(n)         == VarTerm(n)
I(n)         == IntTerm(n)
P(f, args)   == Compound(f, args)
Op(x, f, y)  == Compound(f, <<x, y>>)
Rule(h, b)   == [head |-> h, body |-> b]
Cut          == AtomTerm("!")
H            == V("H")
T            == V("T")
L            == V("L")
N            == V("N")
N0           == V("N0")
N1           == V("N1")
R            == V("R")
X            == V("X")
A            == V("A")
L1           == V("L1")
Blank          == V("_")
Less(x, y)   == Op(x, "<", y)
More(x, y)   == Op(x, ">", y)
AtLeast(x, n) == Op(x, ">=", I(n))
Down(x, y)   == Op(x, "is", Op(y, "-", I(1)))
Up(x, y)     == Op(x, "is", Op(y, "+", I(1)))
Integer(x)   == P("integer", <<x>>)

Lists ==
    <<Rule(P("append", <<Nil, L, L>>), <<>>),
      Rule(P("append", <<Cell(H, T), L, Cell(H, R)>>), <<P("append", <<T, L, R>>)>>),
      Rule(P("member", <<X, Cell(X, Blank)>>), <<>>),
      Rule(P("member", <<X, Cell(Blank, T)>>), <<P("member", <<X, T>>)>>),
      Rule(P("memberchk", <<X, L>>), <<P("member", <<X, L>>), Cut>>),
      Rule(P("reverse", <<L, R>>), <<P("reverse_", <<L, Nil, R>>)>>),
      Rule(P("reverse_", <<Nil, A, A>>), <<>>),
      Rule(P("reverse_", <<Cell(H, T), A, R>>), <<P("reverse_", <<T, Cell(H, A), R>>)>>),
      Rule(P("last", <<Cell(X, Nil), X>>), <<>>),
      Rule(P("last", <<Cell(Blank, T), X>>), <<P("last", <<T, X>>)>>)>>

Length ==
    <<Rule(P("length", <<L, N>>), <<Integer(N), Cut, AtLeast(N, 0), P("length_build", <<N, L>>)>>),
      Rule(P("length", <<L, N>>), <<P("length_count", <<L, I(0), N>>)>>),
      Rule(P("length_build", <<I(0), Nil>>), <<Cut>>),
      Rule(P("length_build", <<N, Cell(Blank, T)>>),
           <<More(N, I(0)), Down(N1, N), P("length_build", <<N1, T>>)>>),
      Rule(P("length_count", <<Nil, N, N>>), <<>>),
      Rule(P("length_count", <<Cell(Blank, T), N0, N>>), <<Up(N1, N0), P("length_count", <<T, N1, N>>)>>)>>

Nth ==
    <<Rule(P("nth0", <<N, L, X>>), <<Integer(N), Cut, AtLeast(N, 0), P("nth0_det", <<N, L, X>>)>>),
      Rule(P("nth0", <<N, L, X>>), <<P("nth_gen", <<L, X, I(0), N>>)>>),
      Rule(P("nth0_det", <<I(0), Cell(X, Blank), X>>), <<Cut>>),
      Rule(P("nth0_det", <<N, Cell(Blank, T), X>>),
           <<More(N, I(0)), Down(N1, N), P("nth0_det", <<N1, T, X>>)>>),
      Rule(P("nth1", <<N, L, X>>),
           <<Integer(N), Cut, AtLeast(N, 1), Down(N0, N), P("nth0_det", <<N0, L, X>>)>>),
      Rule(P("nth1", <<N, L, X>>), <<P("nth_gen", <<L, X, I(1), N>>)>>),
      Rule(P("nth_gen", <<Cell(X, Blank), X, N, N>>), <<>>),
      Rule(P("nth_gen", <<Cell(Blank, T), X, N0, N>>), <<Up(N1, N0), P("nth_gen", <<T, X, N1, N>>)>>)>>

Ranges ==
    <<Rule(P("select", <<X, Cell(X, T), T>>), <<>>),
      Rule(P("select", <<X, Cell(H, T), Cell(H, R)>>), <<P("select", <<X, T, R>>)>>),
      Rule(P("between", <<L, H, L>>), <<Op(L, "=<", H)>>),
      Rule(P("between", <<L, H, X>>), <<Less(L, H), Up(L1, L), P("between", <<L1, H, X>>)>>)>>

Clauses == Lists \o Length \o Nth \o Ranges

=============================================================================
