--------------------------- MODULE ClauseStoreMC ---------------------------
(***************************************************************************)
(* Model checking of module ClauseStore: base programs of up to three      *)
(* clauses, two of the three clauses dynamic.                              *)
(***************************************************************************)
EXTENDS ClauseStore

CONSTANTS p, q, s

MCClause  == {p, q, s}
MCDynamic == {p, q}
MCBases   == {<<>>, <<p, s>>, <<s, p, q>>}
MCSpares  == {1}
=============================================================================
