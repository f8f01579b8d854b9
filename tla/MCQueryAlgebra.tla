--------------------------- MODULE MCQueryAlgebra ---------------------------
(***************************************************************************)
(* Two tables for model checking QueryAlgebra, one with a column more.     *)
(***************************************************************************)
EXTENDS QueryAlgebra

MCColumnNames(table) == IF table = "r" THEN <<"a">> ELSE <<"a", "b">>
=============================================================================
