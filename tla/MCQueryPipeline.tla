--------------------------- MODULE MCQueryPipeline --------------------------
(***************************************************************************)
(* Statements for model checking QueryPipeline.                            *)
(***************************************************************************)
EXTENDS GeneratedCode

MCStatement(kind, throws, rows) == [kind |-> kind, throws |-> throws, rows |-> rows]

MCStatements ==
    {MCStatement("select", "none", 2), MCStatement("insert", "none", 0),
     MCStatement("create", "none", 0), MCStatement("select", "verify", 0)}

MCNoInput == MCStatement("no input", "none", 0)
=============================================================================
