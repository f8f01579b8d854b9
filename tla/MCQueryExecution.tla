-------------------------- MODULE MCQueryExecution --------------------------
(***************************************************************************)
(* Rows, hash codes and queries for model checking QueryExecution: keys    *)
(* that share a hash code, hash codes that share a bucket, empty tables,   *)
(* rows the selection drops, sums that overflow and divisions by zero.     *)
(***************************************************************************)
EXTENDS QueryMeaning, Evaluation

XType == getNumericTy(4, 2)

KeyValue(n) == Known(getVarcharTy(1), [bytes |-> <<n>>, len |-> 1])

MCLeftRows ==
    {[key |-> KeyValue(k), x |-> Known(XType, n)] :
        <<k, n>> \in {<<0, 100>>, <<1, 100>>, <<1, -150>>, <<2, 2>>, <<2, -30000>>}}

MCRightRows ==
    {[key |-> KeyValue(k), i |-> Known(getIntegerTy, n)] : <<k, n>> \in {<<1, 2>>, <<2, 0>>, <<2, 1>>}}

(* keys 1 and 2 share their code; the codes of Numerics are all different *)
MCHash(v) ==
    IF v.type.id = "Varchar" THEN IF v.raw.bytes[1] = 0 THEN 0 ELSE 2
    ELSE (3 * (v.raw % 2^LongBits) + 2) % 2^LongBits

X == Identifier("x", XType)
I == Identifier("i", getIntegerTy)

MCPredicate ==
    translated(Comparison("gtr", X, Constant(<<"-", "3", "0", "0">>, XType)))

MCAggregationLists ==
    {<<Keep("x", XType), Sum(Multiplication(X, I)), CountAll>>,
     <<Minimum(X), Keep("x", XType), Avg(I)>>,
     <<Sum(Division(X, I))>>,
     <<Sum(Addition(X, I)), Avg(X), Minimum(Subtraction(I, X)), CountAll>>}

(* the evaluation of the physical expressions *)
MCEvaluate(exp, values) == evaluate(exp, values)
=============================================================================
