------------------------------ MODULE Evaluation ------------------------------
(***************************************************************************)
(* The translation of logical expressions (src/algebra/translation.cpp)    *)
(* and the evaluation of the physical ones                                 *)
(* (src/algebra/physical/expressions.hpp).                                 *)
(***************************************************************************)
EXTENDS Expressions

(***************************************************************************)
(* ExpressionTranslator visits the children first and keeps the translated *)
(* ones on a stack, the right one on top.  Instructions is the order of    *)
(* the visits, translate the effect of one visit on the stack.             *)
(***************************************************************************)
RECURSIVE Instructions(_)
Instructions(exp) ==
    FlattenSeq([i \in DOMAIN exp.args |->
        IF exp.op \in {"identifier", "constant"} THEN <<>> ELSE Instructions(exp.args[i])])
    \o <<exp>>

visit(stack, exp) ==
    CASE exp.op \in {"identifier", "null"} -> Append(stack, exp)
      [] exp.op = "constant" ->
             Append(stack, [exp EXCEPT !.args = <<castString(exp.args[1], exp.type, 0, <<>>).v>>])
      [] exp.op = "cast" ->
             Append(Front(stack), [exp EXCEPT !.args = <<Last(stack)>>])
      [] exp.op \notin {"identifier", "null", "constant", "cast"} ->
             Append(Front(Front(stack)),
                    [exp EXCEPT !.args = <<Last(Front(stack)), Last(stack)>>])

translated(exp) == Last(FoldLeft(visit, <<>>, Instructions(exp)))

(***************************************************************************)
(* evaluate: the operands, then the operator.  An operation asserts that   *)
(* its value has the type inferred for the expression.                     *)
(***************************************************************************)
asserted(result, type) ==
    IF result.tag = "value" /\ ~EqualTypes(result.v.type, type, "Full")
    THEN [tag |-> "assert"] ELSE result

apply(exp, lhs, rhs) ==
    CASE lhs.tag # "value" -> lhs
      [] lhs.tag = "value" /\ rhs.tag # "value" -> rhs
      [] lhs.tag = "value" /\ rhs.tag = "value" ->
             [asserted(CASE exp.op = "add" -> sqlAdd(lhs.v, rhs.v)
                         [] exp.op = "sub" -> sqlSub(lhs.v, rhs.v)
                         [] exp.op = "mul" -> sqlMul(lhs.v, rhs.v)
                         [] exp.op = "div" -> sqlDiv(lhs.v, rhs.v)
                         [] exp.op \in Comparisons -> sqlCompare(lhs.v, rhs.v, exp.op),
                       exp.type)
              EXCEPT !.overflow = @ \/ lhs.overflow \/ rhs.overflow]

castTo(v, type) ==
    IF v.tag # "value" THEN v
    ELSE [sqlCast(v.v, type) EXCEPT !.overflow = @ \/ v.overflow]

RECURSIVE evaluate(_, _)
evaluate(exp, values) ==
    CASE exp.op = "identifier" -> Result(values[exp.args[1]], FALSE)
      [] exp.op = "constant"   -> Result(exp.args[1], FALSE)
      [] exp.op = "null"       -> Result(Unknown, FALSE)
      [] exp.op = "cast"       -> castTo(evaluate(exp.args[1], values), exp.type)
      [] exp.op \notin {"identifier", "constant", "null", "cast"} ->
             apply(exp, evaluate(exp.args[1], values), evaluate(exp.args[2], values))
=============================================================================
