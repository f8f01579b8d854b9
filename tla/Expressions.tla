---------------------------- MODULE Expressions -----------------------------
(***************************************************************************)
(* Logical expressions with the types their constructors infer             *)
(* (src/algebra/logical/expressions.hpp).                                  *)
(*                                                                         *)
(* A constructor yields the expression or Throw.  And, Or and Not have no  *)
(* visitor function and cannot be part of an expression that is used.      *)
(***************************************************************************)
EXTENDS SqlOperators

Expression(op, type, args) == [tag |-> "value", op |-> op, type |-> type, args |-> args]

Identifier(iu, type)  == Expression("identifier", type, <<iu>>)
Constant(text, type)  == Expression("constant", type, <<text>>)
NullConstant          == Expression("null", getUnknownTy, <<>>)
Cast(child, destType) == Expression("cast", destType, <<child>>)

Comparison(mode, lhs, rhs) ==
    LET type == inferCompareTy(lhs.type, rhs.type)
    IN  IF type = Throw THEN Throw ELSE Expression(mode, type.v, <<lhs, rhs>>)

inferTy(op, lhs, rhs) ==
    CASE op = "add" -> inferAddTy(lhs, rhs)
      [] op = "sub" -> inferSubTy(lhs, rhs)
      [] op = "mul" -> inferMulTy(lhs, rhs)
      [] op = "div" -> inferDivTy(lhs, rhs)

(***************************************************************************)
(* Addition, Subtraction, Multiplication and Division: the operand whose   *)
(* class is not that of the result is cast to the type of the other one,   *)
(* and the type is inferred again.                                         *)
(***************************************************************************)
Typed(op, lhs, rhs) == Expression(op, inferTy(op, lhs.type, rhs.type).v, <<lhs, rhs>>)

Arithmetic(op, lhs, rhs) ==
    LET type == inferTy(op, lhs.type, rhs.type)
    IN  CASE type = Throw -> Throw
          [] type # Throw /\ type.v.id # lhs.type.id ->
                 Typed(op, Cast(lhs, rhs.type), rhs)
          [] type # Throw /\ type.v.id = lhs.type.id /\ type.v.id # rhs.type.id ->
                 Typed(op, lhs, Cast(rhs, lhs.type))
          [] type # Throw /\ type.v.id = lhs.type.id /\ type.v.id = rhs.type.id ->
                 Expression(op, type.v, <<lhs, rhs>>)

Addition(lhs, rhs)       == Arithmetic("add", lhs, rhs)
Subtraction(lhs, rhs)    == Arithmetic("sub", lhs, rhs)
Multiplication(lhs, rhs) == Arithmetic("mul", lhs, rhs)
Division(lhs, rhs)       == Arithmetic("div", lhs, rhs)

Comparisons == {"less", "leq", "eq", "geq", "gtr"}
=============================================================================
