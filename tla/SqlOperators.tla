---------------------------- MODULE SqlOperators ----------------------------
(***************************************************************************)
(* Operators on generated values (src/sql/SqlOperators.cpp) and the        *)
(* handling of nulls around them (src/sql/SqlUtils.{tcc,cpp}).             *)
(*                                                                         *)
(* An operation yields Result(v, o): the value and whether a checked       *)
(* machine operation overflowed, which sets overflowFlag and prints a      *)
(* message while the wrapped value is used on.  It yields Throw when the   *)
(* generation of the code throws, Unreachable in a case the code does not  *)
(* have, Wild when it reads beyond a table, Return when the generated code *)
(* leaves the query, and Trap when the machine division faults.            *)
(***************************************************************************)
EXTENDS NativeValues

Result(v, o) == [tag |-> "value", v |-> v, overflow |-> o]
Return == [tag |-> "return"]
Trap == [tag |-> "trap"]
Wild == [tag |-> "wild"]

(***************************************************************************)
(* A machine operation with an overflow bit, given its exact result.       *)
(***************************************************************************)
CreateOverflowBinOp(exact, bits) ==
    [raw |-> Wrap(exact, bits), obit |-> ~Fits(exact, bits)]

(* the quotient the machine computes: truncated towards zero *)
SDiv(a, b) ==
    LET q == (IF a < 0 THEN -a ELSE a) \div (IF b < 0 THEN -b ELSE b)
    IN  IF (a < 0) = (b < 0) THEN q ELSE -q

-----------------------------------------------------------------------------
(* Nulls *)

isNullable(v) == v.type.nullable /\ v.type.id # "Unknown"
isUnknown(v) == v.type.id = "Unknown"
getAssociatedValue(v) == [v EXCEPT !.type = toNotNullableTy(v.type), !.null = FALSE]
createNullValue(v) == [v EXCEPT !.type = toNullableTy(v.type), !.null = FALSE]

WithoutOverflow(v) == IF v.tag = "value" THEN Result(v.v, FALSE) ELSE v
NullResult(type) == WithoutOverflow(getNull(type))

(***************************************************************************)
(* Around an operation: a null gives a null.  The null that is the default *)
(* of the result is made when the code is generated, before any value is   *)
(* known.  (A null constant passes its own, unknown, type on.)  An action  *)
(* is given the type of its result; none is generated for operands whose   *)
(* types have no result.                                                   *)
(***************************************************************************)
NullSafe(default, absent, result) ==
    IF default.tag # "value" \/ absent THEN default
    ELSE IF result.tag # "value" THEN result
    ELSE [result EXCEPT !.v = createNullValue(@)]

nullHandler1(Action(_, _), a, ty) ==
    IF isUnknown(a) THEN NullResult(a.type)
    ELSE IF ~isNullable(a) THEN Action(a, ty)
    ELSE NullSafe(NullResult(ty), a.null, Action(getAssociatedValue(a), ty))

nullHandler2(Action(_, _, _), a, b, ty) ==
    IF ty = Throw THEN Unreachable
    ELSE IF isUnknown(a) \/ isUnknown(b) THEN NullResult(a.type)
    ELSE IF ~isNullable(a) /\ ~isNullable(b) THEN Action(a, b, ty.v)
    ELSE NullSafe(NullResult(ty.v), a.null \/ b.null,
                  Action(getAssociatedValue(a), getAssociatedValue(b), ty.v))

(* a value that is absent is neither true nor false *)
nullHandlerExtended(Present(_), absent, v) ==
    IF isUnknown(v) THEN absent
    ELSE IF isNullable(v) /\ v.null THEN absent
    ELSE Present(getAssociatedValue(v))

isTrue(v) == nullHandlerExtended(LAMBDA x : x.raw = 1, FALSE, v)
isFalse(v) == nullHandlerExtended(LAMBDA x : x.raw = 0, FALSE, v)
isNull(v) == isUnknown(v) \/ (isNullable(v) /\ v.null)

-----------------------------------------------------------------------------
(* Arithmetic *)

BothAre(id, lhs, rhs) == lhs.type.id = id /\ rhs.type.id = id

IntegerOp(exact) ==
    LET op == CreateOverflowBinOp(exact, IntBits)
    IN  Result(Known(getIntegerTy, op.raw), op.obit)

(* both sides of a sum, brought to the larger precision *)
Adjusted(v, other) ==
    LET diff == other.type.precision - v.type.precision
    IN  IF diff > 0 THEN CreateOverflowBinOp(v.raw * numericShifts[diff], LongBits)
                    ELSE [raw |-> v.raw, obit |-> FALSE]

sqlAddUnadjusted(lhs, rhs, resultType) ==
    LET op == CreateOverflowBinOp(lhs.raw + rhs.raw, LongBits)
    IN  Result(Known(resultType, op.raw), op.obit)

sqlAddImpl(lhs, rhs, resultType) ==
    LET l == Adjusted(lhs, rhs)
        r == Adjusted(rhs, lhs)
        op == CreateOverflowBinOp(l.raw + r.raw, LongBits)
    IN  Result(Known(resultType, op.raw), l.obit \/ r.obit \/ op.obit)

sqlSubImpl(lhs, rhs, resultType) ==
    LET l == Adjusted(lhs, rhs)
        r == Adjusted(rhs, lhs)
        op == CreateOverflowBinOp(l.raw - r.raw, LongBits)
    IN  Result(Known(resultType, op.raw), l.obit \/ r.obit \/ op.obit)

sqlMulImpl(lhs, rhs, resultType) ==
    LET op == CreateOverflowBinOp(lhs.raw * rhs.raw, LongBits)
    IN  Result(Known(resultType, op.raw), op.obit)

(***************************************************************************)
(* The quotient of two Numerics: the dividend is shifted so that digits    *)
(* remain for the fraction, by up to twice the digits of the divisor: more *)
(* than the table of shifts has.  When the dividend has the larger         *)
(* precision the shift takes it for the smaller one.                       *)
(***************************************************************************)
sqlDivImpl(lhs, rhs, resultType) ==
    LET diff == lhs.type.precision - rhs.type.precision
        p == rhs.type.precision
        l == IF diff <= 0 \/ diff < p
             THEN CreateOverflowBinOp(lhs.raw * numericShifts[p - diff], LongBits)
             ELSE [raw |-> lhs.raw, obit |-> FALSE]
        r == IF diff > p
             THEN CreateOverflowBinOp(rhs.raw * numericShifts[diff - p], LongBits)
             ELSE [raw |-> rhs.raw, obit |-> FALSE]
        q == SDiv(l.raw, r.raw)
    IN  IF diff <= 0 /\ p - diff > MaxDigits THEN Wild
        ELSE IF r.raw = 0 \/ ~Fits(q, LongBits) THEN Trap
        ELSE Result(Known(resultType, q), l.obit \/ r.obit)

(* a null constant takes the type of the other side *)
Widened(type, other) ==
    IF type.id = "Unknown" THEN toNullableTy(other) ELSE type

inferAddTy(lhsTy, rhsTy) ==
    LET lhs == Widened(lhsTy, rhsTy)
        rhs == Widened(rhsTy, lhsTy)
        larger == CASE lhs.id = "Integer" -> rhs
                    [] lhs.id = "Numeric" /\ rhs.id = "Integer" -> lhs
                    [] lhs.id = "Numeric" /\ rhs.id = "Numeric" ->
                           IF lhs.precision > rhs.precision THEN lhs ELSE rhs
    IN  IF lhs.id = "Unknown" /\ rhs.id = "Unknown" THEN Value(lhs)
        ELSE IF lhs.id \notin {"Integer", "Numeric"} \/ rhs.id \notin {"Integer", "Numeric"}
        THEN Throw
        ELSE Value([larger EXCEPT !.nullable = lhs.nullable \/ rhs.nullable])

inferSubTy(lhs, rhs) == inferAddTy(lhs, rhs)

inferMulTy(lhs, rhs) ==
    LET precision == lhs.precision + rhs.precision
        digits == CASE lhs.length > rhs.length -> lhs.length + (precision - lhs.precision)
                    [] lhs.length < rhs.length -> rhs.length + (precision - rhs.precision)
                    [] lhs.length = rhs.length -> lhs.length + rhs.length
        product == CASE lhs.id = "Integer" -> rhs
                     [] lhs.id = "Numeric" /\ rhs.id = "Integer" -> lhs
                     [] lhs.id = "Numeric" /\ rhs.id = "Numeric" ->
                            getNumericTy(digits, precision)
    IN  IF lhs.id \notin {"Integer", "Numeric"} \/ rhs.id \notin {"Integer", "Numeric"}
        THEN Throw
        ELSE Value([product EXCEPT !.nullable = lhs.nullable \/ rhs.nullable])

inferDivTy(lhs, rhs) ==
    LET quotient == CASE lhs.id = "Integer" -> rhs
                      [] lhs.id = "Numeric" /\ rhs.id = "Integer" -> lhs
                      [] lhs.id = "Numeric" /\ rhs.id = "Numeric" ->
                             IF lhs.precision > rhs.precision THEN lhs ELSE rhs
    IN  IF lhs.id \notin {"Integer", "Numeric"} \/ rhs.id \notin {"Integer", "Numeric"}
        THEN Throw
        ELSE Value([quotient EXCEPT !.nullable = lhs.nullable \/ rhs.nullable])

(***************************************************************************)
(* The four operations.  Only values of the same class are combined.       *)
(***************************************************************************)
sqlAddAction(a, b, ty) ==
    CASE BothAre("Integer", a, b) -> IntegerOp(a.raw + b.raw)
      [] BothAre("Numeric", a, b) -> sqlAddImpl(a, b, toNotNullableTy(ty))
      [] a.type.id # b.type.id    -> Throw
sqlAdd(lhs, rhs) == nullHandler2(sqlAddAction, lhs, rhs, inferAddTy(lhs.type, rhs.type))

sqlSubAction(a, b, ty) ==
    CASE BothAre("Integer", a, b) -> IntegerOp(a.raw - b.raw)
      [] BothAre("Numeric", a, b) -> sqlSubImpl(a, b, toNotNullableTy(ty))
      [] a.type.id # b.type.id    -> Throw
sqlSub(lhs, rhs) == nullHandler2(sqlSubAction, lhs, rhs, inferSubTy(lhs.type, rhs.type))

sqlMulAction(a, b, ty) ==
    CASE BothAre("Integer", a, b) -> IntegerOp(a.raw * b.raw)
      [] BothAre("Numeric", a, b) -> sqlMulImpl(a, b, toNotNullableTy(ty))
      [] a.type.id # b.type.id    -> Throw
sqlMul(lhs, rhs) == nullHandler2(sqlMulAction, lhs, rhs, inferMulTy(lhs.type, rhs.type))

(* a division by zero is tested for, one that overflows is not *)
sqlDivAction(a, b, ty) ==
    CASE a.type.id # b.type.id -> Throw
      [] a.type.id = b.type.id /\ b.raw = 0 -> Return
      [] BothAre("Integer", a, b) /\ b.raw # 0 ->
             IF Fits(SDiv(a.raw, b.raw), IntBits)
             THEN Result(Known(getIntegerTy, SDiv(a.raw, b.raw)), FALSE)
             ELSE Trap
      [] BothAre("Numeric", a, b) /\ b.raw # 0 ->
             sqlDivImpl(a, b, toNotNullableTy(ty))
sqlDiv(lhs, rhs) == nullHandler2(sqlDivAction, lhs, rhs, inferDivTy(lhs.type, rhs.type))

-----------------------------------------------------------------------------
(* Comparison, casts and logic *)

inferCompareTy(lhs, rhs) ==
    IF ~EqualTypes(lhs, rhs, "WithoutNullable") THEN Throw
    ELSE Value([getBoolTy EXCEPT !.nullable = lhs.nullable \/ rhs.nullable])

BoolResult(outcome) ==
    IF outcome.tag # "value" THEN outcome
    ELSE Result(Known(getBoolTy, IF outcome.v THEN 1 ELSE 0), FALSE)

sqlCompare(lhs, rhs, mode) ==
    nullHandler2(LAMBDA a, b, ty : BoolResult(compare(a, b, mode)), lhs, rhs,
                 inferCompareTy(lhs.type, rhs.type))

sqlEquals(lhs, rhs, pool) ==
    nullHandler2(LAMBDA a, b, ty : BoolResult(equals(a, b, pool)), lhs, rhs,
                 inferCompareTy(lhs.type, rhs.type))

(***************************************************************************)
(* Casts between Integer and Numeric.  From an Integer the shift is not    *)
(* checked for overflow; to an Integer the shift is taken from the layout  *)
(* of the Integer type, which is zero.                                     *)
(***************************************************************************)
castInteger(v, newType) ==
    CASE newType.id = "Integer" -> Result(v, FALSE)
      [] newType.id = "Numeric" ->
             Result(Known(newType, Wrap(v.raw * numericShifts[newType.precision], LongBits)),
                    FALSE)
      [] newType.id \notin {"Integer", "Numeric"} -> Throw

castNumeric(v, newType) ==
    LET diff == newType.precision - v.type.precision
    IN  CASE newType.id = "Integer" ->
                 Result(Known(getIntegerTy,
                              Wrap(SDiv(v.raw, numericShifts[newType.precision]), IntBits)),
                        FALSE)
          [] newType.id = "Numeric" ->
                 IF diff < 0
                 THEN Result(Known(newType, SDiv(v.raw, numericShifts[-diff])), FALSE)
                 ELSE IF diff > 0
                 THEN LET op == CreateOverflowBinOp(v.raw * numericShifts[diff], LongBits)
                      IN  Result(Known(newType, op.raw), op.obit)
                 ELSE Result(v, FALSE)
          [] newType.id \notin {"Integer", "Numeric"} -> Throw

sqlCastAction(v, castType) ==
    CASE v.type.id = "Integer" -> castInteger(v, castType)
      [] v.type.id = "Numeric" -> castNumeric(v, castType)
      [] v.type.id \notin {"Integer", "Numeric"} -> Throw
sqlCast(v, newType) ==
    IF isUnknown(v) THEN Throw
    ELSE nullHandler1(sqlCastAction, v, toNotNullableTy(newType))

(***************************************************************************)
(* Three-valued logic.  The result of nullable operands is chosen among    *)
(* three values; the null among them is made by getNull.                   *)
(***************************************************************************)
Chosen(null, decided, decision, unknown, default) ==
    IF null.tag # "value" THEN null
    ELSE IF decided THEN Result(createNullValue(Known(getBoolTy, decision)), FALSE)
    ELSE IF unknown THEN null
    ELSE Result(createNullValue(Known(getBoolTy, default)), FALSE)

nullBool == NullResult(toNullableTy(getBoolTy))

sqlAnd(lhs, rhs) ==
    IF ~isNullable(lhs) /\ ~isNullable(rhs)
    THEN Result(Known(getBoolTy, IF lhs.raw = 1 /\ rhs.raw = 1 THEN 1 ELSE 0), FALSE)
    ELSE Chosen(nullBool, isFalse(lhs) \/ isFalse(rhs), 0, isNull(lhs) \/ isNull(rhs), 1)

sqlOr(lhs, rhs) ==
    IF ~isNullable(lhs) /\ ~isNullable(rhs)
    THEN Result(Known(getBoolTy, IF lhs.raw = 1 \/ rhs.raw = 1 THEN 1 ELSE 0), FALSE)
    ELSE Chosen(nullBool, isTrue(lhs) \/ isTrue(rhs), 1, isNull(lhs) \/ isNull(rhs), 0)

sqlNot(v) ==
    nullHandler1(LAMBDA x, ty : Result(Known(getBoolTy, 1 - x.raw), FALSE), v, v.type)
=============================================================================
