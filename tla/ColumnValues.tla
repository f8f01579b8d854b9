---------------------------- MODULE ColumnValues ----------------------------
(***************************************************************************)
(* The life of the value in one column of one row, through the two         *)
(* representations it has:                                                 *)
(*   INSERT casts the text to a native value and stores it;                *)
(*   a scan loads a generated value from the same memory;                  *)
(*   UPDATE casts the new text to a generated value, or takes the scanned  *)
(*     one for a column it does not change, translates it into a native    *)
(*     value and stores that;                                              *)
(*   WHERE compares the scanned value with a literal;                      *)
(*   the result callback receives the translated value;                    *)
(*   expressions compute with generated values.                            *)
(***************************************************************************)
EXTENDS SqlOperators

CONSTANTS
    ColumnTypes,    \* types a column is created with
    Texts(_),       \* texts written into, or compared with, a column of a type
    Garbage,        \* contents of memory and stack not written yet (bytes)
    Addresses,      \* where the pool may put a string
    Operands        \* generated values that expressions compute with

(***************************************************************************)
(* A generated value is of a type that getBoolTy, getNumericTy and the     *)
(* others make, is null only if its type is nullable, and fits its class.  *)
(***************************************************************************)
GeneratedValue(v) ==
    LET t == v.type
    IN  /\ v \in [type : [id : TypeIDs, length : Nat, precision : Nat, nullable : BOOLEAN],
                  raw : Int \cup Seq(Nat) \cup [bytes : Seq(Nat), len : Nat],
                  null : BOOLEAN]
        /\ v.null => t.nullable
        /\ t.id = "Unknown" => v.null
        /\ IF t.id = "Numeric" THEN t.precision <= t.length /\ t.length <= MaxDigits
                               ELSE t.precision = 0
        /\ t.id = "Bool" => v.raw \in {0, 1}
        /\ t.id \in Integral \ {"Bool"} => v.raw \in Int /\ Fits(v.raw, Class(t).bits)

ASSUME OperandsAssumption == \A v \in Operands : GeneratedValue(v)

None == [tag |-> "none"]

VARIABLES
    type,           \* the type of the column
    memory,         \* the column's memory in this row
    pool,           \* StringPool: address -> string
    written,        \* the text the last successful statement wrote, or None
    outcome,        \* what the last statement found, handed over or computed
    overflowFlag    \* Sql::Operators::overflowFlag

columnVars == <<type, memory, pool, written, outcome, overflowFlag>>

(* memory of a row that was just added *)
Fresh(t, byte) ==
    CASE t.id \in Integral -> 0
      [] t.id = "Varchar"  -> [i \in 1..(lengthIndicatorSize(t.length) + t.length) |-> byte]
      [] t.id = "Text"     -> [i \in 1..2 * WordBytes |-> byte]

ColumnInit ==
    /\ type \in ColumnTypes
    /\ \E byte \in Garbage : memory = Fresh(type, byte)
    /\ pool = <<>>
    /\ written = None /\ outcome = None
    /\ overflowFlag = FALSE

(* StringPool::put: only a long text is put into the pool *)
put(text, address) ==
    IF type.id = "Text" /\ Len(text) > inplaceMax
    THEN [a \in DOMAIN pool \cup {address} |-> IF a = address THEN text ELSE pool[a]]
    ELSE pool

(***************************************************************************)
(* INSERT: SqlTuple::store of the native value.                            *)
(***************************************************************************)
Insert(text, address) ==
    /\ written = None /\ outcome = None /\ address \notin DOMAIN pool
    /\ LET v == NativeCastString(text, type, address)
       IN  /\ v.tag = "value"
           /\ memory' = NativeStore(v.v, memory)
           /\ pool' = put(text, address)
           /\ written' = [tag |-> "insert", v |-> text]
    /\ outcome' = None
    /\ UNCHANGED <<type, overflowFlag>>

(***************************************************************************)
(* UPDATE ... SET this column = text.  An empty text leaves the column as  *)
(* it is (Update takes the scanned value).                                 *)
(***************************************************************************)
Update(text, address, byte) ==
    /\ written # None
    /\ text # <<>> /\ address \notin DOMAIN pool
    /\ LET v == castString(text, type, address, [i \in 1..2 * WordBytes |-> byte])
       IN  /\ v.tag = "value"
           /\ memory' = NativeStore(sqlValueToNativeSqlValue(v.v).v, memory)
           /\ pool' = put(text, address)
           /\ written' = [tag |-> "update", v |-> text]
    /\ outcome' = None
    /\ UNCHANGED <<type, overflowFlag>>

(***************************************************************************)
(* UPDATE of another column of the row: the scanned value is written back. *)
(***************************************************************************)
UpdateOther ==
    /\ written # None
    /\ LET v == load(memory, type)
       IN  /\ v.tag = "value"
           /\ memory' = NativeStore(sqlValueToNativeSqlValue(v.v).v, memory)
    /\ outcome' = None
    /\ UNCHANGED <<type, pool, written, overflowFlag>>

(***************************************************************************)
(* SELECT ... WHERE this column = literal.                                 *)
(***************************************************************************)
Where(text, address, byte) ==
    /\ written # None /\ address \notin DOMAIN pool
    /\ \E v \in {load(memory, type)},
          literal \in {castString(text, type, address, [i \in 1..2 * WordBytes |-> byte])} :
           /\ v.tag = "value" /\ literal.tag = "value"
           /\ \E result \in {sqlEquals(v.v, literal.v, put(text, address))} :
                  /\ result.tag = "value"
                  /\ outcome' = [tag |-> "found", literal |-> text,
                                 match |-> isTrue(result.v)]
    /\ UNCHANGED <<type, memory, pool, written, overflowFlag>>

(***************************************************************************)
(* SELECT: TupleStream hands a native tuple to the callback.               *)
(***************************************************************************)
Select ==
    /\ written # None
    /\ LET v == load(memory, type)
       IN  /\ v.tag = "value"
           /\ outcome' = [tag |-> "received", v |-> sqlValueToNativeSqlValue(v.v).v]
    /\ UNCHANGED <<type, memory, pool, written, overflowFlag>>

(***************************************************************************)
(* A hash join or GROUP BY stores the scanned value into a tuple of its    *)
(* own, in memory that was not cleared, and loads it again later.  (A long *)
(* Varchar written natively can have a length beyond its characters; the   *)
(* copy then reads foreign memory, which is not followed.)                 *)
(***************************************************************************)
Materialize(byte) ==
    /\ written # None
    /\ LET v == load(memory, type)
       IN  /\ v.tag = "value"
           /\ type.id = "Varchar" => v.v.raw.len <= Len(v.v.raw.bytes)
           /\ outcome' = [tag |-> "materialized",
                          v |-> load(store(v.v, Fresh(type, byte)), type).v]
    /\ UNCHANGED <<type, memory, pool, written, overflowFlag>>

(***************************************************************************)
(* An expression over two values, or the cast of one to the other's type.  *)
(* (Expressions do not touch the column: they are explored before INSERT.) *)
(***************************************************************************)
Operations == {"add", "sub", "mul", "div", "cast", "less", "and", "or", "not"}

Operation(op, a, b) ==
    CASE op = "add"  -> sqlAdd(a, b)
      [] op = "sub"  -> sqlSub(a, b)
      [] op = "mul"  -> sqlMul(a, b)
      [] op = "div"  -> sqlDiv(a, b)
      [] op = "cast" -> sqlCast(a, b.type)
      [] op = "less" -> sqlCompare(a, b, "less")
      [] op = "and"  -> sqlAnd(a, b)
      [] op = "or"   -> sqlOr(a, b)
      [] op = "not"  -> sqlNot(a)

Compute(op, a, b) ==
    /\ written = None /\ outcome = None
    /\ op \in {"and", "or", "not"} => BothAre("Bool", a, b)
    /\ \E r \in {Operation(op, a, b)} :
           /\ r.tag \in {"value", "return"}
           /\ outcome' = [tag |-> "computed", op |-> op, a |-> a, b |-> b, r |-> r]
           /\ overflowFlag' = (overflowFlag \/ (r.tag = "value" /\ r.overflow))
    /\ UNCHANGED <<type, memory, pool, written>>

ColumnNext ==
    \/ \E text \in Texts(type), address \in Addresses, byte \in Garbage :
           \/ Insert(text, address)
           \/ Update(text, address, byte)
           \/ Where(text, address, byte)
    \/ \E byte \in Garbage : Materialize(byte)
    \/ UpdateOther
    \/ Select
    \/ \E op \in Operations, a, b \in Operands : Compute(op, a, b)

ColumnSpec == ColumnInit /\ [][ColumnNext]_columnVars

-----------------------------------------------------------------------------
(***************************************************************************)
(* What a text denotes, stated without the conversions of the code: the    *)
(* number that the digits at their places stand for, in units of 10^-p;    *)
(* the day or instant of the calendar; the characters themselves.          *)
(***************************************************************************)
PlaceSum(s) == FoldFunction(+, 0, [i \in DOMAIN s |-> DigitOf(s[i]) * 10^(Len(s) - i)])
Amount(text, p) ==
    LET s == Trimmed(text)
        frac == BehindPoint(Unsigned(s))
        units == IF Len(frac) <= p THEN PlaceSum(frac) * 10^(p - Len(frac))
                 ELSE PlaceSum(frac) \div 10^(Len(frac) - p)
        n == PlaceSum(BeforePoint(Unsigned(s))) * 10^p + units
    IN  IF Negative(s) THEN -n ELSE n

LeapYear(y) == y % 4 = 0 /\ (y % 100 # 0 \/ y % 400 = 0)
DaysIn(y, m) == IF m = 2 THEN IF LeapYear(y) THEN 29 ELSE 28
                ELSE IF m \in {4, 6, 9, 11} THEN 30 ELSE 31
RealDate(n) == n[2] \in 1..12 /\ n[3] \in 1..DaysIn(n[1], n[2])

(***************************************************************************)
(* The texts a column of a type can represent.  Outside: numbers that do   *)
(* not fit their width, strings longer than their Varchar or a Varchar too *)
(* long for the native length byte, days no month has, texts the pool must *)
(* keep, and a short text whose character under the tag bit has its top    *)
(* bit set.                                                                *)
(***************************************************************************)
Representable(text, t) ==
    CASE t.id = "Integer"   -> Fits(Amount(text, 0), IntBits)
      [] t.id = "Numeric"   -> Fits(Amount(text, t.precision), LongBits)
      [] t.id = "Bool"      -> TRUE
      [] t.id = "Varchar"   -> Len(text) <= t.length /\ t.length < ByteSize
      [] t.id = "Date"      -> RealDate(text.numbers)
      [] t.id = "Timestamp" -> RealDate(text.numbers)
      [] t.id = "Text"      ->
             Len(text) <= inplaceMax
             /\ (Len(text) >= WordBytes - 1 /\ WordBytes > 1
                     => text[WordBytes - 1] < ByteSize \div 2)

(* two texts of a type denote the same value *)
SameValue(text1, text2, t) ==
    CASE t.id = "Integer" -> Amount(text1, 0) = Amount(text2, 0)
      [] t.id = "Numeric" -> Amount(text1, t.precision) = Amount(text2, t.precision)
      [] t.id \notin {"Integer", "Numeric"} -> text1 = text2

(* the text a generated value prints stands for the given text *)
Shows(v, text, t) ==
    CASE t.id = "Integer" -> v.raw = Amount(text, 0)
      [] t.id = "Numeric" -> v.raw = Amount(text, t.precision)
      [] t.id = "Timestamp" ->
             LET shown == printTimestamp(v.raw).numbers
             IN  SubSeq(shown, 1, 6) = SubSeq(text.numbers, 1, 6)
                 /\ (IF Len(shown) = 7 THEN shown[7] ELSE 0)
                    = (IF Len(text.numbers) = 7 THEN text.numbers[7] ELSE 0)
      [] t.id \notin {"Integer", "Numeric", "Timestamp"} ->
             genPrintValue(v, pool) = text

(***************************************************************************)
(* What generated code scans from a column is what the last INSERT or      *)
(* UPDATE wrote there with native code, for every representable text:      *)
(* both sides lay the value out alike, and a shorter string leaves nothing *)
(* of the longer one it replaces.  A hash join or GROUP BY that keeps the  *)
(* value in a tuple of its own finds it there again.                       *)
(***************************************************************************)
WrittenIsRead ==
    written # None /\ Representable(written.v, type) =>
        LET v == load(memory, type)
        IN  /\ v.tag = "value" => Shows(v.v, written.v, type)
            /\ outcome.tag = "materialized" => Shows(outcome.v, written.v, type)

(***************************************************************************)
(* WHERE column = literal finds the row exactly when the literal denotes   *)
(* the value of the column, although the column was cast by native code    *)
(* and the literal by generated code; and values that are equal have equal *)
(* hash values, so that hash joins and GROUP BY bring them together (the   *)
(* empty string apart, whose hash reads a character that is not its own).  *)
(***************************************************************************)
LiteralFindsItsValue ==
    /\ outcome.tag = "found" /\ Representable(written.v, type)
       /\ Representable(outcome.literal, type) =>
           (outcome.match <=> SameValue(outcome.literal, written.v, type))
    /\ outcome.tag = "found" /\ outcome.match /\ outcome.literal # <<>>
       /\ Representable(written.v, type) /\ Representable(outcome.literal, type) =>
           \A address \in Addresses :
               hash(load(memory, type).v, pool)
                 = hash(castString(outcome.literal, type, address,
                                   [i \in 1..2 * WordBytes |-> 0]).v, pool)

(***************************************************************************)
(* The native value a result callback receives reads as the value that was *)
(* written (a short Text set by UPDATE apart: the byte under the tag bit   *)
(* is then whatever was on the stack of the compiled query); the           *)
(* text toString makes of a number is the text the generated code prints,  *)
(* and casting it again gives the same value.                              *)
(***************************************************************************)
ReceivedIsWritten ==
    /\ outcome.tag = "received" /\ Representable(written.v, type)
    /\ type.id = "Text" /\ written.tag = "update" => Len(written.v) >= WordBytes - 1
    =>  /\ type.id \in {"Varchar", "Text"} =>
               NativeHash(outcome.v, pool) = <<"string", written.v>>
        /\ type.id \in {"Integer", "Numeric"} =>
               /\ toString(outcome.v, pool) = Value(genPrintValue(outcome.v, pool))
               /\ NativeCastString(toString(outcome.v, pool).v, type, 0).v = outcome.v
        /\ type.id = "Date" =>
               castStringToDateValue(printDate(outcome.v.raw)) = Value(outcome.v.raw)

(***************************************************************************)
(* Arithmetic is exact or the overflow flag is set: the result of an       *)
(* operation on two values of one class, with its own scale, is the exact  *)
(* sum, difference or product of the amounts, the truncated quotient, or a *)
(* null when an operand is one.  Outside: a product with more digits       *)
(* behind the point than a type can have, a quotient whose dividend has    *)
(* the larger precision, casts to Integer, and the order of Bools, which   *)
(* are compared as signed numbers of one bit (true is less than false).    *)
(***************************************************************************)
Scale(v) == powerOfTen[v.type.precision]

ExactResult(op, a, b, r) ==
    CASE op = "add" ->
             r.raw * Scale(a) * Scale(b) = Scale(r) * (a.raw * Scale(b) + b.raw * Scale(a))
      [] op = "sub" ->
             r.raw * Scale(a) * Scale(b) = Scale(r) * (a.raw * Scale(b) - b.raw * Scale(a))
      [] op = "mul" ->
             a.type.precision + b.type.precision <= MaxDigits =>
                 r.raw * Scale(a) * Scale(b) = Scale(r) * a.raw * b.raw
      [] op = "div" ->
             a.type.precision <= b.type.precision =>
                 r.raw = SDiv(a.raw * Scale(b) * Scale(r), b.raw * Scale(a))
      [] op = "cast" ->
             r.type.id # "Integer" /\ r.type.precision >= a.type.precision
             /\ Fits(a.raw * powerOfTen[r.type.precision - a.type.precision], LongBits) =>
                 r.raw * Scale(a) = Scale(r) * a.raw
      [] op = "less" -> a.type.id # "Bool" => ((r.raw = 1) <=> (a.raw < b.raw))
      [] op = "and"  -> (r.raw = 1) <=> (a.raw = 1 /\ b.raw = 1)
      [] op = "or"   -> (r.raw = 1) <=> (a.raw = 1 \/ b.raw = 1)
      [] op = "not"  -> (r.raw = 1) <=> (a.raw # 1)

(* a cast and a negation do not look at their second operand *)
NullOperand(op, a, b) == a.null \/ (b.null /\ op \notin {"cast", "not"})

ExactOrFlagged ==
    outcome.tag = "computed" /\ outcome.r.tag = "value" =>
        LET r == outcome.r.v
        IN  IF NullOperand(outcome.op, outcome.a, outcome.b) THEN r.null
            ELSE overflowFlag \/ (~r.null /\ ExactResult(outcome.op, outcome.a, outcome.b, r))
=============================================================================
