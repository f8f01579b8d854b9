------------------------------ MODULE SqlTypes ------------------------------
(***************************************************************************)
(* SQL types (src/sql/SqlType.{hpp,cpp}).  A type is a record: its TypeID, *)
(* the length of a Char or Varchar, the layout of a Numeric (length and    *)
(* precision share a union with the length of a string, so both are zero   *)
(* for every other type) and whether it is nullable.                       *)
(*                                                                         *)
(* The widths of the machine are parameters, so that the cases at their    *)
(* limits are met on small instances: the code has IntBits = DateBits = 32,*)
(* LongBits = TimeBits = 64, MaxDigits = 18 and ByteSize = 256.  (Days are *)
(* counted from 4714 BC, so dates keep a width of their own.)              *)
(***************************************************************************)
EXTENDS Integers, Sequences

CONSTANTS
    IntBits,      \* width of an Integer
    LongBits,     \* width of a LongInteger and of a Numeric
    DateBits,     \* width of a Date
    TimeBits,     \* width of a Timestamp
    MaxDigits,    \* std::numeric_limits<long>::digits10
    ByteSize      \* number of values of a byte

ASSUME WidthsAssumption ==
    /\ IntBits \in Nat \ {0} /\ LongBits \in Nat \ {0} /\ IntBits <= LongBits
    /\ DateBits \in Nat \ {0} /\ TimeBits \in Nat \ {0}
    /\ MaxDigits \in Nat \ {0}
    /\ ByteSize \in Nat \ {0, 1}

\* 1 shifted to the left by n bits
powerOfTwo[n \in Nat] == IF n = 0 THEN 1 ELSE 2 * powerOfTwo[n - 1]

(***************************************************************************)
(* The two's complement number that the low `bits` bits of n stand for.    *)
(***************************************************************************)
Wrap(n, bits) ==
    LET half == powerOfTwo[bits - 1]
    IN  ((n + half) % (2 * half)) - half

Fits(n, bits) ==
    LET half == powerOfTwo[bits - 1]
    IN  -half <= n /\ n < half

-----------------------------------------------------------------------------
TypeIDs == {"Unknown", "Bool", "Integer", "LongInteger", "Char", "Varchar",
            "Numeric", "Date", "Timestamp", "Text"}

SqlType(id, nullable) ==
    [id |-> id, length |-> 0, precision |-> 0, nullable |-> nullable]

getUnknownTy     == SqlType("Unknown", TRUE)
getBoolTy        == SqlType("Bool", FALSE)
getDateTy        == SqlType("Date", FALSE)
getIntegerTy     == SqlType("Integer", FALSE)
getLongIntegerTy == SqlType("LongInteger", FALSE)
getTimestampTy   == SqlType("Timestamp", FALSE)
getTextTy        == SqlType("Text", FALSE)
getCharTy(n)     == [SqlType("Char", FALSE) EXCEPT !.length = n]
getVarcharTy(n)  == [SqlType("Varchar", FALSE) EXCEPT !.length = n]

Least(a, b) == IF a <= b THEN a ELSE b

(***************************************************************************)
(* A Numeric is never longer than a long can hold and never has more       *)
(* digits after the point than digits.                                     *)
(***************************************************************************)
getNumericTy(length, precision) ==
    LET len == Least(length, MaxDigits)
    IN  [SqlType("Numeric", FALSE) EXCEPT !.length = len,
                                          !.precision = Least(precision, len)]

toNullableTy(type)    == [type EXCEPT !.nullable = TRUE]
toNotNullableTy(type) == [type EXCEPT !.nullable = FALSE]

(***************************************************************************)
(* The name under which the LLVM type of a value is cached.  A Varchar or  *)
(* Char is named by its length, a Numeric by its layout, a nullable type   *)
(* by a marker.                                                            *)
(***************************************************************************)
getName(type) ==
    <<type.id,
      IF type.id \in {"Char", "Varchar", "Numeric"} THEN type.length ELSE 0,
      IF type.id = "Numeric" THEN type.precision ELSE 0,
      type.nullable>>

(***************************************************************************)
(* Width in bytes of the length in front of the characters of a Varchar    *)
(* (or of a Char of more than one character).                              *)
(***************************************************************************)
lengthIndicatorSize(length) ==
    IF length < ByteSize THEN 1 ELSE IF length < ByteSize * ByteSize THEN 2 ELSE 4

(***************************************************************************)
(* The shape of the memory a value occupies: the LLVM type toLLVMTy        *)
(* returns, built on the first use of its name (the cache only saves the   *)
(* construction: the shape is a function of the name).                     *)
(***************************************************************************)
createLLVMTy(type) ==
    LET shape ==
            CASE type.id = "Unknown"                       -> <<"void">>
              [] type.id = "Bool"                          -> <<"int", 1>>
              [] type.id = "Integer"                       -> <<"int", IntBits>>
              [] type.id \in {"LongInteger", "Numeric"}    -> <<"int", LongBits>>
              [] type.id = "Date"                          -> <<"int", DateBits>>
              [] type.id = "Timestamp"                     -> <<"int", TimeBits>>
              [] type.id = "Char" /\ type.length = 1       -> <<"byte">>
              [] type.id \in {"Char", "Varchar"} /\ ~(type.id = "Char" /\ type.length = 1)
                     -> <<"string", lengthIndicatorSize(type.length), type.length>>
              [] type.id = "Text"                          -> <<"words">>
    IN  IF type.nullable THEN <<"nullable", shape>> ELSE <<"plain", shape>>

(***************************************************************************)
(* Equality of types: any two Texts are equal; otherwise all fields are    *)
(* compared (memcmp), with or without the nullable marker.                 *)
(***************************************************************************)
EqualTypes(type1, type2, mode) ==
    IF type1.id = "Text"
    THEN type2.id = "Text"
    ELSE IF mode = "WithoutNullable"
         THEN toNotNullableTy(type1) = toNotNullableTy(type2)
         ELSE type1 = type2
=============================================================================
