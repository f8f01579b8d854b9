---------------------------- MODULE NativeValues ----------------------------
(***************************************************************************)
(* Native SQL values (src/native/sql/SqlValues.cpp), the twin of the       *)
(* generated ones in SqlValues: INSERT casts and stores them, the result   *)
(* callbacks receive them, and the value translator                        *)
(* (src/sql/ValueTranslator.cpp) turns generated values into them.         *)
(*                                                                         *)
(* The class of an integral value is described by the width of its         *)
(* representation, the conversion of its castString and the text toString  *)
(* writes; compare is not implemented in any class.                        *)
(***************************************************************************)
EXTENDS SqlValues

NativeInteger   == [bits |-> IntBits, cast |-> "integer", prints |-> "integer"]
NativeNumeric   == [bits |-> LongBits, cast |-> "numeric", prints |-> "numeric"]
NativeBool      == [bits |-> 1, cast |-> "bool", prints |-> "integer"]
NativeDate      == [bits |-> DateBits, cast |-> "date", prints |-> "notimplemented"]
NativeTimestamp == [bits |-> TimeBits, cast |-> "timestamp", prints |-> "notimplemented"]

NativeClass(type) ==
    CASE type.id = "Integer"   -> NativeInteger
      [] type.id = "Numeric"   -> NativeNumeric
      [] type.id = "Bool"      -> NativeBool
      [] type.id = "Date"      -> NativeDate
      [] type.id = "Timestamp" -> NativeTimestamp

NativeIntegral == Integral \ {"LongInteger"}

(***************************************************************************)
(* A native Varchar: a pointer to the characters and one byte for their    *)
(* number, whatever the length of the type is.  No text is refused.        *)
(***************************************************************************)
NativeVarchar_castString(text, type) ==
    Known(type, [bytes |-> text, len |-> Len(text) % ByteSize])

NativeVarchar_load(memory, type) ==
    Known(type, [bytes |-> Tail(memory), len |-> memory[1]])

NativeVarchar_store(v, memory) ==
    Copied(memory, 0, <<v.raw.len>> \o SubSeq(v.raw.bytes, 1, v.raw.len))

(***************************************************************************)
(* A native Text is in place if the top bit of its first word is clear:    *)
(* the tag of an address, and in a text of WordBytes - 1 characters or     *)
(* more the top bit of one of the characters.  The words of a new native   *)
(* Text are zero.                                                          *)
(***************************************************************************)
isInplace(words) == words[WordBytes] < ByteSize \div 2

untagged(words) == Decode(Word0(words)) - topBit

length(words) ==
    IF isInplace(words) THEN words[1] ELSE Decode(Word1(words)) - untagged(words)

begin(words, pool) ==
    IF isInplace(words)
    THEN Value(SubSeq(words, 2, 2 * WordBytes))
    ELSE IF untagged(words) \in DOMAIN pool THEN Value(pool[untagged(words)])
    ELSE [tag |-> "wild"]

NativeText_castString(text, address) ==
    IF Len(text) > inplaceMax
    THEN Encode(address + topBit) \o Encode(address + Len(text))
    ELSE Copied([i \in 1..2 * WordBytes |-> 0], 0, <<Len(text)>> \o text)

NativeText_equals(words1, words2, pool) ==
    /\ length(words1) = length(words2)
    /\ IF isInplace(words1) THEN words1 = words2
       ELSE begin(words1, pool) = begin(words2, pool)

(* the characters of a text, as printText and the result callback read them *)
getView(words, pool) ==
    IF begin(words, pool).tag = "wild" THEN <<"wild">>
    ELSE SubSeq(begin(words, pool).v, 1, length(words))

-----------------------------------------------------------------------------
NativeCastString(text, type, address) ==
    CASE type.id = "Unknown" -> Value(Unknown)
      [] type.id \in NativeIntegral ->
             OfType(Parse(NativeClass(type).cast, text, type), type)
      [] type.id = "Varchar" -> Value(NativeVarchar_castString(text, type))
      [] type.id = "Text"    ->
             Value(Known(type, NativeText_castString(text, address)))
      [] type.id \in {"Char", "LongInteger"} -> Unreachable

(***************************************************************************)
(* A nullable value is not loaded yet, and a Char is read as if it were a  *)
(* Text.                                                                   *)
(***************************************************************************)
NativeLoad(memory, type) ==
    CASE type.nullable \/ type.id = "LongInteger" -> Throw
      [] ~type.nullable /\ type.id \in NativeIntegral -> Value(Known(type, memory))
      [] ~type.nullable /\ type.id = "Varchar" -> Value(NativeVarchar_load(memory, type))
      [] ~type.nullable /\ type.id \in {"Char", "Text"} -> Value(Known(getTextTy, memory))

NativeStore(v, memory) ==
    CASE v.type.id \in NativeIntegral -> v.raw
      [] v.type.id = "Varchar"        -> NativeVarchar_store(v, memory)
      [] v.type.id = "Text"           -> v.raw

(***************************************************************************)
(* The hash of an integral value extends its sign (compare genIntHash);    *)
(* the hash of a string reads exactly its characters.                      *)
(***************************************************************************)
hashInteger(raw) == <<"int", raw % 2^LongBits>>
hashByteArray(bytes, len) == <<"string", SubSeq(bytes, 1, len)>>

NativeHash(v, pool) ==
    CASE v.type.id = "Unknown"        -> <<"null">>
      [] v.type.id \in NativeIntegral -> hashInteger(v.raw)
      [] v.type.id = "Varchar"        -> hashByteArray(v.raw.bytes, v.raw.len)
      [] v.type.id = "Text"           -> <<"string", getView(v.raw, pool)>>

NativeEquals(v, other, pool) ==
    /\ EqualTypes(v.type, other.type, "WithoutNullable")
    /\ v.type.id # "Unknown"
    /\ CASE v.type.id \in NativeIntegral -> v.raw = other.raw
         [] v.type.id = "Varchar"        -> equalBuffers(v.raw, other.raw)
         [] v.type.id = "Text"           -> NativeText_equals(v.raw, other.raw, pool)

toStringWithoutZeros(precision, raw) ==
    LET v == IF raw < 0 THEN -raw ELSE raw
        sign == IF raw < 0 THEN <<"-">> ELSE <<>>
        sep == 10^precision
    IN  sign \o Digits[v \div sep]
        \o (IF precision = 0 THEN <<>> ELSE <<".">> \o Digits[v % sep])

(***************************************************************************)
(* toString: a Numeric is written with its own loop over the zeros behind  *)
(* the point, of which there are at most precision - 1.                    *)
(***************************************************************************)
toStringNumeric(precision, raw) ==
    LET v == IF raw < 0 THEN -raw ELSE raw
        sign == IF raw < 0 THEN <<"-">> ELSE <<>>
        sep == 10^precision
        rest == v % sep
        zeros == Cardinality({k \in 0..(precision - 2) : 10^(precision - k) > 10 * rest})
    IN  sign \o Digits[v \div sep]
        \o (IF precision = 0 THEN <<>> ELSE <<".">> \o Zeros(zeros) \o Digits[rest])

toString(v, pool) ==
    CASE v.type.id = "Unknown" -> Value(<<"null">>)
      [] v.type.id \in {"Integer", "Bool"} -> Value(toStringNumeric(0, v.raw))
      [] v.type.id = "Numeric" -> Value(toStringNumeric(v.type.precision, v.raw))
      [] v.type.id = "Text"    -> Value(getView(v.raw, pool))
      [] v.type.id \in {"Varchar", "Char", "Date", "Timestamp"} -> Throw

-----------------------------------------------------------------------------
(* the address and the length of a generated Varchar, cut to one byte *)
storeStringInTextFormat(v) ==
    Known(v.type, [bytes |-> v.raw.bytes, len |-> v.raw.len % ByteSize])

(***************************************************************************)
(* A generated value becomes a native one: the generated value is stored   *)
(* into the field of a new native value.  Types the translator does not    *)
(* know give no value at all.                                              *)
(***************************************************************************)
sqlValueToNativeSqlValue(v) ==
    CASE v.type.id \in NativeIntegral \cup {"Text"} -> Value(Known(v.type, v.raw))
      [] v.type.id = "Varchar" -> Value(storeStringInTextFormat(v))
      [] v.type.id \in {"Unknown", "Char", "LongInteger"} -> [tag |-> "nullptr"]

(***************************************************************************)
(* What the generated code prints for a value.                             *)
(***************************************************************************)
genPrintAvailableValue(v, pool) ==
    CASE v.type.id = "Unknown" -> <<"null">>
      [] v.type.id \in {"Integer", "Bool", "LongInteger"} -> printNumeric(0, v.raw)
      [] v.type.id \in BasicString -> SubSeq(v.raw.bytes, 1, v.raw.len)
      [] v.type.id = "Numeric"   -> printNumeric(v.type.precision, v.raw)
      [] v.type.id = "Date"      -> printDate(v.raw)
      [] v.type.id = "Timestamp" -> printTimestamp(v.raw)
      [] v.type.id = "Text"      -> getView(v.raw, pool)

genPrintValue(v, pool) ==
    IF v.null THEN <<"null">> ELSE genPrintAvailableValue(v, pool)
=============================================================================
