----------------------------- MODULE SqlValues ------------------------------
(***************************************************************************)
(* SQL values.  The program has every value twice: as a generated value,   *)
(* whose operations are emitted into the compiled query                    *)
(* (src/sql/SqlValues.cpp), and as a native value, which the interpreter   *)
(* of INSERT and the result callbacks use (src/native/sql/SqlValues.cpp).  *)
(* Both read and write the same table memory, so they must agree.          *)
(*                                                                         *)
(* A class of values with an integral representation is described by a     *)
(* record of what its member functions do:                                 *)
(*   bits       the width of its representation,                           *)
(*   cast       the conversion its castString uses,                        *)
(*   castPtr    the conversion its castString of a run-time string uses,   *)
(*   orders     how compare works: on the signed representation or not yet *)
(*   null       the text getNull casts for the value behind a null.        *)
(* "notimplemented" stands for NotImplementedException, "unreachable" for  *)
(* a case that the switch over the types does not have.                    *)
(*                                                                         *)
(* A string is a sequence of bytes (0..ByteSize-1).  The memory of a       *)
(* Varchar is the length in front of the characters; a Text takes two      *)
(* words, which hold the length and the characters of a short text, or the *)
(* tagged address of the first and the address past the last character of  *)
(* a long one, kept in the pool of strings.                                *)
(***************************************************************************)
EXTENDS LegacyTypes

CONSTANT WordBytes      \* bytes of a word: 8

ASSUME WordAssumption == WordBytes \in Nat \ {0} /\ 2 * WordBytes <= ByteSize \div 2

inplaceMax == 2 * WordBytes - 1     \* 15: a longer text is kept in the pool
topBit == (ByteSize^WordBytes) \div 2

(* the bytes of a word, least significant first, and the word they encode *)
Encode(n) == [i \in 1..WordBytes |-> (n \div ByteSize^(i - 1)) % ByteSize]
Decode(bytes) == FoldLeft(LAMBDA n, b : ByteSize * n + b, 0, Reverse(bytes))
Word0(words) == SubSeq(words, 1, WordBytes)
Word1(words) == SubSeq(words, WordBytes + 1, 2 * WordBytes)

(* memory after the bytes were copied to the given offset *)
Copied(memory, offset, bytes) ==
    [i \in 1..Max({Len(memory), offset + Len(bytes)}) |->
        IF i \in (offset + 1)..(offset + Len(bytes)) THEN bytes[i - offset]
        ELSE memory[i]]

Blank == 32 % ByteSize
Unreachable == [tag |-> "unreachable"]
Unknown == [type |-> getUnknownTy, raw |-> 0, null |-> TRUE]
Known(type, raw) == [type |-> type, raw |-> raw, null |-> FALSE]

OfType(n, type) == IF n = Throw THEN Throw ELSE Value(Known(type, n.v))

Parse(conversion, text, type) ==
    CASE conversion = "integer"        -> castStringToIntegerValue(text)
      [] conversion = "unsigned long"  -> castStringToUnsignedLongIntegerValue(text)
      [] conversion = "numeric"        -> castStringToNumericValue(text, type.precision)
      [] conversion = "date"           -> castStringToDateValue(text)
      [] conversion = "timestamp"      -> castStringToTimestampValue(text)
      [] conversion = "bool"           -> IF text = <<"true">> THEN Value(1)
                                          ELSE IF text = <<"false">> THEN Value(0)
                                          ELSE Throw
      [] conversion = "notimplemented" -> Throw

-----------------------------------------------------------------------------
(* Generated values *)

Integer     == [bits |-> IntBits, cast |-> "integer", castPtr |-> "integer",
                orders |-> "signed", null |-> <<"0">>]
LongInteger == [bits |-> LongBits, cast |-> "unsigned long", castPtr |-> "integer",
                orders |-> "signed", null |-> "unreachable"]
Numeric     == [bits |-> LongBits, cast |-> "numeric", castPtr |-> "numeric",
                orders |-> "signed", null |-> <<"0">>]
Bool        == [bits |-> 1, cast |-> "bool", castPtr |-> "notimplemented",
                orders |-> "signed", null |-> <<"false">>]
Date        == [bits |-> DateBits, cast |-> "date", castPtr |-> "date",
                orders |-> "signed", null |-> "notimplemented"]
Timestamp   == [bits |-> TimeBits, cast |-> "timestamp", castPtr |-> "timestamp",
                orders |-> "signed", null |-> "notimplemented"]

Class(type) ==
    CASE type.id = "Integer"     -> Integer
      [] type.id = "LongInteger" -> LongInteger
      [] type.id = "Numeric"     -> Numeric
      [] type.id = "Bool"        -> Bool
      [] type.id = "Date"        -> Date
      [] type.id = "Timestamp"   -> Timestamp

Integral == {"Integer", "LongInteger", "Numeric", "Bool", "Date", "Timestamp"}
BasicString == {"Char", "Varchar"}

(***************************************************************************)
(* A Varchar, and a Char of more than one character: a pointer to the      *)
(* characters and a length as wide as the type's length needs.  A literal  *)
(* must fit into the type; the length of a run-time string is cut.         *)
(***************************************************************************)
Varchar_castString(text, type) ==
    IF Len(text) > type.length
    THEN Throw
    ELSE Value(Known(type, [bytes |-> text, len |-> Len(text)]))

Varchar_castPtr(text, type) ==
    Value(Known(type, [bytes |-> text,
                       len |-> Len(text) % ByteSize^lengthIndicatorSize(type.length)]))

Varchar_load(memory, type) ==
    LET size == lengthIndicatorSize(type.length)
    IN  Known(type, [bytes |-> SubSeq(memory, size + 1, Len(memory)),
                     len |-> Decode(SubSeq(memory, 1, size))])

Varchar_store(v, memory) ==
    LET size == lengthIndicatorSize(v.type.length)
        indicator == [i \in 1..size |-> (v.raw.len \div ByteSize^(i - 1)) % ByteSize]
    IN  Copied(Copied(memory, 0, indicator), size, SubSeq(v.raw.bytes, 1, v.raw.len))

(***************************************************************************)
(* A Char of length one is a single byte, without a length.                *)
(***************************************************************************)
Char_castString(text, type) ==
    IF type.length = 1
    THEN IF Len(text) = 1 THEN Value(Known(type, [bytes |-> text, len |-> 1]))
                          ELSE Unreachable
    ELSE Varchar_castString(text, type)

Char_castPtr(text, type) ==
    IF type.length = 1
    THEN Value(Known(type, [bytes |-> SubSeq(text, 1, 1), len |-> 1]))
    ELSE Varchar_castPtr(text, type)

Char_load(memory, type) ==
    IF type.length = 1
    THEN Known(type, [bytes |-> SubSeq(memory, 1, 1), len |-> 1])
    ELSE Varchar_load(memory, type)

Char_store(v, memory) ==
    IF v.type.length = 1
    THEN Copied(memory, 0, v.raw.bytes)
    ELSE Varchar_store(v, memory)

equalPrefixes(str1, str2) ==
    LET len == Min({str1.len, str2.len})
    IN  SubSeq(str1.bytes, 1, len) = SubSeq(str2.bytes, 1, len)

(* two strings are equal if their lengths and their characters are *)
equalBuffers(str1, str2) ==
    /\ str1.len = str2.len
    /\ SubSeq(str1.bytes, 1, str1.len) = SubSeq(str2.bytes, 1, str2.len)

(***************************************************************************)
(* A Text: the two words of it.  The generated functions that read it take *)
(* its first byte for the length if it is at most inplaceMax; otherwise    *)
(* they take the first word, with its tag, for the address of the first    *)
(* character, and the low byte of the difference of the words for the      *)
(* length.                                                                 *)
(***************************************************************************)
storeText(text, address, memory) ==
    IF Len(text) > inplaceMax
    THEN Encode(address + topBit) \o Encode(address + Len(text))
    ELSE Copied(memory, 0, <<Len(text)>> \o text)

textInplace(words) == words[1] <= inplaceMax

getLengthText(words) ==
    IF textInplace(words)
    THEN words[1]
    ELSE (Decode(Word1(words)) - Decode(Word0(words))) % ByteSize

(* the characters the generated code compares, or a wild read *)
textBegin(words, pool) ==
    IF textInplace(words)
    THEN Value(SubSeq(words, 2, 2 * WordBytes))
    ELSE IF Decode(Word0(words)) \in DOMAIN pool
         THEN Value(pool[Decode(Word0(words))])
         ELSE [tag |-> "wild"]

Text_equals(words1, words2, pool) ==
    LET begin1 == textBegin(words1, pool)
        begin2 == textBegin(words2, pool)
        len == getLengthText(words1)
    IN  IF len # getLengthText(words2) THEN Value(FALSE)
        ELSE IF "wild" \in {begin1.tag, begin2.tag} THEN [tag |-> "wild"]
        ELSE Value(SubSeq(begin1.v, 1, len) = SubSeq(begin2.v, 1, len))

-----------------------------------------------------------------------------
(* castString, load, store, hash, equals and compare of a generated value. *)
(* The two words of a Text are on the stack and are not cleared.           *)

castString(text, type, address, stack) ==
    CASE type.id = "Unknown" -> Value(Unknown)
      [] type.id \in Integral \ {"LongInteger"} ->
             OfType(Parse(Class(type).cast, text, type), type)
      [] type.id = "Varchar" -> Varchar_castString(text, type)
      [] type.id = "Char"    -> Char_castString(text, type)
      [] type.id = "Text"    ->
             Value(Known(type, storeText(text, address, stack)))
      [] type.id = "LongInteger" -> Unreachable

castPtr(text, type, address, stack) ==
    CASE type.id = "Unknown" -> Value(Unknown)
      [] type.id \in Integral \ {"LongInteger"} ->
             OfType(Parse(Class(type).castPtr, text, type), type)
      [] type.id = "Varchar" -> Varchar_castPtr(text, type)
      [] type.id = "Char"    -> Char_castPtr(text, type)
      [] type.id = "Text"    ->
             Value(Known(type, storeText(text, address, stack)))
      [] type.id = "LongInteger" -> Unreachable

fromRawValues(raw, type) == Known(type, raw)

loadNotNull(memory, type) ==
    CASE type.id = "Bool"               -> Throw
      [] type.id \in Integral \ {"Bool"} -> Value(Known(type, memory))
      [] type.id = "Varchar"            -> Value(Varchar_load(memory, type))
      [] type.id = "Char"               -> Value(Char_load(memory, type))
      [] type.id = "Text"               -> Value(Known(type, memory))

storeNotNull(v, memory) ==
    CASE v.type.id \in Integral  -> v.raw
      [] v.type.id = "Varchar"   -> Varchar_store(v, memory)
      [] v.type.id = "Char"      -> Char_store(v, memory)
      [] v.type.id = "Text"      -> v.raw

(***************************************************************************)
(* A nullable value: the value and, behind it, the null indicator.         *)
(***************************************************************************)
Nullable(v, type, null) ==
    IF v = Throw THEN Throw ELSE Value([v.v EXCEPT !.type = type, !.null = null])

load(memory, type) ==
    IF ~type.nullable THEN loadNotNull(memory, type)
    ELSE Nullable(loadNotNull(memory.value, toNotNullableTy(type)), type, memory.null)

store(v, memory) ==
    IF ~v.type.nullable THEN storeNotNull(v, memory)
    ELSE [value |-> storeNotNull(v, memory.value), null |-> v.null]

(***************************************************************************)
(* The value behind a null: getNull casts a text to the type.  For a Bool  *)
(* it is Integer::castString that is given the text "false".               *)
(***************************************************************************)
getNull(type) ==
    LET null(v) == IF v = Throw THEN Throw
                   ELSE Value([type |-> toNullableTy(type), raw |-> v.v, null |-> TRUE])
    IN  CASE type.id \in {"Integer", "Bool"} ->
                 null(castStringToIntegerValue(Class(type).null))
          [] type.id = "Numeric" ->
                 null(castStringToNumericValue(Numeric.null, type.precision))
          [] type.id \in BasicString ->
                 null(Value([bytes |-> [i \in 1..type.length |-> Blank],
                             len |-> type.length]))
          [] type.id \in {"Date", "Timestamp"} -> Throw
          [] type.id \in {"Unknown", "LongInteger", "Text"} -> Unreachable

(***************************************************************************)
(* Hash values are kept as what they are computed from: the zero-extended  *)
(* bits of an integral value (the mixing that follows is a bijection), the *)
(* characters of a string.  The loop over the characters of a string tests *)
(* its condition behind the body: it always reads one character.           *)
(***************************************************************************)
genIntHash(raw, bits) == <<"int", raw % 2^bits>>

genStringHash(bytes, len) ==
    <<"string", IF len = 0 THEN <<(bytes \o <<0>>)[1]>> ELSE SubSeq(bytes, 1, len)>>

hash(v, pool) ==
    CASE v.null -> <<"null">>
      [] ~v.null /\ v.type.id \in Integral -> genIntHash(v.raw, Class(v.type).bits)
      [] ~v.null /\ v.type.id \in BasicString -> genStringHash(v.raw.bytes, v.raw.len)
      [] ~v.null /\ v.type.id = "Text" ->
             LET begin == textBegin(v.raw, pool)
             IN  IF begin.tag = "wild" THEN <<"wild">>
                 ELSE genStringHash(begin.v, getLengthText(v.raw))

(***************************************************************************)
(* Equality: values of different types are never equal, and neither is a   *)
(* null to anything.                                                       *)
(***************************************************************************)
equals(v, other, pool) ==
    IF v.type.id = "Unknown" \/ ~EqualTypes(v.type, other.type, "WithoutNullable")
       \/ v.null \/ other.null
    THEN Value(FALSE)
    ELSE CASE v.type.id \in Integral    -> Value(v.raw = other.raw)
           [] v.type.id \in BasicString -> Value(equalBuffers(v.raw, other.raw))
           [] v.type.id = "Text"        -> Text_equals(v.raw, other.raw, pool)

(***************************************************************************)
(* Order: a comparison of the raw values as signed numbers, for every      *)
(* integral class; strings are not ordered.  Only the left value is asked  *)
(* whether it is null: sqlCompare takes the values behind nullable ones.   *)
(***************************************************************************)
Signed(raw, type) == Wrap(raw, Class(type).bits)

compare(v, other, mode) ==
    IF \/ v.type.id = "Unknown"
       \/ v.type.nullable /\ (v.null \/ ~EqualTypes(v.type, other.type, "WithoutNullable"))
    THEN Value(FALSE)
    ELSE IF v.type.id \notin Integral THEN Throw
    ELSE LET a == Signed(v.raw, v.type)
             b == Signed(other.raw, v.type)
         IN  Value(CASE mode = "less" -> a < b
                     [] mode = "leq"  -> a <= b
                     [] mode = "eq"   -> a = b
                     [] mode = "geq"  -> a >= b
                     [] mode = "gtr"  -> a > b)
=============================================================================
