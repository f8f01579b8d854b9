--------------------------- MODULE MCColumnValues ---------------------------
(***************************************************************************)
(* Types, texts and operands for model checking ColumnValues on a machine  *)
(* with Integers of 8 bits, Numerics of 16, bytes of 3 bits and words of   *)
(* two bytes.                                                              *)
(***************************************************************************)
EXTENDS ColumnValues

MCColumnTypes ==
    {getIntegerTy, getNumericTy(4, 2), getNumericTy(4, 0), getDateTy, getTimestampTy,
     getVarcharTy(2), getVarcharTy(ByteSize), getTextTy}

IntegerTexts ==
    {<<"0">>, <<"7">>, <<"-", "7">>, <<" ", "7", " ">>, <<"+", "0", "7">>, <<"7", ".", "9">>,
     <<"1", "2", "7">>, <<"-", "1", "2", "8">>, <<"1", "2", "8">>, <<"1", "0", "0", "0">>,
     <<"-">>, <<" ">>, <<"7", "x">>}

NumericTexts ==
    {<<"0">>, <<"5">>, <<"-", "5">>, <<"5", ".", "0", "0">>, <<"0", ".", "0", "5">>,
     <<".", "5">>, <<"0", ".", "5", "0">>, <<"-", "1", "2", ".", "3", "4">>,
     <<"3", "2", "7", ".", "6", "7">>, <<"3", "2", "7", ".", "6", "8">>,
     <<"1", ".", "0", "0", "5">>, <<"1", ".", "0", "0", "0">>, <<"1", ".", "2", ".", "3">>,
     <<"9", "9", "9", "9", "9">>}

DateTexts ==
    {[numbers |-> <<y, m, d>>, between |-> <<"-", "-">>] :
        y \in {1900, 2000}, m \in {0, 2, 3, 12}, d \in {1, 29, 31, 32}}
    \cup {[numbers |-> <<2000, 1, 1>>, between |-> <<"-", ".">>]}

TimestampTexts ==
    {[numbers |-> <<2000, m, d>> \o clock,
      between |-> SubSeq(<<"-", "-", " ", ":", ":", ".">>, 1, 2 + Len(clock))] :
        m \in {1, 2}, d \in {1, 29},
        clock \in {<<0, 0, 0>>, <<1, 1, 1>>, <<1, 1, 1, 1>>, <<0, 1, 0, 0>>, <<2, 0, 0>>}}

MCTexts(t) ==
    CASE t.id = "Integer"   -> IntegerTexts
      [] t.id = "Numeric"   -> NumericTexts
      [] t.id = "Date"      -> DateTexts
      [] t.id = "Timestamp" -> TimestampTexts
      [] t.id = "Varchar"   -> UNION {[1..n -> {1, 6}] : n \in 0..3}
      [] t.id = "Text"      -> UNION {[1..n -> {1, 6}] : n \in 0..3} \cup {<<1, 6, 1, 6>>}

MCOperands ==
    {Known(getIntegerTy, n) : n \in {0, 1, -1, 7, 100, 127, -128}}
    \cup {[type |-> toNullableTy(getIntegerTy), raw |-> n, null |-> n = 0] : n \in {0, 5}}
    \cup {Known(getNumericTy(4, p), n) : p \in 0..2, n \in {0, -7, 250, 9999, 32767, -32768}}
    \cup {Known(getNumericTy(4, 3), 1)}
    \cup {[type |-> toNullableTy(getNumericTy(4, 1)), raw |-> n, null |-> n = 0] : n \in {0, 15}}
    \cup {Known(getBoolTy, n) : n \in {0, 1}}
=============================================================================
