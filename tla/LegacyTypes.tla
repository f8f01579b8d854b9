---------------------------- MODULE LegacyTypes -----------------------------
(***************************************************************************)
(* Reading and writing numbers, dates and timestamps                       *)
(* (src/foundations/LegacyTypes.{hpp,cpp}).                                *)
(*                                                                         *)
(* The text of a number is a sequence of characters.  The text of a date   *)
(* or a timestamp is what the parsers of those see of it: the numbers that *)
(* its runs of digits denote (an empty run denotes 0) and the characters   *)
(* between them.  A parser returns Value(n), or Throw when the code throws.*)
(***************************************************************************)
EXTENDS SqlTypes, SequencesExt

CONSTANTS
    IntDigits,                     \* digits of an Integer's text: 10
    MsBase, SecBase, MinBase, HourBase \* 1000, 60, 60 and 24

ASSUME UnitsAssumption ==
    /\ IntDigits \in Nat
    /\ MsBase \in Nat \ {0} /\ SecBase \in Nat \ {0}
    /\ MinBase \in Nat \ {0} /\ HourBase \in Nat \ {0}

Throw == [tag |-> "throw"]
Value(v) == [tag |-> "value", v |-> v]

-----------------------------------------------------------------------------
(* Numbers *)

DigitChars == <<"0", "1", "2", "3", "4", "5", "6", "7", "8", "9">>
IsDigit(c) == \E i \in 1..10 : DigitChars[i] = c
DigitOf(c) == (CHOOSE i \in 1..10 : DigitChars[i] = c) - 1
AllDigits(s) == \A i \in DOMAIN s : IsDigit(s[i])

(* result = result*10 + digit, over a run of digits *)
NumberOf(s) == FoldLeft(LAMBDA n, c : 10 * n + DigitOf(c), 0, s)

Digits[n \in Nat] ==
    IF n < 10 THEN <<DigitChars[n + 1]>>
              ELSE Append(Digits[n \div 10], DigitChars[(n % 10) + 1])
Zeros(n) == [i \in 1..n |-> "0"]

(* the shifts are a table, which ends with the digits a long can hold *)
powerOfTen[n \in Nat] == IF n = 0 THEN 1 ELSE 10 * powerOfTen[n - 1]
numericShifts == [n \in 0..MaxDigits |-> powerOfTen[n]]

(* s without its leading and trailing characters c *)
TrimmedRight(s, c) ==
    LET last == {i \in DOMAIN s : s[i] # c}
    IN  SubSeq(s, 1, IF last = {} THEN 0 ELSE Max(last))
TrimmedLeft(s, c) == Reverse(TrimmedRight(Reverse(s), c))
Trimmed(s) == TrimmedRight(TrimmedLeft(s, " "), " ")

(* the text behind its sign, and what is before and behind its first point *)
Negative(s) == s # <<>> /\ s[1] = "-"
Unsigned(s) == IF s # <<>> /\ s[1] \in {"-", "+"} THEN Tail(s) ELSE s
BeforePoint(s) == LET p == {i \in DOMAIN s : s[i] = "."}
                  IN  IF p = {} THEN s ELSE SubSeq(s, 1, Min(p) - 1)
BehindPoint(s) == SubSeq(s, Len(BeforePoint(s)) + 2, Len(s))

(***************************************************************************)
(* An Integer: optional sign, digits up to a point; what follows the point *)
(* is not looked at.  The number of digits is bounded, the number is not:  *)
(* it is cut to the width of an Integer.                                   *)
(***************************************************************************)
castStringToIntegerValue(str) ==
    LET s == Trimmed(str)
        body == Unsigned(s)
        whole == BeforePoint(body)
    IN  IF body = <<>> \/ ~AllDigits(whole) \/ Len(whole) > IntDigits
        THEN Throw
        ELSE Value(Wrap(IF Negative(s) THEN -NumberOf(whole) ELSE NumberOf(whole),
                        IntBits))

(***************************************************************************)
(* An unsigned LongInteger: the same, and the sign is read and dropped.    *)
(***************************************************************************)
castStringToUnsignedLongIntegerValue(str) ==
    LET body == Unsigned(Trimmed(str))
        whole == BeforePoint(body)
    IN  IF body = <<>> \/ ~AllDigits(whole) \/ Len(whole) > IntDigits
        THEN Throw
        ELSE Value(NumberOf(whole) % 2^LongBits)

castStringToNumericUnfilled(str, precision) ==
    LET s == Trimmed(str)
        body == Unsigned(s)
        whole == BeforePoint(body)
        frac == TrimmedRight(BehindPoint(body), "0")
        n == NumberOf(whole \o frac)
    IN  IF \/ body = <<>> \/ ~AllDigits(whole) \/ ~AllDigits(frac)
           \/ Len(whole) > MaxDigits \/ Len(frac) > precision
        THEN Throw
        ELSE Value(Wrap(IF Negative(s) THEN -n ELSE n, LongBits))

(***************************************************************************)
(* A Numeric: digits, a point, digits.  Zeros at the end of the fraction   *)
(* do not count; the fraction is filled up to the precision of the type.   *)
(***************************************************************************)
castStringToNumericValue(str, precision) ==
    LET s == Trimmed(str)
        body == Unsigned(s)
        whole == BeforePoint(body)
        frac == TrimmedRight(BehindPoint(body), "0")
        n == NumberOf(whole \o frac) * numericShifts[precision - Len(frac)]
    IN  IF \/ body = <<>> \/ ~AllDigits(whole) \/ ~AllDigits(frac)
           \/ Len(whole) > MaxDigits \/ Len(frac) > precision
        THEN Throw
        ELSE Value(Wrap(IF Negative(s) THEN -n ELSE n, LongBits))

(***************************************************************************)
(* Writing a Numeric: the zeros behind the point are written while the     *)
(* separator is larger than ten times what is left.                        *)
(***************************************************************************)
printNumeric(precision, raw) ==
    LET v == IF raw < 0 THEN -raw ELSE raw
        sign == IF raw < 0 THEN <<"-">> ELSE <<>>
        sep == 10^precision
        rest == v % sep
        zeros == Cardinality({k \in 0..(precision - 1) : 10^(precision - k) > 10 * rest})
    IN  IF precision = 0
        THEN sign \o Digits[v]
        ELSE sign \o Digits[v \div sep] \o <<".">>
             \o (IF rest = 0 THEN Zeros(precision) ELSE Zeros(zeros) \o Digits[rest])

-----------------------------------------------------------------------------
(* Dates and timestamps *)

msPerDay == HourBase * MinBase * SecBase * MsBase

mergeTime(hour, minute, second, ms) ==
    ms + MsBase * second + SecBase * MsBase * minute
       + MinBase * SecBase * MsBase * hour

splitTime(value) ==
    LET seconds == value \div MsBase
        minutes == seconds \div SecBase
    IN  <<(minutes \div MinBase) % HourBase, minutes % MinBase,
          seconds % SecBase, value % MsBase>>

mergeJulianDay(year, month, day) ==
    LET a == (14 - month) \div 12
        y == year + 4800 - a
        m == month + 12 * a - 3
    IN  day + (153 * m + 2) \div 5 + 365 * y + y \div 4 - y \div 100
            + y \div 400 - 32045

splitJulianDay(jd) ==
    LET a == jd + 32044
        b == (4 * a + 3) \div 146097
        c == a - (146097 * b) \div 4
        d == (4 * c + 3) \div 1461
        e == c - (1461 * d) \div 4
        m == (5 * e + 2) \div 153
    IN  <<100 * b + d - 4800 + m \div 10, m + 3 - 12 * (m \div 10),
          e - (153 * m + 2) \div 5 + 1>>

DateInRange(n) ==
    n[1] <= 9999 /\ n[2] \in 1..12 /\ n[3] \in 1..31

(***************************************************************************)
(* A date: year, month and day between two minus signs.  Any month has up  *)
(* to 31 days.                                                             *)
(***************************************************************************)
castStringToDateValue(text) ==
    IF text.between # <<"-", "-">> \/ ~DateInRange(text.numbers)
    THEN Throw
    ELSE Value(mergeJulianDay(text.numbers[1], text.numbers[2], text.numbers[3]))

(***************************************************************************)
(* A timestamp: a date, hours, minutes and seconds, milliseconds if a      *)
(* point follows the seconds.                                              *)
(***************************************************************************)
castStringToTimestampValue(text) ==
    LET n == text.numbers
        ms == IF Len(n) = 7 THEN n[7] ELSE 0
        clock == <<"-", "-", " ", ":", ":">>
    IN  IF \/ text.between \notin {clock, Append(clock, ".")}
           \/ ~DateInRange(n)
           \/ n[4] >= HourBase \/ n[5] >= MinBase \/ n[6] >= SecBase \/ ms >= MsBase
        THEN Throw
        ELSE Value(mergeJulianDay(n[1], n[2], n[3]) * msPerDay
                   + mergeTime(n[4], n[5], n[6], ms))

printDate(raw) == [numbers |-> splitJulianDay(raw), between |-> <<"-", "-">>]

printTimestamp(raw) ==
    LET time == splitTime(raw % msPerDay)
        clock == <<"-", "-", " ", ":", ":">>
        numbers == splitJulianDay(raw \div msPerDay) \o time
    IN  IF time[4] # 0
        THEN [numbers |-> numbers, between |-> Append(clock, ".")]
        ELSE [numbers |-> SubSeq(numbers, 1, 6), between |-> clock]
=============================================================================
