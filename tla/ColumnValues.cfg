\* Machine widths: 32, 64, 32, 64 bits, 18 digits, bytes of 256 values and
\* words of 8 bytes in the code.
CONSTANTS
    IntBits = 8
    LongBits = 16
    DateBits = 24
    TimeBits = 27
    MaxDigits = 4
    IntDigits = 3
    ByteSize = 8
    WordBytes = 2
    MsBase = 2
    SecBase = 2
    MinBase = 2
    HourBase = 2
    ColumnTypes <- MCColumnTypes
    Texts <- MCTexts
    Garbage = {0, 7}
    Addresses = {8, 13}
    Operands <- MCOperands
SPECIFICATION ColumnSpec
INVARIANTS
    WrittenIsRead
    LiteralFindsItsValue
    ReceivedIsWritten
    ExactOrFlagged
CHECK_DEADLOCK FALSE
