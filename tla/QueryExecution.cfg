\* In the code: 32 and 64 bits, 18 digits, vectors of 2 elements, pool blocks
\* of 4092 bytes, hash tables of 16 buckets.
CONSTANTS
    IntBits = 8
    LongBits = 16
    DateBits = 24
    TimeBits = 27
    MaxDigits = 4
    IntDigits = 3
    ByteSize = 8
    WordBytes = 2
    MsBase = 2
    SecBase = 2
    MinBase = 2
    HourBase = 2
    defaultCount = 1
    initialBlockSize = 6
    defaultSize = 2
    HeaderSize = 3
    NodeSize = 4
    MaxLeft = 3
    MaxRight = 2
    LeftRows <- MCLeftRows
    RightRows <- MCRightRows
    Predicate <- MCPredicate
    Evaluate <- MCEvaluate
    Translate <- translated
    Hash <- MCHash
    AggregationLists <- MCAggregationLists
SPECIFICATION ExecSpec
INVARIANTS
    ColumnsHoldTheRows
    EveryBuildRowInOneList
    NodesKeepTheirMemory
    QueryAnswersItsMeaning
CHECK_DEADLOCK FALSE
