SPECIFICATION Spec
CONSTANT MaxItems = 2
INVARIANTS
    ParsedAsWritten
    StatementFreedOnce
    EndOfInputEndsParsing
CHECK_DEADLOCK FALSE
