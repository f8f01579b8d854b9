SPECIFICATION Spec
CONSTANTS
    Tables = {"a", "b", "c"}
    MaxConditions = 3
INVARIANT
    OneRootJoinsAllTables
CHECK_DEADLOCK FALSE
