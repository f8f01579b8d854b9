SPECIFICATION Spec
CONSTANTS
    ColumnCount = 2
    Values = {1, 2}
    MaxRows = 2
    MaxListed = 3
    MaxAssignments = 2
    MaxUpdates = 2
INVARIANTS
    OrderedStatementsMeanWhatTheySay
CHECK_DEADLOCK FALSE
