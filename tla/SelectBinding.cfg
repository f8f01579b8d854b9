SPECIFICATION BindingSpec
CONSTANTS
    Tables = {"t", "u"}
    Bindings = {"p", "u"}
    Columns = {1, 2}
    Versions = {"master", "hello", "none"}
    Branches = {"master", "hello"}
    MaxColumns = 2
    MaxRelations = 2
    MaxReferences = 2
INVARIANTS
    AcceptedColumnsFound
    ResolvedInItsRelation
    SortedColumnsAreUnambiguous
    DistinctRelationsAreScanned
CHECK_DEADLOCK FALSE
