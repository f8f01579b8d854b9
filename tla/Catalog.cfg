SPECIFICATION CatalogSpec
CONSTANTS
    TableNames = {"r", "s"}
    availableCount = 3
    MaxBranches = 5
    MaxInserts = 2
    MaxFailures = 2
INVARIANTS
    BranchBitInsideRow
PROPERTIES
    FailureKeepsRows
    BranchStartsAsParent
CHECK_DEADLOCK FALSE
