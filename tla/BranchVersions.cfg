SPECIFICATION Spec
CONSTANTS
    MaxBranches = 3
    MaxTuples = 2
    MaxWrites = 4
INVARIANTS
    TypeOK
    ChainNewestFirst
    DestroyFreesEachStorageOnce
    EarliestIsInsertedVersion
    LineageFilterKeepsTuples
PROPERTIES
    BranchIsolation
    ImplementsBranchStore
