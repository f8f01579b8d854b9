CONSTANTS
    Tables = {"r", "s"}
    columnNames <- MCColumnNames
    MaxColumnIUs = 6
    MaxSelects = 1
    MaxPairs = 2
    MaxSelection = 1
SPECIFICATION AlgebraSpec
INVARIANTS
    EveryLookupSucceeds
    ScansLoadWhatIsUsed
    VerifierAcceptsUnaryPlans
CHECK_DEADLOCK FALSE
