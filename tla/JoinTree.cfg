SPECIFICATION Spec
CONSTANTS
    Tables = {"a", "b", "c"}
    MaxConditions = 4
INVARIANTS
    JoinsHaveConditions
    FirstVertexJoinsNeighbors
PROPERTIES
    JoiningTerminates
CHECK_DEADLOCK FALSE
