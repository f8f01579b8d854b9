CONSTANTS
    Statements <- MCStatements
    NoInput <- MCNoInput
    MaxInputs = 2
    MaxRequests = 3
    MaxCalls = 7
    MaxCallsLater = 2
SPECIFICATION Spec
INVARIANTS
    GeneratedCodeDoesWhatTheCallsSay
    GeneratorsAreGone
    ResponseIsOfTheLastStatement
    DatabasesAreSeparate
CHECK_DEADLOCK FALSE
