SPECIFICATION MCSpec
CONSTANTS
    TopLevel = {"main", "f", "g", "h", "k", "idle"}
    Programs <- MCPrograms
    Globals = {"s"}
    Initial <- MCInitial
    Params <- MCParams
    TypeOf <- MCTypeOf
    NoFunction = NoFunction
    NestedPrograms = FALSE
    NoLabel = NoLabel
    Wild = Wild
    FallingCases = FALSE
    Covered = {"bool", "union"}
    Tagged = {"union"}
    Values <- MCValues
    Bodies <- MCBodies
    MaxNesting = 4
    Labels = {NoLabel, "a", "b"}
    Patterns <- MCPatterns
    Functions = {1, 2, 3, 4}
    Order <- MCOrder
    Graphs <- MCGraphs
    Reported <- MCReported
    MaxCalls = 4
INVARIANTS
    RecursionReported
    NoRecursion
    DirectCallsJudgedExactly
    AlwaysReturns
    UnreachableNeverRuns
    MissingReturnIsReal
PROPERTY
    SearchEnds
CHECK_DEADLOCK FALSE
