CONSTANTS
    TopLevel = {"main", "f", "g", "h", "k", "idle"}
    Programs <- MCPrograms
    Globals = {"s"}
    Initial <- MCInitial
    Params <- MCParams
    TypeOf <- MCTypeOf
    NoFunction = NoFunction
    NestedPrograms = TRUE
SPECIFICATION Spec
INVARIANT NestedRecursionRejected
CHECK_DEADLOCK FALSE
