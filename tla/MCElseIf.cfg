CONSTANTS
    Programs <- MCPrograms
    NoSymbol = NoSymbol
    UnwalkedBranches = TRUE
SPECIFICATION Spec
INVARIANT OwnSymbolTyped
CHECK_DEADLOCK FALSE
