CONSTANTS
    Programs <- MCPrograms
    NoSymbol = NoSymbol
    UnwalkedBranches = FALSE
    MaxComponentBits = 5
    MaxTransientBits = 7
    Formats <- MCFormats
    Initializations <- MCInitializations
    Bindings <- MCBindings
    VarTypes <- MCVarTypes
    Ranges <- MCRanges
    Files <- MCFiles
    MaxExpanded = 5
    SignedBits <- MCSignedBits
    UnsignedBits <- MCUnsignedBits
    FloatBits <- MCFloatBits
    Operands <- MCOperands
    Unsettled = FALSE
    Scrutinees <- MCScrutinees
    ExactIntegers = 4
    Variables = {"a", "b", "c"}
    Held = {0, 2, 3}
    Matchable <- MCMatchable
    GenericRanges <- MCGenericRanges
    Greatest <- MCGreatest
    Widenings <- MCWidenings
    Calls <- MCCalls
SPECIFICATION MCSpec
INVARIANTS
    UsesResolveLexically ScopesFoundAgain CollisionsReported ValuesInOrder
    FoldsAsAWhole ConstantsFit CyclesReported LayoutsSound CastsConvert MatchesJudged InstantiationsFit
CHECK_DEADLOCK FALSE
