SPECIFICATION FlowSpec
CONSTANTS
    NoLabel = NoLabel
    Wild = Wild
    FallingCases = TRUE
    Covered = {"bool", "union"}
    Tagged = {"union"}
    Values <- MCValues
    Bodies <- MCBodies
    MaxNesting = 4
    Labels = {NoLabel, "a", "b"}
    Patterns <- MCPatterns
INVARIANT
    FallingCasesJudged
CHECK_DEADLOCK FALSE
