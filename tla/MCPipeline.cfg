SPECIFICATION MCSpec
CONSTANTS
    MaxIdentifier = 8
    MaxNumber = 8
    MaxString = 8
    MaxNesting = 12
    Labels = {NoLabel, "a"}
    Patterns = {}
    NoLabel = NoLabel
    Wild = Wild
    NoCell = NoCell
    Covered = {}
    Tagged = {}
    Globals = {"g"}
    Slices = {"s", "t"}
    Refs = {"p", "q"}
    Cells = 2
    ArrayLength = 2
    Families = {"if", "loop", "labels", "defer", "match", "slice", "other", "refs", "delete"}
    Values <- MCValues
    Bounds <- MCBounds
    Bodies <- MCBodies
    Emittable <- MCEmittable
INVARIANTS
    TokensLocated RoundTrip
    NothingFaults DeletedNeverUsed FactsHold
    EmittedNames
CHECK_DEADLOCK FALSE
