SPECIFICATION SafetySpec
CONSTANTS
    MaxNesting = 12
    Labels = {NoLabel, "a"}
    Patterns = {}
    NoLabel = NoLabel
    Wild = Wild
    NoCell = NoCell
    Covered = {}
    Tagged = {}
    Globals = {"g"}
    Slices = {"s", "t"}
    Refs = {"p", "q"}
    Cells = 2
    ArrayLength = 2
    Families = {"alias"}
    Values <- MCValues
    Bounds <- MCBounds
    Bodies <- MCBodies
INVARIANT
    DeletedNeverUsed
CHECK_DEADLOCK FALSE
