CONSTANTS
    Jobs = {"j1", "j2"}
    Commands <- MCCommands
    Paths <- MCPaths
    Sources <- MCSources
    DefaultOut <- MCDefaultOut
    DefaultDoc <- MCDefaultDoc
    DiskInodes <- MCDiskInodes
    InitialLink <- MCInitialLink
    InitialEntry <- MCInitialEntry
    InitialData <- MCInitialData
    Absent = Absent
    Directory = Directory
    NoPath = NoPath
    AutoDoc = AutoDoc
    Texts <- MCTexts
    Defect <- MCDefect
    Imports <- MCImports
    MaxEdits = 1
    MaxStruck = 1
    iMain = iMain
    iLib = iLib
    iOther = iOther
    iOld = iOld
    Good = Good
    Plain = Plain
    BadTokens = BadTokens
    BadSyntax = BadSyntax
    BadSemantics = BadSemantics
    Unsupported = Unsupported
SPECIFICATION Spec
INVARIANTS RefusalLeavesNoTrace ArtifactsHonest ModesAgree
PROPERTIES InputsSurvive
CHECK_DEADLOCK FALSE
