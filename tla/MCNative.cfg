CONSTANTS
    Jobs = {"j1", "j2"}
    Commands <- MCCommands
    Paths <- MCPaths
    Sources <- MCSources
    DefaultOut <- MCDefaultOut
    DefaultDoc <- MCDefaultDoc
    DefaultExe <- MCDefaultExe
    DiskInodes <- MCDiskInodes
    InitialLink <- MCInitialLink
    InitialEntry <- MCInitialEntry
    InitialData <- MCInitialData
    Absent = Absent
    Directory = Directory
    NoPath = NoPath
    AutoDoc = AutoDoc
    Texts <- MCTexts
    Defect <- MCDefect
    Imports <- MCImports
    Executables <- MCExecutables
    ProgramStatus <- MCProgramStatus
    MaxEdits = 1
    MaxStruck = 1
    iMain = iMain
    iLib = iLib
    iOld = iOld
    Good = Good
    Plain = Plain
    BadNative = BadNative
SPECIFICATION NativeFairSpec
INVARIANTS SourcesIntact StatusHonest
PROPERTIES AtomicInstallation TempRemoved
CHECK_DEADLOCK FALSE
