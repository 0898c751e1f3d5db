CONSTANTS
    Files <- MCFiles
    Entry = "main"
    VirtualPaths <- MCVirtualPaths
    VirtualKey <- MCVirtualKey
    CanonicalName <- MCCanonicalName
    StdPaths = {"std/io"}
    FilePaths = {"./io"}
    Candidates <- MCCandidates
    Contents <- MCContents
    NoModule = NoModule
    Requested = {}
    MaxEdits = 0
    MaxCalls = 1
SPECIFICATION FairSpec
PROPERTIES StdNamesReserved
CHECK_DEADLOCK FALSE
