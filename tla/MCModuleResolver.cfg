CONSTANTS
    Files <- MCFiles
    Entry = "main"
    VirtualPaths <- MCVirtualPaths
    VirtualKey <- MCVirtualKey
    CanonicalName <- MCCanonicalName
    StdPaths <- MCStdPaths
    FilePaths <- MCFilePaths
    Candidates <- MCCandidates
    Contents <- MCContents
    NoModule = NoModule
    Requested = {"./a"}
    MaxEdits = 1
    MaxCalls = 2
SPECIFICATION FairSpec
INVARIANTS CacheClosed StackUnwound
PROPERTIES RetainsCompleted ProgramVerdict MergeOrder BindingsResolve CallEnds
CHECK_DEADLOCK FALSE
