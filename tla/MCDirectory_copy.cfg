\* the copy tool, and the removal and renaming of entries, with crashes
SPECIFICATION DirSpec
CONSTANTS
    Files = 3
    Clusters = 6
    Extents = 3
    ClusterBytes = 3
    SectorBits = 2
    InlineMax = 2
    ByteBits = 8
    Paths <- MCPaths
    Lengths = {0, 3}
    MaxOps = 4
    MaxCrashes = 1
INVARIANTS EntriesKept FilesComplete NamesFound CrashSafe
CHECK_DEADLOCK FALSE
