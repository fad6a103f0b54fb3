\* blocks of one to three pages and two lengths that wrap; 14 frames to hand out
SPECIFICATION Spec
CONSTANTS
    PdEntries = 6
    PtEntries = 6
    StackPage = 19
    StackPages = 2
    DirPage = 24
    KernelDirs = {4, 5}
    Slots = 5
    PageSize = 4
    Header = 2
    Word = 32
    FrameSpace = 64
    Limit = 18
    LowPages = 2
    Reserved = 4
    Sizes = {5, 7, 28, 31}
    MaxBlocks = 2
    MaxFailed = 1
    Programs <- MCPrograms
CHECK_DEADLOCK FALSE
INVARIANT UserReaches
