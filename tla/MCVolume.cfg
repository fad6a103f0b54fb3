SPECIFICATION Spec
CONSTANTS
    Chunk = 2
    Disks <- MCDisks
    Boot2Sizes = {1, 3, 5}
    Asked = {0, 17}
    Media <- MCMedia
    FirstLba = 2
    Boot2Room = 2
    Skipped = 1
    Journal = 1
    Bits = 4
    PerFile = 4
    ByteWord = 64
    Word = 128
    MaxMove = 4
    MaxCalls = 3
INVARIANTS Placed AreasApart NewVolume
PROPERTIES FixEnds
