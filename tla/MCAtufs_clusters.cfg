\* every operation on three files that share three clusters; every file has a byte
\* of its own in the file bitmap
SPECIFICATION Spec
CONSTANTS
    Files = 3
    Clusters = 3
    Extents = 2
    ClusterBytes = 4
    SectorBits = 2
    InlineMax = 3
    ByteBits = 1
    Sizes = {1, 4, 5, 12}
    Stamps <- MCStamps
INVARIANTS TypeOK OwnersApart CountersAgree NoLeak ReadsBack LiveHasBit
