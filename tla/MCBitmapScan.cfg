\* every bitmap of 8 bits, searched whole or in part
SPECIFICATION FairSpec
CONSTANTS
    Bits = 8
    Limit = 7
    Sizes = {0, 1, 2, 3, 4}
    Fail = 99
INVARIANTS ScanInv
PROPERTIES Implements Returns
