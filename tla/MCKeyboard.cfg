\* a ring of four slots
SPECIFICATION FairSpec
CONSTANTS
    Codes = {1, 2, 3}
    LeftShift = 1
    RightShift = 2
    CapsKey = 3
    Slots = 4
INVARIANTS SlotKept
PROPERTIES Implements KeyReturned
