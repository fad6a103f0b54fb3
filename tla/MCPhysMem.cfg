\* six memory maps, requests up to more pages than low memory and kernel have
SPECIFICATION Spec
CONSTANTS
    Smaps <- MCSmaps
    Word = 128
    PageSize = 2
    BitsPerByte = 2
    LowPages = 2
    kernel_sizepg = 2
    Requests = {1, 2, 3, 5}
INVARIANTS SingleOwner Accounted OwnedIsRam
