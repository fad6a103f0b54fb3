\* the interrupt flag of the program
SPECIFICATION Spec
CONSTANTS
    Lines = {0}
    TicksPerSec = 3
    Word = 20
    CountWord = 4
    Seconds = {}
    Micros = {}
    Awaited = {}
    UnitsPerTick = 2
    Horizon = 14
INVARIANTS UserInterruptible
