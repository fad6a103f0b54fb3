\* the waits against the timer and a device of lower priority
SPECIFICATION FairSpec
CONSTANTS
    Lines = {0, 5}
    TicksPerSec = 2
    Word = 12
    CountWord = 3
    Seconds = {2}
    Micros = {3, 7}
    Awaited = {5}
    UnitsPerTick = 2
    Horizon = 7
INVARIANTS TypeOK HaltSafe StampSkew
PROPERTIES SleepLength UsleepLength SleepsReturn WaitIrqReturns
