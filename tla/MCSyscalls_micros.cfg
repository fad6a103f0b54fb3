\* usleep(500), as src/apps/test.c calls it, with the constants of the code
SPECIFICATION Spec
CONSTANTS
    Lines = {0}
    TicksPerSec = 100
    Word = 100000
    CountWord = 4
    Seconds = {}
    Micros = {500}
    Awaited = {}
    UnitsPerTick = 10
    Horizon = 100
PROPERTIES UsleepMicroseconds
