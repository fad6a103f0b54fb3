----------------------------- MODULE Interrupts -----------------------------
(***************************************************************************)
(* The interrupt side of the kernel: the CPU's interrupt flag, the request *)
(* latches of the two 8259 PICs, and irq_handler (src/kernel/kernel.c),    *)
(* which keeps the clock (tick, systime) and a count per IRQ line.         *)
(*                                                                         *)
(* irq_handler runs behind an interrupt gate, with the flag cleared from   *)
(* its first instruction to its iretd, so one delivery is one step.        *)
(* worldtime moves in lockstep with systime and is read by nothing: it is  *)
(* left out, with the constant TSS fields the handler reloads.             *)
(***************************************************************************)
EXTENDS Integers

CONSTANTS
    Lines,          \* the IRQ lines with a counting handler: {0, 1, 5, 12}
    TicksPerSec,    \* 100: set_pit_freq(100)
    Word,           \* 2^32: the modulus of a uint32_t
    CountWord       \* 2^32 too: the modulus of irqcount, on its own for small instances

ASSUME LinesAssumption == Lines \subseteq 0..15 /\ 0 \in Lines
ASSUME TicksAssumption == TicksPerSec \in Nat /\ TicksPerSec > 1
ASSUME WordAssumption  == Word \in Nat \ {0} /\ TicksPerSec < Word
ASSUME CountAssumption == CountWord \in 1..Word

VARIABLES
    intFlag,        \* EFLAGS.IF of the one thread
    pending,        \* the lines latched in the PICs (IRR): one bit per line
    tick,           \* volatile uint32_t tick
    systime,        \* volatile uint32_t systime
    irqcount        \* volatile uint32_t irqcount[16], restricted to Lines

irqVars == <<intFlag, pending, tick, systime, irqcount>>

Timer == 0          \* the line of the programmable interval timer

(* uint32_t arithmetic. *)
Wrap(n) == n % Word

IrqTypeOK ==
    /\ intFlag \in BOOLEAN
    /\ pending \subseteq Lines
    /\ tick \in 0..(TicksPerSec - 1)
    /\ systime \in 0..(Word - 1)
    /\ irqcount \in [Lines -> 0..(CountWord - 1)]

IrqInit ==
    /\ intFlag = TRUE
    /\ pending = {}
    /\ tick = 0
    /\ systime = 0
    /\ irqcount = [l \in Lines |-> 0]

(* Fixed priority of the cascaded PICs: 0, 1, then 8..15 behind line 2,    *)
(* then 3..7.                                                              *)
Rank(l) == CASE l < 2 -> l [] l >= 8 -> l - 6 [] OTHER -> l + 8
Highest(l) == l \in pending /\ \A m \in pending : Rank(l) <= Rank(m)

(* Mutant of ClockTick: the rollover comes one tick late.                  *)
ClockTickLate ==
    IF tick + 1 > TicksPerSec
    THEN tick' = 0        /\ systime' = Wrap(systime + 1)
    ELSE tick' = tick + 1 /\ UNCHANGED systime

(* case 0 of irq_handler.                                                  *)
ClockTick ==
    IF tick + 1 >= TicksPerSec
    THEN tick' = 0        /\ systime' = Wrap(systime + 1)
    ELSE tick' = tick + 1 /\ UNCHANGED systime

irq_handler(l) ==
    /\ \/ l = Timer /\ ClockTick
       \/ l # Timer /\ UNCHANGED <<tick, systime>>
    /\ irqcount' = [irqcount EXCEPT ![l] = (@ + 1) % CountWord]

(* A device pulls its line. A line that is already latched stays latched:  *)
(* the second request is not remembered.                                   *)
Latch(l) == pending' = pending \cup {l} /\ UNCHANGED <<intFlag, tick, systime, irqcount>>

(* The CPU takes the most urgent latched line through its gate.            *)
Interrupt(l) ==
    /\ intFlag
    /\ Highest(l)
    /\ pending' = pending \ {l}
    /\ irq_handler(l)
    /\ UNCHANGED intFlag
=============================================================================
