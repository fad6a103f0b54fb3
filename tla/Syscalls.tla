------------------------------ MODULE Syscalls ------------------------------
(***************************************************************************)
(* The system calls that wait: sleep, usleep and wait_irq, as the one      *)
(* program runs them against the interrupts of the machine.                *)
(*                                                                         *)
(* A program enters the kernel by sysenter (which clears the interrupt     *)
(* flag) or by int 0xA7 (a trap gate, which leaves it alone). syscall_c    *)
(* executes sti before a wait and cli after it; sysexit does not touch the *)
(* flag, iretd restores the one the program had. The kernel is built with  *)
(* -O0, so every read of the volatile clock words is a load of its own and *)
(* an interrupt may come between any two of them.                          *)
(*                                                                         *)
(* obs is history for the properties: nothing in the model reads it.       *)
(***************************************************************************)
EXTENDS Interrupts

CONSTANTS
    Seconds,        \* arguments a program gives sleep
    Micros,         \* arguments a program gives usleep
    Awaited,        \* lines a program waits for
    UnitsPerTick,   \* 10: the divisor of usleep
    Horizon         \* bound: the history counts PIT periods up to here

ASSUME ArgumentsAssumption ==
    /\ Seconds \subseteq 0..(Word - 1)
    /\ Micros \subseteq 0..(Word - 1)
    /\ Awaited \subseteq Lines
    /\ UnitsPerTick \in 1..Word
    /\ Horizon \in Nat

VARIABLES
    pc,             \* where the thread is
    frame,          \* what the entry stub saved: gate, flag, call, argument
    reg,            \* the locals of the wait: sys (a loaded systime), target, old
    burst,          \* lines that requested since the thread last lingered
    obs             \* history: elapsed, skew and wraps of the current wait

thread == <<pc, frame, reg, burst>>
vars == <<irqVars, thread, obs>>

Gates == {"sysenter", "int"}
Requests == [call : {"other"}, arg : {0}] \cup [call : {"sleep"}, arg : Seconds]
                \cup [call : {"usleep"}, arg : Micros]
                \cup [call : {"wait_irq"}, arg : Awaited]

(* "enter": in syscall_c before the wait, or for all of a call that does   *)
(* not wait. "start", "start2": the loads of the start stamp. "load",      *)
(* "check": the loop condition. "hlt": about to halt. "cli": left the      *)
(* loop. "ret": in the return stub.                                        *)
Places == {"user", "enter", "start", "start2", "load", "check", "hlt",
           "halted", "cli", "ret"}

(* Places where the thread may spend any length of time. Between two of    *)
(* them lie some hundred instructions.                                     *)
Lingering == {"user", "enter", "halted"}

NoReg == [sys |-> 0, target |-> 0, old |-> 0]
NoObs == [elapsed |-> 0, skew |-> 0, wraps |-> FALSE]

(* (usec + 9) / 10                                                         *)
TicksToWait(usec) == Wrap(usec + UnitsPerTick - 1) \div UnitsPerTick

(* The history never reaches its bound in a wait that ends when it should. *)
ASSUME HorizonAssumption ==
    /\ \A sec \in Seconds : sec * TicksPerSec + 1 < Horizon
    /\ \A usec \in Micros : TicksToWait(usec) + 2 < Horizon

(* (systime * 100) + tick                                                  *)
Total(s, t) == Wrap(s * TicksPerSec + t)

(* The clock keeps tick below a second, 32-bit words wrap.                 *)
TypeOK ==
    /\ IrqTypeOK
    /\ pc \in Places
    /\ frame \in [gate : Gates, flag : BOOLEAN, req : Requests]
    /\ reg \in [sys : 0..(Word - 1), target : 0..(Word - 1), old : 0..(Word - 1)]
    /\ burst \subseteq Lines
    /\ obs \in [elapsed : 0..Horizon, skew : 0..(Word - 1), wraps : BOOLEAN]

(* jmp_prog: the program is entered with the flag set.                     *)
Init ==
    /\ IrqInit
    /\ pc = "user"
    /\ frame = [gate |-> "int", flag |-> TRUE, req |-> [call |-> "other", arg |-> 0]]
    /\ reg = NoReg
    /\ burst = {}
    /\ obs = NoObs

-----------------------------------------------------------------------------
(* A thread step from one place to another.                                *)
Goto(from, to) ==
    /\ pc = from
    /\ pc' = to
    /\ burst' = IF to \in Lingering THEN {} ELSE burst

UnchangedClock == UNCHANGED <<pending, tick, systime, irqcount>>

(* syscallenter, syscallint.                                               *)
Call(gate, req) ==
    /\ Goto("user", "enter")
    /\ frame' = [gate |-> gate, flag |-> intFlag, req |-> req]
    /\ intFlag' = (gate = "int" /\ intFlag)
    /\ UnchangedClock
    /\ UNCHANGED <<reg, obs>>

(* syscall_c: a call that does not wait keeps the flag it was entered with. *)
Other ==
    /\ frame.req.call = "other"
    /\ Goto("enter", "ret")
    /\ UNCHANGED <<irqVars, frame, reg, obs>>

(* syscall_c, case 3: irqcount is read, then interrupts are let in.        *)
WaitIrq ==
    /\ frame.req.call = "wait_irq"
    /\ Goto("enter", "check")
    /\ reg' = [reg EXCEPT !.old = irqcount[frame.req.arg]]
    /\ intFlag' = TRUE
    /\ obs' = NoObs
    /\ UnchangedClock
    /\ UNCHANGED frame

(* Mutant of Sti: the sti is forgotten.                                    *)
StiForgotten ==
    /\ frame.req.call \in {"sleep", "usleep"}
    /\ Goto("enter", "start")
    /\ obs' = NoObs
    /\ UNCHANGED <<irqVars, frame, reg>>

(* syscall_c, cases 2 and 0x82: sti before the stamp is taken.             *)
Sti ==
    /\ frame.req.call \in {"sleep", "usleep"}
    /\ Goto("enter", "start")
    /\ intFlag' = TRUE
    /\ obs' = NoObs
    /\ UnchangedClock
    /\ UNCHANGED <<frame, reg>>

(* Mutant of SleepStart: one second too many.                              *)
SleepStartLate ==
    /\ frame.req.call = "sleep"
    /\ Goto("start", "check")
    /\ reg' = [reg EXCEPT !.target = Wrap(systime + frame.req.arg + 1)]
    /\ obs' = [elapsed |-> 0, skew |-> 0, wraps |-> systime + frame.req.arg + 2 >= Word]
    /\ UNCHANGED <<irqVars, frame>>

(* sleep: uint32_t target = systime + sec                                  *)
SleepStart ==
    /\ frame.req.call = "sleep"
    /\ Goto("start", "check")
    /\ reg' = [reg EXCEPT !.target = Wrap(systime + frame.req.arg)]
    /\ obs' = [elapsed |-> 0, skew |-> 0, wraps |-> systime + frame.req.arg + 1 >= Word]
    /\ UNCHANGED <<irqVars, frame>>

(* Mutant of UsleepStart: systime is not loaded anew.                      *)
UsleepStartCached ==
    /\ frame.req.call = "usleep"
    /\ Goto("start", "start2")
    /\ UNCHANGED <<irqVars, frame, reg, obs>>

(* usleep: the stamp loads systime first ...                               *)
UsleepStart ==
    /\ frame.req.call = "usleep"
    /\ Goto("start", "start2")
    /\ reg' = [reg EXCEPT !.sys = systime]
    /\ UNCHANGED <<irqVars, frame, obs>>

(* Mutant of UsleepStart2: the tick is left out of the stamp.              *)
UsleepStart2NoTick ==
    LET ticks == TicksToWait(frame.req.arg)
        start == Total(reg.sys, 0)
    IN  /\ Goto("start2", "load")
        /\ reg' = [reg EXCEPT !.target = Wrap(start + ticks)]
        /\ obs' = [elapsed |-> 0, skew |-> 0,
                    wraps |-> start < TicksPerSec \/ start + ticks + 2 * TicksPerSec + 2 >= Word]
        /\ UNCHANGED <<irqVars, frame>>

(* ... and tick after it. skew is how far the stamp lies behind the clock; *)
(* wraps says that the 32-bit tick total overflows during the wait.        *)
UsleepStart2 ==
    LET start == Total(reg.sys, tick)
        now   == Total(systime, tick)
        ticks == TicksToWait(frame.req.arg)
    IN  /\ Goto("start2", "load")
        /\ reg' = [reg EXCEPT !.target = Wrap(start + ticks)]
        /\ obs' = [elapsed |-> 0, skew |-> Wrap(now - start),
                    wraps |-> start < TicksPerSec \/ start + ticks + TicksPerSec + 2 >= Word]
        /\ UNCHANGED <<irqVars, frame>>

(* The loop condition of usleep loads systime, then tick.                  *)
Load ==
    /\ Goto("load", "check")
    /\ reg' = [reg EXCEPT !.sys = systime]
    /\ UNCHANGED <<irqVars, frame, obs>>

(* Mutant of Waiting: the counts are compared by order.                    *)
WaitingByOrder ==
    CASE frame.req.call = "sleep"  -> systime < reg.target
      [] frame.req.call = "usleep" -> Total(reg.sys, tick) < reg.target
      [] OTHER                     -> irqcount[frame.req.arg] <= reg.old

(* The condition of the three loops.                                       *)
Waiting ==
    CASE frame.req.call = "sleep"  -> systime < reg.target
      [] frame.req.call = "usleep" -> Total(reg.sys, tick) < reg.target
      [] OTHER                     -> irqcount[frame.req.arg] = reg.old

Check ==
    /\ \/ Waiting  /\ Goto("check", "hlt")
       \/ ~Waiting /\ Goto("check", "cli")
    /\ UNCHANGED <<irqVars, frame, reg, obs>>

(* asm volatile ("hlt"), after which only an interrupt moves the thread.   *)
Hlt ==
    /\ Goto("hlt", "halted")
    /\ UNCHANGED <<irqVars, frame, reg, obs>>

Cli ==
    /\ Goto("cli", "ret")
    /\ intFlag' = FALSE
    /\ UnchangedClock
    /\ UNCHANGED <<frame, reg, obs>>

(* sysexit leaves the flag; iretd pops the one syscallint was entered with. *)
Return ==
    /\ Goto("ret", "user")
    /\ intFlag' = IF frame.gate = "int" THEN frame.flag ELSE intFlag
    /\ reg' = NoReg
    /\ obs' = NoObs
    /\ UnchangedClock
    /\ UNCHANGED frame

KernelStep ==
    \/ Other \/ WaitIrq \/ Sti \/ SleepStart \/ UsleepStart \/ UsleepStart2
    \/ Load \/ Check \/ Hlt \/ Cli \/ Return

-----------------------------------------------------------------------------
(* The place a halted thread resumes at: the loop condition.               *)
LoopHead == IF frame.req.call = "usleep" THEN "load" ELSE "check"

(* An interrupt is taken between two instructions of the thread, or ends   *)
(* its hlt.                                                                *)
Deliver(l) ==
    /\ Interrupt(l)
    /\ \/ pc = "halted" /\ pc' = LoopHead /\ burst' = {l}
       \/ pc # "halted" /\ UNCHANGED <<pc, burst>>
    /\ UNCHANGED <<frame, reg, obs>>

(* A device requests an interrupt. Two requests of one line are 10 ms or a *)
(* key stroke apart: between two places where it lingers the thread meets  *)
(* at most one, besides one it finds latched.                              *)
Request(l) ==
    /\ l \notin burst
    /\ Latch(l)
    /\ burst' = IF pc \in Lingering THEN {} ELSE burst \cup {l}
    /\ UNCHANGED <<pc, frame, reg>>

(* The timer fires. With the flag set the request before it was taken long *)
(* ago; with the flag clear it may still be latched, and this one is lost. *)
PitTick ==
    /\ ~(intFlag /\ Timer \in pending)
    /\ Request(Timer)
    /\ obs' = IF pc = "user" \/ obs.elapsed = Horizon THEN obs
              ELSE [obs EXCEPT !.elapsed = @ + 1]

(* A device other than the timer raises its line.                          *)
DeviceIrq(l) ==
    /\ l \notin pending
    /\ Request(l)
    /\ UNCHANGED obs

Next ==
    \/ \E g \in Gates, r \in Requests : Call(g, r)
    \/ KernelStep
    \/ \E l \in Lines : Deliver(l)
    \/ PitTick
    \/ \E l \in Lines \ {Timer} : DeviceIrq(l)

(* The CPU executes kernel code and takes interrupts, the PIT runs. What   *)
(* the program and the devices do is up to them.                           *)
Fairness == WF_vars(KernelStep) /\ WF_vars(\E l \in Lines : Deliver(l)) /\ WF_vars(PitTick)

Spec == Init /\ [][Next]_vars
FairSpec == Spec /\ Fairness

-----------------------------------------------------------------------------
(* The machine never halts with interrupts off: a hlt behind a cleared     *)
(* flag would never end, whichever gate the program came through.          *)
HaltSafe == pc \in {"check", "hlt", "halted"} => intFlag

(* The wait loop is left in this step.                                     *)
Ends(call) == /\ pc = "check" /\ pc' = "cli"
              /\ frame.req.call = call /\ ~obs.wraps

(* sleep(sec) lasts between sec - 1 seconds (it counts changes of systime, *)
(* not the ticks between them) and sec seconds and one period (a tick that *)
(* comes between the check and the hlt wakes it only with the next one).   *)
SleepLength == [][Ends("sleep") =>
    LET asked == frame.req.arg * TicksPerSec
    IN  asked - TicksPerSec <= obs.elapsed /\ obs.elapsed <= asked + 1]_vars

(* usleep lasts its ticks, less one that was latched when the stamp was    *)
(* taken and less the skew of a stamp torn by a rollover; a torn load in   *)
(* the loop and a tick before the hlt cost it two periods more at most.    *)
UsleepLength == [][Ends("usleep") =>
    LET asked == TicksToWait(frame.req.arg)
    IN  asked <= obs.elapsed + obs.skew + 1 /\ obs.elapsed <= asked + 2]_vars

(* The start stamp of usleep is torn by a whole second or not at all: two  *)
(* loads of a clock that an interrupt moves in between.                    *)
StampSkew == obs.skew \in {0, TicksPerSec}

(* Every sleep ends, and every usleep whose ticks do not overflow.         *)
SleepsReturn ==
    /\ (pc = "start" /\ frame.req.call = "sleep") ~> (pc = "user")
    /\ (pc = "load" /\ frame.req.call = "usleep" /\ ~obs.wraps) ~> (pc = "user")

(* A wait_irq returns once its line has been counted, even if the count    *)
(* moved between the loop's check and its hlt and the line stays silent:   *)
(* the next timer interrupt ends the hlt. Only a count that comes all the  *)
(* way round to where it was hides the requests from the loop.             *)
Waits(call) == pc \in {"check", "hlt", "halted"} /\ frame.req.call = call
WaitIrqReturns ==
    (Waits("wait_irq") /\ irqcount[frame.req.arg] # reg.old)
    ~> (pc = "user" \/ (Waits("wait_irq") /\ irqcount[frame.req.arg] = reg.old))

-----------------------------------------------------------------------------
(* What two comments of the source say.                                    *)

(* kernel.c: "ebx = microseconds". A usleep lasts its microseconds rounded *)
(* up to PIT periods, and the two periods UsleepLength grants it.          *)
Period == 1000000 \div TicksPerSec
UsleepMicroseconds == [][Ends("usleep") =>
    obs.elapsed <= (frame.req.arg + Period - 1) \div Period + 2]_vars

(* kernel.asm: "enable int". The program runs with interrupts enabled.     *)
UserInterruptible == pc = "user" => intFlag
=============================================================================
