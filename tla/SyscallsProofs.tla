--------------------------- MODULE SyscallsProofs ---------------------------
(***************************************************************************)
(* Proofs about Syscalls, for every clock rate, word size and argument.    *)
(***************************************************************************)
EXTENDS Syscalls, TLAPS

(* A uint32_t result is a uint32_t.                                        *)
LEMMA WrapInWord == \A n \in Int : Wrap(n) \in 0..(Word - 1)
  BY WordAssumption DEF Wrap

(* The tick total of a clock reading is a uint32_t.                        *)
LEMMA TotalInWord ==
  ASSUME NEW s \in 0..(Word - 1), NEW t \in 0..(TicksPerSec - 1)
  PROVE  Total(s, t) \in 0..(Word - 1)
  <1>1. s * TicksPerSec + t \in Int
    BY WordAssumption, TicksAssumption
  <1>2. QED
    BY <1>1, WrapInWord DEF Total

(* The handler keeps the clock in range: tick below 100, systime and the   *)
(* counts within 32 bits.                                                  *)
LEMMA IrqHandlerType ==
  ASSUME IrqTypeOK, NEW l \in Lines, irq_handler(l)
  PROVE  /\ tick' \in 0..(TicksPerSec - 1)
         /\ systime' \in 0..(Word - 1)
         /\ irqcount' \in [Lines -> 0..(CountWord - 1)]
  <1>1. systime + 1 \in Int /\ irqcount[l] + 1 \in Int
    BY DEF IrqTypeOK
  <1>2. Wrap(systime + 1) \in 0..(Word - 1)
    BY <1>1, WrapInWord
  <1>3. irqcount' \in [Lines -> 0..(CountWord - 1)]
    <2>1. (irqcount[l] + 1) % CountWord \in 0..(CountWord - 1)
      BY <1>1, CountAssumption, WordAssumption
    <2>2. QED
      BY <2>1 DEF irq_handler, IrqTypeOK
  <1>4. tick' \in 0..(TicksPerSec - 1) /\ systime' \in 0..(Word - 1)
    BY <1>2, TicksAssumption DEF irq_handler, ClockTick, IrqTypeOK
  <1>5. QED
    BY <1>3, <1>4

-----------------------------------------------------------------------------
(* The argument of a call is a number: seconds, microseconds or a line.    *)
LEMMA RequestArg == ASSUME TypeOK PROVE frame.req.arg \in Int
  <1>1. frame.req \in Requests
    BY DEF TypeOK
  <1>2. \A r \in Requests : r.arg \in {0} \cup Seconds \cup Micros \cup Awaited
    BY DEF Requests
  <1>3. {0} \cup Seconds \cup Micros \cup Awaited \subseteq Int
    BY ArgumentsAssumption, LinesAssumption, WordAssumption
  <1>4. QED
    BY <1>1, <1>2, <1>3

(* Every step of the kernel and every interrupt keeps the types.           *)
LEMMA TypeStep == TypeOK /\ [Next]_vars => TypeOK'
  <1> SUFFICES ASSUME TypeOK, [Next]_vars PROVE TypeOK'
    OBVIOUS
  <1> USE ArgumentsAssumption DEF TypeOK, Places, Gates, Lingering
  <1>1. ASSUME NEW g \in Gates, NEW r \in Requests, Call(g, r) PROVE TypeOK'
    BY <1>1 DEF Call, Goto, UnchangedClock, IrqTypeOK
  <1>2. CASE Other
    BY <1>2 DEF Other, Goto, irqVars, IrqTypeOK
  <1>3. CASE WaitIrq
    <2>1. irqcount[frame.req.arg] \in 0..(Word - 1)
      BY <1>3, CountAssumption, WordAssumption DEF WaitIrq, Requests, IrqTypeOK
    <2>2. QED
      BY <1>3, <2>1, WordAssumption DEF WaitIrq, Goto, UnchangedClock, IrqTypeOK, NoObs
  <1>4. CASE Sti
    BY <1>4, WordAssumption DEF Sti, Goto, UnchangedClock, IrqTypeOK, NoObs
  <1>5. CASE SleepStart
    <2>1. systime + frame.req.arg \in Int
      BY RequestArg DEF IrqTypeOK
    <2>2. Wrap(systime + frame.req.arg) \in 0..(Word - 1)
      BY <2>1, WrapInWord
    <2>3. obs' \in [elapsed : 0..Horizon, skew : 0..(Word - 1), wraps : BOOLEAN]
      BY <1>5, WordAssumption DEF SleepStart
    <2>4. QED
      BY <1>5, <2>2, <2>3 DEF SleepStart, Goto, irqVars, IrqTypeOK
  <1>6. CASE UsleepStart
    BY <1>6 DEF UsleepStart, Goto, irqVars, IrqTypeOK
  <1>7. CASE UsleepStart2
    <2> DEFINE start == Total(reg.sys, tick)
               now == Total(systime, tick)
               ticks == TicksToWait(frame.req.arg)
    <2>1. start \in 0..(Word - 1) /\ now \in 0..(Word - 1)
      BY TotalInWord DEF IrqTypeOK
    <2>2. ticks \in Int
      <3>1. frame.req.arg \in Int
        BY RequestArg
      <3>2. Wrap(frame.req.arg + UnitsPerTick - 1) \in 0..(Word - 1)
        BY <3>1, WrapInWord, WordAssumption
      <3>3. QED
        BY <3>2, WordAssumption DEF TicksToWait
    <2>3. Wrap(start + ticks) \in 0..(Word - 1) /\ Wrap(now - start) \in 0..(Word - 1)
      BY <2>1, <2>2, WrapInWord, WordAssumption
    <2> HIDE DEF start, now, ticks
    <2>4. /\ Goto("start2", "load")
          /\ reg' = [reg EXCEPT !.target = Wrap(start + ticks)]
          /\ obs' = [elapsed |-> 0, skew |-> Wrap(now - start),
                 wraps |-> start < TicksPerSec \/ start + ticks + TicksPerSec + 2 >= Word]
          /\ UNCHANGED <<irqVars, frame>>
      BY <1>7 DEF UsleepStart2, start, now, ticks
    <2>5. reg' \in [sys : 0..(Word - 1), target : 0..(Word - 1), old : 0..(Word - 1)]
      BY <2>3, <2>4
    <2>6. obs' \in [elapsed : 0..Horizon, skew : 0..(Word - 1), wraps : BOOLEAN]
      BY <2>3, <2>4
    <2>7. QED
      BY <2>4, <2>5, <2>6 DEF Goto, irqVars, IrqTypeOK
  <1>8. CASE Load
    BY <1>8 DEF Load, Goto, irqVars, IrqTypeOK
  <1>9. CASE Check
    BY <1>9 DEF Check, Goto, irqVars, IrqTypeOK
  <1>10. CASE Hlt
    BY <1>10 DEF Hlt, Goto, irqVars, IrqTypeOK
  <1>11. CASE Cli
    BY <1>11 DEF Cli, Goto, UnchangedClock, IrqTypeOK
  <1>12. CASE Return
    BY <1>12, WordAssumption DEF Return, Goto, UnchangedClock, IrqTypeOK, NoReg, NoObs
  <1>13. ASSUME NEW l \in Lines, Deliver(l) PROVE TypeOK'
    <2>1. IrqTypeOK'
      <3>1. irq_handler(l) /\ pending' = pending \ {l} /\ UNCHANGED intFlag
        BY <1>13 DEF Deliver, Interrupt
      <3>2. QED
        BY <3>1, IrqHandlerType DEF IrqTypeOK
    <2>2. QED
      BY <1>13, <2>1 DEF Deliver, LoopHead
  <1>14. CASE PitTick
    BY <1>14, LinesAssumption DEF PitTick, Request, Latch, Timer, IrqTypeOK
  <1>15. ASSUME NEW l \in Lines \ {Timer}, DeviceIrq(l) PROVE TypeOK'
    BY <1>15 DEF DeviceIrq, Request, Latch, IrqTypeOK
  <1>16. CASE UNCHANGED vars
    BY <1>16 DEF vars, irqVars, thread, IrqTypeOK
  <1>17. QED
    BY <1>1, <1>2, <1>3, <1>4, <1>5, <1>6, <1>7, <1>8, <1>9, <1>10, <1>11, <1>12,
       <1>13, <1>14, <1>15, <1>16 DEF Next, KernelStep

LEMMA TypeInit == Init => TypeOK
  BY TicksAssumption, WordAssumption, CountAssumption, ArgumentsAssumption
  DEF Init, IrqInit, TypeOK, IrqTypeOK, Places, Gates, Requests, NoReg, NoObs

(* Clock, counts and locals stay 32-bit words and tick below one second,   *)
(* whatever interrupts come between the loads of the waits.                *)
THEOREM TypeCorrect == Spec => []TypeOK
  BY TypeInit, TypeStep, PTL DEF Spec

-----------------------------------------------------------------------------
(* Between its sti and its cli the thread runs with the flag set. This is  *)
(* HaltSafe made inductive: the places that lead to the loop are in it.    *)
WaitPlaces == {"start", "start2", "load", "check", "hlt", "halted", "cli"}
FlagInv == pc \in WaitPlaces => intFlag

LEMMA FlagStep == FlagInv /\ [Next]_vars => FlagInv'
  <1> SUFFICES ASSUME FlagInv, [Next]_vars PROVE FlagInv'
    OBVIOUS
  <1> USE DEF FlagInv, WaitPlaces, Goto
  <1>1. CASE \E g \in Gates, r \in Requests : Call(g, r)
    BY <1>1 DEF Call
  <1>2. CASE Other \/ SleepStart \/ UsleepStart \/ UsleepStart2 \/ Load \/ Check \/ Hlt
    BY <1>2 DEF Other, SleepStart, UsleepStart, UsleepStart2, Load, Check, Hlt, irqVars
  <1>3. CASE WaitIrq \/ Sti
    BY <1>3 DEF WaitIrq, Sti
  <1>4. CASE Cli \/ Return
    BY <1>4 DEF Cli, Return
  <1>5. CASE \E l \in Lines : Deliver(l)
    BY <1>5 DEF Deliver, Interrupt, LoopHead
  <1>6. CASE PitTick
    BY <1>6 DEF PitTick, Request, Latch
  <1>7. CASE \E l \in Lines \ {Timer} : DeviceIrq(l)
    BY <1>7 DEF DeviceIrq, Request, Latch
  <1>8. CASE UNCHANGED vars
    BY <1>8 DEF vars, irqVars, thread
  <1>9. QED
    BY <1>1, <1>2, <1>3, <1>4, <1>5, <1>6, <1>7, <1>8 DEF Next, KernelStep

(* A wait never halts the machine with interrupts off, whatever gate the   *)
(* program used and whatever flag it ran with.                             *)
THEOREM HaltSafety == Spec => []HaltSafe
  <1>1. Init => FlagInv
    BY DEF Init, FlagInv, WaitPlaces
  <1>2. FlagInv => HaltSafe
    BY DEF FlagInv, WaitPlaces, HaltSafe
  <1>3. QED
    BY <1>1, <1>2, FlagStep, PTL DEF Spec

-----------------------------------------------------------------------------
(* Deliveries of the timer that may come before the thread lingers again:  *)
(* one that is latched, and one that was not yet requested.                *)
Slack == (IF Timer \in pending THEN 1 ELSE 0) + (IF Timer \in burst THEN 0 ELSE 1)

(* Between its two loads the clock has moved on by a second at most, and   *)
(* after a rollover there are not enough deliveries left for another.      *)
TornOnce ==
    \/ systime = reg.sys
    \/ systime = Wrap(reg.sys + 1) /\ tick + Slack <= 1
SkewInv == TypeOK /\ StampSkew /\ (pc = "start2" => TornOnce)

(* A delivery of the timer uses up slack, a request gains none.            *)
LEMMA DeliverySpends ==
  ASSUME NEW l \in Lines, Deliver(l), pc # "halted"
  PROVE  /\ l = Timer => Slack' = Slack - 1 /\ ClockTick
         /\ l # Timer => Slack' = Slack /\ UNCHANGED <<tick, systime>>
         /\ Slack \in 0..2 /\ Slack' \in 0..2
  BY DEF Deliver, Interrupt, Highest, irq_handler, Slack

LEMMA RequestGainsNone ==
  ASSUME NEW l \in Lines, Request(l), pc \notin Lingering
  PROVE  Slack' <= Slack /\ Slack' \in 0..2 /\ Slack \in 0..2
  BY DEF Request, Latch, Slack

(* Numbers that differ by c, but for multiples of a word, differ by c.     *)
LEMMA WrappedDifference ==
  ASSUME NEW a \in Int, NEW b \in Int, NEW k \in Int, NEW c \in 0..(Word - 1),
         a = b + c + k * Word
  PROVE  Wrap(Wrap(a) - Wrap(b)) = c
  <1> DEFINE p == a \div Word
             q == b \div Word
  <1>1. Word \in Nat \ {0}
    BY WordAssumption
  <1>2. p \in Int /\ q \in Int /\ a = Word * p + Wrap(a) /\ b = Word * q + Wrap(b)
    BY <1>1 DEF Wrap
  <1>3. Wrap(a) \in Int /\ Wrap(b) \in Int
    BY <1>1 DEF Wrap
  <1> HIDE DEF p, q
  <1> DEFINE n == k + q - p
  <1>4. Wrap(a) - Wrap(b) = c + n * Word
    <2>1. n * Word = k * Word + Word * q - Word * p
      BY <1>1, <1>2
    <2>2. Word * q \in Int /\ Word * p \in Int /\ k * Word \in Int
      BY <1>1, <1>2
    <2>3. QED
      BY <1>2, <1>3, <2>1, <2>2
  <1>5. n \in Int /\ \A m \in Int : (c + m * Word) % Word = c
    BY <1>1, <1>2
  <1>6. QED
    BY <1>4, <1>5 DEF Wrap

(* The clock total moves by a second when systime moves by one, also when  *)
(* it goes from the last word to 0.                                        *)
LEMMA SecondOfSkew ==
  ASSUME NEW s \in 0..(Word - 1), NEW t \in 0..(TicksPerSec - 1)
  PROVE  /\ Wrap(Total(s, t) - Total(s, t)) = 0
         /\ Wrap(Total(Wrap(s + 1), t) - Total(s, t)) = TicksPerSec
  <1>1. Word \in Nat /\ TicksPerSec \in Nat /\ TicksPerSec < Word
    BY WordAssumption, TicksAssumption
  <1>2. s * TicksPerSec + t \in Int
    BY <1>1
  <1>3. Wrap(Total(s, t) - Total(s, t)) = 0
    <2>1. Total(s, t) \in Int
      BY TotalInWord, <1>1
    <2>2. QED
      BY <1>1, <2>1 DEF Wrap
  <1>4. PICK k \in {0, -1} : Wrap(s + 1) = s + 1 + k * Word
    BY <1>1 DEF Wrap
  <1>5. Wrap(s + 1) * TicksPerSec + t
          = (s * TicksPerSec + t) + TicksPerSec + (k * TicksPerSec) * Word
    <2>1. CASE k = 0
      BY <1>1, <1>4, <2>1
    <2>2. CASE k = -1
      <3>1. Wrap(s + 1) = 0 /\ s = Word - 1
        BY <1>1, <1>4, <2>2 DEF Wrap
      <3>2. (Word - 1) * TicksPerSec = Word * TicksPerSec - TicksPerSec
        BY <1>1
      <3>3. (k * TicksPerSec) * Word = -(Word * TicksPerSec) /\ Word * TicksPerSec \in Int
        BY <1>1, <2>2
      <3>4. QED
        BY <1>1, <3>1, <3>2, <3>3
    <2>3. QED
      BY <2>1, <2>2
  <1>6. Wrap(s + 1) * TicksPerSec + t \in Int /\ k * TicksPerSec \in Int
    BY <1>1, <1>4
  <1>7. Wrap(Total(Wrap(s + 1), t) - Total(s, t)) = TicksPerSec
    <2> DEFINE a == Wrap(s + 1) * TicksPerSec + t
               b == s * TicksPerSec + t
               n == k * TicksPerSec
    <2>1. a \in Int /\ b \in Int /\ n \in Int /\ TicksPerSec \in 0..(Word - 1)
      BY <1>1, <1>2, <1>6
    <2>2. a = b + TicksPerSec + n * Word
      BY <1>5
    <2> HIDE DEF a, b, n
    <2>3. Wrap(Wrap(a) - Wrap(b)) = TicksPerSec
      BY <2>1, <2>2, WrappedDifference
    <2>4. QED
      BY <2>3 DEF a, b, Total
  <1>8. QED
    BY <1>3, <1>7

LEMMA SkewStep == SkewInv /\ [Next]_vars => SkewInv'
  <1> SUFFICES ASSUME SkewInv, [Next]_vars PROVE SkewInv'
    OBVIOUS
  <1>1. TypeOK /\ TypeOK'
    BY TypeStep DEF SkewInv
  <1>2. /\ tick \in 0..(TicksPerSec - 1) /\ systime \in 0..(Word - 1)
        /\ reg.sys \in 0..(Word - 1) /\ StampSkew /\ TicksPerSec \in Nat /\ TicksPerSec > 1
    BY <1>1, TicksAssumption DEF SkewInv, TypeOK, IrqTypeOK
  <1>3. CASE UsleepStart2
    <2>1. TornOnce /\ pc' # "start2"
          /\ obs'.skew = Wrap(Total(systime, tick) - Total(reg.sys, tick))
      BY <1>3 DEF SkewInv, UsleepStart2, Goto
    <2>2. obs'.skew \in {0, TicksPerSec}
      BY <1>2, <2>1, SecondOfSkew DEF TornOnce
    <2>3. QED
      BY <1>1, <2>1, <2>2 DEF SkewInv, StampSkew
  <1>4. CASE UsleepStart
    BY <1>1, <1>2, <1>4 DEF SkewInv, UsleepStart, StampSkew, irqVars, TornOnce
  <1>5. ASSUME NEW l \in Lines, Deliver(l)
        PROVE  SkewInv'
    <2>1. obs' = obs /\ (pc' = "start2" => pc = "start2") /\ reg' = reg
      BY <1>5 DEF Deliver, LoopHead
    <2>2. pc = "start2" => TornOnce'
      <3> SUFFICES ASSUME pc = "start2" PROVE TornOnce'
        OBVIOUS
      <3>1. /\ l = Timer => Slack' = Slack - 1 /\ ClockTick
            /\ l # Timer => Slack' = Slack /\ UNCHANGED <<tick, systime>>
            /\ Slack \in 0..2 /\ Slack' \in 0..2
        BY <1>5, DeliverySpends
      <3>2. TornOnce
        BY DEF SkewInv
      <3>3. CASE l = Timer
        <4>1. ClockTick /\ Slack' = Slack - 1 /\ Slack \in 0..2 /\ Slack' \in 0..2
          BY <3>1, <3>3
        <4>2. CASE systime = reg.sys
          BY <1>2, <2>1, <4>1, <4>2 DEF TornOnce, ClockTick
        <4>3. CASE systime = Wrap(reg.sys + 1) /\ tick + Slack <= 1
          BY <1>2, <2>1, <4>1, <4>3 DEF TornOnce, ClockTick
        <4>4. QED
          BY <3>2, <4>2, <4>3 DEF TornOnce
      <3>4. CASE l # Timer
        BY <2>1, <3>1, <3>2, <3>4 DEF TornOnce
      <3>5. QED
        BY <3>3, <3>4
    <2>3. QED
      BY <1>1, <1>2, <2>1, <2>2 DEF SkewInv, StampSkew
  <1>6. ASSUME NEW l \in Lines, Request(l), obs'.skew = obs.skew
        PROVE  SkewInv'
    <2>1. pc' = pc /\ UNCHANGED <<reg, tick, systime>>
      BY <1>6 DEF Request, Latch
    <2>2. pc = "start2" => TornOnce'
      BY <1>2, <1>6, <2>1, RequestGainsNone DEF SkewInv, TornOnce, Lingering
    <2>3. QED
      BY <1>1, <1>2, <1>6, <2>1, <2>2 DEF SkewInv, StampSkew
  <1>7. CASE PitTick
    <2>1. Request(Timer) /\ obs'.skew = obs.skew /\ Timer \in Lines
      BY <1>1, <1>7, LinesAssumption DEF PitTick, TypeOK, Timer
    <2>2. QED
      BY <1>6, <2>1
  <1>8. ASSUME NEW l \in Lines \ {Timer}, DeviceIrq(l) PROVE SkewInv'
    BY <1>6, <1>8 DEF DeviceIrq
  <1>9. CASE Other \/ WaitIrq \/ Sti \/ SleepStart \/ Load \/ Check \/ Hlt \/ Cli \/ Return
             \/ \E g \in Gates, r \in Requests : Call(g, r)
    <2>1. pc' # "start2" /\ obs'.skew \in {0, obs.skew}
      BY <1>9 DEF Other, WaitIrq, Sti, SleepStart, Load, Check, Hlt, Cli, Return, Call, Goto, NoObs
    <2>2. QED
      BY <1>1, <1>2, <2>1 DEF SkewInv, StampSkew
  <1>10. CASE UNCHANGED vars
    BY <1>1, <1>2, <1>10 DEF SkewInv, StampSkew, TornOnce, Slack, vars, irqVars, thread
  <1>11. QED
    BY <1>3, <1>4, <1>5, <1>7, <1>8, <1>9, <1>10 DEF Next, KernelStep

(* The stamp of usleep lags the clock by nothing or by a whole second: the *)
(* two loads are never further apart than one rollover of tick.            *)
THEOREM StampTornByASecond == Spec => []StampSkew
  <1>1. Init => SkewInv
    BY TypeInit DEF Init, SkewInv, StampSkew, NoObs
  <1>2. SkewInv => StampSkew
    BY DEF SkewInv
  <1>3. QED
    BY <1>1, <1>2, SkewStep, PTL DEF Spec

-----------------------------------------------------------------------------
(* How long a sleep lasts. Between sti and cli the flag is set, so no tick *)
(* is lost: the timer periods since the stamp are what the clock moved by, *)
(* give or take one that is latched now, one that was latched then, and    *)
(* what the stamp left out, the ticks of the second it was taken in.       *)
Latched == IF Timer \in pending THEN 1 ELSE 0
Fresh == IF Timer \in burst THEN 0 ELSE 1
Clock == systime * TicksPerSec + tick
Asked == frame.req.arg * TicksPerSec

LoopPlaces == {"check", "hlt", "halted"}

(* Unaccounted periods. *)
Drift == Clock + Latched - (reg.target * TicksPerSec - Asked) - obs.elapsed

Sleeping ==
    /\ frame.req.arg \in Seconds
    /\ reg.target >= frame.req.arg /\ reg.target + 1 < Word
    /\ reg.target - frame.req.arg <= systime
    /\ Drift \in 0..TicksPerSec
    /\ (pc # "halted" /\ Latched = 1 /\ Fresh = 1) => obs.elapsed = 0
    /\ pc = "check"  => obs.elapsed + Fresh <= Asked + 1
    /\ pc = "hlt"    => obs.elapsed + Fresh <= Asked
    /\ pc = "halted" => obs.elapsed <= Asked + Latched

Sleeps == pc \in LoopPlaces /\ frame.req.call = "sleep" /\ ~obs.wraps
CallKept == pc \in {"start2", "load"} => frame.req.call = "usleep"
SleepInv == TypeOK /\ FlagInv /\ CallKept /\ (Sleeps => Sleeping)

(* Multiples of a second are ordered as the seconds are.                   *)
LEMMA SecondsOrdered ==
  ASSUME NEW a \in Nat, NEW b \in Nat
  PROVE  /\ a * TicksPerSec \in Nat
         /\ (a + 1) * TicksPerSec = a * TicksPerSec + TicksPerSec
         /\ a <= b => a * TicksPerSec <= b * TicksPerSec
         /\ a < b => a * TicksPerSec + TicksPerSec <= b * TicksPerSec
  <1>1. TicksPerSec \in Nat
    BY TicksAssumption
  <1>2. a * TicksPerSec \in Nat /\ (a + 1) * TicksPerSec = a * TicksPerSec + TicksPerSec
    BY <1>1
  <1>3. \A c, d \in Nat : c <= d => c * TicksPerSec <= d * TicksPerSec
    BY <1>1
  <1>4. a < b => (a + 1) * TicksPerSec <= b * TicksPerSec
    BY <1>3
  <1>5. QED
    BY <1>2, <1>3, <1>4

(* A tick moves the clock total by one, unless systime wraps.              *)
LEMMA ClockMoves ==
  ASSUME IrqTypeOK, ClockTick, tick + 1 >= TicksPerSec => systime + 1 < Word
  PROVE  Clock' = Clock + 1
  <1>1. /\ systime \in Nat /\ tick \in 0..(TicksPerSec - 1)
        /\ TicksPerSec \in Nat /\ Word \in Nat
    BY TicksAssumption, WordAssumption DEF IrqTypeOK
  <1>2. CASE tick + 1 >= TicksPerSec
    <2>1. tick' = 0 /\ systime' = systime + 1 /\ tick + 1 = TicksPerSec
      BY <1>1, <1>2 DEF ClockTick, Wrap
    <2>2. (systime + 1) * TicksPerSec = systime * TicksPerSec + TicksPerSec
      BY <1>1, SecondsOrdered
    <2>3. systime * TicksPerSec \in Nat
      BY <1>1
    <2>4. QED
      BY <1>1, <2>1, <2>2, <2>3 DEF Clock
  <1>3. CASE ~(tick + 1 >= TicksPerSec)
    <2>1. tick' = tick + 1 /\ systime' = systime
      BY <1>3 DEF ClockTick
    <2>2. systime * TicksPerSec \in Nat
      BY <1>1
    <2>3. QED
      BY <1>1, <2>1, <2>2 DEF Clock
  <1>4. QED
    BY <1>2, <1>3

(* What the names above are numbers of.                                    *)
LEMMA SleepNumbers ==
  ASSUME TypeOK, Sleeping
  PROVE  /\ Clock \in Nat /\ Latched \in 0..1 /\ Fresh \in 0..1 /\ Asked \in Nat
         /\ obs.elapsed \in Nat /\ reg.target \in Nat /\ frame.req.arg \in Nat
         /\ reg.target * TicksPerSec \in Nat /\ Asked <= reg.target * TicksPerSec
         /\ systime \in Nat /\ tick \in 0..(TicksPerSec - 1)
         /\ systime * TicksPerSec \in Nat
         /\ Asked + 1 < Horizon /\ Horizon \in Nat
  <1>1. TicksPerSec \in Nat /\ Word \in Nat /\ Horizon \in Nat /\ Seconds \subseteq Nat
    BY TicksAssumption, WordAssumption, ArgumentsAssumption
  <1>2. /\ systime \in Nat /\ tick \in 0..(TicksPerSec - 1)
        /\ frame.req.arg \in Nat /\ reg.target \in Nat /\ obs.elapsed \in Nat
    <2>1. frame.req.arg \in Nat
      BY <1>1 DEF Sleeping
    <2>2. reg.target \in 0..(Word - 1) /\ obs.elapsed \in 0..Horizon
      BY DEF TypeOK
    <2>3. systime \in 0..(Word - 1) /\ tick \in 0..(TicksPerSec - 1)
      BY DEF TypeOK, IrqTypeOK
    <2>4. QED
      BY <1>1, <2>1, <2>2, <2>3
  <1>3. Latched \in 0..1 /\ Fresh \in 0..1
    BY DEF Latched, Fresh
  <1>4. /\ systime * TicksPerSec \in Nat /\ reg.target * TicksPerSec \in Nat
        /\ frame.req.arg * TicksPerSec \in Nat
        /\ frame.req.arg * TicksPerSec <= reg.target * TicksPerSec
    BY <1>2, SecondsOrdered DEF Sleeping
  <1>5. Asked + 1 < Horizon
    BY HorizonAssumption DEF Sleeping, Asked
  <1>6. QED
    BY <1>1, <1>2, <1>3, <1>4, <1>5 DEF Clock, Asked

(* The first look at the clock.                                            *)
LEMMA SleepBegins ==
  ASSUME SleepInv, SleepStart, ~obs'.wraps
  PROVE  Sleeping'
  <1>1. /\ TicksPerSec \in Nat /\ Word \in Nat /\ Seconds \subseteq Nat
        /\ systime \in Nat /\ tick \in 0..(TicksPerSec - 1)
    BY TicksAssumption, WordAssumption, ArgumentsAssumption DEF SleepInv, TypeOK, IrqTypeOK
  <1>2. /\ frame.req.call = "sleep" /\ pc = "start" /\ pc' = "check"
        /\ reg' = [reg EXCEPT !.target = Wrap(systime + frame.req.arg)]
        /\ obs' = [elapsed |-> 0, skew |-> 0, wraps |-> systime + frame.req.arg + 1 >= Word]
        /\ UNCHANGED <<pending, tick, systime, frame, burst>>
    BY DEF SleepStart, Goto, irqVars, Lingering
  <1>3. frame.req.arg \in Seconds /\ frame.req.arg \in Nat
    BY <1>1, <1>2 DEF SleepInv, TypeOK, Requests
  <1>4. systime + frame.req.arg + 1 < Word
    <2>1. ~(systime + frame.req.arg + 1 >= Word)
      BY <1>2, Zenon
    <2>2. QED
      BY <1>1, <1>3, <2>1
  <1>5. reg'.target = systime + frame.req.arg
    BY <1>1, <1>2, <1>3, <1>4 DEF SleepInv, TypeOK, Wrap
  <1>6. (systime + frame.req.arg) * TicksPerSec
            = systime * TicksPerSec + frame.req.arg * TicksPerSec
    BY <1>1, <1>3
  <1>7. systime * TicksPerSec \in Nat /\ frame.req.arg * TicksPerSec \in Nat
    BY <1>1, <1>3
  <1>8. Latched' = Latched /\ Latched \in 0..1 /\ Fresh' \in 0..1 /\ obs'.elapsed = 0
    BY <1>2 DEF Latched, Fresh
  <1>9. Drift' = tick + Latched
    BY <1>1, <1>2, <1>5, <1>6, <1>7, <1>8 DEF Drift, Clock, Asked
  <1>10. QED
    BY <1>1, <1>2, <1>3, <1>4, <1>5, <1>7, <1>8, <1>9 DEF Sleeping, Asked

(* The clock is at most a second and a tick past the end of the sleep, so  *)
(* it does not wrap.                                                       *)
LEMMA SleepInTime ==
  ASSUME TypeOK, Sleeping, Sleeps, Timer \in pending
  PROVE  tick + 1 >= TicksPerSec => systime + 1 < Word
  <1>1. SUFFICES ASSUME tick + 1 >= TicksPerSec, systime >= reg.target + 1 PROVE FALSE
    BY SleepNumbers, WordAssumption DEF Sleeping
  <1>2. TicksPerSec \in Nat /\ TicksPerSec > 1
    BY TicksAssumption
  <1>3. reg.target * TicksPerSec + TicksPerSec <= systime * TicksPerSec
    BY <1>1, SleepNumbers, SecondsOrdered
  <1>4. obs.elapsed <= Asked + 1 /\ Latched = 1
    BY SleepNumbers DEF Sleeping, Sleeps, LoopPlaces, Latched
  <1>5. Drift \in 0..TicksPerSec
    BY DEF Sleeping
  <1>6. QED
    BY <1>1, <1>2, <1>3, <1>4, <1>5, SleepNumbers DEF Drift, Clock

(* An interrupt that is not the timer's is only taken when that one is not *)
(* latched.                                                                *)
LEMMA TimerFirst ==
  ASSUME TypeOK, NEW l \in Lines, Deliver(l), Timer \in pending
  PROVE  l = Timer
  <1>1. Rank(l) <= Rank(Timer) /\ l \in 0..15
    BY LinesAssumption DEF Deliver, Interrupt, Highest
  <1>2. Rank(Timer) = 0
    BY DEF Rank, Timer
  <1>3. Rank(l) \in Int /\ (l # Timer => Rank(l) > 0)
    BY <1>1 DEF Rank, Timer
  <1>4. QED
    BY <1>1, <1>2, <1>3

LEMMA SleepDelivers ==
  ASSUME SleepInv, Sleeps, NEW l \in Lines, Deliver(l)
  PROVE  Sleeping'
  <1> DEFINE halting == pc = "halted"
  <1>1. TypeOK /\ Sleeping /\ pc \in LoopPlaces /\ frame.req.call = "sleep"
    BY DEF SleepInv, Sleeps
  <1>2. /\ UNCHANGED <<frame, reg, obs>> /\ l \in pending /\ pending' = pending \ {l}
        /\ irq_handler(l)
        /\ IF pc = "halted" THEN pc' = "check" /\ burst' = {l} ELSE UNCHANGED <<pc, burst>>
    BY <1>1 DEF Deliver, Interrupt, Highest, LoopHead
  <1>3. Asked' = Asked
    BY <1>2 DEF Asked
  <1>7. systime' \in Nat
    <2>1. TypeOK'
      BY <1>1, TypeStep DEF Next
    <2>2. QED
      BY <2>1, WordAssumption DEF TypeOK, IrqTypeOK
  <1>4. CASE l = Timer
    <2>1. Clock' = Clock + 1 /\ systime <= systime'
      <3>1. ClockTick /\ IrqTypeOK /\ (tick + 1 >= TicksPerSec => systime + 1 < Word)
        BY <1>1, <1>2, <1>4, SleepInTime DEF irq_handler, TypeOK
      <3>2. systime <= systime'
        BY <3>1, WordAssumption DEF ClockTick, Wrap, IrqTypeOK
      <3>3. QED
        BY <3>1, <3>2, ClockMoves
    <2>2. Latched = 1 /\ Latched' = 0
      BY <1>2, <1>4 DEF Latched
    <2>3. Drift' = Drift
      BY <1>1, <1>2, <1>3, <2>1, <2>2, SleepNumbers DEF Drift
    <2>4. /\ frame' = frame /\ reg' = reg /\ obs' = obs
          /\ \/ pc = "halted" /\ pc' = "check" /\ Fresh' = 0
             \/ pc # "halted" /\ pc' = pc /\ Fresh' = Fresh
      BY <1>2, <1>4 DEF Fresh
    <2>5. /\ frame'.req.arg \in Seconds
          /\ reg'.target >= frame'.req.arg /\ reg'.target + 1 < Word
          /\ reg'.target - frame'.req.arg <= systime'
      <3>1. /\ frame.req.arg \in Seconds
            /\ reg.target >= frame.req.arg /\ reg.target + 1 < Word
            /\ reg.target - frame.req.arg <= systime
        BY <1>1 DEF Sleeping
      <3>2. systime \in Nat /\ systime' \in Nat
        BY <1>1, <1>7, SleepNumbers
      <3>3. QED
        BY <1>1, <2>1, <2>4, <3>1, <3>2, SleepNumbers
    <2>6. Drift' \in 0..TicksPerSec
      BY <1>1, <2>3 DEF Sleeping
    <2>7. /\ pc' = "check"  => obs'.elapsed + Fresh' <= Asked' + 1
          /\ pc' = "hlt"    => obs'.elapsed + Fresh' <= Asked'
          /\ pc' = "halted" => obs'.elapsed <= Asked' + Latched'
      <3>1. /\ obs.elapsed \in Nat /\ Asked \in Nat /\ Fresh \in 0..1
        BY <1>1, SleepNumbers
      <3>2. /\ pc = "check"  => obs.elapsed + Fresh <= Asked + 1
            /\ pc = "hlt"    => obs.elapsed + Fresh <= Asked
            /\ pc = "halted" => obs.elapsed <= Asked + 1
        BY <1>1, <2>2 DEF Sleeping
      <3>3. QED
        BY <1>3, <2>4, <3>1, <3>2
    <2>8. QED
      BY <2>2, <2>5, <2>6, <2>7 DEF Sleeping
  <1>5. CASE l # Timer
    <2>1. Clock' = Clock /\ Latched = 0 /\ Latched' = 0 /\ systime' = systime
      BY <1>1, <1>2, <1>5, TimerFirst DEF Clock, Latched, irq_handler
    <2>2. Drift' = Drift
      BY <1>2, <1>3, <2>1 DEF Drift
    <2>3. Fresh' = IF pc = "halted" THEN 1 ELSE Fresh
      BY <1>2, <1>5 DEF Fresh
    <2>4. QED
      BY <1>1, <1>2, <1>3, <2>1, <2>2, <2>3, SleepNumbers DEF Sleeping, LoopPlaces
  <1>6. QED
    BY <1>4, <1>5

LEMMA SleepTicks ==
  ASSUME SleepInv, Sleeps, PitTick
  PROVE  Sleeping'
  <1>1. TypeOK /\ Sleeping /\ pc \in LoopPlaces /\ FlagInv
    BY DEF SleepInv, Sleeps
  <1>2. /\ Timer \notin pending /\ Timer \notin burst
        /\ pending' = pending \cup {Timer}
        /\ UNCHANGED <<pc, frame, reg, tick, systime>>
        /\ burst' = IF pc \in Lingering THEN {} ELSE burst \cup {Timer}
    BY <1>1 DEF PitTick, Request, Latch, FlagInv, WaitPlaces, LoopPlaces
  <1>3. Clock' = Clock /\ Asked' = Asked /\ Latched = 0 /\ Latched' = 1 /\ Fresh = 1
    BY <1>2 DEF Clock, Asked, Latched, Fresh
  <1>4. pc # "halted" => Fresh' = 0
    BY <1>1, <1>2 DEF Fresh, Lingering, LoopPlaces
  <1>5. obs.elapsed < Horizon
    BY <1>1, SleepNumbers DEF Sleeping, LoopPlaces
  <1>6. obs'.elapsed = obs.elapsed + 1
    <2>1. obs' = [obs EXCEPT !.elapsed = @ + 1]
      BY <1>1, <1>5, SleepNumbers DEF PitTick, LoopPlaces
    <2>2. QED
      BY <1>1, <2>1 DEF TypeOK
  <1>7. Drift' = Drift
    BY <1>1, <1>2, <1>3, <1>6, SleepNumbers DEF Drift
  <1>8. QED
    BY <1>1, <1>2, <1>3, <1>4, <1>6, <1>7, SleepNumbers DEF Sleeping, LoopPlaces

LEMMA SleepChecks ==
  ASSUME SleepInv, Sleeps, Check \/ Hlt, pc' \in LoopPlaces
  PROVE  Sleeping'
  <1>1. TypeOK /\ Sleeping /\ frame.req.call = "sleep"
    BY DEF SleepInv, Sleeps
  <1>2. /\ UNCHANGED <<irqVars, frame, reg, obs>>
        /\ \/ pc = "check" /\ pc' = "hlt" /\ systime < reg.target /\ burst' = burst
           \/ pc = "hlt" /\ pc' = "halted"
    BY <1>1 DEF Check, Hlt, Goto, Waiting, LoopPlaces, Lingering
  <1>3. /\ Clock' = Clock /\ Asked' = Asked /\ Latched' = Latched /\ Drift' = Drift
        /\ systime' = systime
    BY <1>2 DEF Clock, Asked, Latched, Drift, irqVars
  <1>4. CASE pc = "hlt" /\ pc' = "halted"
    BY <1>1, <1>2, <1>3, <1>4, SleepNumbers DEF Sleeping
  <1>5. CASE pc = "check" /\ pc' = "hlt" /\ systime < reg.target /\ burst' = burst
    <2>1. TicksPerSec \in Nat /\ TicksPerSec > 1
      BY TicksAssumption
    <2>2. systime * TicksPerSec + TicksPerSec <= reg.target * TicksPerSec
      BY <1>1, <1>5, SleepNumbers, SecondsOrdered
    <2>3. Fresh' = Fresh
      BY <1>5 DEF Fresh
    <2>4. TicksPerSec <= Asked
      <3>1. 0 < frame.req.arg
        BY <1>1, <1>5, SleepNumbers DEF Sleeping
      <3>2. 0 * TicksPerSec + TicksPerSec <= frame.req.arg * TicksPerSec
        BY <1>1, <3>1, SleepNumbers, SecondsOrdered
      <3>3. QED
        BY <2>1, <3>2 DEF Asked
    <2>5. obs.elapsed + Fresh <= Asked
      <3>1. obs.elapsed <= Asked - 1 + Latched
        BY <1>1, <2>1, <2>2, SleepNumbers DEF Sleeping, Drift, Clock
      <3>2. (Latched = 1 /\ Fresh = 1) => obs.elapsed = 0
        BY <1>1, <1>5 DEF Sleeping
      <3>3. QED
        BY <1>1, <2>1, <2>4, <3>1, <3>2, SleepNumbers
    <2>6. QED
      BY <1>1, <1>2, <1>3, <1>5, <2>3, <2>5, SleepNumbers DEF Sleeping
  <1>6. QED
    BY <1>2, <1>4, <1>5

(* Only usleep goes through the places where a clock is being loaded.      *)
LEMMA CallKeptStep == CallKept /\ [Next]_vars => CallKept'
  <1> SUFFICES ASSUME CallKept, [Next]_vars PROVE CallKept'
    OBVIOUS
  <1> USE DEF CallKept, Goto
  <1>1. CASE Other \/ WaitIrq \/ Sti \/ SleepStart \/ Load \/ Check \/ Hlt \/ Cli \/ Return
    BY <1>1 DEF Other, WaitIrq, Sti, SleepStart, Load, Check, Hlt, Cli, Return
  <1>2. CASE UsleepStart \/ UsleepStart2
    BY <1>2 DEF UsleepStart, UsleepStart2
  <1>3. CASE \E g \in Gates, r \in Requests : Call(g, r)
    BY <1>3 DEF Call
  <1>4. CASE \E l \in Lines : Deliver(l)
    BY <1>4 DEF Deliver, LoopHead
  <1>5. CASE PitTick \/ \E l \in Lines \ {Timer} : DeviceIrq(l)
    BY <1>5 DEF PitTick, DeviceIrq, Request
  <1>6. CASE UNCHANGED vars
    BY <1>6 DEF vars, thread
  <1>7. QED
    BY <1>1, <1>2, <1>3, <1>4, <1>5, <1>6 DEF Next, KernelStep

LEMMA SleepStep == SleepInv /\ [Next]_vars => SleepInv'
  <1> SUFFICES ASSUME SleepInv, [Next]_vars, Sleeps' PROVE Sleeping'
    BY TypeStep, FlagStep, CallKeptStep DEF SleepInv
  <1>1. pc' \in LoopPlaces /\ frame'.req.call = "sleep" /\ ~obs'.wraps
    BY DEF Sleeps
  <1>2. CASE SleepStart
    BY <1>1, <1>2, SleepBegins
  <1>3. CASE Check \/ Hlt
    <2>1. Sleeps
      BY <1>1, <1>3 DEF Sleeps, Check, Hlt, Goto, LoopPlaces
    <2>2. QED
      BY <1>1, <1>3, <2>1, SleepChecks
  <1>4. ASSUME NEW l \in Lines, Deliver(l) PROVE Sleeping'
    <2>1. Sleeps
      BY <1>1, <1>4 DEF Sleeps, Deliver, LoopPlaces
    <2>2. QED
      BY <1>4, <2>1, SleepDelivers
  <1>5. CASE PitTick
    <2>1. obs'.wraps = obs.wraps
      BY <1>5 DEF PitTick, SleepInv, TypeOK
    <2>2. Sleeps
      BY <1>1, <1>5, <2>1 DEF Sleeps, PitTick, Request
    <2>3. QED
      BY <1>5, <2>2, SleepTicks
  <1>6. ASSUME NEW l \in Lines \ {Timer}, DeviceIrq(l) PROVE Sleeping'
    <2>1. UNCHANGED <<pc, frame, reg, tick, systime, obs>>
      BY <1>6 DEF DeviceIrq, Request, Latch
    <2>2. Sleeping
      BY <1>1, <2>1 DEF SleepInv, Sleeps
    <2>3. Latched' = Latched /\ (pc = "halted" \/ Fresh' = Fresh)
      BY <1>1, <1>6, <2>1 DEF DeviceIrq, Request, Latch, Latched, Fresh, Lingering, LoopPlaces
    <2>4. Drift' = Drift /\ Asked' = Asked
      BY <2>1, <2>3 DEF Drift, Clock, Asked
    <2>5. QED
      BY <2>1, <2>2, <2>3, <2>4 DEF Sleeping
  <1>7. CASE Other \/ WaitIrq \/ Sti \/ UsleepStart \/ UsleepStart2 \/ Load \/ Cli \/ Return
             \/ \E g \in Gates, r \in Requests : Call(g, r)
    <2>1. pc' \notin LoopPlaces \/ frame'.req.call # "sleep"
      <3>1. CASE WaitIrq
        BY <3>1 DEF WaitIrq
      <3>2. CASE Load
        BY <3>2 DEF Load, Goto, SleepInv, CallKept
      <3>3. CASE ~WaitIrq /\ ~Load
        BY <1>7, <3>3 DEF Other, Sti, UsleepStart, UsleepStart2, Cli, Return, Call, Goto, LoopPlaces
      <3>4. QED
        BY <3>1, <3>2, <3>3
    <2>2. QED
      BY <1>1, <2>1
  <1>8. CASE UNCHANGED vars
    <2>1. UNCHANGED <<pc, frame, reg, tick, systime, obs, pending, burst>>
      BY <1>8 DEF vars, irqVars, thread
    <2>2. Sleeping
      BY <1>1, <2>1 DEF SleepInv, Sleeps
    <2>3. QED
      BY <2>1, <2>2 DEF Sleeping, Drift, Clock, Asked, Latched, Fresh
  <1>9. QED
    BY <1>2, <1>3, <1>4, <1>5, <1>6, <1>7, <1>8 DEF Next, KernelStep

(* A sleep lasts no shorter than a second less than was asked, and no      *)
(* longer than a period more, whatever interrupts come between its loads.  *)
THEOREM SleepLasts == Spec => SleepLength
  <1> DEFINE Bounds == Ends("sleep") =>
                (LET asked == frame.req.arg * TicksPerSec
                 IN  asked - TicksPerSec <= obs.elapsed /\ obs.elapsed <= asked + 1)
  <1>1. Init => SleepInv
    BY TypeInit DEF Init, SleepInv, FlagInv, WaitPlaces, CallKept, Sleeps, LoopPlaces
  <1>2. SleepInv /\ [Next]_vars => [Bounds]_vars
    <2> SUFFICES ASSUME SleepInv, [Next]_vars, Ends("sleep")
                 PROVE  Asked - TicksPerSec <= obs.elapsed /\ obs.elapsed <= Asked + 1
      BY DEF Asked
    <2>1. pc = "check" /\ pc' = "cli" /\ frame.req.call = "sleep" /\ Sleeps
      BY DEF Ends, Sleeps, LoopPlaces
    <2>2. TypeOK /\ Sleeping
      BY <2>1 DEF SleepInv
    <2>3. systime >= reg.target
      <3>1. ~(systime < reg.target)
        <4>1. Check
          BY <2>1 DEF Next, KernelStep, Other, WaitIrq, Sti, SleepStart, UsleepStart, UsleepStart2,
             Load, Check, Hlt, Cli, Return, Call, Goto, Deliver, LoopHead, PitTick, DeviceIrq,
             Request, vars, thread
        <4>2. QED
          BY <2>1, <4>1 DEF Check, Goto, Waiting
      <3>2. QED
        BY <2>2, <3>1, SleepNumbers
    <2>4. reg.target * TicksPerSec <= systime * TicksPerSec
      BY <2>2, <2>3, SleepNumbers, SecondsOrdered
    <2>5. obs.elapsed >= Asked - TicksPerSec
      BY <2>2, <2>4, SleepNumbers, TicksAssumption DEF Sleeping, Drift, Clock
    <2>6. obs.elapsed <= Asked + 1
      BY <2>1, <2>2, SleepNumbers DEF Sleeping
    <2>7. QED
      BY <2>2, <2>5, <2>6, SleepNumbers, TicksAssumption
  <1>3. QED
    BY <1>1, <1>2, SleepStep, PTL DEF Spec, SleepLength
-----------------------------------------------------------------------------
(* How long a usleep lasts. The tick total that usleep looks at is the     *)
(* clock modulo a word, so it is followed from the stamp on, in which time *)
(* it does not wrap.                                                       *)
Now == Total(systime, tick)
AskedTicks == TicksToWait(frame.req.arg)
Stamp == reg.target - AskedTicks

(* Ticks the handler has counted since the stamp was taken.                *)
Counted == Now - Stamp - obs.skew

(* What the loop reads at its check lags the clock by this much, when the  *)
(* clock rolled over between the two loads.                                *)
Behind == IF reg.sys = systime THEN 0 ELSE TicksPerSec

(* The end has come no later than the second that a reading b behind the   *)
(* clock begins with, so whatever tick it is read with, the loop ends.     *)
Over(b) == Now - b - tick >= reg.target

(* In the first pass hardly a period has passed since the stamp. A later   *)
(* one began with an interrupt, and when that was the timer's no other     *)
(* comes before the next hlt, so after a rollover the second is fresh.     *)
FirstPass == obs.elapsed + Fresh <= 1
LaterPass(b) ==
    /\ Slack <= 1
    /\ b # 0 => Slack = 0 /\ tick = 0
    /\ \/ obs.elapsed + Fresh <= AskedTicks + 1
       \/ obs.elapsed + Fresh <= AskedTicks + 2 /\ Over(b)
Passing(b) ==
    /\ Now + Slack <= reg.target + TicksPerSec + 2
    /\ FirstPass \/ LaterPass(b)

(* What a check that did not end the loop leaves to come.                  *)
Halting(periods) ==
    /\ Now <= reg.target + TicksPerSec + 1
    /\ \/ periods <= AskedTicks
       \/ periods <= AskedTicks + 1 /\ Over(0)

Usleeping ==
    /\ frame.req.arg \in Micros
    /\ TicksPerSec <= Stamp /\ reg.target + TicksPerSec + 2 < Word
    /\ Counted >= 0 /\ Counted + Latched - obs.elapsed \in {0, 1}
    /\ pc = "load"   => Passing(0)
    /\ pc = "check"  => TornOnce /\ Passing(Behind) /\ (Behind = 0 \/ Now - tick >= Stamp)
    /\ pc = "hlt"    => /\ Now + Slack <= reg.target + TicksPerSec + 1
                        /\ Halting(obs.elapsed + Fresh)
    /\ pc = "halted" => Halting(obs.elapsed - Latched)

UsleepPlaces == {"load", "check", "hlt", "halted"}
Usleeps == pc \in UsleepPlaces /\ frame.req.call = "usleep" /\ ~obs.wraps
UsleepInv == SkewInv /\ FlagInv /\ CallKept /\ (Usleeps => Usleeping)

(* Numbers within a word whose wrapped difference is known.                *)
LEMMA WrapApart ==
  ASSUME NEW a \in 0..(Word - 1), NEW b \in 0..(Word - 1), NEW c \in 0..(Word - 1),
         Wrap(a - b) = c
  PROVE  a = b + c \/ a = b + c - Word
  BY WordAssumption DEF Wrap

(* What the names above are numbers of.                                    *)
LEMMA UsleepNumbers ==
  ASSUME TypeOK, frame.req.arg \in Micros
  PROVE  /\ Now \in 0..(Word - 1) /\ AskedTicks \in Nat /\ AskedTicks + 2 < Horizon
         /\ Latched \in 0..1 /\ Fresh \in 0..1 /\ Slack = Latched + Fresh
         /\ tick \in 0..(TicksPerSec - 1) /\ reg.target \in Nat /\ obs.elapsed \in 0..Horizon
         /\ obs.skew \in Nat /\ Stamp = reg.target - AskedTicks /\ Stamp \in Int
         /\ Counted = Now - Stamp - obs.skew
         /\ TicksPerSec \in Nat /\ TicksPerSec > 1 /\ Word \in Nat /\ TicksPerSec < Word
         /\ Horizon \in Nat
  <1>1. /\ TicksPerSec \in Nat /\ TicksPerSec > 1 /\ Word \in Nat /\ TicksPerSec < Word
        /\ Horizon \in Nat
    BY TicksAssumption, WordAssumption, ArgumentsAssumption
  <1>2. /\ tick \in 0..(TicksPerSec - 1) /\ systime \in 0..(Word - 1)
        /\ reg.target \in 0..(Word - 1) /\ obs.elapsed \in 0..Horizon /\ obs.skew \in 0..(Word - 1)
    BY DEF TypeOK, IrqTypeOK
  <1>3. Now \in 0..(Word - 1)
    BY <1>2, TotalInWord DEF Now
  <1>4. AskedTicks \in Nat
    <2>1. UnitsPerTick \in Nat \ {0} /\ frame.req.arg + UnitsPerTick - 1 \in Int
      <3>1. frame.req.arg \in 0..(Word - 1) /\ UnitsPerTick \in 1..Word
        BY ArgumentsAssumption
      <3>2. QED
        BY <1>1, <3>1
    <2>2. Wrap(frame.req.arg + UnitsPerTick - 1) \in Nat
      BY <1>1, <2>1, WrapInWord
    <2>3. QED
      BY <2>1, <2>2 DEF AskedTicks, TicksToWait
  <1>5. AskedTicks + 2 < Horizon
    BY HorizonAssumption DEF AskedTicks
  <1>6. Latched \in 0..1 /\ Fresh \in 0..1 /\ Slack = Latched + Fresh
    BY DEF Latched, Fresh, Slack
  <1>7. Stamp = reg.target - AskedTicks /\ Stamp \in Int
    BY <1>1, <1>2, <1>4 DEF Stamp
  <1>8. QED
    BY <1>1, <1>2, <1>3, <1>4, <1>5, <1>6, <1>7 DEF Counted

(* A tick moves what usleep looks at by one.                               *)
LEMMA NowMoves ==
  ASSUME IrqTypeOK, IrqTypeOK', ClockTick, Now + 1 < Word
  PROVE  Now' = Now + 1
  <1>1. /\ TicksPerSec \in Nat /\ TicksPerSec > 1 /\ Word \in Nat /\ TicksPerSec < Word
        /\ tick \in 0..(TicksPerSec - 1) /\ systime \in 0..(Word - 1)
        /\ tick' \in 0..(TicksPerSec - 1) /\ systime' \in 0..(Word - 1)
    BY TicksAssumption, WordAssumption DEF IrqTypeOK
  <1>2. Clock \in Int /\ Clock' \in Int /\ Now = Wrap(Clock) /\ Now' = Wrap(Clock')
    BY <1>1 DEF Clock, Now, Total
  <1>3. Now \in 0..(Word - 1) /\ Now' \in 0..(Word - 1)
    BY <1>2, WrapInWord
  <1>4. Wrap(Now' - Now) = 1
    <2>1. CASE tick + 1 >= TicksPerSec /\ systime = Word - 1
      <3>1. tick' = 0 /\ systime' = 0 /\ tick = TicksPerSec - 1
        BY <1>1, <2>1 DEF ClockTick, Wrap
      <3>2. (Word - 1) * TicksPerSec = Word * TicksPerSec - TicksPerSec
        BY <1>1
      <3>3. (-TicksPerSec) * Word = -(Word * TicksPerSec) /\ Word * TicksPerSec \in Int
        BY <1>1
      <3>4. Clock' = Clock + 1 + (-TicksPerSec) * Word
        BY <1>1, <2>1, <3>1, <3>2, <3>3 DEF Clock
      <3>5. 1 \in 0..(Word - 1) /\ -TicksPerSec \in Int
        BY <1>1
      <3>6. QED
        BY <1>2, <3>4, <3>5, WrappedDifference
    <2>2. CASE ~(tick + 1 >= TicksPerSec /\ systime = Word - 1)
      <3>1. Clock' = Clock + 1
        BY <1>1, <2>2, ClockMoves
      <3>2. Clock' = Clock + 1 + 0 * Word
        BY <1>1, <1>2, <3>1
      <3>3. 1 \in 0..(Word - 1) /\ 0 \in Int
        BY <1>1
      <3>4. QED
        BY <1>2, <3>2, <3>3, WrappedDifference
    <2>3. QED
      BY <2>1, <2>2
  <1>5. Now' = Now + 1 \/ Now' = Now + 1 - Word
    BY <1>1, <1>3, <1>4, WrapApart
  <1>6. QED
    BY <1>1, <1>3, <1>5

(* What the check reads, when the clock is a second into its word.         *)
LEMMA ReadIsNow ==
  ASSUME TypeOK, TornOnce, TicksPerSec <= Now
  PROVE  Total(reg.sys, tick) = Now - Behind
  <1>1. /\ TicksPerSec \in Nat /\ TicksPerSec > 1 /\ Word \in Nat /\ TicksPerSec < Word
        /\ tick \in 0..(TicksPerSec - 1) /\ systime \in 0..(Word - 1) /\ reg.sys \in 0..(Word - 1)
    BY TicksAssumption, WordAssumption DEF TypeOK, IrqTypeOK
  <1>2. Now \in 0..(Word - 1) /\ Total(reg.sys, tick) \in 0..(Word - 1)
    BY <1>1, TotalInWord DEF Now
  <1>3. CASE systime = reg.sys
    BY <1>1, <1>2, <1>3 DEF Behind, Now
  <1>4. CASE systime # reg.sys
    <2>1. systime = Wrap(reg.sys + 1)
      BY <1>4 DEF TornOnce
    <2>2. Wrap(Now - Total(reg.sys, tick)) = TicksPerSec
      BY <1>1, <2>1, SecondOfSkew DEF Now
    <2>3. TicksPerSec \in 0..(Word - 1)
      BY <1>1
    <2>4. \/ Now = Total(reg.sys, tick) + TicksPerSec
          \/ Now = Total(reg.sys, tick) + TicksPerSec - Word
      BY <1>2, <2>2, <2>3, WrapApart
    <2>5. QED
      BY <1>1, <1>2, <1>4, <2>4 DEF Behind
  <1>5. QED
    BY <1>3, <1>4

(* The stamp is taken.                                                     *)
LEMMA UsleepBegins ==
  ASSUME UsleepInv, UsleepStart2, ~obs'.wraps
  PROVE  Usleeping'
  <1> DEFINE start == Total(reg.sys, tick)
  <1>1. TypeOK /\ TypeOK' /\ SkewInv'
    BY TypeStep, SkewStep DEF UsleepInv, SkewInv, Next, KernelStep
  <1>2. /\ frame.req.call = "usleep" /\ pc = "start2" /\ pc' = "load"
        /\ UNCHANGED <<pending, tick, systime, frame, burst>>
    BY DEF UsleepInv, CallKept, UsleepStart2, Goto, irqVars, Lingering
  <1>3. frame.req.arg \in Micros /\ frame'.req.arg \in Micros
    BY <1>1, <1>2 DEF TypeOK, Requests
  <1>4. /\ reg' = [reg EXCEPT !.target = Wrap(start + AskedTicks)]
        /\ obs' = [elapsed |-> 0, skew |-> Wrap(Now - start),
                   wraps |-> start < TicksPerSec
                                \/ start + AskedTicks + TicksPerSec + 2 >= Word]
    BY DEF UsleepStart2, Now, AskedTicks
  <1>5. start \in 0..(Word - 1)
    BY <1>1, TotalInWord DEF TypeOK, IrqTypeOK
  <1> HIDE DEF start
  <1>6. start >= TicksPerSec /\ start + AskedTicks + TicksPerSec + 2 < Word
    <2>1. ~(start < TicksPerSec \/ start + AskedTicks + TicksPerSec + 2 >= Word)
      BY <1>4, Zenon
    <2>2. QED
      BY <1>1, <1>3, <1>5, <2>1, UsleepNumbers
  <1>7. reg'.target = start + AskedTicks
    <2>1. reg'.target = Wrap(start + AskedTicks)
      BY <1>1, <1>4 DEF TypeOK
    <2>2. QED
      BY <1>1, <1>3, <1>5, <1>6, <2>1, UsleepNumbers DEF Wrap
  <1>8. /\ Now' = Now /\ AskedTicks' = AskedTicks /\ Latched' = Latched
        /\ Fresh' = Fresh /\ Slack' = Slack
    BY <1>2 DEF Now, AskedTicks, Latched, Fresh, Slack
  <1>9. obs'.elapsed = 0 /\ obs'.skew = Wrap(Now - start) /\ obs'.skew \in {0, TicksPerSec}
    BY <1>1, <1>4 DEF SkewInv, StampSkew
  <1>10. Now = start + obs'.skew
    <2>1. obs'.skew \in 0..(Word - 1)
      BY <1>1, <1>3, <1>9, UsleepNumbers
    <2>2. Now = start + obs'.skew \/ Now = start + obs'.skew - Word
      <3>1. Now \in 0..(Word - 1) /\ Wrap(Now - start) = obs'.skew
        BY <1>1, <1>3, <1>9, UsleepNumbers
      <3>2. QED
        BY <1>5, <2>1, <3>1, WrapApart
    <2>3. QED
      BY <1>1, <1>3, <1>5, <1>6, <1>9, <2>2, UsleepNumbers
  <1>11. Stamp' = start
    BY <1>1, <1>3, <1>5, <1>7, <1>8, UsleepNumbers DEF Stamp
  <1>12. Counted' = 0
    BY <1>1, <1>3, <1>5, <1>8, <1>9, <1>10, <1>11, UsleepNumbers DEF Counted
  <1>13. Passing(0)'
    <2>1. FirstPass'
      BY <1>1, <1>3, <1>8, <1>9, UsleepNumbers DEF FirstPass
    <2>2. Now' + Slack' <= reg'.target + TicksPerSec + 2
      BY <1>1, <1>3, <1>5, <1>6, <1>7, <1>8, <1>9, <1>10, UsleepNumbers
    <2>3. QED
      BY <2>1, <2>2 DEF Passing
  <1>14. Counted' + Latched' - obs'.elapsed \in {0, 1}
    BY <1>1, <1>3, <1>8, <1>9, <1>12, UsleepNumbers
  <1>15. reg'.target + TicksPerSec + 2 < Word
    BY <1>1, <1>3, <1>5, <1>6, <1>7, UsleepNumbers
  <1>16. QED
    BY <1>2, <1>3, <1>5, <1>6, <1>11, <1>12, <1>13, <1>14, <1>15 DEF Usleeping

(* The loop reads the seconds.                                             *)
LEMMA UsleepLoads ==
  ASSUME UsleepInv, Usleeps, Load
  PROVE  Usleeping'
  <1>1. TypeOK /\ Usleeping /\ pc = "load" /\ pc' = "check" /\ reg'.sys = systime
        /\ reg'.target = reg.target
    BY DEF UsleepInv, SkewInv, Load, Goto, TypeOK
  <1>2. UNCHANGED <<pending, tick, systime, frame, burst, obs>>
    BY DEF Load, Goto, irqVars, Lingering
  <1>3. /\ Now' = Now /\ AskedTicks' = AskedTicks /\ Latched' = Latched
        /\ Fresh' = Fresh /\ Slack' = Slack /\ Behind' = 0
    BY <1>1, <1>2 DEF Now, AskedTicks, Latched, Fresh, Slack, Behind
  <1>4. Stamp' = Stamp /\ Counted' = Counted
    BY <1>1, <1>2, <1>3 DEF Stamp, Counted
  <1>5. TornOnce'
    BY <1>1, <1>2 DEF TornOnce
  <1>6. Passing(0)
    BY <1>1 DEF Usleeping
  <1>7. Passing(Behind)'
    BY <1>1, <1>2, <1>3, <1>6 DEF Passing, FirstPass, LaterPass, Over
  <1>8. QED
    BY <1>1, <1>2, <1>3, <1>4, <1>5, <1>7 DEF Usleeping

(* A check that goes on, and the hlt behind it.                            *)
LEMMA UsleepChecks ==
  ASSUME UsleepInv, Usleeps, Check, pc' # "cli"
  PROVE  Usleeping'
  <1>1. TypeOK /\ Usleeping /\ pc = "check" /\ pc' = "hlt" /\ Total(reg.sys, tick) < reg.target
    BY DEF UsleepInv, SkewInv, Usleeps, Check, Goto, Waiting
  <1>2. UNCHANGED <<pending, tick, systime, frame, burst, obs, reg>>
    BY DEF Check, Goto, irqVars, Lingering
  <1>3. /\ Now' = Now /\ AskedTicks' = AskedTicks /\ Latched' = Latched
        /\ Fresh' = Fresh /\ Slack' = Slack
    BY <1>2 DEF Now, AskedTicks, Latched, Fresh, Slack
  <1>4. Stamp' = Stamp /\ Counted' = Counted
    BY <1>2, <1>3 DEF Stamp, Counted
  <1>5. /\ frame.req.arg \in Micros /\ TicksPerSec <= Stamp
        /\ Counted >= 0 /\ Counted + Latched - obs.elapsed \in {0, 1}
        /\ TornOnce /\ Passing(Behind) /\ (Behind = 0 \/ Now - tick >= Stamp)
    BY <1>1 DEF Usleeping
  <1>6. Behind \in {0, TicksPerSec} /\ Now - Behind < reg.target
    BY <1>1, <1>5, UsleepNumbers, ReadIsNow DEF Behind
  <1>7. Now + Slack <= reg.target + TicksPerSec + 1
    BY <1>1, <1>5, <1>6, UsleepNumbers
  <1>8. Halting(obs.elapsed + Fresh)
    <2>1. Now <= reg.target + TicksPerSec + 1
      BY <1>1, <1>5, <1>7, UsleepNumbers
    <2>2. ASSUME FirstPass
          PROVE  \/ obs.elapsed + Fresh <= AskedTicks
                 \/ obs.elapsed + Fresh <= AskedTicks + 1 /\ Over(0)
      <3>1. obs.elapsed + Fresh <= 1
        BY <2>2 DEF FirstPass
      <3>2. CASE Behind = 0
        BY <1>1, <1>5, <1>6, <3>1, <3>2, UsleepNumbers
      <3>3. CASE Now - tick >= Stamp
        <4>1. AskedTicks >= 1 \/ Now - 0 - tick >= reg.target
          BY <1>1, <1>5, <3>3, UsleepNumbers
        <4>2. QED
          BY <1>1, <1>5, <3>1, <4>1, UsleepNumbers DEF Over
      <3>4. QED
        BY <1>5, <3>2, <3>3
    <2>3. ASSUME LaterPass(Behind)
          PROVE  \/ obs.elapsed + Fresh <= AskedTicks
                 \/ obs.elapsed + Fresh <= AskedTicks + 1 /\ Over(0)
      <3>1. /\ Slack <= 1
            /\ Behind # 0 => Slack = 0 /\ tick = 0
            /\ \/ obs.elapsed + Fresh <= AskedTicks + 1
               \/ obs.elapsed + Fresh <= AskedTicks + 2 /\ Now - Behind - tick >= reg.target
        BY <2>3 DEF LaterPass, Over
      <3>2. CASE Behind = 0
        BY <1>1, <1>5, <1>6, <3>1, <3>2, UsleepNumbers
      <3>3. CASE Behind # 0
        <4>1. Slack = 0 /\ tick = 0 /\ Fresh = 0 /\ Latched = 0
          BY <1>1, <1>5, <3>1, <3>3, UsleepNumbers
        <4>2. obs.elapsed <= AskedTicks + 1
          BY <1>1, <1>5, <1>6, <3>1, <4>1, UsleepNumbers
        <4>3. obs.elapsed <= AskedTicks \/ Now - 0 - tick >= reg.target
          BY <1>1, <1>5, <4>1, <4>2, UsleepNumbers
        <4>4. QED
          BY <1>1, <1>5, <4>1, <4>2, <4>3, UsleepNumbers DEF Over
      <3>4. QED
        BY <3>2, <3>3
    <2>4. QED
      BY <1>5, <2>1, <2>2, <2>3 DEF Passing, Halting
  <1>9. QED
    BY <1>1, <1>2, <1>3, <1>4, <1>5, <1>7, <1>8 DEF Usleeping, Halting, Over

LEMMA UsleepHalts ==
  ASSUME UsleepInv, Usleeps, Hlt
  PROVE  Usleeping'
  <1>1. TypeOK /\ Usleeping /\ pc = "hlt" /\ pc' = "halted"
    BY DEF UsleepInv, SkewInv, Hlt, Goto
  <1>2. UNCHANGED <<pending, tick, systime, frame, obs, reg>>
    BY DEF Hlt, Goto, irqVars
  <1>3. Now' = Now /\ AskedTicks' = AskedTicks /\ Latched' = Latched
    BY <1>2 DEF Now, AskedTicks, Latched
  <1>4. Stamp' = Stamp /\ Counted' = Counted
    BY <1>2, <1>3 DEF Stamp, Counted
  <1>5. Halting(obs.elapsed + Fresh) /\ frame.req.arg \in Micros
    BY <1>1 DEF Usleeping
  <1>6. Halting(obs.elapsed - Latched)'
    BY <1>1, <1>2, <1>3, <1>5, UsleepNumbers DEF Halting, Over
  <1>7. QED
    BY <1>1, <1>2, <1>3, <1>4, <1>6 DEF Usleeping

(* An interrupt is counted, and ends a hlt.                                *)
LEMMA UsleepDelivers ==
  ASSUME UsleepInv, Usleeps, NEW l \in Lines, Deliver(l)
  PROVE  Usleeping'
  <1>1. TypeOK /\ TypeOK' /\ Usleeping /\ pc \in UsleepPlaces /\ frame.req.call = "usleep"
    BY TypeStep DEF UsleepInv, SkewInv, Usleeps, Next
  <1>2. /\ UNCHANGED <<frame, reg, obs>> /\ l \in pending /\ pending' = pending \ {l}
        /\ irq_handler(l)
        /\ IF pc = "halted" THEN pc' = "load" /\ burst' = {l} ELSE UNCHANGED <<pc, burst>>
    BY <1>1 DEF Deliver, Interrupt, Highest, LoopHead
  <1>3. AskedTicks' = AskedTicks /\ Stamp' = Stamp
    BY <1>2 DEF AskedTicks, Stamp
  <1>4. /\ frame.req.arg \in Micros /\ frame'.req.arg \in Micros
        /\ TicksPerSec <= Stamp /\ reg.target + TicksPerSec + 2 < Word
        /\ Counted >= 0 /\ Counted + Latched - obs.elapsed \in {0, 1}
    BY <1>1, <1>2 DEF Usleeping
  <1>5. CASE l = Timer
    <2>1. ClockTick /\ Latched = 1 /\ Latched' = 0
      BY <1>2, <1>5 DEF irq_handler, Latched
    <2>2. Now + 1 < Word
      <3>1. Now + 1 <= reg.target + TicksPerSec + 2
        <4>1. CASE pc = "load"
          BY <1>1, <1>4, <2>1, <4>1, UsleepNumbers DEF Usleeping, Passing
        <4>2. CASE pc = "check"
          BY <1>1, <1>4, <2>1, <4>2, UsleepNumbers DEF Usleeping, Passing
        <4>3. CASE pc \in {"hlt", "halted"}
          BY <1>1, <1>4, <2>1, <4>3, UsleepNumbers DEF Usleeping, Halting
        <4>4. QED
          BY <1>1, <4>1, <4>2, <4>3 DEF UsleepPlaces
      <3>2. QED
        BY <1>1, <1>4, <3>1, UsleepNumbers
    <2>3. Now' = Now + 1
      BY <1>1, <2>1, <2>2, NowMoves DEF TypeOK
    <2>4. Counted' = Counted + 1
      BY <1>1, <1>2, <1>3, <1>4, <2>3, UsleepNumbers DEF Counted
    <2>5. Counted' >= 0 /\ Counted' + Latched' - obs'.elapsed \in {0, 1}
      BY <1>1, <1>2, <1>4, <2>1, <2>4, UsleepNumbers
    <2>6. /\ pc = "halted" => pc' = "load" /\ Fresh' = 0 /\ Slack' = 0
          /\ pc # "halted" => pc' = pc /\ Fresh' = Fresh /\ Slack' = Slack - 1
      BY <1>1, <1>2, <1>4, <1>5, <2>1, UsleepNumbers DEF Fresh, Slack
    <2>7. \/ tick' = tick + 1 /\ systime' = systime
          \/ tick' = 0 /\ tick = TicksPerSec - 1 /\ systime' = Wrap(systime + 1)
      BY <1>1, <1>4, <2>1, UsleepNumbers DEF ClockTick
    <2>8. \A b \in Int : Now - b - tick >= reg.target => Now' - b - tick' >= reg'.target
      BY <1>1, <1>2, <1>4, <2>3, <2>7, UsleepNumbers
    <2>9. CASE pc = "load"
      <3>1. Passing(0)
        BY <1>1, <2>9 DEF Usleeping
      <3>2. Now' - 0 - tick' >= reg'.target \/ ~(Now - 0 - tick >= reg.target)
        BY <2>8
      <3>3. Passing(0)'
        BY <1>1, <1>2, <1>3, <1>4, <2>3, <2>6, <2>9, <3>1, <3>2, UsleepNumbers
           DEF Passing, FirstPass, LaterPass, Over
      <3>4. QED
        BY <1>1, <1>2, <1>3, <1>4, <2>5, <2>6, <2>9, <3>3 DEF Usleeping
    <2>10. CASE pc = "check"
      <3>1. TornOnce /\ Passing(Behind) /\ (Behind = 0 \/ Now - tick >= Stamp)
        BY <1>1, <2>10 DEF Usleeping
      <3>2. reg.sys \in 0..(Word - 1) /\ systime \in 0..(Word - 1) /\ systime' \in 0..(Word - 1)
        BY <1>1 DEF TypeOK, IrqTypeOK
      <3>3. /\ Slack \in 1..2 /\ Slack' = Slack - 1
            /\ Fresh' = Fresh /\ pc' = "check" /\ Fresh \in 0..1
        BY <1>1, <1>4, <2>1, <2>6, <2>10, UsleepNumbers
      <3>4. \/ /\ tick' = tick + 1 /\ systime' = systime /\ Behind' = Behind
               /\ TornOnce'
            \/ /\ tick' = 0 /\ tick = TicksPerSec - 1 /\ Behind = 0 /\ Behind' = TicksPerSec
               /\ TornOnce'
        <4>1. CASE tick' = tick + 1 /\ systime' = systime
          <5>1. Behind' = Behind
            BY <1>2, <4>1 DEF Behind
          <5>2. TornOnce'
            BY <1>1, <1>2, <1>4, <3>1, <3>3, <4>1, UsleepNumbers DEF TornOnce
          <5>3. QED
            BY <4>1, <5>1, <5>2
        <4>2. CASE tick' = 0 /\ tick = TicksPerSec - 1 /\ systime' = Wrap(systime + 1)
          <5>1. systime = reg.sys
            BY <1>1, <1>4, <3>1, <3>3, <4>2, UsleepNumbers DEF TornOnce
          <5>2. systime' # reg.sys
            <6>1. Word \in Nat /\ Word > 1
              BY TicksAssumption, WordAssumption
            <6>2. \A s \in 0..(Word - 1) : Wrap(s + 1) # s
              BY <6>1 DEF Wrap
            <6>3. QED
              BY <3>2, <4>2, <5>1, <6>2
          <5>3. Behind = 0 /\ Behind' = TicksPerSec
            BY <1>2, <5>1, <5>2 DEF Behind
          <5>4. TornOnce'
            BY <1>2, <3>3, <4>2, <5>1 DEF TornOnce
          <5>5. QED
            BY <4>2, <5>3, <5>4
        <4>3. QED
          BY <2>7, <4>1, <4>2
      <3>5. Behind \in {0, TicksPerSec} /\ Behind' \in {0, TicksPerSec}
        BY <3>4, <1>1 DEF Behind
      <3>6. Behind' = 0 \/ Now' - tick' >= Stamp'
        BY <1>1, <1>3, <1>4, <2>3, <3>1, <3>4, UsleepNumbers
      <3>7. Now - Behind - tick >= reg.target => Now' - Behind' - tick' >= reg'.target
        BY <1>1, <1>2, <1>4, <2>3, <3>4, <3>5, UsleepNumbers
      <3>8. Now' + Slack' <= reg'.target + TicksPerSec + 2
        BY <1>1, <1>2, <1>4, <2>3, <3>1, <3>3, UsleepNumbers DEF Passing
      <3>9. FirstPass => FirstPass'
        BY <1>2, <3>3 DEF FirstPass
      <3>10. LaterPass(Behind) => LaterPass(Behind)'
        <4> SUFFICES ASSUME LaterPass(Behind) PROVE LaterPass(Behind)'
          OBVIOUS
        <4>1. Slack <= 1 /\ (Behind # 0 => Slack = 0)
          BY DEF LaterPass
        <4>2. Slack' = 0 /\ Behind = 0
          BY <3>3, <4>1
        <4>3. Behind' # 0 => tick' = 0
          BY <3>4, <4>2
        <4>4. \/ obs'.elapsed + Fresh' <= AskedTicks' + 1
              \/ /\ obs'.elapsed + Fresh' <= AskedTicks' + 2
                 /\ Now' - Behind' - tick' >= reg'.target
          BY <1>2, <1>3, <3>3, <3>7 DEF LaterPass, Over
        <4>5. QED
          BY <4>2, <4>3, <4>4 DEF LaterPass, Over
      <3>11. Passing(Behind)'
        BY <3>1, <3>8, <3>9, <3>10 DEF Passing
      <3>12. TornOnce'
        BY <3>4
      <3>13. QED
        BY <1>2, <1>3, <1>4, <2>5, <3>3, <3>6, <3>11, <3>12 DEF Usleeping
    <2>11. CASE pc = "hlt"
      <3>1. Now + Slack <= reg.target + TicksPerSec + 1 /\ Halting(obs.elapsed + Fresh)
        BY <1>1, <2>11 DEF Usleeping
      <3>2. Now' - 0 - tick' >= reg'.target \/ ~(Now - 0 - tick >= reg.target)
        BY <2>8
      <3>3. Now' + Slack' <= reg'.target + TicksPerSec + 1
            /\ Now' <= reg'.target + TicksPerSec + 1
        BY <1>1, <1>2, <1>4, <2>1, <2>3, <2>6, <2>11, <3>1, UsleepNumbers
      <3>4. Halting(obs.elapsed + Fresh)'
        BY <1>2, <1>3, <2>6, <2>11, <3>1, <3>2, <3>3 DEF Halting, Over
      <3>5. QED
        BY <1>2, <1>3, <1>4, <2>5, <2>6, <2>11, <3>3, <3>4 DEF Usleeping
    <2>12. CASE pc = "halted"
      <3>1. Halting(obs.elapsed - Latched)
        BY <1>1, <2>12 DEF Usleeping
      <3>2. Now' - 0 - tick' >= reg'.target \/ ~(Now - 0 - tick >= reg.target)
        BY <2>8
      <3>3. Now' + Slack' <= reg'.target + TicksPerSec + 2
        BY <1>1, <1>2, <1>4, <2>3, <2>6, <2>12, <3>1, UsleepNumbers DEF Halting
      <3>4. \/ obs'.elapsed + Fresh' <= AskedTicks' + 1
            \/ /\ obs'.elapsed + Fresh' <= AskedTicks' + 2
               /\ Now' - 0 - tick' >= reg'.target
        BY <1>1, <1>2, <1>3, <1>4, <2>1, <2>6, <2>12, <3>1, <3>2, UsleepNumbers
           DEF Halting, Over
      <3>5. Passing(0)'
        BY <2>6, <2>12, <3>3, <3>4 DEF Passing, LaterPass, Over
      <3>6. QED
        BY <1>2, <1>3, <1>4, <2>5, <2>6, <2>12, <3>5 DEF Usleeping
    <2>13. QED
      BY <1>1, <2>9, <2>10, <2>11, <2>12 DEF UsleepPlaces
  <1>6. CASE l # Timer
    <2>1. Latched = 0 /\ Latched' = 0 /\ UNCHANGED <<tick, systime>>
      BY <1>1, <1>2, <1>6, TimerFirst DEF Latched, irq_handler
    <2>2. Now' = Now /\ Counted' = Counted /\ Behind' = Behind
      BY <1>2, <1>3, <2>1 DEF Now, Counted, Behind
    <2>3. CASE pc # "halted"
      <3>1. pc' = pc /\ Fresh' = Fresh /\ Slack' = Slack
        BY <1>2, <1>6, <2>3 DEF Fresh, Slack
      <3>2. TornOnce' <=> TornOnce
        BY <1>2, <2>1, <3>1 DEF TornOnce
      <3>3. QED
        BY <1>1, <1>2, <1>3, <2>1, <2>2, <2>3, <3>1, <3>2
           DEF Usleeping, Passing, FirstPass, LaterPass, Halting, Over
    <2>4. CASE pc = "halted"
      <3>1. pc' = "load" /\ Fresh' = 1 /\ Slack' = 1
        BY <1>2, <1>6, <2>1, <2>4 DEF Fresh, Slack, Latched
      <3>2. Halting(obs.elapsed - Latched)
        BY <1>1, <2>4 DEF Usleeping
      <3>3. Now' + Slack' <= reg'.target + TicksPerSec + 2
        BY <1>1, <1>2, <1>4, <2>2, <3>1, <3>2, UsleepNumbers DEF Halting
      <3>4. \/ obs'.elapsed + Fresh' <= AskedTicks' + 1
            \/ /\ obs'.elapsed + Fresh' <= AskedTicks' + 2
               /\ Now' - 0 - tick' >= reg'.target
        BY <1>1, <1>2, <1>3, <1>4, <2>1, <2>2, <3>1, <3>2, UsleepNumbers DEF Halting, Over
      <3>5. Passing(0)'
        BY <3>1, <3>3, <3>4 DEF Passing, LaterPass, Over
      <3>6. QED
        BY <1>2, <1>3, <1>4, <2>1, <2>2, <3>1, <3>5 DEF Usleeping
    <2>5. QED
      BY <2>3, <2>4
  <1>7. QED
    BY <1>5, <1>6

(* A period passes, and is latched.                                        *)
LEMMA UsleepTicks ==
  ASSUME UsleepInv, Usleeps, PitTick
  PROVE  Usleeping'
  <1>1. TypeOK /\ Usleeping /\ pc \in UsleepPlaces /\ FlagInv
    BY DEF UsleepInv, SkewInv, Usleeps
  <1>2. /\ Timer \notin pending /\ Timer \notin burst
        /\ pending' = pending \cup {Timer}
        /\ UNCHANGED <<pc, frame, reg, tick, systime>>
        /\ burst' = IF pc \in Lingering THEN {} ELSE burst \cup {Timer}
    BY <1>1 DEF PitTick, Request, Latch, FlagInv, WaitPlaces, UsleepPlaces
  <1>3. /\ Now' = Now /\ AskedTicks' = AskedTicks /\ Stamp' = Stamp /\ Behind' = Behind
        /\ Latched = 0 /\ Latched' = 1 /\ Fresh = 1
    BY <1>2 DEF Now, AskedTicks, Stamp, Behind, Latched, Fresh
  <1>4. pc # "halted" => Fresh' = 0 /\ Slack = 1 /\ Slack' = 1
    BY <1>1, <1>2 DEF Fresh, Slack, Lingering, UsleepPlaces
  <1>5. /\ frame.req.arg \in Micros
        /\ Counted >= 0 /\ Counted + Latched - obs.elapsed \in {0, 1}
        /\ TicksPerSec <= Stamp /\ reg.target + TicksPerSec + 2 < Word
    BY <1>1 DEF Usleeping
  <1>6. obs.elapsed < Horizon
    <2>1. CASE pc = "load"
      BY <1>1, <1>3, <1>5, <2>1, UsleepNumbers DEF Usleeping, Passing, FirstPass, LaterPass
    <2>2. CASE pc = "check"
      BY <1>1, <1>3, <1>5, <2>2, UsleepNumbers DEF Usleeping, Passing, FirstPass, LaterPass
    <2>3. CASE pc \in {"hlt", "halted"}
      BY <1>1, <1>3, <1>5, <2>3, UsleepNumbers DEF Usleeping, Halting
    <2>4. QED
      BY <1>1, <2>1, <2>2, <2>3 DEF UsleepPlaces
  <1>7. obs'.elapsed = obs.elapsed + 1 /\ obs'.skew = obs.skew
    <2>1. obs' = [obs EXCEPT !.elapsed = @ + 1]
      <3>1. pc # "user" /\ obs.elapsed # Horizon
        <4>1. pc # "user"
          BY <1>1 DEF UsleepPlaces
        <4>2. obs.elapsed # Horizon
          BY <1>1, <1>5, <1>6, UsleepNumbers
        <4>3. QED
          BY <4>1, <4>2
      <3>2. QED
        BY <3>1, Zenon DEF PitTick
    <2>2. QED
      BY <1>1, <2>1 DEF TypeOK
  <1>8. Counted' = Counted /\ Counted' + Latched' - obs'.elapsed \in {0, 1}
    <2>1. Counted' = Counted
      BY <1>3, <1>7 DEF Counted
    <2>2. QED
      BY <1>1, <1>3, <1>5, <1>7, <2>1, UsleepNumbers
  <1>9. CASE pc # "halted"
    <2>1. obs'.elapsed + Fresh' = obs.elapsed + Fresh /\ Slack' = Slack
      BY <1>1, <1>3, <1>4, <1>5, <1>7, <1>9, UsleepNumbers
    <2>2. TornOnce' <=> TornOnce
      BY <1>2, <2>1 DEF TornOnce
    <2>3. QED
      BY <1>1, <1>2, <1>3, <1>5, <1>8, <1>9, <2>1, <2>2
         DEF Usleeping, Passing, FirstPass, LaterPass, Halting, Over
  <1>10. CASE pc = "halted"
    <2>1. obs'.elapsed - Latched' = obs.elapsed - Latched
      BY <1>1, <1>3, <1>5, <1>7, UsleepNumbers
    <2>2. QED
      BY <1>1, <1>2, <1>3, <1>5, <1>8, <1>10, <2>1 DEF Usleeping, Halting, Over
  <1>11. QED
    BY <1>9, <1>10

LEMMA UsleepStep == UsleepInv /\ [Next]_vars => UsleepInv'
  <1> SUFFICES ASSUME UsleepInv, [Next]_vars, Usleeps' PROVE Usleeping'
    BY SkewStep, FlagStep, CallKeptStep DEF UsleepInv
  <1>1. pc' \in UsleepPlaces /\ frame'.req.call = "usleep" /\ ~obs'.wraps
    BY DEF Usleeps
  <1>2. CASE UsleepStart2
    BY <1>1, <1>2, UsleepBegins
  <1>3. CASE Load
    <2>1. Usleeps
      BY <1>1, <1>3 DEF Usleeps, Load, Goto, UsleepPlaces
    <2>2. QED
      BY <1>3, <2>1, UsleepLoads
  <1>4. CASE Check
    <2>1. Usleeps /\ pc' # "cli"
      BY <1>1, <1>4 DEF Usleeps, Check, Goto, UsleepPlaces
    <2>2. QED
      BY <1>4, <2>1, UsleepChecks
  <1>5. CASE Hlt
    <2>1. Usleeps
      BY <1>1, <1>5 DEF Usleeps, Hlt, Goto, UsleepPlaces
    <2>2. QED
      BY <1>5, <2>1, UsleepHalts
  <1>6. ASSUME NEW l \in Lines, Deliver(l) PROVE Usleeping'
    <2>1. Usleeps
      BY <1>1, <1>6 DEF Usleeps, Deliver, UsleepPlaces
    <2>2. QED
      BY <1>6, <2>1, UsleepDelivers
  <1>7. CASE PitTick
    <2>1. obs'.wraps = obs.wraps
      BY <1>7 DEF PitTick, UsleepInv, SkewInv, TypeOK
    <2>2. Usleeps
      BY <1>1, <1>7, <2>1 DEF Usleeps, PitTick, Request
    <2>3. QED
      BY <1>7, <2>2, UsleepTicks
  <1>8. ASSUME NEW l \in Lines \ {Timer}, DeviceIrq(l) PROVE Usleeping'
    <2>1. UNCHANGED <<pc, frame, reg, tick, systime, obs>>
      BY <1>8 DEF DeviceIrq, Request, Latch
    <2>2. Usleeping
      BY <1>1, <2>1 DEF UsleepInv, Usleeps
    <2>3. Latched' = Latched /\ (pc = "halted" \/ (Fresh' = Fresh /\ Slack' = Slack))
      BY <1>1, <1>8, <2>1
         DEF DeviceIrq, Request, Latch, Latched, Fresh, Slack, Lingering, UsleepPlaces
    <2>4. /\ Now' = Now /\ AskedTicks' = AskedTicks /\ Stamp' = Stamp
          /\ Counted' = Counted /\ Behind' = Behind
      BY <2>1 DEF Now, AskedTicks, Stamp, Counted, Behind
    <2>5. pc # "halted" => (TornOnce' <=> TornOnce)
      BY <2>1, <2>3 DEF TornOnce
    <2>6. QED
      BY <2>1, <2>2, <2>3, <2>4, <2>5
         DEF Usleeping, Passing, FirstPass, LaterPass, Halting, Over
  <1>9. CASE Other \/ WaitIrq \/ Sti \/ SleepStart \/ UsleepStart \/ Cli \/ Return
             \/ \E g \in Gates, r \in Requests : Call(g, r)
    <2>1. pc' \notin UsleepPlaces \/ frame'.req.call # "usleep"
      <3>1. CASE WaitIrq \/ SleepStart
        BY <3>1 DEF WaitIrq, SleepStart
      <3>2. CASE ~WaitIrq /\ ~SleepStart
        BY <1>9, <3>2 DEF Other, Sti, UsleepStart, Cli, Return, Call, Goto, UsleepPlaces
      <3>3. QED
        BY <3>1, <3>2
    <2>2. QED
      BY <1>1, <2>1
  <1>10. CASE UNCHANGED vars
    <2>1. UNCHANGED <<pc, frame, reg, tick, systime, obs, pending, burst>>
      BY <1>10 DEF vars, irqVars, thread
    <2>2. Usleeping
      BY <1>1, <2>1 DEF UsleepInv, Usleeps
    <2>3. /\ Now' = Now /\ AskedTicks' = AskedTicks /\ Stamp' = Stamp
          /\ Counted' = Counted /\ Behind' = Behind /\ Latched' = Latched
          /\ Fresh' = Fresh /\ Slack' = Slack /\ (TornOnce' <=> TornOnce)
      BY <2>1 DEF Now, AskedTicks, Stamp, Counted, Behind, Latched, Fresh, Slack, TornOnce
    <2>4. QED
      BY <2>1, <2>2, <2>3 DEF Usleeping, Passing, FirstPass, LaterPass, Halting, Over
  <1>11. QED
    BY <1>2, <1>3, <1>4, <1>5, <1>6, <1>7, <1>8, <1>9, <1>10 DEF Next, KernelStep

(* A usleep lasts its ticks, less one that was latched and the skew of a   *)
(* torn stamp, and two periods more at most, whatever comes between the    *)
(* loads of its loop.                                                      *)
THEOREM UsleepLasts == Spec => UsleepLength
  <1> DEFINE Bounds == Ends("usleep") =>
                (LET asked == TicksToWait(frame.req.arg)
                 IN  asked <= obs.elapsed + obs.skew + 1 /\ obs.elapsed <= asked + 2)
  <1>1. Init => UsleepInv
    BY TypeInit DEF Init, UsleepInv, SkewInv, StampSkew, NoObs, FlagInv, WaitPlaces, CallKept,
       Usleeps, UsleepPlaces
  <1>2. UsleepInv /\ [Next]_vars => [Bounds]_vars
    <2> SUFFICES ASSUME UsleepInv, [Next]_vars, Ends("usleep")
                 PROVE  /\ AskedTicks <= obs.elapsed + obs.skew + 1
                        /\ obs.elapsed <= AskedTicks + 2
      BY DEF AskedTicks
    <2>1. pc = "check" /\ pc' = "cli" /\ frame.req.call = "usleep" /\ Usleeps
      BY DEF Ends, Usleeps, UsleepPlaces
    <2>2. TypeOK /\ Usleeping
      BY <2>1 DEF UsleepInv, SkewInv
    <2>3. /\ frame.req.arg \in Micros /\ TicksPerSec <= Stamp
          /\ Counted >= 0 /\ Counted + Latched - obs.elapsed \in {0, 1}
          /\ TornOnce /\ Passing(Behind)
      BY <2>1, <2>2 DEF Usleeping
    <2>4. ~(Total(reg.sys, tick) < reg.target)
      <3>1. Check
        BY <2>1 DEF Next, KernelStep, Other, WaitIrq, Sti, SleepStart, UsleepStart, UsleepStart2,
           Load, Check, Hlt, Cli, Return, Call, Goto, Deliver, LoopHead, PitTick, DeviceIrq,
           Request, vars, thread
      <3>2. QED
        BY <2>1, <3>1 DEF Check, Goto, Waiting
    <2>5. Now - Behind >= reg.target /\ Behind \in {0, TicksPerSec}
      BY <2>2, <2>3, <2>4, UsleepNumbers, ReadIsNow DEF Behind
    <2>6. AskedTicks <= obs.elapsed + obs.skew + 1
      BY <2>2, <2>3, <2>5, UsleepNumbers
    <2>7. obs.elapsed <= AskedTicks + 2
      BY <2>2, <2>3, UsleepNumbers DEF Passing, FirstPass, LaterPass
    <2>8. QED
      BY <2>6, <2>7
  <1>3. QED
    BY <1>1, <1>2, UsleepStep, PTL DEF Spec, UsleepLength
=============================================================================
