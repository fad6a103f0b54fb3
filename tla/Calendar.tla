------------------------------- MODULE Calendar -------------------------------
(***************************************************************************)
(* The date (src/drivers/cmos.c): get_cmos_time reads six registers of the *)
(* real-time clock, one after the other, while the clock goes on; convert_ *)
(* to_nixt makes seconds since 1970 of them, and kernel() (kernel.c 176)   *)
(* keeps those as worldtime. convert_to_timestruct is the way back.        *)
(*                                                                         *)
(* Seconds since 1970 are written as days and seconds of the day: TLC's    *)
(* integers are shorter than 32 bits. The 32-bit word lasts until 2106 and *)
(* the clock's two digits of the year until 2069.                          *)
(***************************************************************************)
EXTENDS Integers, Sequences

CONSTANTS
    Modes,          \* how the clock may be set up: BCD or binary, 12 or 24 hours
    Slack,          \* reads that fit between the update flag and the update
    Times,          \* seconds of the day at which a machine is switched on
    BootDays,       \* days on which it is, counted from 1 January 1970
    LastDay,        \* the last day there is
    MaxUpdates      \* updates of the clock during a call

Registers == 6

ASSUME SlackAssumption == Slack \in Nat /\ Slack >= Registers

ASSUME CalendarAssumption ==
    /\ Modes \subseteq [bcd : BOOLEAN, full : BOOLEAN]
    /\ \A secs \in Times : secs \in Nat /\ secs < 86400
    /\ BootDays \subseteq Nat /\ LastDay \in Nat /\ MaxUpdates \in Nat

(* The end of 2069 does not come before the end of a call: two digits do   *)
(* not tell 2070 from 1970.                                                *)
Century == 36525
ASSUME CenturyAssumption ==
    \A day \in BootDays : day + (86399 + MaxUpdates) \div 86400 < Century

VARIABLES
    date,           \* what the clock shows
    uip, room,      \* its update flag, and reads that fit before the update
    mode,           \* statusregb, once it is read
    pc,             \* "off", "poll", "read", "done"
    intFlag,        \* interrupts are enabled
    raw,            \* registers read so far
    worldtime,
    elapsed,        \* history: days and seconds since 1970
    shown,          \* history: date and elapsed when the flag was found clear
    updates         \* history: updates during the call

clock == <<date, uip, room, elapsed, updates>>
vars == <<clock, mode, pc, intFlag, raw, worldtime, shown>>

-----------------------------------------------------------------------------
(* The clock. *)
Leap(y) == (y % 4 = 0 /\ y % 100 # 0) \/ y % 400 = 0
monthdays == <<31, 28, 31, 30, 31, 30, 31, 31, 30, 31, 30, 31>>
MonthLength(y, m) == IF m = 2 /\ Leap(y) THEN 29 ELSE monthdays[m]

NextDay(d) ==
    CASE d.day < MonthLength(d.year, d.month) -> [d EXCEPT !.day = @ + 1]
      [] d.day = MonthLength(d.year, d.month) /\ d.month < 12 ->
            [d EXCEPT !.day = 1, !.month = @ + 1]
      [] OTHER -> [d EXCEPT !.day = 1, !.month = 1, !.year = @ + 1]

(* Registers 0, 2, 4, 7, 8 and 9, as status register B says. In the        *)
(* twelve-hour mode midnight and noon are 12, and bit 7 is the afternoon.  *)
Bcd(n) == 16 * (n \div 10) + (n % 10)
Hour(secs) == secs \div 3600
Twelve(h) == IF h % 12 = 0 THEN 12 ELSE h % 12
Register(d, i) ==
    LET code(n) == IF mode.bcd THEN Bcd(n) ELSE n
        h == Hour(d.secs)
    IN  CASE i = 1 -> code(d.secs % 60)
          [] i = 2 -> code((d.secs \div 60) % 60)
          [] i = 3 -> IF mode.full THEN code(h)
                      ELSE code(Twelve(h)) + (IF h >= 12 THEN 128 ELSE 0)
          [] i = 4 -> code(d.day)
          [] i = 5 -> code(d.month)
          [] OTHER -> code(d.year % 100)

-----------------------------------------------------------------------------
bcd_to_bin(b) == (b % 16) + 10 * (b \div 16)

Value(b) == IF mode.bcd THEN bcd_to_bin(b) ELSE b

(* Mutant of Fields: the afternoon bit stays in the hours.                 *)
FieldsPm(r) ==
    LET year == Value(r[6])
    IN  [sec |-> Value(r[1]), min |-> Value(r[2]), hours |-> Value(r[3]),
         is_pm |-> ~mode.full /\ r[3] >= 128, day |-> Value(r[4]), month |-> Value(r[5]),
         year |-> year + (IF year >= 70 THEN 1900 ELSE 2000)]

(* What get_cmos_time makes of the registers.                              *)
Fields(r) ==
    LET pm == ~mode.full /\ r[3] >= 128
        year == Value(r[6])
    IN  [sec |-> Value(r[1]), min |-> Value(r[2]),
         hours |-> Value(IF pm THEN r[3] - 128 ELSE r[3]), is_pm |-> pm,
         day |-> Value(r[4]), month |-> Value(r[5]),
         year |-> year + (IF year >= 70 THEN 1900 ELSE 2000)]

YearLength(y) == IF Leap(y) THEN 366 ELSE 365

(* The two loops of convert_to_nixt: the years before one, and the months  *)
(* of a year before one.                                                   *)
YearDays[y \in Nat] == IF y <= 1970 THEN 0 ELSE YearDays[y - 1] + YearLength(y - 1)
MonthDays(y, m) ==
    LET before[k \in 1..12] == IF k = 1 THEN 0 ELSE before[k - 1] + MonthLength(y, k - 1)
    IN  before[m]

(* Mutant of DaysBefore: the leap day is not looked for in its own year.   *)
DaysBeforeNoLeap(t) == YearDays[t.year] + MonthDays(1970, t.month) + t.day - 1

DaysBefore(t) == YearDays[t.year] + MonthDays(t.year, t.month) + t.day - 1

(* Noon in the 24-hour mode is taken for midnight: 12 without afternoon.   *)
convert_to_nixt(t) ==
    LET hour == CASE t.is_pm /\ t.hours # 12  -> t.hours + 12
                  [] ~t.is_pm /\ t.hours = 12 -> 0
                  [] OTHER -> t.hours
    IN  [days |-> DaysBefore(t), secs |-> t.sec + 60 * t.min + 3600 * hour]

(* A field of eight bits takes the days, before years are taken off.       *)
Byte == 256

(* The loop of convert_to_timestruct over the years.                       *)
YearOf(days) ==
    LET from[t \in [day : 0..(Byte - 1), year : Nat]] ==
            IF t.day < YearLength(t.year) THEN t
            ELSE from[[day |-> t.day - YearLength(t.year), year |-> t.year + 1]]
    IN  from[[day |-> days % Byte, year |-> 1970]]

(* Mutant of MonthOf: the day after the last one is in the month.          *)
MonthOfLate(y) ==
    LET length(m) == MonthLength(y.year, m)
        from[t \in [day : Nat, month : 1..13]] ==
            IF t.month > 12 \/ t.day <= length(t.month) THEN t
            ELSE from[[day |-> t.day - length(t.month), month |-> t.month + 1]]
    IN  from[[day |-> y.day, month |-> 1]]

(* The loop over the months. The day counts from 0, the one that convert_  *)
(* to_nixt takes from 1.                                                   *)
MonthOf(y) ==
    LET length(m) == MonthLength(y.year, m)
        from[t \in [day : Nat, month : 1..13]] ==
            IF t.month > 12 \/ t.day < length(t.month) THEN t
            ELSE from[[day |-> t.day - length(t.month), month |-> t.month + 1]]
    IN  from[[day |-> y.day, month |-> 1]]

convert_to_timestruct(nixt, pm_enabled) ==
    LET h == Hour(nixt.secs)
        afternoon == pm_enabled /\ h >= 12
        y == YearOf(nixt.days)
        d == MonthOf(y)
    IN  [sec |-> nixt.secs % 60, min |-> (nixt.secs \div 60) % 60,
         hours |-> IF afternoon /\ h > 12 THEN h - 12 ELSE h, is_pm |-> afternoon,
         day |-> d.day, month |-> d.month, year |-> y.year]

-----------------------------------------------------------------------------
Init ==
    /\ date = [year |-> 1970, month |-> 1, day |-> 1, secs |-> 0]
    /\ elapsed = [days |-> 0, secs |-> 0]
    /\ uip = FALSE /\ room = 0 /\ updates = 0
    /\ mode = [bcd |-> FALSE, full |-> FALSE]
    /\ pc = "off"
    /\ intFlag = TRUE
    /\ raw = <<>>
    /\ worldtime = elapsed
    /\ shown = [date |-> date, elapsed |-> elapsed]

(* A day passes while the machine is off.                                  *)
DayPasses ==
    /\ pc = "off"
    /\ elapsed.days < LastDay
    /\ date' = NextDay(date)
    /\ elapsed' = [elapsed EXCEPT !.days = @ + 1]
    /\ UNCHANGED <<uip, room, updates, mode, pc, intFlag, raw, worldtime, shown>>

(* Mutant of Call: interrupts stay on.                                     *)
CallNoCli(secs, m) ==
    /\ pc = "off"
    /\ elapsed.days \in BootDays
    /\ date' = [date EXCEPT !.secs = secs]
    /\ elapsed' = [elapsed EXCEPT !.secs = secs]
    /\ pc' = "poll"
    /\ mode' = m
    /\ UNCHANGED <<uip, room, updates, intFlag, raw, worldtime, shown>>

(* kernel() calls get_cmos_time, which turns interrupts off and reads      *)
(* status register B.                                                      *)
Call(secs, m) ==
    /\ pc = "off"
    /\ elapsed.days \in BootDays
    /\ date' = [date EXCEPT !.secs = secs]
    /\ elapsed' = [elapsed EXCEPT !.secs = secs]
    /\ intFlag' = FALSE
    /\ mode' = m
    /\ pc' = "poll"
    /\ UNCHANGED <<uip, room, updates, raw, worldtime, shown>>

Running == pc \in {"poll", "read"}

(* The clock announces an update, 244 microseconds before it.              *)
Announce ==
    /\ Running
    /\ ~uip
    /\ updates < MaxUpdates
    /\ uip' = TRUE
    /\ room' = Slack
    /\ UNCHANGED <<date, elapsed, updates, mode, pc, intFlag, raw, worldtime, shown>>

(* It updates when the reads that fit have been made, or when an interrupt *)
(* has taken their time.                                                   *)
Update ==
    /\ Running
    /\ uip
    /\ room = 0 \/ intFlag
    /\ uip' = FALSE
    /\ updates' = updates + 1
    /\ IF date.secs < 86399
       THEN /\ date' = [date EXCEPT !.secs = @ + 1]
            /\ elapsed' = [elapsed EXCEPT !.secs = @ + 1]
       ELSE /\ date' = NextDay([date EXCEPT !.secs = 0])
            /\ elapsed' = [days |-> elapsed.days + 1, secs |-> 0]
    /\ UNCHANGED <<room, mode, pc, intFlag, raw, worldtime, shown>>

ReadTakesTime == room' = IF uip /\ room > 0 THEN room - 1 ELSE room

(* while (read_cmos(0x0A) & 0x80);                                         *)
Poll ==
    /\ pc = "poll"
    /\ ReadTakesTime
    /\ \/ /\ ~uip
          /\ pc' = "read"
          /\ shown' = [date |-> date, elapsed |-> elapsed]
       \/ /\ uip
          /\ UNCHANGED <<pc, shown>>
    /\ UNCHANGED <<date, uip, elapsed, updates, mode, intFlag, raw, worldtime>>

(* The next register.                                                      *)
Read ==
    /\ pc = "read"
    /\ Len(raw) < Registers
    /\ ReadTakesTime
    /\ raw' = Append(raw, Register(date, Len(raw) + 1))
    /\ UNCHANGED <<date, uip, elapsed, updates, mode, pc, intFlag, worldtime, shown>>

(* get_cmos_time turns interrupts on and returns; kernel() keeps the time. *)
Return ==
    /\ pc = "read"
    /\ Len(raw) = Registers
    /\ intFlag' = TRUE
    /\ pc' = "done"
    /\ worldtime' = convert_to_nixt(Fields(raw))
    /\ UNCHANGED <<clock, mode, raw, shown>>

Next ==
    \/ DayPasses
    \/ \E secs \in Times, m \in Modes : Call(secs, m)
    \/ Announce
    \/ Update
    \/ Poll
    \/ Read
    \/ Return

Spec == Init /\ [][Next]_vars

-----------------------------------------------------------------------------
(* Every register that has been read is one of the moment at which the     *)
(* update flag was found clear: no update comes between two of them, and   *)
(* midnight, or the end of a year, does not give a date that never was.    *)
NotTorn == \A i \in DOMAIN raw : raw[i] = Register(shown.date, i)

(* From noon to one o'clock in the 24-hour mode the time is the one twelve *)
(* hours earlier: hours = 12 without is_pm is read as midnight.            *)
Noon(secs) == Hour(secs) = 12
AsStored(t, full) == IF full /\ Noon(t.secs) THEN [t EXCEPT !.secs = @ - 43200] ELSE t

(* What kernel() keeps is the number of seconds since 1970 of the moment   *)
(* at which the flag was found clear, in every mode of the clock, except   *)
(* for that hour.                                                          *)
WorldtimeRight == pc = "done" => worldtime = AsStored(shown.elapsed, mode.full)

(* On every day convert_to_nixt gives the days that have passed since the  *)
(* first, in leap years, at the ends of months and years, and in both ways *)
(* to write the hour, except for that hour again.                          *)
AsStruct(d, secs, full) ==
    [sec |-> secs % 60, min |-> (secs \div 60) % 60,
     hours |-> IF full THEN Hour(secs) ELSE Twelve(Hour(secs)),
     is_pm |-> ~full /\ Hour(secs) >= 12, day |-> d.day, month |-> d.month, year |-> d.year]
DateRight == pc = "off" =>
    \A secs \in Times, full \in BOOLEAN :
        convert_to_nixt(AsStruct(date, secs, full)) =
            AsStored([days |-> elapsed.days, secs |-> secs], full)

(* convert_to_timestruct gives the day the clock shows (counted from 0)    *)
(* only for the first 256 days: the field for the day is eight bits wide   *)
(* when it takes the days since 1970. After them it gives the day of a     *)
(* multiple of 256 days before, which convert_to_nixt takes back.          *)
BackAndForth == pc = "off" =>
    \A secs \in Times, pm \in BOOLEAN :
        LET t == convert_to_timestruct([days |-> elapsed.days, secs |-> secs], pm)
        IN  /\ convert_to_nixt([t EXCEPT !.day = @ + 1]) =
                   AsStored([days |-> elapsed.days % Byte, secs |-> secs], ~pm)
            /\ elapsed.days < Byte => <<t.day + 1, t.month>> = <<date.day, date.month>>
=============================================================================
