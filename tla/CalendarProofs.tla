---------------------------- MODULE CalendarProofs ----------------------------
(***************************************************************************)
(* The date is never torn, for every clock that announces its updates at   *)
(* least as many reads ahead as there are registers, however often it      *)
(* updates and whatever it shows. What kernel() keeps of it is right, and  *)
(* both conversions give what their properties say, on every day there is. *)
(*                                                                         *)
(* The loops over years and months are recursive functions. Each is shown  *)
(* to exist by a function in closed form that satisfies its equation, and  *)
(* computed from the equation alone.                                       *)
(***************************************************************************)
EXTENDS Calendar, WellFoundedInduction, TLAPS

(* While registers are read, interrupts are off and an announced update    *)
(* leaves the reads that were left when reading began; so the clock shows  *)
(* what it showed then until the last register is read.                    *)
Reading ==
    pc = "read" =>
        /\ uip => room >= Slack - Len(raw)
        /\ Len(raw) < Registers => ~intFlag /\ date = shown.date

CInv ==
    /\ \E S : raw \in Seq(S)
    /\ room \in Nat
    /\ pc \in {"off", "poll"} => raw = <<>>
    /\ pc = "poll" => ~intFlag
    /\ Reading
    /\ NotTorn

(* Read makes raw longer by the register the clock shows now.              *)
LEMMA Appended ==
    ASSUME NEW S, NEW s \in Seq(S), NEW x
    PROVE  /\ Append(s, x) \in Seq(S \cup {x})
           /\ DOMAIN Append(s, x) = 1..(Len(s) + 1)
           /\ Len(Append(s, x)) = Len(s) + 1
           /\ \A i \in 1..Len(s) : Append(s, x)[i] = s[i]
           /\ Append(s, x)[Len(s) + 1] = x
<1>1. s \in Seq(S \cup {x})
  OBVIOUS
<1>2. QED  BY <1>1

LEMMA CInvInit == Init => CInv
<1>1. <<>> \in Seq({})
  OBVIOUS
<1>2. QED  BY <1>1 DEF Init, CInv, Reading, NotTorn

LEMMA SlackEnough == Slack \in Nat /\ Slack >= Registers /\ Registers = 6
  BY SlackAssumption DEF Registers

(* A step that leaves the registers read, and the mode, leaves NotTorn.    *)
LEMMA NotTornKept ==
    NotTorn /\ UNCHANGED <<raw, mode, shown>> => NotTorn'
<1> SUFFICES ASSUME NotTorn, raw' = raw, mode' = mode, shown' = shown PROVE NotTorn'
  OBVIOUS
<1>1. ASSUME NEW i PROVE Register(shown.date, i)' = Register(shown.date, i)
  BY DEF Register, Bcd, Hour, Twelve
<1>2. QED  BY <1>1 DEF NotTorn

LEMMA CInvStep == CInv /\ [Next]_vars => CInv'
<1> SUFFICES ASSUME CInv, [Next]_vars PROVE CInv'
  OBVIOUS
<1>1. /\ \E S : raw \in Seq(S)
      /\ room \in Nat
      /\ pc \in {"off", "poll"} => raw = <<>>
      /\ pc = "poll" => ~intFlag
      /\ Reading
      /\ NotTorn
  BY DEF CInv
<1>2. PICK S : raw \in Seq(S)
  BY <1>1
<1>3. Len(raw) \in Nat
  BY <1>2
<1>4. ASSUME UNCHANGED <<raw, mode, shown>>, room' \in Nat, Reading',
             pc' = "done" \/ (pc' = pc /\ intFlag' = intFlag)
      PROVE  CInv'
  BY <1>1, <1>4, NotTornKept DEF CInv
<1>5. CASE DayPasses
  BY <1>1, <1>4, <1>5 DEF DayPasses, Reading
<1>6. ASSUME NEW secs \in Times, NEW m \in Modes, Call(secs, m) PROVE CInv'
  <2>1. raw' = <<>> /\ room' \in Nat /\ pc' = "poll" /\ ~intFlag'
    BY <1>1, <1>6 DEF Call
  <2>2. NotTorn' /\ Reading' /\ raw' \in Seq({})
    BY <2>1 DEF NotTorn, Reading
  <2>3. QED  BY <2>1, <2>2 DEF CInv
<1>7. CASE Announce
  <2>1. Reading'
    BY <1>1, <1>3, <1>7, SlackEnough DEF Announce, Reading
  <2>2. QED  BY <1>4, <1>7, <2>1, SlackEnough DEF Announce
<1>8. CASE Update
  <2>1. pc = "read" => ~(Len(raw) < Registers)
    BY <1>1, <1>3, <1>8, SlackEnough DEF Update, Reading
  <2>2. Reading'
    BY <1>8, <2>1 DEF Update, Reading
  <2>3. QED  BY <1>1, <1>4, <1>8, <2>2 DEF Update
<1>9. CASE Poll
  <2>1. raw = <<>> /\ raw' = raw /\ room' \in Nat
    BY <1>1, <1>9 DEF Poll, ReadTakesTime
  <2>2. NotTorn'
    BY <2>1 DEF NotTorn
  <2>3. Reading'
    BY <1>1, <1>9, <2>1 DEF Poll, Reading
  <2>4. QED  BY <1>1, <1>9, <2>1, <2>2, <2>3 DEF Poll, CInv
<1>10. CASE Read
  <2> DEFINE x == Register(date, Len(raw) + 1)
  <2>1. Len(raw) < Registers /\ raw' = Append(raw, x) /\ pc = "read" /\ pc' = pc
    BY <1>10 DEF Read
  <2>2. /\ raw' \in Seq(S \cup {x})
        /\ DOMAIN raw' = 1..(Len(raw) + 1)
        /\ Len(raw') = Len(raw) + 1
        /\ \A i \in 1..Len(raw) : raw'[i] = raw[i]
        /\ raw'[Len(raw) + 1] = x
    BY <1>2, <2>1, Appended
  <2>3. Reading' /\ room' \in Nat
    BY <1>1, <1>3, <1>10, <2>1, <2>2, SlackEnough DEF Read, ReadTakesTime, Reading
  <2>4. date = shown.date
    BY <1>1, <2>1 DEF Reading
  <2>5. ASSUME NEW i \in 1..(Len(raw) + 1) PROVE raw'[i] = Register(shown.date, i)
    <3>1. CASE i \in 1..Len(raw)
      BY <1>1, <1>2, <2>2, <3>1 DEF NotTorn
    <3>2. CASE i = Len(raw) + 1
      BY <2>2, <2>4, <3>2
    <3>3. QED  BY <1>3, <3>1, <3>2
  <2>6. NotTorn'
    <3>1. ASSUME NEW i PROVE Register(shown.date, i)' = Register(shown.date, i)
      BY <1>10 DEF Read, Register, Bcd, Hour, Twelve
    <3>2. QED  BY <2>2, <2>5, <3>1 DEF NotTorn
  <2>7. QED  BY <2>1, <2>2, <2>3, <2>6 DEF CInv
<1>11. CASE Return
  BY <1>1, <1>4, <1>11 DEF Return, clock, Reading
<1>12. CASE UNCHANGED vars
  BY <1>1, <1>4, <1>12 DEF vars, clock, Reading
<1>13. QED
  BY <1>5, <1>6, <1>7, <1>8, <1>9, <1>10, <1>11, <1>12 DEF Next

-----------------------------------------------------------------------------
(* Induction from a number on, for a set.                                  *)
LEMMA FromOn ==
  ASSUME NEW a \in Nat, NEW T, a \in T, \A n \in Nat : n >= a /\ n \in T => n + 1 \in T
  PROVE  \A n \in Nat : n >= a => n \in T
<1> DEFINE R == OpToRel(<, Nat)
           U == {n \in Nat : n >= a /\ n \notin T}
<1> SUFFICES ASSUME U # {} PROVE FALSE
  OBVIOUS
<1>1. IsWellFoundedOn(R, Nat)
  BY NatLessThanWellFounded
<1>2. \A x, y \in Nat : y < x => <<y, x>> \in R
  BY DEF OpToRel
<1> HIDE DEF R
<1>3. U \subseteq Nat
  OBVIOUS
<1>4. PICK x \in U : \A y \in U : ~(<<y, x>> \in R)
  BY <1>1, <1>3, WFMin
<1>5. x # a /\ x - 1 \in Nat /\ x - 1 >= a
  BY <1>4
<1>6. x - 1 \notin T
  BY <1>5
<1>7. <<x - 1, x>> \in R /\ x - 1 \in U
  BY <1>2, <1>5, <1>6
<1>8. QED  BY <1>4, <1>7

(* Leap years up to a year, from the number of the year.                   *)
Leaps(y) == y \div 4 - y \div 100 + y \div 400

LEMMA NextMultiple ==
  ASSUME NEW y \in Nat \ {0}
  PROVE  /\ y \div 4 = (y - 1) \div 4 + (IF y % 4 = 0 THEN 1 ELSE 0)
         /\ y \div 100 = (y - 1) \div 100 + (IF y % 100 = 0 THEN 1 ELSE 0)
         /\ y \div 400 = (y - 1) \div 400 + (IF y % 400 = 0 THEN 1 ELSE 0)
<1>1. y \div 4 = (y - 1) \div 4 + (IF y % 4 = 0 THEN 1 ELSE 0)
  OBVIOUS
<1>2. y \div 100 = (y - 1) \div 100 + (IF y % 100 = 0 THEN 1 ELSE 0)
  OBVIOUS
<1>3. y \div 400 = (y - 1) \div 400 + (IF y % 400 = 0 THEN 1 ELSE 0)
  OBVIOUS
<1>4. QED  BY <1>1, <1>2, <1>3

LEMMA LeapCounted ==
  ASSUME NEW y \in Nat \ {0}
  PROVE  /\ YearLength(y) \in {365, 366}
         /\ Leaps(y) \in Int /\ Leaps(y - 1) \in Int
         /\ 365 + Leaps(y) = YearLength(y) + Leaps(y - 1)
<1>1. (y % 400 = 0 => y % 100 = 0) /\ (y % 100 = 0 => y % 4 = 0)
  OBVIOUS
<1>2. QED  BY <1>1, NextMultiple DEF YearLength, Leap, Leaps

LEMMA YearDaysIs ==
  YearDays = [y \in Nat |-> IF y <= 1970 THEN 0 ELSE YearDays[y - 1] + YearLength(y - 1)]
<1> DEFINE Def(f) == [y \in Nat |-> IF y <= 1970 THEN 0 ELSE f[y - 1] + YearLength(y - 1)]
           h == [y \in Nat |-> IF y <= 1970 THEN 0
                               ELSE 365 * (y - 1970) + Leaps(y - 1) - 477]
<1>1. ASSUME NEW y \in Nat, y > 1970 PROVE h[y] = h[y - 1] + YearLength(y - 1)
  <2>1. y - 1 \in Nat \ {0}
    BY <1>1
  <2>2. 365 + Leaps(y - 1) = YearLength(y - 1) + Leaps(y - 1 - 1) /\ YearLength(y - 1) \in {365, 366}
         /\ Leaps(y - 1) \in Int /\ Leaps(y - 1 - 1) \in Int
    BY <2>1, LeapCounted
  <2>3. CASE y = 1971
    <3>1. Leaps(1970) = 477 /\ Leaps(1969) = 477
      BY DEF Leaps
    <3>2. QED  BY <2>2, <2>3, <3>1
  <2>4. CASE y > 1971
    BY <1>1, <2>1, <2>2, <2>4
  <2>5. QED  BY <1>1, <2>3, <2>4
<1>2. h = Def(h)
  <2> DEFINE g == Def(h)
  <2>1. \A y \in Nat : y <= 1970 => h[y] = 0
    OBVIOUS
  <2>2. h = [y \in Nat |-> h[y]]
    OBVIOUS
  <2> HIDE DEF h
  <2>3. g = [y \in Nat |-> g[y]]
    OBVIOUS
  <2>4. \A y \in Nat : g[y] = IF y <= 1970 THEN 0 ELSE h[y - 1] + YearLength(y - 1)
    OBVIOUS
  <2> HIDE DEF g
  <2>5. \A y \in Nat : g[y] = h[y]
    BY <1>1, <2>1, <2>4
  <2>6. g = h
    BY <2>2, <2>3, <2>5
  <2>7. QED  BY <2>6 DEF g
<1>3. YearDays = CHOOSE f : f = Def(f)
  BY DEF YearDays
<1> HIDE DEF Def, h
<1>4. YearDays = Def(YearDays)
  BY <1>2, <1>3
<1>5. QED  BY <1>4 DEF Def

(* What the loop over the years does for one more year.                    *)
LEMMA YearDaysNext ==
  /\ YearDays[1970] = 0
  /\ \A y \in Nat : y >= 1970 => YearDays[y + 1] = YearDays[y] + YearLength(y)
<1> DEFINE F == [y \in Nat |-> IF y <= 1970 THEN 0 ELSE YearDays[y - 1] + YearLength(y - 1)]
<1>1. YearDays[1970] = F[1970] /\ \A y \in Nat : YearDays[y + 1] = F[y + 1]
  BY YearDaysIs
<1>2. ASSUME NEW y \in Nat, y >= 1970 PROVE F[y + 1] = YearDays[y] + YearLength(y)
  <2>1. y + 1 \in Nat /\ ~(y + 1 <= 1970) /\ (y + 1) - 1 = y
    BY <1>2
  <2>2. QED  BY <2>1
<1>3. F[1970] = 0
  OBVIOUS
<1> HIDE DEF F
<1>4. QED  BY <1>1, <1>2, <1>3

(* And in closed form.                                                     *)
LEMMA YearDaysClosed ==
  ASSUME NEW y \in Nat, y >= 1970
  PROVE  /\ YearDays[y] = 365 * (y - 1970) + Leaps(y - 1) - 477
         /\ Leaps(y - 1) \in Nat
         /\ YearDays[y] \in Nat
<1> DEFINE T == {n \in Nat : /\ YearDays[n] = 365 * (n - 1970) + Leaps(n - 1) - 477
                             /\ Leaps(n - 1) \in Nat /\ Leaps(n - 1) >= 477}
<1>1. 1970 \in T
  <2>1. Leaps(1969) = 477
    BY DEF Leaps
  <2>2. QED  BY <2>1, YearDaysNext
<1>2. ASSUME NEW n \in Nat, n >= 1970, n \in T PROVE n + 1 \in T
  <2>1. /\ YearLength(n) \in {365, 366} /\ Leaps(n) \in Int /\ Leaps(n - 1) \in Nat
        /\ 365 + Leaps(n) = YearLength(n) + Leaps(n - 1)
    BY <1>2, LeapCounted
  <2>2. YearDays[n + 1] = YearDays[n] + YearLength(n)
    BY <1>2, YearDaysNext
  <2>3. (n + 1) - 1 = n
    OBVIOUS
  <2>4. YearDays[n + 1] = 365 * (n + 1 - 1970) + Leaps(n) - 477
    BY <1>2, <2>1, <2>2
  <2>5. Leaps(n) \in Nat /\ Leaps(n) >= 477
    BY <1>2, <2>1
  <2>6. QED  BY <2>3, <2>4, <2>5
<1> HIDE DEF T
<1>3. y \in T
  BY <1>1, <1>2, FromOn
<1>4. QED  BY <1>3 DEF T

(* The days of two years are not mixed: a day of the year less than its    *)
(* length keeps the days since 1970 below those of the next year.          *)
LEMMA YearsApart ==
  ASSUME NEW y \in Nat, NEW z \in Nat, 1970 <= y, y <= z
  PROVE  YearDays[y] <= YearDays[z]
<1> DEFINE T == {n \in Nat : YearDays[n] \in Nat /\ YearDays[y] <= YearDays[n]}
<1>1. y \in T
  BY YearDaysClosed
<1>2. ASSUME NEW n \in Nat, n >= y, n \in T PROVE n + 1 \in T
  <2>1. YearDays[n + 1] = YearDays[n] + YearLength(n) /\ YearLength(n) \in {365, 366}
    BY <1>2, YearDaysNext, LeapCounted
  <2>2. YearDays[n + 1] \in Nat /\ YearDays[y] \in Nat
    BY <1>2, YearDaysClosed
  <2>3. QED  BY <1>2, <2>1, <2>2
<1> HIDE DEF T
<1>3. z \in T
  BY <1>1, <1>2, FromOn
<1>4. QED  BY <1>3 DEF T

LEMMA CenturyLasts ==
  ASSUME NEW y \in Nat, y >= 1970, YearDays[y] < Century
  PROVE  y <= 2069
<1> SUFFICES ASSUME 2070 <= y PROVE FALSE
  OBVIOUS
<1>1. Leaps(2069) = 502
  BY DEF Leaps
<1>2. YearDays[2070] = 36525
  BY <1>1, YearDaysClosed
<1>3. YearDays[2070] <= YearDays[y] /\ YearDays[y] \in Nat
  BY YearsApart, YearDaysClosed
<1>4. QED  BY <1>2, <1>3 DEF Century

-----------------------------------------------------------------------------
LEMMA MonthLengths ==
  ASSUME NEW y
  PROVE  /\ MonthLength(y, 1) = 31
         /\ MonthLength(y, 2) = IF Leap(y) THEN 29 ELSE 28
         /\ MonthLength(y, 3) = 31 /\ MonthLength(y, 4) = 30 /\ MonthLength(y, 5) = 31
         /\ MonthLength(y, 6) = 30 /\ MonthLength(y, 7) = 31 /\ MonthLength(y, 8) = 31
         /\ MonthLength(y, 9) = 30 /\ MonthLength(y, 10) = 31 /\ MonthLength(y, 11) = 30
         /\ MonthLength(y, 12) = 31
<1>1. /\ monthdays[1] = 31 /\ monthdays[2] = 28 /\ monthdays[3] = 31 /\ monthdays[4] = 30
      /\ monthdays[5] = 31 /\ monthdays[6] = 30 /\ monthdays[7] = 31 /\ monthdays[8] = 31
      /\ monthdays[9] = 30 /\ monthdays[10] = 31 /\ monthdays[11] = 30 /\ monthdays[12] = 31
  BY DEF monthdays
<1>2. QED  BY <1>1 DEF MonthLength

(* The days of a year before a month, in its order.                        *)
DayTable(y) ==
  LET leap == IF Leap(y) THEN 1 ELSE 0
  IN  <<0, 31, 59 + leap, 90 + leap, 120 + leap, 151 + leap, 181 + leap, 212 + leap,
        243 + leap, 273 + leap, 304 + leap, 334 + leap, 365 + leap>>

LEMMA DayTableIs ==
  ASSUME NEW y
  PROVE  LET leap == IF Leap(y) THEN 1 ELSE 0
         IN  /\ DayTable(y)[1] = 0
             /\ DayTable(y)[2] = 31 /\ DayTable(y)[3] = 59 + leap
             /\ DayTable(y)[4] = 90 + leap /\ DayTable(y)[5] = 120 + leap
             /\ DayTable(y)[6] = 151 + leap /\ DayTable(y)[7] = 181 + leap
             /\ DayTable(y)[8] = 212 + leap /\ DayTable(y)[9] = 243 + leap
             /\ DayTable(y)[10] = 273 + leap /\ DayTable(y)[11] = 304 + leap
             /\ DayTable(y)[12] = 334 + leap /\ DayTable(y)[13] = 365 + leap
<1> DEFINE leap == IF Leap(y) THEN 1 ELSE 0
<1>1. leap \in Int
  OBVIOUS
<1>2. DayTable(y) = <<0, 31, 59 + leap, 90 + leap, 120 + leap, 151 + leap, 181 + leap, 212 + leap,
        243 + leap, 273 + leap, 304 + leap, 334 + leap, 365 + leap>>
  BY DEF DayTable
<1> HIDE DEF leap
<1>3. QED  BY <1>2 DEF leap

LEMMA DayTableNext ==
  ASSUME NEW y, NEW m \in 1..12
  PROVE  /\ DayTable(y)[m + 1] = DayTable(y)[m] + MonthLength(y, m)
         /\ DayTable(y)[m] \in Nat
         /\ MonthLength(y, m) \in 28..31
<1>1. m \in {1, 2, 3, 4, 5, 6, 7, 8, 9, 10, 11, 12}
  OBVIOUS
<1>2. CASE Leap(y)
  BY <1>1, <1>2, DayTableIs, MonthLengths
<1>3. CASE ~Leap(y)
  BY <1>1, <1>3, DayTableIs, MonthLengths
<1>4. QED  BY <1>2, <1>3

LEMMA MonthDaysIs ==
  ASSUME NEW y, NEW m \in 1..12
  PROVE  MonthDays(y, m) = DayTable(y)[m]
<1> DEFINE Def(f) == [k \in 1..12 |-> IF k = 1 THEN 0 ELSE f[k - 1] + MonthLength(y, k - 1)]
           h == [k \in 1..12 |-> DayTable(y)[k]]
           b == CHOOSE f : f = Def(f)
<1>1. h = Def(h)
  <2> DEFINE g == Def(h)
  <2>1. h = [k \in 1..12 |-> h[k]] /\ g = [k \in 1..12 |-> g[k]]
    OBVIOUS
  <2>2. \A k \in 1..12 : h[k] = DayTable(y)[k]
    OBVIOUS
  <2>3. g[1] = 0 /\ \A k \in 2..12 : g[k] = h[k - 1] + MonthLength(y, k - 1)
    OBVIOUS
  <2> HIDE DEF g, h
  <2>4. ASSUME NEW k \in 2..12 PROVE g[k] = h[k]
    <3>1. k - 1 \in 1..12 /\ (k - 1) + 1 = k /\ k \in 1..12
      OBVIOUS
    <3>2. DayTable(y)[k] = DayTable(y)[k - 1] + MonthLength(y, k - 1)
      BY <3>1, DayTableNext
    <3>3. QED  BY <2>2, <2>3, <3>1, <3>2
  <2>5. g[1] = h[1]
    BY <2>2, <2>3, DayTableIs
  <2>6. \A k \in 1..12 : g[k] = h[k]
    <3>1. \A k \in 1..12 : k = 1 \/ k \in 2..12
      OBVIOUS
    <3>2. QED  BY <2>4, <2>5, <3>1
  <2>7. QED  BY <2>1, <2>6 DEF g
<1>2. MonthDays(y, m) = b[m]
  BY DEF MonthDays
<1> HIDE DEF Def, h
<1>3. b = Def(b)
  BY <1>1
<1> HIDE DEF b
<1>4. b[1] = 0 /\ \A k \in 1..11 : b[k + 1] = b[k] + MonthLength(y, k)
  <2>1. \A k \in 1..12 : b[k] = IF k = 1 THEN 0 ELSE b[k - 1] + MonthLength(y, k - 1)
    BY <1>3 DEF Def
  <2>2. \A k \in 1..11 : k + 1 \in 1..12 /\ k + 1 # 1 /\ (k + 1) - 1 = k /\ k \in 1..12
    OBVIOUS
  <2>3. QED  BY <2>1, <2>2
<1> DEFINE T == {k \in Nat : k \in 1..12 => b[k] = DayTable(y)[k]}
<1>5. 1 \in T
  BY <1>4, DayTableIs
<1>6. ASSUME NEW n \in Nat, n >= 1, n \in T PROVE n + 1 \in T
  <2>1. CASE n \in 1..11
    BY <1>4, <1>6, <2>1, DayTableNext
  <2>2. CASE n \notin 1..11
    BY <1>6, <2>2
  <2>3. QED  BY <2>1, <2>2
<1> HIDE DEF T
<1>7. m \in T
  BY <1>5, <1>6, FromOn
<1>8. QED  BY <1>2, <1>7 DEF T

-----------------------------------------------------------------------------
(* Kept folded: numbers this long are a burden to a prover that does not   *)
(* need them.                                                              *)
DayLength == 86400

(* The date the clock shows and the days since 1970 go on together.        *)
Valid(d) ==
    /\ d \in [year : Nat, month : 1..12, day : Nat, secs : Nat]
    /\ d.year >= 1970 /\ d.secs < DayLength
    /\ 1 <= d.day /\ d.day <= MonthLength(d.year, d.month)

Same(d, e) ==
    /\ Valid(d)
    /\ e \in [days : Nat, secs : Nat]
    /\ e.days = DaysBefore(d)
    /\ e.secs = d.secs

LEMMA DaysBeforeIs ==
  ASSUME NEW d, Valid(d)
  PROVE  /\ DaysBefore(d) = YearDays[d.year] + DayTable(d.year)[d.month] + d.day - 1
         /\ YearDays[d.year] \in Nat /\ DayTable(d.year)[d.month] \in Nat
         /\ MonthLength(d.year, d.month) \in 28..31
         /\ DaysBefore(d) \in Nat
<1>1. d.year \in Nat /\ d.month \in 1..12 /\ d.day \in Nat /\ d.day >= 1 /\ d.year >= 1970
  BY DEF Valid
<1>2. /\ YearDays[d.year] \in Nat /\ DayTable(d.year)[d.month] \in Nat
      /\ MonthLength(d.year, d.month) \in 28..31
  BY <1>1, YearDaysClosed, DayTableNext
<1>3. MonthDays(d.year, d.month) = DayTable(d.year)[d.month]
  BY <1>1, MonthDaysIs
<1>4. DaysBefore(d) = YearDays[d.year] + DayTable(d.year)[d.month] + d.day - 1
  BY <1>3 DEF DaysBefore
<1>5. QED  BY <1>1, <1>2, <1>4

LEMMA NextDayFollows ==
  ASSUME NEW d, Valid(d)
  PROVE  /\ Valid(NextDay(d)) /\ NextDay(d).secs = d.secs
         /\ DaysBefore(NextDay(d)) = DaysBefore(d) + 1
<1> DEFINE y == d.year
           m == d.month
           n == NextDay(d)
<1>1. /\ y \in Nat /\ m \in 1..12 /\ d.day \in Nat /\ d.day >= 1 /\ y >= 1970
      /\ d.day <= MonthLength(y, m) /\ d.secs \in Nat /\ d.secs < DayLength
  BY DEF Valid
<1>8. d = [year |-> y, month |-> m, day |-> d.day, secs |-> d.secs]
  BY DEF Valid
<1>2. /\ DaysBefore(d) = YearDays[y] + DayTable(y)[m] + d.day - 1
      /\ YearDays[y] \in Nat /\ DayTable(y)[m] \in Nat
      /\ MonthLength(y, m) \in 28..31
  BY DaysBeforeIs
<1>3. ASSUME Valid(n), n.secs = d.secs,
             YearDays[n.year] + DayTable(n.year)[n.month] + n.day
                 = YearDays[y] + DayTable(y)[m] + d.day + 1
      PROVE  DaysBefore(n) = DaysBefore(d) + 1
  <2>1. /\ DaysBefore(n) = YearDays[n.year] + DayTable(n.year)[n.month] + n.day - 1
        /\ YearDays[n.year] \in Nat /\ DayTable(n.year)[n.month] \in Nat
    BY <1>3, DaysBeforeIs
  <2>2. n.day \in Nat
    BY <1>3 DEF Valid
  <2> HIDE DEF n
  <2>3. QED  BY <1>1, <1>2, <1>3, <2>1, <2>2
<1>4. CASE d.day < MonthLength(y, m)
  <2>1. n = [year |-> y, month |-> m, day |-> d.day + 1, secs |-> d.secs]
    BY <1>1, <1>4, <1>8 DEF NextDay
  <2>2. Valid(n) /\ n.secs = d.secs
    BY <1>1, <1>2, <1>4, <2>1 DEF Valid
  <2>3. YearDays[n.year] + DayTable(n.year)[n.month] + n.day
            = YearDays[y] + DayTable(y)[m] + d.day + 1
    BY <1>1, <1>2, <2>1
  <2>4. QED  BY <1>3, <2>2, <2>3
<1>5. CASE d.day = MonthLength(y, m) /\ m < 12
  <2>1. n = [year |-> y, month |-> m + 1, day |-> 1, secs |-> d.secs]
    <3> DEFINE a == d.day
                b == d.secs
                k == m + 1
    <3>1. n = [d EXCEPT !.day = 1, !.month = k]
      BY <1>1, <1>2, <1>5 DEF NextDay
    <3>2. d = [year |-> y, month |-> m, day |-> a, secs |-> b]
      BY <1>8
    <3> HIDE DEF a, b, k, y, m, n
    <3>3. n = [year |-> y, month |-> k, day |-> 1, secs |-> b]
      BY <3>1, <3>2
    <3>4. QED  BY <3>3 DEF b, k
  <2>2. m + 1 \in 1..12
    BY <1>1, <1>5
  <2>3. DayTable(y)[m + 1] = DayTable(y)[m] + MonthLength(y, m) /\ MonthLength(y, m + 1) \in 28..31
    BY <1>1, <2>2, DayTableNext
  <2>4. Valid(n) /\ n.secs = d.secs
    BY <1>1, <1>2, <2>1, <2>2, <2>3 DEF Valid
  <2>5. YearDays[n.year] + DayTable(n.year)[n.month] + n.day
            = YearDays[y] + DayTable(y)[m] + d.day + 1
    BY <1>1, <1>2, <1>5, <2>1, <2>3
  <2>6. QED  BY <1>3, <2>4, <2>5
<1>6. CASE d.day = MonthLength(y, m) /\ m = 12
  <2>1. n = [year |-> y + 1, month |-> 1, day |-> 1, secs |-> d.secs]
    <3>1. n = [d EXCEPT !.day = 1, !.month = 1, !.year = y + 1]
      BY <1>1, <1>2, <1>6 DEF NextDay
    <3> DEFINE a == d.day
                b == d.secs
    <3>2. d = [year |-> y, month |-> m, day |-> a, secs |-> b]
      BY <1>8
    <3> HIDE DEF a, b, y, m, n
    <3>3. n = [year |-> y + 1, month |-> 1, day |-> 1, secs |-> b]
      BY <3>1, <3>2
    <3>4. QED  BY <3>3 DEF b
  <2>2. /\ MonthLength(y + 1, 1) = 31 /\ d.day = 31
        /\ DayTable(y)[12] + 31 = YearLength(y) /\ DayTable(y + 1)[1] = 0
    BY <1>6, MonthLengths, DayTableIs DEF YearLength
  <2>3. Valid(n) /\ n.secs = d.secs
    BY <1>1, <2>1, <2>2 DEF Valid
  <2>4. YearDays[y + 1] = YearDays[y] + YearLength(y) /\ YearLength(y) \in {365, 366}
    BY <1>1, YearDaysNext, LeapCounted
  <2>5. YearDays[n.year] + DayTable(n.year)[n.month] + n.day
            = YearDays[y] + DayTable(y)[m] + d.day + 1
    BY <1>2, <1>6, <2>1, <2>2, <2>4
  <2>6. QED  BY <1>3, <2>3, <2>5
<1>7. QED  BY <1>1, <1>2, <1>4, <1>5, <1>6

LEMMA Sixty ==
  ASSUME NEW n \in Nat
  PROVE  n = 60 * (n \div 60) + (n % 60) /\ n \div 60 \in Nat /\ (n \div 60) \div 60 = n \div 3600
<1>1. n = 60 * (n \div 60) + (n % 60)
  OBVIOUS
<1>2. n \div 60 \in Nat
  OBVIOUS
<1>3. (n \div 60) \div 60 = n \div 3600
  OBVIOUS
<1>4. QED  BY <1>1, <1>2, <1>3

LEMMA SecondsSplit ==
  ASSUME NEW s \in Nat, s < DayLength
  PROVE  /\ Hour(s) \in 0..23
         /\ s % 60 \in 0..59 /\ (s \div 60) % 60 \in 0..59
         /\ (s % 60) + 60 * ((s \div 60) % 60) + 3600 * Hour(s) = s
<1>1. Hour(s) \in 0..23 /\ s % 60 \in 0..59 /\ (s \div 60) % 60 \in 0..59
  BY DEF Hour, DayLength
<1>2. s = 60 * (s \div 60) + (s % 60) /\ s \div 60 \in Nat
  BY Sixty
<1>3. s \div 60 = 60 * ((s \div 60) \div 60) + ((s \div 60) % 60) /\ (s \div 60) \div 60 \in Nat
  BY <1>2, Sixty
<1>4. (s \div 60) \div 60 = s \div 3600
  BY Sixty
<1>5. QED  BY <1>1, <1>2, <1>3, <1>4 DEF Hour

(* What convert_to_nixt makes of a date, except for noon.                  *)
LEMMA NixtOfStruct ==
  ASSUME NEW d, Valid(d), NEW s \in Nat, s < DayLength, NEW full \in BOOLEAN
  PROVE  convert_to_nixt(AsStruct(d, s, full)) = AsStored([days |-> DaysBefore(d), secs |-> s], full)
<1> DEFINE t == AsStruct(d, s, full)
           h == Hour(s)
           low == s % 60
           mid == (s \div 60) % 60
           pm == ~full /\ h >= 12
           hour == CASE t.is_pm /\ t.hours # 12  -> t.hours + 12
                     [] ~t.is_pm /\ t.hours = 12 -> 0
                     [] OTHER -> t.hours
<1>1. h \in 0..23 /\ low \in 0..59 /\ mid \in 0..59 /\ low + 60 * mid + 3600 * h = s
  BY SecondsSplit
<1>2. t = [sec |-> low, min |-> mid, hours |-> IF full THEN h ELSE Twelve(h), is_pm |-> pm,
           day |-> d.day, month |-> d.month, year |-> d.year]
  BY DEF AsStruct
<1>3. AsStored([days |-> DaysBefore(d), secs |-> s], full)
        = [days |-> DaysBefore(d), secs |-> IF full /\ h = 12 THEN s - 43200 ELSE s]
  BY DEF AsStored, Noon
<1>4. convert_to_nixt(t) = [days |-> DaysBefore(t), secs |-> t.sec + 60 * t.min + 3600 * hour]
  BY DEF convert_to_nixt
<1> HIDE DEF t, h, low, mid
<1>5. h \in 0..23
  BY <1>1
<1>6. t.hours = (IF full THEN h ELSE Twelve(h)) /\ t.sec = low /\ t.min = mid
  BY <1>2
<1>7. (pm => t.is_pm) /\ (~pm => ~t.is_pm)
  <2>1. t.is_pm = pm
    BY <1>2
  <2> HIDE DEF pm
  <2>2. QED  BY <2>1, Zenon
<1>8. t.day = d.day /\ t.month = d.month /\ t.year = d.year
  BY <1>2
<1>9. DaysBefore(t) = DaysBefore(d)
  BY <1>8 DEF DaysBefore
<1>10. hour = IF full /\ h = 12 THEN 0 ELSE h
  <2>1. h \in {0, 12} => Twelve(h) = 12
    BY <1>5 DEF Twelve
  <2>2. h \in 1..11 => Twelve(h) = h
    BY <1>5 DEF Twelve
  <2>3. h \in 13..23 => Twelve(h) = h - 12
    BY <1>5 DEF Twelve
  <2>4. h = 0 \/ h \in 1..11 \/ h = 12 \/ h \in 13..23
    BY <1>5
  <2>5. CASE full
    <3>1. t.hours = h /\ ~t.is_pm
      BY <1>6, <1>7, <2>5
    <3>2. QED  BY <1>5, <2>5, <3>1
  <2>6. CASE ~full
    <3>1. t.hours = Twelve(h)
      BY <1>6, <2>6
    <3>2. CASE h = 0
      BY <1>7, <2>1, <2>6, <3>1, <3>2
    <3>3. CASE h \in 1..11
      BY <1>7, <2>2, <2>6, <3>1, <3>3
    <3>4. CASE h = 12
      BY <1>7, <2>1, <2>6, <3>1, <3>4
    <3>5. CASE h \in 13..23
      BY <1>7, <2>3, <2>6, <3>1, <3>5
    <3>6. QED  BY <2>4, <3>2, <3>3, <3>4, <3>5
  <2>7. QED  BY <2>5, <2>6
<1> HIDE DEF hour
<1>11. t.sec + 60 * t.min + 3600 * hour = IF full /\ h = 12 THEN s - 43200 ELSE s
  <2>1. CASE full /\ h = 12
    BY <1>1, <1>6, <1>10, <2>1
  <2>2. CASE ~(full /\ h = 12)
    BY <1>1, <1>6, <1>10, <2>2
  <2>3. QED  BY <2>1, <2>2
<1>12. QED  BY <1>3, <1>4, <1>9, <1>11 DEF t

-----------------------------------------------------------------------------
(* A register gives back what it was made of, in binary and in BCD.        *)
LEMMA ValueOfCode ==
  ASSUME NEW n \in Nat, n < 100
  PROVE  /\ bcd_to_bin(Bcd(n)) = n
         /\ Bcd(n) \in Nat /\ (n <= 12 => Bcd(n) <= 18)
         /\ Value(IF mode.bcd THEN Bcd(n) ELSE n) = n
<1> DEFINE q == n \div 10
           r == n % 10
           b == 16 * q + r
<1>1. q \in 0..9 /\ r \in 0..9 /\ n = 10 * q + r
  OBVIOUS
<1>2. n <= 12 => (q = 0 \/ (q = 1 /\ r <= 2))
  BY <1>1
<1>3. Bcd(n) = b
  BY DEF Bcd
<1> HIDE DEF q, r
<1>4. b \div 16 = q /\ b % 16 = r
  BY <1>1
<1>5. bcd_to_bin(b) = r + 10 * q
  BY <1>4 DEF bcd_to_bin
<1>6. bcd_to_bin(Bcd(n)) = n
  BY <1>1, <1>3, <1>5
<1>7. Bcd(n) \in Nat /\ (n <= 12 => Bcd(n) <= 18)
  BY <1>1, <1>2, <1>3
<1>8. QED  BY <1>6, <1>7 DEF Value

(* get_cmos_time gets the date the registers show.                         *)
LEMMA FieldsRead ==
  ASSUME NEW d, Valid(d), d.year <= 2069, mode \in [bcd : BOOLEAN, full : BOOLEAN],
         NEW r, \A i \in 1..6 : r[i] = Register(d, i)
  PROVE  Fields(r) = AsStruct(d, d.secs, mode.full)
<1> DEFINE code(n) == IF mode.bcd THEN Bcd(n) ELSE n
           s == d.secs
           h == Hour(s)
           pm == ~mode.full /\ r[3] >= 128
<1>1. /\ d.year \in Nat /\ d.month \in 1..12 /\ d.day \in Nat /\ s \in Nat
      /\ d.year >= 1970 /\ s < DayLength /\ 1 <= d.day /\ d.day <= MonthLength(d.year, d.month)
  BY DEF Valid
<1>2. h \in 0..23 /\ s % 60 \in 0..59 /\ (s \div 60) % 60 \in 0..59
  <2>1. s \in Nat /\ s < DayLength
    BY <1>1
  <2> HIDE DEF s
  <2>2. QED  BY <2>1, SecondsSplit
<1>3. d.day < 100 /\ d.month < 100 /\ d.year % 100 \in Nat /\ d.year % 100 < 100
  BY <1>1, DaysBeforeIs
<1>4. /\ r[1] = code(s % 60) /\ r[2] = code((s \div 60) % 60)
      /\ r[3] = (IF mode.full THEN code(h) ELSE code(Twelve(h)) + (IF h >= 12 THEN 128 ELSE 0))
      /\ r[4] = code(d.day) /\ r[5] = code(d.month) /\ r[6] = code(d.year % 100)
  BY DEF Register
<1>5. ASSUME NEW n \in Nat, n < 100
      PROVE  Value(code(n)) = n /\ code(n) \in Nat /\ (n <= 12 => code(n) <= 18)
  BY <1>5, ValueOfCode
<1>6. Twelve(h) \in 1..12
  BY <1>2 DEF Twelve
<1> HIDE DEF code, h
<1>7. /\ Value(r[1]) = s % 60 /\ Value(r[2]) = (s \div 60) % 60
      /\ Value(r[4]) = d.day /\ Value(r[5]) = d.month /\ Value(r[6]) = d.year % 100
  BY <1>1, <1>2, <1>3, <1>4, <1>5
<1>8. /\ pm = (~mode.full /\ h >= 12)
      /\ Value(IF pm THEN r[3] - 128 ELSE r[3]) = IF mode.full THEN h ELSE Twelve(h)
  <2>1. CASE mode.full
    BY <1>2, <1>4, <1>5, <2>1
  <2>2. CASE ~mode.full
    <3> DEFINE k == Twelve(h)
    <3>1. k \in Nat /\ k < 100 /\ code(k) \in Nat /\ code(k) <= 18 /\ Value(code(k)) = k
      BY <1>5, <1>6
    <3>2. r[3] = code(k) + (IF h >= 12 THEN 128 ELSE 0)
      BY <1>4, <2>2
    <3> HIDE DEF k
    <3>3. (r[3] >= 128) = (h >= 12)
      BY <1>2, <3>1, <3>2
    <3>4. (IF pm THEN r[3] - 128 ELSE r[3]) = code(k)
      BY <1>2, <2>2, <3>1, <3>2, <3>3
    <3>5. QED  BY <2>2, <3>1, <3>3, <3>4 DEF k
  <2>3. QED  BY <2>1, <2>2
<1>9. (d.year % 100) + (IF d.year % 100 >= 70 THEN 1900 ELSE 2000) = d.year
  BY <1>1
<1>10. Fields(r) = [sec |-> Value(r[1]), min |-> Value(r[2]),
                    hours |-> Value(IF pm THEN r[3] - 128 ELSE r[3]), is_pm |-> pm,
                    day |-> Value(r[4]), month |-> Value(r[5]),
                    year |-> Value(r[6]) + (IF Value(r[6]) >= 70 THEN 1900 ELSE 2000)]
  BY DEF Fields
<1>11. AsStruct(d, s, mode.full) =
           [sec |-> s % 60, min |-> (s \div 60) % 60,
            hours |-> IF mode.full THEN h ELSE Twelve(h), is_pm |-> ~mode.full /\ h >= 12,
            day |-> d.day, month |-> d.month, year |-> d.year]
  BY DEF AsStruct, h
<1> HIDE DEF pm
<1>12. QED  BY <1>7, <1>8, <1>9, <1>10, <1>11

-----------------------------------------------------------------------------
(* The loops of convert_to_timestruct. Eight bits of days are less than a  *)
(* year.                                                                   *)
LEMMA YearOfIs ==
  ASSUME NEW days \in Nat
  PROVE  YearOf(days) = [day |-> days % 256, year |-> 1970] /\ days % 256 \in 0..255
<1> DEFINE S == [day : 0..255, year : Nat]
           Def(f) == [t \in S |-> IF t.day < YearLength(t.year) THEN t
                                  ELSE f[[day |-> t.day - YearLength(t.year), year |-> t.year + 1]]]
           from == CHOOSE f : f = Def(f)
           x == [day |-> days % 256, year |-> 1970]
<1>1. \A t \in S : t.day < YearLength(t.year)
  BY DEF YearLength
<1>2. \A f : Def(f) = [t \in S |-> t]
  BY <1>1
<1>3. days % 256 \in 0..255
  OBVIOUS
<1>4. x \in S
  BY <1>3
<1>5. YearOf(days) = from[x]
  BY DEF YearOf, Byte
<1> HIDE DEF Def
<1>6. from = [t \in S |-> t]
  <2> DEFINE g == [t \in S |-> t]
  <2>1. g = Def(g)
    BY <1>2
  <2>2. from = Def(from)
    BY <2>1
  <2>3. QED  BY <1>2, <2>2
<1> HIDE DEF from, x, S
<1>7. from[x] = x
  BY <1>4, <1>6
<1>8. QED  BY <1>3, <1>5, <1>7 DEF x

(* The month of a day of a year.                                           *)
InMonth(y, day, m) ==
  /\ m \in 1..13
  /\ DayTable(y)[m] <= day
  /\ m <= 12 => day < DayTable(y)[m + 1]

LEMMA TableClimbs ==
  ASSUME NEW y, NEW m \in 1..13, NEW k \in 1..13
  PROVE  /\ DayTable(y)[m] \in Nat
         /\ m < k => DayTable(y)[m + 1] <= DayTable(y)[k]
<1>1. \A i \in 1..13 : DayTable(y)[i] \in Nat
  <2>1. \A i \in 1..12 : DayTable(y)[i] \in Nat
    BY DayTableNext
  <2>2. DayTable(y)[13] \in Nat
    BY DayTableIs
  <2>3. \A i \in 1..13 : i \in 1..12 \/ i = 13
    OBVIOUS
  <2>4. QED  BY <2>1, <2>2, <2>3
<1> DEFINE T == {n \in Nat : n \in 1..13 => DayTable(y)[m + 1] <= DayTable(y)[n]}
<1>2. ASSUME m < k PROVE k \in T
  <2>1. m + 1 \in T
    BY <1>1
  <2>2. ASSUME NEW n \in Nat, n >= m + 1, n \in T PROVE n + 1 \in T
    <3>1. CASE n + 1 \in 1..13
      <4>1. n \in 1..12 /\ n \in 1..13 /\ m + 1 \in 1..13
        BY <1>2, <2>2, <3>1
      <4>2. DayTable(y)[n + 1] = DayTable(y)[n] + MonthLength(y, n) /\ MonthLength(y, n) \in 28..31
        BY <4>1, DayTableNext
      <4>3. DayTable(y)[m + 1] <= DayTable(y)[n]
        BY <2>2, <4>1
      <4>4. DayTable(y)[m + 1] <= DayTable(y)[n + 1]
        BY <1>1, <3>1, <4>1, <4>2, <4>3
      <4>5. QED  BY <4>4
    <3>2. CASE n + 1 \notin 1..13
      BY <3>2
    <3>3. QED  BY <3>1, <3>2
  <2> HIDE DEF T
  <2>3. QED  BY <1>2, <2>1, <2>2, FromOn
<1>3. QED  BY <1>1, <1>2

LEMMA OneMonth ==
  ASSUME NEW y, NEW day \in Nat, NEW m, NEW k, InMonth(y, day, m), InMonth(y, day, k)
  PROVE  m = k
<1>1. m \in 1..13 /\ k \in 1..13
  BY DEF InMonth
<1>2. \A i, j \in 1..13 : i < j => DayTable(y)[i + 1] <= DayTable(y)[j]
  BY TableClimbs
<1>3. \A i \in 1..13 : DayTable(y)[i] \in Nat
  BY TableClimbs
<1>4. ASSUME NEW i, NEW j, InMonth(y, day, i), InMonth(y, day, j), i < j PROVE FALSE
  <2>1. i \in 1..13 /\ j \in 1..13
    BY <1>4 DEF InMonth
  <2>2. i <= 12 /\ i + 1 \in 1..13
    BY <1>4, <2>1
  <2>3. day < DayTable(y)[i + 1] /\ DayTable(y)[i + 1] <= DayTable(y)[j] /\ DayTable(y)[j] <= day
    BY <1>2, <1>4, <2>1, <2>2 DEF InMonth
  <2>4. QED  BY <1>3, <2>1, <2>2, <2>3
<1>5. m < k \/ k < m \/ m = k
  BY <1>1
<1>6. QED  BY <1>4, <1>5

LEMMA SomeMonth ==
  ASSUME NEW y, NEW day \in Nat
  PROVE  \E m : InMonth(y, day, m)
<1> SUFFICES ASSUME \A m : ~InMonth(y, day, m) PROVE FALSE
  OBVIOUS
<1> DEFINE T == {n \in Nat : n \in 1..13 => DayTable(y)[n] <= day}
<1>1. 1 \in T
  BY DayTableIs
<1>2. ASSUME NEW n \in Nat, n >= 1, n \in T PROVE n + 1 \in T
  <2>1. CASE n + 1 \in 1..13
    <3>1. n \in 1..12 /\ n \in 1..13 /\ DayTable(y)[n] <= day
      BY <1>2, <2>1
    <3>2. ~(day < DayTable(y)[n + 1])
      BY <3>1 DEF InMonth
    <3>3. DayTable(y)[n + 1] \in Nat
      BY <2>1, TableClimbs
    <3>4. QED  BY <3>2, <3>3
  <2>2. QED  BY <2>1
<1> HIDE DEF T
<1>3. 13 \in T
  BY <1>1, <1>2, FromOn
<1>4. InMonth(y, day, 13)
  BY <1>3 DEF T, InMonth
<1>5. QED  BY <1>4

LEMMA MonthOfIs ==
  ASSUME NEW y, y.day \in Nat
  PROVE  /\ InMonth(y.year, y.day, MonthOf(y).month)
         /\ MonthOf(y).day = y.day - DayTable(y.year)[MonthOf(y).month]
<1> DEFINE S == [day : Nat, month : 1..13]
           length(m) == MonthLength(y.year, m)
           next(t) == [day |-> t.day - length(t.month), month |-> t.month + 1]
           Def(f) == [t \in S |-> IF t.month > 12 \/ t.day < length(t.month) THEN t ELSE f[next(t)]]
           from == CHOOSE f : f = Def(f)
           first == [day |-> y.day, month |-> 1]
           T(m) == DayTable(y.year)[m]
           Of(x) == CHOOSE k : InMonth(y.year, x, k)
           Abs(t) == t.day + T(t.month)
           h == [t \in S |-> [day |-> Abs(t) - T(Of(Abs(t))), month |-> Of(Abs(t))]]
<1>1. MonthOf(y) = from[first]
  BY DEF MonthOf
<1>2. \A m \in 1..13 : T(m) \in Nat
  BY TableClimbs
<1>3. \A m \in 1..12 : T(m + 1) = T(m) + length(m) /\ length(m) \in 28..31
  BY DayTableNext
<1>4. \A t \in S : t.day \in Nat /\ t.month \in 1..13 /\ t = [day |-> t.day, month |-> t.month]
  OBVIOUS
<1>5. ASSUME NEW x \in Nat PROVE InMonth(y.year, x, Of(x)) /\ Of(x) \in 1..13
  <2>1. InMonth(y.year, x, Of(x))
    BY SomeMonth
  <2>2. QED  BY <2>1 DEF InMonth
<1>6. ASSUME NEW t \in S PROVE Abs(t) \in Nat
  <2> HIDE DEF T, S
  <2>1. QED  BY <1>2, <1>4
<1>7. ASSUME NEW t \in S, t.month > 12 \/ t.day < length(t.month) PROVE h[t] = t
  <2>1. t.month > 12 => t.month = 13
    BY <1>4
  <2>2. t.month <= 12 => T(t.month + 1) = T(t.month) + length(t.month)
    BY <1>3, <1>4
  <2>3. t.month <= 12 => length(t.month) \in 28..31
    BY <1>3, <1>4
  <2> HIDE DEF T, length, S
  <2>4. InMonth(y.year, Abs(t), t.month)
    <3>1. T(t.month) <= Abs(t)
      BY <1>2, <1>4
    <3>2. t.month <= 12 => Abs(t) < T(t.month + 1)
      BY <1>2, <1>4, <1>7, <2>2, <2>3
    <3> HIDE DEF Abs
    <3>3. QED  BY <1>4, <3>1, <3>2 DEF InMonth, T
  <2> DEFINE x == Abs(t)
  <2>5. x \in Nat
    BY <1>6
  <2>6. InMonth(y.year, x, Of(x))
    BY <1>5, <2>5
  <2> HIDE DEF Of
  <2>7. Of(x) = t.month
    BY <2>4, <2>5, <2>6, OneMonth
  <2>8. x - T(t.month) = t.day
    BY <1>2, <1>4
  <2>9. h[t] = [day |-> x - T(Of(x)), month |-> Of(x)]
    OBVIOUS
  <2> HIDE DEF x, h
  <2>10. QED  BY <1>4, <2>7, <2>8, <2>9
<1>8. ASSUME NEW t \in S, ~(t.month > 12 \/ t.day < length(t.month))
      PROVE  next(t) \in S /\ Abs(next(t)) = Abs(t)
  <2>1. t.month \in 1..12
    BY <1>4, <1>8
  <2>2. t.day - length(t.month) \in Nat
    BY <1>3, <1>4, <1>8, <2>1
  <2>3. t.month + 1 \in 1..13
    BY <2>1
  <2> HIDE DEF T, length
  <2>4. QED  BY <1>2, <1>3, <1>4, <2>1, <2>2, <2>3
<1>9. ASSUME NEW t \in S, ~(t.month > 12 \/ t.day < length(t.month)) PROVE h[t] = h[next(t)]
  <2>1. next(t) \in S /\ Abs(next(t)) = Abs(t)
    BY <1>8, <1>9
  <2> DEFINE u == next(t)
             r(x) == [day |-> x - T(Of(x)), month |-> Of(x)]
  <2>2. h[t] = r(Abs(t)) /\ h[u] = r(Abs(u))
    BY <2>1
  <2> HIDE DEF u, h, r, Abs
  <2>3. QED  BY <2>1, <2>2 DEF u
<1>10. h = Def(h)
  <2> DEFINE g == Def(h)
  <2>1. h = [t \in S |-> h[t]]
    OBVIOUS
  <2> HIDE DEF h, next, length, S
  <2>5. g = [t \in S |-> g[t]]
    OBVIOUS
  <2>2. \A t \in S : g[t] = IF t.month > 12 \/ t.day < length(t.month) THEN t ELSE h[next(t)]
    OBVIOUS
  <2> HIDE DEF g
  <2>3. \A t \in S : g[t] = h[t]
    BY <1>7, <1>9, <2>2
  <2>4. g = h
    BY <2>1, <2>3, <2>5
  <2>6. QED  BY <2>4 DEF g
<1> HIDE DEF h
<1>11. from = Def(from)
  BY <1>10
<1> DEFINE same(n) == \A t \in S : t.month = 13 - n => from[t] = h[t]
<1>12. \A t \in S : from[t] = IF t.month > 12 \/ t.day < length(t.month) THEN t ELSE from[next(t)]
  BY <1>11
<1> HIDE DEF from, S, next, length, Abs, Of, T
<1>13. ASSUME NEW t \in S, t.month = 13 PROVE from[t] = h[t]
  BY <1>7, <1>12, <1>13
<1>14. ASSUME NEW t \in S, t.month <= 12,
              \A u \in S : u.month = t.month + 1 => from[u] = h[u]
       PROVE  from[t] = h[t]
  <2>1. CASE t.day < length(t.month)
    BY <1>7, <1>12, <2>1
  <2>2. CASE ~(t.day < length(t.month))
    <3>1. ~(t.month > 12 \/ t.day < length(t.month))
      BY <1>4, <1>14, <2>2
    <3>2. next(t) \in S /\ next(t).month = t.month + 1
      BY <1>8, <3>1 DEF next
    <3>3. QED  BY <1>9, <1>12, <1>14, <3>1, <3>2
  <2>3. QED  BY <2>1, <2>2
<1> DEFINE U == {n \in Nat : \A t \in S : t.month + n = 13 => from[t] = h[t]}
<1>15. 0 \in U
  BY <1>4, <1>13
<1>16. ASSUME NEW n \in Nat, n >= 0, n \in U PROVE n + 1 \in U
  <2>1. ASSUME NEW t \in S, t.month + (n + 1) = 13 PROVE from[t] = h[t]
    <3>1. t.month <= 12 /\ (t.month + 1) + n = 13
      BY <1>4, <2>1
    <3>2. \A u \in S : u.month = t.month + 1 => from[u] = h[u]
      BY <1>16, <3>1
    <3>3. QED  BY <1>14, <3>1, <3>2
  <2>2. QED  BY <2>1
<1>17. 12 \in U
  <2> HIDE DEF U
  <2>1. QED  BY <1>15, <1>16, FromOn
<1>18. first \in S /\ first.month = 1 /\ Abs(first) = y.day
  <2>1. T(1) = 0
    BY DayTableIs DEF T
  <2>2. QED  BY <2>1 DEF S, Abs
<1>19. from[first] = h[first]
  BY <1>17, <1>18
<1>20. h[first] = [day |-> y.day - T(Of(y.day)), month |-> Of(y.day)]
  BY <1>18 DEF h
<1>21. QED  BY <1>1, <1>5, <1>19, <1>20 DEF T

(* What convert_to_nixt makes of what convert_to_timestruct makes.         *)
LEMMA BackAgain ==
  ASSUME NEW days \in Nat, NEW secs \in Nat, secs < DayLength, NEW pm \in BOOLEAN
  PROVE  LET t == convert_to_timestruct([days |-> days, secs |-> secs], pm)
         IN  /\ convert_to_nixt([t EXCEPT !.day = @ + 1]) =
                    AsStored([days |-> days % 256, secs |-> secs], ~pm)
             /\ InMonth(1970, days % 256, t.month)
             /\ t.day = (days % 256) - DayTable(1970)[t.month]
<1> DEFINE nixt == [days |-> days, secs |-> secs]
           t == convert_to_timestruct(nixt, pm)
           u == [t EXCEPT !.day = @ + 1]
           h == Hour(secs)
           b == days % 256
           y == YearOf(days)
           m == MonthOf(y)
           afternoon == pm /\ h >= 12
           hour == CASE u.is_pm /\ u.hours # 12  -> u.hours + 12
                     [] ~u.is_pm /\ u.hours = 12 -> 0
                     [] OTHER -> u.hours
<1>1. y = [day |-> b, year |-> 1970] /\ b \in 0..255
  BY YearOfIs
<1>2. y.day = b /\ y.year = 1970 /\ b \in Nat
  BY <1>1
<1>3. InMonth(1970, b, m.month) /\ m.day = b - DayTable(1970)[m.month]
  <2> HIDE DEF y, b
  <2>1. y.day \in Nat
    BY <1>2
  <2>2. InMonth(y.year, y.day, MonthOf(y).month) /\ MonthOf(y).day = y.day - DayTable(y.year)[MonthOf(y).month]
    BY <2>1, MonthOfIs
  <2>3. QED  BY <1>2, <2>2
<1>4. t = [sec |-> secs % 60, min |-> (secs \div 60) % 60,
           hours |-> IF afternoon /\ h > 12 THEN h - 12 ELSE h, is_pm |-> afternoon,
           day |-> m.day, month |-> m.month, year |-> y.year]
  BY DEF convert_to_timestruct
<1>5. m.month \in 1..12
  <2>1. m.month \in 1..13 /\ DayTable(1970)[m.month] <= b
    BY <1>3 DEF InMonth
  <2>2. ~Leap(1970)
    BY DEF Leap
  <2>3. DayTable(1970)[13] = 365
    BY <2>2, DayTableIs
  <2>4. m.month # 13
    BY <1>1, <2>1, <2>3
  <2>5. QED  BY <2>1, <2>4
<1>6. DayTable(1970)[m.month] \in Nat /\ DayTable(1970)[m.month] <= b
  BY <1>3, <1>5, DayTableNext DEF InMonth
<1>7. /\ h \in 0..23 /\ secs % 60 \in 0..59 /\ (secs \div 60) % 60 \in 0..59
      /\ (secs % 60) + 60 * ((secs \div 60) % 60) + 3600 * h = secs
  BY SecondsSplit
<1> HIDE DEF t, h, m, y, b, afternoon
<1>8. u = [sec |-> secs % 60, min |-> (secs \div 60) % 60,
           hours |-> IF afternoon /\ h > 12 THEN h - 12 ELSE h, is_pm |-> afternoon,
           day |-> m.day + 1, month |-> m.month, year |-> 1970]
  BY <1>2, <1>4
<1> HIDE DEF u
<1>9. DaysBefore(u) = b
  <2>1. u.year = 1970 /\ u.month = m.month /\ u.day = m.day + 1
    BY <1>8
  <2>2. DaysBefore(u) = YearDays[1970] + MonthDays(1970, m.month) + (m.day + 1) - 1
    BY <2>1 DEF DaysBefore
  <2>3. MonthDays(1970, m.month) = DayTable(1970)[m.month] /\ YearDays[1970] = 0
    BY <1>5, MonthDaysIs, YearDaysNext
  <2>4. QED  BY <1>2, <1>3, <1>6, <2>2, <2>3
<1>10. convert_to_nixt(u) = [days |-> b, secs |-> u.sec + 60 * u.min + 3600 * hour]
  BY <1>9 DEF convert_to_nixt
<1>11. u.hours = (IF afternoon /\ h > 12 THEN h - 12 ELSE h) /\ u.is_pm = afternoon
       /\ u.sec = secs % 60 /\ u.min = (secs \div 60) % 60
  BY <1>8
<1>19. h \in 0..23
  BY <1>7
<1>20. u.hours = (IF afternoon /\ h > 12 THEN h - 12 ELSE h)
  BY <1>8
<1>21. (afternoon => u.is_pm) /\ (~afternoon => ~u.is_pm)
  BY <1>11
<1>22. afternoon => pm /\ h >= 12
  BY DEF afternoon
<1>23. ~afternoon => ~pm \/ ~(h >= 12)
  BY DEF afternoon
<1>12. hour = IF ~pm /\ h = 12 THEN 0 ELSE h
  <2>1. CASE afternoon /\ h > 12
    <3>1. u.is_pm /\ u.hours = h - 12 /\ u.hours # 12 /\ pm
      BY <1>19, <1>20, <1>21, <1>22, <2>1
    <3>2. hour = u.hours + 12
      BY <3>1
    <3>3. QED  BY <1>19, <2>1, <3>1, <3>2
  <2>2. CASE afternoon /\ ~(h > 12)
    <3>1. u.is_pm /\ u.hours = 12 /\ h = 12 /\ pm
      BY <1>19, <1>20, <1>21, <1>22, <2>2
    <3>2. hour = u.hours
      BY <3>1
    <3>3. QED  BY <3>1, <3>2
  <2>3. CASE ~afternoon
    <3>1. ~u.is_pm /\ u.hours = h /\ (h = 12 => ~pm)
      BY <1>19, <1>20, <1>21, <1>23, <2>3
    <3>2. CASE h = 12
      BY <3>1, <3>2
    <3>3. CASE h # 12
      BY <3>1, <3>3
    <3>4. QED  BY <3>2, <3>3
  <2>4. QED  BY <2>1, <2>2, <2>3
<1>13. AsStored([days |-> b, secs |-> secs], ~pm)
           = [days |-> b, secs |-> IF ~pm /\ h = 12 THEN secs - 43200 ELSE secs]
  BY DEF AsStored, Noon, h
<1> HIDE DEF hour
<1>14. u.sec + 60 * u.min + 3600 * hour = IF ~pm /\ h = 12 THEN secs - 43200 ELSE secs
  BY <1>7, <1>11, <1>12
<1>15. convert_to_nixt(u) = AsStored([days |-> b, secs |-> secs], ~pm)
  BY <1>10, <1>13, <1>14
<1>16. t.month = m.month /\ t.day = m.day
  BY <1>4
<1>17. InMonth(1970, b, t.month) /\ t.day = b - DayTable(1970)[t.month]
  BY <1>3, <1>16
<1>18. QED  BY <1>15, <1>17 DEF t, u, b

(* In the first 256 days it is the day the clock shows.                    *)
LEMMA FirstDays ==
  ASSUME NEW d, Valid(d), DaysBefore(d) < 256
  PROVE  /\ d.year = 1970 /\ InMonth(1970, DaysBefore(d), d.month)
         /\ d.day - 1 = DaysBefore(d) - DayTable(1970)[d.month]
<1> DEFINE b == DaysBefore(d)
<1>1. /\ b = YearDays[d.year] + DayTable(d.year)[d.month] + d.day - 1
      /\ YearDays[d.year] \in Nat /\ DayTable(d.year)[d.month] \in Nat
      /\ MonthLength(d.year, d.month) \in 28..31 /\ b \in Nat
  BY DaysBeforeIs
<1>2. /\ d.year \in Nat /\ d.month \in 1..12 /\ d.day \in Nat
      /\ d.year >= 1970 /\ 1 <= d.day /\ d.day <= MonthLength(d.year, d.month)
  BY DEF Valid
<1>3. d.year = 1970
  <2> SUFFICES ASSUME 1971 <= d.year PROVE FALSE
    BY <1>2
  <2>1. YearDays[1971] = YearDays[1970] + YearLength(1970) /\ YearDays[1970] = 0
    <3>1. 1970 \in Nat /\ 1970 >= 1970 /\ 1970 + 1 = 1971
      OBVIOUS
    <3>2. QED  BY <3>1, YearDaysNext
  <2>2. YearLength(1970) \in {365, 366}
    BY DEF YearLength
  <2>3. YearDays[1971] <= YearDays[d.year]
    BY <1>2, YearsApart
  <2>4. QED  BY <1>1, <1>2, <2>1, <2>2, <2>3
<1>4. YearDays[1970] = 0
  BY YearDaysNext
<1>5. DayTable(1970)[d.month + 1] = DayTable(1970)[d.month] + MonthLength(1970, d.month)
  BY <1>2, DayTableNext
<1> HIDE DEF b
<1>6. b = DayTable(1970)[d.month] + d.day - 1
  BY <1>1, <1>2, <1>3, <1>4
<1>7. DayTable(1970)[d.month] <= b /\ b < DayTable(1970)[d.month + 1]
  BY <1>1, <1>2, <1>3, <1>5, <1>6
<1>8. InMonth(1970, b, d.month)
  BY <1>2, <1>7 DEF InMonth
<1>9. d.day - 1 = b - DayTable(1970)[d.month]
  BY <1>1, <1>2, <1>3, <1>6
<1>10. QED  BY <1>3, <1>8, <1>9 DEF b

-----------------------------------------------------------------------------
(* The clock counts the days as its date goes on, and a call ends before   *)
(* the two digits of the year do.                                          *)
InTime == \E day \in BootDays : 86400 * elapsed.days + elapsed.secs <= 86400 * day + 86399 + updates

Dates ==
    /\ Same(date, elapsed)
    /\ updates \in Nat /\ updates <= MaxUpdates /\ (uip => updates < MaxUpdates)
    /\ pc \in {"poll", "read"} => mode \in Modes /\ InTime
    /\ pc \in {"read", "done"} => Same(shown.date, shown.elapsed) /\ shown.elapsed.days < Century
    /\ WorldtimeRight

LEMMA TimesAre ==
  ASSUME NEW secs \in Times
  PROVE  secs \in Nat /\ secs < DayLength
  BY CalendarAssumption DEF DayLength

LEMMA FirstDate == Init => Dates
<1> SUFFICES ASSUME Init PROVE Dates
  OBVIOUS
<1>1. /\ date = [year |-> 1970, month |-> 1, day |-> 1, secs |-> 0]
      /\ elapsed = [days |-> 0, secs |-> 0] /\ updates = 0 /\ pc = "off" /\ uip = FALSE
  BY DEF Init
<1>2. Valid(date)
  BY <1>1, MonthLengths DEF Valid, DayLength
<1>3. DaysBefore(date) = 0
  <2>1. YearDays[1970] = 0 /\ DayTable(1970)[1] = 0
    BY YearDaysNext, DayTableIs
  <2>2. QED  BY <1>1, <1>2, <2>1, DaysBeforeIs
<1>4. Same(date, elapsed)
  BY <1>1, <1>2, <1>3 DEF Same
<1>5. MaxUpdates \in Nat
  BY CalendarAssumption
<1>6. QED  BY <1>1, <1>4, <1>5 DEF Dates, WorldtimeRight

(* The seconds of a date may be set.                                       *)
LEMMA SecondsSet ==
  ASSUME NEW d, NEW e, Same(d, e), NEW s \in Nat, s < DayLength
  PROVE  Same([d EXCEPT !.secs = s], [e EXCEPT !.secs = s])
<1> DEFINE c == [d EXCEPT !.secs = s]
           f == [e EXCEPT !.secs = s]
<1>1. /\ d \in [year : Nat, month : 1..12, day : Nat, secs : Nat]
      /\ d.year >= 1970 /\ 1 <= d.day /\ d.day <= MonthLength(d.year, d.month)
      /\ e \in [days : Nat, secs : Nat] /\ e.days = DaysBefore(d)
  BY DEF Same, Valid
<1>2. c \in [year : Nat, month : 1..12, day : Nat, secs : Nat]
      /\ c.year = d.year /\ c.month = d.month /\ c.day = d.day /\ c.secs = s
  BY <1>1
<1>3. f \in [days : Nat, secs : Nat] /\ f.days = e.days /\ f.secs = s
  BY <1>1
<1> HIDE DEF c, f
<1>4. Valid(c)
  BY <1>1, <1>2 DEF Valid
<1>5. DaysBefore(c) = DaysBefore(d)
  BY <1>2 DEF DaysBefore
<1>6. Same(c, f)
  BY <1>1, <1>2, <1>3, <1>4, <1>5 DEF Same
<1>7. QED  BY <1>6 DEF c, f

LEMMA DayAfter ==
  ASSUME NEW d, NEW e, Same(d, e)
  PROVE  Same(NextDay(d), [days |-> e.days + 1, secs |-> e.secs])
<1>1. Valid(d) /\ e.days = DaysBefore(d) /\ e.secs = d.secs /\ e.days \in Nat /\ e.secs \in Nat
  BY DEF Same
<1>2. Valid(NextDay(d)) /\ NextDay(d).secs = d.secs /\ DaysBefore(NextDay(d)) = DaysBefore(d) + 1
  BY <1>1, NextDayFollows
<1>3. QED  BY <1>1, <1>2 DEF Same

(* The date goes on with the days, and the days not too far.               *)
LEMMA SameKept == Dates /\ [Next]_vars => Same(date, elapsed)'
<1> SUFFICES ASSUME Dates, [Next]_vars PROVE Same(date', elapsed')
  OBVIOUS
<1>1. Same(date, elapsed)
  BY DEF Dates
<1>2. /\ elapsed.days \in Nat /\ elapsed.secs \in Nat /\ elapsed.secs < DayLength
      /\ elapsed = [days |-> elapsed.days, secs |-> elapsed.secs] /\ elapsed.secs = date.secs
  BY <1>1 DEF Same, Valid
<1>3. CASE DayPasses
  <2>1. date' = NextDay(date) /\ elapsed' = [days |-> elapsed.days + 1, secs |-> elapsed.secs]
    BY <1>2, <1>3 DEF DayPasses
  <2>2. QED  BY <1>1, <2>1, DayAfter
<1>4. ASSUME NEW secs \in Times, NEW m \in Modes, Call(secs, m) PROVE Same(date', elapsed')
  <2>1. date' = [date EXCEPT !.secs = secs] /\ elapsed' = [elapsed EXCEPT !.secs = secs]
    BY <1>4 DEF Call
  <2>2. QED  BY <1>1, <2>1, TimesAre, SecondsSet
<1>5. CASE Update
  <2>1. CASE date.secs < 86399
    <3>1. /\ date' = [date EXCEPT !.secs = date.secs + 1]
          /\ elapsed' = [elapsed EXCEPT !.secs = date.secs + 1]
      BY <1>2, <1>5, <2>1 DEF Update
    <3>2. date.secs + 1 \in Nat /\ date.secs + 1 < DayLength
      BY <1>2, <2>1 DEF DayLength
    <3>3. QED  BY <1>1, <3>1, <3>2, SecondsSet
  <2>2. CASE ~(date.secs < 86399)
    <3>1. /\ date' = NextDay([date EXCEPT !.secs = 0])
          /\ elapsed' = [days |-> elapsed.days + 1, secs |-> 0]
      BY <1>5, <2>2 DEF Update
    <3>2. Same([date EXCEPT !.secs = 0], [elapsed EXCEPT !.secs = 0])
      BY <1>1, SecondsSet DEF DayLength
    <3>3. [elapsed EXCEPT !.secs = 0].days = elapsed.days /\ [elapsed EXCEPT !.secs = 0].secs = 0
      BY <1>2
    <3>4. QED  BY <3>1, <3>2, <3>3, DayAfter
  <2>3. QED  BY <2>1, <2>2
<1>6. ASSUME date' = date, elapsed' = elapsed PROVE Same(date', elapsed')
  BY <1>1, <1>6
<1>7. QED
  BY <1>3, <1>4, <1>5, <1>6 DEF Next, Announce, Poll, Read, Return, clock, vars

LEMMA InTimeKept ==
  Dates /\ [Next]_vars => /\ updates' \in Nat /\ updates' <= MaxUpdates
                          /\ (uip' => updates' < MaxUpdates)
                          /\ pc' \in {"poll", "read"} => mode' \in Modes /\ InTime'
<1> SUFFICES ASSUME Dates, [Next]_vars
             PROVE  /\ updates' \in Nat /\ updates' <= MaxUpdates
                    /\ (uip' => updates' < MaxUpdates)
                    /\ pc' \in {"poll", "read"} => mode' \in Modes /\ InTime'
  OBVIOUS
<1>1. /\ updates \in Nat /\ updates <= MaxUpdates /\ (uip => updates < MaxUpdates)
      /\ pc \in {"poll", "read"} => mode \in Modes /\ InTime
  BY DEF Dates
<1>2. /\ elapsed.days \in Nat /\ elapsed.secs \in Nat /\ elapsed.secs < DayLength
      /\ elapsed.secs = date.secs /\ elapsed \in [days : Nat, secs : Nat]
  BY DEF Dates, Same, Valid
<1>3. MaxUpdates \in Nat /\ BootDays \subseteq Nat
  BY CalendarAssumption
<1>4. ASSUME elapsed' = elapsed, updates' = updates, mode' = mode, pc' = pc \/ pc' = "done" \/ (pc = "poll" /\ pc' = "read"),
             uip' = uip \/ (uip' = TRUE /\ updates < MaxUpdates)
      PROVE  /\ updates' \in Nat /\ updates' <= MaxUpdates
             /\ (uip' => updates' < MaxUpdates)
             /\ pc' \in {"poll", "read"} => mode' \in Modes /\ InTime'
  BY <1>1, <1>4 DEF InTime
<1>5. CASE DayPasses
  BY <1>1, <1>5 DEF DayPasses
<1>6. ASSUME NEW secs \in Times, NEW m \in Modes, Call(secs, m)
      PROVE  /\ updates' \in Nat /\ updates' <= MaxUpdates
             /\ (uip' => updates' < MaxUpdates)
             /\ pc' \in {"poll", "read"} => mode' \in Modes /\ InTime'
  <2>1. updates' = updates /\ uip' = uip /\ mode' = m /\ elapsed.days \in BootDays
        /\ elapsed' = [elapsed EXCEPT !.secs = secs]
    BY <1>6 DEF Call
  <2>2. elapsed'.days = elapsed.days /\ elapsed'.secs = secs
    BY <1>2, <2>1
  <2>3. 86400 * elapsed'.days + elapsed'.secs <= 86400 * elapsed.days + 86399 + updates'
    BY <1>1, <1>2, <2>1, <2>2, TimesAre DEF DayLength
  <2>4. InTime'
    BY <2>1, <2>3 DEF InTime
  <2>5. QED  BY <1>1, <2>1, <2>4
<1>7. CASE Update
  <2>1. updates' = updates + 1 /\ uip' = FALSE /\ uip /\ pc' = pc /\ mode' = mode /\ pc \in {"poll", "read"}
    BY <1>7 DEF Update, Running
  <2>2. 86400 * elapsed'.days + elapsed'.secs = 86400 * elapsed.days + elapsed.secs + 1
    <3>1. CASE date.secs < 86399
      <4>1. elapsed' = [elapsed EXCEPT !.secs = elapsed.secs + 1]
        BY <1>7, <3>1 DEF Update
      <4>2. elapsed'.days = elapsed.days /\ elapsed'.secs = elapsed.secs + 1
        BY <1>2, <4>1
      <4>3. QED  BY <1>2, <4>2
    <3>2. CASE ~(date.secs < 86399)
      <4>1. elapsed' = [days |-> elapsed.days + 1, secs |-> 0]
        BY <1>7, <3>2 DEF Update
      <4>2. elapsed'.days = elapsed.days + 1 /\ elapsed'.secs = 0
        BY <4>1
      <4>3. elapsed.secs = 86399
        BY <1>2, <3>2 DEF DayLength
      <4>4. QED  BY <1>2, <4>2, <4>3
    <3>3. QED  BY <3>1, <3>2
  <2>3. PICK day \in BootDays : 86400 * elapsed.days + elapsed.secs <= 86400 * day + 86399 + updates
    BY <1>1, <2>1 DEF InTime
  <2>4. 86400 * elapsed'.days + elapsed'.secs <= 86400 * day + 86399 + updates'
    BY <1>1, <1>2, <1>3, <2>1, <2>2, <2>3
  <2>5. InTime'
    BY <2>4 DEF InTime
  <2>6. QED  BY <1>1, <1>3, <2>1, <2>5
<1>8. CASE Announce
  BY <1>4, <1>8 DEF Announce
<1>9. CASE Poll
  BY <1>4, <1>9 DEF Poll
<1>10. CASE Read \/ Return \/ UNCHANGED vars
  BY <1>4, <1>10 DEF Read, Return, clock, vars
<1>11. QED  BY <1>5, <1>6, <1>7, <1>8, <1>9, <1>10 DEF Next

(* A call that is in time ends before 2070.                                *)
LEMMA BeforeCentury ==
  ASSUME Dates, pc = "poll" PROVE elapsed.days < Century
<1>1. /\ elapsed.days \in Nat /\ elapsed.secs \in Nat /\ updates \in Nat /\ updates <= MaxUpdates
  BY DEF Dates, Same
<1>2. PICK day \in BootDays : 86400 * elapsed.days + elapsed.secs <= 86400 * day + 86399 + updates
  BY DEF Dates, InTime
<1>3. day \in Nat /\ MaxUpdates \in Nat
  BY CalendarAssumption
<1> DEFINE q == (86399 + MaxUpdates) \div 86400
<1>4. q \in Nat /\ 86399 + MaxUpdates < 86400 * q + 86400
  BY <1>3
<1>5. day + q < Century
  BY CenturyAssumption
<1> HIDE DEF q
<1>6. elapsed.days <= day + q
  BY <1>1, <1>2, <1>3, <1>4
<1>7. QED  BY <1>1, <1>3, <1>4, <1>5, <1>6 DEF Century

(* Every day the conversion is right: DateRight of the state.              *)
LEMMA DateRightNow == Same(date, elapsed) => DateRight
<1> SUFFICES ASSUME Same(date, elapsed), NEW secs \in Times, NEW full \in BOOLEAN
             PROVE  convert_to_nixt(AsStruct(date, secs, full)) =
                        AsStored([days |-> elapsed.days, secs |-> secs], full)
  BY DEF DateRight
<1>1. Valid(date) /\ elapsed.days = DaysBefore(date)
  BY DEF Same
<1>2. secs \in Nat /\ secs < DayLength
  BY TimesAre
<1>3. QED  BY <1>1, <1>2, NixtOfStruct

LEMMA BackNow == Same(date, elapsed) => BackAndForth
<1> SUFFICES ASSUME Same(date, elapsed), NEW secs \in Times, NEW pm \in BOOLEAN
    PROVE  LET t == convert_to_timestruct([days |-> elapsed.days, secs |-> secs], pm)
           IN  /\ convert_to_nixt([t EXCEPT !.day = @ + 1]) =
                      AsStored([days |-> elapsed.days % Byte, secs |-> secs], ~pm)
               /\ elapsed.days < Byte => <<t.day + 1, t.month>> = <<date.day, date.month>>
  BY DEF BackAndForth
<1> DEFINE t == convert_to_timestruct([days |-> elapsed.days, secs |-> secs], pm)
<1>1. secs \in Nat /\ secs < DayLength
  BY TimesAre
<1>2. /\ Valid(date) /\ elapsed.days = DaysBefore(date) /\ elapsed.days \in Nat
      /\ date.day \in Nat
  BY DEF Same, Valid
<1>3. /\ convert_to_nixt([t EXCEPT !.day = @ + 1]) =
                AsStored([days |-> elapsed.days % 256, secs |-> secs], ~pm)
      /\ InMonth(1970, elapsed.days % 256, t.month)
      /\ t.day = (elapsed.days % 256) - DayTable(1970)[t.month]
  <2>1. elapsed.days \in Nat
    BY <1>2
  <2> HIDE DEF t
  <2>2. QED  BY <1>1, <2>1, BackAgain DEF t
<1> HIDE DEF t
<1>4. ASSUME elapsed.days < 256 PROVE t.month = date.month /\ t.day + 1 = date.day
  <2>1. elapsed.days % 256 = elapsed.days
    BY <1>2, <1>4
  <2>2. /\ InMonth(1970, elapsed.days, date.month)
        /\ date.day - 1 = elapsed.days - DayTable(1970)[date.month]
    BY <1>2, <1>4, FirstDays
  <2>3. t.month = date.month
    BY <1>2, <1>3, <2>1, <2>2, OneMonth
  <2>4. t.day = date.day - 1
    BY <1>3, <2>1, <2>2, <2>3
  <2>5. QED  BY <1>2, <2>3, <2>4
<1>5. QED  BY <1>3, <1>4 DEF t, Byte

(* What is read is kept as the time since 1970.                            *)
LEMMA Kept ==
  CInv /\ Dates /\ Return => WorldtimeRight'
<1> SUFFICES ASSUME CInv, Dates, Return PROVE WorldtimeRight'
  OBVIOUS
<1> DEFINE d == shown.date
           e == shown.elapsed
<1>1. /\ pc = "read" /\ Len(raw) = 6 /\ shown' = shown /\ mode' = mode
      /\ worldtime' = convert_to_nixt(Fields(raw))
  BY DEF Return, Registers
<1>2. Valid(d) /\ e.days = DaysBefore(d) /\ e.secs = d.secs /\ e \in [days : Nat, secs : Nat]
      /\ e.days < Century
  BY <1>1 DEF Dates, Same
<1>3. d.secs \in Nat /\ d.secs < DayLength /\ d.year \in Nat /\ d.year >= 1970 /\ d.day >= 1 /\ d.day \in Nat
  BY <1>2 DEF Valid
<1>4. mode \in [bcd : BOOLEAN, full : BOOLEAN]
  BY <1>1, CalendarAssumption DEF Dates
<1>5. d.year <= 2069
  <2>1. /\ DaysBefore(d) = YearDays[d.year] + DayTable(d.year)[d.month] + d.day - 1
        /\ YearDays[d.year] \in Nat /\ DayTable(d.year)[d.month] \in Nat
    BY <1>2, DaysBeforeIs
  <2>2. YearDays[d.year] < Century
    BY <1>2, <1>3, <2>1 DEF Century
  <2>3. QED  BY <1>3, <2>2, CenturyLasts
<1>6. \A i \in 1..6 : raw[i] = Register(d, i)
  <2>1. DOMAIN raw = 1..6
    BY <1>1 DEF CInv
  <2>2. QED  BY <2>1 DEF CInv, NotTorn
<1>7. Fields(raw) = AsStruct(d, d.secs, mode.full)
  <2> HIDE DEF d
  <2>1. QED  BY <1>2, <1>4, <1>5, <1>6, FieldsRead
<1>8. mode.full \in BOOLEAN
  BY <1>4
<1>9. convert_to_nixt(Fields(raw)) = AsStored([days |-> DaysBefore(d), secs |-> d.secs], mode.full)
  <2> HIDE DEF d
  <2>1. QED  BY <1>2, <1>3, <1>7, <1>8, NixtOfStruct
<1>10. e = [days |-> DaysBefore(d), secs |-> d.secs]
  BY <1>2
<1> HIDE DEF d, e
<1>11. worldtime' = AsStored(e, mode.full)
  BY <1>1, <1>9, <1>10
<1>12. QED  BY <1>1, <1>11 DEF WorldtimeRight, AsStored, Noon, Hour, e

LEMMA DatesStep == CInv /\ Dates /\ [Next]_vars => Dates'
<1> SUFFICES ASSUME CInv, Dates, [Next]_vars PROVE Dates'
  OBVIOUS
<1>1. Same(date, elapsed)'
  BY SameKept
<1>2. /\ updates' \in Nat /\ updates' <= MaxUpdates /\ (uip' => updates' < MaxUpdates)
      /\ pc' \in {"poll", "read"} => mode' \in Modes /\ InTime'
  BY InTimeKept
<1>3. ASSUME shown' = shown, pc' = "off" \/ pc' = "poll" \/ (pc' \in {"read", "done"} /\ pc \in {"read", "done"})
      PROVE  pc' \in {"read", "done"} => Same(shown.date, shown.elapsed)' /\ (shown.elapsed.days < Century)'
  BY <1>3 DEF Dates
<1>4. pc' \in {"read", "done"} => Same(shown.date, shown.elapsed)' /\ (shown.elapsed.days < Century)'
  <2>1. CASE Poll /\ pc' = "read"
    <3>1. shown' = [date |-> date, elapsed |-> elapsed] \/ (shown' = shown /\ pc' = pc)
      BY <2>1 DEF Poll
    <3>2. pc = "poll"
      BY <2>1 DEF Poll
    <3>3. shown'.date = date /\ shown'.elapsed = elapsed
      BY <2>1, <3>1, <3>2
    <3>4. elapsed.days < Century /\ Same(date, elapsed)
      BY <3>2, BeforeCentury DEF Dates
    <3>5. QED  BY <3>3, <3>4
  <2>2. CASE Poll /\ pc' # "read"
    BY <1>3, <2>2 DEF Poll
  <2>3. CASE ~Poll
    BY <1>3, <2>3 DEF Next, DayPasses, Call, Announce, Update, Running, Read, Return, vars, Dates
  <2>4. QED  BY <2>1, <2>2, <2>3
<1>5. ASSUME pc' # "done" \/ (pc' = pc /\ worldtime' = worldtime /\ shown' = shown /\ mode' = mode)
      PROVE  WorldtimeRight'
  BY <1>5 DEF Dates, WorldtimeRight, AsStored, Noon, Hour
<1>6. WorldtimeRight'
  <2>1. CASE Return
    BY <2>1, Kept
  <2>2. CASE ~Return
    BY <1>5, <2>2 DEF Next, DayPasses, Call, Announce, Update, Running, Poll, Read, vars
  <2>3. QED  BY <2>1, <2>2
<1>7. QED  BY <1>1, <1>2, <1>4, <1>6 DEF Dates

-----------------------------------------------------------------------------
LEMMA Invariant == Spec => [](CInv /\ Dates)
<1>1. Init => CInv /\ Dates
  BY CInvInit, FirstDate
<1>2. CInv /\ Dates /\ [Next]_vars => (CInv /\ Dates)'
  BY CInvStep, DatesStep
<1>3. QED  BY <1>1, <1>2, PTL DEF Spec

(* get_cmos_time never mixes two dates (cmos.c 31-42, 50-62): it needs the *)
(* flag to be clear once and interrupts to be off from then on.            *)
THEOREM DateNotTorn == Spec => []NotTorn
<1>1. CInv => NotTorn
  BY DEF CInv
<1>2. QED  BY Invariant, <1>1, PTL

(* The time kernel() keeps (kernel.c 176) is that of the moment the flag   *)
(* was found clear, in each mode of the clock and until the end of 2069,   *)
(* but for the hour after noon of the 24-hour mode.                        *)
THEOREM WorldtimeIsRight == Spec => []WorldtimeRight
<1>1. Dates => WorldtimeRight
  BY DEF Dates
<1>2. QED  BY Invariant, <1>1, PTL

(* convert_to_nixt (cmos.c 75-106) counts the days of every date right,    *)
(* with no end: its leap years are those of the calendar.                  *)
THEOREM DatesConvert == Spec => []DateRight
<1>1. Dates => DateRight
  BY DateRightNow DEF Dates
<1>2. QED  BY Invariant, <1>1, PTL

(* convert_to_timestruct (cmos.c 107-152) gives the day for 256 days and   *)
(* then a multiple of 256 days before it, and convert_to_nixt takes back   *)
(* what it gives.                                                          *)
THEOREM DatesConvertBack == Spec => []BackAndForth
<1>1. Dates => BackAndForth
  BY BackNow DEF Dates
<1>2. QED  BY Invariant, <1>1, PTL
=============================================================================
