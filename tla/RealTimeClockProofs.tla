------------------------- MODULE RealTimeClockProofs -------------------------
(***************************************************************************)
(* Proofs about RealTimeClock, for every calendar up to year 9999 and      *)
(* every instant the clock may start at or be asked at.                    *)
(*                                                                         *)
(* The calendar counts days by going from year to year and from month to   *)
(* month; the code computes them.  Both are compared with closed forms.    *)
(*                                                                         *)
(* For a call that goes over a carry, the fields read so far and those the *)
(* clock shows for the others are put together to one time (Mixed); it has *)
(* the call's date and is not before it, or has a date mixed of that and   *)
(* the next day's (Progress).  The stamp is this time once all are read.   *)
(***************************************************************************)
EXTENDS RealTimeClock, WellFoundedInduction, TLAPS

-----------------------------------------------------------------------------
(* Induction over the years.                                               *)

\* A set of numbers has a least element.
LEMMA Least ==
  ASSUME NEW T \in SUBSET Nat, T # {}
  PROVE  \E n \in T : \A m \in T : n <= m
<1>1. PICK x \in T : \A y \in T : <<y, x>> \notin OpToRel(<, Nat)
  BY WFMin, NatLessThanWellFounded, Zenon
<1>2. OpToRel(<, Nat) = {p \in Nat \X Nat : p[1] < p[2]}
  BY Zenon DEF OpToRel
<1>3. \A y \in T : ~(y < x)
  BY <1>1, <1>2
<1> QED BY <1>3

\* A set of years that holds the first and, with a year, the next one holds them all.
LEMMA YearByYear ==
  ASSUME NEW n \in Nat, NEW Good \in SUBSET (FirstYear .. n), FirstYear \in Good,
         \A y \in FirstYear .. n : y # FirstYear /\ y - 1 \in Good => y \in Good
  PROVE  \A y \in FirstYear .. n : y \in Good
<1> DEFINE Bad == (FirstYear .. n) \ Good
<1> SUFFICES ASSUME Bad # {} PROVE FALSE
  OBVIOUS
<1>1. PICK k \in Bad : \A m \in Bad : k <= m
  <2> Bad \in SUBSET Nat
    BY DEF FirstYear
  <2> HIDE DEF Bad
  <2> QED BY Least
<1>2. k \in FirstYear .. n /\ k # FirstYear /\ k - 1 \in FirstYear .. n
  BY DEF FirstYear
<1>3. k - 1 \in Good
  BY <1>1, <1>2 DEF FirstYear
<1> QED BY <1>2, <1>3

-----------------------------------------------------------------------------
(* The calendar in closed form.                                            *)

\* The days before a year.
YearDays(y) == 365 * (y - 1970) + (y - 1) \div 4 - (y - 1) \div 100 + (y - 1) \div 400 - 477

\* The days of a year before a month: the common year, then the leap day.
CommonDays ==
  <<0, 31, 59, 90, 120, 151, 181, 212, 243, 273, 304, 334>>
MonthDays(y, m) == CommonDays[m] + (IF m > 2 /\ Leap(y) THEN 1 ELSE 0)

\* A multiple is passed by each year it divides.
LEMMA Passed ==
  ASSUME NEW y \in Nat, y >= 1
  PROVE  /\ y \div 4 = (y - 1) \div 4 + (IF y % 4 = 0 THEN 1 ELSE 0)
         /\ y \div 100 = (y - 1) \div 100 + (IF y % 100 = 0 THEN 1 ELSE 0)
         /\ y \div 400 = (y - 1) \div 400 + (IF y % 400 = 0 THEN 1 ELSE 0)
OBVIOUS

\* A leap year, by the multiples it passes.
LEMMA LeapPassed ==
  ASSUME NEW y \in Nat, y >= 1
  PROVE  (IF Leap(y) THEN 1 ELSE 0)
         = (y \div 4 - (y - 1) \div 4) - (y \div 100 - (y - 1) \div 100)
           + (y \div 400 - (y - 1) \div 400)
<1>1. (y % 400 = 0 => y % 100 = 0) /\ (y % 100 = 0 => y % 4 = 0)
  OBVIOUS
<1> QED BY <1>1, Passed DEF Leap

\* From one year to the next.
LEMMA NextYearDays ==
  ASSUME NEW y \in Nat, y >= 1
  PROVE  /\ YearDays(y) \in Int
         /\ YearDays(y + 1) = YearDays(y) + DaysInYear(y)
<1>1. (y + 1) - 1 = y
  OBVIOUS
<1>2. DaysInYear(y) = 365 + (IF Leap(y) THEN 1 ELSE 0)
  BY DEF DaysInYear
<1> QED BY <1>1, <1>2, LeapPassed DEF YearDays

\* From one month to the next, and through the last one.
LEMMA NextMonthDays ==
  ASSUME NEW y \in Nat
  PROVE  /\ MonthDays(y, 1) = 0
         /\ \A m \in 1 .. 12 : MonthDays(y, m) \in Nat
         /\ \A m \in 1 .. 11 : MonthDays(y, m + 1) = MonthDays(y, m) + DaysInMonth(y, m)
         /\ MonthDays(y, 12) + DaysInMonth(y, 12) = DaysInYear(y)
BY DEF MonthDays, CommonDays, DaysInMonth, DaysInYear

\* The calendar's years, one after the other.
LEMMA YearStartDef ==
  \A y \in FirstYear .. LastYear :
    /\ y = FirstYear => YearStart[y] = 0
    /\ y # FirstYear => YearStart[y] = YearStart[y - 1] + DaysInYear(y - 1)
<1> DEFINE Good(f) == f = [y \in FirstYear .. LastYear |->
                             IF y = FirstYear THEN 0 ELSE f[y - 1] + DaysInYear(y - 1)]
           w == [y \in FirstYear .. LastYear |-> YearDays(y)]
<1>1. LastYear \in Nat
  BY ClockAssumption DEF FirstYear
<1>2. ASSUME NEW y \in FirstYear .. LastYear
      PROVE  YearDays(y) = IF y = FirstYear THEN 0 ELSE w[y - 1] + DaysInYear(y - 1)
  <2>1. CASE y = FirstYear
    BY <2>1 DEF YearDays, FirstYear
  <2>2. CASE y # FirstYear
    <3>1. /\ y - 1 \in FirstYear .. LastYear
          /\ y - 1 \in Nat /\ y - 1 >= 1 /\ (y - 1) + 1 = y
      BY <1>1, <2>2 DEF FirstYear
    <3>2. YearDays((y - 1) + 1) = YearDays(y - 1) + DaysInYear(y - 1)
      BY <3>1, NextYearDays
    <3>3. w[y - 1] = YearDays(y - 1)
      BY <3>1
    <3> QED BY <2>2, <3>1, <3>2, <3>3
  <2> QED BY <2>1, <2>2
<1>3. Good(w)
  BY <1>2, Zenon
<1>4. \E f : Good(f)
  <2> HIDE DEF Good
  <2> QED BY <1>3
<1> HIDE DEF w
<1>5. Good(YearStart)
  BY <1>4, Zenon DEF YearStart
<1> QED BY <1>5, Zenon

\* The calendar's years in closed form.
LEMMA YearStarts ==
  ASSUME NEW y \in FirstYear .. LastYear
  PROVE  YearStart[y] = YearDays(y)
<1> DEFINE S == {x \in FirstYear .. LastYear : YearStart[x] = YearDays(x)}
<1>1. LastYear \in Nat /\ FirstYear \in FirstYear .. LastYear
  BY ClockAssumption DEF FirstYear
<1>2. FirstYear \in S
  <2>1. YearStart[FirstYear] = 0
    BY <1>1, YearStartDef, Zenon
  <2>2. YearDays(FirstYear) = 0
    BY DEF YearDays, FirstYear
  <2> QED BY <1>1, <2>1, <2>2
<1>3. ASSUME NEW x \in FirstYear .. LastYear, x # FirstYear, x - 1 \in S PROVE x \in S
  <2>1. YearStart[x] = YearStart[x - 1] + DaysInYear(x - 1)
    BY <1>3, YearStartDef, Zenon
  <2>2. x - 1 \in Nat /\ x - 1 >= 1 /\ (x - 1) + 1 = x
    BY <1>1, <1>3 DEF FirstYear
  <2>3. YearDays((x - 1) + 1) = YearDays(x - 1) + DaysInYear(x - 1)
    BY <2>2, NextYearDays
  <2>4. YearStart[x - 1] = YearDays(x - 1)
    BY <1>3
  <2>5. YearStart[x] = YearDays(x)
    BY <2>1, <2>2, <2>3, <2>4
  <2> QED BY <2>5
<1>4. S \in SUBSET (FirstYear .. LastYear)
  OBVIOUS
<1>5. y \in S
  <2> HIDE DEF S
  <2> QED BY <1>1, <1>2, <1>3, <1>4, YearByYear
<1> QED BY <1>5

\* The calendar's months, one after the other.
LEMMA MonthStartDef ==
  ASSUME NEW y \in Nat
  PROVE  \A m \in 1 .. 12 :
           /\ m = 1 => MonthStart(y)[m] = 0
           /\ m # 1 => MonthStart(y)[m] = MonthStart(y)[m - 1] + DaysInMonth(y, m - 1)
<1> DEFINE Good(f) == f = [m \in 1 .. 12 |->
                             IF m = 1 THEN 0 ELSE f[m - 1] + DaysInMonth(y, m - 1)]
           w == [m \in 1 .. 12 |-> MonthDays(y, m)]
<1>1. ASSUME NEW m \in 1 .. 12
      PROVE  MonthDays(y, m) = IF m = 1 THEN 0 ELSE w[m - 1] + DaysInMonth(y, m - 1)
  <2>1. CASE m = 1
    BY <2>1, NextMonthDays
  <2>2. CASE m # 1
    <3>1. m - 1 \in 1 .. 11 /\ m - 1 \in 1 .. 12 /\ (m - 1) + 1 = m
      BY <2>2
    <3>2. MonthDays(y, (m - 1) + 1) = MonthDays(y, m - 1) + DaysInMonth(y, m - 1)
      BY <3>1, NextMonthDays
    <3> QED BY <2>2, <3>1, <3>2
  <2> QED BY <2>1, <2>2
<1>2. Good(w)
  BY <1>1, Zenon
<1>3. MonthStart(y) = CHOOSE f : Good(f)
  BY Zenon DEF MonthStart
<1>4. Good(MonthStart(y))
  <2> HIDE DEF Good, w
  <2> QED BY <1>2, <1>3
<1> QED BY <1>4, Zenon

\* The calendar's months in closed form.
LEMMA MonthStarts ==
  ASSUME NEW y \in Nat, NEW m \in 1 .. 12
  PROVE  MonthStart(y)[m] = MonthDays(y, m)
<1>1. PICK f : f = MonthStart(y)
  OBVIOUS
<1>2. \A x \in 1 .. 12 : /\ x = 1 => f[x] = 0
                         /\ x # 1 => f[x] = f[x - 1] + DaysInMonth(y, x - 1)
  BY <1>1, MonthStartDef, Zenon
<1>3. f[1] = MonthDays(y, 1)
  <2>1. 1 \in 1 .. 12
    OBVIOUS
  <2> QED BY <1>2, <2>1, NextMonthDays
<1>4. ASSUME NEW x \in 1 .. 11, f[x] = MonthDays(y, x) PROVE f[x + 1] = MonthDays(y, x + 1)
  <2>1. x + 1 \in 1 .. 12 /\ x + 1 # 1 /\ (x + 1) - 1 = x
    OBVIOUS
  <2>2. f[x + 1] = f[(x + 1) - 1] + DaysInMonth(y, (x + 1) - 1)
    BY <1>2, <2>1, Zenon
  <2> QED BY <1>4, <2>1, <2>2, NextMonthDays
<1>5. /\ f[1] = MonthDays(y, 1) /\ f[2] = MonthDays(y, 2) /\ f[3] = MonthDays(y, 3)
      /\ f[4] = MonthDays(y, 4) /\ f[5] = MonthDays(y, 5) /\ f[6] = MonthDays(y, 6)
      /\ f[7] = MonthDays(y, 7) /\ f[8] = MonthDays(y, 8) /\ f[9] = MonthDays(y, 9)
      /\ f[10] = MonthDays(y, 10) /\ f[11] = MonthDays(y, 11) /\ f[12] = MonthDays(y, 12)
  BY <1>3, <1>4
<1>6. f[m] = MonthDays(y, m)
  BY <1>5
<1> QED BY <1>1, <1>6

\* The day number in closed form.
DateDays(y, m, d) == YearDays(y) + MonthDays(y, m) + d - 1

\* It is what the calendar counts.
LEMMA DayNumbers ==
  ASSUME NEW c \in Instants
  PROVE  DayNumber(c) = DateDays(c.year, c.month, c.day)
<1>1. c.year \in FirstYear .. LastYear /\ c.month \in 1 .. 12 /\ c.year \in Nat
  BY ClockAssumption DEF Instants, FirstYear
<1> QED BY <1>1, YearStarts, MonthStarts DEF DayNumber, DateDays

-----------------------------------------------------------------------------
(* From a date to its day: get_jdn.                                        *)

\* The quotients of get_jdn for a year counted from March.
LEMMA JulianYear ==
  ASSUME NEW x \in Nat
  PROVE  /\ Quot(1461 * (x + 4800), 4) = 365 * x + 1752000 + x \div 4 + 1200
         /\ Quot(3 * Quot(x + 4900, 100), 4) = 36 + x \div 100 - x \div 400
<1>1. 1461 * (x + 4800) >= 0 /\ x + 4900 >= 0
  BY SMT
<1>2. (1461 * (x + 4800)) \div 4 = 365 * x + 1752000 + x \div 4 + 1200
  BY SMT
<1>3. (x + 4900) \div 100 = x \div 100 + 49
  BY SMT
<1>4. PICK c \in Nat : c = x \div 100 /\ c \div 4 = x \div 400
  BY SMT
<1>5. 3 * (c + 49) >= 0 /\ (3 * (c + 49)) \div 4 = 36 + c - c \div 4
  BY SMT
<1>6. Quot(x + 4900, 100) = c + 49
  BY SMT, <1>1, <1>3, <1>4 DEF Quot
<1>7. Quot(3 * (c + 49), 4) = 36 + c - c \div 4
  BY SMT, <1>5 DEF Quot
<1> QED BY SMT, <1>1, <1>2, <1>4, <1>6, <1>7 DEF Quot

\* get_jdn, from the first of 1970, counts as the calendar does, for any day number:
\* day and month are not checked against each other.
LEMMA JulianDays ==
  ASSUME NEW y \in Nat, y >= FirstYear, NEW m \in 1 .. 12, NEW d \in Nat
  PROVE  get_jdn(d, m, y) - get_jdn(1, 1, FirstYear) = DateDays(y, m, d)
<1> DEFINE J(x) == 365 * x + x \div 4 - x \div 100 + x \div 400
<1>1. ASSUME NEW z \in Nat, z >= 1, NEW k \in 1 .. 12, NEW e \in Nat
      PROVE  /\ k <= 2 => get_jdn(e, k, z) = J(z - 1) + 1721089 + Quot(367 * (k + 10), 12) + e
             /\ k > 2 => get_jdn(e, k, z) = J(z) + 1721089 + Quot(367 * (k - 2), 12) + e
  <2>1. CASE k <= 2
    <3>1. Quot(k - 14, 12) = -1
      BY SMT, <2>1 DEF Quot
    <3>2. z - 1 \in Nat /\ z + 4800 + (-1) = (z - 1) + 4800 /\ z + 4900 + (-1) = (z - 1) + 4900
          /\ k - 2 - 12 * (-1) = k + 10
      BY SMT, <1>1
    <3>3. get_jdn(e, k, z) = Quot(1461 * ((z - 1) + 4800), 4) + Quot(367 * (k + 10), 12)
                              - Quot(3 * Quot((z - 1) + 4900, 100), 4) + e - 32075
      BY SMT, <3>1, <3>2 DEF get_jdn
    <3>4. Quot(367 * (k + 10), 12) \in Int
      BY SMT DEF Quot
    <3> QED BY SMT, <2>1, <3>2, <3>3, <3>4, JulianYear
  <2>2. CASE k > 2
    <3>1. Quot(k - 14, 12) = 0
      BY SMT, <2>2 DEF Quot
    <3>2. z + 4800 + 0 = z + 4800 /\ z + 4900 + 0 = z + 4900 /\ k - 2 - 12 * 0 = k - 2
      BY SMT
    <3>3. get_jdn(e, k, z) = Quot(1461 * (z + 4800), 4) + Quot(367 * (k - 2), 12)
                              - Quot(3 * Quot(z + 4900, 100), 4) + e - 32075
      BY SMT, <3>1, <3>2 DEF get_jdn
    <3>4. Quot(367 * (k - 2), 12) \in Int
      BY SMT DEF Quot
    <3> QED BY SMT, <2>2, <3>2, <3>3, <3>4, JulianYear
  <2> QED BY SMT, <2>1, <2>2
<1>2. get_jdn(1, 1, FirstYear) = 2440588
  <2>1. get_jdn(1, 1, 1970) = J(1969) + 1721089 + Quot(4037, 12) + 1
    BY SMT, <1>1
  <2> QED BY SMT, <2>1 DEF Quot, FirstYear
<1>3. /\ YearDays(y) = J(y - 1) + 365 - 719527
      /\ YearDays(y) + (IF Leap(y) THEN 1 ELSE 0) = J(y) - 719527
  <2>1. y >= 1
    BY SMT DEF FirstYear
  <2> QED BY SMT, <2>1, LeapPassed DEF YearDays
<1>4. /\ m <= 2 => Quot(367 * (m + 10), 12) = CommonDays[m] + 336
      /\ m > 2 => Quot(367 * (m - 2), 12) = CommonDays[m] - 29
  BY SMT DEF Quot, CommonDays
<1>5. y >= 1 /\ y - 1 \in Nat
  BY SMT DEF FirstYear
<1>6. J(y - 1) \in Int /\ J(y) \in Int /\ CommonDays[m] \in Int
  BY SMT, <1>5 DEF CommonDays
<1>7. DateDays(y, m, d)
      = YearDays(y) + (CommonDays[m] + (IF m > 2 /\ Leap(y) THEN 1 ELSE 0)) + d - 1
  BY SMT DEF DateDays, MonthDays
<1> HIDE DEF J
<1>8. /\ m <= 2 => get_jdn(d, m, y) = J(y - 1) + 1721089 + Quot(367 * (m + 10), 12) + d
      /\ m > 2 => get_jdn(d, m, y) = J(y) + 1721089 + Quot(367 * (m - 2), 12) + d
  BY SMT, <1>1, <1>5
<1> QED BY SMT, <1>2, <1>3, <1>4, <1>6, <1>7, <1>8

-----------------------------------------------------------------------------
(* From a day to its date: ms_to_iso8601.                                  *)

\* A day of an era and its year, from its centuries, four years, years and days: the
\* last day of a long year is a leap day.
EraDay(c, q, r, doy, doe, yoe) ==
  /\ doe = 36524 * c + 1461 * q + 365 * r + doy
  /\ yoe = 100 * c + 4 * q + r
  /\ doy = 365 => r = 3 /\ (q # 24 \/ c = 3)

\* What ms_to_iso8601 takes for the year of a day of an era.
EraYear(doe, yoe) == doe >= 0 /\ doe <= 146096 /\ YearOfEra(doe) = yoe

\* The year of an era from its day.
LEMMA YearFound ==
  ASSUME NEW c \in 0 .. 3, NEW q \in 0 .. 24, NEW r \in 0 .. 3, NEW doy \in 0 .. 365,
         NEW doe \in Int, NEW yoe \in Int, EraDay(c, q, r, doy, doe, yoe)
  PROVE  EraYear(doe, yoe)
<1> USE DEF EraDay
<1>1. doe >= 0 /\ doe <= 146096
  BY SMT
<1>2. ASSUME doe = 146096 PROVE YearOfEra(doe) = 100 * c + 4 * q + r
  <2>1. YearOfEra(doe) = 399
    BY SMT, <1>2 DEF YearOfEra
  <2>2. c = 3 /\ q = 24 /\ r = 3
    BY SMT, <1>2
  <2> QED BY SMT, <2>1, <2>2
<1>3. ASSUME doe # 146096 PROVE YearOfEra(doe) = 100 * c + 4 * q + r
  <2>1. doe \div 146096 = 0 /\ doe \div 36524 = c
    BY SMT, <1>3
  <2>2. PICK late \in 0 .. 1 : late = IF 24 * c + q + 365 * r + doy >= 1460 THEN 1 ELSE 0
    BY SMT
  <2>3. doe \div 1460 = 25 * c + q + late
    BY SMT, <2>2
  <2>4. doy - late >= 0 /\ doy - late <= 364
    BY SMT, <2>2
  <2>5. doe - doe \div 1460 + doe \div 36524 - doe \div 146096
        = 365 * (100 * c + 4 * q + r) + (doy - late)
    BY SMT, <2>1, <2>3
  <2>6. YearOfEra(doe) = (365 * (100 * c + 4 * q + r) + (doy - late)) \div 365
    BY SMT, <2>5 DEF YearOfEra
  <2> QED BY SMT, <2>4, <2>6
<1> QED BY SMT, <1>1, <1>2, <1>3 DEF EraYear

\* The months from March, as ms_to_iso8601 counts them.
FromMarch(m) == IF m > 2 THEN m - 3 ELSE m + 9

\* A day of a year that begins in March.
MarchDay(m, d, doy) == doy = (153 * FromMarch(m) + 2) \div 5 + d - 1

\* What ms_to_iso8601 takes for its month and day.
MonthAndDay(m, d, doy) ==
  /\ doy >= 0 /\ doy <= 365
  /\ doy = 365 => m = 2 /\ d = 29
  /\ doy = CommonDays[m] + (IF m > 2 THEN -59 ELSE 306) + d - 1
  /\ (5 * doy + 2) \div 153 = FromMarch(m)
  /\ doy - (153 * FromMarch(m) + 2) \div 5 + 1 = d
  /\ MonthShown(FromMarch(m)) = m

\* The month and the day from the day of a year that begins in March.
LEMMA MonthFound ==
  ASSUME NEW m \in 1 .. 12, NEW d \in Nat, d >= 1, d <= 31,
         m = 2 => d <= 29, m \in {4, 6, 9, 11} => d <= 30,
         NEW doy \in Int, MarchDay(m, d, doy)
  PROVE  MonthAndDay(m, d, doy)
<1> USE DEF MarchDay, MonthAndDay, FromMarch, CommonDays, MonthShown
<1>1. CASE m = 1
  BY SMT, <1>1
<1>2. CASE m = 2
  BY SMT, <1>2
<1>3. CASE m = 3
  BY SMT, <1>3
<1>4. CASE m = 4
  BY SMT, <1>4
<1>5. CASE m = 5
  BY SMT, <1>5
<1>6. CASE m = 6
  BY SMT, <1>6
<1>7. CASE m = 7
  BY SMT, <1>7
<1>8. CASE m = 8
  BY SMT, <1>8
<1>9. CASE m = 9
  BY SMT, <1>9
<1>10. CASE m = 10
  BY SMT, <1>10
<1>11. CASE m = 11
  BY SMT, <1>11
<1>12. CASE m = 12
  BY SMT, <1>12
<1>13. m \in {1, 2, 3, 4, 5, 6, 7, 8, 9, 10, 11, 12}
  BY SMT
<1> QED BY SMT, <1>1, <1>2, <1>3, <1>4, <1>5, <1>6, <1>7, <1>8, <1>9, <1>10, <1>11, <1>12, <1>13

\* A year as eras, centuries, four years and years, and the days before it.
YearParts(x, e, c, q, r) ==
  /\ x = 400 * e + 100 * c + 4 * q + r
  /\ 365 * x + x \div 4 - x \div 100 + x \div 400 = 146097 * e + 36524 * c + 1461 * q + 365 * r
  /\ (100 * c + 4 * q + r) \div 4 = 25 * c + q
  /\ (100 * c + 4 * q + r) \div 100 = c

\* Every year has such parts.
LEMMA YearSplit ==
  ASSUME NEW x \in Nat
  PROVE  \E e \in Nat, c \in 0 .. 3, q \in 0 .. 24, r \in 0 .. 3 : YearParts(x, e, c, q, r)
<1>1. PICK e \in Nat : e = x \div 400
  BY SMT
<1>2. PICK yoe \in Int : yoe = x - 400 * e /\ yoe >= 0 /\ yoe <= 399
  BY SMT, <1>1
<1>3. PICK c \in Int : c = yoe \div 100 /\ c >= 0 /\ c <= 3
  BY SMT, <1>2
<1>4. PICK yoc \in Int : yoc = yoe - 100 * c /\ yoc >= 0 /\ yoc <= 99
  BY SMT, <1>2, <1>3
<1>5. PICK q \in Int : q = yoc \div 4 /\ q >= 0 /\ q <= 24
  BY SMT, <1>4
<1>6. PICK r \in Int : r = yoc - 4 * q /\ r >= 0 /\ r <= 3
  BY SMT, <1>4, <1>5
<1>7. x = 400 * e + 100 * c + 4 * q + r
  BY SMT, <1>2, <1>4, <1>6
<1>8. x \div 4 = 100 * e + 25 * c + q /\ x \div 100 = 4 * e + c /\ x \div 400 = e
  BY SMT, <1>3, <1>5, <1>6, <1>7
<1>9. (100 * c + 4 * q + r) \div 4 = 25 * c + q /\ (100 * c + 4 * q + r) \div 100 = c
  BY SMT, <1>3, <1>5, <1>6
<1>10. YearParts(x, e, c, q, r)
  BY SMT, <1>7, <1>8, <1>9 DEF YearParts
<1>11. c \in 0 .. 3 /\ q \in 0 .. 24 /\ r \in 0 .. 3
  BY SMT, <1>3, <1>5, <1>6
<1> QED BY SMT, <1>10, <1>11

\* A date of the calendar, and what ms_to_iso8601 shows of a day.
Date(y, m, d) == y >= FirstYear /\ d >= 1 /\ d <= DaysInMonth(y, m)
DateShown(days, y, m, d) ==
  /\ days >= 0
  /\ CivilParts(days).mon = m /\ CivilParts(days).day = d
  /\ YearShown(CivilParts(days).y, m) = y

\* ms_to_iso8601 finds the date the calendar counted the days of.
LEMMA DateFound ==
  ASSUME NEW y \in Nat, NEW m \in 1 .. 12, NEW d \in Nat, Date(y, m, d),
         NEW days \in Int, days = DateDays(y, m, d)
  PROVE  DateShown(days, y, m, d)
<1> USE DEF Date
<1>1. PICK x \in Nat : x = IF m > 2 THEN y ELSE y - 1
  BY SMT DEF FirstYear
<1>2. PICK e \in Nat, c \in 0 .. 3, q \in 0 .. 24, r \in 0 .. 3 : YearParts(x, e, c, q, r)
  BY SMT, YearSplit
<1>3. d <= 31 /\ (m = 2 => d <= 29) /\ (m \in {4, 6, 9, 11} => d <= 30)
  BY SMT DEF DaysInMonth
<1>4. PICK doy \in Int : MarchDay(m, d, doy)
  BY SMT DEF FromMarch, MarchDay
<1>5. MonthAndDay(m, d, doy)
  BY SMT, <1>3, <1>4, MonthFound
<1>6. doy = 365 => r = 3 /\ (q # 24 \/ c = 3)
  <2> SUFFICES ASSUME doy = 365 PROVE r = 3 /\ (q # 24 \/ c = 3)
    OBVIOUS
  <2>1. m = 2 /\ d = 29 /\ Leap(y)
    BY SMT, <1>5 DEF DaysInMonth, MonthAndDay
  <2>2. y = 400 * e + 100 * c + 4 * q + r + 1
    BY SMT, <1>1, <1>2, <2>1 DEF YearParts
  <2>3. y % 4 = 0 /\ (y % 100 # 0 \/ y % 400 = 0)
    BY SMT, <2>1 DEF Leap
  <2> QED BY SMT, <2>2, <2>3
<1>7. PICK doe \in Int, yoe \in Int : EraDay(c, q, r, doy, doe, yoe)
  BY SMT, <1>6 DEF EraDay
<1>8. yoe = 100 * c + 4 * q + r /\ doe = 36524 * c + 1461 * q + 365 * r + doy
  BY SMT, <1>7 DEF EraDay
<1>9. EraYear(doe, yoe)
  <2>1. doy >= 0 /\ doy <= 365
    BY SMT, <1>5 DEF MonthAndDay
  <2>2. doy \in 0 .. 365
    BY SMT, <2>1
  <2> QED BY <1>7, <2>2, YearFound, Zenon
<1>10. days + 719468 = 146097 * e + doe
  <2>1. y >= 1
    BY SMT DEF FirstYear
  <2>2. /\ YearDays(y) = 365 * (y - 1) + (y - 1) \div 4 - (y - 1) \div 100 + (y - 1) \div 400
                         + 365 - 719527
        /\ YearDays(y) + (IF Leap(y) THEN 1 ELSE 0)
           = 365 * y + y \div 4 - y \div 100 + y \div 400 - 719527
    BY SMT, <2>1, LeapPassed DEF YearDays
  <2>3. CommonDays[m] \in Int
    BY SMT DEF CommonDays
  <2>4. /\ doy = CommonDays[m] + (IF m > 2 THEN -59 ELSE 306) + d - 1
        /\ 365 * x + x \div 4 - x \div 100 + x \div 400
           = 146097 * e + 36524 * c + 1461 * q + 365 * r
    BY SMT, <1>2, <1>5 DEF MonthAndDay, YearParts
  <2>5. days = YearDays(y) + (CommonDays[m] + (IF m > 2 /\ Leap(y) THEN 1 ELSE 0)) + d - 1
    BY SMT DEF DateDays, MonthDays
  <2>6. CASE m > 2
    BY SMT, <1>1, <1>8, <2>2, <2>3, <2>4, <2>5, <2>6
  <2>7. CASE m <= 2
    BY SMT, <1>1, <1>8, <2>2, <2>3, <2>4, <2>5, <2>7
  <2> QED BY SMT, <2>6, <2>7
<1>11. (days + 719468) \div 146097 = e /\ (days + 719468) - e * 146097 = doe
  BY SMT, <1>9, <1>10 DEF EraYear
<1>12. doe - (365 * yoe + yoe \div 4 - yoe \div 100) = doy
  <2>1. yoe \div 4 = 25 * c + q /\ yoe \div 100 = c
    BY SMT, <1>2, <1>8 DEF YearParts
  <2> QED BY SMT, <1>8, <2>1
<1>13. PICK mp \in Int : mp = FromMarch(m)
  BY SMT DEF FromMarch
<1>14. (5 * doy + 2) \div 153 = mp /\ doy - (153 * mp + 2) \div 5 + 1 = d /\ MonthShown(mp) = m
  BY SMT, <1>5, <1>13 DEF MonthAndDay
<1>15. CivilParts(days)
       = [doe |-> doe, yoe |-> yoe, y |-> yoe + e * 400, doy |-> doy, mp |-> mp, day |-> d, mon |-> m]
  <2> DEFINE era0 == (days + 719468) \div 146097
             doe0 == (days + 719468) - era0 * 146097
             yoe0 == YearOfEra(doe0)
             doy0 == doe0 - (365 * yoe0 + yoe0 \div 4 - yoe0 \div 100)
             mp0 == (5 * doy0 + 2) \div 153
  <2>1. CivilParts(days)
        = [doe |-> doe0, yoe |-> yoe0, y |-> yoe0 + era0 * 400, doy |-> doy0, mp |-> mp0,
           day |-> doy0 - (153 * mp0 + 2) \div 5 + 1, mon |-> MonthShown(mp0)]
    BY SMT DEF CivilParts
  <2>2. era0 = e
    BY SMT, <1>11
  <2> HIDE DEF era0
  <2>3. doe0 = doe
    BY SMT, <1>11, <2>2
  <2> HIDE DEF doe0
  <2>4. yoe0 = yoe
    BY SMT, <1>9, <2>3 DEF EraYear
  <2> HIDE DEF yoe0
  <2>5. doy0 = doy
    BY SMT, <1>12, <2>3, <2>4
  <2> HIDE DEF doy0
  <2>6. mp0 = mp
    BY SMT, <1>14, <2>5
  <2> HIDE DEF mp0
  <2> QED BY SMT, <1>14, <2>1, <2>2, <2>3, <2>4, <2>5, <2>6
<1>16. days >= 0
  <2>1. YearDays(y) >= 0 /\ YearDays(y) \in Int
    BY SMT DEF YearDays, FirstYear
  <2>2. MonthDays(y, m) \in Nat
    BY NextMonthDays
  <2> QED BY SMT, <2>1, <2>2 DEF DateDays
<1>17. yoe + e * 400 = x
  BY SMT, <1>2, <1>8 DEF YearParts
<1> QED BY SMT, <1>1, <1>15, <1>16, <1>17 DEF YearShown, DateShown

-----------------------------------------------------------------------------
(* Both conversions at an instant of the calendar.                         *)

\* An instant from its fields.
Fields(y, m, d, h, mi, s) ==
  [year |-> y, month |-> m, day |-> d, hour |-> h, minute |-> mi, second |-> s]

\* The fields of an instant.
LEMMA InstantFields ==
  ASSUME NEW c \in Instants
  PROVE  /\ c.year \in Nat /\ c.year >= FirstYear /\ c.year <= LastYear /\ c.month \in 1 .. 12
         /\ c.day \in Nat /\ c.day >= 1 /\ c.day <= DaysInMonth(c.year, c.month) /\ c.day <= 31
         /\ c.hour \in 0 .. 23 /\ c.minute \in 0 .. 59 /\ c.second \in 0 .. 59
         /\ c = Fields(c.year, c.month, c.day, c.hour, c.minute, c.second)
BY ClockAssumption, SMT DEF Instants, FirstYear, Fields

\* The seconds of a day before a time of day.
Clocked(h, m, s) == h * 3600 + m * 60 + s

\* What ms_to_iso8601 and get_unix_epoch make of them.
TimeParts(t, h, m, s) ==
  /\ t >= 0 /\ t < DAY /\ t \div DAY = 0 /\ t % DAY = t
  /\ t \div 3600 = h /\ (t \div 60) % 60 = m /\ t % 60 = s

\* The time of day of an instant.
LEMMA Seconds ==
  ASSUME NEW h \in 0 .. 23, NEW m \in 0 .. 59, NEW s \in 0 .. 59
  PROVE  Clocked(h, m, s) \in Int /\ TimeParts(Clocked(h, m, s), h, m, s)
<1>1. PICK t \in Int : t = h * 3600 + m * 60 + s
  BY SMT
<1>2. t >= 0 /\ t < 86400 /\ t \div 3600 = h /\ t % 60 = s
  BY SMT, <1>1
<1>3. t \div 60 = 60 * h + m
  BY SMT, <1>1
<1>4. (60 * h + m) % 60 = m
  BY SMT
<1>5. t \div 86400 = 0 /\ t % 86400 = t
  BY SMT, <1>2
<1>6. DAY = 86400
  BY SMT DEF DAY
<1>7. TimeParts(t, h, m, s)
  BY SMT, <1>2, <1>3, <1>4, <1>5, <1>6 DEF TimeParts
<1>8. Clocked(h, m, s) = t
  BY SMT, <1>1 DEF Clocked
<1> QED BY <1>7, <1>8, Zenon

\* The closed form is a number.
LEMMA DateDaysType ==
  ASSUME NEW y \in Nat, NEW m \in 1 .. 12, NEW d \in Nat
  PROVE  DateDays(y, m, d) \in Int
<1>1. MonthDays(y, m) \in Nat
  BY NextMonthDays
<1>2. YearDays(y) \in Int
  BY SMT DEF YearDays
<1> QED BY SMT, <1>1, <1>2 DEF DateDays

\* get_unix_epoch counts the days of any date, also one that no month has.
LEMMA EpochOf ==
  ASSUME NEW s \in 0 .. 59, NEW mi \in 0 .. 59, NEW h \in 0 .. 23,
         NEW d \in Nat, NEW m \in 1 .. 12, NEW y \in Nat, y >= FirstYear
  PROVE  get_unix_epoch(s, mi, h, d, m, y) = [days |-> DateDays(y, m, d), secs |-> Clocked(h, mi, s)]
<1>1. PICK t \in Int : t = Clocked(h, mi, s) /\ TimeParts(t, h, mi, s)
  BY Seconds, Zenon
<1>2. t \div DAY = 0 /\ t % DAY = t
  BY SMT, <1>1 DEF TimeParts
<1>3. get_jdn(d, m, y) - get_jdn(1, 1, FirstYear) = DateDays(y, m, d)
  BY SMT, JulianDays
<1>4. DateDays(y, m, d) \in Int
  BY DateDaysType
<1>5. h * 3600 + mi * 60 + s = t
  BY SMT, <1>1 DEF Clocked
<1>6. get_unix_epoch(s, mi, h, d, m, y)
      = [days |-> get_jdn(d, m, y) - get_jdn(1, 1, FirstYear) + t \div DAY, secs |-> t % DAY]
  BY SMT, <1>5 DEF get_unix_epoch
<1>7. DateDays(y, m, d) + 0 = DateDays(y, m, d)
  BY SMT, <1>4
<1> QED BY <1>1, <1>2, <1>3, <1>6, <1>7, Zenon

\* The calendar's time in closed form.
LEMMA TimeAt ==
  ASSUME NEW c \in Instants
  PROVE  TimeOf(c) = [days |-> DateDays(c.year, c.month, c.day),
                      secs |-> Clocked(c.hour, c.minute, c.second)]
BY SMT, DayNumbers DEF TimeOf, SecondOfDay, Clocked

\* At an instant of the calendar it is the calendar's count.
LEMMA EpochAt ==
  ASSUME NEW c \in Instants
  PROVE  get_unix_epoch(c.second, c.minute, c.hour, c.day, c.month, c.year) = TimeOf(c)
<1>1. /\ c.year \in Nat /\ c.year >= FirstYear /\ c.month \in 1 .. 12 /\ c.day \in Nat
      /\ c.hour \in 0 .. 23 /\ c.minute \in 0 .. 59 /\ c.second \in 0 .. 59
  BY InstantFields, Zenon
<1>2. get_unix_epoch(c.second, c.minute, c.hour, c.day, c.month, c.year)
      = [days |-> DateDays(c.year, c.month, c.day), secs |-> Clocked(c.hour, c.minute, c.second)]
  BY <1>1, EpochOf, Zenon
<1> QED BY <1>2, TimeAt, Zenon

\* ms_to_iso8601 shows the instant that a time is of.
LEMMA DateAt ==
  ASSUME NEW c \in Instants
  PROVE  ms_to_iso8601(TimeOf(c)) = c
<1>1. /\ c.year \in Nat /\ c.month \in 1 .. 12 /\ c.day \in Nat /\ Date(c.year, c.month, c.day)
      /\ c.hour \in 0 .. 23 /\ c.minute \in 0 .. 59 /\ c.second \in 0 .. 59
  BY InstantFields, Zenon DEF Date
<1>2. PICK t \in Int : t = Clocked(c.hour, c.minute, c.second)
                       /\ TimeParts(t, c.hour, c.minute, c.second)
  BY <1>1, Seconds, Zenon
<1>3. t \div 3600 = c.hour /\ (t \div 60) % 60 = c.minute /\ t % 60 = c.second
  BY SMT, <1>2 DEF TimeParts
<1>4. PICK days \in Int : days = DateDays(c.year, c.month, c.day)
  BY <1>1, DateDaysType, Zenon
<1>5. DateShown(days, c.year, c.month, c.day)
  BY <1>1, <1>4, DateFound, Zenon
<1>6. TimeOf(c) = [days |-> days, secs |-> t]
  BY <1>2, <1>4, TimeAt, Zenon
<1>7. ms_to_iso8601([days |-> days, secs |-> t])
      = Fields(c.year, c.month, c.day, c.hour, c.minute, c.second)
  BY SMT, <1>3, <1>5 DEF ms_to_iso8601, DateShown, Fields
<1> QED BY <1>6, <1>7, InstantFields, Zenon

-----------------------------------------------------------------------------
(* The digits of the registers.                                            *)

\* What atoi_ has after each digit.
Digested(f, digits) ==
  f = [i \in 0 .. Len(digits) |-> IF i = 0 THEN 0 ELSE f[i - 1] * 10 + digits[i]]

\* atoi_ returns what it has after the last digit.
LEMMA AtoiDef ==
  ASSUME NEW digits, NEW w, Digested(w, digits)
  PROVE  \E f : atoi_(digits) = f[Len(digits)] /\ Digested(f, digits)
<1>1. PICK f : f = CHOOSE g : Digested(g, digits)
  OBVIOUS
<1>2. Digested(f, digits)
  BY <1>1
<1>3. atoi_(digits) = f[Len(digits)]
  BY <1>1, Zenon DEF atoi_, Digested
<1> QED BY <1>2, <1>3

\* One digit.
LEMMA ParsedOne ==
  ASSUME NEW a \in Nat
  PROVE  atoi_(<<a>>) = a
<1>1. Digested([i \in 0 .. 1 |-> IF i = 0 THEN 0 ELSE a], <<a>>)
  BY SMT DEF Digested
<1>2. PICK f : atoi_(<<a>>) = f[Len(<<a>>)] /\ Digested(f, <<a>>)
  BY <1>1, AtoiDef, Zenon
<1>3. Len(<<a>>) = 1 /\ <<a>>[1] = a /\ 0 \in 0 .. 1 /\ 1 \in 0 .. 1 /\ 1 # 0 /\ 1 - 1 = 0
  BY SMT
<1>4. f[0] = 0 /\ f[1] = f[0] * 10 + a
  BY <1>2, <1>3, Zenon DEF Digested
<1> QED BY SMT, <1>2, <1>3, <1>4

\* Two digits.
LEMMA ParsedTwo ==
  ASSUME NEW a \in Nat, NEW b \in Nat
  PROVE  atoi_(<<a, b>>) = 10 * a + b
<1>1. Digested([i \in 0 .. 2 |-> IF i = 0 THEN 0 ELSE IF i = 1 THEN a ELSE a * 10 + b], <<a, b>>)
  BY SMT DEF Digested
<1>2. PICK f : atoi_(<<a, b>>) = f[Len(<<a, b>>)] /\ Digested(f, <<a, b>>)
  BY <1>1, AtoiDef, Zenon
<1>3. /\ Len(<<a, b>>) = 2 /\ <<a, b>>[1] = a /\ <<a, b>>[2] = b
      /\ 0 \in 0 .. 2 /\ 1 \in 0 .. 2 /\ 2 \in 0 .. 2
      /\ 1 # 0 /\ 2 # 0 /\ 1 - 1 = 0 /\ 2 - 1 = 1
  BY SMT
<1>4. f[0] = 0 /\ f[1] = f[0] * 10 + a /\ f[2] = f[1] * 10 + b
  BY <1>2, <1>3, Zenon DEF Digested
<1> QED BY SMT, <1>2, <1>3, <1>4

\* Four digits.
LEMMA ParsedFour ==
  ASSUME NEW a \in Nat, NEW b \in Nat, NEW c \in Nat, NEW d \in Nat
  PROVE  atoi_(<<a, b, c, d>>) = 1000 * a + 100 * b + 10 * c + d
<1> DEFINE s == <<a, b, c, d>>
           w == [i \in 0 .. 4 |-> IF i = 0 THEN 0 ELSE IF i = 1 THEN a
                                  ELSE IF i = 2 THEN a * 10 + b
                                  ELSE IF i = 3 THEN (a * 10 + b) * 10 + c
                                  ELSE ((a * 10 + b) * 10 + c) * 10 + d]
<1>1. Digested(w, s)
  BY SMT DEF Digested
<1>2. PICK f : atoi_(s) = f[Len(s)] /\ Digested(f, s)
  <2> HIDE DEF w, s
  <2> QED BY <1>1, AtoiDef, Zenon
<1>3. /\ Len(s) = 4 /\ s[1] = a /\ s[2] = b /\ s[3] = c /\ s[4] = d
      /\ 0 \in 0 .. 4 /\ 1 \in 0 .. 4 /\ 2 \in 0 .. 4 /\ 3 \in 0 .. 4 /\ 4 \in 0 .. 4
      /\ 1 # 0 /\ 2 # 0 /\ 3 # 0 /\ 4 # 0 /\ 1 - 1 = 0 /\ 2 - 1 = 1 /\ 3 - 1 = 2 /\ 4 - 1 = 3
  BY SMT
<1>4. /\ f[0] = 0 /\ f[1] = f[0] * 10 + a /\ f[2] = f[1] * 10 + b
      /\ f[3] = f[2] * 10 + c /\ f[4] = f[3] * 10 + d
  <2> HIDE DEF s
  <2> QED BY <1>2, <1>3, Zenon DEF Digested
<1> QED BY SMT, <1>2, <1>3, <1>4

-----------------------------------------------------------------------------
(* The clock stays on the calendar: banner and epoch.                      *)

\* The fields of an instant of the calendar.
DateInRange(y, m, d) ==
  y \in FirstYear .. LastYear /\ m \in 1 .. 12 /\ d \in 1 .. 31 /\ d <= DaysInMonth(y, m)
TimeInRange(h, mi, s) == h \in 0 .. 23 /\ mi \in 0 .. 59 /\ s \in 0 .. 59

\* An instant is made of such fields.
LEMMA InstantBuilt ==
  ASSUME NEW y, NEW m, NEW d, NEW h, NEW mi, NEW s,
         DateInRange(y, m, d), TimeInRange(h, mi, s)
  PROVE  Fields(y, m, d, h, mi, s) \in Instants
BY SMT DEF Instants, Fields, DateInRange, TimeInRange

\* Fields in range are numbers.
LEMMA RangeTypes ==
  ASSUME NEW y, NEW m, NEW d, NEW h, NEW mi, NEW s,
         DateInRange(y, m, d), TimeInRange(h, mi, s)
  PROVE  /\ y \in Int /\ m \in Int /\ d \in Int /\ h \in Int /\ mi \in Int /\ s \in Int
         /\ y \in Nat /\ d \in Nat /\ y >= FirstYear
BY SMT, ClockAssumption DEF DateInRange, TimeInRange, FirstYear

\* Every instant has such fields.
LEMMA InstantParts ==
  ASSUME NEW c \in Instants
  PROVE  \E y, m, d, h, mi, s :
           /\ c = Fields(y, m, d, h, mi, s) /\ DateInRange(y, m, d) /\ TimeInRange(h, mi, s)
<1>1. c = Fields(c.year, c.month, c.day, c.hour, c.minute, c.second)
  BY InstantFields, Zenon
<1>2. DateInRange(c.year, c.month, c.day) /\ TimeInRange(c.hour, c.minute, c.second)
  BY SMT DEF Instants, DateInRange, TimeInRange
<1> QED BY <1>1, <1>2, Zenon

\* Carries of the clock: the fields it sets back and the one it moves on.
DateCarries(c, y, m, d, h, mi, s) ==
  /\ [c EXCEPT !.day = @ + 1] = Fields(y, m, d + 1, h, mi, s)
  /\ [c EXCEPT !.day = 1, !.month = @ + 1] = Fields(y, m + 1, 1, h, mi, s)
  /\ [c EXCEPT !.day = 1, !.month = 1, !.year = @ + 1] = Fields(y + 1, 1, 1, h, mi, s)
TimeCarries(c, y, m, d, h, mi, s) ==
  /\ [c EXCEPT !.second = @ + 1] = Fields(y, m, d, h, mi, s + 1)
  /\ [c EXCEPT !.second = 0, !.minute = @ + 1] = Fields(y, m, d, h, mi + 1, 0)
  /\ [c EXCEPT !.second = 0, !.minute = 0, !.hour = @ + 1] = Fields(y, m, d, h + 1, 0, 0)
  /\ [c EXCEPT !.second = 0, !.minute = 0, !.hour = 0] = Fields(y, m, d, 0, 0, 0)

\* Every instant carries so.
LEMMA Carried ==
  ASSUME NEW y \in Int, NEW m \in Int, NEW d \in Int, NEW h \in Int, NEW mi \in Int, NEW s \in Int,
         NEW c, c = Fields(y, m, d, h, mi, s)
  PROVE  DateCarries(c, y, m, d, h, mi, s) /\ TimeCarries(c, y, m, d, h, mi, s)
<1>1. PICK c1 : c1 = [c EXCEPT !.day = 1]
  OBVIOUS
<1>2. PICK c2 : c2 = [c1 EXCEPT !.month = 1]
  OBVIOUS
<1>3. PICK c3 : c3 = [c EXCEPT !.second = 0]
  OBVIOUS
<1>4. PICK c4 : c4 = [c3 EXCEPT !.minute = 0]
  OBVIOUS
<1>5. c1 = Fields(y, m, 1, h, mi, s) /\ c3 = Fields(y, m, d, h, mi, 0)
  BY <1>1, <1>3 DEF Fields
<1>6. c2 = Fields(y, 1, 1, h, mi, s) /\ c4 = Fields(y, m, d, h, 0, 0)
  BY <1>2, <1>4, <1>5 DEF Fields
<1>7. c1.month = m /\ c2.year = y /\ c3.minute = mi /\ c4.hour = h
  BY <1>5, <1>6 DEF Fields
<1>8. /\ [c1 EXCEPT !.month = m + 1] = Fields(y, m + 1, 1, h, mi, s)
      /\ [c3 EXCEPT !.minute = mi + 1] = Fields(y, m, d, h, mi + 1, 0)
  BY <1>5 DEF Fields
<1>9. /\ [c2 EXCEPT !.year = y + 1] = Fields(y + 1, 1, 1, h, mi, s)
      /\ [c4 EXCEPT !.hour = h + 1] = Fields(y, m, d, h + 1, 0, 0)
      /\ [c4 EXCEPT !.hour = 0] = Fields(y, m, d, 0, 0, 0)
  BY <1>6 DEF Fields
<1>10. /\ [c EXCEPT !.day = 1, !.month = @ + 1] = [c1 EXCEPT !.month = c1.month + 1]
       /\ [c EXCEPT !.day = 1, !.month = 1, !.year = @ + 1] = [c2 EXCEPT !.year = c2.year + 1]
  BY <1>1, <1>2, Zenon
<1>11. /\ [c EXCEPT !.second = 0, !.minute = @ + 1] = [c3 EXCEPT !.minute = c3.minute + 1]
       /\ [c EXCEPT !.second = 0, !.minute = 0, !.hour = @ + 1] = [c4 EXCEPT !.hour = c4.hour + 1]
       /\ [c EXCEPT !.second = 0, !.minute = 0, !.hour = 0] = [c4 EXCEPT !.hour = 0]
  BY <1>3, <1>4, Zenon
<1>12. /\ [c EXCEPT !.day = @ + 1] = Fields(y, m, d + 1, h, mi, s)
       /\ [c EXCEPT !.second = @ + 1] = Fields(y, m, d, h, mi, s + 1)
  BY DEF Fields
<1> QED BY <1>7, <1>8, <1>9, <1>10, <1>11, <1>12, Zenon DEF DateCarries, TimeCarries

\* The day after.
NextDayIs(c, y, m, d, h, mi, s) ==
  /\ d < DaysInMonth(y, m) => NextDay(c) = Fields(y, m, d + 1, h, mi, s)
  /\ ~(d < DaysInMonth(y, m)) /\ m < 12 => NextDay(c) = Fields(y, m + 1, 1, h, mi, s)
  /\ ~(d < DaysInMonth(y, m)) /\ ~(m < 12) => NextDay(c) = Fields(y + 1, 1, 1, h, mi, s)

\* It is what NextDay computes.
LEMMA NextDayOf ==
  ASSUME NEW y \in Int, NEW m \in Int, NEW d \in Int, NEW h \in Int, NEW mi \in Int, NEW s \in Int,
         NEW c, c = Fields(y, m, d, h, mi, s)
  PROVE  NextDayIs(c, y, m, d, h, mi, s)
<1>1. c.day = d /\ c.month = m /\ c.year = y
  BY DEF Fields
<1>2. /\ [c EXCEPT !.day = @ + 1] = Fields(y, m, d + 1, h, mi, s)
      /\ [c EXCEPT !.day = 1, !.month = @ + 1] = Fields(y, m + 1, 1, h, mi, s)
      /\ [c EXCEPT !.day = 1, !.month = 1, !.year = @ + 1] = Fields(y + 1, 1, 1, h, mi, s)
  <2>1. DateCarries(c, y, m, d, h, mi, s)
    BY Carried, Zenon
  <2> QED BY <2>1, Zenon DEF DateCarries
<1>3. NextDay(c) = IF d < DaysInMonth(y, m) THEN [c EXCEPT !.day = @ + 1]
                   ELSE IF m < 12 THEN [c EXCEPT !.day = 1, !.month = @ + 1]
                   ELSE [c EXCEPT !.day = 1, !.month = 1, !.year = @ + 1]
  BY <1>1, Zenon DEF NextDay
<1> QED BY <1>2, <1>3, Zenon DEF NextDayIs

\* A second later.
NextSecondIs(c, y, m, d, h, mi, s) ==
  /\ s < 59 => NextSecond(c) = Fields(y, m, d, h, mi, s + 1)
  /\ ~(s < 59) /\ mi < 59 => NextSecond(c) = Fields(y, m, d, h, mi + 1, 0)
  /\ ~(s < 59) /\ ~(mi < 59) /\ h < 23 => NextSecond(c) = Fields(y, m, d, h + 1, 0, 0)
  /\ ~(s < 59) /\ ~(mi < 59) /\ ~(h < 23) => NextSecond(c) = NextDay(Fields(y, m, d, 0, 0, 0))

\* It is what NextSecond computes.
LEMMA NextSecondOf ==
  ASSUME NEW y \in Int, NEW m \in Int, NEW d \in Int, NEW h \in Int, NEW mi \in Int, NEW s \in Int,
         NEW c, c = Fields(y, m, d, h, mi, s)
  PROVE  NextSecondIs(c, y, m, d, h, mi, s)
<1>1. c.second = s /\ c.minute = mi /\ c.hour = h
  BY DEF Fields
<1>2. /\ [c EXCEPT !.second = @ + 1] = Fields(y, m, d, h, mi, s + 1)
      /\ [c EXCEPT !.second = 0, !.minute = @ + 1] = Fields(y, m, d, h, mi + 1, 0)
      /\ [c EXCEPT !.second = 0, !.minute = 0, !.hour = @ + 1] = Fields(y, m, d, h + 1, 0, 0)
      /\ [c EXCEPT !.second = 0, !.minute = 0, !.hour = 0] = Fields(y, m, d, 0, 0, 0)
  <2>1. TimeCarries(c, y, m, d, h, mi, s)
    BY Carried, Zenon
  <2> QED BY <2>1, Zenon DEF TimeCarries
<1>3. NextSecond(c) = IF s < 59 THEN [c EXCEPT !.second = @ + 1]
                      ELSE IF mi < 59 THEN [c EXCEPT !.second = 0, !.minute = @ + 1]
                      ELSE IF h < 23 THEN [c EXCEPT !.second = 0, !.minute = 0, !.hour = @ + 1]
                      ELSE NextDay([c EXCEPT !.second = 0, !.minute = 0, !.hour = 0])
  BY <1>1, Zenon DEF NextSecond
<1> QED BY <1>2, <1>3, Zenon DEF NextSecondIs

\* One date is the day after another.
DayAfter(y, m, d, y2, m2, d2) ==
  \/ y2 = y /\ m2 = m /\ d2 = d + 1 /\ d < DaysInMonth(y, m)
  \/ y2 = y /\ m2 = m + 1 /\ d2 = 1 /\ d = DaysInMonth(y, m) /\ m < 12
  \/ y2 = y + 1 /\ m2 = 1 /\ d2 = 1 /\ d = DaysInMonth(y, m) /\ m = 12

\* NextDay goes from one to the other.
LeadsTo(y, m, d, y2, m2, d2) ==
  \A h, mi, s \in Int : NextDay(Fields(y, m, d, h, mi, s)) = Fields(y2, m2, d2, h, mi, s)

\* NextDay goes there, whatever the time of day.
LEMMA NextDate ==
  ASSUME NEW y, NEW m, NEW d, DateInRange(y, m, d)
  PROVE  \E y2 \in Int, m2 \in Int, d2 \in Int :
           DayAfter(y, m, d, y2, m2, d2) /\ LeadsTo(y, m, d, y2, m2, d2)
<1>1. y \in Int /\ m \in Int /\ d \in Int /\ 0 \in Int /\ 1 \in Int
  BY SMT DEF DateInRange
<1>2. y + 1 \in Int /\ m + 1 \in Int /\ d + 1 \in Int
  BY SMT, <1>1
<1>3. CASE d < DaysInMonth(y, m)
  <2>1. DayAfter(y, m, d, y, m, d + 1)
    BY <1>3, Zenon DEF DayAfter
  <2>2. LeadsTo(y, m, d, y, m, d + 1)
    <3> SUFFICES ASSUME NEW h \in Int, NEW mi \in Int, NEW s \in Int
                 PROVE  NextDay(Fields(y, m, d, h, mi, s)) = Fields(y, m, d + 1, h, mi, s)
      BY Zenon DEF LeadsTo
    <3>1. PICK c : c = Fields(y, m, d, h, mi, s)
      OBVIOUS
    <3>2. NextDayIs(c, y, m, d, h, mi, s)
      BY <1>1, <3>1, NextDayOf, Zenon
    <3>3. NextDay(c) = Fields(y, m, d + 1, h, mi, s)
      BY <1>3, <3>2, Zenon DEF NextDayIs
    <3> QED BY <3>1, <3>3, Zenon
  <2> QED BY <1>1, <1>2, <2>1, <2>2, Zenon
<1>4. CASE ~(d < DaysInMonth(y, m)) /\ m < 12
  <2>1. d = DaysInMonth(y, m)
    BY SMT, <1>4 DEF DateInRange, DaysInMonth
  <2>2. DayAfter(y, m, d, y, m + 1, 1)
    BY <1>4, <2>1, Zenon DEF DayAfter
  <2>3. LeadsTo(y, m, d, y, m + 1, 1)
    <3> SUFFICES ASSUME NEW h \in Int, NEW mi \in Int, NEW s \in Int
                 PROVE  NextDay(Fields(y, m, d, h, mi, s)) = Fields(y, m + 1, 1, h, mi, s)
      BY Zenon DEF LeadsTo
    <3>1. PICK c : c = Fields(y, m, d, h, mi, s)
      OBVIOUS
    <3>2. NextDayIs(c, y, m, d, h, mi, s)
      BY <1>1, <3>1, NextDayOf, Zenon
    <3>3. NextDay(c) = Fields(y, m + 1, 1, h, mi, s)
      BY <1>4, <3>2, Zenon DEF NextDayIs
    <3> QED BY <3>1, <3>3, Zenon
  <2> QED BY <1>1, <1>2, <2>2, <2>3, Zenon
<1>5. CASE ~(d < DaysInMonth(y, m)) /\ ~(m < 12)
  <2>1. d = DaysInMonth(y, m) /\ m = 12
    BY SMT, <1>5 DEF DateInRange, DaysInMonth
  <2>2. DayAfter(y, m, d, y + 1, 1, 1)
    BY <1>5, <2>1, Zenon DEF DayAfter
  <2>3. LeadsTo(y, m, d, y + 1, 1, 1)
    <3> SUFFICES ASSUME NEW h \in Int, NEW mi \in Int, NEW s \in Int
                 PROVE  NextDay(Fields(y, m, d, h, mi, s)) = Fields(y + 1, 1, 1, h, mi, s)
      BY Zenon DEF LeadsTo
    <3>1. PICK c : c = Fields(y, m, d, h, mi, s)
      OBVIOUS
    <3>2. NextDayIs(c, y, m, d, h, mi, s)
      BY <1>1, <3>1, NextDayOf, Zenon
    <3>3. NextDay(c) = Fields(y + 1, 1, 1, h, mi, s)
      BY <1>5, <3>2, Zenon DEF NextDayIs
    <3> QED BY <3>1, <3>3, Zenon
  <2> QED BY <1>1, <1>2, <2>2, <2>3, Zenon
<1> QED BY <1>3, <1>4, <1>5, Zenon

\* The day after is on the calendar, up to the last year.
LEMMA NextDateInRange ==
  ASSUME NEW y, NEW m, NEW d, DateInRange(y, m, d),
         NEW y2, NEW m2, NEW d2, DayAfter(y, m, d, y2, m2, d2), y2 <= LastYear
  PROVE  DateInRange(y2, m2, d2)
<1>1. LastYear \in Int /\ FirstYear \in Int
  BY SMT, ClockAssumption DEF FirstYear
<1>2. y2 \in FirstYear .. LastYear /\ m2 \in 1 .. 12
  BY SMT, <1>1 DEF DateInRange, DayAfter
<1>3. DaysInMonth(y, m) \in 28 .. 31 /\ DaysInMonth(y2, m2) \in 28 .. 31
  BY DEF DaysInMonth
<1>4. d2 \in 1 .. 31 /\ d2 <= DaysInMonth(y2, m2)
  BY SMT, <1>3 DEF DateInRange, DayAfter
<1> QED BY <1>2, <1>4, Zenon DEF DateInRange

\* NextDay stays on the calendar.
LEMMA NextDayInstant ==
  ASSUME NEW c \in Instants, NextDay(c).year <= LastYear
  PROVE  NextDay(c) \in Instants
<1>1. PICK y, m, d, h, mi, s :
        c = Fields(y, m, d, h, mi, s) /\ DateInRange(y, m, d) /\ TimeInRange(h, mi, s)
  BY InstantParts, Zenon
<1>2. PICK y2 \in Int, m2 \in Int, d2 \in Int :
        DayAfter(y, m, d, y2, m2, d2) /\ LeadsTo(y, m, d, y2, m2, d2)
  BY <1>1, NextDate, Zenon
<1>3. NextDay(c) = Fields(y2, m2, d2, h, mi, s)
  BY <1>1, <1>2, RangeTypes, Zenon DEF LeadsTo
<1>4. y2 <= LastYear
  BY <1>3 DEF Fields
<1>5. DateInRange(y2, m2, d2)
  BY <1>1, <1>2, <1>4, NextDateInRange, Zenon
<1> QED BY <1>1, <1>3, <1>5, InstantBuilt, Zenon

\* The time of day a second later, when it is not midnight; no field that is set back
\* takes a slower one with it.
SecondAfter(h, mi, s, h2, mi2, s2) ==
  /\ TimeInRange(h2, mi2, s2)
  /\ Clocked(h2, mi2, s2) = Clocked(h, mi, s) + 1
  /\ h2 >= h /\ 60 * h2 + mi2 >= 60 * h + mi

\* The last second of a day.
LastSecond(h, mi, s) == Clocked(h, mi, s) = DAY - 1

\* A tick stays on the day or goes to the start of the next one.
TickIs(c, y, m, d, h, mi, s, y2, m2, d2) ==
  \/ \E h2, mi2, s2 : /\ NextSecond(c) = Fields(y, m, d, h2, mi2, s2)
                      /\ SecondAfter(h, mi, s, h2, mi2, s2)
  \/ NextSecond(c) = Fields(y2, m2, d2, 0, 0, 0) /\ LastSecond(h, mi, s)

\* It does, from every instant.
LEMMA TickFields ==
  ASSUME NEW y, NEW m, NEW d, NEW h, NEW mi, NEW s,
         DateInRange(y, m, d), TimeInRange(h, mi, s),
         NEW y2, NEW m2, NEW d2, LeadsTo(y, m, d, y2, m2, d2),
         NEW c, c = Fields(y, m, d, h, mi, s)
  PROVE  TickIs(c, y, m, d, h, mi, s, y2, m2, d2)
<1> USE DEF TickIs
<1>1. y \in Int /\ m \in Int /\ d \in Int /\ h \in Int /\ mi \in Int /\ s \in Int
  BY RangeTypes, Zenon
<1>2. NextSecondIs(c, y, m, d, h, mi, s)
  BY <1>1, NextSecondOf, Zenon
<1>3. CASE s < 59
  <2>1. SecondAfter(h, mi, s, h, mi, s + 1)
    BY SMT, <1>3 DEF SecondAfter, TimeInRange, Clocked
  <2>2. NextSecond(c) = Fields(y, m, d, h, mi, s + 1)
    BY <1>2, <1>3, Zenon DEF NextSecondIs
  <2> QED BY <2>1, <2>2, Zenon
<1>4. CASE ~(s < 59) /\ mi < 59
  <2>1. SecondAfter(h, mi, s, h, mi + 1, 0)
    BY SMT, <1>4 DEF SecondAfter, TimeInRange, Clocked
  <2>2. NextSecond(c) = Fields(y, m, d, h, mi + 1, 0)
    BY <1>2, <1>4, Zenon DEF NextSecondIs
  <2> QED BY <2>1, <2>2, Zenon
<1>5. CASE ~(s < 59) /\ ~(mi < 59) /\ h < 23
  <2>1. SecondAfter(h, mi, s, h + 1, 0, 0)
    BY SMT, <1>5 DEF SecondAfter, TimeInRange, Clocked
  <2>2. NextSecond(c) = Fields(y, m, d, h + 1, 0, 0)
    BY <1>2, <1>5, Zenon DEF NextSecondIs
  <2> QED BY <2>1, <2>2, Zenon
<1>6. CASE ~(s < 59) /\ ~(mi < 59) /\ ~(h < 23)
  <2>1. LastSecond(h, mi, s)
    BY SMT, <1>6 DEF LastSecond, TimeInRange, Clocked, DAY
  <2>2. NextSecond(c) = NextDay(Fields(y, m, d, 0, 0, 0))
    BY <1>2, <1>6, Zenon DEF NextSecondIs
  <2>3. 0 \in Int
    OBVIOUS
  <2>4. NextDay(Fields(y, m, d, 0, 0, 0)) = Fields(y2, m2, d2, 0, 0, 0)
    BY <2>3, Zenon DEF LeadsTo
  <2> QED BY <2>1, <2>2, <2>4, Zenon
<1> QED BY <1>3, <1>4, <1>5, <1>6, Zenon

\* NextSecond stays on the calendar.
LEMMA NextSecondInstant ==
  ASSUME NEW c \in Instants, NextSecond(c).year <= LastYear
  PROVE  NextSecond(c) \in Instants
<1>1. PICK y, m, d, h, mi, s :
        c = Fields(y, m, d, h, mi, s) /\ DateInRange(y, m, d) /\ TimeInRange(h, mi, s)
  BY InstantParts, Zenon
<1>2. PICK y2 \in Int, m2 \in Int, d2 \in Int :
        DayAfter(y, m, d, y2, m2, d2) /\ LeadsTo(y, m, d, y2, m2, d2)
  BY <1>1, NextDate, Zenon
<1>3. CASE \E h2, mi2, s2 : /\ NextSecond(c) = Fields(y, m, d, h2, mi2, s2)
                            /\ SecondAfter(h, mi, s, h2, mi2, s2)
  BY <1>1, <1>3, InstantBuilt, Zenon DEF SecondAfter
<1>4. CASE NextSecond(c) = Fields(y2, m2, d2, 0, 0, 0)
  <2>1. y2 <= LastYear
    BY <1>4 DEF Fields
  <2>2. DateInRange(y2, m2, d2) /\ TimeInRange(0, 0, 0)
    <3>1. TimeInRange(0, 0, 0)
      BY SMT DEF TimeInRange
    <3> QED BY <1>1, <1>2, <2>1, <3>1, NextDateInRange, Zenon
  <2> QED BY <1>4, <2>2, InstantBuilt, Zenon
<1>5. TickIs(c, y, m, d, h, mi, s, y2, m2, d2)
  BY <1>1, <1>2, TickFields, Zenon
<1> QED BY <1>3, <1>4, <1>5, Zenon DEF TickIs

-----------------------------------------------------------------------------
(* The banner and the count of days.                                       *)

\* The clock shows an instant of the calendar, and so did it when the call began; the
\* banner's date stands until the time is asked for.
CalendarInv ==
  /\ clock \in Instants /\ began \in Instants
  /\ pc \in {"boot", "idle"} => began = clock
  /\ pc = "idle" => shown = clock

\* It holds at first.
LEMMA CalendarInit ==
  Init => CalendarInv
BY ClockAssumption DEF Init, CalendarInv

\* Every step keeps it.
LEMMA CalendarStep ==
  CalendarInv /\ [Next]_vars => CalendarInv'
<1> SUFFICES ASSUME CalendarInv, [Next]_vars PROVE CalendarInv'
  OBVIOUS
<1>1. CASE DayPasses
  <2>1. NextDay(clock) \in Instants
    BY <1>1, NextDayInstant DEF DayPasses, CalendarInv
  <2> QED BY <1>1, <2>1 DEF DayPasses, CalendarInv
<1>2. CASE print_banner
  <2>1. ms_to_iso8601(TimeOf(clock)) = clock
    BY DateAt DEF CalendarInv
  <2> QED BY <1>2, <2>1 DEF print_banner, CalendarInv
<1>3. CASE get_formatted_time
  BY <1>3 DEF get_formatted_time, CalendarInv
<1>4. CASE Tick
  <2>1. NextSecond(clock) \in Instants
    BY <1>4, NextSecondInstant DEF Tick, CalendarInv
  <2> QED BY <1>4, <2>1 DEF Tick, CalendarInv
<1>5. CASE read_cmos_reg
  BY <1>5 DEF read_cmos_reg, CalendarInv
<1>6. CASE get_unix_timestamp
  BY <1>6 DEF get_unix_timestamp, CalendarInv
<1>7. CASE hcf
  BY <1>7 DEF hcf, vars, CalendarInv
<1>8. CASE UNCHANGED vars
  BY <1>8 DEF vars, CalendarInv
<1> QED BY <1>1, <1>2, <1>3, <1>4, <1>5, <1>6, <1>7, <1>8 DEF Next

\* It holds throughout.
LEMMA CalendarAlways ==
  Spec => []CalendarInv
BY CalendarInit, CalendarStep, PTL DEF Spec

\* The banner shows the boot loader's date, whatever instant up to year 9999 it is:
\* ms_to_iso8601 undoes the calendar's count.
THEOREM BannerAlways ==
  Spec => []BannerRight
<1>1. CalendarInv => BannerRight
  BY DEF CalendarInv, BannerRight
<1> QED BY <1>1, CalendarAlways, PTL

\* get_unix_epoch counts every date as the calendar does.
THEOREM EpochAlways ==
  Spec => []EpochRight
<1>1. CalendarInv => EpochRight
  BY EpochAt DEF CalendarInv, EpochRight
<1> QED BY <1>1, CalendarAlways, PTL

-----------------------------------------------------------------------------
(* The registers and their digits.                                         *)

\* The digits of a register are parsed back to what the clock showed.
LEMMA DigitsBack ==
  ASSUME NEW v \in 0 .. 99
  PROVE  atoi_(HexDigits(Bcd(v))) = v
<1>1. PICK a \in Nat, b \in Nat : a = v \div 10 /\ b = v % 10
  BY SMT
<1>2. CASE v < 10
  <2>1. HexDigits(Bcd(v)) = <<v>>
    BY SMT, <1>2 DEF HexDigits, Bcd
  <2>2. v \in Nat
    BY SMT
  <2> QED BY <2>1, <2>2, ParsedOne, Zenon
<1>3. CASE v >= 10
  <2>1. Bcd(v) = 16 * a + b /\ b <= 9 /\ a >= 1 /\ v = 10 * a + b
    BY SMT, <1>1, <1>3 DEF Bcd
  <2>2. (16 * a + b) \div 16 = a /\ (16 * a + b) % 16 = b /\ ~(16 * a + b < 16)
    BY SMT, <2>1
  <2>3. HexDigits(Bcd(v)) = <<a, b>>
    BY SMT, <2>1, <2>2 DEF HexDigits
  <2>4. atoi_(<<a, b>>) = 10 * a + b
    BY ParsedTwo, Zenon
  <2> QED BY SMT, <2>1, <2>3, <2>4
<1>4. v < 10 \/ v >= 10
  BY SMT
<1> QED BY <1>2, <1>3, <1>4, Zenon

\* So are those of a century and a year that are joined, when both have two digits.
LEMMA JoinedBack ==
  ASSUME NEW c \in 10 .. 99, NEW y \in 10 .. 99
  PROVE  atoi_(HexDigits(Bcd(c)) \o HexDigits(Bcd(y))) = 100 * c + y
<1>1. ASSUME NEW v \in 10 .. 99
      PROVE  \E a, b \in Nat : HexDigits(Bcd(v)) = <<a, b>> /\ v = 10 * a + b
  <2>1. PICK a \in Nat, b \in Nat : a = v \div 10 /\ b = v % 10
    BY SMT
  <2>2. Bcd(v) = 16 * a + b /\ b <= 9 /\ a >= 1 /\ v = 10 * a + b
    BY SMT, <2>1 DEF Bcd
  <2>3. (16 * a + b) \div 16 = a /\ (16 * a + b) % 16 = b /\ ~(16 * a + b < 16)
    BY SMT, <2>2
  <2>4. HexDigits(Bcd(v)) = <<a, b>>
    BY SMT, <2>2, <2>3 DEF HexDigits
  <2> QED BY SMT, <2>2, <2>4
<1>2. PICK a \in Nat, b \in Nat : HexDigits(Bcd(c)) = <<a, b>> /\ c = 10 * a + b
  BY <1>1, Zenon
<1>3. PICK e \in Nat, f \in Nat : HexDigits(Bcd(y)) = <<e, f>> /\ y = 10 * e + f
  BY <1>1, Zenon
<1>4. <<a, b>> \o <<e, f>> = <<a, b, e, f>>
  <2>1. PICK t : t = <<a, b>> \o <<e, f>>
    OBVIOUS
  <2>2. t \in Seq(Nat) /\ Len(t) = 4
    BY SMT, <2>1
  <2>3. t[1] = a /\ t[2] = b /\ t[3] = e /\ t[4] = f
    BY SMT, <2>1
  <2>4. t = <<a, b, e, f>>
    BY SMT, <2>2, <2>3
  <2> QED BY <2>1, <2>4
<1>5. atoi_(<<a, b, e, f>>) = 1000 * a + 100 * b + 10 * e + f
  BY SMT, ParsedFour
<1>6. atoi_(HexDigits(Bcd(c)) \o HexDigits(Bcd(y))) = atoi_(<<a, b, e, f>>)
  BY <1>2, <1>3, <1>4, Zenon
<1> QED BY SMT, <1>2, <1>3, <1>5, <1>6

\* The registers read before that of the seconds.
Skipped == IF Century THEN 1 ELSE 0

\* The order, with a register for the century.
LEMMA OrderFull ==
  ASSUME Century
  PROVE  Order = <<"century", "second", "minute", "hour", "day", "month", "year">>
<1> DEFINE Name == {"century", "second", "minute", "hour", "day", "month", "year"}
<1>1. PICK t : t = <<"century">> \o <<"second", "minute", "hour", "day", "month", "year">>
  OBVIOUS
<1>2. t \in Seq(Name) /\ Len(t) = 7
  <2>1. <<"century">> \in Seq(Name) /\ <<"second", "minute", "hour", "day", "month", "year">> \in Seq(Name)
    OBVIOUS
  <2> QED BY SMT, <1>1, <2>1
<1>3. /\ t[1] = "century" /\ t[2] = "second" /\ t[3] = "minute" /\ t[4] = "hour"
      /\ t[5] = "day" /\ t[6] = "month" /\ t[7] = "year"
  BY SMT, <1>1
<1>4. t = <<"century", "second", "minute", "hour", "day", "month", "year">>
  BY SMT, <1>2, <1>3
<1> QED BY <1>1, <1>4 DEF Order

\* The order of the reads.
LEMMA OrderIs ==
  /\ Skipped \in 0 .. 1 /\ Len(Order) = Skipped + 6 /\ DOMAIN Order = 1 .. Skipped + 6
  /\ Century => Order[1] = "century"
  /\ Order[Skipped + 1] = "second" /\ Order[Skipped + 2] = "minute"
  /\ Order[Skipped + 3] = "hour" /\ Order[Skipped + 4] = "day"
  /\ Order[Skipped + 5] = "month" /\ Order[Skipped + 6] = "year"
<1>1. CASE Century
  <2>1. Order = <<"century", "second", "minute", "hour", "day", "month", "year">>
    BY <1>1, OrderFull
  <2> HIDE DEF Order
  <2> QED BY SMT, <1>1, <2>1 DEF Skipped
<1>2. CASE ~Century
  <2>1. Order = <<"second", "minute", "hour", "day", "month", "year">>
    BY SMT, <1>2 DEF Order
  <2> HIDE DEF Order
  <2> QED BY SMT, <1>2, <2>1 DEF Skipped
<1> QED BY <1>1, <1>2, Zenon

\* Where the code finds what it read.
LEMMA ReadIs ==
  /\ Read("second") = reads[Skipped + 1] /\ Read("minute") = reads[Skipped + 2]
  /\ Read("hour") = reads[Skipped + 3] /\ Read("day") = reads[Skipped + 4]
  /\ Read("month") = reads[Skipped + 5] /\ Read("year") = reads[Skipped + 6]
  /\ Read("century") = IF Century THEN reads[1] ELSE Bcd(20)
<1>1. CASE Century
  <2>1. Order = <<"century", "second", "minute", "hour", "day", "month", "year">>
    BY <1>1, OrderFull
  <2>2. /\ Read("second") = reads[2] /\ Read("minute") = reads[3]
        /\ Read("hour") = reads[4] /\ Read("day") = reads[5]
        /\ Read("month") = reads[6] /\ Read("year") = reads[7]
        /\ Read("century") = reads[1]
    BY SMT, <2>1 DEF Read
  <2> QED BY SMT, <1>1, <2>2 DEF Skipped
<1>2. CASE ~Century
  <2>1. Order = <<"second", "minute", "hour", "day", "month", "year">>
    BY SMT, <1>2 DEF Order
  <2>2. /\ Read("second") = reads[1] /\ Read("minute") = reads[2]
        /\ Read("hour") = reads[3] /\ Read("day") = reads[4]
        /\ Read("month") = reads[5] /\ Read("year") = reads[6]
        /\ Read("century") = Bcd(20)
    BY SMT, <2>1 DEF Read
  <2> QED BY SMT, <1>2, <2>2 DEF Skipped
<1> QED BY <1>1, <1>2, Zenon

\* What the registers show.
LEMMA Registers ==
  ASSUME NEW y, NEW m, NEW d, NEW h, NEW mi, NEW s, clock = Fields(y, m, d, h, mi, s)
  PROVE  /\ Register("second") = Bcd(s) /\ Register("minute") = Bcd(mi)
         /\ Register("hour") = Bcd(h) /\ Register("day") = Bcd(d)
         /\ Register("month") = Bcd(m) /\ Register("year") = Bcd(y % 100)
         /\ Register("century") = Bcd(y \div 100)
BY SMT DEF Register, Fields

\* What a register shows at an instant.
RegisterAt(c, name) ==
  Bcd(CASE name = "century" -> c.year \div 100
        [] name = "year" -> c.year % 100
        [] OTHER -> c[name])

\* A register is read at the instant the clock shows.
LEMMA RegisterNow ==
  ASSUME NEW name
  PROVE  Register(name) = RegisterAt(clock, name)
BY Zenon DEF Register, RegisterAt

\* A register shows a number.
LEMMA RegisterType ==
  ASSUME clock \in Instants, NEW i \in 1 .. Len(Order)
  PROVE  Register(Order[i]) \in Nat
<1>1. PICK y, m, d, h, mi, s :
        clock = Fields(y, m, d, h, mi, s) /\ DateInRange(y, m, d) /\ TimeInRange(h, mi, s)
  BY InstantParts, Zenon
<1>2. /\ Register("second") = Bcd(s) /\ Register("minute") = Bcd(mi)
      /\ Register("hour") = Bcd(h) /\ Register("day") = Bcd(d)
      /\ Register("month") = Bcd(m) /\ Register("year") = Bcd(y % 100)
      /\ Register("century") = Bcd(y \div 100)
  BY <1>1, Registers, Zenon
<1>3. /\ y \in Nat /\ m \in Nat /\ d \in Nat /\ h \in Nat /\ mi \in Nat /\ s \in Nat
  BY SMT, <1>1, ClockAssumption DEF DateInRange, TimeInRange, FirstYear
<1>4. \A v \in Nat : Bcd(v) \in Nat
  BY SMT DEF Bcd
<1>5. y % 100 \in Nat /\ y \div 100 \in Nat
  BY SMT, <1>3
<1>6. Order[i] \in {"century", "second", "minute", "hour", "day", "month", "year"}
  <2>1. i \in 1 .. Skipped + 6
    BY OrderIs
  <2>2. \/ i = 1 /\ Century
        \/ i = Skipped + 1 \/ i = Skipped + 2 \/ i = Skipped + 3
        \/ i = Skipped + 4 \/ i = Skipped + 5 \/ i = Skipped + 6
    BY SMT, <2>1 DEF Skipped
  <2> QED BY <2>2, OrderIs, Zenon
<1> QED BY <1>2, <1>3, <1>4, <1>5, <1>6, Zenon

\* A year from its century and its last two digits.
Joined(c, yy, y) == y = 100 * c + yy

\* What get_unix_timestamp makes of the registers it read: their fields, each in range
\* on its own.
LEMMA StampIs ==
  ASSUME get_unix_timestamp,
         NEW m \in 1 .. 12, NEW d \in 1 .. 31, NEW h, NEW mi, NEW s, TimeInRange(h, mi, s),
         NEW c \in 10 .. 99, NEW yy \in 10 .. 99, NEW y \in Nat, Joined(c, yy, y), y >= FirstYear,
         Read("second") = Bcd(s), Read("minute") = Bcd(mi), Read("hour") = Bcd(h),
         Read("day") = Bcd(d), Read("month") = Bcd(m),
         Read("century") = Bcd(c), Read("year") = Bcd(yy)
  PROVE  stamp' = [days |-> DateDays(y, m, d), secs |-> Clocked(h, mi, s)]
<1>1. s \in 0 .. 99 /\ mi \in 0 .. 99 /\ h \in 0 .. 99 /\ d \in 0 .. 99 /\ m \in 0 .. 99
  BY SMT DEF TimeInRange
<1>2. /\ atoi_(HexDigits(Bcd(s))) = s /\ atoi_(HexDigits(Bcd(mi))) = mi
      /\ atoi_(HexDigits(Bcd(h))) = h /\ atoi_(HexDigits(Bcd(d))) = d
      /\ atoi_(HexDigits(Bcd(m))) = m
  BY <1>1, DigitsBack, Zenon
<1>3. atoi_(HexDigits(Bcd(c)) \o HexDigits(Bcd(yy))) = y
  BY JoinedBack, Zenon DEF Joined
<1>4. stamp' = get_unix_epoch(s, mi, h, d, m, y)
  BY <1>2, <1>3, Zenon DEF get_unix_timestamp
<1>5. d \in Nat /\ s \in 0 .. 59 /\ mi \in 0 .. 59 /\ h \in 0 .. 23
  BY SMT DEF TimeInRange
<1>6. get_unix_epoch(s, mi, h, d, m, y) = [days |-> DateDays(y, m, d), secs |-> Clocked(h, mi, s)]
  BY <1>5, EpochOf
<1> QED BY <1>4, <1>6, Zenon

\* The two digits of a year and those of its century.
LEMMA YearDigits ==
  ASSUME NEW y \in FirstYear .. LastYear, y % 100 >= 10
  PROVE  \E c \in 10 .. 99, yy \in 10 .. 99 : c = y \div 100 /\ yy = y % 100 /\ Joined(c, yy, y)
<1>1. y \in Nat /\ y >= 1970 /\ y <= 9999
  BY SMT, ClockAssumption DEF FirstYear
<1>2. PICK a \in Int : a = y \div 100
  BY SMT, <1>1
<1>3. PICK b \in Int : b = y % 100
  BY SMT, <1>1
<1>4. a >= 10 /\ a <= 99 /\ b >= 10 /\ b <= 99 /\ y = 100 * a + b
  BY SMT, <1>1, <1>2, <1>3
<1>5. a \in 10 .. 99 /\ b \in 10 .. 99
  BY SMT, <1>4
<1>6. Joined(a, b, y)
  BY <1>4 DEF Joined
<1> QED BY <1>2, <1>3, <1>5, <1>6

-----------------------------------------------------------------------------
(* A call during which no second passes.                                   *)

\* The registers read so far are those of the instant the call began at.
ExactInv ==
  /\ CalendarInv
  /\ ticks \in Nat
  /\ pc \in {"boot", "idle"} => reads = <<>> /\ ticks = 0
  /\ pc \in {"read", "done"} => began \in Calls
  /\ reads \in Seq(Nat) /\ Len(reads) <= Len(Order)
  /\ ticks = 0 => /\ clock = began
                  /\ \A i \in 1 .. Len(reads) : reads[i] = RegisterAt(began, Order[i])
  /\ pc = "done" /\ ticks = 0 => shown = began

\* It holds at first.
LEMMA ExactInit ==
  Init => ExactInv
<1>1. Len(Order) \in Nat
  BY OrderIs
<1> QED BY <1>1, CalendarInit DEF Init, ExactInv

\* The stamp is the time of the instant the call began at.
LEMMA ExactStamp ==
  ASSUME YearsRead, ExactInv, ticks = 0, get_unix_timestamp
  PROVE  stamp' = TimeOf(began)
<1>1. PICK y, m, d, h, mi, s :
        began = Fields(y, m, d, h, mi, s) /\ DateInRange(y, m, d) /\ TimeInRange(h, mi, s)
  BY InstantParts, Zenon DEF ExactInv, CalendarInv
<1>2. /\ Register("second") = Bcd(s) /\ Register("minute") = Bcd(mi)
      /\ Register("hour") = Bcd(h) /\ Register("day") = Bcd(d)
      /\ Register("month") = Bcd(m) /\ Register("year") = Bcd(y % 100)
      /\ Register("century") = Bcd(y \div 100)
  <2>1. clock = Fields(y, m, d, h, mi, s)
    BY <1>1 DEF ExactInv
  <2> QED BY <2>1, Registers, Zenon
<1>3. Len(reads) = Len(Order) /\ pc = "read"
  BY DEF get_unix_timestamp
<1>4. \A i \in 1 .. Skipped + 6 : reads[i] = Register(Order[i])
  BY <1>3, OrderIs, RegisterNow DEF ExactInv
<1>5. /\ Read("second") = Bcd(s) /\ Read("minute") = Bcd(mi) /\ Read("hour") = Bcd(h)
      /\ Read("day") = Bcd(d) /\ Read("month") = Bcd(m) /\ Read("year") = Bcd(y % 100)
      /\ Century => Read("century") = Bcd(y \div 100)
  <2>1. /\ 1 \in 1 .. Skipped + 6 /\ Skipped + 1 \in 1 .. Skipped + 6 /\ Skipped + 2 \in 1 .. Skipped + 6
        /\ Skipped + 3 \in 1 .. Skipped + 6 /\ Skipped + 4 \in 1 .. Skipped + 6
        /\ Skipped + 5 \in 1 .. Skipped + 6 /\ Skipped + 6 \in 1 .. Skipped + 6
    BY SMT, OrderIs
  <2> QED BY <1>2, <1>4, <2>1, OrderIs, ReadIs, Zenon
<1>6. began.year = y /\ began.month = m /\ began.day = d
      /\ began.hour = h /\ began.minute = mi /\ began.second = s
  BY <1>1 DEF Fields
<1>7. y % 100 >= 10 /\ (Century \/ y \div 100 = 20)
  BY <1>3, <1>6, Zenon DEF ExactInv, YearsRead
<1>8. Read("century") = Bcd(y \div 100)
  BY <1>5, <1>7, ReadIs, Zenon
<1>9. PICK c \in 10 .. 99, yy \in 10 .. 99 : c = y \div 100 /\ yy = y % 100 /\ Joined(c, yy, y)
  BY <1>1, <1>7, YearDigits DEF DateInRange
<1>10. y \in Nat /\ y >= FirstYear /\ m \in 1 .. 12 /\ d \in 1 .. 31
  BY <1>1, RangeTypes, Zenon DEF DateInRange
<1>11. stamp' = [days |-> DateDays(y, m, d), secs |-> Clocked(h, mi, s)]
  <2>1. Joined(c, yy, y) /\ Read("century") = Bcd(c) /\ Read("year") = Bcd(yy)
    BY <1>5, <1>8, <1>9
  <2> QED BY <1>1, <1>5, <1>10, <2>1, StampIs, Zenon
<1>12. TimeOf(began) = [days |-> DateDays(y, m, d), secs |-> Clocked(h, mi, s)]
  BY <1>6, TimeAt, Zenon DEF ExactInv, CalendarInv
<1> QED BY <1>11, <1>12, Zenon

\* Every step keeps it, where the years are read as they are.
LEMMA ExactStep ==
  ASSUME YearsRead
  PROVE  ExactInv /\ [Next]_vars => ExactInv'
<1> SUFFICES ASSUME ExactInv, [Next]_vars PROVE ExactInv'
  OBVIOUS
<1>1. CalendarInv'
  BY CalendarStep DEF ExactInv
<1>2. CASE DayPasses
  BY <1>1, <1>2 DEF DayPasses, ExactInv
<1>3. CASE print_banner
  BY <1>1, <1>3 DEF print_banner, ExactInv
<1>4. CASE get_formatted_time
  BY <1>1, <1>4 DEF get_formatted_time, ExactInv, CalendarInv
<1>5. CASE Tick
  <2>1. ticks' \in Nat /\ ticks' # 0
    BY <1>5 DEF Tick, ExactInv
  <2> QED BY <1>1, <1>5, <2>1 DEF Tick, ExactInv
<1>6. CASE read_cmos_reg
  <2> DEFINE k == Len(reads) + 1
  <2>1. k \in 1 .. Len(Order) /\ Len(reads) \in Nat
    BY <1>6, OrderIs DEF read_cmos_reg, ExactInv
  <2>2. Register(Order[k]) \in Nat /\ Register(Order[k]) = RegisterAt(clock, Order[k])
    BY <2>1, RegisterType, RegisterNow DEF ExactInv, CalendarInv
  <2>3. reads' = Append(reads, Register(Order[k]))
    BY <1>6 DEF read_cmos_reg
  <2>4. /\ reads' \in Seq(Nat) /\ Len(reads') = k /\ reads'[k] = Register(Order[k])
        /\ \A i \in 1 .. Len(reads) : reads'[i] = reads[i]
    BY <2>2, <2>3 DEF ExactInv
  <2>5. Len(reads') <= Len(Order)
    BY <2>1, <2>4, OrderIs
  <2>6. ASSUME ticks' = 0
        PROVE  clock' = began' /\ \A i \in 1 .. Len(reads') : reads'[i] = RegisterAt(began', Order[i])
    <3>1. /\ clock = began /\ began' = began /\ clock' = clock
          /\ \A i \in 1 .. Len(reads) : reads[i] = RegisterAt(began, Order[i])
      BY <1>6, <2>6 DEF read_cmos_reg, ExactInv
    <3>2. \A i \in 1 .. Len(reads') : i \in 1 .. Len(reads) \/ i = k
      BY <2>1, <2>4
    <3> HIDE DEF k
    <3> QED BY <2>2, <2>4, <3>1, <3>2, Zenon
  <2> QED BY <1>1, <1>6, <2>4, <2>5, <2>6 DEF read_cmos_reg, ExactInv
<1>7. CASE get_unix_timestamp
  <2>1. /\ pc = "read" /\ pc' = "done" /\ shown' = ms_to_iso8601(stamp')
        /\ clock' = clock /\ reads' = reads /\ began' = began /\ ticks' = ticks
    BY <1>7 DEF get_unix_timestamp
  <2>2. ASSUME ticks = 0 PROVE shown' = began
    <3>1. stamp' = TimeOf(began)
      BY <1>7, <2>2, ExactStamp
    <3>2. ms_to_iso8601(TimeOf(began)) = began
      BY DateAt DEF ExactInv, CalendarInv
    <3> QED BY <2>1, <3>1, <3>2, Zenon
  <2> QED BY <1>1, <2>1, <2>2 DEF ExactInv
<1>8. CASE hcf \/ UNCHANGED vars
  BY <1>1, <1>8 DEF hcf, vars, ExactInv
<1> QED BY <1>2, <1>3, <1>4, <1>5, <1>6, <1>7, <1>8 DEF Next

\* When no second passes during a call, the time command shows the instant it was given
\* at: the registers' digits, their count and the date made of it lose nothing.
THEOREM ShownExactAlways ==
  ASSUME YearsRead
  PROVE  Spec => []ShownExact
<1>1. ExactInv => ShownExact
  BY DEF ExactInv, ShownExact
<1> QED BY <1>1, ExactInit, ExactStep, PTL DEF Spec

-----------------------------------------------------------------------------
(* A call that goes over a carry.                                          *)

\* Two instants of one day.
SameDate(c, n) == n.year = c.year /\ n.month = c.month /\ n.day = c.day

\* The day after an instant.
LEMMA NextDayAt ==
  ASSUME NEW b \in Instants
  PROVE  DayAfter(b.year, b.month, b.day, NextDay(b).year, NextDay(b).month, NextDay(b).day)
<1>1. PICK y, m, d, h, mi, s :
        b = Fields(y, m, d, h, mi, s) /\ DateInRange(y, m, d) /\ TimeInRange(h, mi, s)
  BY InstantParts, Zenon
<1>2. PICK y2 \in Int, m2 \in Int, d2 \in Int :
        DayAfter(y, m, d, y2, m2, d2) /\ LeadsTo(y, m, d, y2, m2, d2)
  BY <1>1, NextDate, Zenon
<1>3. NextDay(b) = Fields(y2, m2, d2, h, mi, s)
  BY <1>1, <1>2, RangeTypes, Zenon DEF LeadsTo
<1>4. b.year = y /\ b.month = m /\ b.day = d
  BY <1>1 DEF Fields
<1>5. NextDay(b).year = y2 /\ NextDay(b).month = m2 /\ NextDay(b).day = d2
  BY <1>3 DEF Fields
<1> QED BY <1>2, <1>4, <1>5, Zenon

\* A second after an instant: on its day, or at the start of the day after.
TickFrom(c, n) ==
  \/ SameDate(c, n) /\ SecondAfter(c.hour, c.minute, c.second, n.hour, n.minute, n.second)
  \/ /\ SameDate(NextDay(c), n) /\ n.hour = 0 /\ n.minute = 0 /\ n.second = 0
     /\ LastSecond(c.hour, c.minute, c.second)

\* So it is for NextSecond; the day after is that of any other instant of the day.
LEMMA TickAt ==
  ASSUME NEW c \in Instants
  PROVE  /\ TickFrom(c, NextSecond(c))
         /\ \A b \in Instants : SameDate(b, c) => SameDate(NextDay(b), NextDay(c))
<1>1. PICK y, m, d, h, mi, s :
        c = Fields(y, m, d, h, mi, s) /\ DateInRange(y, m, d) /\ TimeInRange(h, mi, s)
  BY InstantParts, Zenon
<1>2. PICK y2 \in Int, m2 \in Int, d2 \in Int :
        DayAfter(y, m, d, y2, m2, d2) /\ LeadsTo(y, m, d, y2, m2, d2)
  BY <1>1, NextDate, Zenon
<1>3. c.year = y /\ c.month = m /\ c.day = d /\ c.hour = h /\ c.minute = mi /\ c.second = s
  BY <1>1 DEF Fields
<1>4. NextDay(c) = Fields(y2, m2, d2, h, mi, s)
  BY <1>1, <1>2, RangeTypes, Zenon DEF LeadsTo
<1>5. NextDay(c).year = y2 /\ NextDay(c).month = m2 /\ NextDay(c).day = d2
  BY <1>4 DEF Fields
<1>6. TickIs(c, y, m, d, h, mi, s, y2, m2, d2)
  BY <1>1, <1>2, TickFields, Zenon
<1>7. ASSUME \E h2, mi2, s2 : /\ NextSecond(c) = Fields(y, m, d, h2, mi2, s2)
                              /\ SecondAfter(h, mi, s, h2, mi2, s2)
      PROVE  TickFrom(c, NextSecond(c))
  <2>1. PICK h2, mi2, s2 : /\ NextSecond(c) = Fields(y, m, d, h2, mi2, s2)
                           /\ SecondAfter(h, mi, s, h2, mi2, s2)
    BY <1>7, Zenon
  <2>2. LET n == NextSecond(c)
        IN  /\ n.year = y /\ n.month = m /\ n.day = d
            /\ n.hour = h2 /\ n.minute = mi2 /\ n.second = s2
    BY <2>1 DEF Fields
  <2> QED BY <1>3, <2>1, <2>2, Zenon DEF TickFrom, SameDate
<1>8. ASSUME NextSecond(c) = Fields(y2, m2, d2, 0, 0, 0), LastSecond(h, mi, s)
      PROVE  TickFrom(c, NextSecond(c))
  <2>1. LET n == NextSecond(c)
        IN  /\ n.year = y2 /\ n.month = m2 /\ n.day = d2
            /\ n.hour = 0 /\ n.minute = 0 /\ n.second = 0
    BY <1>8 DEF Fields
  <2> QED BY <1>3, <1>5, <1>8, <2>1, Zenon DEF TickFrom, SameDate
<1>9. TickFrom(c, NextSecond(c))
  BY <1>6, <1>7, <1>8, Zenon DEF TickIs
<1>10. ASSUME NEW b \in Instants, SameDate(b, c) PROVE SameDate(NextDay(b), NextDay(c))
  <2>1. PICK h1, mi1, s1 : b = Fields(y, m, d, h1, mi1, s1) /\ TimeInRange(h1, mi1, s1)
    <3>1. PICK yb, mb, db, h1, mi1, s1 :
            b = Fields(yb, mb, db, h1, mi1, s1) /\ DateInRange(yb, mb, db) /\ TimeInRange(h1, mi1, s1)
      BY InstantParts, Zenon
    <3>2. yb = b.year /\ mb = b.month /\ db = b.day
      BY <3>1 DEF Fields
    <3>3. yb = y /\ mb = m /\ db = d
      BY <1>3, <1>10, <3>2, Zenon DEF SameDate
    <3> QED BY <3>1, <3>3, Zenon
  <2>2. NextDay(b) = Fields(y2, m2, d2, h1, mi1, s1)
    BY <1>1, <1>2, <2>1, RangeTypes, Zenon DEF LeadsTo
  <2>3. NextDay(b).year = y2 /\ NextDay(b).month = m2 /\ NextDay(b).day = d2
    BY <2>2 DEF Fields
  <2> QED BY <1>5, <2>3, Zenon DEF SameDate
<1> QED BY <1>9, <1>10, Zenon

\* A field that was read, or the clock's as long as it was not.
Taken(rs, j, v, now) ==
  IF Len(rs) >= Skipped + j THEN rs[Skipped + j] = Bcd(v) ELSE v = now
YearTaken(rs, y, now) ==
  IF Len(rs) >= Skipped + 6 THEN rs[Skipped + 6] = Bcd(y % 100) ELSE y = now

\* The time that the fields read so far make with the clock's others.
Mixed(rs, c, y, m, d, h, mi, s) ==
  /\ Taken(rs, 1, s, c.second) /\ Taken(rs, 2, mi, c.minute) /\ Taken(rs, 3, h, c.hour)
  /\ Taken(rs, 4, d, c.day) /\ Taken(rs, 5, m, c.month) /\ YearTaken(rs, y, c.year)

\* On the day the call began the mixed time has its date and is not before it.
StillToday(b, c, k, y, m, d, h, mi, s) ==
  /\ SameDate(b, c) /\ SecondOfDay(c) = SecondOfDay(b) + k
  /\ y = b.year /\ m = b.month /\ d = b.day
  /\ Clocked(h, mi, s) >= SecondOfDay(b)

\* A mixed date, on the day after: that day's, or the first day's up to a field.
MixedDate(b, n, y, m, d, late) ==
  \/ y = n.year /\ m = n.month /\ d = n.day
  \/ /\ d = b.day /\ late
     /\ (m = n.month /\ y = n.year) \/ (m = b.month /\ (y = b.year \/ y = n.year))
DayLater(b, c, k, y, m, d, h, mi, s) ==
  /\ SameDate(NextDay(b), c) /\ SecondOfDay(c) + DAY = SecondOfDay(b) + k
  /\ MixedDate(b, NextDay(b), y, m, d, Clocked(h, mi, s) >= SecondOfDay(b))

\* What was read until k seconds after the call began.
Progress(rs, b, c, k) ==
  \E y, m, d, h, mi, s :
    /\ TimeInRange(h, mi, s)
    /\ Mixed(rs, c, y, m, d, h, mi, s)
    /\ StillToday(b, c, k, y, m, d, h, mi, s) \/ DayLater(b, c, k, y, m, d, h, mi, s)

\* The time of day of an instant, in seconds.
LEMMA SecondsAt ==
  ASSUME NEW c \in Instants
  PROVE  /\ SecondOfDay(c) = Clocked(c.hour, c.minute, c.second)
         /\ SecondOfDay(c) \in Int /\ SecondOfDay(c) >= 0 /\ SecondOfDay(c) < DAY
         /\ TimeInRange(c.hour, c.minute, c.second)
<1>1. c.hour \in 0 .. 23 /\ c.minute \in 0 .. 59 /\ c.second \in 0 .. 59
  BY InstantFields, Zenon
<1>2. SecondOfDay(c) = Clocked(c.hour, c.minute, c.second)
  BY Zenon DEF SecondOfDay, Clocked
<1>3. TimeParts(Clocked(c.hour, c.minute, c.second), c.hour, c.minute, c.second)
      /\ Clocked(c.hour, c.minute, c.second) \in Int
  BY <1>1, Seconds, Zenon
<1>4. SecondOfDay(c) >= 0 /\ SecondOfDay(c) < DAY
  BY SMT, <1>2, <1>3 DEF TimeParts
<1> QED BY <1>1, <1>2, <1>3, <1>4, Zenon DEF TimeInRange

\* A mixed time on the same date that is not before another.
LaterTime(rs, n, y, m, d, h, mi, s) ==
  \E h2, mi2, s2 : /\ TimeInRange(h2, mi2, s2) /\ Mixed(rs, n, y, m, d, h2, mi2, s2)
                   /\ Clocked(h2, mi2, s2) >= Clocked(h, mi, s)

\* A second on one day: the mixed time does not go back, since the fields that were not
\* read are the slower ones.
LEMMA MixedLater ==
  ASSUME NEW rs, Len(rs) \in Nat, NEW c, NEW n, SameDate(c, n),
         TimeInRange(c.hour, c.minute, c.second),
         SecondAfter(c.hour, c.minute, c.second, n.hour, n.minute, n.second),
         NEW y, NEW m, NEW d, NEW h, NEW mi, NEW s, TimeInRange(h, mi, s),
         Mixed(rs, c, y, m, d, h, mi, s)
  PROVE  LaterTime(rs, n, y, m, d, h, mi, s)
<1> USE DEF LaterTime
<1>1. /\ Taken(rs, 1, s, c.second) /\ Taken(rs, 2, mi, c.minute) /\ Taken(rs, 3, h, c.hour)
      /\ Taken(rs, 4, d, n.day) /\ Taken(rs, 5, m, n.month) /\ YearTaken(rs, y, n.year)
  BY Zenon DEF Mixed, SameDate
<1>2. PICK h1, mi1, s1, h2, mi2, s2 :
        /\ h1 = c.hour /\ mi1 = c.minute /\ s1 = c.second
        /\ h2 = n.hour /\ mi2 = n.minute /\ s2 = n.second
  OBVIOUS
<1>3. TimeInRange(h1, mi1, s1) /\ SecondAfter(h1, mi1, s1, h2, mi2, s2) /\ TimeInRange(h2, mi2, s2)
  BY <1>2, Zenon DEF SecondAfter
<1>4. /\ Clocked(h2, mi2, s2) = Clocked(h1, mi1, s1) + 1
      /\ h2 >= h1 /\ 60 * h2 + mi2 >= 60 * h1 + mi1
  BY <1>3, Zenon DEF SecondAfter
<1>5. Skipped \in Int
  BY OrderIs
<1>6. CASE Len(rs) < Skipped + 1
  <2>1. /\ Taken(rs, 1, s2, s2) /\ Taken(rs, 2, mi2, mi2) /\ Taken(rs, 3, h2, h2)
        /\ s = s1 /\ mi = mi1 /\ h = h1
    BY <1>1, <1>2, <1>5, <1>6 DEF Taken
  <2>2. Clocked(h2, mi2, s2) >= Clocked(h, mi, s)
    BY SMT, <1>3, <1>4, <2>1 DEF Clocked, TimeInRange
  <2>3. Mixed(rs, n, y, m, d, h2, mi2, s2)
    BY <1>1, <1>2, <2>1, Zenon DEF Mixed
  <2> QED BY <1>3, <2>2, <2>3, Zenon
<1>7. CASE Len(rs) >= Skipped + 1 /\ Len(rs) < Skipped + 2
  <2>1. /\ Taken(rs, 1, s, s2) /\ Taken(rs, 2, mi2, mi2) /\ Taken(rs, 3, h2, h2)
        /\ mi = mi1 /\ h = h1
    BY <1>1, <1>2, <1>5, <1>7 DEF Taken
  <2>2. TimeInRange(h2, mi2, s) /\ Clocked(h2, mi2, s) >= Clocked(h, mi, s)
    BY SMT, <1>3, <1>4, <2>1 DEF Clocked, TimeInRange
  <2>3. Mixed(rs, n, y, m, d, h2, mi2, s)
    BY <1>1, <1>2, <2>1, Zenon DEF Mixed
  <2> QED BY <2>2, <2>3, Zenon
<1>8. CASE Len(rs) >= Skipped + 2 /\ Len(rs) < Skipped + 3
  <2>1. /\ Taken(rs, 1, s, s2) /\ Taken(rs, 2, mi, mi2) /\ Taken(rs, 3, h2, h2)
        /\ h = h1
    BY <1>1, <1>2, <1>5, <1>8 DEF Taken
  <2>2. TimeInRange(h2, mi, s) /\ Clocked(h2, mi, s) >= Clocked(h, mi, s)
    BY SMT, <1>3, <1>4, <2>1 DEF Clocked, TimeInRange
  <2>3. Mixed(rs, n, y, m, d, h2, mi, s)
    BY <1>1, <1>2, <2>1, Zenon DEF Mixed
  <2> QED BY <2>2, <2>3, Zenon
<1>9. CASE Len(rs) >= Skipped + 3
  <2>1. Taken(rs, 1, s, s2) /\ Taken(rs, 2, mi, mi2) /\ Taken(rs, 3, h, h2)
    BY <1>1, <1>2, <1>5, <1>9 DEF Taken
  <2>2. Clocked(h, mi, s) >= Clocked(h, mi, s)
    BY SMT DEF Clocked, TimeInRange
  <2>3. Mixed(rs, n, y, m, d, h, mi, s)
    BY <1>1, <1>2, <2>1, Zenon DEF Mixed
  <2> QED BY <2>2, <2>3, Zenon
<1>10. \/ Len(rs) < Skipped + 1 \/ Len(rs) >= Skipped + 3
       \/ Len(rs) >= Skipped + 1 /\ Len(rs) < Skipped + 2
       \/ Len(rs) >= Skipped + 2 /\ Len(rs) < Skipped + 3
  BY SMT, <1>5
<1> QED BY <1>6, <1>7, <1>8, <1>9, <1>10, Zenon

\* Midnight: the fields of the date that were read are the first day's, and all those
\* of the time were read before them.
LEMMA MixedMidnight ==
  ASSUME NEW rs, Len(rs) \in Nat, NEW c, NEW b, SameDate(b, c), NEW n, NEW g, SameDate(g, n),
         n.hour = 0, n.minute = 0, n.second = 0,
         NEW h, NEW mi, NEW s, TimeInRange(h, mi, s),
         Mixed(rs, c, b.year, b.month, b.day, h, mi, s),
         Clocked(h, mi, s) >= SecondOfDay(b)
  PROVE  \E y, m, d, h2, mi2, s2 :
           /\ TimeInRange(h2, mi2, s2) /\ Mixed(rs, n, y, m, d, h2, mi2, s2)
           /\ MixedDate(b, g, y, m, d, Clocked(h2, mi2, s2) >= SecondOfDay(b))
<1>1. /\ Taken(rs, 1, s, c.second) /\ Taken(rs, 2, mi, c.minute) /\ Taken(rs, 3, h, c.hour)
      /\ Taken(rs, 4, b.day, c.day) /\ Taken(rs, 5, b.month, c.month) /\ YearTaken(rs, b.year, c.year)
  BY Zenon DEF Mixed
<1>2. PICK y0, m0, d0, y2, m2, d2 :
        /\ y0 = b.year /\ m0 = b.month /\ d0 = b.day
        /\ y2 = n.year /\ m2 = n.month /\ d2 = n.day
        /\ y2 = g.year /\ m2 = g.month /\ d2 = g.day
  BY Zenon DEF SameDate
<1>3. Skipped \in Int
  BY OrderIs
<1>4. CASE Len(rs) < Skipped + 4
  <2> DEFINE s2 == IF Len(rs) >= Skipped + 1 THEN s ELSE 0
             mi2 == IF Len(rs) >= Skipped + 2 THEN mi ELSE 0
             h2 == IF Len(rs) >= Skipped + 3 THEN h ELSE 0
  <2>1. TimeInRange(h2, mi2, s2)
    BY SMT DEF TimeInRange
  <2>2. Taken(rs, 1, s2, 0) /\ Taken(rs, 2, mi2, 0) /\ Taken(rs, 3, h2, 0)
    BY <1>1 DEF Taken
  <2>3. Taken(rs, 4, d2, d2) /\ Taken(rs, 5, m2, m2) /\ YearTaken(rs, y2, y2)
    BY <1>3, <1>4 DEF Taken, YearTaken
  <2> HIDE DEF s2, mi2, h2
  <2>4. Mixed(rs, n, y2, m2, d2, h2, mi2, s2)
    BY <1>2, <2>2, <2>3, Zenon DEF Mixed
  <2>5. MixedDate(b, g, y2, m2, d2, Clocked(h2, mi2, s2) >= SecondOfDay(b))
    BY <1>2, Zenon DEF MixedDate
  <2> QED BY <2>1, <2>4, <2>5, Zenon
<1>5. CASE Len(rs) >= Skipped + 4
  <2>1. Taken(rs, 1, s, 0) /\ Taken(rs, 2, mi, 0) /\ Taken(rs, 3, h, 0) /\ Taken(rs, 4, d0, d2)
    BY <1>1, <1>2, <1>3, <1>5 DEF Taken
  <2>2. CASE Len(rs) < Skipped + 5
    <3>1. Taken(rs, 5, m2, m2) /\ YearTaken(rs, y2, y2)
      BY <1>3, <2>2 DEF Taken, YearTaken
    <3>2. Mixed(rs, n, y2, m2, d0, h, mi, s)
      BY <1>2, <2>1, <3>1, Zenon DEF Mixed
    <3>3. MixedDate(b, g, y2, m2, d0, Clocked(h, mi, s) >= SecondOfDay(b))
      BY <1>2, Zenon DEF MixedDate
    <3> QED BY <3>2, <3>3, Zenon
  <2>3. CASE Len(rs) >= Skipped + 5 /\ Len(rs) < Skipped + 6
    <3>1. Taken(rs, 5, m0, m2) /\ YearTaken(rs, y2, y2)
      BY <1>1, <1>2, <1>3, <2>3 DEF Taken, YearTaken
    <3>2. Mixed(rs, n, y2, m0, d0, h, mi, s)
      BY <1>2, <2>1, <3>1, Zenon DEF Mixed
    <3>3. MixedDate(b, g, y2, m0, d0, Clocked(h, mi, s) >= SecondOfDay(b))
      BY <1>2, Zenon DEF MixedDate
    <3> QED BY <3>2, <3>3, Zenon
  <2>4. CASE Len(rs) >= Skipped + 6
    <3>1. Taken(rs, 5, m0, m2) /\ YearTaken(rs, y0, y2)
      BY <1>1, <1>2, <1>3, <2>4 DEF Taken, YearTaken
    <3>2. Mixed(rs, n, y0, m0, d0, h, mi, s)
      BY <1>2, <2>1, <3>1, Zenon DEF Mixed
    <3>3. MixedDate(b, g, y0, m0, d0, Clocked(h, mi, s) >= SecondOfDay(b))
      BY <1>2, Zenon DEF MixedDate
    <3> QED BY <3>2, <3>3, Zenon
  <2>5. Len(rs) < Skipped + 5 \/ Len(rs) >= Skipped + 6 \/ (Len(rs) >= Skipped + 5 /\ Len(rs) < Skipped + 6)
    BY SMT, <1>3
  <2> QED BY <2>2, <2>3, <2>4, <2>5, Zenon
<1>6. Len(rs) < Skipped + 4 \/ Len(rs) >= Skipped + 4
  BY SMT, <1>3
<1> QED BY <1>4, <1>5, <1>6, Zenon

\* A second passes: the mixed time is still not before the call.
LEMMA TickProgress ==
  ASSUME NEW b \in Instants, NEW c \in Instants, NEW rs, Len(rs) \in Nat,
         NEW k \in Nat, k < DAY, Progress(rs, b, c, k),
         NEW n, n = NextSecond(c), n \in Instants
  PROVE  Progress(rs, b, n, k + 1)
<1>1. PICK y, m, d, h, mi, s :
        /\ TimeInRange(h, mi, s)
        /\ Mixed(rs, c, y, m, d, h, mi, s)
        /\ StillToday(b, c, k, y, m, d, h, mi, s) \/ DayLater(b, c, k, y, m, d, h, mi, s)
  BY Zenon DEF Progress
<1>2. /\ SecondOfDay(c) \in Int /\ SecondOfDay(b) \in Int /\ SecondOfDay(n) \in Int
      /\ SecondOfDay(b) >= 0 /\ SecondOfDay(b) < DAY
      /\ SecondOfDay(c) = Clocked(c.hour, c.minute, c.second)
      /\ SecondOfDay(n) = Clocked(n.hour, n.minute, n.second)
      /\ TimeInRange(c.hour, c.minute, c.second)
  BY SecondsAt, Zenon
<1>3. DAY \in Int
  BY SMT DEF DAY
<1>4. TickFrom(c, n)
  BY TickAt, Zenon
<1>5. CASE SameDate(c, n) /\ SecondAfter(c.hour, c.minute, c.second, n.hour, n.minute, n.second)
  <2>1. PICK h2, mi2, s2 : /\ TimeInRange(h2, mi2, s2) /\ Mixed(rs, n, y, m, d, h2, mi2, s2)
                           /\ Clocked(h2, mi2, s2) >= Clocked(h, mi, s)
    <3>1. TimeInRange(c.hour, c.minute, c.second)
      BY <1>2
    <3>2. TimeInRange(h, mi, s) /\ Mixed(rs, c, y, m, d, h, mi, s)
      BY <1>1
    <3>3. LaterTime(rs, n, y, m, d, h, mi, s)
      BY <1>5, <3>1, <3>2, MixedLater, Zenon
    <3> QED BY <3>3, Zenon DEF LaterTime
  <2>2. SecondOfDay(n) = SecondOfDay(c) + 1
    BY <1>2, <1>5, Zenon DEF SecondAfter
  <2>3. Clocked(h, mi, s) >= SecondOfDay(b) => Clocked(h2, mi2, s2) >= SecondOfDay(b)
    <3>1. Clocked(h, mi, s) \in Int /\ Clocked(h2, mi2, s2) \in Int
      BY <1>1, <2>1, Seconds, Zenon DEF TimeInRange
    <3> QED BY SMT, <1>2, <2>1, <3>1
  <2>4. CASE StillToday(b, c, k, y, m, d, h, mi, s)
    <3>1. SecondOfDay(n) = SecondOfDay(b) + (k + 1)
      <4>1. SecondOfDay(c) = SecondOfDay(b) + k
        BY <2>4, Zenon DEF StillToday
      <4> QED BY SMT, <1>2, <2>2, <4>1
    <3>2. SameDate(b, n)
      BY <1>5, <2>4, Zenon DEF StillToday, SameDate
    <3>3. StillToday(b, n, k + 1, y, m, d, h2, mi2, s2)
      BY <2>3, <2>4, <3>1, <3>2, Zenon DEF StillToday
    <3> QED BY <2>1, <3>3, Zenon DEF Progress
  <2>5. CASE DayLater(b, c, k, y, m, d, h, mi, s)
    <3>1. SecondOfDay(n) + DAY = SecondOfDay(b) + (k + 1)
      <4>1. SecondOfDay(c) + DAY = SecondOfDay(b) + k
        BY <2>5, Zenon DEF DayLater
      <4> QED BY SMT, <1>2, <1>3, <2>2, <4>1
    <3>2. SameDate(NextDay(b), n)
      BY <1>5, <2>5, Zenon DEF DayLater, SameDate
    <3>3. MixedDate(b, NextDay(b), y, m, d, Clocked(h2, mi2, s2) >= SecondOfDay(b))
      BY <2>3, <2>5, Zenon DEF DayLater, MixedDate
    <3>4. DayLater(b, n, k + 1, y, m, d, h2, mi2, s2)
      BY <3>1, <3>2, <3>3, Zenon DEF DayLater
    <3> QED BY <2>1, <3>4, Zenon DEF Progress
  <2> QED BY <1>1, <2>4, <2>5, Zenon
<1>6. CASE /\ SameDate(NextDay(c), n) /\ n.hour = 0 /\ n.minute = 0 /\ n.second = 0
           /\ LastSecond(c.hour, c.minute, c.second)
  <2>1. SecondOfDay(c) = DAY - 1
    BY <1>2, <1>6, Zenon DEF LastSecond
  <2>2. SecondOfDay(n) = 0
    BY SMT, <1>6 DEF SecondOfDay
  <2>3. StillToday(b, c, k, y, m, d, h, mi, s)
    <3>1. ASSUME SecondOfDay(c) + DAY = SecondOfDay(b) + k PROVE FALSE
      BY SMT, <1>2, <1>3, <2>1, <3>1
    <3> QED BY <1>1, <3>1, Zenon DEF DayLater
  <2>4. SecondOfDay(n) + DAY = SecondOfDay(b) + (k + 1)
    <3>1. SecondOfDay(c) = SecondOfDay(b) + k
      BY <2>3, Zenon DEF StillToday
    <3> QED BY SMT, <1>2, <1>3, <2>1, <2>2, <3>1
  <2>5. SameDate(b, c) /\ Mixed(rs, c, b.year, b.month, b.day, h, mi, s)
        /\ Clocked(h, mi, s) >= SecondOfDay(b)
    BY <1>1, <2>3, Zenon DEF StillToday
  <2>6. SameDate(NextDay(b), n)
    <3>1. SameDate(NextDay(b), NextDay(c))
      BY <2>5, TickAt, Zenon
    <3> QED BY <1>6, <3>1, Zenon DEF SameDate
  <2>7. PICK y2, m2, d2, h2, mi2, s2 :
          /\ TimeInRange(h2, mi2, s2) /\ Mixed(rs, n, y2, m2, d2, h2, mi2, s2)
          /\ MixedDate(b, NextDay(b), y2, m2, d2, Clocked(h2, mi2, s2) >= SecondOfDay(b))
    BY <1>1, <1>6, <2>5, <2>6, MixedMidnight, Zenon
  <2>8. DayLater(b, n, k + 1, y2, m2, d2, h2, mi2, s2)
    BY <2>4, <2>6, <2>7, Zenon DEF DayLater
  <2> QED BY <2>7, <2>8, Zenon DEF Progress
<1> QED BY <1>4, <1>5, <1>6, Zenon DEF TickFrom

\* A field stays as it was when a register is read: it was read before, or the clock's
\* is read now, or it is still to be read.
LEMMA TakenRead ==
  ASSUME NEW rs \in Seq(Nat), NEW x \in Nat, NEW j \in 1 .. 6, NEW v, NEW now,
         Len(rs) + 1 = Skipped + j => x = Bcd(now), Taken(rs, j, v, now)
  PROVE  Taken(Append(rs, x), j, v, now)
<1>1. Skipped \in 0 .. 1
  BY OrderIs
<1>2. PICK t : t = Append(rs, x)
  OBVIOUS
<1>3. /\ Len(rs) \in Nat /\ Len(t) = Len(rs) + 1 /\ t[Len(rs) + 1] = x
      /\ \A i \in 1 .. Len(rs) : t[i] = rs[i]
  BY <1>2
<1>4. Taken(t, j, v, now)
  BY SMT, <1>1, <1>3 DEF Taken
<1> QED BY <1>2, <1>4, Zenon

\* So does the year.
LEMMA YearTakenRead ==
  ASSUME NEW rs \in Seq(Nat), NEW x \in Nat, NEW y, NEW now,
         Len(rs) + 1 = Skipped + 6 => x = Bcd(now % 100), YearTaken(rs, y, now)
  PROVE  YearTaken(Append(rs, x), y, now)
<1>1. Skipped \in 0 .. 1
  BY OrderIs
<1>2. PICK t : t = Append(rs, x)
  OBVIOUS
<1>3. /\ Len(rs) \in Nat /\ Len(t) = Len(rs) + 1 /\ t[Len(rs) + 1] = x
      /\ \A i \in 1 .. Len(rs) : t[i] = rs[i]
  BY <1>2
<1>4. YearTaken(t, y, now)
  BY SMT, <1>1, <1>3 DEF YearTaken
<1> QED BY <1>2, <1>4, Zenon

\* A register is read: the mixed time stays as it was.
LEMMA ReadProgress ==
  ASSUME ExactInv, read_cmos_reg, Progress(reads, began, clock, ticks)
  PROVE  Progress(reads', began, clock, ticks)
<1>1. PICK y, m, d, h, mi, s :
        /\ TimeInRange(h, mi, s)
        /\ Mixed(reads, clock, y, m, d, h, mi, s)
        /\ \/ StillToday(began, clock, ticks, y, m, d, h, mi, s)
           \/ DayLater(began, clock, ticks, y, m, d, h, mi, s)
  BY Zenon DEF Progress
<1>2. PICK x : x = Register(Order[Len(reads) + 1]) /\ reads' = Append(reads, x)
  BY DEF read_cmos_reg
<1>3. reads \in Seq(Nat) /\ Len(reads) \in Nat /\ clock \in Instants /\ Len(reads) < Len(Order)
  BY DEF ExactInv, CalendarInv, read_cmos_reg
<1>4. Skipped \in 0 .. 1 /\ Len(Order) = Skipped + 6
  BY OrderIs
<1>5. x \in Nat
  <2>1. Len(reads) + 1 \in 1 .. Len(Order)
    BY SMT, <1>3, <1>4
  <2> QED BY <1>2, <1>3, <2>1, RegisterType
<1>6. PICK yc, mc, dc, hc, mic, sc :
        /\ clock = Fields(yc, mc, dc, hc, mic, sc)
        /\ DateInRange(yc, mc, dc) /\ TimeInRange(hc, mic, sc)
  BY <1>3, InstantParts, Zenon
<1>7. /\ clock.year = yc /\ clock.month = mc /\ clock.day = dc
      /\ clock.hour = hc /\ clock.minute = mic /\ clock.second = sc
  BY <1>6 DEF Fields
<1>8. /\ Register("second") = Bcd(sc) /\ Register("minute") = Bcd(mic)
      /\ Register("hour") = Bcd(hc) /\ Register("day") = Bcd(dc)
      /\ Register("month") = Bcd(mc) /\ Register("year") = Bcd(yc % 100)
      /\ Register("century") = Bcd(yc \div 100)
  BY <1>6, Registers, Zenon
<1>9. /\ Len(reads) + 1 = Skipped + 1 => x = Bcd(sc)
      /\ Len(reads) + 1 = Skipped + 2 => x = Bcd(mic)
      /\ Len(reads) + 1 = Skipped + 3 => x = Bcd(hc)
      /\ Len(reads) + 1 = Skipped + 4 => x = Bcd(dc)
      /\ Len(reads) + 1 = Skipped + 5 => x = Bcd(mc)
      /\ Len(reads) + 1 = Skipped + 6 => x = Bcd(yc % 100)
  BY <1>2, <1>8, OrderIs, Zenon
<1>10. /\ Taken(reads, 1, s, sc) /\ Taken(reads, 2, mi, mic) /\ Taken(reads, 3, h, hc)
       /\ Taken(reads, 4, d, dc) /\ Taken(reads, 5, m, mc) /\ YearTaken(reads, y, yc)
  BY <1>1, <1>7, Zenon DEF Mixed
<1>11. /\ 1 \in 1 .. 6 /\ 2 \in 1 .. 6 /\ 3 \in 1 .. 6 /\ 4 \in 1 .. 6 /\ 5 \in 1 .. 6
  OBVIOUS
<1>12. /\ Taken(reads', 1, s, sc) /\ Taken(reads', 2, mi, mic) /\ Taken(reads', 3, h, hc)
       /\ Taken(reads', 4, d, dc) /\ Taken(reads', 5, m, mc)
  BY <1>2, <1>3, <1>5, <1>9, <1>10, <1>11, TakenRead, Zenon
<1>13. YearTaken(reads', y, yc)
  BY <1>2, <1>3, <1>5, <1>9, <1>10, YearTakenRead, Zenon
<1>14. Mixed(reads', clock, y, m, d, h, mi, s)
  BY <1>7, <1>12, <1>13, Zenon DEF Mixed
<1> QED BY <1>1, <1>14, Zenon DEF Progress

\* The dates a call over midnight can mix are not before the first day's.
NoEarlierDate(y, m, d, y2, m2, d2) ==
  /\ DateDays(y2, m2, d2) > DateDays(y, m, d)
  /\ DateDays(y2, m2, d) >= DateDays(y, m, d)
  /\ DateDays(y2, m, d) >= DateDays(y, m, d)

\* They are dates of the next day, month or year, or the first day's.
LEMMA MixedDates ==
  ASSUME NEW y, NEW m, NEW d, DateInRange(y, m, d),
         NEW y2, NEW m2, NEW d2, DayAfter(y, m, d, y2, m2, d2)
  PROVE  NoEarlierDate(y, m, d, y2, m2, d2)
<1>1. y \in Nat /\ y >= 1 /\ m \in 1 .. 12 /\ d \in 1 .. 31
  BY SMT, ClockAssumption DEF DateInRange, FirstYear
<1>2. /\ YearDays(y) \in Int /\ YearDays(y + 1) \in Int
      /\ YearDays(y + 1) = YearDays(y) + DaysInYear(y)
  <2>1. y + 1 \in Nat /\ y + 1 >= 1
    BY SMT, <1>1
  <2> QED BY <1>1, <2>1, NextYearDays, Zenon
<1>3. DaysInYear(y) \in 365 .. 366 /\ DaysInYear(y + 1) \in 365 .. 366
  BY SMT DEF DaysInYear
<1>4. DaysInMonth(y, m) \in 28 .. 31 /\ DaysInMonth(y, 12) = 31 /\ DaysInMonth(y + 1, 12) = 31
  BY SMT DEF DaysInMonth
<1>5. /\ MonthDays(y, m) \in Nat
      /\ m < 12 => MonthDays(y, m + 1) = MonthDays(y, m) + DaysInMonth(y, m)
      /\ m = 12 => MonthDays(y, m) + 31 = DaysInYear(y)
  <2>1. m < 12 => m \in 1 .. 11
    BY SMT, <1>1
  <2> QED BY <1>1, <1>4, <2>1, NextMonthDays, Zenon
<1>6. /\ MonthDays(y + 1, 1) = 0
      /\ MonthDays(y + 1, 12) \in Nat /\ MonthDays(y + 1, 12) + 31 = DaysInYear(y + 1)
  <2>1. y + 1 \in Nat /\ 12 \in 1 .. 12
    BY SMT, <1>1
  <2> QED BY <1>4, <2>1, NextMonthDays, Zenon
<1>7. CASE y2 = y /\ m2 = m /\ d2 = d + 1
  BY SMT, <1>1, <1>2, <1>5, <1>7 DEF NoEarlierDate, DateDays
<1>8. CASE y2 = y /\ m2 = m + 1 /\ d2 = 1 /\ d = DaysInMonth(y, m) /\ m < 12
  BY SMT, <1>1, <1>2, <1>4, <1>5, <1>8 DEF NoEarlierDate, DateDays
<1>9. CASE y2 = y + 1 /\ m2 = 1 /\ d2 = 1 /\ d = DaysInMonth(y, m) /\ m = 12
  <2>1. MonthDays(y2, m2) = 0 /\ MonthDays(y2, m) + 31 = DaysInYear(y2) /\ MonthDays(y2, m) \in Nat
        /\ DaysInYear(y2) \in 365 .. 366 /\ YearDays(y2) = YearDays(y) + DaysInYear(y)
    BY <1>2, <1>3, <1>6, <1>9, Zenon
  <2>2. d = 31 /\ MonthDays(y, m) + 31 = DaysInYear(y)
    BY <1>4, <1>5, <1>9
  <2> QED BY SMT, <1>1, <1>2, <1>3, <1>5, <1>9, <2>1, <2>2 DEF NoEarlierDate, DateDays
<1> QED BY <1>7, <1>8, <1>9, Zenon DEF DayAfter

\* What get_unix_timestamp makes of a mixed time, in the years that are read back.
LEMMA MixedStamp ==
  ASSUME get_unix_timestamp, Len(reads) = Len(Order),
         NEW y \in FirstYear .. LastYear, NEW m \in 1 .. 12, NEW d \in 1 .. 31,
         NEW h, NEW mi, NEW s, TimeInRange(h, mi, s), Mixed(reads, clock, y, m, d, h, mi, s),
         y % 100 >= 10, Read("century") = Bcd(y \div 100)
  PROVE  stamp' = [days |-> DateDays(y, m, d), secs |-> Clocked(h, mi, s)]
<1>1. Skipped \in 0 .. 1 /\ Len(reads) = Skipped + 6
  BY OrderIs
<1>2. /\ Len(reads) >= Skipped + 1 /\ Len(reads) >= Skipped + 2 /\ Len(reads) >= Skipped + 3
      /\ Len(reads) >= Skipped + 4 /\ Len(reads) >= Skipped + 5 /\ Len(reads) >= Skipped + 6
  BY SMT, <1>1
<1>3. /\ reads[Skipped + 1] = Bcd(s) /\ reads[Skipped + 2] = Bcd(mi) /\ reads[Skipped + 3] = Bcd(h)
      /\ reads[Skipped + 4] = Bcd(d) /\ reads[Skipped + 5] = Bcd(m)
      /\ reads[Skipped + 6] = Bcd(y % 100)
  BY <1>2, Zenon DEF Mixed, Taken, YearTaken
<1>4. /\ Read("second") = Bcd(s) /\ Read("minute") = Bcd(mi) /\ Read("hour") = Bcd(h)
      /\ Read("day") = Bcd(d) /\ Read("month") = Bcd(m) /\ Read("year") = Bcd(y % 100)
  BY <1>3, ReadIs, Zenon
<1>5. PICK c \in 10 .. 99, yy \in 10 .. 99 : c = y \div 100 /\ yy = y % 100 /\ Joined(c, yy, y)
  BY YearDigits
<1>6. Joined(c, yy, y) /\ Read("century") = Bcd(c) /\ Read("year") = Bcd(yy)
  BY <1>4, <1>5
<1>7. y \in Nat /\ y >= FirstYear
  BY SMT, ClockAssumption DEF FirstYear
<1> QED BY <1>4, <1>6, <1>7, StampIs, Zenon

\* The day after a call is in the same century, and its year is read back as it is.
LEMMA CenturyKept ==
  ASSUME YearsRead, CallsShort, NEW b \in Instants, b \in Calls,
         NEW y, y = b.year \/ y = NextDay(b).year
  PROVE  y \div 100 = b.year \div 100 /\ y % 100 >= 10
<1>1. PICK y0, m0, d0, y2, m2, d2 :
        /\ y0 = b.year /\ m0 = b.month /\ d0 = b.day
        /\ y2 = NextDay(b).year /\ m2 = NextDay(b).month /\ d2 = NextDay(b).day
  OBVIOUS
<1>2. y0 % 100 >= 10 /\ ~(y0 % 100 = 99 /\ m0 = 12 /\ d0 = 31)
  BY <1>1, Zenon DEF YearsRead, CallsShort
<1>3. y0 \in Nat
  BY <1>1, InstantFields, Zenon
<1>4. DayAfter(y0, m0, d0, y2, m2, d2)
  BY <1>1, NextDayAt, Zenon
<1>5. y2 = y0 \/ (y2 = y0 + 1 /\ y0 % 100 # 99)
  BY <1>2, <1>4 DEF DayAfter, DaysInMonth
<1>6. y2 = y0 + 1 /\ y0 % 100 # 99 => y2 \div 100 = y0 \div 100 /\ y2 % 100 >= 10
  BY SMT, <1>2, <1>3
<1> QED BY <1>1, <1>2, <1>5, <1>6, Zenon

\* A call begins: the clock shows the fields it began with.
LEMMA FirstProgress ==
  ASSUME NEW b \in Instants, NEW rs, Len(rs) = 0
  PROVE  Progress(rs, b, b, 0)
<1>1. Skipped \in 0 .. 1
  BY OrderIs
<1>2. Mixed(rs, b, b.year, b.month, b.day, b.hour, b.minute, b.second)
  BY <1>1 DEF Mixed, Taken, YearTaken
<1>3. /\ SecondOfDay(b) = Clocked(b.hour, b.minute, b.second) /\ SecondOfDay(b) \in Int
      /\ TimeInRange(b.hour, b.minute, b.second)
  BY SecondsAt, Zenon
<1>4. SecondOfDay(b) = SecondOfDay(b) + 0 /\ SecondOfDay(b) >= SecondOfDay(b)
  BY SMT, <1>3
<1>5. StillToday(b, b, 0, b.year, b.month, b.day, b.hour, b.minute, b.second)
  BY <1>3, <1>4, Zenon DEF StillToday, SameDate
<1> QED BY <1>2, <1>3, <1>5, Zenon DEF Progress

\* The fields of a mixed date: years of the century, a month and a day.
LEMMA MixedFields ==
  ASSUME NEW b \in Instants, NEW c \in Instants, NEW k,
         NEW y, NEW m, NEW d, NEW h, NEW mi, NEW s,
         StillToday(b, c, k, y, m, d, h, mi, s) \/ DayLater(b, c, k, y, m, d, h, mi, s)
  PROVE  /\ y = b.year \/ y = NextDay(b).year
         /\ y \in FirstYear .. LastYear /\ m \in 1 .. 12 /\ d \in 1 .. 31
<1>1. /\ b.year \in FirstYear .. LastYear /\ b.month \in 1 .. 12 /\ b.day \in 1 .. 31
      /\ c.year \in FirstYear .. LastYear /\ c.month \in 1 .. 12 /\ c.day \in 1 .. 31
  BY SMT DEF Instants
<1>2. CASE StillToday(b, c, k, y, m, d, h, mi, s)
  BY <1>1, <1>2, Zenon DEF StillToday
<1>3. CASE DayLater(b, c, k, y, m, d, h, mi, s)
  BY <1>1, <1>3, Zenon DEF DayLater, SameDate, MixedDate
<1> QED BY <1>2, <1>3, Zenon

\* A mixed time is not before the call.
LEMMA MixedNotBefore ==
  ASSUME NEW b \in Instants, NEW c \in Instants, NEW k,
         NEW y, NEW m, NEW d, NEW h, NEW mi, NEW s,
         StillToday(b, c, k, y, m, d, h, mi, s) \/ DayLater(b, c, k, y, m, d, h, mi, s)
  PROVE  NotAfter(TimeOf(b), [days |-> DateDays(y, m, d), secs |-> Clocked(h, mi, s)])
<1> DEFINE first == DateDays(b.year, b.month, b.day)
<1>1. TimeOf(b) = [days |-> first, secs |-> SecondOfDay(b)]
  BY TimeAt, SecondsAt, Zenon
<1>2. PICK t : t = [days |-> DateDays(y, m, d), secs |-> Clocked(h, mi, s)]
  OBVIOUS
<1>3. t.days = DateDays(y, m, d) /\ t.secs = Clocked(h, mi, s)
  BY <1>2
<1>4. TimeOf(b).days = first /\ TimeOf(b).secs = SecondOfDay(b)
  BY <1>1
<1>5. /\ b.year \in Nat /\ b.month \in 1 .. 12 /\ b.day \in Nat
      /\ first \in Int /\ SecondOfDay(b) \in Int
  BY InstantFields, DateDaysType, SecondsAt, Zenon
<1>6. y \in Nat /\ m \in 1 .. 12 /\ d \in Nat /\ DateDays(y, m, d) \in Int
  <2>1. y \in FirstYear .. LastYear /\ m \in 1 .. 12 /\ d \in 1 .. 31
    BY MixedFields, Zenon
  <2>2. y \in Nat /\ d \in Nat
    BY SMT, <2>1, ClockAssumption DEF FirstYear
  <2> QED BY <2>1, <2>2, DateDaysType, Zenon
<1>7. CASE StillToday(b, c, k, y, m, d, h, mi, s)
  <2>1. DateDays(y, m, d) = first /\ Clocked(h, mi, s) >= SecondOfDay(b)
    BY <1>7, Zenon DEF StillToday
  <2> QED BY <1>2, <1>3, <1>4, <2>1 DEF NotAfter
<1>8. CASE DayLater(b, c, k, y, m, d, h, mi, s)
  <2>1. PICK y2, m2, d2 : y2 = NextDay(b).year /\ m2 = NextDay(b).month /\ d2 = NextDay(b).day
    OBVIOUS
  <2>2. DayAfter(b.year, b.month, b.day, y2, m2, d2)
    BY <2>1, NextDayAt, Zenon
  <2>3. DateInRange(b.year, b.month, b.day)
    BY SMT DEF Instants, DateInRange
  <2>4. NoEarlierDate(b.year, b.month, b.day, y2, m2, d2)
    BY <2>2, <2>3, MixedDates, Zenon
  <2>5. \/ DateDays(y, m, d) > first
        \/ DateDays(y, m, d) >= first /\ Clocked(h, mi, s) >= SecondOfDay(b)
    <3>1. \/ y = y2 /\ m = m2 /\ d = d2
          \/ /\ d = b.day /\ Clocked(h, mi, s) >= SecondOfDay(b)
             /\ (m = m2 /\ y = y2) \/ (m = b.month /\ (y = b.year \/ y = y2))
      BY <1>8, <2>1, Zenon DEF DayLater, MixedDate
    <3>2. first >= first
      BY SMT, <1>5
    <3> QED BY <2>4, <3>1, <3>2, Zenon DEF NoEarlierDate
  <2> HIDE DEF first
  <2>6. first < DateDays(y, m, d) \/ (first = DateDays(y, m, d) /\ SecondOfDay(b) <= Clocked(h, mi, s))
    BY SMT, <1>5, <1>6, <2>5
  <2> QED BY <1>2, <1>3, <1>4, <2>6 DEF NotAfter
<1> QED BY <1>7, <1>8, Zenon

\* What was read of the century is that of the instant the call began at.
CenturyRead(rs, b) == Century /\ Len(rs) >= 1 => rs[1] = Bcd(b.year \div 100)

\* During a call the fields read and those still to be read make a time that is not
\* before the call; afterwards the stamp is not.
BehindInv ==
  /\ ticks <= MaxTicks
  /\ pc = "read" => Progress(reads, began, clock, ticks) /\ CenturyRead(reads, began)
  /\ pc = "done" => NotAfter(TimeOf(began), stamp)

\* The stamp of a call is not before it.
LEMMA BehindStamp ==
  ASSUME YearsRead, CallsShort, ExactInv, BehindInv, get_unix_timestamp
  PROVE  NotAfter(TimeOf(began), stamp')
<1>1. /\ pc = "read" /\ Len(reads) = Len(Order) /\ clock \in Instants /\ began \in Instants
      /\ began \in Calls /\ CenturyRead(reads, began) /\ Progress(reads, began, clock, ticks)
  BY DEF get_unix_timestamp, ExactInv, CalendarInv, BehindInv
<1>2. PICK y, m, d, h, mi, s :
        /\ TimeInRange(h, mi, s)
        /\ Mixed(reads, clock, y, m, d, h, mi, s)
        /\ \/ StillToday(began, clock, ticks, y, m, d, h, mi, s)
           \/ DayLater(began, clock, ticks, y, m, d, h, mi, s)
  BY <1>1, Zenon DEF Progress
<1>3. /\ y = began.year \/ y = NextDay(began).year
      /\ y \in FirstYear .. LastYear /\ m \in 1 .. 12 /\ d \in 1 .. 31
  BY <1>1, <1>2, MixedFields, Zenon
<1>4. y \div 100 = began.year \div 100 /\ y % 100 >= 10
  BY <1>1, <1>3, CenturyKept, Zenon
<1>5. Read("century") = Bcd(y \div 100)
  <2>1. CASE Century
    <3>1. Len(reads) >= 1
      BY <1>1, OrderIs
    <3> QED BY <1>1, <1>4, <2>1, <3>1, ReadIs, Zenon DEF CenturyRead
  <2>2. CASE ~Century
    <3>1. began.year \div 100 = 20
      BY <1>1, <2>2, Zenon DEF YearsRead
    <3> QED BY <1>4, <2>2, <3>1, ReadIs, Zenon
  <2> QED BY <2>1, <2>2
<1>6. stamp' = [days |-> DateDays(y, m, d), secs |-> Clocked(h, mi, s)]
  BY <1>1, <1>2, <1>3, <1>4, <1>5, MixedStamp, Zenon
<1>7. NotAfter(TimeOf(began), [days |-> DateDays(y, m, d), secs |-> Clocked(h, mi, s)])
  BY <1>1, <1>2, MixedNotBefore, Zenon
<1> QED BY <1>6, <1>7, Zenon

\* The century is read while it is that of the call.
LEMMA CenturyStep ==
  ASSUME YearsRead, CallsShort, ExactInv, BehindInv, read_cmos_reg
  PROVE  CenturyRead(reads', began)
<1>1. /\ pc = "read" /\ clock \in Instants /\ began \in Instants /\ began \in Calls
      /\ CenturyRead(reads, began) /\ Progress(reads, began, clock, ticks)
      /\ reads \in Seq(Nat) /\ Len(reads) < Len(Order)
  BY DEF read_cmos_reg, ExactInv, CalendarInv, BehindInv
<1>2. PICK x : x = Register(Order[Len(reads) + 1]) /\ reads' = Append(reads, x)
  BY DEF read_cmos_reg
<1>3. x \in Nat
  <2>1. Len(reads) + 1 \in 1 .. Len(Order)
    BY <1>1, OrderIs
  <2> QED BY <1>1, <1>2, <2>1, RegisterType
<1>4. CASE Len(reads) >= 1
  <2>1. reads'[1] = reads[1]
    BY <1>1, <1>2, <1>3, <1>4
  <2> QED BY <1>1, <1>4, <2>1, Zenon DEF CenturyRead
<1>5. CASE Len(reads) < 1
  <2> SUFFICES ASSUME Century PROVE reads'[1] = Bcd(began.year \div 100)
    BY Zenon DEF CenturyRead
  <2>1. Len(reads) = 0 /\ reads'[1] = x /\ Len(reads) + 1 = 1
    BY <1>1, <1>2, <1>3, <1>5
  <2>2. x = Register("century")
    BY <1>2, <2>1, OrderIs, Zenon
  <2>3. PICK yc, mc, dc, hc, mic, sc :
          /\ clock = Fields(yc, mc, dc, hc, mic, sc)
          /\ DateInRange(yc, mc, dc) /\ TimeInRange(hc, mic, sc)
    BY <1>1, InstantParts, Zenon
  <2>4. clock.year = yc
    BY <2>3 DEF Fields
  <2>5. /\ Register("second") = Bcd(sc) /\ Register("minute") = Bcd(mic)
        /\ Register("hour") = Bcd(hc) /\ Register("day") = Bcd(dc)
        /\ Register("month") = Bcd(mc) /\ Register("year") = Bcd(yc % 100)
        /\ Register("century") = Bcd(yc \div 100)
    BY <2>3, Registers, Zenon
  <2>6. yc = began.year \/ yc = NextDay(began).year
    BY <1>1, <2>4, Zenon DEF Progress, StillToday, DayLater, SameDate
  <2>7. yc \div 100 = began.year \div 100
    BY <1>1, <2>6, CenturyKept, Zenon
  <2> QED BY <2>1, <2>2, <2>5, <2>7, Zenon
<1>6. Len(reads) >= 1 \/ Len(reads) < 1
  BY <1>1
<1> QED BY <1>4, <1>5, <1>6, Zenon

\* Every step keeps it, where a call is short.
LEMMA BehindStep ==
  ASSUME YearsRead, CallsShort, ExactInv, BehindInv, [Next]_vars, ExactInv'
  PROVE  BehindInv'
<1>1. CASE DayPasses
  BY <1>1 DEF DayPasses, BehindInv
<1>2. CASE print_banner
  BY <1>2 DEF print_banner, BehindInv
<1>3. CASE get_formatted_time
  <2>1. /\ pc = "idle" /\ pc' = "read" /\ reads = <<>> /\ ticks = 0 /\ began = clock
        /\ clock \in Instants /\ UNCHANGED <<clock, reads, began, ticks, stamp>>
    BY <1>3 DEF get_formatted_time, ExactInv, CalendarInv
  <2>2. Len(reads) = 0 /\ ~(Len(reads) >= 1)
    BY <2>1
  <2>3. Progress(reads, clock, clock, 0) /\ CenturyRead(reads, clock)
    BY <2>1, <2>2, FirstProgress, Zenon DEF CenturyRead
  <2>4. Progress(reads', began', clock', ticks') /\ CenturyRead(reads', began')
    BY <2>1, <2>3, Zenon
  <2> QED BY <2>1, <2>4 DEF BehindInv
<1>4. CASE Tick
  <2>1. /\ pc = "read" /\ pc' = "read" /\ clock' = NextSecond(clock) /\ ticks' = ticks + 1
        /\ reads' = reads /\ began' = began /\ ticks < MaxTicks
    BY <1>4 DEF Tick
  <2>2. /\ clock \in Instants /\ clock' \in Instants /\ began \in Instants
        /\ Len(reads) \in Nat /\ ticks \in Nat
    BY DEF ExactInv, CalendarInv
  <2>3. ticks < DAY /\ ticks' <= MaxTicks
    <3>1. DAY \in Nat
      BY SMT DEF DAY
    <3> QED BY SMT, <2>1, <2>2, <3>1, ClockAssumption DEF CallsShort
  <2>4. Progress(reads, began, clock, ticks) /\ CenturyRead(reads, began)
    BY <2>1, Zenon DEF BehindInv
  <2>5. Progress(reads, began, clock', ticks + 1)
    BY <2>1, <2>2, <2>3, <2>4, TickProgress, Zenon
  <2>6. Progress(reads', began', clock', ticks') /\ CenturyRead(reads', began')
    BY <2>1, <2>4, <2>5, Zenon
  <2> QED BY <2>1, <2>3, <2>6 DEF BehindInv
<1>5. CASE read_cmos_reg
  <2>1. pc = "read" /\ pc' = "read" /\ UNCHANGED <<clock, began, ticks, stamp>>
    BY <1>5 DEF read_cmos_reg
  <2>2. Progress(reads', began, clock, ticks)
    BY <1>5, <2>1, ReadProgress, Zenon DEF BehindInv
  <2>3. CenturyRead(reads', began)
    BY <1>5, CenturyStep, Zenon
  <2>4. Progress(reads', began', clock', ticks') /\ CenturyRead(reads', began')
    BY <2>1, <2>2, <2>3, Zenon
  <2> QED BY <2>1, <2>4 DEF BehindInv
<1>6. CASE get_unix_timestamp
  <2>1. pc' = "done" /\ UNCHANGED <<began, ticks>>
    BY <1>6 DEF get_unix_timestamp
  <2>2. NotAfter(TimeOf(began), stamp')
    BY <1>6, BehindStamp, Zenon
  <2>3. NotAfter(TimeOf(began'), stamp')
    BY <2>1, <2>2, Zenon
  <2> QED BY <2>1, <2>3 DEF BehindInv
<1>7. CASE hcf \/ UNCHANGED vars
  <2>1. UNCHANGED vars
    BY <1>7 DEF hcf
  <2> QED BY <2>1, Zenon DEF vars, BehindInv
<1> QED BY <1>1, <1>2, <1>3, <1>4, <1>5, <1>6, <1>7 DEF Next

\* A second, a minute or a midnight that passes between two reads never takes the time
\* back: get_unix_timestamp reads the faster fields first, so a field that is stale when
\* a slower one is read was the larger one.
THEOREM NotBehindAlways ==
  ASSUME YearsRead, CallsShort
  PROVE  Spec => []NotBehind
<1>1. Init => BehindInv
  BY ClockAssumption DEF Init, BehindInv
<1>2. BehindInv => NotBehind
  BY DEF BehindInv, NotBehind
<1>3. ExactInv /\ BehindInv /\ [Next]_vars => ExactInv' /\ BehindInv'
  BY ExactStep, BehindStep
<1> QED BY <1>1, <1>2, <1>3, ExactInit, PTL DEF Spec
=============================================================================
