---------------------------- MODULE RealTimeClock ----------------------------
(***************************************************************************)
(* Time and dates: kernel/src/platform/x86_64/rtc.c.                       *)
(*                                                                         *)
(* get_unix_timestamp reads the registers of a clock that goes on between  *)
(* two reads (each waits before it reads), joins and parses their digits   *)
(* and counts the seconds since 1970; ms_to_iso8601 turns such a count,    *)
(* or the boot loader's, back into a date.                                 *)
(*                                                                         *)
(* The clock is external: a calendar date and a time of day, shown in BCD. *)
(* A count of seconds is kept as whole days and seconds of the last day,   *)
(* so that it stays within TLC's integers; a negative day stands for its   *)
(* residue as a uint64_t, which ms_to_iso8601 prints as a far year.        *)
(***************************************************************************)
EXTENDS Integers, Sequences

CONSTANTS
  Starts,       \* what the clock may show at first
  LastYear,     \* bound: the clock stops at the end of this year
  Century,      \* fadt->century names a register
  MaxTicks,     \* seconds that pass during one call
  Calls         \* the instants get_formatted_time is called at

DAY == 24 * 60 * 60
FirstYear == 1970

-----------------------------------------------------------------------------
(* The calendar.                                                           *)

Leap(y) == (y % 4 = 0 /\ y % 100 # 0) \/ y % 400 = 0
DaysInMonth(y, m) ==
  IF m = 2 THEN IF Leap(y) THEN 29 ELSE 28 ELSE IF m \in {4, 6, 9, 11} THEN 30 ELSE 31
DaysInYear(y) == IF Leap(y) THEN 366 ELSE 365

Instants ==
  {c \in [year : FirstYear .. LastYear, month : 1 .. 12, day : 1 .. 31,
          hour : 0 .. 23, minute : 0 .. 59, second : 0 .. 59] :
     c.day <= DaysInMonth(c.year, c.month)}

ASSUME ClockAssumption ==
  /\ LastYear \in FirstYear .. 9999 /\ MaxTicks \in Nat
  /\ Century \in BOOLEAN
  /\ \A c \in Starts \cup Calls : c \in Instants

\* The days from the first of 1970 to the first of a year, and from there to a month.
YearStart[y \in FirstYear .. LastYear] ==
  IF y = FirstYear THEN 0 ELSE YearStart[y - 1] + DaysInYear(y - 1)
MonthStart(y) ==
  LET start[m \in 1 .. 12] == IF m = 1 THEN 0 ELSE start[m - 1] + DaysInMonth(y, m - 1)
  IN  start

\* Days since 1970-01-01.
DayNumber(c) == YearStart[c.year] + MonthStart(c.year)[c.month] + c.day - 1

SecondOfDay(c) == c.hour * 3600 + c.minute * 60 + c.second

TimeOf(c) == [days |-> DayNumber(c), secs |-> SecondOfDay(c)]

NextDay(c) ==
  IF c.day < DaysInMonth(c.year, c.month) THEN [c EXCEPT !.day = @ + 1]
  ELSE IF c.month < 12 THEN [c EXCEPT !.day = 1, !.month = @ + 1]
  ELSE [c EXCEPT !.day = 1, !.month = 1, !.year = @ + 1]

NextSecond(c) ==
  IF c.second < 59 THEN [c EXCEPT !.second = @ + 1]
  ELSE IF c.minute < 59 THEN [c EXCEPT !.second = 0, !.minute = @ + 1]
  ELSE IF c.hour < 23 THEN [c EXCEPT !.second = 0, !.minute = 0, !.hour = @ + 1]
  ELSE NextDay([c EXCEPT !.second = 0, !.minute = 0, !.hour = 0])

-----------------------------------------------------------------------------
(* Conversions.                                                            *)

\* Division of the C language.
Quot(a, b) == IF a >= 0 THEN a \div b ELSE -((-a) \div b)

\* Slip: the quotient of a negative number is rounded down.
get_jdn_floor(days, months, years) ==
  LET shift == (months - 14) \div 12
  IN  Quot(1461 * (years + 4800 + shift), 4)
      + Quot(367 * (months - 2 - 12 * shift), 12)
      - Quot(3 * Quot(years + 4900 + shift, 100), 4) + days - 32075

get_jdn(days, months, years) ==
  LET shift == Quot(months - 14, 12)
  IN  Quot(1461 * (years + 4800 + shift), 4)
      + Quot(367 * (months - 2 - 12 * shift), 12)
      - Quot(3 * Quot(years + 4900 + shift, 100), 4) + days - 32075

\* The seconds of a day may be too many for one day.
get_unix_epoch(seconds, minutes, hours, days, months, years) ==
  LET rest == hours * 3600 + minutes * 60 + seconds
  IN  [days |-> get_jdn(days, months, years) - get_jdn(1, 1, FirstYear) + rest \div DAY,
       secs |-> rest % DAY]

\* Slip: the last day of an era is not taken out.
YearOfEra_short(doe) == (doe - doe \div 1460 + doe \div 36524) \div 365

YearOfEra(doe) == (doe - doe \div 1460 + doe \div 36524 - doe \div 146096) \div 365

\* January and February belong to the year that began in March before them.
YearShown(y, mon) == IF mon <= 2 THEN y + 1 ELSE y

\* Months are counted from March.
MonthShown(mp) == IF mp < 10 THEN mp + 3 ELSE mp - 9

\* The local variables of ms_to_iso8601 for a date.
CivilParts(days) ==
  LET shifted == days + 719468
      era == shifted \div 146097
      doe == shifted - era * 146097
      yoe == YearOfEra(doe)
      doy == doe - (365 * yoe + yoe \div 4 - yoe \div 100)
      mp == (5 * doy + 2) \div 153
  IN  [doe |-> doe, yoe |-> yoe, y |-> yoe + era * 400, doy |-> doy, mp |-> mp,
       day |-> doy - (153 * mp + 2) \div 5 + 1,
       mon |-> MonthShown(mp)]

FarYear == 10000   \* any year past 9999

\* The fields ms_to_iso8601 prints; the milliseconds are zero in every call.
ms_to_iso8601(t) ==
  LET parts == CivilParts(t.days)
  IN  [year |-> IF t.days < 0 THEN FarYear ELSE YearShown(parts.y, parts.mon),
       month |-> parts.mon, day |-> parts.day, hour |-> t.secs \div 3600,
       minute |-> (t.secs \div 60) % 60, second |-> t.secs % 60]

\* A register shows a number below 100 in BCD.
Bcd(v) == 16 * (v \div 10) + (v % 10)

\* Slip: "%d".
HexDigits_decimal(r) == IF r < 10 THEN <<r>> ELSE <<r \div 10, r % 10>>

\* "%x" of a register, as a sequence of digits: no leading zero.
HexDigits(r) == IF r < 16 THEN <<r>> ELSE <<r \div 16, r % 16>>

atoi_(digits) ==
  LET res[i \in 0 .. Len(digits)] == IF i = 0 THEN 0 ELSE res[i - 1] * 10 + digits[i]
  IN  res[Len(digits)]

-----------------------------------------------------------------------------
VARIABLES
  pc,        \* "boot", "idle", "read", "done"
  clock,     \* what the clock shows
  reads,     \* registers read so far, in order
  began,     \* history: what the clock showed when the call began
  ticks,     \* history: seconds that passed since
  stamp,     \* what get_unix_timestamp returned
  shown      \* what ms_to_iso8601 printed last

vars == <<pc, clock, reads, began, ticks, stamp, shown>>

Init ==
  /\ pc = "boot"
  /\ clock \in Starts
  /\ reads = <<>> /\ began = clock /\ ticks = 0
  /\ stamp = [days |-> 0, secs |-> 0] /\ shown = ms_to_iso8601(stamp)

\* The machine is started a day later.
DayPasses ==
  /\ pc = "boot"
  /\ NextDay(clock).year <= LastYear
  /\ clock' = NextDay(clock) /\ began' = clock'
  /\ UNCHANGED <<pc, reads, ticks, stamp, shown>>

\* The date of the boot loader's timestamp.
print_banner ==
  /\ pc = "boot"
  /\ pc' = "idle"
  /\ shown' = ms_to_iso8601(TimeOf(clock))
  /\ UNCHANGED <<clock, reads, began, ticks, stamp>>

get_formatted_time ==
  /\ pc = "idle" /\ clock \in Calls
  /\ pc' = "read"
  /\ UNCHANGED <<clock, reads, began, ticks, stamp, shown>>

\* A second passes during the call, before, between or after its reads.
Tick ==
  /\ pc = "read" /\ ticks < MaxTicks
  /\ NextSecond(clock).year <= LastYear
  /\ clock' = NextSecond(clock) /\ ticks' = ticks + 1
  /\ UNCHANGED <<pc, reads, began, stamp, shown>>

\* Slip: the date is read before the time.
Order_date_first ==
  (IF Century THEN <<"century">> ELSE <<>>)
  \o <<"day", "month", "year", "second", "minute", "hour">>

\* The registers get_unix_timestamp reads, in order.
Order ==
  (IF Century THEN <<"century">> ELSE <<>>)
  \o <<"second", "minute", "hour", "day", "month", "year">>

Register(name) ==
  Bcd(CASE name = "century" -> clock.year \div 100
        [] name = "year" -> clock.year % 100
        [] OTHER -> clock[name])

read_cmos_reg ==
  /\ pc = "read" /\ Len(reads) < Len(Order)
  /\ reads' = Append(reads, Register(Order[Len(reads) + 1]))
  /\ UNCHANGED <<pc, clock, began, ticks, stamp, shown>>

\* What was read of a register; without one for the century it is taken to be 20.
Read(name) ==
  IF \E i \in DOMAIN Order : Order[i] = name
  THEN reads[CHOOSE i \in DOMAIN Order : Order[i] = name] ELSE Bcd(20)

\* The registers are parsed; century and year are joined to one number first.
get_unix_timestamp ==
  LET Value(name) == atoi_(HexDigits(Read(name)))
      year == atoi_(HexDigits(Read("century")) \o HexDigits(Read("year")))
  IN  /\ pc = "read" /\ Len(reads) = Len(Order)
      /\ pc' = "done"
      /\ stamp' = get_unix_epoch(Value("second"), Value("minute"), Value("hour"),
                                 Value("day"), Value("month"), year)
      /\ shown' = ms_to_iso8601(stamp')
      /\ UNCHANGED <<clock, reads, began, ticks>>

hcf == pc \in {"idle", "done"} /\ UNCHANGED vars

Next ==
  \/ DayPasses \/ print_banner \/ get_formatted_time \/ Tick \/ read_cmos_reg
  \/ get_unix_timestamp \/ hcf

Spec == Init /\ [][Next]_vars

-----------------------------------------------------------------------------
(* When the time is asked for.                                             *)

\* The years whose digits are read back as they are: no zero is dropped, and where
\* the clock has no register for the century it is the one the code assumes.
YearsRead == \A c \in Calls : c.year % 100 >= 10 /\ (Century \/ c.year \div 100 = 20)

\* A call takes a day at most and never runs into the next century.
CallsShort ==
  /\ MaxTicks <= DAY
  /\ \A c \in Calls : ~(c.year % 100 = 99 /\ c.month = 12 /\ c.day = 31)

-----------------------------------------------------------------------------
(* Properties.                                                             *)

\* The banner shows the date of the timestamp, on every day of the calendar.
BannerRight == pc = "idle" => shown = clock

\* get_unix_epoch counts the days of the calendar, on every date.
EpochRight ==
  pc = "boot" =>
    get_unix_epoch(clock.second, clock.minute, clock.hour, clock.day, clock.month, clock.year)
    = TimeOf(clock)

\* The time command shows what the clock showed, when no second passed meanwhile.
ShownExact == (pc = "done" /\ ticks = 0) => shown = began

NotAfter(s, t) == s.days < t.days \/ (s.days = t.days /\ s.secs <= t.secs)

\* A carry between two reads never takes the time back: the fields are read from
\* the fastest to the slowest, so a stale field is one that was larger.
NotBehind == pc = "done" => NotAfter(TimeOf(began), stamp)
=============================================================================
