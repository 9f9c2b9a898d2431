------------------------------- MODULE DateConv --------------------------------
(***************************************************************************)
(* Dates and times of the backend as the numbers R keeps: days since       *)
(* 1970-01-01 for a Date, seconds for a POSIXct.                           *)
(***************************************************************************)
EXTENDS Integers

\* the calendar (external: boost::gregorian, whose years are 1400 to 9999)
Leap(y) == y % 4 = 0 /\ (y % 100 # 0 \/ y % 400 = 0)
DaysIn(y, m) == CASE m = 2 -> (IF Leap(y) THEN 29 ELSE 28) [] m \in {4, 6, 9, 11} -> 30 [] OTHER -> 31

IsDate(y, m, d) == y \in 1400 .. 9999 /\ m \in 1 .. 12 /\ d \in 1 .. DaysIn(y, m)

\* days before a month, counted in years that begin in March
DayNumber(y, m, d) ==
  LET a == IF m <= 2 THEN 1 ELSE 0
      yy == y + 4800 - a
      mm == m + 12 * a - 3
  IN d + (153 * mm + 2) \div 5 + 365 * yy + yy \div 4 - yy \div 100 + yy \div 400 - 32045

Epoch == DayNumber(1970, 1, 1)

\* bbgDateToRDate(Datetime), without time parts
RDate(y, m, d) == DayNumber(y, m, d) - Epoch

\* bbgDateToRDate(double): a number in yyyymmdd format, neither negative nor
\* broken
Year(x) == x \div 10000
Month(x) == (x \div 100) % 100
Day(x) == x % 100
NumberRefused(x) == x < 0 \/ ~IsDate(Year(x), Month(x), Day(x))
NumberToRDate(x) == RDate(Year(x), Month(x), Day(x))

\* an instant: a day, and the milliseconds of it
Millis(h, mi, s, ms) == ((h * 60 + mi) * 60 + s) * 1000 + ms

\* total_seconds() cuts towards zero
Cut(ms) == IF ms >= 0 THEN ms \div 1000 ELSE -((-ms) \div 1000)

\* bbgDatetimeToUTC(); bbgDatetimeToPOSIX() gives the time zone of the process
\* to mktime() instead (external), and drops the milliseconds as well
DatetimeToUTC(day, ms) == Cut(day * 86400000 + ms)

-----------------------------------------------------------------------------
(* Properties.                                                             *)

\* The next day of the calendar is the next of R's days.
NextDayCounted(y, m, d) ==
  RDate(y, m, d) + 1 = CASE d < DaysIn(y, m)            -> RDate(y, m, d + 1)
                         [] d = DaysIn(y, m) /\ m < 12 -> RDate(y, m + 1, 1)
                         [] OTHER                       -> RDate(y + 1, 1, 1)
===============================================================================
