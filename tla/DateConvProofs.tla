---------------------------- MODULE DateConvProofs -----------------------------
(***************************************************************************)
(* Theorems about the conversion of dates and times, for all of them.      *)
(***************************************************************************)
EXTENDS DateConv, TLAPS

\* a date in yyyymmdd format
Number(y, m, d) == y * 10000 + m * 100 + d

\* Taking a number in yyyymmdd format apart gives the date it was put together
\* from.
LEMMA Digits ==
  ASSUME NEW y \in Nat, NEW m \in 0 .. 99, NEW d \in 0 .. 99
  PROVE  /\ Number(y, m, d) \in Nat
         /\ Year(Number(y, m, d)) = y /\ Month(Number(y, m, d)) = m /\ Day(Number(y, m, d)) = d
<1> USE DEF Number
<1>1. Year(y * 10000 + m * 100 + d) = y
  BY DEF Year
<1>2. (y * 10000 + m * 100 + d) \div 100 = y * 100 + m
  OBVIOUS
<1>3. (y * 100 + m) % 100 = m
  OBVIOUS
<1>4. Month(y * 10000 + m * 100 + d) = m
  BY <1>2, <1>3 DEF Month
<1>5. Day(y * 10000 + m * 100 + d) = d
  BY DEF Day
<1> QED BY <1>1, <1>4, <1>5

\* no month has more than 31 days
LEMMA MonthLengths ==
  ASSUME NEW y, NEW m
  PROVE  DaysIn(y, m) \in 28 .. 31
<1>1. CASE m = 2
  <2>1. DaysIn(y, m) = IF Leap(y) THEN 29 ELSE 28
    BY <1>1 DEF DaysIn
  <2> QED BY <2>1
<1>2. CASE m \in {4, 6, 9, 11}
  <2>1. m # 2
    BY <1>2
  <2>2. DaysIn(y, m) = 30
    BY <1>2, <2>1 DEF DaysIn
  <2> QED BY <2>2
<1>3. CASE m # 2 /\ m \notin {4, 6, 9, 11}
  <2>1. DaysIn(y, m) = 31
    BY <1>3 DEF DaysIn
  <2> QED BY <2>1
<1> QED BY <1>1, <1>2, <1>3

\* A date is the same R Date whether the backend sends it as a date or as a
\* number (blpapi_utils.cpp:77 and :87), and no date is refused as a number.
THEOREM DatesAgree ==
  \A y, m, d \in Int : IsDate(y, m, d) =>
    /\ ~NumberRefused(Number(y, m, d))
    /\ NumberToRDate(Number(y, m, d)) = RDate(y, m, d)
<1> SUFFICES ASSUME NEW y \in Int, NEW m \in Int, NEW d \in Int, IsDate(y, m, d)
             PROVE  /\ ~NumberRefused(Number(y, m, d))
                    /\ NumberToRDate(Number(y, m, d)) = RDate(y, m, d)
  OBVIOUS
<1>1. y \in 1400 .. 9999 /\ m \in 1 .. 12 /\ d \in 1 .. DaysIn(y, m)
  BY DEF IsDate
<1>2. y \in Nat /\ m \in 0 .. 99 /\ d \in 0 .. 99
  <2>1. DaysIn(y, m) \in 28 .. 31
    BY MonthLengths
  <2> QED BY <1>1, <2>1
<1>3. /\ Year(Number(y, m, d)) = y
      /\ Month(Number(y, m, d)) = m
      /\ Day(Number(y, m, d)) = d
  BY <1>2, Digits
<1>4. Number(y, m, d) \in Nat
  BY <1>2, Digits
<1>5. NumberToRDate(Number(y, m, d)) = RDate(y, m, d)
  BY <1>3 DEF NumberToRDate
<1>6. ~NumberRefused(Number(y, m, d))
  <2> DEFINE x == Number(y, m, d)
  <2>1. x \in Int /\ x >= 0
    BY <1>4
  <2>2. IsDate(Year(x), Month(x), Day(x))
    BY <1>3
  <2> HIDE DEF x
  <2>3. ~NumberRefused(x)
    BY <2>1, <2>2 DEF NumberRefused
  <2> QED BY <2>3 DEF x
<1> QED BY <1>5, <1>6

\* A number that is not refused is the number of the date it is converted as:
\* two numbers that differ are never taken for one date.
THEOREM NumbersDiffer ==
  \A x \in Int : ~NumberRefused(x) => x = Number(Year(x), Month(x), Day(x))
<1> SUFFICES ASSUME NEW x \in Int, x >= 0
             PROVE  x = Number(Year(x), Month(x), Day(x))
  BY DEF NumberRefused
<1>1. \A z \in Int : z = (z \div 100) * 100 + (z % 100)
  OBVIOUS
<1>2. x \div 100 \in Int
  OBVIOUS
<1>3. (x \div 100) \div 100 = x \div 10000
  OBVIOUS
<1>4. x = (x \div 100) * 100 + (x % 100)
  BY <1>1
<1>5. x \div 100 = (x \div 10000) * 100 + ((x \div 100) % 100)
  BY <1>1, <1>2, <1>3
<1>6. x \div 10000 \in Int /\ (x \div 100) % 100 \in Int /\ x % 100 \in Int
  OBVIOUS
<1>7. x = (x \div 10000) * 10000 + ((x \div 100) % 100) * 100 + (x % 100)
  BY <1>2, <1>4, <1>5, <1>6
<1> QED BY <1>7 DEF Year, Month, Day, Number

-----------------------------------------------------------------------------
(* The count of days.  A year that begins in March has its 29th of         *)
(* February, if any, as its last day.                                      *)

\* the days of all the years before one, and of its months before one
Years(yy) == 365 * yy + yy \div 4 - yy \div 100 + yy \div 400
Months(mm) == (153 * mm + 2) \div 5

\* the year and the month counted from March
MarchYear(y, m) == IF m <= 2 THEN y + 4799 ELSE y + 4800
MarchMonth(m) == IF m <= 2 THEN m + 9 ELSE m - 3

LEMMA EpochIs == Epoch = 2440588
BY DEF Epoch, DayNumber

LEMMA YearsType == \A yy \in Int : Years(yy) \in Int
BY DEF Years

LEMMA MonthsType == \A mm \in Int : Months(mm) \in Int
BY DEF Months

LEMMA DayNumberSplit ==
  ASSUME NEW y \in Int, NEW m \in 1 .. 12, NEW d \in Int
  PROVE  RDate(y, m, d) = d + Months(MarchMonth(m)) + Years(MarchYear(y, m)) - 32045 - Epoch
<1>1. DayNumber(y, m, d) = d + Months(MarchMonth(m)) + Years(MarchYear(y, m)) - 32045
  <2>1. CASE m <= 2
    <3>1. DayNumber(y, m, d) =
            d + (153 * (m + 9) + 2) \div 5 + 365 * (y + 4799) + (y + 4799) \div 4 - (y + 4799) \div 100
              + (y + 4799) \div 400 - 32045
      <4>1. /\ y + 4800 - 1 = y + 4799
            /\ m + 12 * 1 - 3 = m + 9
        OBVIOUS
      <4> QED BY <2>1, <4>1 DEF DayNumber
    <3> QED BY <2>1, <3>1 DEF Months, Years, MarchMonth, MarchYear
  <2>2. CASE ~(m <= 2)
    <3>1. DayNumber(y, m, d) =
            d + (153 * (m - 3) + 2) \div 5 + 365 * (y + 4800) + (y + 4800) \div 4 - (y + 4800) \div 100
              + (y + 4800) \div 400 - 32045
      <4>1. /\ y + 4800 - 0 = y + 4800
            /\ m + 12 * 0 - 3 = m - 3
        OBVIOUS
      <4> QED BY <2>2, <4>1 DEF DayNumber
    <3> QED BY <2>2, <3>1 DEF Months, Years, MarchMonth, MarchYear
  <2> QED BY <2>1, <2>2
<1>2. Months(MarchMonth(m)) \in Int /\ Years(MarchYear(y, m)) \in Int
  BY MonthsType, YearsType DEF MarchMonth, MarchYear
<1> QED BY <1>1, <1>2, EpochIs DEF RDate

LEMMA MonthsAre ==
  /\ Months(0) = 0 /\ Months(1) = 31 /\ Months(2) = 61 /\ Months(3) = 92 /\ Months(4) = 122 /\ Months(5) = 153
  /\ Months(6) = 184 /\ Months(7) = 214 /\ Months(8) = 245 /\ Months(9) = 275 /\ Months(10) = 306 /\ Months(11) = 337
BY DEF Months

\* a leap year's day is the last of the year that began in March before
LEMMA YearLength ==
  ASSUME NEW y \in Int
  PROVE  Years(y + 4800) = Years(y + 4799) + 337 + DaysIn(y, 2)
<1> DEFINE n == y + 4799
<1>1. n \in Int /\ n + 1 = y + 4800
  OBVIOUS
<1>2. /\ (n + 1) \div 4 = n \div 4 + IF (n + 1) % 4 = 0 THEN 1 ELSE 0
      /\ (n + 1) \div 100 = n \div 100 + IF (n + 1) % 100 = 0 THEN 1 ELSE 0
      /\ (n + 1) \div 400 = n \div 400 + IF (n + 1) % 400 = 0 THEN 1 ELSE 0
  BY <1>1
<1>3. (n + 1) % 4 = y % 4 /\ (n + 1) % 100 = y % 100 /\ (n + 1) % 400 = y % 400
  BY <1>1
<1>4. y % 400 = 0 => y % 100 = 0
  OBVIOUS
<1>5. y % 100 = 0 => y % 4 = 0
  OBVIOUS
<1>6. DaysIn(y, 2) = IF Leap(y) THEN 29 ELSE 28
  BY DEF DaysIn
<1> QED BY <1>1, <1>2, <1>3, <1>4, <1>5, <1>6 DEF Years, Leap
\* The first of a month follows the last of the month before, and R's first day
\* is day 0 (blpapi_utils.cpp:81-84).
THEOREM DaysCountedForAll ==
  /\ RDate(1970, 1, 1) = 0
  /\ \A y, m, d \in Int : IsDate(y, m, d) => NextDayCounted(y, m, d)
<1>1. RDate(1970, 1, 1) = 0
  <2>1. Epoch = DayNumber(1970, 1, 1)
    BY DEF Epoch
  <2> QED BY <2>1, EpochIs DEF RDate
<1>2. ASSUME NEW y \in Int, NEW m \in Int, NEW d \in Int, IsDate(y, m, d)
      PROVE  NextDayCounted(y, m, d)
  <2>1. m \in 1 .. 12 /\ d \in 1 .. DaysIn(y, m) /\ DaysIn(y, m) \in 28 .. 31
    BY <1>2, MonthLengths DEF IsDate
  <2>2. RDate(y, m, d) = d + Months(MarchMonth(m)) + Years(MarchYear(y, m)) - 32045 - Epoch
    BY <2>1, DayNumberSplit
  <2>3. CASE d < DaysIn(y, m)
    <3>1. RDate(y, m, d + 1) = (d + 1) + Months(MarchMonth(m)) + Years(MarchYear(y, m)) - 32045 - Epoch
      BY <2>1, DayNumberSplit
    <3>2. Months(MarchMonth(m)) \in Int /\ Years(MarchYear(y, m)) \in Int
      BY <2>1, MonthsType, YearsType DEF MarchMonth, MarchYear
    <3>3. RDate(y, m, d) + 1 = RDate(y, m, d + 1)
      BY <2>1, <2>2, <3>1, <3>2, EpochIs
    <3> QED BY <2>3, <3>3 DEF NextDayCounted
  <2>4. CASE d = DaysIn(y, m) /\ m < 12
    <3>1. RDate(y, m + 1, 1) = 1 + Months(MarchMonth(m + 1)) + Years(MarchYear(y, m + 1)) - 32045 - Epoch
      BY <2>1, <2>4, DayNumberSplit
    <3>2. CASE m = 2
      <4>1. MarchMonth(m) = 11 /\ MarchYear(y, m) = y + 4799 /\ MarchMonth(m + 1) = 0 /\ MarchYear(y, m + 1) = y + 4800
        BY <3>2 DEF MarchMonth, MarchYear
      <4>2. RDate(y, m, d) + 1 = RDate(y, m + 1, 1)
        BY <2>1, <2>2, <2>4, <3>1, <3>2, <4>1, MonthsAre, YearLength, YearsType, EpochIs
      <4> QED BY <2>4, <4>2 DEF NextDayCounted
    <3>3. CASE m # 2
      <4>1. MarchYear(y, m + 1) = MarchYear(y, m) /\ MarchYear(y, m) \in Int /\ MarchMonth(m + 1) = MarchMonth(m) + 1
        BY <2>1, <3>3 DEF MarchYear, MarchMonth
      <4>2. Months(MarchMonth(m) + 1) = Months(MarchMonth(m)) + DaysIn(y, m) /\ Months(MarchMonth(m)) \in Int
        BY <2>1, <2>4, <3>3, MonthsAre DEF MarchMonth, DaysIn
      <4>3. RDate(y, m, d) + 1 = RDate(y, m + 1, 1)
        BY <2>1, <2>2, <2>4, <3>1, <4>1, <4>2, YearsType, EpochIs
      <4> QED BY <2>4, <4>3 DEF NextDayCounted
    <3> QED BY <3>2, <3>3
  <2>5. CASE d = DaysIn(y, m) /\ m = 12
    <3>1. RDate(y + 1, 1, 1) = 1 + Months(MarchMonth(1)) + Years(MarchYear(y + 1, 1)) - 32045 - Epoch
      BY DayNumberSplit
    <3>2. MarchMonth(1) = 10 /\ MarchYear(y + 1, 1) = y + 4800 /\ MarchMonth(12) = 9 /\ MarchYear(y, 12) = y + 4800
      BY DEF MarchMonth, MarchYear
    <3>3. DaysIn(y, 12) = 31
      BY DEF DaysIn
    <3>4. RDate(y, m, d) + 1 = RDate(y + 1, 1, 1)
      BY <2>2, <2>5, <3>1, <3>2, <3>3, MonthsAre, YearsType, EpochIs
    <3> QED BY <2>5, <3>4 DEF NextDayCounted
  <2> QED BY <2>1, <2>3, <2>4, <2>5
<1> QED BY <1>1, <1>2
-----------------------------------------------------------------------------
(* The order of days.                                                      *)

\* a later year has all the days of an earlier one before it
LEMMA YearsGrow ==
  ASSUME NEW a \in Int, NEW b \in Int, a < b
  PROVE  Years(a + 1) <= Years(b)
<1>1. a + 1 <= b
  OBVIOUS
<1>2. /\ (a + 1) \div 4 \in Int /\ b \div 4 \in Int /\ (a + 1) \div 4 <= b \div 4
      /\ (a + 1) \div 400 \in Int /\ b \div 400 \in Int /\ (a + 1) \div 400 <= b \div 400
  BY <1>1
<1>3. /\ (a + 1) \div 100 = ((a + 1) \div 4) \div 25
      /\ b \div 100 = (b \div 4) \div 25
  OBVIOUS
<1>4. \A m, n \in Int : m <= n => m - (m \div 25) <= n - (n \div 25)
  OBVIOUS
<1>5. ((a + 1) \div 4) - ((a + 1) \div 100) <= (b \div 4) - (b \div 100)
  BY <1>2, <1>3, <1>4
<1>6. (a + 1) \div 100 \in Int /\ b \div 100 \in Int
  OBVIOUS
<1> QED BY <1>1, <1>2, <1>5, <1>6 DEF Years

\* a month counted from March ends before the next begins
LEMMA MonthsGrow ==
  ASSUME NEW y \in Int, NEW m \in 1 .. 12, NEW n \in 1 .. 12, MarchMonth(m) < MarchMonth(n)
  PROVE  Months(MarchMonth(m)) + DaysIn(y, m) <= Months(MarchMonth(n))
<1>1. DaysIn(y, m) \in Int /\ m # 2 /\ DaysIn(y, m) = IF m \in {4, 6, 9, 11} THEN 30 ELSE 31
  BY DEF MarchMonth, DaysIn
<1>2. MarchMonth(m) \in 0 .. 10 /\ MarchMonth(n) \in 1 .. 11
  BY DEF MarchMonth
<1>3. \A j \in 0 .. 10 : Months(j) \in Int /\ Months(j + 1) \in Int /\ Months(j) + 30 <= Months(j + 1)
  BY DEF Months
<1>4. \A j, k \in 0 .. 11 : j <= k => Months(j) <= Months(k)
  BY DEF Months
<1>5. Months(MarchMonth(m)) + DaysIn(y, m) <= Months(MarchMonth(m) + 1)
  BY <1>1, MonthsAre DEF MarchMonth
<1>6. Months(MarchMonth(m) + 1) <= Months(MarchMonth(n))
  BY <1>2, <1>4
<1>7. Months(MarchMonth(m)) \in Int /\ Months(MarchMonth(m) + 1) \in Int /\ Months(MarchMonth(n)) \in Int
  BY <1>2, MonthsType
<1> QED BY <1>1, <1>5, <1>6, <1>7

\* the last day of a month is not after the last of its year
LEMMA DayOfYear ==
  ASSUME NEW y \in Int, NEW m \in 1 .. 12, NEW d \in 1 .. DaysIn(y, m)
  PROVE  /\ d + Months(MarchMonth(m)) + Years(MarchYear(y, m)) <= Years(MarchYear(y, m) + 1)
         /\ d + Months(MarchMonth(m)) >= 1
<1>1. DaysIn(y, m) \in 28 .. 31
  BY MonthLengths
<1>2. Years(MarchYear(y, m)) \in Int /\ Years(MarchYear(y, m) + 1) \in Int /\ Months(MarchMonth(m)) \in Int
  BY YearsType, MonthsType DEF MarchYear, MarchMonth
<1>3. CASE m = 2
  <2>1. MarchYear(y, m) = y + 4799 /\ MarchYear(y, m) + 1 = y + 4800 /\ MarchMonth(m) = 11
    BY <1>3 DEF MarchYear, MarchMonth
  <2> QED BY <1>1, <1>2, <1>3, <2>1, YearLength, MonthsAre
<1>4. CASE m # 2
  <2>1. MarchMonth(m) < MarchMonth(2) /\ MarchMonth(2) = 11
    BY <1>4 DEF MarchMonth
  <2>2. Months(MarchMonth(m)) + DaysIn(y, m) <= 337
    BY <2>1, MonthsGrow, MonthsAre
  <2>3. Years(MarchYear(y, m) + 1) >= Years(MarchYear(y, m)) + 337
    <3> DEFINE z == MarchYear(y, m) - 4799
    <3>1. z \in Int /\ z + 4799 = MarchYear(y, m) /\ z + 4800 = MarchYear(y, m) + 1
      BY DEF MarchYear
    <3>2. DaysIn(z, 2) \in 28 .. 31
      BY MonthLengths
    <3> HIDE DEF z
    <3> QED BY <1>2, <3>1, <3>2, YearLength
  <2>4. 0 <= Months(MarchMonth(m))
    BY MonthsAre DEF MarchMonth, Months
  <2> QED BY <1>1, <1>2, <2>2, <2>3, <2>4
<1> QED BY <1>3, <1>4

\* An earlier date is an earlier R Date: no two dates are one, and sorting by
\* date is sorting by R Date, over leap years and centuries and on both sides of
\* 1970 (blpapi_utils.cpp:77-85).
THEOREM DatesOrdered ==
  \A y1, m1, d1, y2, m2, d2 \in Int :
    IsDate(y1, m1, d1) /\ IsDate(y2, m2, d2) =>
      (Number(y1, m1, d1) < Number(y2, m2, d2) <=> RDate(y1, m1, d1) < RDate(y2, m2, d2))
<1>1. ASSUME NEW y1 \in Int, NEW m1 \in Int, NEW d1 \in Int, IsDate(y1, m1, d1),
             NEW y2 \in Int, NEW m2 \in Int, NEW d2 \in Int, IsDate(y2, m2, d2),
             Number(y1, m1, d1) < Number(y2, m2, d2)
      PROVE  RDate(y1, m1, d1) < RDate(y2, m2, d2)
  <2> DEFINE D1 == d1 + Months(MarchMonth(m1))
             D2 == d2 + Months(MarchMonth(m2))
             Y1 == MarchYear(y1, m1)
             Y2 == MarchYear(y2, m2)
  <2>1. /\ m1 \in 1 .. 12 /\ d1 \in 1 .. DaysIn(y1, m1) /\ d1 \in 1 .. 31
        /\ m2 \in 1 .. 12 /\ d2 \in 1 .. DaysIn(y2, m2) /\ d2 \in 1 .. 31
    <3>1. DaysIn(y1, m1) \in 28 .. 31 /\ DaysIn(y2, m2) \in 28 .. 31
      BY MonthLengths
    <3> QED BY <1>1, <3>1 DEF IsDate
  <2>2. /\ D1 \in Int /\ D2 \in Int /\ Y1 \in Int /\ Y2 \in Int
        /\ \A Y \in Int : Years(Y) \in Int
    BY <2>1, MonthsType, YearsType DEF MarchMonth, MarchYear
  <2>3. \/ y1 < y2
        \/ y1 = y2 /\ m1 < m2
        \/ y1 = y2 /\ m1 = m2 /\ d1 < d2
    BY <1>1, <2>1 DEF Number
  <2>4. \/ Y1 < Y2
        \/ Y1 = Y2 /\ MarchMonth(m1) < MarchMonth(m2)
        \/ y1 = y2 /\ m1 = m2 /\ d1 < d2
    BY <2>1, <2>3 DEF MarchYear, MarchMonth
  <2>5. D1 + Years(Y1) < D2 + Years(Y2)
    <3>1. CASE Y1 < Y2
      <4>1. D1 + Years(Y1) <= Years(Y1 + 1) /\ D2 >= 1
        BY <2>1, DayOfYear
      <4>2. Years(Y1 + 1) <= Years(Y2)
        BY <2>2, <3>1, YearsGrow
      <4> QED BY <2>2, <4>1, <4>2
    <3>2. CASE Y1 = Y2 /\ MarchMonth(m1) < MarchMonth(m2)
      <4>1. Months(MarchMonth(m1)) + DaysIn(y1, m1) <= Months(MarchMonth(m2))
        BY <2>1, <3>2, MonthsGrow
      <4>2. D1 < D2
        BY <2>1, <4>1, MonthsType DEF MarchMonth, DaysIn
      <4> QED BY <2>2, <3>2, <4>2
    <3>3. CASE y1 = y2 /\ m1 = m2 /\ d1 < d2
      <4>1. Months(MarchMonth(m1)) \in Int
        BY <2>1, MonthsType DEF MarchMonth
      <4> QED BY <2>2, <3>3, <4>1
    <3> QED BY <2>4, <3>1, <3>2, <3>3
  <2>6. /\ RDate(y1, m1, d1) = D1 + Years(Y1) - 32045 - Epoch
        /\ RDate(y2, m2, d2) = D2 + Years(Y2) - 32045 - Epoch
    BY <2>1, DayNumberSplit
  <2> HIDE DEF D1, D2, Y1, Y2
  <2> QED BY <2>2, <2>5, <2>6, EpochIs
<1>2. ASSUME NEW y1 \in Int, NEW m1 \in Int, NEW d1 \in Int, IsDate(y1, m1, d1),
             NEW y2 \in Int, NEW m2 \in Int, NEW d2 \in Int, IsDate(y2, m2, d2),
             Number(y1, m1, d1) = Number(y2, m2, d2)
      PROVE  RDate(y1, m1, d1) = RDate(y2, m2, d2)
  <2>1. NumberToRDate(Number(y1, m1, d1)) = RDate(y1, m1, d1) /\ NumberToRDate(Number(y2, m2, d2)) = RDate(y2, m2, d2)
    BY <1>2, DatesAgree
  <2> QED BY <1>2, <2>1
<1>3. \A y, m, d \in Int : Number(y, m, d) \in Int /\ RDate(y, m, d) \in Int
  BY EpochIs DEF Number, RDate, DayNumber
<1> QED
  <2> SUFFICES ASSUME NEW y1 \in Int, NEW m1 \in Int, NEW d1 \in Int, IsDate(y1, m1, d1),
                      NEW y2 \in Int, NEW m2 \in Int, NEW d2 \in Int, IsDate(y2, m2, d2)
               PROVE  Number(y1, m1, d1) < Number(y2, m2, d2) <=> RDate(y1, m1, d1) < RDate(y2, m2, d2)
    OBVIOUS
  <2> DEFINE n1 == Number(y1, m1, d1)
             n2 == Number(y2, m2, d2)
             r1 == RDate(y1, m1, d1)
             r2 == RDate(y2, m2, d2)
  <2>1. /\ n1 < n2 => r1 < r2
        /\ n2 < n1 => r2 < r1
        /\ n1 = n2 => r1 = r2
    <3>1. n1 < n2 => r1 < r2
      BY <1>1
    <3>2. n2 < n1 => r2 < r1
      BY <1>1
    <3>3. n1 = n2 => r1 = r2
      BY <1>2
    <3> QED BY <3>1, <3>2, <3>3
  <2>2. n1 \in Int /\ n2 \in Int /\ r1 \in Int /\ r2 \in Int
    BY <1>3, Zenon
  <2> HIDE DEF n1, n2, r1, r2
  <2>3. n1 < n2 <=> r1 < r2
    BY <2>1, <2>2
  <2> QED BY <2>3, Zenon DEF n1, n2, r1, r2

-----------------------------------------------------------------------------
(* Instants: a date and a time of day.                                     *)

Instant == { x \in [y : Int, m : Int, d : Int, h : 0 .. 23, mi : 0 .. 59, s : 0 .. 59, ms : Nat] :
               IsDate(x.y, x.m, x.d) /\ x.ms < 1000 }

DayOf(x) == RDate(x.y, x.m, x.d)
MillisOf(x) == Millis(x.h, x.mi, x.s, x.ms)
SecondsOf(x) == (x.h * 60 + x.mi) * 60 + x.s

\* the calendar's order
Before(x, z) ==
  \/ Number(x.y, x.m, x.d) < Number(z.y, z.m, z.d)
  \/ Number(x.y, x.m, x.d) = Number(z.y, z.m, z.d) /\ MillisOf(x) < MillisOf(z)

\* what R gets
UTC(x) == DatetimeToUTC(DayOf(x), MillisOf(x))

LEMMA InstantType ==
  ASSUME NEW x \in Instant
  PROVE  /\ DayOf(x) \in Int
         /\ SecondsOf(x) \in Nat /\ SecondsOf(x) < 86400 /\ x.ms \in Nat /\ x.ms < 1000
         /\ MillisOf(x) = SecondsOf(x) * 1000 + x.ms
<1>1. /\ x.y \in Int /\ x.m \in Int /\ x.d \in Int
      /\ x.h \in 0 .. 23 /\ x.mi \in 0 .. 59 /\ x.s \in 0 .. 59 /\ x.ms \in Nat /\ x.ms < 1000
  BY DEF Instant
<1>2. DayOf(x) \in Int
  <2> DEFINE y == x.y
             m == x.m
             d == x.d
  <2>1. y \in Int /\ m \in Int /\ d \in Int
    BY <1>1
  <2> HIDE DEF y, m, d
  <2>2. RDate(y, m, d) \in Int
    BY <2>1, EpochIs DEF RDate, DayNumber
  <2> QED BY <2>2 DEF DayOf, y, m, d
<1>3. SecondsOf(x) \in Nat /\ SecondsOf(x) < 86400
  <2> DEFINE h == x.h
             mi == x.mi
             s == x.s
  <2>1. /\ h \in Int /\ 0 <= h /\ h < 24
        /\ mi \in Int /\ 0 <= mi /\ mi < 60
        /\ s \in Int /\ 0 <= s /\ s < 60
    BY <1>1, SMT
  <2> HIDE DEF h, mi, s
  <2>2. (h * 60 + mi) * 60 + s \in Nat /\ (h * 60 + mi) * 60 + s < 86400
    BY <2>1, SMT
  <2> QED BY <2>2 DEF SecondsOf, h, mi, s
<1>4. MillisOf(x) = SecondsOf(x) * 1000 + x.ms
  BY <1>1, SMT DEF MillisOf, SecondsOf, Millis
<1> QED BY <1>1, <1>2, <1>3, <1>4

\* the second too many that a time before 1970 with milliseconds gets
Carry(day, ms) == IF day < 0 /\ ms > 0 THEN 1 ELSE 0

LEMMA CarryIs ==
  ASSUME NEW day \in Int, NEW ms \in Nat
  PROVE  Carry(day, ms) \in 0 .. 1 /\ (ms = 0 => Carry(day, ms) = 0)
BY SMT DEF Carry

\* An instant put together by bbgDatetimeToUTC() is the second its date and time
\* of day name, for every date and time: but a time before 1970 that has
\* milliseconds becomes the second after it, which may be of the next day.
THEOREM SecondsKept ==
  \A x \in Instant : UTC(x) = DayOf(x) * 86400 + SecondsOf(x) + Carry(DayOf(x), x.ms)
<1> SUFFICES ASSUME NEW x \in Instant
             PROVE  UTC(x) = DayOf(x) * 86400 + SecondsOf(x) + Carry(DayOf(x), x.ms)
  OBVIOUS
<1>1. /\ DayOf(x) \in Int
      /\ SecondsOf(x) \in Nat /\ SecondsOf(x) < 86400 /\ x.ms \in Nat /\ x.ms < 1000
      /\ MillisOf(x) = SecondsOf(x) * 1000 + x.ms
  BY InstantType
<1> DEFINE day == DayOf(x)
           t == SecondsOf(x)
           ms == x.ms
           n == day * 86400 + t
<1>2. day \in Int /\ t \in Nat /\ t < 86400 /\ ms \in Nat /\ ms < 1000
  BY <1>1
<1> HIDE DEF day, t, ms
<1>3. n \in Int /\ day * 86400000 + (t * 1000 + ms) = n * 1000 + ms
  BY <1>2, SMT
<1>4. (day < 0 => n < 0) /\ (day >= 0 => n >= 0)
  BY <1>2, SMT
<1>5. DatetimeToUTC(day, t * 1000 + ms) = Cut(n * 1000 + ms)
  BY <1>3 DEF DatetimeToUTC
<1> HIDE DEF n
<1>6. CASE day >= 0
  <2>1. n * 1000 + ms >= 0 /\ (n * 1000 + ms) \div 1000 = n
    BY <1>2, <1>3, <1>4, <1>6, SMT
  <2>2. Cut(n * 1000 + ms) = n
    BY <2>1, SMT DEF Cut
  <2>3. Carry(day, ms) = 0
    BY <1>2, <1>6, SMT DEF Carry
  <2>4. DatetimeToUTC(day, t * 1000 + ms) = day * 86400 + t + Carry(day, ms)
    BY <1>2, <1>3, <1>5, <2>2, <2>3, SMT DEF n
  <2> QED BY <1>1, <2>4 DEF UTC, day, t, ms
<1>7. CASE day < 0 /\ ms = 0
  <2>1. n * 1000 + ms < 0 /\ (-(n * 1000 + ms)) \div 1000 = -n
    BY <1>3, <1>4, <1>7, SMT
  <2>2. Cut(n * 1000 + ms) = n
    BY <1>3, <1>7, <2>1, SMT DEF Cut
  <2>3. Carry(day, ms) = 0
    BY <1>7, SMT DEF Carry
  <2>4. DatetimeToUTC(day, t * 1000 + ms) = day * 86400 + t + Carry(day, ms)
    BY <1>2, <1>3, <1>5, <2>2, <2>3, SMT DEF n
  <2> QED BY <1>1, <2>4 DEF UTC, day, t, ms
<1>8. CASE day < 0 /\ ms > 0
  <2>1. n * 1000 + ms < 0 /\ (-(n * 1000 + ms)) \div 1000 = -n - 1
    BY <1>2, <1>3, <1>4, <1>8, SMT
  <2>2. Cut(n * 1000 + ms) = n + 1
    BY <1>2, <1>3, <2>1, SMT DEF Cut
  <2>3. Carry(day, ms) = 1
    BY <1>8, SMT DEF Carry
  <2>4. DatetimeToUTC(day, t * 1000 + ms) = day * 86400 + t + Carry(day, ms)
    BY <1>2, <1>3, <1>5, <2>2, <2>3, SMT DEF n
  <2> QED BY <1>1, <2>4 DEF UTC, day, t, ms
<1>9. day >= 0 \/ (day < 0 /\ ms = 0) \/ (day < 0 /\ ms > 0)
  BY <1>2, SMT
<1> QED BY <1>6, <1>7, <1>8, <1>9

\* days and times of day in order are numbers in order
LEMMA InOrder ==
  ASSUME NEW a \in Int, NEW t \in Nat, NEW p \in Nat, NEW c \in 0 .. 1,
         NEW b \in Int, NEW u \in Nat, NEW q \in Nat, NEW e \in 0 .. 1,
         t < 86400, u < 86400, p < 1000, q < 1000,
         a < b \/ (a = b /\ t * 1000 + p < u * 1000 + q),
         p = 0 => c = 0, a = b /\ p < q => c <= e
  PROVE  /\ a * 86400 + t + c <= b * 86400 + u + e
         /\ p = 0 => a * 86400 + t + c < b * 86400 + u + e \/ q > 0
<1>1. CASE a < b
  BY <1>1, SMT
<1>2. CASE a = b /\ t * 1000 + p < u * 1000 + q
  <2>1. t < u \/ (t = u /\ p < q)
    BY <1>2, SMT
  <2> QED BY <1>2, <2>1, SMT
<1> QED BY <1>1, <1>2

\* Of two instants the later never becomes the smaller number, over days,
\* months, years and 1970; and two of whole seconds stay apart.
THEOREM InstantsOrdered ==
  \A x, z \in Instant :
    Before(x, z) => /\ UTC(x) <= UTC(z)
                    /\ x.ms = 0 /\ z.ms = 0 => UTC(x) < UTC(z)
<1> SUFFICES ASSUME NEW x \in Instant, NEW z \in Instant, Before(x, z)
             PROVE  /\ UTC(x) <= UTC(z)
                    /\ x.ms = 0 /\ z.ms = 0 => UTC(x) < UTC(z)
  OBVIOUS
<1>1. /\ x.y \in Int /\ x.m \in Int /\ x.d \in Int /\ IsDate(x.y, x.m, x.d)
      /\ z.y \in Int /\ z.m \in Int /\ z.d \in Int /\ IsDate(z.y, z.m, z.d)
  BY DEF Instant
<1>2. Number(x.y, x.m, x.d) < Number(z.y, z.m, z.d) => DayOf(x) < DayOf(z)
  BY <1>1, DatesOrdered DEF DayOf
<1>3. Number(x.y, x.m, x.d) = Number(z.y, z.m, z.d) => DayOf(x) = DayOf(z)
  <2>1. /\ NumberToRDate(Number(x.y, x.m, x.d)) = DayOf(x)
        /\ NumberToRDate(Number(z.y, z.m, z.d)) = DayOf(z)
    BY <1>1, DatesAgree DEF DayOf
  <2> QED BY <2>1
<1>4. DayOf(x) < DayOf(z) \/ (DayOf(x) = DayOf(z) /\ MillisOf(x) < MillisOf(z))
  BY <1>2, <1>3 DEF Before
<1>5. /\ DayOf(x) \in Int
      /\ SecondsOf(x) \in Nat /\ SecondsOf(x) < 86400 /\ x.ms \in Nat /\ x.ms < 1000
      /\ DayOf(z) \in Int
      /\ SecondsOf(z) \in Nat /\ SecondsOf(z) < 86400 /\ z.ms \in Nat /\ z.ms < 1000
      /\ MillisOf(x) = SecondsOf(x) * 1000 + x.ms
      /\ MillisOf(z) = SecondsOf(z) * 1000 + z.ms
  BY InstantType
<1>6. /\ UTC(x) = DayOf(x) * 86400 + SecondsOf(x) + Carry(DayOf(x), x.ms)
      /\ UTC(z) = DayOf(z) * 86400 + SecondsOf(z) + Carry(DayOf(z), z.ms)
  BY SecondsKept
<1>7. /\ Carry(DayOf(x), x.ms) \in 0 .. 1 /\ Carry(DayOf(z), z.ms) \in 0 .. 1
      /\ x.ms = 0 => Carry(DayOf(x), x.ms) = 0
  BY <1>5, CarryIs
<1>8. DayOf(x) = DayOf(z) /\ x.ms < z.ms => Carry(DayOf(x), x.ms) <= Carry(DayOf(z), z.ms)
  BY <1>5, SMT DEF Carry
<1>9. \/ DayOf(x) < DayOf(z)
      \/ DayOf(x) = DayOf(z) /\ SecondsOf(x) * 1000 + x.ms < SecondsOf(z) * 1000 + z.ms
  BY <1>4, <1>5
<1>10. /\ UTC(x) <= UTC(z)
       /\ x.ms = 0 => UTC(x) < UTC(z) \/ z.ms > 0
  BY <1>5, <1>6, <1>7, <1>8, <1>9, InOrder
<1> QED BY <1>5, <1>10
===============================================================================
