-------------------------- MODULE CivilDate_proofs --------------------------
(***************************************************************************)
(* Proofs about CivilDate, for dates of any year.  The formula of the day  *)
(* number is brought into a closed form, the days before the year plus the *)
(* days before the month, from which everything follows.                   *)
(***************************************************************************)
EXTENDS CivilDate, TLAPS

\* The dates the program can hold: what the constructor accepts.
IsDate(d) == d \in [day : Int, month : Int, year : Int] /\ Valid(d)

-----------------------------------------------------------------------------
(***************************************************************************)
(* Years                                                                   *)
(***************************************************************************)

Leap(y) == IF IsLeapYear(y) THEN 1 ELSE 0

\* The days of the years 1 to y.
YearDays(y) == 365 * y + y \div 4 - y \div 100 + y \div 400

\* The day number of the first day of a year.
NewYear(y) == YearDays(y - 1) - 719162

\* Counting by eras of 400 years is counting years.
LEMMA EraIs ==
  ASSUME NEW y \in Int
  PROVE  LET era == y \div 400
             yoe == y - era * 400
         IN  era * 146097 + (yoe * 365 + yoe \div 4 - yoe \div 100) = YearDays(y)
BY DEF YearDays

LEMMA YearsAreIntegers ==
  \A y \in Int : Leap(y) \in {0, 1} /\ YearDays(y) \in Int /\ NewYear(y) \in Int
BY DEF Leap, YearDays, NewYear

LEMMA YearStep ==
  ASSUME NEW y \in Int
  PROVE  /\ YearDays(y) = YearDays(y - 1) + 365 + Leap(y)
         /\ NewYear(y + 1) = NewYear(y) + 365 + Leap(y)
<1>1. \A x \in Int : YearDays(x) = YearDays(x - 1) + 365 + Leap(x)
  BY DEF YearDays, Leap, IsLeapYear
<1>2. y + 1 - 1 = y
  OBVIOUS
<1>3. NewYear(y + 1) = YearDays(y) - 719162 /\ NewYear(y) = YearDays(y - 1) - 719162
  BY <1>2 DEF NewYear
<1>4. y - 1 \in Int /\ YearDays(y - 1) \in Int /\ Leap(y) \in Int
  BY YearsAreIntegers
<1>. QED  BY <1>1, <1>3, <1>4

LEMMA YearsInOrder ==
  ASSUME NEW x \in Int, NEW y \in Int, x <= y
  PROVE  NewYear(x) <= NewYear(y)
BY DEF YearDays, NewYear

-----------------------------------------------------------------------------
(***************************************************************************)
(* Months and days                                                         *)
(***************************************************************************)

\* The days of a year before a month, without and with the leap day.
CommonDaysBefore(m) ==
  CASE m = 1 -> 0   [] m = 2 -> 31  [] m = 3 -> 59   [] m = 4 -> 90
    [] m = 5 -> 120 [] m = 6 -> 151 [] m = 7 -> 181  [] m = 8 -> 212
    [] m = 9 -> 243 [] m = 10 -> 273 [] m = 11 -> 304 [] OTHER -> 334
DaysBefore(m, y) == CommonDaysBefore(m) + (IF m > 2 THEN Leap(y) ELSE 0)

LEMMA MonthLengths ==
  ASSUME NEW m \in 1 .. 12, NEW y \in Int
  PROVE  /\ DaysInMonth(m, y) \in 28 .. 31
         /\ DaysBefore(m, y) \in 0 .. 335
         /\ m < 12 => DaysBefore(m + 1, y) = DaysBefore(m, y) + DaysInMonth(m, y)
         /\ m = 12 => DaysBefore(m, y) + DaysInMonth(m, y) = 365 + Leap(y)
         /\ m = 1 => DaysBefore(m, y) = 0
BY DEF DaysInMonth, DaysBefore, CommonDaysBefore, Leap

\* A later month begins after an earlier one has ended.
LEMMA MonthsInOrder ==
  ASSUME NEW m \in 1 .. 12, NEW n \in 1 .. 12, NEW y \in Int, m < n
  PROVE  DaysBefore(m, y) + DaysInMonth(m, y) <= DaysBefore(n, y)
BY DEF DaysInMonth, DaysBefore, CommonDaysBefore, Leap

\* The interpolated month lengths of years that begin in March are right.
LEMMA MarchYears ==
  ASSUME NEW m \in 1 .. 12
  PROVE  (153 * (m + (IF m > 2 THEN -3 ELSE 9)) + 2) \div 5
           = CommonDaysBefore(m) + (IF m > 2 THEN -59 ELSE 306)
BY DEF CommonDaysBefore

\* The closed form.
LEMMA DayNumber ==
  ASSUME NEW d, IsDate(d)
  PROVE  /\ DaysFromCivil(d) = NewYear(d.year) + DaysBefore(d.month, d.year) + d.day - 1
         /\ DaysFromCivil(d) \in Int
<1> DEFINE y   == IF d.month <= 2 THEN d.year - 1 ELSE d.year
           doy == (153 * (d.month + (IF d.month > 2 THEN -3 ELSE 9)) + 2) \div 5 + d.day - 1
           era == y \div 400
           yoe == y - era * 400
<1>1. d.day \in Int /\ d.month \in 1 .. 12 /\ d.year \in Int /\ y \in Int
  BY DEF IsDate, Valid
<1>2. DaysFromCivil(d) = era * 146097 + (yoe * 365 + yoe \div 4 - yoe \div 100 + doy) - 719468
  BY DEF DaysFromCivil
<1>3. era * 146097 + (yoe * 365 + yoe \div 4 - yoe \div 100) = YearDays(y)
  <2>. HIDE DEF y
  <2>. QED  BY <1>1, EraIs
<1>4. doy = CommonDaysBefore(d.month) + (IF d.month > 2 THEN -59 ELSE 306) + d.day - 1
  BY <1>1, MarchYears
<1>5. CommonDaysBefore(d.month) \in Int
  BY <1>1 DEF CommonDaysBefore
<1>6. era \in Int /\ yoe \in Int /\ yoe \div 4 \in Int /\ yoe \div 100 \in Int /\ doy \in Int
  BY <1>1, <1>4, <1>5
<1>7. /\ YearDays(d.year) = YearDays(d.year - 1) + 365 + Leap(d.year)
      /\ YearDays(d.year - 1) \in Int /\ Leap(d.year) \in Int
  <2>1. d.year - 1 \in Int
    BY <1>1
  <2>2. YearDays(d.year) = YearDays(d.year - 1) + 365 + Leap(d.year)
    BY <1>1, YearStep
  <2>3. Leap(d.year) \in {0, 1}
    BY <1>1, YearsAreIntegers
  <2>4. YearDays(d.year - 1) \in Int
    BY <2>1, YearsAreIntegers
  <2>. QED  BY <2>2, <2>3, <2>4
<1>. HIDE DEF era, yoe, doy
<1>8. DaysFromCivil(d) = YearDays(y) + doy - 719468
  <2>1. YearDays(y) \in Int
    BY <1>1, YearsAreIntegers
  <2>. QED  BY <1>2, <1>3, <1>6, <2>1
<1>9. CASE d.month > 2
  BY <1>1, <1>4, <1>5, <1>7, <1>8, <1>9 DEF DaysBefore, NewYear
<1>10. CASE ~(d.month > 2)
  BY <1>1, <1>4, <1>5, <1>7, <1>8, <1>10 DEF DaysBefore, NewYear
<1>. QED  BY <1>9, <1>10

LEMMA DateFields ==
  ASSUME NEW d, IsDate(d)
  PROVE  /\ d \in [day : Int, month : Int, year : Int]
         /\ d.month \in 1 .. 12 /\ d.year \in Int
         /\ d.day \in 1 .. DaysInMonth(d.month, d.year)
         /\ DaysInMonth(d.month, d.year) \in 28 .. 31
         /\ DaysBefore(d.month, d.year) \in 0 .. 335
         /\ NewYear(d.year) \in Int /\ Leap(d.year) \in {0, 1}
BY MonthLengths, YearsAreIntegers DEF IsDate, Valid

LEMMA MakeDate ==
  ASSUME NEW y \in Int, NEW m \in 1 .. 12, NEW k \in 1 .. DaysInMonth(m, y)
  PROVE  IsDate(Date(k, m, y))
<1>1. k \in Int
  BY MonthLengths
<1>. QED  BY <1>1 DEF IsDate, Valid, Date

-----------------------------------------------------------------------------
(***************************************************************************)
(* Order and steps                                                         *)
(***************************************************************************)

LEMMA LaterIsMore ==
  ASSUME NEW a, NEW b, IsDate(a), IsDate(b), Before(a, b)
  PROVE  DaysFromCivil(a) < DaysFromCivil(b)
<1> DEFINE startA  == DaysBefore(a.month, a.year)
           startB  == DaysBefore(b.month, b.year)
           lengthA == DaysInMonth(a.month, a.year)
           lengthB == DaysInMonth(b.month, b.year)
<1>1. /\ a.month \in 1 .. 12 /\ a.year \in Int /\ a.day \in 1 .. lengthA /\ lengthA \in 28 .. 31
      /\ startA \in 0 .. 335 /\ NewYear(a.year) \in Int /\ Leap(a.year) \in {0, 1}
  BY DateFields
<1>2. /\ b.month \in 1 .. 12 /\ b.year \in Int /\ b.day \in 1 .. lengthB /\ lengthB \in 28 .. 31
      /\ startB \in 0 .. 335 /\ NewYear(b.year) \in Int
  BY DateFields
<1>3. /\ DaysFromCivil(a) = NewYear(a.year) + startA + a.day - 1
      /\ DaysFromCivil(b) = NewYear(b.year) + startB + b.day - 1
  BY DayNumber
<1>4. CASE a.year < b.year
  <2>1. NewYear(a.year + 1) = NewYear(a.year) + 365 + Leap(a.year)
    BY <1>1, YearStep
  <2>2. NewYear(a.year + 1) <= NewYear(b.year)
    <3>1. a.year + 1 \in Int /\ a.year + 1 <= b.year
      BY <1>1, <1>2, <1>4
    <3>. QED  BY <1>2, <3>1, YearsInOrder
  <2>3. startA + lengthA <= 365 + Leap(a.year)
    <3>1. a.month < 12 => startA + lengthA <= DaysBefore(12, a.year)
      BY <1>1, MonthsInOrder
    <3>2. /\ DaysBefore(12, a.year) + DaysInMonth(12, a.year) = 365 + Leap(a.year)
          /\ DaysBefore(12, a.year) \in Int /\ DaysInMonth(12, a.year) \in 28 .. 31
      <4>1. 12 \in 1 .. 12
        OBVIOUS
      <4>2. DaysBefore(12, a.year) + DaysInMonth(12, a.year) = 365 + Leap(a.year)
        BY <1>1, <4>1, MonthLengths
      <4>3. DaysBefore(12, a.year) \in 0 .. 335
        BY <1>1, <4>1, MonthLengths
      <4>4. DaysInMonth(12, a.year) \in 28 .. 31
        BY <1>1, <4>1, MonthLengths
      <4>. QED  BY <4>2, <4>3, <4>4
    <3>3. CASE a.month < 12
      BY <1>1, <3>1, <3>2, <3>3
    <3>4. CASE a.month = 12
      BY <1>1, <3>2, <3>4
    <3>. QED  BY <1>1, <3>3, <3>4
  <2>. HIDE DEF startA, startB, lengthA, lengthB
  <2>. QED  BY <1>1, <1>2, <1>3, <2>1, <2>2, <2>3
<1>5. CASE a.year = b.year /\ a.month < b.month
  <2>1. startA + lengthA <= startB
    BY <1>1, <1>2, <1>5, MonthsInOrder
  <2>. HIDE DEF startA, startB, lengthA, lengthB
  <2>. QED  BY <1>1, <1>2, <1>3, <1>5, <2>1
<1>6. CASE a.year = b.year /\ a.month = b.month /\ a.day < b.day
  <2>1. startA = startB
    BY <1>6
  <2>. HIDE DEF startA, startB, lengthA, lengthB
  <2>. QED  BY <1>1, <1>2, <1>3, <1>6, <2>1
<1>. QED  BY <1>4, <1>5, <1>6 DEF Before

\* operator< on Dates orders them by their day numbers.
THEOREM OrderIsByDay ==
  ASSUME NEW a, NEW b, IsDate(a), IsDate(b)
  PROVE  Before(a, b) <=> DaysFromCivil(a) < DaysFromCivil(b)
<1>1. Before(a, b) => DaysFromCivil(a) < DaysFromCivil(b)
  BY LaterIsMore
<1>2. Before(b, a) => DaysFromCivil(b) < DaysFromCivil(a)
  BY LaterIsMore
<1>3. Before(a, b) \/ a = b \/ Before(b, a)
  <2>1. /\ a \in [day : Int, month : Int, year : Int]
        /\ b \in [day : Int, month : Int, year : Int]
    BY DEF IsDate
  <2>2. a.day = b.day /\ a.month = b.month /\ a.year = b.year => a = b
    BY <2>1
  <2>3. /\ a.day \in Int /\ a.month \in Int /\ a.year \in Int
        /\ b.day \in Int /\ b.month \in Int /\ b.year \in Int
    BY <2>1
  <2>. QED  BY <2>2, <2>3 DEF Before
<1>4. DaysFromCivil(a) \in Int /\ DaysFromCivil(b) \in Int
  BY DayNumber
<1>. QED  BY <1>1, <1>2, <1>3, <1>4

\* The day number of a date given by its parts.
LEMMA DayNumberOf ==
  ASSUME NEW y \in Int, NEW m \in 1 .. 12, NEW k \in 1 .. DaysInMonth(m, y)
  PROVE  /\ DaysFromCivil(Date(k, m, y)) = NewYear(y) + DaysBefore(m, y) + k - 1
         /\ IsDate(Date(k, m, y))
<1>1. IsDate(Date(k, m, y))
  BY MakeDate
<1>. QED  BY <1>1, DayNumber DEF Date

LEMMA PartsOf ==
  ASSUME NEW d, IsDate(d)
  PROVE  d = Date(d.day, d.month, d.year)
BY DEF IsDate, Date

\* The next date is one day later.
LEMMA IncrementIsOneDay ==
  ASSUME NEW d, IsDate(d)
  PROVE  /\ IsDate(Increment(d)) /\ DaysFromCivil(Increment(d)) = DaysFromCivil(d) + 1
         /\ Before(d, Increment(d))
<1> DEFINE start  == DaysBefore(d.month, d.year)
           length == DaysInMonth(d.month, d.year)
<1>1. /\ d.month \in 1 .. 12 /\ d.year \in Int /\ d.day \in 1 .. length /\ length \in 28 .. 31
      /\ start \in 0 .. 335 /\ NewYear(d.year) \in Int /\ Leap(d.year) \in {0, 1}
      /\ DaysFromCivil(d) = NewYear(d.year) + start + d.day - 1
  BY DateFields, DayNumber
<1>2. CASE d.day + 1 <= length
  <2>1. Increment(d) = Date(d.day + 1, d.month, d.year)
    BY <1>2, PartsOf DEF Increment, Date
  <2>2. d.day + 1 \in 1 .. length
    BY <1>1, <1>2
  <2>3. /\ DaysFromCivil(Increment(d)) = NewYear(d.year) + start + (d.day + 1) - 1
        /\ IsDate(Increment(d))
    BY <1>1, <2>1, <2>2, DayNumberOf
  <2>4. Before(d, Increment(d))
    BY <1>1, <2>1 DEF Before, Date
  <2>. HIDE DEF start, length
  <2>. QED  BY <1>1, <2>3, <2>4
<1>3. CASE ~(d.day + 1 <= length) /\ d.month < 12
  <2>1. Increment(d) = Date(1, d.month + 1, d.year)
    BY <1>3 DEF Increment
  <2>2. d.month + 1 \in 1 .. 12 /\ 1 \in 1 .. DaysInMonth(d.month + 1, d.year)
    <3>1. d.month + 1 \in 1 .. 12
      BY <1>1, <1>3
    <3>2. DaysInMonth(d.month + 1, d.year) \in 28 .. 31
      BY <1>1, <3>1, MonthLengths
    <3>. QED  BY <3>1, <3>2
  <2>3. /\ DaysFromCivil(Increment(d)) = NewYear(d.year) + DaysBefore(d.month + 1, d.year) + 1 - 1
        /\ IsDate(Increment(d))
    BY <1>1, <2>1, <2>2, DayNumberOf
  <2>4. DaysBefore(d.month + 1, d.year) = start + length
    BY <1>1, <1>3, MonthLengths
  <2>5. Before(d, Increment(d))
    BY <1>1, <2>1 DEF Before, Date
  <2>. HIDE DEF start, length
  <2>. QED  BY <1>1, <1>3, <2>3, <2>4, <2>5
<1>4. CASE ~(d.day + 1 <= length) /\ ~(d.month < 12)
  <2>1. Increment(d) = Date(1, 1, d.year + 1)
    BY <1>4 DEF Increment
  <2>2. d.year + 1 \in Int /\ 1 \in 1 .. 12 /\ 1 \in 1 .. DaysInMonth(1, d.year + 1)
    <3>1. d.year + 1 \in Int /\ 1 \in 1 .. 12
      BY <1>1
    <3>2. DaysInMonth(1, d.year + 1) \in 28 .. 31
      BY <3>1, MonthLengths
    <3>. QED  BY <3>1, <3>2
  <2>3. /\ DaysFromCivil(Increment(d)) = NewYear(d.year + 1) + DaysBefore(1, d.year + 1) + 1 - 1
        /\ IsDate(Increment(d))
    BY <2>1, <2>2, DayNumberOf
  <2>4. DaysBefore(1, d.year + 1) = 0 /\ start + length = 365 + Leap(d.year)
    BY <1>1, <1>4, <2>2, MonthLengths
  <2>5. NewYear(d.year + 1) = NewYear(d.year) + 365 + Leap(d.year)
    BY <1>1, YearStep
  <2>6. Before(d, Increment(d))
    BY <1>1, <2>1 DEF Before, Date
  <2>. HIDE DEF start, length
  <2>. QED  BY <1>1, <1>4, <2>3, <2>4, <2>5, <2>6
<1>. QED  BY <1>2, <1>3, <1>4

\* The previous date is one day earlier.
LEMMA DecrementIsOneDay ==
  ASSUME NEW d, IsDate(d)
  PROVE  /\ IsDate(Decrement(d)) /\ DaysFromCivil(Decrement(d)) = DaysFromCivil(d) - 1
         /\ Before(Decrement(d), d)
<1> DEFINE start == DaysBefore(d.month, d.year)
<1>1. /\ d.month \in 1 .. 12 /\ d.year \in Int /\ d.day \in 1 .. DaysInMonth(d.month, d.year)
      /\ d.day \in 1 .. 31
      /\ start \in 0 .. 335 /\ NewYear(d.year) \in Int /\ Leap(d.year) \in {0, 1}
      /\ DaysFromCivil(d) = NewYear(d.year) + start + d.day - 1
  BY DateFields, DayNumber
<1>2. CASE d.day > 1
  <2>1. Decrement(d) = Date(d.day - 1, d.month, d.year)
    BY <1>2, PartsOf DEF Decrement, Date
  <2>2. d.day - 1 \in 1 .. DaysInMonth(d.month, d.year)
    <3>1. DaysInMonth(d.month, d.year) \in 28 .. 31
      BY DateFields
    <3>. QED  BY <1>1, <1>2, <3>1
  <2>3. /\ DaysFromCivil(Decrement(d)) = NewYear(d.year) + start + (d.day - 1) - 1
        /\ IsDate(Decrement(d))
    BY <1>1, <2>1, <2>2, DayNumberOf
  <2>4. Before(Decrement(d), d)
    BY <1>1, <2>1 DEF Before, Date
  <2>. HIDE DEF start
  <2>. QED  BY <1>1, <2>3, <2>4
<1>3. CASE ~(d.day > 1) /\ d.month = 1
  <2>1. Decrement(d) = Date(31, 12, d.year - 1)
    BY <1>3 DEF Decrement
  <2>2. d.year - 1 \in Int /\ 12 \in 1 .. 12 /\ DaysInMonth(12, d.year - 1) = 31
    BY <1>1 DEF DaysInMonth
  <2>3. /\ DaysFromCivil(Decrement(d)) = NewYear(d.year - 1) + DaysBefore(12, d.year - 1) + 31 - 1
        /\ IsDate(Decrement(d))
    BY <2>1, <2>2, DayNumberOf
  <2>4. DaysBefore(12, d.year - 1) + 31 = 365 + Leap(d.year - 1) /\ start = 0
    BY <1>1, <1>3, <2>2, MonthLengths
  <2>5. NewYear(d.year) = NewYear(d.year - 1) + 365 + Leap(d.year - 1)
    <3>1. d.year - 1 + 1 = d.year
      BY <1>1
    <3>. QED  BY <2>2, <3>1, YearStep
  <2>6. /\ DaysBefore(12, d.year - 1) \in Int /\ Leap(d.year - 1) \in {0, 1}
        /\ NewYear(d.year - 1) \in Int
    <3>1. DaysBefore(12, d.year - 1) \in 0 .. 335
      BY <2>2, MonthLengths
    <3>2. Leap(d.year - 1) \in {0, 1}
      BY <2>2, YearsAreIntegers
    <3>3. NewYear(d.year - 1) \in Int
      BY <2>2, YearsAreIntegers
    <3>. QED  BY <3>1, <3>2, <3>3
  <2>7. Before(Decrement(d), d)
    BY <1>1, <2>1 DEF Before, Date
  <2>. HIDE DEF start
  <2>. QED  BY <1>1, <1>3, <2>3, <2>4, <2>5, <2>6, <2>7
<1>4. CASE ~(d.day > 1) /\ d.month # 1
  <2> DEFINE m == d.month - 1
             length == DaysInMonth(m, d.year)
  <2>1. Decrement(d) = Date(length, m, d.year)
    BY <1>4 DEF Decrement
  <2>2. m \in 1 .. 11 /\ m \in 1 .. 12 /\ m + 1 = d.month
    BY <1>1, <1>4
  <2>. HIDE DEF m
  <2>3. length \in 28 .. 31 /\ length \in 1 .. length /\ DaysBefore(m, d.year) \in 0 .. 335
    <3>1. length \in 28 .. 31 /\ DaysBefore(m, d.year) \in 0 .. 335
      BY <1>1, <2>2, MonthLengths
    <3>. QED  BY <3>1
  <2>4. /\ DaysFromCivil(Decrement(d)) = NewYear(d.year) + DaysBefore(m, d.year) + length - 1
        /\ IsDate(Decrement(d))
    BY <1>1, <2>1, <2>2, <2>3, DayNumberOf
  <2>5. start = DaysBefore(m, d.year) + length
    BY <1>1, <2>2, MonthLengths
  <2>6. Before(Decrement(d), d)
    BY <1>1, <2>1, <2>2 DEF Before, Date
  <2>. HIDE DEF start, length
  <2>. QED  BY <1>1, <1>4, <2>3, <2>4, <2>5, <2>6
<1>. QED  BY <1>2, <1>3, <1>4

-----------------------------------------------------------------------------
(***************************************************************************)
(* Months, numbered from the year 0 as the other modules number them       *)
(***************************************************************************)

MonthNumber(d)  == d.year * 12 + d.month - 1
FirstOfMonth(n) == Date(1, (n % 12) + 1, n \div 12)
MonthBegins(n)  == DaysFromCivil(FirstOfMonth(n))

LEMMA SplitNumber ==
  ASSUME NEW n \in Int
  PROVE  n \div 12 \in Int /\ n % 12 \in 0 .. 11 /\ n = (n \div 12) * 12 + (n % 12)
OBVIOUS

LEMMA JoinNumber ==
  ASSUME NEW y \in Int, NEW m \in 1 .. 12
  PROVE  (y * 12 + m - 1) \div 12 = y /\ (y * 12 + m - 1) % 12 = m - 1
OBVIOUS

LEMMA FirstDays ==
  ASSUME NEW n \in Int
  PROVE  /\ IsDate(FirstOfMonth(n)) /\ MonthBegins(n) \in Int
         /\ MonthBegins(n) = NewYear(n \div 12) + DaysBefore((n % 12) + 1, n \div 12)
<1> DEFINE y == n \div 12
           m == (n % 12) + 1
<1>1. y \in Int /\ m \in 1 .. 12
  <2>1. n \div 12 \in Int /\ n % 12 \in 0 .. 11
    BY SplitNumber
  <2>. QED  BY <2>1
<1>2. FirstOfMonth(n) = Date(1, m, y)
  BY DEF FirstOfMonth
<1>3. MonthBegins(n) = DaysFromCivil(Date(1, m, y))
  BY <1>2 DEF MonthBegins
<1>4. DaysBefore(m, y) \in 0 .. 335 /\ NewYear(y) \in Int
  <2>. HIDE DEF y, m
  <2>1. DaysBefore(m, y) \in 0 .. 335
    BY <1>1, MonthLengths
  <2>2. NewYear(y) \in Int
    BY <1>1, YearsAreIntegers
  <2>. QED  BY <2>1, <2>2
<1>5. /\ DaysFromCivil(Date(1, m, y)) = NewYear(y) + DaysBefore(m, y) + 1 - 1
      /\ IsDate(Date(1, m, y))
  <2>. HIDE DEF y, m
  <2>1. DaysInMonth(m, y) \in 28 .. 31
    BY <1>1, MonthLengths
  <2>2. 1 \in 1 .. DaysInMonth(m, y)
    BY <2>1
  <2>. QED  BY <1>1, <2>2, DayNumberOf
<1>6. MonthBegins(n) = NewYear(y) + DaysBefore(m, y)
  <2>. HIDE DEF y, m
  <2>. QED  BY <1>3, <1>4, <1>5
<1>7. NewYear(y) + DaysBefore(m, y) \in Int
  <2>. HIDE DEF y, m
  <2>. QED  BY <1>4
<1>. QED  BY <1>2, <1>5, <1>6, <1>7

\* A month begins when the one before it has ended.
LEMMA NextMonthBegins ==
  ASSUME NEW n \in Int
  PROVE  MonthBegins(n + 1) = MonthBegins(n) + DaysInMonth((n % 12) + 1, n \div 12)
<1> DEFINE y == n \div 12
           m == (n % 12) + 1
<1>1. y \in Int /\ m \in 1 .. 12 /\ n = y * 12 + m - 1
  <2>1. n \div 12 \in Int /\ n % 12 \in 0 .. 11 /\ n = (n \div 12) * 12 + (n % 12)
    BY SplitNumber
  <2>. QED  BY <2>1
<1>2. MonthBegins(n) = NewYear(y) + DaysBefore(m, y)
  BY FirstDays
<1>3. MonthBegins(n + 1) = NewYear((n + 1) \div 12) + DaysBefore(((n + 1) % 12) + 1, (n + 1) \div 12)
  <2>1. n + 1 \in Int
    OBVIOUS
  <2>. QED  BY <2>1, FirstDays
<1>. HIDE DEF y, m
<1>4. NewYear(y) \in Int /\ DaysBefore(m, y) \in 0 .. 335 /\ DaysInMonth(m, y) \in 28 .. 31
  <2>1. NewYear(y) \in Int
    BY <1>1, YearsAreIntegers
  <2>. QED  BY <1>1, <2>1, MonthLengths
<1>5. MonthBegins(n + 1) = MonthBegins(n) + DaysInMonth(m, y)
  <2>1. CASE m < 12
    <3>1. (n + 1) \div 12 = y /\ ((n + 1) % 12) + 1 = m + 1
      BY <1>1, <2>1
    <3>2. DaysBefore(m + 1, y) = DaysBefore(m, y) + DaysInMonth(m, y)
      BY <1>1, <2>1, MonthLengths
    <3>3. MonthBegins(n + 1) = NewYear(y) + DaysBefore(m + 1, y)
      BY <1>3, <3>1
    <3>. QED  BY <1>2, <1>4, <3>2, <3>3
  <2>2. CASE m = 12
    <3>1. (n + 1) \div 12 = y + 1 /\ ((n + 1) % 12) + 1 = 1
      BY <1>1, <2>2
    <3>2. DaysBefore(1, y + 1) = 0
      <4>1. y + 1 \in Int /\ 1 \in 1 .. 12
        BY <1>1
      <4>. QED  BY <4>1, MonthLengths
    <3>3. DaysBefore(m, y) + DaysInMonth(m, y) = 365 + Leap(y)
      BY <1>1, <2>2, MonthLengths
    <3>4. NewYear(y + 1) = NewYear(y) + 365 + Leap(y) /\ Leap(y) \in {0, 1}
      <4>1. Leap(y) \in {0, 1}
        BY <1>1, YearsAreIntegers
      <4>. QED  BY <1>1, <4>1, YearStep
    <3>5. MonthBegins(n + 1) = NewYear(y + 1) + 0
      BY <1>3, <3>1, <3>2
    <3>. QED  BY <1>2, <1>4, <3>3, <3>4, <3>5
  <2>. QED  BY <1>1, <2>1, <2>2
<1>. QED  BY <1>5 DEF y, m

\* 24 months are two years, with or without a leap day.
LEMMA TwoYearsEarlier ==
  ASSUME NEW n \in Int
  PROVE  MonthBegins(n) - MonthBegins(n - 24) >= 730
<1> DEFINE y == n \div 12
           m == (n % 12) + 1
<1>1. y \in Int /\ m \in 1 .. 12 /\ n = y * 12 + m - 1
  <2>1. n \div 12 \in Int /\ n % 12 \in 0 .. 11 /\ n = (n \div 12) * 12 + (n % 12)
    BY SplitNumber
  <2>. QED  BY <2>1
<1>2. MonthBegins(n) = NewYear(y) + DaysBefore(m, y)
  BY FirstDays
<1>3. MonthBegins(n - 24) = NewYear((n - 24) \div 12) + DaysBefore(((n - 24) % 12) + 1, (n - 24) \div 12)
  <2>1. n - 24 \in Int
    OBVIOUS
  <2>. QED  BY <2>1, FirstDays
<1>. HIDE DEF y, m
<1>4. (n - 24) \div 12 = y - 2 /\ ((n - 24) % 12) + 1 = m
  BY <1>1
<1>5. MonthBegins(n - 24) = NewYear(y - 2) + DaysBefore(m, y - 2)
  BY <1>3, <1>4
<1>6. /\ NewYear(y - 1) = NewYear(y - 2) + 365 + Leap(y - 2)
      /\ NewYear(y) = NewYear(y - 1) + 365 + Leap(y - 1)
  <2>1. y - 2 \in Int /\ y - 1 \in Int /\ y - 2 + 1 = y - 1 /\ y - 1 + 1 = y
    BY <1>1
  <2>2. NewYear(y - 2 + 1) = NewYear(y - 2) + 365 + Leap(y - 2)
    BY <2>1, YearStep
  <2>3. NewYear(y - 1 + 1) = NewYear(y - 1) + 365 + Leap(y - 1)
    BY <2>1, YearStep
  <2>. QED  BY <2>1, <2>2, <2>3
<1>7. \A x \in Int : Leap(x) \in {0, 1} /\ NewYear(x) \in Int
  BY YearsAreIntegers
<1>8. /\ Leap(y) \in {0, 1} /\ Leap(y - 1) \in {0, 1} /\ Leap(y - 2) \in {0, 1}
      /\ NewYear(y) \in Int /\ NewYear(y - 1) \in Int /\ NewYear(y - 2) \in Int
  BY <1>1, <1>7
<1>9. CommonDaysBefore(m) \in Int
  BY <1>1 DEF CommonDaysBefore
<1>. QED  BY <1>1, <1>2, <1>5, <1>6, <1>8, <1>9 DEF DaysBefore

LEMMA MonthOfDate ==
  ASSUME NEW d, IsDate(d)
  PROVE  /\ MonthNumber(d) \in Int /\ BeginOfMonth(d) = FirstOfMonth(MonthNumber(d))
         /\ MonthBegins(MonthNumber(d)) <= DaysFromCivil(d)
         /\ DaysFromCivil(d) < MonthBegins(MonthNumber(d) + 1)
<1> DEFINE n      == MonthNumber(d)
           length == DaysInMonth(d.month, d.year)
<1>1. d.year \in Int /\ d.month \in 1 .. 12 /\ d.day \in 1 .. length /\ length \in 28 .. 31
  BY DateFields
<1>2. n \in Int /\ n \div 12 = d.year /\ (n % 12) + 1 = d.month
  <2>1. n \div 12 = d.year /\ n % 12 = d.month - 1
    BY <1>1, JoinNumber DEF MonthNumber
  <2>2. n \in Int
    BY <1>1 DEF MonthNumber
  <2>. QED  BY <1>1, <2>1, <2>2
<1>. HIDE DEF n
<1>3. FirstOfMonth(n) = BeginOfMonth(d)
  BY <1>2 DEF FirstOfMonth, BeginOfMonth
<1>4. MonthBegins(n) = NewYear(d.year) + DaysBefore(d.month, d.year) /\ MonthBegins(n) \in Int
  BY <1>2, FirstDays
<1>5. MonthBegins(n + 1) = MonthBegins(n) + length
  BY <1>2, NextMonthBegins
<1>6. DaysFromCivil(d) = NewYear(d.year) + DaysBefore(d.month, d.year) + d.day - 1
  BY DayNumber
<1>7. NewYear(d.year) \in Int /\ DaysBefore(d.month, d.year) \in 0 .. 335
  BY DateFields
<1>. HIDE DEF length
<1>8. MonthBegins(n) <= DaysFromCivil(d) /\ DaysFromCivil(d) < MonthBegins(n + 1)
  BY <1>1, <1>4, <1>5, <1>6, <1>7
<1>. QED  BY <1>2, <1>3, <1>8 DEF n

\* Adding months gives a date in the month so many months away, the first of
\* a month if the date was one.
LEMMA AddMonthsIs ==
  ASSUME NEW d, IsDate(d), NEW k \in Int
  PROVE  /\ IsDate(AddMonths(d, k))
         /\ BeginOfMonth(AddMonths(d, k)) = FirstOfMonth(MonthNumber(d) + k)
         /\ d.day = 1 => AddMonths(d, k) = FirstOfMonth(MonthNumber(d) + k)
<1> DEFINE n == MonthNumber(d) + k
           y == n \div 12
           m == (n % 12) + 1
           b == IF d.day > DaysInMonth(m, y) THEN DaysInMonth(m, y) ELSE d.day
<1>1. d.year \in Int /\ d.month \in 1 .. 12 /\ d.day \in 1 .. DaysInMonth(d.month, d.year)
      /\ DaysInMonth(d.month, d.year) \in 28 .. 31
  BY DateFields
<1>2. n \in Int /\ d.year * 12 + d.month - 1 + k = n
  BY <1>1 DEF MonthNumber
<1>3. AddMonths(d, k) = Date(b, m, y)
  BY <1>2 DEF AddMonths
<1>. HIDE DEF n
<1>4. y \in Int /\ m \in 1 .. 12
  <2>1. n \div 12 \in Int /\ n % 12 \in 0 .. 11
    BY <1>2, SplitNumber
  <2>. QED  BY <2>1
<1>5. FirstOfMonth(n) = Date(1, m, y)
  BY DEF FirstOfMonth
<1>. HIDE DEF y, m
<1>6. DaysInMonth(m, y) \in 28 .. 31
  BY <1>4, MonthLengths
<1>7. b \in 1 .. DaysInMonth(m, y) /\ (d.day = 1 => b = 1)
  BY <1>1, <1>6
<1>. HIDE DEF b
<1>8. IsDate(Date(b, m, y))
  BY <1>4, <1>7, MakeDate
<1>9. BeginOfMonth(Date(b, m, y)) = Date(1, m, y)
  BY DEF BeginOfMonth, Date
<1>. QED  BY <1>3, <1>5, <1>7, <1>8, <1>9 DEF n

\* Months as the drivers number them begin one after the other, a lifetime of
\* 730 days after the month 24 months earlier, and every date lies in its own
\* month: what the modules of the drivers assume of MonthBegin.
THEOREM RealMonths ==
  /\ \A n \in Int : /\ MonthBegins(n) \in Int /\ MonthBegins(n) < MonthBegins(n + 1)
                    /\ MonthBegins(n - 24) + 730 <= MonthBegins(n)
  /\ \A d : IsDate(d) => /\ MonthBegins(MonthNumber(d)) <= DaysFromCivil(d)
                         /\ DaysFromCivil(d) < MonthBegins(MonthNumber(d) + 1)
                         /\ \A k \in Int :
                              BeginOfMonth(AddMonths(d, k)) = FirstOfMonth(MonthNumber(d) + k)
<1>1. ASSUME NEW n \in Int
      PROVE  /\ MonthBegins(n) \in Int /\ MonthBegins(n) < MonthBegins(n + 1)
             /\ MonthBegins(n - 24) + 730 <= MonthBegins(n)
  <2>1. n % 12 \in 0 .. 11 /\ n \div 12 \in Int
    BY SplitNumber
  <2>2. DaysInMonth((n % 12) + 1, n \div 12) \in 28 .. 31
    <3>1. (n % 12) + 1 \in 1 .. 12
      BY <2>1
    <3>. QED  BY <2>1, <3>1, MonthLengths
  <2>3. MonthBegins(n) \in Int /\ MonthBegins(n - 24) \in Int
    <3>1. n - 24 \in Int
      OBVIOUS
    <3>. QED  BY <3>1, FirstDays
  <2>4. MonthBegins(n + 1) = MonthBegins(n) + DaysInMonth((n % 12) + 1, n \div 12)
    BY NextMonthBegins
  <2>5. MonthBegins(n) - MonthBegins(n - 24) >= 730
    BY TwoYearsEarlier
  <2>. HIDE DEF MonthBegins
  <2>. QED  BY <2>2, <2>3, <2>4, <2>5
<1>2. ASSUME NEW d, IsDate(d)
      PROVE  /\ MonthBegins(MonthNumber(d)) <= DaysFromCivil(d)
             /\ DaysFromCivil(d) < MonthBegins(MonthNumber(d) + 1)
             /\ \A k \in Int : BeginOfMonth(AddMonths(d, k)) = FirstOfMonth(MonthNumber(d) + k)
  BY <1>2, MonthOfDate, AddMonthsIs
<1>. QED  BY <1>1, <1>2

LEMMA NumberOfFirst ==
  ASSUME NEW n \in Int
  PROVE  FirstOfMonth(n).day = 1 /\ MonthNumber(FirstOfMonth(n)) = n
<1>1. n \div 12 \in Int /\ n % 12 \in 0 .. 11 /\ n = (n \div 12) * 12 + (n % 12)
  BY SplitNumber
<1>2. FirstOfMonth(n).day = 1 /\ MonthNumber(FirstOfMonth(n)) = (n \div 12) * 12 + ((n % 12) + 1) - 1
  BY DEF FirstOfMonth, MonthNumber, Date
<1>. QED  BY <1>1, <1>2

\* The day before the first of a month lies in the previous month.
LEMMA DayBeforeFirst ==
  ASSUME NEW n \in Int
  PROVE  BeginOfMonth(Decrement(FirstOfMonth(n + 1))) = FirstOfMonth(n)
<1> DEFINE f == FirstOfMonth(n + 1)
           y == (n + 1) \div 12
           m == ((n + 1) % 12) + 1
<1>1. y \in Int /\ m \in 1 .. 12 /\ n + 1 = y * 12 + m - 1
  <2>1. n + 1 \in Int
    OBVIOUS
  <2>2. /\ (n + 1) \div 12 \in Int /\ (n + 1) % 12 \in 0 .. 11
        /\ n + 1 = ((n + 1) \div 12) * 12 + ((n + 1) % 12)
    BY <2>1, SplitNumber
  <2>. QED  BY <2>2
<1>2. f = Date(1, m, y)
  BY DEF FirstOfMonth
<1>. HIDE DEF f, y, m
<1>3. f.day = 1 /\ f.month = m /\ f.year = y
  BY <1>2 DEF Date
<1>4. CASE m = 1
  <2>1. n \div 12 = y - 1 /\ (n % 12) + 1 = 12
    BY <1>1, <1>4
  <2>2. Decrement(f) = Date(31, 12, y - 1)
    BY <1>3, <1>4 DEF Decrement
  <2>. QED  BY <2>1, <2>2 DEF FirstOfMonth, BeginOfMonth, Date, f
<1>5. CASE m # 1
  <2>1. n \div 12 = y /\ (n % 12) + 1 = m - 1
    BY <1>1, <1>5
  <2>2. Decrement(f) = Date(DaysInMonth(m - 1, y), m - 1, y)
    BY <1>1, <1>3, <1>5 DEF Decrement
  <2>. QED  BY <2>1, <2>2 DEF FirstOfMonth, BeginOfMonth, Date, f
<1>. QED  BY <1>4, <1>5

-----------------------------------------------------------------------------
(***************************************************************************)
(* The invariant: delta steps have moved the date delta days, and every    *)
(* date on the way is one the constructor accepts.  What the properties    *)
(* say of the date holds of every such date.                               *)
(***************************************************************************)

IInv == IsDate(date) /\ delta \in Int /\ DaysSince(date, Epoch) = delta

LEMMA EpochIsDate == IsDate(Epoch) /\ DaysFromCivil(Epoch) \in Int
<1>1. IsDate(Epoch)
  BY DEF Epoch, Date, IsDate, Valid, DaysInMonth
<1>. QED  BY <1>1, DayNumber

LEMMA InitIInv == Init => IInv
BY EpochIsDate DEF Init, IInv, DaysSince

LEMMA NextIInv == IInv /\ [Next]_vars => IInv'
<1>. SUFFICES ASSUME IInv, [Next]_vars  PROVE IInv'
  OBVIOUS
<1>1. /\ IsDate(date) /\ delta \in Int /\ DaysFromCivil(date) - DaysFromCivil(Epoch) = delta
      /\ DaysFromCivil(date) \in Int /\ DaysFromCivil(Epoch) \in Int
  BY EpochIsDate, DayNumber DEF IInv, DaysSince
<1>2. CASE Forward
  <2>1. IsDate(date') /\ DaysFromCivil(date') = DaysFromCivil(date) + 1
    BY <1>1, <1>2, IncrementIsOneDay DEF Forward
  <2>. QED  BY <1>1, <1>2, <2>1 DEF Forward, IInv, DaysSince
<1>3. CASE Backward
  <2>1. IsDate(date') /\ DaysFromCivil(date') = DaysFromCivil(date) - 1
    BY <1>1, <1>3, DecrementIsOneDay DEF Backward
  <2>. QED  BY <1>1, <1>3, <2>1 DEF Backward, IInv, DaysSince
<1>4. CASE UNCHANGED vars
  BY <1>4 DEF vars, IInv
<1>. QED  BY <1>2, <1>3, <1>4 DEF Next

\* addDays(delta) reaches a valid date delta days away, and operator< compares
\* it with its neighbours and the epoch as the day numbers do.
THEOREM SteppingIsDays == Spec => []StepsAreDays
<1>1. IInv => StepsAreDays
  <2>. SUFFICES ASSUME IInv  PROVE StepsAreDays
    OBVIOUS
  <2>1. IsDate(date) /\ delta \in Int /\ DaysSince(date, Epoch) = delta
    BY DEF IInv
  <2>2. Before(date, Epoch) <=> delta < 0
    <3>1. Before(date, Epoch) <=> DaysFromCivil(date) < DaysFromCivil(Epoch)
      BY <2>1, EpochIsDate, OrderIsByDay
    <3>2. DaysFromCivil(date) \in Int /\ DaysFromCivil(Epoch) \in Int
      BY <2>1, EpochIsDate, DayNumber
    <3>. QED  BY <2>1, <3>1, <3>2 DEF DaysSince
  <2>3. Before(date, Increment(date)) /\ Before(Decrement(date), date)
    BY <2>1, IncrementIsOneDay, DecrementIsOneDay
  <2>. QED  BY <2>1, <2>2, <2>3 DEF StepsAreDays, IsDate
<1>. QED  BY InitIInv, NextIInv, <1>1, PTL DEF Spec

\* In 32 bits seconds are wrapped only outside the years 1932 to 2067.
LEMMA NotWrapped ==
  ASSUME NEW u \in Int, -16777216 <= u, u < 16777216
  PROVE  Wrapped(u) = u
<1>1. 2^25 = 33554432 /\ 2^24 = 16777216
  OBVIOUS
<1>2. ((u + 16777216) % 33554432) - 16777216 = u
  OBVIOUS
<1>. QED  BY <1>1, <1>2 DEF Wrapped

\* The years 1932 to 2067 lie within 24837 days of the epoch on either side.
LEMMA RepresentableDays ==
  ASSUME NEW d, IsDate(d), d.year \in 1932 .. 2067
  PROVE  -24837 <= DaysSince(d, Epoch) /\ DaysSince(d, Epoch) < 24837
<1>1. /\ IsDate(Date(1, 1, 1932)) /\ IsDate(Date(1, 1, 2068))
      /\ DaysFromCivil(Date(1, 1, 1932)) = DaysFromCivil(Epoch) - 24837
      /\ DaysFromCivil(Date(1, 1, 2068)) = DaysFromCivil(Epoch) + 24837
  <2>1. IsDate(Date(1, 1, 1932)) /\ IsDate(Date(1, 1, 2068))
    BY DEF Date, IsDate, Valid, DaysInMonth
  <2>2. /\ DaysFromCivil(Date(1, 1, 1932)) = -13880
        /\ DaysFromCivil(Date(1, 1, 2000)) = 10957
        /\ DaysFromCivil(Date(1, 1, 2068)) = 35794
    BY DEF DaysFromCivil, Date
  <2>. QED  BY <2>1, <2>2 DEF Epoch
<1>2. ~Before(d, Date(1, 1, 1932)) /\ Before(d, Date(1, 1, 2068))
  BY DateFields DEF Before, Date
<1>3. ~(DaysFromCivil(d) < DaysFromCivil(Date(1, 1, 1932))) /\ DaysFromCivil(d) < DaysFromCivil(Date(1, 1, 2068))
  BY <1>1, <1>2, OrderIsByDay
<1>4. DaysFromCivil(d) \in Int /\ DaysFromCivil(Epoch) \in Int
  BY DayNumber, EpochIsDate
<1>. QED  BY <1>1, <1>3, <1>4 DEF DaysSince

\* dateFromSecondsSince2000 undoes secondsSince2000 from 1932 to 2067, and from
\* the seconds of a day more it makes the next day.
THEOREM SecondsAndBack == Spec => []SecondsRoundTrip
<1>1. IInv => SecondsRoundTrip
  <2>. SUFFICES ASSUME IInv, date.year \in 1932 .. 2067
                PROVE  /\ DeltaOf(UnitsSince2000(date)) = delta
                       /\ DeltaOf(UnitsSince2000(date) + UnitsPerDay) = delta + 1
    BY DEF SecondsRoundTrip, Representable
  <2>1. /\ delta \in Int /\ DaysSince(date, Epoch) = delta
        /\ -24837 <= delta /\ delta < 24837
    BY RepresentableDays DEF IInv
  <2>2. /\ delta * 675 \in Int /\ -16777216 <= delta * 675 /\ delta * 675 < 16777216
        /\ (delta * 675) \div 675 = delta /\ (delta * 675 + 675) \div 675 = delta + 1
    BY <2>1
  <2>3. Wrapped(delta * 675) = delta * 675
    BY <2>2, NotWrapped
  <2>. QED  BY <2>1, <2>2, <2>3 DEF UnitsSince2000, DeltaOf, UnitsPerDay
<1>. QED  BY InitIInv, NextIInv, <1>1, PTL DEF Spec

\* The windows the drivers build, month by month from the first to the day
\* before the next first, are disjoint, leave out no day and are found again
\* from the next one.
THEOREM MonthWindows == Spec => []MonthsPartition
<1>1. IInv => MonthsPartition
  <2>. SUFFICES ASSUME IInv  PROVE MonthsPartition
    OBVIOUS
  <2> DEFINE n     == MonthNumber(date)
             first == BeginOfMonth(date)
             next  == AddMonths(first, 1)
  <2>1. /\ IsDate(date) /\ n \in Int /\ n + 1 \in Int /\ first = FirstOfMonth(n)
        /\ MonthBegins(n) <= DaysFromCivil(date) /\ DaysFromCivil(date) < MonthBegins(n + 1)
    BY MonthOfDate DEF IInv
  <2>. HIDE DEF n, first
  <2>2. IsDate(first) /\ first.day = 1 /\ MonthNumber(first) = n
    BY <2>1, FirstDays, NumberOfFirst
  <2>3. next = FirstOfMonth(n + 1)
    BY <2>2, AddMonthsIs
  <2>. HIDE DEF next
  <2>4. IsDate(next) /\ next.day = 1 /\ MonthNumber(next) = n + 1
    BY <2>1, <2>3, FirstDays, NumberOfFirst
  <2>5. AddMonths(next, -1) = first
    <3>1. -1 \in Int /\ n + 1 + (-1) = n
      BY <2>1
    <3>2. AddMonths(next, -1) = FirstOfMonth(MonthNumber(next) + (-1))
      BY <2>4, <3>1, AddMonthsIs
    <3>. QED  BY <2>1, <2>4, <3>1, <3>2
  <2>6. BeginOfMonth(Decrement(next)) = first
    BY <2>1, <2>3, DayBeforeFirst
  <2>7. DaysFromCivil(first) <= DaysFromCivil(date) /\ DaysFromCivil(date) < DaysFromCivil(next)
    BY <2>1, <2>3 DEF MonthBegins
  <2>8. ASSUME NEW k \in {-24, -1, 1}
        PROVE  Valid(AddMonths(date, k))
    <3>1. k \in Int
      OBVIOUS
    <3>. QED  BY <2>1, <3>1, AddMonthsIs DEF IsDate
  <2>. QED  BY <2>5, <2>6, <2>7, <2>8 DEF MonthsPartition, first, next
<1>. QED  BY InitIInv, NextIInv, <1>1, PTL DEF Spec

\* The 24 months integrated before a release are never shorter than the
\* lifetime of 730 days.
THEOREM HorizonIsLongEnough == Spec => []HorizonCoversLifetime
<1>1. IInv => HorizonCoversLifetime
  <2>. SUFFICES ASSUME IInv  PROVE HorizonCoversLifetime
    OBVIOUS
  <2> DEFINE n == MonthNumber(date)
  <2>1. IsDate(date) /\ n \in Int /\ BeginOfMonth(date) = FirstOfMonth(n)
    BY MonthOfDate DEF IInv
  <2>. HIDE DEF n
  <2>2. BeginOfMonth(AddMonths(date, -24)) = FirstOfMonth(n - 24)
    <3>1. -24 \in Int /\ n + (-24) = n - 24
      BY <2>1
    <3>2. BeginOfMonth(AddMonths(date, -24)) = FirstOfMonth(MonthNumber(date) + (-24))
      BY <2>1, <3>1, AddMonthsIs
    <3>. QED  BY <3>1, <3>2 DEF n
  <2>3. MonthBegins(n) - MonthBegins(n - 24) >= 730
    BY <2>1, TwoYearsEarlier
  <2>. QED  BY <2>1, <2>2, <2>3 DEF HorizonCoversLifetime, DaysSince, MonthBegins
<1>. QED  BY InitIInv, NextIInv, <1>1, PTL DEF Spec

=============================================================================
