------------------------------ MODULE CivilDate ------------------------------
(***************************************************************************)
(* Calendar dates, detail/datetime_utils.hpp.  addDays moves a Date one    *)
(* day at a time; the day number, from which all times in seconds derive,  *)
(* comes from a closed formula instead.  The state is the date that        *)
(* addDays(delta) has reached from 1 January 2000, as in                   *)
(* dateFromSecondsSince2000, for every delta within the bounds.            *)
(*                                                                         *)
(* Years are positive, so C++ division is the division of TLA+ except      *)
(* where it is noted.                                                      *)
(***************************************************************************)
EXTENDS Integers

CONSTANTS Earliest, Latest   \* bounds on delta

ASSUME BoundsAssumption == Earliest \in Int /\ Latest \in Int /\ Earliest <= 0 /\ 0 <= Latest

VARIABLES date, delta
vars == <<date, delta>>

Date(d, m, y) == [day |-> d, month |-> m, year |-> y]
Epoch         == Date(1, 1, 2000)

IsLeapYearJulian(y) == y % 4 = 0
IsLeapYear(y)       == y % 4 = 0 /\ (y % 100 # 0 \/ y % 400 = 0)

DaysInMonth(m, y) ==
  CASE m \in {4, 6, 9, 11} -> 30
    [] m = 2               -> IF IsLeapYear(y) THEN 29 ELSE 28
    [] OTHER               -> 31

\* What the constructor accepts.
Valid(d) == d.month \in 1 .. 12 /\ d.day \in 1 .. DaysInMonth(d.month, d.year)

\* Days since 1 January 1970, in years that begin in March.
DaysFromCivil(d) ==
  LET y   == IF d.month <= 2 THEN d.year - 1 ELSE d.year
      era == y \div 400
      yoe == y - era * 400
      doy == (153 * (d.month + (IF d.month > 2 THEN -3 ELSE 9)) + 2) \div 5 + d.day - 1
      doe == yoe * 365 + yoe \div 4 - yoe \div 100 + doy
  IN  era * 146097 + doe - 719468

DaysSince(a, b) == DaysFromCivil(a) - DaysFromCivil(b)

\* secondsSince multiplies 32-bit integers.  A day has 675 times 128 seconds
\* and the integers wrap after 2^25 times 128, so counting in units of 128
\* seconds loses nothing.
UnitsPerDay       == 675
Wrapped(u)        == ((u + 2^24) % 2^25) - 2^24
UnitsSince2000(d) == Wrapped(DaysSince(d, Epoch) * UnitsPerDay)
\* floor(seconds / 86400), the delta that dateFromSecondsSince2000 computes.
DeltaOf(units)    == units \div UnitsPerDay

\* operator<
Before(a, b) ==
  \/ a.year < b.year
  \/ a.year = b.year /\ a.month < b.month
  \/ a.year = b.year /\ a.month = b.month /\ a.day < b.day

Increment(d) ==
  IF d.day + 1 <= DaysInMonth(d.month, d.year) THEN [d EXCEPT !.day = @ + 1]
  ELSE IF d.month < 12 THEN Date(1, d.month + 1, d.year) ELSE Date(1, 1, d.year + 1)

DecrementDayFirst(d) ==
  IF d.day > 1 THEN [d EXCEPT !.day = @ - 1]
  ELSE IF d.month = 1 THEN Date(31, 12, d.year - 1)
       ELSE Date(DaysInMonth(d.month, d.year), d.month - 1, d.year)
Decrement(d) ==
  IF d.day > 1 THEN [d EXCEPT !.day = @ - 1]
  ELSE IF d.month = 1 THEN Date(31, 12, d.year - 1)
       ELSE Date(DaysInMonth(d.month - 1, d.year), d.month - 1, d.year)

\* The day is clamped to the last of the month reached.
AddMonthsFromOne(d, k) ==
  LET index == d.year * 12 + d.month + k
      y == index \div 12   m == (index % 12) + 1
  IN  Date(IF d.day > DaysInMonth(m, y) THEN DaysInMonth(m, y) ELSE d.day, m, y)
AddMonthsUnclamped(d, k) ==
  LET index == d.year * 12 + d.month - 1 + k IN Date(d.day, (index % 12) + 1, index \div 12)
AddMonths(d, k) ==
  LET index == d.year * 12 + d.month - 1 + k
      y == index \div 12   m == (index % 12) + 1
  IN  Date(IF d.day > DaysInMonth(m, y) THEN DaysInMonth(m, y) ELSE d.day, m, y)

BeginOfMonth(d) == Date(1, d.month, d.year)

-----------------------------------------------------------------------------

Init == date = Epoch /\ delta = 0

Forward  == delta < Latest /\ date' = Increment(date) /\ delta' = delta + 1
Backward == delta > Earliest /\ date' = Decrement(date) /\ delta' = delta - 1

Next == Forward \/ Backward
Spec == Init /\ [][Next]_vars

-----------------------------------------------------------------------------
(***************************************************************************)
(* Properties                                                              *)
(***************************************************************************)

\* Stepping and the closed formula agree: addDays(delta) is delta days away and
\* a date that the constructor accepts, and comparing dates field by field
\* compares their day numbers.
StepsAreDays ==
  /\ Valid(date)
  /\ DaysSince(date, Epoch) = delta
  /\ Before(date, Epoch) <=> delta < 0
  /\ Before(date, Increment(date)) /\ Before(Decrement(date), date)

\* dateFromSecondsSince2000 undoes secondsSince2000 (tests/
\* test_date_roundtrip.cpp), in the years whose seconds fit in 32 bits; and the
\* seconds of a day more, which are added to a double, lead to the next day:
\* so the forward driver gets from one release to the next.
Representable    == date.year \in 1932 .. 2067
SecondsRoundTrip ==
  Representable => /\ DeltaOf(UnitsSince2000(date)) = delta
                   /\ DeltaOf(UnitsSince2000(date) + UnitsPerDay) = delta + 1

\* Months partition the days, in the way the drivers build their windows: from
\* the first of a month to the day before the first of the next one, going
\* back month by month; from every day the dates they derive by adding months
\* exist.
MonthsPartition ==
  LET first == BeginOfMonth(date)
      next  == AddMonths(first, 1)
  IN  /\ DaysFromCivil(first) <= DaysFromCivil(date)
      /\ DaysFromCivil(date) < DaysFromCivil(next)
      /\ BeginOfMonth(Decrement(next)) = first
      /\ AddMonths(next, -1) = first
      /\ \A k \in {-24, -1, 1} : Valid(AddMonths(date, k))

\* 24 months are never shorter than the lifetime of 730 days, also if the
\* release begins on the 29th of February: the assumption behind counting
\* what is left in memory as expired.
HorizonCoversLifetime ==
  DaysSince(BeginOfMonth(date), BeginOfMonth(AddMonths(date, -24))) >= 730

=============================================================================
