------------------------------ MODULE Calendar ------------------------------
(***************************************************************************)
(* The intervals of /stats: the command line client computes the current   *)
(* day, week and month with calendar arithmetic of its own                 *)
(* (client/src/main.rs), and the server takes the two ends as they come.   *)
(*                                                                         *)
(* Days are counted from 1970-01-01; an interval is the pair of its first  *)
(* and last day (the code multiplies by SECS_PER_DAY and ends one second   *)
(* before the day after).  now_secs is never negative, so that the         *)
(* divisions of the code, which truncate, are those of TLA+.               *)
(***************************************************************************)
EXTENDS Integers, FiniteSets, Functions

CONSTANT Years   \* the years whose dates are checked

ASSUME YearsOfClock == Years \subseteq 1970..9999

(***************************************************************************)
(* Both conversions count from a first of March, in eras of 400 years:     *)
(* then the leap day is the last of its year, and the months before it     *)
(* have 153 days in five.                                                  *)
(***************************************************************************)
\* The day of the era, or of the year, on which its year or month begins.
YearStart(yoe) == 365 * yoe + yoe \div 4 - yoe \div 100
MonthStart(mp) == (153 * mp + 2) \div 5

\* Mutant: every fourth year is a leap year.
YearOfJulianDay(doe) == (doe - doe \div 1460) \div 365

YearOfDay(doe) == (doe - doe \div 1460 + doe \div 36524 - doe \div 146096) \div 365

\* civil_from_days: year, month and day.
Civil(days) ==
  LET z == days + 719468
      doe == z % 146097
      yoe == YearOfDay(doe)
      doy == doe - YearStart(yoe)
      mp == (5 * doy + 2) \div 153
      month == IF mp < 10 THEN mp + 3 ELSE mp - 9
  IN  <<yoe + 400 * (z \div 146097) + (IF month <= 2 THEN 1 ELSE 0),
        month, doy - MonthStart(mp) + 1>>

\* days_from_civil.
Days(year, month, day) ==
  LET y == IF month <= 2 THEN year - 1 ELSE year
      mp == IF month > 2 THEN month - 3 ELSE month + 9
  IN  (y \div 400) * 146097 + YearStart(y % 400) + MonthStart(mp) + day - 1 - 719468

\* stats_interval.  1970-01-01 was a Thursday.
Week(day) == LET monday == day - ((day + 3) % 7) IN <<monday, monday + 6>>

Month(day) ==
  LET year == Civil(day)[1]
      month == Civil(day)[2]
      next == IF month = 12 THEN <<year + 1, 1>> ELSE <<year, month + 1>>
  IN  <<Days(year, month, 1), Days(next[1], next[2], 1) - 1>>

-----------------------------------------------------------------------------
(***************************************************************************)
(* The calendar as one counts it.                                          *)
(***************************************************************************)
Leap(year) == year % 4 = 0 /\ (year % 100 # 0 \/ year % 400 = 0)

Length(year, month) == CASE month \in {4, 6, 9, 11} -> 30
                         [] month = 2 -> IF Leap(year) THEN 29 ELSE 28
                         [] OTHER -> 31

Count(year, month, day) ==
  365 * (year - 1970) + Cardinality({y \in 1970..year - 1 : Leap(y)})
    + SumFunction([m \in 1..month - 1 |-> Length(year, m)]) + day - 1

\* Both conversions agree with the calendar at the ends of every month, so
\* that "current month" is the days from its first to its last, and a week is
\* the seven days from a Monday (1970-01-05 was one) that everyone of its days
\* names: no day is in two intervals, and none is in no interval
\* (stats_interval, client/src/main.rs:405).
CalendarRight == \A y \in Years, m \in 1..12 :
  LET first == Count(y, m, 1)
      last == Count(y, m, Length(y, m))
  IN  /\ \A d \in {1, 2, 28, Length(y, m)} : /\ Days(y, m, d) = Count(y, m, d)
                                             /\ Civil(Count(y, m, d)) = <<y, m, d>>
      /\ Month(first) = <<first, last>> /\ Month(last) = <<first, last>>
      /\ \A d \in first..first + 6 : /\ Week(d)[1] \in d - 6..d
                                     /\ Week(d)[2] = Week(d)[1] + 6
                                     /\ (Week(d)[1] - 4) % 7 = 0
=============================================================================
