------------------------------ MODULE Calendar ------------------------------
(* The calendar arithmetic of the cost code.  A day is a number, day 0 is  *)
(* the first day of the first month; MonthLengths lists the months, so an  *)
(* instance may have months as short as it likes.  Dates carry no time of  *)
(* day and no zone: the code counts days in UTC.                           *)
EXTENDS Integers, SequencesExt

CONSTANT MonthLengths   \* <<length of month 1, length of month 2, ...>>

ASSUME MonthLengthsAssumption == MonthLengths \in Seq(Nat \ {0})

Months == DOMAIN MonthLengths

(* First day of each month, and of the one after the last.                 *)
MonthStart ==
    [m \in 1 .. Len(MonthLengths) + 1 |->
        FoldLeft(LAMBDA a, b : a + b, 0, SubSeq(MonthLengths, 1, m - 1))]

Month(day) == CHOOSE m \in Months : MonthStart[m] <= day /\ day < MonthStart[m + 1]
DayOfMonth(day) == day - MonthStart[Month(day)] + 1
DaysInMonth(day) == MonthLengths[Month(day)]
FirstOfMonth(day) == MonthStart[Month(day)]

AddMonths(day, n) == MonthStart[Month(day) + n]

FirstMonthOfQuarter(m) == ((m - 1) \div 3) * 3 + 1
FirstMonthOfYear(m) == ((m - 1) \div 12) * 12 + 1

MonthsFrom(m, n) == [start |-> MonthStart[m], end |-> MonthStart[m + n]]

(* [start, end) of the calendar period of a type that holds the day.       *)
CalendarPeriod(type, day) ==
    CASE type = "monthly" -> MonthsFrom(Month(day), 1)
      [] type = "quarterly" -> MonthsFrom(FirstMonthOfQuarter(Month(day)), 3)
      [] type = "annual" -> MonthsFrom(FirstMonthOfYear(Month(day)), 12)

(* The same day of the month before, or that month's last day.             *)
ShiftOneMonthBack(day) ==
    LET m == Month(day) - 1
    IN  MonthStart[m] + (IF DayOfMonth(day) <= MonthLengths[m]
                         THEN DayOfMonth(day) ELSE MonthLengths[m]) - 1

(* Start of the bucket PostgreSQL's date_trunc puts a day in (weeks start  *)
(* on Monday, and day 0 is one), and the end the code computes from it.    *)
BucketStart(granularity, day) ==
    CASE granularity = "weekly" -> day - (day % 7)
      [] granularity = "monthly" -> FirstOfMonth(day)
      [] granularity = "quarterly" -> MonthStart[FirstMonthOfQuarter(Month(day))]
      [] granularity = "daily" -> day

BucketEnd(granularity, start) ==
    CASE granularity = "weekly" -> start + 7
      [] granularity = "monthly" -> AddMonths(start, 1)
      [] granularity = "quarterly" -> AddMonths(start, 3)
      [] granularity = "daily" -> start + 1
=============================================================================
