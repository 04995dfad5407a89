------------------------------- MODULE Calendar -------------------------------
(***************************************************************************)
(* Dates as generateExpensesFromRecurring advances them: a day is a number *)
(* of days since 1 January 2024, a month one of months.  Go's AddDate adds *)
(* to the month and normalises the day: 31 January and a month is 2 March. *)
(* The calendar is right for the years 2024 to 2099.                       *)
(***************************************************************************)
EXTENDS Integers, FiniteSets

Intervals == {"daily", "weekly", "monthly", "yearly"}

DaysBefore == <<0, 31, 59, 90, 120, 151, 181, 212, 243, 273, 304, 334>>

\* The first day of month m; every fourth year has a 29 February.
MonthStart(m) == 365 * (m \div 12) + DaysBefore[(m % 12) + 1] + ((m + 46) \div 48)

Month(d) == Cardinality({m \in 1 .. (d \div 28) : MonthStart(m) <= d})

DayOfMonth(d) == d - MonthStart(Month(d)) + 1

\* Faulty variant: a month is thirty days.
AddDateThirty(i, d) ==
    CASE i = "daily" -> d + 1 [] i = "weekly" -> d + 7
      [] i = "monthly" -> d + 30 [] i = "yearly" -> d + 365

\* The switch on the interval.
AddDate(i, d) ==
    CASE i = "daily"   -> d + 1
      [] i = "weekly"  -> d + 7
      [] i = "monthly" -> MonthStart(Month(d) + 1) + DayOfMonth(d) - 1
      [] i = "yearly"  -> MonthStart(Month(d) + 12) + DayOfMonth(d) - 1
=============================================================================
