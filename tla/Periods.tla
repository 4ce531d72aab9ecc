---------------------------------- MODULE Periods --------------------------------
(***************************************************************************)
(* period.util.ts: the ranges of the reports, half-open and in UTC.  A     *)
(* point of time is its day, counted from 1970-01-01; a range is the set   *)
(* of its days.  Date.UTC takes a month and a day that overflow.           *)
(***************************************************************************)
EXTENDS Integers

\* Date of ECMAScript: months are 0 .. 11.
Leap(y) == y % 4 = 0 /\ (y % 100 # 0 \/ y % 400 = 0)

Before == <<0, 31, 59, 90, 120, 151, 181, 212, 243, 273, 304, 334>>

DateUTC(year, month, date) ==
  LET y == year + month \div 12
      m == month % 12
      leaps(x) == x \div 4 - x \div 100 + x \div 400
  IN  365 * (y - 1970) + leaps(y - 1) - leaps(1969)
        + Before[m + 1] + (IF m > 1 /\ Leap(y) THEN 1 ELSE 0) + date - 1

UTCFullYear(day) == CHOOSE y \in 1970 + day \div 366 .. 1970 + day \div 365 :
  DateUTC(y, 0, 1) <= day /\ day < DateUTC(y + 1, 0, 1)

UTCMonth(day) == CHOOSE m \in 0 .. 11 :
  LET y == UTCFullYear(day) IN DateUTC(y, m, 1) <= day /\ day < DateUTC(y, m + 1, 1)

UTCDate(day) == day - DateUTC(UTCFullYear(day), UTCMonth(day), 1) + 1
UTCDay(day)  == (day + 4) % 7  \* 0 is Sunday

--------------------------------------------------------------------------------
\* Variant: months from 1, as the parameter has them.
monthRangeFromOne(y, m) == DateUTC(y, m, 1) .. DateUTC(y, m + 1, 1) - 1

\* of the parameter "y-m"
monthRange(y, m) == DateUTC(y, m - 1, 1) .. DateUTC(y, m, 1) - 1

monthOf(now) == monthRange(UTCFullYear(now), UTCMonth(now) + 1)

\* of the parameter "y-m-d"
dayRange(y, m, d) ==
  LET start == DateUTC(y, m - 1, d)
      end   == DateUTC(UTCFullYear(start), UTCMonth(start), UTCDate(start) + 1)
  IN  start .. end - 1

weekRange(now) ==
  LET dow   == UTCDay(now)
      diffToMonday == IF dow = 0 THEN -6 ELSE 1 - dow
      start == DateUTC(UTCFullYear(now), UTCMonth(now), UTCDate(now) + diffToMonday)
      end   == DateUTC(UTCFullYear(start), UTCMonth(start), UTCDate(start) + 7)
  IN  start .. end - 1
================================================================================
