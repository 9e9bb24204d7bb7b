--------------------------------- MODULE Date ---------------------------------
(***************************************************************************)
(* zing::Date, days as Julian day numbers, and TimeZone::toUtcTime and     *)
(* fromUtcTime, which are built on it.  The specification walks through a  *)
(* calendar that is defined by the lengths of the months and leap years,   *)
(* as the reference, and asks the formulas about every day of it.          *)
(***************************************************************************)
EXTENDS Integers

CONSTANTS
    FirstYear, LastYear,
    TimesOfDay,      \* seconds of the day that are looked at
    MaxDays          \* bound: days before and after 1970 that are looked at in seconds
                     \* (TLC has 32-bit integers)

YearAssumption == FirstYear \in Nat /\ LastYear \in Nat /\ FirstYear <= LastYear

kSecondsPerDay == 24 * 60 * 60
kDaysPerWeek == 7

TimeAssumption == TimesOfDay \subseteq 0..(kSecondsPerDay - 1)

getJulianDayNumber(year, month, day) ==
    LET a == (14 - month) \div 12
        y == year + 4800 - a
        m == month + 12 * a - 3
    IN  day + (153 * m + 2) \div 5 + y * 365 + y \div 4 - y \div 100 + y \div 400 - 32045

getYearMonthDay(julianDayNumber) ==
    LET a == julianDayNumber + 32044
        b == (4 * a + 3) \div 146097
        c == a - ((b * 146097) \div 4)
        d == (4 * c + 3) \div 1461
        e == c - ((1461 * d) \div 4)
        m == (5 * e + 2) \div 153
    IN  [year |-> b * 100 + d - 4800 + m \div 10,
         month |-> m + 3 - 12 * (m \div 10),
         day |-> e - ((153 * m + 2) \div 5) + 1]

kJulianDayOf1970_01_01 == getJulianDayNumber(1970, 1, 1)

weekDay(julianDayNumber) == (julianDayNumber + 1) % kDaysPerWeek

\* the / and % of C++, towards zero
Quotient(i, n) == IF i >= 0 THEN i \div n ELSE -((-i) \div n)
Remainder(i, n) == i - n * Quotient(i, n)

\* the first half of toUtcTime
SplitTime(t) ==
    LET seconds == Remainder(t, kSecondsPerDay)
        days == Quotient(t, kSecondsPerDay)
    IN  IF seconds < 0
        THEN [days |-> days - 1, seconds |-> seconds + kSecondsPerDay]
        ELSE [days |-> days, seconds |-> seconds]

\* toUtcTime with yday; fillHMS splits the seconds
toUtcTime(t) ==
    LET split == SplitTime(t)
        jdn == split.days + kJulianDayOf1970_01_01
        ymd == getYearMonthDay(jdn)
    IN  [date |-> ymd,
         sec |-> split.seconds % 60, min |-> (split.seconds \div 60) % 60,
         hour |-> split.seconds \div 3600,
         wday |-> weekDay(jdn),
         yday |-> jdn - getJulianDayNumber(ymd.year, 1, 1)]

fromUtcTime(utc) ==
    (getJulianDayNumber(utc.date.year, utc.date.month, utc.date.day) - kJulianDayOf1970_01_01)
        * kSecondsPerDay + utc.hour * 3600 + utc.min * 60 + utc.sec

-----------------------------------------------------------------------------
(* The reference: a calendar that is counted day by day.                   *)

IsLeap(y) == y % 4 = 0 /\ (y % 100 # 0 \/ y % 400 = 0)

MonthLength(y, m) ==
    IF m = 2 THEN (IF IsLeap(y) THEN 29 ELSE 28) ELSE IF m \in {4, 6, 9, 11} THEN 30 ELSE 31

NextDay(d) ==
    IF d.day < MonthLength(d.year, d.month) THEN [d EXCEPT !.day = @ + 1]
    ELSE IF d.month < 12 THEN [d EXCEPT !.day = 1, !.month = @ + 1]
    ELSE [year |-> d.year + 1, month |-> 1, day |-> 1]

VARIABLES
    today,      \* the date of the reference
    count       \* days since the first one

Init ==
    /\ today = [year |-> FirstYear, month |-> 1, day |-> 1]
    /\ count = 0

Next ==
    /\ NextDay(today).year <= LastYear
    /\ today' = NextDay(today)
    /\ count' = count + 1

Spec == Init /\ [][Next]_<<today, count>>

-----------------------------------------------------------------------------
Julian(d) == getJulianDayNumber(d.year, d.month, d.day)

\* Consecutive days have consecutive Julian day numbers, across months, leap years and
\* centuries; the number leads back to the day.
DaysCounted ==
    /\ Julian(today) = getJulianDayNumber(FirstYear, 1, 1) + count
    /\ getYearMonthDay(Julian(today)) = today

\* The days of the week follow each other, and 1 January 1970 was a Thursday.
WeekDaysFollow ==
    /\ weekDay(Julian(NextDay(today))) = (weekDay(Julian(today)) + 1) % kDaysPerWeek
    /\ weekDay(kJulianDayOf1970_01_01) = 4

\* toUtcTime gives the date, time and day of the year, before and after 1970, and
\* fromUtcTime is its inverse.
DayTime == [date |-> today, day |-> Julian(today) - kJulianDayOf1970_01_01]
YearDay == count - Julian([year |-> today.year, month |-> 1, day |-> 1])
                 + getJulianDayNumber(FirstYear, 1, 1)
UtcRoundTrip ==
    \A sod \in {sod \in TimesOfDay : DayTime.day \in -MaxDays..MaxDays} :
        LET t == DayTime.day * kSecondsPerDay + sod
            utc == toUtcTime(t)
        IN  /\ utc.date = today /\ utc.yday = YearDay
            /\ utc.hour * 3600 + utc.min * 60 + utc.sec = sod
            /\ utc.hour \in 0..23 /\ utc.min \in 0..59 /\ utc.sec \in 0..59
            /\ fromUtcTime(utc) = t

=============================================================================
