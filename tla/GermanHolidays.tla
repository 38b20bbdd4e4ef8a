--------------------------- MODULE GermanHolidays ---------------------------
(***************************************************************************)
(* The days a recurring reminder keeps clear of (german_holidays.py), and  *)
(* the day an occurrence is moved to (reminder_engine.py).  A date is the  *)
(* number of days since Monday, 1 January 1900.                            *)
(***************************************************************************)
EXTENDS Integers

States == {"BW", "BY", "BE", "BB", "HB", "HH", "HE", "MV",
           "NI", "NW", "RP", "SL", "SN", "ST", "SH", "TH"}
Years == 1900..2199

-----------------------------------------------------------------------------
(* The calendar *)

Leap(y) == y % 4 = 0 /\ (y % 100 # 0 \/ y % 400 = 0)
DaysTo(y) ==        \* before 1 January of y
    LET before == y - 1 IN
    365 * (y - 1900) + before \div 4 - before \div 100 + before \div 400 - 460
MonthStart == <<0, 31, 59, 90, 120, 151, 181, 212, 243, 273, 304, 334>>
Date(y, m, d) ==
    DaysTo(y) + MonthStart[m] + (IF m > 2 /\ Leap(y) THEN 1 ELSE 0) + d - 1
Weekday(day) == day % 7     \* 0 is a Monday
YearOf(day) ==
    CHOOSE y \in (1900 + day \div 366)..(1900 + day \div 365) :
        DaysTo(y) <= day /\ day < DaysTo(y + 1)

-----------------------------------------------------------------------------
(* Public holidays *)

\* Meeus/Jones/Butcher.
EasterSunday(y) ==
    LET a == y % 19
        b == y \div 100
        c == y % 100
        d == b \div 4
        e == b % 4
        f == (b + 8) \div 25
        g == (b - f + 1) \div 3
        h == (19 * a + b - d - g + 15) % 30
        i == c \div 4
        k == c % 4
        length == (32 + 2 * e + 2 * i - h - k) % 7
        m == (a + 11 * h + 22 * length) \div 451
        n == h + length - 7 * m + 114 IN
    Date(y, n \div 31, (n % 31) + 1)

RepentanceDay(y) ==
    LET november23 == Date(y, 11, 23)
        back == (Weekday(november23) - 2) % 7 IN
    november23 - (IF back = 0 THEN 7 ELSE back)

\* The states that share a holiday, some since a year or in one only.
Since(year, y, states) == IF y >= year THEN states ELSE {}
Everywhere(y) ==
    {Date(y, 1, 1), Date(y, 5, 1), Date(y, 10, 3), Date(y, 12, 25), Date(y, 12, 26)}
      \cup {EasterSunday(y) + n : n \in {-2, 1, 39, 50}}
      \cup (IF y = 2017 THEN {Date(y, 10, 31)} ELSE {})
Local(y, state) ==
    LET easter == EasterSunday(y)
        In(states, day) == IF state \in states THEN {day} ELSE {} IN
    UNION {In({"BW", "BY", "ST"}, Date(y, 1, 6)),
           In(Since(2019, y, {"BE"}) \cup Since(2023, y, {"MV"}), Date(y, 3, 8)),
           In({"BB"}, easter), In({"BB"}, easter + 49),
           In({"BW", "BY", "HE", "NW", "RP", "SL"}, easter + 60),
           In({"SL"}, Date(y, 8, 15)),
           In(Since(2019, y, {"TH"}), Date(y, 9, 20)),
           In({"BB", "MV", "SN", "ST", "TH"} \cup Since(2018, y, {"HB", "HH", "NI", "SH"}),
              Date(y, 10, 31)),
           In({"BW", "BY", "NW", "RP", "SL"}, Date(y, 11, 1)),
           In({"SN"}, RepentanceDay(y)),
           IF y \in {2020, 2025} THEN In({"BE"}, Date(y, 5, 8)) ELSE {}}

PublicHolidays(y, state) ==
    IF state \in States /\ y \in Years THEN Everywhere(y) \cup Local(y, state) ELSE {}
IsHoliday(day, state) == day \in PublicHolidays(YearOf(day), state)

-----------------------------------------------------------------------------
(* Occurrences *)

\* _occurrence_at_or_after(): at most 370 days away; without weekdays and
\* without a region any day will do.
Fits(day, weekdays, state) ==
    /\ Weekday(day) \in weekdays \/ weekdays = {}
    /\ state = "" \/ ~IsHoliday(day, state)
OccurrenceAtOrAfter(day, weekdays, state) ==
    day + (CHOOSE n \in 0..370 :
              /\ Fits(day + n, weekdays, state)
              /\ \A k \in 0..(n - 1) : ~Fits(day + k, weekdays, state))

\* _weekly_anchor_weekday(): a weekly recurrence that skips holidays keeps its
\* weekday.
WeeklyAnchor(day, recurrenceDays) == IF recurrenceDays = 7 THEN {Weekday(day)} ELSE {}

=============================================================================
