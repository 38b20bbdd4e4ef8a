------------------------- MODULE MCReminderDialogue -------------------------
(* Instances of ReminderDialogue for TLC: what the messages say. *)
EXTENDS ReminderDialogue, GermanHolidays, TLC

Symmetry == Permutations(Ids) \cup Permutations(Slots) \cup Permutations(Handlers)
\* No guard and no property here reads what the observers told and stale hold.
View == <<rows, workers, budget, pending, calls, said, revived, turns>>

Doubling ==
    [n \in 1..GiveUp |-> IF 2^(n - 1) < BlockDelay THEN 2^(n - 1) ELSE BlockDelay]

Numbered(action, n) == [action |-> action, position |-> n, parts |-> Nothing]
Time == [Nothing EXCEPT !.at = MaxDue]
Subject == [Nothing EXCEPT !.title = TRUE]

Requests ==
    {Says("create", [Subject EXCEPT !.days = 1]), Says("create", [Time EXCEPT !.title = TRUE]),
     Says("create", [Time EXCEPT !.title = TRUE, !.days = 1, !.count = 2, !.skip = TRUE])}
Answers ==
    {Says("plain", Subject), Says("plain", Time), Says("bare", Time),
     Says("plain", [Nothing EXCEPT !.count = 2]), Says("plain", [Nothing EXCEPT !.region = TRUE])}
Commands ==
    {Says("snooze", Time), Says("done", Nothing), Says("cancel", Nothing), Numbered("cancel", 2),
     Says("cancel all", Nothing), Says("reschedule", Time), Says("reschedule", Nothing),
     Says("stop", Nothing), Says("recurrence", [Nothing EXCEPT !.days = 7, !.count = 2]),
     Says("recurrence", [Nothing EXCEPT !.days = 1])}

Messages == Requests \cup Answers \cup Commands

\* Bound: of two turns and a worker two are under way at a time, all three only
\* while one turn is between the transactions of a cancel.
TwoAtATime ==
    \/ \E h \in Handlers : calls[h].pc = "idle"
    \/ \E h \in Handlers : calls[h].pc = "cancel"
    \/ \A w \in Replicas : workers[w].pc = "idle"

-----------------------------------------------------------------------------
(* The calendar against what it stands for *)

\* Easter is the Sunday after the ecclesiastical full moon on or after 21 March
\* (the epact of Clavius), the definition the computus is to compute.
Epact(y) ==
    LET golden == (y % 19) + 1
        century == (y \div 100) + 1
        lunar == (8 * century + 5) \div 25
        solar == (3 * century) \div 4
        raw == (11 * golden + 27 + lunar - solar) % 30 IN
    IF raw = 24 \/ (raw = 25 /\ golden > 11) THEN raw + 1 ELSE raw
FullMoon(y) ==
    LET day == Date(y, 3, 1) + 43 - Epact(y) IN IF day < Date(y, 3, 21) THEN day + 30 ELSE day
ASSUME EasterIsTheSundayAfterTheFullMoon ==
    \A y \in Years : /\ Weekday(EasterSunday(y)) = 6
                     /\ EasterSunday(y) - FullMoon(y) \in 1..7

ASSUME RepentanceIsTheWednesdayBefore ==
    \A y \in Years : /\ Weekday(RepentanceDay(y)) = 2
                     /\ Date(y, 11, 23) - RepentanceDay(y) \in 1..7

\* A weekly reminder that skips holidays is put off by two weeks at the most
\* (Christmas and New Year), for every day and state of these years.
ASSUME HolidaysPutOffTwoWeeks ==
    \A day \in Date(2024, 12, 1)..Date(2025, 12, 31), state \in States :
        LET next == OccurrenceAtOrAfter(day, WeeklyAnchor(day, 7), state) IN
        /\ next - day \in {0, 7, 14} /\ ~IsHoliday(next, state)
        /\ OccurrenceAtOrAfter(day, 0..4, state) - day <= 5

=============================================================================
