------------------------------- MODULE Dates --------------------------------
(***************************************************************************)
(* Dates as the commands read them.  A time is a number of quarters of a   *)
(* day: morning hours start at quarter 1, midday is quarter 2, and work    *)
(* ends at quarter 3.  Day 0 is a Sunday, as time.Weekday counts.  A       *)
(* window is half-open, and its end is the first moment after it.          *)
(*                                                                         *)
(* Code: cmd/when.go and internal/workdays/workdays.go.                    *)
(***************************************************************************)
EXTENDS Integers, FiniteSets

CONSTANTS
    Weekend,    \* the weekdays nobody works, VAMOOSE_WEEKEND
    Holidays    \* days nobody works, VAMOOSE_HOLIDAYS

ASSUME DatesAssumption == Weekend \subseteq 0..6 /\ Holidays \subseteq Nat

DayLen == 4
Day(t) == t \div DayLen
StartOfDay(t) == t - (t % DayLen)
Weekday(t) == Day(t) % 7

AddDays(t, n) == t + n * DayLen

\* How many days ahead a weekday is: at least one, so never today.
DaysAhead(t, target) ==
    LET d == (target - Weekday(t) + 7) % 7 IN IF d = 0 THEN 7 ELSE d

\* Mutant: the weekday it is today counts as its next occurrence.
TodayCounts(t, target) == StartOfDay(t) + ((target - Weekday(t) + 7) % 7) * DayLen

NextWeekday(t, target) == AddDays(StartOfDay(t), DaysAhead(t, target))

Monday == 1

\* A day, as a window.
Whole(start) == [start |-> start, end |-> AddDays(start, 1)]

\* A phrase is a weekday's number or one of these words; "next friday" is
\* read as "friday".
Words == {"today", "tomorrow", "next week"}

\* The window a phrase names, from when it is typed.
ResolveWord(t, word) ==
    CASE word = "today" -> Whole(StartOfDay(t))
      [] word = "tomorrow" -> Whole(AddDays(StartOfDay(t), 1))
      [] word = "next week" ->
            LET monday == NextWeekday(t, Monday)
            IN  [start |-> monday, end |-> AddDays(monday, 5)]

ResolveWeekday(t, target) == Whole(NextWeekday(t, target))

\* Two bare dates: the last one is a day of the window.
ParseDates(first, last) == [start |-> first * DayLen, end |-> AddDays(last * DayLen, 1)]

ValidWindow(w) == w.end > w.start

\* A half day of a window's first day, and whether the window is one day.
SingleDay(w) == w.end <= AddDays(StartOfDay(w.start), 1)

HalfDay(w, portion) ==
    LET day == StartOfDay(w.start)
    IN  IF portion = "am" THEN [start |-> day + 1, end |-> day + 2]
                          ELSE [start |-> day + 2, end |-> day + 3]

-----------------------------------------------------------------------------
IsWorkday(day) == day % 7 \notin Weekend /\ day \notin Holidays

\* Day by day from the window's first midnight, while before its end.
Count(w) ==
    LET after[t \in Nat] ==
            IF t >= w.end THEN 0
            ELSE (IF IsWorkday(Day(t)) THEN 1 ELSE 0) + after[AddDays(t, 1)]
    IN  after[StartOfDay(w.start)]

Overlaps(v, w) == v.start < w.end /\ w.start < v.end

DaysOf(w) == {d \in Day(w.start)..Day(w.end) : Overlaps(w, Whole(d * DayLen))}
=============================================================================
