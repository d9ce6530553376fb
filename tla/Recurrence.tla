----------------------------- MODULE Recurrence -----------------------------
(***************************************************************************)
(* When a schedule next fires (routines/recurrence.rs and next_run_at of   *)
(* routines/service.rs).  An instant is a number of ticks, TicksPerDay of  *)
(* them a day, from midnight of 1 January 1970; a wall clock is a tick of  *)
(* the day.  The zone is UTC: how jiff places a wall clock in a zone with  *)
(* daylight saving is the library's, and is not modelled.                  *)
(***************************************************************************)
EXTENDS Integers, Sequences, FiniteSetsExt

CONSTANT TicksPerDay

ASSUME TicksAssumption == TicksPerDay \in Nat \ {0}

\* None of the code: an instant is never negative.
Never == -1

-----------------------------------------------------------------------------
(* jiff's proleptic Gregorian calendar. *)

Leap(y) == y % 4 = 0 /\ (y % 100 # 0 \/ y % 400 = 0)

DaysInMonth(y, m) == CASE m = 2 -> IF Leap(y) THEN 29 ELSE 28
                       [] m \in {4, 6, 9, 11} -> 30
                       [] OTHER -> 31

\* Days before 1 January of year y, from that of year 1.
YearStart(y) == LET p == y - 1 IN (365 * p) + (p \div 4) - (p \div 100) + (p \div 400)

MonthStart(y, m) ==
    <<0, 31, 59, 90, 120, 151, 181, 212, 243, 273, 304, 334>>[m]
      + (IF m > 2 /\ Leap(y) THEN 1 ELSE 0)

DayNumber(y, m, d) == YearStart(y) - YearStart(1970) + MonthStart(y, m) + d - 1

YearOf(n) == CHOOSE y \in (1969 + (n \div 366))..(1971 + (n \div 365)) :
                DayNumber(y, 1, 1) <= n /\ n < DayNumber(y + 1, 1, 1)
MonthOf(n) == LET y == YearOf(n) IN
              CHOOSE m \in 1..12 : /\ DayNumber(y, m, 1) <= n
                                   /\ n < DayNumber(y, m, 1) + DaysInMonth(y, m)
DayOf(n) == n - DayNumber(YearOf(n), MonthOf(n), 1) + 1

\* Monday is 1; 1 January 1970 was a Thursday.
WeekdayOf(n) == ((n + 3) % 7) + 1

-----------------------------------------------------------------------------
(* recurrence.rs.  Each scan walks its candidate days in order and takes the first  *)
(* one whose wall clock is still ahead: the earliest of them.                       *)

Earliest(instants) == IF instants = {} THEN Never ELSE Min(instants)

\* occurrence_after, over a scan's days.
FirstAfter(days, clock, t) ==
    Earliest({u \in {n * TicksPerDay + clock : n \in days} : u > t})

Today(t) == t \div TicksPerDay

DailyNext(s, t) == FirstAfter({Today(t), Today(t) + 1}, s.clock, t)

\* Mutant: the scan stops before the same weekday comes round again.
WeeklyNextShort(s, t) ==
    FirstAfter({n \in Today(t)..(Today(t) + 6) : WeekdayOf(n) \in s.weekdays}, s.clock, t)

\* Seven weekdays and today again, a week later.
WeeklyNext(s, t) ==
    FirstAfter({n \in Today(t)..(Today(t) + 7) : WeekdayOf(n) \in s.weekdays}, s.clock, t)

\* Date::new refuses a day the month lacks: the month is skipped, not clamped.
DateIn(y, m, day) == IF day <= DaysInMonth(y, m) THEN {DayNumber(y, m, day)} ELSE {}

\* Fourteen months, this one included; months are counted from year 0.
MonthlyNext(s, t) ==
    LET this == 12 * YearOf(Today(t)) + MonthOf(Today(t)) - 1
    IN  FirstAfter(UNION {DateIn(k \div 12, (k % 12) + 1, s.day) : k \in this..(this + 13)}, s.clock, t)

\* Eight years, this one included.
YearlyNext(s, t) ==
    LET this == YearOf(Today(t))
    IN  FirstAfter(UNION {DateIn(y, s.month, s.day) : y \in this..(this + 7)}, s.clock, t)

\* next_run_at at instant t: measured from then, so a server that was down resumes with one run.
NextRunAt(s, enabled, t) ==
    IF ~enabled THEN Never
    ELSE CASE s.kind = "manual" -> Never
           [] s.kind = "every" -> t + s.interval
           [] s.kind = "once" -> IF s.at > t THEN s.at ELSE Never
           [] s.kind = "daily" -> DailyNext(s, t)
           [] s.kind = "weekly" -> WeeklyNext(s, t)
           [] s.kind = "monthly" -> MonthlyNext(s, t)
           [] s.kind = "yearly" -> YearlyNext(s, t)

-----------------------------------------------------------------------------
(* What a calendar rule says of one day, as a person reads it. *)

Recurring(s) == s.kind \in {"daily", "weekly", "monthly", "yearly"}

FallsOn(s, n) == CASE s.kind = "daily" -> TRUE
                   [] s.kind = "weekly" -> WeekdayOf(n) \in s.weekdays
                   [] s.kind = "monthly" -> DayOf(n) = s.day
                   [] s.kind = "yearly" -> MonthOf(n) = s.month /\ DayOf(n) = s.day

\* The first instant after t at which the rule fires, looking ahead as far as
\* the given number of days.
Stated(s, t, horizon) ==
    Earliest({n * TicksPerDay + s.clock :
                n \in {k \in Today(t)..(Today(t) + horizon) :
                          FallsOn(s, k) /\ k * TicksPerDay + s.clock > t}})
=============================================================================
