----------------------------- MODULE MCRoutines -----------------------------
(* Two ticks a day: a clock of 0 is midnight, of 1 noon. *)
EXTENDS Routines

At(y, m, d, clock) == DayNumber(y, m, d) * TicksPerDay + clock

\* Either side of a firing, after a month without its day, and a leap day.
MCInstants == {At(2026, 1, 31, 0), At(2026, 1, 31, 1), At(2026, 3, 31, 0),
               At(2028, 2, 29, 1)}

\* One schedule of each kind; 31 January 2026 is a Saturday.
MCSchedules ==
    {[kind |-> "manual"],
     [kind |-> "every", interval |-> 1],
     [kind |-> "once", at |-> At(2026, 1, 31, 1)],
     [kind |-> "daily", clock |-> 0],
     [kind |-> "weekly", weekdays |-> {6}, clock |-> 1],
     [kind |-> "monthly", day |-> 31, clock |-> 1],
     [kind |-> "yearly", month |-> 2, day |-> 29, clock |-> 1]}

\* Every schedule on, and one of them off as well.
MCDefinitions == {[schedule |-> s, enabled |-> TRUE] : s \in MCSchedules}
                   \cup {[schedule |-> [kind |-> "daily", clock |-> 0], enabled |-> FALSE]}
=============================================================================
