------------------------------ MODULE Routines ------------------------------
(***************************************************************************)
(* The routine timer (routines/scheduler.rs) over the routines table       *)
(* (routines/store.rs), the service that edits it (routines/service.rs)    *)
(* and the runner that starts a session for a firing (routines/runner.rs). *)
(* A tick reads the due rows once and works through that list with awaits  *)
(* between its statements, so a row may be edited or deleted in between.   *)
(* An edit takes the time when its request comes in and awaits the row and *)
(* its validation before it writes, so a tick may run in between.  Every   *)
(* node of a deployment spawns the timer (boot.rs).                        *)
(***************************************************************************)
EXTENDS Recurrence, SequencesExt

CONSTANTS
    Nodes,          \* the servers over one database
    Names,          \* the names a routine may have
    Schedules,      \* the schedules a person may save
    Definitions,    \* the routines a person may save: a schedule, on or off
    Instants,       \* the values the clock takes
    Horizon,        \* how many days the reference looks ahead
    MaxEdits,       \* creates, replaces and deletes
    MaxTrouble      \* statements that fail and nodes that crash

ASSUME RoutineAssumption == /\ Instants \subseteq Nat /\ Instants # {}
                            /\ Horizon \in Nat /\ MaxEdits \in Nat /\ MaxTrouble \in Nat

\* What validate_schedule lets be saved.
Validated(s) ==
    /\ s.kind \in {"daily", "weekly", "monthly", "yearly"} => s.clock \in 0..(TicksPerDay - 1)
    /\ \/ s.kind \in {"manual", "daily"}
       \/ s.kind = "every" /\ s.interval \in Nat \ {0}
       \/ s.kind = "once" /\ s.at \in Int
       \/ s.kind = "weekly" /\ s.weekdays # {} /\ s.weekdays \subseteq 1..7
       \/ s.kind = "monthly" /\ s.day \in 1..31
       \/ s.kind = "yearly" /\ s.month \in 1..12 /\ s.day \in 1..31

ASSUME ScheduleAssumption == \A s \in Schedules : Validated(s)

ASSUME DefinitionAssumption == Definitions \subseteq [schedule : Schedules, enabled : BOOLEAN]

VARIABLES
    now,        \* now_ms
    rows,       \* the routines table: name -> {} or the set of its one row
    timer,      \* per node: where its tick is
    requests,   \* the creates and replaces that have come in and are not yet written
    edits,      \* how many edits there were
    trouble,    \* how many failures there were
    fired,      \* ghost: per name, the latest due instant that was run
    again,      \* ghost: the names whose timer an edit put back to where it had run
    basis       \* ghost: per name, what next_run_at was computed from

vars == <<now, rows, timer, requests, edits, trouble, fired, again, basis>>

Requests == [id : 0..(MaxEdits - 1), name : Names, def : Definitions, at : Instants]

Resting == [phase |-> "rest", at |-> 0, due |-> <<>>]

\* The row of a routine that has one.
Row(r) == CHOOSE row \in rows[r] : TRUE

TypeOK ==
    /\ now \in Instants
    /\ \A r \in Names :
          /\ Cardinality(rows[r]) <= 1
          /\ \A row \in rows[r] : row.def \in Definitions /\ row.next \in Nat \cup {Never}
          /\ fired[r] = Never \/ fired[r] \in 0..now
    /\ \A n \in Nodes :
          /\ timer[n].phase \in {"rest", "claim", "start"}
          /\ timer[n].at \in Instants \cup {0}
          /\ timer[n].phase = "rest" <=> timer[n].due = <<>>
          /\ \A i \in DOMAIN timer[n].due : timer[n].due[i].next \in 0..timer[n].at
    /\ requests \subseteq Requests /\ \A e \in requests : e.id < edits /\ e.at <= now
    /\ edits \in 0..MaxEdits /\ trouble \in 0..MaxTrouble
    /\ again \subseteq Names

Init ==
    /\ now = Min(Instants)
    /\ rows = [r \in Names |-> {}]
    /\ timer = [n \in Nodes |-> Resting]
    /\ requests = {}
    /\ edits = 0 /\ trouble = 0
    /\ fired = [r \in Names |-> Never]
    /\ again = {}
    /\ basis = [r \in Names |-> {}]

Advance ==
    /\ \E t \in Instants : t > now /\ now' = t
    /\ UNCHANGED <<rows, timer, requests, edits, trouble, fired, again, basis>>

-----------------------------------------------------------------------------
(* service.rs: edits made over HTTP or by a control tool. *)

\* row_from_input: the timer is computed with the row.
Armed(def, at) == [def |-> def, next |-> NextRunAt(def.schedule, def.enabled, at)]
ComputedFrom(def, at) == {[def |-> def, at |-> at]}

\* The routine was run for an instant as late as this one, or is about to be.
Ran(r, at) == \/ at <= fired[r]
              \/ \E n \in Nodes : /\ timer[n].phase = "start"
                                 /\ Head(timer[n].due).name = r /\ at <= Head(timer[n].due).next

\* A create or a replace comes in: now_ms is read here, and the row written later.
\* Which of the two it is shows only in whether the name must be free or taken.
Request(r, def) ==
    /\ edits < MaxEdits
    /\ requests' = requests \cup {[id |-> edits, name |-> r, def |-> def, at |-> now]}
    /\ edits' = edits + 1
    /\ UNCHANGED <<now, rows, timer, trouble, fired, again, basis>>

\* The row as the edit computed it, from the time of its request.
Write(e) ==
    LET row == Armed(e.def, e.at) IN
    /\ rows' = [rows EXCEPT ![e.name] = {row}]
    /\ basis' = [basis EXCEPT ![e.name] = ComputedFrom(e.def, e.at)]
    /\ again' = IF row.next # Never /\ Ran(e.name, row.next) THEN again \cup {e.name}
                                                           ELSE again \ {e.name}
    /\ requests' = requests \ {e}
    /\ UNCHANGED <<now, timer, edits, trouble, fired>>

\* A taken name is a conflict.
Create(e) == rows[e.name] = {} /\ Write(e)

\* A full replace: the timer is computed afresh.  An UPDATE of no row changes nothing.
Replace(e) == rows[e.name] # {} /\ Write(e)

\* The input is invalid, the name taken or unknown, a statement fails, or the server
\* goes down: nothing is written.
Refuse(e) ==
    /\ requests' = requests \ {e}
    /\ UNCHANGED <<now, rows, timer, edits, trouble, fired, again, basis>>

Delete(r) ==
    /\ edits < MaxEdits /\ rows[r] # {}
    /\ rows' = [rows EXCEPT ![r] = {}]
    /\ basis' = [basis EXCEPT ![r] = {}]
    /\ again' = again \ {r}
    /\ edits' = edits + 1
    /\ UNCHANGED <<now, timer, requests, trouble, fired>>

-----------------------------------------------------------------------------
(* scheduler.rs. *)

\* Mutant: a routine due this very instant is left for later.
DueNowStrictly(r) == \E row \in rows[r] : row.def.enabled /\ row.next # Never /\ row.next < now

\* The condition of due_across_all_users.
DueNow(r) == \E row \in rows[r] : row.def.enabled /\ row.next # Never /\ row.next <= now

\* tick: the due rows as they are now, earliest first.  A read that fails, or finds
\* nothing, leaves everything to the next tick.
Tick(n) ==
    /\ timer[n].phase = "rest"
    /\ LET due == {[name |-> r, def |-> Row(r).def, next |-> Row(r).next,
                 again |-> r \in again] : r \in {q \in Names : DueNow(q)}} IN
       /\ due # {}
       /\ \E order \in SetToSeqs(due) :
             /\ \A i \in 1..(Len(order) - 1) : order[i].next <= order[i + 1].next
             /\ timer' = [timer EXCEPT ![n] = [phase |-> "claim", at |-> now, due |-> order]]
    /\ UNCHANGED <<now, rows, requests, edits, trouble, fired, again, basis>>

\* Mutant: the tick does not end with its list.
ContinuedPastEnd(n) == [timer[n] EXCEPT !.phase = "claim", !.due = Tail(@)]

\* The loop goes on to the next due routine, or the tick is over.
Continued(n) ==
    IF Len(timer[n].due) = 1 THEN Resting
    ELSE [timer[n] EXCEPT !.phase = "claim", !.due = Tail(@)]

\* The owner's services cannot be resolved, or the UPDATE fails: unclaimed, so skipped.
Skip(n) ==
    /\ timer[n].phase = "claim" /\ trouble < MaxTrouble
    /\ trouble' = trouble + 1
    /\ timer' = [timer EXCEPT ![n] = Continued(n)]
    /\ UNCHANGED <<now, rows, requests, edits, fired, again, basis>>

\* Mutant: the routine is run first, its timer left for afterwards.
ArmLater(n) ==
    /\ timer[n].phase = "claim"
    /\ timer' = [timer EXCEPT ![n].phase = "start"]
    /\ UNCHANGED <<now, rows, requests, edits, trouble, fired, again, basis>>

\* fire, up to the claim: the timer moves on before the run starts.  What it moves
\* to comes from the row the tick read and the time the tick began; the UPDATE
\* names only the routine.
Arm(n) ==
    /\ timer[n].phase = "claim"
    /\ LET claimed == Head(timer[n].due)
           next == NextRunAt(claimed.def.schedule, claimed.def.enabled, timer[n].at) IN
       /\ rows' = [rows EXCEPT ![claimed.name] = {[row EXCEPT !.next = next] : row \in rows[claimed.name]}]
       /\ basis' = [basis EXCEPT ![claimed.name] = IF rows[claimed.name] = {} THEN {}
                                                   ELSE ComputedFrom(claimed.def, timer[n].at)]
       /\ again' = again \ {claimed.name}
    /\ timer' = [timer EXCEPT ![n].phase = "start"]
    /\ UNCHANGED <<now, requests, edits, trouble, fired>>

\* RoutineRunner::run: the routine is read again, and a deleted one is not run.  That
\* its preset, workflow, model or vendor is gone is recorded in the row, as a session
\* is; neither touches the timer, and neither is told apart here.
Start(n) ==
    /\ timer[n].phase = "start"
    /\ LET run == Head(timer[n].due) IN
       fired' = [fired EXCEPT ![run.name] = IF rows[run.name] = {} \/ run.next <= @ THEN @
                                                                               ELSE run.next]
    /\ timer' = [timer EXCEPT ![n] = Continued(n)]
    /\ UNCHANGED <<now, rows, requests, edits, trouble, again, basis>>

\* The server goes down and comes back with the table and nothing else.
Crash(n) ==
    /\ timer[n] # Resting /\ trouble < MaxTrouble
    /\ trouble' = trouble + 1
    /\ timer' = [timer EXCEPT ![n] = Resting]
    /\ UNCHANGED <<now, rows, requests, edits, fired, again, basis>>

Edit == \/ \E r \in Names : Delete(r) \/ \E def \in Definitions : Request(r, def)
        \/ \E e \in requests : Create(e) \/ Replace(e) \/ Refuse(e)

Fire(n) == Tick(n) \/ Arm(n) \/ Start(n)

Next == \/ Advance \/ Edit
        \/ \E n \in Nodes : Fire(n) \/ Skip(n) \/ Crash(n)

Spec == Init /\ [][Next]_vars

\* Each server's interval keeps ticking, and a tick's own awaits return.
FairSpec == Spec /\ \A n \in Nodes : WF_vars(Fire(n))

-----------------------------------------------------------------------------
\* One firing of a routine runs it once: a run that is about to start is for a later
\* due instant than every run before it, whatever failed or crashed between the read,
\* the claim (arm) and the run.  The one exception is an edit that came in before a
\* firing and is written after it (replace computes the timer from the time of its
\* request): it puts the timer back, for one more run per edit.
FiredOncePerDue ==
    \A n \in Nodes : timer[n].phase = "start" =>
        LET run == Head(timer[n].due) IN run.next > fired[run.name] \/ run.again

\* What each schedule says its next firing after an instant is.
Promised(s, at) == CASE s.kind = "manual" -> Never
                     [] s.kind = "every" -> at + s.interval
                     [] s.kind = "once" -> IF s.at > at THEN s.at ELSE Never
                     [] OTHER -> Stated(s, at, Horizon)
PromisedTimes == {<<s, at, Promised(s, at)>> : s \in Schedules, at \in Instants}

\* An edit landed between the tick's read of the row and its claim.
EditedUnderClaim(r) == \E b \in basis[r] : b.def # Row(r).def

\* The timer of every routine is at the first instant at which its schedule fires
\* after the moment it was computed (next_run_at against the calendar itself): no
\* firing is passed over and none is made up, and a paused routine has no timer.
\* The exception is a routine edited between a tick's read and its claim.
NextIsLeast ==
    \A r \in Names : rows[r] # {} /\ ~EditedUnderClaim(r) =>
        \A b \in basis[r] :
            IF Row(r).def.enabled THEN <<Row(r).def.schedule, b.at, Row(r).next>> \in PromisedTimes
            ELSE Row(r).next = Never

\* The timer of a routine is not in the future.
Overdue(r) == \E row \in rows[r] : row.def.enabled /\ row.next \in 0..now

\* A routine that has come due is claimed: it does not stay due for ever, though
\* reads and claims fail and the server restarts.
DueIsClaimed == \A r \in Names : Overdue(r) ~> ~Overdue(r)
=============================================================================
