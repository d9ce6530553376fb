--------------------------- MODULE AgentRunProofs ---------------------------
(***************************************************************************)
(* An agent runs at most one task at a time, answers a Stop when the run   *)
(* is over, wakes once for each timer, writes one result of each call,     *)
(* ends a park only with its answers, loses and repeats no message, and    *)
(* tells its owner how each turn ended, for every value of the constants   *)
(* of AgentActor that the theorem allows. What a theorem assumes of them   *)
(* (QuestionsKept, HooksKept, OwnIds, NeverCrashes, NoContradiction,       *)
(* RuntimeStays) is where the code keeps the property.                     *)
(*                                                                         *)
(* SingleRun is not inductive. A run starts because the actor holds none   *)
(* and prepares none, so the argument also needs that a turn in            *)
(* preparation excludes a held run (Held), that the prepared turn reaches  *)
(* the actor through exactly one task or one StartPrepared                 *)
(* (PreparedOnce), and that the report a task leaves in the mailbox is its *)
(* last sign of life: no task alive, nor any to come, bears the id of a    *)
(* report still to be handled (ReportsFenced).                             *)
(*                                                                         *)
(* StopMeansOver needs in addition that the mail of a run is of the run    *)
(* that is held and that its report comes last (MailOfRun): the handler of *)
(* the report is the one step that answers the acks. TimersKeepPromise     *)
(* speaks of the states in which the actor serves; what carries it there   *)
(* is TimerInv, which says the same of the journal as it will be once the  *)
(* staged write is made, and that a timer was armed once.                  *)
(*                                                                         *)
(* OneResultPerCall speaks of the log alone, and a result gets there       *)
(* through a task, the mailbox or a prepared turn. ResultInv says that     *)
(* what each of them is still to resolve misses its result in the journal  *)
(* as it will be, that no call is promised by two of them, and that the    *)
(* calls of a message not yet written are in no log.                       *)
(*                                                                         *)
(* ParkEndsAnswered speaks of one step. ParkInv carries to it that while   *)
(* the journal asks nothing runs, nothing is prepared and no report waits, *)
(* and that a staged write which ends the questions holds their results    *)
(* and was asked for or spoken to. AcceptedOnce needs QueueInv:            *)
(* each item is in one place of the journal as it is and as it will be,    *)
(* and a turn on its way holds nothing the latter holds. The same          *)
(* invariant maps each step to one of DurableInbox or to a stutter: a      *)
(* refusal, a turn forgotten by a crash and a turn written are told apart  *)
(* by where the item was.                                                  *)
(*                                                                         *)
(* What the owner hears depends on the report of a task. OwnerInv says     *)
(* what each end of a task, and each report in the mail, takes for         *)
(* granted (a cancelled run has a caller waiting, a stopped one asks or    *)
(* submits, a run already reported has failed), and that a queue that      *)
(* could start a turn has a Drain coming.                                  *)
(***************************************************************************)
EXTENDS AgentActorProofs, FiniteSetTheorems

\* The actor's own fields agree with the tasks alive.
Held ==
    /\ \A r \in runs : running = {r.id}
    /\ \A r1, r2 \in runs : r1 = r2
    /\ running \subseteq 0..(nextRun - 1)
    /\ preparing => running = {}
    /\ preps # {} => preparing
    /\ \A p1, p2 \in preps : p1 = p2

\* The reports in m are of runs that started and are over.
ReportsFenced(m) ==
    \A i \in 1..Len(m) :
        m[i].kind = "RunFinished" =>
            /\ m[i].run \in 0..(nextRun - 1)
            /\ \A r \in runs : r.id # m[i].run

\* A StartPrepared in m is the only one, and its prepare task is gone.
PreparedOnce(m) ==
    \A i \in 1..Len(m) :
        m[i].kind = "StartPrepared" =>
            /\ preparing /\ preps = {}
            /\ \A j \in 1..Len(m) : m[j].kind = "StartPrepared" => j = i

\* An unloaded agent has no task and no mail.
Gone ==
    ~live => /\ runs = {} /\ preps = {} /\ sleeps = {} /\ mailbox = <<>>
             /\ running = {} /\ ~preparing

\* The inductive invariant.
RunInv == Held /\ ReportsFenced(mailbox) /\ PreparedOnce(mailbox) /\ Gone

-----------------------------------------------------------------------------
(* What a handler may do to the tasks *)

\* A step that starts a run gives it an id no run had before.
Grows ==
    /\ nextRun \in Nat /\ nextRun' \in Nat /\ nextRun' >= nextRun
    /\ \A r \in runs' : (\E q \in runs : q.id = r.id) \/ r.id \notin 0..(nextRun - 1)

\* A step that leaves a prepared turn on its way to the actor.
KeepsPrepared == preparing /\ preps = {} => preparing' /\ preps' = {}

\* The fields of a handler that has no run left to hold.
Released(h) == h \in Handled /\ h.running = {} /\ runs = {}

\* A new run bears the id it is given.
LEMMA NewRunId ==
    ASSUME NEW id, NEW turn, NEW choice
    PROVE  NewRun(id, turn, choice).id = id
BY DEF NewRun

\* Starting a run where there is none keeps the one run the actor holds.
LEMMA StartRunHeld ==
    ASSUME TypeOK, Held, runs = {}, NEW turn, NEW choice, StartRun(turn, choice),
           preparing' = FALSE, preps' = {}
    PROVE  Held' /\ Grows
<1> DEFINE new == NewRun(nextRun, turn, choice)
<1>1. new.id = nextRun
  BY NewRunId
<1>2. runs' = {new} /\ running' = {nextRun} /\ nextRun' = nextRun + 1 /\ nextRun \in Nat
  BY DEF StartRun, TypeOK
<1> HIDE DEF new
<1>3. running' \subseteq 0..(nextRun' - 1)
  BY <1>2
<1> QED
  BY <1>1, <1>2, <1>3 DEF Held, Grows

\* Beginning a turn with nothing running and nothing in preparation.
LEMMA BeginTurnHeld ==
    ASSUME TypeOK, Held, NEW turn, NEW h, h.running = {}, runs = {}, ~preparing,
           BeginTurn(turn, h)
    PROVE  Held' /\ Grows /\ KeepsPrepared
<1>1. preps = {}
  BY DEF Held
<1>2. CASE HookDue(turn)
  <2>1. /\ preparing' = TRUE /\ preps' = {turn} /\ running' = {} /\ runs' = {}
        /\ nextRun' = nextRun /\ nextRun \in Nat
    BY <1>1, <1>2 DEF BeginTurn, TypeOK
  <2> QED
    BY <1>1, <2>1 DEF Held, Grows, KeepsPrepared
<1>3. CASE ~HookDue(turn)
  <2>1. StartRun(turn, h.forced) /\ UNCHANGED <<preparing, preps>>
    BY <1>3 DEF BeginTurn
  <2>2. preparing' = FALSE /\ preps' = {}
    BY <1>1, <2>1 DEF TypeOK
  <2> QED
    BY <2>1, <2>2, StartRunHeld DEF KeepsPrepared
<1> QED
  BY <1>2, <1>3

\* Ending a handler that starts nothing.
LEMMA SettleHeld ==
    ASSUME TypeOK, Held, NEW h, h.running = running \/ (h.running = {} /\ runs = {}), Settle(h)
    PROVE  Held' /\ Grows /\ KeepsPrepared
<1>1. /\ running' = h.running /\ nextRun \in Nat
      /\ UNCHANGED <<preparing, preps, runs, nextRun>>
  BY DEF Settle, TypeOK
<1>2. Held'
  <2>1. CASE h.running = running
    BY <1>1, <2>1 DEF Held
  <2>2. CASE h.running = {} /\ runs = {}
    BY <1>1, <2>2 DEF Held
  <2> QED
    BY <2>1, <2>2
<1>3. Grows /\ KeepsPrepared
  BY <1>1 DEF Grows, KeepsPrepared
<1> QED
  BY <1>2, <1>3

\* Reconsidering the queue: it begins a turn only with nothing running and
\* nothing in preparation.
LEMMA TryDrainHeld ==
    ASSUME TypeOK, Held, NEW h, h.running = running \/ (h.running = {} /\ runs = {}), TryDrain(h)
    PROVE  Held' /\ Grows /\ KeepsPrepared
<1>1. CASE CanDrain(h)
  <2>1. h.running = {} /\ ~preparing
    BY <1>1 DEF CanDrain, Busy
  <2>2. runs = {}
    BY <2>1 DEF Held
  <2>3. PICK turn \in QueuedTurn(h.state) : BeginTurn(turn, h)
    BY <1>1 DEF TryDrain
  <2> QED
    BY <2>1, <2>2, <2>3, BeginTurnHeld
<1>2. CASE ~CanDrain(h)
  BY <1>2, SettleHeld DEF TryDrain
<1> QED
  BY <1>1, <1>2

\* Replacing the folded state, or telling the owner, leaves the run alone.
LEMMA RunningKept ==
    ASSUME NEW h \in Handled
    PROVE  /\ \A s : [h EXCEPT !.state = s].running = h.running
           /\ \A what : Telling(h, what).running = h.running
           /\ \A what, s : [Telling(h, what) EXCEPT !.state = s].running = h.running
BY DEF Handled, Telling

\* The end of a run, whatever ended it, holds no run or starts the next one.
LEMMA FinishHeld ==
    ASSUME TypeOK, Held, NEW h, Released(h), NEW calls,
           \/ FinishCompleted(h) \/ FinishStopped(h, calls) \/ FinishCancelled(h)
           \/ Settle(Telling(h, "Failed")) \/ Settle(h)
    PROVE  Held' /\ Grows /\ KeepsPrepared
<1>1. h \in Handled /\ h.running = {} /\ runs = {}
  BY DEF Released
<1>2. \A s : [h EXCEPT !.state = s].running = {}
  BY <1>1, RunningKept
<1>3. \A what : Telling(h, what).running = {}
  BY <1>1, RunningKept
<1>4. \A what, s : [Telling(h, what) EXCEPT !.state = s].running = {}
  BY <1>1, RunningKept
<1>5. \A s, f : [h EXCEPT !.state = s, !.forced = f].running = {}
  BY <1>1 DEF Handled
<1>6. ASSUME NEW g, g.running = {}, Settle(g) \/ TryDrain(g)
      PROVE  Held' /\ Grows /\ KeepsPrepared
  BY <1>1, <1>6, SettleHeld, TryDrainHeld
<1>7. CASE FinishCompleted(h)
  <2>1. CASE TryDrain(h)
    BY <1>1, <1>6, <2>1
  <2>2. CASE Park(h)
    BY <1>4, <1>6, <2>2 DEF Park
  <2>3. CASE EndedWithoutResult(h)
    BY <1>3, <1>5, <1>6, <2>3 DEF EndedWithoutResult
  <2>4. CASE TryDrain(Telling(h, "Concluded"))
    BY <1>3, <1>6, <2>4
  <2> QED
    BY <1>7, <2>1, <2>2, <2>3, <2>4 DEF FinishCompleted
<1>8. CASE FinishStopped(h, calls)
  <2>1. CASE TryDrain([Telling(h, "Asked") EXCEPT !.state = ApplyAskRecorded(@, calls)])
    BY <1>4, <1>6, <2>1
  <2>2. CASE TryDrain([Telling(h, "Concluded") EXCEPT
                          !.state = ApplyTimerCancelled(@, @.timers)])
    BY <1>4, <1>6, <2>2
  <2>3. CASE CorrectContradiction(h, calls)
    BY <1>2, <1>6, <2>3 DEF CorrectContradiction
  <2> QED
    BY <1>8, <2>1, <2>2, <2>3 DEF FinishStopped
<1>9. CASE FinishCancelled(h)
  <2> DEFINE heard == IF acks > 0 THEN Telling(h, "Stopped") ELSE h
  <2>1. \A s : [heard EXCEPT !.state = s].running = {}
    BY <1>2, <1>4
  <2>2. PICK s : TryDrain([heard EXCEPT !.state = s])
    BY <1>9 DEF FinishCancelled
  <2> QED
    BY <1>6, <2>1, <2>2
<1>10. CASE Settle(Telling(h, "Failed"))
  BY <1>3, <1>6, <1>10
<1>11. CASE Settle(h)
  BY <1>1, <1>6, <1>11
<1> QED
  BY <1>7, <1>8, <1>9, <1>10, <1>11

-----------------------------------------------------------------------------
(* What a step may do to the mail *)

\* The mail is left alone.
LEMMA MailStays ==
    ASSUME ReportsFenced(mailbox), PreparedOnce(mailbox), Grows, KeepsPrepared,
           mailbox' = mailbox
    PROVE  ReportsFenced(mailbox)' /\ PreparedOnce(mailbox)'
<1>1. ReportsFenced(mailbox)'
  BY DEF ReportsFenced, Grows
<1>2. PreparedOnce(mailbox)'
  BY DEF PreparedOnce, KeepsPrepared
<1> QED
  BY <1>1, <1>2

\* The first command is taken.
LEMMA MailTaken ==
    ASSUME TypeOK, ReportsFenced(mailbox), Grows, mailbox # <<>>, mailbox' = Tail(mailbox)
    PROVE  /\ ReportsFenced(mailbox)'
           /\ Len(mailbox') = Len(mailbox) - 1 /\ Len(mailbox) \in Nat
           /\ \A i \in 1..Len(mailbox') : mailbox'[i] = mailbox[i + 1]
           /\ PreparedOnce(mailbox) /\ KeepsPrepared => PreparedOnce(mailbox)'
<1>1. /\ Len(mailbox') = Len(mailbox) - 1 /\ Len(mailbox) \in Nat
      /\ \A i \in 1..Len(mailbox') : mailbox'[i] = mailbox[i + 1]
  BY DEF TypeOK
<1>2. \A i \in 1..Len(mailbox') : i + 1 \in 1..Len(mailbox)
  BY <1>1
<1>3. ReportsFenced(mailbox)'
  BY <1>1, <1>2 DEF ReportsFenced, Grows
<1>4. ASSUME PreparedOnce(mailbox), KeepsPrepared PROVE PreparedOnce(mailbox)'
  BY <1>1, <1>2, <1>4 DEF PreparedOnce, KeepsPrepared
<1> QED
  BY <1>1, <1>3, <1>4

\* The facts about a command posted last.
LEMMA MailPosted ==
    ASSUME TypeOK, NEW cmd, mailbox' = Append(mailbox, cmd)
    PROVE  /\ Len(mailbox') = Len(mailbox) + 1 /\ Len(mailbox) \in Nat
           /\ mailbox'[Len(mailbox')] = cmd
           /\ \A i \in 1..Len(mailbox) : mailbox'[i] = mailbox[i]
           /\ \A i \in 1..Len(mailbox') : i \in 1..Len(mailbox) \/ i = Len(mailbox')
BY DEF TypeOK

\* A command that neither reports a run nor starts one is posted.
LEMMA MailPostedPlain ==
    ASSUME TypeOK, ReportsFenced(mailbox), PreparedOnce(mailbox), Grows, KeepsPrepared,
           NEW cmd, cmd.kind \notin {"RunFinished", "StartPrepared"},
           mailbox' = Append(mailbox, cmd)
    PROVE  ReportsFenced(mailbox)' /\ PreparedOnce(mailbox)'
<1>1. ReportsFenced(mailbox)'
  BY MailPosted DEF ReportsFenced, Grows
<1>2. PreparedOnce(mailbox)'
  BY MailPosted DEF PreparedOnce, KeepsPrepared
<1> QED
  BY <1>1, <1>2

-----------------------------------------------------------------------------
(* What a run task's step does *)

\* The task goes on under its id, and posts at most one event to be written.
GoesOn(r) ==
    /\ \E r1 : r1.id = r.id /\ runs' = (runs \ {r}) \cup {r1}
    /\ \/ mailbox' = mailbox
       \/ \E cmd : /\ cmd.kind = "PersistProgress" /\ cmd.run = {r.id}
                   /\ mailbox' = Append(mailbox, cmd)

\* The task is over, and leaves its report.
IsOver(r) ==
    /\ runs' = runs \ {r}
    /\ \E cmd : cmd.kind = "RunFinished" /\ cmd.run = r.id /\ mailbox' = Append(mailbox, cmd)

\* Emitting, aborting and moving on keep the id; reporting is the end.
LEMMA TaskParts ==
    ASSUME TypeOK, NEW r \in runs
    PROVE  /\ \A r1 : r1.id = r.id /\ Moves(r, r1) /\ UNCHANGED mailbox => GoesOn(r)
           /\ \A r1, ev, calls : /\ [r1 EXCEPT !.waiting = TRUE].id = r.id
                                 /\ Emits(r, r1, ev, calls)
                                 => GoesOn(r)
           /\ \A end : Aborts(r, end) => GoesOn(r)
           /\ \A outcome, seeds : Reports(r, outcome, seeds) => IsOver(r)
<1>1. \A r1 : r1.id = r.id /\ Moves(r, r1) /\ UNCHANGED mailbox => GoesOn(r)
  BY DEF Moves, GoesOn
<1>2. ASSUME NEW r1, NEW ev, NEW calls, [r1 EXCEPT !.waiting = TRUE].id = r.id,
             Emits(r, r1, ev, calls)
      PROVE  GoesOn(r)
  <2> DEFINE cmd == [kind |-> "PersistProgress", run |-> {r.id}, ev |-> ev, calls |-> calls]
             r2 == [r1 EXCEPT !.waiting = TRUE]
  <2>1. cmd.kind = "PersistProgress" /\ cmd.run = {r.id}
    OBVIOUS
  <2>2. mailbox' = Append(mailbox, cmd) /\ runs' = (runs \ {r}) \cup {r2} /\ r2.id = r.id
    BY <1>2 DEF Emits, Moves
  <2> HIDE DEF cmd, r2
  <2> QED
    BY <2>1, <2>2 DEF GoesOn
<1>3. ASSUME NEW end, Aborts(r, end) PROVE GoesOn(r)
  <2> DEFINE r1 == [r EXCEPT !.stage = "ended", !.end = end, !.open = {}, !.posted = {},
                             !.stopped = {}]
  <2>1. r \in RunTask
    BY DEF TypeOK
  <2>2. [r1 EXCEPT !.waiting = TRUE].id = r.id
    BY <2>1 DEF RunTask
  <2>3. Emits(r, r1, "aborted", {})
    BY <1>3 DEF Aborts
  <2> HIDE DEF r1
  <2> QED
    BY <1>2, <2>2, <2>3
<1>4. ASSUME NEW outcome, NEW seeds, Reports(r, outcome, seeds) PROVE IsOver(r)
  <2> DEFINE cmd == [kind |-> "RunFinished", run |-> r.id, outcome |-> outcome,
                     calls |-> IF outcome = "Stopped" THEN r.stopped ELSE {}, seeds |-> seeds]
  <2>1. cmd.kind = "RunFinished" /\ cmd.run = r.id
    OBVIOUS
  <2>2. mailbox' = Append(mailbox, cmd) /\ runs' = runs \ {r}
    BY <1>4 DEF Reports
  <2> HIDE DEF cmd
  <2> QED
    BY <2>1, <2>2 DEF IsOver
<1> QED
  BY <1>1, <1>2, <1>3, <1>4

\* A step of a run task is one of the two.
LEMMA TaskStep ==
    ASSUME TypeOK, NEW r \in runs, RunInner(r) \/ RunOuter(r) \/ Summarise(r)
    PROVE  GoesOn(r) \/ IsOver(r)
<1>1. r \in RunTask
  BY DEF TypeOK
<1>2. \A st : [r EXCEPT !.stage = st].id = r.id
  BY <1>1 DEF RunTask
<1>3. \A r1 : r1.id = r.id /\ Moves(r, r1) /\ UNCHANGED mailbox => GoesOn(r)
  BY TaskParts
<1>4. \A r1, ev, calls : /\ [r1 EXCEPT !.waiting = TRUE].id = r.id
                         /\ Emits(r, r1, ev, calls)
                         => GoesOn(r)
  BY TaskParts
<1>5. CASE Provide(r)
  BY <1>2, <1>3, <1>5, TaskParts DEF Provide
<1>6. CASE ProvideCancelled(r)
  BY <1>6, TaskParts DEF ProvideCancelled
<1>7. CASE Summarise(r)
  <2>1. AfterSummary(r).id = r.id
    BY <1>2 DEF AfterSummary
  <2>2. [[AfterSummary(r) EXCEPT !.wrote = TRUE] EXCEPT !.waiting = TRUE].id = r.id
    BY <1>1 DEF AfterSummary, RunTask
  <2> QED
    BY <1>3, <1>4, <1>7, <2>1, <2>2 DEF Summarise
<1>8. CASE Loop(r)
  <2>1. \A cs, k : [[r EXCEPT !.stage = "acted", !.calls = cs, !.msgs = @ + 1, !.wrote = TRUE,
                            !.same = k] EXCEPT !.waiting = TRUE].id = r.id
    BY <1>1 DEF RunTask
  <2>2. CASE \E end : Aborts(r, end)
    BY <2>2, TaskParts
  <2>3. CASE \E cs, k : Emits(r, [r EXCEPT !.stage = "acted", !.calls = cs, !.msgs = @ + 1,
                                           !.wrote = TRUE, !.same = k], "msg", cs)
    BY <1>4, <2>1, <2>3
  <2> QED
    BY <1>8, <2>2, <2>3 DEF Loop
<1>9. CASE Act(r)
  <2>1. [[r EXCEPT !.stage = "ended", !.end = "Completed"] EXCEPT !.waiting = TRUE].id = r.id
    BY <1>1 DEF RunTask
  <2>2. [r EXCEPT !.stage = "tools", !.open = r.calls, !.posted = {}, !.stopped = {}].id = r.id
    BY <1>1 DEF RunTask
  <2>3. \/ Emits(r, [r EXCEPT !.stage = "ended", !.end = "Completed"], "complete", {})
        \/ Aborts(r, "Failed")
        \/ Moves(r, [r EXCEPT !.stage = "loop"]) /\ UNCHANGED mailbox
        \/ Aborts(r, "Cancelled")
        \/ /\ Moves(r, [r EXCEPT !.stage = "tools", !.open = r.calls, !.posted = {},
                                 !.stopped = {}])
           /\ UNCHANGED mailbox
    BY <1>9 DEF Act
  <2> QED
    BY <1>2, <1>3, <1>4, <2>1, <2>2, <2>3, TaskParts
<1>10. ASSUME NEW c \in r.open, ToolResult(r, c) PROVE GoesOn(r)
  <2> DEFINE r1 == [r EXCEPT !.open = @ \ {c}, !.posted = @ \cup {c}]
             cmd == [kind |-> "PersistProgress", run |-> {r.id}, ev |-> "result", calls |-> {c}]
  <2>1. r1.id = r.id /\ cmd.kind = "PersistProgress" /\ cmd.run = {r.id}
    BY <1>1 DEF RunTask
  <2>2. runs' = (runs \ {r}) \cup {r1} /\ mailbox' = Append(mailbox, cmd)
    BY <1>10 DEF ToolResult, Moves
  <2> HIDE DEF r1, cmd
  <2> QED
    BY <2>1, <2>2 DEF GoesOn
<1>11. ASSUME NEW c \in r.open, ToolStops(r, c) PROVE GoesOn(r)
  <2>1. [r EXCEPT !.open = @ \ {c}, !.stopped = @ \cup {c}].id = r.id
    BY <1>1 DEF RunTask
  <2> QED
    BY <1>3, <1>11, <2>1 DEF ToolStops
<1>12. CASE ToolsDone(r)
  <2>1. [[r EXCEPT !.stage = "ended", !.end = "Stopped"] EXCEPT !.waiting = TRUE].id = r.id
    BY <1>1 DEF RunTask
  <2> QED
    BY <1>2, <1>3, <1>4, <1>12, <2>1 DEF ToolsDone
<1>13. CASE LoopCancelled(r)
  BY <1>13, TaskParts DEF LoopCancelled
<1>14. CASE Ended(r)
  <2> DEFINE r1 == [r EXCEPT !.stage = IF r.compact THEN "summarise" ELSE "loop",
                             !.tries = @ + 1, !.msgs = 0, !.same = 0, !.calls = {},
                             !.end = "Completed"]
  <2>1. r1.id = r.id
    BY <1>1 DEF RunTask
  <2>2. \/ Moves(r, r1) /\ UNCHANGED mailbox
        \/ \E outcome : Reports(r, outcome, r.seeds)
    BY <1>14 DEF Ended
  <2> HIDE DEF r1
  <2> QED
    BY <1>3, <2>1, <2>2, TaskParts
<1> QED
  BY <1>5, <1>6, <1>7, <1>8, <1>9, <1>10, <1>11, <1>12, <1>13, <1>14 DEF RunInner, RunOuter

-----------------------------------------------------------------------------
(* The invariant is inductive *)

\* Every step of a run task keeps the invariant.
LEMMA TaskStepInv ==
    ASSUME TypeOK, RunInv, NEW r \in runs, RunInner(r) \/ RunOuter(r) \/ Summarise(r)
    PROVE  RunInv'
<1>1. UNCHANGED <<live, running, nextRun, preparing, preps>>
  BY DEF RunInner, RunOuter, Summarise, Provide, ProvideCancelled, Loop, Act, ToolResult,
     ToolStops, ToolsDone, LoopCancelled, Ended, RunQuiet, actor
<1>2. runs = {r} /\ running = {r.id} /\ r.id \in 0..(nextRun - 1) /\ live
  BY DEF RunInv, Held, Gone
<1>3. nextRun \in Nat
  BY DEF TypeOK
<1>4. CASE GoesOn(r)
  <2>1. PICK r1 : r1.id = r.id /\ runs' = {r1}
    BY <1>2, <1>4 DEF GoesOn
  <2>2. Held' /\ Grows /\ KeepsPrepared
    BY <1>1, <1>2, <1>3, <2>1 DEF RunInv, Held, Grows, KeepsPrepared
  <2>3. ReportsFenced(mailbox)' /\ PreparedOnce(mailbox)'
    BY <1>4, <2>2, MailStays, MailPostedPlain DEF GoesOn, RunInv
  <2> QED
    BY <1>1, <1>2, <2>2, <2>3 DEF RunInv, Gone
<1>5. CASE IsOver(r)
  <2>1. runs' = {}
    BY <1>2, <1>5 DEF IsOver
  <2>2. Held'
    BY <1>1, <2>1 DEF RunInv, Held
  <2>3. PICK cmd : /\ cmd.kind = "RunFinished" /\ cmd.run = r.id
                   /\ mailbox' = Append(mailbox, cmd)
    BY <1>5 DEF IsOver
  <2>4. ReportsFenced(mailbox)'
    BY <1>1, <1>2, <2>1, <2>3, MailPosted DEF RunInv, ReportsFenced
  <2>5. PreparedOnce(mailbox)'
    BY <1>1, <2>3, MailPosted DEF RunInv, PreparedOnce
  <2> QED
    BY <1>1, <1>2, <2>2, <2>4, <2>5 DEF RunInv, Gone
<1> QED
  BY <1>4, <1>5, TaskStep

\* Every command of the mailbox keeps the invariant.
LEMMA HandleCommandInv ==
    ASSUME TypeOK, RunInv, HandleCommand
    PROVE  RunInv'
<1> DEFINE cmd == Head(mailbox)
<1>1. /\ mailbox \in Seq(Command) /\ mailbox # <<>> /\ mailbox' = Tail(mailbox) /\ live
      /\ live' = live
  BY DEF HandleCommand, Drain, StartPrepared, PersistProgress, TimerFired, RunFinished,
     Receive, Serving, TypeOK
<1>2. 1 \in 1..Len(mailbox) /\ cmd = mailbox[1]
  BY <1>1
<1>3. Gone'
  BY <1>1 DEF Gone
<1>4. Here \in Handled /\ Here.running = running
  BY HereType DEF Here
<1>5. ASSUME Held', Grows, KeepsPrepared PROVE RunInv'
  BY <1>1, <1>3, <1>5, MailTaken DEF RunInv
<1>6. CASE Drain
  BY <1>4, <1>5, <1>6, TryDrainHeld DEF Drain, RunInv
<1>7. CASE StartPrepared
  <2>1. cmd.kind = "StartPrepared"
    BY <1>7 DEF StartPrepared, Receive
  <2>2. preparing /\ preps = {} /\ running = {} /\ runs = {}
    BY <1>2, <2>1 DEF RunInv, PreparedOnce, Held
  <2>3. preparing' = FALSE /\ preps' = {}
    BY <1>7, <2>2 DEF StartPrepared
  <2>4. Held' /\ Grows
    <3>1. CASE cmd.abandon
      <4>1. UNCHANGED <<running, nextRun, runs>>
        BY <1>7, <3>1 DEF StartPrepared
      <4> QED
        BY <2>2, <2>3, <4>1 DEF RunInv, Held, Grows, TypeOK
    <3>2. CASE ~cmd.abandon
      BY <1>7, <2>2, <2>3, <3>2, StartRunHeld DEF StartPrepared, RunInv
    <3> QED
      BY <3>1, <3>2
  <2>5. PreparedOnce(mailbox)'
    <3>1. \A i \in 1..Len(mailbox') :
             mailbox'[i] = mailbox[i + 1] /\ i + 1 \in 1..Len(mailbox) /\ i + 1 # 1
      BY <1>1
    <3>2. \A i \in 1..Len(mailbox') : mailbox'[i].kind # "StartPrepared"
      BY <1>2, <2>1, <3>1 DEF RunInv, PreparedOnce
    <3> QED
      BY <3>2 DEF PreparedOnce
  <2> QED
    BY <1>1, <1>3, <2>4, <2>5, MailTaken DEF RunInv
<1>8. CASE PersistProgress
  <2>1. ASSUME NEW r \in runs PROVE Acked(r, cmd).id = r.id
    <3>1. r \in RunTask
      BY DEF TypeOK
    <3> QED
      BY <3>1 DEF Acked, RunTask
  <2>2. /\ runs' = {Acked(r, cmd) : r \in runs}
        /\ UNCHANGED <<running, nextRun, preparing, preps>>
    BY <1>8 DEF PersistProgress, actor
  <2>3. Held' /\ Grows /\ KeepsPrepared
    BY <2>1, <2>2 DEF RunInv, Held, Grows, KeepsPrepared, TypeOK
  <2> QED
    BY <1>5, <2>3
<1>9. CASE TimerFired
  <2>1. CASE cmd.timer \in state.timers
    <3>1. PICK s : TryDrain([Here EXCEPT !.state = s])
      BY <1>9, <2>1 DEF TimerFired
    <3>2. [Here EXCEPT !.state = s].running = running
      BY <1>4, RunningKept
    <3> QED
      BY <1>5, <3>1, <3>2, TryDrainHeld DEF RunInv
  <2>2. CASE cmd.timer \notin state.timers
    <3>1. UNCHANGED <<running, nextRun, preparing, preps, runs>>
      BY <1>9, <2>2 DEF TimerFired
    <3>2. Held' /\ Grows /\ KeepsPrepared
      BY <3>1 DEF RunInv, Held, Grows, KeepsPrepared, TypeOK
    <3> QED
      BY <1>5, <3>2
  <2> QED
    BY <2>1, <2>2
<1>10. CASE RunFinished
  <2>1. cmd.kind = "RunFinished"
    BY <1>10 DEF RunFinished, Receive
  <2>2. CASE cmd.run \in running
    <3>1. runs = {}
      BY <1>2, <2>1, <2>2 DEF RunInv, ReportsFenced, Held
    <3> DEFINE h == [Here EXCEPT !.running = {}]
    <3>2. Released(h)
      BY <1>4, <3>1 DEF Released, Handled
    <3>3. HandleFinished(cmd)
      BY <1>10, <2>2 DEF RunFinished
    <3>4. cmd.outcome \in RunOutcome
      BY <1>1, <2>1, CommandFields
    <3>5. \/ FinishCompleted(h) \/ FinishStopped(h, cmd.calls) \/ FinishCancelled(h)
          \/ Settle(Telling(h, "Failed")) \/ Settle(h)
      BY <3>3, <3>4 DEF HandleFinished, RunOutcome
    <3> HIDE DEF h
    <3>6. Held' /\ Grows /\ KeepsPrepared
      BY <3>2, <3>5, FinishHeld DEF RunInv
    <3> QED
      BY <1>5, <3>6
  <2>3. CASE cmd.run \notin running
    <3>1. UNCHANGED <<running, nextRun, preparing, preps, runs>>
      BY <1>10, <2>3 DEF RunFinished
    <3>2. Held' /\ Grows /\ KeepsPrepared
      BY <3>1 DEF RunInv, Held, Grows, KeepsPrepared, TypeOK
    <3> QED
      BY <1>5, <3>2
  <2> QED
    BY <2>2, <2>3
<1> QED
  BY <1>6, <1>7, <1>8, <1>9, <1>10 DEF HandleCommand

\* What the outside makes the actor do keeps the invariant.
LEMMA OutsideInv ==
    ASSUME TypeOK, RunInv, Outside
    PROVE  RunInv'
<1>1. Here \in Handled /\ Here.running = running
  BY HereType DEF Here
<1>2. ASSUME live, live' = live, mailbox' = mailbox, Held', Grows, KeepsPrepared
      PROVE  RunInv'
  BY <1>2, MailStays DEF RunInv, Gone
<1>3. ASSUME UNCHANGED <<running, nextRun, preparing, preps, runs>>
      PROVE  Held' /\ Grows /\ KeepsPrepared
  BY <1>3 DEF RunInv, Held, Grows, KeepsPrepared, TypeOK
<1>4. ASSUME NEW item \in Incoming, Enqueue(item) PROVE RunInv'
  <2> DEFINE cmd == [kind |-> "Drain"]
  <2>1. cmd.kind = "Drain" /\ mailbox' = Append(mailbox, cmd) /\ live /\ live' = live
    BY <1>4 DEF Enqueue, Serving
  <2>2. Held' /\ Grows /\ KeepsPrepared
    BY <1>3, <1>4 DEF Enqueue, actor
  <2> HIDE DEF cmd
  <2>3. ReportsFenced(mailbox)' /\ PreparedOnce(mailbox)'
    BY <2>1, <2>2, MailPostedPlain DEF RunInv
  <2> QED
    BY <2>1, <2>2, <2>3 DEF RunInv, Gone
<1>5. ASSUME NEW answers \in SUBSET state.asks, Answer(answers) PROVE RunInv'
  <2>1. running = {} /\ ~preparing /\ live /\ live' = live /\ mailbox' = mailbox
    BY <1>1, <1>5 DEF Answer, Busy, Serving
  <2>2. runs = {}
    BY <2>1 DEF RunInv, Held
  <2>3. PICK turn : BeginTurn(turn, Here)
    BY <1>5 DEF Answer
  <2> QED
    BY <1>1, <1>2, <2>1, <2>2, <2>3, BeginTurnHeld DEF RunInv
<1>6. CASE Cancel
  <2>1. ASSUME NEW r \in runs PROVE [r EXCEPT !.cancelled = TRUE].id = r.id
    <3>1. r \in RunTask
      BY DEF TypeOK
    <3> QED
      BY <3>1 DEF RunTask
  <2>2. /\ runs' = {IF r.id \in running THEN [r EXCEPT !.cancelled = TRUE] ELSE r : r \in runs}
        /\ UNCHANGED <<running, nextRun, preparing, preps, mailbox, live>> /\ live
    BY <1>6 DEF Cancel, Serving
  <2>3. \A q \in runs' : \E r \in runs : q.id = r.id
    BY <2>1, <2>2
  <2>4. \A q1, q2 \in runs' : q1 = q2
    BY <2>2 DEF RunInv, Held
  <2>5. Held' /\ Grows /\ KeepsPrepared
    BY <2>2, <2>3, <2>4 DEF RunInv, Held, Grows, KeepsPrepared, TypeOK
  <2> QED
    BY <1>2, <2>2, <2>5
<1>7. ASSUME NEW next \in BOOLEAN, RecordRuntime(next) PROVE RunInv'
  <2> DEFINE h == [Here EXCEPT !.state = ApplyLifecycle(state, state.children), !.ready = next]
  <2>1. h.running = running
    BY <1>1 DEF Handled
  <2>2. TryDrain(h) /\ live /\ live' = live /\ mailbox' = mailbox
    BY <1>7 DEF RecordRuntime, Serving
  <2> HIDE DEF h
  <2> QED
    BY <1>2, <2>1, <2>2, TryDrainHeld DEF RunInv
<1>8. ASSUME NEW children \in 0..MaxChildren, RecordChild(children) PROVE RunInv'
  BY <1>2, <1>3, <1>8 DEF RecordChild, Serving, actor, tasks
<1>9. ASSUME NEW t \in Timers, ArmTimer(t) PROVE RunInv'
  BY <1>2, <1>3, <1>9 DEF ArmTimer, Serving, actor
<1>10. ASSUME NEW ts \in SUBSET Timers, CancelTimer(ts) PROVE RunInv'
  BY <1>2, <1>3, <1>10 DEF CancelTimer, Serving, actor, tasks
<1>11. CASE Unload
  <2>1. /\ mailbox' = <<>> /\ runs' = {} /\ preps' = {} /\ sleeps' = {} /\ running' = {}
        /\ preparing' = FALSE
    BY <1>11 DEF Unload
  <2>2. Len(mailbox') = 0
    BY <2>1
  <2> QED
    BY <2>1, <2>2 DEF RunInv, Held, ReportsFenced, PreparedOnce, Gone
<1>12. ASSUME NEW isReady \in BOOLEAN, Load(isReady) PROVE RunInv'
  <2>1. /\ runs = {} /\ preps = {} /\ running = {} /\ preparing = FALSE
        /\ preps' = {} /\ preparing' = FALSE /\ live'
    BY <1>12 DEF Load, RunInv, Gone, TypeOK
  <2>2. Held'
    <3>1. CASE Interactive \/ state.parked \/ ~state.logged
      BY <1>12, <2>1, <3>1 DEF Load, Held
    <3>2. CASE ~(Interactive \/ state.parked \/ ~state.logged)
      BY <1>12, <2>1, <3>2, StartRunHeld DEF Load, RunInv
    <3> QED
      BY <3>1, <3>2
  <2>3. \A i \in 1..Len(mailbox') : mailbox'[i].kind = "PersistProgress"
    <3> DEFINE cmd == [kind |-> "PersistProgress", run |-> {}, ev |-> "repair",
                       calls |-> MissingResults(state)]
    <3>1. cmd.kind = "PersistProgress"
      OBVIOUS
    <3>2. mailbox' = <<>> \/ mailbox' = <<cmd>>
      BY <1>12 DEF Load
    <3> HIDE DEF cmd
    <3> QED
      BY <3>1, <3>2
  <2> QED
    BY <2>1, <2>2, <2>3 DEF RunInv, ReportsFenced, PreparedOnce, Gone
<1> QED
  BY <1>4, <1>5, <1>6, <1>7, <1>8, <1>9, <1>10, <1>11, <1>12 DEF Outside

\* Every step keeps the invariant.
LEMMA RunInvStep ==
    ASSUME TypeOK, RunInv, [Next]_vars
    PROVE  RunInv'
<1>1. ASSUME UNCHANGED <<live, mailbox, running, nextRun, preparing, preps, runs, sleeps>>
      PROVE  RunInv'
  BY <1>1 DEF RunInv, Held, ReportsFenced, PreparedOnce, Gone
<1>2. CASE Persist
  BY <1>1, <1>2 DEF Persist, actor, tasks
<1>3. ASSUME NEW turn \in preps, NEW abandon \in BOOLEAN, PrepareEnds(turn, abandon)
      PROVE  RunInv'
  <2> DEFINE cmd == [kind |-> "StartPrepared", turn |-> turn, abandon |-> abandon]
  <2>1. cmd.kind = "StartPrepared"
    OBVIOUS
  <2>2. /\ mailbox' = Append(mailbox, cmd) /\ preps' = preps \ {turn}
        /\ UNCHANGED <<live, running, nextRun, preparing, runs, sleeps>>
    BY <1>3 DEF PrepareEnds, actor
  <2> HIDE DEF cmd
  <2>3. preparing /\ preps' = {}
    BY <2>2 DEF RunInv, Held
  <2>4. \A i \in 1..Len(mailbox) : mailbox[i].kind # "StartPrepared"
    BY DEF RunInv, PreparedOnce
  <2>5. Held' /\ Gone'
    BY <2>2, <2>3 DEF RunInv, Held, Gone
  <2>6. ReportsFenced(mailbox)'
    BY <2>1, <2>2, MailPosted DEF RunInv, ReportsFenced
  <2>7. PreparedOnce(mailbox)'
    BY <2>1, <2>2, <2>3, <2>4, MailPosted DEF PreparedOnce
  <2> QED
    BY <2>5, <2>6, <2>7 DEF RunInv
<1>4. ASSUME NEW t \in sleeps, SleepEnds(t) PROVE RunInv'
  <2> DEFINE cmd == [kind |-> "TimerFired", timer |-> t]
  <2>1. cmd.kind = "TimerFired"
    OBVIOUS
  <2>2. /\ mailbox' = Append(mailbox, cmd)
        /\ UNCHANGED <<live, running, nextRun, preparing, preps, runs>>
    BY <1>4 DEF SleepEnds, actor
  <2> HIDE DEF cmd
  <2>3. Held' /\ Grows /\ KeepsPrepared
    BY <2>2 DEF RunInv, Held, Grows, KeepsPrepared, TypeOK
  <2>4. ReportsFenced(mailbox)' /\ PreparedOnce(mailbox)'
    BY <2>1, <2>2, <2>3, MailPostedPlain DEF RunInv
  <2>5. live
    BY DEF RunInv, Gone
  <2> QED
    BY <2>2, <2>3, <2>4, <2>5 DEF RunInv, Gone
<1>5. CASE UNCHANGED vars
  BY <1>1, <1>5 DEF vars, actor, tasks
<1> QED
  BY <1>2, <1>3, <1>4, <1>5, OutsideInv, HandleCommandInv, TaskStepInv DEF Next, Inside

\* Whatever messages, timers, stops, crashes and reloads interleave with it, an
\* agent has at most one run task alive, and it is the one the actor holds.
THEOREM SingleRunHolds == Spec => []SingleRun
<1>1. Init => RunInv
  <2> SUFFICES ASSUME Init PROVE RunInv
    OBVIOUS
  <2>1. /\ mailbox = <<>> /\ runs = {} /\ preps = {} /\ sleeps = {} /\ running = {}
        /\ preparing = FALSE
    BY DEF Init
  <2>2. Len(mailbox) = 0
    BY <2>1
  <2> QED
    BY <2>1, <2>2 DEF RunInv, Held, ReportsFenced, PreparedOnce, Gone
<1>2. TypeOK /\ RunInv /\ [Next]_vars => RunInv'
  BY RunInvStep
<1>3. RunInv => SingleRun
  BY DEF RunInv, Held, SingleRun
<1> QED
  BY <1>1, <1>2, <1>3, TypeCorrect, PTL DEF Spec

-----------------------------------------------------------------------------
(* What a handler leaves *)

\* The journal once what is staged is written.
Kept == IF staged = {} THEN {state} ELSE staged

\* A handler leaves s: written, or staged to be.
Leaves(s) == \/ state' = s /\ staged' = {}
             \/ state' = state /\ staged' = {s}

\* What is left of s by a turn that begins, and by the turn's beginning.
Taken(turn, s) ==
    IF HookDue(turn) THEN ApplyTurnBegan(s, turn)
                     ELSE ApplyTurnInput(ApplyTurnBegan(s, turn), turn)

Starts(turn, s) ==
    /\ Leaves(Taken(turn, s))
    /\ owner' = "Started"
    /\ IF HookDue(turn)
       THEN preparing' = TRUE /\ preps' = preps \cup {turn} /\ UNCHANGED <<runs, nextRun>>
       ELSE /\ \E choice : StartRun(turn, choice)
            /\ UNCHANGED <<preparing, preps>>

\* What a handler whose folds come to s leaves: the same, or a turn begun from it.
Outcome(s) == \/ Leaves(s) /\ UNCHANGED <<preparing, preps, runs, nextRun>>
              \/ \E turn \in QueuedTurn(s) : Starts(turn, s)

\* What a handler leaves is all the journal will hold.
LEMMA LeavesKept ==
    ASSUME NEW s, Leaves(s)
    PROVE  Kept' = {s} /\ state' \in {state, s} /\ staged' \subseteq {s}
BY DEF Leaves, Kept

\* The write at the end of a handler leaves the state it was given.
LEMMA WriteLeaves ==
    ASSUME NEW s, NEW told, Write(s, told)
    PROVE  Leaves(s)
BY DEF Write, Leaves

\* A turn that begins leaves the state it takes, and is prepared or runs.
LEMMA BeginTurnStarts ==
    ASSUME NEW turn, NEW h, BeginTurn(turn, h)
    PROVE  Starts(turn, h.state)
<1> DEFINE began == ApplyTurnBegan(h.state, turn)
<1>1. CASE HookDue(turn)
  <2>1. Write(began, TRUE) /\ preparing' = TRUE /\ preps' = preps \cup {turn} /\ owner' = "Started"
        /\ UNCHANGED <<runs, nextRun>>
    BY <1>1 DEF BeginTurn
  <2>2. Leaves(Taken(turn, h.state))
    BY <1>1, <2>1, WriteLeaves DEF Taken
  <2> QED
    BY <1>1, <2>1, <2>2 DEF Starts
<1>2. CASE ~HookDue(turn)
  <2>1. Write(ApplyTurnInput(began, turn), TRUE) /\ StartRun(turn, h.forced) /\ owner' = "Started"
        /\ UNCHANGED <<preparing, preps>>
    BY <1>2 DEF BeginTurn
  <2>2. Leaves(Taken(turn, h.state))
    BY <1>2, <2>1, WriteLeaves DEF Taken
  <2> QED
    BY <1>2, <2>1, <2>2 DEF Starts
<1> QED
  BY <1>1, <1>2

\* A drain, or its refusal, leaves the state as the handler folded it, or a turn begun.
LEMMA TryDrainOutcome ==
    ASSUME NEW h, TryDrain(h) \/ Settle(h)
    PROVE  Outcome(h.state)
<1>1. CASE Settle(h)
  BY <1>1, WriteLeaves DEF Settle, Outcome
<1>2. CASE TryDrain(h) /\ CanDrain(h)
  BY <1>2, BeginTurnStarts DEF TryDrain, Outcome
<1>3. CASE TryDrain(h) /\ ~CanDrain(h)
  BY <1>1, <1>3 DEF TryDrain, Settle
<1> QED
  BY <1>1, <1>2, <1>3

-----------------------------------------------------------------------------
(* What the folds do to the parts of the state *)

\* The parts of a state.
Parts(s, inbox, asks, timers, log) ==
    /\ s.inbox = inbox /\ s.asks = asks /\ s.timers = timers /\ s.log = log

\* What each event of the journal does to the queue, the questions, the timers and the log.
LEMMA FoldParts ==
    ASSUME NEW s \in AgentState
    PROVE  /\ \A entries : Parts(Logged(s, entries), s.inbox, s.asks, s.timers, s.log \o entries)
           /\ \A item : Parts(ApplyReceived(s, item), s.inbox \cup {item}, s.asks, s.timers, s.log)
           /\ \A turn : Parts(ApplyTurnBegan(s, turn), s.inbox \ turn.items, {}, s.timers, s.log)
           /\ \A asks : Parts(ApplyAskRecorded(s, asks), s.inbox, asks, s.timers, s.log)
           /\ \A entry : Parts(ApplyInput(s, entry), s.inbox, s.asks, s.timers, s.log \o <<entry>>)
           /\ Parts(ApplyParked(s), s.inbox, s.asks, s.timers, s.log)
           /\ Parts(ApplyNudged(s), s.inbox, s.asks, s.timers, s.log)
           /\ Parts(ApplyBoundary(s), s.inbox, s.asks, s.timers, s.log)
           /\ \A n : Parts(ApplyLifecycle(s, n), s.inbox, s.asks, s.timers, s.log)
           /\ \A t : Parts(ApplyTimerArmed(s, t), s.inbox, s.asks, s.timers \cup {t}, s.log)
           /\ \A ts : Parts(ApplyTimerCancelled(s, ts), s.inbox, s.asks, s.timers \ ts, s.log)
           /\ \A t : Parts(ApplyTimerFired(s, t), s.inbox, s.asks,
                           IF t \in Recurring THEN s.timers ELSE s.timers \ {t}, s.log)
<1> USE DEF Parts, AgentState
<1>1. \A entries : Parts(Logged(s, entries), s.inbox, s.asks, s.timers, s.log \o entries)
  BY DEF Logged
<1>2. \A item : Parts(ApplyReceived(s, item), s.inbox \cup {item}, s.asks, s.timers, s.log)
  BY DEF ApplyReceived
<1>3. \A turn : Parts(ApplyTurnBegan(s, turn), s.inbox \ turn.items, {}, s.timers, s.log)
  BY DEF ApplyTurnBegan
<1>4. \A asks : Parts(ApplyAskRecorded(s, asks), s.inbox, asks, s.timers, s.log)
  BY DEF ApplyAskRecorded
<1>5. \A entry : Parts(ApplyInput(s, entry), s.inbox, s.asks, s.timers, s.log \o <<entry>>)
  BY DEF ApplyInput, Logged
<1>6. /\ Parts(ApplyParked(s), s.inbox, s.asks, s.timers, s.log)
      /\ Parts(ApplyNudged(s), s.inbox, s.asks, s.timers, s.log)
      /\ Parts(ApplyBoundary(s), s.inbox, s.asks, s.timers, s.log)
      /\ \A n : Parts(ApplyLifecycle(s, n), s.inbox, s.asks, s.timers, s.log)
  BY DEF ApplyParked, ApplyNudged, ApplyBoundary, ApplyLifecycle
<1>7. /\ \A t : Parts(ApplyTimerArmed(s, t), s.inbox, s.asks, s.timers \cup {t}, s.log)
      /\ \A ts : Parts(ApplyTimerCancelled(s, ts), s.inbox, s.asks, s.timers \ ts, s.log)
  BY DEF ApplyTimerArmed, ApplyTimerCancelled
<1>8. \A t : Parts(ApplyTimerFired(s, t), s.inbox, s.asks,
                   IF t \in Recurring THEN s.timers ELSE s.timers \ {t}, s.log)
  BY DEF ApplyTimerFired
<1> QED
  BY <1>1, <1>2, <1>3, <1>4, <1>5, <1>6, <1>7, <1>8

\* The results and the message a turn writes at its start.
TurnResults(turn) == IF turn.results = {} THEN <<>> ELSE <<ResultEntry(turn.results)>>
TurnMessage(turn) == IF StartsUserTurn(turn) THEN <<InputEntry(turn.items)>> ELSE <<>>

\* A turn's input adds its results and its message to the log, and nothing else.
LEMMA TurnInputParts ==
    ASSUME NEW s \in AgentState, NEW turn \in Turn
    PROVE  /\ ApplyTurnInput(s, turn) \in AgentState
           /\ Parts(ApplyTurnInput(s, turn), s.inbox, s.asks, s.timers,
                    (s.log \o TurnResults(turn)) \o TurnMessage(turn))
<1> DEFINE s1 == IF turn.results = {} THEN s ELSE ApplyInput(s, ResultEntry(turn.results))
<1>1. turn.results \in SUBSET Call /\ turn.items \in SUBSET Item
  BY DEF Turn
<1>2. ResultEntry(turn.results) \in Entry /\ InputEntry(turn.items) \in Entry
  BY <1>1, EntryTypes
<1>3. s1 \in AgentState
  BY <1>2, QueueFoldTypes
<1>4. s.log \in Seq(Entry) /\ s1.log \in Seq(Entry)
  BY <1>3 DEF AgentState
<1>5. s.log \o <<>> = s.log /\ s1.log \o <<>> = s1.log
  BY <1>4, ConcatEmptySeq
<1>6. Parts(s1, s.inbox, s.asks, s.timers, s.log \o TurnResults(turn))
  <2>1. Parts(ApplyInput(s, ResultEntry(turn.results)), s.inbox, s.asks, s.timers,
              s.log \o <<ResultEntry(turn.results)>>)
    BY FoldParts
  <2> QED
    BY <1>5, <2>1 DEF Parts, TurnResults
<1>7. ApplyTurnInput(s, turn) =
         IF StartsUserTurn(turn) THEN ApplyInput(s1, InputEntry(turn.items)) ELSE s1
  BY DEF ApplyTurnInput
<1> HIDE DEF s1
<1>8. Parts(ApplyTurnInput(s, turn), s1.inbox, s1.asks, s1.timers, s1.log \o TurnMessage(turn))
  <2>1. Parts(ApplyInput(s1, InputEntry(turn.items)), s1.inbox, s1.asks, s1.timers,
              s1.log \o <<InputEntry(turn.items)>>)
    BY <1>3, FoldParts
  <2> QED
    BY <1>5, <1>7, <2>1 DEF Parts, TurnMessage
<1> QED
  BY <1>6, <1>8, TurnInputType DEF Parts

\* What a turn begun from s leaves of it.
LEMMA TakenParts ==
    ASSUME NEW s \in AgentState, NEW turn \in Turn
    PROVE  /\ Taken(turn, s) \in AgentState
           /\ HookDue(turn) =>
                Parts(Taken(turn, s), s.inbox \ turn.items, {}, s.timers, s.log)
           /\ ~HookDue(turn) =>
                Parts(Taken(turn, s), s.inbox \ turn.items, {}, s.timers,
                      (s.log \o TurnResults(turn)) \o TurnMessage(turn))
<1> DEFINE began == ApplyTurnBegan(s, turn)
<1>1. began \in AgentState
  BY QueueFoldTypes
<1>2. Parts(began, s.inbox \ turn.items, {}, s.timers, s.log)
  BY FoldParts
<1> HIDE DEF began
<1>3. /\ ApplyTurnInput(began, turn) \in AgentState
      /\ Parts(ApplyTurnInput(began, turn), began.inbox, began.asks, began.timers,
               (began.log \o TurnResults(turn)) \o TurnMessage(turn))
  BY <1>1, TurnInputParts
<1>4. Taken(turn, s) = IF HookDue(turn) THEN began ELSE ApplyTurnInput(began, turn)
  BY DEF Taken, began
<1> QED
  BY <1>1, <1>2, <1>3, <1>4 DEF Parts

\* The items the agent queues for itself at the end of a run.
LEMMA NudgeTypes ==
    ASSUME NEW n \in Nat
    PROVE  NudgeItem(n) \in Item /\ ContradictionItem(n) \in Item
BY DEF NudgeItem, ContradictionItem, Item, ItemId

-----------------------------------------------------------------------------
(* What the end of a run leaves *)

Repaired(s) == IF MissingResults(s) = {} THEN s ELSE ApplyInput(s, ResultEntry(MissingResults(s)))

Contradicted(s, calls) == ApplyNudged(Logged(s, <<ResultEntry(calls)>>))

\* The folds of the end of a run, from s to s1.
EndsIn(s, calls, s1) ==
    \/ s1 = s
    \/ s1 = ApplyParked(s)
    \/ s1 = ApplyNudged(ApplyReceived(s, NudgeItem(s.nudges)))
    \/ Asks(calls) /\ s1 = ApplyAskRecorded(s, calls)
    \/ s1 = ApplyTimerCancelled(s, s.timers)
    \/ calls # {} /\ s1 = Contradicted(s, calls)
    \/ /\ calls # {}
       /\ s1 = ApplyReceived(Contradicted(s, calls),
                             ContradictionItem(Contradicted(s, calls).nudges))
    \/ s1 = ApplyBoundary(Repaired(s))
    \/ s1 = ApplyBoundary(Logged(Repaired(s), <<MsgEntry({})>>))

\* How a handler that ends a run does it.
Finishes(h, calls) ==
    \/ FinishCompleted(h) \/ FinishStopped(h, calls) \/ FinishCancelled(h)
    \/ Settle(Telling(h, "Failed")) \/ Settle(h)

\* What it leaves.
EndLeaves(s, calls) == \E s1 : EndsIn(s, calls, s1) /\ Outcome(s1)

\* However a run ends, its handler leaves one of the folds of its end, or a turn begun.
LEMMA FinishOutcome ==
    ASSUME NEW h \in Handled, NEW calls \in SUBSET Call, Finishes(h, calls)
    PROVE  EndLeaves(h.state, calls)
<1>1. ASSUME NEW g, TryDrain(g) \/ Settle(g), EndsIn(h.state, calls, g.state)
      PROVE  EndLeaves(h.state, calls)
  BY <1>1, TryDrainOutcome DEF EndLeaves
<1>2. \A s : [h EXCEPT !.state = s].state = s
  BY DEF Handled
<1>3. \A what : Telling(h, what).state = h.state
  BY DEF Handled, Telling
<1>4. \A what, s : [Telling(h, what) EXCEPT !.state = s].state = s
  BY DEF Handled, Telling
<1>5. \A s, f : [h EXCEPT !.state = s, !.forced = f].state = s
  BY DEF Handled
<1>6. EndsIn(h.state, calls, h.state)
  BY DEF EndsIn
<1>7. ASSUME NEW g, TryDrain(g) \/ Settle(g), g.state = h.state
      PROVE  EndLeaves(h.state, calls)
  BY <1>1, <1>6, <1>7
<1>8. CASE FinishCompleted(h)
  <2>1. CASE TryDrain(h)
    BY <1>7, <2>1
  <2>2. CASE Park(h)
    <3>1. Settle([Telling(h, "Parked") EXCEPT !.state = ApplyParked(h.state)])
      BY <1>3, <2>2 DEF Park
    <3> QED
      BY <1>1, <1>4, <3>1 DEF EndsIn
  <2>3. CASE EndedWithoutResult(h)
    <3>1. CASE Settle(Telling(h, "Failed"))
      BY <1>3, <1>7, <3>1
    <3>2. CASE ~Settle(Telling(h, "Failed"))
      <4> DEFINE s1 == ApplyNudged(ApplyReceived(h.state, NudgeItem(h.state.nudges)))
      <4>1. \E f : TryDrain([h EXCEPT !.state = s1, !.forced = f])
        BY <2>3, <3>2 DEF EndedWithoutResult
      <4>2. EndsIn(h.state, calls, s1)
        BY DEF EndsIn
      <4> HIDE DEF s1
      <4> QED
        BY <1>1, <1>5, <4>1, <4>2
    <3> QED
      BY <3>1, <3>2
  <2>4. CASE TryDrain(Telling(h, "Concluded"))
    BY <1>3, <1>7, <2>4
  <2> QED
    BY <1>8, <2>1, <2>2, <2>3, <2>4 DEF FinishCompleted
<1>9. CASE FinishStopped(h, calls)
  <2>1. CASE Asks(calls)
    <3> DEFINE s1 == ApplyAskRecorded(h.state, calls)
    <3>1. TryDrain([Telling(h, "Asked") EXCEPT !.state = s1])
      BY <1>3, <1>9, <2>1 DEF FinishStopped
    <3>2. EndsIn(h.state, calls, s1)
      BY <2>1 DEF EndsIn
    <3> HIDE DEF s1
    <3> QED
      BY <1>1, <1>4, <3>1, <3>2
  <2>2. CASE ~Asks(calls) /\ Submits(calls)
    <3> DEFINE s1 == ApplyTimerCancelled(h.state, h.state.timers)
    <3>1. TryDrain([Telling(h, "Concluded") EXCEPT !.state = s1])
      BY <1>3, <1>9, <2>2 DEF FinishStopped
    <3>2. EndsIn(h.state, calls, s1)
      BY DEF EndsIn
    <3> HIDE DEF s1
    <3> QED
      BY <1>1, <1>4, <3>1, <3>2
  <2>3. CASE ~Asks(calls) /\ ~Submits(calls)
    <3> DEFINE told == Contradicted(h.state, calls)
               s1 == ApplyReceived(told, ContradictionItem(told.nudges))
    <3>1. calls # {}
      BY <2>3 DEF Submits
    <3>2. Settle([h EXCEPT !.state = told]) \/ TryDrain([h EXCEPT !.state = s1])
      BY <1>9, <2>3 DEF FinishStopped, CorrectContradiction, Contradicted
    <3>3. EndsIn(h.state, calls, told) /\ EndsIn(h.state, calls, s1)
      BY <3>1 DEF EndsIn
    <3> HIDE DEF told, s1
    <3> QED
      BY <1>1, <1>2, <3>2, <3>3
  <2> QED
    BY <2>1, <2>2, <2>3
<1>10. CASE FinishCancelled(h)
  <2> DEFINE heard == IF acks > 0 THEN Telling(h, "Stopped") ELSE h
             s1 == ApplyBoundary(Repaired(h.state))
             s2 == ApplyBoundary(Logged(Repaired(h.state), <<MsgEntry({})>>))
  <2>1. \A s : [heard EXCEPT !.state = s].state = s
    BY <1>2, <1>4
  <2>2. heard.state = h.state
    BY <1>3
  <2>3. EndsIn(h.state, calls, s1) /\ EndsIn(h.state, calls, s2)
    BY DEF EndsIn
  <2>4. TryDrain([heard EXCEPT !.state = s1]) \/ TryDrain([heard EXCEPT !.state = s2])
    BY <1>10, <2>2 DEF FinishCancelled, Repaired
  <2> HIDE DEF heard, s1, s2
  <2> QED
    BY <1>1, <2>1, <2>3, <2>4
<1>11. CASE Settle(Telling(h, "Failed"))
  BY <1>3, <1>7, <1>11
<1>12. CASE Settle(h)
  BY <1>7, <1>12
<1> QED
  BY <1>8, <1>9, <1>10, <1>11, <1>12 DEF Finishes

\* The states a run may end in have the type of one.
LEMMA RepairedType ==
    ASSUME NEW s \in AgentState
    PROVE  Repaired(s) \in AgentState
<1>1. ResultEntry(MissingResults(s)) \in Entry
  BY MissingType, EntryTypes
<1> QED
  BY <1>1, QueueFoldTypes DEF Repaired

\* The folds of the end of a run have the type of a state.
LEMMA EndsInType ==
    ASSUME NEW s \in AgentState, NEW calls \in SUBSET Call, NEW s1, EndsIn(s, calls, s1)
    PROVE  s1 \in AgentState
<1>1. s.nudges \in Nat
  BY DEF AgentState
<1>2. ApplyReceived(s, NudgeItem(s.nudges)) \in AgentState
  BY <1>1, NudgeTypes, QueueFoldTypes
<1>3. Contradicted(s, calls) \in AgentState
  <2>1. <<ResultEntry(calls)>> \in Seq(Entry)
    BY EntryTypes
  <2> QED
    BY <2>1, LoggedType, QueueFoldTypes DEF Contradicted
<1>4. Contradicted(s, calls).nudges \in Nat
  BY <1>3 DEF AgentState
<1>5. ContradictionItem(Contradicted(s, calls).nudges) \in Item
  BY <1>4, NudgeTypes
<1>6. Repaired(s) \in AgentState
  BY RepairedType
<1>7. Logged(Repaired(s), <<MsgEntry({})>>) \in AgentState
  <2>1. <<MsgEntry({})>> \in Seq(Entry)
    BY EntryTypes
  <2> QED
    BY <1>6, <2>1, LoggedType
<1>8. ApplyTimerCancelled(s, s.timers) \in AgentState
  BY DEF ApplyTimerCancelled, AgentState
<1>9. Asks(calls) => ApplyAskRecorded(s, calls) \in AgentState
  BY QueueFoldTypes
<1>10. /\ ApplyParked(s) \in AgentState
       /\ ApplyNudged(ApplyReceived(s, NudgeItem(s.nudges))) \in AgentState
       /\ ApplyReceived(Contradicted(s, calls), ContradictionItem(Contradicted(s, calls).nudges))
              \in AgentState
       /\ ApplyBoundary(Repaired(s)) \in AgentState
       /\ ApplyBoundary(Logged(Repaired(s), <<MsgEntry({})>>)) \in AgentState
  BY <1>2, <1>3, <1>5, <1>6, <1>7, QueueFoldTypes
<1> QED
  BY <1>3, <1>8, <1>9, <1>10 DEF EndsIn

-----------------------------------------------------------------------------
(* A Stop is answered when the run is over *)

\* What m holds of a run is of the run the actor holds, and its report is the last.
MailOfRun(m) ==
    \A i \in 1..Len(m) :
        /\ m[i].kind = "PersistProgress" => m[i].run \subseteq running
        /\ m[i].kind = "RunFinished" =>
             /\ running = {m[i].run}
             /\ \A j \in 1..Len(m) : /\ m[j].kind = "RunFinished" => j = i
                                     /\ i < j /\ m[j].kind = "PersistProgress" => m[j].run = {}

\* Nothing in m is of a run.
Clear(m) == \A i \in 1..Len(m) : /\ m[i].kind = "PersistProgress" => m[i].run = {}
                                 /\ m[i].kind # "RunFinished"

\* With no run held nothing in the mail is of a run.
LEMMA ClearMail ==
    ASSUME MailOfRun(mailbox), running = {}
    PROVE  Clear(mailbox)
BY DEF MailOfRun, Clear

\* Mail that is of no run is of the run that is held.
LEMMA ClearKeeps ==
    ASSUME Clear(mailbox')
    PROVE  MailOfRun(mailbox)'
BY DEF MailOfRun, Clear

\* A handler that begins a turn or none holds the run it held, or held none.
LEMMA DrainRunning ==
    ASSUME NEW h, TryDrain(h) \/ Settle(h)
    PROVE  running' = h.running \/ h.running = {}
<1>1. CASE Settle(h)
  BY <1>1 DEF Settle
<1>2. CASE TryDrain(h) /\ CanDrain(h)
  BY <1>2 DEF CanDrain, Busy
<1>3. CASE TryDrain(h) /\ ~CanDrain(h)
  BY <1>1, <1>3 DEF TryDrain
<1> QED
  BY <1>1, <1>2, <1>3

\* The mail is left, or its first command taken, by a step that holds the run it held,
\* or held none.
LEMMA MailOfRunKept ==
    ASSUME TypeOK, MailOfRun(mailbox), running' = running \/ running = {},
           mailbox' = mailbox \/ (mailbox # <<>> /\ mailbox' = Tail(mailbox))
    PROVE  MailOfRun(mailbox)'
<1>1. CASE mailbox' = mailbox
  BY <1>1, ClearMail, ClearKeeps DEF MailOfRun
<1>2. CASE mailbox # <<>> /\ mailbox' = Tail(mailbox)
  <2>1. /\ Len(mailbox) \in Nat /\ Len(mailbox') = Len(mailbox) - 1
        /\ \A i \in 1..Len(mailbox') : i + 1 \in 1..Len(mailbox) /\ mailbox'[i] = mailbox[i + 1]
    BY <1>2 DEF TypeOK
  <2>2. CASE running = {}
    <3>1. Clear(mailbox')
      BY <2>1, <2>2, ClearMail DEF Clear
    <3> QED
      BY <3>1, ClearKeeps
  <2>3. CASE running' = running
    <3>1. ASSUME NEW i \in 1..Len(mailbox')
          PROVE  /\ mailbox'[i].kind = "PersistProgress" => mailbox'[i].run \subseteq running
                 /\ mailbox'[i].kind = "RunFinished" => running = {mailbox'[i].run}
      BY <2>1 DEF MailOfRun
    <3>2. ASSUME NEW i \in 1..Len(mailbox'), NEW j \in 1..Len(mailbox'),
                 mailbox'[i].kind = "RunFinished"
          PROVE  /\ mailbox'[j].kind = "RunFinished" => j = i
                 /\ i < j /\ mailbox'[j].kind = "PersistProgress" => mailbox'[j].run = {}
      <4>1. i + 1 \in 1..Len(mailbox) /\ j + 1 \in 1..Len(mailbox)
        BY <2>1
      <4>2. mailbox[i + 1].kind = "RunFinished"
        BY <2>1, <3>2
      <4>3. /\ mailbox[j + 1].kind = "RunFinished" => j + 1 = i + 1
            /\ i + 1 < j + 1 /\ mailbox[j + 1].kind = "PersistProgress" => mailbox[j + 1].run = {}
        BY <4>1, <4>2 DEF MailOfRun
      <4> QED
        BY <2>1, <4>3
    <3> QED
      BY <2>3, <3>1, <3>2 DEF MailOfRun
  <2> QED
    BY <2>2, <2>3
<1> QED
  BY <1>1, <1>2

\* A command that is of no run is posted.
LEMMA MailOfRunPosted ==
    ASSUME TypeOK, MailOfRun(mailbox), running' = running, NEW cmd,
           cmd.kind \notin {"RunFinished", "PersistProgress"}, mailbox' = Append(mailbox, cmd)
    PROVE  MailOfRun(mailbox)'
BY MailPosted DEF MailOfRun

\* A task posts what it wrote, or its report.
LEMMA MailOfRunTask ==
    ASSUME TypeOK, RunInv, MailOfRun(mailbox), NEW r \in runs,
           RunInner(r) \/ RunOuter(r) \/ Summarise(r)
    PROVE  MailOfRun(mailbox)'
<1>1. running' = running
  BY DEF RunInner, RunOuter, Summarise, Provide, ProvideCancelled, Loop, Act, ToolResult,
     ToolStops, ToolsDone, LoopCancelled, Ended, RunQuiet, actor
<1>2. running = {r.id}
  BY DEF RunInv, Held
<1>3. \A i \in 1..Len(mailbox) : mailbox[i].kind # "RunFinished"
  BY <1>2 DEF RunInv, ReportsFenced, MailOfRun
<1>4. CASE GoesOn(r)
  <2>1. CASE mailbox' = mailbox
    BY <1>1, <2>1, MailOfRunKept
  <2>2. CASE mailbox' # mailbox
    <3>1. PICK cmd : /\ cmd.kind = "PersistProgress" /\ cmd.run = {r.id}
                     /\ mailbox' = Append(mailbox, cmd)
      BY <1>4, <2>2 DEF GoesOn
    <3> QED
      BY <1>1, <1>2, <1>3, <3>1, MailPosted DEF MailOfRun
  <2> QED
    BY <2>1, <2>2
<1>5. CASE IsOver(r)
  <2>1. PICK cmd : /\ cmd.kind = "RunFinished" /\ cmd.run = r.id
                   /\ mailbox' = Append(mailbox, cmd)
    BY <1>5 DEF IsOver
  <2>2. /\ Len(mailbox') = Len(mailbox) + 1 /\ Len(mailbox) \in Nat
        /\ mailbox'[Len(mailbox')] = cmd
        /\ \A i \in 1..Len(mailbox) : mailbox'[i] = mailbox[i]
        /\ \A i \in 1..Len(mailbox') : i \in 1..Len(mailbox) \/ i = Len(mailbox')
    BY <2>1, MailPosted
  <2> QED
    BY <1>1, <1>2, <1>3, <2>1, <2>2 DEF MailOfRun
<1> QED
  BY <1>4, <1>5, TaskStep

\* The report of the held run at the head leaves nothing of that run behind.
LEMMA ReportIsLast ==
    ASSUME TypeOK, RunInv, MailOfRun(mailbox), Receive("RunFinished")
    PROVE  /\ runs = {} /\ running = {Head(mailbox).run}
           /\ Clear(mailbox')
<1>1. /\ mailbox \in Seq(Command) /\ mailbox # <<>> /\ mailbox' = Tail(mailbox)
      /\ Head(mailbox) = mailbox[1] /\ mailbox[1].kind = "RunFinished"
      /\ 1 \in 1..Len(mailbox) /\ Len(mailbox) \in Nat
  BY DEF Receive, TypeOK
<1>2. /\ Len(mailbox') = Len(mailbox) - 1
      /\ \A i \in 1..Len(mailbox') : /\ mailbox'[i] = mailbox[i + 1]
                                     /\ i + 1 \in 1..Len(mailbox) /\ 1 < i + 1
  BY <1>1
<1>3. running = {mailbox[1].run} /\ \A r \in runs : r.id # mailbox[1].run
  BY <1>1 DEF MailOfRun, RunInv, ReportsFenced
<1>4. runs = {}
  BY <1>3 DEF RunInv, Held
<1>5. ASSUME NEW i \in 1..Len(mailbox')
      PROVE  /\ mailbox'[i].kind = "PersistProgress" => mailbox'[i].run = {}
             /\ mailbox'[i].kind # "RunFinished"
  <2>1. /\ mailbox[i + 1].kind = "PersistProgress" => mailbox[i + 1].run = {}
        /\ mailbox[i + 1].kind # "RunFinished"
    BY <1>1, <1>2 DEF MailOfRun
  <2> QED
    BY <1>2, <2>1
<1> QED
  BY <1>1, <1>3, <1>4, <1>5 DEF Clear

\* A handled command keeps the mail of the run.
LEMMA MailOfRunCommand ==
    ASSUME TypeOK, RunInv, MailOfRun(mailbox), HandleCommand
    PROVE  MailOfRun(mailbox)'
<1> DEFINE cmd == Head(mailbox)
<1>1. mailbox # <<>> /\ mailbox' = Tail(mailbox)
  BY DEF HandleCommand, Drain, StartPrepared, PersistProgress, TimerFired, RunFinished, Receive
<1>2. Here \in Handled /\ Here.running = running
  BY HereType DEF Here
<1>3. ASSUME running' = running \/ running = {} PROVE MailOfRun(mailbox)'
  BY <1>1, <1>3, MailOfRunKept
<1>4. CASE Drain
  BY <1>2, <1>3, <1>4, DrainRunning DEF Drain
<1>5. CASE StartPrepared
  <2>1. mailbox[1].kind = "StartPrepared" /\ 1 \in 1..Len(mailbox)
    BY <1>1, <1>5 DEF StartPrepared, Receive, TypeOK
  <2>2. running = {}
    BY <2>1 DEF RunInv, PreparedOnce, Held
  <2> QED
    BY <1>3, <2>2
<1>6. CASE PersistProgress
  BY <1>3, <1>6 DEF PersistProgress, actor
<1>7. CASE TimerFired
  <2>1. CASE cmd.timer \in state.timers
    <3>1. PICK s : TryDrain([Here EXCEPT !.state = s])
      BY <1>7, <2>1 DEF TimerFired
    <3>2. [Here EXCEPT !.state = s].running = running
      BY <1>2, RunningKept
    <3> QED
      BY <1>3, <3>1, <3>2, DrainRunning
  <2>2. CASE cmd.timer \notin state.timers
    BY <1>3, <1>7, <2>2 DEF TimerFired
  <2> QED
    BY <2>1, <2>2
<1>8. CASE RunFinished
  <2>1. Clear(mailbox')
    BY <1>8, ReportIsLast DEF RunFinished
  <2> QED
    BY <2>1, ClearKeeps
<1> QED
  BY <1>4, <1>5, <1>6, <1>7, <1>8 DEF HandleCommand

\* So does what comes from outside, and the process's end and return.
LEMMA MailOfRunOutside ==
    ASSUME TypeOK, RunInv, MailOfRun(mailbox), Outside
    PROVE  MailOfRun(mailbox)'
<1>1. Here \in Handled /\ Here.running = running
  BY HereType DEF Here
<1>2. ASSUME running' = running \/ running = {}, mailbox' = mailbox PROVE MailOfRun(mailbox)'
  BY <1>2, MailOfRunKept
<1>3. ASSUME NEW item \in Incoming, Enqueue(item) PROVE MailOfRun(mailbox)'
  <2> DEFINE cmd == [kind |-> "Drain"]
  <2>1. cmd.kind = "Drain" /\ mailbox' = Append(mailbox, cmd) /\ running' = running
    BY <1>3 DEF Enqueue, actor
  <2> HIDE DEF cmd
  <2> QED
    BY <2>1, MailOfRunPosted
<1>4. ASSUME NEW answers \in SUBSET state.asks, Answer(answers) PROVE MailOfRun(mailbox)'
  BY <1>1, <1>2, <1>4 DEF Answer, Busy
<1>5. CASE Cancel
  BY <1>2, <1>5 DEF Cancel
<1>6. ASSUME NEW next \in BOOLEAN, RecordRuntime(next) PROVE MailOfRun(mailbox)'
  <2> DEFINE h == [Here EXCEPT !.state = ApplyLifecycle(state, state.children), !.ready = next]
  <2>1. h.running = running
    BY <1>1 DEF Handled
  <2>2. TryDrain(h) /\ mailbox' = mailbox
    BY <1>6 DEF RecordRuntime
  <2> HIDE DEF h
  <2> QED
    BY <1>2, <2>1, <2>2, DrainRunning
<1>7. ASSUME NEW children \in 0..MaxChildren, RecordChild(children) PROVE MailOfRun(mailbox)'
  BY <1>2, <1>7 DEF RecordChild, actor, tasks
<1>8. ASSUME NEW t \in Timers, ArmTimer(t) PROVE MailOfRun(mailbox)'
  BY <1>2, <1>8 DEF ArmTimer, actor
<1>9. ASSUME NEW ts \in SUBSET Timers, CancelTimer(ts) PROVE MailOfRun(mailbox)'
  BY <1>2, <1>9 DEF CancelTimer, actor, tasks
<1>10. CASE Unload
  <2>1. Len(mailbox') = 0
    BY <1>10 DEF Unload
  <2> QED
    BY <2>1, ClearKeeps DEF Clear
<1>11. ASSUME NEW isReady \in BOOLEAN, Load(isReady) PROVE MailOfRun(mailbox)'
  <2> DEFINE cmd == [kind |-> "PersistProgress", run |-> {}, ev |-> "repair",
                     calls |-> MissingResults(state)]
  <2>1. cmd.kind = "PersistProgress" /\ cmd.run = {}
    OBVIOUS
  <2>2. mailbox' = <<>> \/ mailbox' = <<cmd>>
    BY <1>11 DEF Load
  <2> HIDE DEF cmd
  <2>3. Clear(mailbox')
    BY <2>1, <2>2 DEF Clear
  <2> QED
    BY <2>3, ClearKeeps
<1> QED
  BY <1>3, <1>4, <1>5, <1>6, <1>7, <1>8, <1>9, <1>10, <1>11 DEF Outside

\* Every step keeps it.
LEMMA MailOfRunStep ==
    ASSUME TypeOK, RunInv, MailOfRun(mailbox), [Next]_vars
    PROVE  MailOfRun(mailbox)'
<1>1. CASE Persist
  BY <1>1, MailOfRunKept DEF Persist, actor, tasks
<1>2. ASSUME NEW turn \in preps, NEW abandon \in BOOLEAN, PrepareEnds(turn, abandon)
      PROVE  MailOfRun(mailbox)'
  <2> DEFINE cmd == [kind |-> "StartPrepared", turn |-> turn, abandon |-> abandon]
  <2>1. cmd.kind = "StartPrepared" /\ mailbox' = Append(mailbox, cmd) /\ running' = running
    BY <1>2 DEF PrepareEnds, actor
  <2> HIDE DEF cmd
  <2> QED
    BY <2>1, MailOfRunPosted
<1>3. ASSUME NEW t \in sleeps, SleepEnds(t) PROVE MailOfRun(mailbox)'
  <2> DEFINE cmd == [kind |-> "TimerFired", timer |-> t]
  <2>1. cmd.kind = "TimerFired" /\ mailbox' = Append(mailbox, cmd) /\ running' = running
    BY <1>3 DEF SleepEnds, actor
  <2> HIDE DEF cmd
  <2> QED
    BY <2>1, MailOfRunPosted
<1>4. CASE UNCHANGED vars
  BY <1>4, MailOfRunKept DEF vars, actor, tasks
<1> QED
  BY <1>1, <1>2, <1>3, <1>4, MailOfRunOutside, MailOfRunCommand, MailOfRunTask DEF Next, Inside

\* Only the report of a run, or the end of the process, takes from the acks that wait.
LEMMA AcksKept ==
    ASSUME [Next]_vars
    PROVE  acks' = acks \/ acks' = acks + 1 \/ ~live' \/ RunFinished
<1>1. CASE \E item \in Incoming : Enqueue(item)
  BY <1>1 DEF Enqueue, actor
<1>2. CASE \E answers \in SUBSET state.asks : Answer(answers)
  BY <1>2 DEF Answer
<1>3. CASE Cancel
  BY <1>3 DEF Cancel
<1>4. CASE \E next \in BOOLEAN : RecordRuntime(next)
  BY <1>4 DEF RecordRuntime
<1>5. CASE \E children \in 0..MaxChildren : RecordChild(children)
  BY <1>5 DEF RecordChild, actor
<1>6. CASE \E t \in Timers : ArmTimer(t)
  BY <1>6 DEF ArmTimer, actor
<1>7. CASE \E ts \in SUBSET Timers : CancelTimer(ts)
  BY <1>7 DEF CancelTimer, actor
<1>8. CASE Unload
  BY <1>8 DEF Unload
<1>9. CASE \E isReady \in BOOLEAN : Load(isReady)
  BY <1>9 DEF Load
<1>10. CASE Drain \/ StartPrepared \/ PersistProgress \/ TimerFired
  BY <1>10 DEF Drain, StartPrepared, PersistProgress, TimerFired, actor
<1>11. CASE Persist
  BY <1>11 DEF Persist, actor
<1>12. CASE \E turn \in preps, abandon \in BOOLEAN : PrepareEnds(turn, abandon)
  BY <1>12 DEF PrepareEnds, actor
<1>13. CASE \E t \in sleeps : SleepEnds(t)
  BY <1>13 DEF SleepEnds, actor
<1>14. CASE \E r \in runs : RunInner(r) \/ RunOuter(r) \/ Summarise(r)
  BY <1>14 DEF RunInner, RunOuter, Summarise, Provide, ProvideCancelled, Loop, Act, ToolResult,
     ToolStops, ToolsDone, LoopCancelled, Ended, RunQuiet, actor
<1>15. CASE UNCHANGED vars
  BY <1>15 DEF vars, actor
<1> QED
  BY <1>1, <1>2, <1>3, <1>4, <1>5, <1>6, <1>7, <1>8, <1>9, <1>10, <1>11, <1>12, <1>13, <1>14,
     <1>15 DEF Next, Outside, Inside, HandleCommand

\* The acks that wait are answered by the report of the run alone.
LEMMA AckStep ==
    ASSUME TypeOK, RunInv, MailOfRun(mailbox), [Next]_vars, acks > 0, acks' = 0, live'
    PROVE  /\ \A r \in runs' : r.id \notin running
           /\ \A i \in DOMAIN mailbox' :
                 mailbox'[i].kind = "PersistProgress" => mailbox'[i].run \cap running = {}
<1>1. acks' # acks /\ acks' # acks + 1
  BY DEF TypeOK
<1>2. RunFinished
  BY <1>1, AcksKept
<1> DEFINE cmd == Head(mailbox)
           h == [Here EXCEPT !.running = {}]
<1>3. runs = {} /\ running = {cmd.run} /\ Clear(mailbox')
  BY <1>2, ReportIsLast DEF RunFinished
<1>4. /\ Receive("RunFinished") /\ HandleFinished(cmd)
  BY <1>2, <1>3 DEF RunFinished
<1>5. /\ cmd \in Command /\ cmd.kind = "RunFinished"
      /\ mailbox' \in Seq(Command)
  BY <1>4, ReceiveType
<1>6. Released(h)
  <2>1. Here \in Handled
    BY HereType
  <2> QED
    BY <1>3, <2>1 DEF Released, Handled
<1>7. Grows
  <2>1. cmd.outcome \in RunOutcome
    BY <1>5, CommandFields
  <2>2. \/ FinishCompleted(h) \/ FinishStopped(h, cmd.calls) \/ FinishCancelled(h)
        \/ Settle(Telling(h, "Failed")) \/ Settle(h)
    BY <1>4, <2>1 DEF HandleFinished, RunOutcome
  <2> HIDE DEF h
  <2> QED
    BY <1>6, <2>2, FinishHeld DEF RunInv
<1>8. \A r \in runs' : r.id \notin running
  BY <1>3, <1>7 DEF Grows, RunInv, Held
<1>9. DOMAIN mailbox' = 1..Len(mailbox')
  BY <1>5
<1> QED
  BY <1>3, <1>8, <1>9 DEF Clear

\* However a Stop races the end of what it stops, a crash, a retry or the next turn, its
\* ack comes when the run is over: the task is gone, and nothing it posted is left to be
\* written behind the ack's back (Cancel, handle_finished).
THEOREM StopIsOver == Spec => StopMeansOver
<1>1. Init => RunInv /\ MailOfRun(mailbox)
  <2> SUFFICES ASSUME Init PROVE RunInv /\ MailOfRun(mailbox)
    OBVIOUS
  <2>1. /\ mailbox = <<>> /\ runs = {} /\ preps = {} /\ sleeps = {} /\ running = {}
        /\ preparing = FALSE
    BY DEF Init
  <2>2. Len(mailbox) = 0
    BY <2>1
  <2> QED
    BY <2>1, <2>2 DEF RunInv, Held, ReportsFenced, PreparedOnce, Gone, MailOfRun
<1>2. TypeOK /\ RunInv /\ MailOfRun(mailbox) /\ [Next]_vars => (RunInv /\ MailOfRun(mailbox))'
  BY RunInvStep, MailOfRunStep
<1>3. TypeOK /\ RunInv /\ MailOfRun(mailbox) /\ [Next]_vars
        => [ acks > 0 /\ acks' = 0 /\ live'
               => /\ \A r \in runs' : r.id \notin running
                  /\ \A i \in DOMAIN mailbox' :
                        mailbox'[i].kind = "PersistProgress" =>
                            mailbox'[i].run \cap running = {} ]_vars
  BY AckStep
<1> QED
  BY <1>1, <1>2, <1>3, TypeCorrect, PTL DEF Spec, StopMeansOver

-----------------------------------------------------------------------------
(* A timer that is armed has one wake coming *)

\* The command at i of m is the wake of t.
Wakes(m, i, t) == m[i].kind = "TimerFired" /\ m[i].timer = t

\* A wake in m is the only one of its timer, which does not sleep meanwhile.
WokenOnce(m) ==
    \A i \in 1..Len(m) :
        m[i].kind = "TimerFired" =>
            /\ m[i].timer \in spent.armed
            /\ m[i].timer \notin sleeps
            /\ \A j \in 1..Len(m) : Wakes(m, j, m[i].timer) => j = i

\* Each timer of ts sleeps, or its wake is in m.
WakeComes(ts, m) == \A t \in ts : t \in sleeps \/ \E i \in 1..Len(m) : Wakes(m, i, t)

\* What sleeps, or is in the journal or about to be, was armed once.
ArmedOnce == /\ sleeps \subseteq spent.armed
             /\ \A s \in {state} \cup staged : s.timers \subseteq spent.armed

TimerInv == /\ ArmedOnce /\ WokenOnce(mailbox)
            /\ staged # {} => live
            /\ live => \A s \in Kept : WakeComes(s.timers, mailbox)

\* The timers a handler leaves, when those of s are what it leaves.
LEMMA OutcomeTimers ==
    ASSUME NEW s \in AgentState, Outcome(s)
    PROVE  /\ \A x \in Kept' : x.timers = s.timers
           /\ \A x \in {state'} \cup staged' : x.timers \in {state.timers, s.timers}
<1>1. CASE Leaves(s)
  BY <1>1, LeavesKept
<1>2. CASE ~Leaves(s)
  <2>1. PICK turn \in QueuedTurn(s) : Starts(turn, s)
    BY <1>2 DEF Outcome
  <2>2. turn \in Turn
    BY <2>1, TurnTypes DEF AgentState
  <2>3. Taken(turn, s).timers = s.timers
    BY <2>2, TakenParts DEF Parts
  <2>4. Leaves(Taken(turn, s))
    BY <2>1 DEF Starts
  <2> QED
    BY <2>3, <2>4, LeavesKept
<1> QED
  BY <1>1, <1>2

\* The end of a run keeps the timers or cancels them.
LEMMA EndTimers ==
    ASSUME NEW s \in AgentState, NEW calls \in SUBSET Call, NEW s1, EndsIn(s, calls, s1)
    PROVE  s1.timers \subseteq s.timers
<1> DEFINE nudged == ApplyReceived(s, NudgeItem(s.nudges))
           told == Contradicted(s, calls)
           logged == Logged(s, <<ResultEntry(calls)>>)
           item == ContradictionItem(told.nudges)
           fixed == Repaired(s)
           kept == Logged(fixed, <<MsgEntry({})>>)
<1>1. /\ nudged \in AgentState /\ told \in AgentState /\ logged \in AgentState
      /\ fixed \in AgentState /\ kept \in AgentState
  <2>1. s.nudges \in Nat
    BY DEF AgentState
  <2>2. nudged \in AgentState
    BY <2>1, NudgeTypes, QueueFoldTypes
  <2>3. logged \in AgentState
    <3>1. <<ResultEntry(calls)>> \in Seq(Entry)
      BY EntryTypes
    <3> QED
      BY <3>1, LoggedType
  <2>4. told \in AgentState
    BY <2>3, QueueFoldTypes DEF Contradicted
  <2>5. fixed \in AgentState
    BY RepairedType
  <2>6. kept \in AgentState
    <3>1. <<MsgEntry({})>> \in Seq(Entry)
      BY EntryTypes
    <3> QED
      BY <2>5, <3>1, LoggedType
  <2> QED
    BY <2>2, <2>3, <2>4, <2>5, <2>6
<1>2. nudged.timers = s.timers /\ ApplyNudged(nudged).timers = s.timers
  BY <1>1, FoldParts DEF Parts
<1>3. logged.timers = s.timers /\ told.timers = s.timers
  <2>1. logged.timers = s.timers
    BY FoldParts DEF Parts
  <2>2. ApplyNudged(logged).timers = logged.timers
    BY <1>1, FoldParts DEF Parts
  <2> QED
    BY <2>1, <2>2 DEF Contradicted
<1>4. ApplyReceived(told, item).timers = s.timers
  <2> HIDE DEF told, item
  <2> QED
    BY <1>1, <1>3, FoldParts DEF Parts
<1>5. fixed.timers = s.timers
  BY FoldParts DEF Parts, Repaired
<1>6. ApplyBoundary(fixed).timers = s.timers /\ ApplyBoundary(kept).timers = s.timers
  <2>1. kept.timers = fixed.timers
    BY <1>1, FoldParts DEF Parts
  <2>2. ApplyBoundary(fixed).timers = fixed.timers /\ ApplyBoundary(kept).timers = kept.timers
    BY <1>1, FoldParts DEF Parts
  <2> QED
    BY <1>5, <2>1, <2>2
<1>7. /\ ApplyParked(s).timers = s.timers /\ ApplyAskRecorded(s, calls).timers = s.timers
      /\ ApplyTimerCancelled(s, s.timers).timers = {}
  BY FoldParts DEF Parts
<1> QED
  BY <1>2, <1>3, <1>4, <1>6, <1>7 DEF EndsIn

\* Nothing is armed, and what sleeps and the wakes in the mail stay; other mail may join.
LEMMA TimersQuiet ==
    ASSUME TypeOK, TimerInv, live, live', sleeps' = sleeps, spent'.armed = spent.armed,
           \/ mailbox' = mailbox
           \/ \E cmd : cmd.kind # "TimerFired" /\ mailbox' = Append(mailbox, cmd)
           \/ mailbox # <<>> /\ Head(mailbox).kind # "TimerFired" /\ mailbox' = Tail(mailbox),
           \A x \in Kept' : \E s \in Kept : x.timers \subseteq s.timers,
           \A x \in {state'} \cup staged' : \E s \in {state} \cup staged : x.timers \subseteq s.timers
    PROVE  TimerInv'
<1>1. ArmedOnce'
  BY DEF TimerInv, ArmedOnce
<1>2. WokenOnce(mailbox)' /\ \A ts : WakeComes(ts, mailbox) => WakeComes(ts, mailbox)'
  <2>1. CASE mailbox' = mailbox
    BY <2>1 DEF TimerInv, WokenOnce, WakeComes, Wakes
  <2>2. CASE \E cmd : cmd.kind # "TimerFired" /\ mailbox' = Append(mailbox, cmd)
    <3>1. PICK cmd : cmd.kind # "TimerFired" /\ mailbox' = Append(mailbox, cmd)
      BY <2>2
    <3>2. /\ Len(mailbox') = Len(mailbox) + 1 /\ Len(mailbox) \in Nat
          /\ mailbox'[Len(mailbox')] = cmd
          /\ \A i \in 1..Len(mailbox) : i \in 1..Len(mailbox') /\ mailbox'[i] = mailbox[i]
          /\ \A i \in 1..Len(mailbox') : i \in 1..Len(mailbox) \/ i = Len(mailbox')
      BY <3>1, MailPosted
    <3> QED
      BY <3>1, <3>2 DEF TimerInv, WokenOnce, WakeComes, Wakes
  <2>3. CASE mailbox # <<>> /\ Head(mailbox).kind # "TimerFired" /\ mailbox' = Tail(mailbox)
    <3>1. /\ Len(mailbox) \in Nat /\ Len(mailbox') = Len(mailbox) - 1
          /\ Head(mailbox) = mailbox[1]
          /\ \A i \in 1..Len(mailbox') : i + 1 \in 1..Len(mailbox) /\ mailbox'[i] = mailbox[i + 1]
          /\ \A i \in 1..Len(mailbox) : i # 1 => i - 1 \in 1..Len(mailbox')
                                                 /\ mailbox'[i - 1] = mailbox[i]
      BY <2>3 DEF TypeOK
    <3>2. ASSUME NEW i \in 1..Len(mailbox'), mailbox'[i].kind = "TimerFired"
          PROVE  /\ mailbox'[i].timer \in spent.armed
                 /\ mailbox'[i].timer \notin sleeps
                 /\ \A j \in 1..Len(mailbox') : Wakes(mailbox', j, mailbox'[i].timer) => j = i
      <4>1. i + 1 \in 1..Len(mailbox) /\ mailbox[i + 1].kind = "TimerFired"
        BY <3>1, <3>2
      <4>2. ASSUME NEW j \in 1..Len(mailbox'), Wakes(mailbox', j, mailbox'[i].timer) PROVE j = i
        <5>1. j + 1 \in 1..Len(mailbox) /\ Wakes(mailbox, j + 1, mailbox[i + 1].timer)
          BY <3>1, <4>2 DEF Wakes
        <5>2. j + 1 = i + 1
          BY <4>1, <5>1 DEF TimerInv, WokenOnce
        <5> QED
          BY <5>2
      <4> QED
        BY <3>1, <4>1, <4>2 DEF TimerInv, WokenOnce
    <3>3. ASSUME NEW ts, WakeComes(ts, mailbox) PROVE WakeComes(ts, mailbox)'
      <4>1. ASSUME NEW t \in ts, NEW i \in 1..Len(mailbox), Wakes(mailbox, i, t)
            PROVE  \E k \in 1..Len(mailbox') : Wakes(mailbox', k, t)
        <5>1. i - 1 \in 1..Len(mailbox') /\ mailbox'[i - 1] = mailbox[i]
          BY <2>3, <3>1, <4>1 DEF Wakes
        <5> QED
          BY <4>1, <5>1 DEF Wakes
      <4> QED
        BY <3>3, <4>1 DEF WakeComes
    <3> QED
      BY <3>2, <3>3 DEF WokenOnce
  <2> QED
    BY <2>1, <2>2, <2>3
<1>3. \A x \in Kept' : WakeComes(x.timers, mailbox)'
  <2>1. ASSUME NEW x \in Kept' PROVE WakeComes(x.timers, mailbox)'
    <3>1. PICK s \in Kept : x.timers \subseteq s.timers
      OBVIOUS
    <3>2. WakeComes(x.timers, mailbox)
      BY <3>1 DEF TimerInv, WakeComes
    <3> QED
      BY <1>2, <3>2
  <2> QED
    BY <2>1
<1> QED
  BY <1>1, <1>2, <1>3 DEF TimerInv

\* A step of a run task arms nothing and ends no sleep.
LEMMA TimersTask ==
    ASSUME TypeOK, RunInv, TimerInv, NEW r \in runs,
           RunInner(r) \/ RunOuter(r) \/ Summarise(r)
    PROVE  TimerInv'
<1>1. UNCHANGED <<live, state, staged, sleeps, spent>>
  BY DEF RunInner, RunOuter, Summarise, Provide, ProvideCancelled, Loop, Act, ToolResult,
     ToolStops, ToolsDone, LoopCancelled, Ended, RunQuiet, durable
<1>2. live
  BY DEF RunInv, Gone
<1>3. mailbox' = mailbox \/ \E cmd : cmd.kind # "TimerFired" /\ mailbox' = Append(mailbox, cmd)
  BY TaskStep DEF GoesOn, IsOver
<1>4. Kept' = Kept
  BY <1>1 DEF Kept
<1> QED
  BY <1>1, <1>2, <1>3, <1>4, TimersQuiet

\* A handler that leaves the timers of s, a part of those the journal holds.
LEMMA TimersServed ==
    ASSUME TypeOK, TimerInv, Serving, live', sleeps' = sleeps, spent'.armed = spent.armed,
           \/ mailbox' = mailbox
           \/ mailbox # <<>> /\ Head(mailbox).kind # "TimerFired" /\ mailbox' = Tail(mailbox),
           NEW s \in AgentState, Outcome(s) \/ Leaves(s), s.timers \subseteq state.timers
    PROVE  TimerInv'
<1>1. Outcome(s) => /\ \A x \in Kept' : x.timers = s.timers
                    /\ \A x \in {state'} \cup staged' : x.timers \in {state.timers, s.timers}
  BY OutcomeTimers
<1>2. Leaves(s) => Kept' = {s} /\ state' \in {state, s} /\ staged' \subseteq {s}
  BY LeavesKept
<1>3. Kept = {state} /\ live
  BY DEF Serving, Kept
<1>4. \A x \in Kept' : \E y \in Kept : x.timers \subseteq y.timers
  BY <1>1, <1>2, <1>3
<1>5. \A x \in {state'} \cup staged' : \E y \in {state} \cup staged : x.timers \subseteq y.timers
  BY <1>1, <1>2
<1> QED
  BY <1>3, <1>4, <1>5, TimersQuiet

\* The wake of a timer is taken: one that is armed and recurring sleeps again, one that
\* is not recurring is armed no more.
LEMMA TimersFired ==
    ASSUME TypeOK, RunInv, TimerInv, TimerFired
    PROVE  TimerInv'
<1> DEFINE t == Head(mailbox).timer
           fired == ApplyReceived(ApplyTimerFired(state, t), TimerItem(t, state.fires[t] + 1))
<1>1. /\ Serving /\ mailbox # <<>> /\ Head(mailbox).kind = "TimerFired"
      /\ mailbox' = Tail(mailbox) /\ live' = live /\ spent' = spent
  BY DEF TimerFired, Receive
<1>2. t \in Timers
  BY <1>1, ReceiveType, CommandFields DEF Receive
<1>3. live /\ Kept = {state}
  BY <1>1 DEF Serving, Kept
<1>4. /\ Len(mailbox) \in Nat /\ Len(mailbox') = Len(mailbox) - 1
      /\ Head(mailbox) = mailbox[1] /\ 1 \in 1..Len(mailbox)
      /\ \A i \in 1..Len(mailbox') : i + 1 \in 1..Len(mailbox) /\ mailbox'[i] = mailbox[i + 1]
      /\ \A i \in 1..Len(mailbox) : i # 1 => i - 1 \in 1..Len(mailbox')
                                             /\ mailbox'[i - 1] = mailbox[i]
  BY <1>1 DEF TypeOK
<1>5. /\ t \in spent.armed
      /\ \A j \in 1..Len(mailbox) : Wakes(mailbox, j, t) => j = 1
  BY <1>1, <1>4 DEF TimerInv, WokenOnce
<1>6. \A i \in 1..Len(mailbox') : ~Wakes(mailbox', i, t)
  <2>1. ASSUME NEW i \in 1..Len(mailbox'), Wakes(mailbox', i, t) PROVE FALSE
    <3>1. i + 1 \in 1..Len(mailbox) /\ Wakes(mailbox, i + 1, t)
      BY <1>4, <2>1 DEF Wakes
    <3>2. i + 1 = 1
      BY <1>5, <3>1
    <3> QED
      BY <1>4, <3>2
  <2> QED
    BY <2>1
<1>7. /\ sleeps' \in {sleeps, sleeps \cup {t}}
      /\ t \in state.timers /\ t \in Recurring => t \in sleeps'
      /\ t \notin Recurring => sleeps' = sleeps
  BY DEF TimerFired
<1>8. WokenOnce(mailbox)'
  <2>1. ASSUME NEW i \in 1..Len(mailbox'), mailbox'[i].kind = "TimerFired"
        PROVE  /\ mailbox'[i].timer \in spent.armed
               /\ mailbox'[i].timer \notin sleeps'
               /\ \A j \in 1..Len(mailbox') : Wakes(mailbox', j, mailbox'[i].timer) => j = i
    <3>1. i + 1 \in 1..Len(mailbox) /\ mailbox[i + 1].kind = "TimerFired"
      BY <1>4, <2>1
    <3>2. mailbox'[i].timer # t
      BY <1>6, <2>1 DEF Wakes
    <3>3. ASSUME NEW j \in 1..Len(mailbox'), Wakes(mailbox', j, mailbox'[i].timer) PROVE j = i
      <4>1. j + 1 \in 1..Len(mailbox) /\ Wakes(mailbox, j + 1, mailbox[i + 1].timer)
        BY <1>4, <3>3 DEF Wakes
      <4>2. j + 1 = i + 1
        BY <3>1, <4>1 DEF TimerInv, WokenOnce
      <4> QED
        BY <4>2
    <3> QED
      BY <1>4, <1>7, <3>1, <3>2, <3>3 DEF TimerInv, WokenOnce
  <2> QED
    BY <1>1, <2>1 DEF WokenOnce
<1>9. ASSUME NEW u \in state.timers, u # t
      PROVE  u \in sleeps' \/ \E i \in 1..Len(mailbox') : Wakes(mailbox', i, u)
  <2>1. u \in sleeps \/ \E i \in 1..Len(mailbox) : Wakes(mailbox, i, u)
    BY <1>3 DEF TimerInv, WakeComes
  <2>2. CASE u \in sleeps
    BY <1>7, <2>2
  <2>3. CASE \E i \in 1..Len(mailbox) : Wakes(mailbox, i, u)
    <3>1. PICK i \in 1..Len(mailbox) : Wakes(mailbox, i, u)
      BY <2>3
    <3>2. i # 1
      BY <1>4, <1>9, <3>1 DEF Wakes
    <3>3. i - 1 \in 1..Len(mailbox') /\ Wakes(mailbox', i - 1, u)
      BY <1>4, <3>1, <3>2 DEF Wakes
    <3> QED
      BY <3>3
  <2> QED
    BY <2>1, <2>2, <2>3
<1>10. CASE t \in state.timers
  <2>1. /\ fired \in AgentState
        /\ fired.timers = IF t \in Recurring THEN state.timers ELSE state.timers \ {t}
    <3> DEFINE s1 == ApplyTimerFired(state, t)
    <3>1. state \in AgentState
      BY DEF TypeOK
    <3>2. s1 \in AgentState
      BY <1>2, <3>1, TimerFoldTypes
    <3>3. s1.timers = IF t \in Recurring THEN state.timers ELSE state.timers \ {t}
      <4>1. Parts(s1, state.inbox, state.asks,
                  IF t \in Recurring THEN state.timers ELSE state.timers \ {t}, state.log)
        BY <3>1, FoldParts
      <4> QED
        BY <4>1 DEF Parts
    <3>4. TimerItem(t, state.fires[t] + 1) \in Item
      BY <1>2, <3>1, ItemTypes DEF AgentState
    <3> HIDE DEF s1
    <3>5. \A item \in Item : ApplyReceived(s1, item) \in AgentState
      BY <3>2, QueueFoldTypes
    <3>6. \A item : ApplyReceived(s1, item).timers = s1.timers
      BY <3>2, FoldParts DEF Parts
    <3> QED
      BY <3>3, <3>4, <3>5, <3>6 DEF s1
  <2>2. Outcome(fired)
    <3>1. TryDrain([Here EXCEPT !.state = fired])
      BY <1>10 DEF TimerFired
    <3>2. [Here EXCEPT !.state = fired].state = fired
      BY HereType DEF Handled
    <3> HIDE DEF fired
    <3> QED
      BY <3>1, <3>2, TryDrainOutcome
  <2>3. PICK ts : ts = IF t \in Recurring THEN state.timers ELSE state.timers \ {t}
    OBVIOUS
  <2> HIDE DEF fired
  <2>4. /\ \A x \in Kept' : x.timers = ts
        /\ \A x \in {state'} \cup staged' : x.timers \in {state.timers, ts}
    BY <2>1, <2>2, <2>3, OutcomeTimers
  <2>5. WakeComes(ts, mailbox)'
    BY <1>7, <1>9, <1>10, <2>3 DEF WakeComes
  <2>6. ArmedOnce'
    BY <1>1, <1>5, <1>7, <2>3, <2>4 DEF TimerInv, ArmedOnce
  <2>7. \A x \in Kept' : WakeComes(x.timers, mailbox)'
    BY <2>4, <2>5
  <2> QED
    BY <1>1, <1>3, <1>8, <2>6, <2>7 DEF TimerInv
<1>11. CASE t \notin state.timers
  <2>1. UNCHANGED <<state, staged, sleeps>>
    BY <1>11 DEF TimerFired, durable
  <2>2. Kept' = {state}
    BY <1>3, <2>1 DEF Kept
  <2>3. WakeComes(state.timers, mailbox)'
    BY <1>9, <1>11, <2>1 DEF WakeComes
  <2>4. ArmedOnce'
    BY <1>1, <2>1 DEF TimerInv, ArmedOnce
  <2>5. \A x \in Kept' : WakeComes(x.timers, mailbox)'
    BY <2>1, <2>2, <2>3
  <2> QED
    BY <1>1, <1>3, <1>8, <2>4, <2>5 DEF TimerInv
<1> QED
  BY <1>10, <1>11

\* A handled command keeps the wakes.
LEMMA TimersCommand ==
    ASSUME TypeOK, RunInv, TimerInv, MailOfRun(mailbox), HandleCommand
    PROVE  TimerInv'
<1> DEFINE cmd == Head(mailbox)
<1>1. state \in AgentState /\ Here \in Handled /\ Here.state = state
  BY HereType DEF TypeOK, Here
<1>2. ASSUME NEW kind, kind # "TimerFired", Receive(kind), live' = live, sleeps' = sleeps,
             spent' = spent, NEW s \in AgentState, Outcome(s) \/ Leaves(s),
             s.timers \subseteq state.timers
      PROVE  TimerInv'
  BY <1>2, TimersServed DEF Receive, Serving
<1>3. CASE Drain
  <2>1. Outcome(state)
    BY <1>1, <1>3, TryDrainOutcome DEF Drain
  <2> QED
    BY <1>1, <1>2, <1>3, <2>1 DEF Drain
<1>4. CASE StartPrepared
  <2>1. cmd.turn \in Turn
    BY <1>4, ReceiveType, CommandFields DEF StartPrepared
  <2>2. CASE cmd.abandon
    <3>1. Leaves(state)
      BY <1>4, <2>2 DEF StartPrepared, durable, Leaves, Receive, Serving
    <3> QED
      BY <1>1, <1>2, <1>4, <3>1 DEF StartPrepared
  <2>3. CASE ~cmd.abandon
    <3> DEFINE s == ApplyTurnInput(state, cmd.turn)
    <3>1. s \in AgentState /\ s.timers = state.timers
      BY <1>1, <2>1, TurnInputParts DEF Parts
    <3>2. Leaves(s)
      BY <1>4, <2>3, WriteLeaves DEF StartPrepared
    <3> HIDE DEF s
    <3> QED
      BY <1>2, <1>4, <3>1, <3>2 DEF StartPrepared
  <2> QED
    BY <2>2, <2>3
<1>5. CASE PersistProgress
  <2> DEFINE s == ApplyProgress(state, cmd.ev, cmd.calls)
  <2>1. cmd.calls \in SUBSET Call
    BY <1>5, ReceiveType, CommandFields DEF PersistProgress
  <2>2. s.timers = state.timers
    BY <1>1, FoldParts DEF Parts, ApplyProgress
  <2>3. Leaves(s) /\ Receive("PersistProgress")
    BY <1>5 DEF PersistProgress, Leaves, Receive, Serving
  <2>4. s \in AgentState
    <3>1. \A entry \in Entry : <<entry>> \in Seq(Entry)
      OBVIOUS
    <3>2. <<>> \in Seq(Entry)
      OBVIOUS
    <3> QED
      BY <1>1, <2>1, <3>1, <3>2, EntryTypes, LoggedType, QueueFoldTypes DEF ApplyProgress
  <2> HIDE DEF s
  <2> QED
    BY <1>2, <1>5, <2>2, <2>3, <2>4 DEF PersistProgress, ghosts
<1>6. CASE TimerFired
  BY <1>6, TimersFired
<1>7. CASE RunFinished
  <2>1. Receive("RunFinished") /\ cmd.run \in running
    BY <1>7, ReportIsLast DEF RunFinished
  <2>2. cmd.calls \in SUBSET Call /\ cmd.outcome \in RunOutcome
    BY <2>1, ReceiveType, CommandFields
  <2> DEFINE h == [Here EXCEPT !.running = {}]
  <2>3. Finishes(h, cmd.calls)
    BY <1>7, <2>1, <2>2 DEF RunFinished, HandleFinished, Finishes, RunOutcome
  <2>4. h \in Handled /\ h.state = state
    BY <1>1 DEF Handled
  <2> HIDE DEF h
  <2>5. PICK s : EndsIn(state, cmd.calls, s) /\ Outcome(s)
    BY <2>2, <2>3, <2>4, FinishOutcome DEF EndLeaves
  <2>6. s \in AgentState /\ s.timers \subseteq state.timers
    BY <1>1, <2>2, <2>5, EndsInType, EndTimers
  <2> QED
    BY <1>2, <1>7, <2>1, <2>5, <2>6 DEF RunFinished
<1> QED
  BY <1>3, <1>4, <1>5, <1>6, <1>7 DEF HandleCommand

\* A command that is not a wake adds none.
LEMMA TimersOutside ==
    ASSUME TypeOK, RunInv, TimerInv, Outside
    PROVE  TimerInv'
<1>1. state \in AgentState /\ Here \in Handled /\ Here.state = state
  BY HereType DEF TypeOK, Here
<1>2. Serving => live /\ Kept = {state} /\ staged = {}
  BY DEF Serving, Kept
<1>3. ASSUME NEW s \in AgentState, Serving, Outcome(s) \/ Leaves(s), s.timers \subseteq state.timers,
             live' = live, mailbox' = mailbox, sleeps' = sleeps, spent'.armed = spent.armed
      PROVE  TimerInv'
  BY <1>2, <1>3, TimersServed
<1>4. ASSUME NEW s, Serving, s.timers = state.timers, state' = s, staged' = staged, live' = live,
             sleeps' = sleeps, spent' = spent,
             \/ mailbox' = mailbox
             \/ \E cmd : cmd.kind # "TimerFired" /\ mailbox' = Append(mailbox, cmd)
      PROVE  TimerInv'
  <2>1. Kept' = {s} /\ Kept = {state} /\ {state'} \cup staged' = {s} /\ {state} \cup staged = {state}
    BY <1>2, <1>4 DEF Kept
  <2>2. \A x \in Kept' : \E y \in Kept : x.timers \subseteq y.timers
    BY <1>4, <2>1
  <2>3. \A x \in {state'} \cup staged' : \E y \in {state} \cup staged : x.timers \subseteq y.timers
    BY <1>4, <2>1
  <2> QED
    BY <1>2, <1>4, <2>2, <2>3, TimersQuiet
<1>5. ASSUME NEW item \in Incoming, Enqueue(item) PROVE TimerInv'
  <2> DEFINE s == ApplyReceived(state, item)
             cmd == [kind |-> "Drain"]
  <2>1. s.timers = state.timers
    BY <1>1, FoldParts DEF Parts
  <2>2. cmd.kind # "TimerFired"
    OBVIOUS
  <2>3. /\ Serving /\ state' = s /\ mailbox' = Append(mailbox, cmd)
        /\ UNCHANGED <<staged, live, sleeps, spent>>
    BY <1>5 DEF Enqueue
  <2> HIDE DEF s, cmd
  <2> QED
    BY <1>4, <2>1, <2>2, <2>3
<1>6. ASSUME NEW answers \in SUBSET state.asks, Answer(answers) PROVE TimerInv'
  <2>1. PICK turn \in AnsweredTurn(state, answers) : BeginTurn(turn, Here)
    BY <1>6 DEF Answer
  <2>2. Starts(turn, state)
    BY <1>1, <2>1, BeginTurnStarts
  <2>3. turn \in Turn /\ answers \in SUBSET Call
    <3>1. state.asks \in SUBSET Call
      BY <1>1 DEF AgentState
    <3> QED
      BY <1>1, <2>1, <3>1 DEF AnsweredTurn, Turn, AgentState
  <2>4. Taken(turn, state) \in AgentState /\ Taken(turn, state).timers = state.timers
    BY <1>1, <2>3, TakenParts DEF Parts
  <2>5. Leaves(Taken(turn, state))
    BY <2>2 DEF Starts
  <2>6. /\ Serving /\ UNCHANGED <<live, mailbox, sleeps>> /\ spent'.armed = spent.armed
    <3>1. spent' = [spent EXCEPT !.answered = @ \cup answers]
      BY <1>6 DEF Answer
    <3>2. spent'.armed = spent.armed
      BY <3>1 DEF TypeOK
    <3> QED
      BY <1>6, <3>2 DEF Answer
  <2> QED
    BY <1>3, <2>4, <2>5, <2>6
<1>7. CASE Cancel
  <2>1. spent'.armed = spent.armed
    <3>1. spent' = [spent EXCEPT !.cancels = spent.cancels + 1]
      BY <1>7 DEF Cancel
    <3> QED
      BY <3>1 DEF TypeOK
  <2>2. Serving /\ UNCHANGED <<durable, live, mailbox, sleeps>>
    BY <1>7 DEF Cancel
  <2>3. Leaves(state)
    BY <1>2, <2>2 DEF Leaves, durable
  <2> QED
    BY <1>1, <1>3, <2>1, <2>2, <2>3
<1>8. ASSUME NEW next \in BOOLEAN, RecordRuntime(next) PROVE TimerInv'
  <2> DEFINE s == ApplyLifecycle(state, state.children)
             h == [Here EXCEPT !.state = s, !.ready = next]
  <2>1. s \in AgentState /\ s.timers = state.timers
    <3>1. state.children \in Nat
      BY <1>1 DEF AgentState
    <3>2. s \in AgentState
      BY <1>1, <3>1, QueueFoldTypes
    <3>3. s.timers = state.timers
      BY <1>1, FoldParts DEF Parts
    <3> QED
      BY <3>2, <3>3
  <2>2. h.state = s
    BY <1>1 DEF Handled
  <2>3. TryDrain(h) /\ Serving /\ UNCHANGED <<live, mailbox, sleeps>>
    BY <1>8 DEF RecordRuntime
  <2>4. spent'.armed = spent.armed
    <3>1. spent' = [spent EXCEPT !.flips = spent.flips + 1]
      BY <1>8 DEF RecordRuntime
    <3> QED
      BY <3>1 DEF TypeOK
  <2> HIDE DEF s, h
  <2>5. Outcome(s)
    BY <2>2, <2>3, TryDrainOutcome
  <2> QED
    BY <1>3, <2>1, <2>3, <2>4, <2>5
<1>9. ASSUME NEW children \in 0..MaxChildren, RecordChild(children) PROVE TimerInv'
  <2> DEFINE s == ApplyLifecycle(state, children)
  <2>1. s.timers = state.timers
    BY <1>1, FoldParts DEF Parts
  <2>2. Serving /\ state' = s /\ UNCHANGED <<staged, live, mailbox, sleeps, spent>>
    BY <1>9 DEF RecordChild, tasks, ghosts
  <2> HIDE DEF s
  <2> QED
    BY <1>4, <2>1, <2>2
<1>10. ASSUME NEW t \in Timers, ArmTimer(t) PROVE TimerInv'
  <2>1. /\ Serving /\ t \notin spent.armed /\ sleeps' = sleeps \cup {t}
        /\ UNCHANGED <<staged, live, mailbox>>
    BY <1>10 DEF ArmTimer
  <2>2. spent'.armed = spent.armed \cup {t}
    <3>1. spent' = [spent EXCEPT !.armed = spent.armed \cup {t}]
      BY <1>10 DEF ArmTimer
    <3> QED
      BY <3>1 DEF TypeOK
  <2>3. PICK ts : ts = state'.timers
    OBVIOUS
  <2>4. ts = state.timers \cup {t}
    <3>1. ApplyTimerArmed(state, t).timers = state.timers \cup {t}
      BY <1>1, FoldParts DEF Parts
    <3>2. state' = ApplyTimerArmed(state, t)
      BY <1>10 DEF ArmTimer
    <3> QED
      BY <2>3, <3>1, <3>2
  <2>5. Kept' = {state'} /\ staged' = {}
    BY <1>2, <2>1 DEF Kept
  <2>6. ArmedOnce'
    BY <2>1, <2>2, <2>3, <2>4, <2>5 DEF TimerInv, ArmedOnce
  <2>7. WokenOnce(mailbox)'
    BY <2>1, <2>2 DEF TimerInv, WokenOnce
  <2>8. WakeComes(state.timers, mailbox)
    BY <1>2, <2>1 DEF TimerInv
  <2>9. WakeComes(ts, mailbox)'
    BY <2>1, <2>4, <2>8 DEF WakeComes
  <2>10. \A x \in Kept' : WakeComes(x.timers, mailbox)'
    BY <2>3, <2>5, <2>9
  <2> QED
    BY <2>5, <2>6, <2>7, <2>10 DEF TimerInv
<1>11. ASSUME NEW ts \in SUBSET Timers, CancelTimer(ts) PROVE TimerInv'
  <2> DEFINE s == ApplyTimerCancelled(state, ts)
  <2>1. s \in AgentState /\ s.timers \subseteq state.timers
    <3>1. s.timers = state.timers \ ts
      BY <1>1, FoldParts DEF Parts
    <3>2. s \in AgentState
      BY <1>1 DEF ApplyTimerCancelled, AgentState
    <3> QED
      BY <3>1, <3>2
  <2>2. Serving /\ state' = s /\ UNCHANGED <<staged, live, mailbox, sleeps, spent>>
    BY <1>11 DEF CancelTimer, tasks, ghosts
  <2> HIDE DEF s
  <2>3. Leaves(s)
    BY <1>2, <2>2 DEF Leaves
  <2> QED
    BY <1>3, <2>1, <2>2, <2>3
<1>12. CASE Unload
  <2>1. /\ ~live' /\ staged' = {} /\ state' = state /\ sleeps' = {} /\ Len(mailbox') = 0
        /\ spent'.armed = spent.armed
    <3>1. spent' = [spent EXCEPT !.crashes = spent.crashes + 1]
      BY <1>12 DEF Unload
    <3>2. spent'.armed = spent.armed
      BY <3>1 DEF TypeOK
    <3> QED
      BY <1>12, <3>2 DEF Unload
  <2>2. ArmedOnce'
    BY <2>1 DEF TimerInv, ArmedOnce
  <2>3. WokenOnce(mailbox)'
    BY <2>1 DEF WokenOnce
  <2> QED
    BY <2>1, <2>2, <2>3 DEF TimerInv
<1>13. ASSUME NEW isReady \in BOOLEAN, Load(isReady) PROVE TimerInv'
  <2> DEFINE cmd == [kind |-> "PersistProgress", run |-> {}, ev |-> "repair",
                     calls |-> MissingResults(state)]
  <2>1. cmd.kind # "TimerFired"
    OBVIOUS
  <2>2. mailbox' = <<>> \/ mailbox' = <<cmd>>
    BY <1>13 DEF Load
  <2> HIDE DEF cmd
  <2>3. \A i \in 1..Len(mailbox') : mailbox'[i].kind # "TimerFired"
    BY <2>1, <2>2
  <2>4. ~live /\ live' /\ sleeps' = state.timers /\ UNCHANGED <<state, staged, spent>>
    BY <1>13 DEF Load, durable
  <2>5. staged = {}
    BY <2>4 DEF TimerInv
  <2>6. ArmedOnce'
    BY <2>4 DEF TimerInv, ArmedOnce
  <2>7. WokenOnce(mailbox)'
    BY <2>3 DEF WokenOnce
  <2>8. Kept' = {state}
    BY <2>4, <2>5 DEF Kept
  <2>9. PICK ts : ts = state.timers
    OBVIOUS
  <2>10. WakeComes(ts, mailbox)'
    BY <2>4, <2>9 DEF WakeComes
  <2>11. \A x \in Kept' : WakeComes(x.timers, mailbox)'
    BY <2>8, <2>9, <2>10
  <2> QED
    BY <2>4, <2>6, <2>7, <2>11 DEF TimerInv
<1> QED
  BY <1>5, <1>6, <1>7, <1>8, <1>9, <1>10, <1>11, <1>12, <1>13 DEF Outside

\* Every step keeps it.
LEMMA TimersStep ==
    ASSUME TypeOK, RunInv, TimerInv, MailOfRun(mailbox), [Next]_vars
    PROVE  TimerInv'
<1>1. CASE Persist
  <2>1. /\ staged # {} /\ state' \in staged /\ staged' = {}
        /\ UNCHANGED <<live, mailbox, sleeps, spent>>
    BY <1>1 DEF Persist, tasks, ghosts
  <2>2. Kept = staged /\ Kept' = {state'} /\ live
    BY <2>1 DEF Kept, TimerInv
  <2>3. \A x \in Kept' : \E s \in Kept : x.timers \subseteq s.timers
    BY <2>1, <2>2
  <2>4. \A x \in {state'} \cup staged' : \E s \in {state} \cup staged : x.timers \subseteq s.timers
    BY <2>1
  <2> QED
    BY <2>1, <2>2, <2>3, <2>4, TimersQuiet
<1>2. ASSUME NEW turn \in preps, NEW abandon \in BOOLEAN, PrepareEnds(turn, abandon)
      PROVE  TimerInv'
  <2> DEFINE cmd == [kind |-> "StartPrepared", turn |-> turn, abandon |-> abandon]
  <2>1. cmd.kind # "TimerFired" /\ mailbox' = Append(mailbox, cmd)
        /\ UNCHANGED <<state, staged, live, sleeps, spent>>
    BY <1>2 DEF PrepareEnds, durable, ghosts
  <2> HIDE DEF cmd
  <2>2. live /\ Kept' = Kept
    BY <1>2, <2>1 DEF RunInv, Gone, Kept
  <2> QED
    BY <2>1, <2>2, TimersQuiet
<1>3. ASSUME NEW t \in sleeps, SleepEnds(t) PROVE TimerInv'
  <2> DEFINE cmd == [kind |-> "TimerFired", timer |-> t]
  <2>1. /\ cmd.kind = "TimerFired" /\ cmd.timer = t /\ mailbox' = Append(mailbox, cmd)
        /\ sleeps' = sleeps \ {t} /\ UNCHANGED <<state, staged, live, spent>>
    BY <1>3 DEF SleepEnds, durable, ghosts
  <2> HIDE DEF cmd
  <2>2. /\ Len(mailbox') = Len(mailbox) + 1 /\ Len(mailbox) \in Nat
        /\ mailbox'[Len(mailbox')] = cmd
        /\ \A i \in 1..Len(mailbox) : i \in 1..Len(mailbox') /\ mailbox'[i] = mailbox[i]
        /\ \A i \in 1..Len(mailbox') : i \in 1..Len(mailbox) \/ i = Len(mailbox')
    BY <2>1, MailPosted
  <2>3. live /\ Kept' = Kept
    BY <2>1 DEF RunInv, Gone, Kept
  <2>4. ArmedOnce'
    BY <2>1 DEF TimerInv, ArmedOnce
  <2>5. \A i \in 1..Len(mailbox) : mailbox[i].kind = "TimerFired" => mailbox[i].timer # t
    BY DEF TimerInv, WokenOnce
  <2>6. WokenOnce(mailbox)'
    <3>1. ASSUME NEW i \in 1..Len(mailbox'), mailbox'[i].kind = "TimerFired"
          PROVE  /\ mailbox'[i].timer \in spent.armed
                 /\ mailbox'[i].timer \notin sleeps'
                 /\ \A j \in 1..Len(mailbox') : Wakes(mailbox', j, mailbox'[i].timer) => j = i
      <4>1. CASE i \in 1..Len(mailbox)
        <5>1. mailbox[i].kind = "TimerFired" /\ mailbox'[i] = mailbox[i] /\ mailbox[i].timer # t
          BY <2>2, <2>5, <3>1, <4>1
        <5>2. /\ mailbox[i].timer \in spent.armed /\ mailbox[i].timer \notin sleeps
              /\ \A j \in 1..Len(mailbox) : Wakes(mailbox, j, mailbox[i].timer) => j = i
          BY <4>1, <5>1 DEF TimerInv, WokenOnce
        <5> QED
          BY <2>1, <2>2, <5>1, <5>2 DEF Wakes
      <4>2. CASE i = Len(mailbox')
        <5>1. mailbox'[i].timer = t
          BY <2>1, <2>2, <4>2
        <5>2. t \in spent.armed
          BY DEF TimerInv, ArmedOnce
        <5>3. ASSUME NEW j \in 1..Len(mailbox'), Wakes(mailbox', j, t) PROVE j = i
          <6>1. j \notin 1..Len(mailbox)
            BY <2>2, <2>5, <5>3 DEF Wakes
          <6> QED
            BY <2>2, <4>2, <6>1
        <5> QED
          BY <2>1, <5>1, <5>2, <5>3
      <4> QED
        BY <2>2, <4>1, <4>2
    <3>2. spent' = spent
      BY <2>1
    <3> QED
      BY <3>1, <3>2 DEF WokenOnce
  <2>7. ASSUME NEW ts, WakeComes(ts, mailbox) PROVE WakeComes(ts, mailbox)'
    <3>1. Len(mailbox') \in 1..Len(mailbox') /\ Wakes(mailbox', Len(mailbox'), t)
      BY <2>1, <2>2 DEF Wakes
    <3>2. \A u \in ts : u \in sleeps \/ \E i \in 1..Len(mailbox) : Wakes(mailbox, i, u)
      BY <2>7 DEF WakeComes
    <3>3. \A u : u \in sleeps => u \in sleeps' \/ u = t
      BY <2>1
    <3>4. \A u : \A i \in 1..Len(mailbox) : Wakes(mailbox, i, u) =>
                     i \in 1..Len(mailbox') /\ Wakes(mailbox', i, u)
      BY <2>2 DEF Wakes
    <3> QED
      BY <3>1, <3>2, <3>3, <3>4 DEF WakeComes
  <2>8. \A x \in Kept' : WakeComes(x.timers, mailbox)'
    <3>1. ASSUME NEW x \in Kept' PROVE WakeComes(x.timers, mailbox)'
      <4>1. WakeComes(x.timers, mailbox)
        BY <2>3, <3>1 DEF TimerInv
      <4> QED
        BY <2>7, <4>1
    <3> QED
      BY <3>1
  <2> QED
    BY <2>1, <2>3, <2>4, <2>6, <2>8 DEF TimerInv
<1>4. CASE UNCHANGED vars
  <2>1. UNCHANGED <<state, staged, live, mailbox, sleeps, spent>>
    BY <1>4 DEF vars, durable, tasks, ghosts
  <2> QED
    BY <2>1 DEF TimerInv, ArmedOnce, WokenOnce, WakeComes, Kept
<1>5. ASSUME NEW r \in runs, RunInner(r) \/ RunOuter(r) \/ Summarise(r) PROVE TimerInv'
  BY <1>5, TimersTask
<1> QED
  BY <1>1, <1>2, <1>3, <1>4, <1>5, TimersOutside, TimersCommand DEF Next, Inside

\* In a state the invariant describes, an armed timer has exactly one wake coming.
LEMMA OneWake ==
    ASSUME TypeOK, TimerInv
    PROVE  TimersKeepPromise
<1> SUFFICES ASSUME Serving, NEW t \in state.timers
             PROVE  LET due == {i \in DOMAIN mailbox :
                                  mailbox[i] = [kind |-> "TimerFired", timer |-> t]}
                    IN  IF t \in sleeps THEN due = {} ELSE Cardinality(due) = 1
  BY DEF TimersKeepPromise
<1> DEFINE due == {i \in DOMAIN mailbox : mailbox[i] = [kind |-> "TimerFired", timer |-> t]}
<1>1. DOMAIN mailbox = 1..Len(mailbox) /\ \A i \in 1..Len(mailbox) : mailbox[i] \in Command
  BY DEF TypeOK
<1>2. \A i \in 1..Len(mailbox) : i \in due <=> Wakes(mailbox, i, t)
  <2>1. ASSUME NEW i \in 1..Len(mailbox), Wakes(mailbox, i, t)
        PROVE  mailbox[i] = [kind |-> "TimerFired", timer |-> t]
    <3>1. mailbox[i] \in [kind : {"TimerFired"}, timer : Timers]
      BY <1>1, <2>1 DEF Wakes, Command
    <3> QED
      BY <2>1, <3>1 DEF Wakes
  <2> QED
    BY <1>1, <2>1 DEF Wakes
<1>3. CASE t \in sleeps
  <2>1. due = {}
    BY <1>1, <1>2, <1>3 DEF TimerInv, WokenOnce, Wakes
  <2> QED
    BY <1>3, <2>1
<1>4. CASE t \notin sleeps
  <2>1. Kept = {state} /\ live
    BY DEF Serving, Kept
  <2>2. PICK i \in 1..Len(mailbox) : Wakes(mailbox, i, t)
    BY <1>4, <2>1 DEF TimerInv, WakeComes
  <2>3. \A j \in 1..Len(mailbox) : Wakes(mailbox, j, t) => j = i
    BY <2>2 DEF TimerInv, WokenOnce, Wakes
  <2>4. due = {i}
    BY <1>1, <1>2, <2>2, <2>3
  <2> HIDE DEF due
  <2>5. Cardinality(due) = 1
    BY <2>4, FS_Singleton
  <2> QED
    BY <1>4, <2>5 DEF due
<1> QED
  BY <1>3, <1>4

\* A timer once armed is neither forgotten nor fired twice, whichever of its sleep, its
\* fire, a cancel, a re-arm, a crash and a recovery comes first (spawn_timer_sleep,
\* handle_timer_fired, Timers::on_load).
THEOREM TimersAreKept == Spec => []TimersKeepPromise
<1>1. Init => RunInv /\ MailOfRun(mailbox) /\ TimerInv
  <2> SUFFICES ASSUME Init PROVE RunInv /\ MailOfRun(mailbox) /\ TimerInv
    OBVIOUS
  <2>1. /\ mailbox = <<>> /\ runs = {} /\ preps = {} /\ sleeps = {} /\ running = {}
        /\ preparing = FALSE /\ staged = {} /\ state.timers = {}
    BY DEF Init
  <2>2. Len(mailbox) = 0
    BY <2>1
  <2>3. RunInv /\ MailOfRun(mailbox)
    BY <2>1, <2>2 DEF RunInv, Held, ReportsFenced, PreparedOnce, Gone, MailOfRun
  <2>4. TimerInv
    BY <2>1, <2>2 DEF TimerInv, ArmedOnce, WokenOnce, WakeComes, Kept
  <2> QED
    BY <2>3, <2>4
<1>2. TypeOK /\ RunInv /\ MailOfRun(mailbox) /\ TimerInv /\ [Next]_vars
        => (RunInv /\ MailOfRun(mailbox) /\ TimerInv)'
  BY RunInvStep, MailOfRunStep, TimersStep
<1>3. TypeOK /\ TimerInv => TimersKeepPromise
  BY OneWake
<1> QED
  BY <1>1, <1>2, <1>3, TypeCorrect, PTL DEF Spec

-----------------------------------------------------------------------------
(* Calls and their results in the log *)

Made(s) == CallsIn(s, "msg")
Resolved(s) == CallsIn(s, "result")

\* Each result of the log is the only one of its call, which it comes after.
SoundLog(log) ==
    \A i \in 1..Len(log) : \A c \in log[i].calls :
        log[i].t = "result" =>
            /\ \A j \in 1..Len(log) : log[j].t = "result" /\ c \in log[j].calls => j = i
            /\ \E j \in 1..(i - 1) : log[j].t = "msg" /\ c \in log[j].calls

\* The entry e joins the log of s.
Joined(s, s1, e) == s1.log = s.log \o <<e>>

\* The calls of an entry, when it is of a kind.
CallsOf(e, kind) == IF e.t = kind THEN e.calls ELSE {}

\* An entry at the end of a log.
LEMMA LogGrows ==
    ASSUME NEW s \in AgentState, NEW e \in Entry, NEW log, log = s.log \o <<e>>
    PROVE  /\ Len(s.log) \in Nat /\ Len(log) = Len(s.log) + 1
           /\ \A i \in 1..Len(s.log) : log[i] = s.log[i]
           /\ log[Len(s.log) + 1] = e
           /\ DOMAIN s.log = 1..Len(s.log) /\ DOMAIN log = 1..Len(log)
<1>1. s.log \in Seq(Entry) /\ <<e>> \in Seq(Entry) /\ Len(<<e>>) = 1 /\ <<e>>[1] = e
  BY DEF AgentState
<1>2. /\ s.log \o <<e>> \in Seq(Entry) /\ Len(s.log \o <<e>>) = Len(s.log) + 1
      /\ \A i \in 1..(Len(s.log) + 1) :
            (s.log \o <<e>>)[i] = IF i <= Len(s.log) THEN s.log[i] ELSE <<e>>[i - Len(s.log)]
  BY <1>1, ConcatProperties
<1> QED
  BY <1>1, <1>2

\* A call is in a log by one of its entries.
LEMMA CallsFound ==
    ASSUME NEW s \in AgentState, NEW kind, NEW c
    PROVE  c \in CallsIn(s, kind)
             <=> \E i \in 1..Len(s.log) : s.log[i].t = kind /\ c \in s.log[i].calls
<1>1. DOMAIN s.log = 1..Len(s.log)
  BY DEF AgentState
<1> QED
  BY <1>1 DEF CallsIn

\* An entry adds its calls to those of its kind.
LEMMA CallsAppended ==
    ASSUME NEW s \in AgentState, NEW s1 \in AgentState, NEW e \in Entry, NEW kind,
           Joined(s, s1, e)
    PROVE  CallsIn(s1, kind) = CallsIn(s, kind) \cup CallsOf(e, kind)
<1>1. /\ Len(s.log) \in Nat /\ Len(s1.log) = Len(s.log) + 1
      /\ \A i \in 1..Len(s.log) : s1.log[i] = s.log[i]
      /\ s1.log[Len(s.log) + 1] = e
  BY LogGrows DEF Joined
<1>9. \A d : d \in CallsIn(s1, kind)
              <=> \E i \in 1..Len(s1.log) : s1.log[i].t = kind /\ d \in s1.log[i].calls
  BY CallsFound
<1>2. ASSUME NEW c PROVE c \in CallsIn(s1, kind) <=> c \in CallsIn(s, kind) \/ c \in CallsOf(e, kind)
  <2>1. \A i : i \in 1..Len(s1.log) <=> i \in 1..Len(s.log) \/ i = Len(s.log) + 1
    BY <1>1
  <2>2. c \in CallsIn(s1, kind)
           <=> \/ \E i \in 1..Len(s.log) : s.log[i].t = kind /\ c \in s.log[i].calls
               \/ e.t = kind /\ c \in e.calls
    BY <1>9, <1>1, <2>1
  <2> QED
    BY <2>2, CallsFound DEF CallsOf
<1> QED
  BY <1>2

\* The results of calls that had none keep a log sound; so do other entries.
LEMMA SoundAppended ==
    ASSUME NEW s \in AgentState, NEW s1 \in AgentState, NEW e \in Entry,
           s1.log = s.log \o <<e>>, SoundLog(s.log),
           e.t = "result" => e.calls \subseteq Made(s) \ Resolved(s)
    PROVE  SoundLog(s1.log)
<1>1. /\ Len(s.log) \in Nat /\ Len(s1.log) = Len(s.log) + 1
      /\ \A i \in 1..Len(s.log) : s1.log[i] = s.log[i]
      /\ s1.log[Len(s.log) + 1] = e
  BY LogGrows
<1>2. \A i : i \in 1..Len(s1.log) <=> i \in 1..Len(s.log) \/ i = Len(s.log) + 1
  BY <1>1
<1>3. ASSUME NEW i \in 1..Len(s1.log), NEW c \in s1.log[i].calls, s1.log[i].t = "result"
      PROVE  /\ \A j \in 1..Len(s1.log) : s1.log[j].t = "result" /\ c \in s1.log[j].calls => j = i
             /\ \E j \in 1..(i - 1) : s1.log[j].t = "msg" /\ c \in s1.log[j].calls
  <2>1. CASE i \in 1..Len(s.log)
    <3>1. s.log[i].t = "result" /\ c \in s.log[i].calls
      BY <1>1, <1>3, <2>1
    <3>2. /\ \A j \in 1..Len(s.log) : s.log[j].t = "result" /\ c \in s.log[j].calls => j = i
          /\ \E j \in 1..(i - 1) : s.log[j].t = "msg" /\ c \in s.log[j].calls
      BY <2>1, <3>1 DEF SoundLog
    <3>3. c \in Resolved(s)
      BY <2>1, <3>1, CallsFound DEF Resolved
    <3>4. ~(e.t = "result" /\ c \in e.calls)
      BY <3>3
    <3>5. \A j \in 1..(i - 1) : j \in 1..Len(s.log)
      BY <1>1, <2>1
    <3> QED
      BY <1>1, <1>2, <3>2, <3>4, <3>5
  <2>2. CASE i = Len(s.log) + 1
    <3>1. c \in Made(s) /\ c \notin Resolved(s)
      BY <1>1, <1>3, <2>2
    <3>2. \A j \in 1..Len(s.log) : ~(s.log[j].t = "result" /\ c \in s.log[j].calls)
      BY <3>1, CallsFound DEF Resolved
    <3>3. PICK j \in 1..Len(s.log) : s.log[j].t = "msg" /\ c \in s.log[j].calls
      BY <3>1, CallsFound DEF Made
    <3>4. j \in 1..(i - 1) /\ s1.log[j] = s.log[j]
      BY <1>1, <2>2, <3>3
    <3> QED
      BY <1>1, <1>2, <2>2, <3>2, <3>3, <3>4
  <2> QED
    BY <1>2, <1>3, <2>1, <2>2
<1> QED
  BY <1>3 DEF SoundLog

\* What is written joins the log.
LEMMA LogJoined ==
    ASSUME NEW s \in AgentState
    PROVE  /\ \A entries : /\ Logged(s, entries).log = s.log \o entries
                           /\ Logged(s, entries).asks = s.asks
           /\ \A entry : /\ ApplyInput(s, entry).log = s.log \o <<entry>>
                         /\ ApplyInput(s, entry).asks = s.asks
<1>1. ASSUME NEW entries PROVE /\ Logged(s, entries).log = s.log \o entries
                               /\ Logged(s, entries).asks = s.asks
  <2>1. Parts(Logged(s, entries), s.inbox, s.asks, s.timers, s.log \o entries)
    BY FoldParts
  <2> QED
    BY <2>1 DEF Parts
<1>2. ASSUME NEW entry PROVE /\ ApplyInput(s, entry).log = s.log \o <<entry>>
                             /\ ApplyInput(s, entry).asks = s.asks
  <2>1. Parts(ApplyInput(s, entry), s.inbox, s.asks, s.timers, s.log \o <<entry>>)
    BY FoldParts
  <2> QED
    BY <2>1 DEF Parts
<1> QED
  BY <1>1, <1>2

\* What the log of s must be for each of its calls to get one result.
LogOk(s) == /\ SoundLog(s.log)
            /\ s.asks \subseteq Made(s) \ Resolved(s)
            /\ \A c \in Made(s) : c.id < nextCall

\* The results of calls that miss one are written.
LEMMA ResultWritten ==
    ASSUME NEW s \in AgentState, NEW s1 \in AgentState, NEW calls \in SUBSET Call,
           SoundLog(s.log), calls \subseteq Made(s) \ Resolved(s),
           s1.log = s.log \o <<ResultEntry(calls)>>
    PROVE  /\ SoundLog(s1.log)
           /\ Made(s1) = Made(s) /\ Resolved(s1) = Resolved(s) \cup calls
<1> DEFINE e == ResultEntry(calls)
<1>1. e \in Entry /\ e.t = "result" /\ e.calls = calls
  BY EntryTypes DEF ResultEntry
<1> HIDE DEF e
<1>2. SoundLog(s1.log)
  BY <1>1, SoundAppended DEF e
<1>3. \A kind : CallsIn(s1, kind) = CallsIn(s, kind) \cup CallsOf(e, kind)
  BY <1>1, CallsAppended DEF e, Joined
<1>4. CallsOf(e, "msg") = {} /\ CallsOf(e, "result") = calls
  BY <1>1 DEF CallsOf
<1> QED
  BY <1>2, <1>3, <1>4 DEF Made, Resolved

\* A message is written.
LEMMA InputWritten ==
    ASSUME NEW s \in AgentState, NEW s1 \in AgentState, NEW items \in SUBSET Item,
           SoundLog(s.log), s1.log = s.log \o <<InputEntry(items)>>
    PROVE  SoundLog(s1.log) /\ Made(s1) = Made(s) /\ Resolved(s1) = Resolved(s)
<1> DEFINE e == InputEntry(items)
<1>1. e \in Entry /\ e.t = "input"
  BY EntryTypes DEF InputEntry
<1> HIDE DEF e
<1>2. SoundLog(s1.log)
  BY <1>1, SoundAppended DEF e
<1>3. \A kind : CallsIn(s1, kind) = CallsIn(s, kind) \cup CallsOf(e, kind)
  BY <1>1, CallsAppended DEF e, Joined
<1>4. CallsOf(e, "msg") = {} /\ CallsOf(e, "result") = {}
  BY <1>1 DEF CallsOf
<1> QED
  BY <1>2, <1>3, <1>4 DEF Made, Resolved

\* A message of the assistant is written, with the calls it makes.
LEMMA CallsWritten ==
    ASSUME NEW s \in AgentState, NEW s1 \in AgentState, NEW calls \in SUBSET Call,
           SoundLog(s.log), s1.log = s.log \o <<MsgEntry(calls)>>
    PROVE  /\ SoundLog(s1.log)
           /\ Made(s1) = Made(s) \cup calls /\ Resolved(s1) = Resolved(s)
<1> DEFINE e == MsgEntry(calls)
<1>1. e \in Entry /\ e.t = "msg" /\ e.calls = calls
  BY EntryTypes DEF MsgEntry
<1> HIDE DEF e
<1>2. SoundLog(s1.log)
  BY <1>1, SoundAppended DEF e
<1>3. \A kind : CallsIn(s1, kind) = CallsIn(s, kind) \cup CallsOf(e, kind)
  BY <1>1, CallsAppended DEF e, Joined
<1>4. CallsOf(e, "msg") = calls /\ CallsOf(e, "result") = {}
  BY <1>1 DEF CallsOf
<1> QED
  BY <1>2, <1>3, <1>4 DEF Made, Resolved

\* What a turn writes at its start resolves the calls it brings results for.
LEMMA TurnInputLog ==
    ASSUME NEW s \in AgentState, NEW turn \in Turn, SoundLog(s.log),
           turn.results \subseteq Made(s) \ Resolved(s),
           NEW k, k = ApplyTurnInput(s, turn)
    PROVE  /\ k \in AgentState /\ SoundLog(k.log) /\ k.asks = s.asks
           /\ Made(k) = Made(s) /\ Resolved(k) = Resolved(s) \cup turn.results
<1>1. turn.results \in SUBSET Call /\ turn.items \in SUBSET Item
  BY DEF Turn
<1>2. ResultEntry(turn.results) \in Entry /\ InputEntry(turn.items) \in Entry
  BY <1>1, EntryTypes
<1>3. PICK s1 : s1 = IF turn.results = {} THEN s ELSE ApplyInput(s, ResultEntry(turn.results))
  OBVIOUS
<1>4. /\ s1 \in AgentState /\ SoundLog(s1.log)
      /\ Made(s1) = Made(s) /\ Resolved(s1) = Resolved(s) \cup turn.results
  <2>1. CASE turn.results = {}
    BY <1>3, <2>1
  <2>2. CASE turn.results # {}
    <3>1. s1 = ApplyInput(s, ResultEntry(turn.results))
      BY <1>3, <2>2
    <3>2. s1 \in AgentState
      BY <1>2, <3>1, QueueFoldTypes
    <3>3. s1.log = s.log \o <<ResultEntry(turn.results)>>
      BY <3>1, LogJoined
    <3> QED
      BY <1>1, <3>2, <3>3, ResultWritten
  <2> QED
    BY <2>1, <2>2
<1>5. k = IF StartsUserTurn(turn) THEN ApplyInput(s1, InputEntry(turn.items)) ELSE s1
  BY <1>3 DEF ApplyTurnInput
<1>6. /\ SoundLog(k.log) /\ Made(k) = Made(s1) /\ Resolved(k) = Resolved(s1)
  <2>1. CASE StartsUserTurn(turn)
    <3>1. k \in AgentState
      BY <1>2, <1>4, <1>5, <2>1, QueueFoldTypes
    <3>2. k.log = s1.log \o <<InputEntry(turn.items)>>
      BY <1>4, <1>5, <2>1, LogJoined
    <3> QED
      BY <1>1, <1>4, <3>1, <3>2, InputWritten
  <2>2. CASE ~StartsUserTurn(turn)
    BY <1>4, <1>5, <2>2
  <2> QED
    BY <2>1, <2>2
<1>7. k \in AgentState /\ k.asks = s.asks
  BY TurnInputParts DEF Parts
<1> QED
  BY <1>4, <1>6, <1>7

\* A turn that takes the questions of s as its results leaves a log as good as the one of s.
LEMMA TakenLog ==
    ASSUME NEW s \in AgentState, NEW turn \in Turn, LogOk(s), turn.results = s.asks,
           NEW k, k = Taken(turn, s)
    PROVE  /\ k \in AgentState /\ LogOk(k) /\ Made(k) = Made(s)
           /\ MissingResults(s) \subseteq MissingResults(k)
           /\ HookDue(turn) => turn.results \subseteq MissingResults(k)
<1>1. PICK began : began = ApplyTurnBegan(s, turn)
  OBVIOUS
<1>2. began \in AgentState
  BY <1>1, QueueFoldTypes
<1>3. began.asks = {} /\ began.log = s.log
  BY <1>1, FoldParts DEF Parts
<1>4. Made(began) = Made(s) /\ Resolved(began) = Resolved(s) /\ SoundLog(began.log)
  BY <1>3 DEF Made, Resolved, CallsIn, LogOk
<1>5. CASE HookDue(turn)
  <2>1. k = began
    BY <1>1, <1>5 DEF Taken
  <2>2. LogOk(k)
    BY <1>3, <1>4, <2>1 DEF LogOk
  <2> QED
    BY <1>2, <1>3, <1>4, <2>1, <2>2 DEF LogOk, MissingResults, Made, Resolved
<1>6. CASE ~HookDue(turn)
  <2>1. k = ApplyTurnInput(began, turn)
    BY <1>1, <1>6 DEF Taken
  <2>2. turn.results \subseteq Made(began) \ Resolved(began)
    BY <1>4 DEF LogOk
  <2>3. /\ k \in AgentState /\ SoundLog(k.log) /\ k.asks = {}
        /\ Made(k) = Made(s) /\ Resolved(k) = Resolved(s) \cup s.asks
    BY <1>2, <1>3, <1>4, <2>1, <2>2, TurnInputLog
  <2>4. LogOk(k)
    BY <2>3 DEF LogOk
  <2> QED
    BY <1>6, <2>3, <2>4 DEF MissingResults, Made, Resolved
<1> QED
  BY <1>5, <1>6

\* The end of a run leaves a log as good as the one it found, when the calls it brings
\* miss a result.
LEMMA EndsLog ==
    ASSUME NEW s \in AgentState, LogOk(s), NEW calls \in SUBSET Call,
           calls \subseteq MissingResults(s), NEW s1, EndsIn(s, calls, s1)
    PROVE  LogOk(s1)
<1> DEFINE Same(x) == x \in AgentState /\ x.log = s.log /\ x.asks = s.asks
<1>1. ASSUME NEW x, x.log = s.log, x.asks = s.asks PROVE LogOk(x)
  BY <1>1 DEF LogOk, Made, Resolved, CallsIn
<1>2. SoundLog(s.log) /\ \A c \in Made(s) : c.id < nextCall
  BY DEF LogOk
<1>3. MissingResults(s) \subseteq Made(s) \ Resolved(s) /\ MissingResults(s) \in SUBSET Call
  BY MissingType DEF MissingResults, Made, Resolved
<1>4. PICK told : told = Contradicted(s, calls)
  OBVIOUS
<1>5. told \in AgentState /\ LogOk(told)
  <2>1. PICK logged : logged = Logged(s, <<ResultEntry(calls)>>)
    OBVIOUS
  <2>2. logged \in AgentState
    <3>1. <<ResultEntry(calls)>> \in Seq(Entry)
      BY EntryTypes
    <3> QED
      BY <2>1, <3>1, LoggedType
  <2>3. logged.log = s.log \o <<ResultEntry(calls)>> /\ logged.asks = s.asks
    BY <2>1, LogJoined
  <2>4. told = ApplyNudged(logged)
    BY <1>4, <2>1 DEF Contradicted
  <2>5. told \in AgentState
    BY <2>2, <2>4, QueueFoldTypes
  <2>6. told.log = logged.log /\ told.asks = logged.asks
    BY <2>2, <2>4, FoldParts DEF Parts
  <2>7. /\ SoundLog(told.log) /\ Made(told) = Made(s)
        /\ Resolved(told) = Resolved(s) \cup calls
    <3>1. calls \subseteq Made(s) \ Resolved(s) /\ told.log = s.log \o <<ResultEntry(calls)>>
      BY <1>3, <2>3, <2>6
    <3> QED
      BY <1>2, <2>5, <3>1, ResultWritten
  <2>8. calls \cap s.asks = {}
    BY DEF MissingResults
  <2>9. told.asks \subseteq Made(told) \ Resolved(told)
    BY <2>3, <2>6, <2>7, <2>8 DEF LogOk
  <2> QED
    BY <1>2, <2>5, <2>7, <2>9 DEF LogOk
<1>6. PICK fixed : fixed = Repaired(s)
  OBVIOUS
<1>7. fixed \in AgentState /\ LogOk(fixed)
  <2>1. CASE MissingResults(s) = {}
    BY <1>6, <2>1 DEF Repaired
  <2>2. CASE MissingResults(s) # {}
    <3>1. fixed = ApplyInput(s, ResultEntry(MissingResults(s)))
      BY <1>6, <2>2 DEF Repaired
    <3>2. fixed \in AgentState
      BY <1>6, RepairedType
    <3>3. fixed.log = s.log \o <<ResultEntry(MissingResults(s))>> /\ fixed.asks = s.asks
      BY <3>1, LogJoined
    <3>4. /\ SoundLog(fixed.log) /\ Made(fixed) = Made(s)
          /\ Resolved(fixed) = Resolved(s) \cup MissingResults(s)
      BY <1>2, <1>3, <3>2, <3>3, ResultWritten
    <3>5. MissingResults(s) \cap s.asks = {}
      BY DEF MissingResults
    <3>6. fixed.asks \subseteq Made(fixed) \ Resolved(fixed)
      BY <3>3, <3>4, <3>5 DEF LogOk
    <3> QED
      BY <1>2, <3>2, <3>4, <3>6 DEF LogOk
  <2> QED
    BY <2>1, <2>2
<1>8. PICK kept : kept = Logged(fixed, <<MsgEntry({})>>)
  OBVIOUS
<1>9. kept \in AgentState /\ LogOk(kept)
  <2>1. {} \in SUBSET Call /\ {} \in SUBSET Item
    OBVIOUS
  <2>2. kept \in AgentState
    <3>1. <<MsgEntry({})>> \in Seq(Entry)
      BY <2>1, EntryTypes
    <3> QED
      BY <1>7, <1>8, <3>1, LoggedType
  <2>3. kept.log = fixed.log \o <<MsgEntry({})>> /\ kept.asks = fixed.asks
    BY <1>7, <1>8, LogJoined
  <2>4. SoundLog(fixed.log)
    BY <1>7 DEF LogOk
  <2>5. SoundLog(kept.log) /\ Made(kept) = Made(fixed) \cup {} /\ Resolved(kept) = Resolved(fixed)
    BY <1>7, <2>1, <2>2, <2>3, <2>4, CallsWritten
  <2> QED
    BY <1>7, <2>2, <2>3, <2>5 DEF LogOk
<1>10. ASSUME NEW x \in AgentState, LogOk(x), NEW y, y.log = x.log, y.asks = x.asks
       PROVE  LogOk(y)
  BY <1>10 DEF LogOk, Made, Resolved, CallsIn
<1>11. CASE s1 = s
  BY <1>11
<1>12. CASE s1 = ApplyParked(s)
  BY <1>10, <1>12, FoldParts DEF Parts
<1>13. CASE s1 = ApplyNudged(ApplyReceived(s, NudgeItem(s.nudges)))
  <2>1. PICK got : got = ApplyReceived(s, NudgeItem(s.nudges))
    OBVIOUS
  <2>2. got \in AgentState
    <3>1. s.nudges \in Nat
      BY DEF AgentState
    <3> QED
      BY <2>1, <3>1, NudgeTypes, QueueFoldTypes
  <2>3. got.log = s.log /\ got.asks = s.asks
    BY <2>1, FoldParts DEF Parts
  <2>4. s1 = ApplyNudged(got)
    BY <1>13, <2>1
  <2>5. s1.log = got.log /\ s1.asks = got.asks
    BY <2>2, <2>4, FoldParts DEF Parts
  <2> QED
    BY <1>1, <2>3, <2>5
<1>14. CASE s1 = ApplyAskRecorded(s, calls)
  <2>1. s1.log = s.log /\ s1.asks = calls
    BY <1>14, FoldParts DEF Parts
  <2>2. Made(s1) = Made(s) /\ Resolved(s1) = Resolved(s)
    BY <2>1 DEF Made, Resolved, CallsIn
  <2> QED
    BY <1>2, <1>3, <2>1, <2>2 DEF LogOk
<1>15. CASE s1 = ApplyTimerCancelled(s, s.timers)
  BY <1>10, <1>15, FoldParts DEF Parts
<1>16. CASE s1 = told
  BY <1>5, <1>16
<1>17. CASE s1 = ApplyReceived(told, ContradictionItem(told.nudges))
  BY <1>5, <1>10, <1>17, FoldParts DEF Parts
<1>18. CASE s1 = ApplyBoundary(fixed)
  BY <1>7, <1>10, <1>18, FoldParts DEF Parts
<1>19. CASE s1 = ApplyBoundary(kept)
  BY <1>9, <1>10, <1>19, FoldParts DEF Parts
<1> QED
  BY <1>4, <1>6, <1>8, <1>11, <1>12, <1>13, <1>14, <1>15, <1>16, <1>17, <1>18, <1>19 DEF EndsIn

-----------------------------------------------------------------------------
(* Where the result of a call may still come from *)

\* The calls a command is to resolve.
Promise(cmd) ==
    IF cmd.kind = "PersistProgress"
    THEN IF cmd.ev \in {"result", "repair"} THEN cmd.calls ELSE {}
    ELSE IF cmd.kind = "RunFinished" THEN cmd.calls
    ELSE IF cmd.kind = "StartPrepared" THEN cmd.turn.results
    ELSE {}

\* The calls a task may yet post a result for, or report.
Owes(r) == IF r.stage = "acted" THEN r.calls
           ELSE IF r.stage = "tools" THEN r.open \cup r.stopped
           ELSE IF r.stage = "ended" /\ r.end = "Stopped" THEN r.stopped
           ELSE {}

\* A call of r is not both executing and stopped, and r has no end before it ended.
Shaped(r) == /\ r.stage = "tools" => r.open \cap r.stopped = {}
             /\ r.stage # "ended" => r.end = "Completed"

\* The message with the calls of r is posted and not written.
Unsaid(r) == r.stage = "acted" /\ r.waiting

\* What resolves a call in m is all there is to resolve it.
MailApart(m) ==
    \A i \in 1..Len(m) : \A c \in Promise(m[i]) :
        /\ \A r \in runs : c \notin Owes(r)
        /\ \A p \in preps : c \notin p.results
        /\ \A j \in 1..Len(m) : c \in Promise(m[j]) => j = i

\* What is to be resolved in k misses a result there.
AllMissing(k, m) ==
    /\ \A i \in 1..Len(m) : Promise(m[i]) \subseteq MissingResults(k)
    /\ \A r \in runs : ~Unsaid(r) => Owes(r) \subseteq MissingResults(k)
    /\ \A p \in preps : p.results \subseteq MissingResults(k)

\* The calls of a message that is not written are of no log.
FreshCalls ==
    \A r \in runs : Unsaid(r) =>
        \A c \in r.calls : /\ c.id < nextCall
                           /\ \A s \in {state} \cup staged : c \notin Made(s)

\* An event its task awaits the ack of, and how it goes with the task.
Coarse(cmd) == cmd.kind = "PersistProgress" /\ cmd.ev \notin {"result", "repair"}

Awaits(r, cmd) ==
    /\ cmd.run = {r.id} /\ r.waiting
    /\ IF r.stage = "acted" THEN cmd.ev = "msg" /\ cmd.calls = r.calls ELSE cmd.ev # "msg"

CoarseOnce(m) ==
    \A i \in 1..Len(m) :
        Coarse(m[i]) => /\ \A j \in 1..Len(m) : Coarse(m[j]) => j = i
                        /\ \E r \in runs : Awaits(r, m[i])

\* The repair comes first, and is the one event of no run.
RepairFirst(m) ==
    \A i \in 1..Len(m) :
        m[i].kind = "PersistProgress" => /\ m[i].ev = "repair" => i = 1 /\ m[i].run = {}
                                         /\ m[i].ev # "repair" => m[i].run # {}

ResultInv ==
    /\ \A s \in {state} \cup staged : LogOk(s)
    /\ MailApart(mailbox)
    /\ \A k \in Kept : AllMissing(k, mailbox)
    /\ FreshCalls
    /\ CoarseOnce(mailbox) /\ RepairFirst(mailbox)
    /\ \A r \in runs : Shaped(r)

-----------------------------------------------------------------------------
(* What a run task's step does to them *)

\* r1 owes what r owed, but for what cmd promises, or calls no run made before.
Follows(r, r1, cmd) ==
    /\ Shaped(r1)
    /\ Owes(r1) \cap Promise(cmd) = {}
    /\ IF Unsaid(r1) THEN \A c \in r1.calls : c.id \in nextCall..(nextCall' - 1)
                     ELSE Owes(r1) \subseteq Owes(r)

\* A step of r that posts cmd, or nothing.
Ledger(r, cmd) ==
    /\ nextCall' >= nextCall
    /\ \A r1 \in runs' : Follows(r, r1, cmd)
    /\ Promise(cmd) \subseteq Owes(r)
    /\ cmd.kind = "PersistProgress" => cmd.ev # "repair" /\ cmd.run # {}
    /\ Coarse(cmd) => \E r1 \in runs' : Awaits(r1, cmd)
    /\ mailbox' = mailbox \/ mailbox' = Append(mailbox, cmd)

\* Such a step keeps the invariant.
LEMMA LedgerKept ==
    ASSUME TypeOK, RunInv, ResultInv, NEW r \in runs, ~r.waiting,
           UNCHANGED <<state, staged, preps>>, nextCall' \in Nat, NEW cmd, Ledger(r, cmd)
    PROVE  ResultInv'
<1>1. runs = {r} /\ preps = {} /\ preps' = {}
  BY DEF RunInv, Held
<1>2. Kept' = Kept /\ Kept \subseteq {state} \cup staged
  BY DEF Kept
<1>3. \A k \in Kept : Owes(r) \subseteq MissingResults(k)
  BY DEF ResultInv, AllMissing, Unsaid
<1>4. \A i \in 1..Len(mailbox) : ~Coarse(mailbox[i])
  BY <1>1 DEF ResultInv, CoarseOnce, Awaits
<1>5. \A i \in 1..Len(mailbox) : /\ Promise(mailbox[i]) \cap Owes(r) = {}
                                 /\ \A k \in Kept : Promise(mailbox[i]) \subseteq MissingResults(k)
  BY DEF ResultInv, MailApart, AllMissing
<1>6. \A s \in {state} \cup staged : \A c \in Made(s) : c.id < nextCall
  BY DEF ResultInv, LogOk
<1>7. \A k : MissingResults(k) \subseteq Made(k)
  BY DEF MissingResults, Made
<1>8. nextCall \in Nat
  BY DEF TypeOK
<1>9. PICK k \in Kept : TRUE
  BY DEF Kept
\* What the new task owes is of the old one, or of no log and so of no mail.
<1>10. ASSUME NEW r1 \in runs'
       PROVE  /\ Owes(r1) \cap Promise(cmd) = {}
              /\ \A i \in 1..Len(mailbox) : Owes(r1) \cap Promise(mailbox[i]) = {}
  <2>1. Follows(r, r1, cmd)
    BY DEF Ledger
  <2>2. CASE ~Unsaid(r1)
    BY <1>5, <2>1, <2>2 DEF Follows
  <2>3. CASE Unsaid(r1)
    <3>1. Owes(r1) = r1.calls
      BY <2>3 DEF Unsaid, Owes
    <3>2. \A c \in r1.calls : ~(c.id < nextCall)
      BY <1>8, <2>1, <2>3 DEF Follows
    <3>3. \A c \in r1.calls : c \notin MissingResults(k)
      BY <1>2, <1>6, <1>7, <1>9, <3>2
    <3> QED
      BY <1>5, <1>9, <2>1, <3>1, <3>3 DEF Follows
  <2> QED
    BY <2>2, <2>3
<1>11. (\A s \in {state} \cup staged : LogOk(s))'
  <2>1. ASSUME NEW s \in {state} \cup staged PROVE LogOk(s)'
    <3>1. LogOk(s)
      BY DEF ResultInv
    <3>2. \A c \in Made(s) : c.id < nextCall'
      <4>1. ASSUME NEW c \in Made(s) PROVE c.id < nextCall'
        <5>1. c \in Call
          <6>1. s \in AgentState
            BY DEF TypeOK
          <6>2. PICK i \in 1..Len(s.log) : c \in s.log[i].calls
            BY <6>1, CallsFound DEF Made
          <6>3. s.log[i] \in Entry
            BY <6>1 DEF AgentState
          <6> QED
            BY <6>2, <6>3 DEF Entry
        <5>2. c.id \in Int
          BY <5>1 DEF Call
        <5> QED
          BY <1>6, <1>8, <5>2 DEF Ledger
      <4> QED
        BY <4>1
    <3> QED
      BY <3>1, <3>2 DEF LogOk
  <2> QED
    BY <2>1
<1>12. FreshCalls'
  <2>1. ASSUME NEW r1 \in runs', Unsaid(r1), NEW c \in r1.calls
        PROVE  c.id < nextCall' /\ \A s \in {state} \cup staged : c \notin Made(s)
    <3>1. c.id \in nextCall..(nextCall' - 1)
      BY <2>1 DEF Ledger, Follows
    <3> QED
      BY <1>6, <1>8, <3>1
  <2> QED
    BY <2>1 DEF FreshCalls
<1>13. (\A q \in runs : Shaped(q))'
  BY DEF Ledger, Follows
<1>14. ASSUME NEW q \in runs', ~Unsaid(q), NEW x \in Kept' PROVE Owes(q) \subseteq MissingResults(x)
  BY <1>2, <1>3, <1>14 DEF Ledger, Follows
<1>15. CASE mailbox' = mailbox
  <2>1. MailApart(mailbox)'
    BY <1>1, <1>10, <1>15 DEF ResultInv, MailApart
  <2>2. (\A x \in Kept : AllMissing(x, mailbox))'
    BY <1>1, <1>2, <1>5, <1>14, <1>15 DEF AllMissing
  <2>3. CoarseOnce(mailbox)' /\ RepairFirst(mailbox)'
    BY <1>4, <1>15 DEF ResultInv, CoarseOnce, RepairFirst
  <2> QED
    BY <1>11, <1>12, <1>13, <2>1, <2>2, <2>3 DEF ResultInv
<1>16. CASE mailbox' = Append(mailbox, cmd)
  <2>1. /\ Len(mailbox') = Len(mailbox) + 1 /\ Len(mailbox) \in Nat
        /\ mailbox'[Len(mailbox')] = cmd
        /\ \A i \in 1..Len(mailbox) : mailbox'[i] = mailbox[i]
        /\ \A i \in 1..Len(mailbox') : i \in 1..Len(mailbox) \/ i = Len(mailbox')
    BY <1>16, MailPosted
  <2>2. ASSUME NEW i \in 1..Len(mailbox'), NEW c \in Promise(mailbox'[i])
        PROVE  /\ \A q \in runs' : c \notin Owes(q)
               /\ \A p \in preps' : c \notin p.results
               /\ \A j \in 1..Len(mailbox') : c \in Promise(mailbox'[j]) => j = i
    <3>1. \A q \in runs' : c \notin Owes(q)
      BY <1>10, <2>1
    <3>2. CASE i \in 1..Len(mailbox)
      <4>1. c \in Promise(mailbox[i]) /\ c \notin Promise(cmd)
        BY <1>5, <2>1, <3>2 DEF Ledger
      <4>2. \A j \in 1..Len(mailbox) : c \in Promise(mailbox[j]) => j = i
        BY <3>2, <4>1 DEF ResultInv, MailApart
      <4> QED
        BY <1>1, <2>1, <3>1, <4>1, <4>2
    <3>3. CASE i = Len(mailbox')
      <4>1. c \in Owes(r)
        BY <2>1, <3>3 DEF Ledger
      <4> QED
        BY <1>1, <1>5, <2>1, <3>1, <3>3, <4>1
    <3> QED
      BY <2>1, <3>2, <3>3
  <2>3. MailApart(mailbox)'
    BY <2>2 DEF MailApart
  <2>4. ASSUME NEW x \in Kept', NEW i \in 1..Len(mailbox')
        PROVE  Promise(mailbox'[i]) \subseteq MissingResults(x)
    BY <1>2, <1>3, <1>5, <2>1 DEF Ledger
  <2>5. (\A x \in Kept : AllMissing(x, mailbox))'
    BY <1>1, <1>14, <2>4 DEF AllMissing
  <2>6. CoarseOnce(mailbox)'
    <3>1. ASSUME NEW i \in 1..Len(mailbox'), Coarse(mailbox'[i])
          PROVE  i = Len(mailbox') /\ Coarse(cmd)
      BY <1>4, <2>1, <3>1
    <3>2. Coarse(cmd) => \E q \in runs' : Awaits(q, cmd)
      BY DEF Ledger
    <3> QED
      BY <2>1, <3>1, <3>2 DEF CoarseOnce
  <2>7. RepairFirst(mailbox)'
    BY <2>1 DEF ResultInv, RepairFirst, Ledger
  <2> QED
    BY <1>11, <1>12, <1>13, <2>3, <2>5, <2>6, <2>7 DEF ResultInv
<1> QED
  BY <1>15, <1>16 DEF Ledger

\* Moving on, emitting, aborting and reporting, as the ledger sees them.
LEMMA LedgerParts ==
    ASSUME TypeOK, RunInv, NEW r \in runs, nextCall' = nextCall
    PROVE  /\ \A r1 : /\ Moves(r, r1) /\ UNCHANGED mailbox
                      /\ r1.stage # "acted" /\ Shaped(r1) /\ Owes(r1) \subseteq Owes(r)
                      => \E cmd : Ledger(r, cmd)
           /\ \A r1, ev : /\ Emits(r, r1, ev, {})
                          /\ ev \notin {"msg", "result", "repair"}
                          /\ [r1 EXCEPT !.waiting = TRUE].id = r.id
                          /\ [r1 EXCEPT !.waiting = TRUE].waiting
                          /\ [r1 EXCEPT !.waiting = TRUE].stage \notin {"acted", "tools"}
                          /\ Shaped([r1 EXCEPT !.waiting = TRUE])
                          /\ Owes([r1 EXCEPT !.waiting = TRUE]) \subseteq Owes(r)
                          => \E cmd : Ledger(r, cmd)
           /\ \A end : end # "Stopped" /\ Aborts(r, end) => \E cmd : Ledger(r, cmd)
           /\ \A outcome, seeds : /\ Reports(r, outcome, seeds)
                                  /\ outcome = "Stopped" => r.stopped \subseteq Owes(r)
                                  => \E cmd : Ledger(r, cmd)
<1>1. runs = {r} /\ nextCall \in Nat /\ nextCall' >= nextCall
  BY DEF RunInv, Held, TypeOK
<1>2. ASSUME NEW r1, Moves(r, r1), UNCHANGED mailbox, r1.stage # "acted", Shaped(r1),
             Owes(r1) \subseteq Owes(r)
      PROVE  \E cmd : Ledger(r, cmd)
  <2> DEFINE cmd == [kind |-> "Drain"]
  <2>1. cmd.kind = "Drain"
    OBVIOUS
  <2>2. runs' = {r1}
    BY <1>1, <1>2 DEF Moves
  <2> HIDE DEF cmd
  <2>3. Ledger(r, cmd)
    BY <1>1, <1>2, <2>1, <2>2 DEF Ledger, Follows, Promise, Coarse, Unsaid
  <2> QED
    BY <2>3
<1>3. ASSUME NEW r1, NEW ev, NEW r2, r2 = [r1 EXCEPT !.waiting = TRUE], Emits(r, r1, ev, {}),
             ev \notin {"msg", "result", "repair"}, r2.id = r.id, r2.waiting,
             r2.stage \notin {"acted", "tools"}, Shaped(r2), Owes(r2) \subseteq Owes(r)
      PROVE  \E cmd : Ledger(r, cmd)
  <2> DEFINE cmd == [kind |-> "PersistProgress", run |-> {r.id}, ev |-> ev, calls |-> {}]
  <2>1. cmd.kind = "PersistProgress" /\ cmd.run = {r.id} /\ cmd.ev = ev /\ cmd.calls = {}
    OBVIOUS
  <2>2. runs' = {r2} /\ mailbox' = Append(mailbox, cmd)
    BY <1>1, <1>3 DEF Emits, Moves
  <2> HIDE DEF cmd
  <2>3. Awaits(r2, cmd)
    BY <1>3, <2>1 DEF Awaits
  <2>4. Promise(cmd) = {}
    BY <2>1 DEF Promise
  <2>5. Follows(r, r2, cmd)
    BY <1>3, <2>4 DEF Follows, Unsaid
  <2>6. Ledger(r, cmd)
    BY <1>1, <1>3, <2>1, <2>2, <2>3, <2>4, <2>5 DEF Ledger
  <2> QED
    BY <2>6
<1>4. ASSUME NEW end, end # "Stopped", Aborts(r, end) PROVE \E cmd : Ledger(r, cmd)
  <2>1. PICK r1 : r1 = [r EXCEPT !.stage = "ended", !.end = end, !.open = {}, !.posted = {},
                                 !.stopped = {}]
    OBVIOUS
  <2>2. PICK r2 : r2 = [r1 EXCEPT !.waiting = TRUE]
    OBVIOUS
  <2>3. r \in RunTask
    BY DEF TypeOK
  <2>4. r2.id = r.id /\ r2.waiting /\ r2.stage = "ended" /\ r2.end = end
    BY <2>1, <2>2, <2>3 DEF RunTask
  <2>5. Emits(r, r1, "aborted", {})
    BY <1>4, <2>1 DEF Aborts
  <2>6. Owes(r2) = {} /\ Shaped(r2)
    BY <1>4, <2>4 DEF Owes, Shaped
  <2> QED
    BY <1>3, <2>2, <2>4, <2>5, <2>6
<1>5. ASSUME NEW outcome, NEW seeds, Reports(r, outcome, seeds),
             outcome = "Stopped" => r.stopped \subseteq Owes(r)
      PROVE  \E cmd : Ledger(r, cmd)
  <2> DEFINE cmd == [kind |-> "RunFinished", run |-> r.id, outcome |-> outcome,
                     calls |-> IF outcome = "Stopped" THEN r.stopped ELSE {}, seeds |-> seeds]
  <2>1. cmd.kind = "RunFinished" /\ cmd.calls \subseteq Owes(r)
    BY <1>5
  <2>2. mailbox' = Append(mailbox, cmd) /\ runs' = {}
    BY <1>1, <1>5 DEF Reports
  <2> HIDE DEF cmd
  <2>3. Promise(cmd) = cmd.calls
    BY <2>1 DEF Promise
  <2>4. Ledger(r, cmd)
    BY <1>1, <2>1, <2>2, <2>3 DEF Ledger, Coarse
  <2> QED
    BY <2>4
<1>6. \A r1, ev : /\ Emits(r, r1, ev, {})
                  /\ ev \notin {"msg", "result", "repair"}
                  /\ [r1 EXCEPT !.waiting = TRUE].id = r.id
                  /\ [r1 EXCEPT !.waiting = TRUE].waiting
                  /\ [r1 EXCEPT !.waiting = TRUE].stage \notin {"acted", "tools"}
                  /\ Shaped([r1 EXCEPT !.waiting = TRUE])
                  /\ Owes([r1 EXCEPT !.waiting = TRUE]) \subseteq Owes(r)
                  => \E cmd : Ledger(r, cmd)
  BY <1>3
<1> QED
  BY <1>2, <1>4, <1>5, <1>6

\* Every step of a run task keeps the ledger.
LEMMA TaskLedger ==
    ASSUME TypeOK, RunInv, NEW r \in runs, Shaped(r), ~r.waiting, nextCall' \in Nat,
           RunInner(r) \/ RunOuter(r) \/ Summarise(r)
    PROVE  \E cmd : Ledger(r, cmd)
<1>1. r \in RunTask /\ runs = {r} /\ nextCall \in Nat
  BY DEF TypeOK, RunInv, Held
<1>2. ASSUME nextCall' = nextCall, NEW r1, Moves(r, r1), UNCHANGED mailbox, r1.stage # "acted",
             Shaped(r1), Owes(r1) \subseteq Owes(r)
      PROVE  \E cmd : Ledger(r, cmd)
  BY <1>2, LedgerParts
<1>3. ASSUME nextCall' = nextCall, NEW r1, NEW ev, NEW r2, r2 = [r1 EXCEPT !.waiting = TRUE],
             Emits(r, r1, ev, {}), ev \notin {"msg", "result", "repair"}, r2.id = r.id,
             r2.waiting, r2.stage \notin {"acted", "tools"}, Shaped(r2), Owes(r2) \subseteq Owes(r)
      PROVE  \E cmd : Ledger(r, cmd)
  BY <1>3, LedgerParts
<1>4. ASSUME nextCall' = nextCall, NEW end, end # "Stopped", Aborts(r, end)
      PROVE  \E cmd : Ledger(r, cmd)
  BY <1>4, LedgerParts
<1>5. ASSUME nextCall' = nextCall, NEW outcome, NEW seeds, Reports(r, outcome, seeds),
             outcome = "Stopped" => r.stopped \subseteq Owes(r)
      PROVE  \E cmd : Ledger(r, cmd)
  BY <1>5, LedgerParts
\* A stage in which a task owes nothing.
<1>6. ASSUME NEW st \in {"provide", "summarise", "loop"}, NEW r1, r1.stage = st,
             r1.end = "Completed"
      PROVE  r1.stage # "acted" /\ Shaped(r1) /\ Owes(r1) \subseteq Owes(r)
  BY <1>6 DEF Shaped, Owes
<1>7. \A st : /\ [r EXCEPT !.stage = st].stage = st /\ [r EXCEPT !.stage = st].end = r.end
  BY <1>1 DEF RunTask
<1>8. CASE Provide(r)
  <2>1. nextCall' = nextCall /\ r.end = "Completed"
    BY <1>8 DEF Provide, RunQuiet, Shaped
  <2>2. CASE \E st \in {"summarise", "loop"} : Moves(r, [r EXCEPT !.stage = st]) /\ UNCHANGED mailbox
    BY <1>2, <1>6, <1>7, <2>1, <2>2
  <2>3. CASE Reports(r, "AlreadyReported", {})
    BY <1>5, <2>1, <2>3
  <2> QED
    BY <1>8, <2>2, <2>3 DEF Provide
<1>9. CASE ProvideCancelled(r)
  BY <1>5, <1>9 DEF ProvideCancelled, RunQuiet
<1>10. CASE Summarise(r)
  <2>1. nextCall' = nextCall /\ r.end = "Completed"
    BY <1>10 DEF Summarise, RunQuiet, Shaped
  <2>2. PICK r1 : r1 = AfterSummary(r)
    OBVIOUS
  <2>3. r1.stage \in {"loop", "ended"} /\ r1.end = "Completed"
    BY <1>7, <2>1, <2>2 DEF AfterSummary
  <2>4. Shaped(r1) /\ Owes(r1) = {}
    BY <2>3 DEF Shaped, Owes
  <2>5. CASE Moves(r, r1) /\ UNCHANGED mailbox
    BY <1>2, <2>1, <2>3, <2>4, <2>5
  <2>6. CASE Emits(r, [r1 EXCEPT !.wrote = TRUE], "compacted", {})
    <3>1. PICK r2 : r2 = [r1 EXCEPT !.wrote = TRUE]
      OBVIOUS
    <3>2. PICK r3 : r3 = [r2 EXCEPT !.waiting = TRUE]
      OBVIOUS
    <3>3. r3.id = r.id /\ r3.waiting /\ r3.stage = r1.stage /\ r3.end = r1.end
      BY <1>1, <2>2, <3>1, <3>2 DEF AfterSummary, RunTask
    <3>4. Shaped(r3) /\ Owes(r3) \subseteq Owes(r) /\ r3.stage \notin {"acted", "tools"}
      BY <2>3, <3>3 DEF Shaped, Owes
    <3>5. Emits(r, r2, "compacted", {})
      BY <2>6, <3>1
    <3> QED
      BY <1>3, <2>1, <3>2, <3>3, <3>4, <3>5
  <2> QED
    BY <1>10, <2>2, <2>5, <2>6 DEF Summarise
<1>11. CASE Loop(r)
  <2>1. ASSUME NEW end \in {"Failed", "Transient"}, Aborts(r, end), UNCHANGED nextCall
        PROVE  \E cmd : Ledger(r, cmd)
    BY <1>4, <2>1
  <2>2. ASSUME NEW n \in 0..MaxBatch, NEW same, NEW msgs, nextCall' = nextCall + n,
               NEW f \in [nextCall..(nextCall + n - 1) -> Tools],
               Emits(r, [r EXCEPT !.stage = "acted", !.calls = Batch(f), !.msgs = msgs,
                                  !.wrote = TRUE, !.same = same], "msg", Batch(f))
        PROVE  \E cmd : Ledger(r, cmd)
    <3>1. PICK calls : calls = Batch(f)
      OBVIOUS
    <3>2. PICK r1 : r1 = [r EXCEPT !.stage = "acted", !.calls = calls, !.msgs = msgs,
                                   !.wrote = TRUE, !.same = same]
      OBVIOUS
    <3>3. PICK r2 : r2 = [r1 EXCEPT !.waiting = TRUE]
      OBVIOUS
    <3>4. /\ r2.id = r.id /\ r2.waiting /\ r2.stage = "acted" /\ r2.calls = calls
          /\ r2.end = r.end
      BY <1>1, <3>2, <3>3 DEF RunTask
    <3>5. r2.end = "Completed"
      BY <1>11, <3>4 DEF Loop, Shaped
    <3>6. \A c \in calls : c.id \in nextCall..(nextCall' - 1)
      <4>1. ASSUME NEW c \in calls PROVE c.id \in nextCall..(nextCall' - 1)
        <5>1. DOMAIN f = nextCall..(nextCall' - 1)
          <6>1. nextCall + n - 1 = nextCall' - 1
            BY <1>1, <2>2
          <6>2. DOMAIN f = nextCall..(nextCall + n - 1)
            BY <2>2
          <6> QED
            BY <6>1, <6>2
        <5>2. PICK i \in DOMAIN f : c = [id |-> i, tool |-> f[i]]
          BY <3>1, <4>1 DEF Batch
        <5> QED
          BY <5>1, <5>2
      <4> QED
        BY <4>1
    <3> DEFINE cmd == [kind |-> "PersistProgress", run |-> {r.id}, ev |-> "msg", calls |-> calls]
    <3>7. /\ cmd.kind = "PersistProgress" /\ cmd.run = {r.id} /\ cmd.ev = "msg"
          /\ cmd.calls = calls
      OBVIOUS
    <3>8. runs' = {r2} /\ mailbox' = Append(mailbox, cmd)
      BY <1>1, <2>2, <3>1, <3>2, <3>3 DEF Emits, Moves
    <3> HIDE DEF cmd
    <3>9. Awaits(r2, cmd) /\ Promise(cmd) = {}
      BY <3>4, <3>7 DEF Awaits, Promise
    <3>10. Follows(r, r2, cmd)
      BY <3>4, <3>5, <3>6, <3>9 DEF Follows, Shaped, Unsaid
    <3>11. nextCall' >= nextCall
      BY <1>1, <2>2
    <3>12. Ledger(r, cmd)
      BY <3>7, <3>8, <3>9, <3>10, <3>11 DEF Ledger
    <3> QED
      BY <3>12
  <2> QED
    BY <1>11, <2>1, <2>2 DEF Loop
<1>12. CASE Act(r)
  <2>1. nextCall' = nextCall /\ r.end = "Completed" /\ r.stage = "acted"
    BY <1>12 DEF Act, RunQuiet, Shaped
  <2>2. CASE Emits(r, [r EXCEPT !.stage = "ended", !.end = "Completed"], "complete", {})
    <3>1. PICK r1 : r1 = [r EXCEPT !.stage = "ended", !.end = "Completed"]
      OBVIOUS
    <3>2. PICK r2 : r2 = [r1 EXCEPT !.waiting = TRUE]
      OBVIOUS
    <3>3. r2.id = r.id /\ r2.waiting /\ r2.stage = "ended" /\ r2.end = "Completed"
      BY <1>1, <3>1, <3>2 DEF RunTask
    <3>4. Shaped(r2) /\ Owes(r2) \subseteq Owes(r)
      BY <3>3 DEF Shaped, Owes
    <3>5. Emits(r, r1, "complete", {})
      BY <2>2, <3>1
    <3> QED
      BY <1>3, <2>1, <3>2, <3>3, <3>4, <3>5
  <2>3. CASE \E end \in {"Failed", "Cancelled"} : Aborts(r, end)
    BY <1>4, <2>1, <2>3
  <2>4. CASE Moves(r, [r EXCEPT !.stage = "loop"]) /\ UNCHANGED mailbox
    BY <1>2, <1>6, <1>7, <2>1, <2>4
  <2>5. CASE /\ Moves(r, [r EXCEPT !.stage = "tools", !.open = r.calls, !.posted = {},
                                    !.stopped = {}])
             /\ UNCHANGED mailbox
    <3>1. PICK r1 : r1 = [r EXCEPT !.stage = "tools", !.open = r.calls, !.posted = {},
                                   !.stopped = {}]
      OBVIOUS
    <3>2. /\ r1.stage = "tools" /\ r1.open = r.calls /\ r1.stopped = {}
          /\ r1.end = "Completed"
      BY <1>1, <2>1, <3>1 DEF RunTask
    <3>3. Shaped(r1) /\ Owes(r1) \subseteq Owes(r)
      BY <2>1, <3>2 DEF Shaped, Owes
    <3> QED
      BY <1>2, <2>1, <2>5, <3>1, <3>2, <3>3
  <2> QED
    BY <1>12, <2>2, <2>3, <2>4, <2>5 DEF Act
<1>13. ASSUME NEW c \in r.open, ToolResult(r, c) PROVE \E cmd : Ledger(r, cmd)
  <2>1. PICK r1 : r1 = [r EXCEPT !.open = r.open \ {c}, !.posted = r.posted \cup {c}]
    OBVIOUS
  <2>2. /\ r1.stage = "tools" /\ r1.open = r.open \ {c} /\ r1.stopped = r.stopped
        /\ r1.end = "Completed" /\ r.stage = "tools" /\ r.open \cap r.stopped = {}
    BY <1>1, <1>13, <2>1 DEF RunTask, ToolResult, Shaped
  <2> DEFINE cmd == [kind |-> "PersistProgress", run |-> {r.id}, ev |-> "result", calls |-> {c}]
  <2>3. cmd.kind = "PersistProgress" /\ cmd.run = {r.id} /\ cmd.ev = "result" /\ cmd.calls = {c}
    OBVIOUS
  <2>4. runs' = {r1} /\ mailbox' = Append(mailbox, cmd) /\ nextCall' = nextCall
    BY <1>1, <1>13, <2>1 DEF ToolResult, Moves, RunQuiet
  <2> HIDE DEF cmd
  <2>5. Promise(cmd) = {c} /\ ~Coarse(cmd)
    BY <2>3 DEF Promise, Coarse
  <2>6. Owes(r1) = (r.open \ {c}) \cup r.stopped /\ Owes(r) = r.open \cup r.stopped
    BY <2>2 DEF Owes
  <2>7. Follows(r, r1, cmd)
    BY <2>2, <2>5, <2>6 DEF Follows, Shaped, Unsaid
  <2>8. Ledger(r, cmd)
    BY <1>1, <2>3, <2>4, <2>5, <2>6, <2>7 DEF Ledger
  <2> QED
    BY <2>8
<1>14. ASSUME NEW c \in r.open, ToolStops(r, c) PROVE \E cmd : Ledger(r, cmd)
  <2>1. PICK r1 : r1 = [r EXCEPT !.open = r.open \ {c}, !.stopped = r.stopped \cup {c}]
    OBVIOUS
  <2>2. /\ r1.stage = "tools" /\ r1.open = r.open \ {c} /\ r1.stopped = r.stopped \cup {c}
        /\ r1.end = "Completed" /\ r.stage = "tools" /\ r.open \cap r.stopped = {}
    BY <1>1, <1>14, <2>1 DEF RunTask, ToolStops, Shaped
  <2>3. Shaped(r1) /\ Owes(r1) \subseteq Owes(r)
    BY <2>2 DEF Shaped, Owes
  <2>4. Moves(r, r1) /\ UNCHANGED mailbox /\ nextCall' = nextCall
    BY <1>14, <2>1 DEF ToolStops, RunQuiet
  <2> QED
    BY <1>2, <2>2, <2>3, <2>4
<1>15. CASE ToolsDone(r)
  <2>1. nextCall' = nextCall /\ r.end = "Completed" /\ r.stage = "tools"
    BY <1>15 DEF ToolsDone, RunQuiet, Shaped
  <2>2. CASE Moves(r, [r EXCEPT !.stage = "loop"]) /\ UNCHANGED mailbox
    BY <1>2, <1>6, <1>7, <2>1, <2>2
  <2>3. CASE Emits(r, [r EXCEPT !.stage = "ended", !.end = "Stopped"], "complete", {})
    <3>1. PICK r1 : r1 = [r EXCEPT !.stage = "ended", !.end = "Stopped"]
      OBVIOUS
    <3>2. PICK r2 : r2 = [r1 EXCEPT !.waiting = TRUE]
      OBVIOUS
    <3>3. /\ r2.id = r.id /\ r2.waiting /\ r2.stage = "ended" /\ r2.end = "Stopped"
          /\ r2.stopped = r.stopped
      BY <1>1, <3>1, <3>2 DEF RunTask
    <3>4. Shaped(r2) /\ Owes(r2) \subseteq Owes(r)
      BY <2>1, <3>3 DEF Shaped, Owes
    <3>5. Emits(r, r1, "complete", {})
      BY <2>3, <3>1
    <3> QED
      BY <1>3, <2>1, <3>2, <3>3, <3>4, <3>5
  <2> QED
    BY <1>15, <2>2, <2>3 DEF ToolsDone
<1>16. CASE LoopCancelled(r)
  BY <1>4, <1>16 DEF LoopCancelled, RunQuiet
<1>17. CASE Ended(r)
  <2>1. nextCall' = nextCall /\ r.stage = "ended"
    BY <1>17 DEF Ended, RunQuiet
  <2>2. CASE Retries(r)
    <3>1. PICK r1 : r1 = [r EXCEPT !.stage = IF r.compact THEN "summarise" ELSE "loop",
                                   !.tries = r.tries + 1, !.msgs = 0, !.same = 0, !.calls = {},
                                   !.end = "Completed"]
      OBVIOUS
    <3>2. r1.stage \in {"summarise", "loop"} /\ r1.end = "Completed"
      BY <1>1, <3>1 DEF RunTask
    <3>3. Moves(r, r1) /\ UNCHANGED mailbox
      BY <1>17, <2>2, <3>1 DEF Ended
    <3> QED
      BY <1>2, <1>6, <2>1, <3>2, <3>3
  <2>3. CASE ~Retries(r)
    <3>1. PICK outcome : outcome = IF r.end = "Transient" THEN "Failed" ELSE r.end
      OBVIOUS
    <3>2. Reports(r, outcome, r.seeds)
      BY <1>17, <2>3, <3>1 DEF Ended
    <3>3. outcome = "Stopped" => r.stopped \subseteq Owes(r)
      BY <2>1, <3>1 DEF Owes
    <3> QED
      BY <1>5, <2>1, <3>2, <3>3
  <2> QED
    BY <2>2, <2>3
<1> QED
  BY <1>8, <1>9, <1>10, <1>11, <1>12, <1>13, <1>14, <1>15, <1>16, <1>17 DEF RunInner, RunOuter

-----------------------------------------------------------------------------
(* What a handler does to them *)

\* A handler resolves U, and leaves what else the mail, the tasks and the turns promise.
LEMMA LedgerServed ==
    ASSUME TypeOK, ResultInv, Serving, nextCall' = nextCall,
           mailbox' = mailbox \/ (mailbox # <<>> /\ mailbox' = Tail(mailbox)), NEW U,
           \A x \in {state'} \cup staged' : LogOk(x),
           \/ \A r1 \in runs' : ~Unsaid(r1)
           \/ \A x \in {state'} \cup staged' : Made(x) = Made(state),
           \A x \in Kept' : MissingResults(state) \ U \subseteq MissingResults(x),
           \A i \in 1..Len(mailbox') : Promise(mailbox'[i]) \cap U = {},
           \A r1 \in runs' :
              /\ Shaped(r1)
              /\ Owes(r1) = {} \/ \E r \in runs : Owes(r1) = Owes(r)
              /\ IF Unsaid(r1) THEN \E r \in runs : Unsaid(r) /\ r1.calls = r.calls
                 ELSE \A x \in Kept' : Owes(r1) \subseteq MissingResults(x),
           \A p \in preps' :
              /\ \A x \in Kept' : p.results \subseteq MissingResults(x)
              /\ p \in preps \/ p.results \cap MissingResults(state) = {},
           \A i \in 1..Len(mailbox') : Coarse(mailbox'[i]) =>
              \A r \in runs : Awaits(r, mailbox'[i]) => \E r1 \in runs' : Awaits(r1, mailbox'[i])
    PROVE  ResultInv'
<1>1. Kept = {state} /\ {state} \cup staged = {state}
  BY DEF Serving, Kept
\* Each command left was there.
<1>2. PICK d \in {0, 1} :
         /\ \A i \in 1..Len(mailbox') : i + d \in 1..Len(mailbox) /\ mailbox'[i] = mailbox[i + d]
         /\ Len(mailbox') \in Nat
  <2>1. CASE mailbox' = mailbox
    <3>1. \A i \in 1..Len(mailbox') : i + 0 \in 1..Len(mailbox) /\ mailbox'[i] = mailbox[i + 0]
      BY <2>1
    <3>2. Len(mailbox') \in Nat
      BY <2>1 DEF TypeOK
    <3> QED
      BY <3>1, <3>2
  <2>2. CASE mailbox # <<>> /\ mailbox' = Tail(mailbox)
    <3>1. /\ \A i \in 1..Len(mailbox') : i + 1 \in 1..Len(mailbox) /\ mailbox'[i] = mailbox[i + 1]
          /\ Len(mailbox') \in Nat
      BY <2>2 DEF TypeOK
    <3> QED
      BY <3>1
  <2> QED
    BY <2>1, <2>2
<1>3. ASSUME NEW i \in 1..Len(mailbox')
      PROVE  /\ i + d \in 1..Len(mailbox) /\ mailbox'[i] = mailbox[i + d]
             /\ Promise(mailbox'[i]) \subseteq MissingResults(state)
  <2>1. i + d \in 1..Len(mailbox) /\ mailbox'[i] = mailbox[i + d]
    BY <1>2
  <2>2. Promise(mailbox[i + d]) \subseteq MissingResults(state)
    BY <1>1, <2>1 DEF ResultInv, AllMissing
  <2> QED
    BY <2>1, <2>2
<1>4. MailApart(mailbox)'
  <2>1. ASSUME NEW i \in 1..Len(mailbox'), NEW c \in Promise(mailbox'[i])
        PROVE  /\ \A r1 \in runs' : c \notin Owes(r1)
               /\ \A p \in preps' : c \notin p.results
               /\ \A j \in 1..Len(mailbox') : c \in Promise(mailbox'[j]) => j = i
    <3>1. /\ \A r \in runs : c \notin Owes(r)
          /\ \A p \in preps : c \notin p.results
          /\ \A j \in 1..Len(mailbox) : c \in Promise(mailbox[j]) => j = i + d
      <4>1. i + d \in 1..Len(mailbox) /\ c \in Promise(mailbox[i + d])
        BY <1>3, <2>1
      <4> QED
        BY <4>1 DEF ResultInv, MailApart
    <3>2. c \in MissingResults(state)
      BY <1>3
    <3>3. ASSUME NEW j \in 1..Len(mailbox'), c \in Promise(mailbox'[j]) PROVE j = i
      <4>1. j + d \in 1..Len(mailbox) /\ c \in Promise(mailbox[j + d])
        BY <1>3, <3>3
      <4>2. j + d = i + d
        BY <3>1, <4>1
      <4> QED
        BY <4>2
    <3> QED
      BY <3>1, <3>2, <3>3
  <2> QED
    BY <2>1 DEF MailApart
<1>5. (\A k \in Kept : AllMissing(k, mailbox))'
  <2>1. ASSUME NEW x \in Kept'
        PROVE  /\ \A i \in 1..Len(mailbox') : Promise(mailbox'[i]) \subseteq MissingResults(x)
               /\ \A r1 \in runs' : ~Unsaid(r1) => Owes(r1) \subseteq MissingResults(x)
               /\ \A p \in preps' : p.results \subseteq MissingResults(x)
    BY <1>3
  <2> QED
    BY <2>1 DEF AllMissing
<1>6. FreshCalls'
  <2>1. ASSUME NEW r1 \in runs', Unsaid(r1), NEW c \in r1.calls
        PROVE  c.id < nextCall' /\ \A x \in {state'} \cup staged' : c \notin Made(x)
    <3>1. PICK r \in runs : Unsaid(r) /\ r1.calls = r.calls
      BY <2>1
    <3>2. c.id < nextCall /\ c \notin Made(state)
      BY <2>1, <3>1 DEF ResultInv, FreshCalls
    <3> QED
      BY <2>1, <3>2
  <2> QED
    BY <2>1 DEF FreshCalls
<1>7. CoarseOnce(mailbox)'
  <2>1. ASSUME NEW i \in 1..Len(mailbox'), Coarse(mailbox'[i])
        PROVE  /\ \A j \in 1..Len(mailbox') : Coarse(mailbox'[j]) => j = i
               /\ \E r1 \in runs' : Awaits(r1, mailbox'[i])
    <3>1. i + d \in 1..Len(mailbox) /\ mailbox'[i] = mailbox[i + d] /\ Coarse(mailbox[i + d])
      BY <1>2, <2>1
    <3>2. /\ \A j \in 1..Len(mailbox) : Coarse(mailbox[j]) => j = i + d
          /\ \E r \in runs : Awaits(r, mailbox'[i])
      BY <3>1 DEF ResultInv, CoarseOnce
    <3>3. ASSUME NEW j \in 1..Len(mailbox'), Coarse(mailbox'[j]) PROVE j = i
      <4>1. j + d \in 1..Len(mailbox) /\ Coarse(mailbox[j + d])
        BY <1>2, <3>3
      <4>2. j + d = i + d
        BY <3>2, <4>1
      <4> QED
        BY <4>2
    <3> QED
      BY <2>1, <3>2, <3>3
  <2> QED
    BY <2>1 DEF CoarseOnce
<1>8. RepairFirst(mailbox)'
  <2>1. ASSUME NEW i \in 1..Len(mailbox'), mailbox'[i].kind = "PersistProgress"
        PROVE  /\ mailbox'[i].ev = "repair" => i = 1 /\ mailbox'[i].run = {}
               /\ mailbox'[i].ev # "repair" => mailbox'[i].run # {}
    <3>1. i + d \in 1..Len(mailbox) /\ mailbox'[i] = mailbox[i + d]
      BY <1>2
    <3>2. /\ mailbox'[i].ev = "repair" => i + d = 1 /\ mailbox'[i].run = {}
          /\ mailbox'[i].ev # "repair" => mailbox'[i].run # {}
      BY <2>1, <3>1 DEF ResultInv, RepairFirst
    <3> QED
      BY <3>2
  <2> QED
    BY <2>1 DEF RepairFirst
<1>9. (\A s \in {state} \cup staged : LogOk(s))'
  BY DEF LogOk
<1>10. (\A r \in runs : Shaped(r))'
  OBVIOUS
<1> QED
  BY <1>4, <1>5, <1>6, <1>7, <1>8, <1>9, <1>10 DEF ResultInv

\* A new run owes nothing.
LEMMA NewRunOwes ==
    ASSUME NEW id, NEW turn, NEW choice, NEW r, r = NewRun(id, turn, choice)
    PROVE  Owes(r) = {} /\ ~Unsaid(r) /\ Shaped(r)
BY DEF NewRun, Owes, Unsaid, Shaped

\* A handler carries s into the journal, and at most starts or prepares a turn with the
\* questions of s.
Carries(s) ==
    /\ \A x \in Kept' : /\ LogOk(x) /\ Made(x) = Made(s)
                        /\ MissingResults(s) \subseteq MissingResults(x)
    /\ \A x \in {state'} \cup staged' : x = state \/ x \in Kept'
    /\ runs \subseteq runs'
    /\ \A r1 \in runs' : r1 \in runs \/ (Owes(r1) = {} /\ ~Unsaid(r1) /\ Shaped(r1))
    /\ \A p \in preps' : \/ p \in preps
                         \/ /\ p.results \cap MissingResults(s) = {}
                            /\ \A x \in Kept' : p.results \subseteq MissingResults(x)

\* A handler that leaves s carries it.
LEMMA LeavesCarries ==
    ASSUME NEW s, LogOk(s), Leaves(s), UNCHANGED <<runs, preps>>
    PROVE  Carries(s)
BY LeavesKept DEF Carries

\* So does one that begins a turn with the questions of s.
LEMMA StartsCarries ==
    ASSUME NEW s \in AgentState, LogOk(s), NEW turn \in Turn, turn.results = s.asks,
           Starts(turn, s)
    PROVE  Carries(s)
<1>1. PICK k : k = Taken(turn, s)
  OBVIOUS
<1>2. /\ LogOk(k) /\ Made(k) = Made(s) /\ MissingResults(s) \subseteq MissingResults(k)
      /\ HookDue(turn) => turn.results \subseteq MissingResults(k)
  BY <1>1, TakenLog
<1>3. Kept' = {k} /\ state' \in {state, k} /\ staged' \subseteq {k}
  BY <1>1, LeavesKept DEF Starts
<1>4. turn.results \cap MissingResults(s) = {}
  BY DEF MissingResults
<1>5. CASE HookDue(turn)
  <2>1. preps' = preps \cup {turn} /\ runs' = runs
    BY <1>5 DEF Starts
  <2> QED
    BY <1>2, <1>3, <1>4, <1>5, <2>1 DEF Carries
<1>6. CASE ~HookDue(turn)
  <2>1. PICK r1, choice : r1 = NewRun(nextRun, turn, choice) /\ runs' = runs \cup {r1}
    BY <1>6 DEF Starts, StartRun
  <2>2. Owes(r1) = {} /\ ~Unsaid(r1) /\ Shaped(r1)
    BY <2>1, NewRunOwes
  <2>3. preps' = preps
    BY <1>6 DEF Starts
  <2> QED
    BY <1>2, <1>3, <2>1, <2>2, <2>3 DEF Carries
<1> QED
  BY <1>5, <1>6

\* And so does one that drains the queue.
LEMMA OutcomeCarries ==
    ASSUME NEW s \in AgentState, LogOk(s), Outcome(s)
    PROVE  Carries(s)
<1>1. CASE Leaves(s) /\ UNCHANGED <<runs, preps>>
  BY <1>1, LeavesCarries
<1>2. CASE \E turn \in QueuedTurn(s) : Starts(turn, s)
  <2>1. PICK turn \in QueuedTurn(s) : Starts(turn, s)
    BY <1>2
  <2>2. turn \in Turn /\ turn.results = s.asks
    BY DEF QueuedTurn, AgentState, Turn
  <2> QED
    BY <2>1, <2>2, StartsCarries
<1> QED
  BY <1>1, <1>2 DEF Outcome

\* A handler that writes nothing keeps the invariant.
LEMMA LedgerCarried ==
    ASSUME TypeOK, ResultInv, Serving, nextCall' = nextCall,
           mailbox' = mailbox \/ (mailbox # <<>> /\ mailbox' = Tail(mailbox)),
           NEW s, s.log = state.log, s.asks = state.asks, Carries(s)
    PROVE  ResultInv'
<1>1. LogOk(state) /\ Kept = {state}
  BY DEF ResultInv, Serving, Kept
<1>2. Made(s) = Made(state) /\ MissingResults(s) = MissingResults(state)
  BY DEF Made, MissingResults, CallsIn
<1>3. \A x \in Kept' : /\ LogOk(x) /\ Made(x) = Made(state)
                       /\ MissingResults(state) \subseteq MissingResults(x)
  BY <1>2 DEF Carries
<1>4. \A x \in {state'} \cup staged' : LogOk(x) /\ Made(x) = Made(state)
  BY <1>1, <1>3 DEF Carries
<1>5. \A r \in runs : Shaped(r) /\ (~Unsaid(r) => Owes(r) \subseteq MissingResults(state))
  BY <1>1 DEF ResultInv, AllMissing
<1>6. \A p \in preps : p.results \subseteq MissingResults(state)
  BY <1>1 DEF ResultInv, AllMissing
<1>7. ASSUME NEW r1 \in runs'
      PROVE  /\ Shaped(r1)
             /\ Owes(r1) = {} \/ \E r \in runs : Owes(r1) = Owes(r)
             /\ IF Unsaid(r1) THEN \E r \in runs : Unsaid(r) /\ r1.calls = r.calls
                ELSE \A x \in Kept' : Owes(r1) \subseteq MissingResults(x)
  <2>1. CASE r1 \in runs
    BY <1>3, <1>5, <2>1
  <2>2. CASE r1 \notin runs
    <3>1. Owes(r1) = {} /\ ~Unsaid(r1) /\ Shaped(r1)
      BY <2>2 DEF Carries
    <3> QED
      BY <3>1
  <2> QED
    BY <2>1, <2>2
<1>8. ASSUME NEW p \in preps'
      PROVE  /\ \A x \in Kept' : p.results \subseteq MissingResults(x)
             /\ p \in preps \/ p.results \cap MissingResults(state) = {}
  BY <1>2, <1>3, <1>6 DEF Carries
<1>9. \A i \in 1..Len(mailbox') : Coarse(mailbox'[i]) =>
         \A r \in runs : Awaits(r, mailbox'[i]) => \E r1 \in runs' : Awaits(r1, mailbox'[i])
  BY DEF Carries
<1>10. /\ \A x \in Kept' : MissingResults(state) \ {} \subseteq MissingResults(x)
       /\ \A i \in 1..Len(mailbox') : Promise(mailbox'[i]) \cap {} = {}
  BY <1>3
<1> QED
  BY <1>4, <1>7, <1>8, <1>9, <1>10, LedgerServed

\* A command that promises nothing is posted, or none, and nothing else is done to them.
LEMMA LedgerPosted ==
    ASSUME TypeOK, ResultInv, nextCall' = nextCall, runs' = runs, preps' = preps,
           NEW cmd, Promise(cmd) = {}, cmd.kind # "PersistProgress",
           mailbox' = mailbox \/ mailbox' = Append(mailbox, cmd),
           \A x \in {state'} \cup staged' : \E s \in {state} \cup staged :
              x.log = s.log /\ x.asks = s.asks,
           \A x \in Kept' : \E s \in Kept : x.log = s.log /\ x.asks = s.asks
    PROVE  ResultInv'
<1>1. ASSUME NEW x, NEW s, x.log = s.log, x.asks = s.asks
      PROVE  /\ Made(x) = Made(s) /\ MissingResults(x) = MissingResults(s)
             /\ LogOk(s) => LogOk(x)
  BY <1>1 DEF Made, Resolved, MissingResults, CallsIn, LogOk
<1>2. (\A s \in {state} \cup staged : LogOk(s))'
  <2>1. ASSUME NEW x \in {state'} \cup staged' PROVE LogOk(x)'
    <3>1. PICK s \in {state} \cup staged : x.log = s.log /\ x.asks = s.asks
      OBVIOUS
    <3>2. LogOk(x)
      BY <1>1, <3>1 DEF ResultInv
    <3> QED
      BY <3>2 DEF LogOk
  <2> QED
    BY <2>1
<1>3. FreshCalls'
  <2>1. ASSUME NEW r \in runs, Unsaid(r), NEW c \in r.calls, NEW x \in {state'} \cup staged'
        PROVE  c \notin Made(x)
    <3>1. PICK s \in {state} \cup staged : x.log = s.log /\ x.asks = s.asks
      OBVIOUS
    <3> QED
      BY <1>1, <2>1, <3>1 DEF ResultInv, FreshCalls
  <2> QED
    BY <2>1 DEF ResultInv, FreshCalls
<1>4. ASSUME NEW x \in Kept' PROVE AllMissing(x, mailbox)
  <2>1. PICK s \in Kept : x.log = s.log /\ x.asks = s.asks
    OBVIOUS
  <2>2. AllMissing(s, mailbox) /\ MissingResults(x) = MissingResults(s)
    BY <1>1, <2>1 DEF ResultInv
  <2> QED
    BY <2>2 DEF AllMissing
<1>5. (\A r \in runs : Shaped(r))'
  BY DEF ResultInv
<1>6. CASE mailbox' = mailbox
  <2>1. MailApart(mailbox)' /\ CoarseOnce(mailbox)' /\ RepairFirst(mailbox)'
    BY <1>6 DEF ResultInv, MailApart, CoarseOnce, RepairFirst
  <2>2. (\A k \in Kept : AllMissing(k, mailbox))'
    BY <1>4, <1>6 DEF AllMissing
  <2> QED
    BY <1>2, <1>3, <1>5, <2>1, <2>2 DEF ResultInv
<1>7. CASE mailbox' = Append(mailbox, cmd)
  <2>1. /\ Len(mailbox') = Len(mailbox) + 1 /\ Len(mailbox) \in Nat
        /\ mailbox'[Len(mailbox')] = cmd
        /\ \A i \in 1..Len(mailbox) : mailbox'[i] = mailbox[i]
        /\ \A i \in 1..Len(mailbox') : i \in 1..Len(mailbox) \/ i = Len(mailbox')
    BY <1>7, MailPosted
  <2>2. MailApart(mailbox)'
    BY <2>1 DEF ResultInv, MailApart
  <2>3. CoarseOnce(mailbox)' /\ RepairFirst(mailbox)'
    BY <2>1 DEF ResultInv, CoarseOnce, RepairFirst, Coarse
  <2>4. (\A k \in Kept : AllMissing(k, mailbox))'
    BY <1>4, <2>1 DEF AllMissing
  <2> QED
    BY <1>2, <1>3, <1>5, <2>2, <2>3, <2>4 DEF ResultInv
<1> QED
  BY <1>6, <1>7

\* What comes from outside keeps the invariant, and so do the process's end and return.
LEMMA LedgerOutside ==
    ASSUME TypeOK, RunInv, TimerInv, ResultInv, Outside
    PROVE  ResultInv'
<1>1. state \in AgentState /\ Here \in Handled /\ Here.state = state
  BY HereType DEF TypeOK, Here
<1>2. Serving => Kept = {state} /\ staged = {}
  BY DEF Serving, Kept
<1>3. ASSUME NEW s, s.log = state.log, s.asks = state.asks PROVE LogOk(s)
  BY <1>3 DEF ResultInv, LogOk, Made, Resolved, CallsIn
<1>4. ASSUME NEW s, Serving, s.log = state.log, s.asks = state.asks, state' = s, staged' = staged,
             runs' = runs, preps' = preps, nextCall' = nextCall, NEW cmd, cmd.kind = "Drain",
             mailbox' = mailbox \/ mailbox' = Append(mailbox, cmd)
      PROVE  ResultInv'
  <2>1. Promise(cmd) = {} /\ cmd.kind # "PersistProgress"
    BY <1>4 DEF Promise
  <2>2. Kept' = {s} /\ {state'} \cup staged' = {s} /\ Kept = {state}
    BY <1>2, <1>4 DEF Kept
  <2> QED
    BY <1>4, <2>1, <2>2, LedgerPosted
<1> DEFINE drain == [kind |-> "Drain"]
<1>5. drain.kind = "Drain"
  OBVIOUS
<1>6. ASSUME NEW item \in Incoming, Enqueue(item) PROVE ResultInv'
  <2>1. PICK s : s = ApplyReceived(state, item)
    OBVIOUS
  <2>2. s.log = state.log /\ s.asks = state.asks
    BY <1>1, <2>1, FoldParts DEF Parts
  <2>3. /\ Serving /\ state' = s /\ mailbox' = Append(mailbox, drain)
        /\ UNCHANGED <<staged, runs, preps, nextCall>>
    BY <1>6, <2>1 DEF Enqueue
  <2> HIDE DEF drain
  <2> QED
    BY <1>4, <1>5, <2>2, <2>3
<1>7. ASSUME NEW answers \in SUBSET state.asks, Answer(answers) PROVE ResultInv'
  <2>1. PICK turn \in AnsweredTurn(state, answers) : BeginTurn(turn, Here)
    BY <1>7 DEF Answer
  <2>2. Starts(turn, state)
    BY <1>1, <2>1, BeginTurnStarts
  <2>3. turn \in Turn /\ turn.results = state.asks
    <3>1. state.asks \in SUBSET Call
      BY <1>1 DEF AgentState
    <3> QED
      BY <1>1, <2>1, <3>1 DEF AnsweredTurn, Turn, AgentState
  <2>4. Carries(state)
    BY <1>1, <1>3, <2>2, <2>3, StartsCarries
  <2> QED
    BY <1>7, <2>4, LedgerCarried DEF Answer
<1>8. CASE Cancel
  <2>1. /\ Serving /\ UNCHANGED <<state, staged, mailbox, preps, nextCall>>
        /\ runs' = {IF r.id \in running THEN [r EXCEPT !.cancelled = TRUE] ELSE r : r \in runs}
    BY <1>8 DEF Cancel, durable
  <2>2. Kept' = {state} /\ Kept = {state} /\ {state'} \cup staged' = {state}
    BY <1>2, <2>1 DEF Kept
  <2>3. ASSUME NEW r1 \in runs'
        PROVE  \E r \in runs : /\ Owes(r1) = Owes(r) /\ (Unsaid(r1) <=> Unsaid(r))
                               /\ (Shaped(r1) <=> Shaped(r)) /\ r1.calls = r.calls
    <3>1. PICK r \in runs : r1 = r \/ r1 = [r EXCEPT !.cancelled = TRUE]
      BY <2>1
    <3>2. r \in RunTask
      BY DEF TypeOK
    <3>3. /\ r1.stage = r.stage /\ r1.waiting = r.waiting /\ r1.calls = r.calls
          /\ r1.open = r.open /\ r1.stopped = r.stopped /\ r1.end = r.end
      BY <3>1, <3>2 DEF RunTask
    <3> QED
      BY <3>3 DEF Owes, Unsaid, Shaped
  <2>4. ASSUME NEW r \in runs, NEW cmd, Awaits(r, cmd) PROVE \E r1 \in runs' : Awaits(r1, cmd)
    <3>1. PICK r1 \in runs' : r1 = r \/ r1 = [r EXCEPT !.cancelled = TRUE]
      BY <2>1
    <3>2. r \in RunTask
      BY DEF TypeOK
    <3>3. /\ r1.id = r.id /\ r1.waiting = r.waiting /\ r1.stage = r.stage
          /\ r1.calls = r.calls
      BY <3>1, <3>2 DEF RunTask
    <3>4. Awaits(r1, cmd)
      BY <2>4, <3>3 DEF Awaits
    <3> QED
      BY <3>4
  <2>5. \A x \in {state'} \cup staged' : LogOk(x) /\ Made(x) = Made(state)
    BY <1>3, <2>2
  <2>6. \A x \in Kept' : MissingResults(state) \ {} \subseteq MissingResults(x)
    BY <2>2
  <2>7. \A i \in 1..Len(mailbox') : Promise(mailbox'[i]) \cap {} = {}
    OBVIOUS
  <2>8. AllMissing(state, mailbox) /\ (\A r \in runs : Shaped(r))
    BY <2>2 DEF ResultInv
  <2>9. ASSUME NEW r1 \in runs'
        PROVE  /\ Shaped(r1)
               /\ Owes(r1) = {} \/ \E r \in runs : Owes(r1) = Owes(r)
               /\ IF Unsaid(r1) THEN \E r \in runs : Unsaid(r) /\ r1.calls = r.calls
                  ELSE \A x \in Kept' : Owes(r1) \subseteq MissingResults(x)
    <3>1. PICK r \in runs : /\ Owes(r1) = Owes(r) /\ (Unsaid(r1) <=> Unsaid(r))
                            /\ (Shaped(r1) <=> Shaped(r)) /\ r1.calls = r.calls
      BY <2>3
    <3>2. ~Unsaid(r) => Owes(r) \subseteq MissingResults(state)
      BY <2>8 DEF AllMissing
    <3> QED
      BY <2>2, <2>8, <3>1, <3>2
  <2>10. ASSUME NEW p \in preps'
         PROVE  /\ \A x \in Kept' : p.results \subseteq MissingResults(x)
                /\ p \in preps \/ p.results \cap MissingResults(state) = {}
    BY <2>1, <2>2, <2>8 DEF AllMissing
  <2>11. \A i \in 1..Len(mailbox') : Coarse(mailbox'[i]) =>
            \A r \in runs : Awaits(r, mailbox'[i]) => \E r1 \in runs' : Awaits(r1, mailbox'[i])
    BY <2>4
  <2> QED
    BY <2>1, <2>5, <2>6, <2>7, <2>9, <2>10, <2>11, LedgerServed
<1>9. ASSUME NEW next \in BOOLEAN, RecordRuntime(next) PROVE ResultInv'
  <2>1. PICK s : s = ApplyLifecycle(state, state.children)
    OBVIOUS
  <2>2. s \in AgentState /\ s.log = state.log /\ s.asks = state.asks
    <3>1. state.children \in Nat
      BY <1>1 DEF AgentState
    <3>2. s \in AgentState
      BY <1>1, <2>1, <3>1, QueueFoldTypes
    <3>3. s.log = state.log /\ s.asks = state.asks
      BY <1>1, <2>1, FoldParts DEF Parts
    <3> QED
      BY <3>2, <3>3
  <2>3. PICK h : h = [Here EXCEPT !.state = s, !.ready = next]
    OBVIOUS
  <2>4. h.state = s /\ TryDrain(h)
    BY <1>1, <1>9, <2>1, <2>3 DEF Handled, RecordRuntime
  <2>5. Carries(s)
    BY <1>3, <2>2, <2>4, TryDrainOutcome, OutcomeCarries
  <2> QED
    BY <1>9, <2>2, <2>5, LedgerCarried DEF RecordRuntime
<1>10. ASSUME NEW children \in 0..MaxChildren, RecordChild(children) PROVE ResultInv'
  <2>1. PICK s : s = ApplyLifecycle(state, children)
    OBVIOUS
  <2>2. s.log = state.log /\ s.asks = state.asks
    <3>1. Parts(ApplyLifecycle(state, children), state.inbox, state.asks, state.timers,
                state.log)
      BY <1>1, FoldParts
    <3> QED
      BY <2>1, <3>1 DEF Parts
  <2> QED
    BY <1>4, <1>5, <1>10, <2>1, <2>2 DEF RecordChild, tasks, ghosts
<1>11. ASSUME NEW t \in Timers, ArmTimer(t) PROVE ResultInv'
  <2>1. PICK s : s = ApplyTimerArmed(state, t)
    OBVIOUS
  <2>2. s.log = state.log /\ s.asks = state.asks
    <3>1. Parts(ApplyTimerArmed(state, t), state.inbox, state.asks, state.timers \cup {t},
                state.log)
      BY <1>1, FoldParts
    <3> QED
      BY <2>1, <3>1 DEF Parts
  <2> QED
    BY <1>4, <1>5, <1>11, <2>1, <2>2 DEF ArmTimer
<1>12. ASSUME NEW ts \in SUBSET Timers, CancelTimer(ts) PROVE ResultInv'
  <2>1. PICK s : s = ApplyTimerCancelled(state, ts)
    OBVIOUS
  <2>2. s.log = state.log /\ s.asks = state.asks
    <3>1. Parts(ApplyTimerCancelled(state, ts), state.inbox, state.asks, state.timers \ ts,
                state.log)
      BY <1>1, FoldParts
    <3> QED
      BY <2>1, <3>1 DEF Parts
  <2> QED
    BY <1>4, <1>5, <1>12, <2>1, <2>2 DEF CancelTimer, tasks, ghosts
\* With no mail, no task and no turn prepared, a good log is all there is to it.
<1>13. ASSUME Len(mailbox') = 0, runs' = {}, preps' = {}, state' = state, staged' = {},
              nextCall' = nextCall
       PROVE  ResultInv'
  <2>1. (\A s \in {state} \cup staged : LogOk(s))'
    BY <1>13 DEF ResultInv, LogOk
  <2> QED
    BY <1>13, <2>1
       DEF ResultInv, MailApart, AllMissing, FreshCalls, CoarseOnce, RepairFirst
<1>14. CASE Unload
  <2>1. Len(mailbox') = 0
    BY <1>14 DEF Unload
  <2> QED
    BY <1>13, <1>14, <2>1 DEF Unload
<1>15. ASSUME NEW isReady \in BOOLEAN, Load(isReady) PROVE ResultInv'
  <2>1. ~live /\ UNCHANGED <<state, staged, preps, nextCall>>
    BY <1>15 DEF Load, durable
  <2>2. runs = {} /\ preps' = {} /\ staged' = {} /\ Kept' = {state}
    BY <2>1 DEF RunInv, Gone, TimerInv, Kept
  <2>3. ASSUME NEW r1 \in runs' PROVE Owes(r1) = {} /\ ~Unsaid(r1) /\ Shaped(r1)
    <3>1. PICK turn, choice : runs' = runs \/ runs' = runs \cup {NewRun(nextRun, turn, choice)}
      BY <1>15 DEF Load, StartRun
    <3>2. r1 = NewRun(nextRun, turn, choice)
      BY <2>2, <3>1
    <3> QED
      BY <3>2, NewRunOwes
  <2>4. PICK cmd : cmd = [kind |-> "PersistProgress", run |-> {}, ev |-> "repair",
                          calls |-> MissingResults(state)]
    OBVIOUS
  <2>5. mailbox' = <<>> \/ mailbox' = <<cmd>>
    BY <1>15, <2>4 DEF Load
  <2>6. \A i \in 1..Len(mailbox') : i = 1 /\ mailbox'[i] = cmd /\ Len(mailbox') = 1
    <3>1. CASE mailbox' = <<>>
      BY <3>1
    <3>2. CASE mailbox' = <<cmd>>
      <4>1. Len(mailbox') = 1 /\ mailbox'[1] = cmd
        BY <3>2
      <4> QED
        BY <4>1
    <3> QED
      BY <2>5, <3>1, <3>2
  <2>7. /\ cmd.kind = "PersistProgress" /\ cmd.ev = "repair" /\ cmd.run = {}
        /\ Promise(cmd) = MissingResults(state) /\ ~Coarse(cmd)
    BY <2>4 DEF Promise, Coarse
  <2>8. (\A s \in {state} \cup staged : LogOk(s))'
    BY <2>1, <2>2 DEF ResultInv, LogOk
  <2>9. MailApart(mailbox)'
    BY <2>2, <2>3, <2>6 DEF MailApart
  <2>10. (\A k \in Kept : AllMissing(k, mailbox))'
    BY <2>2, <2>3, <2>6, <2>7 DEF AllMissing
  <2>11. FreshCalls' /\ (\A r \in runs : Shaped(r))'
    BY <2>3 DEF FreshCalls
  <2>12. CoarseOnce(mailbox)' /\ RepairFirst(mailbox)'
    BY <2>6, <2>7 DEF CoarseOnce, RepairFirst
  <2> QED
    BY <2>8, <2>9, <2>10, <2>11, <2>12 DEF ResultInv
<1> QED
  BY <1>6, <1>7, <1>8, <1>9, <1>10, <1>11, <1>12, <1>14, <1>15 DEF Outside

\* What is promised behind a command is not what it promises.
LEMMA LedgerHead ==
    ASSUME TypeOK, ResultInv, Serving, mailbox # <<>>, mailbox' = Tail(mailbox),
           NEW cmd, cmd = Head(mailbox)
    PROVE  /\ Promise(cmd) \subseteq MissingResults(state)
           /\ \A i \in 1..Len(mailbox') : Promise(mailbox'[i]) \cap Promise(cmd) = {}
           /\ \A r \in runs : Owes(r) \cap Promise(cmd) = {}
           /\ \A p \in preps : p.results \cap Promise(cmd) = {}
           /\ RepairFirst(<<cmd>>)
           /\ Coarse(cmd) => /\ \A i \in 1..Len(mailbox') : ~Coarse(mailbox'[i])
                             /\ \E r \in runs : Awaits(r, cmd)
<1>1. /\ Len(mailbox) \in Nat /\ Len(mailbox') = Len(mailbox) - 1 /\ 1 \in 1..Len(mailbox)
      /\ mailbox[1] = cmd
      /\ \A i \in 1..Len(mailbox') : i + 1 \in 1..Len(mailbox) /\ mailbox'[i] = mailbox[i + 1]
  BY DEF TypeOK
<1>2. AllMissing(state, mailbox)
  BY DEF Serving, Kept, ResultInv
<1>3. ASSUME NEW i \in 1..Len(mailbox'), NEW c \in Promise(mailbox'[i]), c \in Promise(cmd)
      PROVE  FALSE
  <2>1. i + 1 \in 1..Len(mailbox) /\ c \in Promise(mailbox[1]) /\ c \in Promise(mailbox[i + 1])
    BY <1>1, <1>3
  <2>2. \A j \in 1..Len(mailbox) : c \in Promise(mailbox[j]) => j = 1
    BY <1>1, <2>1 DEF ResultInv, MailApart
  <2>3. i + 1 = 1
    BY <2>1, <2>2
  <2> QED
    BY <1>1, <2>3
<1>4. \A r \in runs : Owes(r) \cap Promise(cmd) = {}
  BY <1>1 DEF ResultInv, MailApart
<1>5. \A p \in preps : p.results \cap Promise(cmd) = {}
  BY <1>1 DEF ResultInv, MailApart
<1>6. Promise(cmd) \subseteq MissingResults(state)
  BY <1>1, <1>2 DEF AllMissing
<1>7. RepairFirst(<<cmd>>)
  <2>1. Len(<<cmd>>) = 1 /\ <<cmd>>[1] = cmd
    OBVIOUS
  <2> QED
    BY <1>1, <2>1 DEF ResultInv, RepairFirst
<1>8. ASSUME Coarse(cmd)
      PROVE  /\ \A i \in 1..Len(mailbox') : ~Coarse(mailbox'[i])
             /\ \E r \in runs : Awaits(r, cmd)
  <2>1. /\ \A j \in 1..Len(mailbox) : Coarse(mailbox[j]) => j = 1
        /\ \E r \in runs : Awaits(r, cmd)
    BY <1>1, <1>8 DEF ResultInv, CoarseOnce
  <2>2. ASSUME NEW i \in 1..Len(mailbox'), Coarse(mailbox'[i]) PROVE FALSE
    <3>1. i + 1 \in 1..Len(mailbox) /\ Coarse(mailbox[i + 1])
      BY <1>1, <2>2
    <3>2. i + 1 = 1
      BY <2>1, <3>1
    <3> QED
      BY <3>2
  <2> QED
    BY <2>1, <2>2
<1> QED
  BY <1>3, <1>4, <1>5, <1>6, <1>7, <1>8

\* A call with a result was made.
LEMMA ResolvedMade ==
    ASSUME NEW s \in AgentState, SoundLog(s.log)
    PROVE  Resolved(s) \subseteq Made(s)
<1>1. ASSUME NEW c \in Resolved(s) PROVE c \in Made(s)
  <2>1. PICK i \in 1..Len(s.log) : s.log[i].t = "result" /\ c \in s.log[i].calls
    BY CallsFound DEF Resolved
  <2>2. PICK j \in 1..(i - 1) : s.log[j].t = "msg" /\ c \in s.log[j].calls
    BY <2>1 DEF SoundLog
  <2>3. Len(s.log) \in Nat
    BY DEF AgentState
  <2>4. j \in 1..Len(s.log)
    BY <2>3
  <2> QED
    BY <2>2, <2>4, CallsFound DEF Made
<1> QED
  BY <1>1

\* An ack changes nothing of what a task owes, and at most ends its wait.
LEMMA AckOwes ==
    ASSUME NEW r \in RunTask, NEW cmd, NEW r1, r1 = Acked(r, cmd)
    PROVE  /\ Owes(r1) = Owes(r) /\ (Shaped(r1) <=> Shaped(r))
           /\ r1.id = r.id /\ r1.stage = r.stage /\ r1.calls = r.calls
           /\ IF r.id \notin cmd.run \/ cmd.ev = "result" THEN r1.waiting = r.waiting
              ELSE ~r1.waiting
<1>1. /\ r1.id = r.id /\ r1.stage = r.stage /\ r1.calls = r.calls /\ r1.open = r.open
      /\ r1.stopped = r.stopped /\ r1.end = r.end
      /\ IF r.id \notin cmd.run \/ cmd.ev = "result" THEN r1.waiting = r.waiting
         ELSE ~r1.waiting
  BY DEF Acked, RunTask
<1> QED
  BY <1>1 DEF Owes, Shaped

\* An event of a run's task, or the repair, is written.
LEMMA LedgerWrites ==
    ASSUME TypeOK, RunInv, ResultInv, PersistProgress
    PROVE  ResultInv'
<1>1. PICK cmd : cmd = Head(mailbox)
  OBVIOUS
<1>2. /\ Serving /\ mailbox # <<>> /\ mailbox' = Tail(mailbox)
      /\ cmd.kind = "PersistProgress" /\ cmd.calls \in SUBSET Call
      /\ cmd.ev \in {"msg", "result", "complete", "aborted", "compacted", "repair"}
  <2>1. Receive("PersistProgress")
    BY DEF PersistProgress
  <2>2. cmd \in Command /\ cmd.kind = "PersistProgress"
    BY <1>1, <2>1, ReceiveType
  <2> QED
    BY <2>1, <2>2, CommandFields DEF Receive
<1>3. PICK calls \in SUBSET Call : calls = cmd.calls
  BY <1>2
<1>4. PICK s1 : s1 = state'
  OBVIOUS
<1>5. /\ s1 = ApplyProgress(state, cmd.ev, calls) /\ runs' = {Acked(r, cmd) : r \in runs}
      /\ staged' = {} /\ preps' = preps /\ nextCall' = nextCall
  BY <1>1, <1>2, <1>3, <1>4 DEF PersistProgress, actor, ghosts, Serving
<1>6. /\ Kept = {state} /\ LogOk(state) /\ AllMissing(state, mailbox) /\ state \in AgentState
      /\ SoundLog(state.log)
  BY <1>2 DEF Serving, Kept, ResultInv, TypeOK, LogOk
<1>7. Kept' = {s1} /\ {state'} \cup staged' = {s1}
  BY <1>4, <1>5 DEF Kept
<1>8. /\ Promise(cmd) \subseteq MissingResults(state)
      /\ \A i \in 1..Len(mailbox') : Promise(mailbox'[i]) \cap Promise(cmd) = {}
      /\ \A r \in runs : Owes(r) \cap Promise(cmd) = {}
      /\ \A p \in preps : p.results \cap Promise(cmd) = {}
      /\ RepairFirst(<<cmd>>)
      /\ Coarse(cmd) => /\ \A i \in 1..Len(mailbox') : ~Coarse(mailbox'[i])
                        /\ \E r \in runs : Awaits(r, cmd)
  BY <1>1, <1>2, LedgerHead
<1>9. s1 \in AgentState
  <2>1. TypeOK'
    BY HandleCommandType DEF HandleCommand
  <2> QED
    BY <1>4, <2>1 DEF TypeOK
<1>10. ASSUME NEW r1 \in runs'
       PROVE  \E r \in runs :
                /\ Owes(r1) = Owes(r) /\ Shaped(r1)
                /\ r1.id = r.id /\ r1.stage = r.stage /\ r1.calls = r.calls
                /\ IF r.id \notin cmd.run \/ cmd.ev = "result" THEN r1.waiting = r.waiting
                   ELSE ~r1.waiting
  <2>1. PICK r \in runs : r1 = Acked(r, cmd)
    BY <1>5
  <2>2. r \in RunTask /\ Shaped(r)
    BY DEF TypeOK, ResultInv
  <2> QED
    BY <2>1, <2>2, AckOwes
<1>11. CASE cmd.ev \in {"result", "repair"}
  <2>1. Promise(cmd) = calls
    BY <1>2, <1>3, <1>11 DEF Promise
  <2>2. s1.log = state.log \o <<ResultEntry(calls)>> /\ s1.asks = state.asks
    <3>1. s1 = Logged(state, <<ResultEntry(calls)>>) \/ s1 = ApplyInput(state, ResultEntry(calls))
      BY <1>5, <1>11 DEF ApplyProgress
    <3>2. /\ Logged(state, <<ResultEntry(calls)>>).log = state.log \o <<ResultEntry(calls)>>
          /\ Logged(state, <<ResultEntry(calls)>>).asks = state.asks
      BY <1>6, LogJoined
    <3>3. /\ ApplyInput(state, ResultEntry(calls)).log = state.log \o <<ResultEntry(calls)>>
          /\ ApplyInput(state, ResultEntry(calls)).asks = state.asks
      BY <1>6, LogJoined
    <3> QED
      BY <3>1, <3>2, <3>3
  <2>3. /\ SoundLog(s1.log) /\ Made(s1) = Made(state)
        /\ Resolved(s1) = Resolved(state) \cup calls
    <3>1. calls \subseteq Made(state) \ Resolved(state)
      BY <1>8, <2>1 DEF MissingResults, Made, Resolved
    <3> QED
      BY <1>6, <1>9, <2>2, <3>1, ResultWritten
  <2>4. LogOk(s1) /\ MissingResults(state) \ calls \subseteq MissingResults(s1)
    <3>1. calls \cap state.asks = {}
      BY <1>8, <2>1 DEF MissingResults
    <3>2. LogOk(s1)
      BY <1>6, <2>2, <2>3, <3>1 DEF LogOk
    <3> QED
      BY <2>2, <2>3, <3>2 DEF MissingResults, Made, Resolved
  <2>5. ASSUME NEW r \in runs PROVE r.id \notin cmd.run \/ cmd.ev = "result"
    <3>1. cmd.ev = "repair" => cmd.run = {}
      <4>1. Len(<<cmd>>) = 1 /\ <<cmd>>[1] = cmd
        OBVIOUS
      <4> QED
        BY <1>2, <1>8, <4>1 DEF RepairFirst
    <3> QED
      BY <1>11, <3>1
  <2>6. ASSUME NEW r1 \in runs'
        PROVE  /\ Shaped(r1)
               /\ Owes(r1) = {} \/ \E r \in runs : Owes(r1) = Owes(r)
               /\ IF Unsaid(r1) THEN \E r \in runs : Unsaid(r) /\ r1.calls = r.calls
                  ELSE \A x \in Kept' : Owes(r1) \subseteq MissingResults(x)
    <3>1. PICK r \in runs : /\ Owes(r1) = Owes(r) /\ Shaped(r1) /\ r1.calls = r.calls
                            /\ r1.stage = r.stage /\ r1.waiting = r.waiting
      BY <1>10, <2>5
    <3>2. Unsaid(r1) <=> Unsaid(r)
      BY <3>1 DEF Unsaid
    <3>3. ~Unsaid(r) => Owes(r) \subseteq MissingResults(state)
      BY <1>6 DEF AllMissing
    <3>4. Owes(r) \cap calls = {}
      BY <1>8, <2>1
    <3> QED
      BY <1>7, <2>4, <3>1, <3>2, <3>3, <3>4
  <2>7. ASSUME NEW p \in preps'
        PROVE  /\ \A x \in Kept' : p.results \subseteq MissingResults(x)
               /\ p \in preps \/ p.results \cap MissingResults(state) = {}
    <3>1. p \in preps /\ p.results \subseteq MissingResults(state) /\ p.results \cap calls = {}
      BY <1>5, <1>6, <1>8, <2>1 DEF AllMissing
    <3> QED
      BY <1>7, <2>4, <3>1
  <2>8. ASSUME NEW m, NEW r \in runs, Awaits(r, m) PROVE \E r1 \in runs' : Awaits(r1, m)
    <3>1. PICK r1 \in runs' : r1 = Acked(r, cmd)
      BY <1>5
    <3>2. r \in RunTask
      BY DEF TypeOK
    <3>3. r1.id = r.id /\ r1.stage = r.stage /\ r1.calls = r.calls /\ r1.waiting = r.waiting
      BY <2>5, <3>1, <3>2, AckOwes
    <3>4. Awaits(r1, m)
      BY <2>8, <3>3 DEF Awaits
    <3> QED
      BY <3>4
  <2>9. \A i \in 1..Len(mailbox') : Promise(mailbox'[i]) \cap calls = {}
    BY <1>8, <2>1
  <2>10. \A x \in {state'} \cup staged' : LogOk(x) /\ Made(x) = Made(state)
    BY <1>7, <2>3, <2>4
  <2>11. \A x \in Kept' : MissingResults(state) \ calls \subseteq MissingResults(x)
    BY <1>7, <2>4
  <2> QED
    BY <1>2, <1>5, <2>6, <2>7, <2>8, <2>9, <2>10, <2>11, LedgerServed
\* A coarse event ends the wait of the one task, and none is left.
<1>12. ASSUME cmd.ev \notin {"result", "repair"}
       PROVE  /\ \A i \in 1..Len(mailbox') : ~Coarse(mailbox'[i])
              /\ \E r \in runs : /\ Awaits(r, cmd) /\ runs = {r}
                                 /\ \A r1 \in runs' : /\ Owes(r1) = Owes(r) /\ Shaped(r1)
                                                      /\ ~Unsaid(r1)
  <2>1. Coarse(cmd)
    BY <1>2, <1>12 DEF Coarse
  <2>2. PICK r \in runs : Awaits(r, cmd)
    BY <1>8, <2>1
  <2>3. runs = {r} /\ r.id \in cmd.run
    BY <2>2 DEF RunInv, Held, Awaits
  <2>4. ASSUME NEW r1 \in runs' PROVE Owes(r1) = Owes(r) /\ Shaped(r1) /\ ~Unsaid(r1)
    <3>1. Owes(r1) = Owes(r) /\ Shaped(r1) /\ ~r1.waiting
      BY <1>10, <1>12, <2>3
    <3> QED
      BY <3>1 DEF Unsaid
  <2> QED
    BY <1>8, <2>1, <2>2, <2>3, <2>4
<1>13. ASSUME cmd.ev \notin {"result", "repair"}, LogOk(s1),
              MissingResults(state) \subseteq MissingResults(s1),
              \A r1 \in runs' : Owes(r1) \subseteq MissingResults(s1)
       PROVE  ResultInv'
  <2>1. \A i \in 1..Len(mailbox') : ~Coarse(mailbox'[i])
    BY <1>12, <1>13
  <2>2. \A r1 \in runs' : /\ Shaped(r1) /\ ~Unsaid(r1)
                          /\ Owes(r1) = {} \/ \E r \in runs : Owes(r1) = Owes(r)
    BY <1>12, <1>13
  <2>3. \A x \in {state'} \cup staged' : LogOk(x)
    BY <1>7, <1>13
  <2>4. \A x \in Kept' : MissingResults(state) \ {} \subseteq MissingResults(x)
    BY <1>7, <1>13
  <2>5. \A i \in 1..Len(mailbox') : Promise(mailbox'[i]) \cap {} = {}
    OBVIOUS
  <2>6. ASSUME NEW p \in preps'
        PROVE  /\ \A x \in Kept' : p.results \subseteq MissingResults(x)
               /\ p \in preps \/ p.results \cap MissingResults(state) = {}
    BY <1>5, <1>6, <1>7, <1>13 DEF AllMissing
  <2>7. \A r1 \in runs' : \A x \in Kept' : Owes(r1) \subseteq MissingResults(x)
    BY <1>7, <1>13
  <2> QED
    BY <1>2, <1>5, <2>1, <2>2, <2>3, <2>4, <2>5, <2>6, <2>7, LedgerServed
<1>14. CASE cmd.ev = "msg"
  <2>1. PICK r \in runs : /\ Awaits(r, cmd)
                          /\ \A r1 \in runs' : Owes(r1) = Owes(r)
    BY <1>12, <1>14
  <2>2. Unsaid(r) /\ Owes(r) = calls
    BY <1>3, <1>14, <2>1 DEF Awaits, Unsaid, Owes
  <2>3. \A c \in calls : c.id < nextCall /\ c \notin Made(state)
    <3>1. r.calls = calls
      BY <1>3, <1>14, <2>1 DEF Awaits
    <3> QED
      BY <2>2, <3>1 DEF ResultInv, FreshCalls
  <2>4. s1.log = state.log \o <<MsgEntry(calls)>> /\ s1.asks = state.asks
    <3>1. s1 = Logged(state, <<MsgEntry(calls)>>)
      BY <1>5, <1>14 DEF ApplyProgress
    <3> QED
      BY <1>6, <3>1, LogJoined
  <2>5. /\ SoundLog(s1.log) /\ Made(s1) = Made(state) \cup calls
        /\ Resolved(s1) = Resolved(state)
    BY <1>6, <1>9, <2>4, CallsWritten
  <2>6. LogOk(s1)
    BY <1>6, <2>3, <2>4, <2>5 DEF LogOk
  <2>7. MissingResults(state) \subseteq MissingResults(s1)
    BY <2>4, <2>5 DEF MissingResults, Made, Resolved
  <2>8. calls \subseteq MissingResults(s1)
    <3>1. Resolved(state) \subseteq Made(state) /\ state.asks \subseteq Made(state)
      BY <1>6, ResolvedMade DEF LogOk
    <3> QED
      BY <2>3, <2>4, <2>5, <3>1 DEF MissingResults, Made, Resolved
  <2> QED
    BY <1>13, <1>14, <2>1, <2>2, <2>6, <2>7, <2>8
<1>15. CASE cmd.ev \notin {"result", "repair", "msg"}
  <2>1. s1.log = state.log /\ s1.asks = state.asks
    <3>1. CASE s1 = Logged(state, <<>>)
      <4>1. s1.log = state.log \o <<>> /\ s1.asks = state.asks
        BY <1>6, <3>1, LogJoined
      <4>2. state.log \in Seq(Entry)
        BY <1>6 DEF AgentState
      <4> QED
        BY <4>1, <4>2
    <3>2. CASE s1 = ApplyBoundary(state)
      <4>1. Parts(ApplyBoundary(state), state.inbox, state.asks, state.timers, state.log)
        BY <1>6, FoldParts
      <4> QED
        BY <3>2, <4>1 DEF Parts
    <3>3. s1 = Logged(state, <<>>) \/ s1 = ApplyBoundary(state)
      BY <1>5, <1>15 DEF ApplyProgress
    <3> QED
      BY <3>1, <3>2, <3>3
  <2>2. LogOk(s1) /\ MissingResults(s1) = MissingResults(state)
    BY <1>6, <2>1 DEF LogOk, Made, Resolved, MissingResults, CallsIn
  <2>3. PICK r \in runs : Awaits(r, cmd) /\ \A r1 \in runs' : Owes(r1) = Owes(r)
    BY <1>12, <1>15
  <2>4. ~Unsaid(r)
    BY <1>15, <2>3 DEF Awaits, Unsaid
  <2>5. Owes(r) \subseteq MissingResults(state)
    BY <1>6, <2>4 DEF AllMissing
  <2> QED
    BY <1>13, <1>15, <2>2, <2>3, <2>5
<1> QED
  BY <1>2, <1>11, <1>14, <1>15

\* A report is taken: nothing of its run is left, and what it brings still misses results.
LEMMA LedgerFinishes ==
    ASSUME TypeOK, RunInv, MailOfRun(mailbox), ResultInv, RunFinished
    PROVE  ResultInv'
<1>1. PICK cmd : cmd = Head(mailbox)
  OBVIOUS
<1>2. /\ Serving /\ mailbox # <<>> /\ mailbox' = Tail(mailbox) /\ Receive("RunFinished")
      /\ cmd.kind = "RunFinished" /\ cmd.calls \in SUBSET Call /\ nextCall' = nextCall
  <2>1. Receive("RunFinished")
    BY DEF RunFinished
  <2>2. cmd \in Command /\ cmd.kind = "RunFinished"
    BY <1>1, <2>1, ReceiveType
  <2> QED
    BY <2>1, <2>2, CommandFields DEF Receive, RunFinished
<1>3. state \in AgentState /\ LogOk(state) /\ Kept = {state}
  BY <1>2 DEF Serving, Kept, ResultInv, TypeOK
<1>4. CASE cmd.run \notin running
  <2>1. UNCHANGED <<state, staged, runs, preps>>
    BY <1>1, <1>4 DEF RunFinished, durable
  <2>2. Leaves(state)
    BY <1>2, <2>1 DEF Leaves, Serving
  <2> QED
    BY <1>2, <1>3, <2>1, <2>2, LeavesCarries, LedgerCarried
<1>5. CASE cmd.run \in running
  <2>1. runs = {} /\ running # {} /\ Clear(mailbox')
    BY <1>2, <1>5, ReportIsLast
  <2>2. preps = {} /\ ~preparing
    BY <2>1 DEF RunInv, Held
  \* Nothing left in the mail promises a result.
  <2>3. /\ Len(mailbox) \in Nat /\ Len(mailbox') = Len(mailbox) - 1
        /\ \A i \in 1..Len(mailbox') : i + 1 \in 1..Len(mailbox) /\ mailbox'[i] = mailbox[i + 1]
    BY <1>2 DEF TypeOK
  <2>4. ASSUME NEW i \in 1..Len(mailbox')
        PROVE  mailbox'[i].kind \notin {"PersistProgress", "RunFinished", "StartPrepared"}
    <3>1. mailbox'[i].kind # "StartPrepared"
      BY <2>2, <2>3 DEF RunInv, PreparedOnce
    <3>2. mailbox'[i].kind # "RunFinished" /\ (mailbox'[i].kind = "PersistProgress" => mailbox'[i].run = {})
      BY <2>1 DEF Clear
    <3>3. ASSUME mailbox'[i].kind = "PersistProgress" PROVE FALSE
      <4>1. i + 1 \in 1..Len(mailbox) /\ mailbox[i + 1].kind = "PersistProgress"
            /\ mailbox[i + 1].run = {}
        BY <2>3, <3>2, <3>3
      <4>2. i + 1 = 1
        BY <4>1 DEF ResultInv, RepairFirst
      <4> QED
        BY <2>3, <4>2
    <3> QED
      BY <3>1, <3>2, <3>3
  <2>5. \A i \in 1..Len(mailbox') : Promise(mailbox'[i]) = {} /\ ~Coarse(mailbox'[i])
    BY <2>4 DEF Promise, Coarse
  <2>6. cmd.calls \subseteq MissingResults(state)
    <3>1. Promise(cmd) \subseteq MissingResults(state)
      BY <1>1, <1>2, LedgerHead
    <3> QED
      BY <1>2, <3>1 DEF Promise
  <2>7. PICK h : h = [Here EXCEPT !.running = {}]
    OBVIOUS
  <2>8. h \in Handled /\ h.state = state
    BY <2>7, HereType DEF Handled, Here
  <2>9. Finishes(h, cmd.calls)
    <3>1. HandleFinished(cmd) /\ cmd.outcome \in RunOutcome
      BY <1>1, <1>2, <1>5, ReceiveType, CommandFields DEF RunFinished
    <3> QED
      BY <2>7, <3>1 DEF HandleFinished, Finishes, RunOutcome
  <2>10. PICK s1 : EndsIn(state, cmd.calls, s1) /\ Outcome(s1)
    BY <1>2, <2>8, <2>9, FinishOutcome DEF EndLeaves
  <2>11. s1 \in AgentState /\ LogOk(s1)
    BY <1>2, <1>3, <2>6, <2>10, EndsInType, EndsLog
  <2>12. Carries(s1)
    BY <2>10, <2>11, OutcomeCarries
  <2>13. \A x \in {state'} \cup staged' : LogOk(x)
    BY <1>3, <2>12 DEF Carries
  <2>14. \A r1 \in runs' : Owes(r1) = {} /\ ~Unsaid(r1) /\ Shaped(r1)
    BY <2>1, <2>12 DEF Carries
  <2>15. \A p \in preps' : \A x \in Kept' : p.results \subseteq MissingResults(x)
    BY <2>2, <2>12 DEF Carries
  <2>16. (\A s \in {state} \cup staged : LogOk(s))'
    BY <1>2, <2>13 DEF LogOk
  <2>17. MailApart(mailbox)' /\ CoarseOnce(mailbox)' /\ RepairFirst(mailbox)'
    BY <2>4, <2>5 DEF MailApart, CoarseOnce, RepairFirst
  <2>18. (\A k \in Kept : AllMissing(k, mailbox))'
    BY <2>5, <2>14, <2>15 DEF AllMissing
  <2>19. FreshCalls' /\ (\A r \in runs : Shaped(r))'
    BY <2>14 DEF FreshCalls
  <2> QED
    BY <2>16, <2>17, <2>18, <2>19 DEF ResultInv
<1> QED
  BY <1>4, <1>5

\* A command of the mailbox keeps it.
LEMMA LedgerCommand ==
    ASSUME TypeOK, RunInv, MailOfRun(mailbox), ResultInv, HandleCommand
    PROVE  ResultInv'
<1>1. state \in AgentState /\ Here \in Handled /\ Here.state = state
  BY HereType DEF TypeOK, Here
<1>2. mailbox # <<>> /\ mailbox' = Tail(mailbox) /\ Serving
  BY DEF HandleCommand, Drain, StartPrepared, PersistProgress, TimerFired, RunFinished, Receive
<1>3. Kept = {state} /\ staged = {} /\ LogOk(state) /\ AllMissing(state, mailbox)
  BY <1>2 DEF Serving, Kept, ResultInv
<1>4. PICK cmd : cmd = Head(mailbox)
  OBVIOUS
<1>5. /\ Len(mailbox) \in Nat /\ Len(mailbox') = Len(mailbox) - 1 /\ 1 \in 1..Len(mailbox)
      /\ mailbox[1] = cmd
      /\ \A i \in 1..Len(mailbox') : i + 1 \in 1..Len(mailbox) /\ mailbox'[i] = mailbox[i + 1]
  BY <1>2, <1>4 DEF TypeOK
<1>6. ASSUME NEW s, s.log = state.log, s.asks = state.asks PROVE LogOk(s)
  BY <1>3, <1>6 DEF LogOk, Made, Resolved, CallsIn
<1>7. /\ Promise(cmd) \subseteq MissingResults(state)
      /\ \A i \in 1..Len(mailbox') : Promise(mailbox'[i]) \cap Promise(cmd) = {}
  BY <1>2, <1>4, LedgerHead
<1>8. CASE Drain
  <2>1. Carries(state)
    BY <1>1, <1>3, <1>8, TryDrainOutcome, OutcomeCarries DEF Drain
  <2> QED
    BY <1>2, <1>8, <2>1, LedgerCarried DEF Drain
<1>9. CASE TimerFired
  <2>1. CASE cmd.timer \in state.timers
    <3>1. PICK t : t = cmd.timer
      OBVIOUS
    <3>2. PICK s1 : s1 = ApplyTimerFired(state, t)
      OBVIOUS
    <3>3. PICK s : s = ApplyReceived(s1, TimerItem(t, state.fires[t] + 1))
      OBVIOUS
    <3>4. t \in Timers
      BY <1>4, <1>9, <3>1, ReceiveType, CommandFields DEF TimerFired
    <3>5. s1 \in AgentState
      BY <1>1, <3>2, <3>4, TimerFoldTypes
    <3>6. TimerItem(t, state.fires[t] + 1) \in Item
      <4>1. state.fires[t] + 1 \in Nat
        BY <1>1, <3>4 DEF AgentState
      <4> QED
        BY <3>4, <4>1, ItemTypes
    <3>7. s \in AgentState
      BY <3>3, <3>5, <3>6, QueueFoldTypes
    <3>8. s1.log = state.log /\ s1.asks = state.asks
      <4>1. Parts(ApplyTimerFired(state, t), state.inbox, state.asks,
                  IF t \in Recurring THEN state.timers ELSE state.timers \ {t}, state.log)
        BY <1>1, FoldParts
      <4> QED
        BY <3>2, <4>1 DEF Parts
    <3>9. s.log = s1.log /\ s.asks = s1.asks
      <4>1. \A item : Parts(ApplyReceived(s1, item), s1.inbox \cup {item}, s1.asks, s1.timers,
                            s1.log)
        BY <3>5, FoldParts
      <4> QED
        BY <3>3, <4>1 DEF Parts
    <3>10. PICK h : h = [Here EXCEPT !.state = s]
      OBVIOUS
    <3>11. h.state = s /\ TryDrain(h)
      BY <1>1, <1>4, <1>9, <2>1, <3>1, <3>2, <3>3, <3>10 DEF Handled, TimerFired
    <3>12. Carries(s)
      BY <1>6, <3>7, <3>8, <3>9, <3>11, TryDrainOutcome, OutcomeCarries
    <3> QED
      BY <1>2, <1>9, <3>8, <3>9, <3>12, LedgerCarried DEF TimerFired
  <2>2. CASE cmd.timer \notin state.timers
    <3>1. UNCHANGED <<state, staged, runs, preps, nextCall>>
      BY <1>4, <1>9, <2>2 DEF TimerFired, durable
    <3>2. Leaves(state)
      BY <1>3, <3>1 DEF Leaves
    <3> QED
      BY <1>2, <1>3, <3>1, <3>2, LeavesCarries, LedgerCarried
  <2> QED
    BY <2>1, <2>2
<1>10. CASE StartPrepared
  <2>1. /\ cmd.kind = "StartPrepared" /\ cmd.turn \in Turn
        /\ preps' = preps /\ nextCall' = nextCall
    <3>1. Receive("StartPrepared")
      BY <1>10 DEF StartPrepared
    <3>2. cmd \in Command /\ cmd.kind = "StartPrepared"
      BY <1>4, <3>1, ReceiveType
    <3> QED
      BY <1>10, <3>2, CommandFields DEF StartPrepared
  <2>2. runs = {} /\ preps = {}
    <3>1. preparing /\ preps = {}
      BY <1>5, <2>1 DEF RunInv, PreparedOnce
    <3> QED
      BY <3>1 DEF RunInv, Held
  <2>3. CASE cmd.abandon
    <3>1. UNCHANGED <<state, staged, runs>>
      BY <1>4, <1>10, <2>3 DEF StartPrepared, durable
    <3>2. Leaves(state)
      BY <1>3, <3>1 DEF Leaves
    <3> QED
      BY <1>2, <1>3, <2>1, <3>1, <3>2, LeavesCarries, LedgerCarried
  <2>4. CASE ~cmd.abandon
    <3>1. PICK turn : turn = cmd.turn
      OBVIOUS
    <3>2. PICK s : s = ApplyTurnInput(state, turn)
      OBVIOUS
    <3>3. StartRun(turn, forced) /\ Write(s, FALSE)
      BY <1>4, <1>10, <2>4, <3>1, <3>2 DEF StartPrepared
    <3>4. Kept' = {s} /\ {state'} \cup staged' = {s}
      BY <3>3 DEF Write, Kept
    <3>5. turn.results = Promise(cmd) /\ turn.results \subseteq MissingResults(state)
      BY <1>7, <2>1, <3>1 DEF Promise
    <3>6. /\ SoundLog(s.log) /\ s.asks = state.asks
          /\ Made(s) = Made(state) /\ Resolved(s) = Resolved(state) \cup turn.results
      <4>1. turn.results \subseteq Made(state) \ Resolved(state)
        BY <3>5 DEF MissingResults, Made, Resolved
      <4>2. SoundLog(state.log)
        BY <1>3 DEF LogOk
      <4> QED
        BY <1>1, <2>1, <3>1, <3>2, <4>1, <4>2, TurnInputLog
    <3>7. LogOk(s) /\ MissingResults(state) \ turn.results \subseteq MissingResults(s)
      <4>1. turn.results \cap state.asks = {}
        BY <3>5 DEF MissingResults
      <4>2. LogOk(s)
        BY <1>3, <3>6, <4>1 DEF LogOk
      <4> QED
        BY <3>6, <4>2 DEF MissingResults, Made, Resolved
    <3>8. ASSUME NEW r1 \in runs' PROVE Owes(r1) = {} /\ ~Unsaid(r1) /\ Shaped(r1)
      BY <2>2, <3>3, NewRunOwes DEF StartRun
    <3>9. \A i \in 1..Len(mailbox') : Promise(mailbox'[i]) \cap turn.results = {}
      BY <1>7, <3>5
    <3>10. \A i \in 1..Len(mailbox') : Coarse(mailbox'[i]) =>
              \A r \in runs : Awaits(r, mailbox'[i]) => \E r1 \in runs' : Awaits(r1, mailbox'[i])
      BY <2>2
    <3> QED
      BY <1>2, <2>1, <2>2, <3>4, <3>7, <3>8, <3>9, <3>10, LedgerServed
  <2> QED
    BY <2>3, <2>4
<1>11. CASE PersistProgress
  BY <1>11, LedgerWrites
<1>12. CASE RunFinished
  BY <1>12, LedgerFinishes
<1> QED
  BY <1>8, <1>9, <1>10, <1>11, <1>12 DEF HandleCommand

\* Every step keeps it.
LEMMA LedgerStep ==
    ASSUME TypeOK, RunInv, MailOfRun(mailbox), TimerInv, ResultInv, [Next]_vars
    PROVE  ResultInv'
<1>1. CASE Persist
  <2>1. /\ state' \in staged /\ staged # {} /\ staged' = {}
        /\ UNCHANGED <<mailbox, runs, preps, nextCall>>
    BY <1>1 DEF Persist, tasks, ghosts
  <2>2. Kept = staged /\ Kept' = {state'} /\ {state'} \cup staged' = {state'}
    BY <2>1 DEF Kept
  <2>3. PICK cmd : cmd = [kind |-> "Drain"]
    OBVIOUS
  <2>4. Promise(cmd) = {} /\ cmd.kind # "PersistProgress"
    BY <2>3 DEF Promise
  <2> QED
    BY <2>1, <2>2, <2>4, LedgerPosted
<1>2. ASSUME NEW t \in sleeps, SleepEnds(t) PROVE ResultInv'
  <2>1. PICK cmd : cmd = [kind |-> "TimerFired", timer |-> t]
    OBVIOUS
  <2>2. Promise(cmd) = {} /\ cmd.kind # "PersistProgress"
    BY <2>1 DEF Promise
  <2>3. /\ mailbox' = Append(mailbox, cmd)
        /\ UNCHANGED <<state, staged, runs, preps, nextCall>>
    BY <1>2, <2>1 DEF SleepEnds, durable, ghosts
  <2>4. Kept' = Kept
    BY <2>3 DEF Kept
  <2> QED
    BY <2>2, <2>3, <2>4, LedgerPosted
\* What the prepared turn was to resolve, its command is.
<1>3. ASSUME NEW turn \in preps, NEW abandon \in BOOLEAN, PrepareEnds(turn, abandon)
      PROVE  ResultInv'
  <2>1. PICK cmd : cmd = [kind |-> "StartPrepared", turn |-> turn, abandon |-> abandon]
    OBVIOUS
  <2>2. cmd.kind = "StartPrepared" /\ Promise(cmd) = turn.results /\ ~Coarse(cmd)
    BY <2>1 DEF Promise, Coarse
  <2>3. /\ mailbox' = Append(mailbox, cmd) /\ preps' = preps \ {turn}
        /\ UNCHANGED <<state, staged, runs, nextCall>>
    BY <1>3, <2>1 DEF PrepareEnds, durable, ghosts
  <2>4. runs = {} /\ preps' = {} /\ Kept' = Kept
    BY <2>3 DEF RunInv, Held, Kept
  <2>5. /\ Len(mailbox') = Len(mailbox) + 1 /\ Len(mailbox) \in Nat
        /\ mailbox'[Len(mailbox')] = cmd
        /\ \A i \in 1..Len(mailbox) : mailbox'[i] = mailbox[i]
        /\ \A i \in 1..Len(mailbox') : i \in 1..Len(mailbox) \/ i = Len(mailbox')
    BY <2>3, MailPosted
  <2>6. \A i \in 1..Len(mailbox) : Promise(mailbox[i]) \cap turn.results = {}
    BY DEF ResultInv, MailApart
  <2>7. MailApart(mailbox)'
    <3>1. ASSUME NEW i \in 1..Len(mailbox'), NEW c \in Promise(mailbox'[i]),
                 NEW j \in 1..Len(mailbox'), c \in Promise(mailbox'[j])
          PROVE  j = i
      <4>1. CASE i \in 1..Len(mailbox) /\ j \in 1..Len(mailbox)
        BY <2>5, <3>1, <4>1 DEF ResultInv, MailApart
      <4>2. ASSUME NEW x \in 1..Len(mailbox), c \in Promise(mailbox'[x]), c \in turn.results
            PROVE  FALSE
        BY <2>5, <2>6, <4>2
      <4> QED
        BY <2>2, <2>5, <3>1, <4>1, <4>2
    <3> QED
      BY <2>3, <2>4, <3>1 DEF MailApart
  <2>8. (\A k \in Kept : AllMissing(k, mailbox))'
    <3>1. ASSUME NEW k \in Kept, NEW i \in 1..Len(mailbox')
          PROVE  Promise(mailbox'[i]) \subseteq MissingResults(k)
      <4>1. /\ \A j \in 1..Len(mailbox) : Promise(mailbox[j]) \subseteq MissingResults(k)
            /\ turn.results \subseteq MissingResults(k)
        BY DEF ResultInv, AllMissing
      <4> QED
        BY <2>2, <2>5, <4>1
    <3> QED
      BY <2>3, <2>4, <3>1 DEF AllMissing
  <2>9. CoarseOnce(mailbox)' /\ RepairFirst(mailbox)'
    BY <2>2, <2>3, <2>5 DEF ResultInv, CoarseOnce, RepairFirst
  <2>10. (\A s \in {state} \cup staged : LogOk(s))' /\ FreshCalls' /\ (\A r \in runs : Shaped(r))'
    BY <2>3, <2>4 DEF ResultInv, LogOk, FreshCalls
  <2> QED
    BY <2>7, <2>8, <2>9, <2>10 DEF ResultInv
<1>4. ASSUME NEW r \in runs, ~r.waiting, RunInner(r) \/ RunOuter(r) \/ Summarise(r)
      PROVE  ResultInv'
  <2>1. nextCall' \in Nat
    BY TypeStep DEF TypeOK
  <2>2. Shaped(r)
    BY DEF ResultInv
  <2>3. UNCHANGED <<state, staged, preps>>
    <3>1. RunQuiet => UNCHANGED <<state, staged, preps>>
      BY DEF RunQuiet, durable
    <3>2. RunInner(r) => RunQuiet
      BY DEF RunInner, ProvideCancelled, Act, ToolsDone, LoopCancelled, Ended
    <3>3. Summarise(r) => RunQuiet
      BY DEF Summarise
    <3>4. Loop(r) => UNCHANGED <<state, staged, preps>>
      BY DEF Loop, durable
    <3>5. Provide(r) => RunQuiet
      BY DEF Provide
    <3>6. \A c : ToolResult(r, c) \/ ToolStops(r, c) => RunQuiet
      BY DEF ToolResult, ToolStops
    <3>7. RunOuter(r) => UNCHANGED <<state, staged, preps>>
      BY <3>1, <3>4, <3>5, <3>6 DEF RunOuter
    <3> QED
      BY <1>4, <3>1, <3>2, <3>3, <3>7
  <2>4. PICK cmd : Ledger(r, cmd)
    BY <1>4, <2>1, <2>2, TaskLedger
  <2> QED
    BY <1>4, <2>1, <2>3, <2>4, LedgerKept
<1>5. CASE UNCHANGED vars
  <2>1. UNCHANGED <<state, staged, mailbox, runs, preps, nextCall>>
    BY <1>5 DEF vars, durable, tasks, ghosts
  <2>2. Kept' = Kept
    BY <2>1 DEF Kept
  <2>3. PICK cmd : cmd = [kind |-> "Drain"]
    OBVIOUS
  <2>4. Promise(cmd) = {} /\ cmd.kind # "PersistProgress"
    BY <2>3 DEF Promise
  <2> QED
    BY <2>1, <2>2, <2>4, LedgerPosted
<1> QED
  BY <1>1, <1>2, <1>3, <1>4, <1>5, LedgerOutside, LedgerCommand DEF Next, Inside

\* A log of the invariant holds one result of each call, after the call.
LEMMA OneResult ==
    ASSUME TypeOK, ResultInv
    PROVE  OneResultPerCall
<1>1. state \in AgentState /\ SoundLog(state.log) /\ state.asks \subseteq Made(state) \ Resolved(state)
  BY DEF TypeOK, ResultInv, LogOk
<1>2. DOMAIN state.log = 1..Len(state.log)
  BY <1>1 DEF AgentState
<1>3. state.asks \cap CallsIn(state, "result") = {}
  BY <1>1 DEF Resolved
<1>4. ASSUME NEW i \in DOMAIN state.log, NEW c \in state.log[i].calls, state.log[i].t = "result"
      PROVE  /\ {j \in DOMAIN state.log : state.log[j].t = "result" /\ c \in state.log[j].calls} = {i}
             /\ \E j \in 1..(i - 1) : state.log[j].t = "msg" /\ c \in state.log[j].calls
  <2>1. /\ \A j \in 1..Len(state.log) :
              state.log[j].t = "result" /\ c \in state.log[j].calls => j = i
        /\ \E j \in 1..(i - 1) : state.log[j].t = "msg" /\ c \in state.log[j].calls
    BY <1>1, <1>2, <1>4 DEF SoundLog
  <2> QED
    BY <1>2, <1>4, <2>1
<1> QED
  BY <1>3, <1>4 DEF OneResultPerCall

\* However stops, crashes, parks and repairs interleave with what the tools post, the
\* journal never holds two results of a call, nor one ahead of it, nor one of a question
\* still asked (missing_tool_results, answered_turn, start_prepared).
THEOREM ResultsAreSingle == Spec => []OneResultPerCall
<1>1. Init => RunInv /\ MailOfRun(mailbox) /\ TimerInv /\ ResultInv
  <2> SUFFICES ASSUME Init PROVE RunInv /\ MailOfRun(mailbox) /\ TimerInv /\ ResultInv
    OBVIOUS
  <2>1. /\ mailbox = <<>> /\ runs = {} /\ preps = {} /\ sleeps = {} /\ running = {}
        /\ preparing = FALSE /\ staged = {} /\ state.timers = {}
        /\ state.log = <<>> /\ state.asks = {}
    BY DEF Init
  <2>2. Len(mailbox) = 0 /\ Len(state.log) = 0 /\ DOMAIN state.log = {}
    BY <2>1
  <2>3. RunInv /\ MailOfRun(mailbox)
    BY <2>1, <2>2 DEF RunInv, Held, ReportsFenced, PreparedOnce, Gone, MailOfRun
  <2>4. TimerInv
    BY <2>1, <2>2 DEF TimerInv, ArmedOnce, WokenOnce, WakeComes, Kept
  <2>5. \A s \in {state} \cup staged : LogOk(s)
    <3>1. SoundLog(state.log)
      BY <2>2 DEF SoundLog
    <3>2. Made(state) = {}
      BY <2>2 DEF Made, CallsIn
    <3> QED
      BY <2>1, <3>1, <3>2 DEF LogOk
  <2>6. ResultInv
    BY <2>1, <2>2, <2>5
       DEF ResultInv, MailApart, AllMissing, FreshCalls, CoarseOnce, RepairFirst
  <2> QED
    BY <2>3, <2>4, <2>6
<1>2. TypeOK /\ RunInv /\ MailOfRun(mailbox) /\ TimerInv /\ ResultInv /\ [Next]_vars
        => (RunInv /\ MailOfRun(mailbox) /\ TimerInv /\ ResultInv)'
  BY RunInvStep, MailOfRunStep, TimersStep, LedgerStep
<1>3. TypeOK /\ ResultInv => OneResultPerCall
  BY OneResult
<1> QED
  BY <1>1, <1>2, <1>3, TypeCorrect, PTL DEF Spec

-----------------------------------------------------------------------------
(* A park ends because it was answered *)

\* Where what a property of the questions needs is there: the hooks of a start come
\* between the questions' end and their results, and a loop that recovery starts may ask
\* beside them.
QuestionsKept == ~HasStartHooks /\ (Interactive \/ "ask" \notin Tools \/ MaxCrashes = 0)

\* From a to b the questions stay, or all of them end with a result, because they were
\* answered or a person spoke.
ParkGoes(a, b, answered) ==
    a.asks # {} /\ b.asks # a.asks
        => /\ b.asks = {}
           /\ a.asks \subseteq CallsIn(b, "result")
           /\ a.asks \subseteq answered \/ \E i \in a.inbox : IsUser(i)

\* While k asks nothing runs, and no run is still to report.
Rests(k) == k.asks # {} => /\ runs = {}
                           /\ \A i \in 1..Len(mailbox) : mailbox[i].kind # "RunFinished"

Questions(s) == \A c \in s.asks : c.tool = "ask"

ParkInv ==
    /\ ~preparing /\ preps = {}
    /\ \A k \in Kept : Rests(k)
    /\ \A s \in staged : ParkGoes(state, s, spent.answered)
    /\ \A s \in {state} \cup staged : Questions(s)
    /\ MaxCrashes = 0 => live

\* What a step has to keep, and to show.
ParkHolds == ParkInv' /\ ParkGoes(state, state', spent'.answered)

\* What a handler leaves in the mail was there.
LEMMA MailStill ==
    ASSUME TypeOK, mailbox' = mailbox \/ (mailbox # <<>> /\ mailbox' = Tail(mailbox))
    PROVE  \A i \in 1..Len(mailbox') : \E j \in 1..Len(mailbox) : mailbox'[i] = mailbox[j]
<1>1. CASE mailbox' = mailbox
  BY <1>1
<1>2. CASE mailbox # <<>> /\ mailbox' = Tail(mailbox)
  <2>1. \A i \in 1..Len(mailbox') : i + 1 \in 1..Len(mailbox) /\ mailbox'[i] = mailbox[i + 1]
    BY <1>2 DEF TypeOK
  <2> QED
    BY <2>1
<1> QED
  BY <1>1, <1>2

\* A step that leaves the questions alone, and starts nothing beside them.
LEMMA ParkQuiet ==
    ASSUME ParkInv, preps' = preps, preparing' = preparing, state'.asks = state.asks,
           \A x \in Kept' : \E k \in Kept : x.asks = k.asks,
           runs = {} => runs' = {},
           \A i \in 1..Len(mailbox') : mailbox'[i].kind = "RunFinished" =>
              \/ runs # {}
              \/ \E j \in 1..Len(mailbox) : mailbox[j].kind = "RunFinished",
           \A x \in staged' : ParkGoes(state', x, spent'.answered),
           \A x \in staged' : \E k \in Kept : x.asks = k.asks,
           live => live' \/ MaxCrashes # 0
    PROVE  ParkHolds
<1>1. \A k \in Kept : k \in {state} \cup staged
  BY DEF Kept
<1>2. ASSUME NEW x \in Kept' PROVE Rests(x)'
  <2>1. PICK k \in Kept : x.asks = k.asks
    OBVIOUS
  <2>2. Rests(k)
    BY DEF ParkInv
  <2> QED
    BY <2>1, <2>2 DEF Rests
<1>3. \A x \in {state'} \cup staged' : Questions(x)
  BY <1>1 DEF ParkInv, Questions
<1>4. ~preparing' /\ preps' = {} /\ (MaxCrashes = 0 => live')
  BY DEF ParkInv
<1>5. ParkGoes(state, state', spent'.answered)
  BY DEF ParkGoes
<1>6. (\A k \in Kept : Rests(k))'
  BY <1>2
<1>7. (\A s \in {state} \cup staged : Questions(s))'
  BY <1>3 DEF Questions
<1>8. (\A s \in staged : ParkGoes(state, s, spent.answered))'
  OBVIOUS
<1> QED
  BY <1>4, <1>5, <1>6, <1>7, <1>8 DEF ParkInv, ParkHolds

\* A turn without hooks that takes the questions of s writes a result for each.
LEMMA TakenAnswers ==
    ASSUME ~HasStartHooks, NEW s \in AgentState, NEW turn \in Turn, LogOk(s),
           turn.results = s.asks, NEW k, k = Taken(turn, s)
    PROVE  k.asks = {} /\ s.asks \subseteq CallsIn(k, "result")
<1>1. PICK began : began = ApplyTurnBegan(s, turn)
  OBVIOUS
<1>2. began \in AgentState
  BY <1>1, QueueFoldTypes
<1>3. began.asks = {} /\ began.log = s.log
  BY <1>1, FoldParts DEF Parts
<1>4. k = ApplyTurnInput(began, turn)
  BY <1>1 DEF Taken, HookDue
<1>5. SoundLog(began.log) /\ turn.results \subseteq Made(began) \ Resolved(began)
  BY <1>3 DEF Made, Resolved, CallsIn, LogOk
<1>6. k.asks = {} /\ Resolved(k) = Resolved(began) \cup turn.results
  BY <1>2, <1>3, <1>4, <1>5, TurnInputLog
<1> QED
  BY <1>6 DEF Resolved

\* A turn that begins because the questions were answered, or a person spoke.
LEMMA ParkStarts ==
    ASSUME ~HasStartHooks, TypeOK, ParkInv, NEW s \in AgentState, LogOk(s), s.asks = state.asks,
           NEW turn \in Turn, turn.results = s.asks, Starts(turn, s), live' = live,
           state.asks # {} => \/ state.asks \subseteq spent'.answered
                              \/ \E i \in state.inbox : IsUser(i)
    PROVE  ParkHolds
<1>1. PICK k : k = Taken(turn, s)
  OBVIOUS
<1>2. k.asks = {} /\ state.asks \subseteq CallsIn(k, "result")
  BY <1>1, TakenAnswers
<1>3. Kept' = {k} /\ state' \in {state, k} /\ staged' \subseteq {k}
  BY <1>1, LeavesKept DEF Starts
<1>4. preparing' = preparing /\ preps' = preps
  BY DEF Starts, HookDue
<1>5. ParkGoes(state, state', spent'.answered)
  BY <1>2, <1>3 DEF ParkGoes
<1>6. ASSUME NEW x \in staged' PROVE ParkGoes(state', x, spent'.answered)
  BY <1>2, <1>3 DEF ParkGoes
<1>7. (\A x \in Kept : Rests(x))'
  BY <1>2, <1>3 DEF Rests
<1>8. \A x \in {state'} \cup staged' : Questions(x)
  BY <1>2, <1>3 DEF ParkInv, Questions
<1>9. (\A x \in {state} \cup staged : Questions(x))'
  BY <1>8 DEF Questions
<1>10. (\A x \in staged : ParkGoes(state, x, spent.answered))'
  BY <1>6
<1> QED
  BY <1>4, <1>5, <1>7, <1>9, <1>10 DEF ParkInv, ParkHolds

\* A handler that leaves the questions and brings no person's message, and then drains.
LEMMA ParkCarried ==
    ASSUME ~HasStartHooks, TypeOK, ParkInv, Serving,
           NEW s \in AgentState, LogOk(s), s.asks = state.asks,
           \A i \in s.inbox : IsUser(i) => i \in state.inbox,
           Outcome(s), live' = live,
           mailbox' = mailbox \/ (mailbox # <<>> /\ mailbox' = Tail(mailbox))
    PROVE  ParkHolds
<1>1. CASE Leaves(s) /\ UNCHANGED <<preparing, preps, runs, nextRun>>
  <2>1. Kept' = {s} /\ state' \in {state, s} /\ staged' \subseteq {s}
    BY <1>1, LeavesKept
  <2>2. state \in Kept
    BY DEF Serving, Kept
  <2>3. \A i \in 1..Len(mailbox') : \E j \in 1..Len(mailbox) : mailbox'[i] = mailbox[j]
    BY MailStill
  <2>4. \A x \in staged' : ParkGoes(state', x, spent'.answered)
    BY <2>1 DEF ParkGoes
  <2>5. \A x \in Kept' : \E k \in Kept : x.asks = k.asks
    BY <2>1, <2>2
  <2>6. \A x \in staged' : \E k \in Kept : x.asks = k.asks
    BY <2>1, <2>2
  <2>7. state'.asks = state.asks
    BY <2>1
  <2> QED
    BY <1>1, <2>3, <2>4, <2>5, <2>6, <2>7, ParkQuiet
<1>2. CASE \E turn \in QueuedTurn(s) : Starts(turn, s)
  <2>1. PICK turn \in QueuedTurn(s) : Starts(turn, s)
    BY <1>2
  <2>2. turn \in Turn /\ turn.results = s.asks
    BY DEF QueuedTurn, AgentState, Turn
  <2>3. state.asks # {} => \E i \in state.inbox : IsUser(i)
    BY <2>1 DEF QueuedTurn
  <2> QED
    BY <2>1, <2>2, <2>3, ParkStarts
<1> QED
  BY <1>1, <1>2 DEF Outcome

\* The end of a run asks nothing, or its own questions.
LEMMA EndsAsks ==
    ASSUME NEW s \in AgentState, NEW calls \in SUBSET Call, NEW s1, EndsIn(s, calls, s1)
    PROVE  s1.asks = s.asks \/ (Asks(calls) /\ s1.asks = calls)
<1>1. PICK told : told = Contradicted(s, calls)
  OBVIOUS
<1>2. told \in AgentState /\ told.asks = s.asks
  <2>1. PICK logged : logged = Logged(s, <<ResultEntry(calls)>>)
    OBVIOUS
  <2>2. logged \in AgentState
    <3>1. <<ResultEntry(calls)>> \in Seq(Entry)
      BY EntryTypes
    <3> QED
      BY <2>1, <3>1, LoggedType
  <2>3. logged.asks = s.asks
    BY <2>1, LogJoined
  <2>4. told = ApplyNudged(logged)
    BY <1>1, <2>1 DEF Contradicted
  <2>5. told \in AgentState
    BY <2>2, <2>4, QueueFoldTypes
  <2>6. told.asks = logged.asks
    BY <2>2, <2>4, FoldParts DEF Parts
  <2> QED
    BY <2>3, <2>5, <2>6
<1>3. PICK fixed : fixed = Repaired(s)
  OBVIOUS
<1>4. fixed \in AgentState /\ fixed.asks = s.asks
  BY <1>3, RepairedType, LogJoined DEF Repaired
<1>5. PICK kept : kept = Logged(fixed, <<MsgEntry({})>>)
  OBVIOUS
<1>6. kept \in AgentState /\ kept.asks = s.asks
  <2>1. <<MsgEntry({})>> \in Seq(Entry)
    BY EntryTypes
  <2>2. kept \in AgentState
    BY <1>4, <1>5, <2>1, LoggedType
  <2> QED
    BY <1>4, <1>5, <2>2, LogJoined
<1>7. CASE s1 = s
  BY <1>7
<1>8. CASE s1 = ApplyParked(s)
  BY <1>8, FoldParts DEF Parts
<1>9. CASE s1 = ApplyNudged(ApplyReceived(s, NudgeItem(s.nudges)))
  <2>1. PICK got : got = ApplyReceived(s, NudgeItem(s.nudges))
    OBVIOUS
  <2>2. got \in AgentState
    <3>1. s.nudges \in Nat
      BY DEF AgentState
    <3> QED
      BY <2>1, <3>1, NudgeTypes, QueueFoldTypes
  <2>3. got.asks = s.asks
    BY <2>1, FoldParts DEF Parts
  <2>4. s1 = ApplyNudged(got)
    BY <1>9, <2>1
  <2>5. s1.asks = got.asks
    BY <2>2, <2>4, FoldParts DEF Parts
  <2> QED
    BY <2>3, <2>5
<1>10. CASE Asks(calls) /\ s1 = ApplyAskRecorded(s, calls)
  BY <1>10, FoldParts DEF Parts
<1>11. CASE s1 = ApplyTimerCancelled(s, s.timers)
  BY <1>11, FoldParts DEF Parts
<1>12. CASE s1 = told
  BY <1>2, <1>12
<1>13. CASE s1 = ApplyReceived(told, ContradictionItem(told.nudges))
  BY <1>2, <1>13, FoldParts DEF Parts
<1>14. CASE s1 = ApplyBoundary(fixed)
  BY <1>4, <1>14, FoldParts DEF Parts
<1>15. CASE s1 = ApplyBoundary(kept)
  BY <1>6, <1>15, FoldParts DEF Parts
<1> QED
  BY <1>1, <1>3, <1>5, <1>7, <1>8, <1>9, <1>10, <1>11, <1>12, <1>13, <1>14, <1>15 DEF EndsIn

\* No step of a task touches the questions: while a task lives there are none.
LEMMA ParkTask ==
    ASSUME TypeOK, RunInv, ParkInv, NEW r \in runs, RunInner(r) \/ RunOuter(r) \/ Summarise(r)
    PROVE  ParkHolds
<1>1. UNCHANGED <<state, staged, preps, preparing, live>> /\ spent' = spent
  <2>1. RunQuiet => UNCHANGED <<state, staged, preps, preparing, live, spent>>
    BY DEF RunQuiet, durable, actor
  <2>2. RunInner(r) => RunQuiet
    BY DEF RunInner, ProvideCancelled, Act, ToolsDone, LoopCancelled, Ended
  <2>3. Summarise(r) => RunQuiet
    BY DEF Summarise
  <2>4. Loop(r) => UNCHANGED <<state, staged, preps, preparing, live, spent>>
    BY DEF Loop, durable, actor
  <2>5. Provide(r) => RunQuiet
    BY DEF Provide
  <2>6. \A c : ToolResult(r, c) \/ ToolStops(r, c) => RunQuiet
    BY DEF ToolResult, ToolStops
  <2>7. RunOuter(r) => UNCHANGED <<state, staged, preps, preparing, live, spent>>
    BY <2>1, <2>4, <2>5, <2>6 DEF RunOuter
  <2> QED
    BY <2>1, <2>2, <2>3, <2>7
<1>2. Kept' = Kept
  BY <1>1 DEF Kept
<1>3. \A x \in staged : ParkGoes(state, x, spent.answered) /\ x \in Kept
  BY DEF ParkInv, Kept
<1> QED
  BY <1>1, <1>2, <1>3, ParkQuiet

\* What comes from outside keeps the invariant, and so do the process's end and return.
LEMMA ParkOutside ==
    ASSUME QuestionsKept, TypeOK, RunInv, MailOfRun(mailbox), ResultInv, ParkInv, Outside
    PROVE  ParkHolds
<1>1. state \in AgentState /\ Here \in Handled /\ Here.state = state
  BY HereType DEF TypeOK, Here
<1>2. Serving => Kept = {state} /\ staged = {}
  BY DEF Serving, Kept
<1>3. ASSUME NEW s, s.log = state.log, s.asks = state.asks PROVE LogOk(s)
  BY <1>3 DEF ResultInv, LogOk, Made, Resolved, CallsIn
<1>4. ~HasStartHooks
  BY DEF QuestionsKept
\* A write of the queue, the timers or the records.
<1>5. ASSUME NEW s, Serving, s.asks = state.asks, state' = s, staged' = staged, runs' = runs,
             preps' = preps, preparing' = preparing, live' = live, NEW cmd,
             cmd.kind = "Drain", mailbox' = mailbox \/ mailbox' = Append(mailbox, cmd)
      PROVE  ParkHolds
  <2>1. Kept' = {s} /\ Kept = {state} /\ staged' = {}
    BY <1>2, <1>5 DEF Kept
  <2>2. \A i \in 1..Len(mailbox') : mailbox'[i].kind = "RunFinished" =>
           \E j \in 1..Len(mailbox) : mailbox[j].kind = "RunFinished"
    <3>1. CASE mailbox' = mailbox
      BY <3>1
    <3>2. CASE mailbox' = Append(mailbox, cmd)
      BY <1>5, <3>2, MailPosted
    <3> QED
      BY <1>5, <3>1, <3>2
  <2> QED
    BY <1>5, <2>1, <2>2, ParkQuiet
<1> DEFINE drain == [kind |-> "Drain"]
<1>6. drain.kind = "Drain"
  OBVIOUS
<1>7. ASSUME NEW item \in Incoming, Enqueue(item) PROVE ParkHolds
  <2>1. PICK s : s = ApplyReceived(state, item)
    OBVIOUS
  <2>2. s.asks = state.asks
    BY <1>1, <2>1, FoldParts DEF Parts
  <2>3. /\ Serving /\ state' = s /\ mailbox' = Append(mailbox, drain)
        /\ UNCHANGED <<staged, runs, preps, preparing, live>>
    BY <1>7, <2>1 DEF Enqueue, actor
  <2> HIDE DEF drain
  <2> QED
    BY <1>5, <1>6, <2>2, <2>3
<1>8. ASSUME NEW answers \in SUBSET state.asks, Answer(answers) PROVE ParkHolds
  <2>1. PICK turn \in AnsweredTurn(state, answers) : BeginTurn(turn, Here)
    BY <1>8 DEF Answer
  <2>2. Starts(turn, state)
    BY <1>1, <2>1, BeginTurnStarts
  <2>3. turn \in Turn /\ turn.results = state.asks /\ answers = state.asks
    <3>1. state.asks \in SUBSET Call
      BY <1>1 DEF AgentState
    <3> QED
      BY <1>1, <2>1, <3>1 DEF AnsweredTurn, Turn, AgentState
  <2>4. live' = live /\ state.asks \subseteq spent'.answered
    <3>1. spent' = [spent EXCEPT !.answered = @ \cup answers] /\ live' = live
      BY <1>8 DEF Answer
    <3>2. spent'.answered = spent.answered \cup answers
      BY <3>1 DEF TypeOK
    <3> QED
      BY <2>3, <3>1, <3>2
  <2> QED
    BY <1>1, <1>3, <1>4, <2>2, <2>3, <2>4, ParkStarts
<1>9. CASE Cancel
  <2>1. /\ Serving /\ UNCHANGED <<state, staged, mailbox, preps, preparing, live>>
        /\ runs = {} => runs' = {}
    BY <1>9 DEF Cancel, durable
  <2>2. Kept' = {state} /\ Kept = {state} /\ staged' = {}
    BY <1>2, <2>1 DEF Kept
  <2> QED
    BY <2>1, <2>2, ParkQuiet
<1>10. ASSUME NEW next \in BOOLEAN, RecordRuntime(next) PROVE ParkHolds
  <2>1. PICK s : s = ApplyLifecycle(state, state.children)
    OBVIOUS
  <2>2. s \in AgentState /\ s.log = state.log /\ s.asks = state.asks /\ s.inbox = state.inbox
    <3>1. state.children \in Nat
      BY <1>1 DEF AgentState
    <3>2. s \in AgentState
      BY <1>1, <2>1, <3>1, QueueFoldTypes
    <3>3. Parts(ApplyLifecycle(state, state.children), state.inbox, state.asks, state.timers,
                state.log)
      BY <1>1, FoldParts
    <3> QED
      BY <2>1, <3>2, <3>3 DEF Parts
  <2>3. PICK h : h = [Here EXCEPT !.state = s, !.ready = next]
    OBVIOUS
  <2>4. h.state = s /\ TryDrain(h)
    BY <1>1, <1>10, <2>1, <2>3 DEF Handled, RecordRuntime
  <2>5. Outcome(s) /\ LogOk(s)
    BY <1>3, <2>2, <2>4, TryDrainOutcome
  <2> QED
    BY <1>4, <1>10, <2>2, <2>5, ParkCarried DEF RecordRuntime
<1>11. ASSUME NEW children \in 0..MaxChildren, RecordChild(children) PROVE ParkHolds
  <2>1. PICK s : s = ApplyLifecycle(state, children)
    OBVIOUS
  <2>2. s.asks = state.asks
    <3>1. Parts(ApplyLifecycle(state, children), state.inbox, state.asks, state.timers,
                state.log)
      BY <1>1, FoldParts
    <3> QED
      BY <2>1, <3>1 DEF Parts
  <2> QED
    BY <1>5, <1>6, <1>11, <2>1, <2>2 DEF RecordChild, tasks, actor
<1>12. ASSUME NEW t \in Timers, ArmTimer(t) PROVE ParkHolds
  <2>1. PICK s : s = ApplyTimerArmed(state, t)
    OBVIOUS
  <2>2. s.asks = state.asks
    <3>1. Parts(ApplyTimerArmed(state, t), state.inbox, state.asks, state.timers \cup {t},
                state.log)
      BY <1>1, FoldParts
    <3> QED
      BY <2>1, <3>1 DEF Parts
  <2> QED
    BY <1>5, <1>6, <1>12, <2>1, <2>2 DEF ArmTimer, actor
<1>13. ASSUME NEW ts \in SUBSET Timers, CancelTimer(ts) PROVE ParkHolds
  <2>1. PICK s : s = ApplyTimerCancelled(state, ts)
    OBVIOUS
  <2>2. s.asks = state.asks
    <3>1. Parts(ApplyTimerCancelled(state, ts), state.inbox, state.asks, state.timers \ ts,
                state.log)
      BY <1>1, FoldParts
    <3> QED
      BY <2>1, <3>1 DEF Parts
  <2> QED
    BY <1>5, <1>6, <1>13, <2>1, <2>2 DEF CancelTimer, tasks, actor
\* With no mail and no task nothing is asked beside.
<1>14. ASSUME state' = state, staged' = {}, runs' = {}, ~preparing', preps' = {},
              Len(mailbox') = 0, MaxCrashes # 0
       PROVE  ParkHolds
  <2>1. Kept' = {state}
    BY <1>14 DEF Kept
  <2>2. ParkGoes(state, state', spent'.answered)
    BY <1>14 DEF ParkGoes
  <2>3. (\A k \in Kept : Rests(k))'
    BY <1>14 DEF Rests
  <2>4. (\A s \in {state} \cup staged : Questions(s))'
    BY <1>14 DEF ParkInv, Questions
  <2> QED
    BY <1>14, <2>2, <2>3, <2>4 DEF ParkInv, ParkHolds
<1>15. CASE Unload
  <2>1. MaxCrashes # 0
    BY <1>15 DEF Unload, TypeOK
  <2>2. Len(mailbox') = 0
    BY <1>15 DEF Unload
  <2> QED
    BY <1>14, <1>15, <2>1, <2>2 DEF Unload
<1>16. ASSUME NEW isReady \in BOOLEAN, Load(isReady) PROVE ParkHolds
  <2>1. /\ ~live /\ live' /\ UNCHANGED <<state, staged, preps, preparing>>
        /\ spent' = spent
    BY <1>16 DEF Load, durable
  <2>2. runs = {} /\ Kept' = Kept
    BY <2>1 DEF RunInv, Gone, Kept
  <2>3. \A i \in 1..Len(mailbox') : mailbox'[i].kind = "PersistProgress"
    BY <1>16 DEF Load
  <2>4. Interactive \/ \A x \in {state} \cup staged : x.asks = {}
    <3>1. MaxCrashes # 0
      BY <2>1 DEF ParkInv
    <3>2. ASSUME "ask" \notin Tools, NEW x \in {state} \cup staged PROVE x.asks = {}
      <4>1. x.asks \subseteq Call /\ Questions(x)
        BY DEF TypeOK, AgentState, ParkInv
      <4>2. \A c \in Call : c.tool \in Tools
        BY DEF Call
      <4> QED
        BY <3>2, <4>1, <4>2 DEF Questions
    <3> QED
      BY <3>1, <3>2 DEF QuestionsKept
  <2>5. Interactive => runs' = runs
    BY <1>16 DEF Load
  <2>6. (\A k \in Kept : Rests(k))'
    <3>1. ASSUME NEW k \in Kept, k.asks # {}
          PROVE  runs' = {} /\ \A i \in 1..Len(mailbox') : mailbox'[i].kind # "RunFinished"
      <4>1. k \in {state} \cup staged
        BY DEF Kept
      <4> QED
        BY <2>2, <2>3, <2>4, <2>5, <3>1, <4>1
    <3> QED
      BY <2>2, <3>1 DEF Rests
  <2>7. ParkGoes(state, state', spent'.answered)
    BY <2>1 DEF ParkGoes
  <2> QED
    BY <2>1, <2>6, <2>7 DEF ParkInv, ParkHolds, ParkGoes, Questions
<1> QED
  BY <1>7, <1>8, <1>9, <1>10, <1>11, <1>12, <1>13, <1>15, <1>16 DEF Outside

\* The end of a run leaves no question of another run behind, and what it asks rests.
LEMMA ParkFinished ==
    ASSUME QuestionsKept, TypeOK, RunInv, MailOfRun(mailbox), ResultInv, ParkInv, RunFinished
    PROVE  ParkHolds
<1>1. PICK cmd : cmd = Head(mailbox)
  OBVIOUS
<1>2. /\ Serving /\ mailbox # <<>> /\ mailbox' = Tail(mailbox) /\ Receive("RunFinished")
      /\ cmd.kind = "RunFinished" /\ cmd.calls \in SUBSET Call /\ live' = live
  <2>1. Receive("RunFinished")
    BY DEF RunFinished
  <2>2. cmd \in Command /\ cmd.kind = "RunFinished"
    BY <1>1, <2>1, ReceiveType
  <2> QED
    BY <2>1, <2>2, CommandFields DEF Receive, RunFinished
<1>3. state \in AgentState /\ LogOk(state) /\ Kept = {state} /\ staged = {}
  BY <1>2 DEF Serving, Kept, ResultInv, TypeOK
<1>4. CASE cmd.run \notin running
  <2>1. UNCHANGED <<state, staged, runs, preps, preparing>>
    BY <1>1, <1>4 DEF RunFinished, durable
  <2>2. Kept' = {state}
    BY <1>3, <2>1 DEF Kept
  <2>3. \A i \in 1..Len(mailbox') : \E j \in 1..Len(mailbox) : mailbox'[i] = mailbox[j]
    BY <1>2, MailStill
  <2> QED
    BY <1>2, <1>3, <2>1, <2>2, <2>3, ParkQuiet
<1>5. CASE cmd.run \in running
  <2>1. runs = {} /\ Clear(mailbox')
    BY <1>2, ReportIsLast
  <2>2. state.asks = {}
    <3>1. 1 \in 1..Len(mailbox) /\ mailbox[1].kind = "RunFinished"
      BY <1>1, <1>2 DEF TypeOK
    <3>2. Rests(state)
      BY <1>3 DEF ParkInv
    <3> QED
      BY <3>1, <3>2 DEF Rests
  <2>3. cmd.calls \subseteq MissingResults(state)
    <3>1. Promise(cmd) \subseteq MissingResults(state)
      BY <1>1, <1>2, LedgerHead
    <3> QED
      BY <1>2, <3>1 DEF Promise
  <2>4. PICK h : h = [Here EXCEPT !.running = {}]
    OBVIOUS
  <2>5. h \in Handled /\ h.state = state
    BY <2>4, HereType DEF Handled, Here
  <2>6. Finishes(h, cmd.calls)
    <3>1. HandleFinished(cmd) /\ cmd.outcome \in RunOutcome
      BY <1>1, <1>2, <1>5, ReceiveType, CommandFields DEF RunFinished
    <3> QED
      BY <2>4, <3>1 DEF HandleFinished, Finishes, RunOutcome
  <2>7. PICK s1 : EndsIn(state, cmd.calls, s1) /\ Outcome(s1)
    BY <1>2, <2>5, <2>6, FinishOutcome DEF EndLeaves
  <2>8. s1 \in AgentState
    BY <1>2, <1>3, <2>7, EndsInType
  <2>9. Questions(s1)
    <3>1. s1.asks = state.asks \/ (Asks(cmd.calls) /\ s1.asks = cmd.calls)
      BY <1>2, <1>3, <2>7, EndsAsks
    <3> QED
      BY <2>2, <3>1 DEF Questions, Asks
  \* What the journal will hold rests, and asks as the invariant says.
  <2>10. ASSUME NEW x, Kept' = {x}, state' \in {state, x}, staged' \subseteq {x},
                UNCHANGED <<preparing, preps>>, Questions(x),
                x.asks = {} \/ runs' = {}
         PROVE  ParkHolds
    <3>1. (\A k \in Kept : Rests(k))'
      BY <2>1, <2>10 DEF Rests, Clear
    <3>2. ParkGoes(state, state', spent'.answered)
      BY <2>2 DEF ParkGoes
    <3>3. \A y \in {state'} \cup staged' : Questions(y)
      BY <1>3, <2>10 DEF ParkInv
    <3>4. (\A y \in {state} \cup staged : Questions(y))'
      BY <3>3 DEF Questions
    <3>5. ASSUME NEW y \in staged' PROVE ParkGoes(state', y, spent'.answered)
      BY <2>2, <2>10 DEF ParkGoes
    <3>6. (\A y \in staged : ParkGoes(state, y, spent.answered))'
      BY <3>5
    <3>7. ~preparing' /\ preps' = {} /\ (MaxCrashes = 0 => live')
      BY <1>2, <2>10 DEF ParkInv
    <3> QED
      BY <3>1, <3>2, <3>4, <3>6, <3>7 DEF ParkInv, ParkHolds
  <2>11. CASE Leaves(s1) /\ UNCHANGED <<preparing, preps, runs, nextRun>>
    <3>1. Kept' = {s1} /\ state' \in {state, s1} /\ staged' \subseteq {s1}
      BY <2>11, LeavesKept
    <3> QED
      BY <2>1, <2>9, <2>10, <2>11, <3>1
  <2>12. CASE \E turn \in QueuedTurn(s1) : Starts(turn, s1)
    <3>1. PICK turn \in QueuedTurn(s1) : Starts(turn, s1)
      BY <2>12
    <3>2. turn \in Turn
      BY <2>8 DEF QueuedTurn, AgentState, Turn
    <3>3. PICK k : k = Taken(turn, s1)
      OBVIOUS
    <3>4. k.asks = {}
      BY <2>8, <3>2, <3>3, TakenParts DEF Parts
    <3>5. Kept' = {k} /\ state' \in {state, k} /\ staged' \subseteq {k}
      <4>1. Leaves(k)
        BY <3>1, <3>3 DEF Starts
      <4> QED
        BY <4>1, LeavesKept DEF Leaves
    <3>6. UNCHANGED <<preparing, preps>>
      BY <3>1 DEF Starts, HookDue, QuestionsKept
    <3> QED
      BY <2>10, <3>4, <3>5, <3>6 DEF Questions
  <2> QED
    BY <2>7, <2>11, <2>12 DEF Outcome
<1> QED
  BY <1>4, <1>5

\* Every command of the mail keeps it.
LEMMA ParkCommand ==
    ASSUME QuestionsKept, TypeOK, RunInv, MailOfRun(mailbox), ResultInv, ParkInv, HandleCommand
    PROVE  ParkHolds
<1>1. state \in AgentState /\ Here \in Handled /\ Here.state = state
  BY HereType DEF TypeOK, Here
<1>2. mailbox # <<>> /\ mailbox' = Tail(mailbox) /\ Serving
  BY DEF HandleCommand, Drain, StartPrepared, PersistProgress, TimerFired, RunFinished, Receive
<1>3. Kept = {state} /\ staged = {} /\ LogOk(state)
  BY <1>2 DEF Serving, Kept, ResultInv
<1>4. PICK cmd : cmd = Head(mailbox)
  OBVIOUS
<1>5. 1 \in 1..Len(mailbox) /\ mailbox[1] = cmd
  BY <1>2, <1>4 DEF TypeOK
<1>6. ASSUME NEW s, s.log = state.log, s.asks = state.asks PROVE LogOk(s)
  BY <1>3, <1>6 DEF LogOk, Made, Resolved, CallsIn
<1>7. ~HasStartHooks
  BY DEF QuestionsKept
<1>8. \A i \in 1..Len(mailbox') : \E j \in 1..Len(mailbox) : mailbox'[i] = mailbox[j]
  BY <1>2, MailStill
\* A command that leaves the questions and the runs.
<1>9. ASSUME state'.asks = state.asks, staged' = {}, live' = live,
             UNCHANGED <<preparing, preps>>, runs = {} => runs' = {}
      PROVE  ParkHolds
  <2>1. Kept' = {state'}
    BY <1>9 DEF Kept
  <2> QED
    BY <1>3, <1>8, <1>9, <2>1, ParkQuiet
<1>10. CASE Drain
  <2>1. Outcome(state) /\ live' = live
    BY <1>1, <1>10, TryDrainOutcome DEF Drain
  <2> QED
    BY <1>1, <1>2, <1>3, <1>7, <2>1, ParkCarried
<1>11. CASE TimerFired
  <2>1. live' = live
    BY <1>11 DEF TimerFired
  <2>2. CASE cmd.timer \in state.timers
    <3>1. PICK t : t = cmd.timer
      OBVIOUS
    <3>2. PICK s1 : s1 = ApplyTimerFired(state, t)
      OBVIOUS
    <3>3. PICK item : item = TimerItem(t, state.fires[t] + 1)
      OBVIOUS
    <3>4. PICK s : s = ApplyReceived(s1, item)
      OBVIOUS
    <3>5. t \in Timers
      BY <1>4, <1>11, <3>1, ReceiveType, CommandFields DEF TimerFired
    <3>6. s1 \in AgentState
      BY <1>1, <3>2, <3>5, TimerFoldTypes
    <3>7. item \in Item /\ ~IsUser(item)
      <4>1. state.fires[t] + 1 \in Nat
        BY <1>1, <3>5 DEF AgentState
      <4>2. item \in Item
        BY <3>3, <3>5, <4>1, ItemTypes
      <4> QED
        BY <3>3, <4>2 DEF IsUser, TimerItem
    <3>8. s \in AgentState
      BY <3>4, <3>6, <3>7, QueueFoldTypes
    <3>9. s1.log = state.log /\ s1.asks = state.asks /\ s1.inbox = state.inbox
      <4>1. Parts(ApplyTimerFired(state, t), state.inbox, state.asks,
                  IF t \in Recurring THEN state.timers ELSE state.timers \ {t}, state.log)
        BY <1>1, FoldParts
      <4> QED
        BY <3>2, <4>1 DEF Parts
    <3>10. s.log = s1.log /\ s.asks = s1.asks /\ s.inbox = s1.inbox \cup {item}
      <4>1. Parts(ApplyReceived(s1, item), s1.inbox \cup {item}, s1.asks, s1.timers, s1.log)
        BY <3>6, FoldParts
      <4> QED
        BY <3>4, <4>1 DEF Parts
    <3>11. PICK h : h = [Here EXCEPT !.state = s]
      OBVIOUS
    <3>12. h.state = s /\ TryDrain(h)
      BY <1>1, <1>4, <1>11, <2>2, <3>1, <3>2, <3>3, <3>4, <3>11 DEF Handled, TimerFired
    <3>13. Outcome(s)
      BY <3>12, TryDrainOutcome
    <3>14. \A i \in s.inbox : IsUser(i) => i \in state.inbox
      BY <3>7, <3>9, <3>10
    <3> QED
      BY <1>2, <1>6, <1>7, <2>1, <3>8, <3>9, <3>10, <3>13, <3>14, ParkCarried
  <2>3. CASE cmd.timer \notin state.timers
    <3>1. UNCHANGED <<state, staged, runs, preps, preparing>>
      BY <1>4, <1>11, <2>3 DEF TimerFired, durable
    <3> QED
      BY <1>3, <1>9, <2>1, <3>1
  <2> QED
    BY <2>2, <2>3
<1>12. CASE StartPrepared
  <2>1. cmd.kind = "StartPrepared"
    <3>1. Receive("StartPrepared")
      BY <1>12 DEF StartPrepared
    <3> QED
      BY <1>4, <3>1 DEF Receive
  <2>2. preparing
    BY <1>5, <2>1 DEF RunInv, PreparedOnce
  <2> QED
    BY <2>2 DEF ParkInv
<1>13. CASE PersistProgress
  <2>1. /\ state' = ApplyProgress(state, cmd.ev, cmd.calls) /\ cmd.calls \in SUBSET Call
        /\ staged' = staged /\ live' = live /\ UNCHANGED <<preparing, preps>>
        /\ runs = {} => runs' = {}
    <3>1. Receive("PersistProgress")
      BY <1>13 DEF PersistProgress
    <3>2. cmd \in Command /\ cmd.kind = "PersistProgress"
      BY <1>4, <3>1, ReceiveType
    <3> QED
      BY <1>4, <1>13, <3>2, CommandFields DEF PersistProgress, actor
  <2>2. PICK s : s = ApplyProgress(state, cmd.ev, cmd.calls)
    OBVIOUS
  <2>3. s.asks = state.asks
    <3>1. ApplyProgress(state, cmd.ev, cmd.calls).asks = state.asks
      BY <1>1, FoldParts DEF Parts, ApplyProgress
    <3> QED
      BY <2>2, <3>1
  <2> QED
    BY <1>3, <1>9, <2>1, <2>2, <2>3
<1>14. CASE RunFinished
  BY <1>14, ParkFinished
<1> QED
  BY <1>10, <1>11, <1>12, <1>13, <1>14 DEF HandleCommand

\* Every step keeps the invariant, and moves the questions as the property says.
LEMMA ParkStep ==
    ASSUME QuestionsKept, TypeOK, RunInv, MailOfRun(mailbox), ResultInv, ParkInv, [Next]_vars
    PROVE  ParkHolds
<1>1. CASE Persist
  <2>1. /\ state' \in staged /\ staged' = {}
        /\ UNCHANGED <<mailbox, runs, preps, preparing, live, spent>>
    BY <1>1 DEF Persist, tasks, ghosts, actor
  <2>2. state' \in Kept /\ Kept' = {state'}
    BY <2>1 DEF Kept
  <2>3. ParkGoes(state, state', spent'.answered)
    BY <2>1 DEF ParkInv
  <2>4. Rests(state') /\ Questions(state')
    BY <2>1, <2>2 DEF ParkInv
  <2>5. (\A k \in Kept : Rests(k))'
    BY <2>1, <2>2, <2>4 DEF Rests
  <2>6. (\A s \in {state} \cup staged : Questions(s))'
    BY <2>1, <2>4 DEF Questions
  <2> QED
    BY <2>1, <2>3, <2>5, <2>6 DEF ParkInv, ParkHolds
<1>2. ASSUME NEW t \in sleeps, SleepEnds(t) PROVE ParkHolds
  <2>1. PICK cmd : cmd = [kind |-> "TimerFired", timer |-> t]
    OBVIOUS
  <2>2. /\ mailbox' = Append(mailbox, cmd) /\ cmd.kind = "TimerFired"
        /\ UNCHANGED <<state, staged, runs, preps, preparing, live, spent>>
    BY <1>2, <2>1 DEF SleepEnds, durable, ghosts, actor
  <2>3. Kept' = Kept
    BY <2>2 DEF Kept
  <2>4. \A i \in 1..Len(mailbox') : mailbox'[i].kind = "RunFinished" =>
           \E j \in 1..Len(mailbox) : mailbox[j].kind = "RunFinished"
    BY <2>2, MailPosted
  <2>5. \A x \in staged : ParkGoes(state, x, spent.answered) /\ x \in Kept
    BY DEF ParkInv, Kept
  <2> QED
    BY <2>2, <2>3, <2>4, <2>5, ParkQuiet
<1>3. ASSUME NEW turn \in preps PROVE FALSE
  BY <1>3 DEF ParkInv
<1>4. CASE UNCHANGED vars
  <2>1. UNCHANGED <<state, staged, mailbox, runs, preps, preparing, live, spent>>
    BY <1>4 DEF vars, durable, tasks, ghosts, actor
  <2>2. Kept' = Kept
    BY <2>1 DEF Kept
  <2>3. \A x \in staged : ParkGoes(state, x, spent.answered) /\ x \in Kept
    BY DEF ParkInv, Kept
  <2> QED
    BY <2>1, <2>2, <2>3, ParkQuiet
<1> QED
  BY <1>1, <1>2, <1>3, <1>4, ParkOutside, ParkCommand, ParkTask DEF Next, Inside

\* What a step does to the questions, as the property says it.
LEMMA ParkAnswered ==
    ASSUME ParkHolds, state.asks # {}, state'.asks # state.asks
    PROVE  /\ state'.asks = {}
           /\ state.asks \subseteq CallsIn(state', "result")
           /\ \/ state.asks \subseteq spent'.answered
              \/ \E i \in state.inbox : IsUser(i)
BY DEF ParkHolds, ParkGoes

\* A parked question ends only with a result for each call, and only because all were
\* answered or a person spoke, where no hook stands between the end of the questions and
\* their results and no recovery starts a loop beside them (answered_turn,
\* parked_and_unanswered, recover).
THEOREM ParksAreAnswered == ASSUME QuestionsKept PROVE Spec => ParkEndsAnswered
<1>1. Init => RunInv /\ MailOfRun(mailbox) /\ TimerInv /\ ResultInv /\ ParkInv
  <2> SUFFICES ASSUME Init PROVE RunInv /\ MailOfRun(mailbox) /\ TimerInv /\ ResultInv /\ ParkInv
    OBVIOUS
  <2>1. /\ mailbox = <<>> /\ runs = {} /\ preps = {} /\ sleeps = {} /\ running = {}
        /\ preparing = FALSE /\ staged = {} /\ state.timers = {} /\ live
        /\ state.log = <<>> /\ state.asks = {}
    BY DEF Init
  <2>2. Len(mailbox) = 0 /\ Len(state.log) = 0 /\ DOMAIN state.log = {}
    BY <2>1
  <2>3. RunInv /\ MailOfRun(mailbox)
    BY <2>1, <2>2 DEF RunInv, Held, ReportsFenced, PreparedOnce, Gone, MailOfRun
  <2>4. TimerInv
    BY <2>1, <2>2 DEF TimerInv, ArmedOnce, WokenOnce, WakeComes, Kept
  <2>5. LogOk(state)
    <3>1. SoundLog(state.log)
      BY <2>2 DEF SoundLog
    <3>2. Made(state) = {}
      BY <2>2 DEF Made, CallsIn
    <3> QED
      BY <2>1, <3>1, <3>2 DEF LogOk
  <2>6. ResultInv
    BY <2>1, <2>2, <2>5
       DEF ResultInv, MailApart, AllMissing, FreshCalls, CoarseOnce, RepairFirst
  <2>7. ParkInv
    BY <2>1 DEF ParkInv, Kept, Rests, Questions
  <2> QED
    BY <2>3, <2>4, <2>6, <2>7
<1>2. TypeOK /\ RunInv /\ MailOfRun(mailbox) /\ TimerInv /\ ResultInv /\ ParkInv /\ [Next]_vars
        => (RunInv /\ MailOfRun(mailbox) /\ TimerInv /\ ResultInv /\ ParkInv)'
  BY RunInvStep, MailOfRunStep, TimersStep, LedgerStep, ParkStep DEF ParkHolds
<1>3. TypeOK /\ RunInv /\ MailOfRun(mailbox) /\ TimerInv /\ ResultInv /\ ParkInv /\ [Next]_vars
        => [ state.asks # {} /\ state'.asks # state.asks
               => /\ state'.asks = {}
                  /\ state.asks \subseteq CallsIn(state', "result")
                  /\ \/ state.asks \subseteq spent'.answered
                     \/ \E i \in state.inbox : IsUser(i) ]_vars
  BY ParkStep, ParkAnswered
<1> QED
  BY <1>1, <1>2, <1>3, TypeCorrect, PTL DEF Spec, ParkEndsAnswered

-----------------------------------------------------------------------------
(* An accepted item is in one place *)

\* The ids of the items the agent queues for itself are of its own making: the code
\* prefixes them, and a person's message has the id of its request.
OwnIds == \A i \in Incoming : i.id \notin {"nudge-result", "contradiction"}

\* What the log says, be it once or twice, and that it is once.
InLog(s) == {i \in Counted : \E j \in 1..Len(s.log) : i \in s.log[j].items}
SaidOnce(s) == \A i \in Counted : \A j, n \in 1..Len(s.log) :
                  i \in s.log[j].items /\ i \in s.log[n].items => j = n

\* What s says of the items, with what is on its way to a run.
Placed(s) ==
    /\ SaidOnce(s)
    /\ Waiting(s) \cap InLog(s) = {}
    /\ Waiting(s) \cup InLog(s) \subseteq accepted \ refused
    /\ HooksKept => accepted \cap Counted \subseteq Waiting(s) \cup InLog(s) \cup refused \cup Underway

\* What is on its way to a run was accepted, and s neither holds nor says it.
Apart(s) == Underway \subseteq accepted \ (Waiting(s) \cup InLog(s) \cup refused)

\* A write to come leaves the items, or is of a turn that took all that waits: held up by
\* the hooks, or said.
Unwritten(s) ==
    \/ Waiting(s) = Waiting(state) /\ InLog(s) = InLog(state)
    \/ /\ Waiting(s) = {}
       /\ \/ InLog(s) = InLog(state) /\ Underway = Waiting(state)
          \/ InLog(s) = InLog(state) \cup Waiting(state) /\ Underway = {}

QueueInv ==
    /\ \A s \in {state} \cup staged : Placed(s)
    /\ \A k \in Kept : Apart(k)
    /\ \A s \in staged : Unwritten(s)
    /\ refused \cap Counted \subseteq accepted
    /\ ~HasStartHooks => ~preparing /\ preps = {}
    /\ MaxCrashes = 0 \/ staged # {} => live

\* A step of the promise, or none. It is read off InLog here, which is what Said is
\* wherever the invariant holds.
LogBox == INSTANCE DurableInbox WITH
    Items <- Counted,
    Forgets <- ~HooksKept,
    accepted <- accepted \cap Counted,
    queue <- Waiting(state),
    taken <- Underway \ Waiting(state),
    said <- InLog(state),
    refused <- refused \cap Counted,
    up <- live

InboxStays == UNCHANGED <<accepted \cap Counted, Waiting(state), Underway \ Waiting(state),
                          InLog(state), refused \cap Counted, live>>
InboxStep == LogBox!Next \/ InboxStays

\* To the items s1 is what s is.
SameItems(s, s1) ==
    /\ Waiting(s1) = Waiting(s) /\ InLog(s1) = InLog(s)
    /\ SaidOnce(s) => SaidOnce(s1)

LEMMA SameTrans ==
    ASSUME NEW a, NEW b, NEW c, SameItems(a, b), SameItems(b, c)
    PROVE  SameItems(a, c)
BY DEF SameItems

LEMMA SameLog ==
    ASSUME NEW s, NEW s1, s1.log = s.log, Waiting(s1) = Waiting(s)
    PROVE  SameItems(s, s1)
BY DEF SameItems, InLog, SaidOnce

\* An entry says its items.
LEMMA SaidAppended ==
    ASSUME NEW s \in AgentState, NEW s1, NEW e \in Entry, Joined(s, s1, e)
    PROVE  /\ InLog(s1) = InLog(s) \cup (e.items \cap Counted)
           /\ SaidOnce(s) /\ e.items \cap InLog(s) = {} => SaidOnce(s1)
<1>1. /\ Len(s.log) \in Nat /\ Len(s1.log) = Len(s.log) + 1
      /\ \A i \in 1..Len(s.log) : s1.log[i] = s.log[i]
      /\ s1.log[Len(s.log) + 1] = e
  BY LogGrows DEF Joined
<1>2. \A i : i \in 1..Len(s1.log) <=> i \in 1..Len(s.log) \/ i = Len(s.log) + 1
  BY <1>1
<1>3. ASSUME NEW i \in Counted
      PROVE  i \in InLog(s1) <=> i \in InLog(s) \/ i \in e.items
  <2>1. (\E j \in 1..Len(s1.log) : i \in s1.log[j].items)
           <=> (\E j \in 1..Len(s.log) : i \in s.log[j].items) \/ i \in e.items
    BY <1>1, <1>2
  <2> QED
    BY <1>3, <2>1 DEF InLog
<1>4. ASSUME SaidOnce(s), e.items \cap InLog(s) = {},
             NEW i \in Counted, NEW j \in 1..Len(s1.log), NEW n \in 1..Len(s1.log),
             i \in s1.log[j].items, i \in s1.log[n].items
      PROVE  j = n
  <2>1. ASSUME NEW x \in 1..Len(s.log), i \in s1.log[x].items, i \in e.items PROVE FALSE
    BY <1>1, <1>4, <2>1 DEF InLog
  <2>2. CASE j \in 1..Len(s.log) /\ n \in 1..Len(s.log)
    BY <1>1, <1>4, <2>2 DEF SaidOnce
  <2>3. CASE j = Len(s.log) + 1 /\ n \in 1..Len(s.log)
    BY <1>1, <1>4, <2>1, <2>3
  <2>4. CASE n = Len(s.log) + 1 /\ j \in 1..Len(s.log)
    BY <1>1, <1>4, <2>1, <2>4
  <2> QED
    BY <1>2, <1>4, <2>2, <2>3, <2>4
<1>5. InLog(s1) \subseteq Counted /\ InLog(s) \subseteq Counted
  BY DEF InLog
<1>6. SaidOnce(s) /\ e.items \cap InLog(s) = {} => SaidOnce(s1)
  BY <1>4 DEF SaidOnce
<1> QED
  BY <1>3, <1>5, <1>6

\* An entry without items changes nothing for them.
LEMMA SameAppended ==
    ASSUME NEW s \in AgentState, NEW s1, NEW e \in Entry, s1.log = s.log \o <<e>>,
           e.items = {}, Waiting(s1) = Waiting(s)
    PROVE  SameItems(s, s1)
<1>1. Joined(s, s1, e)
  BY DEF Joined
<1>2. InLog(s1) = InLog(s) \cup (e.items \cap Counted)
  BY <1>1, SaidAppended
<1>3. e.items \cap InLog(s) = {} /\ e.items \cap Counted = {}
  OBVIOUS
<1>4. SaidOnce(s) => SaidOnce(s1)
  BY <1>1, <1>3, SaidAppended
<1>5. InLog(s1) = InLog(s)
  BY <1>2, <1>3
<1> QED
  BY <1>4, <1>5 DEF SameItems

\* The results a handler writes carry no items.
LEMMA ResultsSame ==
    ASSUME NEW s \in AgentState, NEW calls \in SUBSET Call
    PROVE  /\ SameItems(s, ApplyInput(s, ResultEntry(calls)))
           /\ SameItems(s, Logged(s, <<ResultEntry(calls)>>))
           /\ SameItems(s, Logged(s, <<MsgEntry(calls)>>))
<1>1. /\ ResultEntry(calls) \in Entry /\ ResultEntry(calls).items = {}
      /\ MsgEntry(calls) \in Entry /\ MsgEntry(calls).items = {}
  <2>1. ResultEntry(calls).items = {} /\ MsgEntry(calls).items = {}
    BY DEF ResultEntry, MsgEntry
  <2> QED
    BY <2>1, EntryTypes
<1>2. PICK a : a = ApplyInput(s, ResultEntry(calls))
  OBVIOUS
<1>3. Parts(a, s.inbox, s.asks, s.timers, s.log \o <<ResultEntry(calls)>>)
  BY <1>2, FoldParts
<1>4. PICK b : b = Logged(s, <<ResultEntry(calls)>>)
  OBVIOUS
<1>5. Parts(b, s.inbox, s.asks, s.timers, s.log \o <<ResultEntry(calls)>>)
  BY <1>4, FoldParts
<1>6. PICK c : c = Logged(s, <<MsgEntry(calls)>>)
  OBVIOUS
<1>7. Parts(c, s.inbox, s.asks, s.timers, s.log \o <<MsgEntry(calls)>>)
  BY <1>6, FoldParts
<1>8. SameItems(s, a)
  BY <1>1, <1>3, SameAppended DEF Parts, Waiting
<1>9. SameItems(s, b)
  BY <1>1, <1>5, SameAppended DEF Parts, Waiting
<1>10. SameItems(s, c)
  BY <1>1, <1>7, SameAppended DEF Parts, Waiting
<1> QED
  BY <1>2, <1>4, <1>6, <1>8, <1>9, <1>10

\* What the agent queues for itself is not counted.
LEMMA OwnItems ==
    ASSUME OwnIds, NEW item, NEW n, NEW t,
           item \in {NudgeItem(n), ContradictionItem(n), TimerItem(t, n)}
    PROVE  item \notin Counted
<1>1. CASE item = NudgeItem(n)
  BY <1>1 DEF OwnIds, Counted, NudgeItem
<1>2. CASE item = ContradictionItem(n)
  BY <1>2 DEF OwnIds, Counted, ContradictionItem
<1>3. CASE item = TimerItem(t, n)
  <2>1. item.kind = "Timer"
    BY <1>3 DEF TimerItem
  <2>2. \A i \in Incoming : i.kind # "Timer"
    BY ConstantsAssumption DEF ConstantsAssumption
  <2> QED
    BY <2>1, <2>2 DEF Counted
<1> QED
  BY <1>1, <1>2, <1>3

\* An item of the agent's own in the queue.
LEMMA OwnReceived ==
    ASSUME NEW s \in AgentState, NEW item, item \notin Counted
    PROVE  SameItems(s, ApplyReceived(s, item))
<1>1. PICK s1 : s1 = ApplyReceived(s, item)
  OBVIOUS
<1>2. Parts(s1, s.inbox \cup {item}, s.asks, s.timers, s.log)
  BY <1>1, FoldParts
<1>3. s1.log = s.log /\ Waiting(s1) = Waiting(s)
  BY <1>2 DEF Parts, Waiting
<1> QED
  BY <1>1, <1>3, SameLog

\* The folds that leave queue and log.
LEMMA FoldSame ==
    ASSUME NEW s \in AgentState
    PROVE  /\ \A asks : SameItems(s, ApplyAskRecorded(s, asks))
           /\ SameItems(s, ApplyParked(s)) /\ SameItems(s, ApplyNudged(s))
           /\ SameItems(s, ApplyBoundary(s))
           /\ \A n : SameItems(s, ApplyLifecycle(s, n))
           /\ \A t : SameItems(s, ApplyTimerArmed(s, t))
           /\ \A ts : SameItems(s, ApplyTimerCancelled(s, ts))
           /\ \A t : SameItems(s, ApplyTimerFired(s, t))
<1>1. ASSUME NEW s1, s1.log = s.log, s1.inbox = s.inbox PROVE SameItems(s, s1)
  BY <1>1, SameLog DEF Waiting
<1>2. \A s1, asks, timers : Parts(s1, s.inbox, asks, timers, s.log) => SameItems(s, s1)
  BY <1>1 DEF Parts
<1> QED
  BY <1>2, FoldParts

\* The end of a run changes nothing for the items.
LEMMA EndsSame ==
    ASSUME OwnIds, NEW s \in AgentState, NEW calls \in SUBSET Call, NEW s1,
           EndsIn(s, calls, s1)
    PROVE  SameItems(s, s1)
<1>1. SameItems(s, s)
  BY DEF SameItems
<1>2. CASE s1 = ApplyNudged(ApplyReceived(s, NudgeItem(s.nudges)))
  <2>1. PICK got : got = ApplyReceived(s, NudgeItem(s.nudges))
    OBVIOUS
  <2>2. got \in AgentState
    <3>1. s.nudges \in Nat
      BY DEF AgentState
    <3> QED
      BY <2>1, <3>1, NudgeTypes, QueueFoldTypes
  <2>3. SameItems(s, got)
    BY <2>1, OwnItems, OwnReceived
  <2>4. SameItems(got, s1)
    BY <1>2, <2>1, <2>2, FoldSame
  <2> QED
    BY <2>3, <2>4, SameTrans
<1>3. PICK logged : logged = Logged(s, <<ResultEntry(calls)>>)
  OBVIOUS
<1>4. logged \in AgentState
  <2>1. <<ResultEntry(calls)>> \in Seq(Entry)
    BY EntryTypes
  <2> QED
    BY <1>3, <2>1, LoggedType
<1>5. PICK told : told = Contradicted(s, calls)
  OBVIOUS
<1>6. told \in AgentState /\ SameItems(s, told)
  <2>1. told = ApplyNudged(logged)
    BY <1>3, <1>5 DEF Contradicted
  <2>2. SameItems(logged, told) /\ told \in AgentState
    BY <1>4, <2>1, FoldSame, QueueFoldTypes
  <2> QED
    BY <1>3, <2>2, ResultsSame, SameTrans
<1>7. CASE s1 = ApplyReceived(told, ContradictionItem(told.nudges))
  <2>1. SameItems(told, s1)
    BY <1>6, <1>7, OwnItems, OwnReceived
  <2> QED
    BY <1>6, <2>1, SameTrans
<1>8. PICK fixed : fixed = Repaired(s)
  OBVIOUS
<1>9. fixed \in AgentState /\ SameItems(s, fixed)
  <2>1. MissingResults(s) \in SUBSET Call
    BY MissingType
  <2> QED
    BY <1>1, <1>8, <2>1, RepairedType, ResultsSame DEF Repaired
<1>10. PICK kept : kept = Logged(fixed, <<MsgEntry({})>>)
  OBVIOUS
<1>11. kept \in AgentState /\ SameItems(s, kept)
  <2>1. <<MsgEntry({})>> \in Seq(Entry)
    BY EntryTypes
  <2>2. SameItems(fixed, kept)
    BY <1>9, <1>10, ResultsSame
  <2> QED
    BY <1>9, <1>10, <2>1, <2>2, LoggedType, SameTrans
<1>12. CASE s1 = ApplyBoundary(fixed)
  <2>1. SameItems(fixed, s1)
    BY <1>9, <1>12, FoldSame
  <2> QED
    BY <1>9, <2>1, SameTrans
<1>13. CASE s1 = ApplyBoundary(kept)
  <2>1. SameItems(kept, s1)
    BY <1>11, <1>13, FoldSame
  <2> QED
    BY <1>11, <2>1, SameTrans
<1>14. CASE \/ s1 = ApplyParked(s) \/ s1 = ApplyAskRecorded(s, calls)
            \/ s1 = ApplyTimerCancelled(s, s.timers)
  BY <1>14, FoldSame
<1> QED
  BY <1>1, <1>2, <1>5, <1>6, <1>7, <1>8, <1>10, <1>12, <1>13, <1>14 DEF EndsIn

\* A turn's input says its items.
LEMMA InputSays ==
    ASSUME NEW s \in AgentState, NEW turn \in Turn, NEW k, k = ApplyTurnInput(s, turn)
    PROVE  /\ Waiting(k) = Waiting(s)
           /\ InLog(k) = InLog(s) \cup (turn.items \cap Counted)
           /\ SaidOnce(s) /\ turn.items \cap InLog(s) = {} => SaidOnce(k)
<1>1. turn.results \in SUBSET Call /\ turn.items \in SUBSET Item
  BY DEF Turn
<1>2. PICK s1 : s1 = IF turn.results = {} THEN s ELSE ApplyInput(s, ResultEntry(turn.results))
  OBVIOUS
<1>3. s1 \in AgentState /\ SameItems(s, s1)
  <2>1. ResultEntry(turn.results) \in Entry
    BY <1>1, EntryTypes
  <2>2. SameItems(s, s)
    BY DEF SameItems
  <2>3. CASE turn.results = {}
    BY <1>2, <2>2, <2>3
  <2>4. CASE turn.results # {}
    BY <1>1, <1>2, <2>1, <2>4, ResultsSame, QueueFoldTypes
  <2> QED
    BY <2>3, <2>4
<1>4. k = IF StartsUserTurn(turn) THEN ApplyInput(s1, InputEntry(turn.items)) ELSE s1
  BY <1>2 DEF ApplyTurnInput
<1>5. CASE StartsUserTurn(turn)
  <2>1. PICK e : e = InputEntry(turn.items)
    OBVIOUS
  <2>2. e \in Entry /\ e.items = turn.items
    BY <1>1, <2>1, EntryTypes DEF InputEntry
  <2>3. Parts(k, s1.inbox, s1.asks, s1.timers, s1.log \o <<e>>)
    BY <1>3, <1>4, <1>5, <2>1, FoldParts
  <2>4. Joined(s1, k, e) /\ Waiting(k) = Waiting(s1)
    BY <2>3 DEF Parts, Joined, Waiting
  <2>5. /\ InLog(k) = InLog(s1) \cup (e.items \cap Counted)
        /\ SaidOnce(s1) /\ e.items \cap InLog(s1) = {} => SaidOnce(k)
    BY <1>3, <2>2, <2>4, SaidAppended
  <2> QED
    BY <1>3, <2>2, <2>4, <2>5 DEF SameItems
<1>6. CASE ~StartsUserTurn(turn)
  <2>1. k = s1
    BY <1>4, <1>6
  <2>2. turn.items \cap Counted = {}
    BY <1>6 DEF StartsUserTurn, Counted
  <2> QED
    BY <1>3, <2>1, <2>2 DEF SameItems
<1> QED
  BY <1>5, <1>6

\* The turns on their way, by the command or the task that brings them.
Ready(m, p) == \E i \in 1..Len(m) : m[i].kind = "StartPrepared" /\ m[i].turn = p

LEMMA PreparedFound ==
    ASSUME NEW m, m \in Seq(Command), NEW ps
    PROVE  \A p : p \in ps \cup {m[i].turn : i \in {j \in DOMAIN m : m[j].kind = "StartPrepared"}}
                    <=> p \in ps \/ Ready(m, p)
<1>1. DOMAIN m = 1..Len(m)
  OBVIOUS
<1> QED
  BY <1>1 DEF Ready

LEMMA PreparedIs ==
    ASSUME TypeOK
    PROVE  \A p : p \in Prepared <=> p \in preps \/ Ready(mailbox, p)
BY PreparedFound DEF TypeOK, Prepared

LEMMA PreparedNext ==
    ASSUME TypeOK'
    PROVE  \A p : p \in Prepared' <=> p \in preps' \/ Ready(mailbox', p)
<1>1. mailbox' \in Seq(Command)
  BY DEF TypeOK
<1> QED
  BY <1>1, PreparedFound DEF Prepared

\* What a step does to the mail, but for a StartPrepared.
Passes == \/ mailbox' = mailbox
          \/ mailbox # <<>> /\ mailbox' = Tail(mailbox) /\ Head(mailbox).kind # "StartPrepared"
          \/ \E cmd : cmd.kind # "StartPrepared" /\ mailbox' = Append(mailbox, cmd)

LEMMA ReadyKept ==
    ASSUME TypeOK, Passes
    PROVE  \A p : Ready(mailbox', p) <=> Ready(mailbox, p)
<1>1. CASE mailbox' = mailbox
  BY <1>1
<1>2. CASE mailbox # <<>> /\ mailbox' = Tail(mailbox) /\ Head(mailbox).kind # "StartPrepared"
  <2>1. /\ Len(mailbox) \in Nat /\ Len(mailbox') = Len(mailbox) - 1
        /\ \A i \in 1..Len(mailbox') : i + 1 \in 1..Len(mailbox) /\ mailbox'[i] = mailbox[i + 1]
        /\ mailbox[1].kind # "StartPrepared"
    BY <1>2 DEF TypeOK
  <2>2. ASSUME NEW p, Ready(mailbox', p) PROVE Ready(mailbox, p)
    BY <2>1, <2>2 DEF Ready
  <2>3. ASSUME NEW p, Ready(mailbox, p) PROVE Ready(mailbox', p)
    <3>1. PICK i \in 1..Len(mailbox) : mailbox[i].kind = "StartPrepared" /\ mailbox[i].turn = p
      BY <2>3 DEF Ready
    <3>2. i # 1
      BY <2>1, <3>1
    <3>3. PICK j : j = i - 1
      OBVIOUS
    <3>4. j \in 1..Len(mailbox') /\ j + 1 = i
      BY <2>1, <3>1, <3>2, <3>3
    <3>5. mailbox'[j] = mailbox[i]
      BY <2>1, <3>4
    <3> QED
      BY <3>1, <3>4, <3>5 DEF Ready
  <2> QED
    BY <2>2, <2>3
<1>3. ASSUME NEW cmd, cmd.kind # "StartPrepared", mailbox' = Append(mailbox, cmd)
      PROVE  \A p : Ready(mailbox', p) <=> Ready(mailbox, p)
  <2>1. /\ Len(mailbox') = Len(mailbox) + 1 /\ Len(mailbox) \in Nat
        /\ mailbox'[Len(mailbox')] = cmd
        /\ \A i \in 1..Len(mailbox) : mailbox'[i] = mailbox[i]
        /\ \A i \in 1..Len(mailbox') : i \in 1..Len(mailbox) \/ i = Len(mailbox')
    BY <1>3, MailPosted
  <2>2. \A i \in 1..Len(mailbox) : i \in 1..Len(mailbox')
    BY <2>1
  <2> QED
    BY <1>3, <2>1, <2>2 DEF Ready
<1> QED
  BY <1>1, <1>2, <1>3 DEF Passes

\* Where nothing is to be prepared nothing is.
LEMMA NoneReady ==
    ASSUME TypeOK, RunInv, ~preparing
    PROVE  Prepared = {}
<1>1. preps = {}
  BY DEF RunInv, Held
<1>2. \A p : ~Ready(mailbox, p)
  BY DEF RunInv, PreparedOnce, Ready
<1> QED
  BY <1>1, <1>2, PreparedIs

\* A step that leaves the items where they are.
LEMMA QueueKept ==
    ASSUME QueueInv, accepted' = accepted, refused' = refused, live' = live, staged' # {} => live,
           Prepared' = Prepared, SameItems(state, state'),
           \A x \in staged' : SameItems(state', x) \/ (x \in staged /\ state' = state),
           \A x \in Kept' : \E k \in Kept : SameItems(k, x),
           ~HasStartHooks => preparing' = preparing /\ preps' = preps
    PROVE  QueueInv' /\ InboxStep
<1>1. Underway' = Underway
  BY DEF Underway
<1>2. ASSUME NEW x \in {state'} \cup staged' PROVE Placed(x)'
  <2>1. PICK s \in {state} \cup staged : SameItems(s, x)
    <3>1. CASE x = state' \/ SameItems(state', x)
      <4>1. SameItems(state, x)
        BY <3>1, SameTrans
      <4> QED
        BY <4>1
    <3>2. CASE x \in staged
      <4>1. SameItems(x, x)
        BY DEF SameItems
      <4> QED
        BY <3>2, <4>1
    <3> QED
      BY <1>2, <3>1, <3>2
  <2>2. Placed(s)
    BY DEF QueueInv
  <2>3. SaidOnce(x) /\ Waiting(x) = Waiting(s) /\ InLog(x) = InLog(s)
    BY <2>1, <2>2 DEF SameItems, Placed
  <2> QED
    BY <1>1, <2>2, <2>3 DEF Placed
<1>3. ASSUME NEW x \in Kept' PROVE Apart(x)'
  <2>1. PICK k \in Kept : SameItems(k, x)
    BY <1>3
  <2>2. Apart(k)
    BY DEF QueueInv
  <2>3. Waiting(x) = Waiting(k) /\ InLog(x) = InLog(k)
    BY <2>1 DEF SameItems
  <2> QED
    BY <1>1, <2>2, <2>3 DEF Apart
<1>4. ASSUME NEW x \in staged' PROVE Unwritten(x)'
  <2>1. CASE SameItems(state', x)
    BY <2>1 DEF Unwritten, SameItems
  <2>2. CASE x \in staged /\ state' = state
    <3>1. Unwritten(x)
      BY <2>2 DEF QueueInv
    <3> QED
      BY <1>1, <2>2, <3>1 DEF Unwritten
  <2> QED
    BY <1>4, <2>1, <2>2
<1>5. (\A s \in {state} \cup staged : Placed(s))'
  BY <1>2
<1>6. (\A k \in Kept : Apart(k))' /\ (\A s \in staged : Unwritten(s))'
  BY <1>3, <1>4
<1>7. /\ refused' \cap Counted \subseteq accepted'
      /\ ~HasStartHooks => ~preparing' /\ preps' = {}
      /\ MaxCrashes = 0 \/ staged' # {} => live'
  BY DEF QueueInv
<1>8. InboxStays
  BY <1>1 DEF InboxStays, SameItems
<1> QED
  BY <1>5, <1>6, <1>7, <1>8 DEF QueueInv, InboxStep

\* A turn that takes the queue: its items are on their way, or said.
LEMMA QueueStarts ==
    ASSUME TypeOK, TypeOK', RunInv, RunInv', QueueInv, Serving, Passes, NEW s \in AgentState,
           SameItems(state, s), NEW turn \in Turn, turn.items = s.inbox, Starts(turn, s),
           accepted' = accepted, refused' = refused, live' = live
    PROVE  QueueInv' /\ InboxStep
<1>1. PICK k : k = Taken(turn, s)
  OBVIOUS
<1>2. Kept' = {k} /\ (\/ state' = k /\ staged' = {}
                      \/ state' = state /\ staged' = {k})
  <2>1. Leaves(k)
    BY <1>1 DEF Starts
  <2> QED
    BY <2>1, LeavesKept DEF Leaves
<1>3. /\ Placed(state) /\ Apart(state) /\ refused \cap Counted \subseteq accepted
      /\ Waiting(s) = Waiting(state) /\ InLog(s) = InLog(state) /\ SaidOnce(s)
  BY DEF QueueInv, Serving, Kept, SameItems, Placed
<1>4. turn.items \cap Counted = Waiting(state)
  BY <1>3 DEF Waiting
<1>5. Waiting(k) = {} /\ SaidOnce(k)
      /\ InLog(k) = IF HookDue(turn) THEN InLog(state) ELSE InLog(state) \cup Waiting(state)
  <2>1. PICK began : began = ApplyTurnBegan(s, turn)
    OBVIOUS
  <2>2. began \in AgentState /\ Parts(began, s.inbox \ turn.items, {}, s.timers, s.log)
    BY <2>1, QueueFoldTypes, FoldParts
  <2>3. Waiting(began) = {} /\ InLog(began) = InLog(s) /\ SaidOnce(began)
    BY <1>3, <2>2 DEF Parts, Waiting, InLog, SaidOnce
  <2>4. CASE HookDue(turn)
    BY <1>1, <1>3, <2>1, <2>3, <2>4 DEF Taken
  <2>5. CASE ~HookDue(turn)
    <3>1. k = ApplyTurnInput(began, turn)
      BY <1>1, <2>1, <2>5 DEF Taken
    <3>2. turn.items \cap InLog(began) = {}
      BY <1>3, <1>4, <2>3 DEF Placed, InLog
    <3> QED
      BY <1>3, <1>4, <2>2, <2>3, <2>5, <3>1, <3>2, InputSays
  <2> QED
    BY <2>4, <2>5
<1>6. Underway = {} /\ Underway' = IF HookDue(turn) THEN Waiting(state) ELSE {}
  <2>1. \A p : Ready(mailbox', p) <=> Ready(mailbox, p)
    BY ReadyKept
  <2>2. CASE HookDue(turn)
    <3>1. preps' = preps \cup {turn}
      BY <2>2 DEF Starts
    <3>2. \A p : ~Ready(mailbox', p)
      BY <3>1 DEF RunInv, PreparedOnce, Ready
    <3>3. \A p \in preps' : p = turn
      BY <3>1 DEF RunInv, Held
    <3>4. \A p : p \in Prepared' <=> p = turn
      BY <3>1, <3>2, <3>3, PreparedNext
    <3>5. \A p \in Prepared : p = turn
      BY <2>1, <3>1, <3>2, <3>3, PreparedIs
    <3>6. Underway' = Waiting(state)
      <4>1. Underway' = {i \in Counted : i \in turn.items}
        BY <3>4 DEF Underway
      <4> QED
        BY <1>4, <4>1
    <3>7. Underway = {}
      <4>1. Underway \subseteq Waiting(state)
        BY <1>4, <3>5 DEF Underway
      <4> QED
        BY <1>3, <4>1 DEF Apart
    <3> QED
      BY <2>2, <3>6, <3>7
  <2>3. CASE ~HookDue(turn)
    <3>1. (\E choice : StartRun(turn, choice)) /\ UNCHANGED <<preparing, preps>>
      BY <2>3 DEF Starts
    <3>2. running' # {}
      BY <3>1 DEF StartRun
    <3>3. ~preparing /\ ~preparing'
      BY <3>1, <3>2 DEF RunInv, Held
    <3>4. Prepared = {}
      BY <3>3, NoneReady
    <3>5. Prepared' = {}
      BY <2>1, <3>1, <3>4, PreparedIs, PreparedNext
    <3> QED
      BY <2>3, <3>4, <3>5 DEF Underway
  <2> QED
    BY <2>2, <2>3
<1>7. /\ Waiting(state) \cap InLog(state) = {}
      /\ Waiting(state) \cup InLog(state) \subseteq accepted \ refused
      /\ HooksKept => accepted \cap Counted \subseteq Waiting(state) \cup InLog(state) \cup refused
  BY <1>3, <1>6 DEF Placed
<1>8. Placed(k)'
  BY <1>5, <1>6, <1>7 DEF Placed
<1>9. ASSUME NEW x, x = state PROVE Placed(x)'
  BY <1>3, <1>7, <1>9 DEF Placed
<1>10. Apart(k)'
  BY <1>5, <1>6, <1>7 DEF Apart
<1>11. state' = state => Unwritten(k)'
  BY <1>5, <1>6 DEF Unwritten
<1>12. (\A x \in {state} \cup staged : Placed(x))' /\ (\A x \in staged : Unwritten(x))'
  <2>1. ASSUME NEW x \in {state'} \cup staged' PROVE Placed(x)'
    BY <1>2, <1>8, <1>9
  <2>2. ASSUME NEW x \in staged' PROVE Unwritten(x)'
    BY <1>2, <1>11
  <2> QED
    BY <2>1, <2>2
<1>13. (\A x \in Kept : Apart(x))'
  BY <1>2, <1>10
<1>14. ~HasStartHooks => ~preparing' /\ preps' = {}
  BY DEF Starts, HookDue, QueueInv
<1>15. InboxStep
  <2>1. CASE state' = state
    BY <1>6, <2>1 DEF InboxStep, InboxStays
  <2>2. CASE state' = k /\ HookDue(turn)
    <3>1. LogBox!Take
      BY <1>5, <1>6, <2>2 DEF LogBox!Take
    <3> QED
      BY <3>1 DEF InboxStep, LogBox!Move, LogBox!Next, Serving
  <2>3. CASE state' = k /\ ~HookDue(turn)
    <3>1. LogBox!TakeAndSay
      BY <1>5, <1>6, <2>3 DEF LogBox!TakeAndSay
    <3> QED
      BY <3>1 DEF InboxStep, LogBox!Move, LogBox!Next, Serving
  <2> QED
    BY <1>2, <2>1, <2>2, <2>3
<1>16. refused' \cap Counted \subseteq accepted' /\ (MaxCrashes = 0 \/ staged' # {} => live')
  BY DEF QueueInv, Serving
<1> QED
  BY <1>12, <1>13, <1>14, <1>15, <1>16 DEF QueueInv

\* A handler that brings no item and then drains.
LEMMA QueueCarried ==
    ASSUME TypeOK, TypeOK', RunInv, RunInv', QueueInv, Serving, Passes, NEW s \in AgentState,
           SameItems(state, s), Outcome(s),
           accepted' = accepted, refused' = refused, live' = live
    PROVE  QueueInv' /\ InboxStep
<1>1. CASE Leaves(s) /\ UNCHANGED <<preparing, preps, runs, nextRun>>
  <2>1. Kept' = {s} /\ state \in Kept
    BY <1>1, LeavesKept DEF Serving, Kept
  <2>2. SameItems(state, state)
    BY DEF SameItems
  <2>3. Prepared' = Prepared
    BY <1>1, ReadyKept, PreparedIs, PreparedNext
  <2>4. SameItems(state, state') /\ \A x \in staged' : SameItems(state', x)
    BY <1>1, <2>2 DEF Leaves
  <2>5. \A x \in Kept' : \E y \in Kept : SameItems(y, x)
    BY <2>1
  <2> QED
    BY <1>1, <2>3, <2>4, <2>5, QueueKept DEF Serving
<1>2. CASE \E turn \in QueuedTurn(s) : Starts(turn, s)
  <2>1. PICK turn \in QueuedTurn(s) : Starts(turn, s)
    BY <1>2
  <2>2. turn \in Turn /\ turn.items = s.inbox
    BY DEF QueuedTurn, AgentState, Turn
  <2> QED
    BY <2>1, <2>2, QueueStarts
<1> QED
  BY <1>1, <1>2 DEF Outcome

\* A step that leaves the journal, and passes the mail on.
LEMMA QueueQuiet ==
    ASSUME TypeOK, TypeOK', QueueInv, Passes,
           UNCHANGED <<state, staged, preps, preparing, accepted, refused, live>>
    PROVE  QueueInv' /\ InboxStep
<1>1. Prepared' = Prepared
  BY ReadyKept, PreparedIs, PreparedNext
<1>2. Kept' = Kept
  BY DEF Kept
<1>3. \A s : SameItems(s, s)
  BY DEF SameItems
<1> QED
  BY <1>1, <1>2, <1>3, QueueKept DEF QueueInv

\* A step that only folds the state.
LEMMA QueueFolds ==
    ASSUME TypeOK, TypeOK', QueueInv, Passes, Serving, SameItems(state, state'), staged' = {},
           UNCHANGED <<preps, preparing, accepted, refused, live>>
    PROVE  QueueInv' /\ InboxStep
<1>1. Prepared' = Prepared
  BY ReadyKept, PreparedIs, PreparedNext
<1>2. Kept' = {state'} /\ Kept = {state} /\ staged = {}
  BY DEF Kept, Serving
<1>3. PICK x : x = state'
  OBVIOUS
<1> QED
  BY <1>1, <1>2, QueueKept

\* An item is queued.
LEMMA QueueEnqueues ==
    ASSUME TypeOK, TypeOK', QueueInv, NEW item \in Incoming, Enqueue(item)
    PROVE  QueueInv' /\ InboxStep
<1>1. PICK s : s = ApplyReceived(state, item)
  OBVIOUS
<1>2. /\ Serving /\ item \notin accepted /\ accepted' = accepted \cup {item}
      /\ state' = s /\ staged' = staged
      /\ UNCHANGED <<preps, preparing, refused, live>>
  BY <1>1 DEF Enqueue, actor
<1>3. Underway' = Underway
  <2>1. PICK cmd : cmd = [kind |-> "Drain"]
    OBVIOUS
  <2>2. Passes
    BY <2>1 DEF Enqueue, Passes
  <2>3. Prepared' = Prepared
    BY <1>2, <2>2, ReadyKept, PreparedIs, PreparedNext
  <2> QED
    BY <2>3 DEF Underway
<1>4. Kept' = {s} /\ Kept = {state} /\ staged' = {}
  BY <1>2 DEF Kept, Serving
<1>5. /\ state \in AgentState /\ Placed(state) /\ Apart(state)
      /\ refused \cap Counted \subseteq accepted
  BY <1>4 DEF TypeOK, QueueInv
<1>6. Parts(s, state.inbox \cup {item}, state.asks, state.timers, state.log)
  BY <1>1, <1>5, FoldParts
<1>7. /\ Waiting(s) = Waiting(state) \cup ({item} \cap Counted)
      /\ InLog(s) = InLog(state) /\ (SaidOnce(state) => SaidOnce(s))
  BY <1>6 DEF Parts, Waiting, InLog, SaidOnce
<1>8. /\ SaidOnce(state) /\ Waiting(state) \cap InLog(state) = {}
      /\ Waiting(state) \cup InLog(state) \subseteq accepted \ refused
      /\ HooksKept => accepted \cap Counted
                        \subseteq Waiting(state) \cup InLog(state) \cup refused \cup Underway
  BY <1>5 DEF Placed
<1>9. Placed(s)'
  BY <1>2, <1>3, <1>5, <1>7, <1>8 DEF Placed
<1>10. Underway \subseteq accepted \ (Waiting(state) \cup InLog(state) \cup refused)
  BY <1>5 DEF Apart
<1>11. Apart(s)'
  BY <1>2, <1>3, <1>7, <1>10 DEF Apart
<1>12. (\A x \in {state} \cup staged : Placed(x))' /\ (\A x \in staged : Unwritten(x))'
  <2>1. ASSUME NEW x \in {state'} \cup staged' PROVE Placed(x)'
    <3>1. x = s
      BY <1>2, <1>4, <2>1
    <3> QED
      BY <1>9, <3>1
  <2> QED
    BY <1>4, <2>1
<1>13. (\A x \in Kept : Apart(x))'
  BY <1>4, <1>11
<1>14. /\ refused' \cap Counted \subseteq accepted'
       /\ ~HasStartHooks => ~preparing' /\ preps' = {}
       /\ MaxCrashes = 0 \/ staged' # {} => live'
  BY <1>2, <1>5 DEF QueueInv
<1>15. InboxStep
  <2>1. Underway' \ Waiting(s) = Underway \ Waiting(state)
    BY <1>2, <1>3, <1>7, <1>10
  <2>2. CASE item \in Counted
    <3>1. LogBox!Accept(item)
      BY <1>2, <1>7, <2>1, <2>2 DEF LogBox!Accept
    <3> QED
      BY <1>2, <2>2, <3>1 DEF InboxStep, LogBox!Move, LogBox!Next, Serving
  <2>3. CASE item \notin Counted
    BY <1>2, <1>7, <2>1, <2>3 DEF InboxStep, InboxStays
  <2> QED
    BY <2>2, <2>3
<1> QED
  BY <1>12, <1>13, <1>14, <1>15 DEF QueueInv

\* The prepared turn starts, and says its items, or is given up, and the owner is told.
LEMMA QueuePrepared ==
    ASSUME TypeOK, TypeOK', RunInv, RunInv', QueueInv, StartPrepared
    PROVE  QueueInv' /\ InboxStep
<1>1. PICK cmd : cmd = Head(mailbox)
  OBVIOUS
<1>2. /\ Serving /\ mailbox # <<>> /\ mailbox' = Tail(mailbox)
      /\ cmd.kind = "StartPrepared" /\ cmd.turn \in Turn
  <2>1. Receive("StartPrepared")
    BY DEF StartPrepared
  <2>2. cmd \in Command /\ cmd.kind = "StartPrepared"
    BY <1>1, <2>1, ReceiveType
  <2> QED
    BY <2>1, <2>2, CommandFields DEF Receive
<1>3. PICK turn : turn = cmd.turn
  OBVIOUS
<1>4. 1 \in 1..Len(mailbox) /\ mailbox[1] = cmd
  BY <1>1, <1>2 DEF TypeOK
<1>5. preparing /\ preps = {} /\ \A p : Ready(mailbox, p) => p = turn
  <2>1. /\ preparing /\ preps = {}
        /\ \A j \in 1..Len(mailbox) : mailbox[j].kind = "StartPrepared" => j = 1
    BY <1>2, <1>4 DEF RunInv, PreparedOnce
  <2> QED
    BY <1>3, <1>4, <2>1 DEF Ready
<1>6. Underway = turn.items \cap Counted
  <2>1. \A p : p \in Prepared <=> p = turn
    BY <1>2, <1>3, <1>4, <1>5, PreparedIs DEF Ready
  <2>2. Underway = {i \in Counted : i \in turn.items}
    BY <2>1 DEF Underway
  <2> QED
    BY <2>2
<1>7. ~preparing' /\ preps' = {} /\ accepted' = accepted /\ live' = live /\ HasStartHooks
  BY <1>5 DEF StartPrepared, QueueInv
<1>8. Underway' = {}
  <2>1. \A p : ~Ready(mailbox', p)
    BY <1>7 DEF RunInv, PreparedOnce, Ready
  <2>2. Prepared' = {}
    BY <1>7, <2>1, PreparedNext
  <2> QED
    BY <2>2 DEF Underway
<1>9. /\ state \in AgentState /\ Placed(state) /\ Apart(state) /\ staged = {}
      /\ refused \cap Counted \subseteq accepted
  BY <1>2 DEF TypeOK, QueueInv, Serving, Kept
<1>10. /\ SaidOnce(state) /\ Waiting(state) \cap InLog(state) = {}
       /\ Waiting(state) \cup InLog(state) \subseteq accepted \ refused
       /\ HooksKept => accepted \cap Counted
                         \subseteq Waiting(state) \cup InLog(state) \cup refused \cup turn.items
  BY <1>6, <1>9 DEF Placed
<1>11. turn.items \cap Counted \subseteq accepted \ (Waiting(state) \cup InLog(state) \cup refused)
  BY <1>6, <1>9 DEF Apart
<1>12. Waiting(state) \subseteq Counted /\ InLog(state) \subseteq Counted
  BY DEF Waiting, InLog
\* However it ends, the items are placed again.
<1>13. ASSUME NEW s, state' = s, staged' = {}, SaidOnce(s), Waiting(s) = Waiting(state),
              \/ InLog(s) = InLog(state) /\ refused' = refused \cup turn.items
              \/ InLog(s) = InLog(state) \cup (turn.items \cap Counted) /\ refused' = refused
       PROVE  QueueInv'
  <2>1. /\ Waiting(s) \cap InLog(s) = {}
        /\ Waiting(s) \cup InLog(s) \subseteq accepted' \ refused'
    BY <1>7, <1>10, <1>11, <1>12, <1>13
  <2>2. HooksKept => accepted' \cap Counted \subseteq Waiting(s) \cup InLog(s) \cup refused'
    BY <1>7, <1>10, <1>13
  <2>3. Placed(s)'
    BY <1>13, <2>1, <2>2 DEF Placed
  <2>4. (\A x \in {state} \cup staged : Placed(x))' /\ (\A x \in staged : Unwritten(x))'
    <3>1. ASSUME NEW x \in {state'} \cup staged' PROVE Placed(x)'
      <4>1. x = s
        BY <1>13, <3>1
      <4> QED
        BY <2>3, <4>1
    <3> QED
      BY <1>13, <3>1
  <2>5. (\A x \in Kept : Apart(x))'
    BY <1>8 DEF Apart
  <2>6. refused' \cap Counted \subseteq accepted'
    BY <1>7, <1>9, <1>11, <1>13
  <2> QED
    BY <1>2, <1>7, <1>13, <2>4, <2>5, <2>6 DEF QueueInv, Serving
<1>14. Underway \ Waiting(state) = turn.items \cap Counted
  BY <1>6, <1>11
<1>15. CASE cmd.abandon
  <2>1. state' = state /\ staged' = {} /\ refused' = refused \cup turn.items
    BY <1>1, <1>3, <1>9, <1>15 DEF StartPrepared, durable
  <2>2. LogBox!Refuse
    BY <1>7, <1>8, <1>14, <2>1 DEF LogBox!Refuse
  <2>3. QueueInv'
    BY <1>10, <1>13, <2>1
  <2> QED
    BY <1>2, <1>7, <2>2, <2>3 DEF InboxStep, LogBox!Move, LogBox!Next, Serving
<1>16. CASE ~cmd.abandon
  <2>1. PICK s : s = ApplyTurnInput(state, turn)
    OBVIOUS
  <2>2. state' = s /\ staged' = {} /\ refused' = refused
    BY <1>1, <1>3, <1>16, <2>1 DEF StartPrepared, Write
  <2>3. turn.items \cap InLog(state) = {}
    BY <1>11 DEF InLog
  <2>4. /\ Waiting(s) = Waiting(state) /\ SaidOnce(s)
        /\ InLog(s) = InLog(state) \cup (turn.items \cap Counted)
    BY <1>2, <1>3, <1>9, <1>10, <2>1, <2>3, InputSays
  <2>5. LogBox!Say
    BY <1>7, <1>8, <1>14, <2>2, <2>4 DEF LogBox!Say
  <2>6. QueueInv'
    BY <1>13, <2>2, <2>4
  <2> QED
    BY <1>2, <1>7, <2>5, <2>6 DEF InboxStep, LogBox!Move, LogBox!Next, Serving
<1> QED
  BY <1>15, <1>16

\* The process's end and return leave the items, but for a turn a hook is holding up.
LEMMA QueueReturns ==
    ASSUME TypeOK, TypeOK', RunInv, RunInv', QueueInv,
           Unload \/ \E isReady \in BOOLEAN : Load(isReady)
    PROVE  QueueInv' /\ InboxStep
<1>1. MaxCrashes # 0
  <2>1. Unload => MaxCrashes # 0
    BY DEF Unload, TypeOK
  <2>2. (\E isReady \in BOOLEAN : Load(isReady)) => MaxCrashes # 0
    BY DEF Load, QueueInv
  <2> QED
    BY <2>1, <2>2
<1>2. /\ state' = state /\ ~preparing' /\ preps' = {}
      /\ accepted' = accepted /\ refused' = refused
      /\ \/ staged' = {} /\ live /\ live' = FALSE
         \/ staged' = staged /\ ~preparing /\ ~live /\ live' = TRUE
  <2>1. Unload => /\ UNCHANGED <<state, accepted, refused>>
                  /\ preparing' = FALSE /\ preps' = {} /\ staged' = {}
                  /\ live /\ live' = FALSE
    BY DEF Unload
  <2>2. ASSUME NEW isReady \in BOOLEAN, Load(isReady)
        PROVE  /\ ~live /\ live' = TRUE
               /\ UNCHANGED <<state, staged, preparing, preps, accepted, refused>>
    BY <2>2 DEF Load, durable
  <2>3. ~live => ~preparing /\ preps = {}
    BY DEF RunInv, Gone
  <2>4. CASE Unload
    BY <2>1, <2>4
  <2>5. CASE \E isReady \in BOOLEAN : Load(isReady)
    BY <2>2, <2>3, <2>5
  <2> QED
    BY <2>4, <2>5
<1>3. ~preparing => Underway = {}
  <2>1. ~preparing => Prepared = {}
    BY NoneReady
  <2> QED
    BY <2>1 DEF Underway
<1>4. Underway' = {}
  <2>1. \A p : ~Ready(mailbox', p)
    BY <1>2 DEF RunInv, PreparedOnce, Ready
  <2>2. Prepared' = {}
    BY <1>2, <2>1, PreparedNext
  <2> QED
    BY <2>2 DEF Underway
<1>5. HooksKept => Underway = {}
  BY <1>1, <1>3 DEF HooksKept, QueueInv
<1>6. ASSUME NEW x \in {state'} \cup staged' PROVE Placed(x)'
  <2>1. Placed(x)
    BY <1>2, <1>6 DEF QueueInv
  <2> QED
    BY <1>2, <1>4, <1>5, <2>1 DEF Placed
<1>7. ASSUME NEW x \in staged' PROVE Unwritten(x)'
  <2>1. x \in staged /\ Underway = {}
    BY <1>2, <1>3, <1>7
  <2>2. Unwritten(x)
    BY <2>1 DEF QueueInv
  <2> QED
    BY <1>2, <1>4, <2>1, <2>2 DEF Unwritten
<1>8. (\A x \in {state} \cup staged : Placed(x))' /\ (\A x \in staged : Unwritten(x))'
  BY <1>6, <1>7
<1>9. (\A x \in Kept : Apart(x))'
  BY <1>4 DEF Apart
<1>10. InboxStep
  <2>1. Underway' \ Waiting(state)' = {}
    BY <1>4
  <2>2. UNCHANGED <<Waiting(state), InLog(state), accepted, refused>>
    BY <1>2
  <2>3. CASE live /\ live' = FALSE
    <3>1. Underway \ Waiting(state) = {} \/ ~HooksKept
      BY <1>5
    <3>2. LogBox!End
      BY <2>1, <2>2, <2>3, <3>1 DEF LogBox!End
    <3> QED
      BY <3>2 DEF InboxStep, LogBox!Next
  <2>4. CASE ~preparing /\ ~live /\ live' = TRUE
    <3>1. Underway \ Waiting(state) = {}
      BY <1>3, <2>4
    <3>2. LogBox!Begin
      BY <2>1, <2>2, <2>4, <3>1 DEF LogBox!Begin, LogBox!items
    <3> QED
      BY <3>2 DEF InboxStep, LogBox!Next
  <2> QED
    BY <1>2, <2>3, <2>4
<1>11. refused' \cap Counted \subseteq accepted'
  BY <1>2 DEF QueueInv
<1> QED
  BY <1>1, <1>2, <1>8, <1>9, <1>10, <1>11 DEF QueueInv

\* A handled command leaves each item in one place.
LEMMA QueueCommand ==
    ASSUME OwnIds, TypeOK, TypeOK', RunInv, RunInv', MailOfRun(mailbox), QueueInv, HandleCommand
    PROVE  QueueInv' /\ InboxStep
<1>1. state \in AgentState /\ Here \in Handled /\ Here.state = state
  BY HereType DEF TypeOK, Here
<1>2. mailbox # <<>> /\ mailbox' = Tail(mailbox) /\ Serving /\ staged = {}
  BY DEF HandleCommand, Drain, StartPrepared, PersistProgress, TimerFired, RunFinished, Receive,
         Serving
<1>3. PICK cmd : cmd = Head(mailbox)
  OBVIOUS
<1>4. SameItems(state, state)
  BY DEF SameItems
<1>5. CASE Drain
  <2>1. Passes
    BY <1>2, <1>5 DEF Drain, Receive, Passes
  <2>2. Outcome(state)
    BY <1>1, <1>5, TryDrainOutcome DEF Drain
  <2> QED
    BY <1>1, <1>2, <1>4, <1>5, <2>1, <2>2, QueueCarried DEF Drain
<1>6. CASE TimerFired
  <2>1. Passes
    BY <1>2, <1>6 DEF TimerFired, Receive, Passes
  <2>2. CASE cmd.timer \in state.timers
    <3>1. PICK t : t = cmd.timer
      OBVIOUS
    <3>2. PICK s1 : s1 = ApplyTimerFired(state, t)
      OBVIOUS
    <3>3. PICK item : item = TimerItem(t, state.fires[t] + 1)
      OBVIOUS
    <3>4. PICK s : s = ApplyReceived(s1, item)
      OBVIOUS
    <3>5. t \in Timers
      BY <1>3, <1>6, <3>1, ReceiveType, CommandFields DEF TimerFired
    <3>6. s1 \in AgentState
      BY <1>1, <3>2, <3>5, TimerFoldTypes
    <3>7. item \in Item /\ item \notin Counted
      <4>1. state.fires[t] + 1 \in Nat
        BY <1>1, <3>5 DEF AgentState
      <4> QED
        BY <3>3, <3>5, <4>1, ItemTypes, OwnItems
    <3>8. s \in AgentState
      BY <3>4, <3>6, <3>7, QueueFoldTypes
    <3>9. SameItems(state, s)
      <4>1. SameItems(state, s1)
        BY <1>1, <3>2, FoldSame
      <4>2. SameItems(s1, s)
        BY <3>4, <3>6, <3>7, OwnReceived
      <4> QED
        BY <4>1, <4>2, SameTrans
    <3>10. PICK h : h = [Here EXCEPT !.state = s]
      OBVIOUS
    <3>11. h.state = s /\ TryDrain(h)
      BY <1>1, <1>3, <1>6, <2>2, <3>1, <3>2, <3>3, <3>4, <3>10 DEF Handled, TimerFired
    <3>12. Outcome(s)
      BY <3>11, TryDrainOutcome
    <3> QED
      BY <1>2, <1>6, <2>1, <3>8, <3>9, <3>12, QueueCarried DEF TimerFired
  <2>3. CASE cmd.timer \notin state.timers
    <3>1. UNCHANGED <<state, staged, preps, preparing, accepted, refused, live>>
      BY <1>3, <1>6, <2>3 DEF TimerFired, durable
    <3> QED
      BY <2>1, <3>1, QueueQuiet
  <2> QED
    BY <2>2, <2>3
<1>7. CASE StartPrepared
  BY <1>7, QueuePrepared
<1>8. CASE PersistProgress
  <2>1. Passes
    BY <1>2, <1>8 DEF PersistProgress, Receive, Passes
  <2>2. /\ state' = ApplyProgress(state, cmd.ev, cmd.calls) /\ cmd.calls \in SUBSET Call
        /\ staged' = staged /\ UNCHANGED <<preps, preparing, accepted, refused, live>>
    <3>1. Receive("PersistProgress")
      BY <1>8 DEF PersistProgress
    <3>2. cmd \in Command /\ cmd.kind = "PersistProgress"
      BY <1>3, <3>1, ReceiveType
    <3> QED
      BY <1>3, <1>8, <3>2, CommandFields DEF PersistProgress, actor, ghosts
  <2>3. PICK s : s = ApplyProgress(state, cmd.ev, cmd.calls)
    OBVIOUS
  <2>4. SameItems(state, s)
    <3>1. CASE s = Logged(state, <<>>)
      <4>1. Parts(s, state.inbox, state.asks, state.timers, state.log \o <<>>)
        BY <1>1, <3>1, FoldParts
      <4>2. state.log \o <<>> = state.log
        BY <1>1, ConcatEmptySeq DEF AgentState
      <4> QED
        BY <4>1, <4>2, SameLog DEF Parts, Waiting
    <3>2. \/ s = Logged(state, <<MsgEntry(cmd.calls)>>)
          \/ s = Logged(state, <<ResultEntry(cmd.calls)>>)
          \/ s = ApplyInput(state, ResultEntry(cmd.calls))
          \/ s = Logged(state, <<>>)
          \/ s = ApplyBoundary(state)
      BY <2>3 DEF ApplyProgress
    <3> QED
      BY <1>1, <2>2, <3>1, <3>2, ResultsSame, FoldSame
  <2> QED
    BY <1>2, <2>1, <2>2, <2>3, <2>4, QueueFolds
<1>9. CASE RunFinished
  <2>1. Passes /\ Receive("RunFinished")
    BY <1>2, <1>9 DEF RunFinished, Receive, Passes
  <2>2. /\ cmd.calls \in SUBSET Call /\ UNCHANGED <<accepted, refused, live>>
    <3>1. cmd \in Command /\ cmd.kind = "RunFinished"
      BY <1>3, <2>1, ReceiveType
    <3> QED
      BY <1>9, <3>1, CommandFields DEF RunFinished
  <2>3. CASE cmd.run \notin running
    <3>1. UNCHANGED <<state, staged, preps, preparing>>
      BY <1>3, <1>9, <2>3 DEF RunFinished, durable
    <3> QED
      BY <2>1, <2>2, <3>1, QueueQuiet
  <2>4. CASE cmd.run \in running
    <3>1. PICK h : h = [Here EXCEPT !.running = {}]
      OBVIOUS
    <3>2. h \in Handled /\ h.state = state
      BY <3>1, HereType DEF Handled, Here
    <3>3. Finishes(h, cmd.calls)
      <4>1. HandleFinished(cmd) /\ cmd.outcome \in RunOutcome
        BY <1>3, <1>9, <2>1, <2>4, ReceiveType, CommandFields DEF RunFinished
      <4> QED
        BY <3>1, <4>1 DEF HandleFinished, Finishes, RunOutcome
    <3>4. PICK s1 : EndsIn(state, cmd.calls, s1) /\ Outcome(s1)
      BY <2>2, <3>2, <3>3, FinishOutcome DEF EndLeaves
    <3>5. s1 \in AgentState /\ SameItems(state, s1)
      BY <1>1, <2>2, <3>4, EndsInType, EndsSame
    <3> QED
      BY <1>2, <2>1, <2>2, <3>4, <3>5, QueueCarried
  <2> QED
    BY <2>3, <2>4
<1> QED
  BY <1>5, <1>6, <1>7, <1>8, <1>9 DEF HandleCommand

\* What comes from outside leaves each item in one place.
LEMMA QueueOutside ==
    ASSUME OwnIds, TypeOK, TypeOK', RunInv, RunInv', QueueInv, Outside
    PROVE  QueueInv' /\ InboxStep
<1>1. state \in AgentState /\ Here \in Handled /\ Here.state = state
  BY HereType DEF TypeOK, Here
<1>2. SameItems(state, state)
  BY DEF SameItems
<1>3. Serving => staged = {}
  BY DEF Serving
\* A write that leaves queue and log.
<1>4. ASSUME NEW s, Serving, SameItems(state, s), state' = s, staged' = staged, mailbox' = mailbox,
             UNCHANGED <<preps, preparing, accepted, refused, live>>
      PROVE  QueueInv' /\ InboxStep
  BY <1>3, <1>4, QueueFolds DEF Passes
<1>5. ASSUME NEW answers \in SUBSET state.asks, Answer(answers) PROVE QueueInv' /\ InboxStep
  <2>1. PICK turn \in AnsweredTurn(state, answers) : BeginTurn(turn, Here)
    BY <1>5 DEF Answer
  <2>2. Starts(turn, state)
    BY <1>1, <2>1, BeginTurnStarts
  <2>3. turn \in Turn /\ turn.items = state.inbox
    <3>1. state.asks \in SUBSET Call /\ state.inbox \in SUBSET Item
      BY <1>1 DEF AgentState
    <3> QED
      BY <1>1, <2>1, <3>1 DEF AnsweredTurn, Turn
  <2>4. Serving /\ Passes /\ UNCHANGED <<accepted, refused, live>>
    BY <1>5 DEF Answer, Passes
  <2> QED
    BY <1>1, <1>2, <2>2, <2>3, <2>4, QueueStarts
<1>6. CASE Cancel
  BY <1>6, QueueQuiet DEF Cancel, durable, Passes
<1>7. ASSUME NEW next \in BOOLEAN, RecordRuntime(next) PROVE QueueInv' /\ InboxStep
  <2>1. PICK s : s = ApplyLifecycle(state, state.children)
    OBVIOUS
  <2>2. s \in AgentState /\ SameItems(state, s)
    <3>1. state.children \in Nat
      BY <1>1 DEF AgentState
    <3> QED
      BY <1>1, <2>1, <3>1, QueueFoldTypes, FoldSame
  <2>3. PICK h : h = [Here EXCEPT !.state = s, !.ready = next]
    OBVIOUS
  <2>4. h.state = s /\ TryDrain(h)
    BY <1>1, <1>7, <2>1, <2>3 DEF Handled, RecordRuntime
  <2>5. Outcome(s)
    BY <2>4, TryDrainOutcome
  <2>6. Serving /\ Passes /\ UNCHANGED <<accepted, refused, live>>
    BY <1>7 DEF RecordRuntime, Passes
  <2> QED
    BY <2>2, <2>5, <2>6, QueueCarried
<1>8. ASSUME NEW children \in 0..MaxChildren, RecordChild(children) PROVE QueueInv' /\ InboxStep
  <2>1. PICK s : s = ApplyLifecycle(state, children)
    OBVIOUS
  <2>2. SameItems(state, s)
    BY <1>1, <2>1, FoldSame
  <2> QED
    BY <1>4, <1>8, <2>1, <2>2 DEF RecordChild, tasks, actor, ghosts
<1>9. ASSUME NEW t \in Timers, ArmTimer(t) PROVE QueueInv' /\ InboxStep
  <2>1. PICK s : s = ApplyTimerArmed(state, t)
    OBVIOUS
  <2>2. SameItems(state, s)
    BY <1>1, <2>1, FoldSame
  <2> QED
    BY <1>4, <1>9, <2>1, <2>2 DEF ArmTimer, actor
<1>10. ASSUME NEW ts \in SUBSET Timers, CancelTimer(ts) PROVE QueueInv' /\ InboxStep
  <2>1. PICK s : s = ApplyTimerCancelled(state, ts)
    OBVIOUS
  <2>2. SameItems(state, s)
    BY <1>1, <2>1, FoldSame
  <2> QED
    BY <1>4, <1>10, <2>1, <2>2 DEF CancelTimer, tasks, actor, ghosts
<1> QED
  BY <1>5, <1>6, <1>7, <1>8, <1>9, <1>10, QueueEnqueues, QueueReturns DEF Outside

\* The staged write is made: it leaves the items, or takes all that waits.
LEMMA QueueWrites ==
    ASSUME TypeOK, QueueInv, Persist
    PROVE  QueueInv' /\ InboxStep
<1>1. PICK s \in staged : state' = s
  BY DEF Persist
<1>2. live /\ staged' = {} /\ UNCHANGED <<mailbox, preps, preparing, live, accepted, refused>>
  BY DEF Persist, tasks, ghosts, actor, QueueInv
<1>3. Underway' = Underway /\ Kept = staged /\ Kept' = {s}
  BY <1>1, <1>2 DEF Underway, Prepared, Kept
<1>4. Placed(s) /\ Apart(s) /\ Unwritten(s)
  BY <1>1, <1>3 DEF QueueInv
<1>5. Placed(s)' /\ Apart(s)'
  BY <1>2, <1>3, <1>4 DEF Placed, Apart
<1>6. (\A x \in {state} \cup staged : Placed(x))' /\ (\A x \in staged : Unwritten(x))'
  <2>1. ASSUME NEW x \in {state'} \cup staged' PROVE Placed(x)'
    <3>1. x = s
      BY <1>1, <1>2, <2>1
    <3> QED
      BY <1>5, <3>1
  <2> QED
    BY <1>2, <2>1
<1>7. (\A x \in Kept : Apart(x))'
  BY <1>3, <1>5
<1>8. ASSUME Waiting(s) = Waiting(state), InLog(s) = InLog(state) PROVE InboxStep
  BY <1>1, <1>2, <1>3, <1>8 DEF InboxStep, InboxStays
<1>9. ASSUME Waiting(s) = {}, InLog(s) = InLog(state), Underway = Waiting(state) PROVE InboxStep
  <2>1. LogBox!Take
    BY <1>1, <1>2, <1>3, <1>9 DEF LogBox!Take
  <2> QED
    BY <1>2, <2>1 DEF InboxStep, LogBox!Move, LogBox!Next
<1>10. ASSUME Waiting(s) = {}, InLog(s) = InLog(state) \cup Waiting(state), Underway = {}
       PROVE  InboxStep
  <2>1. LogBox!TakeAndSay
    BY <1>1, <1>2, <1>3, <1>10 DEF LogBox!TakeAndSay
  <2> QED
    BY <1>2, <2>1 DEF InboxStep, LogBox!Move, LogBox!Next
<1>11. InboxStep
  BY <1>4, <1>8, <1>9, <1>10 DEF Unwritten
<1> QED
  BY <1>2, <1>6, <1>7, <1>11 DEF QueueInv

\* Every step leaves each item in one place, and keeps the promise.
LEMMA QueueStep ==
    ASSUME OwnIds, TypeOK, RunInv, MailOfRun(mailbox), QueueInv, [Next]_vars
    PROVE  QueueInv' /\ InboxStep
<1>1. TypeOK' /\ RunInv'
  BY TypeStep, RunInvStep
<1>2. CASE Persist
  BY <1>2, QueueWrites
<1>3. ASSUME NEW t \in sleeps, SleepEnds(t) PROVE QueueInv' /\ InboxStep
  <2>1. PICK cmd : cmd = [kind |-> "TimerFired", timer |-> t]
    OBVIOUS
  <2>2. Passes
    BY <1>3, <2>1 DEF SleepEnds, Passes
  <2> QED
    BY <1>1, <1>3, <2>2, QueueQuiet DEF SleepEnds, durable, ghosts, actor
<1>4. ASSUME NEW turn \in preps, NEW abandon \in BOOLEAN, PrepareEnds(turn, abandon)
      PROVE  QueueInv' /\ InboxStep
  <2>1. PICK cmd : cmd = [kind |-> "StartPrepared", turn |-> turn, abandon |-> abandon]
    OBVIOUS
  <2>2. /\ cmd.kind = "StartPrepared" /\ cmd.turn = turn /\ mailbox' = Append(mailbox, cmd)
        /\ preps' = preps \ {turn}
        /\ UNCHANGED <<state, staged, preparing, accepted, refused, live>>
    BY <1>4, <2>1 DEF PrepareEnds, durable, ghosts, actor
  <2>3. /\ Len(mailbox') = Len(mailbox) + 1 /\ Len(mailbox) \in Nat
        /\ mailbox'[Len(mailbox')] = cmd
        /\ \A i \in 1..Len(mailbox) : mailbox'[i] = mailbox[i]
        /\ \A i \in 1..Len(mailbox') : i \in 1..Len(mailbox) \/ i = Len(mailbox')
    BY <2>2, MailPosted
  <2>4. /\ \A i \in 1..Len(mailbox) : i \in 1..Len(mailbox')
        /\ Len(mailbox') \in 1..Len(mailbox')
    BY <2>3
  <2>5. \A p : Ready(mailbox', p) <=> Ready(mailbox, p) \/ p = turn
    BY <2>2, <2>3, <2>4 DEF Ready
  <2>6. Prepared' = Prepared
    BY <1>1, <2>2, <2>5, PreparedIs, PreparedNext
  <2>7. Kept' = Kept
    BY <2>2 DEF Kept
  <2>8. HasStartHooks
    BY <1>4 DEF QueueInv
  <2>9. \A s : SameItems(s, s)
    BY DEF SameItems
  <2> QED
    BY <2>2, <2>6, <2>7, <2>8, <2>9, QueueKept DEF QueueInv
<1>5. ASSUME NEW r \in runs, ~r.waiting, RunInner(r) \/ RunOuter(r) \/ Summarise(r)
      PROVE  QueueInv' /\ InboxStep
  <2>1. UNCHANGED <<state, staged, preps, preparing, accepted, refused, live>>
    <3>1. RunQuiet => UNCHANGED <<state, staged, preps, preparing, accepted, refused, live>>
      BY DEF RunQuiet, durable, actor
    <3>2. RunInner(r) => RunQuiet
      BY DEF RunInner, ProvideCancelled, Act, ToolsDone, LoopCancelled, Ended
    <3>3. Summarise(r) => RunQuiet
      BY DEF Summarise
    <3>4. Loop(r) => UNCHANGED <<state, staged, preps, preparing, accepted, refused, live>>
      BY DEF Loop, durable, actor
    <3>5. Provide(r) => RunQuiet
      BY DEF Provide
    <3>6. \A c : ToolResult(r, c) \/ ToolStops(r, c) => RunQuiet
      BY DEF ToolResult, ToolStops
    <3>7. RunOuter(r) => UNCHANGED <<state, staged, preps, preparing, accepted, refused, live>>
      BY <3>1, <3>4, <3>5, <3>6 DEF RunOuter
    <3> QED
      BY <1>5, <3>1, <3>2, <3>3, <3>7
  <2>2. Passes
    <3>1. GoesOn(r) \/ IsOver(r)
      BY <1>5, TaskStep
    <3> QED
      BY <3>1 DEF GoesOn, IsOver, Passes
  <2> QED
    BY <1>1, <2>1, <2>2, QueueQuiet
<1>6. CASE UNCHANGED vars
  BY <1>1, <1>6, QueueQuiet DEF vars, durable, tasks, ghosts, actor, Passes
<1> QED
  BY <1>1, <1>2, <1>3, <1>4, <1>5, <1>6, QueueOutside, QueueCommand DEF Next, Inside

\* What the invariant says of an accepted item is what the property asks.
LEMMA ItemPlaced ==
    ASSUME HooksKept, TypeOK, QueueInv
    PROVE  AcceptedOnce
<1>1. Placed(state)
  BY DEF QueueInv
<1>2. DOMAIN state.log = 1..Len(state.log)
  BY DEF TypeOK, AgentState
<1>3. ASSUME NEW item \in accepted, HasText(item) \/ item.kind = "SubAgent",
             NEW said, said = {i \in DOMAIN state.log : item \in state.log[i].items}
      PROVE  /\ Cardinality(said) <= 1
             /\ item \in state.inbox => said = {}
             /\ \/ item \in state.inbox
                \/ said # {}
                \/ \E turn \in Prepared : item \in turn.items
                \/ item \in refused
  <2>1. item \in Counted
    BY <1>3 DEF TypeOK, Counted
  <2>2. /\ item \in Waiting(state) <=> item \in state.inbox
        /\ item \in InLog(state) <=> said # {}
    BY <1>2, <1>3, <2>1 DEF Waiting, InLog
  <2>3. \A i, j \in said : i = j
    BY <1>1, <1>2, <1>3, <2>1 DEF Placed, SaidOnce
  <2>4. Cardinality(said) <= 1
    <3>1. CASE said = {}
      BY <3>1, FS_EmptySet
    <3>2. CASE said # {}
      <4>1. PICK i : i \in said
        BY <3>2
      <4>2. said = {i}
        BY <2>3, <4>1
      <4>3. Cardinality({i}) = 1
        BY FS_Singleton
      <4> QED
        BY <4>2, <4>3
    <3> QED
      BY <3>1, <3>2
  <2>5. item \in Waiting(state) \cup InLog(state) \cup refused \cup Underway
    BY <1>1, <1>3, <2>1 DEF Placed
  <2>6. item \in Underway => \E turn \in Prepared : item \in turn.items
    BY DEF Underway
  <2>7. Waiting(state) \cap InLog(state) = {}
    BY <1>1 DEF Placed
  <2> QED
    BY <2>2, <2>4, <2>5, <2>6, <2>7
<1> QED
  BY <1>3 DEF AcceptedOnce

LEMMA QueueInit ==
    ASSUME Init
    PROVE  RunInv /\ MailOfRun(mailbox) /\ QueueInv /\ LogBox!Init
<1>1. /\ mailbox = <<>> /\ runs = {} /\ preps = {} /\ sleeps = {} /\ running = {}
      /\ preparing = FALSE /\ staged = {} /\ live /\ accepted = {} /\ refused = {}
      /\ state.log = <<>> /\ state.inbox = {}
  BY DEF Init
<1>2. Len(mailbox) = 0 /\ Len(state.log) = 0 /\ DOMAIN mailbox = {}
  BY <1>1
<1>3. RunInv /\ MailOfRun(mailbox)
  BY <1>1, <1>2 DEF RunInv, Held, ReportsFenced, PreparedOnce, Gone, MailOfRun
<1>4. Underway = {}
  BY <1>1, <1>2 DEF Underway, Prepared
<1>5. Waiting(state) = {} /\ InLog(state) = {} /\ SaidOnce(state)
  BY <1>1, <1>2 DEF Waiting, InLog, SaidOnce
<1>6. Placed(state) /\ Apart(state)
  BY <1>1, <1>4, <1>5 DEF Placed, Apart
<1>7. QueueInv
  BY <1>1, <1>6 DEF QueueInv, Kept
<1>8. LogBox!Init
  BY <1>1, <1>4, <1>5 DEF LogBox!Init
<1> QED
  BY <1>3, <1>7, <1>8

\* An acknowledged message or report is neither forgotten nor said twice, through cancels,
\* crashes, parks and repairs, where a crash cannot forget a turn that a start hook is
\* preparing (Enqueue, TurnBegan, InputMessage).
THEOREM ItemsAreKept == ASSUME HooksKept, OwnIds PROVE Spec => []AcceptedOnce
<1>1. Init => RunInv /\ MailOfRun(mailbox) /\ QueueInv
  BY QueueInit
<1>2. TypeOK /\ RunInv /\ MailOfRun(mailbox) /\ QueueInv /\ [Next]_vars
        => (RunInv /\ MailOfRun(mailbox) /\ QueueInv)'
  BY RunInvStep, MailOfRunStep, QueueStep
<1>3. TypeOK /\ QueueInv => AcceptedOnce
  BY ItemPlaced
<1> QED
  BY <1>1, <1>2, <1>3, TypeCorrect, PTL DEF Spec

\* What the log says once is what it says.
LEMMA SaidInLog ==
    ASSUME NEW s, SaidOnce(s)
    PROVE  Said(s) = InLog(s)
<1>1. ASSUME NEW i \in Said(s) PROVE i \in InLog(s)
  BY <1>1 DEF Said, InLog
<1>2. ASSUME NEW i \in InLog(s) PROVE i \in Said(s)
  <2>1. PICK j \in 1..Len(s.log) : i \in s.log[j].items
    BY <1>2 DEF InLog
  <2>2. i \in Counted
    BY <1>2 DEF InLog
  <2>3. \A n \in 1..Len(s.log) : i \in s.log[n].items <=> n = j
    BY <2>1, <2>2 DEF SaidOnce
  <2> QED
    BY <2>1, <2>2, <2>3 DEF Said
<1>3. Said(s) \subseteq Counted /\ InLog(s) \subseteq Counted
  BY DEF Said, InLog
<1> QED
  BY <1>1, <1>2, <1>3

LEMMA SaidNow == ASSUME QueueInv PROVE Said(state) = InLog(state)
<1>1. Placed(state)
  BY DEF QueueInv
<1> QED
  BY <1>1, SaidInLog DEF Placed

\* The step read off InLog is the step of the promise.
LEMMA InboxSteps ==
    ASSUME InboxStep, Said(state) = InLog(state), (Said(state) = InLog(state))'
    PROVE  [Inbox!Next]_(Inbox!vars)
<1>1. CASE InboxStays
  BY <1>1 DEF InboxStays, Inbox!vars, Inbox!items
<1>2. CASE LogBox!Move
  <2>1. ASSUME NEW i \in Counted, LogBox!Accept(i) PROVE Inbox!Accept(i)
    BY <2>1 DEF LogBox!Accept, Inbox!Accept
  <2>2. LogBox!Take => Inbox!Take
    BY DEF LogBox!Take, Inbox!Take
  <2>3. LogBox!TakeAndSay => Inbox!TakeAndSay
    BY DEF LogBox!TakeAndSay, Inbox!TakeAndSay
  <2>4. LogBox!Say => Inbox!Say
    BY DEF LogBox!Say, Inbox!Say
  <2>5. LogBox!Refuse => Inbox!Refuse
    BY DEF LogBox!Refuse, Inbox!Refuse
  <2>6. Inbox!Move
    BY <1>2, <2>1, <2>2, <2>3, <2>4, <2>5 DEF LogBox!Move, Inbox!Move
  <2> QED
    BY <2>6 DEF Inbox!Next
<1>3. CASE LogBox!End
  BY <1>3 DEF LogBox!End, Inbox!End, Inbox!Next
<1>4. CASE LogBox!Begin
  BY <1>4 DEF LogBox!Begin, LogBox!items, Inbox!Begin, Inbox!items, Inbox!Next
<1> QED
  BY <1>1, <1>2, <1>3, <1>4 DEF InboxStep, LogBox!Next

\* The agent implements DurableInbox: each of its steps is a step of the promise or none,
\* with start hooks and crashes too. A crash may forget the turn the hooks are holding up;
\* nothing is ever said twice, said once refused, or queued again (begin_turn,
\* start_prepared, TurnBegan, InputMessage).
THEOREM InboxIsKept == ASSUME OwnIds PROVE Spec => KeepsInbox
<1>1. Init => RunInv /\ MailOfRun(mailbox) /\ QueueInv /\ LogBox!Init
  BY QueueInit
<1>2. QueueInv => Said(state) = InLog(state)
  BY SaidNow
<1>3. Init => Inbox!Init
  BY <1>1, <1>2 DEF LogBox!Init, Inbox!Init
<1>4. TypeOK /\ RunInv /\ MailOfRun(mailbox) /\ QueueInv /\ [Next]_vars
        => (RunInv /\ MailOfRun(mailbox) /\ QueueInv)'
  BY RunInvStep, MailOfRunStep, QueueStep
<1>5. QueueInv' => (Said(state) = InLog(state))'
  BY <1>2, PTL
<1>6. TypeOK /\ RunInv /\ MailOfRun(mailbox) /\ QueueInv /\ [Next]_vars
        => [Inbox!Next]_(Inbox!vars)
  BY <1>2, <1>4, <1>5, QueueStep, InboxSteps
<1> QED
  BY <1>1, <1>3, <1>4, <1>6, TypeCorrect, PTL DEF Spec, KeepsInbox, Inbox!Spec

-----------------------------------------------------------------------------
(* The owner hears how a turn ends *)

\* Where the two properties of the owner are. A crash loses what the owner was told of; a
\* batch with a submission and something else ends, past the allowance, in silence; and a
\* nudge that finds no runtime waits in silence too.
NeverCrashes == MaxCrashes = 0
NoContradiction == MaxBatch <= 1 \/ "submit" \notin Tools
RuntimeStays == ~RequiresResult \/ MaxFlips = 0

\* What the end of a task rests on: a task that was cancelled has a caller waiting for it,
\* and what stopped it are calls of one message, none of them plain work.
Fits(r) ==
    /\ r.cancelled \/ r.end = "Cancelled" => acks > 0
    /\ r.end # "AlreadyReported"
    /\ r.stage # "ended" => r.end = "Completed"
    /\ MaxBatch <= 1 => \A c, d \in r.calls : c = d
    /\ \A c \in r.stopped : c.tool # "work"
    /\ r.stage = "tools" => r.open \subseteq r.calls /\ r.stopped \subseteq r.calls
    /\ r.end = "Stopped" => r.stopped \subseteq r.calls

\* What a report in the mail says was so.
Reported(cmd, heard, waiting) ==
    cmd.kind = "RunFinished" =>
        /\ cmd.outcome = "Cancelled" => waiting > 0
        /\ cmd.outcome = "AlreadyReported" => heard = "Failed"
        /\ cmd.outcome = "Stopped" => Asks(cmd.calls) \/ Submits(cmd.calls)

Heard == \A i \in 1..Len(mailbox) : Reported(mailbox[i], owner, acks)

DrainComes == \E i \in 1..Len(mailbox) : mailbox[i].kind = "Drain"

\* A queue that could start a turn has a Drain coming, or the turn before it failed.
Drains(k) ==
    running = {} /\ ~preparing /\ ready /\ QueuedTurn(k) # {}
        => owner = "Failed" \/ DrainComes

OwnerInv ==
    /\ live
    /\ \A r \in runs : Fits(r)
    /\ Heard
    /\ \A k \in Kept : Drains(k)

\* An owner that heard of a beginning waits for something.
EndHeard == owner = "Started" => running # {} \/ preparing

\* Where the runtime does not change, an agent without one never began anything.
Grounded ==
    MaxFlips = 0 /\ ~ready => /\ running = {} /\ ~preparing
                             /\ \A s \in {state} \cup staged : s.asks = {}

\* The calls that stopped one task ask, or submit, where the two do not meet.
LEMMA StoppedAgrees ==
    ASSUME NoContradiction, NEW r \in RunTask, Fits(r), r.end = "Stopped"
    PROVE  Asks(r.stopped) \/ Submits(r.stopped)
<1>1. r.stopped \subseteq Call /\ r.stopped \subseteq r.calls
  BY DEF Fits, RunTask
<1>2. \A c \in r.stopped : c.tool \in Tools /\ c.tool # "work"
  BY <1>1 DEF Call, Fits
<1>3. Tools \subseteq {"work", "ask", "submit"}
  BY ConstantsAssumption DEF ConstantsAssumption
<1>4. CASE "submit" \notin Tools
  <2>1. \A c \in r.stopped : c.tool = "ask"
    BY <1>2, <1>3, <1>4
  <2> QED
    BY <2>1 DEF Asks, Submits
<1>5. CASE MaxBatch <= 1
  <2>1. \A c, d \in r.stopped : c = d
    BY <1>1, <1>5 DEF Fits
  <2>2. ASSUME NEW c \in r.stopped PROVE Asks(r.stopped) \/ Submits(r.stopped)
    <3>1. r.stopped = {c} /\ c.tool \in {"ask", "submit"}
      BY <1>2, <1>3, <2>1, <2>2
    <3> QED
      BY <3>1 DEF Asks, Submits
  <2>3. CASE r.stopped = {}
    BY <2>3 DEF Submits
  <2> QED
    BY <2>2, <2>3
<1> QED
  BY <1>4, <1>5 DEF NoContradiction

\* A step of a task: it goes on, and posts no report; or it is over, and its report says
\* what was so.
Continues(r) ==
    /\ \E r1 : Fits(r1) /\ runs' = (runs \ {r}) \cup {r1}
    /\ \/ mailbox' = mailbox
       \/ \E cmd : cmd.kind \notin {"RunFinished", "Drain"} /\ mailbox' = Append(mailbox, cmd)
    /\ owner' = owner

Finishing(r) ==
    /\ runs' = runs \ {r}
    /\ \E cmd : /\ cmd.kind = "RunFinished" /\ Reported(cmd, owner', acks)
                /\ mailbox' = Append(mailbox, cmd)
    /\ owner' \in {owner, "Failed"}

LEMMA ContinueParts ==
    ASSUME NEW r \in RunTask, Fits(r), owner' = owner
    PROVE  /\ \A r1 : Fits(r1) /\ Moves(r, r1) /\ UNCHANGED mailbox => Continues(r)
           /\ \A r1, ev, calls : Fits([r1 EXCEPT !.waiting = TRUE]) /\ Emits(r, r1, ev, calls)
                                 => Continues(r)
           /\ \A end : /\ end \in {"Failed", "Transient"} \/ (end = "Cancelled" /\ acks > 0)
                       /\ Aborts(r, end)
                       => Continues(r)
<1>1. ASSUME NEW r1, Fits(r1), Moves(r, r1), UNCHANGED mailbox PROVE Continues(r)
  BY <1>1 DEF Continues, Moves
<1>2. ASSUME NEW r1, NEW ev, NEW calls, NEW r2, r2 = [r1 EXCEPT !.waiting = TRUE],
             Fits(r2), Emits(r, r1, ev, calls)
      PROVE  Continues(r)
  <2>1. PICK cmd : cmd = [kind |-> "PersistProgress", run |-> {r.id}, ev |-> ev, calls |-> calls]
    OBVIOUS
  <2>2. cmd.kind = "PersistProgress" /\ mailbox' = Append(mailbox, cmd)
    BY <1>2, <2>1 DEF Emits
  <2>3. runs' = (runs \ {r}) \cup {r2}
    BY <1>2 DEF Emits, Moves
  <2> QED
    BY <1>2, <2>2, <2>3 DEF Continues
<1>3. ASSUME NEW end, end \in {"Failed", "Transient"} \/ (end = "Cancelled" /\ acks > 0),
             Aborts(r, end)
      PROVE  Continues(r)
  <2>1. PICK r1 : r1 = [r EXCEPT !.stage = "ended", !.end = end, !.open = {}, !.posted = {},
                                 !.stopped = {}]
    OBVIOUS
  <2>2. PICK r2 : r2 = [r1 EXCEPT !.waiting = TRUE]
    OBVIOUS
  <2>3. /\ r2.stage = "ended" /\ r2.end = end /\ r2.cancelled = r.cancelled
        /\ r2.calls = r.calls /\ r2.stopped = {}
    BY <2>1, <2>2 DEF RunTask
  <2>4. Fits(r2)
    BY <1>3, <2>3 DEF Fits
  <2> QED
    BY <1>2, <1>3, <2>1, <2>2, <2>4 DEF Aborts
<1> QED
  BY <1>1, <1>2, <1>3

LEMMA FinishingParts ==
    ASSUME NEW r, NEW outcome, NEW seeds, Reports(r, outcome, seeds),
           owner' \in {owner, "Failed"},
           outcome = "Cancelled" => acks > 0,
           outcome = "AlreadyReported" => owner' = "Failed",
           outcome = "Stopped" => Asks(r.stopped) \/ Submits(r.stopped)
    PROVE  Finishing(r)
<1>1. PICK cmd : cmd = [kind |-> "RunFinished", run |-> r.id, outcome |-> outcome,
                        calls |-> IF outcome = "Stopped" THEN r.stopped ELSE {}, seeds |-> seeds]
  OBVIOUS
<1>2. /\ cmd.kind = "RunFinished" /\ cmd.outcome = outcome
      /\ outcome = "Stopped" => cmd.calls = r.stopped
  BY <1>1
<1>3. mailbox' = Append(mailbox, cmd) /\ runs' = runs \ {r}
  BY <1>1 DEF Reports
<1>4. Reported(cmd, owner', acks)
  BY <1>2 DEF Reported
<1> QED
  BY <1>2, <1>3, <1>4 DEF Finishing

\* Every step of a task is one or the other.
LEMMA OwnerTask ==
    ASSUME NoContradiction, TypeOK, NEW r \in runs, Fits(r),
           RunInner(r) \/ RunOuter(r) \/ Summarise(r)
    PROVE  Continues(r) \/ Finishing(r)
<1>1. r \in RunTask
  BY DEF TypeOK
<1>2. ASSUME owner' = owner, NEW r1, Fits(r1), Moves(r, r1), UNCHANGED mailbox
      PROVE  Continues(r)
  BY <1>1, <1>2, ContinueParts
<1>3. ASSUME owner' = owner, NEW r1, NEW ev, NEW calls, NEW r2,
             r2 = [r1 EXCEPT !.waiting = TRUE], Fits(r2), Emits(r, r1, ev, calls)
      PROVE  Continues(r)
  BY <1>1, <1>3, ContinueParts
<1>4. ASSUME owner' = owner, NEW end,
             end \in {"Failed", "Transient"} \/ (end = "Cancelled" /\ acks > 0), Aborts(r, end)
      PROVE  Continues(r)
  BY <1>1, <1>4, ContinueParts
\* A stage in which nothing is executing.
<1>5. ASSUME NEW r1, r1.stage \notin {"tools", "ended"}, r1.end = "Completed",
             r1.cancelled = r.cancelled, r1.calls = r.calls, r1.stopped = r.stopped
      PROVE  Fits(r1)
  BY <1>5 DEF Fits
<1>6. ASSUME NEW st
      PROVE  LET r1 == [r EXCEPT !.stage = st]
             IN  /\ r1.stage = st /\ r1.end = r.end /\ r1.cancelled = r.cancelled
                 /\ r1.calls = r.calls /\ r1.stopped = r.stopped /\ r1.open = r.open
  BY <1>1 DEF RunTask
<1>7. CASE Provide(r)
  <2>1. r.end = "Completed"
    BY <1>7 DEF Provide, Fits
  <2>2. ASSUME NEW st \in {"summarise", "loop"}, Moves(r, [r EXCEPT !.stage = st]),
               UNCHANGED <<mailbox, owner>>
        PROVE  Continues(r)
    <3>1. PICK r1 : r1 = [r EXCEPT !.stage = st]
      OBVIOUS
    <3>2. Fits(r1)
      BY <1>5, <1>6, <2>1, <3>1
    <3> QED
      BY <1>2, <2>2, <3>1, <3>2
  <2>3. ASSUME owner' = "Failed", Reports(r, "AlreadyReported", {}) PROVE Finishing(r)
    BY <2>3, FinishingParts
  <2> QED
    BY <1>7, <2>2, <2>3 DEF Provide
<1>8. CASE ProvideCancelled(r)
  <2>1. acks > 0
    BY <1>8 DEF ProvideCancelled, Fits
  <2>2. Reports(r, "Cancelled", {}) /\ owner' = owner
    BY <1>8 DEF ProvideCancelled
  <2> QED
    BY <2>1, <2>2, FinishingParts
<1>9. CASE Summarise(r)
  <2>1. owner' = owner /\ r.end = "Completed"
    BY <1>9 DEF Summarise, Fits
  <2>2. PICK r1 : r1 = AfterSummary(r)
    OBVIOUS
  <2>3. /\ r1.stage \in {"loop", "ended"} /\ r1.end = "Completed" /\ r1.cancelled = r.cancelled
        /\ r1.calls = r.calls /\ r1.stopped = r.stopped
    BY <1>6, <2>1, <2>2 DEF AfterSummary
  <2>4. Fits(r1)
    BY <2>3 DEF Fits
  <2>5. CASE Moves(r, r1) /\ UNCHANGED mailbox
    BY <1>2, <2>1, <2>4, <2>5
  <2>6. CASE Emits(r, [r1 EXCEPT !.wrote = TRUE], "compacted", {})
    <3>1. PICK r2 : r2 = [r1 EXCEPT !.wrote = TRUE]
      OBVIOUS
    <3>2. PICK r3 : r3 = [r2 EXCEPT !.waiting = TRUE]
      OBVIOUS
    <3>3. /\ r3.stage = r1.stage /\ r3.end = r1.end /\ r3.cancelled = r1.cancelled
          /\ r3.calls = r1.calls /\ r3.stopped = r1.stopped
      BY <1>1, <2>2, <3>1, <3>2 DEF AfterSummary, RunTask
    <3>4. Fits(r3)
      BY <2>3, <3>3 DEF Fits
    <3>5. Emits(r, r2, "compacted", {})
      BY <2>6, <3>1
    <3> QED
      BY <1>3, <2>1, <3>2, <3>4, <3>5
  <2> QED
    BY <1>9, <2>2, <2>5, <2>6 DEF Summarise
<1>10. CASE Loop(r)
  <2>1. owner' = owner /\ r.end = "Completed" /\ nextCall \in Nat /\ MaxBatch \in Nat
    BY <1>10, ConstantsAssumption DEF Loop, Fits, TypeOK, ConstantsAssumption
  <2>2. ASSUME NEW end \in {"Failed", "Transient"}, Aborts(r, end) PROVE Continues(r)
    BY <1>4, <2>1, <2>2
  <2>3. ASSUME NEW n \in 0..MaxBatch, NEW same, NEW msgs,
               NEW f \in [nextCall..(nextCall + n - 1) -> Tools],
               Emits(r, [r EXCEPT !.stage = "acted", !.calls = Batch(f), !.msgs = msgs,
                                  !.wrote = TRUE, !.same = same], "msg", Batch(f))
        PROVE  Continues(r)
    <3>1. PICK calls : calls = Batch(f)
      OBVIOUS
    <3>2. PICK r1 : r1 = [r EXCEPT !.stage = "acted", !.calls = calls, !.msgs = msgs,
                                   !.wrote = TRUE, !.same = same]
      OBVIOUS
    <3>3. PICK r2 : r2 = [r1 EXCEPT !.waiting = TRUE]
      OBVIOUS
    <3>4. /\ r2.stage = "acted" /\ r2.calls = calls /\ r2.end = r.end
          /\ r2.cancelled = r.cancelled /\ r2.stopped = r.stopped
      BY <1>1, <3>2, <3>3 DEF RunTask
    <3>5. MaxBatch <= 1 => \A c, d \in calls : c = d
      <4>1. ASSUME MaxBatch <= 1, NEW c \in calls, NEW d \in calls PROVE c = d
        <5>1. DOMAIN f = nextCall..(nextCall + n - 1)
          BY <2>3
        <5>2. PICK i \in DOMAIN f : c = [id |-> i, tool |-> f[i]]
          BY <3>1 DEF Batch
        <5>3. PICK j \in DOMAIN f : d = [id |-> j, tool |-> f[j]]
          BY <3>1 DEF Batch
        <5>4. i = nextCall /\ j = nextCall
          BY <2>1, <4>1, <5>1
        <5> QED
          BY <5>2, <5>3, <5>4
      <4> QED
        BY <4>1
    <3>6. Fits(r2)
      BY <2>1, <3>4, <3>5 DEF Fits
    <3> QED
      BY <1>3, <2>1, <2>3, <3>1, <3>2, <3>3, <3>6
  <2>4. \/ \E end \in {"Failed", "Transient"} : Aborts(r, end)
        \/ \E n \in 0..MaxBatch : \E same, msgs :
              \E f \in [nextCall..(nextCall + n - 1) -> Tools] :
                 Emits(r, [r EXCEPT !.stage = "acted", !.calls = Batch(f), !.msgs = msgs,
                                    !.wrote = TRUE, !.same = same], "msg", Batch(f))
    <3>1. ASSUME NEW n \in 0..MaxBatch, NEW again \in BOOLEAN,
                 NEW f \in [nextCall..(nextCall + n - 1) -> Tools],
                 Emits(r, [r EXCEPT !.stage = "acted", !.calls = Batch(f),
                                    !.msgs = @ + 1, !.wrote = TRUE,
                                    !.same = IF again THEN @ + 1 ELSE 1], "msg", Batch(f))
          PROVE  \E same, msgs :
                    Emits(r, [r EXCEPT !.stage = "acted", !.calls = Batch(f), !.msgs = msgs,
                                       !.wrote = TRUE, !.same = same], "msg", Batch(f))
      BY <3>1
    <3> QED
      BY <1>10, <3>1 DEF Loop
  <2> QED
    BY <2>2, <2>3, <2>4
<1>11. CASE Act(r)
  <2>1. owner' = owner /\ r.end = "Completed"
    BY <1>11 DEF Act, Fits
  <2>2. CASE Emits(r, [r EXCEPT !.stage = "ended", !.end = "Completed"], "complete", {})
    <3>1. PICK r1 : r1 = [r EXCEPT !.stage = "ended", !.end = "Completed"]
      OBVIOUS
    <3>2. PICK r2 : r2 = [r1 EXCEPT !.waiting = TRUE]
      OBVIOUS
    <3>3. /\ r2.stage = "ended" /\ r2.end = "Completed" /\ r2.cancelled = r.cancelled
          /\ r2.calls = r.calls /\ r2.stopped = r.stopped
      BY <1>1, <3>1, <3>2 DEF RunTask
    <3>4. Fits(r2)
      BY <3>3 DEF Fits
    <3> QED
      BY <1>3, <2>1, <2>2, <3>1, <3>2, <3>4
  <2>3. CASE Aborts(r, "Failed")
    BY <1>4, <2>1, <2>3
  <2>4. CASE Moves(r, [r EXCEPT !.stage = "loop"]) /\ UNCHANGED mailbox
    <3>1. PICK r1 : r1 = [r EXCEPT !.stage = "loop"]
      OBVIOUS
    <3>2. Fits(r1)
      BY <1>5, <1>6, <2>1, <3>1
    <3> QED
      BY <1>2, <2>1, <2>4, <3>1, <3>2
  <2>5. CASE r.cancelled /\ Aborts(r, "Cancelled")
    BY <1>4, <2>1, <2>5 DEF Fits
  <2>6. CASE /\ Moves(r, [r EXCEPT !.stage = "tools", !.open = r.calls, !.posted = {},
                                   !.stopped = {}])
             /\ UNCHANGED mailbox
    <3>1. PICK r1 : r1 = [r EXCEPT !.stage = "tools", !.open = r.calls, !.posted = {},
                                   !.stopped = {}]
      OBVIOUS
    <3>2. /\ r1.stage = "tools" /\ r1.end = r.end /\ r1.cancelled = r.cancelled
          /\ r1.calls = r.calls /\ r1.stopped = {} /\ r1.open = r.calls
      BY <1>1, <3>1 DEF RunTask
    <3>3. Fits(r1)
      BY <2>1, <3>2 DEF Fits
    <3> QED
      BY <1>2, <2>1, <2>6, <3>1, <3>3
  <2> QED
    BY <1>11, <2>2, <2>3, <2>4, <2>5, <2>6 DEF Act
<1>12. ASSUME NEW c, ToolResult(r, c) PROVE Continues(r)
  <2>1. owner' = owner /\ r.end = "Completed" /\ r.stage = "tools"
    BY <1>12 DEF ToolResult, Fits
  <2>2. PICK r1 : r1 = [r EXCEPT !.open = @ \ {c}, !.posted = @ \cup {c}]
    OBVIOUS
  <2>3. /\ r1.stage = "tools" /\ r1.end = r.end /\ r1.cancelled = r.cancelled
        /\ r1.calls = r.calls /\ r1.stopped = r.stopped /\ r1.open \subseteq r.open
    BY <1>1, <2>1, <2>2 DEF RunTask
  <2>4. Fits(r1)
    BY <2>1, <2>3 DEF Fits
  <2>5. PICK cmd : cmd = [kind |-> "PersistProgress", run |-> {r.id}, ev |-> "result",
                          calls |-> {c}]
    OBVIOUS
  <2>6. cmd.kind = "PersistProgress" /\ mailbox' = Append(mailbox, cmd)
    BY <1>12, <2>5 DEF ToolResult
  <2>7. runs' = (runs \ {r}) \cup {r1}
    BY <1>12, <2>2 DEF ToolResult, Moves
  <2> QED
    BY <2>1, <2>4, <2>6, <2>7 DEF Continues
<1>13. ASSUME NEW c, ToolStops(r, c) PROVE Continues(r)
  <2>1. /\ owner' = owner /\ r.end = "Completed" /\ r.stage = "tools"
        /\ c \in r.open /\ c.tool # "work" /\ UNCHANGED mailbox
    BY <1>13 DEF ToolStops, Fits
  <2>2. PICK r1 : r1 = [r EXCEPT !.open = @ \ {c}, !.stopped = @ \cup {c}]
    OBVIOUS
  <2>3. /\ r1.stage = "tools" /\ r1.end = r.end /\ r1.cancelled = r.cancelled
        /\ r1.calls = r.calls /\ r1.stopped = r.stopped \cup {c} /\ r1.open \subseteq r.open
    BY <1>1, <2>1, <2>2 DEF RunTask
  <2>4. Fits(r1)
    BY <2>1, <2>3 DEF Fits
  <2> QED
    BY <1>2, <1>13, <2>1, <2>2, <2>4 DEF ToolStops
<1>14. CASE ToolsDone(r)
  <2>1. owner' = owner /\ r.end = "Completed" /\ r.stage = "tools"
    BY <1>14 DEF ToolsDone, Fits
  <2>2. CASE Moves(r, [r EXCEPT !.stage = "loop"]) /\ UNCHANGED mailbox
    <3>1. PICK r1 : r1 = [r EXCEPT !.stage = "loop"]
      OBVIOUS
    <3>2. Fits(r1)
      BY <1>5, <1>6, <2>1, <3>1
    <3> QED
      BY <1>2, <2>1, <2>2, <3>1, <3>2
  <2>3. CASE Emits(r, [r EXCEPT !.stage = "ended", !.end = "Stopped"], "complete", {})
    <3>1. PICK r1 : r1 = [r EXCEPT !.stage = "ended", !.end = "Stopped"]
      OBVIOUS
    <3>2. PICK r2 : r2 = [r1 EXCEPT !.waiting = TRUE]
      OBVIOUS
    <3>3. /\ r2.stage = "ended" /\ r2.end = "Stopped" /\ r2.cancelled = r.cancelled
          /\ r2.calls = r.calls /\ r2.stopped = r.stopped
      BY <1>1, <3>1, <3>2 DEF RunTask
    <3>4. Fits(r2)
      BY <2>1, <3>3 DEF Fits
    <3> QED
      BY <1>3, <2>1, <2>3, <3>1, <3>2, <3>4
  <2> QED
    BY <1>14, <2>2, <2>3 DEF ToolsDone
<1>15. CASE LoopCancelled(r)
  BY <1>4, <1>15 DEF LoopCancelled, Fits
<1>16. CASE Ended(r)
  <2>1. owner' = owner
    BY <1>16 DEF Ended
  <2>2. CASE /\ UNCHANGED mailbox
             /\ Moves(r, [r EXCEPT !.stage = IF r.compact THEN "summarise" ELSE "loop",
                                   !.tries = @ + 1, !.msgs = 0, !.same = 0,
                                   !.calls = {}, !.end = "Completed"])
    <3>1. PICK r1 : r1 = [r EXCEPT !.stage = IF r.compact THEN "summarise" ELSE "loop",
                                   !.tries = @ + 1, !.msgs = 0, !.same = 0,
                                   !.calls = {}, !.end = "Completed"]
      OBVIOUS
    <3>2. /\ r1.stage \in {"summarise", "loop"} /\ r1.end = "Completed"
          /\ r1.cancelled = r.cancelled /\ r1.calls = {} /\ r1.stopped = r.stopped
      BY <1>1, <3>1 DEF RunTask
    <3>3. Fits(r1)
      BY <3>2 DEF Fits
    <3> QED
      BY <1>2, <2>1, <2>2, <3>1, <3>3
  <2>3. CASE Reports(r, IF r.end = "Transient" THEN "Failed" ELSE r.end, r.seeds)
    <3>1. r.end = "Stopped" => Asks(r.stopped) \/ Submits(r.stopped)
      BY <1>1, StoppedAgrees
    <3>2. PICK outcome : outcome = IF r.end = "Transient" THEN "Failed" ELSE r.end
      OBVIOUS
    <3>3. /\ outcome = "Cancelled" => acks > 0
          /\ outcome # "AlreadyReported"
          /\ outcome = "Stopped" => r.end = "Stopped"
      BY <3>2 DEF Fits
    <3>4. Reports(r, outcome, r.seeds)
      BY <2>3, <3>2
    <3> QED
      BY <2>1, <3>1, <3>3, <3>4, FinishingParts
  <2> QED
    BY <1>16, <2>2, <2>3 DEF Ended
<1> QED
  BY <1>7, <1>8, <1>9, <1>10, <1>11, <1>12, <1>13, <1>14, <1>15, <1>16 DEF RunInner, RunOuter

\* A turn begins: the owner hears of it, and something is running or being prepared.
Begins == owner' = "Started" /\ (running' # {} \/ preparing')

\* Nothing begins.
Idles(h) == /\ Leaves(h.state) /\ owner' = h.owner /\ running' = h.running
            /\ UNCHANGED <<preparing, runs>>

\* A run that has done nothing yet.
Fresh(r) == /\ r.stage = "provide" /\ r.cancelled = FALSE /\ r.end = "Completed"
            /\ r.calls = {} /\ r.stopped = {}

OnlyFresh == \A r \in runs' : r \in runs \/ Fresh(r)

LEMMA NewRunFresh ==
    ASSUME NEW turn, NEW choice, StartRun(turn, choice)
    PROVE  OnlyFresh /\ running' # {}
<1>1. PICK r1 : r1 = NewRun(nextRun, turn, choice)
  OBVIOUS
<1>2. Fresh(r1)
  BY <1>1 DEF NewRun, Fresh
<1>3. runs' = runs \cup {r1} /\ running' = {nextRun}
  BY <1>1 DEF StartRun
<1> QED
  BY <1>2, <1>3 DEF OnlyFresh

LEMMA FreshFits ==
    ASSUME NEW r, Fresh(r)
    PROVE  Fits(r)'
BY DEF Fresh, Fits

\* A turn that is begun begins; a drain begins one or leaves things as they are.
LEMMA BeginEnds ==
    ASSUME NEW turn, NEW h, BeginTurn(turn, h)
    PROVE  OnlyFresh /\ Begins
<1>1. CASE HookDue(turn)
  <2>1. preparing' = TRUE /\ runs' = runs /\ owner' = "Started"
    BY <1>1 DEF BeginTurn
  <2> QED
    BY <2>1 DEF OnlyFresh, Begins
<1>2. CASE ~HookDue(turn)
  <2>1. StartRun(turn, h.forced) /\ owner' = "Started"
    BY <1>2 DEF BeginTurn
  <2> QED
    BY <2>1, NewRunFresh DEF Begins
<1> QED
  BY <1>1, <1>2

LEMMA SettleEnds ==
    ASSUME NEW h, Settle(h)
    PROVE  OnlyFresh /\ Idles(h)
BY WriteLeaves DEF Settle, OnlyFresh, Idles

LEMMA DrainEnds ==
    ASSUME NEW h, TryDrain(h)
    PROVE  OnlyFresh /\ ((Begins /\ CanDrain(h)) \/ (Idles(h) /\ ~CanDrain(h)))
<1>1. CASE CanDrain(h)
  BY <1>1, BeginEnds DEF TryDrain
<1>2. CASE ~CanDrain(h)
  BY <1>2, SettleEnds DEF TryDrain
<1> QED
  BY <1>1, <1>2

\* The queue's rule reads the inbox and the questions alone.
LEMMA SameQueue ==
    ASSUME NEW s, NEW s1, s1.inbox = s.inbox, s1.asks = s.asks
    PROVE  QueuedTurn(s1) = QueuedTurn(s)
BY DEF QueuedTurn

\* While a report waits nothing runs and nothing begins.
LEMMA NoReport ==
    ASSUME RunInv, MailOfRun(mailbox), running = {} \/ runs # {}
    PROVE  \A i \in 1..Len(mailbox) : mailbox[i].kind # "RunFinished"
<1> SUFFICES ASSUME NEW i \in 1..Len(mailbox), mailbox[i].kind = "RunFinished" PROVE FALSE
  OBVIOUS
<1>1. running = {mailbox[i].run} /\ \A r \in runs : r.id # mailbox[i].run
  BY DEF MailOfRun, RunInv, ReportsFenced
<1>2. \A r \in runs : running = {r.id}
  BY DEF RunInv, Held
<1> QED
  BY <1>1, <1>2

\* The mail stays true of what it reports: left alone, its first command taken, or one
\* posted behind it.
LEMMA MailHeard ==
    ASSUME TypeOK, RunInv, MailOfRun(mailbox), Heard, acks' \in Nat, acks' >= acks,
           owner' = owner \/ running = {} \/ runs # {},
           \/ mailbox' = mailbox
           \/ mailbox # <<>> /\ mailbox' = Tail(mailbox)
           \/ \E cmd : Reported(cmd, owner', acks') /\ mailbox' = Append(mailbox, cmd)
    PROVE  Heard'
<1>1. \A i \in 1..Len(mailbox) : Reported(mailbox[i], owner', acks')
  <2>1. CASE owner' = owner
    BY <2>1 DEF Heard, Reported, TypeOK
  <2>2. CASE running = {} \/ runs # {}
    BY <2>2, NoReport DEF Reported
  <2> QED
    BY <2>1, <2>2
<1>2. CASE mailbox' = mailbox
  BY <1>1, <1>2 DEF Heard
<1>3. CASE mailbox # <<>> /\ mailbox' = Tail(mailbox)
  <2>1. \A i \in 1..Len(mailbox') : i + 1 \in 1..Len(mailbox) /\ mailbox'[i] = mailbox[i + 1]
    BY <1>3 DEF TypeOK
  <2> QED
    BY <1>1, <2>1 DEF Heard
<1>4. ASSUME NEW cmd, Reported(cmd, owner', acks'), mailbox' = Append(mailbox, cmd)
      PROVE  Heard'
  <2>1. /\ mailbox'[Len(mailbox')] = cmd
        /\ \A i \in 1..Len(mailbox) : mailbox'[i] = mailbox[i]
        /\ \A i \in 1..Len(mailbox') : i \in 1..Len(mailbox) \/ i = Len(mailbox')
    BY <1>4, MailPosted
  <2> QED
    BY <1>1, <1>4, <2>1 DEF Heard
<1> QED
  BY <1>2, <1>3, <1>4

\* The tasks stay fit.
LEMMA FitsKept ==
    ASSUME acks \in Nat, acks' \in Nat, acks' >= acks, \A r \in runs : Fits(r), OnlyFresh
    PROVE  (\A r \in runs : Fits(r))'
<1>1. ASSUME NEW r \in runs PROVE Fits(r)'
  BY <1>1 DEF Fits
<1> QED
  BY <1>1, FreshFits DEF OnlyFresh

\* A Drain in the mail stays there until it is the one handled.
LEMMA DrainStays ==
    ASSUME TypeOK, DrainComes,
           \/ mailbox' = mailbox
           \/ mailbox # <<>> /\ Head(mailbox).kind # "Drain" /\ mailbox' = Tail(mailbox)
           \/ \E cmd : mailbox' = Append(mailbox, cmd)
    PROVE  DrainComes'
<1>1. PICK i \in 1..Len(mailbox) : mailbox[i].kind = "Drain"
  BY DEF DrainComes
<1>2. CASE mailbox' = mailbox
  BY <1>2 DEF DrainComes
<1>3. CASE mailbox # <<>> /\ Head(mailbox).kind # "Drain" /\ mailbox' = Tail(mailbox)
  <2>1. i # 1 /\ i - 1 \in 1..Len(mailbox')
    BY <1>1, <1>3 DEF TypeOK
  <2>2. mailbox'[i - 1] = mailbox[i]
    BY <1>3, <2>1 DEF TypeOK
  <2> QED
    BY <1>1, <2>1, <2>2 DEF DrainComes
<1>4. ASSUME NEW cmd, mailbox' = Append(mailbox, cmd) PROVE DrainComes'
  <2>1. i \in 1..Len(mailbox') /\ mailbox'[i] = mailbox[i]
    BY <1>4, MailPosted
  <2> QED
    BY <1>1, <2>1 DEF DrainComes
<1> QED
  BY <1>2, <1>3, <1>4

\* The queue as it is, with nothing heard, begun or ended, keeps its Drain.
LEMMA DrainsKept ==
    ASSUME \A k \in Kept : Drains(k), DrainComes => DrainComes',
           owner' = owner, running' = running, preparing' = preparing, ready' = ready,
           \A s1 \in Kept' : \E s \in Kept : s1.inbox = s.inbox /\ s1.asks = s.asks
    PROVE  \A s1 \in Kept' : Drains(s1)'
<1> SUFFICES ASSUME NEW s1 \in Kept' PROVE Drains(s1)'
  OBVIOUS
<1>1. PICK s \in Kept : s1.inbox = s.inbox /\ s1.asks = s.asks
  OBVIOUS
<1>2. QueuedTurn(s1) = QueuedTurn(s)
  BY <1>1, SameQueue
<1>3. Drains(s)
  BY <1>1
<1> QED
  BY <1>2, <1>3 DEF Drains

\* The four parts of the invariant after a step.
LEMMA OwnerKept ==
    ASSUME live', (\A r \in runs : Fits(r))', Heard', \A s1 \in Kept' : Drains(s1)'
    PROVE  OwnerInv'
BY DEF OwnerInv

\* With a run held, one being prepared, a Drain coming or a failure heard, the queue waits
\* rightly.
LEMMA DrainsHeld ==
    ASSUME running' # {} \/ preparing' \/ owner' = "Failed" \/ DrainComes'
    PROVE  \A s1 \in Kept' : Drains(s1)'
BY DEF Drains

\* A handler that ends in a drain.
LEMMA OwnerDrains ==
    ASSUME TypeOK, RunInv, MailOfRun(mailbox), OwnerInv, NEW h, TryDrain(h),
           h.running = running, h.owner = owner, ready' = h.ready, acks' = acks, live' = live,
           mailbox' = mailbox \/ (mailbox # <<>> /\ mailbox' = Tail(mailbox))
    PROVE  OwnerInv' /\ (EndHeard => EndHeard')
<1>1. OnlyFresh /\ ((Begins /\ CanDrain(h)) \/ (Idles(h) /\ ~CanDrain(h)))
  BY DrainEnds
<1>2. acks \in Nat
  BY DEF TypeOK
<1>3. (\A r \in runs : Fits(r))'
  BY <1>1, <1>2, FitsKept DEF OwnerInv
<1>4. owner' = owner \/ running = {}
  BY <1>1 DEF CanDrain, Busy, Idles
<1>5. Heard'
  BY <1>2, <1>4, MailHeard DEF OwnerInv
<1>6. \A s1 \in Kept' : Drains(s1)'
  <2>1. CASE Begins
    BY <2>1, DrainsHeld DEF Begins
  <2>2. CASE Idles(h) /\ ~CanDrain(h)
    <3>1. Kept' = {h.state}
      BY <2>2, LeavesKept DEF Idles
    <3> QED
      BY <2>2, <3>1 DEF Idles, CanDrain, Busy, Drains
  <2> QED
    BY <1>1, <2>1, <2>2
<1>7. EndHeard => EndHeard'
  BY <1>1 DEF Begins, Idles, EndHeard
<1> QED
  BY <1>3, <1>5, <1>6, <1>7, OwnerKept DEF OwnerInv

\* A step that leaves the run, the preparation, the runtime and what the owner heard, and
\* of the queue what decides on a turn.
LEMMA OwnerQuiet ==
    ASSUME TypeOK, RunInv, MailOfRun(mailbox), OwnerInv,
           (\A r \in runs : Fits(r))', live' = live, owner' = owner, running' = running,
           preparing' = preparing, ready' = ready, acks' \in Nat, acks' >= acks,
           \/ mailbox' = mailbox
           \/ mailbox # <<>> /\ Head(mailbox).kind # "Drain" /\ mailbox' = Tail(mailbox)
           \/ \E cmd : cmd.kind # "RunFinished" /\ mailbox' = Append(mailbox, cmd),
           \A s1 \in Kept' : \E s \in Kept : s1.inbox = s.inbox /\ s1.asks = s.asks
    PROVE  OwnerInv' /\ (EndHeard => EndHeard')
<1>1. \A cmd : cmd.kind # "RunFinished" => Reported(cmd, owner', acks')
  BY DEF Reported
<1>2. Heard'
  BY <1>1, MailHeard DEF OwnerInv
<1>3. DrainComes => DrainComes'
  BY DrainStays
<1>4. \A s1 \in Kept' : Drains(s1)'
  BY <1>3, DrainsKept DEF OwnerInv
<1> QED
  BY <1>2, <1>4, OwnerKept DEF OwnerInv, EndHeard

\* The tasks, left alone or cancelled with a caller waiting, stay fit.
LEMMA FitsStill ==
    ASSUME TypeOK, OwnerInv, runs' = runs, acks' = acks
    PROVE  (\A r \in runs : Fits(r))'
BY DEF OwnerInv, Fits

\* A task's step.
LEMMA OwnerTaskStep ==
    ASSUME NoContradiction, TypeOK, RunInv, MailOfRun(mailbox), OwnerInv, NEW r \in runs,
           RunInner(r) \/ RunOuter(r) \/ Summarise(r)
    PROVE  OwnerInv' /\ EndHeard'
<1>1. UNCHANGED <<live, running, preparing, acks, ready>>
  BY DEF RunInner, RunOuter, Summarise, Provide, ProvideCancelled, Loop, Act, ToolResult,
     ToolStops, ToolsDone, LoopCancelled, Ended, RunQuiet, actor
<1>2. running = {r.id} /\ runs # {} /\ acks \in Nat
  BY DEF RunInv, Held, TypeOK
<1>3. Fits(r)
  BY DEF OwnerInv
<1>4. \A s1 \in Kept' : Drains(s1)'
  BY <1>1, <1>2, DrainsHeld
<1>5. \A q \in runs : Fits(q)'
  BY <1>1 DEF OwnerInv, Fits
<1>6. CASE Continues(r)
  <2>1. PICK r1 : Fits(r1) /\ runs' = (runs \ {r}) \cup {r1}
    BY <1>6 DEF Continues
  <2>2. Fits(r1)'
    BY <1>1, <2>1 DEF Fits
  <2>3. (\A q \in runs : Fits(q))'
    BY <1>5, <2>1, <2>2
  <2>4. \/ mailbox' = mailbox
        \/ \E cmd : Reported(cmd, owner', acks') /\ mailbox' = Append(mailbox, cmd)
    BY <1>6 DEF Continues, Reported
  <2>5. Heard'
    BY <1>1, <1>2, <2>4, MailHeard DEF OwnerInv
  <2> QED
    BY <1>1, <1>2, <1>4, <2>3, <2>5, OwnerKept DEF OwnerInv, EndHeard
<1>7. CASE Finishing(r)
  <2>1. (\A q \in runs : Fits(q))'
    BY <1>5, <1>7 DEF Finishing
  <2>2. \E cmd : Reported(cmd, owner', acks') /\ mailbox' = Append(mailbox, cmd)
    BY <1>1, <1>7 DEF Finishing
  <2>3. Heard'
    BY <1>1, <1>2, <2>2, MailHeard DEF OwnerInv
  <2> QED
    BY <1>1, <1>2, <1>4, <2>1, <2>3, OwnerKept DEF OwnerInv, EndHeard
<1> QED
  BY <1>3, <1>6, <1>7, OwnerTask

\* What comes from outside.
LEMMA OwnerOutside ==
    ASSUME NeverCrashes, TypeOK, RunInv, MailOfRun(mailbox), OwnerInv, Outside
    PROVE  OwnerInv' /\ (EndHeard => EndHeard')
<1>1. Here \in Handled /\ Here.running = running /\ Here.owner = owner /\ acks \in Nat
  BY HereType DEF Here, TypeOK
<1>2. ASSUME NEW item \in Incoming, Enqueue(item) PROVE OwnerInv' /\ (EndHeard => EndHeard')
  <2>1. PICK cmd : cmd = [kind |-> "Drain"]
    OBVIOUS
  <2>2. /\ cmd.kind = "Drain" /\ mailbox' = Append(mailbox, cmd)
        /\ UNCHANGED <<live, running, preparing, ready, acks, runs, owner>>
    BY <1>2, <2>1 DEF Enqueue, actor
  <2>3. mailbox'[Len(mailbox')] = cmd /\ Len(mailbox') = Len(mailbox) + 1 /\ Len(mailbox) \in Nat
    BY <2>2, MailPosted
  <2>4. DrainComes'
    BY <2>2, <2>3 DEF DrainComes
  <2>5. Reported(cmd, owner', acks')
    BY <2>2 DEF Reported
  <2>6. Heard'
    BY <1>1, <2>2, <2>5, MailHeard DEF OwnerInv
  <2> QED
    BY <2>2, <2>4, <2>6, FitsStill, DrainsHeld, OwnerKept DEF OwnerInv, EndHeard
<1>3. ASSUME NEW answers \in SUBSET state.asks, Answer(answers)
      PROVE  OwnerInv' /\ (EndHeard => EndHeard')
  <2>1. /\ running = {} /\ mailbox' = mailbox
        /\ UNCHANGED <<live, acks>>
    BY <1>1, <1>3 DEF Answer, Busy
  <2>2. PICK turn : BeginTurn(turn, Here)
    BY <1>3 DEF Answer
  <2>3. OnlyFresh /\ Begins
    BY <2>2, BeginEnds
  <2>4. (\A r \in runs : Fits(r))'
    BY <1>1, <2>1, <2>3, FitsKept DEF OwnerInv
  <2>5. Heard'
    BY <1>1, <2>1, MailHeard DEF OwnerInv
  <2>6. \A s1 \in Kept' : Drains(s1)'
    BY <2>3, DrainsHeld DEF Begins
  <2> QED
    BY <2>1, <2>3, <2>4, <2>5, <2>6, OwnerKept DEF OwnerInv, EndHeard, Begins
<1>4. CASE Cancel
  <2>1. /\ UNCHANGED <<state, staged, live, running, preparing, ready, mailbox, owner>>
        /\ acks' = IF running # {} THEN acks + 1 ELSE acks
        /\ runs' = {IF r.id \in running THEN [r EXCEPT !.cancelled = TRUE] ELSE r : r \in runs}
    BY <1>4 DEF Cancel, durable
  <2>2. ASSUME NEW r \in runs, NEW q,
               q = IF r.id \in running THEN [r EXCEPT !.cancelled = TRUE] ELSE r
        PROVE  Fits(q)'
    <3>1. r \in RunTask /\ running # {} /\ Fits(r)
      BY DEF TypeOK, RunInv, Held, OwnerInv
    <3>2. /\ q.stage = r.stage /\ q.end = r.end /\ q.calls = r.calls /\ q.stopped = r.stopped
          /\ q.open = r.open
      BY <2>2, <3>1 DEF RunTask
    <3>3. acks' > 0
      BY <1>1, <2>1, <3>1
    <3> QED
      BY <3>1, <3>2, <3>3 DEF Fits
  <2>3. (\A r \in runs : Fits(r))'
    BY <2>1, <2>2
  <2>4. Kept' = Kept /\ acks' \in Nat /\ acks' >= acks
    BY <1>1, <2>1 DEF Kept
  <2> QED
    BY <2>1, <2>3, <2>4, OwnerQuiet
<1>5. ASSUME NEW next \in BOOLEAN, RecordRuntime(next)
      PROVE  OwnerInv' /\ (EndHeard => EndHeard')
  <2> DEFINE h == [Here EXCEPT !.state = ApplyLifecycle(state, state.children), !.ready = next]
  <2>1. h.running = running /\ h.ready = next /\ h.owner = owner
    BY <1>1 DEF Handled
  <2>2. /\ TryDrain(h) /\ ready' = next
        /\ UNCHANGED <<live, acks, mailbox>>
    BY <1>5 DEF RecordRuntime
  <2> HIDE DEF h
  <2> QED
    BY <2>1, <2>2, OwnerDrains
<1>6. ASSUME staged = {}, staged' = {}, state'.inbox = state.inbox, state'.asks = state.asks,
             UNCHANGED <<live, actor, mailbox, runs, owner>>
      PROVE  OwnerInv' /\ (EndHeard => EndHeard')
  <2>1. /\ live' = live /\ owner' = owner /\ running' = running /\ preparing' = preparing
        /\ ready' = ready /\ acks' = acks /\ mailbox' = mailbox /\ runs' = runs
    BY <1>6 DEF actor
  <2>2. \A s1 \in Kept' : \E s \in Kept : s1.inbox = s.inbox /\ s1.asks = s.asks
    BY <1>6 DEF Kept
  <2>3. (\A r \in runs : Fits(r))'
    BY <2>1, FitsStill
  <2> QED
    BY <1>1, <2>1, <2>2, <2>3, OwnerQuiet
<1>7. ASSUME NEW children \in 0..MaxChildren, RecordChild(children)
      PROVE  OwnerInv' /\ (EndHeard => EndHeard')
  <2>1. /\ staged = {} /\ staged' = {} /\ state' = ApplyLifecycle(state, children)
        /\ UNCHANGED <<live, actor, mailbox, runs, owner>>
    BY <1>7 DEF RecordChild, Serving, tasks, ghosts
  <2>2. Parts(ApplyLifecycle(state, children), state.inbox, state.asks, state.timers, state.log)
    BY FoldParts DEF TypeOK
  <2> QED
    BY <1>6, <2>1, <2>2 DEF Parts
<1>8. ASSUME NEW t \in Timers, ArmTimer(t) PROVE OwnerInv' /\ (EndHeard => EndHeard')
  <2>1. /\ staged = {} /\ staged' = {} /\ state' = ApplyTimerArmed(state, t)
        /\ UNCHANGED <<live, actor, mailbox, runs, owner>>
    BY <1>8 DEF ArmTimer, Serving
  <2>2. Parts(ApplyTimerArmed(state, t), state.inbox, state.asks, state.timers \cup {t}, state.log)
    BY FoldParts DEF TypeOK
  <2> QED
    BY <1>6, <2>1, <2>2 DEF Parts
<1>9. ASSUME NEW ts \in SUBSET Timers, CancelTimer(ts) PROVE OwnerInv' /\ (EndHeard => EndHeard')
  <2>1. /\ staged = {} /\ staged' = {} /\ state' = ApplyTimerCancelled(state, ts)
        /\ UNCHANGED <<live, actor, mailbox, runs, owner>>
    BY <1>9 DEF CancelTimer, Serving, tasks, ghosts
  <2>2. Parts(ApplyTimerCancelled(state, ts), state.inbox, state.asks, state.timers \ ts, state.log)
    BY FoldParts DEF TypeOK
  <2> QED
    BY <1>6, <2>1, <2>2 DEF Parts
<1>10. ~Unload
  BY DEF Unload, NeverCrashes, TypeOK
<1>11. ASSUME NEW isReady \in BOOLEAN PROVE ~Load(isReady)
  BY DEF Load, OwnerInv
<1> QED
  BY <1>2, <1>3, <1>4, <1>5, <1>7, <1>8, <1>9, <1>10, <1>11 DEF Outside

\* How the report of a run leaves the queue and the owner.
Closed ==
    /\ OnlyFresh
    /\ \/ Begins
       \/ owner' = "Failed"
       \/ /\ owner' # "Started" \/ (RequiresResult /\ ~ready)
          /\ \A s1 \in Kept' : ~ready \/ QueuedTurn(s1) = {}

LEMMA DrainCloses ==
    ASSUME NEW g, TryDrain(g), g.running = {}, ~preparing, g.ready = ready,
           g.owner # "Started" \/ CanDrain(g) \/ (RequiresResult /\ ~ready)
    PROVE  Closed
<1>1. OnlyFresh /\ ((Begins /\ CanDrain(g)) \/ (Idles(g) /\ ~CanDrain(g)))
  BY DrainEnds
<1>2. CASE Idles(g) /\ ~CanDrain(g)
  <2>1. Kept' = {g.state} /\ owner' = g.owner
    BY <1>2, LeavesKept DEF Idles
  <2>2. ~ready \/ QueuedTurn(g.state) = {}
    BY <1>2 DEF CanDrain, Busy
  <2> QED
    BY <1>1, <1>2, <2>1, <2>2 DEF Closed
<1> QED
  BY <1>1, <1>2 DEF Closed

LEMMA FailCloses ==
    ASSUME NEW g, Settle(g), g.owner = "Failed"
    PROVE  Closed
BY SettleEnds DEF Closed, Idles

\* The end of a run, where no batch contradicts itself.
LEMMA RunCloses ==
    ASSUME NEW h \in Handled, h.running = {}, ~preparing, h.ready = ready, NEW calls,
           \/ FinishCompleted(h)
           \/ FinishStopped(h, calls) /\ (Asks(calls) \/ Submits(calls))
           \/ FinishCancelled(h) /\ acks > 0
           \/ Settle(Telling(h, "Failed"))
           \/ Settle(h) /\ h.owner = "Failed"
    PROVE  Closed
<1>1. ASSUME NEW what, NEW s, NEW g, g = [Telling(h, what) EXCEPT !.state = s]
      PROVE  g.running = {} /\ g.ready = ready /\ g.owner = what /\ g.state = s
  BY <1>1 DEF Handled, Telling
<1>2. ASSUME NEW what, NEW g, g = Telling(h, what)
      PROVE  g.running = {} /\ g.ready = ready /\ g.owner = what /\ g.state = h.state
  BY <1>2 DEF Handled, Telling
<1>3. ASSUME NEW what, what # "Started", NEW s, TryDrain([Telling(h, what) EXCEPT !.state = s])
      PROVE  Closed
  BY <1>1, <1>3, DrainCloses
<1>4. CASE Settle(Telling(h, "Failed"))
  BY <1>2, <1>4, FailCloses
<1>5. CASE FinishCompleted(h)
  <2>1. CASE TryDrain(h) /\ CanDrain(h)
    BY <2>1, DrainCloses
  <2>2. CASE Park(h) /\ ~CanDrain(h)
    <3>1. PICK s : s = ApplyParked(h.state)
      OBVIOUS
    <3>2. PICK g : g = [Telling(h, "Parked") EXCEPT !.state = s]
      OBVIOUS
    <3>3. g.owner = "Parked" /\ g.state = s
      BY <3>2 DEF Handled, Telling
    <3>4. Settle(g)
      BY <1>2, <2>2, <3>1, <3>2 DEF Park
    <3>5. OnlyFresh /\ Idles(g)
      BY <3>4, SettleEnds
    <3>6. Kept' = {g.state} /\ owner' = g.owner
      BY <3>5, LeavesKept DEF Idles
    <3>7. Parts(ApplyParked(h.state), h.state.inbox, h.state.asks, h.state.timers, h.state.log)
      BY FoldParts DEF Handled
    <3>8. QueuedTurn(g.state) = QueuedTurn(h.state)
      BY <3>1, <3>3, <3>7, SameQueue DEF Parts
    <3>9. ~ready \/ QueuedTurn(g.state) = {}
      BY <2>2, <3>8 DEF CanDrain, Busy
    <3> QED
      BY <3>3, <3>5, <3>6, <3>9 DEF Closed
  <2>3. CASE RequiresResult /\ EndedWithoutResult(h)
    <3>1. CASE Settle(Telling(h, "Failed"))
      BY <1>4, <3>1
    <3>2. CASE ~Settle(Telling(h, "Failed"))
      <4>1. PICK s : s = ApplyNudged(ApplyReceived(h.state, NudgeItem(h.state.nudges)))
        OBVIOUS
      <4>2. \E f : TryDrain([h EXCEPT !.state = s, !.forced = f])
        BY <2>3, <3>2, <4>1 DEF EndedWithoutResult
      <4>3. PICK f : TryDrain([h EXCEPT !.state = s, !.forced = f])
        BY <4>2
      <4>4. PICK g : g = [h EXCEPT !.state = s, !.forced = f]
        OBVIOUS
      <4>5. g.running = {} /\ g.ready = ready /\ g.state = s
        BY <4>4 DEF Handled
      <4>6. h.state \in AgentState /\ h.state.nudges \in Nat
        BY DEF Handled, AgentState
      <4>7. PICK n : n = NudgeItem(h.state.nudges)
        OBVIOUS
      <4>8. n \in Item /\ IsUser(n)
        BY <4>6, <4>7, NudgeTypes DEF NudgeItem, IsUser
      <4>9. PICK s1 : s1 = ApplyReceived(h.state, n)
        OBVIOUS
      <4>10. s1 \in AgentState /\ s1.inbox = h.state.inbox \cup {n}
        BY <4>6, <4>8, <4>9, QueueFoldTypes, FoldParts DEF Parts
      <4>11. s.inbox = s1.inbox
        <5>1. Parts(ApplyNudged(s1), s1.inbox, s1.asks, s1.timers, s1.log)
          BY <4>10, FoldParts
        <5> QED
          BY <4>1, <4>7, <4>9, <5>1 DEF Parts
      <4>12. QueuedTurn(s) # {}
        BY <4>8, <4>10, <4>11 DEF QueuedTurn
      <4>13. CanDrain(g) \/ ~ready
        BY <4>5, <4>12 DEF CanDrain, Busy
      <4> QED
        BY <2>3, <4>3, <4>4, <4>5, <4>13, DrainCloses
    <3> QED
      BY <3>1, <3>2
  <2>4. CASE TryDrain(Telling(h, "Concluded"))
    BY <1>2, <2>4, DrainCloses
  <2> QED
    BY <1>5, <2>1, <2>2, <2>3, <2>4 DEF FinishCompleted
<1>6. CASE FinishStopped(h, calls) /\ (Asks(calls) \/ Submits(calls))
  <2>1. CASE Asks(calls)
    <3>1. \E s : TryDrain([Telling(h, "Asked") EXCEPT !.state = s])
      BY <1>6, <2>1 DEF FinishStopped
    <3> QED
      BY <1>3, <3>1
  <2>2. CASE ~Asks(calls)
    <3>1. \E s : TryDrain([Telling(h, "Concluded") EXCEPT !.state = s])
      BY <1>6, <2>2 DEF FinishStopped
    <3> QED
      BY <1>3, <3>1
  <2> QED
    BY <2>1, <2>2
<1>7. CASE FinishCancelled(h) /\ acks > 0
  <2>1. \E s : TryDrain([Telling(h, "Stopped") EXCEPT !.state = s])
    BY <1>7 DEF FinishCancelled
  <2> QED
    BY <1>3, <2>1
<1>8. CASE Settle(h) /\ h.owner = "Failed"
  BY <1>8, FailCloses
<1> QED
  BY <1>4, <1>5, <1>6, <1>7, <1>8

\* The commands of the mailbox.
LEMMA OwnerCommand ==
    ASSUME TypeOK, RunInv, MailOfRun(mailbox), OwnerInv, HandleCommand
    PROVE  OwnerInv' /\ (RuntimeStays /\ Grounded /\ EndHeard => EndHeard')
<1>1. Here \in Handled /\ Here.running = running /\ Here.owner = owner /\ Here.ready = ready
      /\ Here.state = state /\ acks \in Nat
  BY HereType DEF Here, TypeOK
<1>2. PICK cmd : cmd = Head(mailbox)
  OBVIOUS
<1>3. /\ mailbox # <<>> /\ mailbox' = Tail(mailbox) /\ live /\ live' = live
      /\ mailbox \in Seq(Command) /\ cmd = mailbox[1] /\ 1 \in 1..Len(mailbox)
      /\ staged = {} /\ Kept = {state}
  <2>1. PICK kind : Receive(kind)
    BY DEF HandleCommand, Drain, StartPrepared, PersistProgress, TimerFired, RunFinished
  <2>2. mailbox # <<>> /\ mailbox' = Tail(mailbox) /\ live /\ staged = {}
    BY <2>1 DEF Receive, Serving
  <2>3. mailbox \in Seq(Command) /\ cmd = mailbox[1] /\ 1 \in 1..Len(mailbox)
    BY <1>2, <2>2 DEF TypeOK
  <2>4. live' = live
    BY DEF HandleCommand, Drain, StartPrepared, PersistProgress, TimerFired, RunFinished
  <2> QED
    BY <2>2, <2>3, <2>4 DEF Kept
<1>4. CASE Drain
  BY <1>1, <1>3, <1>4, OwnerDrains DEF Drain
<1>5. CASE StartPrepared
  <2>1. cmd.kind = "StartPrepared"
    BY <1>2, <1>5 DEF StartPrepared, Receive
  <2>2. running = {}
    BY <1>3, <2>1 DEF RunInv, PreparedOnce, Held
  <2>3. acks' = acks
    BY <1>5 DEF StartPrepared
  <2>4. Heard'
    BY <1>1, <1>3, <2>2, <2>3, MailHeard DEF OwnerInv
  <2>5. OnlyFresh /\ (owner' = "Failed" \/ running' # {})
    <3>1. CASE cmd.abandon
      BY <1>2, <1>5, <3>1 DEF StartPrepared, OnlyFresh
    <3>2. CASE ~cmd.abandon
      <4>1. StartRun(cmd.turn, forced)
        BY <1>2, <1>5, <3>2 DEF StartPrepared
      <4> QED
        BY <4>1, NewRunFresh
    <3> QED
      BY <3>1, <3>2
  <2>6. (\A r \in runs : Fits(r))'
    BY <1>1, <2>3, <2>5, FitsKept DEF OwnerInv
  <2>7. \A s1 \in Kept' : Drains(s1)'
    BY <2>5, DrainsHeld
  <2> QED
    BY <1>3, <2>4, <2>5, <2>6, <2>7, OwnerKept DEF EndHeard
<1>6. CASE PersistProgress
  <2>1. /\ Receive("PersistProgress")
        /\ state' = ApplyProgress(state, cmd.ev, cmd.calls)
        /\ runs' = {Acked(r, cmd) : r \in runs}
        /\ staged' = staged /\ owner' = owner /\ running' = running /\ preparing' = preparing
        /\ ready' = ready /\ acks' = acks
    BY <1>2, <1>6 DEF PersistProgress, actor, ghosts
  <2>2. cmd \in Command /\ cmd.kind = "PersistProgress"
    BY <1>2, <2>1, ReceiveType
  <2>3. cmd.ev \in {"msg", "result", "complete", "aborted", "compacted", "repair"}
    BY <2>2, CommandFields
  <2>4. state'.inbox = state.inbox /\ state'.asks = state.asks
    <3>1. PICK calls : calls = cmd.calls
      OBVIOUS
    <3>2. state \in AgentState
      BY DEF TypeOK
    <3>3. /\ \A e : Parts(Logged(state, e), state.inbox, state.asks, state.timers, state.log \o e)
          /\ \A e : Parts(ApplyInput(state, e), state.inbox, state.asks, state.timers,
                          state.log \o <<e>>)
          /\ Parts(ApplyBoundary(state), state.inbox, state.asks, state.timers, state.log)
      BY <3>2, FoldParts
    <3>4. \/ \E e : state' = Logged(state, e)
          \/ \E e : state' = ApplyInput(state, e)
          \/ state' = ApplyBoundary(state)
      BY <2>1, <2>3, <3>1 DEF ApplyProgress
    <3> QED
      BY <3>3, <3>4 DEF Parts
  <2>5. ASSUME NEW r \in runs, NEW q, q = Acked(r, cmd) PROVE Fits(q)'
    <3>1. r \in RunTask /\ Fits(r)
      BY DEF TypeOK, OwnerInv
    <3>2. /\ q.stage = r.stage /\ q.end = r.end /\ q.calls = r.calls /\ q.stopped = r.stopped
          /\ q.open = r.open /\ q.cancelled = r.cancelled
      BY <2>5, <3>1 DEF Acked, RunTask
    <3> QED
      BY <2>1, <3>1, <3>2 DEF Fits
  <2>6. (\A r \in runs : Fits(r))'
    BY <2>1, <2>5
  <2>7. Kept' = {state'}
    BY <1>3, <2>1 DEF Kept
  <2>8. \A s1 \in Kept' : \E s \in Kept : s1.inbox = s.inbox /\ s1.asks = s.asks
    BY <1>3, <2>4, <2>7
  <2> QED
    BY <1>1, <1>2, <1>3, <2>1, <2>2, <2>6, <2>8, OwnerQuiet
<1>7. CASE TimerFired
  <2>1. CASE cmd.timer \in state.timers
    <3>1. PICK s : TryDrain([Here EXCEPT !.state = s])
      BY <1>2, <1>7, <2>1 DEF TimerFired
    <3>2. PICK h : h = [Here EXCEPT !.state = s]
      OBVIOUS
    <3>3. h.running = running /\ h.owner = owner /\ h.ready = ready
      BY <1>1, <3>2 DEF Handled
    <3>4. ready' = ready /\ acks' = acks
      BY <1>7 DEF TimerFired
    <3> QED
      BY <1>3, <3>1, <3>2, <3>3, <3>4, OwnerDrains
  <2>2. CASE cmd.timer \notin state.timers
    <3>1. /\ Head(mailbox).kind # "Drain" /\ state' = state /\ staged' = staged
          /\ UNCHANGED <<owner, running, preparing, ready, acks, runs>>
      BY <1>2, <1>7, <2>2 DEF TimerFired, Receive, durable
    <3>2. Kept' = Kept
      BY <3>1 DEF Kept
    <3>3. (\A r \in runs : Fits(r))'
      BY <3>1, FitsStill
    <3> QED
      BY <1>1, <1>3, <3>1, <3>2, <3>3, OwnerQuiet
  <2> QED
    BY <2>1, <2>2
<1>8. CASE RunFinished
  <2>1. runs = {} /\ running = {cmd.run} /\ Clear(mailbox')
    BY <1>2, <1>8, ReportIsLast DEF RunFinished
  <2>2. Receive("RunFinished") /\ HandleFinished(cmd) /\ ready' = ready
    BY <1>2, <1>8, <2>1 DEF RunFinished
  <2>3. cmd.kind = "RunFinished" /\ cmd \in Command /\ mailbox' \in Seq(Command)
    BY <1>2, <2>2, ReceiveType
  <2>4. cmd.outcome \in RunOutcome
    BY <2>3, CommandFields
  <2>5. ~preparing
    BY <2>1 DEF RunInv, Held
  <2>6. PICK h : h = [Here EXCEPT !.running = {}]
    OBVIOUS
  <2>7. h \in Handled /\ h.running = {} /\ h.owner = owner /\ h.ready = ready
    BY <1>1, <2>6 DEF Handled
  <2>8. /\ cmd.outcome = "Cancelled" => acks > 0
        /\ cmd.outcome = "AlreadyReported" => owner = "Failed"
        /\ cmd.outcome = "Stopped" => Asks(cmd.calls) \/ Submits(cmd.calls)
    BY <1>3, <2>3 DEF OwnerInv, Heard, Reported
  <2>9. \/ FinishCompleted(h)
        \/ FinishStopped(h, cmd.calls) /\ cmd.outcome = "Stopped"
        \/ FinishCancelled(h) /\ cmd.outcome = "Cancelled"
        \/ Settle(Telling(h, "Failed"))
        \/ Settle(h) /\ cmd.outcome = "AlreadyReported"
    BY <2>2, <2>4, <2>6 DEF HandleFinished, RunOutcome
  <2>10. Closed
    BY <2>5, <2>7, <2>8, <2>9, RunCloses
  <2>11. (\A r \in runs : Fits(r))'
    BY <2>1, <2>10, FreshFits DEF Closed, OnlyFresh
  <2>12. Heard'
    BY <2>1 DEF Clear, Heard, Reported
  <2>13. \A s1 \in Kept' : Drains(s1)'
    BY <2>2, <2>10 DEF Closed, Begins, Drains
  <2>14. OwnerInv'
    BY <1>3, <2>11, <2>12, <2>13, OwnerKept
  <2>15. ASSUME RuntimeStays, Grounded PROVE EndHeard'
    BY <2>1, <2>10, <2>15 DEF Closed, Begins, EndHeard, RuntimeStays, Grounded
  <2> QED
    BY <2>14, <2>15
<1> QED
  BY <1>4, <1>5, <1>6, <1>7, <1>8 DEF HandleCommand

\* Every step keeps what the owner was told true.
LEMMA OwnerStep ==
    ASSUME NeverCrashes, NoContradiction, TypeOK, RunInv, MailOfRun(mailbox), OwnerInv,
           [Next]_vars
    PROVE  OwnerInv' /\ (RuntimeStays /\ Grounded /\ EndHeard => EndHeard')
<1>1. acks \in Nat
  BY DEF TypeOK
<1>2. CASE Persist
  <2>1. /\ UNCHANGED <<live, owner, running, preparing, ready, acks, mailbox, runs>>
        /\ staged # {} /\ state' \in staged /\ staged' = {}
    BY <1>2 DEF Persist, actor, tasks, ghosts
  <2>2. \A s1 \in Kept' : s1 \in Kept
    BY <2>1 DEF Kept
  <2> QED
    BY <1>1, <2>1, <2>2, FitsStill, OwnerQuiet
<1>3. ASSUME NEW turn \in preps, NEW abandon \in BOOLEAN, PrepareEnds(turn, abandon)
      PROVE  OwnerInv' /\ (EndHeard => EndHeard')
  <2>1. PICK cmd : cmd = [kind |-> "StartPrepared", turn |-> turn, abandon |-> abandon]
    OBVIOUS
  <2>2. /\ cmd.kind # "RunFinished" /\ mailbox' = Append(mailbox, cmd)
        /\ UNCHANGED <<state, staged, live, owner, running, preparing, ready, acks, runs>>
    BY <1>3, <2>1 DEF PrepareEnds, actor, durable, ghosts
  <2>3. Kept' = Kept
    BY <2>2 DEF Kept
  <2> QED
    BY <1>1, <2>2, <2>3, FitsStill, OwnerQuiet
<1>4. ASSUME NEW t \in sleeps, SleepEnds(t) PROVE OwnerInv' /\ (EndHeard => EndHeard')
  <2>1. PICK cmd : cmd = [kind |-> "TimerFired", timer |-> t]
    OBVIOUS
  <2>2. /\ cmd.kind # "RunFinished" /\ mailbox' = Append(mailbox, cmd)
        /\ UNCHANGED <<state, staged, live, owner, running, preparing, ready, acks, runs>>
    BY <1>4, <2>1 DEF SleepEnds, actor, durable, ghosts
  <2>3. Kept' = Kept
    BY <2>2 DEF Kept
  <2> QED
    BY <1>1, <2>2, <2>3, FitsStill, OwnerQuiet
<1>5. CASE UNCHANGED vars
  <2>1. UNCHANGED <<state, staged, live, owner, running, preparing, ready, acks, mailbox, runs>>
    BY <1>5 DEF vars, actor, durable, tasks, ghosts
  <2>2. Kept' = Kept
    BY <2>1 DEF Kept
  <2> QED
    BY <1>1, <2>1, <2>2, FitsStill, OwnerQuiet
<1> QED
  BY <1>2, <1>3, <1>4, <1>5, OwnerOutside, OwnerCommand, OwnerTaskStep DEF Next, Inside

\* Without a runtime nothing begins, and nothing is asked.
LEMMA GroundedStep ==
    ASSUME NeverCrashes, TypeOK, RunInv, MailOfRun(mailbox), live, Grounded, [Next]_vars
    PROVE  Grounded'
<1> SUFFICES ASSUME MaxFlips = 0, ~ready'
             PROVE  (running = {} /\ ~preparing /\ \A s \in {state} \cup staged : s.asks = {})'
  BY DEF Grounded
<1> DEFINE Goal == (running = {} /\ ~preparing /\ \A s \in {state} \cup staged : s.asks = {})'
<1>1. ~Unload
  BY DEF Unload, NeverCrashes, TypeOK
<1>2. ASSUME NEW isReady \in BOOLEAN PROVE ~Load(isReady)
  BY DEF Load
<1>3. ASSUME NEW next \in BOOLEAN PROVE ~RecordRuntime(next)
  <2>1. spent.flips \in Nat
    BY DEF TypeOK
  <2>2. RecordRuntime(next) => spent.flips < MaxFlips
    BY DEF RecordRuntime
  <2> QED
    BY <2>1, <2>2
<1>4. ready' = ready
  <2>1. CASE Outside
    BY <1>1, <1>2, <1>3, <2>1 DEF Outside, Enqueue, Answer, Cancel, RecordChild, ArmTimer,
       CancelTimer, actor
  <2>2. CASE HandleCommand
    BY <2>2 DEF HandleCommand, Drain, StartPrepared, PersistProgress, TimerFired, RunFinished,
       actor
  <2>3. CASE \E r \in runs : RunInner(r) \/ RunOuter(r) \/ Summarise(r)
    BY <2>3 DEF RunInner, RunOuter, Summarise, Provide, ProvideCancelled, Loop, Act, ToolResult,
       ToolStops, ToolsDone, LoopCancelled, Ended, RunQuiet, actor
  <2>4. CASE Persist \/ (\E turn \in preps, abandon \in BOOLEAN : PrepareEnds(turn, abandon))
             \/ (\E t \in sleeps : SleepEnds(t)) \/ UNCHANGED vars
    BY <2>4 DEF Persist, PrepareEnds, SleepEnds, vars, actor
  <2> QED
    BY <2>1, <2>2, <2>3, <2>4 DEF Next, Inside
<1>5. running = {} /\ ~preparing /\ \A s \in {state} \cup staged : s.asks = {}
  BY <1>4 DEF Grounded
<1>6. runs = {} /\ preps = {}
  BY <1>5 DEF RunInv, Held
<1>7. ASSUME UNCHANGED <<running, preparing>>, state'.asks = {}, staged' = {} \/ staged' = staged
      PROVE  Goal
  BY <1>5, <1>7
<1>8. ASSUME NEW h, TryDrain(h), ~h.ready, h.running = {}, h.state.asks = {}
      PROVE  Goal
  <2>1. Idles(h)
    BY <1>8, DrainEnds DEF CanDrain
  <2>2. state' \in {state, h.state} /\ staged' \subseteq {h.state}
    BY <2>1, LeavesKept DEF Idles
  <2> QED
    BY <1>5, <1>8, <2>1, <2>2 DEF Idles
<1>9. Here \in Handled /\ Here.running = running /\ Here.ready = ready /\ Here.state = state
      /\ state \in AgentState
  BY HereType DEF Here, TypeOK
<1>10. CASE Outside
  <2>1. ASSUME NEW item \in Incoming, Enqueue(item) PROVE Goal
    <3>1. Parts(ApplyReceived(state, item), state.inbox \cup {item}, state.asks, state.timers,
                state.log)
      BY <1>9, FoldParts
    <3> QED
      BY <1>5, <1>7, <2>1, <3>1 DEF Enqueue, Parts, actor
  <2>2. ASSUME NEW answers PROVE ~Answer(answers)
    BY <1>5 DEF Answer, AnsweredTurn
  <2>3. CASE Cancel
    BY <1>5, <1>7, <2>3 DEF Cancel, durable
  <2>4. ASSUME NEW n \in 0..MaxChildren, RecordChild(n) PROVE Goal
    <3>1. Parts(ApplyLifecycle(state, n), state.inbox, state.asks, state.timers, state.log)
      BY <1>9, FoldParts
    <3> QED
      BY <1>5, <1>7, <2>4, <3>1 DEF RecordChild, Parts, actor
  <2>5. ASSUME NEW t \in Timers, ArmTimer(t) PROVE Goal
    BY <1>6, <2>5 DEF ArmTimer, Executing
  <2>6. ASSUME NEW ts \in SUBSET Timers, CancelTimer(ts) PROVE Goal
    BY <1>6, <2>6 DEF CancelTimer, Executing
  <2> QED
    BY <1>1, <1>2, <1>3, <1>10, <2>1, <2>2, <2>3, <2>4, <2>5, <2>6 DEF Outside
<1>11. CASE Drain
  BY <1>4, <1>5, <1>8, <1>9, <1>11 DEF Drain
<1>12. CASE StartPrepared
  <2>1. mailbox[1].kind = "StartPrepared" /\ 1 \in 1..Len(mailbox)
    BY <1>12 DEF StartPrepared, Receive, TypeOK
  <2> QED
    BY <1>5, <2>1 DEF RunInv, PreparedOnce
<1>13. CASE PersistProgress
  <2>1. PICK cmd : cmd = Head(mailbox)
    OBVIOUS
  <2>2. /\ Receive("PersistProgress") /\ state' = ApplyProgress(state, cmd.ev, cmd.calls)
        /\ UNCHANGED <<staged, running, preparing>>
    BY <1>13, <2>1 DEF PersistProgress, actor
  <2>3. cmd.ev \in {"msg", "result", "complete", "aborted", "compacted", "repair"}
    BY <2>1, <2>2, ReceiveType, CommandFields
  <2>4. /\ \A e : Parts(Logged(state, e), state.inbox, state.asks, state.timers, state.log \o e)
        /\ \A e : Parts(ApplyInput(state, e), state.inbox, state.asks, state.timers,
                        state.log \o <<e>>)
        /\ Parts(ApplyBoundary(state), state.inbox, state.asks, state.timers, state.log)
    BY <1>9, FoldParts
  <2>5. PICK calls : calls = cmd.calls
    OBVIOUS
  <2>6. \/ \E e : state' = Logged(state, e)
        \/ \E e : state' = ApplyInput(state, e)
        \/ state' = ApplyBoundary(state)
    BY <2>2, <2>3, <2>5 DEF ApplyProgress
  <2>7. state'.asks = {}
    BY <1>5, <2>4, <2>6 DEF Parts
  <2> QED
    BY <1>7, <2>2, <2>7
<1>14. CASE TimerFired
  <2>1. PICK t : t = Head(mailbox).timer
    OBVIOUS
  <2>2. CASE t \in state.timers
    <3>1. PICK item : item = TimerItem(t, state.fires[t] + 1)
      OBVIOUS
    <3>2. PICK s1 : s1 = ApplyTimerFired(state, t)
      OBVIOUS
    <3>3. PICK s : s = ApplyReceived(s1, item)
      OBVIOUS
    <3>4. TryDrain([Here EXCEPT !.state = s])
      BY <1>14, <2>1, <2>2, <3>1, <3>2, <3>3 DEF TimerFired
    <3>5. s1.asks = state.asks
      <4>1. Parts(ApplyTimerFired(state, t), state.inbox, state.asks,
                  IF t \in Recurring THEN state.timers ELSE state.timers \ {t}, state.log)
        BY <1>9, FoldParts
      <4> QED
        BY <3>2, <4>1 DEF Parts
    <3>6. s.asks = {}
      <4>1. t \in Timers
        BY <1>9, <2>2 DEF AgentState
      <4>2. s1 \in AgentState
        BY <1>9, <3>2, <4>1, TimerFoldTypes
      <4>3. Parts(ApplyReceived(s1, item), s1.inbox \cup {item}, s1.asks, s1.timers, s1.log)
        BY <4>2, FoldParts
      <4> QED
        BY <1>5, <3>3, <3>5, <4>3 DEF Parts
    <3>7. PICK h : h = [Here EXCEPT !.state = s]
      OBVIOUS
    <3>8. h.running = running /\ h.ready = ready /\ h.state = s
      BY <1>9, <3>7 DEF Handled
    <3> QED
      BY <1>4, <1>5, <1>8, <3>4, <3>6, <3>7, <3>8
  <2>3. CASE t \notin state.timers
    <3>1. UNCHANGED <<state, staged, running, preparing>>
      BY <1>14, <2>1, <2>3 DEF TimerFired, durable
    <3> QED
      BY <1>5, <1>7, <3>1
  <2> QED
    BY <2>2, <2>3
<1>15. CASE RunFinished
  BY <1>5, <1>15, ReportIsLast DEF RunFinished
<1>16. CASE Persist
  BY <1>5, <1>16 DEF Persist, actor
<1>17. CASE (\E t \in sleeps : SleepEnds(t)) \/ UNCHANGED vars
  BY <1>5, <1>7, <1>17 DEF SleepEnds, vars, actor, durable
<1> QED
  BY <1>6, <1>10, <1>11, <1>12, <1>13, <1>14, <1>15, <1>16, <1>17 DEF Next, Inside, HandleCommand

\* What the invariant says at the start.
LEMMA OwnerInit ==
    ASSUME Init
    PROVE  OwnerInv /\ EndHeard /\ Grounded
<1>1. /\ live = TRUE /\ staged = {} /\ mailbox = <<>> /\ running = {} /\ preparing = FALSE
      /\ runs = {} /\ owner = "Nothing" /\ state.inbox = {} /\ state.asks = {}
  BY DEF Init
<1>2. Len(mailbox) = 0
  BY <1>1
<1>3. Heard
  BY <1>2 DEF Heard
<1>4. Kept = {state} /\ QueuedTurn(state) = {}
  BY <1>1 DEF Kept, QueuedTurn
<1> QED
  BY <1>1, <1>3, <1>4 DEF OwnerInv, Drains, EndHeard, Grounded

LEMMA RunsStart ==
    ASSUME Init
    PROVE  RunInv /\ MailOfRun(mailbox)
<1>1. /\ mailbox = <<>> /\ runs = {} /\ preps = {} /\ sleeps = {} /\ running = {}
      /\ preparing = FALSE
  BY DEF Init
<1>2. Len(mailbox) = 0
  BY <1>1
<1> QED
  BY <1>1, <1>2 DEF RunInv, Held, ReportsFenced, PreparedOnce, Gone, MailOfRun

\* A queue that could start a turn of a serving agent waits only behind a failure, for any
\* cancels, timers, readiness records, hooks and retries: every other end of a turn looks at
\* the queue again, and whatever else changes it has a Drain coming (try_drain). Without
\* crashes, which lose the Drain, and without a batch that submits and does something else,
\* which past its allowance ends in silence (NeverCrashes, NoContradiction).
THEOREM WaitsAreFailures ==
    ASSUME NeverCrashes, NoContradiction
    PROVE  Spec => []WaitsOnlyAfterFailure
<1>1. Init => RunInv /\ MailOfRun(mailbox) /\ OwnerInv
  BY OwnerInit, RunsStart
<1>2. TypeOK /\ RunInv /\ MailOfRun(mailbox) /\ OwnerInv /\ [Next]_vars
         => RunInv' /\ MailOfRun(mailbox)' /\ OwnerInv'
  BY RunInvStep, MailOfRunStep, OwnerStep
<1>3. OwnerInv => WaitsOnlyAfterFailure
  <2> SUFFICES ASSUME OwnerInv, Serving, mailbox = <<>>, CanDrain(Here)
               PROVE  owner = "Failed"
    BY DEF WaitsOnlyAfterFailure
  <2>1. Kept = {state} /\ Drains(state)
    BY DEF OwnerInv, Serving, Kept
  <2>2. running = {} /\ ~preparing /\ ready /\ QueuedTurn(state) # {}
    BY DEF CanDrain, Busy, Here
  <2>3. ~DrainComes
    BY DEF DrainComes
  <2> QED
    BY <2>1, <2>2, <2>3 DEF Drains
<1> QED
  BY <1>1, <1>2, <1>3, TypeCorrect, PTL DEF Spec

\* An owner told that a turn began is told how it ended, whatever ended it. Besides the two
\* conditions above, an agent that owes a result keeps the runtime it has: the nudge of a
\* turn that ended without one waits, unheard, for a runtime (handle_finished).
THEOREM EndsAreHeard ==
    ASSUME NeverCrashes, NoContradiction, RuntimeStays
    PROVE  Spec => []OwnerHearsTheEnd
<1>1. Init => RunInv /\ MailOfRun(mailbox) /\ OwnerInv /\ EndHeard /\ Grounded
  BY OwnerInit, RunsStart
<1>2. TypeOK /\ RunInv /\ MailOfRun(mailbox) /\ OwnerInv /\ EndHeard /\ Grounded /\ [Next]_vars
         => RunInv' /\ MailOfRun(mailbox)' /\ OwnerInv' /\ EndHeard' /\ Grounded'
  <2>1. OwnerInv => live
    BY DEF OwnerInv
  <2> QED
    BY <2>1, RunInvStep, MailOfRunStep, OwnerStep, GroundedStep
<1>3. EndHeard => OwnerHearsTheEnd
  BY DEF EndHeard, OwnerHearsTheEnd
<1> QED
  BY <1>1, <1>2, <1>3, TypeCorrect, PTL DEF Spec

=============================================================================
