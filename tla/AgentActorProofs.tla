-------------------------- MODULE AgentActorProofs --------------------------
(* Proofs about AgentActor, for every value of its constants. *)
EXTENDS AgentActor, TLAPS, SequenceTheorems

-----------------------------------------------------------------------------
(* The folds keep the type of the state *)

\* The entries the folds append are log entries.
LEMMA EntryTypes ==
    ASSUME NEW calls \in SUBSET Call, NEW items \in SUBSET Item
    PROVE  /\ InputEntry(items) \in Entry
           /\ MsgEntry(calls) \in Entry
           /\ ResultEntry(calls) \in Entry
BY DEF Entry, InputEntry, MsgEntry, ResultEntry

\* Appending entries to the log keeps the type of the state.
LEMMA LoggedType ==
    ASSUME NEW s \in AgentState, NEW entries \in Seq(Entry)
    PROVE  Logged(s, entries) \in AgentState
<1>1. s.log \o entries \in Seq(Entry)
  BY DEF AgentState
<1> QED
  BY <1>1 DEF Logged, AgentState

\* The items the agent queues for itself are queue items.
LEMMA ItemTypes ==
    ASSUME NEW t \in Timers, NEW n \in Nat
    PROVE  /\ TimerItem(t, n) \in Item
           /\ NudgeItem(n) \in Item
           /\ ContradictionItem(n) \in Item
BY DEF TimerItem, NudgeItem, ContradictionItem, Item, ItemId

\* What the outside queues are queue items.
LEMMA IncomingType == Incoming \subseteq Item
BY ConstantsAssumption DEF ConstantsAssumption, Item, ItemId

\* The folds of the queue's events keep the type of the state.
LEMMA QueueFoldTypes ==
    ASSUME NEW s \in AgentState
    PROVE  /\ \A item \in Item : ApplyReceived(s, item) \in AgentState
           /\ \A turn \in Turn : ApplyTurnBegan(s, turn) \in AgentState
           /\ \A asks \in SUBSET Call : ApplyAskRecorded(s, asks) \in AgentState
           /\ \A entry \in Entry : ApplyInput(s, entry) \in AgentState
           /\ ApplyParked(s) \in AgentState
           /\ ApplyNudged(s) \in AgentState
           /\ ApplyBoundary(s) \in AgentState
           /\ \A n \in Nat : ApplyLifecycle(s, n) \in AgentState
<1>1. ASSUME NEW item \in Item PROVE ApplyReceived(s, item) \in AgentState
  BY DEF ApplyReceived, AgentState
<1>2. ASSUME NEW turn \in Turn PROVE ApplyTurnBegan(s, turn) \in AgentState
  BY DEF ApplyTurnBegan, AgentState
<1>3. ASSUME NEW asks \in SUBSET Call PROVE ApplyAskRecorded(s, asks) \in AgentState
  BY DEF ApplyAskRecorded, AgentState
<1>4. ASSUME NEW entry \in Entry PROVE ApplyInput(s, entry) \in AgentState
  <2>1. <<entry>> \in Seq(Entry)
    OBVIOUS
  <2>2. Logged(s, <<entry>>) \in AgentState
    BY <2>1, LoggedType
  <2> QED
    BY <2>2 DEF ApplyInput, AgentState
<1>5. ApplyParked(s) \in AgentState
  BY DEF ApplyParked, AgentState
<1>6. ApplyNudged(s) \in AgentState
  <2>1. s.nudges + 1 \in Nat
    BY DEF AgentState
  <2> QED
    BY <2>1 DEF ApplyNudged, AgentState
<1>7. ApplyBoundary(s) \in AgentState
  BY DEF ApplyBoundary, AgentState
<1>8. ASSUME NEW n \in Nat PROVE ApplyLifecycle(s, n) \in AgentState
  BY <1>8 DEF ApplyLifecycle, AgentState
<1> QED
  BY <1>1, <1>2, <1>3, <1>4, <1>5, <1>6, <1>7, <1>8

\* The folds of the timers' events keep the type of the state.
LEMMA TimerFoldTypes ==
    ASSUME NEW s \in AgentState, NEW t \in Timers, NEW ts \in SUBSET Timers
    PROVE  /\ ApplyTimerArmed(s, t) \in AgentState
           /\ ApplyTimerCancelled(s, ts) \in AgentState
           /\ ApplyTimerFired(s, t) \in AgentState
<1>1. /\ s.timers \in SUBSET Timers
      /\ s.fires \in [Timers -> Nat]
      /\ [s.fires EXCEPT ![t] = 0] \in [Timers -> Nat]
      /\ [s.fires EXCEPT ![t] = @ + 1] \in [Timers -> Nat]
  BY DEF AgentState
<1>2. ApplyTimerArmed(s, t) \in AgentState
  BY <1>1 DEF ApplyTimerArmed, AgentState
<1>3. ApplyTimerCancelled(s, ts) \in AgentState
  BY <1>1 DEF ApplyTimerCancelled, AgentState
<1>4. ApplyTimerFired(s, t) \in AgentState
  BY <1>1 DEF ApplyTimerFired, AgentState
<1> QED
  BY <1>2, <1>3, <1>4

\* A turn's input keeps the type of the state.
LEMMA TurnInputType ==
    ASSUME NEW s \in AgentState, NEW turn \in Turn
    PROVE  ApplyTurnInput(s, turn) \in AgentState
<1> DEFINE s1 == IF turn.results = {} THEN s ELSE ApplyInput(s, ResultEntry(turn.results))
<1>1. turn.results \in SUBSET Call /\ turn.items \in SUBSET Item
  BY DEF Turn
<1>2. s1 \in AgentState
  BY <1>1, EntryTypes, QueueFoldTypes
<1>3. ApplyInput(s1, InputEntry(turn.items)) \in AgentState
  BY <1>1, <1>2, EntryTypes, QueueFoldTypes
<1> QED
  BY <1>2, <1>3 DEF ApplyTurnInput

\* The calls missing a result are calls.
LEMMA MissingType ==
    ASSUME NEW s \in AgentState
    PROVE  MissingResults(s) \in SUBSET Call
<1>1. \A i \in DOMAIN s.log : s.log[i].calls \subseteq Call
  <2>1. s.log \in Seq(Entry)
    BY DEF AgentState
  <2>2. \A i \in DOMAIN s.log : s.log[i] \in Entry
    BY <2>1, ElementOfSeq, DOMAIN s.log = 1..Len(s.log)
  <2> QED
    BY <2>2 DEF Entry
<1>2. CallsIn(s, "msg") \subseteq Call
  BY <1>1 DEF CallsIn
<1> QED
  BY <1>2 DEF MissingResults

\* What a queue or its answers may start is a turn.
LEMMA TurnTypes ==
    ASSUME NEW s \in AgentState, NEW answers \in SUBSET Call
    PROVE  /\ QueuedTurn(s) \subseteq Turn
           /\ AnsweredTurn(s, answers) \subseteq Turn
BY DEF QueuedTurn, AnsweredTurn, AgentState, Turn

\* A new run task has the type of one.
LEMMA NewRunType ==
    ASSUME NEW id \in Nat, NEW turn \in Turn, NEW choice \in BOOLEAN
    PROVE  NewRun(id, turn, choice) \in RunTask
<1>1. Seeds(turn) \in SUBSET Item
  BY DEF Seeds, Turn
<1>2. SummariseOnly(turn) \in BOOLEAN /\ Compacts(turn) \in BOOLEAN
  BY DEF SummariseOnly, Compacts
<1> HIDE DEF Seeds, SummariseOnly, Compacts
<1> QED
  BY <1>1, <1>2 DEF NewRun, RunTask, RunOutcome

-----------------------------------------------------------------------------
(* The parts of a step keep the types they touch *)

\* What a handler leaves before its drain is decided.
Handled == [state : AgentState, told : BOOLEAN, owner : OwnerHeard, running : SUBSET Nat,
            forced : BOOLEAN, ready : BOOLEAN]

\* The variables a drain may change, and their types.
DrainTypes ==
    /\ state \in AgentState /\ staged \subseteq AgentState
    /\ owner \in OwnerHeard
    /\ running \subseteq Nat /\ nextRun \in Nat
    /\ forced \in BOOLEAN /\ preparing \in BOOLEAN /\ hookFired \in BOOLEAN
    /\ runs \subseteq RunTask /\ preps \subseteq Turn

\* The end of a handler writes or stages a state.
LEMMA WriteType ==
    ASSUME state \in AgentState, NEW s \in AgentState, NEW told, Write(s, told)
    PROVE  state' \in AgentState /\ staged' \subseteq AgentState
BY DEF Write

\* Starting a run keeps the types.
LEMMA StartRunType ==
    ASSUME DrainTypes, NEW turn \in Turn, NEW choice \in BOOLEAN, StartRun(turn, choice)
    PROVE  /\ runs' \subseteq RunTask /\ running' \subseteq Nat /\ nextRun' \in Nat
           /\ forced' \in BOOLEAN
<1>1. NewRun(nextRun, turn, choice) \in RunTask
  BY NewRunType DEF DrainTypes
<1>2. nextRun' \in Nat
  BY DEF StartRun, DrainTypes
<1>3. running' \subseteq Nat
  BY DEF StartRun, DrainTypes
<1>4. runs' \subseteq RunTask
  BY <1>1 DEF StartRun, DrainTypes
<1>5. forced' \in BOOLEAN
  BY DEF StartRun
<1> QED
  BY <1>2, <1>3, <1>4, <1>5

\* Beginning a turn keeps the types.
LEMMA BeginTurnType ==
    ASSUME DrainTypes, NEW turn \in Turn, NEW h \in Handled, BeginTurn(turn, h)
    PROVE  DrainTypes'
<1> DEFINE began == ApplyTurnBegan(h.state, turn)
<1>1. h.state \in AgentState /\ h.running \subseteq Nat /\ h.forced \in BOOLEAN
  BY DEF Handled
<1>2. began \in AgentState /\ ApplyTurnInput(began, turn) \in AgentState
  BY <1>1, QueueFoldTypes, TurnInputType
<1>3. owner' \in OwnerHeard
  BY DEF BeginTurn, OwnerHeard
<1>4. CASE HookDue(turn)
  <2>1. state' \in AgentState /\ staged' \subseteq AgentState
    BY <1>2, <1>4, WriteType DEF BeginTurn, DrainTypes
  <2> QED
    BY <1>1, <1>3, <1>4, <2>1 DEF BeginTurn, DrainTypes
<1>5. CASE ~HookDue(turn)
  <2>1. StartRun(turn, h.forced) /\ UNCHANGED <<preparing, hookFired, preps>>
    BY <1>5 DEF BeginTurn
  <2>2. state' \in AgentState /\ staged' \subseteq AgentState
    BY <1>2, <1>5, WriteType DEF BeginTurn, DrainTypes
  <2>3. /\ runs' \subseteq RunTask /\ running' \subseteq Nat /\ nextRun' \in Nat
        /\ forced' \in BOOLEAN
    BY <1>1, <2>1, StartRunType
  <2> QED
    BY <1>3, <2>1, <2>2, <2>3 DEF DrainTypes
<1> QED
  BY <1>4, <1>5

\* A handler that starts nothing keeps the types.
LEMMA SettleType ==
    ASSUME DrainTypes, NEW h \in Handled, Settle(h)
    PROVE  DrainTypes'
<1>1. h.state \in AgentState
  BY DEF Handled
<1>2. state' \in AgentState /\ staged' \subseteq AgentState
  BY <1>1, WriteType DEF Settle, DrainTypes
<1> QED
  BY <1>2 DEF Settle, DrainTypes, Handled

\* Reconsidering the queue keeps the types.
LEMMA TryDrainType ==
    ASSUME DrainTypes, NEW h \in Handled, TryDrain(h)
    PROVE  DrainTypes'
<1>1. CASE CanDrain(h)
  <2>1. PICK turn \in QueuedTurn(h.state) : BeginTurn(turn, h)
    BY <1>1 DEF TryDrain
  <2>2. h.state \in AgentState
    BY DEF Handled
  <2>3. turn \in Turn
    BY <2>2, TurnTypes
  <2> QED
    BY <2>1, <2>3, BeginTurnType
<1>2. CASE ~CanDrain(h)
  BY <1>2, SettleType DEF TryDrain
<1> QED
  BY <1>1, <1>2

\* The handler's fields, as it finds them.
LEMMA HereType ==
    ASSUME TypeOK
    PROVE  Here \in Handled
BY DEF Here, Handled, TypeOK

\* What the owner is told keeps the type of the fields.
LEMMA TellingType ==
    ASSUME NEW h \in Handled, NEW what \in OwnerHeard
    PROVE  Telling(h, what) \in Handled /\ Telling(h, what).state = h.state
<1>1. Telling(h, what) \in Handled
  BY DEF Telling, Handled
<1>2. Telling(h, what).state = h.state
  BY DEF Telling, Handled
<1> QED
  BY <1>1, <1>2

\* Replacing the folded state keeps the type of the fields.
LEMMA FoldedType ==
    ASSUME NEW h \in Handled, NEW s \in AgentState
    PROVE  [h EXCEPT !.state = s] \in Handled
BY DEF Handled

-----------------------------------------------------------------------------
(* The parts of the end of a run *)

\* A completed run's end keeps the types.
LEMMA FinishCompletedType ==
    ASSUME DrainTypes, NEW h \in Handled, FinishCompleted(h)
    PROVE  DrainTypes'
<1>1. h.state \in AgentState /\ h.forced \in BOOLEAN /\ h.state.nudges \in Nat
  BY DEF Handled, AgentState
<1>2. ASSUME Park(h) PROVE DrainTypes'
  <2>1. Telling(h, "Parked") \in Handled /\ Telling(h, "Parked").state = h.state
    BY TellingType DEF OwnerHeard
  <2>2. [Telling(h, "Parked") EXCEPT !.state = ApplyParked(@)] \in Handled
    BY <1>1, <2>1, QueueFoldTypes, FoldedType
  <2> QED
    BY <1>2, <2>2, SettleType DEF Park
<1>3. ASSUME EndedWithoutResult(h) PROVE DrainTypes'
  <2>1. CASE h.state.nudges >= MaxResultNudges
    <3>1. Telling(h, "Failed") \in Handled
      BY TellingType DEF OwnerHeard
    <3> QED
      BY <1>3, <2>1, <3>1, SettleType DEF EndedWithoutResult
  <2>2. CASE ~(h.state.nudges >= MaxResultNudges)
    <3> DEFINE s == ApplyNudged(ApplyReceived(h.state, NudgeItem(h.state.nudges)))
               f == h.forced \/ h.state.nudges + 1 >= MaxResultNudges
               h1 == [h EXCEPT !.state = s, !.forced = f]
    <3>1. NudgeItem(h.state.nudges) \in Item
      BY <1>1 DEF NudgeItem, Item, ItemId
    <3>2. s \in AgentState
      BY <1>1, <3>1, QueueFoldTypes
    <3>3. f \in BOOLEAN
      BY <1>1
    <3> HIDE DEF s, f
    <3>4. h1 \in Handled
      BY <3>2, <3>3 DEF Handled
    <3>5. TryDrain(h1)
      BY <1>3, <2>2 DEF EndedWithoutResult, s, f
    <3> QED
      BY <3>4, <3>5, TryDrainType
  <2> QED
    BY <2>1, <2>2
<1>4. Telling(h, "Concluded") \in Handled
  BY TellingType DEF OwnerHeard
<1> QED
  BY <1>2, <1>3, <1>4, TryDrainType DEF FinishCompleted

\* A stopped run's end keeps the types.
LEMMA FinishStoppedType ==
    ASSUME DrainTypes, NEW h \in Handled, NEW calls \in SUBSET Call, FinishStopped(h, calls)
    PROVE  DrainTypes'
<1>1. h.state \in AgentState
  BY DEF Handled
<1>2. CASE Asks(calls)
  <2>1. Telling(h, "Asked") \in Handled /\ Telling(h, "Asked").state = h.state
    BY TellingType DEF OwnerHeard
  <2>2. [Telling(h, "Asked") EXCEPT !.state = ApplyAskRecorded(@, calls)] \in Handled
    BY <1>1, <2>1, QueueFoldTypes, FoldedType
  <2> QED
    BY <1>2, <2>2, TryDrainType DEF FinishStopped
<1>3. CASE ~Asks(calls) /\ Submits(calls)
  <2>1. Telling(h, "Concluded") \in Handled /\ Telling(h, "Concluded").state = h.state
    BY TellingType DEF OwnerHeard
  <2>2. ApplyTimerCancelled(h.state, h.state.timers) \in AgentState
    BY <1>1 DEF ApplyTimerCancelled, AgentState
  <2>3. [Telling(h, "Concluded") EXCEPT !.state = ApplyTimerCancelled(@, @.timers)] \in Handled
    BY <2>1, <2>2, FoldedType
  <2> QED
    BY <1>3, <2>3, TryDrainType DEF FinishStopped
<1>4. CASE ~Asks(calls) /\ ~Submits(calls)
  <2> DEFINE told == ApplyNudged(Logged(h.state, <<ResultEntry(calls)>>))
  <2>1. <<ResultEntry(calls)>> \in Seq(Entry)
    BY EntryTypes
  <2>2. told \in AgentState /\ told.nudges \in Nat
    <3>1. Logged(h.state, <<ResultEntry(calls)>>) \in AgentState
      BY <1>1, <2>1, LoggedType
    <3>2. told \in AgentState
      BY <3>1, QueueFoldTypes
    <3> QED
      BY <3>2 DEF AgentState
  <2> HIDE DEF told
  <2>3. ContradictionItem(told.nudges) \in Item
    BY <2>2 DEF ContradictionItem, Item, ItemId
  <2>4. ApplyReceived(told, ContradictionItem(told.nudges)) \in AgentState
    BY <2>2, <2>3, QueueFoldTypes
  <2>5. /\ [h EXCEPT !.state = told] \in Handled
        /\ [h EXCEPT !.state = ApplyReceived(told, ContradictionItem(told.nudges))] \in Handled
    BY <2>2, <2>4, FoldedType
  <2>6. CorrectContradiction(h, calls)
    BY <1>4 DEF FinishStopped
  <2> QED
    BY <2>5, <2>6, SettleType, TryDrainType DEF CorrectContradiction, told
<1> QED
  BY <1>2, <1>3, <1>4

\* A cancelled run's end keeps the types.
LEMMA FinishCancelledType ==
    ASSUME DrainTypes, NEW h \in Handled, FinishCancelled(h)
    PROVE  DrainTypes'
<1> DEFINE missing == MissingResults(h.state)
           repaired == IF missing = {} THEN h.state
                       ELSE ApplyInput(h.state, ResultEntry(missing))
           heard == IF acks > 0 THEN Telling(h, "Stopped") ELSE h
           Kept(e) == ApplyBoundary(IF e = <<>> THEN repaired ELSE Logged(repaired, e))
<1>1. h.state \in AgentState
  BY DEF Handled
<1>2. repaired \in AgentState
  BY <1>1, MissingType, EntryTypes, QueueFoldTypes
<1>3. heard \in Handled
  BY TellingType DEF OwnerHeard
<1>4. PICK salvaged \in {<<>>, <<MsgEntry({})>>} : TryDrain([heard EXCEPT !.state = Kept(salvaged)])
  BY DEF FinishCancelled
<1>5. salvaged \in Seq(Entry)
  <2>1. MsgEntry({}) \in Entry
    BY EntryTypes
  <2>2. <<>> \in Seq(Entry) /\ <<MsgEntry({})>> \in Seq(Entry)
    BY <2>1
  <2> QED
    BY <2>2
<1> HIDE DEF repaired, heard
<1>6. Kept(salvaged) \in AgentState
  BY <1>2, <1>5, LoggedType, QueueFoldTypes
<1> QED
  BY <1>3, <1>4, <1>6, FoldedType, TryDrainType

\* The report of a run keeps the types.
LEMMA HandleFinishedType ==
    ASSUME TypeOK, NEW outcome \in RunOutcome, NEW calls \in SUBSET Call,
           NEW seeds \in SUBSET Item, NEW cmd,
           cmd.outcome = outcome, cmd.calls = calls, cmd.seeds = seeds,
           HandleFinished(cmd)
    PROVE  DrainTypes' /\ acks' \in Nat /\ seeded' \subseteq Item
<1> DEFINE h == [Here EXCEPT !.running = {}]
<1>1. Here \in Handled
  BY HereType
<1>2. h \in Handled
  BY <1>1 DEF Handled
<1>3. DrainTypes
  BY DEF TypeOK, DrainTypes
<1>4. Telling(h, "Failed") \in Handled
  BY <1>2, TellingType DEF OwnerHeard
<1>5. \/ FinishCompleted(h) \/ FinishStopped(h, calls) \/ FinishCancelled(h)
      \/ Settle(Telling(h, "Failed")) \/ Settle(h)
  BY DEF HandleFinished, RunOutcome
<1> HIDE DEF h
<1>6. DrainTypes'
  BY <1>2, <1>3, <1>4, <1>5, FinishCompletedType, FinishStoppedType, FinishCancelledType,
     SettleType
<1>7. acks' \in Nat /\ seeded' \subseteq Item
  BY DEF HandleFinished, TypeOK
<1> QED
  BY <1>6, <1>7

-----------------------------------------------------------------------------
(* The parts of a run task's step *)

\* The variables a run task's step may change, and their types.
TaskTypes == runs \subseteq RunTask /\ mailbox \in Seq(Command) /\ owner \in OwnerHeard

\* A task that goes on keeps the type of the tasks.
LEMMA MovesType ==
    ASSUME runs \subseteq RunTask, NEW r, NEW r1 \in RunTask, Moves(r, r1)
    PROVE  runs' \subseteq RunTask
BY DEF Moves

\* A task that emits keeps the types of the tasks and of the mailbox.
LEMMA EmitsType ==
    ASSUME TypeOK, NEW r \in runs, NEW r1 \in RunTask,
           NEW ev \in {"msg", "result", "complete", "aborted", "compacted", "repair"},
           NEW calls \in SUBSET Call, Emits(r, r1, ev, calls)
    PROVE  runs' \subseteq RunTask /\ mailbox' \in Seq(Command)
<1>1. [r1 EXCEPT !.waiting = TRUE] \in RunTask
  BY DEF RunTask
<1>2. runs' \subseteq RunTask
  BY <1>1, MovesType DEF Emits, TypeOK
<1>3. r.id \in Nat
  BY DEF TypeOK, RunTask
<1>4. [kind |-> "PersistProgress", run |-> {r.id}, ev |-> ev, calls |-> calls] \in Command
  BY <1>3 DEF Command
<1>5. mailbox' \in Seq(Command)
  BY <1>4 DEF Emits, TypeOK
<1> QED
  BY <1>2, <1>5

\* A task that aborts does too.
LEMMA AbortsType ==
    ASSUME TypeOK, NEW r \in runs, NEW end \in RunOutcome \cup {"Transient"}, Aborts(r, end)
    PROVE  runs' \subseteq RunTask /\ mailbox' \in Seq(Command)
<1>1. [r EXCEPT !.stage = "ended", !.end = end, !.open = {}, !.posted = {}, !.stopped = {}]
          \in RunTask
  <2>1. r \in RunTask
    BY DEF TypeOK
  <2> QED
    BY <2>1 DEF RunTask
<1> QED
  BY <1>1, EmitsType DEF Aborts

\* A task that reports does too.
LEMMA ReportsType ==
    ASSUME TypeOK, NEW r \in runs, NEW outcome \in RunOutcome, NEW seeds \in SUBSET Item,
           Reports(r, outcome, seeds)
    PROVE  runs' \subseteq RunTask /\ mailbox' \in Seq(Command)
<1> DEFINE calls == IF outcome = "Stopped" THEN r.stopped ELSE {}
<1>1. r.id \in Nat /\ calls \in SUBSET Call
  BY DEF TypeOK, RunTask
<1> HIDE DEF calls
<1>2. [kind |-> "RunFinished", run |-> r.id, outcome |-> outcome, calls |-> calls,
       seeds |-> seeds] \in Command
  BY <1>1 DEF Command
<1>3. mailbox' \in Seq(Command)
  BY <1>2 DEF Reports, TypeOK, calls
<1>4. runs' \subseteq RunTask
  BY DEF Reports, TypeOK
<1> QED
  BY <1>3, <1>4

\* A run task's step keeps the types of what it changes.
LEMMA RunStepType ==
    ASSUME TypeOK, NEW r \in runs,
           RunInner(r) \/ RunOuter(r) \/ Summarise(r)
    PROVE  TaskTypes' /\ nextCall' \in Nat \ {0}
<1>1. /\ r \in RunTask /\ r.seeds \in SUBSET Item /\ r.end \in RunOutcome \cup {"Transient"}
      /\ r.calls \in SUBSET Call /\ r.open \in SUBSET Call /\ r.posted \in SUBSET Call
      /\ r.stopped \in SUBSET Call
      /\ r.msgs \in Nat /\ r.same \in Nat /\ r.tries \in Nat
  BY DEF TypeOK, RunTask
<1>2. /\ runs \subseteq RunTask /\ mailbox \in Seq(Command) /\ owner \in OwnerHeard
      /\ nextCall \in Nat \ {0}
  BY DEF TypeOK
<1>3. \A e \in RunOutcome \cup {"Transient"} : \A st \in {"loop", "ended", "summarise"} :
         [r EXCEPT !.stage = st, !.end = e] \in RunTask
  BY <1>1 DEF RunTask
<1>4. \A st \in {"loop", "ended", "summarise"} : [r EXCEPT !.stage = st] \in RunTask
  BY <1>1 DEF RunTask
<1>5. CASE Provide(r)
  <2>1. CASE /\ Moves(r, [r EXCEPT !.stage = IF r.compact \/ r.seeds # {} THEN "summarise"
                                                                          ELSE "loop"])
             /\ UNCHANGED <<mailbox, owner>>
    BY <1>2, <1>4, <1>5, <2>1, MovesType DEF Provide, TaskTypes, RunQuiet
  <2>2. CASE owner' = "Failed" /\ Reports(r, "AlreadyReported", {})
    BY <1>2, <1>5, <2>2, ReportsType DEF Provide, TaskTypes, RunQuiet, RunOutcome, OwnerHeard
  <2> QED
    BY <1>5, <2>1, <2>2 DEF Provide
<1>6. CASE ProvideCancelled(r)
  BY <1>2, <1>6, ReportsType DEF ProvideCancelled, TaskTypes, RunQuiet, RunOutcome
<1>7. CASE Summarise(r)
  <2>1. AfterSummary(r) \in RunTask
    BY <1>4 DEF AfterSummary
  <2>2. [AfterSummary(r) EXCEPT !.wrote = TRUE] \in RunTask
    BY <2>1 DEF RunTask
  <2>3. runs' \subseteq RunTask /\ mailbox' \in Seq(Command)
    BY <1>2, <1>7, <2>1, <2>2, MovesType, EmitsType DEF Summarise
  <2> QED
    BY <1>2, <1>7, <2>3 DEF Summarise, TaskTypes, RunQuiet
<1>8. CASE Loop(r)
  <2>1. UNCHANGED owner
    BY <1>8 DEF Loop
  <2>2. ASSUME NEW end \in {"Failed", "Transient"}, Aborts(r, end), UNCHANGED nextCall
        PROVE  TaskTypes' /\ nextCall' \in Nat \ {0}
    BY <1>2, <2>1, <2>2, AbortsType DEF TaskTypes, RunOutcome
  <2>3. ASSUME NEW n \in 0..MaxBatch, NEW again \in BOOLEAN,
               nextCall + n <= MaxCalls + 1,
               nextCall' = nextCall + n,
               NEW f \in [nextCall..(nextCall + n - 1) -> Tools],
               Emits(r, [r EXCEPT !.stage = "acted", !.calls = Batch(f),
                                  !.msgs = @ + 1, !.wrote = TRUE,
                                  !.same = IF again THEN @ + 1 ELSE 1],
                     "msg", Batch(f))
        PROVE  TaskTypes' /\ nextCall' \in Nat \ {0}
    <3>1. MaxCalls \in Nat /\ MaxBatch \in Nat
      BY ConstantsAssumption DEF ConstantsAssumption
    <3>2. Batch(f) \in SUBSET Call
      BY <1>2, <2>3, <3>1 DEF Batch, Call
    <3>3. r.msgs + 1 \in Nat /\ (IF again THEN r.same + 1 ELSE 1) \in Nat
      BY <1>1
    <3> HIDE DEF Batch
    <3>4. [r EXCEPT !.stage = "acted", !.calls = Batch(f), !.msgs = @ + 1, !.wrote = TRUE,
                    !.same = IF again THEN @ + 1 ELSE 1] \in RunTask
      BY <1>1, <3>2, <3>3 DEF RunTask
    <3>5. runs' \subseteq RunTask /\ mailbox' \in Seq(Command)
      BY <2>3, <3>2, <3>4, EmitsType
    <3>6. nextCall' \in Nat \ {0}
      BY <1>2, <2>3, <3>1
    <3> QED
      BY <1>2, <2>1, <3>5, <3>6 DEF TaskTypes
  <2> QED
    BY <1>8, <2>2, <2>3 DEF Loop
<1>9. CASE Act(r)
  <2>1. [r EXCEPT !.stage = "tools", !.open = r.calls, !.posted = {}, !.stopped = {}] \in RunTask
    BY <1>1 DEF RunTask
  <2>2. \/ Emits(r, [r EXCEPT !.stage = "ended", !.end = "Completed"], "complete", {})
        \/ Aborts(r, "Failed")
        \/ Moves(r, [r EXCEPT !.stage = "loop"]) /\ UNCHANGED mailbox
        \/ Aborts(r, "Cancelled")
        \/ /\ Moves(r, [r EXCEPT !.stage = "tools", !.open = r.calls, !.posted = {},
                                 !.stopped = {}])
           /\ UNCHANGED mailbox
    BY <1>9 DEF Act
  <2>3. runs' \subseteq RunTask /\ mailbox' \in Seq(Command)
    BY <1>2, <1>3, <1>4, <2>1, <2>2, EmitsType, AbortsType, MovesType DEF RunOutcome
  <2> QED
    BY <1>2, <1>9, <2>3 DEF Act, TaskTypes, RunQuiet
<1>10. ASSUME NEW c \in r.open, ToolResult(r, c)
       PROVE  TaskTypes' /\ nextCall' \in Nat \ {0}
  <2>1. [r EXCEPT !.open = @ \ {c}, !.posted = @ \cup {c}] \in RunTask
    BY <1>1 DEF RunTask
  <2>2. [kind |-> "PersistProgress", run |-> {r.id}, ev |-> "result", calls |-> {c}] \in Command
    <3>1. r.id \in Nat /\ {c} \in SUBSET Call
      BY <1>1 DEF RunTask
    <3> QED
      BY <3>1 DEF Command
  <2>3. mailbox' \in Seq(Command)
    BY <1>2, <1>10, <2>2 DEF ToolResult
  <2> QED
    BY <1>2, <1>10, <2>1, <2>3, MovesType DEF ToolResult, TaskTypes, RunQuiet
<1>11. ASSUME NEW c \in r.open, ToolStops(r, c)
       PROVE  TaskTypes' /\ nextCall' \in Nat \ {0}
  <2>1. [r EXCEPT !.open = @ \ {c}, !.stopped = @ \cup {c}] \in RunTask
    BY <1>1 DEF RunTask
  <2> QED
    BY <1>2, <1>11, <2>1, MovesType DEF ToolStops, TaskTypes, RunQuiet
<1>12. CASE ToolsDone(r)
  <2>1. runs' \subseteq RunTask /\ mailbox' \in Seq(Command)
    BY <1>2, <1>3, <1>4, <1>12, EmitsType, MovesType DEF ToolsDone, RunOutcome
  <2> QED
    BY <1>2, <1>12, <2>1 DEF ToolsDone, TaskTypes, RunQuiet
<1>13. CASE LoopCancelled(r)
  BY <1>2, <1>13, AbortsType DEF LoopCancelled, TaskTypes, RunQuiet, RunOutcome
<1>14. CASE Ended(r)
  <2> DEFINE st == IF r.compact THEN "summarise" ELSE "loop"
  <2>1. [r EXCEPT !.stage = st, !.tries = @ + 1, !.msgs = 0, !.same = 0, !.calls = {},
                  !.end = "Completed"] \in RunTask
    <3>1. st \in {"summarise", "loop"} /\ r.tries + 1 \in Nat
      BY <1>1
    <3> HIDE DEF st
    <3> QED
      BY <1>1, <3>1 DEF RunTask, RunOutcome
  <2>2. (IF r.end = "Transient" THEN "Failed" ELSE r.end) \in RunOutcome
    BY <1>1 DEF RunOutcome
  <2>3. runs' \subseteq RunTask /\ mailbox' \in Seq(Command)
    BY <1>1, <1>2, <1>14, <2>1, <2>2, MovesType, ReportsType DEF Ended
  <2> QED
    BY <1>2, <1>14, <2>3 DEF Ended, TaskTypes, RunQuiet
<1> QED
  BY <1>5, <1>6, <1>7, <1>8, <1>9, <1>10, <1>11, <1>12, <1>13, <1>14 DEF RunInner, RunOuter

-----------------------------------------------------------------------------
(* Type correctness *)

\* A received command has the fields of its kind, and leaves the mailbox typed.
LEMMA ReceiveType ==
    ASSUME TypeOK, NEW kind, Receive(kind)
    PROVE  /\ Head(mailbox) \in Command /\ Head(mailbox).kind = kind
           /\ mailbox' \in Seq(Command)
<1>1. mailbox \in Seq(Command) /\ mailbox # <<>>
  BY DEF TypeOK, Receive
<1>2. Head(mailbox) \in Command /\ Tail(mailbox) \in Seq(Command)
  BY <1>1
<1> QED
  BY <1>2 DEF Receive

\* The fields of the commands that carry some.
LEMMA CommandFields ==
    ASSUME NEW cmd \in Command
    PROVE  /\ cmd.kind = "StartPrepared" => cmd.turn \in Turn
           /\ cmd.kind = "PersistProgress" =>
                 /\ cmd.calls \in SUBSET Call
                 /\ cmd.ev \in {"msg", "result", "complete", "aborted", "compacted", "repair"}
           /\ cmd.kind = "RunFinished" =>
                 /\ cmd.run \in Nat /\ cmd.outcome \in RunOutcome
                 /\ cmd.calls \in SUBSET Call /\ cmd.seeds \in SUBSET Item
           /\ cmd.kind = "TimerFired" => cmd.timer \in Timers
BY DEF Command

\* What the mailbox makes the actor do keeps every type.
LEMMA HandleCommandType ==
    ASSUME TypeOK, HandleCommand
    PROVE  TypeOK'
<1> DEFINE cmd == Head(mailbox)
<1>1. DrainTypes
  BY DEF TypeOK, DrainTypes
<1>2. Here \in Handled
  BY HereType
<1>3. CASE Drain
  <2>1. mailbox' \in Seq(Command)
    BY <1>3, ReceiveType DEF Drain
  <2>2. DrainTypes'
    BY <1>1, <1>2, <1>3, TryDrainType DEF Drain
  <2> QED
    BY <1>3, <2>1, <2>2 DEF Drain, TypeOK, DrainTypes
<1>4. CASE StartPrepared
  <2>1. mailbox' \in Seq(Command) /\ cmd.turn \in Turn
    BY <1>4, ReceiveType, CommandFields DEF StartPrepared
  <2>2. CASE cmd.abandon
    <3>1. refused' \subseteq Item
      BY <1>4, <2>1, <2>2 DEF StartPrepared, TypeOK, Turn
    <3> QED
      BY <1>4, <2>1, <2>2, <3>1 DEF StartPrepared, TypeOK, OwnerHeard, durable
  <2>3. CASE ~cmd.abandon
    <3>1. StartRun(cmd.turn, forced) /\ Write(ApplyTurnInput(state, cmd.turn), FALSE)
      BY <1>4, <2>3 DEF StartPrepared
    <3>2. /\ runs' \subseteq RunTask /\ running' \subseteq Nat /\ nextRun' \in Nat
          /\ forced' \in BOOLEAN
      BY <1>1, <2>1, <3>1, StartRunType DEF TypeOK
    <3>3. state' \in AgentState /\ staged' \subseteq AgentState
      BY <2>1, <3>1, TurnInputType, WriteType DEF TypeOK
    <3> QED
      BY <1>4, <2>1, <2>3, <3>2, <3>3 DEF StartPrepared, TypeOK
  <2> QED
    BY <2>2, <2>3
<1>5. CASE PersistProgress
  <2>1. /\ mailbox' \in Seq(Command) /\ cmd.calls \in SUBSET Call
        /\ cmd.ev \in {"msg", "result", "complete", "aborted", "compacted", "repair"}
    BY <1>5, ReceiveType, CommandFields DEF PersistProgress
  <2>2. ApplyProgress(state, cmd.ev, cmd.calls) \in AgentState
    <3>1. /\ MsgEntry(cmd.calls) \in Entry /\ ResultEntry(cmd.calls) \in Entry
      BY <2>1, EntryTypes
    <3>2. /\ <<MsgEntry(cmd.calls)>> \in Seq(Entry) /\ <<ResultEntry(cmd.calls)>> \in Seq(Entry)
          /\ <<>> \in Seq(Entry)
      BY <3>1
    <3>3. /\ Logged(state, <<MsgEntry(cmd.calls)>>) \in AgentState
          /\ Logged(state, <<ResultEntry(cmd.calls)>>) \in AgentState
          /\ Logged(state, <<>>) \in AgentState
          /\ ApplyInput(state, ResultEntry(cmd.calls)) \in AgentState
          /\ ApplyBoundary(state) \in AgentState
      BY <3>1, <3>2, LoggedType, QueueFoldTypes DEF TypeOK
    <3> QED
      BY <2>1, <3>3 DEF ApplyProgress
  <2>3. \A r \in runs : Acked(r, cmd) \in RunTask
    <3>1. ASSUME NEW r \in runs PROVE Acked(r, cmd) \in RunTask
      <4>1. r \in RunTask /\ r.posted \ cmd.calls \in SUBSET Call
        BY DEF TypeOK, RunTask
      <4>2. [r EXCEPT !.posted = @ \ cmd.calls] \in RunTask /\ [r EXCEPT !.waiting = FALSE] \in RunTask
        BY <4>1 DEF RunTask
      <4> QED
        BY <4>1, <4>2 DEF Acked
    <3> QED
      BY <3>1
  <2>4. state' \in AgentState /\ runs' \subseteq RunTask
    BY <1>5, <2>2, <2>3 DEF PersistProgress
  <2> QED
    BY <1>5, <2>1, <2>4 DEF PersistProgress, TypeOK, actor, ghosts
<1>6. CASE TimerFired
  <2> DEFINE t == cmd.timer
             fired == ApplyReceived(ApplyTimerFired(state, t), TimerItem(t, state.fires[t] + 1))
  <2>1. mailbox' \in Seq(Command) /\ t \in Timers
    BY <1>6, ReceiveType, CommandFields DEF TimerFired
  <2>2. CASE t \in state.timers
    <3>1. state.fires[t] + 1 \in Nat
      BY <2>1 DEF TypeOK, AgentState
    <3>2. fired \in AgentState
      BY <2>1, <3>1, TimerFoldTypes, QueueFoldTypes, ItemTypes DEF TypeOK
    <3>3. TryDrain([Here EXCEPT !.state = fired])
      BY <1>6, <2>2 DEF TimerFired
    <3> HIDE DEF fired, t
    <3>4. [Here EXCEPT !.state = fired] \in Handled
      BY <1>2, <3>2, FoldedType
    <3>5. DrainTypes'
      BY <1>1, <3>3, <3>4, TryDrainType
    <3>6. sleeps' \subseteq Timers
      BY <1>6, <2>1, <2>2 DEF TimerFired, TypeOK, t
    <3> QED
      BY <1>6, <2>1, <3>5, <3>6 DEF TimerFired, TypeOK, DrainTypes
  <2>3. CASE t \notin state.timers
    BY <1>6, <2>1, <2>3 DEF TimerFired, TypeOK, durable
  <2> QED
    BY <2>2, <2>3
<1>7. CASE RunFinished
  <2>1. /\ mailbox' \in Seq(Command) /\ cmd.outcome \in RunOutcome
        /\ cmd.calls \in SUBSET Call /\ cmd.seeds \in SUBSET Item
    BY <1>7, ReceiveType, CommandFields DEF RunFinished
  <2>2. CASE cmd.run \in running
    <3>1. DrainTypes' /\ acks' \in Nat /\ seeded' \subseteq Item
      BY <1>7, <2>1, <2>2, HandleFinishedType DEF RunFinished
    <3> QED
      BY <1>7, <2>1, <3>1 DEF RunFinished, TypeOK, DrainTypes
  <2>3. CASE cmd.run \notin running
    BY <1>7, <2>1, <2>3 DEF RunFinished, TypeOK, durable
  <2> QED
    BY <2>2, <2>3
<1> QED
  BY <1>3, <1>4, <1>5, <1>6, <1>7 DEF HandleCommand

\* What a behaviour has used up of its bounds.
Spent == [cancels : Nat, flips : Nat, crashes : Nat, armed : SUBSET Timers,
          answered : SUBSET Call]

\* Using up more of a bound keeps the type of what is used up.
LEMMA SpentTypes ==
    ASSUME TypeOK
    PROVE  /\ [spent EXCEPT !.cancels = @ + 1] \in Spent
           /\ [spent EXCEPT !.flips = @ + 1] \in Spent
           /\ [spent EXCEPT !.crashes = @ + 1] \in Spent
           /\ \A t \in Timers : [spent EXCEPT !.armed = @ \cup {t}] \in Spent
           /\ \A cs \in SUBSET Call : [spent EXCEPT !.answered = @ \cup cs] \in Spent
<1>1. spent \in Spent
  BY DEF TypeOK, Spent
<1>2. [spent EXCEPT !.cancels = @ + 1] \in Spent
  BY <1>1 DEF Spent
<1>3. [spent EXCEPT !.flips = @ + 1] \in Spent
  BY <1>1 DEF Spent
<1>4. [spent EXCEPT !.crashes = @ + 1] \in Spent
  BY <1>1 DEF Spent
<1>5. ASSUME NEW t \in Timers PROVE [spent EXCEPT !.armed = @ \cup {t}] \in Spent
  BY <1>1 DEF Spent
<1>6. ASSUME NEW cs \in SUBSET Call PROVE [spent EXCEPT !.answered = @ \cup cs] \in Spent
  BY <1>1 DEF Spent
<1> QED
  BY <1>2, <1>3, <1>4, <1>5, <1>6

\* What the outside makes the actor do keeps every type.
LEMMA OutsideType ==
    ASSUME TypeOK, Outside
    PROVE  TypeOK'
<1>1. DrainTypes
  BY DEF TypeOK, DrainTypes
<1>2. Here \in Handled
  BY HereType
<1>3. ASSUME NEW item \in Incoming, Enqueue(item) PROVE TypeOK'
  <2>1. item \in Item
    BY IncomingType
  <2>2. state' \in AgentState
    BY <1>3, <2>1, QueueFoldTypes DEF Enqueue, TypeOK
  <2>3. [kind |-> "Drain"] \in Command
    BY DEF Command
  <2>4. mailbox' \in Seq(Command)
    BY <1>3, <2>3 DEF Enqueue, TypeOK
  <2> QED
    BY <1>3, <2>2, <2>4 DEF Enqueue, TypeOK, actor
<1>4. ASSUME NEW answers \in SUBSET state.asks, Answer(answers) PROVE TypeOK'
  <2>1. answers \in SUBSET Call
    BY DEF TypeOK, AgentState
  <2>2. PICK turn \in AnsweredTurn(state, answers) : BeginTurn(turn, Here)
    BY <1>4 DEF Answer
  <2>3. turn \in Turn
    BY <2>1, TurnTypes DEF TypeOK
  <2>4. DrainTypes'
    BY <1>1, <1>2, <2>2, <2>3, BeginTurnType
  <2>5. spent' \in Spent
    BY <1>4, <2>1, SpentTypes DEF Answer
  <2> QED
    BY <1>4, <2>4, <2>5 DEF Answer, TypeOK, DrainTypes, Spent
<1>5. CASE Cancel
  <2>1. ASSUME NEW r \in runs PROVE [r EXCEPT !.cancelled = TRUE] \in RunTask
    <3>1. r \in RunTask
      BY DEF TypeOK
    <3> QED
      BY <3>1 DEF RunTask
  <2>2. runs' \subseteq RunTask
    BY <1>5, <2>1 DEF Cancel, TypeOK
  <2>3. spent' \in Spent
    BY <1>5, SpentTypes DEF Cancel
  <2>4. acks' \in Nat
    BY <1>5 DEF Cancel, TypeOK
  <2> QED
    BY <1>5, <2>2, <2>3, <2>4 DEF Cancel, TypeOK, durable, Spent
<1>6. ASSUME NEW next \in BOOLEAN, RecordRuntime(next) PROVE TypeOK'
  <2> DEFINE h == [Here EXCEPT !.state = ApplyLifecycle(state, state.children), !.ready = next]
  <2>1. ApplyLifecycle(state, state.children) \in AgentState
    <3>1. state.children \in Nat
      BY DEF TypeOK, AgentState
    <3> QED
      BY <3>1, QueueFoldTypes DEF TypeOK
  <2>2. h \in Handled
    BY <1>2, <2>1 DEF Handled
  <2>3. TryDrain(h)
    BY <1>6 DEF RecordRuntime
  <2> HIDE DEF h
  <2>4. DrainTypes'
    BY <1>1, <2>2, <2>3, TryDrainType
  <2>5. spent' \in Spent
    BY <1>6, SpentTypes DEF RecordRuntime
  <2> QED
    BY <1>6, <2>4, <2>5 DEF RecordRuntime, TypeOK, DrainTypes, Spent
<1>7. ASSUME NEW children \in 0..MaxChildren, RecordChild(children) PROVE TypeOK'
  <2>1. children \in Nat
    BY ConstantsAssumption DEF ConstantsAssumption
  <2>2. state' \in AgentState
    BY <1>7, <2>1, QueueFoldTypes DEF RecordChild, TypeOK
  <2> QED
    BY <1>7, <2>2 DEF RecordChild, TypeOK, actor, tasks, ghosts
<1>8. ASSUME NEW t \in Timers, ArmTimer(t) PROVE TypeOK'
  <2>1. state' \in AgentState
    BY <1>8, TimerFoldTypes DEF ArmTimer, TypeOK
  <2>2. spent' \in Spent
    BY <1>8, SpentTypes DEF ArmTimer
  <2> QED
    BY <1>8, <2>1, <2>2 DEF ArmTimer, TypeOK, actor, Spent
<1>9. ASSUME NEW ts \in SUBSET Timers, CancelTimer(ts) PROVE TypeOK'
  <2>1. ApplyTimerCancelled(state, ts) \in AgentState
    BY DEF ApplyTimerCancelled, TypeOK, AgentState
  <2> QED
    BY <1>9, <2>1 DEF CancelTimer, TypeOK, actor, tasks, ghosts
<1>10. CASE Unload
  <2>1. spent' \in Spent
    BY <1>10, SpentTypes DEF Unload
  <2>2. mailbox' \in Seq(Command)
    BY <1>10 DEF Unload
  <2>3. /\ staged' \subseteq AgentState /\ running' \subseteq Nat /\ runs' \subseteq RunTask
        /\ preps' \subseteq Turn /\ sleeps' \subseteq Timers
    BY <1>10 DEF Unload
  <2>4. /\ live' \in BOOLEAN /\ nextRun' \in Nat /\ preparing' \in BOOLEAN
        /\ hookFired' \in BOOLEAN /\ ready' \in BOOLEAN /\ forced' \in BOOLEAN
        /\ acks' \in Nat
    BY <1>10 DEF Unload
  <2>5. UNCHANGED <<state, owner, nextCall, accepted, refused, seeded>>
    BY <1>10 DEF Unload
  <2> QED
    BY <2>1, <2>2, <2>3, <2>4, <2>5 DEF TypeOK, Spent
<1>11. ASSUME NEW isReady \in BOOLEAN, Load(isReady) PROVE TypeOK'
  <2>1. MissingResults(state) \in SUBSET Call
    BY MissingType DEF TypeOK
  <2>2. [kind |-> "PersistProgress", run |-> {}, ev |-> "repair",
         calls |-> MissingResults(state)] \in Command
    BY <2>1 DEF Command
  <2>3. mailbox' \in Seq(Command)
    BY <1>11, <2>2 DEF Load
  <2>4. owner' \in OwnerHeard
    BY <1>11 DEF Load, TypeOK, OwnerHeard
  <2>5. /\ runs' \subseteq RunTask /\ running' \subseteq Nat /\ nextRun' \in Nat
        /\ forced' \in BOOLEAN
    <3>1. [items |-> {}, results |-> {}] \in Turn
      BY DEF Turn
    <3>2. CASE Interactive \/ state.parked \/ ~state.logged
      BY <1>11, <3>2 DEF Load, TypeOK
    <3>3. CASE ~(Interactive \/ state.parked \/ ~state.logged)
      BY <1>1, <1>11, <3>1, <3>3, StartRunType DEF Load
    <3> QED
      BY <3>2, <3>3
  <2>6. sleeps' \subseteq Timers
    BY <1>11 DEF Load, TypeOK, AgentState
  <2> QED
    BY <1>11, <2>3, <2>4, <2>5, <2>6 DEF Load, TypeOK, durable
<1> QED
  BY <1>3, <1>4, <1>5, <1>6, <1>7, <1>8, <1>9, <1>10, <1>11 DEF Outside

\* Every step keeps every type.
LEMMA TypeStep ==
    ASSUME TypeOK, [Next]_vars
    PROVE  TypeOK'
<1>1. CASE Outside
  BY <1>1, OutsideType
<1>2. CASE HandleCommand
  BY <1>2, HandleCommandType
<1>3. CASE Persist
  BY <1>3 DEF Persist, TypeOK, actor, tasks, ghosts
<1>4. ASSUME NEW turn \in preps, NEW abandon \in BOOLEAN, PrepareEnds(turn, abandon)
      PROVE  TypeOK'
  <2>1. [kind |-> "StartPrepared", turn |-> turn, abandon |-> abandon] \in Command
    BY DEF Command, TypeOK
  <2>2. mailbox' \in Seq(Command)
    BY <1>4, <2>1 DEF PrepareEnds, TypeOK
  <2> QED
    BY <1>4, <2>2 DEF PrepareEnds, TypeOK, durable, actor, ghosts
<1>5. ASSUME NEW t \in sleeps, SleepEnds(t) PROVE TypeOK'
  <2>1. [kind |-> "TimerFired", timer |-> t] \in Command
    BY DEF Command, TypeOK
  <2>2. mailbox' \in Seq(Command)
    BY <1>5, <2>1 DEF SleepEnds, TypeOK
  <2> QED
    BY <1>5, <2>2 DEF SleepEnds, TypeOK, durable, actor, ghosts
<1>6. ASSUME NEW r \in runs, RunInner(r) \/ RunOuter(r) \/ Summarise(r) PROVE TypeOK'
  <2>1. TaskTypes' /\ nextCall' \in Nat \ {0}
    BY <1>6, RunStepType
  <2>2. UNCHANGED <<durable, live, actor, preps, sleeps, accepted, refused, seeded, spent>>
    BY <1>6 DEF RunInner, RunOuter, Summarise, Provide, ProvideCancelled, Loop, Act, ToolResult,
       ToolStops, ToolsDone, LoopCancelled, Ended, RunQuiet
  <2> QED
    BY <2>1, <2>2 DEF TypeOK, TaskTypes, durable, actor
<1>7. CASE UNCHANGED vars
  BY <1>7 DEF TypeOK, vars, durable, actor, tasks, ghosts
<1> QED
  BY <1>1, <1>2, <1>3, <1>4, <1>5, <1>6, <1>7 DEF Next, Inside

\* Type correctness: the actor's fields, its journaled state, its mailbox and
\* its tasks keep their types in every reachable state, whatever the constants.
THEOREM TypeCorrect == Spec => []TypeOK
<1>1. Init => TypeOK
  <2> SUFFICES ASSUME Init PROVE TypeOK
    OBVIOUS
  <2>1. state \in AgentState
    BY DEF Init, AgentState
  <2>2. spent \in [cancels : Nat, flips : Nat, crashes : Nat, armed : SUBSET Timers,
                   answered : SUBSET Call]
    BY DEF Init
  <2>3. mailbox \in Seq(Command)
    BY DEF Init
  <2>4. /\ staged \subseteq AgentState /\ running \subseteq Nat /\ runs \subseteq RunTask
        /\ preps \subseteq Turn /\ sleeps \subseteq Timers
    BY DEF Init
  <2>5. /\ accepted \subseteq Incoming /\ refused \subseteq Item /\ seeded \subseteq Item
    BY DEF Init
  <2>6. /\ live \in BOOLEAN /\ preparing \in BOOLEAN /\ hookFired \in BOOLEAN
        /\ ready \in BOOLEAN /\ forced \in BOOLEAN
    BY Zenon DEF Init
  <2>7. nextRun \in Nat /\ acks \in Nat /\ nextCall \in Nat \ {0}
    BY DEF Init
  <2>8. owner \in OwnerHeard
    BY DEF Init, OwnerHeard
  <2> QED
    BY <2>1, <2>2, <2>3, <2>4, <2>5, <2>6, <2>7, <2>8 DEF TypeOK
<1>2. TypeOK /\ [Next]_vars => TypeOK'
  BY TypeStep
<1> QED
  BY <1>1, <1>2, PTL DEF Spec

=============================================================================
