----------------------------- MODULE AgentActor -----------------------------
(***************************************************************************)
(* One agent: crates/server/src/agent_loop/agent_actor.                    *)
(*                                                                         *)
(* An agent is an event-sourced actor. Its journal folds into `state`; the *)
(* rest of its variables die with the process. It owns a queue of things   *)
(* addressed to it, decides on its own when that queue becomes a turn,     *)
(* runs the turn on a spawned task that journals its progress through the  *)
(* actor's mailbox, and reports the turn to the owner (a session).         *)
(*                                                                         *)
(* Conventions.                                                            *)
(*   - `mailbox` holds the commands the actor and its own tasks send it.   *)
(*     A command from outside is modelled at the moment it is handled: the *)
(*     time at which it was sent is arbitrary, so it may have been queued  *)
(*     ahead of any of those.                                              *)
(*   - A handler that reports to the owner stages the state its events     *)
(*     fold to; `Persist` makes it durable. A crash between the two leaves *)
(*     an owner that heard of something the journal does not hold.         *)
(*   - The text of a message is the set of queue items merged into it.     *)
(***************************************************************************)
EXTENDS Integers, Sequences, FiniteSets

CONSTANTS
    Incoming,            \* what the outside may queue: records [kind, id, n]
    Timers,              \* timer ids the model may arm, each once
    Recurring,           \* those of them that are TimerKind::Recurring
    Tools,               \* the tools a turn offers: "work", "ask", "submit"
    Interactive,         \* AgentParams::interactive
    RequiresResult,      \* AgentParams::requires_result
    ParkOnWork,          \* AgentParams::park_on_outstanding_work
    HasStartHooks,       \* ContextProvider::has_start_hooks
    MaxResultNudges,     \* MAX_RESULT_NUDGES
    MaxRetries,          \* AgentParams::max_retries
    NudgeThreshold,      \* AgentConfig::nudge_threshold
    StuckThreshold,      \* AgentConfig::stuck_threshold
    MaxIterations,       \* AgentConfig::max_iterations
    MaxCalls,            \* bound: tool calls over the whole behaviour
    MaxBatch,            \* bound: tool calls in one message
    MaxFires,            \* bound: fires of one recurring timer
    MaxChildren,         \* bound: delegated runs outstanding at once
    MaxCancels,          \* bound: Cancel commands
    MaxFlips,            \* bound: readiness records
    MaxCrashes           \* bound: crashes and shutdowns

ASSUME ConstantsAssumption ==
    /\ \A i \in Incoming :
          i \in [kind : {"User", "SubAgent", "Continue", "Compact", "SubSession"},
                 id : {i.id}, n : {0}]
    /\ Recurring \subseteq Timers
    /\ Tools \subseteq {"work", "ask", "submit"}
    /\ {Interactive, RequiresResult, ParkOnWork, HasStartHooks} \subseteq BOOLEAN
    /\ {MaxResultNudges, MaxRetries, NudgeThreshold, StuckThreshold, MaxIterations,
        MaxCalls, MaxBatch, MaxFires, MaxChildren, MaxCancels, MaxFlips,
        MaxCrashes} \subseteq Nat

VARIABLES
    state,      \* AgentState: the fold of the journal
    staged,     \* the states a handler's unwritten events fold to: {} or {s}
    live,       \* whether the actor is loaded
    mailbox,    \* commands from the actor itself and from its tasks
    running,    \* ids of the run the actor holds: {} or {id}
    nextRun,    \* next_run_id
    preparing,  \* a prepare step is in flight
    hookFired,  \* start_hook_fired
    ready,      \* the session has a runtime to run on
    forced,     \* pending_tool_choice names submit_result
    acks,       \* cancel_acks: callers waiting for the run to end
    runs,       \* the run tasks alive
    preps,      \* the turns whose prepare task is alive
    sleeps,     \* the timers whose sleep is alive
    owner,      \* the last thing the owner heard about a turn: an outcome, or a stop's ack
    nextCall,   \* the next tool call id
    accepted,   \* the items whose Enqueue was acked
    refused,    \* the items of turns the start hooks abandoned
    seeded,     \* the SubSession items whose summary was reported
    spent       \* what is used up of the bounds; the timers armed and the calls
                \* answered so far

durable == <<state, staged>>
actor == <<running, nextRun, preparing, hookFired, ready, forced, acks>>
tasks == <<mailbox, runs, preps, sleeps>>
ghosts == <<owner, nextCall, accepted, refused, seeded, spent>>
vars == <<durable, live, actor, tasks, ghosts>>

-----------------------------------------------------------------------------
(* Values *)

Call == [id : 1..MaxCalls, tool : Tools]

TimerItem(t, n) == [kind |-> "Timer", id |-> t, n |-> n]
NudgeItem(n) == [kind |-> "User", id |-> "nudge-result", n |-> n]
ContradictionItem(n) == [kind |-> "Continue", id |-> "contradiction", n |-> n]

ItemId == {i.id : i \in Incoming} \cup Timers \cup {"nudge-result", "contradiction"}

Item == [kind : {"User", "SubAgent", "Timer", "Continue", "Compact", "SubSession"},
         id : ItemId, n : Nat]

\* A log entry the model is shown: a user message and the items merged into
\* it, an assistant message and the calls it makes, or results of calls.
Entry == [t : {"input", "msg", "result"}, calls : SUBSET Call, items : SUBSET Item]

InputEntry(items) == [t |-> "input", calls |-> {}, items |-> items]
MsgEntry(calls) == [t |-> "msg", calls |-> calls, items |-> {}]
ResultEntry(calls) == [t |-> "result", calls |-> calls, items |-> {}]

AgentState ==
    [inbox : SUBSET Item,         \* the queue
     asks : SUBSET Call,          \* the questions parked on
     timers : SUBSET Timers,      \* armed timers
     fires : [Timers -> Nat],     \* fire_count of each
     parked : BOOLEAN,
     nudges : Nat,
     inflight : BOOLEAN,          \* turn_in_flight
     logged : BOOLEAN,            \* the log is not empty
     children : Nat,              \* delegated runs whose latest record is "running"
     log : Seq(Entry)]            \* the Llm entries of the log

Turn == [items : SUBSET Item, results : SUBSET Call]

RunOutcome == {"Completed", "Stopped", "Cancelled", "Failed", "AlreadyReported"}

RunTask ==
    [id : Nat,
     stage : {"provide", "summarise", "loop", "acted", "tools", "ended"},
     waiting : BOOLEAN,           \* it awaits the ack of a coarse event
     cancelled : BOOLEAN,         \* its CancellationToken
     only : BOOLEAN,              \* summarise_only
     compact : BOOLEAN,           \* Summarise::Compact
     seeds : SUBSET Item,         \* Summarise::SubSession
     forced : BOOLEAN,            \* its tool_choice requires submit_result
     calls : SUBSET Call,         \* the calls of its last message
     open : SUBSET Call,          \* those still executing
     posted : SUBSET Call,        \* those whose result awaits its ack
     stopped : SUBSET Call,       \* those that answered StopRun
     msgs : Nat,                  \* iterations so far
     same : Nat,                  \* the latest messages with one fingerprint
     wrote : BOOLEAN,             \* this attempt journaled something
     tries : Nat,                 \* attempts retried
     end : RunOutcome \cup {"Transient"}]   \* how it ended, once it has

Command ==
    [kind : {"Drain"}]
    \cup [kind : {"StartPrepared"}, turn : Turn, abandon : BOOLEAN]
    \cup [kind : {"PersistProgress"}, run : SUBSET Nat,
          ev : {"msg", "result", "complete", "aborted", "compacted", "repair"},
          calls : SUBSET Call]
    \cup [kind : {"RunFinished"}, run : Nat, outcome : RunOutcome,
          calls : SUBSET Call, seeds : SUBSET Item]
    \cup [kind : {"TimerFired"}, timer : Timers]

OwnerHeard == {"Nothing", "Started", "Concluded", "Asked", "Parked", "Failed",
               "Interrupted", "Stopped"}

-----------------------------------------------------------------------------
(* apply: what each event of the journal does to the state *)

Logged(s, entries) == [s EXCEPT !.log = @ \o entries, !.logged = TRUE]

ApplyReceived(s, item) ==
    [s EXCEPT !.inbox = @ \cup {item}, !.logged = @ \/ item.kind = "User"]

ApplyTurnBegan(s, turn) ==
    [s EXCEPT !.inbox = @ \ turn.items, !.asks = {}, !.inflight = TRUE, !.logged = TRUE]

ApplyAskRecorded(s, asks) ==
    [s EXCEPT !.asks = asks, !.inflight = FALSE, !.logged = TRUE]

ApplyInput(s, entry) == [Logged(s, <<entry>>) EXCEPT !.parked = FALSE]

ApplyParked(s) == [s EXCEPT !.parked = TRUE, !.inflight = FALSE, !.nudges = 0]

ApplyNudged(s) == [s EXCEPT !.nudges = @ + 1, !.inflight = FALSE]

ApplyBoundary(s) == [s EXCEPT !.inflight = FALSE]

ApplyLifecycle(s, children) == [s EXCEPT !.children = children, !.logged = TRUE]

ApplyTimerArmed(s, t) == [s EXCEPT !.timers = @ \cup {t}, !.fires[t] = 0]

ApplyTimerCancelled(s, ts) == [s EXCEPT !.timers = @ \ ts]

ApplyTimerFired(s, t) ==
    IF t \in Recurring THEN [s EXCEPT !.fires[t] = @ + 1]
                       ELSE [s EXCEPT !.timers = @ \ {t}]

-----------------------------------------------------------------------------
(* The queue's rules: what may start a turn, and what it carries *)

IsUser(item) == item.kind = "User"
HasText(item) == item.kind \in {"User", "Timer", "Continue"}

HasMessage(turn) == \E i \in turn.items : HasText(i)
StartsUserTurn(turn) == \E i \in turn.items : HasText(i) \/ i.kind = "SubAgent"
Seeds(turn) == {i \in turn.items : i.kind = "SubSession"}
Compacts(turn) == Seeds(turn) = {} /\ \E i \in turn.items : i.kind = "Compact"
SummariseOnly(turn) ==
    /\ Seeds(turn) # {} \/ Compacts(turn)
    /\ ~StartsUserTurn(turn)
    /\ turn.results = {}

\* Mutant: anything that arrives ends a park.
MutQueuedTurn(s) ==
    IF s.inbox = {} THEN {} ELSE {[items |-> s.inbox, results |-> s.asks]}

\* queued_turn: the turns the queue may start, none or one.
QueuedTurn(s) ==
    IF s.inbox = {} \/ (s.asks # {} /\ ~\E i \in s.inbox : IsUser(i))
    THEN {}
    ELSE {[items |-> s.inbox, results |-> s.asks]}

\* answered_turn: the turns the answers start, none or one.
AnsweredTurn(s, answers) ==
    IF s.asks = {} \/ answers # s.asks
    THEN {}
    ELSE {[items |-> s.inbox, results |-> answers]}

\* What start_prepared writes before the run: the results the turn supplies,
\* then the message that starts it.
ApplyTurnInput(s, turn) ==
    LET s1 == IF turn.results = {} THEN s ELSE ApplyInput(s, ResultEntry(turn.results))
    IN  IF StartsUserTurn(turn) THEN ApplyInput(s1, InputEntry(turn.items)) ELSE s1

-----------------------------------------------------------------------------
(* Repair: the calls no result will ever arrive for *)

CallsIn(s, kind) == UNION {s.log[i].calls : i \in {j \in DOMAIN s.log : s.log[j].t = kind}}

\* Mutant: the questions parked on are not exempt.
MutMissingResults(s) == CallsIn(s, "msg") \ CallsIn(s, "result")

MissingResults(s) == (CallsIn(s, "msg") \ CallsIn(s, "result")) \ s.asks

-----------------------------------------------------------------------------
(* Runs *)

NewRun(id, turn, choice) ==
    [id |-> id, stage |-> "provide", waiting |-> FALSE, cancelled |-> FALSE,
     only |-> SummariseOnly(turn), compact |-> Compacts(turn), seeds |-> Seeds(turn),
     forced |-> choice, calls |-> {}, open |-> {}, posted |-> {}, stopped |-> {},
     msgs |-> 0, same |-> 0, wrote |-> FALSE, tries |-> 0, end |-> "Completed"]

\* start_run: a task of its own, and the handle that fences and cancels it.
StartRun(turn, choice) ==
    /\ runs' = runs \cup {NewRun(nextRun, turn, choice)}
    /\ running' = {nextRun}
    /\ nextRun' = nextRun + 1
    /\ forced' = FALSE

-----------------------------------------------------------------------------
(* Handlers *)

Serving == live /\ staged = {}

\* The end of a handler: its events fold the state to s. Once the owner was
\* told something, the write that follows can still be lost.
Write(s, told) ==
    IF told /\ s # state
    THEN staged' = {s} /\ state' = state
    ELSE staged' = {} /\ state' = s

\* What a handler's own work leaves before its drain is decided: the folded
\* state, whether and what the owner was told, and the fields it assigned.
Here == [state |-> state, told |-> FALSE, owner |-> owner, running |-> running,
         forced |-> forced, ready |-> ready]

Telling(h, what) == [h EXCEPT !.told = TRUE, !.owner = what]

\* Mutant: a turn being prepared does not count.
MutBusy(h) == h.running # {}

Busy(h) == h.running # {} \/ preparing

HookDue(turn) == HasStartHooks /\ (~hookFired \/ HasMessage(turn))

BeginTurn(turn, h) ==
    LET began == ApplyTurnBegan(h.state, turn)
    IN  /\ owner' = "Started"
        /\ IF HookDue(turn)
           THEN /\ preparing' = TRUE
                /\ hookFired' = TRUE
                /\ preps' = preps \cup {turn}
                /\ running' = h.running
                /\ forced' = h.forced
                /\ UNCHANGED <<runs, nextRun>>
                /\ Write(began, TRUE)
           ELSE /\ StartRun(turn, h.forced)
                /\ UNCHANGED <<preparing, hookFired, preps>>
                /\ Write(ApplyTurnInput(began, turn), TRUE)

CanDrain(h) == ~Busy(h) /\ h.ready /\ QueuedTurn(h.state) # {}

\* The end of a handler that starts nothing.
Settle(h) ==
    /\ owner' = h.owner
    /\ running' = h.running
    /\ forced' = h.forced
    /\ UNCHANGED <<preparing, hookFired, preps, runs, nextRun>>
    /\ Write(h.state, h.told)

TryDrain(h) ==
    IF CanDrain(h)
    THEN \E turn \in QueuedTurn(h.state) : BeginTurn(turn, h)
    ELSE Settle(h)

\* The commands of the outside.

Enqueue(item) ==
    /\ Serving
    /\ item \notin accepted
    /\ state' = ApplyReceived(state, item)
    /\ accepted' = accepted \cup {item}
    /\ mailbox' = Append(mailbox, [kind |-> "Drain"])
    /\ UNCHANGED <<staged, live, actor, runs, preps, sleeps, owner, nextCall, refused,
                   seeded, spent>>

Answer(answers) ==
    /\ Serving
    /\ ~Busy(Here)
    /\ \E turn \in AnsweredTurn(state, answers) : BeginTurn(turn, Here)
    /\ spent' = [spent EXCEPT !.answered = @ \cup answers]
    /\ UNCHANGED <<live, ready, acks, mailbox, sleeps, nextCall, accepted, refused, seeded>>

\* The token reaches the task; the ack waits for its report. With no run held
\* the caller is answered at once.
Cancel ==
    /\ Serving
    /\ spent.cancels < MaxCancels
    /\ spent' = [spent EXCEPT !.cancels = @ + 1]
    /\ runs' = {IF r.id \in running THEN [r EXCEPT !.cancelled = TRUE] ELSE r : r \in runs}
    /\ acks' = IF running # {} THEN acks + 1 ELSE acks
    /\ UNCHANGED <<durable, live, running, nextRun, preparing, hookFired, ready, forced,
                   mailbox, preps, sleeps, owner, nextCall, accepted, refused, seeded>>

\* RecordLifecycle of a runtime record that changes readiness.
RecordRuntime(next) ==
    /\ Serving
    /\ spent.flips < MaxFlips
    /\ next # ready
    /\ ready' = next
    /\ spent' = [spent EXCEPT !.flips = @ + 1]
    /\ TryDrain([Here EXCEPT !.state = ApplyLifecycle(state, state.children),
                             !.ready = next])
    /\ UNCHANGED <<live, acks, mailbox, sleeps, nextCall, accepted, refused, seeded>>

\* RecordLifecycle of a SubAgent record: delegated work starts or ends.
RecordChild(children) ==
    /\ Serving
    /\ children <= MaxChildren
    /\ \/ children = state.children + 1 /\ \E r \in runs : r.stage = "tools"
       \/ children + 1 = state.children
    /\ state' = ApplyLifecycle(state, children)
    /\ UNCHANGED <<staged, live, actor, tasks, ghosts>>

\* set_timer and cancel_timer, asked by a tool call that is executing.
Executing == \E r \in runs : r.stage = "tools" /\ \E c \in r.open : c.tool = "work"

ArmTimer(t) ==
    /\ Serving
    /\ Executing
    /\ t \notin spent.armed
    /\ spent' = [spent EXCEPT !.armed = @ \cup {t}]
    /\ sleeps' = sleeps \cup {t}
    /\ state' = ApplyTimerArmed(state, t)
    /\ UNCHANGED <<staged, live, actor, mailbox, runs, preps, owner, nextCall, accepted,
                   refused, seeded>>

CancelTimer(ts) ==
    /\ Serving
    /\ Executing
    /\ ts # {} /\ ts \subseteq state.timers
    /\ state' = ApplyTimerCancelled(state, ts)
    /\ UNCHANGED <<staged, live, actor, tasks, ghosts>>

\* The commands of the actor's own mailbox, in the order they were sent.

Receive(kind) ==
    /\ Serving
    /\ mailbox # <<>>
    /\ Head(mailbox).kind = kind
    /\ mailbox' = Tail(mailbox)

Drain ==
    /\ Receive("Drain")
    /\ TryDrain(Here)
    /\ UNCHANGED <<live, ready, acks, sleeps, nextCall, accepted, refused, seeded, spent>>

\* Mutant: the items of a turn given up go back to the queue, to be tried again.
MutStartPrepared ==
    /\ Receive("StartPrepared")
    /\ preparing' = FALSE
    /\ LET cmd == Head(mailbox)
       IN  IF cmd.abandon
           THEN /\ owner' = "Failed"
                /\ refused' = refused \cup cmd.turn.items
                /\ Write([state EXCEPT !.inbox = @ \cup cmd.turn.items], FALSE)
                /\ UNCHANGED <<running, nextRun, forced, runs>>
           ELSE /\ StartRun(cmd.turn, forced)
                /\ Write(ApplyTurnInput(state, cmd.turn), FALSE)
                /\ UNCHANGED <<owner, refused>>
    /\ UNCHANGED <<live, hookFired, ready, acks, preps, sleeps, nextCall, accepted, seeded,
                   spent>>

StartPrepared ==
    /\ Receive("StartPrepared")
    /\ preparing' = FALSE
    /\ LET cmd == Head(mailbox)
       IN  IF cmd.abandon
           THEN /\ owner' = "Failed"
                /\ refused' = refused \cup cmd.turn.items
                /\ UNCHANGED <<durable, running, nextRun, forced, runs>>
           ELSE /\ StartRun(cmd.turn, forced)
                /\ Write(ApplyTurnInput(state, cmd.turn), FALSE)
                /\ UNCHANGED <<owner, refused>>
    /\ UNCHANGED <<live, hookFired, ready, acks, preps, sleeps, nextCall, accepted, seeded,
                   spent>>

ApplyProgress(s, ev, calls) ==
    CASE ev = "msg" -> Logged(s, <<MsgEntry(calls)>>)
      [] ev = "result" -> Logged(s, <<ResultEntry(calls)>>)
      [] ev = "repair" -> ApplyInput(s, ResultEntry(calls))
      [] ev = "compacted" -> Logged(s, <<>>)
      [] OTHER -> ApplyBoundary(s)

\* The write is acked, which lets the task that awaits it go on.
Acked(r, cmd) ==
    IF r.id \notin cmd.run THEN r
    ELSE IF cmd.ev = "result" THEN [r EXCEPT !.posted = @ \ cmd.calls]
    ELSE [r EXCEPT !.waiting = FALSE]

PersistProgress ==
    /\ Receive("PersistProgress")
    /\ LET cmd == Head(mailbox)
       IN  /\ state' = ApplyProgress(state, cmd.ev, cmd.calls)
           /\ runs' = {Acked(r, cmd) : r \in runs}
    /\ UNCHANGED <<staged, live, actor, preps, sleeps, ghosts>>

\* TimerFired: nothing for a timer that was cancelled meanwhile; otherwise a
\* recurring one sleeps again and the wake is queued.
TimerFired ==
    /\ Receive("TimerFired")
    /\ LET t == Head(mailbox).timer
           fired == ApplyReceived(ApplyTimerFired(state, t), TimerItem(t, state.fires[t] + 1))
       IN  IF t \in state.timers
           THEN /\ sleeps' = IF t \in Recurring THEN sleeps \cup {t} ELSE sleeps
                /\ TryDrain([Here EXCEPT !.state = fired])
           ELSE UNCHANGED <<durable, running, nextRun, preparing, hookFired, forced, runs,
                            preps, sleeps, owner>>
    /\ UNCHANGED <<live, ready, acks, nextCall, accepted, refused, seeded, spent>>

-----------------------------------------------------------------------------
(* RunFinished: what ended the run, and what that means *)

Waits(s) == s.timers # {} \/ s.children > 0

Park(h) == Settle([Telling(h, "Parked") EXCEPT !.state = ApplyParked(@)])

\* The nudge is queued as a message of its own, and the last one forces
\* submit_result.
EndedWithoutResult(h) ==
    IF h.state.nudges >= MaxResultNudges
    THEN Settle(Telling(h, "Failed"))
    ELSE TryDrain([h EXCEPT
             !.state = ApplyNudged(ApplyReceived(@, NudgeItem(@.nudges))),
             !.forced = @ \/ h.state.nudges + 1 >= MaxResultNudges])

FinishCompleted(h) ==
    IF (RequiresResult \/ ParkOnWork) /\ (CanDrain(h) \/ Waits(h.state))
    THEN IF CanDrain(h) THEN TryDrain(h) ELSE Park(h)
    ELSE IF RequiresResult THEN EndedWithoutResult(h)
    ELSE TryDrain(Telling(h, "Concluded"))

\* interpret
Asks(calls) == calls # {} /\ \A c \in calls : c.tool = "ask"
Submits(calls) == calls = {} \/ \E c \in calls : calls = {c} /\ c.tool = "submit"

CorrectContradiction(h, calls) ==
    LET told == ApplyNudged(Logged(h.state, <<ResultEntry(calls)>>))
    IN  IF told.nudges > MaxResultNudges
        THEN Settle([h EXCEPT !.state = told])
        ELSE TryDrain([h EXCEPT !.state = ApplyReceived(told, ContradictionItem(told.nudges))])

FinishStopped(h, calls) ==
    IF Asks(calls)
    THEN TryDrain([Telling(h, "Asked") EXCEPT !.state = ApplyAskRecorded(@, calls)])
    ELSE IF Submits(calls)
    THEN TryDrain([Telling(h, "Concluded") EXCEPT !.state = ApplyTimerCancelled(@, @.timers)])
    ELSE CorrectContradiction(h, calls)

\* Mutant: a stop drops the promise too.
MutFinishCancelled(h) == Settle([Telling(h, "Stopped") EXCEPT !.state = ApplyBoundary(@)])

\* A stop cancels the turn, not the promise: the calls it leaves open get a
\* synthetic result, what was streamed of the next message may be kept, and
\* the queue drains. The acks are all the owner hears of it.
FinishCancelled(h) ==
    LET missing == MissingResults(h.state)
        repaired == IF missing = {} THEN h.state ELSE ApplyInput(h.state, ResultEntry(missing))
        heard == IF acks > 0 THEN Telling(h, "Stopped") ELSE h
    IN  \E salvaged \in {<<>>, <<MsgEntry({})>>} :
           TryDrain([heard EXCEPT !.state =
                        ApplyBoundary(IF salvaged = <<>> THEN repaired
                                      ELSE Logged(repaired, salvaged))])

\* Mutant: one waiting caller is answered, whether or not there is one.
MutHandleFinished(cmd) ==
    LET h == [Here EXCEPT !.running = {}]
    IN  /\ acks' = acks - 1
        /\ seeded' = seeded \cup cmd.seeds
        /\ CASE cmd.outcome = "Completed" -> FinishCompleted(h)
             [] cmd.outcome = "Stopped" -> FinishStopped(h, cmd.calls)
             [] cmd.outcome = "Cancelled" -> FinishCancelled(h)
             [] OTHER -> Settle(Telling(h, "Failed"))

\* Mutant: a failed run is not reported.
MutHandleFailed(cmd) ==
    LET h == [Here EXCEPT !.running = {}]
    IN  /\ acks' = 0
        /\ seeded' = seeded \cup cmd.seeds
        /\ CASE cmd.outcome = "Completed" -> FinishCompleted(h)
             [] cmd.outcome = "Stopped" -> FinishStopped(h, cmd.calls)
             [] cmd.outcome = "Cancelled" -> FinishCancelled(h)
             [] OTHER -> Settle(h)

HandleFinished(cmd) ==
    LET h == [Here EXCEPT !.running = {}]
    IN  /\ acks' = 0
        /\ seeded' = seeded \cup cmd.seeds
        /\ CASE cmd.outcome = "Completed" -> FinishCompleted(h)
             [] cmd.outcome = "Stopped" -> FinishStopped(h, cmd.calls)
             [] cmd.outcome = "Cancelled" -> FinishCancelled(h)
             [] cmd.outcome = "Failed" -> Settle(Telling(h, "Failed"))
             [] cmd.outcome = "AlreadyReported" -> Settle(h)

\* The report of a superseded run is dropped.
RunFinished ==
    /\ Receive("RunFinished")
    /\ LET cmd == Head(mailbox)
       IN  IF cmd.run \in running
           THEN HandleFinished(cmd)
           ELSE UNCHANGED <<durable, running, nextRun, preparing, hookFired, forced, acks,
                            runs, preps, owner, seeded>>
    /\ UNCHANGED <<live, ready, sleeps, nextCall, accepted, refused, spent>>

HandleCommand ==
    Drain \/ StartPrepared \/ PersistProgress \/ TimerFired \/ RunFinished

-----------------------------------------------------------------------------
(* The tasks: the prepare step, the sleeps and the run *)

Persist ==
    /\ staged # {}
    /\ state' \in staged
    /\ staged' = {}
    /\ UNCHANGED <<live, actor, tasks, ghosts>>

PrepareEnds(turn, abandon) ==
    /\ turn \in preps
    /\ preps' = preps \ {turn}
    /\ mailbox' = Append(mailbox, [kind |-> "StartPrepared", turn |-> turn,
                                   abandon |-> abandon])
    /\ UNCHANGED <<durable, live, actor, runs, sleeps, ghosts>>

SleepEnds(t) ==
    /\ t \in sleeps
    /\ t \in Recurring /\ t \in state.timers => state.fires[t] < MaxFires
    /\ sleeps' = sleeps \ {t}
    /\ mailbox' = Append(mailbox, [kind |-> "TimerFired", timer |-> t])
    /\ UNCHANGED <<durable, live, actor, runs, preps, ghosts>>

\* The run task goes from r to r1.
Moves(r, r1) == runs' = (runs \ {r}) \cup {r1}

\* PersistSink::emit: the task posts a coarse event and awaits the write.
Emits(r, r1, ev, calls) ==
    /\ Moves(r, [r1 EXCEPT !.waiting = TRUE])
    /\ mailbox' = Append(mailbox, [kind |-> "PersistProgress", run |-> {r.id}, ev |-> ev,
                                   calls |-> calls])

\* Mutant: the task reports first and banks its usage afterwards.
MutAborts(r, end) ==
    /\ runs' = runs \ {r}
    /\ mailbox' = mailbox \o
          <<[kind |-> "RunFinished", run |-> r.id,
             outcome |-> IF end = "Transient" THEN "Failed" ELSE end,
             calls |-> {}, seeds |-> r.seeds],
            [kind |-> "PersistProgress", run |-> {r.id}, ev |-> "aborted", calls |-> {}]>>

\* Agent::run on an error: the calls still executing are dropped, RunAborted
\* is journaled, and only then does the task end.
Aborts(r, end) ==
    Emits(r, [r EXCEPT !.stage = "ended", !.end = end, !.open = {}, !.posted = {},
                       !.stopped = {}], "aborted", {})

Reports(r, outcome, seeds) ==
    /\ runs' = runs \ {r}
    /\ mailbox' = Append(mailbox, [kind |-> "RunFinished", run |-> r.id, outcome |-> outcome,
                                   calls |-> IF outcome = "Stopped" THEN r.stopped ELSE {},
                                   seeds |-> seeds])

RunQuiet == UNCHANGED <<durable, live, actor, preps, sleeps, nextCall, accepted, refused,
                        seeded, spent>>

AfterSummary(r) == [r EXCEPT !.stage = IF r.only THEN "ended" ELSE "loop"]

\* provide(), raced against the token.
Provide(r) ==
    /\ r.stage = "provide"
    /\ ~r.cancelled
    /\ \/ /\ Moves(r, [r EXCEPT !.stage = IF r.compact \/ r.seeds # {} THEN "summarise"
                                                                       ELSE "loop"])
          /\ UNCHANGED <<mailbox, owner>>
       \/ /\ owner' = "Failed"
          /\ Reports(r, "AlreadyReported", {})
    /\ RunQuiet

ProvideCancelled(r) ==
    /\ r.stage = "provide"
    /\ r.cancelled
    /\ Reports(r, "Cancelled", {})
    /\ UNCHANGED owner
    /\ RunQuiet

\* The summary a sub session waits for writes nothing; a compaction may.
Summarise(r) ==
    /\ r.stage = "summarise"
    /\ \/ Moves(r, AfterSummary(r)) /\ UNCHANGED mailbox
       \/ r.compact /\ Emits(r, [AfterSummary(r) EXCEPT !.wrote = TRUE], "compacted", {})
    /\ UNCHANGED owner
    /\ RunQuiet

\* One turn of the loop up to the provider's answer, which ends in a failure,
\* transient or not, or in a message. A repeated batch has the fingerprint of
\* the one before it; a forced tool_choice leaves submit_result alone.
Batch(f) == {[id |-> i, tool |-> f[i]] : i \in DOMAIN f}

Fingerprint(calls) == {c.tool : c \in calls}

Loop(r) ==
    /\ r.stage = "loop"
    /\ ~r.cancelled
    /\ IF r.msgs >= MaxIterations
       THEN Aborts(r, "Failed") /\ UNCHANGED nextCall
       ELSE \/ \E end \in {"Failed", "Transient"} : Aborts(r, end) /\ UNCHANGED nextCall
            \/ \E n \in 0..MaxBatch, again \in BOOLEAN :
                  /\ nextCall + n <= MaxCalls + 1
                  /\ nextCall' = nextCall + n
                  /\ \E f \in [nextCall..(nextCall + n - 1) -> Tools] :
                        /\ r.forced => n > 0 /\ Fingerprint(Batch(f)) = {"submit"}
                        /\ again => n > 0 /\ Fingerprint(Batch(f)) = Fingerprint(r.calls)
                        /\ Emits(r, [r EXCEPT !.stage = "acted", !.calls = Batch(f),
                                              !.msgs = @ + 1, !.wrote = TRUE,
                                              !.same = IF again THEN @ + 1 ELSE 1],
                                 "msg", Batch(f))
    /\ UNCHANGED <<owner, durable, live, actor, preps, sleeps, accepted, refused, seeded,
                   spent>>

Stuck(r) == r.same >= StuckThreshold
ShouldNudge(r) == r.same >= NudgeThreshold /\ r.same = r.msgs

\* What the loop does with the message once it is written.
Act(r) ==
    /\ r.stage = "acted"
    /\ \/ /\ r.calls = {}
          /\ \/ Emits(r, [r EXCEPT !.stage = "ended", !.end = "Completed"], "complete", {})
             \/ Aborts(r, "Failed")
       \/ r.calls # {} /\ Stuck(r) /\ Aborts(r, "Failed")
       \/ /\ r.calls # {} /\ ~Stuck(r) /\ ShouldNudge(r)
          /\ Moves(r, [r EXCEPT !.stage = "loop"])
          /\ UNCHANGED mailbox
       \/ /\ r.calls # {} /\ ~Stuck(r) /\ ~ShouldNudge(r)
          /\ IF r.cancelled
             THEN Aborts(r, "Cancelled")
             ELSE /\ Moves(r, [r EXCEPT !.stage = "tools", !.open = r.calls, !.posted = {},
                                        !.stopped = {}])
                  /\ UNCHANGED mailbox
    /\ UNCHANGED owner
    /\ RunQuiet

\* The calls of a batch execute side by side. Each posts its result, or, for a
\* tool that ends the run, none.
ToolResult(r, c) ==
    /\ r.stage = "tools"
    /\ ~r.cancelled
    /\ c \in r.open
    /\ Moves(r, [r EXCEPT !.open = @ \ {c}, !.posted = @ \cup {c}])
    /\ mailbox' = Append(mailbox, [kind |-> "PersistProgress", run |-> {r.id},
                                   ev |-> "result", calls |-> {c}])
    /\ UNCHANGED owner
    /\ RunQuiet

ToolStops(r, c) ==
    /\ r.stage = "tools"
    /\ ~r.cancelled
    /\ c \in r.open
    /\ c.tool # "work"
    /\ Moves(r, [r EXCEPT !.open = @ \ {c}, !.stopped = @ \cup {c}])
    /\ UNCHANGED <<mailbox, owner>>
    /\ RunQuiet

\* Mutant: a batch that no call of it stopped is never done.
MutToolsDone(r) ==
    /\ r.stage = "tools"
    /\ ~r.cancelled
    /\ r.open = {} /\ r.posted = {} /\ r.stopped # {}
    /\ Emits(r, [r EXCEPT !.stage = "ended", !.end = "Stopped"], "complete", {})
    /\ UNCHANGED owner
    /\ RunQuiet

ToolsDone(r) ==
    /\ r.stage = "tools"
    /\ ~r.cancelled
    /\ r.open = {} /\ r.posted = {}
    /\ IF r.stopped = {}
       THEN Moves(r, [r EXCEPT !.stage = "loop"]) /\ UNCHANGED mailbox
       ELSE Emits(r, [r EXCEPT !.stage = "ended", !.end = "Stopped"], "complete", {})
    /\ UNCHANGED owner
    /\ RunQuiet

\* Mutant: the batch is not raced against the token.
MutLoopCancelled(r) ==
    /\ r.stage = "loop"
    /\ r.cancelled
    /\ Aborts(r, "Cancelled")
    /\ UNCHANGED owner
    /\ RunQuiet

\* The token seen at the head of the loop, during the provider call, or while
\* the batch executes. A result already posted stays in the mailbox.
LoopCancelled(r) ==
    /\ r.stage \in {"loop", "tools"}
    /\ r.cancelled
    /\ Aborts(r, "Cancelled")
    /\ UNCHANGED owner
    /\ RunQuiet

\* The task's last act; or, for a transient failure that wrote nothing, the
\* next attempt.
Retries(r) == r.end = "Transient" /\ ~r.wrote /\ r.tries < MaxRetries

Ended(r) ==
    /\ r.stage = "ended"
    /\ IF Retries(r)
       THEN /\ Moves(r, [r EXCEPT !.stage = IF r.compact THEN "summarise" ELSE "loop",
                                  !.tries = @ + 1, !.msgs = 0, !.same = 0,
                                  !.calls = {}, !.end = "Completed"])
            /\ UNCHANGED mailbox
       ELSE Reports(r, IF r.end = "Transient" THEN "Failed" ELSE r.end, r.seeds)
    /\ UNCHANGED owner
    /\ RunQuiet

\* The steps a run takes by itself, and those that wait for a provider, a tool
\* or a runtime to answer.
RunInner(r) == ProvideCancelled(r) \/ Act(r) \/ ToolsDone(r) \/ LoopCancelled(r) \/ Ended(r)
RunOuter(r) ==
    \/ Provide(r) \/ Loop(r)
    \/ \E c \in r.open : ToolResult(r, c) \/ ToolStops(r, c)

-----------------------------------------------------------------------------
(* Unloading, whether by a crash or an offload, and loading *)

Unload ==
    /\ live
    /\ spent.crashes < MaxCrashes
    /\ spent' = [spent EXCEPT !.crashes = @ + 1]
    /\ live' = FALSE
    /\ staged' = {} /\ mailbox' = <<>>
    /\ runs' = {} /\ preps' = {} /\ sleeps' = {}
    /\ running' = {} /\ nextRun' = 0
    /\ preparing' = FALSE /\ hookFired' = FALSE /\ ready' = FALSE /\ forced' = FALSE
    /\ acks' = 0
    /\ UNCHANGED <<state, owner, nextCall, accepted, refused, seeded>>

\* Mutant: the timers of the journal are not armed again.
MutLoad(isReady) ==
    /\ ~live
    /\ live' = TRUE
    /\ ready' = isReady
    /\ mailbox' = <<>>
    /\ UNCHANGED <<durable, running, nextRun, preparing, hookFired, forced, acks, runs,
                   preps, sleeps, ghosts>>

\* on_recovery_complete: the sleeps are spawned, the repair is sent, the turn
\* the process died inside is reported, and an agent nobody will message
\* carries on.
Load(isReady) ==
    /\ ~live
    /\ live' = TRUE
    /\ ready' = isReady
    /\ sleeps' = state.timers
    /\ mailbox' = IF MissingResults(state) = {} THEN <<>>
                  ELSE <<[kind |-> "PersistProgress", run |-> {}, ev |-> "repair",
                          calls |-> MissingResults(state)]>>
    /\ owner' = IF state.inflight THEN "Interrupted" ELSE owner
    /\ IF Interactive \/ state.parked \/ ~state.logged
       THEN UNCHANGED <<runs, running, nextRun, forced>>
       ELSE StartRun([items |-> {}, results |-> {}], FALSE)
    /\ UNCHANGED <<durable, preparing, hookFired, acks, preps, nextCall, accepted, refused,
                   seeded, spent>>

-----------------------------------------------------------------------------
(* The specification *)

Init ==
    /\ state = [inbox |-> {}, asks |-> {}, timers |-> {}, fires |-> [t \in Timers |-> 0],
                parked |-> FALSE, nudges |-> 0, inflight |-> FALSE, logged |-> FALSE,
                children |-> 0, log |-> <<>>]
    /\ staged = {} /\ live = TRUE /\ mailbox = <<>>
    /\ running = {} /\ nextRun = 0
    /\ preparing = FALSE /\ hookFired = FALSE /\ forced = FALSE
    /\ ready \in BOOLEAN
    /\ acks = 0 /\ runs = {} /\ preps = {} /\ sleeps = {}
    /\ owner = "Nothing" /\ nextCall = 1
    /\ accepted = {} /\ refused = {} /\ seeded = {}
    /\ spent = [cancels |-> 0, flips |-> 0, crashes |-> 0, armed |-> {}, answered |-> {}]

Outside ==
    \/ \E item \in Incoming : Enqueue(item)
    \/ \E answers \in SUBSET state.asks : Answer(answers)
    \/ Cancel
    \/ \E next \in BOOLEAN : RecordRuntime(next)
    \/ \E children \in 0..MaxChildren : RecordChild(children)
    \/ \E t \in Timers : ArmTimer(t)
    \/ \E ts \in SUBSET Timers : CancelTimer(ts)
    \/ Unload
    \/ \E isReady \in BOOLEAN : Load(isReady)

Inside ==
    \/ HandleCommand \/ Persist
    \/ \E turn \in preps, abandon \in BOOLEAN : PrepareEnds(turn, abandon)
    \/ \E t \in sleeps : SleepEnds(t)
    \/ \E r \in runs : ~r.waiting /\ (RunInner(r) \/ RunOuter(r) \/ Summarise(r))

Next == Outside \/ Inside

Spec == Init /\ [][Next]_vars

\* The executor runs every ready task and the mailbox is served in order. No
\* fairness for what waits on others, a provider, a tool, a runtime, a hook,
\* but for the one call nothing races the token against: the summary.
FairSpec ==
    /\ Spec
    /\ WF_vars(Persist)
    /\ WF_vars(HandleCommand)
    /\ WF_vars(\E r \in runs : ~r.waiting /\ RunInner(r))
    /\ WF_vars(\E r \in runs : ~r.waiting /\ Summarise(r))

-----------------------------------------------------------------------------
(* Properties *)

\* The types of the variables: in particular the mailbox carries only the
\* commands the actor's own tasks send, and the actor holds at most one run
\* and has at most one unwritten fold.
TypeOK ==
    /\ state \in AgentState
    /\ staged \subseteq AgentState
    /\ live \in BOOLEAN
    /\ mailbox \in Seq(Command)
    /\ running \subseteq Nat /\ nextRun \in Nat
    /\ preparing \in BOOLEAN /\ hookFired \in BOOLEAN /\ ready \in BOOLEAN
    /\ forced \in BOOLEAN /\ acks \in Nat
    /\ runs \subseteq RunTask
    /\ preps \subseteq Turn
    /\ sleeps \subseteq Timers
    /\ owner \in OwnerHeard
    /\ nextCall \in Nat \ {0}
    /\ accepted \subseteq Incoming
    /\ refused \subseteq Item /\ seeded \subseteq Item
    /\ spent \in [cancels : Nat, flips : Nat, crashes : Nat, armed : SUBSET Timers,
                 answered : SUBSET Call]

\* A live run task is the one the actor holds, so a Stop reaches it, its report
\* is not taken for a superseded one, and no second run writes to the same
\* transcript (start_run, handle_finished, the busy check of try_drain).
SingleRun ==
    /\ \A r \in runs : running = {r.id}
    /\ \A r1, r2 \in runs : r1 = r2

\* However cancels, crashes, parks and repairs interleave with the results the
\* tools post, the journaled transcript never holds two results of one call,
\* never a result ahead of its call, and no result of a question that is still
\* parked on (missing_tool_results, parked_call_ids, answered_turn): a provider
\* rejects every later turn of such a history.
OneResultPerCall ==
    LET log == state.log
        Results(c) == {i \in DOMAIN log : log[i].t = "result" /\ c \in log[i].calls}
    IN  /\ \A i \in DOMAIN log : \A c \in log[i].calls :
              log[i].t = "result" =>
                 /\ Results(c) = {i}
                 /\ \E j \in 1..(i - 1) : log[j].t = "msg" /\ c \in log[j].calls
        /\ state.asks \cap CallsIn(state, "result") = {}

\* A park ends only because every question of it was answered or a person
\* spoke, never because a report or a wake arrived; and the very write that
\* clears the questions holds a result for each of them (queued_turn,
\* answered_turn, start_prepared).
ParkEndsAnswered ==
    [][ state.asks # {} /\ state'.asks # state.asks
          => /\ state'.asks = {}
             /\ state.asks \subseteq CallsIn(state', "result")
             /\ \/ state.asks \subseteq spent'.answered
                \/ \E i \in state.inbox : IsUser(i) ]_vars

\* The turns on their way to a run: being prepared, or prepared and queued.
Prepared == preps \cup {mailbox[i].turn : i \in {j \in DOMAIN mailbox :
                                                   mailbox[j].kind = "StartPrepared"}}

\* An accepted message or report is in exactly one place: still queued, in the
\* turn being prepared, in one message of the transcript, or in a turn whose
\* failure to start the owner was told of. Neither a crash nor a cancel
\* forgets it or says it twice (Enqueue, TurnBegan, InputMessage). It follows from
\* KeepsInbox wherever HooksKept holds; no run checks it by itself.
AcceptedOnce ==
    \A item \in accepted :
        HasText(item) \/ item.kind = "SubAgent" =>
            LET said == {i \in DOMAIN state.log : item \in state.log[i].items}
            IN  /\ Cardinality(said) <= 1
                /\ item \in state.inbox => said = {}
                /\ \/ item \in state.inbox
                   \/ said # {}
                   \/ \E turn \in Prepared : item \in turn.items
                   \/ item \in refused

\* The messages and reports the queue makes its promise about, and where they are:
\* still queued, said in one message, or in a turn on its way to a run. The items of a
\* turn whose beginning is not yet written are queued still.
Counted == {i \in Incoming : HasText(i) \/ i.kind = "SubAgent"}
Waiting(s) == s.inbox \cap Counted
Said(s) == {i \in Counted : \E j \in 1..Len(s.log) : \A n \in 1..Len(s.log) :
                                i \in s.log[n].items <=> n = j}
Underway == {i \in Counted : \E turn \in Prepared : i \in turn.items}

\* A crash forgets the turn that the start hooks are holding up, and nothing else.
HooksKept == ~HasStartHooks \/ MaxCrashes = 0

\* The agent implements DurableInbox: through its staged writes, hooks, parks, repairs,
\* cancels and restarts an accepted item waits, is taken together with all that waits,
\* and is said once or refused, never said after a refusal and never queued again
\* (Enqueue, begin_turn, start_prepared, TurnBegan, InputMessage).
Inbox == INSTANCE DurableInbox WITH
    Items <- Counted,
    Forgets <- ~HooksKept,
    accepted <- accepted \cap Counted,
    queue <- Waiting(state),
    taken <- Underway \ Waiting(state),
    said <- Said(state),
    refused <- refused \cap Counted,
    up <- live

KeepsInbox == Inbox!Spec

\* Every armed timer of a loaded agent has exactly one wake coming: its sleep
\* or its TimerFired, through fires, cancels, re-arms and recovery
\* (spawn_timer_sleep, handle_timer_fired, Timers::on_load).
TimersKeepPromise ==
    Serving =>
        \A t \in state.timers :
            LET due == {i \in DOMAIN mailbox : mailbox[i] = [kind |-> "TimerFired", timer |-> t]}
            IN  IF t \in sleeps THEN due = {} ELSE Cardinality(due) = 1

\* The ack of a Cancel means the run is over: its task is gone and nothing it
\* posted is left to be written (Cancel, handle_finished).
StopMeansOver ==
    [][ acks > 0 /\ acks' = 0 /\ live'
          => /\ \A r \in runs' : r.id \notin running
             /\ \A i \in DOMAIN mailbox' :
                   mailbox'[i].kind = "PersistProgress" =>
                       mailbox'[i].run \cap running = {} ]_vars

\* An owner told that a turn began is told how it ended: with nothing running
\* or being prepared, "Started" is not the last it heard.
OwnerHearsTheEnd ==
    Serving /\ owner = "Started" => running # {} \/ preparing

\* turn_in_flight is set for as long as a begun turn's loop is running, which
\* is what lets a recovery report the turn as interrupted. The code breaks this
\* in a retried attempt (MaxRetries > 0); no run checks it.
InFlightWhileRunning ==
    Serving /\ Interactive =>
        \A r \in runs : r.stage # "ended" /\ ~r.waiting => state.inflight

\* A queue that could start a turn waits only because the turn before it
\* failed (try_drain after every other boundary).
WaitsOnlyAfterFailure ==
    Serving /\ mailbox = <<>> /\ CanDrain(Here) => owner = "Failed"

\* A Stop is answered even when the provider, the tools and the runtime never
\* answer (#61 item 5b): the token is raced against each of them.
CancelAnswered == acks > 0 ~> acks = 0

\* With providers, tools and hooks that answer, a begun turn ends: retries,
\* iterations and nudges are all bounded.
OthersAnswer ==
    /\ WF_vars(\E r \in runs : ~r.waiting /\ RunOuter(r))
    /\ WF_vars(\E turn \in preps, abandon \in BOOLEAN : PrepareEnds(turn, abandon))

TurnEnds == OthersAnswer => (owner = "Started" ~> owner # "Started")

=============================================================================
