# A TLA+ verification project for horsie

horsie runs LLM agents on a server: a person, a routine or a workflow starts a
*session*; a session hosts *agents*; an agent takes messages, runs turns against
a model and uses tools in a sandbox, its *runtime*. Sessions and agents are
event-sourced actors: each has a mailbox, handles one command at a time, and its
state is the fold of a journal. Everything else dies with the process. That
makes the hard part of the system the same everywhere: work runs on spawned
tasks beside the mailbox, reports come back as commands, and a crash can fall
between any two of these.

The project has seven specifications and two abstract ones, with their TLC
instances and proofs:

| Module | Models |
| --- | --- |
| `DurableInbox` | abstract: what an agent's queue promises whoever put an item into it |
| `AgentActor` | one agent: queue, turns, run task, conclusion, timers, crash and recovery; implements `DurableInbox` |
| `MCAgentActor` | the sets of queued items its instances use |
| `AgentActorProofs` | `TypeCorrect` |
| `AgentRunProofs` | `SingleRunHolds`, `StopIsOver`, `TimersAreKept`, `ResultsAreSingle`, `ParksAreAnswered`, `ItemsAreKept`, `InboxIsKept`, `WaitsAreFailures`, `EndsAreHeard` |
| `RuntimeLifecycle` | the runtimes of one session and the gates of its agents |
| `MCRuntimeLifecycle` | the owners its instances use |
| `RuntimeLifecycleProofs` | `TypeCorrect`, `CreateAttended`, `GateFollows` |
| `SessionTurns` | a session and its main agent: what is shown of a turn and what runs |
| `MCSessionTurns` | its instances |
| `SessionTurnsProofs` | `TypeCorrect`, `TurnIsShown`, `EndsAreKnown`, `QuestionsAreShown` |
| `RunForest` | the delegated work of a session: subagents, workflow runs, reconciliation |
| `MCRunForest` | the workflow its instances run |
| `RunForestProofs` | `TypesHold`, `StepsOneByOne`, `CallsAnswered`, `ResultsOnce`, `ChainsReach`, `NothingLeft`, `TwoRoundsEnough` |
| `Supervisor` | the session list of an account and the sessions behind it |
| `MCSupervisor` | its instances |
| `SupervisorProofs` | `TypeCorrect`, `CreateIsHeld`, `LoadedIsCounted`, `ListFollows`, `SweepSpares` |
| `RemoteCalls` | abstract: what a session is promised about the calls on its sandbox |
| `RuntimeLink` | client, transport, pump, runtime, reconciler and acquisition; implements `RemoteCalls` |
| `MCRuntimeLink` | which agent makes which call |
| `RuntimeLinkProofs` | `TypeCorrect`, `LinkKeepsPromise`, `GraceIsEnough` |
| `Recurrence` | when a schedule next fires, and the calendar it is checked against |
| `Routines` | the routine timer over the routines table, and the edits beside it |
| `MCRoutines` | the schedules and instants its instance uses |
| `RoutinesProofs` | `TypeCorrect`, `FiredOnce`, `NothingPassedOver` |

Paths below are relative to `crates/server/src/` unless they say otherwise.

## 1. Inventory

| Component | State it keeps | Operations | What makes it correct |
| --- | --- | --- | --- |
| Agent (`agent_loop/agent_actor`, `agent_loop/inbox.rs`) | journal fold: queue, parked questions, timers, transcript, `turn_in_flight`, nudges. In memory: the run it holds, `preparing`, `ready`, waiting cancellers | Enqueue, Answer, Drain, StartPrepared, Cancel, PersistProgress, RunFinished, TimerFired, ArmTimer, CancelTimer, lifecycle records, recovery | one run at a time; what was accepted is said once; a transcript a provider accepts; a Stop that is answered and true; timers that keep their promise; an owner that hears the end |
| Agent loop (`crates/agentcore/src/agent.rs`) | history, iteration count, fingerprints | provider call, tool batch, stuck detection, cancel | it ends; every wait is raced against the token |
| Runtime lifecycle of a session (`sessions/session_actor/lifecycle.rs`) | one record per runtime, the fatal flag | Provision, FinishProvisioning, PrepareOffload, Delete, recovery | no create is forgotten, no sandbox in use is rebuilt, an agent's gate follows its own runtime |
| Session turns (`sessions/session_actor/turns.rs`, `hooks.rs`) | turn records of the run entries | messages, Stop, Halt, Started, Concluded, Interrupted, Stop hooks | the recorded status and the agent agree; at most three continuations |
| Run forest, subagents, workflow driver (`sessions/run_forest.rs`, `session_actor/{subagent,run}.rs`, `sessions/workflow`) | the tree of delegated work | spawn, deliver, start step, finish run, cancel descendants | each result is delivered once, to a parent that still waits; a run ends |
| Sub sessions (`session_actor/sub_session.rs`, `agent_actor/seed.rs`) | branch entries, seeds | Create, FinishCreate, SeedSummary | every branch gets its summary or an error |
| Supervisor (`sessions/supervisor.rs`) | loaded sessions, last activity, session list | create, route, offload, delete | no session is unloaded at work |
| Runtime manager, reconciler, vendors (`runtime_manager.rs`, `runtime_reconciler.rs`, `runtime_vendor`, `crates/runtime-host`) | links, in-flight calls, incarnations | create, get, ping, abandon, reconnect | an acquisition ends; no live call is abandoned; no caller waits on a dead one |
| Bus, event log, cluster (`bus`, `event_log`, `cluster.rs`) | topics, cursors, placements | publish, read from a cursor | a reader that lags misses nothing |
| Routines (`routines`) | next run time of each | tick, arm, run | no firing twice |
| User inbox, run index (`user_inbox`, `agent_runs`) | projections of journals | project, read, mark | idempotent projection |
| Authentication, HTTP, control tools, stores, providers, CLI, web client | SQL rows, wire formats | CRUD and translation | outside the project |

How they interact. The HTTP API and the control tools send commands to the
supervisor, which loads sessions and forwards to them. A session spawns its
agents, sends them messages and lifecycle records, and is the *owner* they
report outcomes to (`AgentOutcome`). An agent's run task talks to a provider and
through the runtime manager to a runtime; it journals through its agent's
mailbox. Creates of runtimes run on tasks of the session.

Hard behaviours: runs, hooks, sleeps and creates beside the mailbox; reports
that arrive after what they report on was replaced; cancels that race the end of
what they cancel; crash between a delivery to the owner and the journal write;
retries of something partly done; limits (nudges, iterations, retries,
continuations, rounds of reconciliation). `PROJECT.json` lists them as hazards,
at their lines.

## 2. Plan

Written, in this order:

1. `AgentActor`: the component everything else is built around.
2. Type correctness and the single-run invariant, proved.
3. `RuntimeLifecycle`: the second actor with work beside its mailbox.
4. `SessionTurns`: the owner, composed with the agent reduced to what its owner
   can observe of it.
5. `RunForest`: subagents, workflow steps and the reconciliation rounds.
6. `Supervisor`: the actor above the sessions, and who waits for whom.
7. `RemoteCalls` and `RuntimeLink`: a promise, and the link that keeps it across
   a bus, a socket and a restart.
8. `Recurrence` and `Routines`: calendar arithmetic against a reference, and the
   timer that uses it.
9. `DurableInbox`: the abstract promise of the queue (accepted, said once,
   refused aloud), which `AgentActor` is proved to implement.

Next:

10. The seeds of sub sessions (`sub_session.rs`, `seed.rs`), event-log cursors,
    and the cut of a compaction.
11. The agent of `SessionTurns` shown to be an abstraction of `AgentActor`, in the
    way of item 9.

## 3. AgentActor

State. `state` is `AgentState` (`state.rs`), the fold of the journal, with the
queue, the parked questions, the timers, the flags and the entries of the
transcript a model is shown. The other variables are the fields of
`AgentActor` (`mod.rs`: `running`, `next_run_id`, `preparing`,
`start_hook_fired`, `ready`, `pending_tool_choice`, `cancel_acks`), the mailbox,
and the tasks alive: run tasks, prepare tasks, sleeps. `owner` is the last thing
the owner heard, `accepted`, `refused`, `seeded`, `nextCall` and `spent` are
bookkeeping for the properties and the bounds.

Actions. One per command handler (`Enqueue`, `Answer`, `Drain`, `StartPrepared`,
`Cancel`, `RecordRuntime`, `RecordChild`, `ArmTimer`, `CancelTimer`,
`PersistProgress`, `TimerFired`, `RunFinished`), one per step of a task
(`PrepareEnds`, `SleepEnds`; for a run `Provide`, `ProvideCancelled`,
`Summarise`, `Loop`, `Act`, `ToolResult`, `ToolStops`, `ToolsDone`,
`LoopCancelled`, `Ended`), and `Unload` and `Load`. The folds are the `Apply...`
operators, one per event. A handler is one step up to its journal write: what
it decides is computed on the folded state, as `try_drain` asks.

What the model keeps that matters:

* *Tell, then persist.* A handler that reports to the owner leaves its fold in
  `staged`; `Persist` writes it. A crash between the two is a behaviour.
* *Commands from outside* are handled at any time the actor is serving, which
  stands for every time they may have been sent. Commands of the actor's own
  tasks keep their order in `mailbox`.
* *A coarse event waits for its ack.* A run task does not go on until the actor
  has journaled its message, result, completion or abort (`PersistSink`).
* *Parallel tools* answer in any order, and StopRun ends the batch.
* *Undetermined outside.* What the model says, which tool answers, whether a
  provider error is transient, whether a hook blocks, whether part of a
  cancelled message is kept: all are choices.

Left out: usage, delta text, snapshots, revisions, the text of hook records, the
task list, what a compaction keeps and automatic compaction, journal writes that
fail, `Cancel` without an ack, and lifecycle records that change no gate and no
child. `Shutdown` is `Unload`: the actor stops and its tasks with it.

### Runs

| Run | Instance | Properties |
| --- | --- | --- |
| `agent_queue` | interactive; a message and a branch; work and ask; one Stop, one readiness flip, one crash; two calls | `TypeOK`, `OneResultPerCall`, `ParkEndsAnswered` |
| `agent_stop` | not interactive, parks on outstanding work; start hooks; a recurring timer; a message and a child report; one retry, one Stop, one crash | `SingleRun`, `TimersKeepPromise`, `StopMeansOver`, `KeepsInbox` |
| `agent_step` | owes a result; a message and a compaction; work and submit; one child, one Stop; thresholds 2, 3, 3 | `OwnerHearsTheEnd`, `WaitsOnlyAfterFailure`, `TurnEnds`, `CancelAnswered` |

About 210 000, 1 400 000 and 280 000 states.

*The promise of the queue.* `KeepsInbox` says that `AgentActor` implements
`DurableInbox`. The abstraction has five sets: what was accepted, what waits, what
the turn about to start has taken, what one message of the transcript says, what was
refused; and it knows whether the agent is loaded. The mapping reads them off the
journal as written (`Waiting`, `Said`) and off the turns on their way (`Underway`),
less what the journal still has in the queue, so that a turn decided and not yet
written has taken nothing: the write is the abstract `Take`, or `TakeAndSay` where no
hook stands in between. An item that two messages held would be in none of the sets,
which no step allows. The refinement says more than `AcceptedOnce`, which it implies
where `HooksKept` holds: a turn takes all that waits, and whatever left the queue
never comes back, nor is it said once refused. Hooks may hold a turn up, refuse it,
or lose it to the crash. The last is the abstract `End` with a batch taken, which only
`Forgets` allows; `Forgets` is the negation of `HooksKept` (section 10).

*Bounds.* `MaxCalls` bounds tool calls over a behaviour: two allow a batch of
two, or two batches, which is what it takes for one call to be repaired while
another is parked on. One crash and one Stop suffice for each property that
speaks about a crash or a Stop, because after recovery nothing of the process is
left to interact with a second one but the journal, and the journals a second
crash could find are reached with one. `MaxFires` lets a recurring timer re-arm.
`agent_step` takes the code's `MAX_RESULT_NUDGES` and the agent thresholds small
enough that all three limits are met with three calls. No symmetry is used: the
items differ in kind.

*Deadlock* is not checked: an agent with nothing queued and nothing running has
nothing to do, and an unloaded one may stay so.

*Fairness* (`FairSpec`). The executor runs ready tasks and the mailbox is served
in order, so `HandleCommand`, `Persist` and the steps a run takes by itself are
weakly fair. Nothing is assumed of providers, tools, hooks and runtimes, but for
one call: the summary a branching or compacting turn waits for, which no
`select!` races against the token; `CancelAnswered` holds only because that call
is taken to answer. `TurnEnds` adds, as its hypothesis, that the others answer
too.

### Proofs

`AgentActorProofs` proves `Spec => []TypeOK` for every value of the constants
that satisfies `ConstantsAssumption`. `TypeOK` is inductive as it stands: each
action is a step, over lemmas that type the folds, the turns and the handler
results (`Write`, `BeginTurn`, `TryDrain`, ...).

`AgentRunProofs` proves `Spec => []SingleRun`. `SingleRun` is not inductive: a
report left in the mailbox could name the run that lives, and a prepared turn
could start beside a run. The invariant `RunInv` is

* `Held`: a live run is the one the actor holds, its id was given out, a turn in
  preparation excludes a held run, and there is at most one prepare task, only
  while `preparing`;
* `ReportsFenced`: a queued `RunFinished` is of a run that was started and whose
  task is gone, so no run alive bears its id;
* `PreparedOnce`: a queued `StartPrepared` is the only one, and its prepare task
  is gone while `preparing` still holds;
* `Gone`: an unloaded actor has no task, no mail and holds nothing.

The same module proves the other safety properties, each from `RunInv` and an
invariant of its own:

* `StopIsOver`, of `StopMeansOver`, from `MailOfRun`: an event in the mailbox is
  of the run that is held, and the report of that run is the last of its mail. The
  handler of the report is the one step that answers the acks.
* `TimersAreKept`, of `TimersKeepPromise`, from `TimerInv`. The property speaks of
  states in which the actor serves, and a handler that waits for its journal write
  is between two of them, so the invariant speaks of `Kept`: the journal as it
  will be, the staged fold if there is one. In it every armed timer sleeps or has
  its `TimerFired` in the mailbox, no timer has two, and none has both. The last
  holds because an id is armed once (`ArmedOnce`), which is what the ids of the
  code, a new uuid for each timer (`agent_loop/timers.rs:23`), give.
* `ResultsAreSingle`, of `OneResultPerCall`, from `ResultInv`, a ledger of who is
  still to resolve which call: a task with open or stopped calls (`Owes`), a
  command in the mailbox, a prepared turn (`Promise`). What they are to resolve
  misses its result in the journal as it will be; no call is promised twice
  (`MailApart`); the calls of a message that is posted and not written are of no
  log (`FreshCalls`); a task awaits at most one coarse event, and it is its own
  (`CoarseOnce`); and the repair of a recovery is the first of the mailbox
  (`RepairFirst`), so a report never finds it behind. `TaskLedger` gives this per
  step of a task, `LedgerServed` per handler.

* `ParksAreAnswered`, of `ParkEndsAnswered`, from `ParkInv`: while the journal asks,
  nothing runs, nothing is prepared and no report waits; a staged write that ends
  the questions holds their results, and they were answered or a person spoke; and
  what is asked are calls of the tool that asks. It uses the ledger for the one
  thing that is hard to see: that a question has no result before it is answered.
* `ItemsAreKept`, of `AcceptedOnce`, from `QueueInv`: in the journal as it is, and as
  it will be, an accepted item is queued, said in one message, refused, or part of
  a turn on its way (`Placed`); and what is on its way is neither queued nor said in
  the journal as it will be, nor refused (`Apart`).
* `InboxIsKept`, of `KeepsInbox`, from the same invariant, with hooks and crashes
  too: only the clause of `Placed` that says nothing was lost is conditional on
  `HooksKept`. What makes the mapping work is `Unwritten`: a staged write leaves the
  items as they are, or is of a turn that took all that waits, which is then either
  held up by the hooks, item for item, or said in that very write. Each lemma of a
  step proves the invariant and the abstract step together (`InboxStep`): `QueueEnqueues`
  is `Accept`, `QueueStarts` and `QueueWrites` are `Take` or `TakeAndSay`,
  `QueuePrepared` is `Say` or `Refuse`, `QueueReturns` is `End` or `Begin`, and whatever
  else happens is a stutter. The steps are proved of `InLog`, what the log says once or
  twice; under the invariant that is `Said` (`SaidInLog`).
* `WaitsAreFailures` and `EndsAreHeard`, of `WaitsOnlyAfterFailure` and
  `OwnerHearsTheEnd`, from `OwnerInv`. What the owner hears at the end of a turn is
  decided by a report that was posted some steps earlier, so the invariant says
  what each end of a task (`Fits`) and each report in the mail (`Reported`) takes for
  granted: a cancelled run has a caller waiting, so its end is said as a Stop; a
  stopped one asks or submits; a run that reported by itself has failed already.
  `Drains` says that a queue that could start a turn has a `Drain` coming.
  `Grounded` adds that without a runtime nothing ever began.

The last five hold under hypotheses on the constants, each of them where the code
keeps the property; TLC refutes the property without it (section 11).

All these invariants were checked with TLC on the instances of the runs, and
with retries, hooks, nudges and readiness flips added, before they were proved.
Only model-checked: the two liveness properties.

## 4. RuntimeLifecycle

State: the record of each owner's runtime (`ProvisioningState`), the fatal flag,
the session's mailbox, the create tasks alive, and of each agent what matters
here: whether it is spawned, its gate (`ready`), its mailbox and whether its
queue owes a turn. `used` remembers on which runtimes a turn has begun. Actions:
`CreateOwner` (`core.rs` Create; `sub_session.rs` Create and FinishCreate, merged),
`Provision`, `CreateEnds`, `FinishProvisioning`, `UserMessage` (`turns.rs`),
`AgentHandles` (`log.rs` and the queue), `Unload` (crash or offload), `Load`
(`adopt` and `on_load`). A handler is atomic with its write. Records go to the
main agent, as `lifecycle_routing.rs` routes them. The vendor answers a create
with success, a failure for now, or a refusal for good.

Left out: narration, Delete, sessions without a runtime, runs of workflows, a
turn that finds its sandbox gone (`turns.rs:285`), and the length of a turn.

`runtime_recovery` checks a session with one runtime, three messages and two
unloads: `TypeOK`, `InFlightAttended`, `GateFollowsRecord`, `CreateSettles`
(100 000 states). Three messages are what it takes for two re-attempts to
overlap and a message to follow; two unloads let a crash hit the re-attempt of
an earlier one. With a sub session the same properties fail: see section 10.
Fairness: mailboxes are served, a vendor answers in the end (an acquisition has
a deadline), and an unloaded session is loaded again.

### Proofs

`RuntimeLifecycleProofs` proves `TypeOK` for any sub sessions, and
`InFlightAttended` and `GateFollowsRecord` under `Subs = {}`. The hypothesis is
the boundary of what is true: with the runtime of a sub session both fail
(section 10). `InFlightAttended` is inductive with `TypeOK`. The gate is not:
between the session's record and the agent's handling of it the two differ, by
as many records as the agent has not read. The invariant `GateInv` says of them

* `WillAgree`: the last record in the agent's mailbox, or with none the gate,
  agrees with the journal;
* `Known`: nothing is known of a runtime before its session was created, the
  agent is resident from then on, and an unloaded session has no mail.

## 5. SessionTurns

A session learns of its main agent's turns from outcomes in its mailbox, and
decides on the phase they have left behind. The module composes the two.

State. Of the session: the turn phase and the fatal flag, folded from its
journal; its mailbox, with what the agent (`Started`, an end, `Interrupted`) and
its hooks (`Halt`, `ContinueAfterStop`) sent; and the cancel its handler awaits
(`waiting`, `answered`), during which the mailbox stands still. Of the agent:
its journal as far as a turn goes (`mem`: the kinds of items queued, whether
questions are open, `turn_in_flight`), the write that has not happened yet
(`staged`), its mailbox in order, the turn it is on (`run`), the cancels that
wait for the run, whether it is inside its Stop hooks, and how often those have
held the turn open. A queue is the set of kinds in it, because a turn takes all
of it. `astray` is bookkeeping: it records a cancel that hit a turn later than
the one shown when it was sent, or met a turn in its start hooks. A `Cancel` is
`late` if a `Started` the session had not handled was queued when it was sent,
or a turn began while it was on its way.

Actions. Session: `Put` (a message, or a child's result), `Answer`, `Stop`,
`CancelAnswered`, `CancelTimesOut`, `AgentOutcome`, `Halt`, `ContinueAfterStop`.
Agent: `Enqueue`, `Drain`, `TakeAnswer`, `Cancel`, `StartPrepared`, `Boundary`,
`RunFinished`, `Persist`. Tasks: `PrepareEnds`, `ProvideEnds`,
`ProvideCancelled`, `LoopEnds`, `Reports`, `StopHookEnds`, `ToolHookHalts`. And
`Crash` and `Load`, of both together: they live in one process.

Left out: other agents of the session, runtimes (there is one throughout), usage
and hook records, timers, branch summaries, and offload.

`session_turns` (558 000 states, one minute) has both kinds of hooks, two
messages or reports, one answer, one Stop or halt, one timeout and one crash:

* `RunIsShown`: no turn runs behind the session's back;
* `PhantomsExplained`: a turn that is shown and does not exist comes of a stray
  cancel or of a crash, and of nothing else;
* `ParkIsShown`: the session awaits input exactly when questions are open;
* `ShownTurnEnds`: a shown turn ends although Stop hooks may hold it open.

Each speaks of settled states, with both mailboxes empty and no handler at work:
in between the two must differ. Two messages are what a second turn behind the
first takes; one Stop and one crash are enough for every exception to occur.
`MaxStopContinuations` is 1 instead of 3 to keep the run small; with 3 and no
crash the invariants hold as well (650 000 states). Deadlock is not
checked: an idle session may stay idle. Fairness: both mailboxes are served, and
the tasks run and are answered. `ShownTurnEnds` needs providers and hooks that
answer; a hook has a deadline in the runtime.

### Proofs

`SessionTurnsProofs` proves the type invariant and the three safety invariants for
every choice of hooks, budget of continuations, and number of messages, Stops,
timeouts and crashes. The properties speak of settled states, so the invariant
(`Inv`) has to say what the mail will settle to:

* `Placed`: of each command a task sends there is one at most, and the turn is at
  the stage that waits for it; so a report is of the turn that is on;
* `Shown`: a turn that works is shown, or its `Started` is the last news in the
  mailbox, or a cancel is on its way to it;
* `Aimed`: a cancel that is not `late` was asked for while that turn was shown;
* `Ended`: with no turn on, its end is known or in the mailbox, or the next one
  is about to begin, or the exception occurred that `PhantomsExplained` names;
* `Parked`: the phase or the last news agrees with the open questions, both in
  the journal and in the write that has not happened yet.

## 6. RunForest

State. `forest` is the `RunForest` a session folds from its journal: what the
session itself is (`root`: an agent or a workflow), the subagents and workflow runs
with their parent, status and whether their result was sent, and the log of steps of
each run. Around it are the events a handler has decided
and not yet written (`staged`), the session's mailbox, and of each agent whether
its actor is up, whether something is queued, whether it is on a turn, which
spawn calls it waits for and which children its own log shows running. That last
set is what an agent consults before it parks or reports an end, and it is fed
by `lifecycle_routing.rs`, not by the forest. `heard` and `again` record what was
put in a parent's queue, for `DeliveredOnce`.

Actions. Every command of the session that touches delegated work is a disjunct
of `HandleCommand`, and its reconciliation, up to eight rounds of deliveries and
step starts (`mod.rs`), is part of it. `Persist` writes what it decided. Agents
begin and end turns, spawn, invoke and submit by themselves (`AgentSteps`).
`Stop`, `DeleteAgent`, `RetryStep`, `UserSays` are a person's; `Crash` loses what
was not written and every mailbox, and `Load` folds again and recovers. The
workflow of the instances has two steps, of which the first leads to the second
when it says so; with `MaxSteps` 2 a run that gets there meets the bound.

Left out: names, prompts, tools and results of the delegated work, sub sessions,
the runtime (taken to be there), and everything of an agent that
`AgentActor` models.

| Run | Instance | Properties |
| --- | --- | --- |
| `run_forest` | a main agent, two subagents, one invoked run, depth 2, three turns, and one Stop, delete, message or crash | `TypeOK`, `NothingStrands`, `ChainsReachRoot`, `DeliveredOnce`, `CallAnswered` |
| `workflow` | a session that is a workflow, one subagent, one invoked run, and one Stop, retry or crash | `OneStepInFlight` |

820 000 and 570 000 states, one to two minutes. Two subagents and depth 2 are
what siblings, and a grandchild with a parent that goes away, take; three turns
let a parent be woken by a result and delegate again. `NothingStrands` answers
whether eight rounds are enough: they are, and the proof below says that two are.
The exceptions it names are commands already queued and the two handlers that do
not reconcile.
Deadlock is not checked: a session with nothing delegated may stay so.

### Proofs

`RunForestProofs` proves all its invariants, for any workflow graph, depth, caps
and number of turns: the types, that a run has one step in flight
(`OneStepInFlight`), that who waits for a child is answered (`CallAnswered`), that
without a crash a result is sent once (`DeliveredOnce`), that parents lead to the
root (`ChainsReachRoot`), and that a boundary leaves nothing to do
(`NothingStrands`).

A handler here is a fold in a fold in a fold: eight rounds, each a sequence of
actions, each emitting events that are themselves folded into the forest. The
induction theorems of the library take an operator as a parameter, which the
provers cannot instantiate; so the five folds of the model are named (`Fold`), and
one lemma, by induction over a *set* of numbers, gives each its stages (`Stages`:
one for each element, each made from the one before). What a fold keeps is then
proved of one stage.

* An event takes something for granted of the forest it is folded into (`Fits`:
  a `StepStarted` finds a run with nothing in flight, an index is of a step the
  run has), and an event that fits keeps the forest `Good`: an invoked run that
  is there has a parent, and a run has at most one step in flight.
* What a handler has built up is `Sane`: its forest is `Good` and is the fold of
  the events it emitted, it began no call, and what it sent is marked. An action
  of a round is `Ready` for that; the actions of one round, chosen from its first
  state, stay ready because they are about different children (`Apart`). So a
  round, the rounds, a boundary and a cancel of descendants leave a hand sane
  (`RoundSane`, `FlushSane`, `AdvanceSane`, `CancelSane`), whatever their number.
* Between the handler and its journal write the forest of the state is behind
  the one the handler saw. The invariant speaks of both: `Ahead` is what the
  forest will be once `staged` is written. An id that is asked for is new in both
  and asked for once (`AskedFor`, from `IdsGiven`), without which an accepted
  spawn could reset an entry that was there; marks and results sent agree in
  `Ahead` (`Agreed`).
* `Chain` is computed by following parents a bounded number of times, and says
  nothing if it runs out. A *line* is a sequence of agents that are there, each the
  child of the next, up to one without parent. No two agents on it are of the same
  run or are the same subagent (else it would go on alike from both and not end),
  so by counting it is no longer than `Chain` looks, and `Chain` is the line
  (`ChainIs`). `Rooted`: every child has a line above it of at most `MaxDepth`. A
  spawn that is not refused adds one to a line that is short enough; a deletion
  takes whatever has the deleted agent on its line, so that what outlives it keeps
  its line whole (`DeleteRooted`).

* A forest is at *rest* when it owes no result and no run of it wants a step. What
  is at rest cannot be read off one action: a round performs what its first state
  wants, while the forest moves under it. The actions are about different children
  and each is the only one about its child (`NextActionsAll`), so the entry an
  action finds is the one it was chosen for, and the event it folds extinguishes
  its trigger and brings up no other but one: a run that finishes or fails is owed
  to its parent (`ApplyQuiets`, `RoundSpends`). So after one round no run wants a
  step, and what is owed are runs this round ended; the next round delivers those
  and ends none. Two rounds leave a forest at rest (`TwoRoundsRest`), a round of a
  forest at rest is none (`RestRound`), and the eight rounds come to two
  (`TwoRoundsEnough`): the cap is the backstop the comment in `mod.rs` calls it.
* `Rested` carries that through the other steps: the forest `Ahead` is at rest, or
  a command in the mailbox will run the rounds, or there was a restart or a retry.
  A spawn, a start, a question and a deletion keep a forest at rest
  (`RestStays`), which is why their handlers may do without a boundary; an accepted
  invocation does not, and has queued its `FinishCreate`. The repairs of a load
  leave much to do, and need the other half of `Rested`: only a session that was
  restarted is not loaded or has a repair in its mailbox. `Rested` and
  `Rest(Round(Round(Hand(forest))).f)` held as invariants of `RunForest.cfg` before
  they were proved.

## 7. Supervisor

State: the session list (`rows`, the fold of the supervisor's journal), what its
handler has decided and not written, its mailbox, what its handler waits for
(`wait`), the sessions it counts as loaded and the idle ones among them; of each
session its journal (`own`), its actor with its mailbox, the name it has asked
the supervisor to write, the status it has reported and whether its agent is on
a turn; of each create what its caller has been told.

Actions: `HandleCommand` has a disjunct per command (create, load for a message,
rename, status report, title, sweep, delete, shutdown). A delete, a sweep and a
shutdown wait for sessions one at a time inside the handler (`AskNext` and the
answer in `SessionSteps`), and meanwhile the mailbox stands still. `AgentBegins`,
`AgentTitles`, `AgentEnds` are what an agent does to its session on its own.

`supervisor` has one session, any two requests, two turns and one crash
(2.2 million states, 75 seconds): `TypeOK`, `HeldIsRecorded`, `LoadedIsSwept`,
`RowFollows`, and the action property `SweepSparesWork`. Sessions do not interact
but through the order in which the supervisor asks them, so one suffices for
properties that speak of one. Left out: reads, forwarding of what does not
change a status, sub sessions, folders, and the wire form of the list.

A handler that decides writes one event (`Persist`), as no command here journals
two. `HeldIsRecorded` asks for both journals, the list's and the session's.

`supervisor_wait` runs under `FairSpec`: mailboxes are served, writes come
through and the next session of a sweep is asked. It assumes nothing of agents.
It is one of the two runs that expect a violation: see section 10.

### Proofs

`SupervisorProofs` proves all four invariants and the action property for every
set of sessions and every bound. `SessionsAssumption` says that an id is not the
value that stands for "nobody". The invariant `Inv` adds

* `Waiting`, `OneAtATime`: a question put to a session is of the handler that
  waits for it, asked once, and a handler that waits has nothing to write; so an
  answer is never taken for the answer to something else;
* `Renames`: a request for a name is in the supervisor's mailbox, being written,
  or acknowledged at the head of the session's, and in one of these only;
* `Swept`: what is loaded or has mail counts as loaded, until a shutdown;
* `Held`, `Creates`: a create is sent once, and an answer to its caller comes
  after both records;
* `Reported`: the last report on its way says what the session's journal says;
  with none, the event being written does; with neither, the row does.

## 8. RuntimeLink and RemoteCalls

`RemoteCalls` says what a session may rely on: a call runs at most once, a result
is the result of work that was done, an agent is told "cancelled" only of what
it asked to cancel, and work is cut short only for the agent that asked or when
nobody awaits it. `RuntimeLink` is the machinery: `RuntimeClient::invoke` and the
calls it tracks, the transport's waiters and reader, the socket, `run_loop` with
its task map, the reconciler's ping rounds with their grace, and the acquisition
with its probe and deadline. `Promise` instantiates the first with a mapping of
the second's state: a call is open while its client awaits, its work is the
task's state in the runtime, and `asked` is the same in both.

What goes wrong, `MaxTrouble` bounding how often: a frame lost on the bus, a
socket that drops, a reader that lags, a restart. Stops of agents share that
bound; they are no fault, and `HealthyLinkFailsNothing` covers them. The
runtime's answer settles its waiter in one step; the task that waiter wakes may
run as late as a frame may arrive.

`runtime_link` has two agents with a call each, one fault, graces of two rounds
and two acquisitions (794 000 states, under two minutes):

* `KeepsPromise`: the link implements `RemoteCalls`;
* `HealthyLinkFailsNothing`: with no fault the reconciler fails no call;
* `SilenceEnds`: a call the runtime will never answer does not wait for ever;
* `AcquisitionEnds`: nor does an acquisition.

Two calls of different agents are what a cancellation of the wrong call takes.
The grace is `VANISHED_GRACE` counted in rounds; its assumption is the one the
constants of the code satisfy. Fairness: tasks that are ready run, sockets and
topics carry what they hold and timers fire; a ping's timer wins only over a ping
that is no longer carried. Nothing is assumed of tools, vendors or a socket that
was lost. Left out: the vendors' own work, payloads and streams of output,
authentication of a link, and what a tool does.

### Proofs

`RuntimeLinkProofs` proves the types, and that `RuntimeLink` implements
`RemoteCalls`: its initial states map to initial states and each of its steps to
a step of `RemoteCalls` or a stutter, for any calls, agents and faults. A step
maps as it should because of `LinkInv`: a call that is awaited is tracked, one
that was not made has no task and was not asked to stop (`Tracked`, `Unmade`); a
call frame is the only one of its call and its task has not begun (`CallFrames`,
`Unsent`); a cancel on its way, or being answered, is of a call that may be cut
(`Cuts`); a waiter is told only what happened (`Channels`); and what the runtime
reports as executing has a task (`Started`).

`GraceIsEnough` proves `HealthyLinkFailsNothing`, for every grace of two
rounds or more. The count of rounds that missed a call says little by itself;
`HealthInv` ties it to where the call is (`Grace`): not published, sent behind
the ping, between the socket and the task map, running, or taken out of the map
by a cancel whose reply is due. In each of these it bounds how many rounds can
have missed the call, and none allows a third.

## 9. Recurrence and Routines

`Recurrence` translates the scans of `recurrence.rs` on a Gregorian calendar (the
library's, marked external), in UTC: how a wall clock falls in a zone with
daylight saving is the library's. `Stated` is the reference: the first day, of
all days up to a horizon, that satisfies the rule as its words say.

`Routines` is the table, the timer of each node and the edits beside it. A tick
reads the due rows once and then claims (`Arm`) and starts (`Start`) each, with
awaits between; an edit, a failed statement or a crash may fall anywhere.

A create or a replace is two steps. `Request` takes the time, as the control
operation does when it calls the service (`control/routines.rs:50`, `:63`);
`Create` or `Replace` writes the row that `row_from_input` computed from that
time, after the awaits on the row, on the preset or workflow and on the database;
`Refuse` is a request that ends without a write. Ticks, other edits and a crash
fall between the two. A delete is one statement and one step.

`fired`, `again` and `basis` are bookkeeping: the last due instant run, the names
whose timer an edit has put back to an instant that was run already, and the
definition and moment a timer was computed from. `again` is set where the code
goes wrong (section 10): an edit that came in before a firing and is written
after it restores the old instant, and the next tick runs it a second time.
`FiredOncePerDue` excepts that run and no other: the claim that follows clears
the mark, so that each such edit pays for one more run.

`routines` has one node, two names, seven schedules that are on and one that is
off, four instants around a month end and a leap day, two edits and one failure
(118 000 states, two minutes): `FiredOncePerDue`, `NextIsLeast`, `DueIsClaimed`.
Two edits are enough for one to be in flight over a firing of the row the other
made. Two ticks a day are enough for a wall clock to lie before and behind an
instant of the same day; 1830 days are five years, in which a leap day comes
round whatever the first. Deadlock is not checked, because the model's clock ends.
Fairness: each node keeps ticking and a tick's own awaits return. An edit is
under no fairness: a request may hang.

A schedule is one that `service.rs` lets be saved (`Validated`,
`ScheduleAssumption`): an interval that is not zero, at least one weekday, a day
and a month a calendar can have, a wall clock within the day.

### Proofs

`RoutinesProofs` proves three theorems. `TypeCorrect` holds for any servers.
`FiredOnce` proves `FiredOncePerDue` under `Alone`: one server, since two of them
do run one firing twice (section 10). `Inv` says that the table is keyed by name
(`Keyed`) and that a tick works through rows that were due when it began
(`Ticking`, `Past`), and that an edit in flight carries a time that has been
(`Asked`); `Ahead` adds that what the table and the list of a tick hold was not
run yet, or is marked as put back by an edit, and that a routine is claimed before
it is run. The mark is needed in the list of a tick too: an edit written between
the read and the claim changes the row and not what the tick runs.

`NothingPassedOver` proves `NextIsLeast`: for every schedule that can be saved and
every instant, the timer is at the first instant the rule names. `Based` carries
from step to step on which definition and moment a timer rests; the rest is
arithmetic, proved from the lengths of years and months without enumerating
them: the days of a month follow those of the month before (`MonthsFollow`), each
date has one day (`Dated`, `DateOf`), and so the first match of a scan is the
first of all days (`DailySame`, `WeeklySame`, `MonthlySame`, `YearlySame`). Its
hypotheses are `Century`, no instant after 2095, because the scan of a leap-day
rule ends too early after that (section 10), and `FarSighted`, which bounds the
reference and not the code.

## 10. What the code does not do as it says

Two runs expect a violation:

| Run | What happens | What is said |
| --- | --- | --- |
| `forest_park` | an invoked run ended by a failed step is never written as ended in its invoker's log, which parks on it for ever | `lifecycle_routing.rs:168` |
| `supervisor_wait` | the supervisor waits in its handler for a session that waits in its own for the supervisor to write a name | `supervisor.rs:1249`, `supervisor.rs:808` |

The other findings of `PROJECT.json` have no run of their own. Each was shown by
TLC on a variation of a run that passes, or by reading alone where none is named.

| What happens | What is said | Shown by |
| --- | --- | --- |
| a crash during start hooks loses the message the turn consumed | `queue.rs:51` | `AgentQueue.cfg` with `HasStartHooks` and `AcceptedOnce` |
| contradictory endings past the nudge limit leave an idle agent and a step "running" | `conclude.rs:371` | `AgentStep.cfg` with tools ask and submit, `MaxCalls` 6, `MaxBatch` 2 |
| a retried provider error clears `turn_in_flight` while the turn goes on | `state.rs:72` | `AgentStep.cfg` with `MaxRetries` 1 and `InFlightWhileRunning` |
| a Stop cancels the turn after the one it was pressed on; the session shows a turn for ever | `turns.rs:91` | `SessionTurns.cfg` with `MaxCrashes` 0 and `NoPhantomTurn` |
| a crash between the session's record of a turn and the agent's does the same | `turns.rs:534` | `SessionTurns.cfg` with `MaxEnds` 0 and `NoPhantomTurn` |
| `ContinueAfterStop` has not the condition it is said to have | `hooks.rs:471` | reading |
| of two half-built sandboxes one is never finished | `lifecycle.rs:309` | `RuntimeRecovery.cfg` with a sub session |
| the late failure of a second create lets a sandbox in use be rebuilt | `lifecycle.rs:88` | `RuntimeRecovery.cfg` with `NoRebuildUnderWork` |
| a sub session's runtime moves the main agent's gate | `lifecycle.rs:51`, `sub_session.rs:129` | `RuntimeRecovery.cfg` with a sub session |
| deleting a running subagent leaves its parent parked on it | `run_forest.rs:1262` | `RunForest.cfg` with `MaxRuns` 0, only deletes, and `ParkedOnLiving` |
| a spawn queued behind a Stop starts a child of the stopped agent | `session_actor/run.rs:379` | `RunForest.cfg` with an invariant that nothing runs below a stopped agent |
| a subagent that outlives its step wakes that step's agent beside the next step | `session_actor/run.rs:228` | `Workflow.cfg` with `MaxTurns` 4 and no interventions |
| an invoked run suspended by a restart can neither go on nor end | `session_actor/run.rs:500` | reading |
| a person's rename and a session's title leave list and session with different names | `supervisor.rs:332` | reading |
| a session whose agent has just begun a turn agrees to be unloaded | `supervisor.rs:636` | reading |
| a Stop drops the future that would have untracked its call, and the pings go on | `runtime_reconciler.rs:74` | `RuntimeLink.cfg`: `inFlight` is not empty when every call is over |
| a reader that lags takes the lag for the end of the topic | `bus/mod.rs:32`, `:52` | reading |
| the runtime enters a call's handle after the call may have ended | `crates/runtime/src/main.rs:737` | reading |
| every node has a timer, and two of them run one firing twice | `scheduler.rs:1`, `boot.rs:198` | `Routines.cfg` with two nodes and one name |
| an edit between a tick's read and its claim is armed with the old schedule | `routines/service.rs:136` | `NextIsLeast` without its exception |
| an edit that came in before a firing and is written after it puts the timer back, and the instant runs twice | `routines/store.rs:218`, `routines/service.rs:136` | `FiredOncePerDue` without its exception |
| a leap-day rule stops firing after 2096 | `recurrence.rs:85` | reading |

`InFlightWhileRunning`, `NoRebuildUnderWork`, `NoPhantomTurn` and `ParkedOnLiving`
are therefore definitions no passing run checks. Nor is `AcceptedOnce`, which is
proved and which `KeepsInbox` implies.

Met while modelling, kept in the model, and not stated as properties because
nothing in the repository promises otherwise:

* a Stop while a turn is being prepared is acked at once, and the turn runs, with
  the session Idle and no second Stop passing the gate (the exception in
  `RunIsShown`);
* a session that failed for good keeps the phase it had; one that was Running is
  busy, and refuses every offload, until somebody presses Stop;
* a failed run, a run that reported by itself and an abandoned start do not
  reconsider the queue, against the comment at `queue.rs:23`; the queue waits
  for the next arrival (`WaitsOnlyAfterFailure` says: only then);
* `nudges` is reset by a park only, so a later turn of the same step starts with
  the count of an earlier one;
* a repair's results are appended at the end of the transcript, away from their
  calls; the wire-side repair is what keeps requests valid;
* an answer starts a turn also while the agent is not ready;
* a message queued before a crash is not drained on load, only by the next
  arrival or record;
* a crash between the completion of a run and its `RunFinished` leaves an owner
  that is told nothing;
* a cancel or failure while contexts are provided drops the branch summary;
* a turn that only summarises leaves `turn_in_flight` set until the next one;
* a session that dies between its first record and its `Provision` is never
  provisioned, and a sub session's failed runtime is not retried by messages.

## 11. What is proved, what is checked, what is neither

Proved for every value of the constants, but for the hypotheses named here:

| Module | Properties | Hypothesis |
| --- | --- | --- |
| `AgentActor` | `TypeOK`, `SingleRun`, `StopMeansOver`, `TimersKeepPromise`, `OneResultPerCall` | |
| `AgentActor` | `ParkEndsAnswered` | `QuestionsKept`: no start hooks, which stand between the end of the questions and their results; and no loop that recovery starts beside them (an interactive agent, no tool that asks, or no crash) |
| `AgentActor` | `AcceptedOnce` | `HooksKept`: no start hooks or no crash, which forgets the turn they prepare; `OwnIds`: nobody else queues items under the ids of a nudge or a contradiction |
| `AgentActor` | the refinement of `DurableInbox` | `OwnIds`; a crash may forget a turn only where `HooksKept` fails |
| `AgentActor` | `WaitsOnlyAfterFailure` | `NeverCrashes`: a crash loses the `Drain`; `NoContradiction`: no batch that submits and does something else, which past its allowance ends in silence |
| `AgentActor` | `OwnerHearsTheEnd` | the two above, and `RuntimeStays`: an agent that owes a result keeps the runtime it has; the nudge for a missing result waits in silence for one that was lost |
| `RuntimeLifecycle` | `TypeOK` | |
| `RuntimeLifecycle` | `InFlightAttended`, `GateFollowsRecord` | no sub sessions: with two creates in flight the outcome of the wrong one is taken |
| `SessionTurns` | `TypeOK`, `RunIsShown`, `PhantomsExplained`, `ParkIsShown` | |
| `RunForest` | `TypeOK`, `OneStepInFlight`, `CallAnswered`, `ChainsReachRoot`, `NothingStrands`, `DeliveredOnce` (which speaks of behaviours without a crash) | |
| `Supervisor` | `TypeOK`, `HeldIsRecorded`, `LoadedIsSwept`, `RowFollows`, the sweep | |
| `RuntimeLink` | `TypeOK`, the refinement of `RemoteCalls`, `HealthyLinkFailsNothing` | |
| `Routines` | `TypeOK` | |
| `Routines` | `FiredOncePerDue` (which excepts the one more run of an edit older than the firing it follows) | one server: two do run one firing twice |
| `Routines` | `NextIsLeast` | no instant after 2095, where the scan of a leap-day rule ends too early, and a reference that looks far enough |

The hypotheses are the boundary of what is true, but for two: `OwnIds`, which the
code grants by the prefixes of the ids it makes (`conclude.rs:426`, `:494`), and the
reference, which is the model's own. TLC refutes each property in an instance that
drops its hypothesis: `ParkEndsAnswered` and `AcceptedOnce` in `AgentQueue.cfg` with
`HasStartHooks`, the first also with `Interactive` FALSE (the agents a session spawns
are interactive); the two of the owner in `AgentStep.cfg` with one crash, with
`MaxBatch` 2, and `OwnerHearsTheEnd` with one readiness flip. The runs check
`ParkEndsAnswered` with a crash, the promise of the queue with hooks and a crash, and
the two of the owner without one. The assumptions on the constants are those the
modules state (`ConstantsAssumption` and its like, a grace of two rounds or more
among them), which TLC evaluates on every run.

Checked on the instances above and no further is liveness, which is out of the
prover's reach: `TurnEnds`, `CancelAnswered`, `CreateSettles`, `ShownTurnEnds`, `SilenceEnds`,
`AcquisitionEnds`, `DueIsClaimed`.

Not modelled, by component (`PROJECT.json` has all of them):

* wire formats, SQL stores, configuration, the HTTP layer, providers, the
  clients: they translate or keep rows that someone modelled here decides. They
  are the greater part of the code's lines;
* the user inbox and the run index: projections of journals, one writer each;
* authentication, its throttle included: sequential code over single rows;
* reads of any actor: they change nothing;
* the seed of a branch, the task list, and the cut a compaction makes: next in
  the plan;
* operating-system effects of a tool in the runtime.
