---------------------------- MODULE SessionTurns ----------------------------
(***************************************************************************)
(* A session and its main agent: what the session records of the agent's   *)
(* turns, crates/server/src/sessions/session_actor/{turns,hooks,mod}.rs.   *)
(*                                                                         *)
(* The agent owns its queue and starts its turns by itself; the session    *)
(* learns of them from outcomes in its mailbox, and everything it decides  *)
(* (Stop, a hook's halt, being busy) it decides on the phase those have    *)
(* left behind. The agent is reduced here to what its owner can tell       *)
(* apart; AgentActor has the rest of it. The runtime is there throughout.  *)
(*                                                                         *)
(* A command from outside is modelled when the session handles it: it may  *)
(* have been queued ahead of anything the agent sent.                      *)
(***************************************************************************)
EXTENDS Integers, Sequences, FiniteSets

CONSTANTS
    HasStartHooks,         \* plugins with SessionStart or UserPromptSubmit hooks
    HasStopHooks,          \* plugins with Stop hooks
    MaxStopContinuations,  \* MAX_STOP_CONTINUATIONS
    MaxMessages,           \* bound: messages and reports put to the agent
    MaxAnswers,            \* bound: Answer commands
    MaxEnds,               \* bound: Stops that pass their gate and halts asked by tool hooks
    MaxTimeouts,           \* bound: cancels given up after CANCEL_TIMEOUT
    MaxCrashes             \* bound: crashes of the process

ASSUME SessionAssumption ==
    /\ {HasStartHooks, HasStopHooks} \subseteq BOOLEAN
    /\ {MaxStopContinuations, MaxMessages, MaxAnswers, MaxEnds, MaxTimeouts,
        MaxCrashes} \subseteq Nat

VARIABLES
    live,        \* the process is up, session and agent loaded
    phase,       \* TurnPhase of the root entry, folded from the journal
    fatal,       \* SessionState::fatal is set
    box,         \* the session's mailbox: what the agent and its hooks sent
    waiting,     \* the cancel a handler of the session awaits: {} or {w}
    answered,    \* the awaited ack has arrived
    mem,         \* the agent's journal: queue, questions, turn_in_flight
    staged,      \* the mem of an agent's handler before it is written
    abox,        \* the agent's mailbox
    run,         \* the turn the agent is on
    acks,        \* cancel_acks: the cancels that wait for the run to end
    hook,        \* the agent's handler is inside StopHookParent::deliver
    hookFired,   \* start_hook_fired
    continuations,
    astray,      \* what the cancels so far missed or hit instead of their turn
    spent        \* what is used up of the bounds

session == <<phase, fatal, box, waiting, answered>>
agent == <<mem, staged, abox, run, acks, hook, hookFired, continuations>>
vars == <<live, session, agent, astray, spent>>

-----------------------------------------------------------------------------
(* Values *)

TurnPhase == {"Idle", "Running", "AwaitingInput", "Failed"}

Items == {"User", "Report", "Continue"}

Memory == [queue : SUBSET Items, asks : BOOLEAN, inflight : BOOLEAN]

TurnEnd == {"Concluded", "Asked", "Failed", "Cancelled", "AlreadyReported"}

Run == [stage : {"none", "preparing", "providing", "running", "ending", "reporting"},
        cancelled : BOOLEAN, end : TurnEnd]

NoRun == [stage |-> "none", cancelled |-> FALSE, end |-> "Concluded"]

News == {"Started", "Concluded", "Asked", "Failed", "FailedForGood", "Interrupted",
         "Halt", "ContinueAfterStop"}

Waiting == [why : {"Stop", "Halt"}, n : Nat]

Command ==
    [kind : {"Enqueue"}, item : Items]
    \cup [kind : {"Drain", "Answer", "Boundary", "RunFinished"}]
    \cup [kind : {"Cancel"}, n : Nat, late : BOOLEAN]
    \cup [kind : {"StartPrepared"}, abandon : {"no", "Failed", "FailedForGood"}]

-----------------------------------------------------------------------------
(* The session *)

SessionFree == live /\ waiting = {}

Tell(cmd) == abox' = Append(abox, cmd)

\* on_user_message, and the delivery of a finished child's result.
Put(item) ==
    /\ SessionFree
    /\ item = "User" => ~fatal
    /\ spent.messages < MaxMessages
    /\ spent' = [spent EXCEPT !.messages = @ + 1]
    /\ Tell([kind |-> "Enqueue", item |-> item])
    /\ UNCHANGED <<live, session, mem, staged, run, acks, hook, hookFired, continuations,
                   astray>>

\* on_answer: routed, whatever the session thinks.
Answer ==
    /\ SessionFree
    /\ spent.answers < MaxAnswers
    /\ spent' = [spent EXCEPT !.answers = @ + 1]
    /\ Tell([kind |-> "Answer"])
    /\ UNCHANGED <<live, session, mem, staged, run, acks, hook, hookFired, continuations,
                   astray>>

\* cancel_agent: the session's mailbox stands still until the ack or the
\* timeout. A turn whose Started is still queued is not the one shown.
CancelAgent(why) ==
    LET n == spent.cancels
    IN  /\ waiting' = {[why |-> why, n |-> n]}
        /\ answered' = FALSE
        /\ Tell([kind |-> "Cancel", n |-> n,
                 late |-> \E i \in DOMAIN box : box[i] = "Started"])

\* Mutant: a parked session can be stopped too.
MutStop ==
    /\ SessionFree
    /\ phase \in {"Running", "AwaitingInput"}
    /\ spent.ends < MaxEnds
    /\ spent' = [spent EXCEPT !.ends = @ + 1, !.cancels = @ + 1]
    /\ CancelAgent("Stop")
    /\ UNCHANGED <<live, phase, fatal, box, mem, staged, run, acks, hook, hookFired,
                   continuations, astray>>

\* on_stop: nothing unless the main turn is Running.
Stop ==
    /\ SessionFree
    /\ phase = "Running"
    /\ spent.ends < MaxEnds
    /\ spent' = [spent EXCEPT !.ends = @ + 1, !.cancels = @ + 1]
    /\ CancelAgent("Stop")
    /\ UNCHANGED <<live, phase, fatal, box, mem, staged, run, acks, hook, hookFired,
                   continuations, astray>>

\* The rest of on_stop, and of a halt, once the cancel was answered or given
\* up: the boundary is journaled.
CancelReturns(w) ==
    /\ waiting' = {}
    /\ phase' = IF w.why = "Stop" THEN "Idle" ELSE "Failed"
    /\ UNCHANGED <<live, fatal, box, answered, agent, astray>>

CancelAnswered ==
    /\ live
    /\ answered
    /\ \E w \in waiting : CancelReturns(w)
    /\ UNCHANGED spent

CancelTimesOut ==
    /\ live
    /\ ~answered
    /\ spent.timeouts < MaxTimeouts
    /\ spent' = [spent EXCEPT !.timeouts = @ + 1]
    /\ \E w \in waiting : CancelReturns(w)

Heard(kinds) ==
    /\ SessionFree
    /\ box # <<>>
    /\ Head(box) \in kinds
    /\ box' = Tail(box)

\* Mutant: a failure sticks.
MutPhaseAfter(outcome) ==
    CASE outcome = "Started" -> IF phase = "Failed" THEN phase ELSE "Running"
      [] outcome = "Concluded" -> "Idle"
      [] outcome = "Asked" -> "AwaitingInput"
      [] outcome = "Failed" -> "Failed"
      [] outcome = "FailedForGood" -> phase
      [] outcome = "Interrupted" -> IF phase = "Running" THEN "Idle" ELSE phase

\* on_agent_started, on_main_outcome and the fold of the event each persists.
PhaseAfter(outcome) ==
    CASE outcome = "Started" -> "Running"
      [] outcome = "Concluded" -> "Idle"
      [] outcome = "Asked" -> "AwaitingInput"
      [] outcome = "Failed" -> "Failed"
      [] outcome = "FailedForGood" -> phase
      [] outcome = "Interrupted" -> IF phase = "Running" THEN "Idle" ELSE phase

AgentOutcome ==
    /\ Heard(News \ {"Halt", "ContinueAfterStop"})
    /\ phase' = PhaseAfter(Head(box))
    /\ fatal' = (fatal \/ Head(box) = "FailedForGood")
    /\ UNCHANGED <<live, waiting, answered, agent, astray, spent>>

\* HookCommand::Halt: like a Stop, the turn fails.
Halt ==
    /\ Heard({"Halt"})
    /\ IF phase = "Running"
       THEN CancelAgent("Halt") /\ spent' = [spent EXCEPT !.cancels = @ + 1]
       ELSE UNCHANGED <<waiting, answered, abox, spent>>
    /\ UNCHANGED <<live, phase, fatal, mem, staged, run, acks, hook, hookFired,
                   continuations, astray>>

ContinueAfterStop ==
    /\ Heard({"ContinueAfterStop"})
    /\ Tell([kind |-> "Enqueue", item |-> "Continue"])
    /\ UNCHANGED <<live, phase, fatal, waiting, answered, mem, staged, run, acks, hook,
                   hookFired, continuations, astray, spent>>

SessionHandles == CancelAnswered \/ AgentOutcome \/ Halt \/ ContinueAfterStop

-----------------------------------------------------------------------------
(* The agent *)

AgentFree == live /\ staged = {} /\ ~hook

\* The end of a handler that tells the session `news` and leaves the journal
\* at m; what the session hears is not yet what the journal holds.
Ends(news, m) ==
    /\ box' = box \o news
    /\ IF news # <<>> /\ m # mem
       THEN staged' = {m} /\ mem' = mem
       ELSE staged' = {} /\ mem' = m

HookDue(m) == HasStartHooks /\ (~hookFired \/ {"User", "Continue"} \cap m.queue # {})

\* begin_turn. Every cancel already on its way was meant for an earlier turn.
BeginTurn(news, m, rest) ==
    /\ IF HookDue(m)
       THEN run' = [NoRun EXCEPT !.stage = "preparing"] /\ hookFired' = TRUE
       ELSE run' = [NoRun EXCEPT !.stage = "providing"] /\ UNCHANGED hookFired
    /\ abox' = [i \in DOMAIN rest |->
                   IF rest[i].kind = "Cancel" THEN [rest[i] EXCEPT !.late = TRUE]
                                              ELSE rest[i]]
    /\ Ends(news \o <<"Started">>, [queue |-> {}, asks |-> FALSE, inflight |-> TRUE])

\* try_drain: with a question open, only a person's message starts a turn.
Startable(m) == m.queue # {} /\ (m.asks => "User" \in m.queue)

TryDrain(news, m, rest) ==
    IF Startable(m)
    THEN BeginTurn(news, m, rest)
    ELSE Ends(news, m) /\ run' = NoRun /\ abox' = rest /\ UNCHANGED hookFired

Receive(kind) == AgentFree /\ abox # <<>> /\ Head(abox).kind = kind

\* Enqueue: written, then drained by a command of its own.
Enqueue ==
    /\ Receive("Enqueue")
    /\ mem' = [mem EXCEPT !.queue = @ \cup {Head(abox).item}]
    /\ abox' = Append(Tail(abox), [kind |-> "Drain"])
    /\ UNCHANGED <<live, session, staged, run, acks, hook, hookFired, continuations,
                   astray, spent>>

Drain ==
    /\ Receive("Drain")
    /\ IF run.stage = "none"
       THEN TryDrain(<<>>, mem, Tail(abox))
       ELSE abox' = Tail(abox) /\ UNCHANGED <<box, mem, staged, run, hookFired>>
    /\ UNCHANGED <<live, phase, fatal, waiting, answered, acks, hook, continuations,
                   astray, spent>>

TakeAnswer ==
    /\ Receive("Answer")
    /\ IF run.stage = "none" /\ mem.asks
       THEN BeginTurn(<<>>, mem, Tail(abox))
       ELSE abox' = Tail(abox) /\ UNCHANGED <<box, mem, staged, run, hookFired>>
    /\ UNCHANGED <<live, phase, fatal, waiting, answered, acks, hook, continuations,
                   astray, spent>>

Acked(ns) == answered' = (answered \/ \E w \in waiting : w.n \in ns)

\* Cancel: the token of the run held; with none held, the ack at once.
Cancel ==
    /\ Receive("Cancel")
    /\ abox' = Tail(abox)
    /\ LET cmd == Head(abox)
       IN  IF run.stage \in {"none", "preparing"}
           THEN /\ Acked({cmd.n})
                /\ astray' = astray \cup (IF run.stage = "none" THEN {} ELSE {"preparing"})
                /\ UNCHANGED <<run, acks>>
           ELSE /\ run' = [run EXCEPT !.cancelled = TRUE]
                /\ acks' = acks \cup {cmd.n}
                /\ astray' = astray \cup (IF cmd.late THEN {"next"} ELSE {})
                /\ UNCHANGED answered
    /\ UNCHANGED <<live, phase, fatal, box, waiting, mem, staged, hook, hookFired,
                   continuations, spent>>

\* Mutant: a refused start is not reported.
MutStartPrepared ==
    /\ Receive("StartPrepared")
    /\ abox' = Tail(abox)
    /\ run' = IF Head(abox).abandon = "no" THEN [NoRun EXCEPT !.stage = "providing"]
                                          ELSE NoRun
    /\ UNCHANGED <<live, session, mem, staged, acks, hook, hookFired, continuations, astray,
                   spent>>

\* start_prepared: the turn runs, or its hooks refused it.
StartPrepared ==
    /\ Receive("StartPrepared")
    /\ abox' = Tail(abox)
    /\ LET abandon == Head(abox).abandon
       IN  IF abandon = "no"
           THEN run' = [NoRun EXCEPT !.stage = "providing"] /\ UNCHANGED box
           ELSE run' = NoRun /\ box' = Append(box, abandon)
    /\ UNCHANGED <<live, phase, fatal, waiting, answered, mem, staged, acks, hook,
                   hookFired, continuations, astray, spent>>

\* PersistProgress of RunComplete or RunAborted.
Boundary ==
    /\ Receive("Boundary")
    /\ abox' = Tail(abox)
    /\ mem' = [mem EXCEPT !.inflight = FALSE]
    /\ run' = [run EXCEPT !.stage = "reporting"]
    /\ UNCHANGED <<live, session, staged, acks, hook, hookFired, continuations, astray,
                   spent>>

\* handle_finished. The acks come first; a conclusion passes the Stop hooks.
RunFinished ==
    /\ Receive("RunFinished")
    /\ Acked(acks)
    /\ acks' = {}
    /\ LET rest == Tail(abox)
       IN  CASE run.end = "Concluded" ->
                    IF HasStopHooks
                    THEN /\ hook' = TRUE /\ run' = NoRun /\ abox' = rest
                         /\ UNCHANGED <<box, mem, staged, hookFired>>
                    ELSE TryDrain(<<"Concluded">>, mem, rest) /\ UNCHANGED hook
             [] run.end = "Asked" ->
                    /\ TryDrain(<<"Asked">>, [mem EXCEPT !.asks = TRUE, !.inflight = FALSE],
                                rest)
                    /\ UNCHANGED hook
             [] run.end = "Cancelled" ->
                    /\ TryDrain(<<>>, [mem EXCEPT !.inflight = FALSE], rest)
                    /\ UNCHANGED hook
             [] run.end \in {"Failed", "AlreadyReported"} ->
                    /\ Ends(IF run.end = "Failed" THEN <<"Failed">> ELSE <<>>, mem)
                    /\ run' = NoRun /\ abox' = rest
                    /\ UNCHANGED <<hook, hookFired>>
    /\ UNCHANGED <<live, phase, fatal, waiting, continuations, astray, spent>>

\* Mutant: one continuation too many.
MutStopBudget(verdict) ==
    /\ live
    /\ hook
    /\ hook' = FALSE
    /\ IF verdict = "block" /\ continuations <= MaxStopContinuations
       THEN /\ continuations' = continuations + 1
            /\ TryDrain(<<"ContinueAfterStop">>, mem, abox)
       ELSE /\ continuations' = 0
            /\ TryDrain(<<"Concluded">>, mem, abox)
    /\ UNCHANGED <<live, phase, fatal, waiting, answered, acks, astray, spent>>

\* Mutant: continuations are not counted.
MutStopForEver(verdict) ==
    /\ live
    /\ hook
    /\ hook' = FALSE
    /\ UNCHANGED continuations
    /\ TryDrain(IF verdict = "block" THEN <<"ContinueAfterStop">> ELSE <<"Concluded">>,
                mem, abox)
    /\ UNCHANGED <<live, phase, fatal, waiting, answered, acks, astray, spent>>

\* StopHookParent::deliver. A halt outranks a block and lets the turn end; a
\* block swallows the conclusion while there is budget.
StopHookEnds(verdict) ==
    /\ live
    /\ hook
    /\ hook' = FALSE
    /\ IF verdict = "block" /\ continuations < MaxStopContinuations
       THEN /\ continuations' = continuations + 1
            /\ TryDrain(<<"ContinueAfterStop">>, mem, abox)
       ELSE /\ continuations' = 0
            /\ TryDrain(<<"Concluded">>, mem, abox)
    /\ UNCHANGED <<live, phase, fatal, waiting, answered, acks, astray, spent>>

Persist ==
    /\ live
    /\ staged # {}
    /\ mem' \in staged
    /\ staged' = {}
    /\ UNCHANGED <<live, session, abox, run, acks, hook, hookFired, continuations, astray,
                   spent>>

AgentHandles ==
    \/ Persist \/ Enqueue \/ Drain \/ TakeAnswer \/ Cancel
    \/ StartPrepared \/ Boundary \/ RunFinished

-----------------------------------------------------------------------------
(* The tasks of the agent *)

\* The prepare task hands its turn back once.
PrepareEnds(abandon) ==
    /\ live
    /\ run.stage = "preparing"
    /\ \A i \in DOMAIN abox : abox[i].kind # "StartPrepared"
    /\ Tell([kind |-> "StartPrepared", abandon |-> abandon])
    /\ UNCHANGED <<live, session, mem, staged, run, acks, hook, hookFired, continuations,
                   astray, spent>>

RunQuiet == UNCHANGED <<live, phase, fatal, waiting, answered, mem, staged, acks, hook,
                        hookFired, continuations, astray, spent>>

\* provide(): a failure is told by the task itself.
ProvideEnds(news) ==
    /\ live
    /\ run.stage = "providing"
    /\ ~run.cancelled
    /\ IF news = "ok"
       THEN run' = [run EXCEPT !.stage = "running"] /\ UNCHANGED box
       ELSE /\ run' = [run EXCEPT !.stage = "reporting", !.end = "AlreadyReported"]
            /\ box' = Append(box, news)
    /\ UNCHANGED abox
    /\ RunQuiet

ProvideCancelled ==
    /\ live
    /\ run.stage = "providing"
    /\ run.cancelled
    /\ run' = [run EXCEPT !.stage = "reporting", !.end = "Cancelled"]
    /\ UNCHANGED <<box, abox>>
    /\ RunQuiet

\* The loop ends and journals its boundary. A token set while the last message
\* is being written does not change how it ends.
LoopEnds(end) ==
    /\ live
    /\ run.stage = "running"
    /\ end = "Cancelled" => run.cancelled
    /\ end = "Asked" => ~run.cancelled
    /\ run' = [run EXCEPT !.stage = "ending", !.end = end]
    /\ Tell([kind |-> "Boundary"])
    /\ UNCHANGED box
    /\ RunQuiet

Reports ==
    /\ live
    /\ run.stage = "reporting"
    /\ \A i \in DOMAIN abox : abox[i].kind # "RunFinished"
    /\ Tell([kind |-> "RunFinished"])
    /\ UNCHANGED <<box, run>>
    /\ RunQuiet

\* SessionHookSink::record of a tool call's hook that said continue: false.
ToolHookHalts ==
    /\ live
    /\ run.stage = "running"
    /\ spent.ends < MaxEnds
    /\ spent' = [spent EXCEPT !.ends = @ + 1]
    /\ box' = Append(box, "Halt")
    /\ UNCHANGED <<live, phase, fatal, waiting, answered, agent, astray>>

TaskSteps ==
    \/ \E abandon \in {"no", "Failed", "FailedForGood"} : PrepareEnds(abandon)
    \/ \E news \in {"ok", "Failed", "FailedForGood"} : ProvideEnds(news)
    \/ ProvideCancelled
    \/ \E end \in {"Concluded", "Asked", "Failed", "Cancelled"} : LoopEnds(end)
    \/ Reports
    \/ \E verdict \in {"allow", "halt", "block"} : StopHookEnds(verdict)

-----------------------------------------------------------------------------
(* The process dies, and both actors load from their journals *)

Crash ==
    /\ live
    /\ spent.crashes < MaxCrashes
    /\ spent' = [spent EXCEPT !.crashes = @ + 1]
    /\ live' = FALSE
    /\ box' = <<>> /\ waiting' = {} /\ answered' = FALSE
    /\ staged' = {} /\ abox' = <<>> /\ run' = NoRun /\ acks' = {}
    /\ hook' = FALSE /\ hookFired' = FALSE /\ continuations' = 0
    /\ UNCHANGED <<phase, fatal, mem, astray>>

\* Loading starts nothing; the agent reports the turn it was in.
Load ==
    /\ ~live
    /\ live' = TRUE
    /\ box' = IF mem.inflight THEN <<"Interrupted">> ELSE <<>>
    /\ UNCHANGED <<phase, fatal, waiting, answered, agent, astray, spent>>

-----------------------------------------------------------------------------
(* The specification *)

Init ==
    /\ live = TRUE
    /\ phase = "Idle" /\ fatal = FALSE /\ box = <<>>
    /\ waiting = {} /\ answered = FALSE
    /\ mem = [queue |-> {}, asks |-> FALSE, inflight |-> FALSE]
    /\ staged = {} /\ abox = <<>> /\ run = NoRun /\ acks = {}
    /\ hook = FALSE /\ hookFired = FALSE /\ continuations = 0
    /\ astray = {}
    /\ spent = [messages |-> 0, answers |-> 0, ends |-> 0, cancels |-> 0, timeouts |-> 0,
                crashes |-> 0]

Next ==
    \/ \E item \in {"User", "Report"} : Put(item)
    \/ Answer \/ Stop \/ CancelTimesOut
    \/ SessionHandles \/ AgentHandles \/ TaskSteps
    \/ ToolHookHalts \/ Crash \/ Load

Spec == Init /\ [][Next]_vars

\* Both mailboxes are served, the tasks run, and what they wait for answers.
FairSpec ==
    /\ Spec
    /\ WF_vars(SessionHandles)
    /\ WF_vars(AgentHandles)
    /\ WF_vars(TaskSteps)

-----------------------------------------------------------------------------
(* Properties *)

\* The types of the variables.
TypeOK ==
    /\ {live, fatal, answered, hook, hookFired} \subseteq BOOLEAN
    /\ phase \in TurnPhase
    /\ box \in Seq(News)
    /\ waiting \subseteq Waiting /\ Cardinality(waiting) <= 1
    /\ mem \in Memory /\ staged \subseteq Memory
    /\ abox \in Seq(Command)
    /\ run \in Run
    /\ acks \subseteq Nat
    /\ continuations \in 0..MaxStopContinuations
    /\ astray \subseteq {"next", "preparing"}
    /\ spent \in [{"messages", "answers", "ends", "cancels", "timeouts", "crashes"} -> Nat]

\* Nothing is on its way between the session and the agent.
Settled ==
    live /\ box = <<>> /\ abox = <<>> /\ waiting = {} /\ staged = {} /\ ~hook

\* No turn runs behind the session's back: once both mailboxes are empty, a turn
\* that runs, and that nobody cancelled, is one the session shows as Running, so
\* that a Stop reaches it and the session is not unloaded under it. Excepted is
\* a Stop that met the turn while its start hooks were running, which the cancel
\* does not reach (on_stop, Cancel, start_prepared).
RunIsShown ==
    Settled /\ run.stage \in {"providing", "running"} /\ ~run.cancelled
        => phase = "Running" \/ "preparing" \in astray

\* No phantom turn: once both mailboxes are empty, a session that shows a turn
\* as Running has one, unless it failed for good. Otherwise it waits for an end
\* nobody will report, and is busy for ever (Turns::busy).
NoPhantomTurn ==
    Settled /\ phase = "Running" /\ ~fatal => run.stage # "none"

\* The only ways to a phantom turn are a cancel that hit the turn after the one
\* it was meant for, and a crash; neither the Stop hooks that swallow an end, nor
\* a refused start, a failed provide, a halt or a cancel that timed out is one
\* (on_main_outcome, StopHookParent::deliver, ContinueAfterStop).
PhantomsExplained ==
    NoPhantomTurn \/ "next" \in astray \/ spent.crashes > 0

\* The session waits for input exactly when the agent has questions open:
\* Stops, halts and timeouts leave no park hidden and no park without a
\* question, as long as the process lives (stop_boundary, on_main_outcome).
ParkIsShown ==
    Settled /\ spent.crashes = 0 => (mem.asks <=> phase = "AwaitingInput")

\* What the session shows as running ends, whatever the Stop hooks say: they
\* hold a turn open at most MAX_STOP_CONTINUATIONS times in a row.
ShownTurnEnds ==
    phase = "Running" ~> \/ phase # "Running" \/ fatal
                         \/ astray # {} \/ spent.crashes > 0

=============================================================================
