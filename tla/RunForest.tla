------------------------------ MODULE RunForest ------------------------------
(***************************************************************************)
(* The delegated work of one session: subagents, the workflow runs its     *)
(* agents invoke or the session itself is, and the reconciliation that     *)
(* follows every boundary.  Of an agent the module keeps what a session    *)
(* can bring about or observe: whether its actor is up, whether something  *)
(* is queued, whether a turn runs, and which children its own log shows    *)
(* running, which is what it consults before it reports an end.            *)
(*                                                                         *)
(* Sources (crates/server/src/sessions): run_forest.rs, orchestrator.rs,   *)
(* lifecycle_routing.rs, workflow/{mod,driver}.rs,                         *)
(* session_actor/{subagent,run,turns,core,mod}.rs.                         *)
(***************************************************************************)
EXTENDS Integers, FiniteSets, Sequences, SequencesExt

CONSTANTS Roots,        \* subset of {"main", "workflow"}: what the session is
          Start,        \* first step of every workflow
          Transitions,  \* step -> sequence of [when: set of outcomes, to: step]
          Outcomes,     \* what a step may submit as its outcome
          MaxSteps,     \* WorkflowRunSpec::max_steps
          MaxDepth,     \* MAX_DEPTH
          MaxLiveRuns,  \* MAX_LIVE_RUNS
          MaxActive,    \* the caller's cap on running subagents
          \* Bounds of an instance.
          MaxSubs, MaxRuns, MaxTurns,
          Interventions,    \* subset of {"stop", "delete", "retry", "say", "crash"}
          MaxInterventions

ASSUME ConstantsAssumption ==
  /\ Roots \subseteq {"main", "workflow"}
  /\ Start \in DOMAIN Transitions
  /\ \A s \in DOMAIN Transitions :
        Transitions[s] \in Seq([when : SUBSET Outcomes, to : DOMAIN Transitions])
  /\ Interventions \subseteq {"stop", "delete", "retry", "say", "crash"}
  /\ {MaxSteps, MaxDepth, MaxLiveRuns, MaxActive, MaxSubs, MaxRuns, MaxTurns,
      MaxInterventions} \subseteq Nat

VARIABLES
  forest,   \* RunForest: the fold of the session's journal
  staged,   \* the events of the handler that has run and not yet persisted
  mail,     \* the session's mailbox
  loaded,   \* the session's actor exists
  agents,   \* agent -> what the session can see or cause of it
  heard,    \* children whose present result was put in their parent's queue
  again,    \* a result was put there a second time
  fresh,    \* ids given out
  spent     \* what of the bounds is used

vars == <<forest, staged, mail, loaded, agents, heard, again, fresh, spent>>

Main      == <<"main">>
NoAgent   == <<>>
RootRun   == <<"run", 0>>
SubIds    == {<<"sub", i>> : i \in 1..MaxSubs}
RunIds    == {<<"run", i>> : i \in 0..MaxRuns}
Children  == SubIds \union RunIds
MaxLog    == MaxSteps + MaxInterventions
StepOf(r, k) == <<"step", r[2], k>>
StepIds   == {StepOf(r, k) : r \in RunIds, k \in 1..MaxLog}
AgentIds  == {Main} \union SubIds \union StepIds
RunOf(a)  == <<"run", a[2]>>

SubStatus  == {"Absent", "Running", "Completed", "Failed"}
RunStatus  == {"Absent", "Pending", "Running", "Suspended", "AwaitingInput",
               "Finished", "Failed"}
StepStatus == {"Running", "Concluded", "Failed", "Cancelled"}
Terminal   == {"Finished", "Failed"}

------------------------------------------------------------------------------
(* The forest: reads.                                                       *)

Known(f, a) ==
  \/ a = Main /\ f.root = "main"
  \/ a \in SubIds /\ f.subs[a].status # "Absent"
  \/ /\ a \in StepIds
     /\ f.runs[RunOf(a)].status # "Absent"
     /\ a[3] <= Len(f.runs[RunOf(a)].steps)

\* RunEntry::parent of the entry that hosts an agent.
ParentOf(f, a) ==
  CASE a \in SubIds  -> f.subs[a].parent
    [] a \in StepIds -> f.runs[RunOf(a)].parent
    [] OTHER         -> NoAgent

\* An agent and the agents above it, as long as the chain resolves.
Chain(f, a) ==
  LET steps == MaxSubs + MaxRuns + 2
      up[n \in 0..steps] ==
        IF n = 0 THEN <<a>>
        ELSE LET below == up[n - 1]
                 top   == Last(below)
             IN  IF Known(f, top) /\ ParentOf(f, top) # NoAgent
                 THEN Append(below, ParentOf(f, top)) ELSE below
  IN  ToSet(up[steps]) \ {NoAgent}

DepthOf(f, a) == Cardinality(Chain(f, a)) - 1

DescendsFrom(f, a, above) == above \in Chain(f, a)

\* descendant_entries: a run descends through the agent that invoked it.
DescendantEntries(f, of) ==
  {s \in SubIds \ {of} : f.subs[s].status # "Absent" /\ DescendsFrom(f, s, of)}
    \union
  {r \in RunIds : /\ f.runs[r].status # "Absent"
                  /\ f.runs[r].parent # NoAgent
                  /\ DescendsFrom(f, f.runs[r].parent, of)}

\* WorkflowRunState::current: the index of the step in flight, 0 for none.
Current(run) ==
  LET flying == {k \in DOMAIN run.steps : run.steps[k].status = "Running"}
  IN  IF flying = {} THEN 0 ELSE CHOOSE k \in flying : \A j \in flying : k <= j

ActiveSubs(f)    == {s \in SubIds : f.subs[s].status = "Running"}
LiveRuns(f)      == {r \in RunIds : f.runs[r].status \notin {"Absent"} \union Terminal}
InFlightSteps(f) == {StepOf(r, Current(f.runs[r])) :
                       r \in {q \in RunIds : Current(f.runs[q]) # 0}}

\* owed: a parent, a terminal result, and not notified.
Owed(f) ==
  {s \in SubIds : f.subs[s].status \in {"Completed", "Failed"} /\ ~f.subs[s].notified}
    \union
  {r \in RunIds : /\ f.runs[r].status \in Terminal /\ ~f.runs[r].notified
                  /\ f.runs[r].parent # NoAgent}

ParentOfChild(f, c) == IF c \in SubIds THEN f.subs[c].parent ELSE f.runs[c].parent

------------------------------------------------------------------------------
(* The forest: folds, one per event.                                        *)

NoSub == [parent |-> NoAgent, status |-> "Absent", notified |-> FALSE]
NoRun == [parent |-> NoAgent, status |-> "Absent", notified |-> FALSE, steps |-> <<>>]
NewRun(parent) == [NoRun EXCEPT !.parent = parent, !.status = "Pending"]

ApplySubSpawned(f, e)  == [f EXCEPT !.subs[e.id] =
    [parent |-> e.parent, status |-> "Running", notified |-> FALSE]]
ApplySubRunning(f, e)  == IF f.subs[e.id].status = "Absent" THEN f
                          ELSE [f EXCEPT !.subs[e.id].status = "Running"]
SubEnds(f, s, status)  == IF f.subs[s].status = "Absent" THEN f
                          ELSE [f EXCEPT !.subs[s] =
                              [@ EXCEPT !.status = status, !.notified = FALSE]]
ApplySubCompleted(f, e) == SubEnds(f, e.id, "Completed")
ApplySubFailed(f, e)    == SubEnds(f, e.id, "Failed")
\* Mutant: the mark is forgotten.
ApplySubNotifiedForgets(f, e) == f

ApplySubNotified(f, e)  == [f EXCEPT !.subs[e.id].notified = TRUE]

\* Mutant: an invoked run is folded like the session's own.
ApplyRunCreatedAlone(f, e) == [f EXCEPT !.runs[e.id] = NewRun(NoAgent)]

ApplyRunCreated(f, e)   == [f EXCEPT !.runs[e.id] = NewRun(e.parent)]
ApplyStepStarted(f, e)  ==
  LET run == f.runs[e.id] IN
  [f EXCEPT !.runs[e.id] =
    [run EXCEPT !.steps  = Append(@, [step |-> e.step, status |-> "Running", out |-> ""]),
                !.status = "Running"]]
\* The status is reasserted whatever it was.
ApplyStepConcluded(f, e) ==
  LET run  == f.runs[e.id]
      step == run.steps[e.index]
  IN  [f EXCEPT !.runs[e.id] =
        [run EXCEPT !.steps[e.index] = [step EXCEPT !.status = "Concluded", !.out = e.out],
                    !.status = "Running"]]
ApplyStepFailed(f, e) == [f EXCEPT !.runs[e.id] =
    [@ EXCEPT !.steps[e.index].status = "Failed", !.status = "Failed", !.notified = FALSE]]
ApplyStepCancelled(f, e) == [f EXCEPT !.runs[e.id] =
    [@ EXCEPT !.steps[e.index].status = "Cancelled", !.status = "Suspended"]]
ApplyAsked(f, e) == [f EXCEPT !.runs[e.id].status = "AwaitingInput"]
ApplyRunEnded(f, e, status) == [f EXCEPT !.runs[e.id] =
    [@ EXCEPT !.status = status, !.notified = FALSE]]
ApplyRunNotified(f, e) == [f EXCEPT !.runs[e.id].notified = TRUE]

\* Mutant: the node's own subagents only.
ApplyAgentDeletedShallow(f, e) ==
  [f EXCEPT !.subs = [s \in SubIds |-> IF s = e.id \/ @[s].parent = e.id THEN NoSub ELSE @[s]]]

\* apply_agent_deleted: the entry and the work it delegated, at any depth.
ApplyAgentDeleted(f, e) ==
  LET doomed == DescendantEntries(f, e.id) \union {e.id} IN
  [f EXCEPT !.subs = [s \in SubIds |-> IF s \in doomed THEN NoSub ELSE @[s]],
            !.runs = [r \in RunIds |-> IF r \in doomed THEN NoRun ELSE @[r]]]

Apply(f, e) ==
  CASE e.t = "SubAgentSpawned"   -> ApplySubSpawned(f, e)
    [] e.t = "SubAgentRunning"   -> ApplySubRunning(f, e)
    [] e.t = "SubAgentCompleted" -> ApplySubCompleted(f, e)
    [] e.t = "SubAgentFailed"    -> ApplySubFailed(f, e)
    [] e.t = "SubAgentNotified"  -> ApplySubNotified(f, e)
    [] e.t = "RunCreated"        -> ApplyRunCreated(f, e)
    [] e.t = "StepStarted"       -> ApplyStepStarted(f, e)
    [] e.t = "StepConcluded"     -> ApplyStepConcluded(f, e)
    [] e.t = "StepFailed"        -> ApplyStepFailed(f, e)
    [] e.t = "StepCancelled"     -> ApplyStepCancelled(f, e)
    [] e.t = "AskRecorded"       -> ApplyAsked(f, e)
    [] e.t = "RunFinished"       -> ApplyRunEnded(f, e, "Finished")
    [] e.t = "RunFailed"         -> ApplyRunEnded(f, e, "Failed")
    [] e.t = "RunNotified"       -> ApplyRunNotified(f, e)
    [] e.t = "AgentDeleted"      -> ApplyAgentDeleted(f, e)

\* The child an event ends, if it ends one.
Ends(e) == CASE e.t \in {"SubAgentCompleted", "SubAgentFailed", "StepFailed",
                         "RunFinished", "RunFailed"} -> {e.id}
             [] OTHER -> {}

(* lifecycle_routing::route, as far as an agent's own gate reads it: which  *)
(* child becomes running or ended in whose log.  A step that fails ends its *)
(* run and is written on the step alone.                                    *)
Route(f, e) ==
  LET parent == IF e.t \in {"SubAgentSpawned", "SubAgentCompleted", "SubAgentFailed",
                            "RunCreated", "RunFinished", "RunFailed"}
                THEN ParentOfChild(f, e.id) ELSE NoAgent
  IN  IF parent # NoAgent /\ Known(f, parent)
      THEN {[to |-> parent, child |-> e.id,
             running |-> e.t \in {"SubAgentSpawned", "RunCreated"}]}
      ELSE {}
------------------------------------------------------------------------------
(* What the session does at a boundary.                                     *)

(* next_transition: the first transition whose filter admits the outcome.   *)
NextTransition(step, out) ==
  LET admits == {i \in DOMAIN Transitions[step] : out \in Transitions[step][i].when}
  IN  IF admits = {} THEN {}
      ELSE {Transitions[step][CHOOSE i \in admits : \A j \in admits : i <= j].to}

(* WorkflowOrchestrator::step_actions of one run.                           *)
StepActions(f, r) ==
  LET run  == f.runs[r]
      last == run.steps[Len(run.steps)]
  IN  IF \/ run.status \in {"Absent", "Suspended", "AwaitingInput"} \union Terminal
         \/ Current(run) # 0
      THEN {}
      ELSE IF Len(run.steps) >= MaxSteps THEN {[t |-> "Fail", id |-> r]}
      ELSE IF run.steps = <<>> THEN {[t |-> "StartStep", id |-> r, step |-> Start]}
      ELSE IF last.status # "Concluded" THEN {}
      ELSE IF NextTransition(last.step, last.out) = {} THEN {[t |-> "Finish", id |-> r]}
      ELSE {[t |-> "StartStep", id |-> r, step |-> s] : s \in NextTransition(last.step, last.out)}

(* next_actions: deliveries first, then what the graphs want.  The session's *)
(* runtime is taken to be there.                                            *)
NextActions(f) ==
  SetToSeq({[t |-> "Deliver", id |-> c] :
              c \in {d \in Owed(f) : Known(f, ParentOfChild(f, d))}})
    \o SetToSeq(UNION {StepActions(f, r) : r \in RunIds})

(* What a handler builds up: the forest folded so far, the events it will   *)
(* persist, and what its tells have done to the agents.                     *)
Hand(f) == [f |-> f, ev |-> <<>>, ag |-> agents, heard |-> heard, again |-> again]

Emit(h, e) == [h EXCEPT !.f = Apply(@, e), !.ev = Append(@, e),
                        !.heard = @ \ Ends(e)]

Reach(ag, a)   == [ag EXCEPT ![a].up = TRUE]
Enqueue(ag, a) == [Reach(ag, a) EXCEPT ![a].queued = TRUE]

\* Tell, then persist.
Deliver(h, c) ==
  Emit([h EXCEPT !.ag    = Enqueue(@, ParentOfChild(h.f, c)),
                 !.again = @ \/ c \in h.heard,
                 !.heard = @ \union {c}],
       [t |-> IF c \in RunIds THEN "RunNotified" ELSE "SubAgentNotified", id |-> c])

\* start_step: the agent exists and has its input before the log names it.
StartStep(h, r, step) ==
  Emit([h EXCEPT !.ag = Enqueue(@, StepOf(r, Len(h.f.runs[r].steps) + 1))],
       [t |-> "StepStarted", id |-> r, step |-> step])

Perform(h, action) ==
  CASE action.t = "Deliver"   -> Deliver(h, action.id)
    [] action.t = "StartStep" -> StartStep(h, action.id, action.step)
    [] action.t = "Finish"    -> Emit(h, [t |-> "RunFinished", id |-> action.id])
    [] action.t = "Fail"      -> Emit(h, [t |-> "RunFailed", id |-> action.id])

\* Mutant: one round.
OneRound == 1

Rounds == 8

\* A round performs what its first state wants.
Round(h) == FoldLeft(Perform, h, NextActions(h.f))

(* flush_then_drain: to a fixpoint, in at most eight rounds.                *)
FlushThenDrain(h) == FoldLeft(LAMBDA g, n : Round(g), h, [n \in 1..Rounds |-> n])

\* persist_and_advance.
Advance(h, events) == FlushThenDrain(FoldLeft(Emit, h, events))

------------------------------------------------------------------------------
(* The session's handlers.                                                  *)

TypeOK ==
  /\ forest.root \in Roots
  /\ forest.subs \in [SubIds -> [parent : AgentIds \union {NoAgent},
                                 status : SubStatus, notified : BOOLEAN]]
  /\ \A r \in RunIds :
       /\ forest.runs[r].parent \in AgentIds \union {NoAgent}
       /\ forest.runs[r].parent = NoAgent <=> r = RootRun \/ forest.runs[r].status = "Absent"
       /\ forest.runs[r].status \in RunStatus
       /\ forest.runs[r].notified \in BOOLEAN
       /\ \A k \in DOMAIN forest.runs[r].steps :
            forest.runs[r].steps[k].status \in StepStatus
  /\ agents \in [AgentIds -> [up : BOOLEAN, queued : BOOLEAN, busy : BOOLEAN,
                              asks : BOOLEAN, died : BOOLEAN,
                              call : Children \union {NoAgent},
                              open : SUBSET Children]]
  /\ loaded \in BOOLEAN /\ again \in BOOLEAN
  /\ heard \subseteq Children

Serving == loaded /\ staged = <<>>

\* What people and the machine do to a session, within the bounds.
Intervene(what) ==
  /\ what \in Interventions /\ spent.number < MaxInterventions
  /\ spent' = [spent EXCEPT !.number = @ + 1, !.kinds = @ \union {what}]

\* The end of a handler: what it emitted waits for the journal.
Finish(h) ==
  /\ staged' = h.ev
  /\ agents' = h.ag
  /\ heard' = h.heard /\ again' = h.again
  /\ UNCHANGED <<forest, loaded, fresh>>

Released(ag, c) == [a \in AgentIds |->
                      IF ag[a].call = c THEN [ag[a] EXCEPT !.call = NoAgent] ELSE ag[a]]
Reply(h, c)     == [h EXCEPT !.ag = Released(@, c)]

\* cancel_agent: waits until the run is over; a cold agent has none.
Cancel(ag, a) == [ag EXCEPT ![a].busy = FALSE, ![a].call = NoAgent]

\* Mutant: a refusal is not told.
SpawnRefusesSilently(cmd) ==
  LET h == Hand(forest) IN
  IF \/ ~Known(forest, cmd.from)
     \/ DepthOf(forest, cmd.from) >= MaxDepth
     \/ Cardinality(ActiveSubs(forest)) >= MaxActive
  THEN Finish(h) /\ mail' = Tail(mail)
  ELSE /\ Finish(Emit(h, [t |-> "SubAgentSpawned", id |-> cmd.id, parent |-> cmd.from]))
       /\ mail' = Append(Tail(mail), [t |-> "FinishSpawn", id |-> cmd.id])

\* SubAgentCommand::Spawn.
Spawn(cmd) ==
  LET h == Hand(forest) IN
  IF \/ ~Known(forest, cmd.from)
     \/ DepthOf(forest, cmd.from) >= MaxDepth
     \/ Cardinality(ActiveSubs(forest)) >= MaxActive
  THEN Finish(Reply(h, cmd.id)) /\ mail' = Tail(mail)
  ELSE /\ Finish(Emit(h, [t |-> "SubAgentSpawned", id |-> cmd.id, parent |-> cmd.from]))
       /\ mail' = Append(Tail(mail), [t |-> "FinishSpawn", id |-> cmd.id])

\* SubAgentCommand::FinishSpawn: the actor, its task, the reply.
FinishSpawn(cmd) ==
  LET h == Hand(forest) IN
  /\ mail' = Tail(mail)
  /\ Finish(IF Known(forest, cmd.id)
            THEN Reply([h EXCEPT !.ag = Enqueue(@, cmd.id)], cmd.id)
            ELSE Reply(h, cmd.id))

\* RunCommand::Create.
Create(cmd) ==
  LET h == Hand(forest) IN
  IF \/ ~Known(forest, cmd.from)
     \/ DepthOf(forest, cmd.from) >= MaxDepth
     \/ Cardinality(LiveRuns(forest)) >= MaxLiveRuns
  THEN Finish(Reply(h, cmd.id)) /\ mail' = Tail(mail)
  ELSE /\ Finish(Emit(h, [t |-> "RunCreated", id |-> cmd.id, parent |-> cmd.from]))
       /\ mail' = Append(Tail(mail), [t |-> "FinishCreate", id |-> cmd.id])

FinishCreate(cmd) ==
  /\ mail' = Tail(mail)
  /\ Finish(FlushThenDrain(Reply(Hand(forest), cmd.id)))

\* on_agent_started: a node goes back to work.
Started(cmd) ==
  /\ mail' = Tail(mail)
  /\ Finish(IF Known(forest, cmd.from)
            THEN Emit(Hand(forest), [t |-> "SubAgentRunning", id |-> cmd.from])
            ELSE Hand(forest))

\* on_sub_agent_outcome.
SubAgentOutcome(h, cmd) ==
  Advance(h, CASE cmd.end = "Concluded" -> <<[t |-> "SubAgentCompleted", id |-> cmd.from]>>
               [] cmd.end = "Failed"    -> <<[t |-> "SubAgentFailed", id |-> cmd.from]>>
               [] cmd.end = "Parked"    -> <<>>)

\* on_step_outcome: only a conclusion and a failure are boundaries.
StepOutcome(h, cmd) ==
  LET run == RunOf(cmd.from) IN
  CASE cmd.end = "Concluded" ->
         Advance(h, <<[t |-> "StepConcluded", id |-> run, index |-> cmd.from[3], out |-> cmd.out]>>)
    [] cmd.end = "Failed" ->
         Advance(h, <<[t |-> "StepFailed", id |-> run, index |-> cmd.from[3]]>>)
    [] cmd.end = "Asked"  -> Emit(h, [t |-> "AskRecorded", id |-> run])
    [] cmd.end = "Parked" -> h

\* on_agent_outcome: the entry that hosts the agent says what its end means.
AgentOutcome(cmd) ==
  LET h == Hand(forest) IN
  /\ mail' = Tail(mail)
  /\ Finish(IF ~Known(forest, cmd.from) THEN h
            ELSE CASE cmd.from = Main      -> Advance(h, <<>>)
                   [] cmd.from \in SubIds  -> SubAgentOutcome(h, cmd)
                   [] cmd.from \in StepIds -> StepOutcome(h, cmd))

\* SubAgentCommand::Reconcile: no boundary follows.
Reconcile ==
  /\ mail' = Tail(mail)
  /\ Finish(FoldLeft(Emit, Hand(forest),
                     SetToSeq({[t |-> "SubAgentFailed", id |-> s] : s \in ActiveSubs(forest)})))

\* RunCommand::ReconcileInterrupted.
ReconcileInterrupted ==
  /\ mail' = Tail(mail)
  /\ Finish(FoldLeft(Emit, Hand(forest),
                     SetToSeq({[t |-> "StepCancelled", id |-> RunOf(a), index |-> a[3]] :
                                 a \in InFlightSteps(forest)})))

AdvanceRuns ==
  /\ mail' = Tail(mail)
  /\ Finish(FlushThenDrain(Hand(forest)))

HandleCommand ==
  /\ Serving /\ mail # <<>>
  /\ LET cmd == Head(mail) IN
       \/ cmd.t = "Spawn"        /\ Spawn(cmd)
       \/ cmd.t = "FinishSpawn"  /\ FinishSpawn(cmd)
       \/ cmd.t = "Create"       /\ Create(cmd)
       \/ cmd.t = "FinishCreate" /\ FinishCreate(cmd)
       \/ cmd.t = "Started"      /\ Started(cmd)
       \/ cmd.t = "Outcome"      /\ AgentOutcome(cmd)
       \/ cmd.t = "Reconcile"    /\ Reconcile
       \/ cmd.t = "ReconcileInterrupted" /\ ReconcileInterrupted
       \/ cmd.t = "Advance"      /\ AdvanceRuns
  /\ UNCHANGED spent

(* cancel_descendants: cancel what runs below, and the events that say so.  *)
CancelDescendants(h, of) ==
  LET below  == DescendantEntries(h.f, of)
      subs   == {s \in below \intersect SubIds : h.f.subs[s].status = "Running"}
      runs   == {r \in below \intersect RunIds : h.f.runs[r].status \notin Terminal}
      flying == {r \in runs : Current(h.f.runs[r]) # 0}
      step(r) == StepOf(r, Current(h.f.runs[r]))
      victims == subs \union {step(r) : r \in flying}
      calm    == [h EXCEPT !.ag = [a \in AgentIds |->
                    IF a \in victims THEN Cancel(@, a)[a] ELSE @[a]]]
      events  == SetToSeq({[t |-> "SubAgentFailed", id |-> s] : s \in subs})
                 \o SetToSeq({[t |-> "StepCancelled", id |-> r, index |-> step(r)[3]] : r \in flying})
                 \o SetToSeq({[t |-> "RunFailed", id |-> r] : r \in runs})
  IN  FoldLeft(Emit, calm, events)

(* on_stop of a subagent or a step.  stop_boundary lets through what is at  *)
(* work; the boundary flushes.                                              *)
Stop(a) ==
  LET h     == [Hand(forest) EXCEPT !.ag = Cancel(@, a)]
      event == IF a \in SubIds THEN [t |-> "SubAgentFailed", id |-> a]
               ELSE [t |-> "StepCancelled", id |-> RunOf(a), index |-> a[3]]
  IN  /\ Serving /\ Intervene("stop")
      /\ Known(forest, a)
      /\ \/ a \in SubIds /\ forest.subs[a].status = "Running"
         \/ a \in StepIds /\ Current(forest.runs[RunOf(a)]) = a[3]
      /\ Finish(FlushThenDrain(Emit(CancelDescendants(h, a), event)))
      /\ UNCHANGED mail

\* CoreCommand::DeleteAgent of a subagent: its actors go, then the entries.
DeleteAgent(s) ==
  LET gone == {a \in AgentIds : Known(forest, a) /\ DescendsFrom(forest, a, s)}
      h    == [Hand(forest) EXCEPT !.ag = [a \in AgentIds |->
                 IF a \in gone THEN [Cancel(@, a)[a] EXCEPT !.up = FALSE] ELSE @[a]]]
  IN  /\ Serving /\ Intervene("delete")
      /\ s \in SubIds /\ Known(forest, s)
      /\ Finish(Emit(h, [t |-> "AgentDeleted", id |-> s]))
      /\ UNCHANGED mail

\* Mutant: the step in flight is left alone.
RetryStepBeside(k) ==
  /\ Serving /\ Intervene("retry")
  /\ forest.root = "workflow" /\ k \in DOMAIN forest.runs[RootRun].steps
  /\ Finish(StartStep(Hand(forest), RootRun, forest.runs[RootRun].steps[k].step))
  /\ UNCHANGED mail

(* on_retry_step, of the session's own run: cancel what is in flight, then  *)
(* the same step again.                                                     *)
RetryStep(k) ==
  LET run == forest.runs[RootRun]
      now == Current(run)
      h   == Hand(forest)
      old == StepOf(RootRun, now)
      calm == IF now = 0 THEN h
              ELSE Emit(CancelDescendants([h EXCEPT !.ag = Cancel(@, old)], old),
                        [t |-> "StepCancelled", id |-> RootRun, index |-> now])
  IN  /\ Serving /\ Intervene("retry")
      /\ forest.root = "workflow" /\ k \in DOMAIN run.steps
      /\ Finish(StartStep(calm, RootRun, run.steps[k].step))
      /\ UNCHANGED mail

\* A person's message or answer, to any agent that can be found.
UserSays(a) ==
  /\ Serving /\ Intervene("say")
  /\ Known(forest, a)
  /\ agents' = [Enqueue(agents, a) EXCEPT ![a].asks = FALSE]
  /\ UNCHANGED <<forest, staged, mail, loaded, heard, again, fresh>>

\* The records an event puts in the logs of agents that are up.
WriteLogs(f, ag, e) ==
  LET news == {n \in Route(f, e) : ag[n.to].up}
      set(a) == {n.child : n \in {m \in news : m.to = a /\ m.running}}
      clr(a) == {n.child : n \in {m \in news : m.to = a /\ ~m.running}}
  IN  [a \in AgentIds |-> [ag[a] EXCEPT !.open = (@ \union set(a)) \ clr(a)]]

\* The journal write, and the logs it routes to.
Persist ==
  /\ loaded /\ staged # <<>>
  /\ forest' = FoldLeft(Apply, forest, staged)
  /\ agents' = FoldLeft(LAMBDA ag, e : WriteLogs(forest', ag, e), agents, staged)
  /\ staged' = <<>>
  /\ UNCHANGED <<mail, loaded, heard, again, fresh, spent>>
------------------------------------------------------------------------------
(* The agents, reduced.                                                     *)

Tell(cmd) == mail' = Append(mail, cmd)

\* The session records a start of a subagent only.
TellStarted(a) == IF a \in SubIds THEN Tell([t |-> "Started", from |-> a])
                  ELSE UNCHANGED mail

\* An agent that is up and idle begins a turn with what is queued; a parked
\* question lets only a person's word through.
BeginTurn(a) ==
  /\ loaded /\ agents[a].up /\ ~agents[a].busy
  /\ agents[a].queued /\ ~agents[a].asks
  /\ spent.turns < MaxTurns
  /\ spent' = [spent EXCEPT !.turns = @ + 1]
  /\ agents' = [agents EXCEPT ![a].busy = TRUE, ![a].queued = FALSE]
  /\ TellStarted(a)
  /\ UNCHANGED <<forest, staged, loaded, heard, again, fresh>>

AtWork(a) == loaded /\ agents[a].up /\ agents[a].busy /\ agents[a].call = NoAgent

\* The spawn and invoke tools: the turn waits for the session's reply.
CallTool(a, what) ==
  LET id == IF what = "Spawn" THEN <<"sub", fresh.subs + 1>> ELSE <<"run", fresh.runs + 1>>
  IN  /\ AtWork(a)
      /\ id \in Children
      /\ agents' = [agents EXCEPT ![a].call = id]
      /\ Tell([t |-> what, from |-> a, id |-> id])
      /\ fresh' = IF what = "Spawn" THEN [fresh EXCEPT !.subs = @ + 1]
                                    ELSE [fresh EXCEPT !.runs = @ + 1]
      /\ UNCHANGED <<forest, staged, loaded, heard, again, spent>>

EndTurn(a, end, out, asks) ==
  /\ AtWork(a)
  /\ agents' = [agents EXCEPT ![a].busy = FALSE, ![a].asks = asks]
  /\ Tell([t |-> "Outcome", from |-> a, end |-> end, out |-> out])
  /\ UNCHANGED <<forest, staged, loaded, heard, again, fresh, spent>>

\* conclude.rs: a turn that ends in words.  What is queued starts the next
\* turn first; a subagent or step with a child still running in its log parks;
\* a step without a result is failed in the end; anyone else has concluded.
EndsInWords(a) ==
  IF a # Main /\ agents[a].queued
  THEN /\ AtWork(a)
       /\ agents' = [agents EXCEPT ![a].queued = FALSE]
       /\ TellStarted(a)
       /\ UNCHANGED <<forest, staged, loaded, heard, again, fresh, spent>>
  ELSE EndTurn(a, IF a # Main /\ agents[a].open # {} THEN "Parked"
                  ELSE IF a \in StepIds THEN "Failed" ELSE "Concluded", "", FALSE)

\* A step's submit_result, whatever it has delegated.
Submit(a, out) == a \in StepIds /\ EndTurn(a, "Concluded", out, FALSE)
Asks(a)        == a \in StepIds /\ EndTurn(a, "Asked", "", TRUE)
Fails(a)       == EndTurn(a, "Failed", "", FALSE)

TurnSteps(a) == \/ EndsInWords(a) \/ Fails(a) \/ Asks(a)
                \/ \E out \in Outcomes : Submit(a, out)

------------------------------------------------------------------------------
(* Crash and load: the journals of the session and its agents stay.         *)

Crash ==
  /\ loaded /\ Intervene("crash")
  /\ loaded' = FALSE /\ staged' = <<>> /\ mail' = <<>>
  /\ agents' = [a \in AgentIds |-> [agents[a] EXCEPT
                  !.up = FALSE, !.busy = FALSE, !.call = NoAgent,
                  !.died = a = Main /\ agents[a].busy]]
  /\ UNCHANGED <<forest, heard, again, fresh>>

\* adopt: the main agent, which reports a turn it died in; one repair per
\* component.  Everyone else stays cold.
Load ==
  LET subs == IF ActiveSubs(forest) # {} THEN <<[t |-> "Reconcile"]>> ELSE <<>>
      runs == IF InFlightSteps(forest) # {} THEN <<[t |-> "ReconcileInterrupted"]>>
              ELSE IF \E r \in RunIds : forest.runs[r].status = "Pending"
              THEN <<[t |-> "Advance"]>> ELSE <<>>
      told == IF agents[Main].died
              THEN <<[t |-> "Outcome", from |-> Main, end |-> "Interrupted", out |-> ""]>>
              ELSE <<>>
  IN  /\ ~loaded
      /\ loaded' = TRUE
      /\ \/ mail' = told \o subs \o runs
         \/ mail' = subs \o runs \o told
      /\ agents' = [agents EXCEPT ![Main].up = forest.root = "main", ![Main].died = FALSE]
      /\ UNCHANGED <<forest, staged, heard, again, fresh, spent>>

Quiet == [up |-> FALSE, queued |-> FALSE, busy |-> FALSE, asks |-> FALSE,
          died |-> FALSE, call |-> NoAgent, open |-> {}]

\* A session with a first message, or a run the create has left pending.
Init ==
  /\ \E root \in Roots :
       /\ forest = [root |-> root,
                    subs |-> [s \in SubIds |-> NoSub],
                    runs |-> [r \in RunIds |-> IF r = RootRun /\ root = "workflow"
                                               THEN NewRun(NoAgent) ELSE NoRun]]
       /\ mail = IF root = "workflow" THEN <<[t |-> "Advance"]>> ELSE <<>>
       /\ agents = [a \in AgentIds |-> IF a = Main /\ root = "main"
                                       THEN [Quiet EXCEPT !.up = TRUE, !.queued = TRUE]
                                       ELSE Quiet]
  /\ staged = <<>>
  /\ loaded = TRUE
  /\ heard = {} /\ again = FALSE
  /\ fresh = [subs |-> 0, runs |-> 0]
  /\ spent = [turns |-> 0, number |-> 0, kinds |-> {}]

AgentSteps == \E a \in AgentIds :
                \/ BeginTurn(a) \/ TurnSteps(a)
                \/ CallTool(a, "Spawn") \/ CallTool(a, "Create")

Next ==
  \/ HandleCommand
  \/ Persist
  \/ AgentSteps
  \/ \E a \in AgentIds : Stop(a) \/ UserSays(a)
  \/ \E s \in SubIds : DeleteAgent(s)
  \/ \E k \in 1..MaxLog : RetryStep(k)
  \/ Crash
  \/ Load

Spec == Init /\ [][Next]_vars

------------------------------------------------------------------------------
(* Properties.                                                              *)

(* A run has one step in flight at most, through retries, stops, restarts   *)
(* and outcomes that come late: current() reads one and the driver starts   *)
(* nothing beside it (workflow/mod.rs).                                     *)
OneStepInFlight ==
  \A r \in RunIds :
    Cardinality({k \in DOMAIN forest.runs[r].steps :
                   forest.runs[r].steps[k].status = "Running"}) <= 1

(* Whatever was deleted, every entry still reaches the session's root       *)
(* through agents that exist, within the depth every delegation is checked  *)
(* against: none is left hanging from an id nothing resolves.               *)
ChainsReachRoot ==
  \A c \in Children :
    LET present == IF c \in SubIds THEN forest.subs[c].status # "Absent"
                   ELSE forest.runs[c].status # "Absent" /\ c # RootRun
        above   == Chain(forest, ParentOfChild(forest, c))
    IN  present => /\ \A a \in above : Known(forest, a)
                   /\ \E a \in above : a = Main \/ (a \in StepIds /\ RunOf(a) = RootRun)
                   /\ Cardinality(above) <= MaxDepth

(* Without a crash no result is put in a parent's queue twice (deliver):    *)
(* the mark that it was sent and the result it belongs to never part.       *)
DeliveredOnce == again => "crash" \in spent.kinds

(* Between two commands nothing is owed and no step waits to be started,    *)
(* unless a command already queued will see to it, or a restart or a retry, *)
(* whose handlers do not reconcile, has left it for the next boundary: the  *)
(* eight rounds of mod.rs always reach the end of what a boundary sets off. *)
NothingStrands ==
  Serving /\ NextActions(forest) # <<>> =>
    \/ \E i \in DOMAIN mail : mail[i].t \in {"FinishCreate", "Advance"}
    \/ spent.kinds \intersect {"crash", "retry"} # {}

(* A turn that waits for the answer to a spawn or an invocation is in the   *)
(* mailbox: accepted or refused, stopped, deleted under or restarted, a     *)
(* command is still to come that replies (subagent.rs, run.rs).             *)
CallAnswered ==
  \A a \in AgentIds : agents[a].call # NoAgent =>
    \E i \in DOMAIN mail :
      /\ mail[i].t \in {"Spawn", "FinishSpawn", "Create", "FinishCreate"}
      /\ mail[i].id = agents[a].call

(* A subagent or step parks while its own log shows a child running, and    *)
(* then it waits for work that can still end: the log, a run's like a       *)
(* subagent's, is told of every end the forest records (lifecycle_routing). *)
ParkedOnLiving ==
  Serving => \A a \in SubIds \union StepIds : \A c \in agents[a].open :
               \/ c \in SubIds /\ forest.subs[c].status = "Running"
               \/ c \in RunIds /\ forest.runs[c].status \notin Terminal
==============================================================================
