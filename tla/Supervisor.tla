----------------------------- MODULE Supervisor -----------------------------
(***************************************************************************)
(* The session list of one account and the sessions behind it: creating,   *)
(* reaching, naming, sweeping and deleting them.  Two actors wait for each *)
(* other here.  The supervisor waits inside its handler for the session it *)
(* unloads or deletes; a session waits inside its handler for the          *)
(* supervisor to write its name.                                           *)
(*                                                                         *)
(* Sources (crates/server/src/sessions): supervisor.rs,                    *)
(* session_actor/{lifecycle,core,mod}.rs.  An ask has no deadline          *)
(* (addressing.rs: ask, as against ask_within).                            *)
(***************************************************************************)
EXTENDS Naturals, Sequences

CONSTANTS Sessions,     \* ids, each for one create
          \* Bounds of an instance.
          MaxCalls,     \* requests of people and ticks, creates apart
          MaxTurns,     \* turns of all agents
          MaxCrashes

ASSUME BoundsAssumption == {MaxCalls, MaxTurns, MaxCrashes} \subseteq Nat

VARIABLES
  rows,     \* SessionSupervisorState: id -> [listed, status, name]
  staged,   \* events of the supervisor's handler that are not written yet
  inbox,    \* the supervisor's mailbox
  wait,     \* what its handler waits for: [for, on, todo]
  active,   \* last_activity: the sessions it counts as loaded
  idle,     \* of these, the ones quiet for the idle timeout
  own,      \* a session's journal: id -> [told, status, name]
  ses,      \* a session's actor: id -> [up, box, asks, reported, turn]
  call,     \* a create as its caller sees it: id -> [recorded, queued, answered]
  gone,     \* deletes that were answered
  spent     \* what of the bounds is used

vars == <<rows, staged, inbox, wait, active, idle, own, ses, call, gone, spent>>

Statuses == {"Provisioning", "Idle", "Running"}
Names    == {"", "derived", "tool", "user"}
Nobody   == "nobody"
NoWait   == [for |-> "none", on |-> Nobody, todo |-> {}]

ASSUME SessionsAssumption == Nobody \notin Sessions

TypeOK ==
  /\ rows \in [Sessions -> [listed : BOOLEAN, status : Statuses, name : Names]]
  /\ wait \in [for : {"none", "offload", "delete", "shutdown"},
               on : Sessions \union {Nobody}, todo : SUBSET Sessions]
  /\ wait.for = "none" => wait = NoWait
  /\ wait.for = "delete" => wait.on # Nobody
  /\ active \subseteq Sessions /\ idle \subseteq active /\ gone \subseteq Sessions
  /\ own \in [Sessions -> [told : BOOLEAN, status : Statuses, name : Names]]
  /\ \A s \in Sessions : /\ ses[s].up \in BOOLEAN /\ ses[s].turn \in BOOLEAN
                         /\ ses[s].asks \in Names
                         /\ ses[s].reported \in Statuses \union {"unknown"}
  /\ call \in [Sessions -> [recorded : BOOLEAN, queued : BOOLEAN, answered : BOOLEAN]]

------------------------------------------------------------------------------
(* The registry.                                                            *)

\* SessionSupervisor::apply_event.
ApplyEvent(r, e) ==
  CASE e.t = "SessionCreated" ->
         [r EXCEPT ![e.id] = [listed |-> TRUE, status |-> "Provisioning", name |-> e.name]]
    [] e.t = "SessionDeleted" -> [r EXCEPT ![e.id].listed = FALSE]
    [] e.t = "SessionNamed" ->
         IF r[e.id].listed THEN [r EXCEPT ![e.id].name = e.name] ELSE r
    [] e.t = "SessionStatusChanged" ->
         IF r[e.id].listed THEN [r EXCEPT ![e.id].status = e.status] ELSE r

\* A command to a session.  A cold one is brought back by it.
Send(sn, s, cmd) == [sn EXCEPT ![s].box = Append(@, cmd)]

\* reach, and a note that it was spoken to.
Reach(s) == active' = active \union {s} /\ idle' = idle \ {s}

\* The end of a create for its caller: recorded and, with it, queued.
Answered(c) == [c EXCEPT !.answered = c.recorded /\ c.queued]

Free == wait = NoWait /\ staged = <<>>

\* The write of a handler's event, of which none has two, and the acknowledgement
\* it was to make.
Persist ==
  LET e == staged[1] IN
  /\ staged # <<>>
  /\ rows' = ApplyEvent(rows, e)
  /\ staged' = <<>>
  /\ call' = IF e.t = "SessionCreated"
             THEN [call EXCEPT ![e.id] = Answered([@ EXCEPT !.recorded = TRUE])] ELSE call
  /\ ses' = IF e.t = "SessionNamed" /\ e.ack
            THEN [ses EXCEPT ![e.id].box = <<[t |-> "Renamed", name |-> e.name]>> \o @]
            ELSE ses
  /\ UNCHANGED <<inbox, wait, active, idle, own, gone, spent>>

------------------------------------------------------------------------------
(* The supervisor's handlers.                                               *)

\* Mutant: the caller is answered ahead of the record.
CreateAnswersFirst(s, name) ==
  /\ ses' = Send(ses, s, [t |-> "Create", name |-> name])
  /\ Reach(s)
  /\ staged' = <<[t |-> "SessionCreated", id |-> s, name |-> name]>>
  /\ call' = [call EXCEPT ![s].recorded = TRUE]
  /\ UNCHANGED <<wait, gone>>

\* One message creates the session; the record follows; the caller is
\* answered after both.
Create(s, name) ==
  /\ ses' = Send(ses, s, [t |-> "Create", name |-> name])
  /\ Reach(s)
  /\ staged' = <<[t |-> "SessionCreated", id |-> s, name |-> name]>>
  /\ UNCHANGED <<wait, call, gone>>

\* UserMessage, Answer, Stop, RetryStep and every read: routed to a session
\* that is listed, which loads it.
Forward(cmd) ==
  /\ IF rows[cmd.id].listed
     THEN ses' = Send(ses, cmd.id, [t |-> cmd.what]) /\ Reach(cmd.id)
     ELSE UNCHANGED <<ses, active, idle>>
  /\ UNCHANGED <<staged, wait, call, gone>>

\* SetSessionTitle: a resident session is told and none is woken.
SetSessionTitle(s) ==
  /\ IF rows[s].listed
     THEN /\ ses' = IF s \in active THEN Send(ses, s, [t |-> "TitleSet"]) ELSE ses
          /\ staged' = <<[t |-> "SessionNamed", id |-> s, name |-> "user", ack |-> FALSE]>>
     ELSE UNCHANGED <<ses, staged>>
  /\ UNCHANGED <<wait, active, idle, call, gone>>

RenameSession(cmd) ==
  /\ staged' = <<[t |-> "SessionNamed", id |-> cmd.id, name |-> cmd.name, ack |-> TRUE]>>
  /\ UNCHANGED <<ses, wait, active, idle, call, gone>>

\* Only a real transition is worth a write.
SessionStatusChanged(cmd) ==
  /\ staged' = IF rows[cmd.id].listed /\ rows[cmd.id].status # cmd.status
               THEN <<[t |-> "SessionStatusChanged", id |-> cmd.id, status |-> cmd.status]>>
               ELSE <<>>
  /\ UNCHANGED <<ses, wait, active, idle, call, gone>>

\* Delete: the session is loaded for it and awaited.
Delete(s) ==
  /\ IF rows[s].listed
     THEN /\ ses' = Send(ses, s, [t |-> "Delete"])
          /\ Reach(s)
          /\ wait' = [for |-> "delete", on |-> s, todo |-> {}]
     ELSE UNCHANGED <<ses, active, idle, wait>>
  /\ UNCHANGED <<staged, call, gone>>

\* offload_idle: chosen by what was last reported, asked one by one.
Tick ==
  /\ wait' = [for  |-> "offload", on |-> Nobody,
              todo |-> {s \in active \intersect idle :
                          ~rows[s].listed \/ rows[s].status \notin {"Running", "Provisioning"}}]
  /\ UNCHANGED <<staged, ses, active, idle, call, gone>>

Shutdown ==
  /\ wait' = [for |-> "shutdown", on |-> Nobody, todo |-> active]
  /\ UNCHANGED <<staged, ses, active, idle, call, gone>>

HandleCommand ==
  /\ Free /\ inbox # <<>>
  /\ inbox' = Tail(inbox)
  /\ LET cmd == Head(inbox) IN
       \/ cmd.t = "Create"               /\ Create(cmd.id, cmd.name)
       \/ cmd.t = "Forward"              /\ Forward(cmd)
       \/ cmd.t = "SetSessionTitle"      /\ SetSessionTitle(cmd.id)
       \/ cmd.t = "RenameSession"        /\ RenameSession(cmd)
       \/ cmd.t = "SessionStatusChanged" /\ SessionStatusChanged(cmd)
       \/ cmd.t = "Delete"               /\ Delete(cmd.id)
       \/ cmd.t = "Tick"                 /\ Tick
       \/ cmd.t = "Shutdown"             /\ Shutdown
  /\ UNCHANGED <<rows, own, spent>>

\* The next of the sessions a sweep or a shutdown asks, or the end of it.
AskNext ==
  /\ wait.for \in {"offload", "shutdown"} /\ wait.on = Nobody
  /\ \/ /\ wait.todo = {} /\ wait' = NoWait /\ UNCHANGED ses
     \/ \E s \in wait.todo :
          /\ ses' = Send(ses, s, [t |-> "PrepareOffload"])
          /\ wait' = [wait EXCEPT !.on = s, !.todo = @ \ {s}]
  /\ UNCHANGED <<rows, staged, inbox, active, idle, own, call, gone, spent>>

\* Mutant: a refusal is taken for an unload.
OffloadForgets(s, ok) ==
  /\ active' = active \ {s}
  /\ idle' = idle \ {s}
  /\ wait' = [wait EXCEPT !.on = Nobody]
  /\ UNCHANGED <<staged, gone>>

\* Forget it, or start its clock again.  A shutdown forgets it either way.
OffloadAnswered(s, ok) ==
  /\ active' = IF ok \/ wait.for = "shutdown" THEN active \ {s} ELSE active
  /\ idle' = idle \ {s}
  /\ wait' = [wait EXCEPT !.on = Nobody]
  /\ UNCHANGED <<staged, gone>>

\* Mutant: the handler never returns from its wait.
DeleteAnsweredWaitsOn(s) ==
  /\ active' = active \ {s} /\ idle' = idle \ {s}
  /\ wait' = [wait EXCEPT !.on = Nobody]
  /\ gone' = gone \union {s}
  /\ staged' = <<[t |-> "SessionDeleted", id |-> s]>>

\* The caller is told before the record goes.
DeleteAnswered(s) ==
  /\ active' = active \ {s} /\ idle' = idle \ {s}
  /\ wait' = NoWait
  /\ gone' = gone \union {s}
  /\ staged' = <<[t |-> "SessionDeleted", id |-> s]>>

------------------------------------------------------------------------------
(* A session, as far as the supervisor and it concern each other.           *)

\* report_status: after a write and at load, when it differs from the last.
Report(s, status) ==
  inbox' = IF ses'[s].up /\ ses[s].reported # status
           THEN Append(inbox, [t |-> "SessionStatusChanged", id |-> s, status |-> status])
           ELSE inbox

Serves(s, what) == ses[s].up /\ ses[s].asks = "" /\ ses[s].box # <<>>
                   /\ Head(ses[s].box).t = what

Took(s) == [ses EXCEPT ![s].box = Tail(@)]

\* Mutant: what it loads is taken for reported.
LoadSilently(s) ==
  /\ ~ses[s].up /\ ses[s].box # <<>>
  /\ ses' = [ses EXCEPT ![s].up = TRUE, ![s].reported = own[s].status]
  /\ UNCHANGED <<rows, staged, inbox, wait, active, idle, own, call, gone, spent>>

\* A command brings a cold session back; it adopts what its journal says and
\* reports once, whatever it was.
Load(s) ==
  /\ ~ses[s].up /\ ses[s].box # <<>>
  /\ ses' = [ses EXCEPT ![s].up = TRUE,
                        ![s].reported = IF own[s].told THEN own[s].status ELSE "unknown"]
  /\ IF own[s].told THEN Report(s, own[s].status) ELSE UNCHANGED inbox
  /\ UNCHANGED <<rows, staged, wait, active, idle, own, call, gone, spent>>

\* A batch of the session that leaves this status behind.
Settles(s, sn, status) ==
  /\ ses' = [sn EXCEPT ![s].reported = status]
  /\ own' = [own EXCEPT ![s].status = status]
  /\ Report(s, status)
  /\ UNCHANGED <<rows, staged, wait, active, idle, call, gone, spent>>

\* CoreCommand::Create: the spec, then the first message as a self-send.
BeCreated(s) ==
  /\ Serves(s, "Create")
  /\ own' = [own EXCEPT ![s].told = TRUE, ![s].name = Head(ses[s].box).name]
  /\ ses' = [Send(Took(s), s, [t |-> "Message", first |-> TRUE]) EXCEPT
               ![s].reported = own[s].status]
  /\ Report(s, own[s].status)
  /\ UNCHANGED <<rows, staged, wait, active, idle, call, gone, spent>>

\* A message; an untitled session first has its name written by the supervisor
\* and waits for that.
TakeMessage(s) ==
  LET first == "first" \in DOMAIN Head(ses[s].box) IN
  /\ Serves(s, "Message")
  /\ IF own[s].told /\ own[s].name = ""
     THEN /\ ses' = [ses EXCEPT ![s].asks = "derived"]
          /\ inbox' = Append(inbox, [t |-> "RenameSession", id |-> s, name |-> "derived"])
          /\ UNCHANGED call
     ELSE /\ ses' = Took(s)
          /\ call' = IF first THEN [call EXCEPT ![s] = Answered([@ EXCEPT !.queued = TRUE])]
                     ELSE call
          /\ UNCHANGED inbox
  /\ UNCHANGED <<rows, staged, wait, active, idle, own, gone, spent>>

\* set_session_title, by the agent at work.
SetTitle(s) ==
  /\ Serves(s, "SetTitle")
  /\ ses' = [ses EXCEPT ![s].asks = "tool"]
  /\ inbox' = Append(inbox, [t |-> "RenameSession", id |-> s, name |-> "tool"])
  /\ UNCHANGED <<rows, staged, wait, active, idle, own, call, gone, spent>>

\* The supervisor's acknowledgement, which goes ahead of the mailbox.
Named(s) ==
  /\ ses[s].asks # "" /\ Head(ses[s].box).t = "Renamed"
  /\ own' = [own EXCEPT ![s].name = ses[s].asks]
  /\ ses' = [ses EXCEPT ![s].asks = "",
               ![s].box = IF ses[s].asks = "tool" THEN Tail(Tail(@)) ELSE Tail(@)]
  /\ UNCHANGED <<rows, staged, inbox, wait, active, idle, call, gone, spent>>

TitleSet(s) ==
  /\ Serves(s, "TitleSet")
  /\ ses' = Took(s)
  /\ own' = IF own[s].told THEN [own EXCEPT ![s].name = "user"] ELSE own
  /\ UNCHANGED <<rows, staged, inbox, wait, active, idle, call, gone, spent>>

Read(s) ==
  /\ Serves(s, "Read")
  /\ ses' = Took(s)
  /\ UNCHANGED <<rows, staged, inbox, wait, active, idle, own, call, gone, spent>>

\* FinishProvisioning, by the task a create or a load has started.
Provisioned(s) ==
  /\ ses[s].up /\ ses[s].asks = "" /\ own[s].told /\ own[s].status = "Provisioning"
  /\ Settles(s, ses, "Idle")

\* An agent begins by itself: with what is queued, or on a timer.
AgentBegins(s) ==
  /\ ses[s].up /\ own[s].told /\ own[s].status = "Idle" /\ ~ses[s].turn
  /\ spent.turns < MaxTurns
  /\ spent' = [spent EXCEPT !.turns = @ + 1]
  /\ ses' = [Send(ses, s, [t |-> "Started"]) EXCEPT ![s].turn = TRUE]
  /\ UNCHANGED <<rows, staged, inbox, wait, active, idle, own, call, gone>>

AgentTitles(s) ==
  /\ ses[s].up /\ ses[s].turn /\ own[s].name # "tool"
  /\ \A i \in DOMAIN ses[s].box : ses[s].box[i].t # "SetTitle"
  /\ ses' = Send(ses, s, [t |-> "SetTitle"])
  /\ UNCHANGED <<rows, staged, inbox, wait, active, idle, own, call, gone, spent>>

AgentEnds(s) ==
  /\ ses[s].up /\ ses[s].turn
  /\ ses' = [Send(ses, s, [t |-> "Outcome"]) EXCEPT ![s].turn = FALSE]
  /\ UNCHANGED <<rows, staged, inbox, wait, active, idle, own, call, gone, spent>>

Started(s) == Serves(s, "Started") /\ Settles(s, Took(s), "Running")
Outcome(s) == Serves(s, "Outcome") /\ Settles(s, Took(s), "Idle")

Busy(s) == own[s].status # "Idle"

Cold == [up |-> FALSE, box |-> <<>>, asks |-> "", reported |-> "unknown", turn |-> FALSE]

\* Mutant: whatever runs.
PrepareOffloadAnyway(s) ==
  /\ Serves(s, "PrepareOffload")
  /\ ses' = [ses EXCEPT ![s] = Cold] /\ OffloadAnswered(s, TRUE)
  /\ UNCHANGED <<rows, inbox, own, call, spent>>

\* A session that was never told what it is has nothing to keep it.
PrepareOffload(s) ==
  /\ Serves(s, "PrepareOffload")
  /\ IF own[s].told /\ Busy(s)
     THEN ses' = Took(s) /\ OffloadAnswered(s, FALSE)
     ELSE ses' = [ses EXCEPT ![s] = Cold] /\ OffloadAnswered(s, TRUE)
  /\ UNCHANGED <<rows, inbox, own, call, spent>>

BeDeleted(s) ==
  /\ Serves(s, "Delete")
  /\ ses' = [ses EXCEPT ![s] = Cold]
  /\ DeleteAnswered(s)
  /\ UNCHANGED <<rows, inbox, own, call, spent>>

SessionSteps(s) ==
  \/ Load(s) \/ BeCreated(s) \/ TakeMessage(s) \/ SetTitle(s) \/ Named(s)
  \/ TitleSet(s) \/ Read(s) \/ Provisioned(s) \/ Started(s) \/ Outcome(s)
  \/ PrepareOffload(s) \/ BeDeleted(s)

------------------------------------------------------------------------------
(* People, the clock, and the end of the process.                           *)

Calls ==
  [t : {"Create"}, id : Sessions, name : {"", "user"}]
    \union [t : {"SetSessionTitle", "Delete"}, id : Sessions]
    \union [t : {"Forward"}, id : Sessions, what : {"Message", "Read"}]
    \union [t : {"Tick", "Shutdown"}]

Request(cmd) ==
  /\ IF cmd.t = "Create" THEN cmd.id \notin spent.used ELSE spent.calls < MaxCalls
  /\ cmd.t \in {"Forward", "SetSessionTitle", "Delete"} => cmd.id \in spent.used
  /\ inbox' = Append(inbox, cmd)
  /\ spent' = [spent EXCEPT !.calls = IF cmd.t = "Create" THEN @ ELSE @ + 1,
                            !.used = IF cmd.t = "Create" THEN @ \union {cmd.id} ELSE @,
                            !.closed = @ \/ cmd.t = "Shutdown"]
  /\ UNCHANGED <<rows, staged, wait, active, idle, own, ses, call, gone>>

GoesQuiet(s) ==
  /\ s \in active \ idle
  /\ idle' = idle \union {s}
  /\ UNCHANGED <<rows, staged, inbox, wait, active, own, ses, call, gone, spent>>

\* The journals stay.  Nothing is loaded at boot.
Crash ==
  /\ spent.crashes < MaxCrashes
  /\ spent' = [spent EXCEPT !.crashes = @ + 1]
  /\ staged' = <<>> /\ inbox' = <<>> /\ wait' = NoWait
  /\ active' = {} /\ idle' = {}
  /\ ses' = [s \in Sessions |-> Cold]
  /\ UNCHANGED <<rows, own, call, gone>>

Init ==
  /\ rows = [s \in Sessions |-> [listed |-> FALSE, status |-> "Provisioning", name |-> ""]]
  /\ staged = <<>> /\ inbox = <<>> /\ wait = NoWait
  /\ active = {} /\ idle = {} /\ gone = {}
  /\ own = [s \in Sessions |-> [told |-> FALSE, status |-> "Provisioning", name |-> ""]]
  /\ ses = [s \in Sessions |-> Cold]
  /\ call = [s \in Sessions |-> [recorded |-> FALSE, queued |-> FALSE, answered |-> FALSE]]
  /\ spent = [calls |-> 0, turns |-> 0, crashes |-> 0, used |-> {}, closed |-> FALSE]

Next ==
  \/ HandleCommand \/ Persist \/ AskNext
  \/ \E s \in Sessions : SessionSteps(s)
  \/ \E s \in Sessions : AgentBegins(s) \/ AgentTitles(s) \/ AgentEnds(s)
  \/ \E cmd \in Calls : Request(cmd)
  \/ \E s \in Sessions : GoesQuiet(s)
  \/ Crash

Spec == Init /\ [][Next]_vars

\* Mailboxes are served and writes come through.
FairSpec ==
  /\ Spec
  /\ WF_vars(HandleCommand) /\ WF_vars(Persist) /\ WF_vars(AskNext)
  /\ \A s \in Sessions : WF_vars(SessionSteps(s))

------------------------------------------------------------------------------
(* Properties.                                                              *)

(* A caller that was given an id holds one that both journals hold, through *)
(* any crash, until it is deleted: the create answers after its record and  *)
(* after the session took the first message.                                *)
HeldIsRecorded ==
  \A s \in Sessions : call[s].answered /\ s \notin gone => own[s].told /\ rows[s].listed

(* Every loaded session is one the sweep looks at (last_activity), so none  *)
(* is left warm with nobody to unload it, whatever was refused, renamed or  *)
(* deleted.  A shutdown forgets on purpose.                                 *)
LoadedIsSwept ==
  ~spent.closed => \A s \in Sessions : ses[s].up => s \in active

(* While a session is loaded, what the list shows of it or is about to be   *)
(* told is what the session's own journal says: the copy lags, and never    *)
(* misses a change, a load after a crash included.                          *)
RowFollows ==
  \A s \in Sessions : (ses[s].up /\ own[s].told /\ rows[s].listed) =>
    LET news == {i \in DOMAIN inbox : inbox[i].t = "SessionStatusChanged" /\ inbox[i].id = s}
        due  == {i \in DOMAIN staged : staged[i].t = "SessionStatusChanged" /\ staged[i].id = s}
    IN  IF news # {} THEN inbox[CHOOSE i \in news : \A j \in news : j <= i].status = own[s].status
        ELSE IF due # {} THEN staged[1].status = own[s].status
        ELSE rows[s].status = own[s].status

(* A sweep works from statuses it was told of earlier, and still unloads no *)
(* session whose journal says it is running or provisioning.                *)
SweepSparesWork ==
  [][\A s \in Sessions :
       ses[s].up /\ ~ses'[s].up /\ own[s].told /\ Busy(s) =>
         s \in gone' \/ spent'.crashes > spent.crashes]_vars

(* The supervisor's mailbox, which has to stay free to serve every other    *)
(* request (supervisor.rs), is free again after whatever it waits for.      *)
StaysFree == wait.for # "none" ~> wait.for = "none"
=============================================================================
