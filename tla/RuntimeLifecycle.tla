-------------------------- MODULE RuntimeLifecycle --------------------------
(***************************************************************************)
(* A session's runtimes: sessions/session_actor/lifecycle.rs, with what    *)
(* asks for one (core.rs, sub_session.rs, turns.rs) and what the agents    *)
(* hear of it (core.rs, sessions/lifecycle_routing.rs).                    *)
(*                                                                         *)
(* A session owns one runtime, and each sub session that asked for an      *)
(* environment of its own owns another. The record of a runtime is         *)
(* journaled; the create itself runs off the mailbox, on a task that dies  *)
(* with the process, and reports through the mailbox. An agent does not    *)
(* read the record: it holds a gate, set when it is spawned and moved by   *)
(* the lifecycle records it is sent.                                       *)
(*                                                                         *)
(* A create is the vendor's to answer: it succeeds, fails for now, or is   *)
(* refused for good. A message is only a message, and a turn only that a   *)
(* turn began.                                                             *)
(***************************************************************************)
EXTENDS Naturals, Sequences, FiniteSets

CONSTANTS
    Main,           \* the session's own id, and its main agent's
    Subs,           \* the sub sessions that ask for a runtime of their own
    MaxMessages,    \* bound: messages sent to the session's agents
    MaxUnloads      \* bound: crashes and offloads

ASSUME LifecycleAssumption == Main \notin Subs /\ MaxMessages \in Nat /\ MaxUnloads \in Nat

Owners == {Main} \cup Subs

VARIABLES
    created,    \* the owners the journal knows
    runtimes,   \* the record of each owner's runtime
    fatal,      \* the session is beyond recovery
    owed,       \* the agents whose journaled queue is not empty
    live,       \* whether the session is loaded
    mailbox,    \* the session's own commands, in order
    creates,    \* the create tasks alive
    nextAt,     \* the clock that names incarnations
    resident,   \* the agents that are spawned
    gate,       \* each agent's ready flag
    inbox,      \* each agent's mailbox
    used,       \* the owners whose runtime a turn has begun on
    spent       \* what is used up of the bounds

journal == <<created, runtimes, fatal, owed>>
agents == <<resident, gate, inbox>>
vars == <<journal, live, mailbox, creates, nextAt, agents, used, spent>>

-----------------------------------------------------------------------------
(* Values *)

\* ProvisioningState; "None" is an owner whose runtime was not requested yet.
Provisioning == [is : {"None", "InFlight", "Ready", "Failed"}, at : Nat]

Create == [owner : Owners, at : Nat]

Outcome == {"Succeeded", "Failed", "Refused"}

Command ==
    [kind : {"Provision"}, owner : Owners]
    \cup [kind : {"FinishProvisioning"}, owner : Owners, outcome : Outcome]

\* What reaches an agent: a record that its runtime is there or is not, or a
\* message.
AgentCommand == {"Ready", "NotReady", "Message"}

Unfinished(o) == runtimes[o].is \in {"InFlight", "Failed"}

\* What spawn_agent computes the gate from.
ReadyOn(o) == runtimes[o].is = "Ready" /\ ~fatal

Serving(kind) == live /\ mailbox # <<>> /\ Head(mailbox).kind = kind

\* A record is handed to the agent whose log a person reads: the main agent.
Records(what) == inbox' = [inbox EXCEPT ![Main] = Append(@, what)]

-----------------------------------------------------------------------------
(* The session *)

\* Create journals the spec, FinishCreate follows the write of a sub session's
\* entry; each spawns the agent, gate closed, and asks for the runtime.
CreateOwner(o) ==
    /\ live
    /\ o \notin created
    /\ o # Main => Main \in created
    /\ created' = created \cup {o}
    /\ resident' = resident \cup {o}
    /\ gate' = [gate EXCEPT ![o] = FALSE]
    /\ mailbox' = Append(mailbox, [kind |-> "Provision", owner |-> o])
    /\ UNCHANGED <<runtimes, fatal, owed, live, creates, nextAt, inbox, used, spent>>

\* Mutant: a create already in flight puts the command off.
MutProvision ==
    /\ Serving("Provision")
    /\ LET o == Head(mailbox).owner
       IN  IF fatal \/ runtimes[o].is = "Ready"
           THEN mailbox' = Tail(mailbox) /\ UNCHANGED <<runtimes, creates, nextAt, inbox>>
           ELSE IF runtimes[o].is = "InFlight"
           THEN /\ mailbox' = Append(Tail(mailbox), Head(mailbox))
                /\ UNCHANGED <<runtimes, creates, nextAt, inbox>>
           ELSE /\ mailbox' = Tail(mailbox)
                /\ runtimes' = [runtimes EXCEPT ![o] = [is |-> "InFlight", at |-> nextAt]]
                /\ creates' = creates \cup {[owner |-> o, at |-> nextAt]}
                /\ nextAt' = nextAt + 1
                /\ Records("NotReady")
    /\ UNCHANGED <<created, fatal, owed, live, resident, gate, used, spent>>

\* A record that is Ready is not built again; one that is InFlight or Failed
\* is, under a new incarnation.
Provision ==
    /\ Serving("Provision")
    /\ mailbox' = Tail(mailbox)
    /\ LET o == Head(mailbox).owner
       IN  IF fatal \/ runtimes[o].is = "Ready"
           THEN UNCHANGED <<runtimes, creates, nextAt, inbox>>
           ELSE /\ runtimes' = [runtimes EXCEPT ![o] = [is |-> "InFlight", at |-> nextAt]]
                /\ creates' = creates \cup {[owner |-> o, at |-> nextAt]}
                /\ nextAt' = nextAt + 1
                /\ Records("NotReady")
    /\ UNCHANGED <<created, fatal, owed, live, resident, gate, used, spent>>

\* The vendor answers, and the task reports.
CreateEnds(c, outcome) ==
    /\ creates' = creates \ {c}
    /\ mailbox' = Append(mailbox, [kind |-> "FinishProvisioning", owner |-> c.owner,
                                   outcome |-> outcome])
    /\ UNCHANGED <<journal, live, nextAt, agents, used, spent>>

\* Mutant: a failure is journaled and not recorded on the agent.
MutFinishProvisioning ==
    /\ Serving("FinishProvisioning")
    /\ mailbox' = Tail(mailbox)
    /\ LET cmd == Head(mailbox)
           ready == cmd.outcome = "Succeeded"
       IN  /\ runtimes' = [runtimes EXCEPT ![cmd.owner].is = IF ready THEN "Ready" ELSE "Failed"]
           /\ fatal' = (fatal \/ cmd.outcome = "Refused")
           /\ IF ready THEN Records("Ready") ELSE inbox' = inbox
    /\ UNCHANGED <<created, owed, live, creates, nextAt, resident, gate, used, spent>>

\* The outcome, whichever create of the owner it is of.
FinishProvisioning ==
    /\ Serving("FinishProvisioning")
    /\ mailbox' = Tail(mailbox)
    /\ LET cmd == Head(mailbox)
           ready == cmd.outcome = "Succeeded"
       IN  /\ runtimes' = [runtimes EXCEPT ![cmd.owner].is = IF ready THEN "Ready" ELSE "Failed"]
           /\ fatal' = (fatal \/ cmd.outcome = "Refused")
           /\ Records(IF ready THEN "Ready" ELSE "NotReady")
    /\ UNCHANGED <<created, owed, live, creates, nextAt, resident, gate, used, spent>>

\* Mutant: a session that does not know yet what it is takes messages.
MutUserMessage(o) ==
    /\ live
    /\ ~fatal
    /\ spent.messages < MaxMessages
    /\ spent' = [spent EXCEPT !.messages = @ + 1]
    /\ resident' = resident \cup {o}
    /\ gate' = IF o \in resident THEN gate ELSE [gate EXCEPT ![o] = ReadyOn(o)]
    /\ inbox' = [inbox EXCEPT ![o] = Append(@, "Message")]
    /\ UNCHANGED <<journal, live, mailbox, creates, nextAt, used>>

\* A message goes to the agent, spawned if it is not; and one that finds the
\* session's own create failed asks for it again.
UserMessage(o) ==
    /\ live
    /\ ~fatal
    /\ o \in created
    /\ spent.messages < MaxMessages
    /\ spent' = [spent EXCEPT !.messages = @ + 1]
    /\ resident' = resident \cup {o}
    /\ gate' = IF o \in resident THEN gate ELSE [gate EXCEPT ![o] = ReadyOn(o)]
    /\ inbox' = [inbox EXCEPT ![o] = Append(@, "Message")]
    /\ mailbox' = IF runtimes[Main].is = "Failed"
                  THEN Append(mailbox, [kind |-> "Provision", owner |-> Main])
                  ELSE mailbox
    /\ UNCHANGED <<journal, live, creates, nextAt, used>>

\* The agent: a message is journaled, a record moves the gate, and a turn
\* begins when the gate is open and something is owed. A record that closes
\* the gate, or leaves it as it is, starts nothing.
AgentHandles(o) ==
    /\ live
    /\ o \in resident
    /\ inbox[o] # <<>>
    /\ inbox' = [inbox EXCEPT ![o] = Tail(@)]
    /\ LET cmd == Head(inbox[o])
           open == IF cmd = "Message" THEN gate[o] ELSE cmd = "Ready"
           waiting == owed \cup (IF cmd = "Message" THEN {o} ELSE {})
           begins == open /\ o \in waiting /\ (cmd = "Message" \/ ~gate[o])
       IN  /\ gate' = [gate EXCEPT ![o] = open]
           /\ owed' = IF begins THEN waiting \ {o} ELSE waiting
           /\ used' = IF begins THEN used \cup {o} ELSE used
    /\ UNCHANGED <<created, runtimes, fatal, live, mailbox, creates, nextAt, resident, spent>>

\* A crash, or an offload, which a create in flight refuses.
Unload ==
    /\ live
    /\ spent.unloads < MaxUnloads
    /\ spent' = [spent EXCEPT !.unloads = @ + 1]
    /\ live' = FALSE
    /\ mailbox' = <<>> /\ creates' = {}
    /\ resident' = {}
    /\ gate' = [o \in Owners |-> FALSE]
    /\ inbox' = [o \in Owners |-> <<>>]
    /\ UNCHANGED <<journal, nextAt, used>>

\* Mutant: only a create that failed is attempted again.
MutLoad ==
    /\ ~live
    /\ live' = TRUE
    /\ resident' = {Main} \cap created
    /\ gate' = [gate EXCEPT ![Main] = ReadyOn(Main)]
    /\ \/ /\ fatal \/ ~\E o \in Owners : runtimes[o].is = "Failed"
          /\ UNCHANGED mailbox
       \/ \E o \in Owners :
             /\ ~fatal /\ runtimes[o].is = "Failed"
             /\ mailbox' = <<[kind |-> "Provision", owner |-> o]>>
    /\ UNCHANGED <<journal, creates, nextAt, inbox, used, spent>>

\* adopt: the main agent is spawned and the first runtime that is not finished
\* is asked for again. The order of the records is that of their random ids.
Load ==
    /\ ~live
    /\ live' = TRUE
    /\ resident' = {Main} \cap created
    /\ gate' = [gate EXCEPT ![Main] = ReadyOn(Main)]
    /\ \/ /\ fatal \/ ~\E o \in Owners : Unfinished(o)
          /\ UNCHANGED mailbox
       \/ \E o \in Owners :
             /\ ~fatal /\ Unfinished(o)
             /\ mailbox' = <<[kind |-> "Provision", owner |-> o]>>
    /\ UNCHANGED <<journal, creates, nextAt, inbox, used, spent>>

-----------------------------------------------------------------------------
(* The specification *)

Init ==
    /\ created = {} /\ fatal = FALSE /\ owed = {}
    /\ runtimes = [o \in Owners |-> [is |-> "None", at |-> 0]]
    /\ live = TRUE /\ mailbox = <<>> /\ creates = {} /\ nextAt = 1
    /\ resident = {}
    /\ gate = [o \in Owners |-> FALSE]
    /\ inbox = [o \in Owners |-> <<>>]
    /\ used = {}
    /\ spent = [messages |-> 0, unloads |-> 0]

Next ==
    \/ \E o \in Owners : CreateOwner(o) \/ UserMessage(o) \/ AgentHandles(o)
    \/ Provision \/ FinishProvisioning
    \/ \E c \in creates, outcome \in Outcome : CreateEnds(c, outcome)
    \/ Unload \/ Load

Spec == Init /\ [][Next]_vars

\* The executor serves the mailboxes, the vendor answers in the end, and a
\* session that is unloaded is loaded again.
FairSpec ==
    /\ Spec
    /\ WF_vars(Provision \/ FinishProvisioning)
    /\ WF_vars(\E c \in creates, outcome \in Outcome : CreateEnds(c, outcome))
    /\ WF_vars(\E o \in Owners : AgentHandles(o))
    /\ WF_vars(Load)

-----------------------------------------------------------------------------
(* Properties *)

\* The types of the variables.
TypeOK ==
    /\ created \subseteq Owners /\ owed \subseteq created
    /\ runtimes \in [Owners -> Provisioning]
    /\ fatal \in BOOLEAN /\ live \in BOOLEAN
    /\ mailbox \in Seq(Command)
    /\ creates \subseteq Create
    /\ nextAt \in Nat
    /\ resident \subseteq created
    /\ gate \in [Owners -> BOOLEAN]
    /\ inbox \in [Owners -> Seq(AgentCommand)]
    /\ used \subseteq created
    /\ spent \in [messages : Nat, unloads : Nat]

\* Somebody is at work on every create the journal says is in flight: its task,
\* its outcome or the command that starts it again (on_load, Provision).
Attended(o) ==
    \/ \E c \in creates : c.owner = o
    \/ \E i \in DOMAIN mailbox : mailbox[i].owner = o

InFlightAttended ==
    live /\ ~fatal => \A o \in Owners : runtimes[o].is = "InFlight" => Attended(o)

\* An agent that has handled what it was sent agrees with the journal about the
\* runtime it runs on: its gate is closed while there is none and open once
\* there is one (ready_on, record_lifecycle, runtime_readiness).
GateFollowsRecord ==
    live => \A o \in resident :
        inbox[o] = <<>> =>
            /\ gate[o] => runtimes[o].is = "Ready"
            /\ ReadyOn(o) => gate[o]

\* A sandbox is built again only while no turn has begun on it, so a rebuild
\* never takes a workspace away from someone who used it (Provision). The code
\* breaks this when two creates of one runtime overlap; no run checks it.
NoRebuildUnderWork ==
    [][ \A c \in creates' \ creates : c.owner \notin used ]_vars

\* A create that is in flight is settled, through crashes and loads, unless
\* the session is beyond recovery.
CreateSettles ==
    \A o \in Owners : runtimes[o].is = "InFlight" ~> (runtimes[o].is # "InFlight" \/ fatal)

=============================================================================
