----------------------- MODULE RuntimeLifecycleProofs ------------------------
(***************************************************************************)
(* Proofs about RuntimeLifecycle: its types for every set of sub sessions, *)
(* and, for a session none of whose sub sessions asks for a runtime of its *)
(* own, that a create in flight has somebody at work on it and that the    *)
(* agent's gate follows the record.                                        *)
(***************************************************************************)
EXTENDS RuntimeLifecycle, TLAPS, SequenceTheorems

-----------------------------------------------------------------------------
(* Mailboxes *)

\* A message joins at the end.
LEMMA Joined ==
    ASSUME NEW S, NEW q \in Seq(S), NEW m \in S
    PROVE  /\ Append(q, m) \in Seq(S) /\ Append(q, m) # <<>>
           /\ Len(q) \in Nat /\ DOMAIN q = 1..Len(q)
           /\ DOMAIN Append(q, m) = 1..(Len(q) + 1)
           /\ \A i \in 1..Len(q) : Append(q, m)[i] = q[i]
           /\ Append(q, m)[Len(q) + 1] = m
BY AppendProperties, LenProperties

\* The first one leaves.
LEMMA Left ==
    ASSUME NEW S, NEW q \in Seq(S), q # <<>>
    PROVE  /\ Tail(q) \in Seq(S)
           /\ Head(q) \in S /\ Head(q) = q[1]
           /\ Len(q) \in Nat /\ Len(q) >= 1
           /\ DOMAIN q = 1..Len(q)
           /\ DOMAIN Tail(q) = 1..(Len(q) - 1)
           /\ \A i \in 1..(Len(q) - 1) : Tail(q)[i] = q[i + 1]
BY HeadTailProperties, LenProperties

\* The command at the head of the mailbox.
LEMMA ServingHead ==
    ASSUME TypeOK, NEW kind, Serving(kind)
    PROVE  /\ live /\ mailbox # <<>> /\ Tail(mailbox) \in Seq(Command)
           /\ Head(mailbox) \in Command /\ Head(mailbox).kind = kind
           /\ Head(mailbox).owner \in Owners
<1>1. live /\ mailbox # <<>> /\ mailbox \in Seq(Command) /\ Head(mailbox).kind = kind
  BY DEF Serving, TypeOK
<1>2. Tail(mailbox) \in Seq(Command) /\ Head(mailbox) \in Command
  BY <1>1, Left
<1>3. Head(mailbox).owner \in Owners
  BY <1>2 DEF Command
<1> QED
  BY <1>1, <1>2, <1>3

\* A record joins the main agent's mailbox and no other.
LEMMA RecordsEffect ==
    ASSUME TypeOK, NEW what \in AgentCommand, Records(what)
    PROVE  /\ inbox' \in [Owners -> Seq(AgentCommand)]
           /\ inbox'[Main] = Append(inbox[Main], what)
<1>1. inbox \in [Owners -> Seq(AgentCommand)] /\ Main \in Owners
  BY DEF TypeOK, Owners
<1>2. PICK q \in Seq(AgentCommand) : q = Append(inbox[Main], what)
  BY <1>1, Joined
<1>3. inbox' = [inbox EXCEPT ![Main] = q]
  BY <1>2 DEF Records
<1> QED
  BY <1>1, <1>2, <1>3

\* A command joins the session's mailbox.
LEMMA Asked ==
    ASSUME TypeOK, NEW cmd \in Command
    PROVE  Append(mailbox, cmd) \in Seq(Command)
BY Joined DEF TypeOK

-----------------------------------------------------------------------------
(* What a step does *)

LEMMA CreateOwnerEffect ==
    ASSUME TypeOK, NEW o \in Owners, CreateOwner(o)
    PROVE  /\ TypeOK' /\ live /\ o \notin created /\ o \in created' /\ o \in resident'
           /\ created \subseteq created' /\ resident \subseteq resident'
           /\ gate'[o] = FALSE
           /\ \E cmd \in Command : cmd.owner = o /\ mailbox' = Append(mailbox, cmd)
           /\ UNCHANGED <<runtimes, fatal, live, creates, inbox>>
<1>1. PICK cmd \in Command : cmd = [kind |-> "Provision", owner |-> o]
  BY DEF Command
<1>2. mailbox' = Append(mailbox, cmd) /\ mailbox' \in Seq(Command) /\ cmd.owner = o
  BY <1>1, Asked DEF CreateOwner
<1>3. gate' \in [Owners -> BOOLEAN] /\ gate'[o] = FALSE
  BY FALSE \in BOOLEAN DEF CreateOwner, TypeOK
<1>4. /\ live /\ o \notin created /\ created' = created \cup {o} /\ resident' = resident \cup {o}
      /\ UNCHANGED <<runtimes, fatal, owed, live, creates, nextAt, inbox, used, spent>>
  BY DEF CreateOwner
<1>5. TypeOK'
  BY <1>2, <1>3, <1>4 DEF TypeOK
<1> QED
  BY <1>2, <1>3, <1>4, <1>5

LEMMA ProvisionEffect ==
    ASSUME TypeOK, Provision
    PROVE  /\ TypeOK' /\ live /\ mailbox # <<>> /\ mailbox' = Tail(mailbox)
           /\ Head(mailbox).owner \in Owners
           /\ \/ /\ fatal \/ runtimes[Head(mailbox).owner].is = "Ready"
                 /\ UNCHANGED <<runtimes, creates, inbox>>
              \/ /\ runtimes'[Head(mailbox).owner].is = "InFlight"
                 /\ \E c \in creates' : c.owner = Head(mailbox).owner
                 /\ creates \subseteq creates'
                 /\ inbox'[Main] = Append(inbox[Main], "NotReady")
           /\ UNCHANGED <<created, fatal, live, resident, gate>>
<1>1. /\ live /\ mailbox # <<>> /\ Tail(mailbox) \in Seq(Command) /\ mailbox' = Tail(mailbox)
      /\ Head(mailbox).owner \in Owners
      /\ UNCHANGED <<created, fatal, owed, live, resident, gate, used, spent>>
  BY ServingHead DEF Provision
<1>2. PICK o \in Owners : o = Head(mailbox).owner
  BY <1>1
<1>3. CASE fatal \/ runtimes[o].is = "Ready"
  <2>1. UNCHANGED <<runtimes, creates, nextAt, inbox>>
    BY <1>2, <1>3 DEF Provision
  <2>2. TypeOK'
    BY <1>1, <2>1 DEF TypeOK
  <2> QED
    BY <1>1, <1>2, <1>3, <2>1, <2>2
<1>4. CASE ~(fatal \/ runtimes[o].is = "Ready")
  <2>1. /\ runtimes' = [runtimes EXCEPT ![o] = [is |-> "InFlight", at |-> nextAt]]
        /\ creates' = creates \cup {[owner |-> o, at |-> nextAt]}
        /\ nextAt' = nextAt + 1
        /\ Records("NotReady")
    BY <1>2, <1>4 DEF Provision
  <2>2. nextAt \in Nat /\ runtimes \in [Owners -> Provisioning] /\ creates \subseteq Create
    BY DEF TypeOK
  <2>3. PICK p \in Provisioning : p = [is |-> "InFlight", at |-> nextAt]
    BY <2>2 DEF Provisioning
  <2>4. runtimes' \in [Owners -> Provisioning] /\ runtimes'[o].is = "InFlight"
    BY <2>1, <2>2, <2>3
  <2>5. PICK c \in Create : c = [owner |-> o, at |-> nextAt]
    BY <2>2 DEF Create
  <2>6. creates' \subseteq Create /\ creates \subseteq creates' /\ c \in creates' /\ c.owner = o
    BY <2>1, <2>2, <2>5
  <2>7. inbox' \in [Owners -> Seq(AgentCommand)] /\ inbox'[Main] = Append(inbox[Main], "NotReady")
    BY <2>1, RecordsEffect DEF AgentCommand
  <2>8. TypeOK'
    BY <1>1, <2>1, <2>2, <2>4, <2>6, <2>7 DEF TypeOK
  <2> QED
    BY <1>1, <1>2, <2>4, <2>6, <2>7, <2>8
<1> QED
  BY <1>3, <1>4

LEMMA CreateEndsEffect ==
    ASSUME TypeOK, NEW c \in creates, NEW outcome \in Outcome, CreateEnds(c, outcome)
    PROVE  /\ TypeOK' /\ c.owner \in Owners /\ creates' = creates \ {c}
           /\ \E cmd \in Command : cmd.owner = c.owner /\ mailbox' = Append(mailbox, cmd)
           /\ UNCHANGED <<created, runtimes, fatal, live, resident, gate, inbox>>
<1>1. c.owner \in Owners
  BY DEF TypeOK, Create
<1>2. PICK cmd \in Command : cmd = [kind |-> "FinishProvisioning", owner |-> c.owner,
                                    outcome |-> outcome]
  BY <1>1 DEF Command
<1>3. mailbox' = Append(mailbox, cmd) /\ mailbox' \in Seq(Command) /\ cmd.owner = c.owner
  BY <1>2, Asked DEF CreateEnds
<1>4. /\ creates' = creates \ {c}
      /\ UNCHANGED <<created, runtimes, fatal, owed, live, nextAt, resident, gate, inbox, used, spent>>
  BY DEF CreateEnds, journal, agents
<1>5. TypeOK'
  BY <1>3, <1>4 DEF TypeOK
<1> QED
  BY <1>1, <1>3, <1>4, <1>5

LEMMA FinishEffect ==
    ASSUME TypeOK, FinishProvisioning
    PROVE  /\ TypeOK' /\ live /\ mailbox # <<>> /\ mailbox' = Tail(mailbox)
           /\ Head(mailbox).owner \in Owners
           /\ \/ /\ runtimes'[Head(mailbox).owner].is = "Ready"
                 /\ inbox'[Main] = Append(inbox[Main], "Ready")
              \/ /\ runtimes'[Head(mailbox).owner].is = "Failed"
                 /\ inbox'[Main] = Append(inbox[Main], "NotReady")
           /\ fatal => fatal'
           /\ UNCHANGED <<created, live, creates, resident, gate>>
<1>1. /\ live /\ mailbox # <<>> /\ Tail(mailbox) \in Seq(Command) /\ mailbox' = Tail(mailbox)
      /\ Head(mailbox).owner \in Owners
      /\ UNCHANGED <<created, owed, live, creates, nextAt, resident, gate, used, spent>>
  BY ServingHead DEF FinishProvisioning
<1>2. PICK o \in Owners : o = Head(mailbox).owner
  BY <1>1
<1>3. PICK is \in {"Ready", "Failed"} :
        is = IF Head(mailbox).outcome = "Succeeded" THEN "Ready" ELSE "Failed"
  OBVIOUS
<1>4. PICK what \in AgentCommand :
        what = IF Head(mailbox).outcome = "Succeeded" THEN "Ready" ELSE "NotReady"
  BY DEF AgentCommand
<1>5. runtimes' = [runtimes EXCEPT ![o].is = is] /\ Records(what)
  BY <1>2, <1>3, <1>4 DEF FinishProvisioning
<1>6. runtimes' \in [Owners -> Provisioning] /\ runtimes'[o].is = is
  BY <1>5 DEF TypeOK, Provisioning
<1>7. inbox' \in [Owners -> Seq(AgentCommand)] /\ inbox'[Main] = Append(inbox[Main], what)
  BY <1>5, RecordsEffect
<1>8. fatal' = (fatal \/ Head(mailbox).outcome = "Refused")
  BY DEF FinishProvisioning
<1>9. fatal' \in BOOLEAN /\ (fatal => fatal')
  BY <1>8
<1>10. TypeOK'
  BY <1>1, <1>6, <1>7, <1>9 DEF TypeOK
<1> QED
  BY <1>1, <1>2, <1>3, <1>4, <1>6, <1>7, <1>9, <1>10

LEMMA UserMessageEffect ==
    ASSUME TypeOK, NEW o \in Owners, UserMessage(o)
    PROVE  /\ TypeOK' /\ live /\ o \in created /\ o \in resident' /\ resident \subseteq resident'
           /\ \A r \in resident : gate'[r] = gate[r]
           /\ inbox'[o] = Append(inbox[o], "Message")
           /\ \A r \in Owners : r # o => inbox'[r] = inbox[r]
           /\ \/ mailbox' = mailbox
              \/ \E cmd \in Command : cmd.owner = Main /\ mailbox' = Append(mailbox, cmd)
           /\ UNCHANGED <<created, runtimes, fatal, live, creates>>
<1>1. /\ live /\ o \in created /\ resident' = resident \cup {o}
      /\ gate' = IF o \in resident THEN gate ELSE [gate EXCEPT ![o] = ReadyOn(o)]
      /\ spent' = [spent EXCEPT !.messages = @ + 1]
      /\ UNCHANGED <<created, runtimes, fatal, owed, live, creates, nextAt, used>>
  BY DEF UserMessage, journal
<1>2. PICK q \in Seq(AgentCommand) : q = Append(inbox[o], "Message")
  BY Joined DEF TypeOK, AgentCommand
<1>3. inbox' = [inbox EXCEPT ![o] = q]
  BY <1>2 DEF UserMessage
<1>4. /\ inbox' \in [Owners -> Seq(AgentCommand)]
      /\ inbox'[o] = q /\ \A r \in Owners : r # o => inbox'[r] = inbox[r]
  BY <1>3 DEF TypeOK
<1>5. PICK cmd \in Command : cmd = [kind |-> "Provision", owner |-> Main]
  BY DEF Command, Owners
<1>6. mailbox' = mailbox \/ mailbox' = Append(mailbox, cmd)
  BY <1>5 DEF UserMessage
<1>7. mailbox' \in Seq(Command) /\ cmd.owner = Main
  BY <1>5, <1>6, Asked DEF TypeOK
<1>8. PICK v \in BOOLEAN : v = ReadyOn(o)
  BY DEF ReadyOn
<1>9. gate' \in [Owners -> BOOLEAN] /\ \A r \in resident : gate'[r] = gate[r]
  BY <1>1, <1>8 DEF TypeOK
<1>10. spent' \in [messages : Nat, unloads : Nat]
  <2>1. spent \in [messages : Nat, unloads : Nat]
    BY DEF TypeOK
  <2>2. spent' = [spent EXCEPT !.messages = @ + 1]
    BY <1>1
  <2> QED
    BY <2>1, <2>2
<1>11. TypeOK'
  BY <1>1, <1>4, <1>7, <1>9, <1>10 DEF TypeOK
<1> QED
  BY <1>1, <1>2, <1>4, <1>6, <1>7, <1>9, <1>11

LEMMA AgentHandlesEffect ==
    ASSUME TypeOK, NEW o \in Owners, AgentHandles(o)
    PROVE  /\ TypeOK' /\ live /\ inbox[o] # <<>>
           /\ inbox'[o] = Tail(inbox[o])
           /\ \A r \in Owners : r # o => inbox'[r] = inbox[r] /\ gate'[r] = gate[r]
           /\ gate'[o] = IF Head(inbox[o]) = "Message" THEN gate[o] ELSE Head(inbox[o]) = "Ready"
           /\ UNCHANGED <<created, runtimes, fatal, live, mailbox, creates, resident>>
<1>1. /\ live /\ o \in resident /\ inbox[o] # <<>>
      /\ UNCHANGED <<created, runtimes, fatal, live, mailbox, creates, nextAt, resident, spent>>
  BY DEF AgentHandles
<1>2. PICK q \in Seq(AgentCommand) : q = Tail(inbox[o])
  BY <1>1, Left DEF TypeOK
<1>3. inbox' = [inbox EXCEPT ![o] = q]
  BY <1>2 DEF AgentHandles
<1>4. /\ inbox' \in [Owners -> Seq(AgentCommand)] /\ inbox'[o] = q
      /\ \A r \in Owners : r # o => inbox'[r] = inbox[r]
  BY <1>3 DEF TypeOK
<1>5. PICK v \in BOOLEAN :
        v = IF Head(inbox[o]) = "Message" THEN gate[o] ELSE Head(inbox[o]) = "Ready"
  <2>1. gate[o] \in BOOLEAN
    BY DEF TypeOK
  <2> QED
    BY <2>1
<1>6. gate' = [gate EXCEPT ![o] = v]
  BY <1>5 DEF AgentHandles
<1>7. /\ gate' \in [Owners -> BOOLEAN] /\ gate'[o] = v
      /\ \A r \in Owners : r # o => gate'[r] = gate[r]
  BY <1>6 DEF TypeOK
<1>8. o \in created
  BY <1>1 DEF TypeOK
<1>9. owed' \subseteq created /\ used' \subseteq created
  BY <1>8 DEF AgentHandles, TypeOK
<1>10. TypeOK'
  BY <1>1, <1>4, <1>7, <1>9 DEF TypeOK
<1> QED
  BY <1>1, <1>2, <1>4, <1>5, <1>7, <1>10

LEMMA UnloadEffect ==
    ASSUME TypeOK, Unload
    PROVE  /\ TypeOK' /\ ~live' /\ mailbox' = <<>> /\ creates' = {} /\ resident' = {}
           /\ \A r \in Owners : inbox'[r] = <<>>
           /\ UNCHANGED <<created, runtimes, fatal>>
<1>1. /\ spent' = [spent EXCEPT !.unloads = @ + 1] /\ live' = FALSE
      /\ mailbox' = <<>> /\ creates' = {} /\ resident' = {}
      /\ gate' = [o \in Owners |-> FALSE] /\ inbox' = [o \in Owners |-> <<>>]
      /\ UNCHANGED <<created, runtimes, fatal, owed, nextAt, used>>
  BY DEF Unload, journal
<1>2. /\ inbox' \in [Owners -> Seq(AgentCommand)] /\ mailbox' \in Seq(Command)
      /\ \A r \in Owners : inbox'[r] = <<>>
  BY <1>1
<1>3. gate' \in [Owners -> BOOLEAN] /\ live' \in BOOLEAN
  BY <1>1, FALSE \in BOOLEAN
<1>4. spent' \in [messages : Nat, unloads : Nat]
  <2>1. spent \in [messages : Nat, unloads : Nat]
    BY DEF TypeOK
  <2>2. spent' = [spent EXCEPT !.unloads = @ + 1]
    BY <1>1
  <2> QED
    BY <2>1, <2>2
<1>5. TypeOK'
  BY <1>1, <1>2, <1>3, <1>4 DEF TypeOK
<1> QED
  BY <1>1, <1>2, <1>5

LEMMA LoadEffect ==
    ASSUME TypeOK, Load
    PROVE  /\ TypeOK' /\ ~live /\ live' /\ resident' = {Main} \cap created
           /\ gate'[Main] = ReadyOn(Main)
           /\ \/ /\ fatal \/ ~\E o \in Owners : Unfinished(o)
                 /\ UNCHANGED mailbox
              \/ \E o \in Owners, cmd \in Command :
                    /\ Unfinished(o) /\ cmd.owner = o /\ mailbox' = <<cmd>>
           /\ UNCHANGED <<created, runtimes, fatal, creates, inbox>>
<1>1. /\ ~live /\ live' = TRUE /\ resident' = {Main} \cap created
      /\ gate' = [gate EXCEPT ![Main] = ReadyOn(Main)]
      /\ UNCHANGED <<created, runtimes, fatal, owed, creates, nextAt, inbox, used, spent>>
  BY DEF Load, journal
<1>2. \/ /\ fatal \/ ~\E o \in Owners : Unfinished(o)
         /\ UNCHANGED mailbox
      \/ \E o \in Owners, cmd \in Command :
            /\ Unfinished(o) /\ cmd.owner = o /\ mailbox' = <<cmd>>
  <2>1. ASSUME NEW o \in Owners, Unfinished(o), mailbox' = <<[kind |-> "Provision", owner |-> o]>>
        PROVE  \E cmd \in Command : cmd.owner = o /\ mailbox' = <<cmd>>
    <3>1. PICK cmd \in Command : cmd = [kind |-> "Provision", owner |-> o]
      BY DEF Command
    <3> QED
      BY <2>1, <3>1
  <2> QED
    BY <2>1 DEF Load
<1>3. mailbox' \in Seq(Command)
  <2>1. \A cmd \in Command : <<cmd>> \in Seq(Command)
    OBVIOUS
  <2> QED
    BY <1>2, <2>1 DEF TypeOK
<1>4. PICK v \in BOOLEAN : v = ReadyOn(Main)
  BY DEF ReadyOn
<1>5. gate' \in [Owners -> BOOLEAN] /\ gate'[Main] = v
  BY <1>1, <1>4 DEF TypeOK, Owners
<1>6. live' \in BOOLEAN
  BY <1>1, Zenon
<1>7. TypeOK'
  BY <1>1, <1>3, <1>5, <1>6 DEF TypeOK
<1> QED
  BY <1>1, <1>2, <1>4, <1>5, <1>7

-----------------------------------------------------------------------------
(* Types *)

LEMMA TypeInit == Init => TypeOK
<1> SUFFICES ASSUME Init PROVE TypeOK
  OBVIOUS
<1>1. fatal \in BOOLEAN /\ live \in BOOLEAN
  BY Zenon DEF Init
<1>2. runtimes \in [Owners -> Provisioning]
  BY DEF Init, Provisioning
<1>3. gate \in [Owners -> BOOLEAN] /\ inbox \in [Owners -> Seq(AgentCommand)]
  BY FALSE \in BOOLEAN DEF Init
<1> QED
  BY <1>1, <1>2, <1>3 DEF Init, TypeOK

LEMMA TypeStep == TypeOK /\ [Next]_vars => TypeOK'
<1> SUFFICES ASSUME TypeOK, [Next]_vars PROVE TypeOK'
  OBVIOUS
<1>1. ASSUME NEW o \in Owners, CreateOwner(o) \/ UserMessage(o) \/ AgentHandles(o)
      PROVE  TypeOK'
  BY <1>1, CreateOwnerEffect, UserMessageEffect, AgentHandlesEffect
<1>2. CASE Provision \/ FinishProvisioning
  BY <1>2, ProvisionEffect, FinishEffect
<1>3. ASSUME NEW c \in creates, NEW outcome \in Outcome, CreateEnds(c, outcome)
      PROVE  TypeOK'
  BY <1>3, CreateEndsEffect
<1>4. CASE Unload \/ Load
  BY <1>4, UnloadEffect, LoadEffect
<1>5. CASE UNCHANGED vars
  BY <1>5 DEF vars, journal, agents, TypeOK
<1> QED
  BY <1>1, <1>2, <1>3, <1>4, <1>5 DEF Next

\* The session's state has its types whatever is created, fails, crashes or loads, for any
\* sub sessions (lifecycle.rs, core.rs): only agents that the journal knows are spawned,
\* owe anything or have begun a turn.
THEOREM TypeCorrect == Spec => []TypeOK
BY TypeInit, TypeStep, PTL DEF Spec

-----------------------------------------------------------------------------
(* A create in flight is attended *)

\* What happens to the work there is for an owner when a command joins, when one leaves
\* and when a create ends.
LEMMA AttendedJoined ==
    ASSUME TypeOK, NEW o, NEW cmd \in Command, mailbox' = Append(mailbox, cmd)
    PROVE  /\ cmd.owner = o => Attended(o)'
           /\ Attended(o) /\ creates \subseteq creates' => Attended(o)'
<1>1. /\ Len(mailbox) \in Nat /\ DOMAIN mailbox = 1..Len(mailbox)
      /\ DOMAIN mailbox' = 1..(Len(mailbox) + 1)
      /\ \A i \in 1..Len(mailbox) : mailbox'[i] = mailbox[i]
      /\ mailbox'[Len(mailbox) + 1] = cmd
  BY Joined DEF TypeOK
<1>2. Len(mailbox) + 1 \in DOMAIN mailbox' /\ \A i \in DOMAIN mailbox : i \in DOMAIN mailbox'
  BY <1>1
<1>3. cmd.owner = o => Attended(o)'
  BY <1>1, <1>2 DEF Attended
<1>4. Attended(o) /\ creates \subseteq creates' => Attended(o)'
  BY <1>1, <1>2 DEF Attended
<1> QED
  BY <1>3, <1>4

LEMMA AttendedStep ==
    ASSUME TypeOK, Subs = {}, InFlightAttended, [Next]_vars
    PROVE  InFlightAttended'
<1>0. Owners = {Main}
  BY DEF Owners
<1>1. ASSUME Attended(Main) => Attended(Main)', UNCHANGED <<live, fatal, runtimes>>
      PROVE  InFlightAttended'
  BY <1>0, <1>1 DEF InFlightAttended
<1>2. ASSUME NEW o \in Owners, CreateOwner(o) PROVE InFlightAttended'
  BY <1>1, <1>2, CreateOwnerEffect, AttendedJoined
<1>3. ASSUME NEW o \in Owners, UserMessage(o) PROVE InFlightAttended'
  <2>1. /\ UNCHANGED <<runtimes, fatal, live, creates>>
        /\ \/ mailbox' = mailbox
           \/ \E cmd \in Command : mailbox' = Append(mailbox, cmd)
    BY <1>3, UserMessageEffect
  <2>2. CASE mailbox' = mailbox
    BY <1>1, <2>1, <2>2 DEF Attended
  <2>3. CASE \E cmd \in Command : mailbox' = Append(mailbox, cmd)
    BY <1>1, <2>1, <2>3, AttendedJoined
  <2> QED
    BY <2>1, <2>2, <2>3
<1>4. ASSUME NEW o \in Owners, AgentHandles(o) PROVE InFlightAttended'
  <2>1. UNCHANGED <<runtimes, fatal, live, mailbox, creates>>
    BY <1>4, AgentHandlesEffect
  <2> QED
    BY <1>1, <2>1 DEF Attended
<1>5. CASE Provision
  <2>1. /\ Head(mailbox).owner = Main /\ UNCHANGED <<fatal, live>>
        /\ \/ (fatal \/ runtimes[Main].is = "Ready") /\ UNCHANGED runtimes
           \/ \E c \in creates' : c.owner = Main
    BY <1>0, <1>5, ProvisionEffect
  <2> QED
    BY <1>0, <2>1 DEF InFlightAttended, Attended
<1>6. CASE FinishProvisioning
  <2>1. runtimes'[Main].is # "InFlight"
    BY <1>0, <1>6, FinishEffect
  <2> QED
    BY <1>0, <2>1 DEF InFlightAttended
<1>7. ASSUME NEW c \in creates, NEW outcome \in Outcome, CreateEnds(c, outcome)
      PROVE  InFlightAttended'
  <2>1. c.owner = Main /\ UNCHANGED <<runtimes, fatal, live>>
    BY <1>0, <1>7, CreateEndsEffect
  <2>2. PICK cmd \in Command : cmd.owner = Main /\ mailbox' = Append(mailbox, cmd)
    BY <1>7, <2>1, CreateEndsEffect
  <2> QED
    BY <1>1, <2>1, <2>2, AttendedJoined
<1>8. CASE Unload
  BY <1>8, UnloadEffect DEF InFlightAttended
<1>9. CASE Load
  <2>1. CASE (fatal \/ ~\E o \in Owners : Unfinished(o)) /\ UNCHANGED <<runtimes, fatal>>
    BY <2>1 DEF InFlightAttended, Unfinished
  <2>2. ASSUME NEW o \in Owners, NEW cmd \in Command, cmd.owner = o, mailbox' = <<cmd>>
        PROVE  InFlightAttended'
    <3>1. cmd.owner = Main /\ mailbox'[1] = cmd /\ 1 \in DOMAIN mailbox'
      BY <1>0, <2>2
    <3> QED
      BY <1>0, <3>1 DEF InFlightAttended, Attended
  <2> QED
    BY <1>9, <2>1, <2>2, LoadEffect
<1>10. CASE UNCHANGED vars
  BY <1>10 DEF vars, journal, InFlightAttended, Attended
<1> QED
  BY <1>2, <1>3, <1>4, <1>5, <1>6, <1>7, <1>8, <1>9, <1>10 DEF Next

\* In a session with one runtime a create that the journal says is in flight has its task,
\* its outcome or the command that repeats it, after every crash and load (lifecycle.rs:
\* on_load, provision). With sub sessions' runtimes it does not hold: a load asks again
\* for one record only.
THEOREM CreateAttended ==
    ASSUME Subs = {}
    PROVE  Spec => []InFlightAttended
<1>1. Init => InFlightAttended
  BY DEF Init, InFlightAttended
<1>2. TypeOK /\ InFlightAttended /\ [Next]_vars => InFlightAttended'
  BY AttendedStep
<1> QED
  BY <1>1, <1>2, TypeCorrect, PTL DEF Spec

-----------------------------------------------------------------------------
(* The agent's gate *)

\* The last record in an agent's mailbox says this, or there is none.
Says(q, what) ==
    \E i \in DOMAIN q : q[i] = what /\ \A j \in DOMAIN q : j > i => q[j] = "Message"
Silent(q) == \A i \in DOMAIN q : q[i] = "Message"

\* A gate in this position agrees with the journal.
Agrees(open) == (open => runtimes[Main].is = "Ready") /\ (ReadyOn(Main) => open)

\* Nothing is known of a runtime before the session is created, and the main agent is
\* spawned from then on.
Known ==
    /\ mailbox # <<>> \/ creates # {} \/ runtimes[Main].is # "None" => Main \in created
    /\ live /\ Main \in created => Main \in resident
    /\ ~live => mailbox = <<>> /\ creates = {} /\ inbox[Main] = <<>>

\* The gate will agree with the journal when the agent has handled what it was sent.
WillAgree ==
    live => /\ Says(inbox[Main], "Ready") => Agrees(TRUE)
            /\ Says(inbox[Main], "NotReady") => Agrees(FALSE)
            /\ Silent(inbox[Main]) => Agrees(gate[Main])

GateInv == Known /\ WillAgree

LEMMA SaysJoined ==
    ASSUME NEW q \in Seq(AgentCommand), NEW m \in AgentCommand
    PROVE  /\ m = "Message" => /\ \A w : w # "Message" =>
                                    (Says(Append(q, m), w) => Says(q, w))
                               /\ Silent(Append(q, m)) => Silent(q)
           /\ m # "Message" => /\ \A w : Says(Append(q, m), w) /\ w # "Message" => w = m
                               /\ ~Silent(Append(q, m))
<1> DEFINE r == Append(q, m)
<1>1. /\ Len(q) \in Nat /\ DOMAIN q = 1..Len(q) /\ DOMAIN r = 1..(Len(q) + 1)
      /\ \A i \in 1..Len(q) : r[i] = q[i]
      /\ r[Len(q) + 1] = m
  BY Joined
<1> HIDE DEF r
<1>2. /\ \A i \in DOMAIN q : i \in DOMAIN r /\ r[i] = q[i]
      /\ \A i \in DOMAIN r : i \in DOMAIN q \/ (i = Len(q) + 1 /\ r[i] = m)
      /\ \A i \in DOMAIN q : Len(q) + 1 > i
      /\ Len(q) + 1 \in DOMAIN r
  BY <1>1
<1>3. ASSUME m = "Message", NEW w, w # "Message", Says(r, w) PROVE Says(q, w)
  <2>1. PICK i \in DOMAIN r : r[i] = w /\ \A j \in DOMAIN r : j > i => r[j] = "Message"
    BY <1>3 DEF Says
  <2>2. i \in DOMAIN q
    BY <1>2, <1>3, <2>1
  <2> QED
    BY <1>2, <2>1, <2>2 DEF Says
<1>4. m = "Message" => (Silent(r) => Silent(q))
  BY <1>2 DEF Silent
<1>5. ASSUME m # "Message", NEW w, w # "Message", Says(r, w) PROVE w = m
  <2>1. PICK i \in DOMAIN r : r[i] = w /\ \A j \in DOMAIN r : j > i => r[j] = "Message"
    BY <1>5 DEF Says
  <2>2. i \notin DOMAIN q
    BY <1>1, <1>2, <1>5, <2>1
  <2> QED
    BY <1>2, <2>1, <2>2
<1>6. m # "Message" => ~Silent(r)
  BY <1>1, <1>2 DEF Silent
<1> QED
  BY <1>3, <1>4, <1>5, <1>6 DEF r

LEMMA SaysLeft ==
    ASSUME NEW q \in Seq(AgentCommand), q # <<>>
    PROVE  /\ \A w : Says(Tail(q), w) => Says(q, w)
           /\ Silent(Tail(q)) => IF Head(q) = "Message" THEN Silent(q) ELSE Says(q, Head(q))
           /\ Head(q) \in {"Ready", "NotReady", "Message"}
<1> DEFINE r == Tail(q)
<1>1. /\ Len(q) \in Nat /\ Len(q) >= 1
      /\ DOMAIN q = 1..Len(q) /\ DOMAIN r = 1..(Len(q) - 1)
      /\ \A i \in 1..(Len(q) - 1) : r[i] = q[i + 1]
      /\ Head(q) = q[1] /\ Head(q) \in AgentCommand
  BY Left
<1> HIDE DEF r
<1>2. /\ \A i \in DOMAIN r : i + 1 \in DOMAIN q /\ r[i] = q[i + 1]
      /\ 1 \in DOMAIN q
      /\ \A j \in DOMAIN q : j = 1 \/ (j - 1 \in DOMAIN r /\ q[j] = r[j - 1] /\ j > 1)
  BY <1>1
<1>3. ASSUME NEW w, Says(r, w) PROVE Says(q, w)
  <2>1. PICK i \in DOMAIN r : r[i] = w /\ \A j \in DOMAIN r : j > i => r[j] = "Message"
    BY <1>3 DEF Says
  <2>2. i + 1 \in DOMAIN q /\ q[i + 1] = w
    BY <1>2, <2>1
  <2>3. ASSUME NEW j \in DOMAIN q, j > i + 1 PROVE q[j] = "Message"
    <3>1. j - 1 \in DOMAIN r /\ q[j] = r[j - 1] /\ j - 1 > i
      BY <1>1, <1>2, <2>1, <2>3
    <3> QED
      BY <2>1, <3>1
  <2> QED
    BY <2>2, <2>3 DEF Says
<1>4. ASSUME Silent(r) PROVE IF Head(q) = "Message" THEN Silent(q) ELSE Says(q, Head(q))
  <2>1. \A j \in DOMAIN q : j = 1 \/ q[j] = "Message"
    BY <1>2, <1>4 DEF Silent
  <2>2. CASE Head(q) = "Message"
    BY <1>1, <2>1, <2>2 DEF Silent
  <2>3. CASE Head(q) # "Message"
    BY <1>1, <1>2, <2>1, <2>3 DEF Says
  <2> QED
    BY <2>2, <2>3
<1> QED
  BY <1>1, <1>3, <1>4 DEF r, AgentCommand

LEMMA GateStep ==
    ASSUME TypeOK, Subs = {}, GateInv, [Next]_vars
    PROVE  GateInv'
<1>0. /\ Owners = {Main} /\ Main \in Owners /\ Known /\ WillAgree
      /\ inbox[Main] \in Seq(AgentCommand) /\ gate[Main] \in BOOLEAN
      /\ created \subseteq {Main} /\ resident \subseteq created
  BY DEF Owners, GateInv, TypeOK
<1>1. ASSUME NEW m \in {"Ready", "NotReady"}, inbox'[Main] = Append(inbox[Main], m),
             Agrees(m = "Ready")'
      PROVE  WillAgree'
  <2>1. /\ \A w : Says(inbox'[Main], w) /\ w # "Message" => w = m
        /\ ~Silent(inbox'[Main])
    BY <1>0, <1>1, SaysJoined DEF AgentCommand
  <2>2. CASE m = "Ready"
    BY <1>1, <2>1, <2>2 DEF WillAgree, Agrees
  <2>3. CASE m = "NotReady"
    BY <1>1, <2>1, <2>3 DEF WillAgree, Agrees
  <2> QED
    BY <2>2, <2>3
<1>2. ASSUME NEW o \in Owners, CreateOwner(o) PROVE GateInv'
  <2>1. /\ o = Main /\ Main \notin created /\ Main \in created' /\ Main \in resident' /\ live
        /\ gate'[Main] = FALSE
        /\ UNCHANGED <<runtimes, fatal, live, creates, inbox>>
    BY <1>0, <1>2, CreateOwnerEffect
  <2>2. runtimes[Main].is = "None"
    BY <1>0, <2>1 DEF Known
  <2>3. Agrees(gate[Main])' /\ (Agrees(TRUE) => Agrees(TRUE)') /\ (Agrees(FALSE) => Agrees(FALSE)')
    BY <2>1, <2>2 DEF Agrees, ReadyOn
  <2>4. WillAgree'
    BY <1>0, <2>1, <2>3 DEF WillAgree
  <2>5. Known'
    BY <2>1 DEF Known
  <2> QED
    BY <2>4, <2>5 DEF GateInv
<1>3. ASSUME NEW o \in Owners, UserMessage(o) PROVE GateInv'
  <2>1. /\ Main \in created /\ Main \in resident' /\ live /\ resident \subseteq resident'
        /\ \A r \in resident : gate'[r] = gate[r]
        /\ inbox'[Main] = Append(inbox[Main], "Message")
        /\ UNCHANGED <<created, runtimes, fatal, live, creates>>
    BY <1>0, <1>3, UserMessageEffect
  <2>2. gate'[Main] = gate[Main]
    BY <1>0, <2>1 DEF Known
  <2>3. /\ \A w : w # "Message" => (Says(inbox'[Main], w) => Says(inbox[Main], w))
        /\ Silent(inbox'[Main]) => Silent(inbox[Main])
    BY <1>0, <2>1, SaysJoined DEF AgentCommand
  <2>4. \A v : Agrees(v) => Agrees(v)'
    BY <2>1 DEF Agrees, ReadyOn
  <2>5. WillAgree'
    BY <1>0, <2>1, <2>2, <2>3, <2>4 DEF WillAgree
  <2>6. Known'
    BY <2>1 DEF Known
  <2> QED
    BY <2>5, <2>6 DEF GateInv
<1>4. ASSUME NEW o \in Owners, AgentHandles(o) PROVE GateInv'
  <2>1. /\ live /\ inbox[Main] # <<>> /\ inbox'[Main] = Tail(inbox[Main])
        /\ gate'[Main] = IF Head(inbox[Main]) = "Message" THEN gate[Main]
                         ELSE Head(inbox[Main]) = "Ready"
        /\ UNCHANGED <<created, runtimes, fatal, live, mailbox, creates, resident>>
    BY <1>0, <1>4, AgentHandlesEffect
  <2>2. /\ \A w : Says(inbox'[Main], w) => Says(inbox[Main], w)
        /\ Silent(inbox'[Main]) => IF Head(inbox[Main]) = "Message" THEN Silent(inbox[Main])
                                   ELSE Says(inbox[Main], Head(inbox[Main]))
        /\ Head(inbox[Main]) \in {"Ready", "NotReady", "Message"}
    BY <1>0, <2>1, SaysLeft
  <2>3. \A v : Agrees(v) => Agrees(v)'
    BY <2>1 DEF Agrees, ReadyOn
  <2>4. ASSUME Silent(inbox'[Main]) PROVE Agrees(gate'[Main])
    <3>1. CASE Head(inbox[Main]) = "Message"
      BY <1>0, <2>1, <2>2, <2>4, <3>1 DEF WillAgree
    <3>2. CASE Head(inbox[Main]) = "Ready"
      <4>1. gate'[Main] = TRUE /\ Agrees(TRUE)
        BY <1>0, <2>1, <2>2, <2>4, <3>2 DEF WillAgree
      <4> QED
        BY <4>1, Zenon
    <3>3. CASE Head(inbox[Main]) = "NotReady"
      <4>1. gate'[Main] = FALSE /\ Agrees(FALSE)
        BY <1>0, <2>1, <2>2, <2>4, <3>3 DEF WillAgree
      <4> QED
        BY <4>1, Zenon
    <3> QED
      BY <2>2, <3>1, <3>2, <3>3
  <2>5. WillAgree'
    <3>1. Silent(inbox'[Main]) => Agrees(gate[Main])'
      BY <2>1, <2>4 DEF Agrees, ReadyOn
    <3> QED
      BY <1>0, <2>1, <2>2, <2>3, <3>1 DEF WillAgree
  <2>6. Known'
    BY <1>0, <2>1 DEF Known
  <2> QED
    BY <2>5, <2>6 DEF GateInv
<1>5. CASE Provision
  <2>1. /\ live /\ mailbox # <<>> /\ Head(mailbox).owner = Main
        /\ UNCHANGED <<created, fatal, live, resident, gate>>
        /\ \/ UNCHANGED <<runtimes, creates, inbox>>
           \/ runtimes'[Main].is = "InFlight" /\ inbox'[Main] = Append(inbox[Main], "NotReady")
    BY <1>0, <1>5, ProvisionEffect
  <2>2. Known'
    BY <1>0, <2>1 DEF Known
  <2>3. CASE UNCHANGED <<runtimes, creates, inbox>>
    BY <1>0, <2>1, <2>2, <2>3 DEF WillAgree, Agrees, ReadyOn, GateInv
  <2>4. CASE runtimes'[Main].is = "InFlight" /\ inbox'[Main] = Append(inbox[Main], "NotReady")
    <3>1. Agrees("NotReady" = "Ready")'
      BY <2>4 DEF Agrees, ReadyOn
    <3> QED
      BY <1>1, <2>2, <2>4, <3>1 DEF GateInv
  <2> QED
    BY <2>1, <2>3, <2>4
<1>6. CASE FinishProvisioning
  <2>1. /\ live /\ mailbox # <<>> /\ Head(mailbox).owner = Main
        /\ UNCHANGED <<created, live, creates, resident, gate>>
        /\ \/ runtimes'[Main].is = "Ready" /\ inbox'[Main] = Append(inbox[Main], "Ready")
           \/ runtimes'[Main].is = "Failed" /\ inbox'[Main] = Append(inbox[Main], "NotReady")
    BY <1>0, <1>6, FinishEffect
  <2>2. Known'
    BY <1>0, <2>1 DEF Known
  <2>3. CASE runtimes'[Main].is = "Ready" /\ inbox'[Main] = Append(inbox[Main], "Ready")
    <3>1. Agrees("Ready" = "Ready")'
      BY <2>3 DEF Agrees, ReadyOn
    <3> QED
      BY <1>1, <2>2, <2>3, <3>1 DEF GateInv
  <2>4. CASE runtimes'[Main].is = "Failed" /\ inbox'[Main] = Append(inbox[Main], "NotReady")
    <3>1. Agrees("NotReady" = "Ready")'
      BY <2>4 DEF Agrees, ReadyOn
    <3> QED
      BY <1>1, <2>2, <2>4, <3>1 DEF GateInv
  <2> QED
    BY <2>1, <2>3, <2>4
<1>7. ASSUME NEW c \in creates, NEW outcome \in Outcome, CreateEnds(c, outcome) PROVE GateInv'
  <2>1. UNCHANGED <<created, runtimes, fatal, live, resident, gate, inbox>>
    BY <1>7, CreateEndsEffect
  <2>2. Main \in created /\ live
    BY <1>0, <1>7 DEF Known
  <2> QED
    BY <1>0, <2>1, <2>2 DEF GateInv, Known, WillAgree, Agrees, ReadyOn
<1>8. CASE Unload
  <2>1. /\ ~live' /\ mailbox' = <<>> /\ creates' = {} /\ inbox'[Main] = <<>>
        /\ UNCHANGED <<created, runtimes>>
    BY <1>0, <1>8, UnloadEffect
  <2> QED
    BY <1>0, <2>1 DEF GateInv, Known, WillAgree
<1>9. CASE Load
  <2>1. /\ ~live /\ live' /\ resident' = {Main} \cap created /\ gate'[Main] = ReadyOn(Main)
        /\ UNCHANGED <<created, runtimes, fatal, creates, inbox>>
        /\ mailbox' = mailbox \/ Unfinished(Main)
    BY <1>0, <1>9, LoadEffect
  <2>2. inbox'[Main] = <<>> /\ mailbox = <<>> /\ creates' = {}
    BY <1>0, <2>1 DEF Known
  <2>3. \A w : ~Says(inbox'[Main], w)
    BY <2>2 DEF Says
  <2>4. Agrees(gate[Main])'
    BY <2>1 DEF Agrees, ReadyOn
  <2>5. WillAgree'
    BY <2>3, <2>4 DEF WillAgree
  <2>6. Known'
    BY <1>0, <2>1, <2>2 DEF Known, Unfinished
  <2> QED
    BY <2>5, <2>6 DEF GateInv
<1>10. CASE UNCHANGED vars
  BY <1>10 DEF vars, journal, agents, GateInv, Known, WillAgree, Agrees, ReadyOn
<1> QED
  BY <1>2, <1>3, <1>4, <1>5, <1>6, <1>7, <1>8, <1>9, <1>10 DEF Next

\* In a session with one runtime the agent's gate is the record's, once the agent has
\* handled what it was sent, whatever was rebuilt, failed, refused or loaded meanwhile
\* (ready_on, record_lifecycle, runtime_readiness). With sub sessions' runtimes it does
\* not hold: their records are handed to the main agent.
THEOREM GateFollows ==
    ASSUME Subs = {}
    PROVE  Spec => []GateFollowsRecord
<1>1. Init => GateInv
  <2> SUFFICES ASSUME Init PROVE GateInv
    OBVIOUS
  <2>1. /\ Main \in Owners /\ mailbox = <<>> /\ creates = {} /\ inbox[Main] = <<>>
        /\ runtimes[Main].is = "None" /\ created = {} /\ live = TRUE
    BY DEF Init, Owners
  <2>2. gate[Main] = FALSE
    BY <2>1 DEF Init
  <2>3. \A w : ~Says(inbox[Main], w)
    BY <2>1 DEF Says
  <2>4. Agrees(gate[Main])
    BY <2>1, <2>2 DEF Agrees, ReadyOn
  <2> QED
    BY <2>1, <2>3, <2>4 DEF GateInv, Known, WillAgree
<1>2. TypeOK /\ GateInv /\ [Next]_vars => GateInv'
  BY GateStep
<1>3. TypeOK /\ GateInv => GateFollowsRecord
  <2> SUFFICES ASSUME TypeOK, GateInv, live, NEW o \in resident, inbox[o] = <<>>
               PROVE  (gate[o] => runtimes[o].is = "Ready") /\ (ReadyOn(o) => gate[o])
    BY DEF GateFollowsRecord
  <2>1. o = Main
    BY DEF TypeOK, Owners
  <2>2. Silent(inbox[Main])
    BY <2>1 DEF Silent
  <2> QED
    BY <2>1, <2>2 DEF GateInv, WillAgree, Agrees
<1> QED
  BY <1>1, <1>2, <1>3, TypeCorrect, PTL DEF Spec
=============================================================================
