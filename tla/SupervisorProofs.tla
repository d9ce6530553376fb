-------------------------- MODULE SupervisorProofs ---------------------------
(***************************************************************************)
(* Proofs about Supervisor, for every set of sessions and every bound: its *)
(* types, what a create's caller holds, what the sweep looks at and spares,*)
(* and that the list follows the sessions.                                 *)
(***************************************************************************)
EXTENDS Supervisor, TLAPS, SequenceTheorems

-----------------------------------------------------------------------------
(* The inductive invariant *)

Mail == Calls
          \union [t : {"RenameSession"}, id : Sessions, name : {"derived", "tool"}]
          \union [t : {"SessionStatusChanged"}, id : Sessions, status : Statuses]

Events == [t : {"SessionCreated"}, id : Sessions, name : Names]
            \union [t : {"SessionDeleted"}, id : Sessions]
            \union [t : {"SessionNamed"}, id : Sessions, name : Names, ack : BOOLEAN]
            \union [t : {"SessionStatusChanged"}, id : Sessions, status : Statuses]

BoxMail == [t : {"Create"}, name : Names]
             \union [t : {"Message"}, first : {TRUE}]
             \union [t : {"Message", "Read", "TitleSet", "SetTitle", "Started", "Outcome",
                          "PrepareOffload", "Delete"}]
             \union [t : {"Renamed"}, name : Names]

\* The mailboxes carry their messages, and a handler has one event at most.
WellFormed ==
  /\ inbox \in Seq(Mail)
  /\ staged \in Seq(Events) /\ (staged = <<>> \/ Len(staged) = 1)
  /\ ses \in [Sessions -> [up : BOOLEAN, box : Seq(BoxMail), asks : {"", "derived", "tool"},
                           reported : Statuses \union {"unknown"}, turn : BOOLEAN]]
  /\ spent \in [calls : Nat, turns : Nat, crashes : Nat, used : SUBSET Sessions,
                closed : BOOLEAN]

Typed == TypeOK /\ WellFormed

\* What a mailbox holds: a message of a kind, one of a kind for a session, at most one
\* such, and a last report, with its status.
Holds(q, t) == \E i \in DOMAIN q : q[i].t = t
Once(q, t) == \A i, j \in DOMAIN q : q[i].t = t /\ q[j].t = t => i = j
HoldsFor(q, t, s) == \E i \in DOMAIN q : q[i].t = t /\ q[i].id = s
OnceFor(q, t, s) ==
  \A i, j \in DOMAIN q : q[i].t = t /\ q[i].id = s /\ q[j].t = t /\ q[j].id = s => i = j
LastReport(q, s, status) ==
  \E i \in DOMAIN q :
    /\ q[i].t = "SessionStatusChanged" /\ q[i].id = s /\ q[i].status = status
    /\ \A j \in DOMAIN q : q[j].t = "SessionStatusChanged" /\ q[j].id = s => j <= i

\* The mailbox of a session: a first message, and an acknowledgement only at its head.
HoldsFirst(q) == \E i \in DOMAIN q : "first" \in DOMAIN q[i]
RenamedAhead(q) == \A i \in DOMAIN q : q[i].t = "Renamed" => i = 1

\* The event being written is of this kind and of this session.
Stages(t, s) == staged # <<>> /\ staged[1].t = t /\ staged[1].id = s

\* Who is waited for has the question in its mailbox, once; who is still to be asked
\* is loaded and is not asked already.
Waiting ==
  /\ \A s \in Sessions :
       /\ Holds(ses[s].box, "PrepareOffload") =>
            wait.for \in {"offload", "shutdown"} /\ wait.on = s
       /\ Holds(ses[s].box, "Delete") => wait.for = "delete" /\ wait.on = s
       /\ Once(ses[s].box, "PrepareOffload")
  /\ wait.todo \subseteq active
  /\ wait.on \notin wait.todo

\* A handler that waits has nothing to write yet.
OneAtATime == wait.for # "none" => staged = <<>>

\* A name is asked for once: the request is with the supervisor, is being written,
\* or its acknowledgement is at the head of the mailbox.
Naming(s) == Stages("SessionNamed", s) /\ staged[1].ack

NamedOnce(s) ==
  /\ ses[s].asks # "" => /\ ses[s].up
                         /\ ses[s].box # <<>>
                         /\ Holds(ses[s].box, "Renamed") => Len(ses[s].box) >= 2
  /\ ses[s].asks = "" => /\ ~HoldsFor(inbox, "RenameSession", s)
                         /\ ~Naming(s)
                         /\ ~Holds(ses[s].box, "Renamed")
  /\ OnceFor(inbox, "RenameSession", s)
  /\ RenamedAhead(ses[s].box)
  /\ HoldsFor(inbox, "RenameSession", s) => ~Naming(s) /\ ~Holds(ses[s].box, "Renamed")
  /\ Naming(s) => ~Holds(ses[s].box, "Renamed")

Renames == \A s \in Sessions : NamedOnce(s)

\* What is loaded, or about to be, is counted as loaded.
Swept ==
  /\ Holds(inbox, "Shutdown") \/ wait.for = "shutdown" => spent.closed
  /\ ~spent.closed => \A s \in Sessions : ses[s].up \/ ses[s].box # <<>> => s \in active

\* An answer needs the record and the first message, and each of them a journal.
HeldFor(s) ==
  /\ call[s].recorded /\ s \notin gone => rows[s].listed
  /\ Stages("SessionDeleted", s) => s \in gone
  /\ HoldsFirst(ses[s].box) \/ call[s].queued => own[s].told
  /\ call[s].answered => call[s].recorded /\ call[s].queued

Held == \A s \in Sessions : HeldFor(s)

\* A create is sent once, and the session is told once, of what it is; no turn runs
\* before that.
CreatedOnce(s) ==
  /\ own[s].told \/ Holds(ses[s].box, "Create") => s \in spent.used
  /\ HoldsFor(inbox, "Create", s) =>
       s \in spent.used /\ ~own[s].told /\ ~Holds(ses[s].box, "Create")
  /\ OnceFor(inbox, "Create", s)
  /\ (ses[s].turn \/ Holds(ses[s].box, "Started") \/ Holds(ses[s].box, "Outcome"))
       => own[s].told

Creates == \A s \in Sessions : CreatedOnce(s)

\* The last report of a session that is on its way says what its journal says; with
\* none, what is being written does, or else the row.
Follows(s) ==
  \/ LastReport(inbox, s, own[s].status)
  \/ /\ ~HoldsFor(inbox, "SessionStatusChanged", s)
     /\ ~Stages("SessionCreated", s)
     /\ IF Stages("SessionStatusChanged", s) THEN staged[1].status = own[s].status
        ELSE rows[s].listed => rows[s].status = own[s].status

ReportedFor(s) ==
  /\ ses[s].reported = IF ses[s].up /\ own[s].told THEN own[s].status ELSE "unknown"
  /\ ses[s].up /\ own[s].told => Follows(s)

Reported == \A s \in Sessions : ReportedFor(s)

Inv == /\ Typed /\ Waiting /\ OneAtATime /\ Renames /\ Swept
       /\ Held /\ Creates /\ Reported

-----------------------------------------------------------------------------
(* Mailboxes *)

\* A message joins at the end.
LEMMA Joined ==
    ASSUME NEW S, NEW q \in Seq(S), NEW m \in S
    PROVE  /\ Append(q, m) \in Seq(S)
           /\ Append(q, m) # <<>>
           /\ Len(q) \in Nat
           /\ DOMAIN q = 1..Len(q)
           /\ DOMAIN Append(q, m) = 1..(Len(q) + 1)
           /\ \A i \in 1..Len(q) : Append(q, m)[i] = q[i]
           /\ Append(q, m)[Len(q) + 1] = m
BY AppendProperties, LenProperties

\* The first one leaves.
LEMMA Left ==
    ASSUME NEW S, NEW q \in Seq(S), q # <<>>
    PROVE  /\ Tail(q) \in Seq(S)
           /\ Head(q) \in S /\ Head(q) = q[1]
           /\ Len(q) \in Nat /\ Len(q) >= 1
           /\ Len(Tail(q)) = Len(q) - 1
           /\ DOMAIN q = 1..Len(q)
           /\ DOMAIN Tail(q) = 1..(Len(q) - 1)
           /\ \A i \in 1..(Len(q) - 1) : Tail(q)[i] = q[i + 1]
BY HeadTailProperties, LenProperties

\* Of two or more, some stay.
LEMMA TwoLeft ==
    ASSUME NEW S, NEW q \in Seq(S), Len(q) >= 2
    PROVE  Tail(q) \in Seq(S) /\ Tail(q) # <<>>
<1>1. q # <<>>
  OBVIOUS
<1>2. Tail(q) \in Seq(S) /\ Len(Tail(q)) = Len(q) - 1 /\ Len(q) \in Nat
  BY <1>1, Left
<1>3. ASSUME NEW n \in Nat, n >= 2 PROVE n - 1 # 0
  BY <1>3
<1>4. Len(q) - 1 # 0
  BY <1>2, <1>3
<1>5. Len(<<>>) = 0
  OBVIOUS
<1>6. Tail(q) # <<>>
  BY <1>2, <1>4, <1>5, Zenon
<1> QED
  BY <1>2, <1>6

\* One goes ahead of all.
LEMMA Ahead ==
    ASSUME NEW S, NEW q \in Seq(S), NEW m \in S
    PROVE  /\ <<m>> \o q \in Seq(S)
           /\ <<m>> \o q # <<>>
           /\ Len(q) \in Nat
           /\ Len(<<m>> \o q) = Len(q) + 1
           /\ DOMAIN q = 1..Len(q)
           /\ DOMAIN (<<m>> \o q) = 1..(Len(q) + 1)
           /\ (<<m>> \o q)[1] = m
           /\ \A i \in 2..(Len(q) + 1) : (<<m>> \o q)[i] = q[i - 1]
<1>1. <<m>> \in Seq(S) /\ Len(<<m>>) = 1
  OBVIOUS
<1>2. /\ <<m>> \o q \in Seq(S)
      /\ Len(<<m>> \o q) = 1 + Len(q)
      /\ \A i \in 1..(1 + Len(q)) : (<<m>> \o q)[i] = IF i <= 1 THEN <<m>>[i] ELSE q[i - 1]
  BY <1>1, ConcatProperties
<1> QED
  BY <1>2, LenProperties, EmptySeq

\* What joining adds to what a mailbox holds.
LEMMA JoinedHolds ==
    ASSUME NEW S, NEW q \in Seq(S), NEW m \in S
    PROVE  /\ \A t : Holds(Append(q, m), t) <=> Holds(q, t) \/ m.t = t
           /\ \A t : Once(q, t) /\ ~(Holds(q, t) /\ m.t = t) => Once(Append(q, m), t)
           /\ HoldsFirst(Append(q, m)) <=> HoldsFirst(q) \/ "first" \in DOMAIN m
           /\ RenamedAhead(q) /\ m.t # "Renamed" => RenamedAhead(Append(q, m))
<1> DEFINE r == Append(q, m)
<1>1. /\ Len(q) \in Nat /\ DOMAIN q = 1..Len(q) /\ DOMAIN r = 1..(Len(q) + 1)
      /\ \A i \in 1..Len(q) : r[i] = q[i]
      /\ r[Len(q) + 1] = m
  BY Joined
<1> HIDE DEF r
<1>2. \A t : Holds(r, t) <=> Holds(q, t) \/ m.t = t
  BY <1>1 DEF Holds
<1>3. \A t : Once(q, t) /\ ~(Holds(q, t) /\ m.t = t) => Once(r, t)
  BY <1>1 DEF Holds, Once
<1>4. HoldsFirst(r) <=> HoldsFirst(q) \/ "first" \in DOMAIN m
  BY <1>1 DEF HoldsFirst
<1>5. RenamedAhead(q) /\ m.t # "Renamed" => RenamedAhead(r)
  BY <1>1 DEF RenamedAhead
<1> QED
  BY <1>2, <1>3, <1>4, <1>5 DEF r

\* And to what the supervisor's holds for one session.
LEMMA JoinedHoldsFor ==
    ASSUME NEW S, NEW q \in Seq(S), NEW m \in S
    PROVE  /\ \A t, s : HoldsFor(Append(q, m), t, s) <=> HoldsFor(q, t, s) \/ (m.t = t /\ m.id = s)
           /\ \A t, s : OnceFor(q, t, s) /\ ~(HoldsFor(q, t, s) /\ m.t = t /\ m.id = s)
                          => OnceFor(Append(q, m), t, s)
           /\ \A s, st : LastReport(q, s, st) /\ ~(m.t = "SessionStatusChanged" /\ m.id = s)
                          => LastReport(Append(q, m), s, st)
           /\ \A s, st : m.t = "SessionStatusChanged" /\ m.id = s /\ m.status = st
                          => LastReport(Append(q, m), s, st)
<1> DEFINE r == Append(q, m)
<1>1. /\ Len(q) \in Nat /\ DOMAIN q = 1..Len(q) /\ DOMAIN r = 1..(Len(q) + 1)
      /\ \A i \in 1..Len(q) : r[i] = q[i]
      /\ r[Len(q) + 1] = m
  BY Joined
<1> HIDE DEF r
<1>2. \A t, s : HoldsFor(r, t, s) <=> HoldsFor(q, t, s) \/ (m.t = t /\ m.id = s)
  BY <1>1 DEF HoldsFor
<1>3. \A t, s : OnceFor(q, t, s) /\ ~(HoldsFor(q, t, s) /\ m.t = t /\ m.id = s) => OnceFor(r, t, s)
  BY <1>1 DEF HoldsFor, OnceFor
<1>4. \A s, st : LastReport(q, s, st) /\ ~(m.t = "SessionStatusChanged" /\ m.id = s)
                 => LastReport(r, s, st)
  BY <1>1 DEF LastReport
<1>5. \A s, st : m.t = "SessionStatusChanged" /\ m.id = s /\ m.status = st => LastReport(r, s, st)
  BY <1>1 DEF LastReport
<1> QED
  BY <1>2, <1>3, <1>4, <1>5 DEF r

\* What the first message takes with it.
LEMMA LeftHolds ==
    ASSUME NEW S, NEW q \in Seq(S), q # <<>>
    PROVE  /\ \A t : Holds(Tail(q), t) => Holds(q, t)
           /\ Holds(q, Head(q).t)
           /\ \A t : Once(q, t) => Once(Tail(q), t)
           /\ \A t : Once(q, t) /\ Head(q).t = t => ~Holds(Tail(q), t)
           /\ HoldsFirst(Tail(q)) => HoldsFirst(q)
           /\ "first" \in DOMAIN Head(q) => HoldsFirst(q)
           /\ RenamedAhead(q) => ~Holds(Tail(q), "Renamed") /\ RenamedAhead(Tail(q))
           /\ RenamedAhead(q) /\ Holds(q, "Renamed") => Head(q).t = "Renamed"
<1> DEFINE r == Tail(q)
<1>1. /\ Len(q) \in Nat /\ Len(q) >= 1
      /\ DOMAIN q = 1..Len(q) /\ DOMAIN r = 1..(Len(q) - 1)
      /\ \A i \in 1..(Len(q) - 1) : r[i] = q[i + 1]
      /\ Head(q) = q[1]
  BY Left
<1> HIDE DEF r
<1>2. \A i \in DOMAIN r : i + 1 \in DOMAIN q /\ r[i] = q[i + 1] /\ i \in Nat /\ i + 1 # 1
  BY <1>1
<1>3. 1 \in DOMAIN q
  BY <1>1
<1>4. \A t : Holds(r, t) => Holds(q, t)
  BY <1>2 DEF Holds
<1>5. Holds(q, Head(q).t) /\ ("first" \in DOMAIN Head(q) => HoldsFirst(q))
  BY <1>1, <1>3 DEF Holds, HoldsFirst
<1>6. \A t : Once(q, t) => Once(r, t)
  BY <1>2 DEF Once
<1>7. \A t : Once(q, t) /\ Head(q).t = t => ~Holds(r, t)
  BY <1>1, <1>2, <1>3 DEF Once, Holds
<1>8. HoldsFirst(r) => HoldsFirst(q)
  BY <1>2 DEF HoldsFirst
<1>9. RenamedAhead(q) => ~Holds(r, "Renamed") /\ RenamedAhead(r)
  BY <1>2 DEF RenamedAhead, Holds
<1>10. RenamedAhead(q) /\ Holds(q, "Renamed") => Head(q).t = "Renamed"
  BY <1>1 DEF RenamedAhead, Holds
<1> QED
  BY <1>4, <1>5, <1>6, <1>7, <1>8, <1>9, <1>10 DEF r

\* And out of the supervisor's.
LEMMA LeftHoldsFor ==
    ASSUME NEW S, NEW q \in Seq(S), q # <<>>
    PROVE  /\ \A t, s : HoldsFor(Tail(q), t, s) => HoldsFor(q, t, s)
           /\ \A t, s : Head(q).t = t /\ Head(q).id = s => HoldsFor(q, t, s)
           /\ \A t, s : OnceFor(q, t, s) => OnceFor(Tail(q), t, s)
           /\ \A t, s : OnceFor(q, t, s) /\ Head(q).t = t /\ Head(q).id = s => ~HoldsFor(Tail(q), t, s)
           /\ \A s, st : LastReport(q, s, st) =>
                \/ LastReport(Tail(q), s, st)
                \/ /\ ~HoldsFor(Tail(q), "SessionStatusChanged", s)
                   /\ Head(q).t = "SessionStatusChanged" /\ Head(q).id = s /\ Head(q).status = st
<1> DEFINE r == Tail(q)
<1>1. /\ Len(q) \in Nat /\ Len(q) >= 1
      /\ DOMAIN q = 1..Len(q) /\ DOMAIN r = 1..(Len(q) - 1)
      /\ \A i \in 1..(Len(q) - 1) : r[i] = q[i + 1]
      /\ Head(q) = q[1]
  BY Left
<1> HIDE DEF r
<1>2. \A i \in DOMAIN r : i + 1 \in DOMAIN q /\ r[i] = q[i + 1] /\ i \in Nat /\ i + 1 # 1
  BY <1>1
<1>3. 1 \in DOMAIN q
  BY <1>1
<1>4. \A t, s : HoldsFor(r, t, s) => HoldsFor(q, t, s)
  BY <1>2 DEF HoldsFor
<1>5. \A t, s : Head(q).t = t /\ Head(q).id = s => HoldsFor(q, t, s)
  BY <1>1, <1>3 DEF HoldsFor
<1>6. \A t, s : OnceFor(q, t, s) => OnceFor(r, t, s)
  BY <1>2 DEF OnceFor
<1>7. \A t, s : OnceFor(q, t, s) /\ Head(q).t = t /\ Head(q).id = s => ~HoldsFor(r, t, s)
  BY <1>1, <1>2, <1>3 DEF OnceFor, HoldsFor
<1>8. ASSUME NEW s, NEW st, LastReport(q, s, st)
      PROVE  \/ LastReport(r, s, st)
             \/ /\ ~HoldsFor(r, "SessionStatusChanged", s)
                /\ Head(q).t = "SessionStatusChanged" /\ Head(q).id = s /\ Head(q).status = st
  <2>1. PICK i \in DOMAIN q :
          /\ q[i].t = "SessionStatusChanged" /\ q[i].id = s /\ q[i].status = st
          /\ \A j \in DOMAIN q : q[j].t = "SessionStatusChanged" /\ q[j].id = s => j <= i
    BY <1>8 DEF LastReport
  <2>2. CASE i = 1
    BY <1>1, <1>2, <2>1, <2>2 DEF HoldsFor
  <2>3. CASE i # 1
    <3>1. i - 1 \in DOMAIN r /\ r[i - 1] = q[i]
      BY <1>1, <2>3
    <3>2. \A j \in DOMAIN r : r[j].t = "SessionStatusChanged" /\ r[j].id = s => j <= i - 1
      BY <1>1, <1>2, <2>1
    <3> QED
      BY <2>1, <3>1, <3>2 DEF LastReport
  <2> QED
    BY <2>2, <2>3
<1> QED
  BY <1>4, <1>5, <1>6, <1>7, <1>8 DEF r

\* What an acknowledgement put ahead of a mailbox adds.
LEMMA AheadHolds ==
    ASSUME NEW S, NEW q \in Seq(S), NEW m \in S, m.t = "Renamed", "first" \notin DOMAIN m
    PROVE  /\ \A t : Holds(<<m>> \o q, t) <=> Holds(q, t) \/ t = "Renamed"
           /\ \A t : Once(q, t) /\ t # "Renamed" => Once(<<m>> \o q, t)
           /\ HoldsFirst(<<m>> \o q) => HoldsFirst(q)
           /\ ~Holds(q, "Renamed") => RenamedAhead(<<m>> \o q)
<1> DEFINE r == <<m>> \o q
<1>1. /\ Len(q) \in Nat /\ DOMAIN q = 1..Len(q) /\ DOMAIN r = 1..(Len(q) + 1)
      /\ r[1] = m
      /\ \A i \in 2..(Len(q) + 1) : r[i] = q[i - 1]
  BY Ahead
<1> HIDE DEF r
<1>2. \A i \in DOMAIN r : i = 1 \/ (i - 1 \in DOMAIN q /\ r[i] = q[i - 1] /\ i \in Nat)
  BY <1>1
<1>3. \A i \in DOMAIN q : i + 1 \in DOMAIN r /\ r[i + 1] = q[i]
  BY <1>1
<1>4. 1 \in DOMAIN r
  BY <1>1
<1>5. \A t : Holds(r, t) <=> Holds(q, t) \/ t = "Renamed"
  BY <1>1, <1>2, <1>3, <1>4 DEF Holds
<1>6. \A t : Once(q, t) /\ t # "Renamed" => Once(r, t)
  BY <1>1, <1>2 DEF Once
<1>7. HoldsFirst(r) => HoldsFirst(q)
  BY <1>1, <1>2 DEF HoldsFirst
<1>8. ~Holds(q, "Renamed") => RenamedAhead(r)
  BY <1>1, <1>2 DEF RenamedAhead, Holds
<1> QED
  BY <1>5, <1>6, <1>7, <1>8 DEF r

\* An empty mailbox holds nothing.
LEMMA EmptyHolds ==
    /\ \A t : ~Holds(<<>>, t) /\ Once(<<>>, t)
    /\ \A t, s : ~HoldsFor(<<>>, t, s) /\ OnceFor(<<>>, t, s)
    /\ ~HoldsFirst(<<>>) /\ RenamedAhead(<<>>)
BY DEF Holds, Once, HoldsFor, OnceFor, HoldsFirst, RenamedAhead

-----------------------------------------------------------------------------
(* Types *)

Actor == [up : BOOLEAN, box : Seq(BoxMail), asks : {"", "derived", "tool"},
          reported : Statuses \union {"unknown"}, turn : BOOLEAN]

\* A message sent to a session leaves an actor of each.
LEMMA SendType ==
    ASSUME NEW sn \in [Sessions -> Actor], NEW s \in Sessions, NEW m \in BoxMail
    PROVE  /\ Send(sn, s, m) \in [Sessions -> Actor]
           /\ Send(sn, s, m)[s] = [sn[s] EXCEPT !.box = Append(sn[s].box, m)]
           /\ \A r \in Sessions : r # s => Send(sn, s, m)[r] = sn[r]
<1>1. Append(sn[s].box, m) \in Seq(BoxMail)
  BY Joined DEF Actor
<1> QED
  BY <1>1 DEF Send, Actor

\* A message taken from a mailbox.
LEMMA TookType ==
    ASSUME Typed, NEW s \in Sessions, ses[s].box # <<>>
    PROVE  /\ Took(s) \in [Sessions -> Actor]
           /\ Took(s)[s] = [ses[s] EXCEPT !.box = Tail(ses[s].box)]
           /\ \A r \in Sessions : r # s => Took(s)[r] = ses[r]
<1>1. Tail(ses[s].box) \in Seq(BoxMail)
  BY Left DEF Typed, WellFormed
<1> QED
  BY <1>1 DEF Took, Actor, Typed, WellFormed

\* A session that is not loaded is an actor too.
LEMMA ColdType == Cold \in Actor
<1>1. FALSE \in BOOLEAN
  OBVIOUS
<1> QED
  BY <1>1, EmptySeq DEF Cold, Actor

\* TypeOK asks less of the actors than that.
LEMMA ActorsTyped ==
    ASSUME ses \in [Sessions -> Actor]
    PROVE  \A s \in Sessions : /\ ses[s].up \in BOOLEAN /\ ses[s].turn \in BOOLEAN
                               /\ ses[s].asks \in Names
                               /\ ses[s].reported \in Statuses \union {"unknown"}
BY DEF Actor, Names

\* The list starts typed.
LEMMA TypedInit == Init => Typed
<1> SUFFICES ASSUME Init PROVE Typed
  OBVIOUS
<1>1. ses \in [Sessions -> Actor]
  BY ColdType DEF Init
<1>2. /\ rows \in [Sessions -> [listed : BOOLEAN, status : Statuses, name : Names]]
      /\ own \in [Sessions -> [told : BOOLEAN, status : Statuses, name : Names]]
      /\ call \in [Sessions -> [recorded : BOOLEAN, queued : BOOLEAN, answered : BOOLEAN]]
  BY FALSE \in BOOLEAN DEF Init, Statuses, Names
<1>3. spent \in [calls : Nat, turns : Nat, crashes : Nat, used : SUBSET Sessions,
                 closed : BOOLEAN]
  BY FALSE \in BOOLEAN DEF Init
<1>4. WellFormed
  BY <1>1, <1>3, EmptySeq DEF Init, WellFormed, Actor
<1>5. \A s \in Sessions : /\ ses[s].up \in BOOLEAN /\ ses[s].turn \in BOOLEAN
                          /\ ses[s].asks \in Names
                          /\ ses[s].reported \in Statuses \union {"unknown"}
  BY <1>1, ActorsTyped
<1>6. TypeOK
  BY <1>2, <1>5 DEF Init, TypeOK, NoWait
<1> QED
  BY <1>4, <1>6 DEF Typed

\* What the actors' type gives TypeOK in the next state.
LEMMA ActorsTypedNext ==
    ASSUME ses' \in [Sessions -> Actor]
    PROVE  \A s \in Sessions : /\ ses'[s].up \in BOOLEAN /\ ses'[s].turn \in BOOLEAN
                               /\ ses'[s].asks \in Names
                               /\ ses'[s].reported \in Statuses \union {"unknown"}
BY DEF Actor, Names

\* One event, staged.
LEMMA OneEvent ==
    ASSUME NEW e \in Events
    PROVE  <<e>> \in Seq(Events) /\ Len(<<e>>) = 1 /\ <<e>>[1] = e /\ <<e>> # <<>>
OBVIOUS

\* Each handler of the supervisor keeps the types.
LEMMA TypedHandler ==
    ASSUME Typed, HandleCommand
    PROVE  Typed'
<1> DEFINE cmd == Head(inbox)
<1>1. /\ inbox # <<>> /\ inbox' = Tail(inbox) /\ UNCHANGED <<rows, own, spent>>
      /\ wait = NoWait
  BY DEF HandleCommand, Free
<1>2. cmd \in Mail /\ inbox' \in Seq(Mail)
  BY <1>1, Left DEF Typed, WellFormed
<1>3. ses \in [Sessions -> Actor]
  BY DEF Typed, WellFormed, Actor
<1>4. ASSUME /\ ses' \in [Sessions -> Actor]
             /\ staged' \in Seq(Events) /\ (staged' = <<>> \/ Len(staged') = 1)
             /\ wait' \in [for : {"none", "offload", "delete", "shutdown"},
                           on : Sessions \union {Nobody}, todo : SUBSET Sessions]
             /\ wait'.for = "none" => wait' = NoWait
             /\ wait'.for = "delete" => wait'.on # Nobody
             /\ active' \subseteq Sessions /\ idle' \subseteq active' 
             /\ UNCHANGED <<call, gone>>
      PROVE  Typed'
  <2>1. WellFormed'
    BY <1>1, <1>2, <1>4 DEF Typed, WellFormed, Actor
  <2>2. TypeOK'
    BY <1>1, <1>4, ActorsTypedNext DEF Typed, TypeOK
  <2> QED
    BY <2>1, <2>2 DEF Typed
<1>5. staged = <<>> /\ staged \in Seq(Events)
  BY DEF HandleCommand, Free, Typed, WellFormed
<1>6. /\ wait \in [for : {"none", "offload", "delete", "shutdown"},
                   on : Sessions \union {Nobody}, todo : SUBSET Sessions]
      /\ wait.for = "none" => wait = NoWait
      /\ wait.for = "delete" => wait.on # Nobody
      /\ active \subseteq Sessions /\ idle \subseteq active
  BY DEF Typed, TypeOK
<1> HIDE DEF cmd
<1>7. CASE cmd.t = "Create" /\ Create(cmd.id, cmd.name)
  <2>1. cmd.id \in Sessions /\ cmd.name \in Names
    BY <1>2, <1>7 DEF Mail, Calls, Names
  <2>2. [t |-> "Create", name |-> cmd.name] \in BoxMail
    BY <2>1 DEF BoxMail
  <2>3. [t |-> "SessionCreated", id |-> cmd.id, name |-> cmd.name] \in Events
    BY <2>1 DEF Events
  <2>4. ses' \in [Sessions -> Actor]
    BY <1>3, <1>7, <2>1, <2>2, SendType DEF Create
  <2>5. staged' \in Seq(Events) /\ Len(staged') = 1
    BY <1>7, <2>3, OneEvent DEF Create
  <2> QED
    BY <1>4, <1>6, <1>7, <2>1, <2>4, <2>5 DEF Create, Reach
<1>8. CASE cmd.t = "Forward" /\ Forward(cmd)
  <2>1. cmd.id \in Sessions /\ [t |-> cmd.what] \in BoxMail
    BY <1>2, <1>8 DEF Mail, Calls, BoxMail
  <2>2. ses' \in [Sessions -> Actor]
    <3>1. Send(ses, cmd.id, [t |-> cmd.what]) \in [Sessions -> Actor]
      BY <1>3, <2>1, SendType
    <3> QED
      BY <1>3, <1>8, <3>1 DEF Forward
  <2> QED
    BY <1>4, <1>5, <1>6, <1>8, <2>1, <2>2 DEF Forward, Reach
<1>9. CASE cmd.t = "SetSessionTitle" /\ SetSessionTitle(cmd.id)
  <2>1. cmd.id \in Sessions /\ [t |-> "TitleSet"] \in BoxMail
    BY <1>2, <1>9 DEF Mail, Calls, BoxMail
  <2>2. [t |-> "SessionNamed", id |-> cmd.id, name |-> "user", ack |-> FALSE] \in Events
    BY <2>1, FALSE \in BOOLEAN DEF Events, Names
  <2>3. ses' \in [Sessions -> Actor]
    <3>1. Send(ses, cmd.id, [t |-> "TitleSet"]) \in [Sessions -> Actor]
      BY <1>3, <2>1, SendType
    <3> QED
      BY <1>3, <1>9, <3>1 DEF SetSessionTitle
  <2>4. staged' \in Seq(Events) /\ (staged' = <<>> \/ Len(staged') = 1)
    BY <1>5, <1>9, <2>2, OneEvent DEF SetSessionTitle
  <2> QED
    BY <1>4, <1>6, <1>9, <2>3, <2>4 DEF SetSessionTitle
<1>10. CASE cmd.t = "RenameSession" /\ RenameSession(cmd)
  <2>1. cmd.id \in Sessions /\ cmd.name \in Names
    BY <1>2, <1>10 DEF Mail, Calls, Names
  <2>2. [t |-> "SessionNamed", id |-> cmd.id, name |-> cmd.name, ack |-> TRUE] \in Events
    BY <2>1, TRUE \in BOOLEAN DEF Events
  <2>3. staged' \in Seq(Events) /\ Len(staged') = 1
    BY <1>10, <2>2, OneEvent DEF RenameSession
  <2> QED
    BY <1>3, <1>4, <1>6, <1>10, <2>3 DEF RenameSession
<1>11. CASE cmd.t = "SessionStatusChanged" /\ SessionStatusChanged(cmd)
  <2>1. [t |-> "SessionStatusChanged", id |-> cmd.id, status |-> cmd.status] \in Events
    BY <1>2, <1>11 DEF Mail, Calls, Events
  <2>2. staged' \in Seq(Events) /\ (staged' = <<>> \/ Len(staged') = 1)
    BY <1>5, <1>11, <2>1, OneEvent DEF SessionStatusChanged
  <2> QED
    BY <1>3, <1>4, <1>6, <1>11, <2>2 DEF SessionStatusChanged
<1>12. CASE cmd.t = "Delete" /\ Delete(cmd.id)
  <2>1. cmd.id \in Sessions /\ [t |-> "Delete"] \in BoxMail
    BY <1>2, <1>12 DEF Mail, Calls, BoxMail
  <2>2. ses' \in [Sessions -> Actor]
    <3>1. Send(ses, cmd.id, [t |-> "Delete"]) \in [Sessions -> Actor]
      BY <1>3, <2>1, SendType
    <3> QED
      BY <1>3, <1>12, <3>1 DEF Delete
  <2> QED
    BY <1>4, <1>5, <1>6, <1>12, <2>1, <2>2, SessionsAssumption
       DEF Delete, Reach, SessionsAssumption
<1>13. CASE cmd.t = "Tick" /\ Tick
  BY <1>3, <1>4, <1>5, <1>6, <1>13 DEF Tick
<1>14. CASE cmd.t = "Shutdown" /\ Shutdown
  BY <1>3, <1>4, <1>5, <1>6, <1>14 DEF Shutdown
<1> QED
  BY <1>7, <1>8, <1>9, <1>10, <1>11, <1>12, <1>13, <1>14 DEF HandleCommand, cmd

-----------------------------------------------------------------------------
(* What a step does to a session's actor *)

Note(s, status) == [t |-> "SessionStatusChanged", id |-> s, status |-> status]
Ask(s, name) == [t |-> "RenameSession", id |-> s, name |-> name]

\* The others are as they were.
Only(s) == \A r \in Sessions : r # s => ses'[r] = ses[r]

\* A step that takes the first message and does no more to the actor.
Takes(s) ==
  /\ ses[s].box # <<>> /\ ses' \in [Sessions -> Actor] /\ Only(s)
  /\ ses'[s].box = Tail(ses[s].box)
  /\ ses'[s].up = ses[s].up /\ ses'[s].asks = ses[s].asks
  /\ ses'[s].reported = ses[s].reported /\ ses'[s].turn = ses[s].turn

\* A step that asks for a name and waits.
Waits(s, name) ==
  /\ ses' \in [Sessions -> Actor] /\ Only(s)
  /\ ses'[s].box = ses[s].box /\ ses'[s].up = ses[s].up
  /\ ses'[s].asks = name /\ name \in {"derived", "tool"}
  /\ ses'[s].reported = ses[s].reported /\ ses'[s].turn = ses[s].turn
  /\ inbox' = Append(inbox, Ask(s, name))

\* A step that sends the session this message, whoever does it.
Sends(s, m) ==
  /\ m \in BoxMail /\ ses' \in [Sessions -> Actor] /\ Only(s)
  /\ ses'[s].box = Append(ses[s].box, m)
  /\ ses'[s].up = ses[s].up /\ ses'[s].asks = ses[s].asks
  /\ ses'[s].reported = ses[s].reported

\* A step after which the session is not loaded.
Unloads(s) == ses' \in [Sessions -> Actor] /\ Only(s) /\ ses'[s] = Cold

\* A step that reports this status when it is news.
Reports(s, status) ==
  /\ status \in Statuses
  /\ ses'[s].reported = status
  /\ inbox' = IF ses[s].reported # status THEN Append(inbox, Note(s, status)) ELSE inbox

\* The actors that a typed state has.
LEMMA TypedActors ==
    ASSUME Typed
    PROVE  /\ ses \in [Sessions -> Actor]
           /\ \A s \in Sessions : ses[s].box \in Seq(BoxMail)
BY DEF Typed, WellFormed, Actor

LEMMA ServesHead ==
    ASSUME Typed, NEW s \in Sessions, NEW t, Serves(s, t)
    PROVE  /\ ses[s].up /\ ses[s].asks = "" /\ ses[s].box # <<>>
           /\ ses[s].box \in Seq(BoxMail)
           /\ Head(ses[s].box) \in BoxMail /\ Head(ses[s].box).t = t
           /\ Holds(ses[s].box, t)
<1>1. /\ ses[s].up /\ ses[s].asks = "" /\ ses[s].box # <<>>
      /\ ses[s].box \in Seq(BoxMail) /\ Head(ses[s].box).t = t
  BY DEF Serves, Typed, WellFormed
<1>2. Holds(ses[s].box, Head(ses[s].box).t)
  BY <1>1, LeftHolds
<1>3. Head(ses[s].box) \in BoxMail
  BY <1>1, Left
<1> QED
  BY <1>1, <1>2, <1>3

LEMMA SetReported ==
    ASSUME NEW sn \in [Sessions -> Actor], NEW s \in Sessions,
           NEW v \in Statuses \union {"unknown"},
           NEW sr, sr = [sn EXCEPT ![s].reported = v]
    PROVE  /\ sr \in [Sessions -> Actor]
           /\ sr[s].reported = v /\ sr[s].box = sn[s].box /\ sr[s].up = sn[s].up
           /\ sr[s].asks = sn[s].asks /\ sr[s].turn = sn[s].turn
           /\ \A r \in Sessions : r # s => sr[r] = sn[r]
BY DEF Actor

LEMMA TookFields ==
    ASSUME Typed, NEW s \in Sessions, ses[s].box # <<>>
    PROVE  /\ Took(s) \in [Sessions -> Actor]
           /\ Took(s)[s].box = Tail(ses[s].box) /\ Took(s)[s].up = ses[s].up
           /\ Took(s)[s].asks = ses[s].asks /\ Took(s)[s].turn = ses[s].turn
           /\ Took(s)[s].reported = ses[s].reported
           /\ \A r \in Sessions : r # s => Took(s)[r] = ses[r]
<1>1. ses \in [Sessions -> Actor] /\ ses[s] \in Actor
  BY TypedActors
<1>2. PICK b \in Seq(BoxMail) : b = Tail(ses[s].box)
  BY <1>1, Left DEF Actor
<1>3. /\ Took(s) \in [Sessions -> Actor]
      /\ Took(s)[s] = [ses[s] EXCEPT !.box = b]
      /\ \A r \in Sessions : r # s => Took(s)[r] = ses[r]
  BY <1>2, TookType
<1> QED
  BY <1>1, <1>2, <1>3 DEF Actor

LEMMA SendFields ==
    ASSUME NEW sn \in [Sessions -> Actor], NEW s \in Sessions, NEW m \in BoxMail
    PROVE  /\ Send(sn, s, m) \in [Sessions -> Actor]
           /\ Send(sn, s, m)[s].box = Append(sn[s].box, m)
           /\ Send(sn, s, m)[s].up = sn[s].up /\ Send(sn, s, m)[s].asks = sn[s].asks
           /\ Send(sn, s, m)[s].turn = sn[s].turn
           /\ Send(sn, s, m)[s].reported = sn[s].reported
           /\ \A r \in Sessions : r # s => Send(sn, s, m)[r] = sn[r]
<1>1. sn[s] \in Actor
  OBVIOUS
<1>2. PICK b \in Seq(BoxMail) : b = Append(sn[s].box, m)
  BY <1>1, Joined DEF Actor
<1>3. /\ Send(sn, s, m) \in [Sessions -> Actor]
      /\ Send(sn, s, m)[s] = [sn[s] EXCEPT !.box = b]
      /\ \A r \in Sessions : r # s => Send(sn, s, m)[r] = sn[r]
  BY <1>2, SendType
<1> QED
  BY <1>1, <1>2, <1>3 DEF Actor

LEMMA TookTakes ==
    ASSUME Typed, NEW s \in Sessions, NEW t, Serves(s, t), ses' = Took(s)
    PROVE  Takes(s)
BY ServesHead, TookFields DEF Takes, Only

LEMMA SendSends ==
    ASSUME Typed, NEW s \in Sessions, NEW m \in BoxMail, ses' = Send(ses, s, m)
    PROVE  Sends(s, m) /\ ses'[s].turn = ses[s].turn
BY TypedActors, SendFields DEF Sends, Only

LEMMA LoadEffect ==
    ASSUME Typed, NEW s \in Sessions, Load(s)
    PROVE  /\ ses' \in [Sessions -> Actor] /\ Only(s)
           /\ ~ses[s].up /\ ses[s].box # <<>> /\ ses'[s].up
           /\ ses'[s].box = ses[s].box /\ ses'[s].asks = ses[s].asks
           /\ ses'[s].turn = ses[s].turn
           /\ ~own[s].told => ses'[s].reported = "unknown" /\ inbox' = inbox
           /\ own[s].told => Reports(s, own[s].status)
           /\ UNCHANGED <<rows, staged, wait, active, idle, own, call, gone, spent>>
<1>1. ses \in [Sessions -> Actor] /\ own[s].status \in Statuses
  BY TypedActors DEF Typed, TypeOK
<1>2. (IF own[s].told THEN own[s].status ELSE "unknown") \in Statuses \union {"unknown"}
  BY <1>1
<1>3. ses' = [ses EXCEPT ![s] = [ses[s] EXCEPT !.up = TRUE,
                 !.reported = IF own[s].told THEN own[s].status ELSE "unknown"]]
  BY <1>1 DEF Load, Actor
<1>4. [ses[s] EXCEPT !.up = TRUE,
          !.reported = IF own[s].told THEN own[s].status ELSE "unknown"] \in Actor
  BY <1>1, <1>2, TRUE \in BOOLEAN DEF Actor
<1>5. ses' \in [Sessions -> Actor] /\ Only(s)
  BY <1>1, <1>3, <1>4 DEF Only
<1>6. /\ ses'[s].box = ses[s].box /\ ses'[s].asks = ses[s].asks
      /\ ses'[s].turn = ses[s].turn /\ ses'[s].up
      /\ ses'[s].reported = IF own[s].told THEN own[s].status ELSE "unknown"
  BY <1>1, <1>3 DEF Actor
<1> QED
  BY <1>1, <1>5, <1>6 DEF Load, Report, Reports, Note

LEMMA BeCreatedEffect ==
    ASSUME Typed, NEW s \in Sessions, BeCreated(s)
    PROVE  /\ ses' \in [Sessions -> Actor] /\ Only(s)
           /\ Serves(s, "Create")
           /\ ses'[s].box = Append(Tail(ses[s].box), [t |-> "Message", first |-> TRUE])
           /\ ses'[s].up = ses[s].up /\ ses'[s].asks = ses[s].asks
           /\ ses'[s].turn = ses[s].turn
           /\ Reports(s, own[s].status)
           /\ own' \in [Sessions -> [told : BOOLEAN, status : Statuses, name : Names]]
           /\ own'[s].told /\ own'[s].status = own[s].status
           /\ \A r \in Sessions : r # s => own'[r] = own[r]
           /\ UNCHANGED <<rows, staged, wait, active, idle, call, gone, spent>>
<1>1. ses \in [Sessions -> Actor] /\ own[s].status \in Statuses /\ ses[s] \in Actor
  BY TypedActors DEF Typed, TypeOK
<1>2. /\ Serves(s, "Create") /\ ses[s].box # <<>> /\ ses[s].up
      /\ Head(ses[s].box) \in BoxMail /\ Head(ses[s].box).t = "Create"
  BY ServesHead DEF BeCreated
<1>3. PICK m \in BoxMail : m = [t |-> "Message", first |-> TRUE]
  BY DEF BoxMail
<1>4. PICK tk \in [Sessions -> Actor] :
        /\ tk = Took(s)
        /\ tk[s].box = Tail(ses[s].box) /\ tk[s].up = ses[s].up
        /\ tk[s].asks = ses[s].asks /\ tk[s].turn = ses[s].turn
        /\ \A r \in Sessions : r # s => tk[r] = ses[r]
  BY <1>2, TookFields
<1>5. PICK sd \in [Sessions -> Actor] :
        /\ sd = Send(tk, s, m)
        /\ sd[s].box = Append(tk[s].box, m) /\ sd[s].up = tk[s].up
        /\ sd[s].asks = tk[s].asks /\ sd[s].turn = tk[s].turn
        /\ \A r \in Sessions : r # s => sd[r] = tk[r]
  BY SendFields
<1>6. ses' = [sd EXCEPT ![s].reported = own[s].status]
  BY <1>3, <1>4, <1>5 DEF BeCreated
<1>7. ses' \in [Sessions -> Actor] /\ Only(s)
  BY <1>1, <1>4, <1>5, <1>6, SetReported DEF Only
<1>8. /\ ses'[s].box = Append(Tail(ses[s].box), m)
      /\ ses'[s].up = ses[s].up /\ ses'[s].asks = ses[s].asks
      /\ ses'[s].turn = ses[s].turn /\ ses'[s].reported = own[s].status
  BY <1>1, <1>4, <1>5, <1>6, SetReported
<1>9. Head(ses[s].box).name \in Names
  BY <1>2 DEF BoxMail
<1>10. /\ own' \in [Sessions -> [told : BOOLEAN, status : Statuses, name : Names]]
       /\ own'[s].told /\ own'[s].status = own[s].status
       /\ \A r \in Sessions : r # s => own'[r] = own[r]
  BY <1>9, TRUE \in BOOLEAN DEF BeCreated, Typed, TypeOK
<1>11. Reports(s, own[s].status)
  BY <1>1, <1>2, <1>8 DEF BeCreated, Report, Reports, Note
<1> QED
  BY <1>2, <1>3, <1>7, <1>8, <1>10, <1>11 DEF BeCreated

\* A batch that leaves a status: the first message is taken, or none.
Settled(s, status) ==
  /\ ses' \in [Sessions -> Actor] /\ Only(s) /\ ses[s].up
  /\ ses'[s].up = ses[s].up /\ ses'[s].asks = ses[s].asks /\ ses'[s].turn = ses[s].turn
  /\ Reports(s, status)
  /\ own' \in [Sessions -> [told : BOOLEAN, status : Statuses, name : Names]]
  /\ own'[s].told = own[s].told /\ own'[s].status = status
  /\ \A r \in Sessions : r # s => own'[r] = own[r]
  /\ UNCHANGED <<rows, staged, wait, active, idle, call, gone, spent>>

LEMMA SettlesEffect ==
    ASSUME Typed, NEW s \in Sessions, ses[s].up, NEW status \in Statuses,
           NEW sn \in [Sessions -> Actor],
           sn[s].up = ses[s].up, sn[s].asks = ses[s].asks, sn[s].turn = ses[s].turn,
           \A r \in Sessions : r # s => sn[r] = ses[r],
           Settles(s, sn, status)
    PROVE  Settled(s, status) /\ ses'[s].box = sn[s].box
<1>1. ses' = [sn EXCEPT ![s].reported = status]
  BY DEF Settles
<1>2. /\ ses' \in [Sessions -> Actor] /\ Only(s)
      /\ ses'[s].box = sn[s].box /\ ses'[s].up = sn[s].up /\ ses'[s].asks = sn[s].asks
      /\ ses'[s].turn = sn[s].turn /\ ses'[s].reported = status
  <2>1. status \in Statuses \union {"unknown"}
    OBVIOUS
  <2>2. /\ ses' \in [Sessions -> Actor]
        /\ ses'[s].box = sn[s].box /\ ses'[s].up = sn[s].up /\ ses'[s].asks = sn[s].asks
        /\ ses'[s].turn = sn[s].turn /\ ses'[s].reported = status
        /\ \A r \in Sessions : r # s => ses'[r] = sn[r]
    BY <1>1, <2>1 DEF Actor
  <2> QED
    BY <2>2 DEF Only
<1>3. ses'[s].up = TRUE
  <2>1. ses[s].up = TRUE
    BY TypedActors DEF Actor
  <2> QED
    BY <1>2, <2>1
<1>4. Reports(s, status)
  BY <1>2, <1>3 DEF Settles, Report, Reports, Note
<1>5. /\ own' \in [Sessions -> [told : BOOLEAN, status : Statuses, name : Names]]
      /\ own'[s].told = own[s].told /\ own'[s].status = status
      /\ \A r \in Sessions : r # s => own'[r] = own[r]
  <2>1. own \in [Sessions -> [told : BOOLEAN, status : Statuses, name : Names]]
    BY DEF Typed, TypeOK
  <2>2. own' = [own EXCEPT ![s].status = status]
    BY DEF Settles
  <2> QED
    BY <2>1, <2>2
<1> QED
  BY <1>2, <1>4, <1>5 DEF Settles, Settled

LEMMA ProvisionedEffect ==
    ASSUME Typed, NEW s \in Sessions, Provisioned(s)
    PROVE  Settled(s, "Idle") /\ ses'[s].box = ses[s].box /\ own[s].told
<1>1. ses \in [Sessions -> Actor] /\ "Idle" \in Statuses /\ ses[s].up /\ own[s].told
  BY TypedActors DEF Statuses, Provisioned
<1>2. Settles(s, ses, "Idle")
  BY DEF Provisioned
<1> QED
  BY <1>1, <1>2, SettlesEffect

LEMMA TurnEffect ==
    ASSUME Typed, NEW s \in Sessions, Started(s) \/ Outcome(s)
    PROVE  \E status \in {"Running", "Idle"} :
             /\ Settled(s, status)
             /\ Serves(s, IF status = "Running" THEN "Started" ELSE "Outcome")
             /\ ses'[s].box = Tail(ses[s].box)
<1>1. PICK status \in {"Running", "Idle"} :
        /\ Serves(s, IF status = "Running" THEN "Started" ELSE "Outcome")
        /\ Settles(s, Took(s), status)
  BY DEF Started, Outcome
<1>2. ses[s].up /\ ses[s].box # <<>> /\ status \in Statuses
  BY <1>1, ServesHead DEF Statuses
<1>3. PICK tk \in [Sessions -> Actor] :
        /\ tk = Took(s)
        /\ tk[s].box = Tail(ses[s].box) /\ tk[s].up = ses[s].up
        /\ tk[s].asks = ses[s].asks /\ tk[s].turn = ses[s].turn
        /\ \A r \in Sessions : r # s => tk[r] = ses[r]
  BY <1>2, TookFields
<1>4. Settles(s, tk, status)
  BY <1>1, <1>3
<1>5. Settled(s, status) /\ ses'[s].box = tk[s].box
  BY <1>2, <1>3, <1>4, SettlesEffect
<1> QED
  BY <1>1, <1>3, <1>5

LEMMA AskEffect ==
    ASSUME Typed, NEW s \in Sessions, NEW name \in {"derived", "tool"},
           ses' = [ses EXCEPT ![s].asks = name],
           inbox' = Append(inbox, [t |-> "RenameSession", id |-> s, name |-> name])
    PROVE  Waits(s, name)
<1>1. ses \in [Sessions -> Actor]
  BY TypedActors
<1> QED
  BY <1>1 DEF Waits, Only, Actor, Ask

LEMMA TakeMessageEffect ==
    ASSUME Typed, NEW s \in Sessions, TakeMessage(s)
    PROVE  /\ Serves(s, "Message")
           /\ \/ Waits(s, "derived") /\ UNCHANGED call
              \/ /\ Takes(s) /\ UNCHANGED inbox
                 /\ call' = IF "first" \in DOMAIN Head(ses[s].box)
                            THEN [call EXCEPT ![s] = Answered([@ EXCEPT !.queued = TRUE])]
                            ELSE call
           /\ UNCHANGED <<rows, staged, wait, active, idle, own, gone, spent>>
<1>1. CASE own[s].told /\ own[s].name = ""
  BY <1>1, AskEffect DEF TakeMessage
<1>2. CASE ~(own[s].told /\ own[s].name = "")
  BY <1>2, TookTakes DEF TakeMessage
<1> QED
  BY <1>1, <1>2

LEMMA SetTitleEffect ==
    ASSUME Typed, NEW s \in Sessions, SetTitle(s)
    PROVE  /\ Serves(s, "SetTitle") /\ Waits(s, "tool")
           /\ UNCHANGED <<rows, staged, wait, active, idle, own, call, gone, spent>>
BY AskEffect DEF SetTitle

LEMMA ReadEffect ==
    ASSUME Typed, NEW s \in Sessions, TitleSet(s) \/ Read(s)
    PROVE  /\ Serves(s, "TitleSet") \/ Serves(s, "Read")
           /\ Takes(s)
           /\ own' \in [Sessions -> [told : BOOLEAN, status : Statuses, name : Names]]
           /\ \A r \in Sessions : own'[r].told = own[r].told /\ own'[r].status = own[r].status
           /\ UNCHANGED <<rows, staged, inbox, wait, active, idle, call, gone, spent>>
<1>1. own \in [Sessions -> [told : BOOLEAN, status : Statuses, name : Names]]
  BY DEF Typed, TypeOK
<1>2. CASE TitleSet(s)
  BY <1>1, <1>2, TookTakes DEF TitleSet, Names
<1>3. CASE Read(s)
  BY <1>1, <1>3, TookTakes DEF Read
<1> QED
  BY <1>2, <1>3

LEMMA NamedEffect ==
    ASSUME Typed, Renames, NEW s \in Sessions, Named(s)
    PROVE  /\ ses' \in [Sessions -> Actor] /\ Only(s)
           /\ ses[s].asks # "" /\ ses'[s].asks = ""
           /\ ses[s].box # <<>> /\ Tail(ses[s].box) # <<>> /\ Head(ses[s].box).t = "Renamed"
           /\ ses'[s].box \in {Tail(ses[s].box), Tail(Tail(ses[s].box))}
           /\ ses'[s].up = ses[s].up /\ ses'[s].turn = ses[s].turn
           /\ ses'[s].reported = ses[s].reported
           /\ own' \in [Sessions -> [told : BOOLEAN, status : Statuses, name : Names]]
           /\ \A r \in Sessions : own'[r].told = own[r].told /\ own'[r].status = own[r].status
           /\ UNCHANGED <<rows, staged, inbox, wait, active, idle, call, gone, spent>>
<1>1. ses \in [Sessions -> Actor] /\ ses[s] \in Actor /\ ses[s].box \in Seq(BoxMail)
  BY TypedActors
<1>2. ses[s].asks # "" /\ ses[s].box # <<>> /\ Head(ses[s].box).t = "Renamed"
  BY DEF Named, Renames, NamedOnce
<1>3. Len(ses[s].box) >= 2
  BY <1>1, <1>2, LeftHolds DEF Renames, NamedOnce
<1>4. PICK b \in Seq(BoxMail) : b = Tail(ses[s].box) /\ b # <<>>
  BY <1>1, <1>3, TwoLeft
<1>5. PICK c \in Seq(BoxMail) : c = Tail(Tail(ses[s].box))
  BY <1>4, Left
<1>6. ses' = [ses EXCEPT ![s].asks = "", ![s].box = IF ses[s].asks = "tool" THEN c ELSE b]
  BY <1>1, <1>4, <1>5 DEF Named
<1>7. /\ ses' \in [Sessions -> Actor] /\ Only(s) /\ ses'[s].asks = ""
      /\ ses'[s].box \in {b, c}
      /\ ses'[s].up = ses[s].up /\ ses'[s].turn = ses[s].turn
      /\ ses'[s].reported = ses[s].reported
  BY <1>1, <1>6 DEF Only, Actor
<1>8. ses[s].asks \in Names
  BY <1>1 DEF Actor, Names
<1>9. /\ own' \in [Sessions -> [told : BOOLEAN, status : Statuses, name : Names]]
      /\ \A r \in Sessions : own'[r].told = own[r].told /\ own'[r].status = own[r].status
  BY <1>8 DEF Named, Typed, TypeOK
<1> QED
  BY <1>2, <1>4, <1>5, <1>7, <1>9 DEF Named

LEMMA OffloadEffect ==
    ASSUME Typed, NEW s \in Sessions, PrepareOffload(s)
    PROVE  /\ Serves(s, "PrepareOffload")
           /\ \/ Takes(s) /\ OffloadAnswered(s, FALSE)
              \/ Unloads(s) /\ OffloadAnswered(s, TRUE) /\ ~(own[s].told /\ Busy(s))
           /\ UNCHANGED <<rows, inbox, own, call, spent>>
<1>1. ses \in [Sessions -> Actor]
  BY TypedActors
<1>2. CASE own[s].told /\ Busy(s)
  BY <1>2, TookTakes DEF PrepareOffload
<1>3. CASE ~(own[s].told /\ Busy(s))
  <2>1. ses' = [ses EXCEPT ![s] = Cold]
    BY <1>3 DEF PrepareOffload
  <2>2. Unloads(s)
    BY <1>1, <2>1, ColdType DEF Unloads, Only
  <2> QED
    BY <1>3, <2>2 DEF PrepareOffload
<1> QED
  BY <1>2, <1>3

LEMMA DeletedEffect ==
    ASSUME Typed, NEW s \in Sessions, BeDeleted(s)
    PROVE  /\ Serves(s, "Delete") /\ Unloads(s) /\ DeleteAnswered(s)
           /\ UNCHANGED <<rows, inbox, own, call, spent>>
<1>1. ses \in [Sessions -> Actor]
  BY TypedActors
<1>2. ses' = [ses EXCEPT ![s] = Cold]
  BY DEF BeDeleted
<1>3. Unloads(s)
  BY <1>1, <1>2, ColdType DEF Unloads, Only
<1> QED
  BY <1>3 DEF BeDeleted

\* The agents only send to their session.
LEMMA AgentEffect ==
    ASSUME Typed, NEW s \in Sessions, AgentBegins(s) \/ AgentTitles(s) \/ AgentEnds(s)
    PROVE  /\ ses[s].up
           /\ \E m \in BoxMail :
                /\ Sends(s, m) /\ "first" \notin DOMAIN m
                /\ \/ m.t \in {"Started", "Outcome"} /\ (own[s].told \/ ses[s].turn)
                   \/ m.t = "SetTitle" /\ ses'[s].turn = ses[s].turn
           /\ spent' \in [calls : Nat, turns : Nat, crashes : Nat, used : SUBSET Sessions,
                          closed : BOOLEAN]
           /\ spent'.used = spent.used /\ spent'.closed = spent.closed
           /\ spent'.crashes = spent.crashes
           /\ UNCHANGED <<rows, staged, inbox, wait, active, idle, own, call, gone>>
<1>1. ses \in [Sessions -> Actor]
  BY TypedActors
<1>2. spent \in [calls : Nat, turns : Nat, crashes : Nat, used : SUBSET Sessions,
                 closed : BOOLEAN]
  BY DEF Typed, WellFormed
<1>3. ASSUME NEW t \in {"Started", "Outcome"}, NEW v \in BOOLEAN,
             ses' = [Send(ses, s, [t |-> t]) EXCEPT ![s].turn = v]
      PROVE  \E m \in BoxMail : Sends(s, m) /\ "first" \notin DOMAIN m /\ m.t = t
  <2>1. PICK m \in BoxMail : m = [t |-> t]
    BY DEF BoxMail
  <2>2. PICK sd \in [Sessions -> Actor] :
          /\ sd = Send(ses, s, m)
          /\ sd[s].box = Append(ses[s].box, m) /\ sd[s].up = ses[s].up
          /\ sd[s].asks = ses[s].asks /\ sd[s].reported = ses[s].reported
          /\ \A r \in Sessions : r # s => sd[r] = ses[r]
    BY <1>1, SendFields
  <2>3. ses' = [sd EXCEPT ![s].turn = v]
    BY <1>3, <2>1, <2>2
  <2>4. /\ ses' \in [Sessions -> Actor] /\ ses'[s].box = sd[s].box /\ ses'[s].up = sd[s].up
        /\ ses'[s].asks = sd[s].asks /\ ses'[s].reported = sd[s].reported
        /\ \A r \in Sessions : r # s => ses'[r] = sd[r]
    BY <2>3 DEF Actor
  <2>5. Sends(s, m)
    BY <2>2, <2>4 DEF Sends, Only
  <2> QED
    BY <2>1, <2>5
<1>4. CASE AgentBegins(s)
  <2>1. ses' = [Send(ses, s, [t |-> "Started"]) EXCEPT ![s].turn = TRUE]
    BY <1>4 DEF AgentBegins
  <2>2. \E m \in BoxMail : Sends(s, m) /\ "first" \notin DOMAIN m /\ m.t = "Started"
    BY <1>3, <2>1, TRUE \in BOOLEAN, Zenon
  <2>3. /\ spent' \in [calls : Nat, turns : Nat, crashes : Nat, used : SUBSET Sessions,
                        closed : BOOLEAN]
        /\ spent'.used = spent.used /\ spent'.closed = spent.closed
        /\ spent'.crashes = spent.crashes
    BY <1>2, <1>4 DEF AgentBegins
  <2> QED
    BY <1>4, <2>2, <2>3 DEF AgentBegins
<1>5. CASE AgentTitles(s)
  <2>1. PICK m \in BoxMail : m = [t |-> "SetTitle"]
    BY DEF BoxMail
  <2>2. Sends(s, m) /\ ses'[s].turn = ses[s].turn
    BY <1>5, <2>1, SendSends DEF AgentTitles
  <2> QED
    BY <1>2, <1>5, <2>1, <2>2 DEF AgentTitles
<1>6. CASE AgentEnds(s)
  <2>1. ses' = [Send(ses, s, [t |-> "Outcome"]) EXCEPT ![s].turn = FALSE]
    BY <1>6 DEF AgentEnds
  <2>2. \E m \in BoxMail : Sends(s, m) /\ "first" \notin DOMAIN m /\ m.t = "Outcome"
    BY <1>3, <2>1, FALSE \in BOOLEAN, Zenon
  <2> QED
    BY <1>2, <1>6, <2>2 DEF AgentEnds
<1> QED
  BY <1>4, <1>5, <1>6

\* A message to a session that starts and ends no turn.
Posts(s, m) == Sends(s, m) /\ ses'[s].turn = ses[s].turn /\ "first" \notin DOMAIN m

\* The event a handler leaves to be written.
Leaves(e) == staged' # <<>> /\ staged'[1] = e

\* The supervisor's handlers by what they do: post to a session and count it as
\* loaded, stage an event, wait, or nothing.
Creating(s) ==
  /\ Head(inbox).t = "Create" /\ Head(inbox).id = s
  /\ \E m \in BoxMail : m.t = "Create" /\ Posts(s, m)
  /\ \E name \in Names : Leaves([t |-> "SessionCreated", id |-> s, name |-> name])
  /\ active' = active \union {s} /\ wait' = wait
Forwarding(s) ==
  /\ Head(inbox).t = "Forward"
  /\ \E m \in BoxMail : m.t \in {"Message", "Read"} /\ Posts(s, m)
  /\ active' = active \union {s} /\ UNCHANGED <<staged, wait>>
Titling(s) ==
  /\ Head(inbox).t = "SetSessionTitle"
  /\ \/ UNCHANGED ses
     \/ s \in active /\ \E m \in BoxMail : m.t = "TitleSet" /\ Posts(s, m)
  /\ Leaves([t |-> "SessionNamed", id |-> s, name |-> "user", ack |-> FALSE])
  /\ UNCHANGED <<active, wait>>
Renaming(s) ==
  /\ Head(inbox).t = "RenameSession" /\ Head(inbox).id = s
  /\ \E name \in Names :
       Leaves([t |-> "SessionNamed", id |-> s, name |-> name, ack |-> TRUE])
  /\ UNCHANGED <<ses, active, wait>>
Noting(s) ==
  /\ Head(inbox).t = "SessionStatusChanged" /\ Head(inbox).id = s
  /\ IF rows[s].listed /\ rows[s].status # Head(inbox).status
     THEN Leaves(Note(s, Head(inbox).status)) ELSE staged' = <<>>
  /\ UNCHANGED <<ses, active, wait>>
Deleting(s) ==
  /\ Head(inbox).t = "Delete"
  /\ \E m \in BoxMail : m.t = "Delete" /\ Posts(s, m)
  /\ active' = active \union {s} /\ UNCHANGED staged
  /\ wait' = [for |-> "delete", on |-> s, todo |-> {}]
Sweeping ==
  /\ \/ Head(inbox).t = "Tick" /\ wait'.for = "offload"
     \/ Head(inbox).t = "Shutdown" /\ wait'.for = "shutdown"
  /\ wait'.on = Nobody /\ wait'.todo \subseteq active
  /\ UNCHANGED <<ses, staged, active>>
Passing ==
  /\ Head(inbox).t \in {"Forward", "SetSessionTitle", "Delete"}
  /\ UNCHANGED <<ses, staged, active, wait>>

LEMMA HandlerEffect ==
    ASSUME Typed, HandleCommand
    PROVE  /\ inbox \in Seq(Mail) /\ inbox # <<>> /\ Head(inbox) \in Mail
           /\ inbox' = Tail(inbox) /\ wait = NoWait /\ staged = <<>>
           /\ UNCHANGED <<rows, own, spent, call, gone>>
           /\ \/ \E s \in Sessions : \/ Creating(s) \/ Forwarding(s) \/ Titling(s)
                                     \/ Renaming(s) \/ Noting(s) \/ Deleting(s)
              \/ Sweeping \/ Passing
<1>1. /\ inbox \in Seq(Mail) /\ inbox # <<>> /\ Head(inbox) \in Mail
      /\ inbox' = Tail(inbox) /\ wait = NoWait /\ staged = <<>>
      /\ UNCHANGED <<rows, own, spent>>
  BY Left DEF HandleCommand, Free, Typed, WellFormed
<1>2. PICK cmd \in Mail : cmd = Head(inbox)
  BY <1>1
<1>3. CASE cmd.t = "Create" /\ Create(cmd.id, cmd.name)
  <2>1. cmd.id \in Sessions /\ cmd.name \in Names
    BY <1>3 DEF Mail, Calls, Names
  <2>2. PICK m \in BoxMail : m = [t |-> "Create", name |-> cmd.name]
    BY <2>1 DEF BoxMail
  <2>3. ses' = Send(ses, cmd.id, m)
    BY <1>3, <2>2 DEF Create
  <2>4. m.t = "Create" /\ Posts(cmd.id, m)
    BY <2>1, <2>2, <2>3, SendSends DEF Posts
  <2>5. Leaves([t |-> "SessionCreated", id |-> cmd.id, name |-> cmd.name])
    BY <1>3 DEF Create, Leaves
  <2>6. active' = active \union {cmd.id} /\ UNCHANGED <<wait, call, gone>>
    BY <1>3 DEF Create, Reach
  <2>7. Creating(cmd.id)
    BY <1>2, <1>3, <2>1, <2>4, <2>5, <2>6 DEF Creating
  <2> QED
    BY <1>1, <2>1, <2>6, <2>7
<1>4. CASE cmd.t = "Forward" /\ Forward(cmd)
  <2>1. cmd.id \in Sessions /\ cmd.what \in {"Message", "Read"}
    BY <1>4 DEF Mail, Calls
  <2>2. UNCHANGED <<call, gone>>
    BY <1>4 DEF Forward
  <2>3. CASE rows[cmd.id].listed
    <3>1. PICK m \in BoxMail : m = [t |-> cmd.what]
      BY <2>1 DEF BoxMail
    <3>2. ses' = Send(ses, cmd.id, m)
      BY <1>4, <2>3, <3>1 DEF Forward
    <3>3. m.t \in {"Message", "Read"} /\ Posts(cmd.id, m)
      BY <2>1, <3>1, <3>2, SendSends DEF Posts
    <3>4. active' = active \union {cmd.id} /\ UNCHANGED <<staged, wait>>
      BY <1>4, <2>3 DEF Forward, Reach
    <3>5. Forwarding(cmd.id)
      BY <1>2, <1>4, <3>3, <3>4 DEF Forwarding
    <3> QED
      BY <1>1, <2>1, <2>2, <3>5
  <2>4. CASE ~rows[cmd.id].listed
    <3>1. Passing
      BY <1>2, <1>4, <2>4 DEF Forward, Passing
    <3> QED
      BY <1>1, <2>2, <3>1
  <2> QED
    BY <2>3, <2>4
<1>5. CASE cmd.t = "SetSessionTitle" /\ SetSessionTitle(cmd.id)
  <2>1. cmd.id \in Sessions
    BY <1>5 DEF Mail, Calls
  <2>2. UNCHANGED <<call, gone>>
    BY <1>5 DEF SetSessionTitle
  <2>3. CASE rows[cmd.id].listed
    <3>1. PICK m \in BoxMail : m = [t |-> "TitleSet"]
      BY DEF BoxMail
    <3>2. ses' = IF cmd.id \in active THEN Send(ses, cmd.id, m) ELSE ses
      BY <1>5, <2>3, <3>1 DEF SetSessionTitle
    <3>3. UNCHANGED ses \/ (cmd.id \in active /\ m.t = "TitleSet" /\ Posts(cmd.id, m))
      BY <2>1, <3>1, <3>2, SendSends DEF Posts
    <3>4. /\ Leaves([t |-> "SessionNamed", id |-> cmd.id, name |-> "user", ack |-> FALSE])
          /\ UNCHANGED <<active, wait>>
      <4>1. PICK e : e = [t |-> "SessionNamed", id |-> cmd.id, name |-> "user", ack |-> FALSE]
        OBVIOUS
      <4>2. staged' = <<e>> /\ UNCHANGED <<active, wait>>
        BY <1>5, <2>3, <4>1, Zenon DEF SetSessionTitle
      <4>3. Leaves(e)
        BY <4>2 DEF Leaves
      <4> QED
        BY <4>1, <4>2, <4>3, Zenon
    <3>5. Titling(cmd.id)
      BY <1>2, <1>5, <3>3, <3>4 DEF Titling
    <3> QED
      BY <1>1, <2>1, <2>2, <3>5
  <2>4. CASE ~rows[cmd.id].listed
    <3>1. Passing
      BY <1>2, <1>5, <2>4 DEF SetSessionTitle, Passing
    <3> QED
      BY <1>1, <2>2, <3>1
  <2> QED
    BY <2>3, <2>4
<1>6. CASE cmd.t = "RenameSession" /\ RenameSession(cmd)
  <2>1. cmd.id \in Sessions /\ cmd.name \in Names
    BY <1>6 DEF Mail, Calls, Names
  <2>2. /\ Leaves([t |-> "SessionNamed", id |-> cmd.id, name |-> cmd.name, ack |-> TRUE])
        /\ UNCHANGED <<ses, active, wait, call, gone>>
    BY <1>6 DEF RenameSession, Leaves
  <2>3. Renaming(cmd.id)
    BY <1>2, <1>6, <2>1, <2>2 DEF Renaming
  <2> QED
    BY <1>1, <2>1, <2>2, <2>3
<1>7. CASE cmd.t = "SessionStatusChanged" /\ SessionStatusChanged(cmd)
  <2>1. cmd.id \in Sessions
    BY <1>7 DEF Mail, Calls
  <2>2. Noting(cmd.id) /\ UNCHANGED <<call, gone>>
    BY <1>2, <1>7 DEF SessionStatusChanged, Noting, Leaves, Note
  <2> QED
    BY <1>1, <2>1, <2>2
<1>8. CASE cmd.t = "Delete" /\ Delete(cmd.id)
  <2>1. cmd.id \in Sessions
    BY <1>8 DEF Mail, Calls
  <2>2. UNCHANGED <<call, gone>>
    BY <1>8 DEF Delete
  <2>3. CASE rows[cmd.id].listed
    <3>1. PICK m \in BoxMail : m = [t |-> "Delete"]
      BY DEF BoxMail
    <3>2. ses' = Send(ses, cmd.id, m)
      BY <1>8, <2>3, <3>1 DEF Delete
    <3>3. m.t = "Delete" /\ Posts(cmd.id, m)
      BY <2>1, <3>1, <3>2, SendSends DEF Posts
    <3>4. /\ active' = active \union {cmd.id} /\ UNCHANGED staged
          /\ wait' = [for |-> "delete", on |-> cmd.id, todo |-> {}]
      BY <1>8, <2>3 DEF Delete, Reach
    <3>5. Deleting(cmd.id)
      BY <1>2, <1>8, <3>3, <3>4 DEF Deleting
    <3> QED
      BY <1>1, <2>1, <2>2, <3>5
  <2>4. CASE ~rows[cmd.id].listed
    <3>1. Passing
      BY <1>2, <1>8, <2>4 DEF Delete, Passing
    <3> QED
      BY <1>1, <2>2, <3>1
  <2> QED
    BY <2>3, <2>4
<1>9. CASE (cmd.t = "Tick" /\ Tick) \/ (cmd.t = "Shutdown" /\ Shutdown)
  <2>1. Sweeping /\ UNCHANGED <<call, gone>>
    BY <1>2, <1>9 DEF Tick, Shutdown, Sweeping
  <2> QED
    BY <1>1, <2>1
<1> QED
  BY <1>2, <1>3, <1>4, <1>5, <1>6, <1>7, <1>8, <1>9 DEF HandleCommand

\* Renamed, as the supervisor's acknowledgement of this name.
LEMMA PersistEffect ==
    ASSUME Typed, Persist
    PROVE  /\ staged # <<>> /\ staged[1] \in Events /\ staged' = <<>>
           /\ rows' = ApplyEvent(rows, staged[1])
           /\ rows' \in [Sessions -> [listed : BOOLEAN, status : Statuses, name : Names]]
           /\ \A s \in Sessions :
                /\ Stages("SessionCreated", s) => rows'[s].listed
                /\ rows'[s].listed => rows[s].listed \/ Stages("SessionCreated", s)
                /\ rows[s].listed => rows'[s].listed \/ Stages("SessionDeleted", s)
                /\ IF Stages("SessionStatusChanged", s) /\ rows[s].listed
                   THEN rows'[s].status = staged[1].status
                   ELSE Stages("SessionCreated", s) \/ rows'[s].status = rows[s].status
           /\ call' \in [Sessions -> [recorded : BOOLEAN, queued : BOOLEAN, answered : BOOLEAN]]
           /\ \A s \in Sessions :
                /\ call'[s].queued = call[s].queued
                /\ call'[s].recorded => call[s].recorded \/ Stages("SessionCreated", s)
                /\ call'[s].answered => \/ call[s].answered /\ call'[s].recorded = call[s].recorded
                                        \/ call'[s].recorded /\ call'[s].queued
           /\ \/ ses' = ses /\ \A s \in Sessions : ~Naming(s)
              \/ \E s \in Sessions, m \in BoxMail :
                   /\ Naming(s) /\ m.t = "Renamed" /\ "first" \notin DOMAIN m
                   /\ ses' \in [Sessions -> Actor] /\ Only(s)
                   /\ ses'[s].box = <<m>> \o ses[s].box
                   /\ ses'[s].up = ses[s].up /\ ses'[s].asks = ses[s].asks
                   /\ ses'[s].reported = ses[s].reported /\ ses'[s].turn = ses[s].turn
           /\ UNCHANGED <<inbox, wait, active, idle, own, gone, spent>>
<1>1. PICK e \in Events : e = staged[1]
  <2>1. staged \in Seq(Events) /\ Len(staged) = 1
    BY DEF Typed, WellFormed, Persist
  <2>2. staged[1] \in Events
    BY <2>1, ElementOfSeq
  <2> QED
    BY <2>2
<1>2. /\ staged # <<>> /\ staged' = <<>> /\ rows' = ApplyEvent(rows, e)
      /\ UNCHANGED <<inbox, wait, active, idle, own, gone, spent>>
  BY <1>1 DEF Persist
<1>3. e.id \in Sessions
  BY DEF Events
<1>4. \A t, s : Stages(t, s) <=> e.t = t /\ e.id = s
  BY <1>1, <1>2 DEF Stages
<1>5. /\ rows' \in [Sessions -> [listed : BOOLEAN, status : Statuses, name : Names]]
      /\ \A s \in Sessions :
           /\ e.t = "SessionCreated" /\ e.id = s => rows'[s].listed
           /\ rows'[s].listed => rows[s].listed \/ (e.t = "SessionCreated" /\ e.id = s)
           /\ rows[s].listed => rows'[s].listed \/ (e.t = "SessionDeleted" /\ e.id = s)
           /\ IF e.t = "SessionStatusChanged" /\ e.id = s /\ rows[s].listed
              THEN rows'[s].status = e.status
              ELSE (e.t = "SessionCreated" /\ e.id = s) \/ rows'[s].status = rows[s].status
  <2>1. rows \in [Sessions -> [listed : BOOLEAN, status : Statuses, name : Names]]
    BY DEF Typed, TypeOK
  <2>2. CASE e.t = "SessionCreated"
    <3>1. e.name \in Names
      BY <2>2 DEF Events
    <3>2. rows' = [rows EXCEPT ![e.id] = [listed |-> TRUE, status |-> "Provisioning",
                                          name |-> e.name]]
      BY <1>2, <2>2 DEF ApplyEvent
    <3> QED
      BY <1>3, <2>1, <2>2, <3>1, <3>2, TRUE \in BOOLEAN DEF Statuses
  <2>3. CASE e.t = "SessionDeleted"
    <3>1. rows' = [rows EXCEPT ![e.id].listed = FALSE]
      BY <1>2, <2>3 DEF ApplyEvent
    <3> QED
      BY <1>3, <2>1, <2>3, <3>1, FALSE \in BOOLEAN
  <2>4. CASE e.t = "SessionNamed"
    <3>1. e.name \in Names
      BY <2>4 DEF Events
    <3>2. rows' = IF rows[e.id].listed THEN [rows EXCEPT ![e.id].name = e.name] ELSE rows
      BY <1>2, <2>4 DEF ApplyEvent
    <3> QED
      BY <1>3, <2>1, <2>4, <3>1, <3>2
  <2>5. CASE e.t = "SessionStatusChanged"
    <3>1. e.status \in Statuses
      BY <2>5 DEF Events
    <3>2. rows' = IF rows[e.id].listed THEN [rows EXCEPT ![e.id].status = e.status] ELSE rows
      BY <1>2, <2>5 DEF ApplyEvent
    <3> QED
      BY <1>3, <2>1, <2>5, <3>1, <3>2
  <2> QED
    BY <2>2, <2>3, <2>4, <2>5 DEF Events
<1>6. /\ call' \in [Sessions -> [recorded : BOOLEAN, queued : BOOLEAN, answered : BOOLEAN]]
      /\ \A s \in Sessions :
           /\ call'[s].queued = call[s].queued
           /\ call'[s].recorded => call[s].recorded \/ (e.t = "SessionCreated" /\ e.id = s)
           /\ call'[s].answered => \/ call[s].answered /\ call'[s].recorded = call[s].recorded
                                   \/ call'[s].recorded /\ call'[s].queued
  <2>1. call \in [Sessions -> [recorded : BOOLEAN, queued : BOOLEAN, answered : BOOLEAN]]
    BY DEF Typed, TypeOK
  <2>2. CASE e.t = "SessionCreated"
    <3>1. call' = [call EXCEPT ![e.id] = Answered([call[e.id] EXCEPT !.recorded = TRUE])]
      BY <1>1, <2>2 DEF Persist
    <3>2. PICK c \in [recorded : BOOLEAN, queued : BOOLEAN, answered : BOOLEAN] :
            c = [call[e.id] EXCEPT !.recorded = TRUE]
      BY <1>3, <2>1, TRUE \in BOOLEAN
    <3>3. c.recorded = TRUE /\ c.queued = call[e.id].queued
      BY <1>3, <2>1, <3>2
    <3>4. PICK b \in BOOLEAN : b = (c.recorded /\ c.queued)
      OBVIOUS
    <3>5. Answered(c) = [c EXCEPT !.answered = b]
      BY <3>4 DEF Answered
    <3>6. /\ Answered(c) \in [recorded : BOOLEAN, queued : BOOLEAN, answered : BOOLEAN]
          /\ Answered(c).recorded = TRUE /\ Answered(c).queued = c.queued
          /\ Answered(c).answered = b
      BY <3>3, <3>5
    <3>7. call' = [call EXCEPT ![e.id] = Answered(c)]
      BY <3>1, <3>2
    <3>8. call'[e.id].answered => call'[e.id].recorded /\ call'[e.id].queued
      BY <1>3, <2>1, <3>3, <3>4, <3>6, <3>7
    <3> QED
      BY <1>3, <2>1, <2>2, <3>3, <3>6, <3>7, <3>8
  <2>3. CASE e.t # "SessionCreated"
    BY <1>1, <2>1, <2>3 DEF Persist
  <2> QED
    BY <2>2, <2>3
<1>7. \/ ses' = ses /\ \A s \in Sessions : ~Naming(s)
      \/ \E s \in Sessions, m \in BoxMail :
           /\ Naming(s) /\ m.t = "Renamed" /\ "first" \notin DOMAIN m
           /\ ses' \in [Sessions -> Actor] /\ Only(s)
           /\ ses'[s].box = <<m>> \o ses[s].box
           /\ ses'[s].up = ses[s].up /\ ses'[s].asks = ses[s].asks
           /\ ses'[s].reported = ses[s].reported /\ ses'[s].turn = ses[s].turn
  <2>1. ses \in [Sessions -> Actor] /\ ses[e.id].box \in Seq(BoxMail)
    BY <1>3, TypedActors
  <2>2. CASE e.t = "SessionNamed" /\ e.ack
    <3>1. PICK m \in BoxMail : m = [t |-> "Renamed", name |-> e.name]
      <4>1. e.name \in Names
        BY <2>2 DEF Events
      <4> QED
        BY <4>1 DEF BoxMail
    <3>2. PICK b \in Seq(BoxMail) : b = <<m>> \o ses[e.id].box
      BY <2>1, Ahead
    <3>3. ses' = [ses EXCEPT ![e.id].box = b]
      BY <1>1, <2>2, <3>1, <3>2 DEF Persist
    <3>4. /\ ses' \in [Sessions -> Actor] /\ Only(e.id) /\ ses'[e.id].box = b
          /\ ses'[e.id].up = ses[e.id].up /\ ses'[e.id].asks = ses[e.id].asks
          /\ ses'[e.id].reported = ses[e.id].reported /\ ses'[e.id].turn = ses[e.id].turn
      BY <1>3, <2>1, <3>3 DEF Only, Actor
    <3>5. Naming(e.id)
      BY <1>1, <1>4, <2>2 DEF Naming
    <3> QED
      BY <1>3, <3>1, <3>2, <3>4, <3>5
  <2>3. CASE ~(e.t = "SessionNamed" /\ e.ack)
    BY <1>1, <1>4, <2>3 DEF Persist, Naming
  <2> QED
    BY <2>2, <2>3
<1>8. \A s \in Sessions :
        /\ Stages("SessionCreated", s) => rows'[s].listed
        /\ rows'[s].listed => rows[s].listed \/ Stages("SessionCreated", s)
        /\ rows[s].listed => rows'[s].listed \/ Stages("SessionDeleted", s)
        /\ IF Stages("SessionStatusChanged", s) /\ rows[s].listed
           THEN rows'[s].status = staged[1].status
           ELSE Stages("SessionCreated", s) \/ rows'[s].status = rows[s].status
  BY <1>1, <1>4, <1>5
<1>9. \A s \in Sessions :
        /\ call'[s].queued = call[s].queued
        /\ call'[s].recorded => call[s].recorded \/ Stages("SessionCreated", s)
        /\ call'[s].answered => \/ call[s].answered /\ call'[s].recorded = call[s].recorded
                                \/ call'[s].recorded /\ call'[s].queued
  BY <1>4, <1>6
<1> QED
  BY <1>1, <1>2, <1>5, <1>6, <1>7, <1>8, <1>9

LEMMA AskNextEffect ==
    ASSUME Typed, AskNext
    PROVE  /\ wait.for \in {"offload", "shutdown"} /\ wait.on = Nobody
           /\ \/ ses' = ses /\ wait' = NoWait
              \/ \E s \in Sessions, m \in BoxMail :
                   /\ s \in wait.todo /\ m.t = "PrepareOffload" /\ Posts(s, m)
                   /\ wait'.for = wait.for /\ wait'.on = s /\ wait'.todo = wait.todo \ {s}
                   /\ wait' \in [for : {"none", "offload", "delete", "shutdown"},
                                 on : Sessions \union {Nobody}, todo : SUBSET Sessions]
           /\ UNCHANGED <<rows, staged, inbox, active, idle, own, call, gone, spent>>
<1>1. /\ wait.for \in {"offload", "shutdown"} /\ wait.on = Nobody
      /\ UNCHANGED <<rows, staged, inbox, active, idle, own, call, gone, spent>>
  BY DEF AskNext
<1>2. wait \in [for : {"none", "offload", "delete", "shutdown"},
                on : Sessions \union {Nobody}, todo : SUBSET Sessions]
  BY DEF Typed, TypeOK
<1>3. CASE wait.todo = {} /\ wait' = NoWait /\ UNCHANGED ses
  BY <1>1, <1>3
<1>4. ASSUME NEW s \in wait.todo, ses' = Send(ses, s, [t |-> "PrepareOffload"]),
             wait' = [wait EXCEPT !.on = s, !.todo = @ \ {s}]
      PROVE  \E m \in BoxMail :
               /\ s \in Sessions /\ m.t = "PrepareOffload" /\ Posts(s, m)
               /\ wait'.for = wait.for /\ wait'.on = s /\ wait'.todo = wait.todo \ {s}
               /\ wait' \in [for : {"none", "offload", "delete", "shutdown"},
                             on : Sessions \union {Nobody}, todo : SUBSET Sessions]
  <2>1. s \in Sessions
    BY <1>2
  <2>2. PICK m \in BoxMail : m = [t |-> "PrepareOffload"]
    BY DEF BoxMail
  <2>3. m.t = "PrepareOffload" /\ Posts(s, m)
    BY <1>4, <2>1, <2>2, SendSends DEF Posts
  <2>4. /\ wait'.for = wait.for /\ wait'.on = s /\ wait'.todo = wait.todo \ {s}
        /\ wait' \in [for : {"none", "offload", "delete", "shutdown"},
                      on : Sessions \union {Nobody}, todo : SUBSET Sessions]
    BY <1>2, <1>4, <2>1
  <2> QED
    BY <2>1, <2>3, <2>4
<1> QED
  BY <1>1, <1>3, <1>4 DEF AskNext

LEMMA RequestEffect ==
    ASSUME Typed, NEW cmd \in Calls, Request(cmd)
    PROVE  /\ cmd \in Mail /\ inbox' = Append(inbox, cmd)
           /\ spent' \in [calls : Nat, turns : Nat, crashes : Nat, used : SUBSET Sessions,
                          closed : BOOLEAN]
           /\ spent.used \subseteq spent'.used
           /\ cmd.t = "Create" => cmd.id \notin spent.used /\ cmd.id \in spent'.used
           /\ spent.closed \/ cmd.t = "Shutdown" => spent'.closed
           /\ spent'.crashes = spent.crashes
           /\ UNCHANGED <<rows, staged, wait, active, idle, own, ses, call, gone>>
<1>1. spent \in [calls : Nat, turns : Nat, crashes : Nat, used : SUBSET Sessions,
                 closed : BOOLEAN]
  BY DEF Typed, WellFormed
<1>2. cmd \in Mail
  BY DEF Mail
<1>3. cmd.t = "Create" => cmd.id \in Sessions
  BY DEF Calls
<1>4. PICK u \in SUBSET Sessions :
        u = IF cmd.t = "Create" THEN spent.used \union {cmd.id} ELSE spent.used
  BY <1>1, <1>3
<1>5. PICK c \in BOOLEAN : c = (spent.closed \/ cmd.t = "Shutdown")
  OBVIOUS
<1>6. PICK n \in Nat : n = IF cmd.t = "Create" THEN spent.calls ELSE spent.calls + 1
  BY <1>1
<1>7. spent' = [spent EXCEPT !.calls = n, !.used = u, !.closed = c]
  BY <1>4, <1>5, <1>6 DEF Request
<1>8. /\ spent' \in [calls : Nat, turns : Nat, crashes : Nat, used : SUBSET Sessions,
                     closed : BOOLEAN]
      /\ spent'.used = u /\ spent'.closed = c /\ spent'.crashes = spent.crashes
  BY <1>1, <1>7
<1>9. spent.closed \/ cmd.t = "Shutdown" => spent'.closed
  BY <1>5, <1>8
<1>10. /\ spent.used \subseteq spent'.used
       /\ cmd.t = "Create" => cmd.id \notin spent.used /\ cmd.id \in spent'.used
  BY <1>4, <1>8 DEF Request
<1> QED
  BY <1>2, <1>8, <1>9, <1>10 DEF Request

LEMMA CrashEffect ==
    ASSUME Typed, Crash
    PROVE  /\ ses' \in [Sessions -> Actor] /\ \A s \in Sessions : ses'[s] = Cold
           /\ spent' \in [calls : Nat, turns : Nat, crashes : Nat, used : SUBSET Sessions,
                          closed : BOOLEAN]
           /\ spent'.used = spent.used /\ spent'.closed = spent.closed
           /\ spent'.crashes = spent.crashes + 1
           /\ staged' = <<>> /\ inbox' = <<>> /\ wait' = NoWait /\ active' = {} /\ idle' = {}
           /\ UNCHANGED <<rows, own, call, gone>>
<1>1. spent \in [calls : Nat, turns : Nat, crashes : Nat, used : SUBSET Sessions,
                 closed : BOOLEAN]
  BY DEF Typed, WellFormed
<1>2. ses' \in [Sessions -> Actor] /\ \A s \in Sessions : ses'[s] = Cold
  BY ColdType DEF Crash
<1>3. /\ spent' \in [calls : Nat, turns : Nat, crashes : Nat, used : SUBSET Sessions,
                     closed : BOOLEAN]
      /\ spent'.used = spent.used /\ spent'.closed = spent.closed
      /\ spent'.crashes = spent.crashes + 1
  BY <1>1 DEF Crash
<1> QED
  BY <1>2, <1>3 DEF Crash

-----------------------------------------------------------------------------
(* Types, over a step *)

\* What is reported is mail.
LEMMA ReportsType ==
    ASSUME Typed, NEW s \in Sessions, NEW status, Reports(s, status)
    PROVE  inbox' \in Seq(Mail)
<1>1. Note(s, status) \in Mail
  BY DEF Reports, Note, Mail
<1>2. inbox \in Seq(Mail)
  BY DEF Typed, WellFormed
<1>3. Append(inbox, Note(s, status)) \in Seq(Mail)
  BY <1>1, <1>2, Joined
<1> QED
  BY <1>2, <1>3 DEF Reports

LEMMA WaitsType ==
    ASSUME Typed, NEW s \in Sessions, NEW name, Waits(s, name)
    PROVE  Ask(s, name) \in Mail /\ inbox' \in Seq(Mail)
<1>1. Ask(s, name) \in Mail
  BY DEF Waits, Ask, Mail
<1>2. inbox \in Seq(Mail)
  BY DEF Typed, WellFormed
<1>3. Append(inbox, Ask(s, name)) \in Seq(Mail)
  BY <1>1, <1>2, Joined
<1> QED
  BY <1>1, <1>3 DEF Waits

\* A session's own steps, those that answer the supervisor apart.
LEMMA TypedSession ==
    ASSUME Typed, Renames, NEW s \in Sessions,
           \/ Load(s) \/ BeCreated(s) \/ TakeMessage(s) \/ SetTitle(s) \/ Named(s)
           \/ TitleSet(s) \/ Read(s) \/ Provisioned(s) \/ Started(s) \/ Outcome(s)
    PROVE  Typed'
<1>1. /\ own \in [Sessions -> [told : BOOLEAN, status : Statuses, name : Names]]
      /\ call \in [Sessions -> [recorded : BOOLEAN, queued : BOOLEAN, answered : BOOLEAN]]
      /\ inbox \in Seq(Mail)
  BY DEF Typed, TypeOK, WellFormed
<1>2. ASSUME ses' \in [Sessions -> Actor], inbox' \in Seq(Mail),
             own' \in [Sessions -> [told : BOOLEAN, status : Statuses, name : Names]],
             call' \in [Sessions -> [recorded : BOOLEAN, queued : BOOLEAN, answered : BOOLEAN]],
             UNCHANGED <<rows, staged, wait, active, idle, gone, spent>>
      PROVE  Typed'
  <2>1. WellFormed'
    BY <1>2 DEF Typed, WellFormed, Actor
  <2>2. TypeOK'
    BY <1>2, ActorsTypedNext DEF Typed, TypeOK
  <2> QED
    BY <2>1, <2>2 DEF Typed
<1>3. CASE Load(s)
  BY <1>1, <1>2, <1>3, LoadEffect, ReportsType
<1>4. CASE BeCreated(s)
  BY <1>1, <1>2, <1>4, BeCreatedEffect, ReportsType
<1>5. CASE TakeMessage(s)
  <2>1. call' \in [Sessions -> [recorded : BOOLEAN, queued : BOOLEAN, answered : BOOLEAN]]
    <3>1. PICK c \in [recorded : BOOLEAN, queued : BOOLEAN, answered : BOOLEAN] :
            c = [call[s] EXCEPT !.queued = TRUE]
      BY <1>1, TRUE \in BOOLEAN
    <3>2. PICK b \in BOOLEAN : b = (c.recorded /\ c.queued)
      OBVIOUS
    <3>3. Answered(c) = [c EXCEPT !.answered = b]
      BY <3>2 DEF Answered
    <3>4. Answered(c) \in [recorded : BOOLEAN, queued : BOOLEAN, answered : BOOLEAN]
      BY <3>3
    <3>5. call' = call \/ call' = [call EXCEPT ![s] = Answered(c)]
      BY <1>5, <3>1, TakeMessageEffect
    <3> QED
      BY <1>1, <3>4, <3>5
  <2>2. ses' \in [Sessions -> Actor] /\ inbox' \in Seq(Mail)
    BY <1>1, <1>5, TakeMessageEffect, WaitsType DEF Takes, Waits
  <2>3. UNCHANGED <<rows, staged, wait, active, idle, own, gone, spent>>
    BY <1>5, TakeMessageEffect
  <2> QED
    BY <1>1, <1>2, <2>1, <2>2, <2>3
<1>6. CASE SetTitle(s)
  BY <1>1, <1>2, <1>6, SetTitleEffect, WaitsType DEF Waits
<1>7. CASE Named(s)
  BY <1>1, <1>2, <1>7, NamedEffect
<1>8. CASE TitleSet(s) \/ Read(s)
  BY <1>1, <1>2, <1>8, ReadEffect DEF Takes
<1>9. CASE Provisioned(s)
  BY <1>1, <1>2, <1>9, ProvisionedEffect, ReportsType DEF Settled
<1>10. CASE Started(s) \/ Outcome(s)
  <2>1. PICK status : Settled(s, status)
    BY <1>10, TurnEffect
  <2> QED
    BY <1>1, <1>2, <2>1, ReportsType DEF Settled
<1> QED
  BY <1>3, <1>4, <1>5, <1>6, <1>7, <1>8, <1>9, <1>10

\* The answers to the supervisor.
LEMMA TypedAnswer ==
    ASSUME Typed, Waiting, NEW s \in Sessions, PrepareOffload(s) \/ BeDeleted(s)
    PROVE  Typed'
<1>1. /\ wait \in [for : {"none", "offload", "delete", "shutdown"},
                   on : Sessions \union {Nobody}, todo : SUBSET Sessions]
      /\ active \subseteq Sessions /\ idle \subseteq active /\ gone \subseteq Sessions
      /\ staged \in Seq(Events) /\ (staged = <<>> \/ Len(staged) = 1)
  BY DEF Typed, TypeOK, WellFormed
<1>2. ASSUME ses' \in [Sessions -> Actor],
             staged' \in Seq(Events), staged' = <<>> \/ Len(staged') = 1,
             wait' \in [for : {"none", "offload", "delete", "shutdown"},
                        on : Sessions \union {Nobody}, todo : SUBSET Sessions],
             wait'.for = "none" => wait' = NoWait,
             wait'.for = "delete" => wait'.on # Nobody,
             active' \subseteq Sessions, idle' \subseteq active', gone' \subseteq Sessions,
             UNCHANGED <<rows, inbox, own, call, spent>>
      PROVE  Typed'
  <2>1. WellFormed'
    BY <1>2 DEF Typed, WellFormed, Actor
  <2>2. TypeOK'
    BY <1>2, ActorsTypedNext DEF Typed, TypeOK
  <2> QED
    BY <2>1, <2>2 DEF Typed
<1>3. CASE PrepareOffload(s)
  <2>1. wait.for \in {"offload", "shutdown"}
    <3>1. Serves(s, "PrepareOffload")
      BY <1>3, OffloadEffect
    <3>2. Holds(ses[s].box, "PrepareOffload")
      BY <3>1, ServesHead
    <3> QED
      BY <3>2 DEF Waiting
  <2>2. /\ ses' \in [Sessions -> Actor] /\ UNCHANGED <<rows, inbox, own, call, spent>>
        /\ wait' = [wait EXCEPT !.on = Nobody] /\ UNCHANGED <<staged, gone>>
        /\ active' \in {active, active \ {s}} /\ idle' = idle \ {s}
    BY <1>3, OffloadEffect DEF Takes, Unloads, OffloadAnswered
  <2>3. /\ wait' \in [for : {"none", "offload", "delete", "shutdown"},
                      on : Sessions \union {Nobody}, todo : SUBSET Sessions]
        /\ wait'.for = wait.for
    BY <1>1, <2>2
  <2> QED
    BY <1>1, <1>2, <2>1, <2>2, <2>3
<1>4. CASE BeDeleted(s)
  <2>1. /\ ses' \in [Sessions -> Actor] /\ UNCHANGED <<rows, inbox, own, call, spent>>
        /\ wait' = NoWait /\ gone' = gone \union {s}
        /\ active' = active \ {s} /\ idle' = idle \ {s}
        /\ staged' = <<[t |-> "SessionDeleted", id |-> s]>>
    BY <1>4, DeletedEffect DEF Unloads, DeleteAnswered
  <2>2. [t |-> "SessionDeleted", id |-> s] \in Events
    BY DEF Events
  <2>3. staged' \in Seq(Events) /\ Len(staged') = 1
    BY <2>1, <2>2, OneEvent
  <2>4. /\ wait' \in [for : {"none", "offload", "delete", "shutdown"},
                      on : Sessions \union {Nobody}, todo : SUBSET Sessions]
        /\ wait'.for = "none"
    BY <2>1 DEF NoWait
  <2> QED
    BY <1>1, <1>2, <2>1, <2>3, <2>4
<1> QED
  BY <1>3, <1>4

\* The other steps of the supervisor, of the agents, of people and of the process.
LEMMA TypedRest ==
    ASSUME Typed, \/ Persist \/ AskNext \/ Crash
                  \/ \E s \in Sessions : \/ AgentBegins(s) \/ AgentTitles(s) \/ AgentEnds(s)
                                         \/ GoesQuiet(s)
                  \/ \E cmd \in Calls : Request(cmd)
    PROVE  Typed'
<1>1. ses \in [Sessions -> Actor]
  BY TypedActors
<1>2. CASE Persist
  <2>1. ses' \in [Sessions -> Actor]
    BY <1>1, <1>2, PersistEffect
  <2>2. WellFormed'
    <3>1. staged' = <<>> /\ UNCHANGED <<inbox, spent>>
      BY <1>2, PersistEffect
    <3> QED
      BY <2>1, <3>1, EmptySeq DEF Typed, WellFormed, Actor
  <2>3. TypeOK'
    BY <1>2, <2>1, PersistEffect, ActorsTypedNext DEF Typed, TypeOK
  <2> QED
    BY <2>2, <2>3 DEF Typed
<1>3. CASE AskNext
  <2>1. ses' \in [Sessions -> Actor]
    BY <1>1, <1>3, AskNextEffect DEF Posts, Sends
  <2>2. /\ wait' \in [for : {"none", "offload", "delete", "shutdown"},
                      on : Sessions \union {Nobody}, todo : SUBSET Sessions]
        /\ wait'.for = "none" => wait' = NoWait
        /\ wait'.for # "delete"
    BY <1>3, AskNextEffect DEF NoWait
  <2>3. UNCHANGED <<rows, staged, inbox, active, idle, own, call, gone, spent>>
    BY <1>3, AskNextEffect
  <2>4. WellFormed'
    BY <2>1, <2>3 DEF Typed, WellFormed, Actor
  <2>5. TypeOK'
    BY <2>1, <2>2, <2>3, ActorsTypedNext DEF Typed, TypeOK
  <2> QED
    BY <2>4, <2>5 DEF Typed
<1>4. CASE Crash
  <2>1. WellFormed'
    BY <1>4, CrashEffect, EmptySeq DEF Typed, WellFormed, Actor
  <2>2. TypeOK'
    BY <1>4, CrashEffect, ActorsTypedNext DEF Typed, TypeOK, NoWait
  <2> QED
    BY <2>1, <2>2 DEF Typed
<1>5. ASSUME NEW s \in Sessions, AgentBegins(s) \/ AgentTitles(s) \/ AgentEnds(s)
      PROVE  Typed'
  <2>1. ses' \in [Sessions -> Actor]
    BY <1>5, AgentEffect DEF Sends
  <2>2. WellFormed'
    BY <1>5, <2>1, AgentEffect DEF Typed, WellFormed, Actor
  <2>3. TypeOK'
    BY <1>5, <2>1, AgentEffect, ActorsTypedNext DEF Typed, TypeOK
  <2> QED
    BY <2>2, <2>3 DEF Typed
<1>6. ASSUME NEW s \in Sessions, GoesQuiet(s) PROVE Typed'
  BY <1>6 DEF GoesQuiet, Typed, TypeOK, WellFormed
<1>7. ASSUME NEW cmd \in Calls, Request(cmd) PROVE Typed'
  <2>1. inbox' \in Seq(Mail)
    <3>1. cmd \in Mail /\ inbox' = Append(inbox, cmd) /\ inbox \in Seq(Mail)
      BY <1>7, RequestEffect DEF Typed, WellFormed
    <3> QED
      BY <3>1, Joined
  <2>2. WellFormed'
    BY <1>7, <2>1, RequestEffect DEF Typed, WellFormed
  <2>3. TypeOK'
    BY <1>7, RequestEffect DEF Typed, TypeOK
  <2> QED
    BY <2>2, <2>3 DEF Typed
<1> QED
  BY <1>2, <1>3, <1>4, <1>5, <1>6, <1>7

-----------------------------------------------------------------------------
(* What a step does to the mailboxes *)

\* The session's mailbox gains messages of these kinds only, none of them the first.
Moves(r, ts) ==
  /\ \A t : Holds(ses'[r].box, t) => Holds(ses[r].box, t) \/ t \in ts
  /\ \A t : t \notin ts /\ Once(ses[r].box, t) => Once(ses'[r].box, t)
  /\ HoldsFirst(ses'[r].box) => HoldsFirst(ses[r].box)
  /\ "Renamed" \notin ts /\ RenamedAhead(ses[r].box) => RenamedAhead(ses'[r].box)

LEMMA SameMoves ==
    ASSUME NEW r, ses'[r].box = ses[r].box
    PROVE  Moves(r, {})
BY DEF Moves

LEMMA OnlyMoves ==
    ASSUME NEW s, Only(s), NEW r \in Sessions, r # s
    PROVE  ses'[r] = ses[r] /\ Moves(r, {})
<1>1. ses'[r] = ses[r]
  BY DEF Only
<1> QED
  BY <1>1, SameMoves

LEMMA TailMoves ==
    ASSUME Typed, NEW s \in Sessions, ses[s].box # <<>>, ses'[s].box = Tail(ses[s].box)
    PROVE  /\ Moves(s, {})
           /\ RenamedAhead(ses[s].box) => ~Holds(ses'[s].box, "Renamed")
           /\ \A t : Once(ses[s].box, t) /\ Head(ses[s].box).t = t => ~Holds(ses'[s].box, t)
<1>1. ses[s].box \in Seq(BoxMail)
  BY TypedActors
<1> QED
  BY <1>1, LeftHolds DEF Moves

LEMMA TwiceMoves ==
    ASSUME Typed, NEW s \in Sessions, ses[s].box # <<>>, Tail(ses[s].box) # <<>>,
           ses'[s].box = Tail(Tail(ses[s].box))
    PROVE  /\ Moves(s, {})
           /\ RenamedAhead(ses[s].box) => ~Holds(ses'[s].box, "Renamed")
<1>1. ses[s].box \in Seq(BoxMail)
  BY TypedActors
<1>2. PICK b \in Seq(BoxMail) : b = Tail(ses[s].box)
  BY <1>1, Left
<1>3. /\ \A t : Holds(b, t) => Holds(ses[s].box, t)
      /\ \A t : Once(ses[s].box, t) => Once(b, t)
      /\ HoldsFirst(b) => HoldsFirst(ses[s].box)
      /\ RenamedAhead(ses[s].box) => ~Holds(b, "Renamed") /\ RenamedAhead(b)
  BY <1>1, <1>2, LeftHolds
<1>4. /\ \A t : Holds(ses'[s].box, t) => Holds(b, t)
      /\ \A t : Once(b, t) => Once(ses'[s].box, t)
      /\ HoldsFirst(ses'[s].box) => HoldsFirst(b)
      /\ RenamedAhead(b) => RenamedAhead(ses'[s].box)
  <2>1. b # <<>> /\ ses'[s].box = Tail(b)
    BY <1>2
  <2> QED
    BY <2>1, LeftHolds
<1> QED
  BY <1>3, <1>4 DEF Moves

LEMMA SendMoves ==
    ASSUME Typed, NEW s \in Sessions, NEW m, Sends(s, m), "first" \notin DOMAIN m
    PROVE  /\ Moves(s, {m.t}) /\ Holds(ses'[s].box, m.t)
           /\ ~Holds(ses[s].box, m.t) /\ Once(ses[s].box, m.t) => Once(ses'[s].box, m.t)
           /\ ses'[s].box # <<>>
           /\ Len(ses'[s].box) = Len(ses[s].box) + 1 /\ Len(ses[s].box) \in Nat
<1>1. ses[s].box \in Seq(BoxMail) /\ m \in BoxMail
  BY TypedActors DEF Sends
<1>2. ses'[s].box = Append(ses[s].box, m)
  BY DEF Sends
<1>3. /\ \A t : Holds(ses'[s].box, t) <=> Holds(ses[s].box, t) \/ m.t = t
      /\ \A t : Once(ses[s].box, t) /\ ~(Holds(ses[s].box, t) /\ m.t = t)
                  => Once(ses'[s].box, t)
      /\ HoldsFirst(ses'[s].box) <=> HoldsFirst(ses[s].box) \/ "first" \in DOMAIN m
      /\ RenamedAhead(ses[s].box) /\ m.t # "Renamed" => RenamedAhead(ses'[s].box)
  BY <1>1, <1>2, JoinedHolds
<1>4. ses'[s].box # <<>> /\ Len(ses'[s].box) = Len(ses[s].box) + 1 /\ Len(ses[s].box) \in Nat
  BY <1>1, <1>2, AppendProperties, LenProperties, Joined
<1> QED
  BY <1>3, <1>4 DEF Moves

LEMMA ColdMoves ==
    ASSUME NEW s, ses'[s] = Cold
    PROVE  /\ Moves(s, {}) /\ \A t : ~Holds(ses'[s].box, t)
           /\ ~HoldsFirst(ses'[s].box)
           /\ ses'[s].box = <<>> /\ ~ses'[s].up /\ ses'[s].asks = "" /\ ~ses'[s].turn
           /\ ses'[s].reported = "unknown"
<1>1. /\ ses'[s].box = <<>> /\ ~ses'[s].up /\ ses'[s].asks = "" /\ ~ses'[s].turn
      /\ ses'[s].reported = "unknown"
  <2>1. /\ Cold.up = FALSE /\ Cold.turn = FALSE
        /\ Cold.box = <<>> /\ Cold.asks = "" /\ Cold.reported = "unknown"
    BY DEF Cold
  <2>2. /\ ses'[s].up = FALSE /\ ses'[s].turn = FALSE
        /\ ses'[s].box = <<>> /\ ses'[s].asks = "" /\ ses'[s].reported = "unknown"
    BY <2>1, Zenon
  <2> QED
    BY <2>2
<1> QED
  BY <1>1, EmptyHolds DEF Moves

LEMMA AheadMoves ==
    ASSUME Typed, NEW s \in Sessions, NEW m \in BoxMail,
           m.t = "Renamed", "first" \notin DOMAIN m,
           ses'[s].box = <<m>> \o ses[s].box
    PROVE  /\ Moves(s, {"Renamed"})
           /\ ~Holds(ses[s].box, "Renamed") => RenamedAhead(ses'[s].box)
           /\ ses'[s].box # <<>>
           /\ Len(ses'[s].box) = Len(ses[s].box) + 1 /\ Len(ses[s].box) \in Nat
<1>1. ses[s].box \in Seq(BoxMail)
  BY TypedActors
<1>2. /\ \A t : Holds(ses'[s].box, t) <=> Holds(ses[s].box, t) \/ t = "Renamed"
      /\ \A t : Once(ses[s].box, t) /\ t # "Renamed" => Once(ses'[s].box, t)
      /\ HoldsFirst(ses'[s].box) => HoldsFirst(ses[s].box)
      /\ ~Holds(ses[s].box, "Renamed") => RenamedAhead(ses'[s].box)
  BY <1>1, AheadHolds
<1>3. ses'[s].box # <<>> /\ Len(ses'[s].box) = Len(ses[s].box) + 1 /\ Len(ses[s].box) \in Nat
  BY <1>1, Ahead
<1> QED
  BY <1>2, <1>3 DEF Moves

\* A create is taken and its first message joins: all as in Moves but that one.
LEMMA BeCreatedMoves ==
    ASSUME Typed, NEW s \in Sessions, BeCreated(s)
    PROVE  /\ \A t : Holds(ses'[s].box, t) => Holds(ses[s].box, t) \/ t = "Message"
           /\ \A t : t # "Message" /\ Once(ses[s].box, t) => Once(ses'[s].box, t)
           /\ RenamedAhead(ses[s].box) => RenamedAhead(ses'[s].box)
           /\ ses'[s].box # <<>>
<1>1. ses[s].box \in Seq(BoxMail) /\ ses[s].box # <<>>
  BY TypedActors, BeCreatedEffect, ServesHead
<1>2. PICK b \in Seq(BoxMail) : b = Tail(ses[s].box)
  BY <1>1, Left
<1>3. PICK m \in BoxMail : m = [t |-> "Message", first |-> TRUE]
  BY DEF BoxMail
<1>4. ses'[s].box = Append(b, m)
  BY <1>2, <1>3, BeCreatedEffect
<1>5. /\ \A t : Holds(b, t) => Holds(ses[s].box, t)
      /\ \A t : Once(ses[s].box, t) => Once(b, t)
      /\ RenamedAhead(ses[s].box) => RenamedAhead(b)
  BY <1>1, <1>2, LeftHolds
<1>6. /\ \A t : Holds(ses'[s].box, t) <=> Holds(b, t) \/ m.t = t
      /\ \A t : Once(b, t) /\ ~(Holds(b, t) /\ m.t = t) => Once(ses'[s].box, t)
      /\ RenamedAhead(b) /\ m.t # "Renamed" => RenamedAhead(ses'[s].box)
  BY <1>4, JoinedHolds
<1>7. ses'[s].box # <<>>
  BY <1>4, Joined
<1>8. m.t = "Message"
  BY <1>3
<1> QED
  BY <1>5, <1>6, <1>7, <1>8

\* What the supervisor's mailbox gains and loses.
LEMMA InboxJoined ==
    ASSUME Typed, NEW m \in Mail, inbox' = Append(inbox, m)
    PROVE  /\ \A t : Holds(inbox', t) <=> Holds(inbox, t) \/ m.t = t
           /\ \A t, s : HoldsFor(inbox', t, s) <=> HoldsFor(inbox, t, s) \/ (m.t = t /\ m.id = s)
           /\ \A t, s : OnceFor(inbox, t, s) /\ ~(HoldsFor(inbox, t, s) /\ m.t = t /\ m.id = s)
                          => OnceFor(inbox', t, s)
           /\ \A s, st : LastReport(inbox, s, st) /\ ~(m.t = "SessionStatusChanged" /\ m.id = s)
                          => LastReport(inbox', s, st)
           /\ \A s, st : m.t = "SessionStatusChanged" /\ m.id = s /\ m.status = st
                          => LastReport(inbox', s, st)
<1>1. inbox \in Seq(Mail)
  BY DEF Typed, WellFormed
<1>2. \A t : Holds(inbox', t) <=> Holds(inbox, t) \/ m.t = t
  BY <1>1, JoinedHolds
<1>3. /\ \A t, s : HoldsFor(inbox', t, s) <=> HoldsFor(inbox, t, s) \/ (m.t = t /\ m.id = s)
      /\ \A t, s : OnceFor(inbox, t, s) /\ ~(HoldsFor(inbox, t, s) /\ m.t = t /\ m.id = s)
                     => OnceFor(inbox', t, s)
      /\ \A s, st : LastReport(inbox, s, st) /\ ~(m.t = "SessionStatusChanged" /\ m.id = s)
                     => LastReport(inbox', s, st)
      /\ \A s, st : m.t = "SessionStatusChanged" /\ m.id = s /\ m.status = st
                     => LastReport(inbox', s, st)
  BY <1>1, JoinedHoldsFor
<1> QED
  BY <1>2, <1>3

\* A report adds a report, of this session.
LEMMA ReportsJoined ==
    ASSUME Typed, NEW s \in Sessions, NEW status, Reports(s, status)
    PROVE  /\ \A t : t # "SessionStatusChanged" => (Holds(inbox', t) <=> Holds(inbox, t))
           /\ \A t, r : t # "SessionStatusChanged" \/ r # s =>
                /\ HoldsFor(inbox', t, r) <=> HoldsFor(inbox, t, r)
                /\ OnceFor(inbox, t, r) => OnceFor(inbox', t, r)
           /\ \A r, st : r # s /\ LastReport(inbox, r, st) => LastReport(inbox', r, st)
           /\ ses[s].reported # status => LastReport(inbox', s, status)
           /\ ses[s].reported = status => inbox' = inbox
<1>1. CASE ses[s].reported # status
  <2>1. PICK m \in Mail : m = Note(s, status)
    BY DEF Reports, Note, Mail
  <2>2. inbox' = Append(inbox, m)
    BY <1>1, <2>1 DEF Reports
  <2>3. m.t = "SessionStatusChanged" /\ m.id = s /\ m.status = status
    BY <2>1 DEF Note
  <2> QED
    BY <1>1, <2>2, <2>3, InboxJoined
<1>2. CASE ses[s].reported = status
  BY <1>2 DEF Reports
<1> QED
  BY <1>1, <1>2

\* A request for a name adds a request, of this session.
LEMMA WaitsJoined ==
    ASSUME Typed, NEW s \in Sessions, NEW name, Waits(s, name)
    PROVE  /\ \A t : t # "RenameSession" => (Holds(inbox', t) <=> Holds(inbox, t))
           /\ \A t, r : t # "RenameSession" \/ r # s =>
                /\ HoldsFor(inbox', t, r) <=> HoldsFor(inbox, t, r)
                /\ OnceFor(inbox, t, r) => OnceFor(inbox', t, r)
           /\ ~HoldsFor(inbox, "RenameSession", s) /\ OnceFor(inbox, "RenameSession", s)
                => OnceFor(inbox', "RenameSession", s)
           /\ \A r, st : LastReport(inbox, r, st) => LastReport(inbox', r, st)
<1>1. PICK m \in Mail : m = Ask(s, name)
  BY WaitsType
<1>2. inbox' = Append(inbox, m)
  BY <1>1 DEF Waits
<1>3. m.t = "RenameSession" /\ m.id = s
  BY <1>1 DEF Ask
<1> QED
  BY <1>2, <1>3, InboxJoined

LEMMA InboxLeft ==
    ASSUME Typed, inbox # <<>>, inbox' = Tail(inbox)
    PROVE  /\ \A t : Holds(inbox', t) => Holds(inbox, t)
           /\ Holds(inbox, Head(inbox).t)
           /\ \A t, s : HoldsFor(inbox', t, s) => HoldsFor(inbox, t, s)
           /\ \A t, s : Head(inbox).t = t /\ Head(inbox).id = s => HoldsFor(inbox, t, s)
           /\ \A t, s : OnceFor(inbox, t, s) => OnceFor(inbox', t, s)
           /\ \A t, s : OnceFor(inbox, t, s) /\ Head(inbox).t = t /\ Head(inbox).id = s
                          => ~HoldsFor(inbox', t, s)
           /\ \A s, st : LastReport(inbox, s, st) =>
                \/ LastReport(inbox', s, st)
                \/ /\ ~HoldsFor(inbox', "SessionStatusChanged", s)
                   /\ Head(inbox).t = "SessionStatusChanged" /\ Head(inbox).id = s
                   /\ Head(inbox).status = st
<1>1. inbox \in Seq(Mail)
  BY DEF Typed, WellFormed
<1>2. \A t : Holds(inbox', t) => Holds(inbox, t)
  BY <1>1, LeftHolds
<1>3. Holds(inbox, Head(inbox).t)
  BY <1>1, LeftHolds
<1> QED
  BY <1>1, <1>2, <1>3, LeftHoldsFor

-----------------------------------------------------------------------------
(* Who is waited for *)

\* No question of the supervisor's joins the mailbox.
Unasked(r) ==
  \A t \in {"PrepareOffload", "Delete"} :
    /\ Holds(ses'[r].box, t) => Holds(ses[r].box, t)
    /\ Once(ses[r].box, t) => Once(ses'[r].box, t)

LEMMA MovesUnasked ==
    ASSUME NEW r, NEW ts, Moves(r, ts), "PrepareOffload" \notin ts, "Delete" \notin ts
    PROVE  Unasked(r)
BY DEF Moves, Unasked

LEMMA WaitingKept ==
    ASSUME Waiting, \A r \in Sessions : Unasked(r), wait' = wait, active \subseteq active'
    PROVE  Waiting'
BY DEF Waiting, Unasked

\* A session's own steps, those that answer the supervisor apart.
LEMMA WaitingSession ==
    ASSUME Typed, Waiting, Renames, NEW s \in Sessions,
           \/ Load(s) \/ BeCreated(s) \/ TakeMessage(s) \/ SetTitle(s) \/ Named(s)
           \/ TitleSet(s) \/ Read(s) \/ Provisioned(s) \/ Started(s) \/ Outcome(s)
    PROVE  Waiting'
<1>1. ASSUME Only(s), Unasked(s), UNCHANGED <<wait, active>> PROVE Waiting'
  <2>1. \A r \in Sessions : Unasked(r)
    <3> TAKE r \in Sessions
    <3>1. CASE r = s
      BY <1>1, <3>1
    <3>2. CASE r # s
      BY <1>1, <3>2, OnlyMoves, MovesUnasked
    <3> QED
      BY <3>1, <3>2
  <2> QED
    BY <1>1, <2>1, WaitingKept
<1>2. CASE Load(s)
  BY <1>1, <1>2, LoadEffect, SameMoves, MovesUnasked
<1>3. CASE BeCreated(s)
  <2>1. Unasked(s)
    BY <1>3, BeCreatedMoves DEF Unasked
  <2> QED
    BY <1>1, <1>3, <2>1, BeCreatedEffect
<1>4. CASE TakeMessage(s)
  <2>1. Only(s) /\ UNCHANGED <<wait, active>>
    BY <1>4, TakeMessageEffect DEF Waits, Takes
  <2>2. Moves(s, {})
    BY <1>4, TakeMessageEffect, SameMoves, TailMoves DEF Waits, Takes
  <2> QED
    BY <1>1, <2>1, <2>2, MovesUnasked
<1>5. CASE SetTitle(s)
  BY <1>1, <1>5, SetTitleEffect, SameMoves, MovesUnasked DEF Waits
<1>6. CASE Named(s)
  <2>1. Moves(s, {})
    BY <1>6, NamedEffect, TailMoves, TwiceMoves
  <2> QED
    BY <1>1, <1>6, <2>1, NamedEffect, MovesUnasked
<1>7. CASE TitleSet(s) \/ Read(s)
  <2>1. Moves(s, {})
    BY <1>7, ReadEffect, TailMoves DEF Takes
  <2> QED
    BY <1>1, <1>7, <2>1, ReadEffect, MovesUnasked DEF Takes
<1>8. CASE Provisioned(s)
  BY <1>1, <1>8, ProvisionedEffect, SameMoves, MovesUnasked DEF Settled
<1>9. CASE Started(s) \/ Outcome(s)
  <2>1. PICK status, t : Settled(s, status) /\ Serves(s, t) /\ ses'[s].box = Tail(ses[s].box)
    BY <1>9, TurnEffect
  <2>2. Moves(s, {})
    BY <2>1, ServesHead, TailMoves
  <2> QED
    BY <1>1, <2>1, <2>2, MovesUnasked DEF Settled
<1> QED
  BY <1>2, <1>3, <1>4, <1>5, <1>6, <1>7, <1>8, <1>9

\* The answers: the question has left, and nobody else was asked.
LEMMA WaitingAnswer ==
    ASSUME Typed, Waiting, NEW s \in Sessions, PrepareOffload(s) \/ BeDeleted(s)
    PROVE  Waiting'
<1>1. wait.todo \subseteq active /\ active \subseteq Sessions /\ s # Nobody
  BY SessionsAssumption DEF Waiting, Typed, TypeOK
<1>2. CASE PrepareOffload(s)
  <2>1. Serves(s, "PrepareOffload") /\ Head(ses[s].box).t = "PrepareOffload"
    BY <1>2, OffloadEffect, ServesHead
  <2>2. wait.for \in {"offload", "shutdown"} /\ wait.on = s
    BY <2>1, ServesHead DEF Waiting
  <2>3. Only(s) /\ active \ {s} \subseteq active' /\ wait' = [wait EXCEPT !.on = Nobody]
    BY <1>2, OffloadEffect DEF Takes, Unloads, OffloadAnswered
  <2>4. /\ wait'.for = wait.for /\ wait'.on = Nobody /\ wait'.todo = wait.todo
    BY <2>3 DEF Typed, TypeOK
  <2>5. \A r \in Sessions : /\ ~Holds(ses'[r].box, "PrepareOffload")
                            /\ ~Holds(ses'[r].box, "Delete")
                            /\ Once(ses'[r].box, "PrepareOffload")
    <3> TAKE r \in Sessions
    <3>1. CASE r # s
      BY <2>2, <2>3, <3>1, OnlyMoves DEF Waiting
    <3>2. CASE r = s /\ Takes(s)
      <4>1. ses[s].box # <<>> /\ ses'[s].box = Tail(ses[s].box)
        BY <3>2 DEF Takes
      <4>2. Moves(s, {}) /\ ~Holds(ses'[s].box, "PrepareOffload")
        BY <2>1, <4>1, TailMoves DEF Waiting
      <4> QED
        BY <2>2, <3>2, <4>2 DEF Moves, Waiting
    <3>3. CASE r = s /\ Unloads(s)
      <4>1. ses'[s] = Cold
        BY <3>3 DEF Unloads
      <4> QED
        BY <3>3, <4>1, ColdMoves DEF Moves, Waiting
    <3> QED
      BY <1>2, <3>1, <3>2, <3>3, OffloadEffect
  <2>6. Nobody \notin wait.todo /\ s \notin wait.todo
    BY <1>1, <2>2, SessionsAssumption DEF Waiting, SessionsAssumption
  <2> QED
    BY <1>1, <2>3, <2>4, <2>5, <2>6 DEF Waiting
<1>3. CASE BeDeleted(s)
  <2>1. Serves(s, "Delete") /\ Only(s) /\ ses'[s] = Cold /\ wait' = NoWait
    BY <1>3, DeletedEffect DEF Unloads, DeleteAnswered
  <2>2. wait.for = "delete" /\ wait.on = s
    BY <2>1, ServesHead DEF Waiting
  <2>3. \A r \in Sessions : /\ ~Holds(ses'[r].box, "PrepareOffload")
                            /\ ~Holds(ses'[r].box, "Delete")
                            /\ Once(ses'[r].box, "PrepareOffload")
    <3> TAKE r \in Sessions
    <3>1. CASE r # s
      BY <2>1, <2>2, <3>1, OnlyMoves DEF Waiting
    <3>2. CASE r = s
      BY <2>1, <3>2, ColdMoves DEF Moves, Waiting
    <3> QED
      BY <3>1, <3>2
  <2>4. wait'.todo = {}
    BY <2>1 DEF NoWait
  <2> QED
    BY <2>3, <2>4 DEF Waiting
<1> QED
  BY <1>2, <1>3

\* A handler of the supervisor waits for nobody when it begins.
LEMMA WaitingHandler ==
    ASSUME Typed, Waiting, HandleCommand
    PROVE  Waiting'
<1>1. /\ wait = NoWait
      /\ \/ \E s \in Sessions : \/ Creating(s) \/ Forwarding(s) \/ Titling(s)
                                \/ Renaming(s) \/ Noting(s) \/ Deleting(s)
         \/ Sweeping \/ Passing
  BY HandlerEffect
<1>2. wait.for = "none" /\ wait.on = Nobody /\ wait.todo = {}
  BY <1>1 DEF NoWait
<1>3. \A r \in Sessions : ~Holds(ses[r].box, "PrepareOffload") /\ ~Holds(ses[r].box, "Delete")
  BY <1>2 DEF Waiting
<1>4. ASSUME NEW s \in Sessions, NEW m \in BoxMail, Posts(s, m),
             m.t \notin {"PrepareOffload", "Delete"}
      PROVE  \A r \in Sessions : Unasked(r)
  <2> TAKE r \in Sessions
  <2>1. CASE r = s
    BY <1>4, <2>1, SendMoves, MovesUnasked DEF Posts
  <2>2. CASE r # s
    BY <1>4, <2>2, OnlyMoves, MovesUnasked DEF Posts, Sends
  <2> QED
    BY <2>1, <2>2
<1>5. UNCHANGED ses => \A r \in Sessions : Unasked(r)
  BY SameMoves, MovesUnasked
<1>6. ASSUME NEW s \in Sessions, Creating(s) PROVE Waiting'
  BY <1>4, <1>6, WaitingKept DEF Creating
<1>7. ASSUME NEW s \in Sessions, Forwarding(s) PROVE Waiting'
  BY <1>4, <1>7, WaitingKept DEF Forwarding
<1>8. ASSUME NEW s \in Sessions, Titling(s) PROVE Waiting'
  BY <1>4, <1>5, <1>8, WaitingKept DEF Titling
<1>9. ASSUME NEW s \in Sessions, Renaming(s) \/ Noting(s) PROVE Waiting'
  BY <1>5, <1>9, WaitingKept DEF Renaming, Noting
<1>10. CASE Passing
  BY <1>5, <1>10, WaitingKept DEF Passing
<1>11. CASE Sweeping
  <2>1. UNCHANGED ses /\ wait'.todo \subseteq active' /\ wait'.on \notin wait'.todo
    BY <1>11, SessionsAssumption DEF Sweeping, Typed, TypeOK, SessionsAssumption
  <2> QED
    BY <1>3, <2>1 DEF Waiting
<1>12. ASSUME NEW s \in Sessions, Deleting(s) PROVE Waiting'
  <2>1. PICK m \in BoxMail : m.t = "Delete" /\ Posts(s, m)
    BY <1>12 DEF Deleting
  <2>2. wait'.for = "delete" /\ wait'.on = s /\ wait'.todo = {}
    BY <1>12 DEF Deleting
  <2>3. Moves(s, {"Delete"}) /\ Only(s)
    BY <2>1, SendMoves DEF Posts, Sends
  <2>4. \A r \in Sessions : /\ ~Holds(ses'[r].box, "PrepareOffload")
                            /\ Holds(ses'[r].box, "Delete") => r = s
                            /\ Once(ses'[r].box, "PrepareOffload")
    <3> TAKE r \in Sessions
    <3>1. CASE r = s
      BY <1>3, <2>3, <3>1 DEF Moves, Waiting
    <3>2. CASE r # s
      BY <1>3, <2>3, <3>2, OnlyMoves DEF Waiting
    <3> QED
      BY <3>1, <3>2
  <2> QED
    BY <2>2, <2>4 DEF Waiting
<1> QED
  BY <1>1, <1>6, <1>7, <1>8, <1>9, <1>10, <1>11, <1>12

\* The other steps.
LEMMA WaitingRest ==
    ASSUME Typed, Waiting,
           \/ Persist \/ AskNext \/ Crash
           \/ \E s \in Sessions : \/ AgentBegins(s) \/ AgentTitles(s) \/ AgentEnds(s)
                                  \/ GoesQuiet(s)
           \/ \E cmd \in Calls : Request(cmd)
    PROVE  Waiting'
<1>1. CASE Persist
  <2>1. \A r \in Sessions : Unasked(r)
    <3>1. CASE ses' = ses
      BY <3>1, SameMoves, MovesUnasked
    <3>2. ASSUME NEW s \in Sessions, NEW m \in BoxMail, m.t = "Renamed",
                 "first" \notin DOMAIN m, Only(s), ses'[s].box = <<m>> \o ses[s].box
          PROVE  \A r \in Sessions : Unasked(r)
      <4> TAKE r \in Sessions
      <4>1. CASE r = s
        BY <3>2, <4>1, AheadMoves, MovesUnasked
      <4>2. CASE r # s
        BY <3>2, <4>2, OnlyMoves, MovesUnasked
      <4> QED
        BY <4>1, <4>2
    <3> QED
      BY <1>1, <3>1, <3>2, PersistEffect
  <2>2. UNCHANGED <<wait, active>>
    BY <1>1, PersistEffect
  <2> QED
    BY <2>1, <2>2, WaitingKept
<1>2. CASE AskNext
  <2>1. wait.for \in {"offload", "shutdown"} /\ wait.on = Nobody /\ UNCHANGED active
    BY <1>2, AskNextEffect
  <2>2. \A r \in Sessions : /\ ~Holds(ses[r].box, "PrepareOffload")
                            /\ ~Holds(ses[r].box, "Delete")
    BY <2>1, SessionsAssumption DEF Waiting, SessionsAssumption
  <2>3. CASE ses' = ses /\ wait' = NoWait
    <3>1. wait'.todo = {}
      BY <2>3 DEF NoWait
    <3> QED
      BY <2>2, <2>3, <3>1 DEF Waiting
  <2>4. ASSUME NEW s \in Sessions, NEW m \in BoxMail, s \in wait.todo,
               m.t = "PrepareOffload", Posts(s, m),
               wait'.for = wait.for, wait'.on = s, wait'.todo = wait.todo \ {s}
        PROVE  Waiting'
    <3>1. /\ Moves(s, {"PrepareOffload"}) /\ Only(s) /\ Once(ses'[s].box, "PrepareOffload")
      <4>1. Sends(s, m) /\ "first" \notin DOMAIN m /\ Once(ses[s].box, m.t)
        BY <2>4 DEF Posts, Waiting
      <4>2. Moves(s, {m.t}) /\ Once(ses'[s].box, m.t)
        BY <2>2, <2>4, <4>1, SendMoves
      <4> QED
        BY <2>4, <4>1, <4>2 DEF Sends
    <3>2. \A r \in Sessions : /\ Holds(ses'[r].box, "PrepareOffload") => r = s
                              /\ ~Holds(ses'[r].box, "Delete")
                              /\ Once(ses'[r].box, "PrepareOffload")
      <4> TAKE r \in Sessions
      <4>1. CASE r = s
        BY <2>2, <3>1, <4>1 DEF Moves
      <4>2. CASE r # s
        BY <2>2, <3>1, <4>2, OnlyMoves DEF Waiting
      <4> QED
        BY <4>1, <4>2
    <3> QED
      BY <2>1, <2>4, <3>2 DEF Waiting
  <2> QED
    BY <1>2, <2>3, <2>4, AskNextEffect
<1>3. CASE Crash
  <2>1. wait'.todo = {}
    BY <1>3, CrashEffect DEF NoWait
  <2>2. \A r \in Sessions : /\ ~Holds(ses'[r].box, "PrepareOffload")
                            /\ ~Holds(ses'[r].box, "Delete")
                            /\ Once(ses'[r].box, "PrepareOffload")
    BY <1>3, CrashEffect, ColdMoves DEF Moves, Waiting
  <2> QED
    BY <2>1, <2>2 DEF Waiting
<1>4. ASSUME NEW s \in Sessions, AgentBegins(s) \/ AgentTitles(s) \/ AgentEnds(s)
      PROVE  Waiting'
  <2>1. PICK m \in BoxMail : /\ Sends(s, m) /\ "first" \notin DOMAIN m
                             /\ m.t \in {"Started", "Outcome", "SetTitle"}
    BY <1>4, AgentEffect
  <2>2. \A r \in Sessions : Unasked(r)
    <3> TAKE r \in Sessions
    <3>1. CASE r = s
      BY <2>1, <3>1, SendMoves, MovesUnasked
    <3>2. CASE r # s
      BY <2>1, <3>2, OnlyMoves, MovesUnasked DEF Sends
    <3> QED
      BY <3>1, <3>2
  <2> QED
    BY <1>4, <2>2, AgentEffect, WaitingKept
<1>5. ASSUME NEW s \in Sessions, GoesQuiet(s) PROVE Waiting'
  BY <1>5 DEF GoesQuiet, Waiting
<1>6. ASSUME NEW cmd \in Calls, Request(cmd) PROVE Waiting'
  BY <1>6 DEF Request, Waiting
<1> QED
  BY <1>1, <1>2, <1>3, <1>4, <1>5, <1>6

-----------------------------------------------------------------------------
(* What is swept *)

Warm(r) == ses[r].up \/ ses[r].box # <<>>

\* Nothing gets warm unnoticed, and nothing warm is forgotten.
LEMMA SweptKept ==
    ASSUME Swept,
           Holds(inbox', "Shutdown") => Holds(inbox, "Shutdown") \/ spent'.closed,
           wait'.for = "shutdown" => wait.for = "shutdown" \/ spent'.closed,
           spent.closed => spent'.closed,
           \A r \in Sessions : Warm(r)' => Warm(r) \/ r \in active',
           \A r \in Sessions : Warm(r)' /\ r \in active => r \in active' \/ spent'.closed
    PROVE  Swept'
BY DEF Swept, Warm

\* A session's own steps.
LEMMA SweptSession ==
    ASSUME Typed, Waiting, Renames, Swept, NEW s \in Sessions, SessionSteps(s)
    PROVE  Swept'
<1>1. ASSUME Only(s), Warm(s), UNCHANGED <<wait, active, spent>>,
             Holds(inbox', "Shutdown") => Holds(inbox, "Shutdown")
      PROVE  Swept'
  <2>1. \A r \in Sessions : Warm(r)' => Warm(r)
    BY <1>1 DEF Only, Warm
  <2> QED
    BY <1>1, <2>1, SweptKept
<1>2. ASSUME NEW t, Serves(s, t) PROVE Warm(s)
  BY <1>2 DEF Serves, Warm
<1>3. CASE Load(s)
  <2>1. Holds(inbox', "Shutdown") => Holds(inbox, "Shutdown")
    BY <1>3, LoadEffect, ReportsJoined
  <2> QED
    BY <1>1, <1>3, <2>1, LoadEffect DEF Warm
<1>4. CASE BeCreated(s)
  <2>1. Holds(inbox', "Shutdown") => Holds(inbox, "Shutdown")
    BY <1>4, BeCreatedEffect, ReportsJoined
  <2> QED
    BY <1>1, <1>2, <1>4, <2>1, BeCreatedEffect
<1>5. CASE TakeMessage(s)
  <2>1. Holds(inbox', "Shutdown") => Holds(inbox, "Shutdown")
    BY <1>5, TakeMessageEffect, WaitsJoined
  <2> QED
    BY <1>1, <1>2, <1>5, <2>1, TakeMessageEffect DEF Takes, Waits
<1>6. CASE SetTitle(s)
  <2>1. Holds(inbox', "Shutdown") => Holds(inbox, "Shutdown")
    BY <1>6, SetTitleEffect, WaitsJoined
  <2> QED
    BY <1>1, <1>2, <1>6, <2>1, SetTitleEffect DEF Waits
<1>7. CASE Named(s)
  BY <1>1, <1>7, NamedEffect DEF Warm
<1>8. CASE TitleSet(s) \/ Read(s)
  BY <1>1, <1>2, <1>8, ReadEffect DEF Takes
<1>9. CASE Provisioned(s)
  <2>1. Settled(s, "Idle")
    BY <1>9, ProvisionedEffect
  <2>2. Holds(inbox', "Shutdown") => Holds(inbox, "Shutdown")
    BY <2>1, ReportsJoined DEF Settled
  <2> QED
    BY <1>1, <2>1, <2>2 DEF Settled, Warm
<1>10. CASE Started(s) \/ Outcome(s)
  <2>1. PICK status : Settled(s, status)
    BY <1>10, TurnEffect
  <2>2. Holds(inbox', "Shutdown") => Holds(inbox, "Shutdown")
    BY <2>1, ReportsJoined DEF Settled
  <2> QED
    BY <1>1, <2>1, <2>2 DEF Settled, Warm
<1>11. CASE PrepareOffload(s)
  <2>1. Serves(s, "PrepareOffload") /\ UNCHANGED <<inbox, spent>>
    BY <1>11, OffloadEffect
  <2>2. Warm(s)
    BY <1>2, <2>1
  <2>3. Only(s) /\ wait' = [wait EXCEPT !.on = Nobody]
    BY <1>11, OffloadEffect DEF Takes, Unloads, OffloadAnswered
  <2>4. wait'.for = wait.for
    BY <2>3 DEF Typed, TypeOK
  <2>5. \A r \in Sessions : Warm(r)' => Warm(r)
    BY <2>2, <2>3 DEF Only, Warm
  <2>6. \A r \in Sessions : Warm(r)' /\ r \in active => r \in active' \/ spent'.closed
    <3> TAKE r \in Sessions
    <3>1. CASE r # s
      BY <1>11, <3>1, OffloadEffect DEF OffloadAnswered
    <3>2. CASE r = s /\ Takes(s) /\ OffloadAnswered(s, FALSE)
      BY <2>1, <3>2 DEF OffloadAnswered, Swept
    <3>3. CASE r = s /\ Unloads(s)
      BY <3>3, ColdMoves DEF Unloads, Warm
    <3> QED
      BY <1>11, <3>1, <3>2, <3>3, OffloadEffect
  <2> QED
    BY <2>1, <2>4, <2>5, <2>6, SweptKept
<1>12. CASE BeDeleted(s)
  <2>1. /\ Serves(s, "Delete") /\ UNCHANGED <<inbox, spent>> /\ Only(s)
        /\ ses'[s] = Cold /\ wait' = NoWait /\ active' = active \ {s}
    BY <1>12, DeletedEffect DEF Unloads, DeleteAnswered
  <2>2. ~Warm(s)'
    BY <2>1, ColdMoves DEF Warm
  <2>3. wait'.for # "shutdown"
    BY <2>1 DEF NoWait
  <2>4. \A r \in Sessions : Warm(r)' => Warm(r)
    BY <2>1, <2>2 DEF Only, Warm
  <2> QED
    BY <2>1, <2>2, <2>3, <2>4, SweptKept
<1> QED
  BY <1>3, <1>4, <1>5, <1>6, <1>7, <1>8, <1>9, <1>10, <1>11, <1>12 DEF SessionSteps

\* The supervisor's handlers count what they post to.
LEMMA SweptHandler ==
    ASSUME Typed, Swept, HandleCommand
    PROVE  Swept'
<1>1. /\ inbox # <<>> /\ inbox' = Tail(inbox) /\ wait = NoWait /\ UNCHANGED spent
      /\ \/ \E s \in Sessions : \/ Creating(s) \/ Forwarding(s) \/ Titling(s)
                                \/ Renaming(s) \/ Noting(s) \/ Deleting(s)
         \/ Sweeping \/ Passing
  BY HandlerEffect
<1>2. /\ Holds(inbox', "Shutdown") => Holds(inbox, "Shutdown")
      /\ Head(inbox).t = "Shutdown" => spent.closed
  BY <1>1, InboxLeft DEF Swept
<1>3. wait.for = "none"
  BY <1>1 DEF NoWait
<1>4. ASSUME NEW s \in Sessions, NEW m \in BoxMail, Posts(s, m), s \in active',
             active \subseteq active', wait'.for # "shutdown"
      PROVE  Swept'
  <2>1. \A r \in Sessions : Warm(r)' => Warm(r) \/ r \in active'
    BY <1>4 DEF Posts, Sends, Only, Warm
  <2> QED
    BY <1>1, <1>2, <1>4, <2>1, SweptKept
<1>5. ASSUME UNCHANGED <<ses, active>>, wait'.for = "shutdown" => spent.closed
      PROVE  Swept'
  BY <1>1, <1>2, <1>5, SweptKept DEF Warm
<1>6. ASSUME NEW s \in Sessions, Creating(s) PROVE Swept'
  BY <1>3, <1>4, <1>6 DEF Creating
<1>7. ASSUME NEW s \in Sessions, Forwarding(s) PROVE Swept'
  BY <1>3, <1>4, <1>7 DEF Forwarding
<1>8. ASSUME NEW s \in Sessions, Titling(s) PROVE Swept'
  BY <1>3, <1>4, <1>5, <1>8 DEF Titling
<1>9. ASSUME NEW s \in Sessions, Renaming(s) \/ Noting(s) PROVE Swept'
  BY <1>3, <1>5, <1>9 DEF Renaming, Noting
<1>10. ASSUME NEW s \in Sessions, Deleting(s) PROVE Swept'
  <2>1. wait'.for = "delete"
    BY <1>10 DEF Deleting
  <2> QED
    BY <1>4, <1>10, <2>1 DEF Deleting
<1>11. CASE Sweeping
  BY <1>2, <1>5, <1>11 DEF Sweeping
<1>12. CASE Passing
  BY <1>3, <1>5, <1>12 DEF Passing
<1> QED
  BY <1>1, <1>6, <1>7, <1>8, <1>9, <1>10, <1>11, <1>12

\* The other steps.
LEMMA SweptRest ==
    ASSUME Typed, Waiting, Renames, Swept,
           \/ Persist \/ AskNext \/ Crash
           \/ \E s \in Sessions : \/ AgentBegins(s) \/ AgentTitles(s) \/ AgentEnds(s)
                                  \/ GoesQuiet(s)
           \/ \E cmd \in Calls : Request(cmd)
    PROVE  Swept'
<1>1. CASE Persist
  <2>1. UNCHANGED <<inbox, wait, active, spent>>
    BY <1>1, PersistEffect
  <2>2. \A r \in Sessions : Warm(r)' => Warm(r)
    BY <1>1, PersistEffect DEF Only, Warm, Renames, NamedOnce
  <2> QED
    BY <2>1, <2>2, SweptKept
<1>2. CASE AskNext
  <2>1. UNCHANGED <<inbox, active, spent>>
    BY <1>2, AskNextEffect
  <2>2. wait'.for = "shutdown" => wait.for = "shutdown"
    BY <1>2, AskNextEffect DEF NoWait
  <2>3. \A r \in Sessions : Warm(r)' => Warm(r) \/ r \in active'
    BY <1>2, <2>1, AskNextEffect DEF Posts, Sends, Only, Warm, Waiting
  <2> QED
    BY <2>1, <2>2, <2>3, SweptKept
<1>3. CASE Crash
  <2>1. \A r \in Sessions : ~Warm(r)'
    BY <1>3, CrashEffect, ColdMoves DEF Warm
  <2>2. ~Holds(inbox', "Shutdown") /\ wait'.for # "shutdown"
    BY <1>3, CrashEffect, EmptyHolds DEF NoWait
  <2> QED
    BY <2>1, <2>2 DEF Swept, Warm
<1>4. ASSUME NEW s \in Sessions, AgentBegins(s) \/ AgentTitles(s) \/ AgentEnds(s)
      PROVE  Swept'
  <2>1. /\ ses[s].up /\ Only(s) /\ UNCHANGED <<inbox, wait, active>>
        /\ spent'.closed = spent.closed
    BY <1>4, AgentEffect DEF Sends
  <2>2. \A r \in Sessions : Warm(r)' => Warm(r)
    BY <2>1 DEF Only, Warm
  <2> QED
    BY <2>1, <2>2, SweptKept
<1>5. ASSUME NEW s \in Sessions, GoesQuiet(s) PROVE Swept'
  BY <1>5 DEF GoesQuiet, Swept
<1>6. ASSUME NEW cmd \in Calls, Request(cmd) PROVE Swept'
  <2>1. /\ cmd \in Mail /\ inbox' = Append(inbox, cmd) /\ UNCHANGED <<ses, wait, active>>
        /\ spent.closed \/ cmd.t = "Shutdown" => spent'.closed
    BY <1>6, RequestEffect
  <2>2. Holds(inbox', "Shutdown") => Holds(inbox, "Shutdown") \/ spent'.closed
    BY <2>1, InboxJoined
  <2> QED
    BY <2>1, <2>2, SweptKept DEF Warm
<1> QED
  BY <1>1, <1>2, <1>3, <1>4, <1>5, <1>6

-----------------------------------------------------------------------------
(* One request for a name *)

\* No acknowledgement joins the mailbox, no request the supervisor's, and none is staged.
RenamedKept(r) ==
  /\ Holds(ses'[r].box, "Renamed") => Holds(ses[r].box, "Renamed")
  /\ RenamedAhead(ses[r].box) => RenamedAhead(ses'[r].box)
AsksKept(r) ==
  /\ HoldsFor(inbox', "RenameSession", r) => HoldsFor(inbox, "RenameSession", r)
  /\ OnceFor(inbox, "RenameSession", r) => OnceFor(inbox', "RenameSession", r)
  /\ Naming(r)' => Naming(r)

LEMMA NamedOnceKept ==
    ASSUME NEW r \in Sessions, NamedOnce(r), RenamedKept(r), AsksKept(r),
           ses'[r].asks = ses[r].asks,
           ses[r].asks # "" => /\ ses'[r].up /\ ses'[r].box # <<>>
                               /\ Len(ses[r].box) >= 2 => Len(ses'[r].box) >= 2
    PROVE  NamedOnce(r)'
BY DEF NamedOnce, RenamedKept, AsksKept

LEMMA NamedOnceSame ==
    ASSUME NEW r \in Sessions, NamedOnce(r), AsksKept(r), ses'[r] = ses[r]
    PROVE  NamedOnce(r)'
BY DEF NamedOnce, AsksKept

LEMMA MovesRenamedKept ==
    ASSUME NEW r, NEW ts, Moves(r, ts), "Renamed" \notin ts
    PROVE  RenamedKept(r)
BY DEF Moves, RenamedKept

\* A message that joins a mailbox disturbs no request for a name.
LEMMA NamedOnceSent ==
    ASSUME Typed, NEW s \in Sessions, NamedOnce(s), AsksKept(s), NEW m,
           Sends(s, m), "first" \notin DOMAIN m, m.t # "Renamed"
    PROVE  NamedOnce(s)'
<1>1. /\ Moves(s, {m.t}) /\ ses'[s].box # <<>>
      /\ Len(ses'[s].box) = Len(ses[s].box) + 1 /\ Len(ses[s].box) \in Nat
  BY SendMoves
<1>2. RenamedKept(s)
  BY <1>1, MovesRenamedKept
<1>3. ses'[s].asks = ses[s].asks /\ (ses[s].asks # "" => ses'[s].up)
  BY DEF Sends, NamedOnce
<1>4. Len(ses[s].box) >= 2 => Len(ses'[s].box) >= 2
  BY <1>1
<1> QED
  BY <1>1, <1>2, <1>3, <1>4, NamedOnceKept

\* A session's own steps.
LEMMA RenamesSession ==
    ASSUME Typed, Renames, NEW s \in Sessions, SessionSteps(s)
    PROVE  Renames'
<1>0. NamedOnce(s)
  BY DEF Renames
<1>1. ASSUME Only(s), \A r \in Sessions : r # s => AsksKept(r), NamedOnce(s)'
      PROVE  Renames'
  <2>1. \A r \in Sessions : r # s => NamedOnce(r)'
    BY <1>1, NamedOnceSame DEF Only, Renames
  <2> QED
    BY <1>1, <2>1 DEF Renames
<1>2. UNCHANGED <<inbox, staged>> => \A r \in Sessions : AsksKept(r)
  BY DEF AsksKept, Naming, Stages
<1>3. ASSUME NEW status, Reports(s, status), UNCHANGED staged
      PROVE  \A r \in Sessions : AsksKept(r)
  BY <1>3, ReportsJoined DEF AsksKept, Naming, Stages
<1>4. ASSUME NEW t, Serves(s, t), AsksKept(s), Takes(s) PROVE NamedOnce(s)'
  <2>1. Moves(s, {}) /\ ses[s].asks = "" /\ ses'[s].asks = ""
    BY <1>4, ServesHead, TailMoves DEF Takes
  <2> QED
    BY <1>0, <1>4, <2>1, MovesRenamedKept, NamedOnceKept
<1>5. ASSUME NEW t, Serves(s, t), t # "Renamed", NEW name, Waits(s, name), UNCHANGED staged
      PROVE  Renames'
  <2>1. /\ ses[s].up /\ ses[s].asks = "" /\ ses[s].box # <<>>
    BY <1>5, ServesHead
  <2>2. /\ ~HoldsFor(inbox, "RenameSession", s) /\ ~Naming(s)
        /\ ~Holds(ses[s].box, "Renamed") /\ OnceFor(inbox, "RenameSession", s)
        /\ RenamedAhead(ses[s].box)
    BY <1>0, <2>1 DEF NamedOnce
  <2>3. /\ ses'[s].box = ses[s].box /\ ses'[s].up = ses[s].up /\ ses'[s].asks # "" /\ Only(s)
    BY <1>5 DEF Waits
  <2>4. OnceFor(inbox', "RenameSession", s)
    BY <1>5, <2>2, WaitsJoined
  <2>5. ~Naming(s)'
    BY <1>5, <2>2 DEF Naming, Stages
  <2>6. NamedOnce(s)'
    BY <2>1, <2>2, <2>3, <2>4, <2>5 DEF NamedOnce
  <2>7. \A r \in Sessions : r # s => AsksKept(r)
    BY <1>5, WaitsJoined DEF AsksKept, Naming, Stages
  <2> QED
    BY <1>1, <2>3, <2>6, <2>7
<1>6. CASE Load(s)
  <2>1. /\ Only(s) /\ ~ses[s].up /\ ses'[s].box = ses[s].box /\ ses'[s].asks = ses[s].asks
        /\ UNCHANGED staged
        /\ UNCHANGED inbox \/ Reports(s, own[s].status)
    BY <1>6, LoadEffect
  <2>2. \A r \in Sessions : AsksKept(r)
    BY <1>2, <1>3, <2>1
  <2>3. ses[s].asks = ""
    BY <1>0, <2>1 DEF NamedOnce
  <2>4. NamedOnce(s)'
    BY <1>0, <2>1, <2>2, <2>3, SameMoves, MovesRenamedKept, NamedOnceKept
  <2> QED
    BY <1>1, <2>1, <2>2, <2>4
<1>7. CASE BeCreated(s)
  <2>1. /\ Only(s) /\ Serves(s, "Create") /\ Reports(s, own[s].status) /\ UNCHANGED staged
        /\ ses'[s].asks = ses[s].asks
    BY <1>7, BeCreatedEffect
  <2>2. \A r \in Sessions : AsksKept(r)
    BY <1>3, <2>1
  <2>3. RenamedKept(s) /\ ses[s].asks = ""
    BY <1>7, <2>1, BeCreatedMoves, ServesHead DEF RenamedKept
  <2>4. NamedOnce(s)'
    BY <1>0, <2>1, <2>2, <2>3, NamedOnceKept
  <2> QED
    BY <1>1, <2>1, <2>2, <2>4
<1>8. CASE TakeMessage(s)
  <2>1. Serves(s, "Message") /\ UNCHANGED staged
    BY <1>8, TakeMessageEffect
  <2>2. CASE Waits(s, "derived")
    BY <1>5, <2>1, <2>2
  <2>3. CASE Takes(s) /\ UNCHANGED inbox
    BY <1>1, <1>2, <1>4, <2>1, <2>3 DEF Takes
  <2> QED
    BY <1>8, <2>2, <2>3, TakeMessageEffect
<1>9. CASE SetTitle(s)
  BY <1>5, <1>9, SetTitleEffect
<1>10. CASE Named(s)
  <2>1. /\ Only(s) /\ ses[s].asks # "" /\ ses'[s].asks = "" /\ UNCHANGED <<inbox, staged>>
        /\ ses[s].box # <<>> /\ Head(ses[s].box).t = "Renamed" /\ Tail(ses[s].box) # <<>>
        /\ ses'[s].box \in {Tail(ses[s].box), Tail(Tail(ses[s].box))}
    BY <1>10, NamedEffect
  <2>2. Holds(ses[s].box, "Renamed")
    BY <2>1, TypedActors, LeftHolds
  <2>3. /\ ~HoldsFor(inbox, "RenameSession", s) /\ ~Naming(s) /\ RenamedAhead(ses[s].box)
        /\ OnceFor(inbox, "RenameSession", s)
    BY <1>0, <2>2 DEF NamedOnce
  <2>4. Moves(s, {}) /\ ~Holds(ses'[s].box, "Renamed")
    BY <2>1, <2>3, TailMoves, TwiceMoves
  <2>5. RenamedAhead(ses'[s].box)
    BY <2>3, <2>4 DEF Moves
  <2>6. ~Naming(s)'
    BY <2>1, <2>3 DEF Naming, Stages
  <2>7. NamedOnce(s)'
    BY <2>1, <2>3, <2>4, <2>5, <2>6 DEF NamedOnce
  <2> QED
    BY <1>1, <1>2, <2>1, <2>7
<1>11. CASE TitleSet(s) \/ Read(s)
  <2>1. /\ Serves(s, "TitleSet") \/ Serves(s, "Read")
        /\ Takes(s) /\ UNCHANGED <<inbox, staged>>
    BY <1>11, ReadEffect
  <2> QED
    BY <1>1, <1>2, <1>4, <2>1 DEF Takes
<1>12. ASSUME NEW status, Settled(s, status), ses[s].asks = "", Moves(s, {})
       PROVE  Renames'
  <2>1. Only(s) /\ Reports(s, status) /\ UNCHANGED staged /\ ses'[s].asks = ses[s].asks
    BY <1>12 DEF Settled
  <2>2. \A r \in Sessions : AsksKept(r)
    BY <1>3, <2>1
  <2>3. NamedOnce(s)'
    BY <1>0, <1>12, <2>1, <2>2, MovesRenamedKept, NamedOnceKept
  <2> QED
    BY <1>1, <2>1, <2>2, <2>3
<1>13. CASE Provisioned(s)
  <2>1. Settled(s, "Idle") /\ ses[s].asks = "" /\ ses'[s].box = ses[s].box
    BY <1>13, ProvisionedEffect DEF Provisioned
  <2> QED
    BY <1>12, <2>1, SameMoves
<1>14. CASE Started(s) \/ Outcome(s)
  <2>1. PICK status, t : Settled(s, status) /\ Serves(s, t) /\ ses'[s].box = Tail(ses[s].box)
    BY <1>14, TurnEffect
  <2>2. ses[s].asks = "" /\ Moves(s, {})
    BY <2>1, ServesHead, TailMoves
  <2> QED
    BY <1>12, <2>1, <2>2
<1>15. CASE PrepareOffload(s)
  <2>1. Serves(s, "PrepareOffload") /\ UNCHANGED <<inbox, staged>> /\ Only(s)
    BY <1>15, OffloadEffect DEF OffloadAnswered, Takes, Unloads
  <2>2. CASE Takes(s)
    BY <1>1, <1>2, <1>4, <2>1, <2>2
  <2>3. CASE Unloads(s)
    <3>1. Moves(s, {}) /\ ses'[s].asks = "" /\ ses[s].asks = ""
      BY <2>1, <2>3, ColdMoves, ServesHead DEF Unloads
    <3>2. NamedOnce(s)'
      BY <1>0, <1>2, <2>1, <3>1, MovesRenamedKept, NamedOnceKept
    <3> QED
      BY <1>1, <1>2, <2>1, <3>2
  <2> QED
    BY <1>15, <2>2, <2>3, OffloadEffect
<1>16. CASE BeDeleted(s)
  <2>1. /\ Serves(s, "Delete") /\ UNCHANGED inbox /\ Only(s) /\ ses'[s] = Cold
        /\ staged' = <<[t |-> "SessionDeleted", id |-> s]>>
    BY <1>16, DeletedEffect DEF DeleteAnswered, Unloads
  <2>2. \A r \in Sessions : AsksKept(r)
    BY <2>1 DEF AsksKept, Naming, Stages
  <2>3. Moves(s, {}) /\ ses'[s].asks = "" /\ ses[s].asks = ""
    BY <2>1, ColdMoves, ServesHead
  <2>4. NamedOnce(s)'
    BY <1>0, <2>2, <2>3, MovesRenamedKept, NamedOnceKept
  <2> QED
    BY <1>1, <2>1, <2>2, <2>4
<1> QED
  BY <1>6, <1>7, <1>8, <1>9, <1>10, <1>11, <1>13, <1>14, <1>15, <1>16 DEF SessionSteps

\* What a handler leaves to be written, of one session and one kind.
LEMMA LeavesStages ==
    ASSUME NEW e, Leaves(e)
    PROVE  /\ \A t, r : Stages(t, r)' <=> e.t = t /\ e.id = r
           /\ \A r : Naming(r)' <=> e.t = "SessionNamed" /\ e.id = r /\ e.ack
BY DEF Leaves, Stages, Naming

LEMMA NothingStaged ==
    ASSUME staged' = <<>>
    PROVE  \A r : ~Naming(r)' /\ \A t : ~Stages(t, r)'
BY DEF Stages, Naming

\* The supervisor's handlers.
LEMMA RenamesHandler ==
    ASSUME Typed, Renames, HandleCommand
    PROVE  Renames'
<1>1. /\ inbox # <<>> /\ inbox' = Tail(inbox) /\ staged = <<>>
      /\ \/ \E s \in Sessions : \/ Creating(s) \/ Forwarding(s) \/ Titling(s)
                                \/ Renaming(s) \/ Noting(s) \/ Deleting(s)
         \/ Sweeping \/ Passing
  BY HandlerEffect
<1>2. \A r \in Sessions :
        /\ HoldsFor(inbox', "RenameSession", r) => HoldsFor(inbox, "RenameSession", r)
        /\ OnceFor(inbox, "RenameSession", r) => OnceFor(inbox', "RenameSession", r)
  BY <1>1, InboxLeft
<1>3. ASSUME \A r \in Sessions : ~Naming(r)' PROVE \A r \in Sessions : AsksKept(r)
  BY <1>2, <1>3 DEF AsksKept
<1>4. ASSUME NEW s \in Sessions, NEW m \in BoxMail, Posts(s, m), m.t # "Renamed",
             \A r \in Sessions : ~Naming(r)'
      PROVE  Renames'
  <2>1. \A r \in Sessions : AsksKept(r)
    BY <1>3, <1>4
  <2>2. \A r \in Sessions : NamedOnce(r)'
    <3> TAKE r \in Sessions
    <3>1. CASE r = s
      BY <1>4, <2>1, <3>1, NamedOnceSent DEF Renames, Posts
    <3>2. CASE r # s
      BY <1>4, <2>1, <3>2, NamedOnceSame DEF Renames, Posts, Sends, Only
    <3> QED
      BY <3>1, <3>2
  <2> QED
    BY <2>2 DEF Renames
<1>5. ASSUME UNCHANGED ses, \A r \in Sessions : ~Naming(r)' PROVE Renames'
  BY <1>3, <1>5, NamedOnceSame DEF Renames
<1>6. ASSUME UNCHANGED staged PROVE \A r \in Sessions : ~Naming(r)'
  BY <1>1, <1>6, NothingStaged
<1>7. ASSUME NEW s \in Sessions, Creating(s) PROVE Renames'
  <2>1. PICK e : e.t = "SessionCreated" /\ Leaves(e)
    BY <1>7 DEF Creating
  <2>2. \A r \in Sessions : ~Naming(r)'
    BY <2>1, LeavesStages
  <2> QED
    BY <1>4, <1>7, <2>2 DEF Creating
<1>8. ASSUME NEW s \in Sessions, Forwarding(s) PROVE Renames'
  BY <1>4, <1>6, <1>8 DEF Forwarding
<1>9. ASSUME NEW s \in Sessions, Titling(s) PROVE Renames'
  <2>1. PICK e : e.ack = FALSE /\ Leaves(e)
    BY <1>9 DEF Titling
  <2>2. \A r \in Sessions : ~Naming(r)'
    BY <2>1, LeavesStages
  <2> QED
    BY <1>4, <1>5, <1>9, <2>2 DEF Titling
<1>10. ASSUME NEW s \in Sessions, Renaming(s) PROVE Renames'
  <2>1. /\ UNCHANGED ses /\ HoldsFor(inbox, "RenameSession", s)
    BY <1>1, <1>10, InboxLeft DEF Renaming
  <2>2. ~HoldsFor(inbox', "RenameSession", s)
    BY <1>1, <1>10, InboxLeft DEF Renaming, Renames, NamedOnce
  <2>3. PICK e : e.t = "SessionNamed" /\ e.id = s /\ Leaves(e)
    BY <1>10 DEF Renaming
  <2>4. \A r \in Sessions : r # s => ~Naming(r)'
    BY <2>3, LeavesStages
  <2>5. \A r \in Sessions : r # s => NamedOnce(r)'
    BY <1>2, <2>1, <2>4, NamedOnceSame DEF Renames, AsksKept
  <2>6. NamedOnce(s)'
    BY <1>2, <2>1, <2>2 DEF Renames, NamedOnce
  <2> QED
    BY <2>5, <2>6 DEF Renames
<1>11. ASSUME NEW s \in Sessions, Noting(s) PROVE Renames'
  <2>1. \A r \in Sessions : ~Naming(r)'
    <3>1. CASE Leaves(Note(s, Head(inbox).status))
      <4>1. Note(s, Head(inbox).status).t # "SessionNamed"
        BY DEF Note
      <4> QED
        BY <3>1, <4>1, LeavesStages
    <3> QED
      BY <1>11, <3>1, NothingStaged DEF Noting
  <2> QED
    BY <1>5, <1>11, <2>1 DEF Noting
<1>12. ASSUME NEW s \in Sessions, Deleting(s) PROVE Renames'
  BY <1>4, <1>6, <1>12 DEF Deleting
<1>13. CASE Sweeping \/ Passing
  BY <1>5, <1>6, <1>13 DEF Sweeping, Passing
<1> QED
  BY <1>1, <1>7, <1>8, <1>9, <1>10, <1>11, <1>12, <1>13

\* The other steps.
LEMMA RenamesRest ==
    ASSUME Typed, Renames,
           \/ Persist \/ AskNext \/ Crash
           \/ \E s \in Sessions : \/ AgentBegins(s) \/ AgentTitles(s) \/ AgentEnds(s)
                                  \/ GoesQuiet(s)
           \/ \E cmd \in Calls : Request(cmd)
    PROVE  Renames'
<1>1. CASE Persist
  <2>1. staged' = <<>> /\ UNCHANGED inbox
    BY <1>1, PersistEffect
  <2>2. \A r \in Sessions : AsksKept(r)
    BY <2>1, NothingStaged DEF AsksKept
  <2>3. CASE ses' = ses
    BY <2>2, <2>3, NamedOnceSame DEF Renames
  <2>4. ASSUME NEW s \in Sessions, NEW m \in BoxMail, Naming(s), m.t = "Renamed",
               "first" \notin DOMAIN m, Only(s), ses'[s].box = <<m>> \o ses[s].box,
               ses'[s].up = ses[s].up, ses'[s].asks = ses[s].asks
        PROVE  Renames'
    <3>1. /\ ~Holds(ses[s].box, "Renamed") /\ ses[s].asks # "" /\ ses[s].box # <<>>
          /\ ~HoldsFor(inbox, "RenameSession", s) /\ OnceFor(inbox, "RenameSession", s)
          /\ ses[s].up
      BY <2>4 DEF Renames, NamedOnce
    <3>2. /\ RenamedAhead(ses'[s].box) /\ ses'[s].box # <<>>
          /\ Len(ses'[s].box) = Len(ses[s].box) + 1 /\ Len(ses[s].box) \in Nat
      BY <2>4, <3>1, AheadMoves
    <3>3. Len(ses[s].box) >= 1
      BY <3>1, TypedActors, Left
    <3>4. Len(ses'[s].box) >= 2
      BY <3>2, <3>3
    <3>5. ~Naming(s)'
      BY <2>1, NothingStaged
    <3>6. NamedOnce(s)'
      BY <2>1, <2>4, <3>1, <3>2, <3>4, <3>5 DEF NamedOnce
    <3>7. \A r \in Sessions : r # s => NamedOnce(r)'
      BY <2>2, <2>4, NamedOnceSame DEF Renames, Only
    <3> QED
      BY <3>6, <3>7 DEF Renames
  <2> QED
    BY <1>1, <2>3, <2>4, PersistEffect
<1>2. UNCHANGED <<inbox, staged>> => \A r \in Sessions : AsksKept(r)
  BY DEF AsksKept, Naming, Stages
<1>3. ASSUME NEW s \in Sessions, NEW m, Sends(s, m), "first" \notin DOMAIN m,
             m.t # "Renamed", UNCHANGED <<inbox, staged>>
      PROVE  Renames'
  <2>1. \A r \in Sessions : NamedOnce(r)'
    <3> TAKE r \in Sessions
    <3>1. CASE r = s
      BY <1>2, <1>3, <3>1, NamedOnceSent DEF Renames
    <3>2. CASE r # s
      BY <1>2, <1>3, <3>2, NamedOnceSame DEF Renames, Sends, Only
    <3> QED
      BY <3>1, <3>2
  <2> QED
    BY <2>1 DEF Renames
<1>4. CASE AskNext
  <2>1. UNCHANGED <<inbox, staged>>
    BY <1>4, AskNextEffect
  <2>2. CASE ses' = ses
    BY <1>2, <2>1, <2>2, NamedOnceSame DEF Renames
  <2>3. CASE \E s \in Sessions, m \in BoxMail : m.t = "PrepareOffload" /\ Posts(s, m)
    BY <1>3, <2>1, <2>3 DEF Posts
  <2> QED
    BY <1>4, <2>2, <2>3, AskNextEffect
<1>5. CASE Crash
  <2>1. inbox' = <<>> /\ staged' = <<>> /\ \A r \in Sessions : ses'[r] = Cold
    BY <1>5, CrashEffect
  <2>2. \A r \in Sessions : NamedOnce(r)'
    <3> TAKE r \in Sessions
    <3>1. ses'[r].box = <<>> /\ ses'[r].asks = ""
      BY <2>1, ColdMoves
    <3>2. ~Naming(r)'
      BY <2>1, NothingStaged
    <3> QED
      BY <2>1, <3>1, <3>2, EmptyHolds DEF NamedOnce
  <2> QED
    BY <2>2 DEF Renames
<1>6. ASSUME NEW s \in Sessions, AgentBegins(s) \/ AgentTitles(s) \/ AgentEnds(s)
      PROVE  Renames'
  <2>1. UNCHANGED <<inbox, staged>>
    BY <1>6, AgentEffect
  <2>2. PICK m \in BoxMail : /\ Sends(s, m) /\ "first" \notin DOMAIN m
                             /\ m.t \in {"Started", "Outcome", "SetTitle"}
    BY <1>6, AgentEffect
  <2> QED
    BY <1>3, <2>1, <2>2
<1>7. ASSUME NEW s \in Sessions, GoesQuiet(s) PROVE Renames'
  BY <1>2, <1>7, NamedOnceSame DEF GoesQuiet, Renames
<1>8. ASSUME NEW cmd \in Calls, Request(cmd) PROVE Renames'
  <2>1. cmd \in Mail /\ inbox' = Append(inbox, cmd) /\ UNCHANGED <<ses, staged>>
    BY <1>8, RequestEffect
  <2>2. cmd.t # "RenameSession"
    BY DEF Calls
  <2>3. \A r \in Sessions : AsksKept(r)
    BY <2>1, <2>2, InboxJoined DEF AsksKept, Naming, Stages
  <2> QED
    BY <2>1, <2>3, NamedOnceSame DEF Renames
<1> QED
  BY <1>1, <1>4, <1>5, <1>6, <1>7, <1>8

-----------------------------------------------------------------------------
(* What the caller of a create holds *)

\* The journals and the answers stay, and no first message joins.
LEMMA HeldForKept ==
    ASSUME NEW r \in Sessions, HeldFor(r), call'[r] = call[r], rows'[r] = rows[r],
           gone \subseteq gone', own[r].told => own'[r].told,
           HoldsFirst(ses'[r].box) => HoldsFirst(ses[r].box),
           Stages("SessionDeleted", r)' => Stages("SessionDeleted", r) \/ r \in gone'
    PROVE  HeldFor(r)'
BY DEF HeldFor

\* A session's own steps.
LEMMA HeldSession ==
    ASSUME Typed, Renames, Held, NEW s \in Sessions, SessionSteps(s)
    PROVE  Held'
<1>0. HeldFor(s)
  BY DEF Held
<1>1. ASSUME Only(s), UNCHANGED <<staged, rows, gone>>,
             \A r \in Sessions : own[r].told => own'[r].told,
             \A r \in Sessions : r # s => call'[r] = call[r], HeldFor(s)'
      PROVE  Held'
  <2>1. \A r \in Sessions : r # s => HeldFor(r)'
    <3> SUFFICES ASSUME NEW r \in Sessions, r # s PROVE HeldFor(r)'
      OBVIOUS
    <3>1. ses'[r] = ses[r] /\ (Stages("SessionDeleted", r)' => Stages("SessionDeleted", r))
      BY <1>1 DEF Only, Stages
    <3> QED
      BY <1>1, <3>1, HeldForKept DEF Held
  <2> QED
    BY <1>1, <2>1 DEF Held
<1>2. ASSUME Only(s), UNCHANGED <<staged, rows, gone, call>>,
             \A r \in Sessions : own[r].told => own'[r].told, Moves(s, {})
      PROVE  Held'
  <2>1. Stages("SessionDeleted", s)' => Stages("SessionDeleted", s)
    BY <1>2 DEF Stages
  <2>2. HeldFor(s)'
    BY <1>0, <1>2, <2>1, HeldForKept DEF Moves
  <2> QED
    BY <1>1, <1>2, <2>2
<1>3. CASE Load(s)
  BY <1>2, <1>3, LoadEffect, SameMoves
<1>4. CASE BeCreated(s)
  <2>1. /\ Only(s) /\ UNCHANGED <<staged, rows, gone, call>> /\ own'[s].told
        /\ \A r \in Sessions : own[r].told => own'[r].told
    BY <1>4, BeCreatedEffect
  <2>2. HeldFor(s)'
    BY <1>0, <2>1 DEF HeldFor, Stages
  <2> QED
    BY <1>1, <2>1, <2>2
<1>5. CASE TakeMessage(s)
  <2>1. Only(s) /\ UNCHANGED <<staged, rows, gone, own>> /\ Serves(s, "Message")
    BY <1>5, TakeMessageEffect DEF Waits, Takes
  <2>2. Moves(s, {})
    BY <1>5, TakeMessageEffect, SameMoves, TailMoves DEF Waits, Takes
  <2>3. CASE UNCHANGED call
    BY <1>2, <2>1, <2>2, <2>3
  <2>4. CASE /\ "first" \in DOMAIN Head(ses[s].box)
             /\ call' = [call EXCEPT ![s] = Answered([@ EXCEPT !.queued = TRUE])]
    <3>1. call \in [Sessions -> [recorded : BOOLEAN, queued : BOOLEAN, answered : BOOLEAN]]
      BY DEF Typed, TypeOK
    <3>2. PICK c \in [recorded : BOOLEAN, queued : BOOLEAN, answered : BOOLEAN] :
            c = [call[s] EXCEPT !.queued = TRUE]
      BY <3>1, TRUE \in BOOLEAN
    <3>3. c.recorded = call[s].recorded
      BY <3>1, <3>2
    <3>4. PICK b \in BOOLEAN : b = (c.recorded /\ c.queued)
      OBVIOUS
    <3>5. Answered(c) = [c EXCEPT !.answered = b]
      BY <3>4 DEF Answered
    <3>6. Answered(c).recorded = c.recorded /\ Answered(c).queued = c.queued
          /\ Answered(c).answered = b
      BY <3>5
    <3>7. /\ \A r \in Sessions : r # s => call'[r] = call[r]
          /\ call'[s] = Answered(c)
      BY <2>4, <3>1, <3>2
    <3>8. call'[s].answered => call'[s].recorded /\ call'[s].queued
      BY <3>4, <3>6, <3>7
    <3>9. call'[s].recorded = call[s].recorded
      BY <3>3, <3>6, <3>7
    <3>10. own[s].told
      <4>1. ses[s].box # <<>> /\ ses[s].box \in Seq(BoxMail)
        BY <2>1, ServesHead
      <4>2. HoldsFirst(ses[s].box)
        BY <2>4, <4>1, LeftHolds
      <4> QED
        BY <1>0, <4>2 DEF HeldFor
    <3>11. HeldFor(s)'
      BY <1>0, <2>1, <3>8, <3>9, <3>10 DEF HeldFor, Stages
    <3> QED
      BY <1>1, <2>1, <3>7, <3>11
  <2> QED
    BY <1>5, <2>3, <2>4, TakeMessageEffect
<1>6. CASE SetTitle(s)
  BY <1>2, <1>6, SetTitleEffect, SameMoves DEF Waits
<1>7. CASE Named(s)
  <2>1. Moves(s, {})
    BY <1>7, NamedEffect, TailMoves, TwiceMoves
  <2> QED
    BY <1>2, <1>7, <2>1, NamedEffect
<1>8. CASE TitleSet(s) \/ Read(s)
  <2>1. Moves(s, {})
    BY <1>8, ReadEffect, TailMoves DEF Takes
  <2> QED
    BY <1>2, <1>8, <2>1, ReadEffect DEF Takes
<1>9. CASE Provisioned(s)
  BY <1>2, <1>9, ProvisionedEffect, SameMoves DEF Settled
<1>10. CASE Started(s) \/ Outcome(s)
  <2>1. PICK status, t : Settled(s, status) /\ Serves(s, t) /\ ses'[s].box = Tail(ses[s].box)
    BY <1>10, TurnEffect
  <2>2. Moves(s, {})
    BY <2>1, ServesHead, TailMoves
  <2> QED
    BY <1>2, <2>1, <2>2 DEF Settled
<1>11. CASE PrepareOffload(s)
  <2>1. Only(s) /\ UNCHANGED <<staged, rows, gone, call, own>>
    BY <1>11, OffloadEffect DEF OffloadAnswered, Takes, Unloads
  <2>2. Moves(s, {})
    BY <1>11, OffloadEffect, TailMoves, ColdMoves DEF Takes, Unloads
  <2> QED
    BY <1>2, <2>1, <2>2
<1>12. CASE BeDeleted(s)
  <2>1. /\ Only(s) /\ UNCHANGED <<rows, call, own>> /\ ses'[s] = Cold
        /\ staged' = <<[t |-> "SessionDeleted", id |-> s]>> /\ gone' = gone \union {s}
    BY <1>12, DeletedEffect DEF DeleteAnswered, Unloads
  <2>2. \A r \in Sessions : Stages("SessionDeleted", r)' => r \in gone'
    BY <2>1 DEF Stages
  <2>3. \A r \in Sessions : HeldFor(r)'
    <3> TAKE r \in Sessions
    <3>1. HoldsFirst(ses'[r].box) => HoldsFirst(ses[r].box)
      BY <2>1, ColdMoves DEF Only
    <3> QED
      BY <2>1, <2>2, <3>1, HeldForKept DEF Held
  <2> QED
    BY <2>3 DEF Held
<1> QED
  BY <1>3, <1>4, <1>5, <1>6, <1>7, <1>8, <1>9, <1>10, <1>11, <1>12 DEF SessionSteps

\* The supervisor's handlers.
LEMMA HeldHandler ==
    ASSUME Typed, Held, HandleCommand
    PROVE  Held'
<1>1. /\ staged = <<>> /\ UNCHANGED <<rows, own, call, gone>>
      /\ \/ \E s \in Sessions : \/ Creating(s) \/ Forwarding(s) \/ Titling(s)
                                \/ Renaming(s) \/ Noting(s) \/ Deleting(s)
         \/ Sweeping \/ Passing
  BY HandlerEffect
<1>2. ASSUME NEW s \in Sessions, NEW m \in BoxMail, Posts(s, m)
      PROVE  \A r \in Sessions : HoldsFirst(ses'[r].box) => HoldsFirst(ses[r].box)
  <2> TAKE r \in Sessions
  <2>1. CASE r = s
    BY <1>2, <2>1, SendMoves DEF Posts, Moves
  <2>2. CASE r # s
    BY <1>2, <2>2, OnlyMoves DEF Posts, Sends, Moves
  <2> QED
    BY <2>1, <2>2
<1>3. \A r \in Sessions : HoldsFirst(ses'[r].box) => HoldsFirst(ses[r].box)
  BY <1>1, <1>2 DEF Creating, Forwarding, Titling, Renaming, Noting, Deleting, Sweeping, Passing
<1>4. \A r \in Sessions : ~Stages("SessionDeleted", r)'
  <2>1. CASE UNCHANGED staged \/ staged' = <<>>
    BY <1>1, <2>1, NothingStaged
  <2>2. ASSUME NEW e, Leaves(e), e.t # "SessionDeleted"
        PROVE  \A r \in Sessions : ~Stages("SessionDeleted", r)'
    BY <2>2, LeavesStages
  <2>3. ASSUME NEW s \in Sessions, Creating(s) PROVE \E e : Leaves(e) /\ e.t = "SessionCreated"
    BY <2>3 DEF Creating
  <2>4. ASSUME NEW s \in Sessions, Titling(s) PROVE \E e : Leaves(e) /\ e.t = "SessionNamed"
    BY <2>4 DEF Titling
  <2>5. ASSUME NEW s \in Sessions, Renaming(s) PROVE \E e : Leaves(e) /\ e.t = "SessionNamed"
    BY <2>5 DEF Renaming
  <2>6. ASSUME NEW s \in Sessions, Noting(s)
        PROVE  staged' = <<>> \/ \E e : Leaves(e) /\ e.t = "SessionStatusChanged"
    BY <2>6 DEF Noting, Note
  <2> QED
    BY <1>1, <2>1, <2>2, <2>3, <2>4, <2>5, <2>6 DEF Forwarding, Deleting, Sweeping, Passing
<1>5. \A r \in Sessions : HeldFor(r)'
  BY <1>1, <1>3, <1>4, HeldForKept DEF Held
<1> QED
  BY <1>5 DEF Held

\* The other steps: a record is written, and only a delete takes one away.
LEMMA HeldRest ==
    ASSUME Typed, Held,
           \/ Persist \/ AskNext \/ Crash
           \/ \E s \in Sessions : \/ AgentBegins(s) \/ AgentTitles(s) \/ AgentEnds(s)
                                  \/ GoesQuiet(s)
           \/ \E cmd \in Calls : Request(cmd)
    PROVE  Held'
<1>1. CASE Persist
  <2>1. staged' = <<>> /\ UNCHANGED <<own, gone>>
    BY <1>1, PersistEffect
  <2>2. \A r \in Sessions : HoldsFirst(ses'[r].box) => HoldsFirst(ses[r].box)
    <3>1. ASSUME NEW s \in Sessions, NEW m \in BoxMail, m.t = "Renamed",
                 "first" \notin DOMAIN m, Only(s), ses'[s].box = <<m>> \o ses[s].box
          PROVE  \A r \in Sessions : HoldsFirst(ses'[r].box) => HoldsFirst(ses[r].box)
      <4> TAKE r \in Sessions
      <4>1. CASE r = s
        BY <3>1, <4>1, AheadMoves DEF Moves
      <4>2. CASE r # s
        BY <3>1, <4>2, OnlyMoves DEF Moves
      <4> QED
        BY <4>1, <4>2
    <3> QED
      BY <1>1, <3>1, PersistEffect
  <2>3. \A r \in Sessions : HeldFor(r)'
    <3> TAKE r \in Sessions
    <3>1. /\ Stages("SessionCreated", r) => rows'[r].listed
          /\ rows[r].listed => rows'[r].listed \/ Stages("SessionDeleted", r)
      BY <1>1, PersistEffect
    <3>2. /\ call'[r].queued = call[r].queued
          /\ call'[r].recorded => call[r].recorded \/ Stages("SessionCreated", r)
          /\ call'[r].answered => \/ call[r].answered /\ call'[r].recorded = call[r].recorded
                                  \/ call'[r].recorded /\ call'[r].queued
      BY <1>1, PersistEffect
    <3>3. HeldFor(r)
      BY DEF Held
    <3>4. call'[r].recorded /\ r \notin gone' => rows'[r].listed
      BY <2>1, <3>1, <3>2, <3>3 DEF HeldFor
    <3>5. call'[r].answered => call'[r].recorded /\ call'[r].queued
      BY <3>2, <3>3 DEF HeldFor
    <3>6. HoldsFirst(ses'[r].box) \/ call'[r].queued => own'[r].told
      BY <2>1, <2>2, <3>2, <3>3 DEF HeldFor
    <3> QED
      BY <2>1, <3>4, <3>5, <3>6, NothingStaged DEF HeldFor
  <2> QED
    BY <2>3 DEF Held
<1>2. ASSUME UNCHANGED <<rows, staged, own, call, gone>>,
             \A r \in Sessions : HoldsFirst(ses'[r].box) => HoldsFirst(ses[r].box)
      PROVE  Held'
  <2>1. \A r \in Sessions : HeldFor(r)'
    BY <1>2, HeldForKept DEF Held, Stages
  <2> QED
    BY <2>1 DEF Held
<1>3. ASSUME NEW s \in Sessions, NEW m, Sends(s, m), "first" \notin DOMAIN m
      PROVE  \A r \in Sessions : HoldsFirst(ses'[r].box) => HoldsFirst(ses[r].box)
  <2> TAKE r \in Sessions
  <2>1. CASE r = s
    BY <1>3, <2>1, SendMoves DEF Moves
  <2>2. CASE r # s
    BY <1>3, <2>2, OnlyMoves DEF Sends, Moves
  <2> QED
    BY <2>1, <2>2
<1>4. CASE AskNext
  <2>1. \A r \in Sessions : HoldsFirst(ses'[r].box) => HoldsFirst(ses[r].box)
    BY <1>3, <1>4, AskNextEffect DEF Posts
  <2> QED
    BY <1>2, <1>4, <2>1, AskNextEffect
<1>5. CASE Crash
  <2>1. staged' = <<>> /\ UNCHANGED <<rows, own, call, gone>>
    BY <1>5, CrashEffect
  <2>2. \A r \in Sessions : ~HoldsFirst(ses'[r].box)
    BY <1>5, CrashEffect, ColdMoves
  <2>3. \A r \in Sessions : HeldFor(r)'
    BY <2>1, <2>2, NothingStaged, HeldForKept DEF Held
  <2> QED
    BY <2>3 DEF Held
<1>6. ASSUME NEW s \in Sessions, AgentBegins(s) \/ AgentTitles(s) \/ AgentEnds(s)
      PROVE  Held'
  <2>1. \A r \in Sessions : HoldsFirst(ses'[r].box) => HoldsFirst(ses[r].box)
    BY <1>3, <1>6, AgentEffect
  <2> QED
    BY <1>2, <1>6, <2>1, AgentEffect
<1>7. ASSUME NEW s \in Sessions, GoesQuiet(s) PROVE Held'
  BY <1>2, <1>7 DEF GoesQuiet
<1>8. ASSUME NEW cmd \in Calls, Request(cmd) PROVE Held'
  BY <1>2, <1>8, RequestEffect
<1> QED
  BY <1>1, <1>4, <1>5, <1>6, <1>7, <1>8

-----------------------------------------------------------------------------
(* One create *)

CreateKinds == {"Create", "Started", "Outcome"}

LEMMA CreatedOnceKept ==
    ASSUME NEW r \in Sessions, CreatedOnce(r), own'[r].told = own[r].told,
           spent.used \subseteq spent'.used,
           \A t \in CreateKinds : Holds(ses'[r].box, t) => Holds(ses[r].box, t),
           ses'[r].turn => ses[r].turn,
           HoldsFor(inbox', "Create", r) => HoldsFor(inbox, "Create", r),
           OnceFor(inbox, "Create", r) => OnceFor(inbox', "Create", r)
    PROVE  CreatedOnce(r)'
BY DEF CreatedOnce, CreateKinds

\* A session's own steps.
LEMMA CreatesSession ==
    ASSUME Typed, Renames, Creates, NEW s \in Sessions, SessionSteps(s)
    PROVE  Creates'
<1>0. CreatedOnce(s)
  BY DEF Creates
<1>1. ASSUME Only(s), UNCHANGED spent,
             \A r \in Sessions : own'[r].told = own[r].told,
             Moves(s, {}), ses'[s].turn => ses[s].turn,
             \A r \in Sessions :
               /\ HoldsFor(inbox', "Create", r) => HoldsFor(inbox, "Create", r)
               /\ OnceFor(inbox, "Create", r) => OnceFor(inbox', "Create", r)
      PROVE  Creates'
  <2>1. \A r \in Sessions : CreatedOnce(r)'
    <3> TAKE r \in Sessions
    <3>1. CASE r # s
      BY <1>1, <3>1, CreatedOnceKept DEF Only, Creates
    <3>2. CASE r = s
      BY <1>0, <1>1, <3>2, CreatedOnceKept DEF Moves
    <3> QED
      BY <3>1, <3>2
  <2> QED
    BY <2>1 DEF Creates
<1>2. ASSUME NEW status, Reports(s, status)
      PROVE  \A r \in Sessions :
               /\ HoldsFor(inbox', "Create", r) => HoldsFor(inbox, "Create", r)
               /\ OnceFor(inbox, "Create", r) => OnceFor(inbox', "Create", r)
  BY <1>2, ReportsJoined
<1>3. ASSUME NEW name, Waits(s, name)
      PROVE  \A r \in Sessions :
               /\ HoldsFor(inbox', "Create", r) => HoldsFor(inbox, "Create", r)
               /\ OnceFor(inbox, "Create", r) => OnceFor(inbox', "Create", r)
  BY <1>3, WaitsJoined
<1>4. CASE Load(s)
  <2>1. /\ Only(s) /\ UNCHANGED <<spent, own>> /\ ses'[s].turn = ses[s].turn
        /\ ses'[s].box = ses[s].box /\ (UNCHANGED inbox \/ Reports(s, own[s].status))
    BY <1>4, LoadEffect
  <2>2. Moves(s, {})
    BY <2>1, SameMoves
  <2> QED
    BY <1>1, <1>2, <2>1, <2>2
<1>5. CASE BeCreated(s)
  <2>1. /\ Only(s) /\ UNCHANGED spent /\ own'[s].told /\ Reports(s, own[s].status)
        /\ \A r \in Sessions : r # s => own'[r] = own[r]
        /\ Serves(s, "Create")
    BY <1>5, BeCreatedEffect
  <2>2. Holds(ses[s].box, "Create")
    BY <2>1, ServesHead
  <2>3. \A r \in Sessions : r # s => CreatedOnce(r)'
    <3> SUFFICES ASSUME NEW r \in Sessions, r # s PROVE CreatedOnce(r)'
      OBVIOUS
    <3>1. /\ HoldsFor(inbox', "Create", r) => HoldsFor(inbox, "Create", r)
          /\ OnceFor(inbox, "Create", r) => OnceFor(inbox', "Create", r)
      BY <1>2, <2>1
    <3> QED
      BY <2>1, <3>1, CreatedOnceKept DEF Only, Creates
  <2>4. s \in spent.used /\ ~HoldsFor(inbox, "Create", s) /\ OnceFor(inbox, "Create", s)
    BY <1>0, <2>2 DEF CreatedOnce
  <2>5. ~HoldsFor(inbox', "Create", s) /\ OnceFor(inbox', "Create", s)
    BY <1>2, <2>1, <2>4
  <2>6. CreatedOnce(s)'
    BY <2>1, <2>4, <2>5 DEF CreatedOnce
  <2> QED
    BY <2>3, <2>6 DEF Creates
<1>6. CASE TakeMessage(s)
  <2>1. /\ Only(s) /\ UNCHANGED <<spent, own>> /\ ses'[s].turn = ses[s].turn
        /\ UNCHANGED inbox \/ Waits(s, "derived")
    BY <1>6, TakeMessageEffect DEF Waits, Takes
  <2>2. Moves(s, {})
    BY <1>6, TakeMessageEffect, SameMoves, TailMoves DEF Waits, Takes
  <2> QED
    BY <1>1, <1>3, <2>1, <2>2
<1>7. CASE SetTitle(s)
  <2>1. /\ Only(s) /\ UNCHANGED <<spent, own>> /\ ses'[s].turn = ses[s].turn
        /\ Waits(s, "tool") /\ Moves(s, {})
    BY <1>7, SetTitleEffect, SameMoves DEF Waits
  <2> QED
    BY <1>1, <1>3, <2>1
<1>8. CASE Named(s)
  <2>1. Moves(s, {})
    BY <1>8, NamedEffect, TailMoves, TwiceMoves
  <2> QED
    BY <1>1, <1>8, <2>1, NamedEffect
<1>9. CASE TitleSet(s) \/ Read(s)
  <2>1. Moves(s, {})
    BY <1>9, ReadEffect, TailMoves DEF Takes
  <2> QED
    BY <1>1, <1>9, <2>1, ReadEffect DEF Takes
<1>10. ASSUME NEW status, Settled(s, status), Moves(s, {}) PROVE Creates'
  <2>1. /\ Only(s) /\ UNCHANGED spent /\ ses'[s].turn = ses[s].turn /\ Reports(s, status)
        /\ \A r \in Sessions : own'[r].told = own[r].told
    BY <1>10 DEF Settled
  <2> QED
    BY <1>1, <1>2, <1>10, <2>1
<1>11. CASE Provisioned(s)
  BY <1>10, <1>11, ProvisionedEffect, SameMoves
<1>12. CASE Started(s) \/ Outcome(s)
  <2>1. PICK status, t : Settled(s, status) /\ Serves(s, t) /\ ses'[s].box = Tail(ses[s].box)
    BY <1>12, TurnEffect
  <2>2. Moves(s, {})
    BY <2>1, ServesHead, TailMoves
  <2> QED
    BY <1>10, <2>1, <2>2
<1>13. CASE PrepareOffload(s)
  <2>1. Only(s) /\ UNCHANGED <<inbox, spent, own>>
    BY <1>13, OffloadEffect DEF Takes, Unloads
  <2>2. Moves(s, {}) /\ (ses'[s].turn => ses[s].turn)
    BY <1>13, OffloadEffect, TailMoves, ColdMoves DEF Takes, Unloads
  <2> QED
    BY <1>1, <2>1, <2>2
<1>14. CASE BeDeleted(s)
  <2>1. Only(s) /\ UNCHANGED <<inbox, spent, own>> /\ ses'[s] = Cold
    BY <1>14, DeletedEffect DEF Unloads
  <2>2. Moves(s, {}) /\ ~ses'[s].turn
    BY <2>1, ColdMoves
  <2> QED
    BY <1>1, <2>1, <2>2
<1> QED
  BY <1>4, <1>5, <1>6, <1>7, <1>8, <1>9, <1>11, <1>12, <1>13, <1>14 DEF SessionSteps

\* The supervisor's handlers: the create moves from its mailbox to the session's.
LEMMA CreatesHandler ==
    ASSUME Typed, Creates, HandleCommand
    PROVE  Creates'
<1>1. /\ inbox # <<>> /\ inbox' = Tail(inbox) /\ UNCHANGED <<own, spent>>
      /\ \/ \E s \in Sessions : \/ Creating(s) \/ Forwarding(s) \/ Titling(s)
                                \/ Renaming(s) \/ Noting(s) \/ Deleting(s)
         \/ Sweeping \/ Passing
  BY HandlerEffect
<1>2. \A r \in Sessions :
        /\ HoldsFor(inbox', "Create", r) => HoldsFor(inbox, "Create", r)
        /\ OnceFor(inbox, "Create", r) => OnceFor(inbox', "Create", r)
  BY <1>1, InboxLeft
<1>3. ASSUME NEW s \in Sessions, NEW m \in BoxMail, Posts(s, m),
             NEW r \in Sessions, r # s \/ m.t \notin CreateKinds
      PROVE  CreatedOnce(r)'
  <2>1. CASE r # s
    <3>1. ses'[r] = ses[r]
      BY <1>3, <2>1 DEF Posts, Sends, Only
    <3> QED
      BY <1>1, <1>2, <3>1, CreatedOnceKept DEF Creates
  <2>2. CASE r = s /\ m.t \notin CreateKinds
    <3>1. Moves(s, {m.t}) /\ ses'[s].turn = ses[s].turn
      BY <1>3, SendMoves DEF Posts
    <3>2. \A t \in CreateKinds : Holds(ses'[s].box, t) => Holds(ses[s].box, t)
      BY <2>2, <3>1 DEF Moves
    <3> QED
      BY <1>1, <1>2, <2>2, <3>1, <3>2, CreatedOnceKept DEF Creates
  <2> QED
    BY <1>3, <2>1, <2>2
<1>4. ASSUME UNCHANGED ses PROVE Creates'
  BY <1>1, <1>2, <1>4, CreatedOnceKept DEF Creates
<1>5. ASSUME NEW s \in Sessions, NEW m \in BoxMail, Posts(s, m), m.t \notin CreateKinds
      PROVE  Creates'
  BY <1>3, <1>5 DEF Creates
<1>6. ASSUME NEW s \in Sessions, Creating(s) PROVE Creates'
  <2>1. PICK m \in BoxMail : m.t = "Create" /\ Posts(s, m)
    BY <1>6 DEF Creating
  <2>2. /\ HoldsFor(inbox, "Create", s)
        /\ OnceFor(inbox, "Create", s) => ~HoldsFor(inbox', "Create", s)
    BY <1>1, <1>6, InboxLeft DEF Creating
  <2>3. CreatedOnce(s)
    BY DEF Creates
  <2>4. s \in spent.used /\ ~HoldsFor(inbox', "Create", s) /\ OnceFor(inbox', "Create", s)
    BY <1>2, <2>2, <2>3 DEF CreatedOnce
  <2>5. Moves(s, {"Create"}) /\ ses'[s].turn = ses[s].turn
    BY <2>1, SendMoves DEF Posts
  <2>6. CreatedOnce(s)'
    BY <1>1, <2>3, <2>4, <2>5 DEF CreatedOnce, Moves
  <2>7. \A r \in Sessions : r # s => CreatedOnce(r)'
    BY <1>3, <2>1
  <2> QED
    BY <2>6, <2>7 DEF Creates
<1>7. ASSUME NEW s \in Sessions, Forwarding(s) \/ Titling(s) \/ Deleting(s) PROVE Creates'
  <2>1. UNCHANGED ses \/ \E m \in BoxMail : Posts(s, m) /\ m.t \notin CreateKinds
    BY <1>7 DEF Forwarding, Titling, Deleting, CreateKinds
  <2> QED
    BY <1>4, <1>5, <2>1
<1>8. ASSUME NEW s \in Sessions, Renaming(s) \/ Noting(s) PROVE Creates'
  BY <1>4, <1>8 DEF Renaming, Noting
<1>9. CASE Sweeping \/ Passing
  BY <1>4, <1>9 DEF Sweeping, Passing
<1> QED
  BY <1>1, <1>6, <1>7, <1>8, <1>9

\* The other steps: an id is used for one create.
LEMMA CreatesRest ==
    ASSUME Typed, Creates,
           \/ Persist \/ AskNext \/ Crash
           \/ \E s \in Sessions : \/ AgentBegins(s) \/ AgentTitles(s) \/ AgentEnds(s)
                                  \/ GoesQuiet(s)
           \/ \E cmd \in Calls : Request(cmd)
    PROVE  Creates'
<1>1. ASSUME UNCHANGED <<inbox, own>>, spent'.used = spent.used,
             \A r \in Sessions :
               /\ \A t \in CreateKinds : Holds(ses'[r].box, t) => Holds(ses[r].box, t)
               /\ ses'[r].turn => ses[r].turn
      PROVE  Creates'
  BY <1>1, CreatedOnceKept DEF Creates
<1>2. CASE Persist
  <2>1. \A r \in Sessions :
          /\ \A t \in CreateKinds : Holds(ses'[r].box, t) => Holds(ses[r].box, t)
          /\ ses'[r].turn => ses[r].turn
    <3>1. ASSUME NEW s \in Sessions, NEW m \in BoxMail, m.t = "Renamed",
                 "first" \notin DOMAIN m, Only(s), ses'[s].box = <<m>> \o ses[s].box,
                 ses'[s].turn = ses[s].turn, NEW r \in Sessions
          PROVE  /\ \A t \in CreateKinds : Holds(ses'[r].box, t) => Holds(ses[r].box, t)
                 /\ ses'[r].turn => ses[r].turn
      <4>1. CASE r = s
        BY <3>1, <4>1, AheadMoves DEF Moves, CreateKinds
      <4>2. CASE r # s
        BY <3>1, <4>2, OnlyMoves DEF Moves
      <4> QED
        BY <4>1, <4>2
    <3> QED
      BY <1>2, <3>1, PersistEffect
  <2> QED
    BY <1>1, <1>2, <2>1, PersistEffect
<1>3. CASE AskNext
  <2>1. \A r \in Sessions :
          /\ \A t \in CreateKinds : Holds(ses'[r].box, t) => Holds(ses[r].box, t)
          /\ ses'[r].turn => ses[r].turn
    <3>1. ASSUME NEW s \in Sessions, NEW m \in BoxMail, m.t = "PrepareOffload", Posts(s, m),
                 NEW r \in Sessions
          PROVE  /\ \A t \in CreateKinds : Holds(ses'[r].box, t) => Holds(ses[r].box, t)
                 /\ ses'[r].turn => ses[r].turn
      <4>1. CASE r = s
        BY <3>1, <4>1, SendMoves DEF Moves, CreateKinds, Posts
      <4>2. CASE r # s
        BY <3>1, <4>2, OnlyMoves DEF Moves, Posts, Sends
      <4> QED
        BY <4>1, <4>2
    <3> QED
      BY <1>3, <3>1, AskNextEffect
  <2> QED
    BY <1>1, <1>3, <2>1, AskNextEffect
<1>4. CASE Crash
  <2>1. inbox' = <<>> /\ UNCHANGED own /\ spent'.used = spent.used
    BY <1>4, CrashEffect
  <2>2. \A r \in Sessions : (\A t : ~Holds(ses'[r].box, t)) /\ ~ses'[r].turn
    BY <1>4, CrashEffect, ColdMoves
  <2>3. \A r \in Sessions : CreatedOnce(r)'
    BY <2>1, <2>2, EmptyHolds, CreatedOnceKept DEF Creates
  <2> QED
    BY <2>3 DEF Creates
<1>5. ASSUME NEW s \in Sessions, AgentBegins(s) \/ AgentTitles(s) \/ AgentEnds(s)
      PROVE  Creates'
  <2>1. PICK m \in BoxMail :
          /\ Sends(s, m) /\ "first" \notin DOMAIN m
          /\ \/ m.t \in {"Started", "Outcome"} /\ (own[s].told \/ ses[s].turn)
             \/ m.t = "SetTitle" /\ ses'[s].turn = ses[s].turn
    BY <1>5, AgentEffect
  <2>2. UNCHANGED <<inbox, own>> /\ spent'.used = spent.used
    BY <1>5, AgentEffect
  <2>3. \A r \in Sessions : r # s => CreatedOnce(r)'
    <3> SUFFICES ASSUME NEW r \in Sessions, r # s PROVE CreatedOnce(r)'
      OBVIOUS
    <3>1. ses'[r] = ses[r]
      BY <2>1 DEF Sends, Only
    <3> QED
      BY <2>2, <3>1, CreatedOnceKept DEF Creates
  <2>4. Moves(s, {m.t})
    BY <2>1, SendMoves
  <2>5. CreatedOnce(s)
    BY DEF Creates
  <2>6. CASE m.t \in {"Started", "Outcome"}
    <3>1. own[s].told
      BY <2>1, <2>5, <2>6 DEF CreatedOnce
    <3>2. Holds(ses'[s].box, "Create") => Holds(ses[s].box, "Create")
      BY <2>4, <2>6 DEF Moves
    <3>3. CreatedOnce(s)'
      BY <2>2, <2>5, <3>1, <3>2 DEF CreatedOnce
    <3> QED
      BY <2>3, <3>3 DEF Creates
  <2>7. CASE m.t = "SetTitle"
    <3>1. \A t \in CreateKinds : Holds(ses'[s].box, t) => Holds(ses[s].box, t)
      BY <2>4, <2>7 DEF Moves, CreateKinds
    <3>2. CreatedOnce(s)'
      BY <2>1, <2>2, <2>5, <2>7, <3>1, CreatedOnceKept
    <3> QED
      BY <2>3, <3>2 DEF Creates
  <2> QED
    BY <2>1, <2>6, <2>7
<1>6. ASSUME NEW s \in Sessions, GoesQuiet(s) PROVE Creates'
  BY <1>1, <1>6 DEF GoesQuiet
<1>7. ASSUME NEW cmd \in Calls, Request(cmd) PROVE Creates'
  <2>1. /\ cmd \in Mail /\ inbox' = Append(inbox, cmd) /\ UNCHANGED <<ses, own>>
        /\ spent.used \subseteq spent'.used
        /\ cmd.t = "Create" => cmd.id \notin spent.used /\ cmd.id \in spent'.used
    BY <1>7, RequestEffect
  <2>2. \A r \in Sessions : CreatedOnce(r)'
    <3> TAKE r \in Sessions
    <3>1. CreatedOnce(r)
      BY DEF Creates
    <3>2. /\ HoldsFor(inbox', "Create", r) <=>
               HoldsFor(inbox, "Create", r) \/ (cmd.t = "Create" /\ cmd.id = r)
          /\ OnceFor(inbox, "Create", r)
             /\ ~(HoldsFor(inbox, "Create", r) /\ cmd.t = "Create" /\ cmd.id = r)
               => OnceFor(inbox', "Create", r)
      BY <2>1, InboxJoined
    <3>3. CASE cmd.t = "Create" /\ cmd.id = r
      BY <2>1, <3>1, <3>2, <3>3 DEF CreatedOnce
    <3>4. CASE ~(cmd.t = "Create" /\ cmd.id = r)
      BY <2>1, <3>1, <3>2, <3>4, CreatedOnceKept
    <3> QED
      BY <3>3, <3>4
  <2> QED
    BY <2>2 DEF Creates
<1> QED
  BY <1>2, <1>3, <1>4, <1>5, <1>6, <1>7

-----------------------------------------------------------------------------
(* One thing at a time *)

LEMMA OneAtATimeStep ==
    ASSUME Typed, Waiting, Renames, OneAtATime, Next
    PROVE  OneAtATime'
<1>1. ASSUME UNCHANGED <<wait, staged>> PROVE OneAtATime'
  BY <1>1 DEF OneAtATime
<1>2. CASE HandleCommand
  <2>1. wait.for = "none" /\ staged = <<>>
    BY <1>2, HandlerEffect DEF NoWait
  <2>2. (wait' = wait) \/ UNCHANGED staged
    BY <1>2, HandlerEffect DEF Creating, Forwarding, Titling, Renaming, Noting, Deleting,
       Sweeping, Passing
  <2> QED
    BY <2>1, <2>2 DEF OneAtATime
<1>3. CASE Persist
  BY <1>3, PersistEffect DEF OneAtATime
<1>4. CASE AskNext
  BY <1>4, AskNextEffect DEF OneAtATime, NoWait
<1>5. CASE Crash
  BY <1>5, CrashEffect DEF OneAtATime
<1>6. ASSUME NEW s \in Sessions, AgentBegins(s) \/ AgentTitles(s) \/ AgentEnds(s) PROVE OneAtATime'
  BY <1>1, <1>6, AgentEffect
<1>7. ASSUME NEW s \in Sessions, GoesQuiet(s) PROVE OneAtATime'
  BY <1>1, <1>7 DEF GoesQuiet
<1>8. ASSUME NEW cmd \in Calls, Request(cmd) PROVE OneAtATime'
  BY <1>1, <1>8, RequestEffect
<1>9. ASSUME NEW s \in Sessions, SessionSteps(s) PROVE OneAtATime'
  <2>1. CASE Load(s)
    BY <1>1, <2>1, LoadEffect
  <2>2. CASE BeCreated(s)
    BY <1>1, <2>2, BeCreatedEffect
  <2>3. CASE TakeMessage(s)
    BY <1>1, <2>3, TakeMessageEffect
  <2>4. CASE SetTitle(s)
    BY <1>1, <2>4, SetTitleEffect
  <2>5. CASE Named(s)
    BY <1>1, <2>5, NamedEffect
  <2>6. CASE TitleSet(s) \/ Read(s)
    BY <1>1, <2>6, ReadEffect
  <2>7. CASE Provisioned(s)
    BY <1>1, <2>7, ProvisionedEffect DEF Settled
  <2>8. CASE Started(s) \/ Outcome(s)
    BY <1>1, <2>8, TurnEffect DEF Settled
  <2>9. CASE PrepareOffload(s)
    <3>1. wait' = [wait EXCEPT !.on = Nobody] /\ UNCHANGED staged
      BY <2>9, OffloadEffect DEF OffloadAnswered
    <3>2. wait'.for = wait.for
      BY <3>1 DEF Typed, TypeOK
    <3> QED
      BY <3>1, <3>2 DEF OneAtATime
  <2>10. CASE BeDeleted(s)
    BY <2>10, DeletedEffect DEF DeleteAnswered, OneAtATime, NoWait
  <2> QED
    BY <1>9, <2>1, <2>2, <2>3, <2>4, <2>5, <2>6, <2>7, <2>8, <2>9, <2>10 DEF SessionSteps
<1> QED
  BY <1>2, <1>3, <1>4, <1>5, <1>6, <1>7, <1>8, <1>9 DEF Next

-----------------------------------------------------------------------------
(* What the list is told *)

\* Nothing about the reports of this session changes but that others join or leave.
LEMMA FollowsKept ==
    ASSUME NEW r \in Sessions, Follows(r), own'[r].status = own[r].status,
           UNCHANGED <<rows, staged>>,
           LastReport(inbox, r, own[r].status) => LastReport(inbox', r, own[r].status),
           HoldsFor(inbox', "SessionStatusChanged", r) =>
             HoldsFor(inbox, "SessionStatusChanged", r)
    PROVE  Follows(r)'
BY DEF Follows, Stages

LEMMA ReportedForKept ==
    ASSUME NEW r \in Sessions, ReportedFor(r),
           own'[r].told = own[r].told, own'[r].status = own[r].status,
           ses'[r].up = ses[r].up, ses'[r].reported = ses[r].reported,
           ses[r].up /\ own[r].told /\ Follows(r) => Follows(r)'
    PROVE  ReportedFor(r)'
BY DEF ReportedFor

\* An unloaded session has nothing reported.
LEMMA ColdReported ==
    ASSUME NEW r \in Sessions, ses'[r] = Cold
    PROVE  ReportedFor(r)'
BY ColdMoves DEF ReportedFor

\* Over a step of a session, the others.
LEMMA OthersReported ==
    ASSUME Reported, NEW s \in Sessions, NEW r \in Sessions, r # s, Only(s),
           own'[r].told = own[r].told, own'[r].status = own[r].status,
           UNCHANGED <<rows, staged>>,
           LastReport(inbox, r, own[r].status) => LastReport(inbox', r, own[r].status),
           HoldsFor(inbox', "SessionStatusChanged", r) =>
             HoldsFor(inbox, "SessionStatusChanged", r)
    PROVE  ReportedFor(r)'
<1>1. ReportedFor(r) /\ ses'[r] = ses[r]
  BY DEF Reported, Only
<1>2. Follows(r) => Follows(r)'
  BY FollowsKept
<1> QED
  BY <1>1, <1>2, ReportedForKept

\* A session that reports: the last report on its way is the one made now, or the one
\* that says the same already.
LEMMA ReporterFollows ==
    ASSUME Typed, NEW s \in Sessions, NEW status, Reports(s, status), ReportedFor(s),
           UNCHANGED <<rows, staged>>, own'[s].status = status
    PROVE  Follows(s)'
<1>1. CASE ses[s].reported # status
  <2>1. LastReport(inbox', s, status)
    BY <1>1, ReportsJoined
  <2> QED
    BY <2>1 DEF Follows
<1>2. CASE ses[s].reported = status
  <2>1. inbox' = inbox
    BY <1>2, ReportsJoined
  <2>2. status # "unknown"
    BY DEF Reports, Statuses
  <2>3. own[s].status = status /\ Follows(s)
    BY <1>2, <2>2 DEF ReportedFor
  <2> QED
    BY <2>1, <2>3, FollowsKept
<1> QED
  BY <1>1, <1>2

\* A session's own steps.
LEMMA ReportedSession ==
    ASSUME Typed, Waiting, OneAtATime, Renames, Creates, Reported,
           NEW s \in Sessions, SessionSteps(s)
    PROVE  Reported'
<1>0. ReportedFor(s) /\ CreatedOnce(s)
  BY DEF Reported, Creates
<1>1. ASSUME Only(s), ses'[s].up = ses[s].up, ses'[s].reported = ses[s].reported,
             \A r \in Sessions : own'[r].told = own[r].told /\ own'[r].status = own[r].status,
             UNCHANGED <<rows, staged>>,
             \A r \in Sessions :
               /\ \A st : LastReport(inbox, r, st) => LastReport(inbox', r, st)
               /\ HoldsFor(inbox', "SessionStatusChanged", r) =>
                    HoldsFor(inbox, "SessionStatusChanged", r)
      PROVE  Reported'
  <2>1. \A r \in Sessions : r # s => ReportedFor(r)'
    BY <1>1, OthersReported
  <2>2. Follows(s) => Follows(s)'
    BY <1>1, FollowsKept
  <2>3. ReportedFor(s)'
    BY <1>0, <1>1, <2>2, ReportedForKept
  <2> QED
    BY <2>1, <2>3 DEF Reported
<1>2. ASSUME NEW status, Reports(s, status), Only(s), ses'[s].up, own'[s].told,
             own'[s].status = status,
             \A r \in Sessions : r # s => own'[r] = own[r],
             UNCHANGED <<rows, staged>>
      PROVE  Reported'
  <2>1. \A r \in Sessions : r # s => ReportedFor(r)'
    BY <1>2, ReportsJoined, OthersReported
  <2>2. Follows(s)'
    BY <1>0, <1>2, ReporterFollows
  <2>3. ses'[s].reported = status
    BY <1>2 DEF Reports
  <2>4. ReportedFor(s)'
    BY <1>2, <2>2, <2>3 DEF ReportedFor
  <2> QED
    BY <2>1, <2>4 DEF Reported
<1>3. ASSUME NEW name, Waits(s, name)
      PROVE  \A r \in Sessions :
               /\ \A st : LastReport(inbox, r, st) => LastReport(inbox', r, st)
               /\ HoldsFor(inbox', "SessionStatusChanged", r) =>
                    HoldsFor(inbox, "SessionStatusChanged", r)
  BY <1>3, WaitsJoined
<1>4. CASE Load(s)
  <2>1. /\ Only(s) /\ UNCHANGED <<own, rows, staged>> /\ ses'[s].up
        /\ ~own[s].told => ses'[s].reported = "unknown" /\ inbox' = inbox
        /\ own[s].told => Reports(s, own[s].status)
    BY <1>4, LoadEffect
  <2>2. CASE own[s].told
    BY <1>2, <2>1, <2>2
  <2>3. CASE ~own[s].told
    <3>1. ReportedFor(s)'
      BY <2>1, <2>3 DEF ReportedFor
    <3>2. \A r \in Sessions : r # s => ReportedFor(r)'
      BY <2>1, <2>3, OthersReported
    <3> QED
      BY <3>1, <3>2 DEF Reported
  <2> QED
    BY <2>2, <2>3
<1>5. CASE BeCreated(s)
  <2>1. /\ Only(s) /\ UNCHANGED <<rows, staged>> /\ ses'[s].up = ses[s].up
        /\ Serves(s, "Create") /\ Reports(s, own[s].status)
        /\ own'[s].told /\ own'[s].status = own[s].status
        /\ \A r \in Sessions : r # s => own'[r] = own[r]
    BY <1>5, BeCreatedEffect
  <2>2. ses'[s].up
    BY <2>1, ServesHead
  <2> QED
    BY <1>2, <2>1, <2>2
<1>6. CASE TakeMessage(s)
  <2>1. /\ Only(s) /\ UNCHANGED <<rows, staged, own>> /\ ses'[s].up = ses[s].up
        /\ ses'[s].reported = ses[s].reported
        /\ UNCHANGED inbox \/ Waits(s, "derived")
    BY <1>6, TakeMessageEffect DEF Waits, Takes
  <2> QED
    BY <1>1, <1>3, <2>1
<1>7. CASE SetTitle(s)
  <2>1. /\ Only(s) /\ UNCHANGED <<rows, staged, own>> /\ ses'[s].up = ses[s].up
        /\ ses'[s].reported = ses[s].reported /\ Waits(s, "tool")
    BY <1>7, SetTitleEffect DEF Waits
  <2> QED
    BY <1>1, <1>3, <2>1
<1>8. CASE Named(s)
  BY <1>1, <1>8, NamedEffect
<1>9. CASE TitleSet(s) \/ Read(s)
  BY <1>1, <1>9, ReadEffect DEF Takes
<1>10. ASSUME NEW status, Settled(s, status), own[s].told PROVE Reported'
  <2>1. /\ Only(s) /\ ses'[s].up = ses[s].up /\ ses[s].up /\ Reports(s, status)
        /\ own'[s].told = own[s].told /\ own'[s].status = status
        /\ \A r \in Sessions : r # s => own'[r] = own[r]
        /\ UNCHANGED <<rows, staged>>
    BY <1>10 DEF Settled
  <2>2. ses'[s].up /\ own'[s].told
    BY <1>10, <2>1
  <2> QED
    BY <1>2, <2>1, <2>2
<1>11. CASE Provisioned(s)
  BY <1>10, <1>11, ProvisionedEffect
<1>12. CASE Started(s) \/ Outcome(s)
  <2>1. PICK status \in {"Running", "Idle"} :
          /\ Settled(s, status)
          /\ Serves(s, IF status = "Running" THEN "Started" ELSE "Outcome")
    BY <1>12, TurnEffect
  <2>2. Holds(ses[s].box, "Started") \/ Holds(ses[s].box, "Outcome")
    BY <2>1, ServesHead
  <2>3. own[s].told
    BY <1>0, <2>2 DEF CreatedOnce
  <2> QED
    BY <1>10, <2>1, <2>3
<1>13. CASE PrepareOffload(s)
  <2>1. UNCHANGED <<rows, staged, inbox, own>> /\ (Takes(s) \/ Unloads(s))
    BY <1>13, OffloadEffect DEF OffloadAnswered
  <2>2. CASE Takes(s)
    BY <1>1, <2>1, <2>2 DEF Takes
  <2>3. CASE Unloads(s)
    <3>1. \A r \in Sessions : r # s => ReportedFor(r)'
      BY <2>1, <2>3, OthersReported DEF Unloads
    <3> QED
      BY <2>3, <3>1, ColdReported DEF Reported, Unloads
  <2> QED
    BY <2>1, <2>2, <2>3
<1>14. CASE BeDeleted(s)
  <2>1. /\ UNCHANGED <<rows, inbox, own>> /\ Unloads(s) /\ Serves(s, "Delete")
        /\ Leaves([t |-> "SessionDeleted", id |-> s])
    BY <1>14, DeletedEffect DEF DeleteAnswered, Leaves
  <2>2. staged = <<>>
    BY <2>1, ServesHead DEF Waiting, OneAtATime
  <2>3. \A r \in Sessions :
          /\ ~Stages("SessionCreated", r)' /\ ~Stages("SessionStatusChanged", r)'
          /\ ~Stages("SessionStatusChanged", r)
    BY <2>1, <2>2, LeavesStages DEF Stages
  <2>4. \A r \in Sessions : Follows(r) => Follows(r)'
    BY <2>1, <2>3 DEF Follows
  <2>5. \A r \in Sessions : r # s => ReportedFor(r)'
    BY <2>1, <2>4, ReportedForKept DEF Unloads, Only, Reported
  <2> QED
    BY <2>1, <2>5, ColdReported DEF Reported, Unloads
<1> QED
  BY <1>4, <1>5, <1>6, <1>7, <1>8, <1>9, <1>11, <1>12, <1>13, <1>14 DEF SessionSteps

\* The kind of event each handler leaves.
LEMMA HandlerLeaves ==
    ASSUME NEW s \in Sessions, NEW r \in Sessions
    PROVE  /\ Creating(s) => (Stages("SessionCreated", r)' => r = s)
           /\ Creating(s) => ~Stages("SessionStatusChanged", r)'
           /\ Titling(s) \/ Renaming(s) =>
                ~Stages("SessionCreated", r)' /\ ~Stages("SessionStatusChanged", r)'
           /\ Noting(s) => ~Stages("SessionCreated", r)'
           /\ Noting(s) => (Stages("SessionStatusChanged", r)' => r = s)
<1>1. ASSUME NEW e, Leaves(e), NEW t, Stages(t, r)' PROVE e.t = t /\ e.id = r
  BY <1>1, LeavesStages
<1>2. ASSUME Creating(s)
      PROVE  \E e : Leaves(e) /\ e.t = "SessionCreated" /\ e.id = s
  BY <1>2 DEF Creating
<1>3. ASSUME Titling(s) \/ Renaming(s)
      PROVE  \E e : Leaves(e) /\ e.t = "SessionNamed"
  <2>1. CASE Titling(s)
    <3>1. PICK e : e = [t |-> "SessionNamed", id |-> s, name |-> "user", ack |-> FALSE]
      OBVIOUS
    <3>2. Leaves(e) /\ e.t = "SessionNamed"
      BY <2>1, <3>1, Zenon DEF Titling
    <3> QED
      BY <3>2
  <2>2. CASE Renaming(s)
    <3>1. PICK name : Leaves([t |-> "SessionNamed", id |-> s, name |-> name, ack |-> TRUE])
      BY <2>2 DEF Renaming
    <3>2. PICK e : e = [t |-> "SessionNamed", id |-> s, name |-> name, ack |-> TRUE]
      OBVIOUS
    <3>3. Leaves(e) /\ e.t = "SessionNamed"
      BY <3>1, <3>2, Zenon
    <3> QED
      BY <3>3
  <2> QED
    BY <1>3, <2>1, <2>2
<1>4. ASSUME Noting(s), staged' # <<>>
      PROVE  \E e : Leaves(e) /\ e.t = "SessionStatusChanged" /\ e.id = s
  BY <1>4 DEF Noting, Note
<1>5. staged' = <<>> => \A t : ~Stages(t, r)'
  BY NothingStaged
<1>6. Creating(s) => (Stages("SessionCreated", r)' => r = s)
  BY <1>1, <1>2
<1>7. Creating(s) => ~Stages("SessionStatusChanged", r)'
  BY <1>1, <1>2
<1>8. Titling(s) \/ Renaming(s) =>
        ~Stages("SessionCreated", r)' /\ ~Stages("SessionStatusChanged", r)'
  BY <1>1, <1>3
<1>9. Noting(s) => ~Stages("SessionCreated", r)'
  BY <1>1, <1>4, <1>5
<1>10. Noting(s) => (Stages("SessionStatusChanged", r)' => r = s)
  BY <1>1, <1>4, <1>5
<1> QED
  BY <1>6, <1>7, <1>8, <1>9, <1>10

\* The supervisor's handlers: a report becomes an event, or says what the row says.
LEMMA ReportedHandler ==
    ASSUME Typed, Creates, Reported, HandleCommand
    PROVE  Reported'
<1>1. /\ inbox # <<>> /\ inbox' = Tail(inbox) /\ staged = <<>> /\ UNCHANGED <<rows, own>>
      /\ \/ \E s \in Sessions : \/ Creating(s) \/ Forwarding(s) \/ Titling(s)
                                \/ Renaming(s) \/ Noting(s) \/ Deleting(s)
         \/ Sweeping \/ Passing
  BY HandlerEffect
<1>2. \A r \in Sessions : ses'[r].up = ses[r].up /\ ses'[r].reported = ses[r].reported
  <2>1. ASSUME NEW s \in Sessions, NEW m \in BoxMail, Posts(s, m), NEW r \in Sessions
        PROVE  ses'[r].up = ses[r].up /\ ses'[r].reported = ses[r].reported
    BY <2>1 DEF Posts, Sends, Only
  <2> QED
    BY <1>1, <2>1 DEF Creating, Forwarding, Titling, Renaming, Noting, Deleting,
       Sweeping, Passing
<1>3. ASSUME NEW r \in Sessions, own[r].told, Follows(r) PROVE Follows(r)'
  <2>1. ~Stages("SessionCreated", r)'
    <3>1. ~HoldsFor(inbox, "Create", r)
      BY <1>3 DEF Creates, CreatedOnce
    <3>2. ~Creating(r)
      BY <1>1, <3>1, InboxLeft DEF Creating
    <3>3. ASSUME NEW s \in Sessions, s # r, Creating(s) PROVE ~Stages("SessionCreated", r)'
      BY <3>3, HandlerLeaves
    <3>4. ASSUME NEW s \in Sessions, Titling(s) \/ Renaming(s) \/ Noting(s)
          PROVE  ~Stages("SessionCreated", r)'
      BY <3>4, HandlerLeaves
    <3>5. ASSUME NEW s \in Sessions, Forwarding(s) \/ Deleting(s)
          PROVE  ~Stages("SessionCreated", r)'
      BY <1>1, <3>5, NothingStaged DEF Forwarding, Deleting
    <3>6. CASE Sweeping \/ Passing
      BY <1>1, <3>6, NothingStaged DEF Sweeping, Passing
    <3> QED
      BY <1>1, <3>2, <3>3, <3>4, <3>5, <3>6
  <2>2. ~Noting(r) => ~Stages("SessionStatusChanged", r)'
    <3>1. ASSUME NEW s \in Sessions, s # r, Noting(s)
          PROVE  ~Stages("SessionStatusChanged", r)'
      BY <3>1, HandlerLeaves
    <3>2. ASSUME NEW s \in Sessions, Titling(s) \/ Renaming(s) \/ Creating(s)
          PROVE  ~Stages("SessionStatusChanged", r)'
      BY <3>2, HandlerLeaves
    <3>3. ASSUME NEW s \in Sessions, Forwarding(s) \/ Deleting(s)
          PROVE  ~Stages("SessionStatusChanged", r)'
      BY <1>1, <3>3, NothingStaged DEF Forwarding, Deleting
    <3>4. CASE Sweeping \/ Passing
      BY <1>1, <3>4, NothingStaged DEF Sweeping, Passing
    <3> QED
      BY <1>1, <3>1, <3>2, <3>3, <3>4
  <2>3. ASSUME ~HoldsFor(inbox, "SessionStatusChanged", r) PROVE Follows(r)'
    <3>1. ~Noting(r) /\ ~HoldsFor(inbox', "SessionStatusChanged", r)
      BY <1>1, <2>3, InboxLeft DEF Noting
    <3>2. ~LastReport(inbox, r, own[r].status)
      BY <2>3 DEF LastReport, HoldsFor
    <3>3. rows[r].listed => rows[r].status = own[r].status
      BY <1>1, <1>3, <3>2 DEF Follows, Stages
    <3> QED
      BY <1>1, <2>1, <2>2, <3>1, <3>3 DEF Follows
  <2>4. ASSUME LastReport(inbox, r, own[r].status) PROVE Follows(r)'
    <3>1. CASE LastReport(inbox', r, own[r].status)
      BY <1>1, <3>1 DEF Follows
    <3>2. CASE ~LastReport(inbox', r, own[r].status)
      <4>1. /\ ~HoldsFor(inbox', "SessionStatusChanged", r)
            /\ Head(inbox).t = "SessionStatusChanged" /\ Head(inbox).id = r
            /\ Head(inbox).status = own[r].status
        BY <1>1, <2>4, <3>2, InboxLeft
      <4>2. Noting(r)
        BY <1>1, <4>1 DEF Creating, Forwarding, Titling, Renaming, Noting, Deleting,
           Sweeping, Passing
      <4>3. CASE rows[r].listed /\ rows[r].status # own[r].status
        <5>1. Leaves(Note(r, own[r].status))
          BY <4>1, <4>2, <4>3 DEF Noting
        <5>2. Stages("SessionStatusChanged", r)' /\ staged'[1].status = own[r].status
          BY <5>1 DEF Leaves, Note, Stages
        <5> QED
          BY <1>1, <2>1, <4>1, <5>2 DEF Follows
      <4>4. CASE ~(rows[r].listed /\ rows[r].status # own[r].status)
        <5>1. staged' = <<>>
          BY <4>1, <4>2, <4>4 DEF Noting
        <5> QED
          BY <1>1, <2>1, <4>1, <4>4, <5>1 DEF Follows, Stages
      <4> QED
        BY <4>3, <4>4
    <3> QED
      BY <3>1, <3>2
  <2> QED
    BY <1>3, <2>3, <2>4 DEF Follows
<1>4. \A r \in Sessions : ReportedFor(r)'
  BY <1>1, <1>2, <1>3, ReportedForKept DEF Reported
<1> QED
  BY <1>4 DEF Reported

\* The other steps.
LEMMA ReportedRest ==
    ASSUME Typed, Reported,
           \/ Persist \/ AskNext \/ Crash
           \/ \E s \in Sessions : \/ AgentBegins(s) \/ AgentTitles(s) \/ AgentEnds(s)
                                  \/ GoesQuiet(s)
           \/ \E cmd \in Calls : Request(cmd)
    PROVE  Reported'
<1>1. ASSUME UNCHANGED own,
             \A r \in Sessions : /\ ses'[r].up = ses[r].up /\ ses'[r].reported = ses[r].reported
                                 /\ Follows(r) => Follows(r)'
      PROVE  Reported'
  BY <1>1, ReportedForKept DEF Reported
<1>2. CASE Persist
  <2>1. \A r \in Sessions : ses'[r].up = ses[r].up /\ ses'[r].reported = ses[r].reported
    BY <1>2, PersistEffect DEF Only
  <2>2. ASSUME NEW r \in Sessions, Follows(r) PROVE Follows(r)'
    <3>1. UNCHANGED <<inbox, own>> /\ staged' = <<>>
      BY <1>2, PersistEffect
    <3>2. CASE LastReport(inbox, r, own[r].status)
      BY <3>1, <3>2 DEF Follows
    <3>3. CASE ~LastReport(inbox, r, own[r].status)
      <4>1. /\ ~HoldsFor(inbox, "SessionStatusChanged", r) /\ ~Stages("SessionCreated", r)
            /\ IF Stages("SessionStatusChanged", r) THEN staged[1].status = own[r].status
               ELSE rows[r].listed => rows[r].status = own[r].status
        BY <2>2, <3>3 DEF Follows
      <4>2. /\ rows'[r].listed => rows[r].listed \/ Stages("SessionCreated", r)
            /\ IF Stages("SessionStatusChanged", r) /\ rows[r].listed
               THEN rows'[r].status = staged[1].status
               ELSE Stages("SessionCreated", r) \/ rows'[r].status = rows[r].status
        BY <1>2, PersistEffect
      <4>3. rows'[r].listed => rows'[r].status = own[r].status
        BY <4>1, <4>2
      <4> QED
        BY <3>1, <4>1, <4>3, NothingStaged DEF Follows
    <3> QED
      BY <3>2, <3>3
  <2> QED
    BY <1>1, <1>2, <2>1, <2>2, PersistEffect
<1>3. ASSUME UNCHANGED <<rows, staged, inbox, own>>, NEW r \in Sessions, Follows(r)
      PROVE  Follows(r)'
  BY <1>3, FollowsKept
<1>4. CASE AskNext
  <2>1. UNCHANGED <<rows, staged, inbox, own>>
    BY <1>4, AskNextEffect
  <2>2. \A r \in Sessions : ses'[r].up = ses[r].up /\ ses'[r].reported = ses[r].reported
    BY <1>4, AskNextEffect DEF Posts, Sends, Only
  <2> QED
    BY <1>1, <1>3, <2>1, <2>2
<1>5. CASE Crash
  BY <1>5, CrashEffect, ColdReported DEF Reported
<1>6. ASSUME NEW s \in Sessions, AgentBegins(s) \/ AgentTitles(s) \/ AgentEnds(s)
      PROVE  Reported'
  <2>1. UNCHANGED <<rows, staged, inbox, own>>
    BY <1>6, AgentEffect
  <2>2. \A r \in Sessions : ses'[r].up = ses[r].up /\ ses'[r].reported = ses[r].reported
    BY <1>6, AgentEffect DEF Sends, Only
  <2> QED
    BY <1>1, <1>3, <2>1, <2>2
<1>7. ASSUME NEW s \in Sessions, GoesQuiet(s) PROVE Reported'
  BY <1>1, <1>3, <1>7 DEF GoesQuiet
<1>8. ASSUME NEW cmd \in Calls, Request(cmd) PROVE Reported'
  <2>1. /\ cmd \in Mail /\ inbox' = Append(inbox, cmd)
        /\ UNCHANGED <<rows, staged, own, ses>>
    BY <1>8, RequestEffect
  <2>2. cmd.t # "SessionStatusChanged"
    BY DEF Calls
  <2>3. \A r \in Sessions : Follows(r) => Follows(r)'
    BY <2>1, <2>2, InboxJoined, FollowsKept
  <2> QED
    BY <1>1, <2>1, <2>3
<1> QED
  BY <1>2, <1>4, <1>5, <1>6, <1>7, <1>8

-----------------------------------------------------------------------------
(* The invariant *)

LEMMA InvInit == Init => Inv
<1> SUFFICES ASSUME Init PROVE Inv
  OBVIOUS
<1>1. Typed
  BY TypedInit
<1>2. /\ staged = <<>> /\ inbox = <<>> /\ wait = NoWait /\ active = {}
      /\ \A s \in Sessions : ses[s] = Cold
      /\ \A s \in Sessions : own[s] = [told |-> FALSE, status |-> "Provisioning", name |-> ""]
      /\ \A s \in Sessions :
           call[s] = [recorded |-> FALSE, queued |-> FALSE, answered |-> FALSE]
  BY DEF Init
<1>3. \A s \in Sessions :
        /\ ses[s].box = <<>> /\ ~ses[s].up /\ ses[s].asks = "" /\ ~ses[s].turn
        /\ ses[s].reported = "unknown"
  <2>1. /\ Cold.up = FALSE /\ Cold.turn = FALSE
        /\ Cold.box = <<>> /\ Cold.asks = "" /\ Cold.reported = "unknown"
    BY DEF Cold
  <2> TAKE s \in Sessions
  <2>2. /\ ses[s].up = FALSE /\ ses[s].turn = FALSE
        /\ ses[s].box = <<>> /\ ses[s].asks = "" /\ ses[s].reported = "unknown"
    BY <1>2, <2>1, Zenon
  <2> QED
    BY <2>2
<1>4. \A s \in Sessions : ~own[s].told /\ ~call[s].recorded /\ ~call[s].queued /\ ~call[s].answered
  <2> TAKE s \in Sessions
  <2>1. PICK o : o = [told |-> FALSE, status |-> "Provisioning", name |-> ""]
    OBVIOUS
  <2>2. PICK c : c = [recorded |-> FALSE, queued |-> FALSE, answered |-> FALSE]
    OBVIOUS
  <2>3. own[s] = o /\ call[s] = c
    BY <1>2, <2>1, <2>2
  <2>4. o.told = FALSE
    BY <2>1
  <2>5. c.recorded = FALSE /\ c.queued = FALSE /\ c.answered = FALSE
    BY <2>2
  <2>6. /\ own[s].told = FALSE /\ call[s].recorded = FALSE
        /\ call[s].queued = FALSE /\ call[s].answered = FALSE
    BY <2>3, <2>4, <2>5, Zenon
  <2> QED
    BY <2>6
<1>5. wait.for = "none" /\ wait.on = Nobody /\ wait.todo = {}
  BY <1>2 DEF NoWait
<1>6. \A s, t : ~Stages(t, s) /\ ~Naming(s)
  BY <1>2 DEF Stages, Naming
<1>7. Waiting /\ OneAtATime
  BY <1>2, <1>3, <1>5, EmptyHolds DEF Waiting, OneAtATime
<1>8. Renames
  BY <1>2, <1>3, <1>6, EmptyHolds DEF Renames, NamedOnce
<1>9. Swept
  BY <1>2, <1>3, <1>5, EmptyHolds DEF Swept
<1>10. Held
  BY <1>3, <1>4, <1>6, EmptyHolds DEF Held, HeldFor
<1>11. Creates
  BY <1>2, <1>3, <1>4, EmptyHolds DEF Creates, CreatedOnce
<1>12. Reported
  BY <1>3 DEF Reported, ReportedFor
<1> QED
  BY <1>1, <1>7, <1>8, <1>9, <1>10, <1>11, <1>12 DEF Inv

LEMMA InvStep == Inv /\ [Next]_vars => Inv'
<1> SUFFICES ASSUME Inv, [Next]_vars PROVE Inv'
  OBVIOUS
<1>0. Typed /\ Waiting /\ OneAtATime /\ Renames /\ Swept /\ Held /\ Creates /\ Reported
  BY DEF Inv
<1>1. CASE HandleCommand
  <2>1. Typed' /\ Waiting' /\ Renames' /\ Swept'
    BY <1>0, <1>1, TypedHandler, WaitingHandler, RenamesHandler, SweptHandler
  <2>2. Held' /\ Creates' /\ Reported'
    BY <1>0, <1>1, HeldHandler, CreatesHandler, ReportedHandler
  <2>3. OneAtATime'
    BY <1>0, <1>1, OneAtATimeStep DEF Next
  <2> QED
    BY <2>1, <2>2, <2>3 DEF Inv
<1>2. ASSUME NEW s \in Sessions, SessionSteps(s) PROVE Inv'
  <2>1. \/ Load(s) \/ BeCreated(s) \/ TakeMessage(s) \/ SetTitle(s) \/ Named(s)
        \/ TitleSet(s) \/ Read(s) \/ Provisioned(s) \/ Started(s) \/ Outcome(s)
        \/ PrepareOffload(s) \/ BeDeleted(s)
    BY <1>2 DEF SessionSteps
  <2>2. Typed' /\ Waiting'
    BY <1>0, <2>1, TypedSession, TypedAnswer, WaitingSession, WaitingAnswer
  <2>3. Renames' /\ Swept' /\ Held' /\ Creates' /\ Reported'
    BY <1>0, <1>2, RenamesSession, SweptSession, HeldSession, CreatesSession, ReportedSession
  <2>4. OneAtATime'
    BY <1>0, <1>2, OneAtATimeStep DEF Next
  <2> QED
    BY <2>2, <2>3, <2>4 DEF Inv
<1>3. CASE \/ Persist \/ AskNext \/ Crash
           \/ \E s \in Sessions : \/ AgentBegins(s) \/ AgentTitles(s) \/ AgentEnds(s)
                                  \/ GoesQuiet(s)
           \/ \E cmd \in Calls : Request(cmd)
  <2>1. Typed' /\ Waiting' /\ Renames' /\ Swept'
    BY <1>0, <1>3, TypedRest, WaitingRest, RenamesRest, SweptRest
  <2>2. Held' /\ Creates' /\ Reported'
    BY <1>0, <1>3, HeldRest, CreatesRest, ReportedRest
  <2>3. OneAtATime'
    BY <1>0, <1>3, OneAtATimeStep DEF Next
  <2> QED
    BY <2>1, <2>2, <2>3 DEF Inv
<1>4. CASE UNCHANGED vars
  <2>1. UNCHANGED <<rows, staged, inbox, wait, active, idle, own, ses, call, gone, spent>>
    BY <1>4 DEF vars
  <2>2. Typed' /\ Waiting' /\ OneAtATime'
    BY <1>0, <2>1 DEF Typed, TypeOK, WellFormed, Waiting, OneAtATime
  <2>3. Renames' /\ Swept'
    BY <1>0, <2>1 DEF Renames, NamedOnce, Naming, Stages, Swept
  <2>4. Held' /\ Creates'
    BY <1>0, <2>1 DEF Held, HeldFor, Stages, Creates, CreatedOnce
  <2>5. Reported'
    BY <1>0, <2>1 DEF Reported, ReportedFor, Follows, Stages
  <2> QED
    BY <2>2, <2>3, <2>4, <2>5 DEF Inv
<1> QED
  BY <1>1, <1>2, <1>3, <1>4 DEF Next

LEMMA InvHolds == Spec => []Inv
BY InvInit, InvStep, PTL DEF Spec

-----------------------------------------------------------------------------
(* What follows *)

\* Of the reports on their way, the one RowFollows looks at is the last.
LEMMA FollowsRow ==
    ASSUME Typed, Reported
    PROVE  RowFollows
<1> SUFFICES ASSUME NEW s \in Sessions, ses[s].up, own[s].told, rows[s].listed
             PROVE
               LET news == {i \in DOMAIN inbox : inbox[i].t = "SessionStatusChanged"
                                                   /\ inbox[i].id = s}
                   due  == {i \in DOMAIN staged : staged[i].t = "SessionStatusChanged"
                                                    /\ staged[i].id = s}
               IN  IF news # {}
                   THEN inbox[CHOOSE i \in news : \A j \in news : j <= i].status = own[s].status
                   ELSE IF due # {} THEN staged[1].status = own[s].status
                   ELSE rows[s].status = own[s].status
  BY DEF RowFollows
<1> DEFINE news == {i \in DOMAIN inbox : inbox[i].t = "SessionStatusChanged"
                                           /\ inbox[i].id = s}
           due  == {i \in DOMAIN staged : staged[i].t = "SessionStatusChanged"
                                            /\ staged[i].id = s}
<1>1. Follows(s)
  BY DEF Reported, ReportedFor
<1>2. /\ DOMAIN inbox = 1..Len(inbox) /\ Len(inbox) \in Nat
      /\ staged = <<>> \/ (Len(staged) = 1 /\ DOMAIN staged = 1..1)
  BY LenProperties DEF Typed, WellFormed
<1>3. CASE LastReport(inbox, s, own[s].status)
  <2>1. PICK i \in DOMAIN inbox :
          /\ inbox[i].t = "SessionStatusChanged" /\ inbox[i].id = s
          /\ inbox[i].status = own[s].status
          /\ \A j \in DOMAIN inbox :
               inbox[j].t = "SessionStatusChanged" /\ inbox[j].id = s => j <= i
    BY <1>3 DEF LastReport
  <2>2. i \in news /\ \A j \in news : j <= i
    BY <2>1
  <2>3. \A j \in news : j \in Nat
    BY <1>2
  <2> DEFINE k == CHOOSE x \in news : \A j \in news : j <= x
  <2>4. k \in news /\ \A j \in news : j <= k
    BY <2>2
  <2> HIDE DEF news, k
  <2>5. k = i
    BY <2>2, <2>3, <2>4
  <2>6. inbox[k].status = own[s].status /\ news # {}
    BY <2>1, <2>2, <2>5
  <2> QED
    BY <2>6 DEF k, news
<1>4. CASE ~LastReport(inbox, s, own[s].status)
  <2>1. /\ ~HoldsFor(inbox, "SessionStatusChanged", s)
        /\ IF Stages("SessionStatusChanged", s) THEN staged[1].status = own[s].status
           ELSE rows[s].listed => rows[s].status = own[s].status
    BY <1>1, <1>4 DEF Follows
  <2>2. news = {}
    BY <2>1 DEF HoldsFor
  <2>3. due # {} <=> Stages("SessionStatusChanged", s)
    BY <1>2 DEF Stages
  <2> HIDE DEF news, due
  <2>4. IF due # {} THEN staged[1].status = own[s].status
        ELSE rows[s].status = own[s].status
    BY <2>1, <2>3
  <2> QED
    BY <2>2, <2>4 DEF news, due
<1> QED
  BY <1>3, <1>4

\* What takes a session from memory: a sweep that found nothing at work, a delete, a crash.
LEMMA SweepSparesStep ==
    ASSUME Inv, [Next]_vars, NEW s \in Sessions,
           ses[s].up, ~ses'[s].up, own[s].told, Busy(s)
    PROVE  s \in gone' \/ spent'.crashes > spent.crashes
<1>0. Typed /\ Renames
  BY DEF Inv
<1>1. ses'[s].up # ses[s].up
  OBVIOUS
<1>2. CASE HandleCommand
  <2>1. ASSUME NEW r \in Sessions, NEW m \in BoxMail, Posts(r, m)
        PROVE  ses'[s].up = ses[s].up
    BY <2>1 DEF Posts, Sends, Only
  <2>2. ses'[s].up = ses[s].up
    BY <1>0, <1>2, <2>1, HandlerEffect DEF Creating, Forwarding, Titling, Renaming, Noting,
       Deleting, Sweeping, Passing
  <2> QED
    BY <1>1, <2>2
<1>3. CASE Persist
  BY <1>0, <1>1, <1>3, PersistEffect DEF Only
<1>4. CASE AskNext
  BY <1>0, <1>1, <1>4, AskNextEffect DEF Posts, Sends, Only
<1>5. CASE Crash
  <2>1. spent'.crashes = spent.crashes + 1
    BY <1>0, <1>5, CrashEffect
  <2>2. spent.crashes \in Nat
    BY <1>0 DEF Typed, WellFormed
  <2> QED
    BY <2>1, <2>2
<1>6. ASSUME NEW r \in Sessions, AgentBegins(r) \/ AgentTitles(r) \/ AgentEnds(r) PROVE FALSE
  BY <1>0, <1>1, <1>6, AgentEffect DEF Sends, Only
<1>7. ASSUME NEW r \in Sessions, GoesQuiet(r) PROVE FALSE
  BY <1>1, <1>7 DEF GoesQuiet
<1>8. ASSUME NEW cmd \in Calls, Request(cmd) PROVE FALSE
  BY <1>0, <1>1, <1>8, RequestEffect
<1>9. ASSUME NEW r \in Sessions, SessionSteps(r) PROVE s \in gone'
  <2>1. CASE Load(r)
    BY <1>0, <1>1, <2>1, LoadEffect DEF Only
  <2>2. CASE BeCreated(r)
    BY <1>0, <1>1, <2>2, BeCreatedEffect DEF Only
  <2>3. CASE TakeMessage(r)
    BY <1>0, <1>1, <2>3, TakeMessageEffect DEF Only, Waits, Takes
  <2>4. CASE SetTitle(r)
    BY <1>0, <1>1, <2>4, SetTitleEffect DEF Only, Waits
  <2>5. CASE Named(r)
    BY <1>0, <1>1, <2>5, NamedEffect DEF Only
  <2>6. CASE TitleSet(r) \/ Read(r)
    BY <1>0, <1>1, <2>6, ReadEffect DEF Only, Takes
  <2>7. CASE Provisioned(r)
    BY <1>0, <1>1, <2>7, ProvisionedEffect DEF Settled, Only
  <2>8. CASE Started(r) \/ Outcome(r)
    BY <1>0, <1>1, <2>8, TurnEffect DEF Settled, Only
  <2>9. CASE PrepareOffload(r)
    BY <1>0, <1>1, <2>9, OffloadEffect DEF Takes, Unloads, Only
  <2>10. CASE BeDeleted(r)
    BY <1>0, <1>1, <2>10, DeletedEffect DEF Unloads, Only, DeleteAnswered
  <2> QED
    BY <1>9, <2>1, <2>2, <2>3, <2>4, <2>5, <2>6, <2>7, <2>8, <2>9, <2>10 DEF SessionSteps
<1>10. CASE UNCHANGED vars
  BY <1>1, <1>10 DEF vars
<1> QED
  BY <1>2, <1>3, <1>4, <1>5, <1>6, <1>7, <1>8, <1>9, <1>10 DEF Next

\* The state of the supervisor and of its sessions has its types, whatever is asked,
\* answered or lost (supervisor.rs: SessionSupervisorState and handle_command).
THEOREM TypeCorrect == Spec => []TypeOK
<1>1. Inv => TypeOK
  BY DEF Inv, Typed
<1> QED
  BY <1>1, InvHolds, PTL

\* A create that was answered is held by both journals until its delete is answered,
\* through any number of crashes (supervisor.rs: the create's answer waits for the record
\* and for the session's first message).
THEOREM CreateIsHeld == Spec => []HeldIsRecorded
<1>1. Inv => HeldIsRecorded
  BY DEF Inv, Held, HeldFor, HeldIsRecorded
<1> QED
  BY <1>1, InvHolds, PTL

\* Until a shutdown, every loaded session is one the idle sweep looks at (supervisor.rs:
\* last_activity against what reach and offload_idle load and forget).
THEOREM LoadedIsCounted == Spec => []LoadedIsSwept
<1>1. Inv => LoadedIsSwept
  BY DEF Inv, Swept, LoadedIsSwept
<1> QED
  BY <1>1, InvHolds, PTL

\* The list's copy of a loaded session's status, with the reports still on their way,
\* says what the session's journal says (session_actor: report_status; supervisor.rs:
\* SessionStatusChanged).
THEOREM ListFollows == Spec => []RowFollows
<1>1. Inv => RowFollows
  BY FollowsRow DEF Inv
<1> QED
  BY <1>1, InvHolds, PTL

\* No step but a delete and a crash takes a session from memory whose journal says it is
\* at work (lifecycle.rs: prepare_offload refuses what supervisor.rs: offload_idle chose
\* from an older report).
THEOREM SweepSpares == Spec => SweepSparesWork
<1>1. Inv /\ [Next]_vars =>
        [\A s \in Sessions : ses[s].up /\ ~ses'[s].up /\ own[s].told /\ Busy(s) =>
           s \in gone' \/ spent'.crashes > spent.crashes]_vars
  BY SweepSparesStep
<1> QED
  BY <1>1, InvHolds, PTL DEF Spec, SweepSparesWork
=============================================================================
