------------------------- MODULE SessionTurnsProofs --------------------------
(***************************************************************************)
(* Proofs about SessionTurns, for every plugin, budget and bound: its      *)
(* types, that a turn that runs is shown, that a turn that is shown is     *)
(* there, and that a park is shown.                                        *)
(***************************************************************************)
EXTENDS SessionTurns, TLAPS, SequenceTheorems, FiniteSetTheorems

-----------------------------------------------------------------------------
(* The inductive invariant *)

\* The news that moves the phase, whatever it was; a failure for good leaves it.
Telling == {"Started", "Concluded", "Asked", "Failed", "Interrupted"}

\* What the session's mailbox will have said when it is read: this last, or nothing.
Last(q, x) ==
  \E i \in DOMAIN q : q[i] = x /\ \A j \in DOMAIN q : j > i => q[j] \notin Telling
Quiet(q) == \A i \in DOMAIN q : q[i] \notin Telling
Has(q, x) == \E i \in DOMAIN q : q[i] = x

\* What the agent's mailbox holds: a command of a kind, one at most, and a cancel whose
\* turn is still the one it was meant for.
Holds(q, kind) == \E i \in DOMAIN q : q[i].kind = kind
Once(q, kind) == \A i, j \in DOMAIN q : q[i].kind = kind /\ q[j].kind = kind => i = j
Prompt(q) == \E i \in DOMAIN q : q[i].kind = "Cancel" /\ ~q[i].late

\* The agent's journal once what is being written is written.
Kept == IF staged = {} THEN {mem} ELSE staged

\* What the tasks of a turn hand back, and the stage of the turn that waits for it.
Tasks == {"StartPrepared", "Boundary", "RunFinished"}
Waits(kind, stage) ==
  \/ kind = "StartPrepared" /\ stage = "preparing"
  \/ kind = "Boundary" /\ stage = "ending"
  \/ kind = "RunFinished" /\ stage = "reporting"

\* One turn at a time, and what belongs to it.
Placed ==
  /\ \A k \in Tasks : Once(abox, k) /\ (Holds(abox, k) => Waits(k, run.stage))
  /\ hook => run.stage = "none" /\ staged = {}
  /\ run.stage \in {"none", "preparing"} => ~run.cancelled
  /\ run.stage \in {"ending", "reporting"} /\ run.end = "Cancelled" => run.cancelled
  /\ run.stage = "ending" => run.end # "AlreadyReported"
  /\ Quiet(box) \/ \E x \in Telling : Last(box, x)
  /\ \A m \in Kept : m.asks => run.stage = "none" /\ ~hook
  /\ ~live => /\ box = <<>> /\ abox = <<>> /\ waiting = {} /\ staged = {}
              /\ run = NoRun /\ ~hook
  /\ ~live \/ Has(box, "Interrupted") => spent.crashes > 0

\* A turn that nobody cancelled is shown, is about to be, or a cancel is about to find it.
Working == run.stage \in {"preparing", "providing", "running"} /\ ~run.cancelled
Visible ==
  \/ "preparing" \in astray
  \/ Holds(abox, "Cancel")
  \/ Last(box, "Started")
  \/ Quiet(box) /\ phase = "Running" /\ waiting = {}
Shown == Working => Visible

\* A cancel that is for the turn that runs, or that has reached it, was asked for while the
\* session showed it: the session has read of its start and waits, or no longer shows it.
Aimed ==
  Prompt(abox) \/ (run.cancelled /\ "next" \notin astray) =>
    ~Has(box, "Started") /\ (waiting # {} \/ phase # "Running")

\* The end of the last turn is known to the session, or on its way.
Told ==
  \/ Has(box, "FailedForGood")
  \/ \E x \in Telling : x # "Started" /\ Last(box, x)
  \/ Quiet(box) /\ (phase # "Running" \/ waiting # {})

\* The next one is about to begin.
Restarts ==
  \/ Has(box, "ContinueAfterStop") \/ Holds(abox, "Enqueue")
  \/ Holds(abox, "Drain") /\ \A m \in Kept : m.queue # {}

Excused == "next" \in astray \/ spent.crashes > 0 \/ fatal

Ended ==
  /\ run.stage = "none" /\ ~hook => Excused \/ Told \/ Restarts
  /\ run.stage = "reporting" /\ run.end = "AlreadyReported" => Excused \/ Told

\* The questions the agent has open are the ones the session shows, or will.
ParkShown(m) ==
  IF m.asks THEN Last(box, "Asked") \/ (Quiet(box) /\ phase = "AwaitingInput" /\ waiting = {})
  ELSE ~Last(box, "Asked") /\ (Quiet(box) => phase # "AwaitingInput")
Parked == spent.crashes = 0 => \A m \in Kept : ParkShown(m)

Inv == TypeOK /\ Placed /\ Shown /\ Aimed /\ Ended /\ Parked

-----------------------------------------------------------------------------
(* Mailboxes *)

\* A message joins at the end.
LEMMA Joined ==
    ASSUME NEW S, NEW q \in Seq(S), NEW m \in S
    PROVE  /\ Append(q, m) \in Seq(S) /\ Append(q, m) # <<>>
           /\ Len(q) \in Nat /\ DOMAIN q = 1..Len(q)
           /\ DOMAIN Append(q, m) = 1..(Len(q) + 1)
           /\ \A i \in 1..Len(q) : Append(q, m)[i] = q[i]
           /\ Append(q, m)[Len(q) + 1] = m
BY AppendProperties, LenProperties

\* The first one leaves.
LEMMA Left ==
    ASSUME NEW S, NEW q \in Seq(S), q # <<>>
    PROVE  /\ Tail(q) \in Seq(S)
           /\ Head(q) \in S /\ Head(q) = q[1]
           /\ Len(q) \in Nat /\ Len(q) >= 1
           /\ DOMAIN q = 1..Len(q)
           /\ DOMAIN Tail(q) = 1..(Len(q) - 1)
           /\ \A i \in 1..(Len(q) - 1) : Tail(q)[i] = q[i + 1]
BY HeadTailProperties, LenProperties

\* News joins.
LEMMA NewsJoined ==
    ASSUME NEW q \in Seq(News), NEW x \in News
    PROVE  /\ Append(q, x) \in Seq(News)
           /\ \A y : Has(Append(q, x), y) <=> Has(q, y) \/ x = y
           /\ x \in Telling => /\ Last(Append(q, x), x) /\ ~Quiet(Append(q, x))
                               /\ \A y \in Telling : Last(Append(q, x), y) => y = x
           /\ x \notin Telling => /\ Quiet(Append(q, x)) <=> Quiet(q)
                                  /\ \A y \in Telling : Last(Append(q, x), y) <=> Last(q, y)
<1> DEFINE r == Append(q, x)
<1>1. /\ r \in Seq(News)
      /\ Len(q) \in Nat /\ DOMAIN q = 1..Len(q) /\ DOMAIN r = 1..(Len(q) + 1)
      /\ \A i \in 1..Len(q) : r[i] = q[i]
      /\ r[Len(q) + 1] = x
  BY Joined
<1> HIDE DEF r
<1>2. /\ \A i \in DOMAIN q : i \in DOMAIN r /\ r[i] = q[i] /\ Len(q) + 1 > i /\ ~(i > Len(q) + 1)
      /\ \A i \in DOMAIN r : i \in DOMAIN q \/ i = Len(q) + 1
      /\ Len(q) + 1 \in DOMAIN r /\ ~(Len(q) + 1 > Len(q) + 1)
  BY <1>1
<1>3. \A y : Has(r, y) <=> Has(q, y) \/ x = y
  BY <1>1, <1>2 DEF Has
<1>4. ASSUME x \in Telling
      PROVE  /\ Last(r, x) /\ ~Quiet(r)
             /\ \A y \in Telling : Last(r, y) => y = x
  <2>1. Last(r, x) /\ ~Quiet(r)
    BY <1>1, <1>2, <1>4 DEF Last, Quiet
  <2>2. ASSUME NEW y \in Telling, Last(r, y) PROVE y = x
    <3>1. PICK i \in DOMAIN r : r[i] = y /\ \A j \in DOMAIN r : j > i => r[j] \notin Telling
      BY <2>2 DEF Last
    <3>2. i = Len(q) + 1
      BY <1>1, <1>2, <1>4, <3>1
    <3> QED
      BY <1>1, <3>1, <3>2
  <2> QED
    BY <2>1, <2>2
<1>5. ASSUME x \notin Telling
      PROVE  /\ Quiet(r) <=> Quiet(q)
             /\ \A y \in Telling : Last(r, y) <=> Last(q, y)
  <2>1. Quiet(r) <=> Quiet(q)
    BY <1>1, <1>2, <1>5 DEF Quiet
  <2>2. ASSUME NEW y \in Telling, Last(r, y) PROVE Last(q, y)
    <3>1. PICK i \in DOMAIN r : r[i] = y /\ \A j \in DOMAIN r : j > i => r[j] \notin Telling
      BY <2>2 DEF Last
    <3>2. i \in DOMAIN q
      BY <1>1, <1>2, <1>5, <3>1
    <3> QED
      BY <1>2, <3>1, <3>2 DEF Last
  <2>3. ASSUME NEW y \in Telling, Last(q, y) PROVE Last(r, y)
    BY <1>1, <1>2, <1>5, <2>3 DEF Last
  <2> QED
    BY <2>1, <2>2, <2>3
<1> QED
  BY <1>1, <1>3, <1>4, <1>5 DEF r

\* The first news is read.
LEMMA NewsLeft ==
    ASSUME NEW q \in Seq(News), q # <<>>
    PROVE  /\ Tail(q) \in Seq(News) /\ Head(q) \in News
           /\ \A y : Has(q, y) <=> Has(Tail(q), y) \/ Head(q) = y
           /\ Head(q) \in Telling => ~Quiet(q)
           /\ Head(q) \notin Telling => (Quiet(Tail(q)) <=> Quiet(q))
           /\ Quiet(q) => Quiet(Tail(q))
           /\ \A y \in Telling :
                /\ Last(Tail(q), y) => Last(q, y)
                /\ Last(q, y) => Last(Tail(q), y) \/ (Quiet(Tail(q)) /\ Head(q) = y)
                /\ Quiet(Tail(q)) /\ Head(q) = y => Last(q, y)
<1> DEFINE r == Tail(q)
<1>1. /\ r \in Seq(News) /\ Head(q) \in News
      /\ Len(q) \in Nat /\ Len(q) >= 1
      /\ DOMAIN q = 1..Len(q) /\ DOMAIN r = 1..(Len(q) - 1)
      /\ \A i \in 1..(Len(q) - 1) : r[i] = q[i + 1]
      /\ Head(q) = q[1]
  BY Left
<1> HIDE DEF r
<1>2. /\ \A i \in DOMAIN r : i + 1 \in DOMAIN q /\ r[i] = q[i + 1] /\ i \in Nat /\ i + 1 > 1
      /\ 1 \in DOMAIN q
      /\ \A j \in DOMAIN q : j = 1 \/ (j - 1 \in DOMAIN r /\ q[j] = r[j - 1] /\ j > 1)
  BY <1>1
<1>3. \A y : Has(q, y) <=> Has(r, y) \/ Head(q) = y
  BY <1>1, <1>2 DEF Has
<1>4. /\ Head(q) \in Telling => ~Quiet(q)
      /\ Head(q) \notin Telling => (Quiet(r) <=> Quiet(q))
      /\ Quiet(q) => Quiet(r)
  BY <1>1, <1>2 DEF Quiet
<1>5. ASSUME NEW y \in Telling, Last(r, y) PROVE Last(q, y)
  <2>1. PICK i \in DOMAIN r : r[i] = y /\ \A j \in DOMAIN r : j > i => r[j] \notin Telling
    BY <1>5 DEF Last
  <2>2. i + 1 \in DOMAIN q /\ q[i + 1] = y
    BY <1>2, <2>1
  <2>3. ASSUME NEW j \in DOMAIN q, j > i + 1 PROVE q[j] \notin Telling
    <3>1. j - 1 \in DOMAIN r /\ q[j] = r[j - 1] /\ j - 1 > i
      BY <1>1, <1>2, <2>1, <2>3
    <3> QED
      BY <2>1, <3>1
  <2> QED
    BY <2>2, <2>3 DEF Last
<1>6. ASSUME NEW y \in Telling, Last(q, y) PROVE Last(r, y) \/ (Quiet(r) /\ Head(q) = y)
  <2>1. PICK i \in DOMAIN q : q[i] = y /\ \A j \in DOMAIN q : j > i => q[j] \notin Telling
    BY <1>6 DEF Last
  <2>2. CASE i = 1
    <3>1. \A j \in DOMAIN r : r[j] \notin Telling
      BY <1>2, <2>1, <2>2
    <3> QED
      BY <1>1, <2>1, <2>2, <3>1 DEF Quiet
  <2>3. CASE i # 1
    <3>1. i - 1 \in DOMAIN r /\ r[i - 1] = y
      BY <1>2, <2>1, <2>3
    <3>2. ASSUME NEW j \in DOMAIN r, j > i - 1 PROVE r[j] \notin Telling
      <4>1. j + 1 \in DOMAIN q /\ r[j] = q[j + 1] /\ j + 1 > i
        BY <1>1, <1>2, <2>1, <3>2
      <4> QED
        BY <2>1, <4>1
    <3> QED
      BY <3>1, <3>2 DEF Last
  <2> QED
    BY <2>2, <2>3
<1>7. ASSUME NEW y \in Telling, Quiet(r), Head(q) = y PROVE Last(q, y)
  <2>1. \A j \in DOMAIN q : j > 1 => q[j] \notin Telling
    BY <1>1, <1>2, <1>7 DEF Quiet
  <2> QED
    BY <1>1, <1>2, <1>7, <2>1 DEF Last
<1> QED
  BY <1>1, <1>3, <1>4, <1>5, <1>6, <1>7 DEF r

\* A mailbox that says nothing says nothing last.
LEMMA QuietLast ==
    ASSUME NEW q, Quiet(q)
    PROVE  \A y \in Telling : ~Last(q, y)
BY DEF Quiet, Last

LEMMA NoNews ==
    /\ Quiet(<<>>) /\ \A y : ~Has(<<>>, y)
    /\ \A k : ~Holds(<<>>, k) /\ Once(<<>>, k)
    /\ ~Prompt(<<>>)
BY DEF Quiet, Has, Holds, Once, Prompt

\* A command joins.
LEMMA CommandJoined ==
    ASSUME NEW q \in Seq(Command), NEW m \in Command
    PROVE  /\ Append(q, m) \in Seq(Command)
           /\ \A k : Holds(Append(q, m), k) <=> Holds(q, k) \/ m.kind = k
           /\ \A k : Once(q, k) /\ ~(Holds(q, k) /\ m.kind = k) => Once(Append(q, m), k)
           /\ Prompt(Append(q, m)) <=> Prompt(q) \/ (m.kind = "Cancel" /\ ~m.late)
<1> DEFINE r == Append(q, m)
<1>1. /\ r \in Seq(Command)
      /\ Len(q) \in Nat /\ DOMAIN q = 1..Len(q) /\ DOMAIN r = 1..(Len(q) + 1)
      /\ \A i \in 1..Len(q) : r[i] = q[i]
      /\ r[Len(q) + 1] = m
  BY Joined
<1> HIDE DEF r
<1>2. \A k : Holds(r, k) <=> Holds(q, k) \/ m.kind = k
  BY <1>1 DEF Holds
<1>3. \A k : Once(q, k) /\ ~(Holds(q, k) /\ m.kind = k) => Once(r, k)
  BY <1>1 DEF Holds, Once
<1>4. Prompt(r) <=> Prompt(q) \/ (m.kind = "Cancel" /\ ~m.late)
  BY <1>1 DEF Prompt
<1> QED
  BY <1>1, <1>2, <1>3, <1>4 DEF r

\* The first command is handled.
LEMMA CommandLeft ==
    ASSUME NEW q \in Seq(Command), q # <<>>
    PROVE  /\ Tail(q) \in Seq(Command) /\ Head(q) \in Command
           /\ \A k : Holds(q, k) <=> Holds(Tail(q), k) \/ Head(q).kind = k
           /\ \A k : Once(q, k) => Once(Tail(q), k)
           /\ \A k : Once(q, k) /\ Head(q).kind = k => ~Holds(Tail(q), k)
           /\ Prompt(q) <=> Prompt(Tail(q)) \/ (Head(q).kind = "Cancel" /\ ~Head(q).late)
<1> DEFINE r == Tail(q)
<1>1. /\ r \in Seq(Command) /\ Head(q) \in Command
      /\ Len(q) \in Nat /\ Len(q) >= 1
      /\ DOMAIN q = 1..Len(q) /\ DOMAIN r = 1..(Len(q) - 1)
      /\ \A i \in 1..(Len(q) - 1) : r[i] = q[i + 1]
      /\ Head(q) = q[1]
  BY Left
<1> HIDE DEF r
<1>2. /\ \A i \in DOMAIN r : i + 1 \in DOMAIN q /\ r[i] = q[i + 1] /\ i \in Nat /\ i + 1 # 1
      /\ 1 \in DOMAIN q
      /\ \A j \in DOMAIN q : j = 1 \/ (j - 1 \in DOMAIN r /\ q[j] = r[j - 1])
  BY <1>1
<1>3. \A k : Holds(q, k) <=> Holds(r, k) \/ Head(q).kind = k
  BY <1>1, <1>2 DEF Holds
<1>4. ASSUME NEW k, Once(q, k) PROVE Once(r, k)
  <2>1. ASSUME NEW i \in DOMAIN r, NEW j \in DOMAIN r, r[i].kind = k, r[j].kind = k PROVE i = j
    <3>1. i + 1 = j + 1
      BY <1>2, <1>4, <2>1 DEF Once
    <3> QED
      BY <1>2, <3>1
  <2> QED
    BY <2>1 DEF Once
<1>5. \A k : Once(q, k) /\ Head(q).kind = k => ~Holds(r, k)
  BY <1>1, <1>2 DEF Once, Holds
<1>6. Prompt(q) <=> Prompt(r) \/ (Head(q).kind = "Cancel" /\ ~Head(q).late)
  BY <1>1, <1>2 DEF Prompt
<1> QED
  BY <1>1, <1>3, <1>4, <1>5, <1>6 DEF r

\* The cancels on their way when a turn begins are for an earlier one.
Later(rest) == [i \in DOMAIN rest |->
                  IF rest[i].kind = "Cancel" THEN [rest[i] EXCEPT !.late = TRUE] ELSE rest[i]]

LEMMA LaterMail ==
    ASSUME NEW q \in Seq(Command)
    PROVE  /\ Later(q) \in Seq(Command) /\ ~Prompt(Later(q))
           /\ \A k : /\ Holds(Later(q), k) <=> Holds(q, k)
                     /\ Once(q, k) => Once(Later(q), k)
<1> DEFINE r == Later(q)
<1>1. /\ Len(q) \in Nat /\ DOMAIN q = 1..Len(q) /\ DOMAIN r = 1..Len(q)
      /\ \A i \in 1..Len(q) : q[i] \in Command
  BY LenProperties DEF Later
<1>2. \A i \in 1..Len(q) :
        r[i] = IF q[i].kind = "Cancel" THEN [q[i] EXCEPT !.late = TRUE] ELSE q[i]
  BY <1>1 DEF Later
<1>3. ASSUME NEW i \in 1..Len(q)
      PROVE  r[i] \in Command /\ r[i].kind = q[i].kind /\ (r[i].kind = "Cancel" => r[i].late = TRUE)
  <2>1. PICK c \in Command : c = q[i]
    BY <1>1
  <2>2. CASE c.kind = "Cancel"
    <3>1. c \in [kind : {"Cancel"}, n : Nat, late : BOOLEAN]
      BY <2>2 DEF Command
    <3>2. PICK d : d = [c EXCEPT !.late = TRUE]
      OBVIOUS
    <3>3. d \in [kind : {"Cancel"}, n : Nat, late : BOOLEAN] /\ d.kind = c.kind /\ d.late = TRUE
      BY <3>1, <3>2, TRUE \in BOOLEAN
    <3>4. r[i] = d
      BY <1>2, <2>1, <2>2, <3>2
    <3> QED
      BY <2>1, <3>3, <3>4 DEF Command
  <2>3. CASE c.kind # "Cancel"
    BY <1>2, <2>1, <2>3
  <2> QED
    BY <2>2, <2>3
<1>4. r \in Seq(Command)
  <2>1. r = [i \in 1..Len(q) |-> r[i]]
    BY <1>1 DEF Later
  <2>2. r \in [1..Len(q) -> Command]
    BY <1>3, <2>1
  <2> QED
    BY <1>1, <2>2, SeqDef
<1> HIDE DEF r
<1>5. ~Prompt(r)
  BY <1>1, <1>3 DEF Prompt
<1>6. \A k : Holds(r, k) <=> Holds(q, k)
  BY <1>1, <1>3 DEF Holds
<1>7. \A k : Once(q, k) => Once(r, k)
  BY <1>1, <1>3 DEF Once
<1> QED
  BY <1>4, <1>5, <1>6, <1>7 DEF r

\* What is on its way does not change what the mailbox says last.
LEMMA LastHas == \A q, x : Last(q, x) => Has(q, x)
BY DEF Last, Has

-----------------------------------------------------------------------------
(* Two ways a handler of the agent ends: the next turn begins, or the agent rests *)

\* The types, one by one.
LEMMA Types ==
    /\ TypeOK <=>
         /\ live \in BOOLEAN /\ fatal \in BOOLEAN /\ answered \in BOOLEAN
         /\ hook \in BOOLEAN /\ hookFired \in BOOLEAN
         /\ phase \in TurnPhase
         /\ box \in Seq(News)
         /\ waiting \subseteq Waiting /\ Cardinality(waiting) <= 1
         /\ mem \in Memory /\ staged \subseteq Memory
         /\ abox \in Seq(Command)
         /\ run \in Run
         /\ acks \subseteq Nat
         /\ continuations \in 0..MaxStopContinuations
         /\ astray \subseteq {"next", "preparing"}
         /\ spent \in [{"messages", "answers", "ends", "cancels", "timeouts", "crashes"} -> Nat]
    /\ TypeOK' <=>
         /\ live' \in BOOLEAN /\ fatal' \in BOOLEAN /\ answered' \in BOOLEAN
         /\ hook' \in BOOLEAN /\ hookFired' \in BOOLEAN
         /\ phase' \in TurnPhase
         /\ box' \in Seq(News)
         /\ waiting' \subseteq Waiting /\ Cardinality(waiting') <= 1
         /\ mem' \in Memory /\ staged' \subseteq Memory
         /\ abox' \in Seq(Command)
         /\ run' \in Run
         /\ acks' \subseteq Nat
         /\ continuations' \in 0..MaxStopContinuations
         /\ astray' \subseteq {"next", "preparing"}
         /\ spent' \in [{"messages", "answers", "ends", "cancels", "timeouts", "crashes"} -> Nat]
<1>1. \A a, b, c, d, e : {a, b, c, d, e} \subseteq BOOLEAN <=>
        a \in BOOLEAN /\ b \in BOOLEAN /\ c \in BOOLEAN /\ d \in BOOLEAN /\ e \in BOOLEAN
  OBVIOUS
<1> QED
  BY <1>1, Zenon DEF TypeOK

\* What the session hears when a handler ends.
LEMMA Heard1 ==
    ASSUME NEW q \in Seq(News), NEW a \in News, NEW b \in News
    PROVE  /\ q \o <<>> = q
           /\ q \o <<a>> = Append(q, a)
           /\ q \o (<<>> \o <<b>>) = Append(q, b)
           /\ q \o (<<a>> \o <<b>>) = Append(Append(q, a), b)
<1>1. /\ <<>> \in Seq(News) /\ <<a>> \in Seq(News) /\ <<b>> \in Seq(News)
  OBVIOUS
<1>2. q \o <<>> = q /\ <<>> \o <<b>> = <<b>>
  BY <1>1, ConcatEmptySeq
<1>3. \A p \in Seq(News) : p \o <<b>> = Append(p, b)
  BY AppendIsConcat
<1>4. q \o <<a>> = Append(q, a)
  BY AppendIsConcat
<1>5. q \o (<<a>> \o <<b>>) = (q \o <<a>>) \o <<b>>
  BY <1>1, ConcatAssociative
<1>6. Append(q, a) \in Seq(News)
  BY AppendProperties
<1> QED
  BY <1>2, <1>3, <1>4, <1>5, <1>6

\* What a handler of the agent leaves alone of the session.
Unmoved ==
  /\ live /\ live' = live /\ phase' = phase /\ fatal' = fatal /\ waiting' = waiting
  /\ astray' = astray /\ spent' = spent

\* A mailbox of the agent with nothing in it from a turn, and no cancel that is new.
Clear(rest) ==
  /\ rest \in Seq(Command)
  /\ \A k \in Tasks : ~Holds(rest, k)
  /\ Prompt(rest) => Prompt(abox)

\* A mailbox of the session to which no start and no interruption was added.
Speaks(told) ==
  /\ told \in Seq(News)
  /\ Has(told, "Started") => Has(box, "Started")
  /\ Has(told, "Interrupted") => Has(box, "Interrupted")
  /\ Quiet(told) \/ \E x \in Telling : Last(told, x)

\* What Parked and Ended ask of an agent that rests with journal m.
ParkIn(told, m) ==
  spent.crashes = 0 =>
    IF m.asks THEN Last(told, "Asked") \/ (Quiet(told) /\ phase = "AwaitingInput" /\ waiting = {})
    ELSE ~Last(told, "Asked") /\ (Quiet(told) => phase # "AwaitingInput")
ToldIn(told) ==
  \/ Has(told, "FailedForGood")
  \/ \E x \in Telling : x # "Started" /\ Last(told, x)
  \/ Quiet(told) /\ (phase # "Running" \/ waiting # {})
EndIn(told, rest, m) ==
  \/ Excused \/ ToldIn(told)
  \/ Has(told, "ContinueAfterStop") \/ Holds(rest, "Enqueue")
  \/ Holds(rest, "Drain") /\ m.queue # {}

\* The agent's record of a handler's end, and what is kept of it.
LEMMA EndsKeeps ==
    ASSUME NEW news, NEW m \in Memory, TypeOK, Ends(news, m)
    PROVE  /\ Kept' = {m} /\ mem' \in Memory /\ staged' \subseteq Memory
           /\ box' = box \o news
<1>1. mem \in Memory
  BY DEF TypeOK
<1>2. CASE news # <<>> /\ m # mem
  BY <1>1, <1>2 DEF Ends, Kept
<1>3. CASE ~(news # <<>> /\ m # mem)
  BY <1>1, <1>3 DEF Ends, Kept
<1> QED
  BY <1>2, <1>3

\* A turn that begins is announced last, and the cancels on their way are not for it.
LEMMA Begins ==
    ASSUME Inv, Unmoved, hook' = FALSE, answered' \in BOOLEAN, acks' \subseteq Nat,
           continuations' \in 0..MaxStopContinuations,
           NEW news, NEW m \in Memory, NEW rest, NEW told,
           Clear(rest), Speaks(told),
           box \o (news \o <<"Started">>) = Append(told, "Started"),
           BeginTurn(news, m, rest)
    PROVE  Inv'
<1>1. PICK n : n = [queue |-> {}, asks |-> FALSE, inflight |-> TRUE]
  OBVIOUS
<1>2. n \in Memory /\ ~n.asks
  BY <1>1 DEF Memory, Items
<1>3. Ends(news \o <<"Started">>, n) /\ abox' = Later(rest)
  BY <1>1 DEF BeginTurn, Later
<1>4. TypeOK
  BY DEF Inv
<1>5. PICK said : said = news \o <<"Started">>
  OBVIOUS
<1>6. Ends(said, n)
  BY <1>3, <1>5
<1>7. /\ Kept' = {n} /\ mem' \in Memory /\ staged' \subseteq Memory
      /\ box' = box \o said
  BY <1>2, <1>4, <1>6, EndsKeeps
<1>8. box' = Append(told, "Started")
  BY <1>5, <1>7
<1>9. "Started" \in News /\ "Started" \in Telling /\ "Asked" \in Telling
  BY DEF News, Telling
<1>10. /\ box' \in Seq(News)
       /\ \A y : Has(box', y) <=> Has(told, y) \/ "Started" = y
       /\ Last(box', "Started") /\ ~Quiet(box')
       /\ \A y \in Telling : Last(box', y) => y = "Started"
  BY <1>8, <1>9, NewsJoined DEF Speaks
<1>11. /\ abox' \in Seq(Command) /\ ~Prompt(abox')
       /\ \A k \in Tasks : ~Holds(abox', k)
  BY <1>3, LaterMail DEF Clear
<1>12. \A k \in Tasks : Once(abox', k)
  BY <1>11 DEF Once, Holds
<1>13. /\ run' \in Run /\ run'.stage \in {"preparing", "providing"} /\ ~run'.cancelled
  <2>1. PICK r : r = run'
    OBVIOUS
  <2>2. \/ r = [NoRun EXCEPT !.stage = "preparing"]
        \/ r = [NoRun EXCEPT !.stage = "providing"]
    BY <2>1 DEF BeginTurn
  <2>3. /\ r \in Run /\ r.stage \in {"preparing", "providing"} /\ r.cancelled = FALSE
    BY <2>2 DEF Run, NoRun, TurnEnd
  <2> QED
    BY <2>1, <2>3
<1>14. hookFired' \in BOOLEAN
  <2>1. hookFired \in BOOLEAN
    BY <1>4, Types
  <2>2. hookFired' = TRUE \/ hookFired' = hookFired
    BY DEF BeginTurn
  <2> QED
    BY <2>1, <2>2, Zenon
<1>15. TypeOK'
  <2>1. hook' \in BOOLEAN
    BY FALSE \in BOOLEAN, Zenon
  <2> QED
    BY <1>4, <1>7, <1>10, <1>11, <1>13, <1>14, <2>1, Types DEF Unmoved
<1>16. Placed'
  <2>1. Has(told, "Interrupted") => spent.crashes > 0
    BY DEF Inv, Placed, Speaks
  <2> QED
    BY <1>2, <1>7, <1>9, <1>10, <1>11, <1>12, <1>13, <2>1 DEF Placed, Unmoved
<1>17. Shown'
  BY <1>10 DEF Shown, Visible
<1>18. Aimed'
  BY <1>11, <1>13 DEF Aimed
<1>19. Ended'
  BY <1>13 DEF Ended
<1>20. Parked'
  BY <1>2, <1>7, <1>9, <1>10 DEF Parked, ParkShown
<1> QED
  BY <1>15, <1>16, <1>17, <1>18, <1>19, <1>20 DEF Inv

\* An agent that rests has nothing left to show.
LEMMA RestsWell ==
    ASSUME Inv, Unmoved, hook' = FALSE, answered' \in BOOLEAN, acks' \subseteq Nat,
           continuations' \in 0..MaxStopContinuations, hookFired' = hookFired,
           NEW news, NEW m \in Memory, NEW rest, NEW told,
           Clear(rest), Speaks(told), ParkIn(told, m), EndIn(told, rest, m),
           box \o news = told,
           Ends(news, m), run' = NoRun, abox' = rest
    PROVE  Inv'
<1>1. TypeOK
  BY DEF Inv
<1>2. /\ Kept' = {m} /\ mem' \in Memory /\ staged' \subseteq Memory
      /\ box' = told
  BY <1>1, EndsKeeps
<1>3. run' \in Run /\ run'.stage = "none" /\ run'.cancelled = FALSE
  <2>1. PICK r : r = NoRun
    OBVIOUS
  <2>2. r \in Run /\ r.stage = "none" /\ r.cancelled = FALSE
    BY <2>1 DEF NoRun, Run, TurnEnd
  <2> QED
    BY <2>1, <2>2
<1>4. TypeOK'
  <2>1. hook' \in BOOLEAN
    BY FALSE \in BOOLEAN, Zenon
  <2> QED
    BY <1>1, <1>2, <1>3, <2>1, Types DEF Unmoved, Clear, Speaks
<1>5. Placed'
  <2>1. \A k \in Tasks : Once(rest, k)
    BY DEF Clear, Once, Holds
  <2>2. Has(told, "Interrupted") => spent.crashes > 0
    BY DEF Inv, Placed, Speaks
  <2> QED
    BY <1>2, <1>3, <2>1, <2>2 DEF Placed, Unmoved, Clear, Speaks
<1>6. Shown'
  BY <1>3 DEF Shown, Working
<1>7. Aimed'
  BY <1>2, <1>3 DEF Aimed, Unmoved, Clear, Speaks, Inv
<1>8. Ended'
  BY <1>2, <1>3 DEF Ended, EndIn, ToldIn, Excused, Told, Restarts, Unmoved
<1>9. Parked'
  BY <1>2 DEF Parked, ParkShown, ParkIn, Unmoved
<1> QED
  BY <1>4, <1>5, <1>6, <1>7, <1>8, <1>9 DEF Inv

\* try_drain: one or the other.
LEMMA Drains ==
    ASSUME Inv, Unmoved, hook' = FALSE, answered' \in BOOLEAN, acks' \subseteq Nat,
           continuations' \in 0..MaxStopContinuations,
           NEW news, NEW m \in Memory, NEW rest, NEW told,
           Clear(rest), Speaks(told), ParkIn(told, m),
           ~Startable(m) => EndIn(told, rest, m),
           box \o news = told,
           box \o (news \o <<"Started">>) = Append(told, "Started"),
           TryDrain(news, m, rest)
    PROVE  Inv'
<1>1. CASE Startable(m)
  <2>1. BeginTurn(news, m, rest)
    BY <1>1 DEF TryDrain
  <2> QED
    BY <2>1, Begins
<1>2. CASE ~Startable(m)
  <2>1. Ends(news, m) /\ run' = NoRun /\ abox' = rest /\ hookFired' = hookFired
    BY <1>2 DEF TryDrain
  <2> QED
    BY <1>2, <2>1, RestsWell
<1> QED
  BY <1>1, <1>2

-----------------------------------------------------------------------------
(* Every step of the session keeps it *)

\* What is used up of a bound.
LEMMA Counted ==
    ASSUME TypeOK
    PROVE  /\ spent' = [spent EXCEPT !.messages = @ + 1] \/ spent' = [spent EXCEPT !.answers = @ + 1]
              \/ spent' = [spent EXCEPT !.ends = @ + 1] \/ spent' = [spent EXCEPT !.cancels = @ + 1]
              \/ spent' = [spent EXCEPT !.timeouts = @ + 1]
              \/ spent' = [spent EXCEPT !.ends = @ + 1, !.cancels = @ + 1]
              \/ spent' = spent
              => /\ spent' \in [{"messages", "answers", "ends", "cancels", "timeouts", "crashes"} -> Nat]
                 /\ spent'.crashes = spent.crashes
           /\ spent' = [spent EXCEPT !.crashes = @ + 1]
              => /\ spent' \in [{"messages", "answers", "ends", "cancels", "timeouts", "crashes"} -> Nat]
                 /\ spent'.crashes > 0
           /\ spent.cancels \in Nat
<1>1. PICK s : s = spent
  OBVIOUS
<1>2. PICK t : t = spent'
  OBVIOUS
<1>3. s \in [{"messages", "answers", "ends", "cancels", "timeouts", "crashes"} -> Nat]
  BY <1>1, Types
<1>4. \A n \in Nat : n + 1 \in Nat /\ n + 1 > 0
  OBVIOUS
<1>5. ASSUME \/ t = [s EXCEPT !.messages = @ + 1] \/ t = [s EXCEPT !.answers = @ + 1]
             \/ t = [s EXCEPT !.ends = @ + 1] \/ t = [s EXCEPT !.cancels = @ + 1]
             \/ t = [s EXCEPT !.timeouts = @ + 1]
             \/ t = [s EXCEPT !.ends = @ + 1, !.cancels = @ + 1]
             \/ t = s
      PROVE  /\ t \in [{"messages", "answers", "ends", "cancels", "timeouts", "crashes"} -> Nat]
             /\ t.crashes = s.crashes
  BY <1>3, <1>4, <1>5
<1>6. ASSUME t = [s EXCEPT !.crashes = @ + 1]
      PROVE  /\ t \in [{"messages", "answers", "ends", "cancels", "timeouts", "crashes"} -> Nat]
             /\ t.crashes > 0
  BY <1>3, <1>4, <1>6
<1>7. s.cancels \in Nat
  BY <1>3
<1> QED
  BY <1>1, <1>2, <1>5, <1>6, <1>7

\* A command that belongs to no turn and cancels nothing is put to the agent.
LEMMA Puts ==
    ASSUME Inv, live, NEW cmd \in Command, cmd.kind \in {"Enqueue", "Drain", "Answer"}, Tell(cmd),
           spent' \in [{"messages", "answers", "ends", "cancels", "timeouts", "crashes"} -> Nat],
           spent'.crashes = spent.crashes,
           UNCHANGED <<live, session, mem, staged, run, acks, hook, hookFired, continuations, astray>>
    PROVE  Inv'
<1> USE DEF session
<1>1. TypeOK /\ abox \in Seq(Command)
  BY Types DEF Inv
<1>2. /\ abox' \in Seq(Command)
      /\ \A k : Holds(abox', k) <=> Holds(abox, k) \/ cmd.kind = k
      /\ \A k : Once(abox, k) /\ ~(Holds(abox, k) /\ cmd.kind = k) => Once(abox', k)
      /\ Prompt(abox') <=> Prompt(abox)
  BY <1>1, CommandJoined DEF Tell
<1>3. Kept' = Kept
  BY DEF Kept
<1>4. TypeOK'
  BY <1>1, <1>2, Types
<1>5. Placed'
  <2>1. \A k \in Tasks : Once(abox', k) /\ (Holds(abox', k) => Waits(k, run.stage))
    BY <1>2 DEF Inv, Placed, Tasks
  <2> QED
    BY <1>3, <2>1 DEF Inv, Placed
<1>6. Shown' /\ Aimed'
  BY <1>2 DEF Inv, Shown, Working, Visible, Aimed
<1>7. Ended'
  BY <1>2, <1>3 DEF Inv, Ended, Excused, Told, Restarts
<1>8. Parked'
  BY <1>3 DEF Inv, Parked, ParkShown
<1> QED
  BY <1>4, <1>5, <1>6, <1>7, <1>8 DEF Inv

LEMMA PutStep ==
    ASSUME Inv, NEW item \in {"User", "Report"}, Put(item)
    PROVE  Inv'
<1>1. PICK cmd : cmd = [kind |-> "Enqueue", item |-> item]
  OBVIOUS
<1>2. cmd \in Command /\ cmd.kind = "Enqueue"
  BY <1>1 DEF Command, Items
<1>3. /\ spent' \in [{"messages", "answers", "ends", "cancels", "timeouts", "crashes"} -> Nat]
      /\ spent'.crashes = spent.crashes
  BY Counted DEF Inv, Put
<1>4. Tell(cmd)
  BY <1>1 DEF Put
<1> QED
  BY <1>2, <1>3, <1>4, Puts DEF Put, SessionFree

LEMMA AnswerStep ==
    ASSUME Inv, Answer
    PROVE  Inv'
<1>1. PICK cmd : cmd = [kind |-> "Answer"]
  OBVIOUS
<1>2. cmd \in Command /\ cmd.kind = "Answer"
  BY <1>1 DEF Command
<1>3. /\ spent' \in [{"messages", "answers", "ends", "cancels", "timeouts", "crashes"} -> Nat]
      /\ spent'.crashes = spent.crashes
  BY Counted DEF Inv, Answer
<1>4. Tell(cmd)
  BY <1>1 DEF Answer
<1> QED
  BY <1>2, <1>3, <1>4, Puts DEF Answer, SessionFree

\* cancel_agent: the turn shown will be met, and no other is announced.
LEMMA Cancels ==
    ASSUME Inv, live, waiting = {}, phase = "Running",
           NEW why \in {"Stop", "Halt"}, CancelAgent(why),
           box' \in Seq(News), \A x : x # "Halt" => (Has(box', x) <=> Has(box, x)),
           \A y \in Telling : Last(box', y) <=> Last(box, y), Quiet(box') <=> Quiet(box),
           spent' \in [{"messages", "answers", "ends", "cancels", "timeouts", "crashes"} -> Nat],
           spent'.crashes = spent.crashes,
           UNCHANGED <<live, phase, fatal, mem, staged, run, acks, hook, hookFired,
                       continuations, astray>>
    PROVE  Inv'
<1>1. TypeOK /\ abox \in Seq(Command) /\ spent.cancels \in Nat
  BY Types, Counted DEF Inv
<1>2. PICK n \in Nat : n = spent.cancels
  BY <1>1
<1>3. PICK late \in BOOLEAN : late = \E i \in DOMAIN box : box[i] = "Started"
  OBVIOUS
<1>4. PICK cmd : cmd = [kind |-> "Cancel", n |-> n, late |-> late]
  OBVIOUS
<1>5. cmd \in Command /\ cmd.kind = "Cancel" /\ (cmd.late <=> Has(box, "Started"))
  BY <1>3, <1>4 DEF Command, Has
<1>6. PICK w : w = [why |-> why, n |-> n]
  OBVIOUS
<1>7. w \in Waiting
  BY <1>6 DEF Waiting
<1>8. waiting' = {w} /\ answered' = FALSE /\ abox' = Append(abox, cmd)
  BY <1>2, <1>3, <1>4, <1>6 DEF CancelAgent, Tell
<1>9. /\ abox' \in Seq(Command)
      /\ \A k : Holds(abox', k) <=> Holds(abox, k) \/ "Cancel" = k
      /\ \A k : Once(abox, k) /\ ~(Holds(abox, k) /\ "Cancel" = k) => Once(abox', k)
      /\ Prompt(abox') => Prompt(abox) \/ ~Has(box, "Started")
  BY <1>1, <1>5, <1>8, CommandJoined
<1>10. Kept' = Kept
  BY DEF Kept
<1>11. waiting' \subseteq Waiting /\ Cardinality(waiting') <= 1 /\ waiting' # {}
  <2>1. Cardinality({w}) = 1
    BY FS_Singleton
  <2> QED
    BY <1>7, <1>8, <2>1
<1>12. TypeOK'
  <2>1. answered' \in BOOLEAN
    BY <1>8, FALSE \in BOOLEAN, Zenon
  <2> QED
    BY <1>1, <1>9, <1>11, <2>1, Types
<1>13. Placed'
  <2>1. \A k \in Tasks : Once(abox', k) /\ (Holds(abox', k) => Waits(k, run.stage))
    BY <1>9 DEF Inv, Placed, Tasks
  <2> QED
    BY <1>10, <2>1 DEF Inv, Placed
<1>14. Shown'
  BY <1>9 DEF Shown, Visible
<1>15. Aimed'
  BY <1>9, <1>11 DEF Inv, Aimed
<1>16. Ended'
  BY <1>9, <1>10, <1>11 DEF Inv, Ended, Excused, Told, Restarts
<1>17. Parked'
  <2>1. "Asked" \in Telling
    BY DEF Telling
  <2> QED
    BY <1>10, <2>1 DEF Inv, Parked, ParkShown
<1> QED
  BY <1>12, <1>13, <1>14, <1>15, <1>16, <1>17 DEF Inv

LEMMA StopStep ==
    ASSUME Inv, Stop
    PROVE  Inv'
<1>1. /\ spent' \in [{"messages", "answers", "ends", "cancels", "timeouts", "crashes"} -> Nat]
      /\ spent'.crashes = spent.crashes
  BY Counted DEF Inv, Stop
<1>2. box' \in Seq(News) /\ box' = box
  BY Types DEF Inv, Stop
<1> QED
  BY <1>1, <1>2, Cancels DEF Stop, SessionFree

\* A Stop or a halt that goes on has waited, and the phase is not Running after it.
LEMMA ReturnStep ==
    ASSUME Inv, live, NEW w \in waiting, CancelReturns(w),
           spent' \in [{"messages", "answers", "ends", "cancels", "timeouts", "crashes"} -> Nat],
           spent'.crashes = spent.crashes
    PROVE  Inv'
<1> USE DEF CancelReturns, agent
<1>1. Kept' = Kept
  BY DEF Kept
<1>2. phase' \in TurnPhase /\ phase' \notin {"Running", "AwaitingInput"} /\ waiting # {}
  BY DEF TurnPhase
<1>3. waiting' \subseteq Waiting /\ Cardinality(waiting') <= 1
  BY FS_EmptySet
<1>4. TypeOK'
  BY <1>2, <1>3, Types DEF Inv
<1>5. Placed'
  BY <1>1 DEF Inv, Placed
<1>6. Shown' /\ Aimed'
  BY <1>2 DEF Inv, Shown, Working, Visible, Aimed
<1>7. Ended'
  BY <1>1, <1>2 DEF Inv, Ended, Excused, Told, Restarts
<1>8. Parked'
  BY <1>1, <1>2 DEF Inv, Parked, ParkShown
<1> QED
  BY <1>4, <1>5, <1>6, <1>7, <1>8 DEF Inv

LEMMA AnsweredStep ==
    ASSUME Inv, CancelAnswered
    PROVE  Inv'
<1>1. PICK w \in waiting : CancelReturns(w)
  BY DEF CancelAnswered
<1>2. /\ spent' \in [{"messages", "answers", "ends", "cancels", "timeouts", "crashes"} -> Nat]
      /\ spent'.crashes = spent.crashes
  BY Counted DEF Inv, CancelAnswered
<1> QED
  BY <1>1, <1>2, ReturnStep DEF CancelAnswered

LEMMA TimeoutStep ==
    ASSUME Inv, CancelTimesOut
    PROVE  Inv'
<1>1. PICK w \in waiting : CancelReturns(w)
  BY DEF CancelTimesOut
<1>2. /\ spent' \in [{"messages", "answers", "ends", "cancels", "timeouts", "crashes"} -> Nat]
      /\ spent'.crashes = spent.crashes
  BY Counted DEF Inv, CancelTimesOut
<1> QED
  BY <1>1, <1>2, ReturnStep DEF CancelTimesOut

\* The session reads of a start or an end: the phase follows what was said last.
LEMMA OutcomeStep ==
    ASSUME Inv, AgentOutcome
    PROVE  Inv'
<1> USE DEF agent
<1>1. TypeOK /\ box \in Seq(News) /\ phase \in TurnPhase
  BY Types DEF Inv
<1>2. PICK x : x = Head(box)
  OBVIOUS
<1>3. PICK q : q = Tail(box)
  OBVIOUS
<1>4. /\ box # <<>> /\ live /\ waiting = {} /\ box' = q
      /\ x \in {"Started", "Concluded", "Asked", "Failed", "FailedForGood", "Interrupted"}
  BY <1>2, <1>3 DEF AgentOutcome, Heard, SessionFree, News
<1>5. /\ q \in Seq(News)
      /\ \A y : Has(box, y) <=> Has(q, y) \/ x = y
      /\ x \in Telling => ~Quiet(box)
      /\ x \notin Telling => (Quiet(q) <=> Quiet(box))
      /\ Quiet(box) => Quiet(q)
      /\ \A y \in Telling :
           /\ Last(q, y) => Last(box, y)
           /\ Last(box, y) => Last(q, y) \/ (Quiet(q) /\ x = y)
           /\ Quiet(q) /\ x = y => Last(box, y)
  BY <1>1, <1>2, <1>3, <1>4, NewsLeft
<1>6. PICK f \in BOOLEAN : f = (x = "FailedForGood")
  OBVIOUS
<1>7. fatal' = (fatal \/ f)
  BY <1>2, <1>6 DEF AgentOutcome
<1>8. /\ x = "Started" => phase' = "Running"
      /\ x = "Concluded" => phase' = "Idle"
      /\ x = "Asked" => phase' = "AwaitingInput"
      /\ x = "Failed" => phase' = "Failed"
      /\ x = "FailedForGood" => phase' = phase
      /\ x = "Interrupted" => phase' = IF phase = "Running" THEN "Idle" ELSE phase
  BY <1>2 DEF AgentOutcome, PhaseAfter
<1>9. Kept' = Kept
  BY DEF Kept, AgentOutcome
<1>10. TypeOK'
  <2>1. fatal' \in BOOLEAN
    BY <1>1, <1>6, <1>7, Types
  <2>2. phase' \in TurnPhase
    BY <1>1, <1>4, <1>8 DEF TurnPhase
  <2> QED
    BY <1>1, <1>4, <1>5, <2>1, <2>2, Types DEF AgentOutcome
<1>11. Placed'
  <2>1. Quiet(q) \/ \E y \in Telling : Last(q, y)
    BY <1>5 DEF Inv, Placed
  <2> QED
    BY <1>4, <1>5, <1>9, <2>1 DEF Inv, Placed, AgentOutcome
<1>12. Shown'
  <2>1. "Started" \in Telling
    BY DEF Telling
  <2> QED
    BY <1>4, <1>5, <1>8, <2>1 DEF Inv, Shown, Working, Visible, AgentOutcome, Telling
<1>13. Aimed'
  BY <1>4, <1>5, <1>8 DEF Inv, Aimed, AgentOutcome
<1>14. Ended'
  <2>1. Excused => Excused'
    BY <1>7 DEF Excused, AgentOutcome
  <2>2. Told => Told' \/ Excused'
    <3>1. CASE Has(box, "FailedForGood")
      BY <1>4, <1>5, <1>6, <1>7, <3>1 DEF Told, Excused
    <3>2. ASSUME NEW y \in Telling, y # "Started", Last(box, y) PROVE Told'
      <4>1. CASE Last(q, y)
        BY <1>4, <3>2, <4>1 DEF Told
      <4>2. CASE Quiet(q) /\ x = y
        BY <1>4, <1>8, <3>2, <4>2 DEF Told, Telling
      <4> QED
        BY <1>5, <3>2, <4>1, <4>2
    <3>3. CASE Quiet(box) /\ (phase # "Running" \/ waiting # {})
      BY <1>4, <1>5, <1>8, <3>3 DEF Told, Telling
    <3> QED
      BY <3>1, <3>2, <3>3 DEF Told
  <2>3. Restarts => Restarts'
    BY <1>4, <1>5, <1>9 DEF Restarts, AgentOutcome
  <2> QED
    BY <2>1, <2>2, <2>3 DEF Inv, Ended, AgentOutcome
<1>15. Parked'
  <2>1. ASSUME spent.crashes = 0, NEW m \in Kept PROVE ParkShown(m)'
    <3>1. ParkShown(m)
      BY <2>1 DEF Inv, Parked
    <3>2. x # "Interrupted"
      <4>1. spent.crashes \in Nat
        BY <1>1, Types
      <4> QED
        BY <1>5, <2>1, <4>1 DEF Inv, Placed
    <3>3. "Asked" \in Telling /\ "Interrupted" \in Telling
      BY DEF Telling
    <3> QED
      BY <1>4, <1>5, <1>8, <3>1, <3>2, <3>3 DEF ParkShown, AgentOutcome, Telling
  <2> QED
    BY <1>9, <2>1 DEF Parked, AgentOutcome
<1> QED
  BY <1>10, <1>11, <1>12, <1>13, <1>14, <1>15 DEF Inv

\* What a message that tells nothing of the turn leaves behind it.
LEMMA Aside ==
    ASSUME Inv, NEW x \in {"Halt", "ContinueAfterStop"}, Heard({x})
    PROVE  /\ box' \in Seq(News) /\ live /\ waiting = {}
           /\ \A y : Has(box, y) <=> Has(box', y) \/ x = y
           /\ \A y \in Telling : Last(box', y) <=> Last(box, y)
           /\ Quiet(box') <=> Quiet(box)
           /\ Quiet(box') \/ \E y \in Telling : Last(box', y)
<1>1. box \in Seq(News) /\ box # <<>> /\ box' = Tail(box) /\ Head(box) = x
  BY Types DEF Inv, Heard
<1>2. x \notin Telling
  BY DEF Telling
<1>3. /\ box' \in Seq(News)
      /\ \A y : Has(box, y) <=> Has(box', y) \/ x = y
      /\ \A y \in Telling : Last(box', y) <=> Last(box, y)
      /\ Quiet(box') <=> Quiet(box)
  BY <1>1, <1>2, NewsLeft
<1> QED
  BY <1>3 DEF Inv, Placed, Heard, SessionFree

LEMMA HaltStep ==
    ASSUME Inv, Halt
    PROVE  Inv'
<1>1. /\ box' \in Seq(News) /\ live /\ waiting = {}
      /\ \A y : Has(box, y) <=> Has(box', y) \/ "Halt" = y
      /\ \A y \in Telling : Last(box', y) <=> Last(box, y)
      /\ Quiet(box') <=> Quiet(box)
      /\ Quiet(box') \/ \E y \in Telling : Last(box', y)
  BY Aside DEF Halt
<1>2. CASE phase = "Running"
  <2>1. CancelAgent("Halt") /\ spent' = [spent EXCEPT !.cancels = @ + 1]
    BY <1>2 DEF Halt
  <2>2. /\ spent' \in [{"messages", "answers", "ends", "cancels", "timeouts", "crashes"} -> Nat]
        /\ spent'.crashes = spent.crashes
    BY <2>1, Counted DEF Inv
  <2>3. \A y : y # "Halt" => (Has(box', y) <=> Has(box, y))
    BY <1>1
  <2> QED
    BY <1>1, <1>2, <2>1, <2>2, <2>3, Cancels DEF Halt
<1>3. CASE phase # "Running"
  <2>1. UNCHANGED <<live, phase, fatal, waiting, answered, agent, astray, spent>>
    BY <1>3 DEF Halt, agent
  <2>2. Kept' = Kept
    BY <2>1 DEF Kept, agent
  <2>3. TypeOK'
    BY <1>1, <2>1, Types DEF Inv, agent
  <2>4. Placed'
    BY <1>1, <2>1, <2>2 DEF Inv, Placed, agent
  <2>5. Shown' /\ Aimed'
    <3>1. "Started" \in Telling
      BY DEF Telling
    <3> QED
      BY <1>1, <2>1, <3>1 DEF Inv, Shown, Working, Visible, Aimed, agent
  <2>6. Ended'
    BY <1>1, <2>1, <2>2 DEF Inv, Ended, Excused, Told, Restarts, agent
  <2>7. Parked'
    <3>1. "Asked" \in Telling
      BY DEF Telling
    <3> QED
      BY <1>1, <2>1, <2>2, <3>1 DEF Inv, Parked, ParkShown, agent
  <2> QED
    BY <2>3, <2>4, <2>5, <2>6, <2>7 DEF Inv
<1> QED
  BY <1>2, <1>3

\* A block of the Stop hooks is turned into a message that starts the turn again.
LEMMA ContinueStep ==
    ASSUME Inv, ContinueAfterStop
    PROVE  Inv'
<1>1. /\ box' \in Seq(News) /\ live /\ waiting = {}
      /\ \A y : Has(box, y) <=> Has(box', y) \/ "ContinueAfterStop" = y
      /\ \A y \in Telling : Last(box', y) <=> Last(box, y)
      /\ Quiet(box') <=> Quiet(box)
      /\ Quiet(box') \/ \E y \in Telling : Last(box', y)
  BY Aside DEF ContinueAfterStop
<1>2. PICK cmd : cmd = [kind |-> "Enqueue", item |-> "Continue"]
  OBVIOUS
<1>3. cmd \in Command /\ cmd.kind = "Enqueue"
  BY <1>2 DEF Command, Items
<1>4. abox' = Append(abox, cmd) /\ TypeOK /\ abox \in Seq(Command)
  BY <1>2, Types DEF ContinueAfterStop, Tell, Inv
<1>5. /\ abox' \in Seq(Command)
      /\ \A k : Holds(abox', k) <=> Holds(abox, k) \/ "Enqueue" = k
      /\ \A k : Once(abox, k) /\ ~(Holds(abox, k) /\ "Enqueue" = k) => Once(abox', k)
      /\ Prompt(abox') <=> Prompt(abox)
  BY <1>3, <1>4, CommandJoined
<1>6. Kept' = Kept
  BY DEF Kept, ContinueAfterStop
<1>7. TypeOK'
  BY <1>1, <1>4, <1>5, Types DEF ContinueAfterStop
<1>8. Placed'
  <2>1. \A k \in Tasks : Once(abox', k) /\ (Holds(abox', k) => Waits(k, run.stage))
    BY <1>5 DEF Inv, Placed, Tasks
  <2> QED
    BY <1>1, <1>6, <2>1 DEF Inv, Placed, ContinueAfterStop
<1>9. Shown' /\ Aimed'
  <2>1. "Started" \in Telling
    BY DEF Telling
  <2> QED
    BY <1>1, <1>5, <2>1 DEF Inv, Shown, Working, Visible, Aimed, ContinueAfterStop
<1>10. Ended'
  BY <1>1, <1>5, <1>6 DEF Inv, Ended, Excused, Told, Restarts, ContinueAfterStop
<1>11. Parked'
  <2>1. "Asked" \in Telling
    BY DEF Telling
  <2> QED
    BY <1>1, <1>6, <2>1 DEF Inv, Parked, ParkShown, ContinueAfterStop
<1> QED
  BY <1>7, <1>8, <1>9, <1>10, <1>11 DEF Inv

-----------------------------------------------------------------------------
(* Every step of the agent keeps it *)

LEMMA PersistStep ==
    ASSUME Inv, Persist
    PROVE  Inv'
<1> USE DEF session
<1>1. TypeOK /\ mem' \in staged /\ staged' = {} /\ staged # {}
  BY DEF Inv, Persist
<1>2. \A m \in Kept' : m \in Kept
  BY <1>1 DEF Kept
<1>3. TypeOK'
  BY <1>1, Types DEF Persist
<1>4. Placed'
  BY <1>1, <1>2 DEF Inv, Placed, Persist
<1>5. Shown' /\ Aimed'
  BY DEF Inv, Shown, Working, Visible, Aimed, Persist
<1>6. Ended'
  BY <1>2 DEF Inv, Ended, Excused, Told, Restarts, Persist
<1>7. Parked'
  BY <1>2 DEF Inv, Parked, ParkShown, Persist
<1> QED
  BY <1>3, <1>4, <1>5, <1>6, <1>7 DEF Inv

\* What the agent's mailbox holds once a command was taken from it.
LEMMA Took ==
    ASSUME Inv, NEW kind, Receive(kind)
    PROVE  /\ TypeOK /\ live /\ staged = {} /\ ~hook /\ Kept = {mem} /\ mem \in Memory
           /\ Tail(abox) \in Seq(Command) /\ Head(abox) \in Command /\ Head(abox).kind = kind
           /\ \A k : Holds(abox, k) <=> Holds(Tail(abox), k) \/ kind = k
           /\ \A k : Once(abox, k) => Once(Tail(abox), k)
           /\ \A k : Once(abox, k) /\ kind = k => ~Holds(Tail(abox), k)
           /\ Prompt(abox) <=> Prompt(Tail(abox)) \/ (kind = "Cancel" /\ ~Head(abox).late)
           /\ \A k \in Tasks : Once(Tail(abox), k)
           /\ \A k \in Tasks : Holds(Tail(abox), k) => Waits(k, run.stage) /\ k # kind
           /\ kind \in Tasks => Waits(kind, run.stage) /\ \A k \in Tasks : ~Holds(Tail(abox), k)
<1>1. /\ TypeOK /\ abox \in Seq(Command) /\ mem \in Memory
      /\ live /\ staged = {} /\ ~hook /\ abox # <<>> /\ Head(abox).kind = kind
  BY Types DEF Inv, Receive, AgentFree
<1>2. /\ Tail(abox) \in Seq(Command) /\ Head(abox) \in Command
      /\ \A k : Holds(abox, k) <=> Holds(Tail(abox), k) \/ kind = k
      /\ \A k : Once(abox, k) => Once(Tail(abox), k)
      /\ \A k : Once(abox, k) /\ kind = k => ~Holds(Tail(abox), k)
      /\ Prompt(abox) <=> Prompt(Tail(abox)) \/ (kind = "Cancel" /\ ~Head(abox).late)
  BY <1>1, CommandLeft
<1>3. \A k \in Tasks : Once(abox, k) /\ (Holds(abox, k) => Waits(k, run.stage))
  BY DEF Inv, Placed
<1>4. \A k \in Tasks : Holds(Tail(abox), k) => Waits(k, run.stage) /\ k # kind
  BY <1>2, <1>3
<1>5. kind \in Tasks => Waits(kind, run.stage) /\ \A k \in Tasks : ~Holds(Tail(abox), k)
  BY <1>2, <1>3, <1>4 DEF Tasks, Waits
<1> QED
  BY <1>1, <1>2, <1>3, <1>4, <1>5 DEF Kept

LEMMA EnqueueStep ==
    ASSUME Inv, Enqueue
    PROVE  Inv'
<1> USE DEF session
<1>1. PICK c : c = Head(abox)
  OBVIOUS
<1>2. PICK q : q = Tail(abox)
  OBVIOUS
<1>3. /\ TypeOK /\ live /\ staged = {} /\ Kept = {mem} /\ mem \in Memory
      /\ q \in Seq(Command) /\ c \in Command /\ c.kind = "Enqueue"
      /\ \A k : Holds(abox, k) <=> Holds(q, k) \/ "Enqueue" = k
      /\ Prompt(abox) <=> Prompt(q)
      /\ \A k \in Tasks : Once(q, k) /\ (Holds(q, k) => Waits(k, run.stage))
  BY <1>1, <1>2, Took DEF Enqueue
<1>4. PICK d : d = [kind |-> "Drain"]
  OBVIOUS
<1>5. d \in Command /\ d.kind = "Drain"
  BY <1>4 DEF Command
<1>6. abox' = Append(q, d)
  BY <1>2, <1>4 DEF Enqueue
<1>7. /\ abox' \in Seq(Command)
      /\ \A k : Holds(abox', k) <=> Holds(q, k) \/ "Drain" = k
      /\ \A k : Once(q, k) /\ ~(Holds(q, k) /\ "Drain" = k) => Once(abox', k)
      /\ Prompt(abox') <=> Prompt(q)
  BY <1>3, <1>5, <1>6, CommandJoined
<1>8. PICK m \in Memory : m = mem
  BY <1>3
<1>9. PICK i \in Items : i = c.item
  BY <1>3 DEF Command
<1>10. PICK n : n = [m EXCEPT !.queue = @ \cup {i}]
  OBVIOUS
<1>11. n \in Memory /\ n.asks = m.asks /\ n.queue # {}
  BY <1>8, <1>9, <1>10 DEF Memory
<1>12. mem' = n
  BY <1>1, <1>8, <1>9, <1>10 DEF Enqueue
<1>13. Kept = {m} /\ Kept' = {n}
  BY <1>3, <1>8, <1>12 DEF Kept, Enqueue
<1>14. TypeOK'
  BY <1>3, <1>7, <1>11, <1>12, Types DEF Enqueue
<1>15. Placed'
  <2>1. \A k \in Tasks : Once(abox', k) /\ (Holds(abox', k) => Waits(k, run.stage))
    BY <1>3, <1>7 DEF Tasks
  <2> QED
    BY <1>3, <1>11, <1>13, <2>1 DEF Inv, Placed, Enqueue
<1>16. Shown' /\ Aimed'
  BY <1>3, <1>7 DEF Inv, Shown, Working, Visible, Aimed, Enqueue
<1>17. Ended'
  BY <1>7, <1>11, <1>13 DEF Inv, Ended, Excused, Told, Restarts, Enqueue
<1>18. Parked'
  BY <1>11, <1>13 DEF Inv, Parked, ParkShown, Enqueue
<1> QED
  BY <1>14, <1>15, <1>16, <1>17, <1>18 DEF Inv

\* A command that the turn in progress makes idle.
LEMMA Ignored ==
    ASSUME Inv, NEW kind \in {"Drain", "Answer"}, Receive(kind), abox' = Tail(abox),
           kind = "Drain" => run.stage # "none",
           UNCHANGED <<live, phase, fatal, waiting, answered, acks, hook, continuations,
                       astray, spent, box, mem, staged, run, hookFired>>
    PROVE  Inv'
<1>1. /\ TypeOK /\ live /\ ~hook
      /\ abox' \in Seq(Command)
      /\ \A k : Holds(abox, k) <=> Holds(abox', k) \/ kind = k
      /\ Prompt(abox) <=> Prompt(abox')
      /\ \A k \in Tasks : Once(abox', k) /\ (Holds(abox', k) => Waits(k, run.stage))
  BY Took
<1>2. Kept' = Kept
  BY DEF Kept
<1>3. TypeOK'
  BY <1>1, Types
<1>4. Placed'
  BY <1>1, <1>2 DEF Inv, Placed
<1>5. Shown' /\ Aimed'
  BY <1>1 DEF Inv, Shown, Working, Visible, Aimed
<1>6. Ended'
  <2>1. Excused' <=> Excused
    BY DEF Excused
  <2>2. Told' <=> Told
    BY DEF Told
  <2>3. run.stage = "none" => (Restarts => Restarts')
    BY <1>1, <1>2 DEF Restarts
  <2> QED
    BY <2>1, <2>2, <2>3 DEF Inv, Ended
<1>7. Parked'
  BY <1>2 DEF Inv, Parked, ParkShown
<1> QED
  BY <1>3, <1>4, <1>5, <1>6, <1>7 DEF Inv

\* What stays of the session when a handler tells it nothing but a start.
LEMMA Same ==
    ASSUME Inv, Unmoved
    PROVE  /\ Speaks(box)
           /\ box \o <<>> = box
           /\ box \o (<<>> \o <<"Started">>) = Append(box, "Started")
           /\ answered \in BOOLEAN /\ acks \subseteq Nat
           /\ continuations \in 0..MaxStopContinuations
           /\ \A m \in Kept : ParkIn(box, m)
<1>1. /\ box \in Seq(News) /\ "Started" \in News
      /\ answered \in BOOLEAN /\ acks \subseteq Nat
      /\ continuations \in 0..MaxStopContinuations
  BY Types DEF Inv, News
<1>2. Speaks(box)
  BY <1>1 DEF Inv, Placed, Speaks
<1>3. \A m \in Kept : ParkIn(box, m)
  BY DEF Inv, Parked, ParkShown, ParkIn
<1> QED
  BY <1>1, <1>2, <1>3, Heard1

\* Drain: an agent that is idle with a queue it may not start has a park to show for it.
LEMMA DrainStep ==
    ASSUME Inv, Drain
    PROVE  Inv'
<1>1. CASE run.stage # "none"
  BY <1>1, Ignored DEF Drain
<1>2. CASE run.stage = "none"
  <2>1. PICK q : q = Tail(abox)
    OBVIOUS
  <2>2. /\ TypeOK /\ live /\ staged = {} /\ ~hook /\ Kept = {mem} /\ mem \in Memory
        /\ q \in Seq(Command)
        /\ \A k : Holds(abox, k) <=> Holds(q, k) \/ "Drain" = k
        /\ Prompt(abox) <=> Prompt(q)
        /\ \A k \in Tasks : Holds(q, k) => Waits(k, run.stage)
    BY <2>1, Took DEF Drain
  <2>3. Clear(q)
    BY <1>2, <2>2 DEF Clear, Waits
  <2>4. PICK m \in Memory : m = mem
    BY <2>2
  <2>5. PICK told : told = box
    OBVIOUS
  <2>6. Unmoved /\ hook' = FALSE /\ answered' = answered /\ acks' = acks
        /\ continuations' = continuations
    <3>1. hook \in BOOLEAN
      BY <2>2, Types
    <3> QED
      BY <2>2, <3>1 DEF Drain, Unmoved
  <2>7. /\ Speaks(told) /\ ParkIn(told, m)
        /\ told \o <<>> = told
        /\ told \o (<<>> \o <<"Started">>) = Append(told, "Started")
        /\ answered \in BOOLEAN /\ acks \subseteq Nat
        /\ continuations \in 0..MaxStopContinuations
    BY <2>2, <2>4, <2>5, <2>6, Same
  <2>8. ~Startable(m) => EndIn(told, q, m)
    <3>1. Excused \/ Told \/ Restarts
      BY <1>2, <2>2 DEF Inv, Ended
    <3>2. Told => ToldIn(told)
      BY <2>5 DEF Told, ToldIn
    <3>3. spent.crashes = 0 \/ Excused
      <4>1. spent.crashes \in Nat
        BY <2>2, Types
      <4> QED
        BY <4>1 DEF Excused
    <3>4. m.asks /\ spent.crashes = 0 => ToldIn(told)
      <4>1. "Asked" \in Telling /\ "Asked" # "Started"
        BY DEF Telling
      <4> QED
        BY <2>7, <4>1 DEF ParkIn, ToldIn
    <3>5. Restarts => \/ Has(told, "ContinueAfterStop") \/ Holds(q, "Enqueue") \/ m.queue # {}
      BY <2>2, <2>4, <2>5 DEF Restarts
    <3>6. ~Startable(m) /\ m.queue # {} => m.asks
      BY <2>4 DEF Startable, Memory
    <3> QED
      BY <3>1, <3>2, <3>3, <3>4, <3>5, <3>6 DEF EndIn
  <2>9. TryDrain(<<>>, m, q)
    BY <1>2, <2>1, <2>4 DEF Drain
  <2>10. answered' \in BOOLEAN /\ acks' \subseteq Nat /\ continuations' \in 0..MaxStopContinuations
    BY <2>6, <2>7
  <2> QED
    BY <2>3, <2>5, <2>6, <2>7, <2>8, <2>9, <2>10, Drains
<1> QED
  BY <1>1, <1>2

LEMMA TakeAnswerStep ==
    ASSUME Inv, TakeAnswer
    PROVE  Inv'
<1>1. CASE ~(run.stage = "none" /\ mem.asks)
  BY <1>1, Ignored DEF TakeAnswer
<1>2. CASE run.stage = "none" /\ mem.asks
  <2>1. PICK q : q = Tail(abox)
    OBVIOUS
  <2>2. /\ TypeOK /\ live /\ staged = {} /\ ~hook /\ Kept = {mem} /\ mem \in Memory
        /\ q \in Seq(Command)
        /\ Prompt(abox) <=> Prompt(q)
        /\ \A k \in Tasks : Holds(q, k) => Waits(k, run.stage)
    BY <2>1, Took DEF TakeAnswer
  <2>3. Clear(q)
    BY <1>2, <2>2 DEF Clear, Waits
  <2>4. PICK m \in Memory : m = mem
    BY <2>2
  <2>5. PICK told : told = box
    OBVIOUS
  <2>6. Unmoved /\ hook' = FALSE /\ answered' = answered /\ acks' = acks
        /\ continuations' = continuations
    <3>1. hook \in BOOLEAN
      BY <2>2, Types
    <3> QED
      BY <2>2, <3>1 DEF TakeAnswer, Unmoved
  <2>7. /\ Speaks(told)
        /\ told \o (<<>> \o <<"Started">>) = Append(told, "Started")
        /\ answered \in BOOLEAN /\ acks \subseteq Nat
        /\ continuations \in 0..MaxStopContinuations
    BY <2>5, <2>6, Same
  <2>8. BeginTurn(<<>>, m, q)
    BY <1>2, <2>1, <2>4 DEF TakeAnswer
  <2>9. answered' \in BOOLEAN /\ acks' \subseteq Nat /\ continuations' \in 0..MaxStopContinuations
    BY <2>6, <2>7
  <2> QED
    BY <2>3, <2>5, <2>6, <2>7, <2>8, <2>9, Begins
<1> QED
  BY <1>1, <1>2

\* Cancel: a run that holds a token is cancelled, a turn without one is missed.
LEMMA CancelStep ==
    ASSUME Inv, Cancel
    PROVE  Inv'
<1>1. PICK c : c = Head(abox)
  OBVIOUS
<1>2. /\ TypeOK /\ live /\ staged = {} /\ ~hook /\ Kept = {mem}
      /\ abox' \in Seq(Command) /\ c \in Command /\ c.kind = "Cancel"
      /\ \A k : Holds(abox, k) <=> Holds(abox', k) \/ "Cancel" = k
      /\ Prompt(abox) <=> Prompt(abox') \/ ~c.late
      /\ \A k \in Tasks : Once(abox', k) /\ (Holds(abox', k) => Waits(k, run.stage))
  BY <1>1, Took DEF Cancel
<1>3. c.n \in Nat
  BY <1>2 DEF Command
<1>4. /\ UNCHANGED <<live, phase, fatal, box, waiting, mem, staged, hook, hookFired,
                     continuations, spent>>
      /\ Kept' = Kept
  BY DEF Cancel, Kept
<1>5. PICK r \in Run : r = run
  BY <1>2, Types
<1>6. PICK s : s = run'
  OBVIOUS
<1>7. answered' \in BOOLEAN
  <2>1. answered \in BOOLEAN
    BY <1>2, Types
  <2>2. answered' = answered \/ answered' = (answered \/ \E w \in waiting : w.n \in {c.n})
    BY <1>1 DEF Cancel, Acked
  <2> QED
    BY <2>1, <2>2
<1>8. CASE r.stage \in {"none", "preparing"}
  <2>1. /\ s = r /\ acks' = acks
        /\ astray' = astray \cup (IF r.stage = "none" THEN {} ELSE {"preparing"})
    BY <1>5, <1>6, <1>8 DEF Cancel
  <2>2. TypeOK'
    BY <1>2, <1>4, <1>5, <1>6, <1>7, <2>1, Types
  <2>3. Placed'
    BY <1>2, <1>4, <1>5, <1>6, <2>1 DEF Inv, Placed
  <2>4. Shown' /\ Aimed'
    BY <1>2, <1>4, <1>5, <1>6, <1>8, <2>1 DEF Inv, Shown, Working, Visible, Aimed
  <2>5. Ended'
    BY <1>2, <1>4, <1>5, <1>6, <2>1 DEF Inv, Ended, Excused, Told, Restarts
  <2>6. Parked'
    BY <1>4 DEF Inv, Parked, ParkShown
  <2> QED
    BY <2>2, <2>3, <2>4, <2>5, <2>6 DEF Inv
<1>9. CASE r.stage \notin {"none", "preparing"}
  <2>1. /\ s = [r EXCEPT !.cancelled = TRUE] /\ acks' = acks \cup {c.n}
        /\ astray' = astray \cup (IF c.late THEN {"next"} ELSE {})
    BY <1>1, <1>5, <1>6, <1>9 DEF Cancel
  <2>2. s \in Run /\ s.stage = r.stage /\ s.end = r.end /\ s.cancelled = TRUE
    BY <2>1, TRUE \in BOOLEAN DEF Run
  <2>3. TypeOK'
    BY <1>2, <1>3, <1>4, <1>6, <1>7, <2>1, <2>2, Types
  <2>4. Placed'
    BY <1>2, <1>4, <1>5, <1>6, <1>9, <2>2 DEF Inv, Placed
  <2>5. Shown'
    BY <1>6, <2>2 DEF Shown, Working
  <2>6. Aimed'
    BY <1>2, <1>4, <1>6, <2>1, <2>2 DEF Inv, Aimed
  <2>7. Ended'
    BY <1>2, <1>4, <1>5, <1>6, <1>9, <2>1, <2>2 DEF Inv, Ended, Excused, Told
  <2>8. Parked'
    BY <1>4 DEF Inv, Parked, ParkShown
  <2> QED
    BY <2>3, <2>4, <2>5, <2>6, <2>7, <2>8 DEF Inv
<1> QED
  BY <1>8, <1>9

\* The session's mailbox with an end, a refusal or a hook's message added.
LEMMA Adds ==
    ASSUME Inv, NEW x \in {"Concluded", "Asked", "Failed", "FailedForGood", "Halt",
                           "ContinueAfterStop"}, NEW told, told = Append(box, x)
    PROVE  /\ Speaks(told)
           /\ box \o <<x>> = told
           /\ box \o (<<x>> \o <<"Started">>) = Append(told, "Started")
           /\ \A y : Has(told, y) <=> Has(box, y) \/ x = y
           /\ x \in Telling => /\ Last(told, x) /\ ~Quiet(told)
                               /\ \A y \in Telling : Last(told, y) => y = x
           /\ x \notin Telling => /\ Quiet(told) <=> Quiet(box)
                                  /\ \A y \in Telling : Last(told, y) <=> Last(box, y)
           /\ x \in {"Concluded", "Asked", "Failed", "FailedForGood"} => ToldIn(told)
<1>1. box \in Seq(News) /\ x \in News /\ "Started" \in News
  BY Types DEF Inv, News
<1>2. box \o <<x>> = told /\ box \o (<<x>> \o <<"Started">>) = Append(told, "Started")
  BY <1>1, Heard1
<1>3. /\ told \in Seq(News)
      /\ \A y : Has(told, y) <=> Has(box, y) \/ x = y
      /\ x \in Telling => /\ Last(told, x) /\ ~Quiet(told)
                          /\ \A y \in Telling : Last(told, y) => y = x
      /\ x \notin Telling => /\ Quiet(told) <=> Quiet(box)
                             /\ \A y \in Telling : Last(told, y) <=> Last(box, y)
  BY <1>1, NewsJoined
<1>4. Speaks(told)
  <2>1. Quiet(told) \/ \E y \in Telling : Last(told, y)
    BY <1>3 DEF Inv, Placed
  <2> QED
    BY <1>3, <2>1 DEF Speaks
<1>5. x \in {"Concluded", "Asked", "Failed", "FailedForGood"} => ToldIn(told)
  BY <1>3 DEF ToldIn, Telling
<1> QED
  BY <1>2, <1>3, <1>4, <1>5

LEMMA StartPreparedStep ==
    ASSUME Inv, StartPrepared
    PROVE  Inv'
<1>1. PICK c : c = Head(abox)
  OBVIOUS
<1>2. /\ TypeOK /\ live /\ staged = {} /\ ~hook /\ Kept = {mem} /\ mem \in Memory
      /\ abox' \in Seq(Command) /\ c \in Command /\ c.kind = "StartPrepared"
      /\ \A k : Holds(abox, k) <=> Holds(abox', k) \/ "StartPrepared" = k
      /\ Prompt(abox) <=> Prompt(abox')
      /\ "StartPrepared" \in Tasks =>
           Waits("StartPrepared", run.stage) /\ \A k \in Tasks : ~Holds(abox', k)
  BY <1>1, Took DEF StartPrepared
<1>3. run.stage = "preparing" /\ \A k \in Tasks : ~Holds(abox', k)
  BY <1>2 DEF Tasks, Waits
<1>4. c.abandon \in {"no", "Failed", "FailedForGood"}
  BY <1>2 DEF Command
<1>5. ~run.cancelled /\ ~mem.asks
  BY <1>2, <1>3 DEF Inv, Placed
<1>6. /\ UNCHANGED <<live, phase, fatal, waiting, answered, mem, staged, acks, hook,
                     hookFired, continuations, astray, spent>>
      /\ Kept' = Kept
  BY DEF StartPrepared, Kept
<1>7. CASE c.abandon = "no"
  <2>1. PICK r : r = [NoRun EXCEPT !.stage = "providing"]
    OBVIOUS
  <2>2. r \in Run /\ r.stage = "providing" /\ r.cancelled = FALSE
    BY <2>1 DEF NoRun, Run, TurnEnd
  <2>3. run' = r /\ box' = box
    BY <1>1, <1>7, <2>1 DEF StartPrepared
  <2>4. TypeOK'
    BY <1>2, <1>6, <2>2, <2>3, Types
  <2>5. Placed'
    <3>1. \A k \in Tasks : Once(abox', k)
      BY <1>3 DEF Once, Holds
    <3> QED
      BY <1>2, <1>3, <1>5, <1>6, <2>2, <2>3, <3>1 DEF Inv, Placed
  <2>6. Shown' /\ Aimed'
    BY <1>2, <1>3, <1>5, <1>6, <2>2, <2>3 DEF Inv, Shown, Working, Visible, Aimed
  <2>7. Ended'
    BY <2>2, <2>3 DEF Ended
  <2>8. Parked'
    BY <1>6, <2>3 DEF Inv, Parked, ParkShown
  <2> QED
    BY <2>4, <2>5, <2>6, <2>7, <2>8 DEF Inv
<1>8. CASE c.abandon # "no"
  <2>1. PICK x \in {"Failed", "FailedForGood"} : x = c.abandon
    BY <1>4, <1>8
  <2>2. PICK told : told = Append(box, x)
    OBVIOUS
  <2>3. run' = NoRun /\ box' = told
    BY <1>1, <1>8, <2>1, <2>2 DEF StartPrepared
  <2>4. /\ Speaks(told) /\ box \o <<x>> = told
        /\ x \in Telling => /\ Last(told, x) /\ ~Quiet(told)
                            /\ \A y \in Telling : Last(told, y) => y = x
        /\ x \notin Telling => /\ Quiet(told) <=> Quiet(box)
                               /\ \A y \in Telling : Last(told, y) <=> Last(box, y)
        /\ ToldIn(told)
    <3>1. /\ x \in {"Concluded", "Asked", "Failed", "FailedForGood", "Halt", "ContinueAfterStop"}
          /\ x \in {"Concluded", "Asked", "Failed", "FailedForGood"}
      BY <2>1
    <3>2. /\ Speaks(told) /\ box \o <<x>> = told
          /\ x \in Telling => /\ Last(told, x) /\ ~Quiet(told)
                              /\ \A y \in Telling : Last(told, y) => y = x
          /\ x \notin Telling => /\ Quiet(told) <=> Quiet(box)
                                 /\ \A y \in Telling : Last(told, y) <=> Last(box, y)
          /\ x \in {"Concluded", "Asked", "Failed", "FailedForGood"} => ToldIn(told)
      BY <2>2, <3>1, Adds, Zenon
    <3> QED
      BY <3>1, <3>2
  <2>5. PICK m \in Memory : m = mem
    BY <1>2
  <2>6. PICK q : q = abox'
    OBVIOUS
  <2>7. Unmoved /\ hook' = FALSE
    <3>1. hook \in BOOLEAN
      BY <1>2, Types
    <3> QED
      BY <1>2, <1>6, <3>1 DEF Unmoved
  <2>8. /\ answered' \in BOOLEAN /\ acks' \subseteq Nat
        /\ continuations' \in 0..MaxStopContinuations
    BY <1>2, <1>6, Types
  <2>9. Clear(q)
    BY <1>2, <1>3, <2>6 DEF Clear
  <2>10. ParkIn(told, m)
    <3>1. ParkIn(box, m)
      BY <1>2, <2>5, <2>7, Same
    <3>2. "Asked" \in Telling /\ x # "Asked"
      BY <2>1 DEF Telling
    <3> QED
      BY <1>5, <2>4, <2>5, <3>1, <3>2 DEF ParkIn
  <2>11. EndIn(told, q, m)
    BY <2>4 DEF EndIn
  <2>12. Ends(<<x>>, m)
    BY <1>2, <1>6, <2>3, <2>4, <2>5 DEF Ends
  <2> QED
    BY <1>6, <2>3, <2>4, <2>6, <2>7, <2>8, <2>9, <2>10, <2>11, <2>12, RestsWell
<1> QED
  BY <1>7, <1>8

LEMMA BoundaryStep ==
    ASSUME Inv, Boundary
    PROVE  Inv'
<1> USE DEF session
<1>1. /\ TypeOK /\ live /\ staged = {} /\ ~hook /\ Kept = {mem} /\ mem \in Memory
      /\ abox' \in Seq(Command)
      /\ \A k : Holds(abox, k) <=> Holds(abox', k) \/ "Boundary" = k
      /\ Prompt(abox) <=> Prompt(abox')
      /\ "Boundary" \in Tasks => Waits("Boundary", run.stage) /\ \A k \in Tasks : ~Holds(abox', k)
  BY Took DEF Boundary
<1>2. run.stage = "ending" /\ \A k \in Tasks : ~Holds(abox', k)
  BY <1>1 DEF Tasks, Waits
<1>3. PICK m \in Memory : m = mem
  BY <1>1
<1>4. PICK n : n = [m EXCEPT !.inflight = FALSE]
  OBVIOUS
<1>5. n \in Memory /\ n.asks = m.asks /\ n.queue = m.queue
  BY <1>4, FALSE \in BOOLEAN DEF Memory
<1>6. mem' = n /\ Kept' = {n}
  BY <1>1, <1>3, <1>4 DEF Boundary, Kept
<1>7. PICK r \in Run : r = run
  BY <1>1, Types
<1>8. PICK s : s = [r EXCEPT !.stage = "reporting"]
  OBVIOUS
<1>9. s \in Run /\ s.stage = "reporting" /\ s.cancelled = r.cancelled /\ s.end = r.end
  BY <1>8 DEF Run
<1>10. run' = s
  BY <1>7, <1>8 DEF Boundary
<1>11. TypeOK'
  BY <1>1, <1>5, <1>6, <1>9, <1>10, Types DEF Boundary
<1>12. ~m.asks
  BY <1>1, <1>2, <1>3 DEF Inv, Placed
<1>13. Placed'
  <2>1. \A k \in Tasks : Once(abox', k)
    BY <1>2 DEF Once, Holds
  <2> QED
    BY <1>1, <1>2, <1>5, <1>6, <1>7, <1>9, <1>10, <1>12, <2>1 DEF Inv, Placed, Boundary
<1>14. Shown' /\ Aimed'
  BY <1>1, <1>7, <1>9, <1>10 DEF Inv, Shown, Working, Aimed, Boundary
<1>15. Ended'
  BY <1>2, <1>7, <1>9, <1>10 DEF Inv, Ended, Placed
<1>16. Parked'
  BY <1>1, <1>3, <1>5, <1>6 DEF Inv, Parked, ParkShown, Boundary
<1> QED
  BY <1>11, <1>13, <1>14, <1>15, <1>16 DEF Inv

\* handle_finished: the end is told, unless a Stop hook is asked first or somebody who asked
\* for it knows already.
LEMMA RunFinishedStep ==
    ASSUME Inv, RunFinished
    PROVE  Inv'
<1>1. PICK q : q = Tail(abox)
  OBVIOUS
<1>2. /\ TypeOK /\ live /\ staged = {} /\ ~hook /\ Kept = {mem} /\ mem \in Memory
      /\ q \in Seq(Command)
      /\ \A k : Holds(abox, k) <=> Holds(q, k) \/ "RunFinished" = k
      /\ Prompt(abox) <=> Prompt(q)
      /\ "RunFinished" \in Tasks => Waits("RunFinished", run.stage) /\ \A k \in Tasks : ~Holds(q, k)
  BY <1>1, Took DEF RunFinished
<1>3. run.stage = "reporting" /\ \A k \in Tasks : ~Holds(q, k)
  BY <1>2 DEF Tasks, Waits
<1>4. PICK m \in Memory : m = mem
  BY <1>2
<1>5. ~m.asks
  BY <1>2, <1>3, <1>4 DEF Inv, Placed
<1>6. Unmoved /\ continuations' \in 0..MaxStopContinuations
  BY <1>2, Types DEF RunFinished, Unmoved
<1>7. answered' \in BOOLEAN
  <2>1. answered \in BOOLEAN
    BY <1>2, Types
  <2>2. answered' = (answered \/ \E w \in waiting : w.n \in acks)
    BY DEF RunFinished, Acked
  <2> QED
    BY <2>1, <2>2
<1>8. acks' = {} /\ acks' \subseteq Nat
  BY DEF RunFinished
<1>9. Clear(q)
  BY <1>2, <1>3 DEF Clear
<1>10. hook = FALSE
  BY <1>2, Types
<1>11. run.end \in TurnEnd
  BY <1>2, Types DEF Run
<1>12. ParkIn(box, m)
  BY <1>2, <1>4, <1>6, Same
<1>13. "Asked" \in Telling /\ "Concluded" \in Telling /\ "Failed" \in Telling
  BY DEF Telling
<1>14. CASE run.end = "Concluded" /\ HasStopHooks
  <2>1. hook' = TRUE /\ run' = NoRun /\ abox' = q /\ UNCHANGED <<box, mem, staged, hookFired>>
    BY <1>1, <1>14 DEF RunFinished
  <2>2. PICK r : r = NoRun
    OBVIOUS
  <2>3. r \in Run /\ r.stage = "none" /\ r.cancelled = FALSE
    BY <2>2 DEF NoRun, Run, TurnEnd
  <2>4. Kept' = {m}
    BY <1>2, <1>4, <2>1 DEF Kept
  <2>5. TypeOK'
    <3>1. hook' \in BOOLEAN
      BY <2>1, TRUE \in BOOLEAN, Zenon
    <3> QED
      BY <1>2, <1>6, <1>7, <1>8, <2>1, <2>2, <2>3, <3>1, Types DEF Unmoved
  <2>6. Placed'
    <3>1. \A k \in Tasks : Once(q, k)
      BY <1>3 DEF Once, Holds
    <3> QED
      BY <1>2, <1>3, <1>5, <1>6, <2>1, <2>2, <2>3, <2>4, <3>1 DEF Inv, Placed, Unmoved
  <2>7. Shown' /\ Aimed'
    BY <1>2, <1>6, <2>1, <2>2, <2>3 DEF Inv, Shown, Working, Aimed, Unmoved
  <2>8. Ended'
    BY <2>1, <2>2, <2>3 DEF Ended
  <2>9. Parked'
    BY <1>2, <1>4, <1>6, <2>1, <2>4 DEF Inv, Parked, ParkShown, Unmoved
  <2> QED
    BY <2>5, <2>6, <2>7, <2>8, <2>9 DEF Inv
<1>15. CASE run.end = "Concluded" /\ ~HasStopHooks
  <2>1. TryDrain(<<"Concluded">>, m, q) /\ hook' = FALSE
    BY <1>1, <1>4, <1>10, <1>15 DEF RunFinished
  <2>2. PICK told : told = Append(box, "Concluded")
    OBVIOUS
  <2>3. /\ Speaks(told) /\ box \o <<"Concluded">> = told
        /\ box \o (<<"Concluded">> \o <<"Started">>) = Append(told, "Started")
        /\ Last(told, "Concluded") /\ ~Quiet(told)
        /\ \A y \in Telling : Last(told, y) => y = "Concluded"
        /\ ToldIn(told)
    BY <1>13, <2>2, Adds
  <2>4. ParkIn(told, m) /\ EndIn(told, q, m)
    BY <1>5, <1>13, <2>3 DEF ParkIn, EndIn
  <2> QED
    BY <1>6, <1>7, <1>8, <1>9, <2>1, <2>3, <2>4, Drains
<1>16. CASE run.end = "Asked"
  <2>1. PICK n : n = [m EXCEPT !.asks = TRUE, !.inflight = FALSE]
    OBVIOUS
  <2>2. n \in Memory /\ n.asks = TRUE
    BY <2>1, TRUE \in BOOLEAN, FALSE \in BOOLEAN DEF Memory
  <2>3. TryDrain(<<"Asked">>, n, q) /\ hook' = FALSE
    BY <1>1, <1>4, <1>10, <1>16, <2>1 DEF RunFinished
  <2>4. PICK told : told = Append(box, "Asked")
    OBVIOUS
  <2>5. /\ Speaks(told) /\ box \o <<"Asked">> = told
        /\ box \o (<<"Asked">> \o <<"Started">>) = Append(told, "Started")
        /\ Last(told, "Asked")
        /\ ToldIn(told)
    BY <1>13, <2>4, Adds
  <2>6. ParkIn(told, n) /\ EndIn(told, q, n)
    BY <2>2, <2>5 DEF ParkIn, EndIn
  <2> QED
    BY <1>6, <1>7, <1>8, <1>9, <2>2, <2>3, <2>5, <2>6, Drains
<1>17. CASE run.end = "Cancelled"
  <2>1. PICK n : n = [m EXCEPT !.inflight = FALSE]
    OBVIOUS
  <2>2. n \in Memory /\ n.asks = m.asks
    BY <2>1, FALSE \in BOOLEAN DEF Memory
  <2>3. TryDrain(<<>>, n, q) /\ hook' = FALSE
    BY <1>1, <1>4, <1>10, <1>17, <2>1 DEF RunFinished
  <2>4. PICK told : told = box
    OBVIOUS
  <2>5. /\ Speaks(told) /\ told \o <<>> = told
        /\ told \o (<<>> \o <<"Started">>) = Append(told, "Started")
    BY <1>6, <2>4, Same
  <2>6. ParkIn(told, n)
    BY <1>12, <2>2, <2>4 DEF ParkIn
  <2>7. Excused \/ ToldIn(told)
    <3>1. run.cancelled
      BY <1>3, <1>17 DEF Inv, Placed
    <3>2. CASE "next" \in astray
      BY <3>2 DEF Excused
    <3>3. CASE "next" \notin astray
      <4>1. ~Has(box, "Started") /\ (waiting # {} \/ phase # "Running")
        BY <3>1, <3>3 DEF Inv, Aimed
      <4>2. Quiet(box) \/ \E y \in Telling : Last(box, y)
        BY DEF Inv, Placed
      <4> QED
        BY <2>4, <4>1, <4>2, LastHas DEF ToldIn
    <3> QED
      BY <3>2, <3>3
  <2>8. EndIn(told, q, n)
    BY <2>7 DEF EndIn
  <2> QED
    BY <1>6, <1>7, <1>8, <1>9, <2>2, <2>3, <2>4, <2>5, <2>6, <2>8, Drains
<1>18. CASE run.end = "Failed"
  <2>1. Ends(<<"Failed">>, m) /\ run' = NoRun /\ abox' = q /\ hook' = FALSE /\ hookFired' = hookFired
    BY <1>1, <1>4, <1>10, <1>18 DEF RunFinished
  <2>2. PICK told : told = Append(box, "Failed")
    OBVIOUS
  <2>3. /\ Speaks(told) /\ box \o <<"Failed">> = told
        /\ Last(told, "Failed") /\ ~Quiet(told)
        /\ \A y \in Telling : Last(told, y) => y = "Failed"
        /\ ToldIn(told)
    BY <1>13, <2>2, Adds
  <2>4. ParkIn(told, m) /\ EndIn(told, q, m)
    BY <1>5, <1>13, <2>3 DEF ParkIn, EndIn
  <2> QED
    BY <1>6, <1>7, <1>8, <1>9, <2>1, <2>3, <2>4, RestsWell
<1>19. CASE run.end = "AlreadyReported"
  <2>1. Ends(<<>>, m) /\ run' = NoRun /\ abox' = q /\ hook' = FALSE /\ hookFired' = hookFired
    BY <1>1, <1>4, <1>10, <1>19 DEF RunFinished
  <2>2. PICK told : told = box
    OBVIOUS
  <2>3. Speaks(told) /\ told \o <<>> = told
    BY <1>6, <2>2, Same
  <2>4. ParkIn(told, m)
    BY <1>12, <2>2
  <2>5. EndIn(told, q, m)
    <3>1. Excused \/ Told
      BY <1>3, <1>19 DEF Inv, Ended
    <3> QED
      BY <2>2, <3>1 DEF EndIn, Told, ToldIn
  <2> QED
    BY <1>6, <1>7, <1>8, <1>9, <2>1, <2>2, <2>3, <2>4, <2>5, RestsWell
<1> QED
  BY <1>11, <1>14, <1>15, <1>16, <1>17, <1>18, <1>19 DEF TurnEnd

\* StopHookParent::deliver: the end is told, or a message follows that starts the turn again.
LEMMA StopHookStep ==
    ASSUME Inv, NEW verdict \in {"allow", "halt", "block"}, StopHookEnds(verdict)
    PROVE  Inv'
<1>1. PICK q : q = abox
  OBVIOUS
<1>2. /\ TypeOK /\ live /\ hook /\ run.stage = "none" /\ staged = {} /\ mem \in Memory
      /\ \A k \in Tasks : Holds(q, k) => Waits(k, run.stage)
  BY <1>1, Types DEF Inv, Placed, StopHookEnds
<1>3. Clear(q)
  <2>1. q \in Seq(Command)
    BY <1>1, <1>2, Types
  <2> QED
    BY <1>1, <1>2, <2>1 DEF Clear, Waits
<1>4. PICK m \in Memory : m = mem
  BY <1>2
<1>5. Kept = {m}
  BY <1>2, <1>4 DEF Kept
<1>6. ~m.asks
  BY <1>2, <1>5 DEF Inv, Placed
<1>7. Unmoved /\ hook' = FALSE
  BY <1>2 DEF Unmoved, StopHookEnds
<1>8. answered' \in BOOLEAN /\ acks' \subseteq Nat
  BY <1>2, Types DEF StopHookEnds
<1>9. ParkIn(box, m)
  BY <1>5, <1>7, Same
<1>10. "Asked" \in Telling /\ "Concluded" \in Telling /\ "ContinueAfterStop" \notin Telling
  BY DEF Telling
<1>11. MaxStopContinuations \in Nat
  BY SessionAssumption
<1>12. continuations \in 0..MaxStopContinuations
  BY <1>2, Types
<1>13. CASE verdict = "block" /\ continuations < MaxStopContinuations
  <2>1. continuations' = continuations + 1 /\ TryDrain(<<"ContinueAfterStop">>, m, q)
    BY <1>1, <1>4, <1>13 DEF StopHookEnds
  <2>2. continuations' \in 0..MaxStopContinuations
    BY <1>11, <1>12, <1>13, <2>1
  <2>3. PICK told : told = Append(box, "ContinueAfterStop")
    OBVIOUS
  <2>4. /\ Speaks(told) /\ box \o <<"ContinueAfterStop">> = told
        /\ box \o (<<"ContinueAfterStop">> \o <<"Started">>) = Append(told, "Started")
        /\ Has(told, "ContinueAfterStop")
        /\ Quiet(told) <=> Quiet(box)
        /\ \A y \in Telling : Last(told, y) <=> Last(box, y)
    BY <1>10, <2>3, Adds
  <2>5. ParkIn(told, m) /\ EndIn(told, q, m)
    BY <1>6, <1>9, <1>10, <2>4 DEF ParkIn, EndIn
  <2> QED
    BY <1>3, <1>7, <1>8, <2>1, <2>2, <2>4, <2>5, Drains
<1>14. CASE ~(verdict = "block" /\ continuations < MaxStopContinuations)
  <2>1. continuations' = 0 /\ TryDrain(<<"Concluded">>, m, q)
    BY <1>1, <1>4, <1>14 DEF StopHookEnds
  <2>2. continuations' \in 0..MaxStopContinuations
    BY <1>11, <2>1
  <2>3. PICK told : told = Append(box, "Concluded")
    OBVIOUS
  <2>4. /\ Speaks(told) /\ box \o <<"Concluded">> = told
        /\ box \o (<<"Concluded">> \o <<"Started">>) = Append(told, "Started")
        /\ Last(told, "Concluded") /\ ~Quiet(told)
        /\ \A y \in Telling : Last(told, y) => y = "Concluded"
        /\ ToldIn(told)
    BY <1>10, <2>3, Adds
  <2>5. ParkIn(told, m) /\ EndIn(told, q, m)
    BY <1>6, <1>10, <2>4 DEF ParkIn, EndIn
  <2> QED
    BY <1>3, <1>7, <1>8, <2>1, <2>2, <2>4, <2>5, Drains
<1> QED
  BY <1>13, <1>14

-----------------------------------------------------------------------------
(* Every step of a turn's tasks keeps it *)

\* A task hands its turn back: nothing else is on its way from it.
LEMMA HandsBack ==
    ASSUME Inv, live, NEW cmd \in Command, cmd.kind \in Tasks, ~Holds(abox, cmd.kind), Tell(cmd),
           run' \in Run, Waits(cmd.kind, run'.stage), run'.stage # "none",
           \A k \in Tasks : k # cmd.kind => ~Holds(abox, k),
           run'.cancelled = run.cancelled,
           run'.stage \in {"preparing", "ending", "reporting"},
           run.stage # "none",
           run'.stage \in {"ending", "reporting"} /\ run'.end = "Cancelled" => run.cancelled,
           run'.stage = "ending" => run'.end # "AlreadyReported",
           run'.stage = "preparing" => run.stage = "preparing",
           run'.stage = "reporting" => run'.end = run.end /\ run.stage = "reporting",
           UNCHANGED <<live, session, mem, staged, acks, hook, hookFired, continuations, astray, spent>>
    PROVE  Inv'
<1> USE DEF session
<1>1. TypeOK /\ abox \in Seq(Command)
  BY Types DEF Inv
<1>2. /\ abox' \in Seq(Command)
      /\ \A k : Holds(abox', k) <=> Holds(abox, k) \/ cmd.kind = k
      /\ \A k : Once(abox, k) /\ ~(Holds(abox, k) /\ cmd.kind = k) => Once(abox', k)
      /\ Prompt(abox') <=> Prompt(abox)
  <2>1. cmd.kind # "Cancel"
    BY DEF Tasks
  <2> QED
    BY <1>1, <2>1, CommandJoined DEF Tell
<1>3. Kept' = Kept
  BY DEF Kept
<1>4. TypeOK'
  BY <1>1, <1>2, Types
<1>5. Placed'
  <2>1. \A k \in Tasks : Once(abox', k) /\ (Holds(abox', k) => Waits(k, run'.stage))
    BY <1>2 DEF Inv, Placed
  <2>2. ~hook
    BY DEF Inv, Placed
  <2> QED
    BY <1>3, <2>1, <2>2 DEF Inv, Placed
<1>6. Shown' /\ Aimed'
  BY <1>2 DEF Inv, Shown, Working, Visible, Aimed
<1>7. Ended'
  BY DEF Inv, Ended, Excused, Told
<1>8. Parked'
  BY <1>3 DEF Inv, Parked, ParkShown
<1> QED
  BY <1>4, <1>5, <1>6, <1>7, <1>8 DEF Inv

\* No task has handed back what another stage waits for.
LEMMA Pending ==
    ASSUME Inv
    PROVE  /\ Holds(abox, "StartPrepared") => run.stage = "preparing"
           /\ Holds(abox, "Boundary") => run.stage = "ending"
           /\ Holds(abox, "RunFinished") => run.stage = "reporting"
BY DEF Inv, Placed, Tasks, Waits

LEMMA PrepareStep ==
    ASSUME Inv, NEW abandon \in {"no", "Failed", "FailedForGood"}, PrepareEnds(abandon)
    PROVE  Inv'
<1>1. PICK cmd : cmd = [kind |-> "StartPrepared", abandon |-> abandon]
  OBVIOUS
<1>2. cmd \in Command /\ cmd.kind = "StartPrepared" /\ Tell(cmd)
  BY <1>1 DEF Command, PrepareEnds
<1>3. ~Holds(abox, "StartPrepared") /\ run.stage = "preparing" /\ live /\ run' = run
  BY DEF PrepareEnds, Holds
<1>4. \A k \in Tasks : ~Holds(abox, k)
  BY <1>3, Pending DEF Tasks
<1>5. run' \in Run /\ Waits("StartPrepared", run'.stage) /\ "StartPrepared" \in Tasks
  BY <1>3, Types DEF Inv, Waits, Tasks
<1> QED
  BY <1>2, <1>3, <1>4, <1>5, HandsBack DEF PrepareEnds

LEMMA ReportsStep ==
    ASSUME Inv, Reports
    PROVE  Inv'
<1>1. PICK cmd : cmd = [kind |-> "RunFinished"]
  OBVIOUS
<1>2. cmd \in Command /\ cmd.kind = "RunFinished" /\ Tell(cmd)
  BY <1>1 DEF Command, Reports
<1>3. ~Holds(abox, "RunFinished") /\ run.stage = "reporting" /\ live /\ run' = run
  BY DEF Reports, Holds
<1>4. \A k \in Tasks : ~Holds(abox, k)
  BY <1>3, Pending DEF Tasks
<1>5. run' \in Run /\ Waits("RunFinished", run'.stage) /\ "RunFinished" \in Tasks
  BY <1>3, Types DEF Inv, Waits, Tasks
<1>6. run.end = "Cancelled" => run.cancelled
  BY <1>3 DEF Inv, Placed
<1> QED
  BY <1>2, <1>3, <1>4, <1>5, <1>6, HandsBack DEF Reports, RunQuiet, session

LEMMA LoopStep ==
    ASSUME Inv, NEW end \in {"Concluded", "Asked", "Failed", "Cancelled"}, LoopEnds(end)
    PROVE  Inv'
<1>1. PICK cmd : cmd = [kind |-> "Boundary"]
  OBVIOUS
<1>2. cmd \in Command /\ cmd.kind = "Boundary" /\ Tell(cmd)
  BY <1>1 DEF Command, LoopEnds
<1>3. run.stage = "running" /\ live
  BY DEF LoopEnds
<1>4. \A k \in Tasks : ~Holds(abox, k)
  BY <1>3, Pending DEF Tasks
<1>5. PICK r \in Run : r = run
  BY Types DEF Inv
<1>6. PICK s : s = [r EXCEPT !.stage = "ending", !.end = end]
  OBVIOUS
<1>7. s \in Run /\ s.stage = "ending" /\ s.end = end /\ s.cancelled = r.cancelled
  BY <1>6 DEF Run, TurnEnd
<1>8. run' = s
  BY <1>5, <1>6 DEF LoopEnds
<1>9. Waits("Boundary", run'.stage) /\ "Boundary" \in Tasks
  BY <1>7, <1>8 DEF Waits, Tasks
<1>10. end = "Cancelled" => run.cancelled
  BY DEF LoopEnds
<1>11. UNCHANGED <<live, session, mem, staged, acks, hook, hookFired, continuations, astray, spent>>
  BY DEF LoopEnds, RunQuiet, session
<1> QED
  BY <1>2, <1>3, <1>4, <1>5, <1>7, <1>8, <1>9, <1>10, <1>11, HandsBack

\* A turn that runs on, or is over, in a mailbox that said at most an end.
LEMMA ProvideStep ==
    ASSUME Inv, NEW news \in {"ok", "Failed", "FailedForGood"}, ProvideEnds(news)
    PROVE  Inv'
<1> USE DEF RunQuiet
<1>1. TypeOK /\ live /\ run.stage = "providing" /\ ~run.cancelled /\ abox' = abox
  BY DEF Inv, ProvideEnds
<1>2. PICK r \in Run : r = run
  BY <1>1, Types
<1>3. Kept' = Kept /\ \A m \in Kept : ~m.asks
  BY <1>1 DEF Inv, Placed, Kept, ProvideEnds
<1>4. \A k \in Tasks : ~Holds(abox, k) /\ Once(abox, k)
  BY <1>1, Pending DEF Tasks, Inv, Placed
<1>5. ~hook
  BY <1>1 DEF Inv, Placed
<1>6. CASE news = "ok"
  <2>1. PICK s : s = [r EXCEPT !.stage = "running"]
    OBVIOUS
  <2>2. s \in Run /\ s.stage = "running" /\ s.cancelled = r.cancelled
    BY <2>1 DEF Run
  <2>3. run' = s /\ box' = box
    BY <1>2, <1>6, <2>1 DEF ProvideEnds
  <2>4. TypeOK'
    BY <1>1, <2>2, <2>3, Types DEF ProvideEnds
  <2>5. Placed'
    BY <1>1, <1>3, <1>4, <1>5, <2>2, <2>3 DEF Inv, Placed, ProvideEnds
  <2>6. Shown' /\ Aimed'
    BY <1>1, <1>2, <2>2, <2>3 DEF Inv, Shown, Working, Visible, Aimed, ProvideEnds
  <2>7. Ended'
    BY <2>2, <2>3 DEF Ended
  <2>8. Parked'
    BY <1>3, <2>3 DEF Inv, Parked, ParkShown, ProvideEnds
  <2> QED
    BY <2>4, <2>5, <2>6, <2>7, <2>8 DEF Inv
<1>7. CASE news # "ok"
  <2>1. PICK s : s = [r EXCEPT !.stage = "reporting", !.end = "AlreadyReported"]
    OBVIOUS
  <2>2. s \in Run /\ s.stage = "reporting" /\ s.end = "AlreadyReported" /\ s.cancelled = r.cancelled
    BY <2>1 DEF Run, TurnEnd
  <2>3. PICK told : told = Append(box, news)
    OBVIOUS
  <2>4. run' = s /\ box' = told
    BY <1>2, <1>7, <2>1, <2>3 DEF ProvideEnds
  <2>5. /\ news \in {"Concluded", "Asked", "Failed", "FailedForGood", "Halt", "ContinueAfterStop"}
        /\ news \in {"Concluded", "Asked", "Failed", "FailedForGood"}
    BY <1>7
  <2>6. /\ Speaks(told)
        /\ news \in Telling => /\ Last(told, news) /\ ~Quiet(told)
                               /\ \A y \in Telling : Last(told, y) => y = news
        /\ news \notin Telling => /\ Quiet(told) <=> Quiet(box)
                                  /\ \A y \in Telling : Last(told, y) <=> Last(box, y)
        /\ news \in {"Concluded", "Asked", "Failed", "FailedForGood"} => ToldIn(told)
    BY <2>3, <2>5, Adds, Zenon
  <2>7. TypeOK'
    BY <1>1, <2>2, <2>4, <2>6, Types DEF Speaks, ProvideEnds
  <2>8. Placed'
    BY <1>1, <1>2, <1>3, <1>4, <1>5, <2>2, <2>4, <2>6 DEF Inv, Placed, Speaks, ProvideEnds
  <2>9. Shown' /\ Aimed'
    BY <1>1, <1>2, <2>2, <2>4, <2>6 DEF Inv, Shown, Working, Aimed, Speaks, ProvideEnds
  <2>10. Ended'
    <3>1. Told'
      BY <2>4, <2>5, <2>6 DEF Told, ToldIn, ProvideEnds
    <3> QED
      BY <2>2, <2>4, <3>1 DEF Ended
  <2>11. Parked'
    <3>1. "Asked" \in Telling /\ news # "Asked"
      BY <1>7 DEF Telling
    <3> QED
      BY <1>3, <2>4, <2>6, <3>1 DEF Inv, Parked, ParkShown, ProvideEnds
  <2> QED
    BY <2>7, <2>8, <2>9, <2>10, <2>11 DEF Inv
<1> QED
  BY <1>6, <1>7

LEMMA ProvideCancelledStep ==
    ASSUME Inv, ProvideCancelled
    PROVE  Inv'
<1> USE DEF RunQuiet
<1>1. TypeOK /\ live /\ run.stage = "providing" /\ run.cancelled /\ abox' = abox /\ box' = box
  BY DEF Inv, ProvideCancelled
<1>2. PICK r \in Run : r = run
  BY <1>1, Types
<1>3. Kept' = Kept /\ \A m \in Kept : ~m.asks
  BY <1>1 DEF Inv, Placed, Kept, ProvideCancelled
<1>4. \A k \in Tasks : ~Holds(abox, k) /\ Once(abox, k)
  BY <1>1, Pending DEF Tasks, Inv, Placed
<1>5. PICK s : s = [r EXCEPT !.stage = "reporting", !.end = "Cancelled"]
  OBVIOUS
<1>6. s \in Run /\ s.stage = "reporting" /\ s.end = "Cancelled" /\ s.cancelled = r.cancelled
  BY <1>5 DEF Run, TurnEnd
<1>7. run' = s
  BY <1>2, <1>5 DEF ProvideCancelled
<1>8. TypeOK'
  BY <1>1, <1>6, <1>7, Types DEF ProvideCancelled
<1>9. Placed'
  BY <1>1, <1>2, <1>3, <1>4, <1>6, <1>7 DEF Inv, Placed, ProvideCancelled
<1>10. Shown' /\ Aimed'
  BY <1>1, <1>2, <1>6, <1>7 DEF Inv, Shown, Working, Aimed, ProvideCancelled
<1>11. Ended'
  BY <1>6, <1>7 DEF Ended
<1>12. Parked'
  BY <1>1, <1>3 DEF Inv, Parked, ParkShown, ProvideCancelled
<1> QED
  BY <1>8, <1>9, <1>10, <1>11, <1>12 DEF Inv

LEMMA ToolHookStep ==
    ASSUME Inv, ToolHookHalts
    PROVE  Inv'
<1> USE DEF agent
<1>1. TypeOK /\ live /\ run.stage = "running"
  BY DEF Inv, ToolHookHalts
<1>2. PICK told : told = box'
  OBVIOUS
<1>3. told = Append(box, "Halt")
  BY <1>2 DEF ToolHookHalts
<1>4. "Halt" \notin Telling /\ "Started" \in Telling /\ "Asked" \in Telling
  BY DEF Telling
<1>5. /\ Speaks(told)
      /\ \A y : Has(told, y) <=> Has(box, y) \/ "Halt" = y
      /\ Quiet(told) <=> Quiet(box)
      /\ \A y \in Telling : Last(told, y) <=> Last(box, y)
  BY <1>3, <1>4, Adds
<1>6. /\ spent' \in [{"messages", "answers", "ends", "cancels", "timeouts", "crashes"} -> Nat]
      /\ spent'.crashes = spent.crashes
  BY <1>1, Counted DEF ToolHookHalts
<1>7. Kept' = Kept
  BY DEF Kept, ToolHookHalts
<1>8. TypeOK'
  BY <1>1, <1>2, <1>5, <1>6, Types DEF Speaks, ToolHookHalts
<1>9. Placed'
  BY <1>1, <1>2, <1>5, <1>6, <1>7 DEF Inv, Placed, Speaks, ToolHookHalts
<1>10. Shown' /\ Aimed'
  BY <1>2, <1>4, <1>5 DEF Inv, Shown, Working, Visible, Aimed, ToolHookHalts
<1>11. Ended'
  BY <1>1 DEF Ended, ToolHookHalts
<1>12. Parked'
  BY <1>2, <1>4, <1>5, <1>6, <1>7 DEF Inv, Parked, ParkShown, ToolHookHalts
<1> QED
  BY <1>8, <1>9, <1>10, <1>11, <1>12 DEF Inv

-----------------------------------------------------------------------------
(* A crash, a load, and the start *)

\* Nothing runs and nothing is on its way.
LEMMA AtRest ==
    /\ NoRun \in Run /\ NoRun.stage = "none" /\ NoRun.cancelled = FALSE
    /\ <<>> \in Seq(News) /\ <<>> \in Seq(Command)
    /\ {} \subseteq Waiting /\ Cardinality({}) <= 1
<1>1. PICK r : r = NoRun
  OBVIOUS
<1>2. r \in Run /\ r.stage = "none" /\ r.cancelled = FALSE
  BY <1>1, FALSE \in BOOLEAN DEF NoRun, Run, TurnEnd
<1>3. Cardinality({}) = 0
  BY FS_EmptySet
<1> QED
  BY <1>1, <1>2, <1>3

LEMMA CrashStep ==
    ASSUME Inv, Crash
    PROVE  Inv'
<1>1. /\ TypeOK /\ live' = FALSE /\ box' = <<>> /\ waiting' = {} /\ answered' = FALSE
      /\ staged' = {} /\ abox' = <<>> /\ run' = NoRun /\ acks' = {}
      /\ hook' = FALSE /\ hookFired' = FALSE /\ continuations' = 0
      /\ UNCHANGED <<phase, fatal, mem, astray>>
  BY DEF Inv, Crash
<1>2. /\ spent' \in [{"messages", "answers", "ends", "cancels", "timeouts", "crashes"} -> Nat]
      /\ spent'.crashes > 0
  BY <1>1, Counted DEF Crash
<1>3. /\ live' \in BOOLEAN /\ answered' \in BOOLEAN /\ hook' \in BOOLEAN /\ hookFired' \in BOOLEAN
  BY <1>1, FALSE \in BOOLEAN, Zenon
<1>4. continuations' \in 0..MaxStopContinuations
  BY <1>1, SessionAssumption
<1>5. TypeOK'
  BY <1>1, <1>2, <1>3, <1>4, AtRest, Types
<1>6. Placed'
  <2>1. ~live' /\ ~hook'
    BY <1>1
  <2> QED
    BY <1>1, <1>2, <2>1, AtRest, NoNews DEF Placed
<1>7. Shown' /\ Aimed'
  BY <1>1, AtRest, NoNews DEF Shown, Working, Aimed
<1>8. Ended'
  BY <1>1, <1>2, AtRest DEF Ended, Excused
<1>9. Parked'
  BY <1>2 DEF Parked
<1> QED
  BY <1>5, <1>6, <1>7, <1>8, <1>9 DEF Inv

LEMMA LoadStep ==
    ASSUME Inv, Load
    PROVE  Inv'
<1> USE DEF agent
<1>1. /\ TypeOK /\ ~live /\ live' = TRUE
      /\ abox = <<>> /\ waiting = {} /\ staged = {} /\ run = NoRun /\ ~hook
      /\ spent.crashes > 0 /\ spent.crashes \in Nat
      /\ UNCHANGED <<phase, fatal, waiting, answered, agent, astray, spent>>
  BY Types DEF Inv, Placed, Load
<1>2. box' = <<"Interrupted">> \/ box' = <<>>
  BY DEF Load
<1>3. PICK told : told = box'
  OBVIOUS
<1>4. Append(<<>>, "Interrupted") = <<"Interrupted">>
  OBVIOUS
<1>5. "Interrupted" \in News /\ "Interrupted" \in Telling
  BY DEF News, Telling
<1>6. told \in Seq(News) /\ (Quiet(told) \/ \E x \in Telling : Last(told, x)) /\ ~Has(told, "Started")
  <2>1. CASE told = <<>>
    BY <2>1, NoNews, AtRest
  <2>2. CASE told = <<"Interrupted">>
    <3>1. PICK e : e = <<>>
      OBVIOUS
    <3>2. e \in Seq(News) /\ told = Append(e, "Interrupted") /\ ~Has(e, "Started")
      BY <1>4, <2>2, <3>1, NoNews, AtRest
    <3>3. /\ told \in Seq(News)
          /\ \A y : Has(told, y) <=> Has(e, y) \/ "Interrupted" = y
          /\ Last(told, "Interrupted")
      BY <1>5, <3>2, NewsJoined
    <3> QED
      BY <1>5, <3>2, <3>3
  <2> QED
    BY <1>2, <1>3, <2>1, <2>2
<1>7. Kept' = Kept
  BY <1>1 DEF Kept
<1>8. TypeOK'
  <2>1. live' \in BOOLEAN
    BY <1>1, TRUE \in BOOLEAN, Zenon
  <2> QED
    BY <1>1, <1>3, <1>6, <2>1, Types
<1>9. Placed'
  BY <1>1, <1>3, <1>6, <1>7, AtRest DEF Inv, Placed
<1>10. Shown' /\ Aimed'
  BY <1>1, AtRest, NoNews DEF Shown, Working, Aimed
<1>11. Ended'
  BY <1>1, AtRest DEF Ended, Excused
<1>12. Parked'
  BY <1>1 DEF Parked
<1> QED
  BY <1>8, <1>9, <1>10, <1>11, <1>12 DEF Inv

LEMMA Starts ==
    ASSUME Init
    PROVE  Inv
<1> USE DEF Init
<1>1. PICK m : m = mem
  OBVIOUS
<1>2. m \in Memory /\ m.asks = FALSE /\ Kept = {m}
  BY <1>1, FALSE \in BOOLEAN DEF Memory, Kept
<1>3. PICK s : s = spent
  OBVIOUS
<1>4. /\ s \in [{"messages", "answers", "ends", "cancels", "timeouts", "crashes"} -> Nat]
      /\ s.crashes = 0
  BY <1>3
<1>5. /\ live \in BOOLEAN /\ answered \in BOOLEAN /\ hook \in BOOLEAN /\ hookFired \in BOOLEAN
      /\ fatal \in BOOLEAN
  BY FALSE \in BOOLEAN, TRUE \in BOOLEAN, Zenon
<1>6. continuations \in 0..MaxStopContinuations
  BY SessionAssumption
<1>7. phase \in TurnPhase
  BY DEF TurnPhase
<1>8. TypeOK
  BY <1>1, <1>2, <1>3, <1>4, <1>5, <1>6, <1>7, AtRest, Types
<1>9. Placed
  BY <1>1, <1>2, <1>3, <1>4, AtRest, NoNews DEF Placed
<1>10. Shown /\ Aimed
  BY AtRest, NoNews DEF Shown, Working, Aimed
<1>11. Ended
  BY AtRest, NoNews DEF Ended, Told
<1>12. Parked
  <2>1. ~Last(<<>>, "Asked")
    BY NoNews, QuietLast DEF Telling
  <2> QED
    BY <1>2, <2>1 DEF Parked, ParkShown
<1> QED
  BY <1>8, <1>9, <1>10, <1>11, <1>12 DEF Inv

LEMMA Stutters ==
    ASSUME Inv, UNCHANGED vars
    PROVE  Inv'
<1> USE DEF vars, session, agent
<1>1. Kept' = Kept
  BY DEF Kept
<1>2. TypeOK'
  BY Types DEF Inv
<1>3. Placed' /\ Parked'
  BY <1>1 DEF Inv, Placed, Parked, ParkShown
<1>4. Shown' /\ Aimed'
  BY DEF Inv, Shown, Working, Visible, Aimed
<1>5. Ended'
  BY <1>1 DEF Inv, Ended, Excused, Told, Restarts
<1> QED
  BY <1>2, <1>3, <1>4, <1>5 DEF Inv

-----------------------------------------------------------------------------
(* The theorems *)

\* The invariant of every behaviour.
THEOREM Invariant == Spec => []Inv
<1>1. Init => Inv
  BY Starts
<1>2. ASSUME Inv, [Next]_vars PROVE Inv'
  <2>1. CASE \E item \in {"User", "Report"} : Put(item)
    BY <1>2, <2>1, PutStep
  <2>2. CASE Answer
    BY <1>2, <2>2, AnswerStep
  <2>3. CASE Stop
    BY <1>2, <2>3, StopStep
  <2>4. CASE CancelTimesOut
    BY <1>2, <2>4, TimeoutStep
  <2>5. CASE SessionHandles
    BY <1>2, <2>5, AnsweredStep, OutcomeStep, HaltStep, ContinueStep DEF SessionHandles
  <2>6. CASE AgentHandles
    BY <1>2, <2>6, PersistStep, EnqueueStep, DrainStep, TakeAnswerStep, CancelStep,
       StartPreparedStep, BoundaryStep, RunFinishedStep DEF AgentHandles
  <2>7. CASE TaskSteps
    BY <1>2, <2>7, PrepareStep, ProvideStep, ProvideCancelledStep, LoopStep, ReportsStep,
       StopHookStep DEF TaskSteps
  <2>8. CASE ToolHookHalts
    BY <1>2, <2>8, ToolHookStep
  <2>9. CASE Crash
    BY <1>2, <2>9, CrashStep
  <2>10. CASE Load
    BY <1>2, <2>10, LoadStep
  <2>11. CASE UNCHANGED vars
    BY <1>2, <2>11, Stutters
  <2> QED
    BY <1>2, <2>1, <2>2, <2>3, <2>4, <2>5, <2>6, <2>7, <2>8, <2>9, <2>10, <2>11 DEF Next
<1> QED
  BY <1>1, <1>2, PTL DEF Spec

\* The variables of the session and its agent keep their types in every behaviour.
THEOREM TypeCorrect == Spec => []TypeOK
<1>1. Inv => TypeOK
  BY DEF Inv
<1> QED
  BY <1>1, Invariant, PTL

\* A turn that runs, and that nobody cancelled, is shown as Running once both mailboxes are
\* empty, so that a Stop reaches it (on_agent_started, on_stop, cancel_agent).
THEOREM TurnIsShown == Spec => []RunIsShown
<1>1. Inv => RunIsShown
  <2>1. ASSUME Inv, Settled, run.stage \in {"providing", "running"}, ~run.cancelled
        PROVE  phase = "Running" \/ "preparing" \in astray
    <3>1. Visible
      BY <2>1 DEF Inv, Shown, Working
    <3>2. ~Holds(<<>>, "Cancel") /\ ~Last(<<>>, "Started")
      BY NoNews, LastHas
    <3> QED
      BY <2>1, <3>1, <3>2 DEF Visible, Settled
  <2> QED
    BY <2>1 DEF RunIsShown
<1> QED
  BY <1>1, Invariant, PTL

\* A session shows a turn that is over only after a cancel that hit the next turn, or after a
\* crash (on_main_outcome, handle_finished, StopHookParent::deliver, ContinueAfterStop).
THEOREM EndsAreKnown == Spec => []PhantomsExplained
<1>1. Inv => PhantomsExplained
  <2>1. ASSUME Inv, Settled, phase = "Running", ~fatal, run.stage = "none",
               "next" \notin astray, ~(spent.crashes > 0)
        PROVE  FALSE
    <3>1. Told \/ Restarts
      BY <2>1 DEF Inv, Ended, Excused, Settled
    <3>2. /\ \A x : ~Has(<<>>, x) /\ ~Last(<<>>, x)
          /\ \A k : ~Holds(<<>>, k)
      BY NoNews, LastHas
    <3>3. ~Restarts
      BY <2>1, <3>2 DEF Restarts, Settled
    <3>4. ~Told
      BY <2>1, <3>2 DEF Told, Settled
    <3> QED
      BY <3>1, <3>3, <3>4
  <2> QED
    BY <2>1 DEF PhantomsExplained, NoPhantomTurn
<1> QED
  BY <1>1, Invariant, PTL

\* The session waits for input exactly while the agent has questions open, as long as the
\* process lives (stop_boundary, on_main_outcome, try_drain, on_answer).
THEOREM QuestionsAreShown == Spec => []ParkIsShown
<1>1. Inv => ParkIsShown
  <2>1. ASSUME Inv, Settled, spent.crashes = 0 PROVE mem.asks <=> phase = "AwaitingInput"
    <3>1. ParkShown(mem)
      BY <2>1 DEF Inv, Parked, Kept, Settled
    <3>2. Quiet(<<>>) /\ ~Last(<<>>, "Asked")
      BY NoNews, LastHas
    <3> QED
      BY <2>1, <3>1, <3>2 DEF ParkShown, Settled
  <2> QED
    BY <2>1 DEF ParkIsShown
<1> QED
  BY <1>1, Invariant, PTL
=============================================================================
