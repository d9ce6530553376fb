--------------------------- MODULE RunForestProofs ---------------------------
(***************************************************************************)
(* Proofs about RunForest, for every workflow, depth and cap: its types,   *)
(* that a run has one step in flight, that a result is sent once, that     *)
(* whoever asked for a child is answered, that the parents of a child lead *)
(* to the root, and that a boundary leaves nothing to do.                  *)
(*                                                                         *)
(* A handler emits events, performs what the forest then wants, and writes *)
(* all it emitted in one go.  The folds it is made of are therefore proved *)
(* about one stage at a time: what holds of what the handler has built up  *)
(* (Sane) and what an event takes for granted (Fits) are kept by every     *)
(* event, every action of a round, and every round.                        *)
(***************************************************************************)
EXTENDS RunForest, TLAPS, NaturalsInduction, WellFoundedInduction,
        SequenceTheorems, FiniteSetTheorems

-----------------------------------------------------------------------------
(* Folds.  A fold of the model is one of five; what it computes, step by step *)

\* What is folded.
Fold(op, x, e) ==
  CASE op[1] = "Apply"   -> Apply(x, e)
    [] op[1] = "Emit"    -> Emit(x, e)
    [] op[1] = "Perform" -> Perform(x, e)
    [] op[1] = "Round"   -> Round(x)
    [] op[1] = "Logs"    -> WriteLogs(op[2], x, e)

\* The function by which a fold of s over the first n positions is defined.
Folding(g, op, x, s, n) ==
  g = [t \in SUBSET (1..n) |->
         IF t = {} THEN x ELSE Fold(op, g[t \ {Max(t)}], s[Max(t)])]

\* Some of the numbers of a set is the least.
LEMMA LeastOf ==
  ASSUME NEW B \in SUBSET Nat, B # {}
  PROVE  \E k \in B : \A j \in B : k <= j
<1>1. \E k \in B : \A j \in B : ~(<<j, k>> \in OpToRel(<, Nat))
  BY WFMin, NatLessThanWellFounded, Zenon
<1>2. \E k \in B : \A j \in B : ~(j < k)
  BY <1>1 DEF OpToRel
<1> QED
  BY <1>2

\* Induction, for a set of numbers.
LEMMA Induction ==
  ASSUME NEW n \in Nat, NEW G, 0 \in G, \A k \in 0..(n - 1) : k \in G => k + 1 \in G
  PROVE  \A k \in 0..n : k \in G
<1> DEFINE B == {k \in 0..n : k \notin G}
<1> SUFFICES ASSUME B # {} PROVE FALSE
  OBVIOUS
<1>1. PICK k \in B : \A j \in B : k <= j
  <2>1. B \in SUBSET Nat
    OBVIOUS
  <2> HIDE DEF B
  <2> QED
    BY <2>1, LeastOf
<1>2. k # 0 /\ k - 1 \in 0..(n - 1) /\ k - 1 \in 0..n /\ (k - 1) + 1 = k
  OBVIOUS
<1>3. k - 1 \notin B
  BY <1>1, <1>2
<1> QED
  BY <1>2, <1>3

\* The last position of a set that has one.
LEMMA MaxIs ==
  ASSUME NEW n \in Nat, NEW t \in SUBSET (1..n)
  PROVE  n \in t => Max(t) = n
<1> SUFFICES ASSUME n \in t PROVE Max(t) = n
  OBVIOUS
<1>1. \A y \in t : n >= y
  OBVIOUS
<1>2. \A x \in t : (\A y \in t : x >= y) => x = n
  BY <1>1
<1>3. \E x \in t : \A y \in t : x >= y
  BY <1>1
<1> QED
  BY <1>2, <1>3 DEF Max

\* There is such a function, whatever is folded.
LEMMA FoldingExists ==
  ASSUME NEW op, NEW x, NEW s, NEW n \in Nat
  PROVE  \E g : Folding(g, op, x, s, n)
<1> DEFINE G == {k \in Nat : \E g : Folding(g, op, x, s, k)}
<1>1. 0 \in G
  <2> DEFINE g == [t \in SUBSET (1..0) |-> x]
  <2>1. \A t \in SUBSET (1..0) : t = {}
    OBVIOUS
  <2>2. Folding(g, op, x, s, 0)
    BY <2>1 DEF Folding
  <2> QED
    BY <2>2
<1>2. ASSUME NEW k \in Nat, k \in G
      PROVE  k + 1 \in G
  <2>1. PICK g : Folding(g, op, x, s, k)
    BY <1>2
  <2> DEFINE more(t) == IF k + 1 \in t THEN Fold(op, g[t \ {k + 1}], s[k + 1]) ELSE g[t]
             f == [t \in SUBSET (1..(k + 1)) |-> more(t)]
  <2>2. ASSUME NEW t \in SUBSET (1..(k + 1))
        PROVE  more(t) = IF t = {} THEN x ELSE Fold(op, f[t \ {Max(t)}], s[Max(t)])
    <3>1. CASE k + 1 \in t
      <4>1. Max(t) = k + 1
        BY <3>1, MaxIs
      <4>2. t \ {k + 1} \in SUBSET (1..(k + 1)) /\ k + 1 \notin t \ {k + 1}
        OBVIOUS
      <4>3. f[t \ {k + 1}] = g[t \ {k + 1}]
        BY <4>2
      <4> QED
        BY <3>1, <4>1, <4>3
    <3>2. CASE k + 1 \notin t
      <4>1. t \in SUBSET (1..k)
        BY <3>2
      <4>2. g[t] = IF t = {} THEN x ELSE Fold(op, g[t \ {Max(t)}], s[Max(t)])
        BY <2>1, <4>1 DEF Folding
      <4>3. t \ {Max(t)} \in SUBSET (1..(k + 1)) /\ k + 1 \notin t \ {Max(t)}
        BY <3>2
      <4>4. f[t \ {Max(t)}] = g[t \ {Max(t)}]
        BY <4>3
      <4> QED
        BY <3>2, <4>2, <4>4
    <3> QED
      BY <3>1, <3>2
  <2> DEFINE body(h, t) == IF t = {} THEN x ELSE Fold(op, h[t \ {Max(t)}], s[Max(t)])
  <2>3. f = [t \in SUBSET (1..(k + 1)) |-> body(f, t)]
    <3>1. \A t \in SUBSET (1..(k + 1)) : more(t) = body(f, t)
      BY <2>2
    <3> HIDE DEF more, body
    <3> QED
      BY <3>1
  <2>4. Folding(f, op, x, s, k + 1)
    BY <2>3 DEF Folding
  <2> QED
    BY <2>4
<1>3. \A k \in 0..n : k \in G
  <2> HIDE DEF G
  <2> QED
    BY <1>1, <1>2, Induction
<1> QED
  BY <1>3

\* The stages of a fold: r[k] is what it has computed from the first k elements.
Stages(r, op, x, s) ==
  /\ r[0] = x
  /\ \A k \in 1..Len(s) : r[k] = Fold(op, r[k - 1], s[k])

\* Any function that defines a fold has those stages, and the last is its result.
LEMMA FoldingStages ==
  ASSUME NEW op, NEW x, NEW S, NEW s \in Seq(S), NEW g, Folding(g, op, x, s, Len(s))
  PROVE  \E r : Stages(r, op, x, s) /\ r[Len(s)] = g[DOMAIN s]
<1> DEFINE n == Len(s)
           r == [k \in 0..n |-> g[1..k]]
<1>1. n \in Nat /\ DOMAIN s = 1..n
  OBVIOUS
<1> HIDE DEF n
<1>2. r[0] = x
  <2>1. 1..0 = {} /\ {} \in SUBSET (1..n)
    OBVIOUS
  <2>2. g[{}] = x
    BY <2>1 DEF Folding, n
  <2> QED
    BY <1>1, <2>1, <2>2
<1>3. ASSUME NEW k \in 1..n
      PROVE  r[k] = Fold(op, r[k - 1], s[k])
  <2>1. /\ k \in Nat /\ k >= 1 /\ k <= n
        /\ 1..k \in SUBSET (1..n) /\ 1..k \in SUBSET (1..k) /\ k \in 1..k
    <3>1. k \in Nat /\ k >= 1 /\ k <= n
      BY <1>1
    <3> QED
      BY <1>1, <3>1
  <2>2. Max(1..k) = k
    BY <2>1, MaxIs
  <2>3. (1..k) \ {k} = 1..(k - 1)
    BY <1>1
  <2>4. g[1..k] = Fold(op, g[(1..k) \ {k}], s[k])
    BY <2>1, <2>2 DEF Folding, n
  <2>5. r[k] = g[1..k] /\ r[k - 1] = g[1..(k - 1)]
    BY <1>1
  <2> QED
    BY <2>3, <2>4, <2>5
<1>4. r[n] = g[1..n]
  BY <1>1
<1> HIDE DEF r
<1> QED
  BY <1>1, <1>2, <1>3, <1>4 DEF Stages, n

-----------------------------------------------------------------------------
(* The five folds *)

Journal(f, s)      == FoldLeft(Apply, f, s)
EmitAll(h, s)      == FoldLeft(Emit, h, s)
PerformAll(h, s)   == FoldLeft(Perform, h, s)
RoundAll(h, s)     == FoldLeft(LAMBDA g, n : Round(g), h, s)
WriteAll(f, ag, s) == FoldLeft(LAMBDA a, e : WriteLogs(f, a, e), ag, s)

\* The events of a handler, one after the other.
LEMMA EmitFold ==
  ASSUME NEW x, NEW S, NEW s \in Seq(S)
  PROVE  \E r : /\ r[0] = x
                /\ \A k \in 1..Len(s) : r[k] = Emit(r[k - 1], s[k])
                /\ r[Len(s)] = EmitAll(x, s)
<1> DEFINE body(g, t) == IF t = {} THEN x ELSE Emit(g[t \ {Max(t)}], s[Max(t)])
<1>1. EmitAll(x, s) =
        (CHOOSE g : g = [t \in SUBSET DOMAIN s |-> body(g, t)])[DOMAIN s]
  BY DEF FoldLeft, MapThenFoldSet, EmitAll
<1>2. PICK g : Folding(g, <<"Emit">>, x, s, Len(s))
  BY FoldingExists, LenProperties
<1>3. \A h, e : Fold(<<"Emit">>, h, e) = Emit(h, e)
  BY DEF Fold
<1>4. \A h : (h = [t \in SUBSET DOMAIN s |-> body(h, t)]) <=> Folding(h, <<"Emit">>, x, s, Len(s))
  <2>1. DOMAIN s = 1..Len(s)
    OBVIOUS
  <2> QED
    BY <1>3, <2>1 DEF Folding
<1> HIDE DEF body
<1> DEFINE c == CHOOSE h : h = [t \in SUBSET DOMAIN s |-> body(h, t)]
<1>5. Folding(c, <<"Emit">>, x, s, Len(s))
  BY <1>2, <1>4
<1> HIDE DEF c
<1>6. PICK r : Stages(r, <<"Emit">>, x, s) /\ r[Len(s)] = c[DOMAIN s]
  BY <1>5, FoldingStages
<1>7. r[Len(s)] = EmitAll(x, s)
  BY <1>1, <1>6 DEF c
<1> QED
  BY <1>3, <1>6, <1>7 DEF Stages

\* The events of the journal.
LEMMA ApplyFold ==
  ASSUME NEW x, NEW S, NEW s \in Seq(S)
  PROVE  \E r : /\ r[0] = x
                /\ \A k \in 1..Len(s) : r[k] = Apply(r[k - 1], s[k])
                /\ r[Len(s)] = Journal(x, s)
<1> DEFINE body(g, t) == IF t = {} THEN x ELSE Apply(g[t \ {Max(t)}], s[Max(t)])
<1>1. Journal(x, s) =
        (CHOOSE g : g = [t \in SUBSET DOMAIN s |-> body(g, t)])[DOMAIN s]
  BY DEF FoldLeft, MapThenFoldSet, Journal
<1>2. PICK g : Folding(g, <<"Apply">>, x, s, Len(s))
  BY FoldingExists, LenProperties
<1>3. \A h, e : Fold(<<"Apply">>, h, e) = Apply(h, e)
  BY DEF Fold
<1>4. \A h : (h = [t \in SUBSET DOMAIN s |-> body(h, t)]) <=> Folding(h, <<"Apply">>, x, s, Len(s))
  <2>1. DOMAIN s = 1..Len(s)
    OBVIOUS
  <2> QED
    BY <1>3, <2>1 DEF Folding
<1> HIDE DEF body
<1> DEFINE c == CHOOSE h : h = [t \in SUBSET DOMAIN s |-> body(h, t)]
<1>5. Folding(c, <<"Apply">>, x, s, Len(s))
  BY <1>2, <1>4
<1> HIDE DEF c
<1>6. PICK r : Stages(r, <<"Apply">>, x, s) /\ r[Len(s)] = c[DOMAIN s]
  BY <1>5, FoldingStages
<1>7. r[Len(s)] = Journal(x, s)
  BY <1>1, <1>6 DEF c
<1> QED
  BY <1>3, <1>6, <1>7 DEF Stages

\* The actions of a round.
LEMMA PerformFold ==
  ASSUME NEW x, NEW S, NEW s \in Seq(S)
  PROVE  \E r : /\ r[0] = x
                /\ \A k \in 1..Len(s) : r[k] = Perform(r[k - 1], s[k])
                /\ r[Len(s)] = PerformAll(x, s)
<1> DEFINE body(g, t) == IF t = {} THEN x ELSE Perform(g[t \ {Max(t)}], s[Max(t)])
<1>1. PerformAll(x, s) =
        (CHOOSE g : g = [t \in SUBSET DOMAIN s |-> body(g, t)])[DOMAIN s]
  BY DEF FoldLeft, MapThenFoldSet, PerformAll
<1>2. PICK g : Folding(g, <<"Perform">>, x, s, Len(s))
  BY FoldingExists, LenProperties
<1>3. \A h, e : Fold(<<"Perform">>, h, e) = Perform(h, e)
  BY DEF Fold
<1>4. \A h : (h = [t \in SUBSET DOMAIN s |-> body(h, t)]) <=> Folding(h, <<"Perform">>, x, s, Len(s))
  <2>1. DOMAIN s = 1..Len(s)
    OBVIOUS
  <2> QED
    BY <1>3, <2>1 DEF Folding
<1> HIDE DEF body
<1> DEFINE c == CHOOSE h : h = [t \in SUBSET DOMAIN s |-> body(h, t)]
<1>5. Folding(c, <<"Perform">>, x, s, Len(s))
  BY <1>2, <1>4
<1> HIDE DEF c
<1>6. PICK r : Stages(r, <<"Perform">>, x, s) /\ r[Len(s)] = c[DOMAIN s]
  BY <1>5, FoldingStages
<1>7. r[Len(s)] = PerformAll(x, s)
  BY <1>1, <1>6 DEF c
<1> QED
  BY <1>3, <1>6, <1>7 DEF Stages

\* The rounds of a boundary.
LEMMA RoundFold ==
  ASSUME NEW x, NEW S, NEW s \in Seq(S)
  PROVE  \E r : /\ r[0] = x
                /\ \A k \in 1..Len(s) : r[k] = Round(r[k - 1])
                /\ r[Len(s)] = RoundAll(x, s)
<1> DEFINE body(g, t) == IF t = {} THEN x ELSE Round(g[t \ {Max(t)}])
<1>1. RoundAll(x, s) =
        (CHOOSE g : g = [t \in SUBSET DOMAIN s |-> body(g, t)])[DOMAIN s]
  BY DEF FoldLeft, MapThenFoldSet, RoundAll
<1>2. PICK g : Folding(g, <<"Round">>, x, s, Len(s))
  BY FoldingExists, LenProperties
<1>3. \A h, e : Fold(<<"Round">>, h, e) = Round(h)
  BY DEF Fold
<1>4. \A h : (h = [t \in SUBSET DOMAIN s |-> body(h, t)]) <=> Folding(h, <<"Round">>, x, s, Len(s))
  <2>1. DOMAIN s = 1..Len(s)
    OBVIOUS
  <2> QED
    BY <1>3, <2>1 DEF Folding
<1> HIDE DEF body
<1> DEFINE c == CHOOSE h : h = [t \in SUBSET DOMAIN s |-> body(h, t)]
<1>5. Folding(c, <<"Round">>, x, s, Len(s))
  BY <1>2, <1>4
<1> HIDE DEF c
<1>6. PICK r : Stages(r, <<"Round">>, x, s) /\ r[Len(s)] = c[DOMAIN s]
  BY <1>5, FoldingStages
<1>7. r[Len(s)] = RoundAll(x, s)
  BY <1>1, <1>6 DEF c
<1> QED
  BY <1>3, <1>6, <1>7 DEF Stages

\* What the journal writes in the agents' logs.
LEMMA LogsFold ==
  ASSUME NEW f, NEW x, NEW S, NEW s \in Seq(S)
  PROVE  \E r : /\ r[0] = x
                /\ \A k \in 1..Len(s) : r[k] = WriteLogs(f, r[k - 1], s[k])
                /\ r[Len(s)] = WriteAll(f, x, s)
<1> DEFINE body(g, t) == IF t = {} THEN x ELSE WriteLogs(f, g[t \ {Max(t)}], s[Max(t)])
<1>1. WriteAll(f, x, s) =
        (CHOOSE g : g = [t \in SUBSET DOMAIN s |-> body(g, t)])[DOMAIN s]
  BY DEF FoldLeft, MapThenFoldSet, WriteAll
<1>2. PICK g : Folding(g, <<"Logs", f>>, x, s, Len(s))
  BY FoldingExists, LenProperties
<1>3. \A h, e : Fold(<<"Logs", f>>, h, e) = WriteLogs(f, h, e)
  BY DEF Fold
<1>4. \A h : (h = [t \in SUBSET DOMAIN s |-> body(h, t)]) <=> Folding(h, <<"Logs", f>>, x, s, Len(s))
  <2>1. DOMAIN s = 1..Len(s)
    OBVIOUS
  <2> QED
    BY <1>3, <2>1 DEF Folding
<1> HIDE DEF body
<1> DEFINE c == CHOOSE h : h = [t \in SUBSET DOMAIN s |-> body(h, t)]
<1>5. Folding(c, <<"Logs", f>>, x, s, Len(s))
  BY <1>2, <1>4
<1> HIDE DEF c
<1>6. PICK r : Stages(r, <<"Logs", f>>, x, s) /\ r[Len(s)] = c[DOMAIN s]
  BY <1>5, FoldingStages
<1>7. r[Len(s)] = WriteAll(f, x, s)
  BY <1>1, <1>6 DEF c
<1> QED
  BY <1>3, <1>6, <1>7 DEF Stages

-----------------------------------------------------------------------------
(* What the variables hold *)

Outs    == Outcomes \union {""}
SubRec  == [parent : AgentIds \union {NoAgent}, status : SubStatus, notified : BOOLEAN]
StepRec == [step : DOMAIN Transitions, status : StepStatus, out : Outs]
RunRec  == [parent : AgentIds \union {NoAgent}, status : RunStatus, notified : BOOLEAN,
            steps : Seq(StepRec)]
Forest  == [root : Roots, subs : [SubIds -> SubRec], runs : [RunIds -> RunRec]]

AgentRec == [up : BOOLEAN, queued : BOOLEAN, busy : BOOLEAN, asks : BOOLEAN, died : BOOLEAN,
             call : Children \union {NoAgent}, open : SUBSET Children]
Agents   == [AgentIds -> AgentRec]

Invoked == RunIds \ {RootRun}

SubEvent     == [t : {"SubAgentRunning", "SubAgentCompleted", "SubAgentFailed",
                      "SubAgentNotified", "AgentDeleted"}, id : SubIds]
Spawned      == [t : {"SubAgentSpawned"}, id : SubIds, parent : AgentIds]
Created      == [t : {"RunCreated"}, id : Invoked, parent : AgentIds]
StartedStep  == [t : {"StepStarted"}, id : RunIds, step : DOMAIN Transitions]
ConcludedStep == [t : {"StepConcluded"}, id : RunIds, index : Nat, out : Outs]
EndedStep    == [t : {"StepFailed", "StepCancelled"}, id : RunIds, index : Nat]
RunEvent     == [t : {"AskRecorded", "RunFinished", "RunFailed", "RunNotified"}, id : RunIds]

Event == SubEvent \union Spawned \union Created \union StartedStep \union ConcludedStep
           \union EndedStep \union RunEvent

OfStep == {"StepConcluded", "StepFailed", "StepCancelled"}
OfRun  == OfStep \union {"StepStarted", "AskRecorded", "RunFinished", "RunFailed"}
Births == {"SubAgentSpawned", "RunCreated"}

Hands == [f : Forest, ev : Seq(Event), ag : Agents, heard : SUBSET Children, again : BOOLEAN]

\* The steps of a run in flight.
Flying(run) == {k \in DOMAIN run.steps : run.steps[k].status = "Running"}
Idle(run)   == Flying(run) = {}

\* A run that is not there, and one that has a parent.
IsGone(run) == run.status = "Absent"

(* The shape of a run: an invoked one has a parent, one that is not there has *)
(* neither parent nor steps, and one step is in flight at most.               *)
GoodRun(r, run) ==
  /\ run.parent = NoAgent <=> (r = RootRun \/ IsGone(run))
  /\ IsGone(run) => run.steps = <<>>
  /\ \A j, k \in Flying(run) : j = k

Good(f) == \A r \in RunIds : GoodRun(r, f.runs[r])

\* What an event takes for granted of the run it is about.
RunFits(run, e) ==
  /\ e.t \in OfRun => ~IsGone(run)
  /\ e.t \in OfStep => e.index \in DOMAIN run.steps
  /\ e.t = "StepStarted" => Idle(run)

Fits(f, e) == e.id \in RunIds => RunFits(f.runs[e.id], e)

\* What an event makes of the run, or of the subagent, it is about.
NextRun(run, e) ==
  CASE e.t = "RunCreated"    -> NewRun(e.parent)
    [] e.t = "StepStarted"   ->
         [run EXCEPT !.steps = Append(@, [step |-> e.step, status |-> "Running", out |-> ""]),
                     !.status = "Running"]
    [] e.t = "StepConcluded" ->
         [run EXCEPT !.steps[e.index] = [run.steps[e.index] EXCEPT !.status = "Concluded", !.out = e.out],
                     !.status = "Running"]
    [] e.t = "StepFailed"    ->
         [run EXCEPT !.steps[e.index].status = "Failed", !.status = "Failed", !.notified = FALSE]
    [] e.t = "StepCancelled" ->
         [run EXCEPT !.steps[e.index].status = "Cancelled", !.status = "Suspended"]
    [] e.t = "AskRecorded"   -> [run EXCEPT !.status = "AwaitingInput"]
    [] e.t = "RunFinished"   -> [run EXCEPT !.status = "Finished", !.notified = FALSE]
    [] e.t = "RunFailed"     -> [run EXCEPT !.status = "Failed", !.notified = FALSE]
    [] e.t = "RunNotified"   -> [run EXCEPT !.notified = TRUE]

NextSub(sub, e) ==
  CASE e.t = "SubAgentSpawned"   -> [parent |-> e.parent, status |-> "Running", notified |-> FALSE]
    [] e.t = "SubAgentRunning"   -> IF sub.status = "Absent" THEN sub
                                    ELSE [sub EXCEPT !.status = "Running"]
    [] e.t = "SubAgentCompleted" -> IF sub.status = "Absent" THEN sub
                                    ELSE [sub EXCEPT !.status = "Completed", !.notified = FALSE]
    [] e.t = "SubAgentFailed"    -> IF sub.status = "Absent" THEN sub
                                    ELSE [sub EXCEPT !.status = "Failed", !.notified = FALSE]
    [] e.t = "SubAgentNotified"  -> [sub EXCEPT !.notified = TRUE]

\* The ids are of three kinds and no two are alike.
LEMMA IdFacts ==
  /\ NoAgent \notin AgentIds /\ NoAgent \notin Children
  /\ SubIds \intersect RunIds = {} /\ SubIds \intersect StepIds = {}
  /\ Main \notin SubIds /\ Main \notin StepIds
  /\ \A a \in StepIds : RunOf(a) \in RunIds /\ a[3] \in Nat /\ a[3] >= 1
  /\ RootRun \in RunIds
<1>1. MaxRuns \in Nat /\ MaxSubs \in Nat /\ MaxLog \in Nat
  BY ConstantsAssumption DEF MaxLog
<1>2. \A a \in SubIds : \E i \in 1..MaxSubs : a = <<"sub", i>>
  BY DEF SubIds
<1>3. \A r \in RunIds : \E i \in 0..MaxRuns : r = <<"run", i>>
  BY DEF RunIds
<1>4. \A a \in StepIds : \E i \in 0..MaxRuns, k \in 1..MaxLog : a = <<"step", i, k>>
  BY <1>3 DEF StepIds, StepOf
<1>5. NoAgent \notin AgentIds /\ NoAgent \notin Children
  BY <1>2, <1>3, <1>4 DEF AgentIds, Children, NoAgent, Main
<1>6. \A a \in StepIds : RunOf(a) \in RunIds /\ a[3] \in Nat /\ a[3] >= 1
  <2> TAKE a \in StepIds
  <2>1. PICK i \in 0..MaxRuns, k \in 1..MaxLog : a = <<"step", i, k>>
    BY <1>4
  <2>2. a[2] = i /\ a[3] = k
    BY <2>1
  <2> QED
    BY <1>1, <2>2 DEF RunOf, RunIds
<1>7. RootRun \in RunIds
  BY <1>1 DEF RootRun, RunIds
<1>8. SubIds \intersect RunIds = {} /\ SubIds \intersect StepIds = {}
  BY <1>2, <1>3, <1>4
<1>9. Main \notin SubIds /\ Main \notin StepIds
  BY <1>2, <1>4 DEF Main
<1> QED
  BY <1>5, <1>6, <1>7, <1>8, <1>9


-----------------------------------------------------------------------------
(* What an event does to the forest *)

AboutRun == Created \union StartedStep \union ConcludedStep \union EndedStep \union RunEvent
AboutSub == Spawned \union {e \in SubEvent : e.t # "AgentDeleted"}

\* An event is about a run, about a subagent, or deletes one.
LEMMA EventKinds ==
  ASSUME NEW e \in Event
  PROVE  \/ e \in AboutRun /\ e.id \in RunIds /\ e.id \notin SubIds
         \/ e \in AboutSub /\ e.id \in SubIds /\ e.id \notin RunIds
         \/ e.t = "AgentDeleted" /\ e.id \in SubIds /\ e.id \notin RunIds
BY IdFacts DEF Event, AboutRun, AboutSub, SubEvent, Spawned, Created, StartedStep,
               ConcludedStep, EndedStep, RunEvent, Invoked

\* An event about a run changes that run and nothing else.
LEMMA ApplyRun ==
  ASSUME NEW f \in Forest, NEW e \in AboutRun
  PROVE  Apply(f, e) = [f EXCEPT !.runs = [@ EXCEPT ![e.id] = NextRun(f.runs[e.id], e)]]
<1>1. e.id \in RunIds
  BY DEF AboutRun, Created, StartedStep, ConcludedStep, EndedStep, RunEvent, Invoked
<1>2. f.runs[e.id] \in RunRec /\ f.runs \in [RunIds -> RunRec]
  BY <1>1 DEF Forest
<1>3. CASE e \in Created
  <2>1. Apply(f, e) = ApplyRunCreated(f, e) /\ NextRun(f.runs[e.id], e) = NewRun(e.parent)
    BY <1>3 DEF Created, Apply, NextRun
  <2> QED
    BY <1>1, <2>1 DEF ApplyRunCreated, Forest
<1>4. CASE e \in StartedStep
  <2> DEFINE run == f.runs[e.id]
             next == [run EXCEPT !.steps = Append(@, [step |-> e.step, status |-> "Running", out |-> ""]),
                                !.status = "Running"]
  <2>1. Apply(f, e) = ApplyStepStarted(f, e)
    BY <1>4 DEF StartedStep, Apply
  <2>2. ApplyStepStarted(f, e) = [f EXCEPT !.runs = [@ EXCEPT ![e.id] = next]]
    BY Zenon DEF ApplyStepStarted
  <2>3. NextRun(run, e) = next
    BY <1>4 DEF StartedStep, NextRun
  <2> QED
    BY <2>1, <2>2, <2>3
<1>5. CASE e \in ConcludedStep
  <2> DEFINE run == f.runs[e.id]
             next == [run EXCEPT !.steps[e.index] = [run.steps[e.index] EXCEPT !.status = "Concluded", !.out = e.out],
                                !.status = "Running"]
  <2>1. Apply(f, e) = ApplyStepConcluded(f, e)
    BY <1>5 DEF ConcludedStep, Apply
  <2>2. ApplyStepConcluded(f, e) = [f EXCEPT !.runs = [@ EXCEPT ![e.id] = next]]
    BY Zenon DEF ApplyStepConcluded
  <2>3. NextRun(run, e) = next
    BY <1>5 DEF ConcludedStep, NextRun
  <2> QED
    BY <2>1, <2>2, <2>3
<1>6. CASE e \in EndedStep /\ e.t = "StepFailed"
  <2> DEFINE run == f.runs[e.id]
             next == [run EXCEPT !.steps[e.index].status = "Failed", !.status = "Failed",
                                !.notified = FALSE]
  <2>1. Apply(f, e) = ApplyStepFailed(f, e)
    BY <1>6 DEF EndedStep, Apply
  <2>2. ApplyStepFailed(f, e) = [f EXCEPT !.runs = [@ EXCEPT ![e.id] = next]]
    BY Zenon DEF ApplyStepFailed
  <2>3. NextRun(run, e) = next
    BY <1>6 DEF EndedStep, NextRun
  <2> QED
    BY <2>1, <2>2, <2>3
<1>7. CASE e \in EndedStep /\ e.t = "StepCancelled"
  <2> DEFINE run == f.runs[e.id]
             next == [run EXCEPT !.steps[e.index].status = "Cancelled", !.status = "Suspended"]
  <2>1. Apply(f, e) = ApplyStepCancelled(f, e)
    BY <1>7 DEF EndedStep, Apply
  <2>2. ApplyStepCancelled(f, e) = [f EXCEPT !.runs = [@ EXCEPT ![e.id] = next]]
    BY Zenon DEF ApplyStepCancelled
  <2>3. NextRun(run, e) = next
    BY <1>7 DEF EndedStep, NextRun
  <2> QED
    BY <2>1, <2>2, <2>3
<1>8. CASE e \in RunEvent
  BY <1>1, <1>2, <1>8 DEF RunEvent, Apply, NextRun, ApplyAsked, ApplyRunEnded, ApplyRunNotified,
                          Forest, RunRec
<1> QED
  BY <1>3, <1>4, <1>5, <1>6, <1>7, <1>8 DEF AboutRun, EndedStep

\* An event about a subagent changes that subagent and nothing else.
LEMMA ApplySub ==
  ASSUME NEW f \in Forest, NEW e \in AboutSub
  PROVE  Apply(f, e) = [f EXCEPT !.subs = [@ EXCEPT ![e.id] = NextSub(f.subs[e.id], e)]]
<1>1. e.id \in SubIds
  BY DEF AboutSub, Spawned, SubEvent
<1>2. f.subs[e.id] \in SubRec /\ f.subs \in [SubIds -> SubRec]
  BY <1>1 DEF Forest
<1>3. CASE e \in Spawned
  BY <1>1, <1>2, <1>3 DEF Spawned, Apply, NextSub, ApplySubSpawned, Forest
<1>4. CASE e \in SubEvent /\ e.t = "SubAgentRunning"
  BY <1>1, <1>2, <1>4 DEF SubEvent, Apply, NextSub, ApplySubRunning, Forest, SubRec
<1>5. CASE e \in SubEvent /\ e.t = "SubAgentCompleted"
  BY <1>1, <1>2, <1>5 DEF SubEvent, Apply, NextSub, ApplySubCompleted, SubEnds, Forest, SubRec
<1>6. CASE e \in SubEvent /\ e.t = "SubAgentFailed"
  BY <1>1, <1>2, <1>6 DEF SubEvent, Apply, NextSub, ApplySubFailed, SubEnds, Forest, SubRec
<1>7. CASE e \in SubEvent /\ e.t = "SubAgentNotified"
  BY <1>1, <1>2, <1>7 DEF SubEvent, Apply, NextSub, ApplySubNotified, Forest, SubRec
<1> QED
  BY <1>3, <1>4, <1>5, <1>6, <1>7 DEF AboutSub, SubEvent

\* A deletion leaves each entry as it was or takes it away.
LEMMA ApplyDelete ==
  ASSUME NEW f \in Forest, NEW e, e.t = "AgentDeleted"
  PROVE  /\ Apply(f, e) \in Forest
         /\ Apply(f, e).root = f.root
         /\ \A s \in SubIds : Apply(f, e).subs[s] \in {f.subs[s], NoSub}
         /\ \A r \in RunIds : Apply(f, e).runs[r] \in {f.runs[r], NoRun}
         /\ LET doomed == DescendantEntries(f, e.id) \union {e.id} IN
              /\ \A s \in SubIds \ doomed : Apply(f, e).subs[s] = f.subs[s]
              /\ \A s \in SubIds \intersect doomed : Apply(f, e).subs[s] = NoSub
              /\ \A r \in RunIds \ doomed : Apply(f, e).runs[r] = f.runs[r]
              /\ \A r \in RunIds \intersect doomed : Apply(f, e).runs[r] = NoRun
<1> DEFINE doomed == DescendantEntries(f, e.id) \union {e.id}
           d == [f EXCEPT !.subs = [s \in SubIds |-> IF s \in doomed THEN NoSub ELSE @[s]],
                          !.runs = [r \in RunIds |-> IF r \in doomed THEN NoRun ELSE @[r]]]
<1>1. Apply(f, e) = d
  BY DEF Apply, ApplyAgentDeleted
<1> HIDE DEF doomed
<1>2. NoSub \in SubRec /\ NoRun \in RunRec
  BY DEF NoSub, NoRun, SubRec, RunRec, SubStatus, RunStatus
<1>3. /\ d \in Forest /\ d.root = f.root
      /\ \A s \in SubIds : d.subs[s] = IF s \in doomed THEN NoSub ELSE f.subs[s]
      /\ \A r \in RunIds : d.runs[r] = IF r \in doomed THEN NoRun ELSE f.runs[r]
  BY <1>2 DEF Forest
<1> QED
  BY <1>1, <1>3 DEF doomed

\* A step of a run is changed: the others keep theirs, and none begins to run.
LEMMA StepChanges ==
  ASSUME NEW run \in RunRec, NEW i \in DOMAIN run.steps, NEW step \in StepRec,
         NEW steps, steps = [run.steps EXCEPT ![i] = step],
         step.status # "Running"
  PROVE  /\ steps \in Seq(StepRec)
         /\ DOMAIN steps = DOMAIN run.steps
         /\ \A k \in DOMAIN steps : steps[k].status = "Running" => run.steps[k].status = "Running"
<1>1. run.steps \in Seq(StepRec)
  BY DEF RunRec
<1> QED
  BY <1>1

\* A step is added to a run that has none in flight.
LEMMA StepAdds ==
  ASSUME NEW run \in RunRec, Idle(run), NEW step \in StepRec,
         NEW steps, steps = Append(run.steps, step)
  PROVE  /\ steps \in Seq(StepRec)
         /\ DOMAIN run.steps \subseteq DOMAIN steps
         /\ \A j, k \in DOMAIN steps :
              steps[j].status = "Running" /\ steps[k].status = "Running" => j = k
<1>1. run.steps \in Seq(StepRec)
  BY DEF RunRec
<1>2. \A k \in DOMAIN steps : steps[k].status = "Running" => k = Len(run.steps) + 1
  BY <1>1 DEF Idle, Flying
<1> QED
  BY <1>1, <1>2

\* What an event makes of a run: a run, of the same shape, that keeps its steps.
LEMMA NextRunGood ==
  ASSUME NEW e \in AboutRun, NEW run \in RunRec, GoodRun(e.id, run), RunFits(run, e)
  PROVE  /\ NextRun(run, e) \in RunRec
         /\ GoodRun(e.id, NextRun(run, e))
         /\ e.t # "RunCreated" =>
              /\ IsGone(NextRun(run, e)) <=> IsGone(run)
              /\ NextRun(run, e).parent = run.parent
              /\ DOMAIN run.steps \subseteq DOMAIN NextRun(run, e).steps
              /\ e.t # "StepStarted" => Flying(NextRun(run, e)) \subseteq Flying(run)
              /\ e.t \in OfStep => e.index \notin Flying(NextRun(run, e))
         /\ e.t = "RunCreated" => ~IsGone(NextRun(run, e)) /\ Idle(NextRun(run, e))
<1> DEFINE next == NextRun(run, e)
<1>1. /\ run.steps \in Seq(StepRec) /\ run.status \in RunStatus /\ run.notified \in BOOLEAN
      /\ run.parent \in AgentIds \union {NoAgent}
  BY DEF RunRec
<1>2. CASE e \in Created
  <2>1. next = [parent |-> e.parent, status |-> "Pending", notified |-> FALSE, steps |-> <<>>]
    BY <1>2 DEF Created, NextRun, NewRun, NoRun
  <2>2. e.parent \in AgentIds /\ e.id # RootRun /\ e.t = "RunCreated"
    BY <1>2 DEF Created, Invoked
  <2> QED
    BY <2>1, <2>2, IdFacts DEF RunRec, GoodRun, IsGone, Idle, Flying, RunStatus
<1>3. CASE e \in StartedStep
  <2> DEFINE step == [step |-> e.step, status |-> "Running", out |-> ""]
             steps == Append(run.steps, step)
  <2>1. e.t = "StepStarted" /\ step \in StepRec
    BY <1>3 DEF StartedStep, StepRec, StepStatus, Outs
  <2>2. ~IsGone(run) /\ Idle(run)
    BY <2>1 DEF RunFits, OfRun
  <2> HIDE DEF step
  <2>3. /\ steps \in Seq(StepRec) /\ DOMAIN run.steps \subseteq DOMAIN steps
        /\ \A j, k \in DOMAIN steps :
             steps[j].status = "Running" /\ steps[k].status = "Running" => j = k
    BY <2>1, <2>2, StepAdds
  <2>4. next = [run EXCEPT !.steps = steps, !.status = "Running"]
    BY <2>1 DEF NextRun, step
  <2> HIDE DEF steps, next
  <2>5. /\ next \in RunRec /\ next.status = "Running" /\ next.steps = steps
        /\ next.parent = run.parent
    BY <1>1, <2>3, <2>4 DEF RunRec, RunStatus
  <2> QED
    BY <2>1, <2>2, <2>3, <2>5 DEF GoodRun, IsGone, Flying, OfStep, next
<1>4. ASSUME NEW step \in StepRec, NEW status \in RunStatus \ {"Absent"},
             NEW notified \in BOOLEAN, step.status # "Running", e.t \in OfStep,
             next = [run EXCEPT !.steps = [@ EXCEPT ![e.index] = step], !.status = status,
                                !.notified = notified]
      PROVE  /\ next \in RunRec /\ GoodRun(e.id, next) /\ ~IsGone(next) /\ ~IsGone(run)
             /\ next.parent = run.parent
             /\ DOMAIN run.steps \subseteq DOMAIN next.steps
             /\ Flying(next) \subseteq Flying(run) /\ e.index \notin Flying(next)
  <2> DEFINE steps == [run.steps EXCEPT ![e.index] = step]
  <2>1. e.index \in DOMAIN run.steps /\ ~IsGone(run)
    BY <1>4 DEF RunFits, OfStep, OfRun
  <2>2. /\ steps \in Seq(StepRec) /\ DOMAIN steps = DOMAIN run.steps
        /\ \A k \in DOMAIN steps : steps[k].status = "Running" => run.steps[k].status = "Running"
        /\ steps[e.index] = step
    BY <1>4, <2>1, StepChanges
  <2>3. next = [run EXCEPT !.steps = steps, !.status = status, !.notified = notified]
    BY <1>4
  <2> HIDE DEF steps, next
  <2>4. /\ next \in RunRec /\ next.status = status /\ next.steps = steps
        /\ next.parent = run.parent
    BY <1>1, <1>4, <2>2, <2>3 DEF RunRec
  <2> QED
    BY <1>4, <2>1, <2>2, <2>4 DEF GoodRun, IsGone, Flying
<1>5. CASE e \in ConcludedStep
  <2> DEFINE step == [run.steps[e.index] EXCEPT !.status = "Concluded", !.out = e.out]
  <2>1. e.t = "StepConcluded" /\ e.out \in Outs
    BY <1>5 DEF ConcludedStep
  <2>2. run.steps[e.index] \in StepRec
    BY <1>1, <2>1 DEF RunFits, OfStep
  <2>3. step \in StepRec /\ step.status = "Concluded"
    BY <2>1, <2>2 DEF StepRec, StepStatus
  <2>4. next = [run EXCEPT !.steps = [@ EXCEPT ![e.index] = step], !.status = "Running"]
    BY <2>1 DEF NextRun
  <2> HIDE DEF step, next
  <2>5. next = [run EXCEPT !.steps = [@ EXCEPT ![e.index] = step], !.status = "Running",
                           !.notified = run.notified]
    BY <1>1, <2>4 DEF RunRec
  <2> QED
    BY <1>1, <1>4, <2>1, <2>3, <2>5 DEF OfStep, RunStatus, next
<1>6. CASE e \in EndedStep
  <2> DEFINE step(s) == [run.steps[e.index] EXCEPT !.status = s]
  <2>1. e.t \in {"StepFailed", "StepCancelled"} /\ e.t \in OfStep
    BY <1>6 DEF EndedStep, OfStep
  <2>2. run.steps[e.index] \in StepRec
    BY <1>1, <2>1 DEF RunFits
  <2>3. \A s \in {"Failed", "Cancelled"} : step(s) \in StepRec /\ step(s).status = s
    BY <2>2 DEF StepRec, StepStatus
  <2>4. e.t = "StepFailed" =>
          next = [run EXCEPT !.steps = [@ EXCEPT ![e.index] = step("Failed")],
                             !.status = "Failed", !.notified = FALSE]
    BY DEF NextRun
  <2>5. e.t = "StepCancelled" =>
          next = [run EXCEPT !.steps = [@ EXCEPT ![e.index] = step("Cancelled")],
                             !.status = "Suspended"]
    BY DEF NextRun
  <2> HIDE DEF step, next
  <2>6. e.t = "StepCancelled" =>
          next = [run EXCEPT !.steps = [@ EXCEPT ![e.index] = step("Cancelled")],
                             !.status = "Suspended", !.notified = run.notified]
    BY <1>1, <2>5 DEF RunRec
  <2>7. CASE e.t = "StepFailed"
    BY <1>4, <2>1, <2>3, <2>4, <2>7 DEF RunStatus, next
  <2>8. CASE e.t = "StepCancelled"
    BY <1>1, <1>4, <2>1, <2>3, <2>6, <2>8 DEF RunStatus, next
  <2> QED
    BY <2>1, <2>7, <2>8
<1>7. CASE e \in RunEvent
  <2>1. e.t \in {"AskRecorded", "RunFinished", "RunFailed", "RunNotified"}
    BY <1>7 DEF RunEvent
  <2>2. /\ next \in RunRec /\ next.parent = run.parent /\ next.steps = run.steps
        /\ IsGone(next) <=> IsGone(run)
    <3>1. e.t # "RunNotified" => ~IsGone(run)
      BY <2>1 DEF RunFits, OfRun
    <3> QED
      BY <1>1, <2>1, <3>1 DEF NextRun, RunRec, RunStatus, IsGone
  <2> HIDE DEF next
  <2> QED
    BY <2>1, <2>2 DEF GoodRun, Flying, OfStep, next
<1> QED
  BY <1>2, <1>3, <1>5, <1>6, <1>7 DEF AboutRun

\* A child is not in the forest; its present result was sent.
Gone(f, c)  == IF c \in SubIds THEN f.subs[c].status = "Absent" ELSE f.runs[c].status = "Absent"
Noted(f, c) == IF c \in SubIds THEN f.subs[c].notified ELSE f.runs[c].notified
Settled(f, c) == Gone(f, c) \/ Noted(f, c)

\* The child an event brings into being.
Born(e) == IF e.t \in Births THEN {e.id} ELSE {}

\* What an event makes of a subagent.
LEMMA NextSubGood ==
  ASSUME NEW e \in AboutSub, NEW sub \in SubRec
  PROVE  /\ NextSub(sub, e) \in SubRec
         /\ e.t # "SubAgentSpawned" =>
              /\ NextSub(sub, e).status = "Absent" <=> sub.status = "Absent"
              /\ NextSub(sub, e).parent = sub.parent
         /\ sub.notified /\ e.id \notin Born(e) /\ e.id \notin Ends(e) => NextSub(sub, e).notified
         /\ e.t = "SubAgentNotified" => NextSub(sub, e).notified
         /\ e.t = "SubAgentSpawned" =>
              NextSub(sub, e).status # "Absent" /\ NextSub(sub, e).parent = e.parent
<1>1. CASE e \in Spawned
  BY <1>1 DEF Spawned, NextSub, SubRec, SubStatus, Born, Births
<1>2. CASE e \in SubEvent /\ e.t # "AgentDeleted"
  BY <1>2 DEF SubEvent, NextSub, SubRec, SubStatus, Ends
<1> QED
  BY <1>1, <1>2 DEF AboutSub

\* The mark on a run.
LEMMA NextRunNoted ==
  ASSUME NEW e \in AboutRun, NEW run \in RunRec
  PROVE  /\ run.notified /\ e.id \notin Born(e) /\ e.id \notin Ends(e) => NextRun(run, e).notified
         /\ e.t = "RunNotified" => NextRun(run, e).notified
<1>1. CASE e \in Created
  BY <1>1 DEF Created, Born, Births
<1>2. CASE e \in StartedStep
  BY <1>2 DEF StartedStep, NextRun, RunRec
<1>3. CASE e \in ConcludedStep
  BY <1>3 DEF ConcludedStep, NextRun, RunRec
<1>4. CASE e \in EndedStep
  BY <1>4 DEF EndedStep, NextRun, RunRec, Ends
<1>5. CASE e \in RunEvent
  BY <1>5 DEF RunEvent, NextRun, RunRec, Ends
<1> QED
  BY <1>1, <1>2, <1>3, <1>4, <1>5 DEF AboutRun

\* What an event makes of the forest: a forest of the same shape.
LEMMA ApplyGood ==
  ASSUME NEW f \in Forest, Good(f), NEW e \in Event, Fits(f, e)
  PROVE  /\ Apply(f, e) \in Forest
         /\ Apply(f, e).root = f.root
         /\ Good(Apply(f, e))
<1>1. CASE e \in AboutRun /\ e.id \in RunIds
  <2> DEFINE next == NextRun(f.runs[e.id], e)
  <2>1. f.runs \in [RunIds -> RunRec] /\ f.runs[e.id] \in RunRec
    BY <1>1 DEF Forest
  <2>2. next \in RunRec /\ GoodRun(e.id, next)
    BY <1>1, <2>1, NextRunGood DEF Good, Fits
  <2>3. Apply(f, e) = [f EXCEPT !.runs = [@ EXCEPT ![e.id] = next]]
    BY <1>1, ApplyRun
  <2> HIDE DEF next
  <2>4. /\ Apply(f, e) \in Forest /\ Apply(f, e).root = f.root
        /\ \A r \in RunIds : Apply(f, e).runs[r] = IF r = e.id THEN next ELSE f.runs[r]
    BY <1>1, <2>2, <2>3 DEF Forest
  <2> QED
    BY <2>2, <2>4 DEF Good
<1>2. CASE e \in AboutSub /\ e.id \in SubIds
  <2> DEFINE next == NextSub(f.subs[e.id], e)
  <2>1. f.subs \in [SubIds -> SubRec] /\ f.subs[e.id] \in SubRec
    BY <1>2 DEF Forest
  <2>2. next \in SubRec
    BY <1>2, <2>1, NextSubGood
  <2>3. Apply(f, e) = [f EXCEPT !.subs = [@ EXCEPT ![e.id] = next]]
    BY <1>2, ApplySub
  <2> HIDE DEF next
  <2> QED
    BY <1>2, <2>2, <2>3 DEF Forest, Good
<1>3. CASE e.t = "AgentDeleted"
  <2>1. \A r \in RunIds : GoodRun(r, NoRun)
    BY DEF GoodRun, NoRun, IsGone, Flying
  <2> QED
    BY <1>3, <2>1, ApplyDelete DEF Good
<1> QED
  BY <1>1, <1>2, <1>3, EventKinds

\* What it makes of each run.
LEMMA ApplyRuns ==
  ASSUME NEW f \in Forest, Good(f), NEW e \in Event, Fits(f, e), e.t # "AgentDeleted",
         e.t # "RunCreated", NEW r \in RunIds
  PROVE  /\ IsGone(Apply(f, e).runs[r]) <=> IsGone(f.runs[r])
         /\ Apply(f, e).runs[r].parent = f.runs[r].parent
         /\ DOMAIN f.runs[r].steps \subseteq DOMAIN Apply(f, e).runs[r].steps
         /\ ~(e.t = "StepStarted" /\ e.id = r) => Flying(Apply(f, e).runs[r]) \subseteq Flying(f.runs[r])
         /\ e.t \in OfStep /\ e.id = r => e.index \notin Flying(Apply(f, e).runs[r])
<1>1. CASE e \in AboutRun /\ e.id \in RunIds
  <2> DEFINE next == NextRun(f.runs[e.id], e)
  <2>1. f.runs \in [RunIds -> RunRec] /\ f.runs[e.id] \in RunRec
    BY <1>1 DEF Forest
  <2>2. /\ IsGone(next) <=> IsGone(f.runs[e.id])
        /\ next.parent = f.runs[e.id].parent
        /\ DOMAIN f.runs[e.id].steps \subseteq DOMAIN next.steps
        /\ e.t # "StepStarted" => Flying(next) \subseteq Flying(f.runs[e.id])
        /\ e.t \in OfStep => e.index \notin Flying(next)
    BY <1>1, <2>1, NextRunGood DEF Good, Fits
  <2>3. Apply(f, e) = [f EXCEPT !.runs = [@ EXCEPT ![e.id] = next]]
    BY <1>1, ApplyRun
  <2> HIDE DEF next
  <2>4. Apply(f, e).runs[r] = IF r = e.id THEN next ELSE f.runs[r]
    BY <1>1, <2>3 DEF Forest
  <2> QED
    BY <2>2, <2>4
<1>2. CASE e \in AboutSub
  <2>1. Apply(f, e).runs = f.runs
    BY <1>2, ApplySub DEF Forest
  <2>2. e.t \notin OfStep
    BY <1>2 DEF AboutSub, Spawned, SubEvent, OfStep
  <2> QED
    BY <2>1, <2>2
<1> QED
  BY <1>1, <1>2, EventKinds

\* What it makes of the children and their marks.
LEMMA ApplyChildren ==
  ASSUME NEW f \in Forest, Good(f), NEW e \in Event, Fits(f, e), NEW c \in Children
  PROVE  /\ Ends(e) \subseteq Children
         /\ Gone(f, c) /\ c \notin Born(e) => Gone(Apply(f, e), c)
         /\ Settled(f, c) /\ c \notin Born(e) /\ c \notin Ends(e) => Settled(Apply(f, e), c)
         /\ e.t \in {"SubAgentNotified", "RunNotified"} /\ c = e.id => Settled(Apply(f, e), c)
<1>0. Ends(e) \subseteq {e.id} /\ Ends(e) \subseteq Children /\ Born(e) \subseteq {e.id}
  <2>1. e.id \in Children
    BY EventKinds DEF Children
  <2>2. Ends(e) = {e.id} \/ Ends(e) = {}
    BY DEF Ends
  <2> QED
    BY <2>1, <2>2 DEF Born
<1>1. CASE e \in AboutRun /\ e.id \in RunIds /\ e.id \notin SubIds
  <2> DEFINE next == NextRun(f.runs[e.id], e)
  <2>1. f.runs \in [RunIds -> RunRec] /\ f.runs[e.id] \in RunRec
    BY <1>1 DEF Forest
  <2>2. e.t # "RunCreated" => (IsGone(next) <=> IsGone(f.runs[e.id]))
    BY <1>1, <2>1, NextRunGood DEF Good, Fits
  <2>3. Apply(f, e) = [f EXCEPT !.runs = [@ EXCEPT ![e.id] = next]]
    BY <1>1, ApplyRun
  <2>4. /\ f.runs[e.id].notified /\ e.id \notin Born(e) /\ e.id \notin Ends(e) => next.notified
        /\ e.t = "RunNotified" => next.notified
    BY <1>1, <2>1, NextRunNoted
  <2>5. e.t = "RunCreated" => e.id \in Born(e)
    BY DEF Born, Births
  <2>6. e.t # "SubAgentNotified"
    BY <1>1 DEF AboutRun, Created, StartedStep, ConcludedStep, EndedStep, RunEvent
  <2> HIDE DEF next
  <2>7. /\ c = e.id => Apply(f, e).runs[c] = next
        /\ c \in RunIds /\ c # e.id => Apply(f, e).runs[c] = f.runs[c]
        /\ Apply(f, e).subs = f.subs
    BY <1>1, <2>1, <2>3 DEF Forest
  <2>8. CASE c \in SubIds
    BY <1>0, <1>1, <2>6, <2>7, <2>8 DEF Gone, Noted, Settled
  <2>9. CASE c \notin SubIds
    <3>1. c \in RunIds
      BY <2>9 DEF Children
    <3> QED
      BY <1>0, <2>2, <2>4, <2>5, <2>6, <2>7, <2>9, <3>1 DEF Gone, Noted, Settled, IsGone
  <2> QED
    BY <2>8, <2>9
<1>2. CASE e \in AboutSub /\ e.id \in SubIds
  <2> DEFINE next == NextSub(f.subs[e.id], e)
  <2>1. f.subs \in [SubIds -> SubRec] /\ f.subs[e.id] \in SubRec
    BY <1>2 DEF Forest
  <2>2. /\ e.t # "SubAgentSpawned" => (next.status = "Absent" <=> f.subs[e.id].status = "Absent")
        /\ f.subs[e.id].notified /\ e.id \notin Born(e) /\ e.id \notin Ends(e) => next.notified
        /\ e.t = "SubAgentNotified" => next.notified
    BY <1>2, <2>1, NextSubGood
  <2>3. Apply(f, e) = [f EXCEPT !.subs = [@ EXCEPT ![e.id] = next]]
    BY <1>2, ApplySub
  <2>4. e.t = "SubAgentSpawned" => e.id \in Born(e)
    BY DEF Born, Births
  <2>5. e.t # "RunNotified"
    BY <1>2 DEF AboutSub, Spawned, SubEvent
  <2> HIDE DEF next
  <2>6. /\ c = e.id => Apply(f, e).subs[c] = next
        /\ c \in SubIds /\ c # e.id => Apply(f, e).subs[c] = f.subs[c]
        /\ Apply(f, e).runs = f.runs
    BY <1>2, <2>1, <2>3 DEF Forest
  <2> QED
    BY <1>0, <1>2, <2>2, <2>4, <2>5, <2>6 DEF Gone, Noted, Settled
<1>3. CASE e.t = "AgentDeleted"
  <2>1. /\ NoSub.status = "Absent" /\ NoRun.status = "Absent"
    BY DEF NoSub, NoRun
  <2>2. c \in SubIds => Apply(f, e).subs[c] \in {f.subs[c], NoSub}
    BY <1>3, ApplyDelete
  <2>3. c \notin SubIds => Apply(f, e).runs[c] \in {f.runs[c], NoRun}
    BY <1>3, ApplyDelete DEF Children
  <2> QED
    BY <1>0, <1>3, <2>1, <2>2, <2>3 DEF Gone, Noted, Settled
<1> QED
  BY <1>1, <1>2, <1>3, EventKinds

-----------------------------------------------------------------------------
(* Chains.  A line is a chain that resolves to its end *)

Line(f, a, s) ==
  /\ s \in Seq(AgentIds) /\ s # <<>> /\ s[1] = a
  /\ \A i \in 1..Len(s) : /\ Known(f, s[i])
                          /\ ParentOf(f, s[i]) = IF i = Len(s) THEN NoAgent ELSE s[i + 1]

\* What an agent on a line stands for: no two stand for the same.
Rank(a) == CASE a \in SubIds  -> a[2]
             [] a \in StepIds -> MaxSubs + 1 + a[2]
             [] OTHER         -> MaxSubs + MaxRuns + 2

\* Agents of the same rank have the same parent.
LEMMA RankIs ==
  ASSUME NEW f, NEW a \in AgentIds, NEW b \in AgentIds, Rank(a) = Rank(b)
  PROVE  ParentOf(f, a) = ParentOf(f, b)
<1>1. MaxSubs \in Nat /\ MaxRuns \in Nat
  BY ConstantsAssumption
<1>2. /\ \A x \in SubIds : x[2] \in 1..MaxSubs /\ x = <<"sub", x[2]>>
      /\ \A x \in StepIds : x[2] \in 0..MaxRuns
  BY DEF SubIds, StepIds, StepOf, RunIds
<1>3. CASE a \in SubIds
  <2>1. b \in SubIds /\ a = b
    BY <1>1, <1>2, <1>3, IdFacts DEF Rank
  <2> QED
    BY <2>1
<1>4. CASE a \in StepIds
  <2>1. b \in StepIds /\ a[2] = b[2] /\ a \notin SubIds /\ b \notin SubIds
    BY <1>1, <1>2, <1>4, IdFacts DEF Rank, AgentIds
  <2>2. RunOf(a) = RunOf(b)
    BY <2>1 DEF RunOf
  <2> QED
    BY <1>4, <2>1, <2>2 DEF ParentOf
<1>5. CASE a \notin SubIds /\ a \notin StepIds
  <2>1. b \notin SubIds /\ b \notin StepIds
    BY <1>1, <1>2, <1>5, IdFacts DEF Rank
  <2> QED
    BY <1>5, <2>1 DEF ParentOf
<1> QED
  BY <1>3, <1>4, <1>5

\* What the ranks are.
LEMMA RankType ==
  ASSUME NEW a \in AgentIds
  PROVE  Rank(a) \in 1..(MaxSubs + MaxRuns + 2)
<1>1. MaxSubs \in Nat /\ MaxRuns \in Nat
  BY ConstantsAssumption
<1>2. /\ \A x \in SubIds : x[2] \in 1..MaxSubs
      /\ \A x \in StepIds : x[2] \in 0..MaxRuns
  BY DEF SubIds, StepIds, StepOf, RunIds
<1> QED
  BY <1>1, <1>2 DEF Rank

\* The ranks on a line differ: from two alike the line would go on alike, and it ends once.
LEMMA LineDistinct ==
  ASSUME NEW f, NEW a, NEW s, Line(f, a, s), NEW i \in 1..Len(s), NEW j \in 1..Len(s), i < j
  PROVE  Rank(s[i]) # Rank(s[j])
<1> SUFFICES ASSUME Rank(s[i]) = Rank(s[j]) PROVE FALSE
  OBVIOUS
<1> DEFINE n == Len(s)
           d == n - j
           G == {k \in 0..d : Rank(s[i + k]) = Rank(s[j + k])}
<1>1. /\ n \in Nat /\ i \in Nat /\ j \in Nat /\ i >= 1 /\ j <= n
      /\ \A k \in 1..n : s[k] \in AgentIds
      /\ \A k \in 1..n : ParentOf(f, s[k]) = IF k = n THEN NoAgent ELSE s[k + 1]
  BY DEF Line
<1> HIDE DEF n
<1>2. 0 \in G
  BY <1>1
<1>3. ASSUME NEW k \in 0..(d - 1), k \in G
      PROVE  k + 1 \in G
  <2>1. /\ i + k \in 1..n /\ j + k \in 1..n /\ i + k # n /\ j + k # n
        /\ k + 1 \in 0..d /\ (i + k) + 1 = i + (k + 1) /\ (j + k) + 1 = j + (k + 1)
    BY <1>1
  <2>2. ParentOf(f, s[i + k]) = ParentOf(f, s[j + k])
    BY <1>1, <1>3, <2>1, RankIs
  <2> QED
    BY <1>1, <2>1, <2>2
<1>4. \A k \in 0..d : k \in G
  <2> HIDE DEF G
  <2>1. d \in Nat
    BY <1>1
  <2> HIDE DEF d
  <2> QED
    BY <1>2, <1>3, <2>1, Induction
<1>5. Rank(s[i + d]) = Rank(s[j + d]) /\ j + d = n /\ i + d \in 1..n /\ i + d # n /\ n \in 1..n
      /\ (i + d) + 1 \in 1..n
  <2>1. d \in 0..d /\ d \in Nat
    BY <1>1
  <2>2. d \in G
    BY <1>4, <2>1
  <2>3. j + d = n /\ i + d \in 1..n /\ i + d # n /\ n \in 1..n /\ (i + d) + 1 \in 1..n
    BY <1>1
  <2> QED
    BY <2>2, <2>3
<1>6. ParentOf(f, s[i + d]) = NoAgent
  BY <1>1, <1>5, RankIs
<1> QED
  BY <1>1, <1>5, <1>6, IdFacts

\* So a line is never longer than Chain looks.
LEMMA LineShort ==
  ASSUME NEW f, NEW a, NEW s, Line(f, a, s)
  PROVE  Len(s) <= MaxSubs + MaxRuns + 2
<1> DEFINE n == Len(s)
           m == MaxSubs + MaxRuns + 2
           q == [i \in 1..n |-> Rank(s[i])]
<1>1. n \in Nat /\ m \in Nat /\ \A i \in 1..n : s[i] \in AgentIds
  BY ConstantsAssumption DEF Line
<1>2. q \in [1..n -> 1..m]
  BY <1>1, RankType
<1>3. \A x, y \in 1..n : x # y => q[x] # q[y]
  <2> TAKE x, y \in 1..n
  <2>1. x < y \/ y < x \/ x = y
    BY <1>1
  <2> QED
    BY <2>1, LineDistinct
<1> HIDE DEF n, m, q
<1>4. /\ IsFiniteSet(1..n) /\ Cardinality(1..n) = n
      /\ IsFiniteSet(1..m) /\ Cardinality(1..m) = m
  BY <1>1, FS_Interval
<1>5. ~(m < n)
  BY <1>2, <1>3, <1>4, FS_PigeonHole
<1> QED
  BY <1>1, <1>5 DEF n, m

\* The beginnings of a sequence.
LEMMA Prefix ==
  ASSUME NEW S, NEW s \in Seq(S), NEW k \in 1..Len(s)
  PROVE  /\ SubSeq(s, 1, k) \in Seq(S) /\ Len(SubSeq(s, 1, k)) = k
         /\ \A i \in 1..k : SubSeq(s, 1, k)[i] = s[i]
         /\ Last(SubSeq(s, 1, k)) = s[k]
         /\ k = 1 => SubSeq(s, 1, k) = <<s[1]>>
         /\ k < Len(s) => Append(SubSeq(s, 1, k), s[k + 1]) = SubSeq(s, 1, k + 1)
         /\ k = Len(s) => SubSeq(s, 1, k) = s
<1> DEFINE p == SubSeq(s, 1, k)
<1>1. /\ k \in Nat /\ Len(s) \in Nat /\ k >= 1 /\ k <= Len(s)
      /\ \A i \in 1..Len(s) : s[i] \in S
  OBVIOUS
<1>2. p \in Seq(S) /\ Len(p) = k /\ \A i \in 1..k : p[i] = s[i]
  OBVIOUS
<1>3. Last(p) = s[k]
  BY <1>1, <1>2 DEF Last
<1> HIDE DEF p
<1>4. k = 1 => p = <<s[1]>>
  <2> SUFFICES ASSUME k = 1 PROVE p = <<s[1]>>
    OBVIOUS
  <2>1. <<s[1]>> \in Seq(S) /\ Len(<<s[1]>>) = 1 /\ <<s[1]>>[1] = s[1]
    BY <1>1
  <2>2. Len(p) = 1 /\ p[1] = s[1]
    BY <1>2
  <2> QED
    BY <1>2, <2>1, <2>2, SeqEqual
<1>5. k < Len(s) => Append(p, s[k + 1]) = SubSeq(s, 1, k + 1)
  <2> SUFFICES ASSUME k < Len(s) PROVE Append(p, s[k + 1]) = SubSeq(s, 1, k + 1)
    OBVIOUS
  <2> DEFINE r == SubSeq(s, 1, k + 1)
             x == Append(p, s[k + 1])
  <2>1. k + 1 \in 1..Len(s)
    BY <1>1
  <2>2. r \in Seq(S) /\ Len(r) = k + 1 /\ \A i \in 1..(k + 1) : r[i] = s[i]
    BY <2>1
  <2>3. x \in Seq(S) /\ Len(x) = k + 1 /\ \A i \in 1..(k + 1) : x[i] = s[i]
    BY <1>1, <1>2, <2>1
  <2> HIDE DEF x, r
  <2>4. x = r
    BY <2>2, <2>3, SeqEqual
  <2> QED
    BY <2>4 DEF x, r
<1>6. k = Len(s) => p = s
  BY <1>2, SeqEqual
<1> QED
  BY <1>2, <1>3, <1>4, <1>5, <1>6 DEF p

\* What Chain computes of an agent that has a line: the line, as a set.
LEMMA ChainIs ==
  ASSUME NEW f, NEW a, NEW s, Line(f, a, s)
  PROVE  /\ Chain(f, a) = {s[i] : i \in 1..Len(s)}
         /\ Cardinality(Chain(f, a)) = Len(s)
<1> DEFINE n == Len(s)
           m == MaxSubs + MaxRuns + 2
           up(below) == IF Known(f, Last(below)) /\ ParentOf(f, Last(below)) # NoAgent
                        THEN Append(below, ParentOf(f, Last(below))) ELSE below
           e(u, k) == IF k = 0 THEN <<a>> ELSE up(u[k - 1])
           z(k) == IF k + 1 <= n THEN k + 1 ELSE n
           p(k) == SubSeq(s, 1, z(k))
           w == [k \in 0..m |-> p(k)]
           c == CHOOSE u : u = [k \in 0..m |-> e(u, k)]
<1>1. n \in Nat /\ n >= 1 /\ m \in Nat /\ n <= m /\ s \in Seq(AgentIds) /\ s[1] = a
  <2>1. s \in Seq(AgentIds) /\ s # <<>> /\ s[1] = a
    BY DEF Line
  <2>2. m \in Nat
    BY ConstantsAssumption
  <2>3. n <= m
    BY LineShort
  <2> QED
    BY <2>1, <2>2, <2>3
<1>2. \A i \in 1..n : /\ Known(f, s[i])
                      /\ ParentOf(f, s[i]) = IF i = n THEN NoAgent ELSE s[i + 1]
                      /\ s[i] # NoAgent
  <2>1. \A i \in 1..n : s[i] \in AgentIds
    BY <1>1
  <2> QED
    BY <2>1, IdFacts DEF Line
<1>3. Chain(f, a) = ToSet(c[m]) \ {NoAgent}
  BY DEF Chain
<1> HIDE DEF m, n
<1>4. \A k \in 1..n : /\ Last(SubSeq(s, 1, k)) = s[k]
                      /\ k < n => Append(SubSeq(s, 1, k), s[k + 1]) = SubSeq(s, 1, k + 1)
  BY <1>1, Prefix DEF n
<1>5. SubSeq(s, 1, 1) = <<a>> /\ SubSeq(s, 1, n) = s
  <2>1. 1 \in 1..Len(s) /\ Len(s) \in 1..Len(s)
    BY <1>1 DEF n
  <2>2. SubSeq(s, 1, 1) = <<s[1]>>
    BY <1>1, <2>1, Prefix
  <2>3. SubSeq(s, 1, n) = s
    BY <1>1, <2>1, Prefix DEF n
  <2> QED
    BY <1>1, <2>2, <2>3
<1>6. p(0) = <<a>>
  <2>1. z(0) = 1
    BY <1>1
  <2> QED
    BY <1>5, <2>1
<1>7. ASSUME NEW k \in 0..(m - 1)
      PROVE  up(p(k)) = p(k + 1)
  <2>1. CASE k + 1 < n
    <3>1. z(k) = k + 1 /\ z(k + 1) = k + 2 /\ k + 1 \in 1..n /\ k + 1 # n /\ k + 2 \in 1..n
          /\ (k + 1) + 1 = k + 2
      BY <1>1, <2>1
    <3>2. Last(p(k)) = s[k + 1] /\ Append(p(k), s[k + 2]) = p(k + 1)
      BY <1>4, <2>1, <3>1
    <3>3. Known(f, s[k + 1]) /\ ParentOf(f, s[k + 1]) = s[k + 2] /\ s[k + 2] # NoAgent
      BY <1>2, <3>1
    <3> QED
      BY <3>2, <3>3
  <2>2. CASE ~(k + 1 < n)
    <3>1. z(k) = n /\ z(k + 1) = n /\ n \in 1..n
      BY <1>1, <2>2
    <3>2. Last(p(k)) = s[n] /\ p(k + 1) = p(k)
      BY <1>4, <3>1
    <3>3. ParentOf(f, s[n]) = NoAgent
      BY <1>2, <3>1
    <3> QED
      BY <3>2, <3>3
  <2> QED
    BY <2>1, <2>2
<1> HIDE DEF p, up
<1>8. ASSUME NEW u, u = [k \in 0..m |-> e(u, k)]
      PROVE  u[m] = p(m)
  <2> DEFINE G == {k \in 0..m : u[k] = p(k)}
  <2>1. 0 \in G
    <3>1. 0 \in 0..m
      BY <1>1
    <3>2. u[0] = e(u, 0)
      BY <1>8, <3>1
    <3> QED
      BY <1>6, <3>1, <3>2
  <2>2. ASSUME NEW k \in 0..(m - 1), k \in G
        PROVE  k + 1 \in G
    <3>1. k + 1 \in 0..m /\ (k + 1) - 1 = k /\ k \in 0..m /\ k + 1 # 0
      BY <1>1
    <3>2. u[k + 1] = e(u, k + 1)
      BY <1>8, <3>1
    <3>3. u[k + 1] = up(u[k])
      BY <3>1, <3>2
    <3> QED
      BY <1>7, <2>2, <3>1, <3>3
  <2>3. m \in 0..m
    BY <1>1
  <2> HIDE DEF G
  <2>4. \A k \in 0..m : k \in G
    BY <1>1, <2>1, <2>2, Induction
  <2> QED
    BY <2>3, <2>4 DEF G
<1>9. w = [k \in 0..m |-> e(w, k)]
  <2>1. ASSUME NEW k \in 0..m
        PROVE  p(k) = e(w, k)
    <3>1. CASE k = 0
      BY <1>6, <3>1
    <3>2. CASE k # 0
      <4>1. k - 1 \in 0..(m - 1) /\ (k - 1) + 1 = k /\ k - 1 \in 0..m
        BY <1>1, <3>2
      <4>2. up(p(k - 1)) = p(k)
        <5>1. up(p(k - 1)) = p((k - 1) + 1)
          BY <1>7, <4>1
        <5> QED
          BY <4>1, <5>1
      <4>3. w[k - 1] = p(k - 1)
        BY <4>1
      <4>4. e(w, k) = up(w[k - 1])
        BY <3>2
      <4> QED
        BY <4>2, <4>3, <4>4
    <3> QED
      BY <3>1, <3>2
  <2> HIDE DEF e
  <2>2. \A k \in 0..m : p(k) = e(w, k)
    BY <2>1
  <2> QED
    BY <2>2
<1> HIDE DEF e, w
<1>10. c = [k \in 0..m |-> e(c, k)]
  BY <1>9
<1> HIDE DEF c
<1>11. c[m] = s
  <2>1. c[m] = p(m)
    BY <1>8, <1>10
  <2>2. z(m) = n
    BY <1>1
  <2> QED
    BY <1>5, <2>1, <2>2 DEF p
<1>12. Chain(f, a) = {s[i] : i \in 1..n}
  <2>1. ToSet(s) = {s[i] : i \in 1..n}
    BY <1>1 DEF ToSet, n
  <2> QED
    BY <1>2, <1>3, <1>11, <2>1
<1> DEFINE q == [i \in 1..n |-> s[i]]
           R == {s[i] : i \in 1..n}
<1>13. Cardinality(R) = n
  <2>1. \A x, y \in 1..n : x # y => s[x] # s[y]
    <3> TAKE x, y \in 1..n
    <3>1. x < y \/ y < x \/ x = y
      BY <1>1
    <3> QED
      BY <3>1, LineDistinct DEF n
  <2>2. q \in Bijection(1..n, R)
    BY <2>1 DEF Bijection, Injection, Surjection, IsInjective
  <2>3. IsFiniteSet(1..n) /\ Cardinality(1..n) = n
    BY <1>1, FS_Interval
  <2> HIDE DEF q, R
  <2>4. ExistsBijection(1..n, R)
    BY <2>2 DEF ExistsBijection
  <2> QED
    BY <2>3, <2>4, FS_Bijection
<1> QED
  BY <1>12, <1>13 DEF n

\* An agent on a line.
On(s, b) == \E i \in 1..Len(s) : s[i] = b

\* A line above a line.
LEMMA LineCons ==
  ASSUME NEW f, NEW a \in AgentIds, Known(f, a), NEW s, Line(f, ParentOf(f, a), s)
  PROVE  \E t : /\ Line(f, a, t) /\ Len(t) = Len(s) + 1
                /\ \A b : On(t, b) <=> b = a \/ On(s, b)
<1> DEFINE n == Len(s)
           t == <<a>> \o s
<1>1. s \in Seq(AgentIds) /\ n \in Nat /\ n >= 1 /\ s[1] = ParentOf(f, a)
  <2>1. s \in Seq(AgentIds) /\ s # <<>> /\ s[1] = ParentOf(f, a)
    BY DEF Line
  <2> QED
    BY <2>1
<1>2. \A i \in 1..n : Known(f, s[i]) /\ ParentOf(f, s[i]) = IF i = n THEN NoAgent ELSE s[i + 1]
  BY DEF Line
<1>3. /\ t \in Seq(AgentIds) /\ Len(t) = n + 1 /\ t[1] = a
      /\ \A i \in 1..n : t[i + 1] = s[i]
      /\ \A i \in 1..(n + 1) : i # 1 => i - 1 \in 1..n /\ t[i] = s[i - 1]
  BY <1>1
<1> HIDE DEF n, t
<1>4. ASSUME NEW i \in 1..(n + 1)
      PROVE  Known(f, t[i]) /\ ParentOf(f, t[i]) = IF i = n + 1 THEN NoAgent ELSE t[i + 1]
  <2>1. CASE i = 1
    <3>1. 1 \in 1..n /\ i # n + 1 /\ t[i + 1] = s[1]
      BY <1>1, <1>3, <2>1
    <3> QED
      BY <1>1, <1>3, <2>1, <3>1
  <2>2. CASE i # 1
    <3>1. i - 1 \in 1..n /\ t[i] = s[i - 1]
      BY <1>3, <2>2
    <3>2. (i = n + 1 <=> i - 1 = n) /\ (i - 1) + 1 = i /\ (i # n + 1 => i \in 1..n)
      BY <1>1, <3>1
    <3>4. i # n + 1 => t[i + 1] = s[i]
      BY <1>3, <3>2
    <3>3. ParentOf(f, s[i - 1]) = IF i - 1 = n THEN NoAgent ELSE s[(i - 1) + 1]
      BY <1>2, <3>1
    <3> QED
      BY <1>2, <3>1, <3>2, <3>3, <3>4
  <2> QED
    BY <2>1, <2>2
<1>5. t # <<>>
  BY <1>1, <1>3
<1>6. Line(f, a, t)
  BY <1>3, <1>4, <1>5 DEF Line
<1>7. 1 \in 1..(n + 1) /\ \A i \in 1..n : i + 1 \in 1..(n + 1)
  BY <1>1
<1>8. \A b : On(t, b) <=> b = a \/ On(s, b)
  BY <1>3, <1>7 DEF On, n
<1> QED
  BY <1>3, <1>6, <1>8 DEF n

\* The end of a line is one.
LEMMA LineTail ==
  ASSUME NEW f, NEW a, NEW s, Line(f, a, s), NEW k \in 1..Len(s)
  PROVE  \E t : /\ Line(f, s[k], t)
                /\ \A i \in 1..Len(t) : \E j \in k..Len(s) : t[i] = s[j]
<1> DEFINE n == Len(s)
           m == n - k + 1
           t == SubSeq(s, k, n)
<1>1. s \in Seq(AgentIds) /\ n \in Nat /\ k \in Nat /\ k >= 1 /\ k <= n /\ m \in Nat /\ m >= 1
  BY DEF Line
<1>2. \A i \in 1..n : Known(f, s[i]) /\ ParentOf(f, s[i]) = IF i = n THEN NoAgent ELSE s[i + 1]
  BY DEF Line
<1>3. t \in Seq(AgentIds) /\ Len(t) = m /\ \A i \in 1..m : t[i] = s[k + i - 1]
  BY <1>1
<1>4. \A i \in 1..m : k + i - 1 \in 1..n /\ k + i - 1 \in k..n
  BY <1>1
<1> HIDE DEF t
<1>5. t # <<>> /\ t[1] = s[k]
  <2>1. 1 \in 1..m /\ k + 1 - 1 = k
    BY <1>1
  <2>2. t[1] = s[k + 1 - 1]
    BY <1>3, <2>1
  <2>3. t # <<>>
    BY <1>1, <1>3
  <2> QED
    BY <2>1, <2>2, <2>3
<1>6. ASSUME NEW i \in 1..m
      PROVE  Known(f, t[i]) /\ ParentOf(f, t[i]) = IF i = m THEN NoAgent ELSE t[i + 1]
  <2>1. Known(f, t[i]) /\ ParentOf(f, t[i]) = IF k + i - 1 = n THEN NoAgent ELSE s[(k + i - 1) + 1]
    BY <1>2, <1>3, <1>4
  <2>2. i = m <=> k + i - 1 = n
    BY <1>1
  <2>3. i # m => t[i + 1] = s[(k + i - 1) + 1]
    <3>1. i # m => i + 1 \in 1..m /\ k + (i + 1) - 1 = (k + i - 1) + 1
      BY <1>1
    <3>2. i + 1 \in 1..m => t[i + 1] = s[k + (i + 1) - 1]
      BY <1>3
    <3> QED
      BY <3>1, <3>2
  <2> QED
    BY <2>1, <2>2, <2>3
<1> HIDE DEF m, n
<1>7. Line(f, s[k], t)
  BY <1>3, <1>5, <1>6 DEF Line
<1> QED
  BY <1>3, <1>4, <1>7 DEF n

\* A line stays one while its agents are there and keep their parents.
LEMMA LineStays ==
  ASSUME NEW f, NEW g, NEW a, NEW s, Line(f, a, s),
         \A i \in 1..Len(s) : Known(g, s[i]) /\ ParentOf(g, s[i]) = ParentOf(f, s[i])
  PROVE  Line(g, a, s)
BY DEF Line

\* Every child that has a parent has one from which a line leads to the root.
Reaches(f, a) == \E s : Line(f, a, s) /\ Len(s) <= MaxDepth

Rooted(f) ==
  \A c \in Children \ {RootRun} : ~Gone(f, c) => Reaches(f, ParentOfChild(f, c))

\* What hosts an agent that is known: the session, or a child that is there.
LEMMA HostOf ==
  ASSUME NEW f \in Forest, Good(f), NEW a \in AgentIds, Known(f, a)
  PROVE  \/ a = Main /\ ParentOf(f, a) = NoAgent
         \/ a \in StepIds /\ RunOf(a) = RootRun /\ ParentOf(f, a) = NoAgent
         \/ \E c \in Children \ {RootRun} :
              /\ ~Gone(f, c) /\ ParentOf(f, a) = ParentOfChild(f, c)
              /\ a \in SubIds => c = a
              /\ a \notin SubIds => a \in StepIds /\ c = RunOf(a) /\ c \in RunIds
<1>1. CASE a \in SubIds
  <2>1. a \in Children \ {RootRun} /\ ~Gone(f, a)
    BY <1>1, IdFacts DEF Children, Gone, Known
  <2>2. ParentOf(f, a) = ParentOfChild(f, a)
    BY <1>1, IdFacts DEF ParentOf, ParentOfChild
  <2> QED
    BY <1>1, <2>1, <2>2
<1>2. CASE a \in StepIds
  <2>1. a \notin SubIds /\ a # Main
    BY <1>2, IdFacts
  <2>2. f.runs[RunOf(a)].status # "Absent" /\ ParentOf(f, a) = f.runs[RunOf(a)].parent
    BY <1>2, <2>1, IdFacts DEF Known, ParentOf
  <2>3. RunOf(a) \in RunIds
    BY <1>2 DEF StepIds, StepOf, RunOf, RunIds
  <2>4. RunOf(a) \in Children /\ RunOf(a) \notin SubIds
    BY <2>3, IdFacts DEF Children
  <2>5. CASE RunOf(a) = RootRun
    <3>1. GoodRun(RunOf(a), f.runs[RunOf(a)])
      BY <2>3 DEF Good
    <3> QED
      BY <1>2, <2>2, <2>5, <3>1 DEF GoodRun
  <2>6. CASE RunOf(a) # RootRun
    BY <1>2, <2>1, <2>2, <2>3, <2>4, <2>6 DEF Gone, ParentOfChild
  <2> QED
    BY <2>5, <2>6
<1>3. CASE a = Main
  BY <1>3, IdFacts DEF ParentOf
<1> QED
  BY <1>1, <1>2, <1>3 DEF AgentIds

\* Every agent that is known has a line.
LEMMA KnownHasLine ==
  ASSUME NEW f \in Forest, Good(f), Rooted(f), NEW a \in AgentIds, Known(f, a)
  PROVE  \E s : Line(f, a, s)
<1>1. CASE ParentOf(f, a) = NoAgent
  <2> DEFINE s == <<a>>
  <2>1. s \in Seq(AgentIds) /\ Len(s) = 1 /\ s[1] = a /\ s # <<>>
    OBVIOUS
  <2> HIDE DEF s
  <2>2. Line(f, a, s)
    BY <1>1, <2>1 DEF Line
  <2> QED
    BY <2>2
<1>2. CASE ParentOf(f, a) # NoAgent
  <2>1. PICK c \in Children \ {RootRun} : ~Gone(f, c) /\ ParentOf(f, a) = ParentOfChild(f, c)
    BY <1>2, HostOf
  <2>2. PICK s : Line(f, ParentOf(f, a), s)
    BY <2>1 DEF Rooted, Reaches
  <2> QED
    BY <2>2, LineCons
<1> QED
  BY <1>1, <1>2

\* Every agent that is known in f is known in g, under the same parent.
Grows(f, g) ==
  \A a \in AgentIds : Known(f, a) => Known(g, a) /\ ParentOf(g, a) = ParentOf(f, a)

\* Then what was reached is reached.
LEMMA ReachesStays ==
  ASSUME NEW f, NEW g, Grows(f, g), NEW a, Reaches(f, a)
  PROVE  Reaches(g, a)
<1>1. PICK s : Line(f, a, s) /\ Len(s) <= MaxDepth
  BY DEF Reaches
<1>2. \A i \in 1..Len(s) : s[i] \in AgentIds /\ Known(f, s[i])
  BY <1>1 DEF Line
<1>3. Line(g, a, s)
  BY <1>1, <1>2, LineStays DEF Grows
<1> QED
  BY <1>1, <1>3 DEF Reaches

\* A forest grows when its subagents and runs that are there keep parents and steps.
LEMMA GrowsIf ==
  ASSUME NEW f \in Forest, NEW g \in Forest, g.root = f.root,
         \A s \in SubIds : f.subs[s].status # "Absent" =>
           g.subs[s].status # "Absent" /\ g.subs[s].parent = f.subs[s].parent,
         \A r \in RunIds : ~IsGone(f.runs[r]) =>
           /\ ~IsGone(g.runs[r]) /\ g.runs[r].parent = f.runs[r].parent
           /\ DOMAIN f.runs[r].steps \subseteq DOMAIN g.runs[r].steps
  PROVE  Grows(f, g)
<1> SUFFICES ASSUME NEW a \in AgentIds, Known(f, a)
             PROVE  Known(g, a) /\ ParentOf(g, a) = ParentOf(f, a)
  BY DEF Grows
<1>1. CASE a \in SubIds
  BY <1>1, IdFacts DEF Known, ParentOf
<1>2. CASE a \in StepIds
  <2> DEFINE r == RunOf(a)
  <2>1. r \in RunIds /\ a[3] \in Nat \ {0}
    BY <1>2, ConstantsAssumption DEF StepIds, StepOf, RunOf, RunIds, MaxLog
  <2>2. a \notin SubIds /\ a # Main
    BY <1>2, IdFacts
  <2>3. ~IsGone(f.runs[r]) /\ a[3] <= Len(f.runs[r].steps)
    BY <2>2 DEF Known, IsGone
  <2>4. f.runs[r].steps \in Seq(StepRec) /\ g.runs[r].steps \in Seq(StepRec)
    <3>1. f.runs[r] \in RunRec /\ g.runs[r] \in RunRec
      BY <2>1 DEF Forest
    <3> QED
      BY <3>1 DEF RunRec
  <2>5. ~IsGone(g.runs[r]) /\ g.runs[r].parent = f.runs[r].parent
        /\ DOMAIN f.runs[r].steps \subseteq DOMAIN g.runs[r].steps
    BY <2>1, <2>3
  <2> DEFINE p == f.runs[r].steps
             q == g.runs[r].steps
  <2>6. a[3] <= Len(q)
    <3>1. a[3] <= Len(p) /\ p \in Seq(StepRec) /\ q \in Seq(StepRec) /\ DOMAIN p \subseteq DOMAIN q
      BY <2>3, <2>4, <2>5
    <3> HIDE DEF p, q
    <3>2. Len(p) \in Nat /\ Len(q) \in Nat /\ DOMAIN p = 1..Len(p) /\ DOMAIN q = 1..Len(q)
      BY <3>1
    <3>3. a[3] \in DOMAIN p
      BY <2>1, <3>1, <3>2
    <3>4. a[3] \in DOMAIN q
      BY <3>1, <3>3
    <3> QED
      BY <3>2, <3>4
  <2>7. Known(g, a)
    BY <1>2, <2>5, <2>6 DEF Known, IsGone
  <2>8. ParentOf(g, a) = ParentOf(f, a)
    BY <1>2, <2>2, <2>5 DEF ParentOf
  <2> QED
    BY <2>7, <2>8
<1>3. CASE a = Main
  BY <1>3, IdFacts DEF Known, ParentOf
<1> QED
  BY <1>1, <1>2, <1>3 DEF AgentIds

\* A forest that grows and has no new child stays rooted.
LEMMA RootedStays ==
  ASSUME NEW f, NEW g, Rooted(f), Grows(f, g),
         \A c \in Children \ {RootRun} : ~Gone(g, c) =>
           ~Gone(f, c) /\ ParentOfChild(g, c) = ParentOfChild(f, c)
  PROVE  Rooted(g)
<1> SUFFICES ASSUME NEW c \in Children \ {RootRun}, ~Gone(g, c)
             PROVE  Reaches(g, ParentOfChild(g, c))
  BY DEF Rooted
<1>1. ~Gone(f, c) /\ ParentOfChild(g, c) = ParentOfChild(f, c)
  OBVIOUS
<1>2. Reaches(f, ParentOfChild(f, c))
  BY <1>1 DEF Rooted
<1> QED
  BY <1>1, <1>2, ReachesStays

\* What an event that brings nothing into being makes of each subagent.
LEMMA ApplySubs ==
  ASSUME NEW f \in Forest, NEW e \in Event, e.t \notin Births \union {"AgentDeleted"},
         NEW s \in SubIds
  PROVE  /\ Apply(f, e).subs[s].status = "Absent" <=> f.subs[s].status = "Absent"
         /\ Apply(f, e).subs[s].parent = f.subs[s].parent
<1>1. CASE e \in AboutRun
  <2>1. Apply(f, e).subs = f.subs
    BY <1>1, ApplyRun DEF Forest
  <2> QED
    BY <2>1
<1>2. CASE e \in AboutSub /\ e.id \in SubIds
  <2> DEFINE next == NextSub(f.subs[e.id], e)
  <2>1. f.subs \in [SubIds -> SubRec] /\ f.subs[e.id] \in SubRec
    BY <1>2 DEF Forest
  <2>2. /\ next.status = "Absent" <=> f.subs[e.id].status = "Absent"
        /\ next.parent = f.subs[e.id].parent
    BY <1>2, <2>1, NextSubGood DEF Births
  <2>3. Apply(f, e) = [f EXCEPT !.subs = [@ EXCEPT ![e.id] = next]]
    BY <1>2, ApplySub
  <2> HIDE DEF next
  <2>4. Apply(f, e).subs[s] = IF s = e.id THEN next ELSE f.subs[s]
    BY <1>2, <2>3 DEF Forest
  <2> QED
    BY <2>2, <2>4
<1> QED
  BY <1>1, <1>2, EventKinds

\* Such an event keeps the forest rooted.
LEMMA PlainRooted ==
  ASSUME NEW f \in Forest, Good(f), Rooted(f), NEW e \in Event, Fits(f, e),
         e.t \notin Births \union {"AgentDeleted"}
  PROVE  Rooted(Apply(f, e))
<1> DEFINE g == Apply(f, e)
<1>1. g \in Forest /\ g.root = f.root
  BY ApplyGood
<1>2. \A s \in SubIds : /\ g.subs[s].status = "Absent" <=> f.subs[s].status = "Absent"
                        /\ g.subs[s].parent = f.subs[s].parent
  BY ApplySubs
<1>3. \A r \in RunIds : /\ IsGone(g.runs[r]) <=> IsGone(f.runs[r])
                        /\ g.runs[r].parent = f.runs[r].parent
                        /\ DOMAIN f.runs[r].steps \subseteq DOMAIN g.runs[r].steps
  BY ApplyRuns DEF Births
<1> HIDE DEF g
<1>4. Grows(f, g)
  BY <1>1, <1>2, <1>3, GrowsIf
<1>5. \A c \in Children : /\ Gone(g, c) <=> Gone(f, c)
                          /\ ParentOfChild(g, c) = ParentOfChild(f, c)
  BY <1>2, <1>3 DEF Children, Gone, ParentOfChild, IsGone
<1>6. Rooted(g)
  BY <1>4, <1>5, RootedStays
<1> QED
  BY <1>6 DEF g

\* What outlives a deletion does not descend from what was deleted, and neither does
\* any agent above it.
LEMMA DeleteRooted ==
  ASSUME NEW f \in Forest, Good(f), Rooted(f), NEW e \in Event, e.t = "AgentDeleted"
  PROVE  Rooted(Apply(f, e))
<1> DEFINE g == Apply(f, e)
           doomed == DescendantEntries(f, e.id) \union {e.id}
<1>1. e.id \in SubIds /\ e.id \notin RunIds /\ e.id \notin StepIds
  <2>1. e \notin AboutRun /\ e \notin AboutSub
    BY DEF AboutRun, AboutSub, Created, StartedStep, ConcludedStep, EndedStep, RunEvent, Spawned
  <2>2. e.id \in SubIds /\ e.id \notin RunIds
    BY <2>1, EventKinds
  <2> QED
    BY <2>2, IdFacts
<1>2. /\ g \in Forest /\ g.root = f.root
      /\ \A s \in SubIds \ doomed : g.subs[s] = f.subs[s]
      /\ \A s \in SubIds \intersect doomed : g.subs[s] = NoSub
      /\ \A r \in RunIds \ doomed : g.runs[r] = f.runs[r]
      /\ \A r \in RunIds \intersect doomed : g.runs[r] = NoRun
  BY ApplyDelete
<1>3. /\ \A s \in SubIds : s \in doomed <=>
           s = e.id \/ (f.subs[s].status # "Absent" /\ e.id \in Chain(f, s))
      /\ \A r \in RunIds : r \in doomed <=>
           (~IsGone(f.runs[r]) /\ f.runs[r].parent # NoAgent /\ e.id \in Chain(f, f.runs[r].parent))
  <2>1. SubIds \intersect RunIds = {}
    BY IdFacts
  <2> HIDE DEF g
  <2>2. ASSUME NEW s \in SubIds
        PROVE  s \in doomed <=> s = e.id \/ (f.subs[s].status # "Absent" /\ e.id \in Chain(f, s))
    <3>1. s \notin RunIds
      BY <2>1
    <3> QED
      BY <3>1, Zenon DEF DescendantEntries, DescendsFrom
  <2>3. ASSUME NEW r \in RunIds
        PROVE  r \in doomed <=>
                 (~IsGone(f.runs[r]) /\ f.runs[r].parent # NoAgent /\ e.id \in Chain(f, f.runs[r].parent))
    <3>1. r \notin SubIds /\ r # e.id
      BY <1>1, <2>1
    <3> QED
      BY <3>1, Zenon DEF DescendantEntries, DescendsFrom, IsGone
  <2> QED
    BY <2>2, <2>3
<1> HIDE DEF g, doomed
\* An agent is there still, under its parent, if what was deleted is not on its line.
<1>4. ASSUME NEW a, NEW s, Line(f, a, s), \A i \in 1..Len(s) : s[i] # e.id
      PROVE  Known(g, a) /\ ParentOf(g, a) = ParentOf(f, a)
  <2>1. a \in AgentIds /\ Known(f, a) /\ 1 \in 1..Len(s)
    <3>1. s \in Seq(AgentIds) /\ s # <<>> /\ s[1] = a /\ \A i \in 1..Len(s) : Known(f, s[i])
      BY <1>4 DEF Line
    <3>2. 1 \in 1..Len(s) /\ s[1] \in AgentIds
      BY <3>1
    <3> QED
      BY <3>1, <3>2
  <2>2. e.id \notin Chain(f, a)
    <3>1. Chain(f, a) = {s[i] : i \in 1..Len(s)}
      BY <1>4, ChainIs
    <3> QED
      BY <1>4, <3>1
  <2>3. CASE a \in SubIds
    <3>1. a # e.id
      BY <1>4, <2>1 DEF Line
    <3>2. a \notin doomed
      BY <1>3, <2>2, <2>3, <3>1
    <3>3. g.subs[a] = f.subs[a]
      BY <1>2, <2>3, <3>2
    <3> QED
      BY <2>1, <2>3, <3>3, IdFacts DEF Known, ParentOf
  <2>4. CASE a \in StepIds
    <3>1. RunOf(a) \in RunIds /\ a \notin SubIds /\ a # Main
      BY <2>4, IdFacts DEF StepIds, StepOf, RunOf, RunIds
    <3>2. f.runs[RunOf(a)].parent = ParentOf(f, a)
      BY <2>4, <3>1 DEF ParentOf
    <3>3. ParentOf(f, a) # NoAgent => e.id \notin Chain(f, ParentOf(f, a))
      <4> SUFFICES ASSUME ParentOf(f, a) # NoAgent PROVE e.id \notin Chain(f, ParentOf(f, a))
        OBVIOUS
      <4>1. s[1] = a /\ s \in Seq(AgentIds)
        BY <1>4 DEF Line
      <4>2. ParentOf(f, a) = IF 1 = Len(s) THEN NoAgent ELSE s[1 + 1]
        BY <1>4, <2>1, <4>1 DEF Line
      <4>3. 2 \in 1..Len(s) /\ ParentOf(f, a) = s[2]
        <5> DEFINE n == Len(s)
        <5>1. n \in Nat /\ n # 1 /\ n >= 1 /\ ParentOf(f, a) = s[1 + 1]
          BY <2>1, <4>1, <4>2
        <5> HIDE DEF n
        <5>2. 1 + 1 = 2
          OBVIOUS
        <5>3. 2 \in 1..n
          BY <5>1
        <5> QED
          BY <5>1, <5>2, <5>3 DEF n
      <4>4. PICK t : /\ Line(f, s[2], t)
                     /\ \A i \in 1..Len(t) : \E j \in 2..Len(s) : t[i] = s[j]
        BY <1>4, <4>3, LineTail
      <4>5. Chain(f, s[2]) = {t[i] : i \in 1..Len(t)}
        BY <4>4, ChainIs
      <4>6. \A j \in 2..Len(s) : j \in 1..Len(s)
        BY <4>1
      <4> QED
        BY <1>4, <4>3, <4>4, <4>5, <4>6
    <3>4. RunOf(a) \notin doomed
      BY <1>3, <3>1, <3>2, <3>3
    <3>5. g.runs[RunOf(a)] = f.runs[RunOf(a)]
      BY <1>2, <3>1, <3>4
    <3> QED
      BY <2>1, <2>4, <3>1, <3>5 DEF Known, ParentOf
  <2>5. CASE a = Main
    BY <1>2, <2>1, <2>5, IdFacts DEF Known, ParentOf
  <2> QED
    BY <2>1, <2>3, <2>4, <2>5 DEF AgentIds
<1>5. ASSUME NEW a, NEW s, Line(f, a, s), \A i \in 1..Len(s) : s[i] # e.id
      PROVE  Line(g, a, s)
  <2>1. ASSUME NEW k \in 1..Len(s)
        PROVE  Known(g, s[k]) /\ ParentOf(g, s[k]) = ParentOf(f, s[k])
    <3>4. Line(f, a, s)
      BY <1>5
    <3>5. \E t : /\ Line(f, s[k], t)
                 /\ \A i \in 1..Len(t) : \E j \in k..Len(s) : t[i] = s[j]
      BY <2>1, <3>4, LineTail
    <3>1. PICK t : /\ Line(f, s[k], t)
                   /\ \A i \in 1..Len(t) : \E j \in k..Len(s) : t[i] = s[j]
      BY <3>5
    <3>2. \A j \in k..Len(s) : j \in 1..Len(s)
      <4>1. s \in Seq(AgentIds)
        BY <1>5 DEF Line
      <4> QED
        BY <4>1
    <3>3. \A i \in 1..Len(t) : t[i] # e.id
      BY <1>5, <3>1, <3>2
    <3> QED
      BY <1>4, <3>1, <3>3
  <2> QED
    BY <1>5, <2>1, LineStays
<1>6. ASSUME NEW c \in Children \ {RootRun}, ~Gone(g, c)
      PROVE  Reaches(g, ParentOfChild(g, c))
  <2>1. c \notin doomed
    BY <1>2, <1>6 DEF Children, Gone, NoSub, NoRun
  <2>2. ~Gone(f, c) /\ ParentOfChild(g, c) = ParentOfChild(f, c)
    BY <1>2, <1>6, <2>1 DEF Children, Gone, ParentOfChild
  <2>3. PICK s : Line(f, ParentOfChild(f, c), s) /\ Len(s) <= MaxDepth
    BY <2>2 DEF Rooted, Reaches
  <2>4. e.id \notin {s[i] : i \in 1..Len(s)}
    <3>1. CASE c \in SubIds
      <4>1. c \in AgentIds /\ Known(f, c) /\ ParentOf(f, c) = ParentOfChild(f, c)
        BY <2>2, <3>1, IdFacts DEF AgentIds, Known, ParentOf, ParentOfChild, Gone
      <4>5. Line(f, ParentOf(f, c), s)
        BY <2>3, <4>1
      <4>6. \E t : /\ Line(f, c, t) /\ Len(t) = Len(s) + 1
                   /\ \A b : On(t, b) <=> b = c \/ On(s, b)
        <5>1. c \in AgentIds /\ Known(f, c)
          BY <4>1
        <5> QED
          BY <5>1, <4>5, LineCons
      <4>2. PICK t : /\ Line(f, c, t) /\ Len(t) = Len(s) + 1
                     /\ \A b : On(t, b) <=> b = c \/ On(s, b)
        BY <4>6
      <4>3. Chain(f, c) = {t[i] : i \in 1..Len(t)}
        BY <4>2, ChainIs
      <4>4. e.id \notin Chain(f, c)
        BY <1>3, <2>1, <2>2, <3>1 DEF Gone
      <4>7. ~On(t, e.id)
        BY <4>3, <4>4 DEF On
      <4>8. ~On(s, e.id)
        BY <4>2, <4>7
      <4> QED
        BY <4>8 DEF On
    <3>2. CASE c \notin SubIds
      <4>1. c \in RunIds /\ ~IsGone(f.runs[c]) /\ ParentOfChild(f, c) = f.runs[c].parent
        BY <2>2, <3>2 DEF Children, Gone, ParentOfChild, IsGone
      <4>2. f.runs[c].parent # NoAgent
        BY <1>6, <4>1 DEF Good, GoodRun
      <4>3. e.id \notin Chain(f, f.runs[c].parent)
        BY <1>3, <2>1, <4>1, <4>2
      <4>4. Chain(f, f.runs[c].parent) = {s[i] : i \in 1..Len(s)}
        BY <2>3, <4>1, ChainIs
      <4> QED
        BY <4>3, <4>4
    <3> QED
      BY <3>1, <3>2
  <2>5. Line(g, ParentOfChild(f, c), s)
    BY <1>5, <2>3, <2>4
  <2> QED
    BY <2>2, <2>3, <2>5 DEF Reaches
<1>7. Rooted(g)
  BY <1>6 DEF Rooted
<1> QED
  BY <1>7 DEF g

\* An event that brings no child into being keeps the forest rooted.
LEMMA ApplyRooted ==
  ASSUME NEW f \in Forest, Good(f), Rooted(f), NEW e \in Event, Fits(f, e), e.t \notin Births
  PROVE  Rooted(Apply(f, e))
BY PlainRooted, DeleteRooted

\* A new child of an agent that is there, and not at the depth, keeps it rooted.
LEMMA BirthRooted ==
  ASSUME NEW f \in Forest, Good(f), Rooted(f), NEW e \in Spawned \union Created,
         Gone(f, e.id), Known(f, e.parent), ~(DepthOf(f, e.parent) >= MaxDepth)
  PROVE  Rooted(Apply(f, e))
<1> DEFINE g == Apply(f, e)
<1>1. /\ e \in Event /\ e.t \in Births /\ e.id \in Children /\ e.parent \in AgentIds
      /\ e.t = "SubAgentSpawned" => e.id \in SubIds /\ e \in AboutSub
      /\ e.t = "RunCreated" => e.id \in RunIds /\ e.id \notin SubIds /\ e \in AboutRun
      /\ e.t = "SubAgentSpawned" \/ e.t = "RunCreated"
  BY IdFacts DEF Spawned, Created, Invoked, Event, Births, Children, AboutSub, AboutRun
<1>2. Fits(f, e)
  BY <1>1 DEF Fits, RunFits, OfRun, OfStep, Births
<1>3. g \in Forest /\ g.root = f.root
  BY <1>1, <1>2, ApplyGood
<1>4. /\ \A s \in SubIds : s # e.id => g.subs[s] = f.subs[s]
      /\ \A r \in RunIds : r # e.id => g.runs[r] = f.runs[r]
      /\ ParentOfChild(g, e.id) = e.parent
  <2>1. CASE e.t = "SubAgentSpawned"
    <3> DEFINE next == NextSub(f.subs[e.id], e)
    <3>1. f.subs \in [SubIds -> SubRec] /\ f.subs[e.id] \in SubRec
      BY <1>1, <2>1 DEF Forest
    <3>2. next.parent = e.parent
      BY <1>1, <2>1, <3>1, NextSubGood
    <3>3. g = [f EXCEPT !.subs = [@ EXCEPT ![e.id] = next]]
      BY <1>1, <2>1, ApplySub
    <3> HIDE DEF next, g
    <3>4. /\ \A s \in SubIds : g.subs[s] = IF s = e.id THEN next ELSE f.subs[s]
          /\ g.runs = f.runs
      BY <1>1, <2>1, <3>3 DEF Forest
    <3> QED
      BY <1>1, <2>1, <3>2, <3>4 DEF ParentOfChild
  <2>2. CASE e.t = "RunCreated"
    <3> DEFINE next == NextRun(f.runs[e.id], e)
    <3>1. next = NewRun(e.parent)
      BY <2>2 DEF NextRun
    <3>2. next.parent = e.parent
      BY <3>1 DEF NewRun, NoRun
    <3>3. g = [f EXCEPT !.runs = [@ EXCEPT ![e.id] = next]]
      BY <1>1, <2>2, ApplyRun
    <3> HIDE DEF next, g
    <3>4. /\ \A r \in RunIds : g.runs[r] = IF r = e.id THEN next ELSE f.runs[r]
          /\ g.subs = f.subs
      BY <1>1, <2>2, <3>3 DEF Forest
    <3> QED
      BY <1>1, <2>2, <3>2, <3>4 DEF ParentOfChild
  <2> QED
    BY <1>1, <2>1, <2>2
<1> HIDE DEF g
<1>5. Grows(f, g)
  <2>1. \A s \in SubIds : f.subs[s].status # "Absent" => g.subs[s] = f.subs[s]
    BY <1>4 DEF Gone
  <2>2. \A r \in RunIds : ~IsGone(f.runs[r]) => g.runs[r] = f.runs[r]
    BY <1>1, <1>4, IdFacts DEF Gone, IsGone
  <2> QED
    BY <1>3, <2>1, <2>2, GrowsIf
<1>6. Reaches(f, e.parent)
  <2>1. PICK s : Line(f, e.parent, s)
    BY <1>1, KnownHasLine
  <2>2. Cardinality(Chain(f, e.parent)) = Len(s)
    BY <2>1, ChainIs
  <2>3. Len(s) \in Nat /\ MaxDepth \in Nat
    BY <2>1, ConstantsAssumption DEF Line
  <2>4. Len(s) <= MaxDepth
    BY <2>2, <2>3 DEF DepthOf
  <2> QED
    BY <2>1, <2>4 DEF Reaches
<1>7. ASSUME NEW c \in Children \ {RootRun}, ~Gone(g, c)
      PROVE  Reaches(g, ParentOfChild(g, c))
  <2>1. CASE c = e.id
    BY <1>4, <1>5, <1>6, <2>1, ReachesStays
  <2>2. CASE c # e.id
    <3>1. ~Gone(f, c) /\ ParentOfChild(g, c) = ParentOfChild(f, c)
      BY <1>4, <1>7, <2>2 DEF Children, Gone, ParentOfChild
    <3>2. Reaches(f, ParentOfChild(f, c))
      BY <3>1 DEF Rooted
    <3> QED
      BY <1>5, <3>1, <3>2, ReachesStays
  <2> QED
    BY <2>1, <2>2
<1>8. Rooted(g)
  BY <1>7 DEF Rooted
<1> QED
  BY <1>8 DEF g

\* Where the lines of a rooted forest end.
LEMMA LineEnds ==
  ASSUME NEW f \in Forest, Good(f), Rooted(f), NEW a, NEW s, Line(f, a, s)
  PROVE  \E i \in 1..Len(s) : s[i] = Main \/ (s[i] \in StepIds /\ RunOf(s[i]) = RootRun)
<1> DEFINE n == Len(s)
<1>1. n \in 1..n /\ s[n] \in AgentIds
  <2>1. s \in Seq(AgentIds) /\ s # <<>>
    BY DEF Line
  <2> QED
    BY <2>1
<1>2. Known(f, s[n]) /\ ParentOf(f, s[n]) = NoAgent
  BY <1>1 DEF Line
<1>3. ~Reaches(f, NoAgent)
  <2>1. ASSUME NEW t, Line(f, NoAgent, t) PROVE FALSE
    <3>1. t \in Seq(AgentIds) /\ t # <<>> /\ t[1] = NoAgent
      BY <2>1 DEF Line
    <3>2. t[1] \in AgentIds
      BY <3>1
    <3> QED
      BY <3>1, <3>2, IdFacts
  <2> QED
    BY <2>1 DEF Reaches
<1>4. s[n] = Main \/ (s[n] \in StepIds /\ RunOf(s[n]) = RootRun)
  BY <1>1, <1>2, <1>3, HostOf DEF Rooted
<1> QED
  BY <1>1, <1>4

\* So every chain reaches the root.
LEMMA RootedReaches ==
  ASSUME Rooted(forest), forest \in Forest, Good(forest)
  PROVE  ChainsReachRoot
<1> SUFFICES ASSUME NEW c \in Children,
                    IF c \in SubIds THEN forest.subs[c].status # "Absent"
                    ELSE forest.runs[c].status # "Absent" /\ c # RootRun
             PROVE  LET above == Chain(forest, ParentOfChild(forest, c)) IN
                    /\ \A a \in above : Known(forest, a)
                    /\ \E a \in above : a = Main \/ (a \in StepIds /\ RunOf(a) = RootRun)
                    /\ Cardinality(above) <= MaxDepth
  BY DEF ChainsReachRoot
<1> DEFINE p == ParentOfChild(forest, c)
<1>1. c \in Children \ {RootRun} /\ ~Gone(forest, c)
  BY IdFacts DEF Gone
<1>2. PICK s : Line(forest, p, s) /\ Len(s) <= MaxDepth
  BY <1>1 DEF Rooted, Reaches
<1>3. Chain(forest, p) = {s[i] : i \in 1..Len(s)} /\ Cardinality(Chain(forest, p)) = Len(s)
  BY <1>2, ChainIs
<1>4. \A i \in 1..Len(s) : Known(forest, s[i])
  BY <1>2 DEF Line
<1>5. \E i \in 1..Len(s) : s[i] = Main \/ (s[i] \in StepIds /\ RunOf(s[i]) = RootRun)
  BY <1>2, LineEnds
<1> QED
  BY <1>2, <1>3, <1>4, <1>5

-----------------------------------------------------------------------------
(* Hands: what a handler has built up *)

\* Every result put in a parent's queue is marked, or its child is not there any more.
Marked(told, f) == \A c \in told : Settled(f, c)

\* What is known of a hand of a handler that brings no child into being.
Sane(h) ==
  /\ h \in Hands
  /\ Good(h.f) /\ Rooted(h.f)
  /\ h.f = Journal(forest, h.ev)
  /\ \A a \in AgentIds : h.ag[a].call \in {agents[a].call, NoAgent}
  /\ \A c \in Children : Gone(forest, c) => Gone(h.f, c)
  /\ \A c \in h.heard : c \in heard \/ ~Gone(forest, c)
  /\ ~again /\ Marked(heard, forest) => ~h.again /\ Marked(h.heard, h.f)

\* A fold over one event more.
LEMMA ApplyAppend ==
  ASSUME NEW f, NEW s \in Seq(Event), NEW e \in Event
  PROVE  Journal(f, Append(s, e)) = Apply(Journal(f, s), e)
<1> DEFINE t == Append(s, e)
           n == Len(s)
<1>1. t \in Seq(Event) /\ Len(t) = n + 1 /\ t[n + 1] = e /\ n \in Nat
      /\ \A k \in 1..n : t[k] = s[k]
  OBVIOUS
<1> HIDE DEF t, n
<1>2. PICK r : /\ r[0] = f
               /\ \A k \in 1..n : r[k] = Apply(r[k - 1], s[k])
               /\ r[n] = Journal(f, s)
  BY ApplyFold DEF n
<1>3. PICK q : /\ q[0] = f
               /\ \A k \in 1..(n + 1) : q[k] = Apply(q[k - 1], t[k])
               /\ q[n + 1] = Journal(f, t)
  BY <1>1, ApplyFold
<1>4. \A k \in 0..n : k \in {j \in 0..n : q[j] = r[j]}
  <2> DEFINE G == {j \in 0..n : q[j] = r[j]}
  <2>1. 0 \in G
    BY <1>1, <1>2, <1>3
  <2>2. ASSUME NEW k \in 0..(n - 1), k \in G
        PROVE  k + 1 \in G
    <3>1. k + 1 \in 1..n /\ k + 1 \in 1..(n + 1) /\ k + 1 \in 0..n /\ (k + 1) - 1 = k
      BY <1>1
    <3>2. q[k + 1] = Apply(q[k], t[k + 1]) /\ r[k + 1] = Apply(r[k], s[k + 1])
      BY <1>2, <1>3, <3>1
    <3> QED
      BY <1>1, <2>2, <3>1, <3>2
  <2> HIDE DEF G
  <2> QED
    BY <1>1, <2>1, <2>2, Induction DEF G
<1>5. q[n] = r[n]
  BY <1>1, <1>4
<1>6. q[n + 1] = Apply(q[n], e)
  <2>1. n + 1 \in 1..(n + 1) /\ (n + 1) - 1 = n
    BY <1>1
  <2> QED
    BY <1>1, <1>3, <2>1
<1> QED
  BY <1>2, <1>3, <1>5, <1>6 DEF t

\* No event has been folded yet.
LEMMA ApplyNone ==
  ASSUME NEW f
  PROVE  Journal(f, <<>>) = f
<1> DEFINE s == <<>>
<1>1. s \in Seq(Event) /\ Len(s) = 0
  OBVIOUS
<1> HIDE DEF s
<1>2. PICK r : /\ r[0] = f
               /\ \A k \in 1..Len(s) : r[k] = Apply(r[k - 1], s[k])
               /\ r[Len(s)] = Journal(f, s)
  BY <1>1, ApplyFold
<1> QED
  BY <1>1, <1>2 DEF s

\* The parts of a hand after one event.
LEMMA EmitParts ==
  ASSUME NEW h \in Hands, NEW e \in Event
  PROVE  /\ Emit(h, e).f = Apply(h.f, e) /\ Emit(h, e).ev = Append(h.ev, e)
         /\ Emit(h, e).ag = h.ag /\ Emit(h, e).heard = h.heard \ Ends(e)
         /\ Emit(h, e).again = h.again
         /\ Apply(h.f, e) \in Forest => Emit(h, e) \in Hands
<1>1. /\ h.f \in Forest /\ h.ev \in Seq(Event) /\ h.ag \in Agents
      /\ h.heard \in SUBSET Children /\ h.again \in BOOLEAN
  BY DEF Hands
<1>2. Append(h.ev, e) \in Seq(Event)
  BY <1>1
<1> DEFINE f == Apply(h.f, e)
           ev == Append(h.ev, e)
           told == h.heard \ Ends(e)
           g == Emit(h, e)
<1>3. g = [h EXCEPT !.f = f, !.ev = ev, !.heard = told]
  BY DEF Emit
<1>4. told \in SUBSET Children
  BY <1>1
<1> HIDE DEF f, ev, told, g
<1>5. /\ g.f = f /\ g.ev = ev /\ g.heard = told /\ g.ag = h.ag /\ g.again = h.again
      /\ f \in Forest => g \in Hands
  BY <1>1, <1>2, <1>3, <1>4 DEF Hands, ev
<1> QED
  BY <1>5 DEF f, ev, told, g

\* An event that fits, and brings no child into being, leaves the hand sane.
LEMMA EmitSane ==
  ASSUME NEW h, Sane(h), NEW e \in Event, Fits(h.f, e), e.t \notin Births
  PROVE  Sane(Emit(h, e))
<1> DEFINE g == Emit(h, e)
<1>1. /\ h \in Hands /\ h.f \in Forest /\ h.ev \in Seq(Event) /\ h.heard \in SUBSET Children
  BY DEF Sane, Hands
<1>2. Apply(h.f, e) \in Forest /\ Good(Apply(h.f, e)) /\ Rooted(Apply(h.f, e))
  BY <1>1, ApplyGood, ApplyRooted DEF Sane
<1>3. /\ g \in Hands /\ g.f = Apply(h.f, e) /\ g.ev = Append(h.ev, e) /\ g.ag = h.ag
      /\ g.heard = h.heard \ Ends(e) /\ g.again = h.again
  BY <1>1, <1>2, EmitParts
<1> HIDE DEF g
<1>4. g.f = Journal(forest, g.ev)
  BY <1>1, <1>3, ApplyAppend DEF Sane
<1>5. Born(e) = {}
  BY DEF Born
<1>6. \A c \in Children : /\ Gone(h.f, c) => Gone(g.f, c)
                          /\ Settled(h.f, c) /\ c \notin Ends(e) => Settled(g.f, c)
  BY <1>1, <1>3, <1>5, ApplyChildren DEF Sane
<1>7. Marked(h.heard, h.f) => Marked(g.heard, g.f)
  BY <1>1, <1>3, <1>6 DEF Marked
<1> QED
  BY <1>2, <1>3, <1>4, <1>6, <1>7 DEF Sane, g

\* What the reconciliation may do: send a result, start a step, end a run.
Delivery == [t : {"Deliver"}, id : Children]
Starting == [t : {"StartStep"}, id : RunIds, step : DOMAIN Transitions]
Ending   == [t : {"Finish", "Fail"}, id : RunIds]
Action   == Delivery \union Starting \union Ending

\* What an action takes for granted of the hand it is performed on.
Ready(h, b) ==
  /\ b.t \in {"StartStep", "Finish", "Fail"} => ~IsGone(h.f.runs[b.id])
  /\ b.t = "StartStep" => Idle(h.f.runs[b.id])
  /\ b.t = "Deliver" => /\ ~Gone(forest, b.id)
                        /\ ~again /\ Marked(heard, forest) => b.id \notin h.heard

\* Two actions that do not undo what the other takes for granted.
Apart(b, d) == b.t = d.t /\ b.t \in {"StartStep", "Deliver"} => b.id # d.id

\* What an event leaves of the readiness for an action.
LEMMA EmitReady ==
  ASSUME NEW h, Sane(h), NEW e \in Event, Fits(h.f, e), e.t \notin Births, e.t # "AgentDeleted",
         NEW b \in Action, Ready(h, b), e.t = "StepStarted" /\ b.t = "StartStep" => e.id # b.id
  PROVE  Ready(Emit(h, e), b)
<1>1. h \in Hands /\ h.f \in Forest
  BY DEF Sane, Hands
<1>2. Emit(h, e).f = Apply(h.f, e) /\ Emit(h, e).heard = h.heard \ Ends(e)
  BY <1>1, EmitParts
<1>3. CASE b.t \in {"StartStep", "Finish", "Fail"}
  <2>1. b.id \in RunIds /\ e.t # "RunCreated"
    BY <1>3 DEF Action, Delivery, Starting, Ending, Births
  <2>2. /\ ~IsGone(Apply(h.f, e).runs[b.id])
        /\ b.t = "StartStep" => Idle(Apply(h.f, e).runs[b.id])
    <3>1. Good(h.f)
      BY DEF Sane
    <3>2. /\ IsGone(Apply(h.f, e).runs[b.id]) <=> IsGone(h.f.runs[b.id])
          /\ ~(e.t = "StepStarted" /\ e.id = b.id) => Flying(Apply(h.f, e).runs[b.id]) \subseteq Flying(h.f.runs[b.id])
      BY <1>1, <2>1, <3>1, ApplyRuns
    <3> QED
      BY <1>3, <3>2 DEF Ready, Idle
  <2> QED
    BY <1>2, <1>3, <2>2 DEF Ready
<1>4. CASE b.t \notin {"StartStep", "Finish", "Fail"}
  BY <1>2, <1>4 DEF Ready
<1> QED
  BY <1>3, <1>4

\* An event that neither brings into being nor deletes nor starts a step.
Plain(e) == e.t \notin Births \union {"AgentDeleted", "StepStarted"}

\* From f to g no run came or went, no step went, and none was started.
Kept(f, g) ==
  \A r \in RunIds : /\ IsGone(g.runs[r]) <=> IsGone(f.runs[r])
                    /\ DOMAIN f.runs[r].steps \subseteq DOMAIN g.runs[r].steps
                    /\ Flying(g.runs[r]) \subseteq Flying(f.runs[r])

\* An event that fits a forest fits what plain events make of it.
LEMMA PlainKeeps ==
  ASSUME NEW f \in Forest, Good(f), NEW e \in Event, Fits(f, e), Plain(e)
  PROVE  Kept(f, Apply(f, e))
BY ApplyRuns DEF Kept, Plain, Births

\* What fits a forest fits one that keeps it.
LEMMA KeptFits ==
  ASSUME NEW f, NEW g, Kept(f, g), NEW e \in Event, Fits(f, e)
  PROVE  Fits(g, e)
BY DEF Kept, Fits, RunFits, Idle

\* Plain events that all fit leave the hand sane.
LEMMA EmitAllSane ==
  ASSUME NEW h, Sane(h), NEW s \in Seq(Event),
         \A i \in 1..Len(s) : Plain(s[i]) /\ Fits(h.f, s[i])
  PROVE  /\ Sane(EmitAll(h, s)) /\ Kept(h.f, EmitAll(h, s).f)
         /\ EmitAll(h, s).ag = h.ag
<1> DEFINE n == Len(s)
<1>1. n \in Nat /\ \A i \in 1..n : s[i] \in Event
  OBVIOUS
<1> HIDE DEF n
<1>2. PICK r : /\ r[0] = h
               /\ \A k \in 1..n : r[k] = Emit(r[k - 1], s[k])
               /\ r[n] = EmitAll(h, s)
  BY EmitFold DEF n
<1> DEFINE G == {k \in 0..n : Sane(r[k]) /\ Kept(h.f, r[k].f) /\ r[k].ag = h.ag}
<1>3. 0 \in G
  BY <1>1, <1>2 DEF Kept
<1>4. ASSUME NEW k \in 0..(n - 1), k \in G
      PROVE  k + 1 \in G
  <2>1. k + 1 \in 1..n /\ k + 1 \in 0..n /\ (k + 1) - 1 = k
    BY <1>1
  <2>2. r[k + 1] = Emit(r[k], s[k + 1])
    BY <1>2, <2>1
  <2>3. Sane(r[k]) /\ Kept(h.f, r[k].f) /\ r[k].ag = h.ag
    BY <1>4
  <2>4. s[k + 1] \in Event /\ Plain(s[k + 1]) /\ Fits(h.f, s[k + 1])
    BY <1>1, <2>1 DEF n
  <2>5. Fits(r[k].f, s[k + 1])
    BY <2>3, <2>4, KeptFits
  <2>6. Sane(r[k + 1])
    BY <2>2, <2>3, <2>4, <2>5, EmitSane DEF Plain
  <2>7. r[k] \in Hands /\ r[k].f \in Forest /\ Good(r[k].f)
    BY <2>3 DEF Sane, Hands
  <2>8. r[k + 1].f = Apply(r[k].f, s[k + 1]) /\ r[k + 1].ag = r[k].ag
    BY <2>2, <2>4, <2>7, EmitParts
  <2>9. Kept(r[k].f, r[k + 1].f)
    BY <2>4, <2>5, <2>7, <2>8, PlainKeeps
  <2>10. Kept(h.f, r[k + 1].f)
    BY <2>3, <2>9 DEF Kept
  <2> QED
    BY <2>1, <2>3, <2>6, <2>8, <2>10
<1>5. \A k \in 0..n : k \in G
  <2> HIDE DEF G
  <2> QED
    BY <1>1, <1>3, <1>4, Induction
<1>6. n \in G
  BY <1>1, <1>5
<1> QED
  BY <1>2, <1>6

\* The tells of a hand change no call and no type.
LEMMA ReachTypes ==
  ASSUME NEW ag \in Agents, NEW a
  PROVE  /\ Enqueue(ag, a) \in Agents
         /\ \A b \in AgentIds : Enqueue(ag, a)[b].call = ag[b].call
BY DEF Agents, AgentRec, Enqueue, Reach

\* From h to g no call began or ended.
SameCalls(h, g) == \A a \in AgentIds : g.ag[a].call = h.ag[a].call

\* Starting a step leaves the hand sane, and ready for what was apart from it.
LEMMA StartStepSane ==
  ASSUME NEW h, Sane(h), NEW r \in RunIds, NEW step \in DOMAIN Transitions,
         ~IsGone(h.f.runs[r]), Idle(h.f.runs[r])
  PROVE  /\ Sane(StartStep(h, r, step)) /\ SameCalls(h, StartStep(h, r, step))
         /\ \A b \in Action : Ready(h, b) /\ ~(b.t = "StartStep" /\ b.id = r)
              => Ready(StartStep(h, r, step), b)
<1> DEFINE a == StepOf(r, Len(h.f.runs[r].steps) + 1)
           g == [h EXCEPT !.ag = Enqueue(@, a)]
           e == [t |-> "StepStarted", id |-> r, step |-> step]
<1>1. e \in Event /\ e.t = "StepStarted" /\ e.id = r
  BY DEF Event, StartedStep
<1>2. StartStep(h, r, step) = Emit(g, e)
  BY DEF StartStep
<1>3. h \in Hands /\ h.ag \in Agents
  BY DEF Sane, Hands
<1>4. Enqueue(h.ag, a) \in Agents /\ \A b \in AgentIds : Enqueue(h.ag, a)[b].call = h.ag[b].call
  BY <1>3, ReachTypes
<1> HIDE DEF a
<1>5. /\ g \in Hands /\ g.f = h.f /\ g.ev = h.ev /\ g.heard = h.heard /\ g.again = h.again
      /\ g.ag = Enqueue(h.ag, a)
  BY <1>3, <1>4 DEF Hands
<1> HIDE DEF g, e
<1>6. Sane(g)
  BY <1>4, <1>5 DEF Sane
<1>7. Fits(g.f, e) /\ e.t \notin Births /\ e.t # "AgentDeleted"
  BY <1>1, <1>5 DEF Fits, RunFits, OfStep, Births
<1>8. Sane(Emit(g, e)) /\ SameCalls(h, Emit(g, e))
  BY <1>1, <1>4, <1>5, <1>6, <1>7, EmitSane, EmitParts DEF SameCalls
<1>9. ASSUME NEW b \in Action, Ready(h, b), ~(b.t = "StartStep" /\ b.id = r)
      PROVE  Ready(Emit(g, e), b)
  <2>1. Ready(g, b)
    BY <1>5, <1>9 DEF Ready
  <2> QED
    BY <1>1, <1>6, <1>7, <1>9, <2>1, EmitReady
<1> QED
  BY <1>2, <1>8, <1>9

\* Sending a result leaves the hand sane, and ready for what was apart from it.
LEMMA DeliverSane ==
  ASSUME NEW h, Sane(h), NEW c \in Children, NEW d, d = [t |-> "Deliver", id |-> c], Ready(h, d)
  PROVE  /\ Sane(Deliver(h, c)) /\ SameCalls(h, Deliver(h, c))
         /\ \A b \in Action : Ready(h, b) /\ Apart(d, b) => Ready(Deliver(h, c), b)
<1> DEFINE p == ParentOfChild(h.f, c)
           g == [h EXCEPT !.ag = Enqueue(@, p), !.again = @ \/ c \in h.heard,
                          !.heard = @ \union {c}]
           e == [t |-> IF c \in RunIds THEN "RunNotified" ELSE "SubAgentNotified", id |-> c]
<1>1. e \in Event /\ e.t \in {"RunNotified", "SubAgentNotified"} /\ e.id = c
  BY DEF Event, RunEvent, SubEvent, Children
<1>2. Deliver(h, c) = Emit(g, e)
  BY DEF Deliver
<1>3. h \in Hands /\ h.ag \in Agents /\ h.f \in Forest /\ h.ev \in Seq(Event)
  BY DEF Sane, Hands
<1>4. Enqueue(h.ag, p) \in Agents /\ \A b \in AgentIds : Enqueue(h.ag, p)[b].call = h.ag[b].call
  BY <1>3, ReachTypes
<1> HIDE DEF p
<1>5. /\ g \in Hands /\ g.f = h.f /\ g.ev = h.ev /\ g.heard = h.heard \union {c}
      /\ g.again = (h.again \/ c \in h.heard) /\ g.ag = Enqueue(h.ag, p)
  BY <1>3, <1>4 DEF Hands
<1> HIDE DEF g, e
<1>6. Fits(g.f, e) /\ e.t \notin Births /\ e.t # "AgentDeleted" /\ Ends(e) = {} /\ Born(e) = {}
  BY <1>1 DEF Fits, RunFits, OfRun, OfStep, Births, Ends, Born
<1> DEFINE o == Emit(g, e)
<1>7. Apply(h.f, e) \in Forest /\ Good(Apply(h.f, e)) /\ Rooted(Apply(h.f, e))
  BY <1>1, <1>3, <1>5, <1>6, ApplyGood, ApplyRooted DEF Sane
<1>8. /\ o \in Hands /\ o.f = Apply(h.f, e) /\ o.ev = Append(h.ev, e) /\ o.ag = g.ag
      /\ o.heard = h.heard \union {c} /\ o.again = g.again
  BY <1>1, <1>5, <1>6, <1>7, EmitParts
<1> HIDE DEF o
<1>9. o.f = Journal(forest, o.ev)
  BY <1>1, <1>3, <1>8, ApplyAppend DEF Sane
<1>10. \A x \in Children : /\ Gone(h.f, x) => Gone(o.f, x)
                           /\ Settled(h.f, x) => Settled(o.f, x)
                           /\ x = c => Settled(o.f, x)
  BY <1>1, <1>3, <1>5, <1>6, <1>8, ApplyChildren DEF Sane
<1>11. h.heard \in SUBSET Children
  BY <1>3 DEF Hands
<1>12. ASSUME ~again, Marked(heard, forest)
       PROVE  ~o.again /\ Marked(o.heard, o.f)
  <2>1. ~h.again /\ Marked(h.heard, h.f) /\ c \notin h.heard
    BY <1>12 DEF Sane, Ready
  <2> QED
    BY <1>5, <1>8, <1>10, <1>11, <2>1 DEF Marked
<1>13. \A x \in o.heard : x \in heard \/ ~Gone(forest, x)
  BY <1>8 DEF Sane, Ready
<1>14. \A a \in AgentIds : o.ag[a].call \in {agents[a].call, NoAgent}
  BY <1>4, <1>5, <1>8 DEF Sane
<1>15. \A x \in Children : Gone(forest, x) => Gone(o.f, x)
  BY <1>10 DEF Sane
<1>18. SameCalls(h, o)
  BY <1>4, <1>5, <1>8 DEF SameCalls
<1>16. Sane(o)
  BY <1>7, <1>8, <1>9, <1>12, <1>13, <1>14, <1>15 DEF Sane
<1>17. ASSUME NEW b \in Action, Ready(h, b), Apart(d, b)
       PROVE  Ready(o, b)
  <2>1. CASE b.t \in {"StartStep", "Finish", "Fail"}
    <3>1. b.id \in RunIds /\ e.t # "RunCreated" /\ e.t # "StepStarted"
      BY <1>1, <2>1 DEF Action, Delivery, Starting, Ending
    <3>2. /\ IsGone(Apply(h.f, e).runs[b.id]) <=> IsGone(h.f.runs[b.id])
          /\ Flying(Apply(h.f, e).runs[b.id]) \subseteq Flying(h.f.runs[b.id])
      BY <1>1, <1>3, <1>5, <1>6, <3>1, ApplyRuns DEF Sane
    <3> QED
      BY <1>8, <1>17, <2>1, <3>2 DEF Ready, Idle
  <2>2. CASE b.t = "Deliver"
    BY <1>8, <1>17, <2>2 DEF Ready, Apart
  <2> QED
    BY <2>1, <2>2 DEF Action, Delivery, Starting, Ending
<1> QED
  BY <1>2, <1>16, <1>17, <1>18 DEF o

-----------------------------------------------------------------------------
(* The reconciliation *)

\* A finite set as a sequence: its elements, each once.
LEMMA SequenceOf ==
  ASSUME NEW S, IsFiniteSet(S)
  PROVE  /\ SetToSeq(S) \in Seq(S)
         /\ \A i, j \in 1..Len(SetToSeq(S)) : SetToSeq(S)[i] = SetToSeq(S)[j] => i = j
<1> DEFINE n == Cardinality(S)
<1>1. n \in Nat
  BY FS_CardinalityType
<1>2. \E q \in [1..n -> S] : IsInjective(q)
  <2>1. ExistsBijection(1..n, S)
    BY FS_CardinalityType
  <2>2. PICK q \in [1..n -> S] : \A i, j \in 1..n : q[i] = q[j] => i = j
    BY <2>1 DEF ExistsBijection, Bijection, Injection, IsInjective
  <2> QED
    BY <2>2 DEF IsInjective
<1> DEFINE q == SetToSeq(S)
<1>3. q \in [1..n -> S] /\ IsInjective(q)
  BY <1>2 DEF SetToSeq
<1> HIDE DEF q, n
<1> QED
  BY <1>1, <1>3 DEF IsInjective, q

\* The ids are finitely many.
LEMMA FiniteIds ==
  IsFiniteSet(SubIds) /\ IsFiniteSet(RunIds) /\ IsFiniteSet(Children)
<1>1. MaxRuns \in Nat /\ MaxSubs \in Nat
  BY ConstantsAssumption
<1> DEFINE sub == [a \in SubIds |-> a[2]]
           run == [a \in RunIds |-> a[2]]
<1>2. IsFiniteSet(1..MaxSubs) /\ IsFiniteSet(0..MaxRuns)
  BY <1>1, FS_Interval
<1>3. sub \in Injection(SubIds, 1..MaxSubs)
  BY DEF SubIds, Injection, IsInjective
<1>4. run \in Injection(RunIds, 0..MaxRuns)
  BY DEF RunIds, Injection, IsInjective
<1>5. IsFiniteSet(SubIds) /\ IsFiniteSet(RunIds)
  BY <1>2, <1>3, <1>4, FS_Injection
<1> QED
  BY <1>5, FS_Union DEF Children

\* What has one element for a child at most is finite.
LEMMA FiniteById ==
  ASSUME NEW S, \A x \in S : x.id \in Children, \A x, y \in S : x.id = y.id => x = y
  PROVE  IsFiniteSet(S)
<1> DEFINE q == [x \in S |-> x.id]
<1>1. q \in Injection(S, Children)
  BY DEF Injection, IsInjective
<1> QED
  BY <1>1, FiniteIds, FS_Injection

\* The step in flight, if there is one.
LEMMA CurrentIs ==
  ASSUME NEW r, NEW run \in RunRec, GoodRun(r, run)
  PROVE  /\ Current(run) = 0 <=> Idle(run)
         /\ Current(run) # 0 => Current(run) \in Flying(run)
<1> DEFINE flying == {k \in DOMAIN run.steps : run.steps[k].status = "Running"}
<1>1. flying = Flying(run)
  BY DEF Flying
<1>2. Current(run) = IF flying = {} THEN 0 ELSE CHOOSE k \in flying : \A j \in flying : k <= j
  BY DEF Current
<1>3. flying \subseteq Nat \ {0}
  <2>1. run.steps \in Seq(StepRec)
    BY DEF RunRec
  <2> QED
    BY <2>1
<1>4. \A j, k \in flying : j = k
  BY <1>1 DEF GoodRun
<1> HIDE DEF flying
<1>5. flying # {} => \E k \in flying : \A j \in flying : k <= j
  BY <1>3, LeastOf
<1>6. flying # {} => (CHOOSE k \in flying : \A j \in flying : k <= j) \in flying
  BY <1>5
<1>7. flying = {} => Current(run) = 0
  BY <1>2
<1>8. flying # {} => Current(run) \in flying /\ Current(run) # 0
  BY <1>2, <1>3, <1>6
<1> QED
  BY <1>1, <1>7, <1>8 DEF Idle

\* What the transitions of a step lead to.
LEMMA EdgesLead ==
  ASSUME NEW W, NEW T, NEW q \in Seq([when : W, to : T])
  PROVE  \A i \in DOMAIN q : q[i].to \in T
<1> DEFINE E == [when : W, to : T]
<1>1. q \in Seq(E) /\ \A x \in E : x.to \in T
  OBVIOUS
<1> HIDE DEF E
<1> QED
  BY <1>1

\* A transition leads to a step of the graph, and to one at most.
LEMMA TransitionIs ==
  ASSUME NEW step \in DOMAIN Transitions, NEW out
  PROVE  /\ NextTransition(step, out) \subseteq DOMAIN Transitions
         /\ \A x, y \in NextTransition(step, out) : x = y
<1> DEFINE admits == {i \in DOMAIN Transitions[step] : out \in Transitions[step][i].when}
           first  == CHOOSE i \in admits : \A j \in admits : i <= j
<1>1. NextTransition(step, out) = IF admits = {} THEN {} ELSE {Transitions[step][first].to}
  BY DEF NextTransition
<1>2. Transitions[step] \in Seq([when : SUBSET Outcomes, to : DOMAIN Transitions])
  BY ConstantsAssumption
<1>3. admits \in SUBSET Nat /\ admits \subseteq DOMAIN Transitions[step]
  BY <1>2
<1> HIDE DEF admits
<1>4. admits # {} => first \in admits
  BY <1>3, LeastOf
<1> HIDE DEF first
<1>5. admits # {} => Transitions[step][first].to \in DOMAIN Transitions
  <2> DEFINE q == Transitions[step]
             T == DOMAIN Transitions
  <2>1. q \in Seq([when : SUBSET Outcomes, to : T])
    BY <1>2
  <2>2. admits # {} => first \in DOMAIN q
    BY <1>3, <1>4
  <2> HIDE DEF q, T
  <2>3. \A i \in DOMAIN q : q[i].to \in T
    BY <2>1, EdgesLead
  <2>4. admits # {} => q[first].to \in T
    BY <2>2, <2>3
  <2> QED
    BY <2>4 DEF q, T
<1> QED
  BY <1>1, <1>5

\* What the driver wants of a run: one action at most, that the run is ready for.
LEMMA StepActionIs ==
  ASSUME NEW f \in Forest, Good(f), NEW r \in RunIds
  PROVE  /\ \A b \in StepActions(f, r) :
              /\ b \in Starting \union Ending /\ b.id = r
              /\ ~IsGone(f.runs[r]) /\ Idle(f.runs[r])
         /\ \A b, d \in StepActions(f, r) : b = d
<1> DEFINE run  == f.runs[r]
           last == run.steps[Len(run.steps)]
           to   == NextTransition(last.step, last.out)
<1>1. run \in RunRec /\ GoodRun(r, run) /\ run.steps \in Seq(StepRec)
  BY DEF Forest, RunRec, Good
<1>2. CASE run.status \in {"Absent", "Suspended", "AwaitingInput"} \union Terminal \/ Current(run) # 0
  <2>1. StepActions(f, r) = {}
    BY <1>2 DEF StepActions
  <2> QED
    BY <2>1
<1>3. CASE ~(run.status \in {"Absent", "Suspended", "AwaitingInput"} \union Terminal \/ Current(run) # 0)
  <2>1. ~IsGone(run) /\ Idle(run)
    BY <1>1, <1>3, CurrentIs DEF IsGone
  <2>2. StepActions(f, r) =
          IF Len(run.steps) >= MaxSteps THEN {[t |-> "Fail", id |-> r]}
          ELSE IF run.steps = <<>> THEN {[t |-> "StartStep", id |-> r, step |-> Start]}
          ELSE IF last.status # "Concluded" THEN {}
          ELSE IF to = {} THEN {[t |-> "Finish", id |-> r]}
          ELSE {[t |-> "StartStep", id |-> r, step |-> s] : s \in to}
    BY <1>3 DEF StepActions
  <2>3. CASE Len(run.steps) >= MaxSteps
    <3>1. StepActions(f, r) = {[t |-> "Fail", id |-> r]}
      BY <2>2, <2>3
    <3> QED
      BY <2>1, <3>1 DEF Ending
  <2>4. CASE ~(Len(run.steps) >= MaxSteps) /\ run.steps = <<>>
    <3>1. StepActions(f, r) = {[t |-> "StartStep", id |-> r, step |-> Start]}
      BY <2>2, <2>4
    <3> QED
      BY <2>1, <3>1, ConstantsAssumption DEF Starting
  <2>5. CASE ~(Len(run.steps) >= MaxSteps) /\ run.steps # <<>> /\ last.status # "Concluded"
    <3>1. StepActions(f, r) = {}
      BY <2>2, <2>5
    <3> QED
      BY <3>1
  <2>6. CASE ~(Len(run.steps) >= MaxSteps) /\ run.steps # <<>> /\ last.status = "Concluded"
    <3>1. last \in StepRec
      BY <1>1, <2>6
    <3>2. to \subseteq DOMAIN Transitions /\ \A x, y \in to : x = y
      BY <3>1, TransitionIs DEF StepRec
    <3> HIDE DEF to
    <3>3. StepActions(f, r) = IF to = {} THEN {[t |-> "Finish", id |-> r]}
                              ELSE {[t |-> "StartStep", id |-> r, step |-> s] : s \in to}
      BY <2>2, <2>6
    <3> QED
      BY <2>1, <3>2, <3>3 DEF Starting, Ending
  <2> QED
    BY <2>3, <2>4, <2>5, <2>6
<1> QED
  BY <1>2, <1>3

\* What a boundary sets off: actions apart from each other, that the forest is ready for.
LEMMA NextActionsAre ==
  ASSUME NEW f \in Forest, Good(f)
  PROVE  /\ NextActions(f) \in Seq(Action)
         /\ \A i, j \in 1..Len(NextActions(f)) :
              i # j => Apart(NextActions(f)[i], NextActions(f)[j])
         /\ \A i \in 1..Len(NextActions(f)) :
              LET b == NextActions(f)[i] IN
              /\ b.t \in {"StartStep", "Finish", "Fail"} =>
                   ~IsGone(f.runs[b.id]) /\ Idle(f.runs[b.id])
              /\ b.t = "Deliver" => ~Settled(f, b.id)
<1> DEFINE owed == {d \in Owed(f) : Known(f, ParentOfChild(f, d))}
           D == {[t |-> "Deliver", id |-> c] : c \in owed}
           U == UNION {StepActions(f, r) : r \in RunIds}
           s == SetToSeq(D)
           q == SetToSeq(U)
<1>1. owed \subseteq Children /\ \A c \in owed : ~Settled(f, c)
  <2>1. Owed(f) \subseteq Children
    BY DEF Owed, Children
  <2>2. ASSUME NEW c \in Owed(f) PROVE ~Settled(f, c)
    <3>1. CASE c \in SubIds
      BY <2>2, <3>1, IdFacts DEF Owed, Settled, Gone, Noted
    <3>2. CASE c \notin SubIds
      BY <2>2, <3>2, IdFacts DEF Owed, Settled, Gone, Noted, Terminal
    <3> QED
      BY <3>1, <3>2
  <2> QED
    BY <2>1, <2>2
<1> HIDE DEF owed
<1>2. /\ \A b \in D : b \in Delivery /\ b.id \in Children /\ b.t = "Deliver" /\ ~Settled(f, b.id)
      /\ \A b, d \in D : b.id = d.id => b = d
  BY <1>1 DEF Delivery
<1>3. /\ \A b \in U : /\ b \in Starting \union Ending /\ b.id \in RunIds /\ b.id \in Children
                      /\ b.t \in {"StartStep", "Finish", "Fail"}
                      /\ ~IsGone(f.runs[b.id]) /\ Idle(f.runs[b.id])
      /\ \A b, d \in U : b.id = d.id => b = d
  <2>1. \A b \in U : \E r \in RunIds : b \in StepActions(f, r)
    OBVIOUS
  <2>2. ASSUME NEW b \in U
        PROVE  /\ b \in Starting \union Ending /\ b.id \in RunIds
               /\ ~IsGone(f.runs[b.id]) /\ Idle(f.runs[b.id])
               /\ b \in StepActions(f, b.id)
    BY <2>1, StepActionIs
  <2>3. \A b, d \in U : b.id = d.id => b = d
    BY <2>2, StepActionIs
  <2> QED
    BY <2>2, <2>3 DEF Starting, Ending, Children
<1> HIDE DEF D, U
<1>4. IsFiniteSet(D) /\ IsFiniteSet(U)
  BY <1>2, <1>3, FiniteById
<1>5. /\ s \in Seq(D) /\ \A i, j \in 1..Len(s) : s[i] = s[j] => i = j
      /\ q \in Seq(U) /\ \A i, j \in 1..Len(q) : q[i] = q[j] => i = j
  BY <1>4, SequenceOf
<1>6. NextActions(f) = s \o q
  BY DEF NextActions, D, U, owed
<1> HIDE DEF s, q
<1> DEFINE a == s \o q
<1>7. /\ Len(s) \in Nat /\ Len(q) \in Nat /\ Len(a) = Len(s) + Len(q)
      /\ \A i \in 1..Len(a) : \/ i \in 1..Len(s) /\ a[i] = s[i] /\ a[i] \in D
                              \/ /\ i - Len(s) \in 1..Len(q) /\ i > Len(s)
                                 /\ a[i] = q[i - Len(s)] /\ a[i] \in U
  BY <1>5
<1>8. a \in Seq(Action)
  <2>1. D \subseteq Action /\ U \subseteq Action
    BY <1>2, <1>3 DEF Action
  <2>2. s \in Seq(Action) /\ q \in Seq(Action)
    BY <1>5, <2>1
  <2> QED
    BY <2>2
<1> HIDE DEF a
<1>9. ASSUME NEW i \in 1..Len(a), NEW j \in 1..Len(a), i # j
      PROVE  Apart(a[i], a[j])
  <2>1. CASE i \in 1..Len(s) /\ a[i] = s[i] /\ a[i] \in D /\ j \in 1..Len(s) /\ a[j] = s[j] /\ a[j] \in D
    BY <1>2, <1>5, <1>9, <2>1 DEF Apart
  <2>2. CASE /\ i - Len(s) \in 1..Len(q) /\ a[i] = q[i - Len(s)] /\ a[i] \in U
             /\ j - Len(s) \in 1..Len(q) /\ a[j] = q[j - Len(s)] /\ a[j] \in U
    <3>1. i - Len(s) # j - Len(s)
      BY <1>7, <1>9
    <3> QED
      BY <1>3, <1>5, <2>2, <3>1 DEF Apart
  <2>3. CASE (a[i] \in D /\ a[j] \in U) \/ (a[i] \in U /\ a[j] \in D)
    BY <1>2, <1>3, <2>3 DEF Apart
  <2>4. \/ i \in 1..Len(s) /\ a[i] = s[i] /\ a[i] \in D
        \/ i - Len(s) \in 1..Len(q) /\ a[i] = q[i - Len(s)] /\ a[i] \in U
    BY <1>7, <1>9
  <2>5. \/ j \in 1..Len(s) /\ a[j] = s[j] /\ a[j] \in D
        \/ j - Len(s) \in 1..Len(q) /\ a[j] = q[j - Len(s)] /\ a[j] \in U
    BY <1>7, <1>9
  <2> QED
    BY <2>1, <2>2, <2>3, <2>4, <2>5
<1>10. \A i \in 1..Len(a) : /\ a[i].t \in {"StartStep", "Finish", "Fail"} =>
                                 ~IsGone(f.runs[a[i].id]) /\ Idle(f.runs[a[i].id])
                            /\ a[i].t = "Deliver" => ~Settled(f, a[i].id)
  BY <1>2, <1>3, <1>7
<1> QED
  BY <1>6, <1>8, <1>9, <1>10 DEF a

\* An action the hand is ready for leaves it sane, and ready for what is apart from it.
LEMMA PerformSane ==
  ASSUME NEW h, Sane(h), NEW b \in Action, Ready(h, b)
  PROVE  /\ Sane(Perform(h, b)) /\ SameCalls(h, Perform(h, b))
         /\ \A d \in Action : Ready(h, d) /\ Apart(b, d) => Ready(Perform(h, b), d)
<1>1. CASE b \in Delivery
  <2>1. b = [t |-> "Deliver", id |-> b.id] /\ b.id \in Children /\ b.t = "Deliver"
    BY <1>1 DEF Delivery
  <2>2. Perform(h, b) = Deliver(h, b.id)
    BY <2>1 DEF Perform
  <2> QED
    BY <2>1, <2>2, DeliverSane
<1>2. CASE b \in Starting
  <2>1. b.id \in RunIds /\ b.step \in DOMAIN Transitions /\ b.t = "StartStep"
    BY <1>2 DEF Starting
  <2>2. Perform(h, b) = StartStep(h, b.id, b.step)
    BY <2>1 DEF Perform
  <2>3. ~IsGone(h.f.runs[b.id]) /\ Idle(h.f.runs[b.id])
    BY <2>1 DEF Ready
  <2>4. \A d \in Action : Apart(b, d) => ~(d.t = "StartStep" /\ d.id = b.id)
    BY <2>1 DEF Apart
  <2> QED
    BY <2>1, <2>2, <2>3, <2>4, StartStepSane
<1>3. CASE b \in Ending
  <2> DEFINE e == [t |-> IF b.t = "Finish" THEN "RunFinished" ELSE "RunFailed", id |-> b.id]
  <2>1. b.id \in RunIds /\ b.t \in {"Finish", "Fail"}
    BY <1>3 DEF Ending
  <2>2. e \in Event /\ e.t \in {"RunFinished", "RunFailed"} /\ e.id = b.id
    BY <2>1 DEF Event, RunEvent
  <2>3. Perform(h, b) = Emit(h, e)
    BY <2>1 DEF Perform
  <2> HIDE DEF e
  <2>4. Fits(h.f, e) /\ e.t \notin Births /\ e.t # "AgentDeleted" /\ e.t # "StepStarted"
    BY <2>1, <2>2 DEF Fits, RunFits, OfStep, Births, Ready
  <2>5. SameCalls(h, Emit(h, e))
    BY <2>2, EmitParts DEF SameCalls, Sane
  <2> QED
    BY <2>2, <2>3, <2>4, <2>5, EmitSane, EmitReady
<1> QED
  BY <1>1, <1>2, <1>3 DEF Action

\* A round leaves the hand sane.
LEMMA RoundSane ==
  ASSUME NEW h, Sane(h)
  PROVE  Sane(Round(h)) /\ SameCalls(h, Round(h))
<1> DEFINE s == NextActions(h.f)
           n == Len(s)
<1>1. h.f \in Forest /\ Good(h.f)
  BY DEF Sane, Hands
<1>2. /\ s \in Seq(Action)
      /\ \A i, j \in 1..n : i # j => Apart(s[i], s[j])
      /\ \A i \in 1..n : /\ s[i].t \in {"StartStep", "Finish", "Fail"} =>
                              ~IsGone(h.f.runs[s[i].id]) /\ Idle(h.f.runs[s[i].id])
                         /\ s[i].t = "Deliver" => ~Settled(h.f, s[i].id)
  BY <1>1, NextActionsAre
<1>3. Round(h) = PerformAll(h, s)
  BY DEF Round, PerformAll
<1> HIDE DEF s
<1>4. n \in Nat /\ \A i \in 1..n : s[i] \in Action
  BY <1>2
<1>5. ASSUME NEW i \in 1..n
      PROVE  Ready(h, s[i])
  <2>1. CASE s[i].t = "Deliver"
    <3>1. s[i].id \in Children
      BY <1>4, <2>1 DEF Action, Delivery, Starting, Ending
    <3>2. ~Settled(h.f, s[i].id)
      BY <1>2, <2>1
    <3>3. ~Gone(forest, s[i].id)
      BY <3>1, <3>2 DEF Sane, Settled
    <3>4. ~again /\ Marked(heard, forest) => s[i].id \notin h.heard
      BY <3>2 DEF Sane, Marked
    <3> QED
      BY <2>1, <3>3, <3>4 DEF Ready
  <2>2. CASE s[i].t # "Deliver"
    BY <1>2, <2>2 DEF Ready
  <2> QED
    BY <2>1, <2>2
<1> HIDE DEF n
<1>6. PICK r : /\ r[0] = h
               /\ \A k \in 1..n : r[k] = Perform(r[k - 1], s[k])
               /\ r[n] = PerformAll(h, s)
  BY <1>2, PerformFold DEF n
<1> DEFINE G == {k \in 0..n : Sane(r[k]) /\ SameCalls(h, r[k]) /\ \A i \in (k + 1)..n : Ready(r[k], s[i])}
<1>7. 0 \in G
  BY <1>4, <1>5, <1>6 DEF SameCalls
<1>8. ASSUME NEW k \in 0..(n - 1), k \in G
      PROVE  k + 1 \in G
  <2>1. k + 1 \in 1..n /\ k + 1 \in 0..n /\ (k + 1) - 1 = k /\ k + 1 \in (k + 1)..n
    BY <1>4
  <2>2. r[k + 1] = Perform(r[k], s[k + 1])
    BY <1>6, <2>1
  <2>3. Sane(r[k]) /\ SameCalls(h, r[k]) /\ \A i \in (k + 1)..n : Ready(r[k], s[i])
    BY <1>8
  <2>4. s[k + 1] \in Action /\ Ready(r[k], s[k + 1])
    BY <1>4, <2>1, <2>3
  <2>5. /\ Sane(r[k + 1]) /\ SameCalls(r[k], r[k + 1])
        /\ \A d \in Action : Ready(r[k], d) /\ Apart(s[k + 1], d) => Ready(r[k + 1], d)
    BY <2>2, <2>3, <2>4, PerformSane
  <2>6. ASSUME NEW i \in (k + 1 + 1)..n
        PROVE  Ready(r[k + 1], s[i])
    <3>1. i \in 1..n /\ i # k + 1 /\ i \in (k + 1)..n
      BY <1>4, <2>1
    <3>2. s[i] \in Action /\ Ready(r[k], s[i]) /\ Apart(s[k + 1], s[i])
      BY <1>2, <1>4, <2>1, <2>3, <3>1 DEF n
    <3> QED
      BY <2>5, <3>2
  <2>7. SameCalls(h, r[k + 1])
    BY <2>3, <2>5 DEF SameCalls
  <2> QED
    BY <2>1, <2>5, <2>6, <2>7
<1>9. \A k \in 0..n : k \in G
  <2> HIDE DEF G
  <2> QED
    BY <1>4, <1>7, <1>8, Induction
<1>10. n \in G
  BY <1>4, <1>9
<1> QED
  BY <1>3, <1>6, <1>10

\* Reconciling leaves the hand sane, whatever the number of rounds.
LEMMA FlushSane ==
  ASSUME NEW h, Sane(h)
  PROVE  Sane(FlushThenDrain(h)) /\ SameCalls(h, FlushThenDrain(h))
<1> DEFINE s == [n \in 1..Rounds |-> n]
           n == Len(s)
<1>1. s \in Seq(Nat)
  BY DEF Rounds
<1>2. FlushThenDrain(h) = RoundAll(h, s)
  BY DEF FlushThenDrain, RoundAll
<1> HIDE DEF s
<1>3. n \in Nat
  BY <1>1
<1> HIDE DEF n
<1>4. PICK r : /\ r[0] = h
               /\ \A k \in 1..n : r[k] = Round(r[k - 1])
               /\ r[n] = RoundAll(h, s)
  BY <1>1, RoundFold DEF n
<1> DEFINE G == {k \in 0..n : Sane(r[k]) /\ SameCalls(h, r[k])}
<1>5. 0 \in G
  BY <1>3, <1>4 DEF SameCalls
<1>6. ASSUME NEW k \in 0..(n - 1), k \in G
      PROVE  k + 1 \in G
  <2>1. k + 1 \in 1..n /\ k + 1 \in 0..n /\ (k + 1) - 1 = k
    BY <1>3
  <2>2. r[k + 1] = Round(r[k]) /\ Sane(r[k]) /\ SameCalls(h, r[k])
    BY <1>4, <1>6, <2>1
  <2>3. Sane(r[k + 1]) /\ SameCalls(r[k], r[k + 1])
    BY <2>2, RoundSane
  <2> QED
    BY <2>1, <2>2, <2>3 DEF SameCalls
<1>7. \A k \in 0..n : k \in G
  <2> HIDE DEF G
  <2> QED
    BY <1>3, <1>5, <1>6, Induction
<1>8. n \in G
  BY <1>3, <1>7
<1> QED
  BY <1>2, <1>4, <1>8

\* So does a boundary, when the events that make it fit.
LEMMA AdvanceSane ==
  ASSUME NEW h, Sane(h), NEW s \in Seq(Event),
         \A i \in 1..Len(s) : Plain(s[i]) /\ Fits(h.f, s[i])
  PROVE  Sane(Advance(h, s))
<1>1. Sane(EmitAll(h, s))
  BY EmitAllSane
<1>2. Advance(h, s) = FlushThenDrain(EmitAll(h, s))
  BY DEF Advance, EmitAll
<1> QED
  BY <1>1, <1>2, FlushSane

-----------------------------------------------------------------------------
(* What the handlers build up *)

\* What a handler finds.
Sound == /\ forest \in Forest /\ Good(forest) /\ Rooted(forest)
         /\ agents \in Agents
         /\ heard \in SUBSET Children /\ again \in BOOLEAN

\* A handler begins with a sane hand.
LEMMA HandSane ==
  ASSUME Sound
  PROVE  /\ Sane(Hand(forest))
         /\ Hand(forest).f = forest /\ Hand(forest).ag = agents /\ Hand(forest).heard = heard
<1> DEFINE h == Hand(forest)
<1>1. /\ h.f = forest /\ h.ev = <<>> /\ h.ag = agents /\ h.heard = heard /\ h.again = again
      /\ h \in Hands
  BY DEF Hand, Hands, Sound
<1> HIDE DEF h
<1>2. h.f = Journal(forest, h.ev)
  BY <1>1, ApplyNone
<1> QED
  BY <1>1, <1>2 DEF Sane, Sound, h

\* Tells that change no call but to end it leave the hand sane.
LEMMA RetellSane ==
  ASSUME NEW h, Sane(h), NEW ag \in Agents,
         \A a \in AgentIds : ag[a].call \in {h.ag[a].call, NoAgent}
  PROVE  /\ Sane([h EXCEPT !.ag = ag])
         /\ [h EXCEPT !.ag = ag].f = h.f /\ [h EXCEPT !.ag = ag].ag = ag
<1> DEFINE g == [h EXCEPT !.ag = ag]
<1>1. h \in Hands
  BY DEF Sane
<1>2. /\ g \in Hands /\ g.f = h.f /\ g.ev = h.ev /\ g.ag = ag /\ g.heard = h.heard
      /\ g.again = h.again
  BY <1>1 DEF Hands
<1> HIDE DEF g
<1>3. \A a \in AgentIds : g.ag[a].call \in {agents[a].call, NoAgent}
  BY <1>2 DEF Sane
<1> QED
  BY <1>2, <1>3 DEF Sane, g

\* A reply ends the calls it answers; a cancel ends the agent's.
LEMMA ReleasedTypes ==
  ASSUME NEW ag \in Agents, NEW c
  PROVE  /\ Released(ag, c) \in Agents
         /\ \A a \in AgentIds : /\ Released(ag, c)[a].call \in {ag[a].call, NoAgent}
                                /\ Released(ag, c)[a].call = c => c = NoAgent
BY DEF Agents, AgentRec, Released

\* A cancellation of an agent, which at most ends the call it waits in.
LEMMA CancelTypes ==
  ASSUME NEW ag \in Agents, NEW a
  PROVE  /\ Cancel(ag, a) \in Agents
         /\ \A b \in AgentIds : Cancel(ag, a)[b].call \in {ag[b].call, NoAgent}
BY DEF Agents, AgentRec, Cancel

\* The plain events that fit a forest.
Fitting(f) == {e \in Event : Plain(e) /\ Fits(f, e)}

\* A set of them, one for each child at most, as a sequence.
LEMMA FittingSeq ==
  ASSUME NEW f, NEW S, S \subseteq Fitting(f), \A x, y \in S : x.id = y.id => x = y
  PROVE  SetToSeq(S) \in Seq(Fitting(f))
<1>1. \A x \in S : x.id \in Children
  BY EventKinds DEF Fitting, Children
<1>2. SetToSeq(S) \in Seq(S)
  BY <1>1, FiniteById, SequenceOf
<1> HIDE DEF Fitting
<1> QED
  BY <1>2

\* Events that fit the forest, emitted one after the other or by the driver.
LEMMA EmitFitting ==
  ASSUME NEW h, Sane(h), NEW s \in Seq(Fitting(h.f))
  PROVE  /\ Sane(EmitAll(h, s)) /\ Kept(h.f, EmitAll(h, s).f)
         /\ Sane(Advance(h, s))
<1>1. \A i \in 1..Len(s) : s[i] \in Fitting(h.f)
  OBVIOUS
<1>2. s \in Seq(Event)
  <2>1. Fitting(h.f) \subseteq Event
    BY DEF Fitting
  <2> HIDE DEF Fitting
  <2> QED
    BY <2>1
<1>3. \A i \in 1..Len(s) : Plain(s[i]) /\ Fits(h.f, s[i])
  BY <1>1 DEF Fitting
<1> QED
  BY <1>2, <1>3, EmitAllSane, AdvanceSane

\* One of them.
LEMMA AdvanceOne ==
  ASSUME NEW h, Sane(h), NEW e \in Fitting(h.f)
  PROVE  Sane(Advance(h, <<e>>)) /\ Sane(Emit(h, e))
<1>1. <<e>> \in Seq(Fitting(h.f))
  <2> HIDE DEF Fitting
  <2> QED
    OBVIOUS
<1>2. e \in Event /\ Fits(h.f, e) /\ e.t \notin Births
  BY DEF Fitting, Plain
<1> QED
  BY <1>1, <1>2, EmitFitting, EmitSane

\* The events about subagents, and the ends of runs, that fit any forest they are in.
LEMMA FittingEvents ==
  ASSUME NEW f \in Forest, Good(f)
  PROVE  /\ \A s \in SubIds, t \in {"SubAgentRunning", "SubAgentCompleted", "SubAgentFailed"} :
              [t |-> t, id |-> s] \in Fitting(f)
         /\ \A r \in RunIds : ~IsGone(f.runs[r]) =>
              /\ [t |-> "RunFailed", id |-> r] \in Fitting(f)
              /\ [t |-> "AskRecorded", id |-> r] \in Fitting(f)
         /\ \A r \in RunIds : \A k \in DOMAIN f.runs[r].steps :
              /\ ~IsGone(f.runs[r])
              /\ \A t \in {"StepFailed", "StepCancelled"} :
                   [t |-> t, id |-> r, index |-> k] \in Fitting(f)
              /\ \A out \in Outs :
                   [t |-> "StepConcluded", id |-> r, index |-> k, out |-> out] \in Fitting(f)
<1>1. ASSUME NEW s \in SubIds, NEW t \in {"SubAgentRunning", "SubAgentCompleted", "SubAgentFailed"}
      PROVE  [t |-> t, id |-> s] \in Fitting(f)
  <2> DEFINE e == [t |-> t, id |-> s]
  <2>1. e \in SubEvent /\ e.t = t /\ e.id = s
    BY DEF SubEvent
  <2> HIDE DEF e
  <2>2. Plain(e) /\ Fits(f, e)
    BY <2>1, IdFacts DEF Plain, Births, Fits
  <2>3. e \in Event
    BY <2>1 DEF Event
  <2> QED
    BY <2>2, <2>3 DEF Fitting, e
<1>2. ASSUME NEW r \in RunIds, ~IsGone(f.runs[r]), NEW t \in {"RunFailed", "AskRecorded"}
      PROVE  [t |-> t, id |-> r] \in Fitting(f)
  <2> DEFINE e == [t |-> t, id |-> r]
  <2>1. e \in RunEvent /\ e.t = t /\ e.id = r
    BY DEF RunEvent
  <2> HIDE DEF e
  <2>2. Plain(e) /\ Fits(f, e)
    BY <1>2, <2>1 DEF Plain, Births, Fits, RunFits, OfStep
  <2>3. e \in Event
    BY <2>1 DEF Event
  <2> QED
    BY <2>2, <2>3 DEF Fitting, e
<1>3. ASSUME NEW r \in RunIds, NEW k \in DOMAIN f.runs[r].steps
      PROVE  k \in Nat /\ ~IsGone(f.runs[r])
  <2>1. f.runs[r] \in RunRec /\ GoodRun(r, f.runs[r])
    BY DEF Forest, Good
  <2>2. f.runs[r].steps \in Seq(StepRec)
    BY <2>1 DEF RunRec
  <2> QED
    BY <2>1, <2>2 DEF GoodRun
<1>4. ASSUME NEW r \in RunIds, NEW k \in DOMAIN f.runs[r].steps, NEW t \in {"StepFailed", "StepCancelled"}
      PROVE  [t |-> t, id |-> r, index |-> k] \in Fitting(f)
  <2> DEFINE e == [t |-> t, id |-> r, index |-> k]
  <2>1. e \in EndedStep /\ e.t = t /\ e.id = r /\ e.index = k
    BY <1>3 DEF EndedStep
  <2> HIDE DEF e
  <2>2. Plain(e) /\ Fits(f, e)
    BY <1>3, <2>1 DEF Plain, Births, Fits, RunFits
  <2>3. e \in Event
    BY <2>1 DEF Event
  <2> QED
    BY <2>2, <2>3 DEF Fitting, e
<1>5. ASSUME NEW r \in RunIds, NEW k \in DOMAIN f.runs[r].steps, NEW out \in Outs
      PROVE  [t |-> "StepConcluded", id |-> r, index |-> k, out |-> out] \in Fitting(f)
  <2> DEFINE e == [t |-> "StepConcluded", id |-> r, index |-> k, out |-> out]
  <2>1. e \in ConcludedStep /\ e.t = "StepConcluded" /\ e.id = r /\ e.index = k
    BY <1>3 DEF ConcludedStep
  <2> HIDE DEF e
  <2>2. Plain(e) /\ Fits(f, e)
    BY <1>3, <2>1 DEF Plain, Births, Fits, RunFits
  <2>3. e \in Event
    BY <2>1 DEF Event
  <2> QED
    BY <2>2, <2>3 DEF Fitting, e
<1> QED
  BY <1>1, <1>2, <1>3, <1>4, <1>5

\* Cancelling what runs below an agent starts nothing and leaves the hand sane.
LEMMA CancelSane ==
  ASSUME NEW h, Sane(h), NEW of
  PROVE  Sane(CancelDescendants(h, of)) /\ Kept(h.f, CancelDescendants(h, of).f)
<1> DEFINE below  == DescendantEntries(h.f, of)
           subs   == {s \in below \intersect SubIds : h.f.subs[s].status = "Running"}
           runs   == {r \in below \intersect RunIds : h.f.runs[r].status \notin Terminal}
           flying == {r \in runs : Current(h.f.runs[r]) # 0}
           step(r) == StepOf(r, Current(h.f.runs[r]))
           victims == subs \union {step(r) : r \in flying}
           ag == [a \in AgentIds |-> IF a \in victims THEN Cancel(h.ag, a)[a] ELSE h.ag[a]]
           calm == [h EXCEPT !.ag = ag]
           S1 == {[t |-> "SubAgentFailed", id |-> s] : s \in subs}
           S2 == {[t |-> "StepCancelled", id |-> r, index |-> step(r)[3]] : r \in flying}
           S3 == {[t |-> "RunFailed", id |-> r] : r \in runs}
           s == SetToSeq(S1) \o SetToSeq(S2) \o SetToSeq(S3)
<1>1. h.f \in Forest /\ Good(h.f) /\ h.ag \in Agents
  BY DEF Sane, Hands
<1>2. CancelDescendants(h, of) = EmitAll(calm, s)
  BY DEF CancelDescendants, EmitAll
<1>3. \A r \in runs : r \in RunIds /\ ~IsGone(h.f.runs[r])
  BY IdFacts DEF DescendantEntries, IsGone
<1>4. \A r \in flying : /\ r \in RunIds /\ step(r)[3] = Current(h.f.runs[r])
                        /\ Current(h.f.runs[r]) \in DOMAIN h.f.runs[r].steps
  <2> TAKE r \in flying
  <2>1. r \in RunIds /\ Current(h.f.runs[r]) # 0
    OBVIOUS
  <2>2. h.f.runs[r] \in RunRec /\ GoodRun(r, h.f.runs[r])
    BY <1>1, <2>1 DEF Forest, Good
  <2>3. Current(h.f.runs[r]) \in Flying(h.f.runs[r])
    BY <2>1, <2>2, CurrentIs
  <2> QED
    BY <2>1, <2>3 DEF Flying, StepOf
<1>5. S1 \subseteq Fitting(h.f) /\ \A x, y \in S1 : x.id = y.id => x = y
  <2>1. \A x \in subs : x \in SubIds
    OBVIOUS
  <2>2. \A x \in SubIds : [t |-> "SubAgentFailed", id |-> x] \in Fitting(h.f)
    BY <1>1, FittingEvents
  <2> HIDE DEF subs
  <2> QED
    BY <2>1, <2>2
<1>6. S2 \subseteq Fitting(h.f) /\ \A x, y \in S2 : x.id = y.id => x = y
  <2>1. \A r \in RunIds : \A k \in DOMAIN h.f.runs[r].steps :
          [t |-> "StepCancelled", id |-> r, index |-> k] \in Fitting(h.f)
    BY <1>1, FittingEvents
  <2> HIDE DEF flying, step
  <2>2. \A r \in flying : [t |-> "StepCancelled", id |-> r, index |-> step(r)[3]] \in Fitting(h.f)
    BY <1>4, <2>1
  <2> QED
    BY <2>2
<1>7. S3 \subseteq Fitting(h.f) /\ \A x, y \in S3 : x.id = y.id => x = y
  <2>1. \A r \in RunIds : ~IsGone(h.f.runs[r]) => [t |-> "RunFailed", id |-> r] \in Fitting(h.f)
    BY <1>1, FittingEvents
  <2> HIDE DEF runs
  <2>2. \A r \in runs : [t |-> "RunFailed", id |-> r] \in Fitting(h.f)
    BY <1>3, <2>1
  <2> QED
    BY <2>2
<1> HIDE DEF victims
<1>8. ag \in Agents /\ \A a \in AgentIds : ag[a].call \in {h.ag[a].call, NoAgent}
  <2>1. \A a \in AgentIds : /\ Cancel(h.ag, a)[a] \in AgentRec /\ h.ag[a] \in AgentRec
                            /\ Cancel(h.ag, a)[a].call \in {h.ag[a].call, NoAgent}
    BY <1>1, CancelTypes DEF Agents
  <2> QED
    BY <2>1 DEF Agents
<1> HIDE DEF ag, S1, S2, S3
<1>9. Sane(calm) /\ calm.f = h.f
  BY <1>8, RetellSane
<1>10. s \in Seq(Fitting(h.f))
  <2>1. /\ SetToSeq(S1) \in Seq(Fitting(h.f)) /\ SetToSeq(S2) \in Seq(Fitting(h.f))
        /\ SetToSeq(S3) \in Seq(Fitting(h.f))
    BY <1>5, <1>6, <1>7, FittingSeq
  <2> HIDE DEF Fitting
  <2> QED
    BY <2>1
<1> HIDE DEF calm, s
<1>11. Sane(EmitAll(calm, s)) /\ Kept(h.f, EmitAll(calm, s).f)
  BY <1>9, <1>10, EmitFitting
<1> QED
  BY <1>2, <1>11

-----------------------------------------------------------------------------
(* The inductive invariant *)

Asking    == [t : {"Spawn"}, from : AgentIds, id : SubIds]
               \union [t : {"Create"}, from : AgentIds, id : Invoked]
Finishing == [t : {"FinishSpawn"}, id : SubIds] \union [t : {"FinishCreate"}, id : Invoked]
Resuming  == [t : {"Started"}, from : SubIds]
Reporting ==
  [t : {"Outcome"}, from : {Main}, end : {"Concluded", "Failed", "Interrupted"}, out : Outs]
    \union [t : {"Outcome"}, from : SubIds, end : {"Concluded", "Failed", "Parked"}, out : Outs]
    \union [t : {"Outcome"}, from : StepIds, end : {"Concluded", "Failed", "Parked", "Asked"},
            out : Outs]
Repairing == [t : {"Reconcile", "ReconcileInterrupted", "Advance"}]

Cmd == Asking \union Finishing \union Resuming \union Reporting \union Repairing

Requests(cmd)   == cmd.t \in {"Spawn", "Create"}
Replies(cmd) == cmd.t \in {"Spawn", "FinishSpawn", "Create", "FinishCreate"}

\* What the forest will be when the events at hand are persisted.
Ahead == Journal(forest, staged)

\* An id that was given out.
Given(c) == c[2] <= IF c \in SubIds THEN fresh.subs ELSE fresh.runs

Types ==
  /\ Sound
  /\ staged \in Seq(Event) /\ mail \in Seq(Cmd)
  /\ Ahead \in Forest /\ Good(Ahead) /\ Rooted(Ahead)
  /\ loaded \in BOOLEAN
  /\ fresh \in [subs : Nat, runs : Nat]
  /\ spent \in [turns : Nat, number : Nat, kinds : SUBSET Interventions]
  /\ ~loaded => staged = <<>> /\ mail = <<>>

\* Whatever is there, or was reported, has an id that was given out.
IdsGiven ==
  \A c \in Children :
    ~Gone(forest, c) \/ ~Gone(Ahead, c) \/ c \in heard => Given(c)

\* What an agent still asks for is not there, was never reported, and is asked for once.
Wanted(c) == \E i \in DOMAIN mail : Requests(mail[i]) /\ mail[i].id = c

AskedFor ==
  /\ \A c \in Children : Wanted(c) =>
       Given(c) /\ c \notin heard /\ Gone(forest, c) /\ Gone(Ahead, c)
  /\ \A i, j \in DOMAIN mail :
       Requests(mail[i]) /\ Requests(mail[j]) /\ mail[i].id = mail[j].id => i = j

\* Without a crash the marks and the results sent agree.
Agreed == "crash" \notin spent.kinds => ~again /\ Marked(heard, Ahead)

IInv == Types /\ IdsGiven /\ AskedFor /\ Agreed /\ CallAnswered

\* A request names the child it asks for.
LEMMA RequestIds ==
  ASSUME NEW cmd \in Cmd, Requests(cmd)
  PROVE  cmd \in Asking /\ cmd.id \in Children
<1>1. cmd \in Asking
  BY DEF Cmd, Finishing, Resuming, Reporting, Repairing, Requests
<1> QED
  BY <1>1 DEF Asking, Children, Invoked

\* A handler that brings no child into being, and whose replies end the calls, keeps it.
LEMMA FinishKeeps ==
  ASSUME IInv, staged = <<>>, loaded,
         NEW h, Sane(h), Finish(h),
         NEW d \in {0, 1}, mail' \in Seq(Cmd),
         \A i \in DOMAIN mail' : i + d \in DOMAIN mail /\ mail'[i] = mail[i + d],
         \A a \in AgentIds : h.ag[a].call # NoAgent =>
           \E i \in DOMAIN mail' : Replies(mail'[i]) /\ mail'[i].id = h.ag[a].call,
         spent.kinds \subseteq spent'.kinds,
         spent' \in [turns : Nat, number : Nat, kinds : SUBSET Interventions]
  PROVE  IInv'
<1>1. /\ forest' = forest /\ staged' = h.ev /\ agents' = h.ag /\ heard' = h.heard
      /\ again' = h.again /\ loaded' = loaded /\ fresh' = fresh
  BY DEF Finish
<1>2. /\ Sound /\ IdsGiven /\ AskedFor /\ Agreed /\ fresh \in [subs : Nat, runs : Nat]
      /\ mail \in Seq(Cmd)
  BY DEF IInv, Types
<1>3. Ahead = forest
  BY ApplyNone DEF Ahead
<1>4. /\ h.f \in Forest /\ Good(h.f) /\ Rooted(h.f) /\ h.ev \in Seq(Event) /\ h.ag \in Agents
      /\ h.heard \in SUBSET Children /\ h.again \in BOOLEAN
      /\ h.f = Journal(forest, h.ev)
      /\ \A c \in Children : Gone(forest, c) => Gone(h.f, c)
      /\ \A c \in h.heard : c \in heard \/ ~Gone(forest, c)
      /\ ~again /\ Marked(heard, forest) => ~h.again /\ Marked(h.heard, h.f)
  BY DEF Sane, Hands
<1>5. Ahead' = h.f
  BY <1>1, <1>4 DEF Ahead
<1>6. Types'
  BY <1>1, <1>2, <1>4, <1>5 DEF Types, Sound
<1>7. IdsGiven'
  <2>1. \A c \in Children : ~Gone(forest, c) \/ c \in heard => Given(c)
    BY <1>2 DEF IdsGiven
  <2>2. \A c \in Children : Given(c)' <=> Given(c)
    BY <1>1 DEF Given
  <2>3. \A c \in Children : ~Gone(forest, c) \/ ~Gone(h.f, c) \/ c \in h.heard => Given(c)
    BY <1>4, <2>1
  <2>4. \A c \in Children : (Gone(forest, c)' <=> Gone(forest, c)) /\ (Gone(Ahead, c)' <=> Gone(h.f, c))
    BY <1>1, <1>5 DEF Gone
  <2> QED
    BY <1>1, <2>2, <2>3, <2>4 DEF IdsGiven
<1>8. AskedFor'
  <2>1. ASSUME NEW c \in Children, Wanted(c)'
        PROVE  Given(c)' /\ c \notin heard' /\ Gone(forest, c)' /\ Gone(Ahead, c)'
    <3>1. Wanted(c)
      BY <2>1 DEF Wanted, Requests
    <3>2. Given(c) /\ c \notin heard /\ Gone(forest, c)
      BY <1>2, <3>1 DEF AskedFor
    <3>3. Given(c)' /\ c \notin h.heard /\ Gone(h.f, c)
      BY <1>1, <1>4, <3>2 DEF Given
    <3> QED
      BY <1>1, <1>5, <3>2, <3>3 DEF Gone
  <2>2. ASSUME NEW i \in DOMAIN mail', NEW j \in DOMAIN mail',
               Requests(mail'[i]), Requests(mail'[j]), mail'[i].id = mail'[j].id
        PROVE  i = j
    <3>1. i + d \in DOMAIN mail /\ mail'[i] = mail[i + d] /\ j + d \in DOMAIN mail /\ mail'[j] = mail[j + d]
      OBVIOUS
    <3>2. i + d = j + d
      BY <1>2, <2>2, <3>1 DEF AskedFor
    <3>3. i \in Nat /\ j \in Nat
      OBVIOUS
    <3> QED
      BY <3>2, <3>3
  <2> QED
    BY <2>1, <2>2 DEF AskedFor, Requests
<1>9. Agreed'
  BY <1>1, <1>2, <1>3, <1>4, <1>5 DEF Agreed, Marked, Settled, Gone, Noted
<1>10. CallAnswered'
  BY <1>1 DEF CallAnswered, Replies
<1> QED
  BY <1>6, <1>7, <1>8, <1>9, <1>10 DEF IInv

\* An accepted spawn or invocation: its child is new, and the reply is still to come.
LEMMA BirthKeeps ==
  ASSUME IInv, staged = <<>>, loaded, mail # <<>>,
         NEW cmd, cmd = Head(mail), Requests(cmd),
         NEW e \in Event, e.t \in Births, e.id = cmd.id, Fits(forest, e), Rooted(Apply(forest, e)),
         NEW reply \in Finishing, reply.id = cmd.id,
         Finish(Emit(Hand(forest), e)), mail' = Append(Tail(mail), reply),
         UNCHANGED spent
  PROVE  IInv'
<1>2. /\ Sound /\ IdsGiven /\ AskedFor /\ Agreed /\ fresh \in [subs : Nat, runs : Nat]
      /\ mail \in Seq(Cmd) /\ CallAnswered /\ forest \in Forest /\ Good(forest)
      /\ heard \in SUBSET Children /\ agents \in Agents
  BY DEF IInv, Types, Sound
<1>3. Ahead = forest
  BY ApplyNone DEF Ahead
<1>4. Sane(Hand(forest)) /\ Hand(forest).f = forest /\ Hand(forest).ag = agents /\ Hand(forest).heard = heard
  BY <1>2, HandSane
<1> DEFINE f == Apply(forest, e)
<1>5. f \in Forest /\ Good(f) /\ Rooted(f)
  BY <1>2, ApplyGood
<1>6. Hand(forest).again = again /\ Hand(forest).ev = <<>>
  BY DEF Hand
<1>7. Ends(e) = {} /\ Born(e) = {cmd.id} /\ Append(<<>>, e) = <<e>> /\ <<e>> \in Seq(Event)
  BY DEF Ends, Born, Births
<1>8. /\ forest' = forest /\ staged' = <<e>> /\ agents' = agents /\ heard' = heard
      /\ again' = again /\ loaded' = loaded /\ fresh' = fresh
  <2>1. Hand(forest) \in Hands
    BY <1>4 DEF Sane
  <2>2. /\ Emit(Hand(forest), e).ev = Append(<<>>, e) /\ Emit(Hand(forest), e).ag = agents
        /\ Emit(Hand(forest), e).heard = heard /\ Emit(Hand(forest), e).again = again
    BY <1>4, <1>6, <1>7, <2>1, EmitParts
  <2> QED
    BY <1>7, <2>2 DEF Finish
<1>9. Journal(forest, <<e>>) = f
  <2>1. <<>> \in Seq(Event)
    OBVIOUS
  <2>2. Journal(forest, Append(<<>>, e)) = Apply(Journal(forest, <<>>), e)
    BY <2>1, ApplyAppend
  <2>3. Journal(forest, <<>>) = forest
    BY ApplyNone
  <2> QED
    BY <1>7, <2>2, <2>3
<1>10. Ahead' = f
  BY <1>8, <1>9 DEF Ahead
<1>11. \A c \in Children : /\ Gone(forest, c) /\ c # cmd.id => Gone(f, c)
                           /\ Settled(forest, c) /\ c # cmd.id => Settled(f, c)
  BY <1>2, <1>7, ApplyChildren
<1> HIDE DEF f
<1>12. /\ Head(mail) = mail[1] /\ 1 \in DOMAIN mail
       /\ cmd \in Cmd /\ cmd.id \in Children /\ Given(cmd.id) /\ cmd.id \notin heard
  <2>1. Head(mail) = mail[1] /\ 1 \in DOMAIN mail /\ cmd \in Cmd
    BY <1>2
  <2>2. cmd.id \in Children
    BY <2>1, RequestIds
  <2>3. Wanted(cmd.id)
    BY <2>1 DEF Wanted
  <2> QED
    BY <1>2, <2>1, <2>2, <2>3 DEF AskedFor
<1>13. /\ mail' \in Seq(Cmd)
       /\ \A i \in DOMAIN mail' : \/ /\ i + 1 \in DOMAIN mail /\ mail'[i] = mail[i + 1] /\ i + 1 # 1
                                  \/ mail'[i] = reply
       /\ \A i \in DOMAIN mail : i # 1 => i - 1 \in DOMAIN mail' /\ mail'[i - 1] = mail[i]
       /\ \E i \in DOMAIN mail' : mail'[i] = reply
  <2>1. reply \in Cmd
    BY DEF Cmd
  <2>2. Tail(mail) \in Seq(Cmd) /\ Len(Tail(mail)) = Len(mail) - 1 /\ Len(mail) \in Nat
        /\ \A i \in 1..(Len(mail) - 1) : Tail(mail)[i] = mail[i + 1]
    BY <1>2
  <2> DEFINE t == Tail(mail)
  <2> HIDE DEF t
  <2>3. /\ mail' \in Seq(Cmd) /\ Len(mail') = Len(mail)
        /\ \A i \in 1..(Len(mail) - 1) : mail'[i] = mail[i + 1]
        /\ mail'[Len(mail)] = reply
    BY <2>1, <2>2
  <2>4. Len(mail) >= 1
    BY <1>2
  <2> QED
    BY <1>2, <2>2, <2>3, <2>4
<1>14. Types'
  BY <1>2, <1>5, <1>7, <1>8, <1>10, <1>13 DEF Types, Sound, IInv
<1>15. IdsGiven'
  <2>1. \A c \in Children : ~Gone(forest, c) \/ c \in heard => Given(c)
    BY <1>2 DEF IdsGiven
  <2>2. \A c \in Children : Given(c)' <=> Given(c)
    BY <1>8 DEF Given
  <2>3. \A c \in Children : ~Gone(forest, c) \/ ~Gone(f, c) \/ c \in heard => Given(c)
    BY <1>11, <1>12, <2>1
  <2>4. \A c \in Children : (Gone(forest, c)' <=> Gone(forest, c)) /\ (Gone(Ahead, c)' <=> Gone(f, c))
    BY <1>8, <1>10 DEF Gone
  <2> QED
    BY <1>8, <2>2, <2>3, <2>4 DEF IdsGiven
<1>16. AskedFor'
  <2>1. ~Requests(reply)
    BY DEF Finishing, Requests
  <2>2. ASSUME NEW c \in Children, Wanted(c)'
        PROVE  Given(c)' /\ c \notin heard' /\ Gone(forest, c)' /\ Gone(Ahead, c)'
    <3>1. PICK i \in DOMAIN mail' : Requests(mail'[i]) /\ mail'[i].id = c
      BY <2>2 DEF Wanted, Requests
    <3>2. i + 1 \in DOMAIN mail /\ mail'[i] = mail[i + 1] /\ i + 1 # 1
      BY <1>13, <2>1, <3>1
    <3>3. Wanted(c)
      BY <3>1, <3>2 DEF Wanted
    <3>4. Given(c) /\ c \notin heard /\ Gone(forest, c)
      BY <1>2, <3>3 DEF AskedFor
    <3>5. c # cmd.id
      BY <1>2, <1>12, <3>1, <3>2 DEF AskedFor
    <3>6. Given(c)' /\ Gone(f, c)
      BY <1>8, <1>11, <3>4, <3>5 DEF Given
    <3> QED
      BY <1>8, <1>10, <3>4, <3>6 DEF Gone
  <2>4. ASSUME NEW i \in DOMAIN mail', NEW j \in DOMAIN mail',
               Requests(mail'[i]), Requests(mail'[j]), mail'[i].id = mail'[j].id
        PROVE  i = j
    <3>1. i + 1 \in DOMAIN mail /\ mail'[i] = mail[i + 1] /\ j + 1 \in DOMAIN mail /\ mail'[j] = mail[j + 1]
      BY <1>13, <2>1, <2>4
    <3>2. i + 1 = j + 1
      BY <1>2, <2>4, <3>1 DEF AskedFor
    <3>3. i \in Nat /\ j \in Nat
      BY <1>13
    <3> QED
      BY <3>2, <3>3
  <2> QED
    BY <2>2, <2>4 DEF AskedFor, Requests
<1>17. Agreed'
  <2>1. spent' = spent
    OBVIOUS
  <2>2. Marked(heard, forest) => Marked(heard, f)
    BY <1>2, <1>11, <1>12 DEF Marked
  <2>3. Marked(heard, Ahead)' <=> Marked(heard, f)
    BY <1>8, <1>10 DEF Marked, Settled, Gone, Noted
  <2> QED
    BY <1>2, <1>3, <1>8, <2>1, <2>2, <2>3 DEF Agreed
<1>18. CallAnswered'
  <2> SUFFICES ASSUME NEW a \in AgentIds, agents[a].call # NoAgent
               PROVE  \E i \in DOMAIN mail' : Replies(mail'[i]) /\ mail'[i].id = agents[a].call
    BY <1>8 DEF CallAnswered, Replies
  <2>1. PICK i \in DOMAIN mail : Replies(mail[i]) /\ mail[i].id = agents[a].call
    BY <1>2 DEF CallAnswered, Replies
  <2>2. CASE i = 1
    <3>1. Replies(reply) /\ reply.id = agents[a].call
      BY <1>12, <2>1, <2>2 DEF Finishing, Replies
    <3> QED
      BY <1>13, <3>1
  <2>3. CASE i # 1
    BY <1>13, <2>1, <2>3
  <2> QED
    BY <2>2, <2>3
<1> QED
  BY <1>14, <1>15, <1>16, <1>17, <1>18 DEF IInv

\* A command is handled: what is left of the mailbox still answers the calls that are left.
LEMMA TailKeeps ==
  ASSUME IInv, Serving, mail # <<>>, NEW cmd, cmd = Head(mail),
         NEW h, Sane(h), Finish(h), mail' = Tail(mail), UNCHANGED spent,
         Replies(cmd) => \A a \in AgentIds : h.ag[a].call # cmd.id
  PROVE  IInv'
<1>1. /\ mail \in Seq(Cmd) /\ CallAnswered /\ staged = <<>> /\ loaded
      /\ spent \in [turns : Nat, number : Nat, kinds : SUBSET Interventions]
  BY DEF IInv, Types, Serving
<1>2. /\ mail' \in Seq(Cmd) /\ Head(mail) = mail[1]
      /\ \A i \in DOMAIN mail' : i + 1 \in DOMAIN mail /\ mail'[i] = mail[i + 1]
      /\ \A i \in DOMAIN mail : i # 1 => i - 1 \in DOMAIN mail' /\ mail'[i - 1] = mail[i]
  BY <1>1
<1>3. ASSUME NEW a \in AgentIds, h.ag[a].call # NoAgent
      PROVE  \E i \in DOMAIN mail' : Replies(mail'[i]) /\ mail'[i].id = h.ag[a].call
  <2>1. agents[a].call = h.ag[a].call
    BY <1>3 DEF Sane
  <2>2. PICK i \in DOMAIN mail : Replies(mail[i]) /\ mail[i].id = agents[a].call
    BY <1>1, <1>3, <2>1 DEF CallAnswered, Replies
  <2>3. i # 1
    BY <1>2, <2>1, <2>2
  <2> QED
    BY <1>2, <2>1, <2>2, <2>3
<1>4. spent' = spent
  OBVIOUS
<1> QED
  BY <1>1, <1>2, <1>3, <1>4, FinishKeeps

\* An intervention counts.
LEMMA SpentGrows ==
  ASSUME spent \in [turns : Nat, number : Nat, kinds : SUBSET Interventions],
         NEW what, Intervene(what)
  PROVE  /\ spent.kinds \subseteq spent'.kinds /\ what \in spent'.kinds
         /\ spent' \in [turns : Nat, number : Nat, kinds : SUBSET Interventions]
<1> DEFINE kinds == spent.kinds \union {what}
           number == spent.number + 1
<1>1. spent' = [spent EXCEPT !.number = number, !.kinds = kinds] /\ what \in Interventions
  BY DEF Intervene
<1>2. number \in Nat /\ kinds \in SUBSET Interventions
  BY <1>1
<1>3. spent.kinds \subseteq kinds /\ what \in kinds
  OBVIOUS
<1> HIDE DEF number, kinds
<1> QED
  BY <1>1, <1>2, <1>3

\* An intervention is handled: the mailbox stays.
LEMMA StillKeeps ==
  ASSUME IInv, Serving, NEW h, Sane(h), Finish(h), UNCHANGED mail,
         NEW what, Intervene(what)
  PROVE  IInv'
<1>1. /\ mail \in Seq(Cmd) /\ CallAnswered /\ staged = <<>> /\ loaded
      /\ spent \in [turns : Nat, number : Nat, kinds : SUBSET Interventions]
  BY DEF IInv, Types, Serving
<1>2. /\ mail' = mail /\ \A i \in DOMAIN mail : i + 0 = i
  BY <1>1
<1>3. \A a \in AgentIds : h.ag[a].call # NoAgent =>
        \E i \in DOMAIN mail' : Replies(mail'[i]) /\ mail'[i].id = h.ag[a].call
  BY <1>1, <1>2 DEF CallAnswered, Replies, Sane
<1>4. /\ spent.kinds \subseteq spent'.kinds
      /\ spent' \in [turns : Nat, number : Nat, kinds : SUBSET Interventions]
  BY <1>1, SpentGrows
<1> QED
  BY <1>1, <1>2, <1>3, <1>4, FinishKeeps

\* A reply ends the calls that wait for it.
LEMMA ReplySane ==
  ASSUME NEW h, Sane(h), NEW c \in Children
  PROVE  /\ Sane(Reply(h, c))
         /\ \A a \in AgentIds : Reply(h, c).ag[a].call # c
<1>1. h.ag \in Agents
  BY DEF Sane, Hands
<1> DEFINE ag == Released(h.ag, c)
<1>2. /\ ag \in Agents
      /\ \A a \in AgentIds : ag[a].call \in {h.ag[a].call, NoAgent} /\ ag[a].call # c
  BY <1>1, ReleasedTypes, IdFacts
<1>3. Reply(h, c) = [h EXCEPT !.ag = ag]
  BY DEF Reply
<1> HIDE DEF ag
<1> QED
  BY <1>2, <1>3, RetellSane

\* A child that was asked for by an agent that may have one.
LEMMA NewRooted ==
  ASSUME IInv, mail # <<>>, NEW cmd, cmd = Head(mail), Requests(cmd),
         Known(forest, cmd.from), ~(DepthOf(forest, cmd.from) >= MaxDepth),
         NEW e \in Spawned \union Created, e.id = cmd.id, e.parent = cmd.from
  PROVE  Rooted(Apply(forest, e))
<1>1. /\ forest \in Forest /\ Good(forest) /\ Rooted(forest)
      /\ mail \in Seq(Cmd) /\ AskedFor
  BY DEF IInv, Types, Sound
<1>2. 1 \in DOMAIN mail /\ cmd = mail[1]
  BY <1>1
<1>3. cmd.id \in Children
  BY <1>1, <1>2, RequestIds
<1>4. Wanted(cmd.id)
  BY <1>2 DEF Wanted
<1>5. Gone(forest, cmd.id)
  BY <1>1, <1>3, <1>4 DEF AskedFor
<1>6. PICK f : f = forest
  OBVIOUS
<1> QED
  BY <1>1, <1>5, <1>6, BirthRooted

\* Spawn: refused at once, or accepted and answered when it is recorded.
LEMMA SpawnKeeps ==
  ASSUME IInv, Serving, mail # <<>>, NEW cmd, cmd = Head(mail), cmd.t = "Spawn", Spawn(cmd),
         UNCHANGED spent
  PROVE  IInv'
<1>1. Sound /\ staged = <<>> /\ loaded /\ mail \in Seq(Cmd)
  BY DEF IInv, Types, Serving
<1>2. cmd \in Cmd /\ Requests(cmd)
  BY <1>1 DEF Requests
<1>3. cmd.id \in SubIds /\ cmd.from \in AgentIds /\ cmd.id \in Children
  BY <1>2, RequestIds DEF Asking, Children
<1>4. CASE Finish(Reply(Hand(forest), cmd.id)) /\ mail' = Tail(mail)
  BY <1>1, <1>3, <1>4, HandSane, ReplySane, TailKeeps
<1>5. CASE /\ Known(forest, cmd.from) /\ ~(DepthOf(forest, cmd.from) >= MaxDepth)
           /\ Finish(Emit(Hand(forest), [t |-> "SubAgentSpawned", id |-> cmd.id, parent |-> cmd.from]))
           /\ mail' = Append(Tail(mail), [t |-> "FinishSpawn", id |-> cmd.id])
  <2> DEFINE e == [t |-> "SubAgentSpawned", id |-> cmd.id, parent |-> cmd.from]
             reply == [t |-> "FinishSpawn", id |-> cmd.id]
  <2>1. e \in Event /\ e.t = "SubAgentSpawned" /\ e.id = cmd.id /\ e \in Spawned /\ e.parent = cmd.from
    BY <1>3 DEF Event, Spawned
  <2>2. reply \in Finishing /\ reply.id = cmd.id
    BY <1>3 DEF Finishing
  <2>3. Finish(Emit(Hand(forest), e)) /\ mail' = Append(Tail(mail), reply)
    BY <1>5
  <2> HIDE DEF e, reply
  <2>4. Fits(forest, e) /\ e.t \in Births
    BY <1>3, <2>1, IdFacts DEF Fits, Births
  <2>5. Rooted(Apply(forest, e))
    BY <1>1, <1>2, <1>3, <1>5, <2>1, NewRooted
  <2> QED
    BY <1>1, <1>2, <2>1, <2>2, <2>3, <2>4, <2>5, BirthKeeps
<1> QED
  BY <1>4, <1>5 DEF Spawn

\* Create: as Spawn.
LEMMA CreateKeeps ==
  ASSUME IInv, Serving, mail # <<>>, NEW cmd, cmd = Head(mail), cmd.t = "Create", Create(cmd),
         UNCHANGED spent
  PROVE  IInv'
<1>1. Sound /\ staged = <<>> /\ loaded /\ mail \in Seq(Cmd)
  BY DEF IInv, Types, Serving
<1>2. cmd \in Cmd /\ Requests(cmd)
  BY <1>1 DEF Requests
<1>3. cmd.id \in Invoked /\ cmd.from \in AgentIds /\ cmd.id \in Children
  BY <1>2, RequestIds DEF Asking, Children
<1>4. CASE Finish(Reply(Hand(forest), cmd.id)) /\ mail' = Tail(mail)
  BY <1>1, <1>3, <1>4, HandSane, ReplySane, TailKeeps
<1>5. CASE /\ Known(forest, cmd.from) /\ ~(DepthOf(forest, cmd.from) >= MaxDepth)
           /\ Finish(Emit(Hand(forest), [t |-> "RunCreated", id |-> cmd.id, parent |-> cmd.from]))
           /\ mail' = Append(Tail(mail), [t |-> "FinishCreate", id |-> cmd.id])
  <2> DEFINE e == [t |-> "RunCreated", id |-> cmd.id, parent |-> cmd.from]
             reply == [t |-> "FinishCreate", id |-> cmd.id]
  <2>1. e \in Event /\ e.t = "RunCreated" /\ e.id = cmd.id /\ e \in Created /\ e.parent = cmd.from
    BY <1>3 DEF Event, Created
  <2>2. reply \in Finishing /\ reply.id = cmd.id
    BY <1>3 DEF Finishing
  <2>3. Finish(Emit(Hand(forest), e)) /\ mail' = Append(Tail(mail), reply)
    BY <1>5
  <2> HIDE DEF e, reply
  <2>4. Fits(forest, e) /\ e.t \in Births
    BY <2>1 DEF Fits, RunFits, OfRun, OfStep, Births
  <2>5. Rooted(Apply(forest, e))
    BY <1>1, <1>2, <1>3, <1>5, <2>1, NewRooted
  <2> QED
    BY <1>1, <1>2, <2>1, <2>2, <2>3, <2>4, <2>5, BirthKeeps
<1> QED
  BY <1>4, <1>5 DEF Create

\* The commands that finish them.
LEMMA FinishSpawnKeeps ==
  ASSUME IInv, Serving, mail # <<>>, NEW cmd, cmd = Head(mail), cmd.t = "FinishSpawn",
         FinishSpawn(cmd), UNCHANGED spent
  PROVE  IInv'
<1>1. Sound /\ mail \in Seq(Cmd) /\ agents \in Agents
  BY DEF IInv, Types, Sound
<1>2. cmd.id \in Children
  <2>1. cmd \in Cmd
    BY <1>1
  <2>2. cmd \in Finishing
    BY <2>1 DEF Cmd, Asking, Resuming, Reporting, Repairing
  <2> QED
    BY <2>2 DEF Finishing, Children, Invoked
<1> DEFINE h == Hand(forest)
           g == [h EXCEPT !.ag = Enqueue(@, cmd.id)]
<1>3. Sane(h) /\ h.ag = agents
  BY <1>1, HandSane
<1>4. Sane(g)
  <2>1. Enqueue(agents, cmd.id) \in Agents
        /\ \A a \in AgentIds : Enqueue(agents, cmd.id)[a].call = agents[a].call
    BY <1>1, ReachTypes
  <2>2. g = [h EXCEPT !.ag = Enqueue(agents, cmd.id)]
    BY <1>3
  <2> HIDE DEF h, g
  <2> QED
    BY <1>3, <2>1, <2>2, RetellSane
<1>5. mail' = Tail(mail) /\ (Finish(Reply(g, cmd.id)) \/ Finish(Reply(h, cmd.id)))
  BY DEF FinishSpawn
<1> HIDE DEF h, g
<1>6. CASE Finish(Reply(g, cmd.id))
  BY <1>2, <1>4, <1>5, <1>6, ReplySane, TailKeeps
<1>7. CASE Finish(Reply(h, cmd.id))
  BY <1>2, <1>3, <1>5, <1>7, ReplySane, TailKeeps
<1> QED
  BY <1>5, <1>6, <1>7

\* The command that finishes an invocation, and replies.
LEMMA FinishCreateKeeps ==
  ASSUME IInv, Serving, mail # <<>>, NEW cmd, cmd = Head(mail), cmd.t = "FinishCreate",
         FinishCreate(cmd), UNCHANGED spent
  PROVE  IInv'
<1>1. Sound /\ mail \in Seq(Cmd)
  BY DEF IInv, Types
<1>2. cmd.id \in Children
  <2>1. cmd \in Cmd
    BY <1>1
  <2>2. cmd \in Finishing
    BY <2>1 DEF Cmd, Asking, Resuming, Reporting, Repairing
  <2> QED
    BY <2>2 DEF Finishing, Children, Invoked
<1> DEFINE g == Reply(Hand(forest), cmd.id)
           h == FlushThenDrain(g)
<1>3. Sane(g) /\ \A a \in AgentIds : g.ag[a].call # cmd.id
  BY <1>1, <1>2, HandSane, ReplySane
<1>4. Finish(h) /\ mail' = Tail(mail)
  BY DEF FinishCreate
<1> HIDE DEF g
<1>5. Sane(h) /\ \A a \in AgentIds : h.ag[a].call # cmd.id
  BY <1>3, FlushSane DEF SameCalls
<1> HIDE DEF h
<1> QED
  BY <1>4, <1>5, TailKeeps

\* A subagent goes back to work.
LEMMA StartedKeeps ==
  ASSUME IInv, Serving, mail # <<>>, NEW cmd, cmd = Head(mail), cmd.t = "Started", Started(cmd),
         UNCHANGED spent
  PROVE  IInv'
<1>1. Sound /\ mail \in Seq(Cmd) /\ forest \in Forest /\ Good(forest)
  BY DEF IInv, Types, Sound
<1>2. cmd.from \in SubIds
  <2>1. cmd \in Cmd
    BY <1>1
  <2>2. cmd \in Resuming
    BY <2>1 DEF Cmd, Asking, Finishing, Reporting, Repairing
  <2> QED
    BY <2>2 DEF Resuming
<1> DEFINE e == [t |-> "SubAgentRunning", id |-> cmd.from]
           h == Hand(forest)
<1>3. Sane(h) /\ h.f = forest
  BY <1>1, HandSane
<1>4. e \in Fitting(forest)
  BY <1>1, <1>2, FittingEvents
<1>5. mail' = Tail(mail) /\ (Finish(Emit(h, e)) \/ Finish(h))
  BY DEF Started
<1>6. ~Replies(cmd)
  BY DEF Replies
<1> HIDE DEF e, h
<1>7. Sane(Emit(h, e))
  BY <1>3, <1>4, AdvanceOne
<1>8. CASE Finish(Emit(h, e))
  BY <1>5, <1>6, <1>7, <1>8, TailKeeps
<1>9. CASE Finish(h)
  BY <1>3, <1>5, <1>6, <1>9, TailKeeps
<1> QED
  BY <1>5, <1>8, <1>9

\* A step that can be found is one of its run's.
LEMMA KnownStep ==
  ASSUME NEW f, NEW a \in StepIds, Known(f, a), f \in Forest
  PROVE  RunOf(a) \in RunIds /\ a[3] \in DOMAIN f.runs[RunOf(a)].steps
<1>1. RunOf(a) \in RunIds /\ a[3] \in Nat /\ a[3] >= 1 /\ a # Main /\ a \notin SubIds
  BY IdFacts
<1>2. f.runs[RunOf(a)].steps \in Seq(StepRec)
  BY <1>1 DEF Forest, RunRec
<1>3. a[3] <= Len(f.runs[RunOf(a)].steps)
  BY <1>1 DEF Known
<1> QED
  BY <1>1, <1>2, <1>3

\* A boundary without events of its own.
LEMMA AdvanceNone ==
  ASSUME NEW h, Sane(h)
  PROVE  Sane(Advance(h, <<>>))
<1>1. <<>> \in Seq(Fitting(h.f))
  <2> HIDE DEF Fitting
  <2> QED
    OBVIOUS
<1> QED
  BY <1>1, EmitFitting

\* The end of a turn, whoever's it is, and however late it comes.
LEMMA OutcomeKeeps ==
  ASSUME IInv, Serving, mail # <<>>, NEW cmd, cmd = Head(mail), cmd.t = "Outcome", AgentOutcome(cmd),
         UNCHANGED spent
  PROVE  IInv'
<1>1. Sound /\ mail \in Seq(Cmd) /\ forest \in Forest /\ Good(forest)
  BY DEF IInv, Types, Sound
<1>2. cmd \in Reporting
  <2>1. cmd \in Cmd
    BY <1>1
  <2> QED
    BY <2>1 DEF Cmd, Asking, Finishing, Resuming, Repairing
<1> DEFINE h == Hand(forest)
           o == IF ~Known(forest, cmd.from) THEN h
                ELSE CASE cmd.from = Main      -> Advance(h, <<>>)
                       [] cmd.from \in SubIds  -> SubAgentOutcome(h, cmd)
                       [] cmd.from \in StepIds -> StepOutcome(h, cmd)
<1>3. Sane(h) /\ h.f = forest
  BY <1>1, HandSane
<1>4. mail' = Tail(mail) /\ Finish(o)
  BY DEF AgentOutcome
<1>5. ~Replies(cmd)
  BY DEF Replies
<1> HIDE DEF h
<1>6. Sane(o)
  <2>1. CASE ~Known(forest, cmd.from)
    BY <1>3, <2>1
  <2>2. CASE Known(forest, cmd.from) /\ cmd.from = Main
    <3>1. o = Advance(h, <<>>)
      BY <2>2, IdFacts
    <3> QED
      BY <1>3, <3>1, AdvanceNone
  <2>3. CASE Known(forest, cmd.from) /\ cmd.from \in SubIds
    <3> DEFINE e(t) == [t |-> t, id |-> cmd.from]
    <3>1. o = SubAgentOutcome(h, cmd)
      BY <2>3, IdFacts
    <3>2. cmd.end \in {"Concluded", "Failed", "Parked"}
      BY <1>2, <2>3, IdFacts DEF Reporting
    <3>3. SubAgentOutcome(h, cmd) \in
            {Advance(h, <<e("SubAgentCompleted")>>), Advance(h, <<e("SubAgentFailed")>>), Advance(h, <<>>)}
      BY <3>2 DEF SubAgentOutcome
    <3>4. e("SubAgentCompleted") \in Fitting(forest) /\ e("SubAgentFailed") \in Fitting(forest)
      BY <1>1, <2>3, FittingEvents
    <3> HIDE DEF e
    <3>5. /\ Sane(Advance(h, <<e("SubAgentCompleted")>>)) /\ Sane(Advance(h, <<e("SubAgentFailed")>>))
          /\ Sane(Advance(h, <<>>))
      BY <1>3, <3>4, AdvanceOne, AdvanceNone
    <3> HIDE DEF o
    <3> QED
      BY <3>1, <3>3, <3>5
  <2>4. CASE Known(forest, cmd.from) /\ cmd.from \in StepIds
    <3> DEFINE r == RunOf(cmd.from)
               k == cmd.from[3]
               done == [t |-> "StepConcluded", id |-> r, index |-> k, out |-> cmd.out]
               fail == [t |-> "StepFailed", id |-> r, index |-> k]
               ask  == [t |-> "AskRecorded", id |-> r]
    <3>1. o = StepOutcome(h, cmd)
      BY <2>4, IdFacts
    <3>2. cmd.end \in {"Concluded", "Failed", "Parked", "Asked"} /\ cmd.out \in Outs
      BY <1>2, <2>4, IdFacts DEF Reporting
    <3>3. StepOutcome(h, cmd) \in {Advance(h, <<done>>), Advance(h, <<fail>>), Emit(h, ask), h}
      BY <3>2 DEF StepOutcome
    <3>4. r \in RunIds /\ k \in DOMAIN forest.runs[r].steps
      BY <1>1, <2>4, KnownStep
    <3> HIDE DEF r, k
    <3>5. done \in Fitting(forest) /\ fail \in Fitting(forest) /\ ask \in Fitting(forest)
      BY <1>1, <3>2, <3>4, FittingEvents
    <3> HIDE DEF done, fail, ask
    <3>6. Sane(Advance(h, <<done>>)) /\ Sane(Advance(h, <<fail>>)) /\ Sane(Emit(h, ask))
      BY <1>3, <3>5, AdvanceOne
    <3> HIDE DEF o
    <3> QED
      BY <1>3, <3>1, <3>3, <3>6
  <2> QED
    BY <1>2, <2>1, <2>2, <2>3, <2>4 DEF Reporting
<1> HIDE DEF o
<1> QED
  BY <1>4, <1>5, <1>6, TailKeeps

\* The repairs of a load: a sane hand, and nothing but the events of the repair.
LEMMA RepairSane ==
  ASSUME IInv, Reconcile \/ ReconcileInterrupted
  PROVE  /\ mail' = Tail(mail)
         /\ \E h : Sane(h) /\ Finish(h)
<1>1. Sound /\ forest \in Forest /\ Good(forest)
  BY DEF IInv, Types, Sound
<1> DEFINE h == Hand(forest)
           S == {[t |-> "SubAgentFailed", id |-> s] : s \in ActiveSubs(forest)}
           T == {[t |-> "StepCancelled", id |-> RunOf(a), index |-> a[3]] : a \in InFlightSteps(forest)}
<1>2. Sane(h) /\ h.f = forest
  BY <1>1, HandSane
<1>3. S \subseteq Fitting(forest) /\ \A x, y \in S : x.id = y.id => x = y
  <2>1. \A x \in SubIds : [t |-> "SubAgentFailed", id |-> x] \in Fitting(forest)
    BY <1>1, FittingEvents
  <2>2. \A x \in ActiveSubs(forest) : x \in SubIds
    BY DEF ActiveSubs
  <2> QED
    BY <2>1, <2>2
<1>4. T \subseteq Fitting(forest) /\ \A x, y \in T : x.id = y.id => x = y
  <2>1. \A r \in RunIds : \A k \in DOMAIN forest.runs[r].steps :
          [t |-> "StepCancelled", id |-> r, index |-> k] \in Fitting(forest)
    BY <1>1, FittingEvents
  <2>2. \A a \in InFlightSteps(forest) : /\ RunOf(a) \in RunIds /\ a[3] = Current(forest.runs[RunOf(a)])
                                         /\ a[3] \in DOMAIN forest.runs[RunOf(a)].steps
    <3> TAKE a \in InFlightSteps(forest)
    <3>1. PICK r \in RunIds : Current(forest.runs[r]) # 0 /\ a = StepOf(r, Current(forest.runs[r]))
      BY DEF InFlightSteps
    <3>2. RunOf(a) = r
      <4>1. a[2] = r[2]
        BY <3>1 DEF StepOf
      <4>2. PICK i \in 0..MaxRuns : r = <<"run", i>>
        BY DEF RunIds
      <4> QED
        BY <4>1, <4>2 DEF RunOf
    <3>3. a[3] = Current(forest.runs[r])
      BY <3>1 DEF StepOf
    <3>4. forest.runs[r] \in RunRec /\ GoodRun(r, forest.runs[r])
      BY <1>1 DEF Forest, Good
    <3>5. Current(forest.runs[r]) \in Flying(forest.runs[r])
      BY <3>1, <3>4, CurrentIs
    <3> QED
      BY <3>2, <3>3, <3>5 DEF Flying
  <2> QED
    BY <2>1, <2>2
<1>5. SetToSeq(S) \in Seq(Fitting(h.f)) /\ SetToSeq(T) \in Seq(Fitting(h.f))
  <2> HIDE DEF S, T
  <2> QED
    BY <1>2, <1>3, <1>4, FittingSeq
<1>6. /\ mail' = Tail(mail)
      /\ Finish(EmitAll(h, SetToSeq(S))) \/ Finish(EmitAll(h, SetToSeq(T)))
  BY DEF Reconcile, ReconcileInterrupted, EmitAll
<1> HIDE DEF h, S, T
<1>7. Sane(EmitAll(h, SetToSeq(S))) /\ Sane(EmitAll(h, SetToSeq(T)))
  BY <1>2, <1>5, EmitFitting
<1> QED
  BY <1>6, <1>7

LEMMA RepairKeeps ==
  ASSUME IInv, Serving, mail # <<>>, NEW cmd, cmd = Head(mail), UNCHANGED spent,
         \/ cmd.t = "Reconcile" /\ Reconcile
         \/ cmd.t = "ReconcileInterrupted" /\ ReconcileInterrupted
         \/ cmd.t = "Advance" /\ AdvanceRuns
  PROVE  IInv'
<1>1. ~Replies(cmd)
  BY DEF Replies
<1>2. CASE AdvanceRuns
  <2> DEFINE h == FlushThenDrain(Hand(forest))
  <2>1. Sound
    BY DEF IInv, Types
  <2>2. Sane(h) /\ Finish(h) /\ mail' = Tail(mail)
    BY <1>2, <2>1, HandSane, FlushSane DEF AdvanceRuns
  <2> HIDE DEF h
  <2> QED
    BY <1>1, <2>2, TailKeeps
<1>3. CASE Reconcile \/ ReconcileInterrupted
  <2>1. PICK h : Sane(h) /\ Finish(h)
    BY <1>3, RepairSane
  <2>2. mail' = Tail(mail)
    BY <1>3, RepairSane
  <2> QED
    BY <1>1, <2>1, <2>2, TailKeeps
<1> QED
  BY <1>2, <1>3

\* A command.
LEMMA HandleKeeps ==
  ASSUME IInv, HandleCommand
  PROVE  IInv'
<1>1. PICK cmd : cmd = Head(mail)
  OBVIOUS
<1>2. /\ Serving /\ mail # <<>> /\ UNCHANGED spent
      /\ \/ cmd.t = "Spawn"        /\ Spawn(cmd)
         \/ cmd.t = "FinishSpawn"  /\ FinishSpawn(cmd)
         \/ cmd.t = "Create"       /\ Create(cmd)
         \/ cmd.t = "FinishCreate" /\ FinishCreate(cmd)
         \/ cmd.t = "Started"      /\ Started(cmd)
         \/ cmd.t = "Outcome"      /\ AgentOutcome(cmd)
         \/ cmd.t = "Reconcile"    /\ Reconcile
         \/ cmd.t = "ReconcileInterrupted" /\ ReconcileInterrupted
         \/ cmd.t = "Advance"      /\ AdvanceRuns
  BY <1>1 DEF HandleCommand
<1>3. CASE cmd.t = "Spawn" /\ Spawn(cmd)
  BY <1>1, <1>2, <1>3, SpawnKeeps
<1>4. CASE cmd.t = "FinishSpawn" /\ FinishSpawn(cmd)
  BY <1>1, <1>2, <1>4, FinishSpawnKeeps
<1>5. CASE cmd.t = "Create" /\ Create(cmd)
  BY <1>1, <1>2, <1>5, CreateKeeps
<1>6. CASE cmd.t = "FinishCreate" /\ FinishCreate(cmd)
  BY <1>1, <1>2, <1>6, FinishCreateKeeps
<1>7. CASE cmd.t = "Started" /\ Started(cmd)
  BY <1>1, <1>2, <1>7, StartedKeeps
<1>8. CASE cmd.t = "Outcome" /\ AgentOutcome(cmd)
  BY <1>1, <1>2, <1>8, OutcomeKeeps
<1>9. CASE \/ cmd.t = "Reconcile"    /\ Reconcile
           \/ cmd.t = "ReconcileInterrupted" /\ ReconcileInterrupted
           \/ cmd.t = "Advance"      /\ AdvanceRuns
  BY <1>1, <1>2, <1>9, RepairKeeps
<1> QED
  BY <1>2, <1>3, <1>4, <1>5, <1>6, <1>7, <1>8, <1>9

\* A stop: what the agent delegated is cancelled, then its own work.
LEMMA StopSane ==
  ASSUME IInv, NEW a \in AgentIds, Stop(a)
  PROVE  /\ Serving /\ Intervene("stop") /\ UNCHANGED mail
         /\ \E h : Sane(h) /\ Finish(FlushThenDrain(h))
<1>1. Sound /\ forest \in Forest /\ Good(forest) /\ agents \in Agents
  BY DEF IInv, Types, Sound
<1> DEFINE h     == [Hand(forest) EXCEPT !.ag = Cancel(@, a)]
           event == IF a \in SubIds THEN [t |-> "SubAgentFailed", id |-> a]
                    ELSE [t |-> "StepCancelled", id |-> RunOf(a), index |-> a[3]]
           g     == CancelDescendants(h, a)
           o     == FlushThenDrain(Emit(g, event))
<1>2. /\ Serving /\ Intervene("stop") /\ UNCHANGED mail /\ Finish(o)
      /\ \/ a \in SubIds
         \/ a \in StepIds /\ Current(forest.runs[RunOf(a)]) = a[3]
  BY DEF Stop
<1>3. event \in Fitting(forest)
  <2>1. CASE a \in SubIds
    BY <1>1, <2>1, FittingEvents
  <2>2. CASE a \notin SubIds
    <3> DEFINE r == RunOf(a)
    <3>1. r \in RunIds /\ a[3] # 0 /\ Current(forest.runs[r]) = a[3]
      BY <1>2, <2>2, IdFacts
    <3>2. forest.runs[r] \in RunRec /\ GoodRun(r, forest.runs[r])
      BY <1>1, <3>1 DEF Forest, Good
    <3> HIDE DEF r
    <3>3. a[3] \in DOMAIN forest.runs[r].steps
      BY <3>1, <3>2, CurrentIs DEF Flying
    <3>4. [t |-> "StepCancelled", id |-> r, index |-> a[3]] \in Fitting(forest)
      BY <1>1, <3>1, <3>3, FittingEvents
    <3> QED
      BY <2>2, <3>4 DEF r
  <2> QED
    BY <2>1, <2>2
<1>4. Sane(h) /\ h.f = forest
  <2>1. Sane(Hand(forest)) /\ Hand(forest).ag = agents /\ Hand(forest).f = forest
    BY <1>1, HandSane
  <2>2. Cancel(agents, a) \in Agents /\ \A b \in AgentIds : Cancel(agents, a)[b].call \in {agents[b].call, NoAgent}
    BY <1>1, CancelTypes
  <2>3. h = [Hand(forest) EXCEPT !.ag = Cancel(agents, a)]
    BY <2>1
  <2> QED
    BY <2>1, <2>2, <2>3, RetellSane
<1> HIDE DEF h, event
<1>5. Sane(g) /\ Kept(forest, g.f)
  BY <1>4, CancelSane
<1> HIDE DEF g
<1>6. event \in Fitting(g.f)
  BY <1>3, <1>5, KeptFits DEF Fitting
<1>7. Sane(Emit(g, event))
  BY <1>5, <1>6, AdvanceOne
<1> QED
  BY <1>2, <1>7

LEMMA StopKeeps ==
  ASSUME IInv, NEW a \in AgentIds, Stop(a)
  PROVE  IInv'
<1>1. Serving /\ Intervene("stop") /\ UNCHANGED mail
  BY StopSane
<1>2. PICK g : Sane(g) /\ Finish(FlushThenDrain(g))
  BY StopSane
<1> DEFINE o == FlushThenDrain(g)
<1>3. Sane(o) /\ Finish(o)
  BY <1>2, FlushSane
<1> HIDE DEF o
<1> QED
  BY <1>1, <1>3, StillKeeps

\* A deletion: the actors go, and the entries.
LEMMA DeleteSane ==
  ASSUME IInv, NEW s \in SubIds, DeleteAgent(s)
  PROVE  /\ Serving /\ Intervene("delete") /\ UNCHANGED mail
         /\ \E h : \E e \in Event :
              Sane(h) /\ h.f = forest /\ e.t = "AgentDeleted" /\ Fits(h.f, e) /\ Finish(Emit(h, e))
<1>1. Sound /\ agents \in Agents
  BY DEF IInv, Types, Sound
<1> DEFINE gone == {a \in AgentIds : Known(forest, a) /\ DescendsFrom(forest, a, s)}
           ag   == [a \in AgentIds |-> IF a \in gone THEN [Cancel(agents, a)[a] EXCEPT !.up = FALSE]
                                       ELSE agents[a]]
           h    == [Hand(forest) EXCEPT !.ag = ag]
           e    == [t |-> "AgentDeleted", id |-> s]
<1>2. Sane(Hand(forest)) /\ Hand(forest).ag = agents /\ Hand(forest).f = forest
  BY <1>1, HandSane
<1>3. Serving /\ Intervene("delete") /\ UNCHANGED mail /\ Finish(Emit(h, e))
  BY <1>2 DEF DeleteAgent
<1> HIDE DEF gone
<1>4. ag \in Agents /\ \A a \in AgentIds : ag[a].call \in {agents[a].call, NoAgent}
  <2>1. \A a \in AgentIds : /\ Cancel(agents, a)[a] \in AgentRec /\ agents[a] \in AgentRec
                            /\ Cancel(agents, a)[a].call \in {agents[a].call, NoAgent}
    BY <1>1, CancelTypes DEF Agents
  <2> DEFINE c == [a \in AgentIds |-> Cancel(agents, a)[a]]
  <2>2. \A a \in AgentIds : c[a] \in AgentRec /\ c[a].call \in {agents[a].call, NoAgent}
    BY <2>1
  <2>3. ag = [a \in AgentIds |-> IF a \in gone THEN [c[a] EXCEPT !.up = FALSE] ELSE agents[a]]
    OBVIOUS
  <2> HIDE DEF c, ag
  <2>4. \A a \in AgentIds : /\ [c[a] EXCEPT !.up = FALSE] \in AgentRec
                            /\ [c[a] EXCEPT !.up = FALSE].call = c[a].call
    BY <2>2 DEF AgentRec
  <2> QED
    BY <2>1, <2>2, <2>3, <2>4 DEF Agents
<1> HIDE DEF ag
<1>5. Sane(h) /\ h.f = forest
  BY <1>2, <1>4, RetellSane
<1>6. e \in Event /\ e.t = "AgentDeleted" /\ e.id = s
  BY DEF Event, SubEvent
<1> HIDE DEF h, e
<1>7. Fits(h.f, e)
  BY <1>6, IdFacts DEF Fits
<1> QED
  BY <1>3, <1>5, <1>6, <1>7

LEMMA DeleteKeeps ==
  ASSUME IInv, NEW s \in SubIds, DeleteAgent(s)
  PROVE  IInv'
<1>1. Serving /\ Intervene("delete") /\ UNCHANGED mail
  BY DeleteSane
<1>2. PICK h : \E e \in Event :
        Sane(h) /\ h.f = forest /\ e.t = "AgentDeleted" /\ Fits(h.f, e) /\ Finish(Emit(h, e))
  BY DeleteSane
<1>3. PICK e \in Event : Sane(h) /\ e.t = "AgentDeleted" /\ Fits(h.f, e) /\ Finish(Emit(h, e))
  BY <1>2
<1>4. Sane(Emit(h, e))
  BY <1>3, EmitSane DEF Births
<1> QED
  BY <1>1, <1>3, <1>4, StillKeeps

\* A retry: the step in flight is cancelled first, so the new one is alone.
LEMMA RetrySane ==
  ASSUME IInv, NEW k, RetryStep(k)
  PROVE  /\ Serving /\ Intervene("retry") /\ UNCHANGED mail
         /\ \E h : Sane(h) /\ Finish(h)
<1>1. Sound /\ forest \in Forest /\ Good(forest) /\ agents \in Agents
  BY DEF IInv, Types, Sound
<1> DEFINE run == forest.runs[RootRun]
           now == Current(run)
           h   == Hand(forest)
           old == StepOf(RootRun, now)
           c   == [h EXCEPT !.ag = Cancel(@, old)]
           g   == CancelDescendants(c, old)
           e   == [t |-> "StepCancelled", id |-> RootRun, index |-> now]
           calm == IF now = 0 THEN h ELSE Emit(g, e)
           step == run.steps[k].step
           o   == StartStep(calm, RootRun, step)
<1>2. /\ Serving /\ Intervene("retry") /\ UNCHANGED mail /\ Finish(o)
      /\ k \in DOMAIN run.steps
  BY DEF RetryStep
<1>3. run \in RunRec /\ GoodRun(RootRun, run) /\ RootRun \in RunIds
  BY <1>1, IdFacts DEF Forest, Good
<1>4. step \in DOMAIN Transitions /\ ~IsGone(run)
  <2>1. run.steps \in Seq(StepRec)
    BY <1>3 DEF RunRec
  <2>2. run.steps[k] \in StepRec /\ run.steps # <<>>
    BY <1>2, <2>1
  <2> QED
    BY <1>3, <2>2 DEF StepRec, GoodRun
<1>5. Sane(h) /\ h.f = forest /\ h.ag = agents
  BY <1>1, HandSane
<1>6. now = 0 => Idle(run)
  BY <1>3, CurrentIs
<1>7. now # 0 => now \in Flying(run) /\ now \in DOMAIN run.steps
  BY <1>3, CurrentIs DEF Flying
<1> HIDE DEF h, step, old
<1>8. Sane(c) /\ c.f = forest
  <2>1. Cancel(agents, old) \in Agents /\ \A b \in AgentIds : Cancel(agents, old)[b].call \in {agents[b].call, NoAgent}
    BY <1>1, CancelTypes
  <2>2. c = [h EXCEPT !.ag = Cancel(agents, old)]
    BY <1>5
  <2> HIDE DEF c
  <2> QED
    BY <1>5, <2>1, <2>2, RetellSane
<1> HIDE DEF c
<1>9. Sane(g) /\ Kept(forest, g.f) /\ g \in Hands /\ g.f \in Forest /\ Good(g.f)
  BY <1>8, CancelSane DEF Sane, Hands
<1> HIDE DEF g
<1>10. now # 0 => /\ e \in Fitting(forest) /\ e.t = "StepCancelled" /\ e.id = RootRun /\ e.index = now
  BY <1>1, <1>3, <1>7, FittingEvents
<1> HIDE DEF now, e
<1>11. now # 0 => e \in Fitting(g.f) /\ e \in Event /\ Fits(g.f, e)
  BY <1>9, <1>10, KeptFits DEF Fitting
<1>12. now # 0 => Sane(Emit(g, e)) /\ Emit(g, e).f = Apply(g.f, e)
  BY <1>9, <1>11, AdvanceOne, EmitParts
<1>13. now # 0 => /\ ~IsGone(Apply(g.f, e).runs[RootRun])
                  /\ Idle(Apply(g.f, e).runs[RootRun])
  <2> SUFFICES ASSUME now # 0
               PROVE  /\ ~IsGone(Apply(g.f, e).runs[RootRun])
                      /\ Idle(Apply(g.f, e).runs[RootRun])
    OBVIOUS
  <2>1. /\ IsGone(Apply(g.f, e).runs[RootRun]) <=> IsGone(g.f.runs[RootRun])
        /\ Flying(Apply(g.f, e).runs[RootRun]) \subseteq Flying(g.f.runs[RootRun])
        /\ now \notin Flying(Apply(g.f, e).runs[RootRun])
    BY <1>3, <1>9, <1>10, <1>11, ApplyRuns DEF OfStep
  <2>2. /\ IsGone(g.f.runs[RootRun]) <=> IsGone(run)
        /\ Flying(g.f.runs[RootRun]) \subseteq Flying(run)
    BY <1>3, <1>9 DEF Kept
  <2>3. \A j \in Flying(run) : j = now
    BY <1>3, <1>7 DEF GoodRun
  <2> QED
    BY <1>4, <2>1, <2>2, <2>3 DEF Idle
<1>14. Sane(calm) /\ ~IsGone(calm.f.runs[RootRun]) /\ Idle(calm.f.runs[RootRun])
  BY <1>4, <1>5, <1>6, <1>12, <1>13
<1> HIDE DEF calm
<1>15. Sane(o)
  BY <1>3, <1>4, <1>14, StartStepSane
<1> QED
  BY <1>2, <1>15

LEMMA RetryKeeps ==
  ASSUME IInv, NEW k, RetryStep(k)
  PROVE  IInv'
<1>1. Serving /\ Intervene("retry") /\ UNCHANGED mail
  BY RetrySane
<1>2. PICK h : Sane(h) /\ Finish(h)
  BY RetrySane
<1> QED
  BY <1>1, <1>2, StillKeeps

\* What leaves the session alone, and asks it for nothing, keeps it.
LEMMA QuietKeeps ==
  ASSUME IInv, UNCHANGED <<forest, staged, heard, again, fresh>>,
         agents' \in Agents, mail' \in Seq(Cmd), loaded' \in BOOLEAN,
         loaded' = FALSE => loaded = FALSE /\ mail' = <<>>,
         spent' \in [turns : Nat, number : Nat, kinds : SUBSET Interventions],
         spent.kinds \subseteq spent'.kinds,
         \A a \in AgentIds : agents'[a].call \in {agents[a].call, NoAgent},
         \A i \in DOMAIN mail : i \in DOMAIN mail' /\ mail'[i] = mail[i],
         \A i \in DOMAIN mail' : Requests(mail'[i]) => i \in DOMAIN mail
  PROVE  IInv'
<1>1. Types /\ IdsGiven /\ AskedFor /\ Agreed /\ CallAnswered
  BY DEF IInv
<1>2. /\ forest' = forest /\ staged' = staged /\ heard' = heard /\ again' = again /\ fresh' = fresh
      /\ Ahead' = Ahead
  BY DEF Ahead
<1>3. Types'
  BY <1>1, <1>2 DEF Types, Sound
<1>4. \A c \in Children : /\ Given(c)' <=> Given(c)
                          /\ Gone(forest, c)' <=> Gone(forest, c)
                          /\ Gone(Ahead, c)' <=> Gone(Ahead, c)
  BY <1>2 DEF Given, Gone
<1>5. IdsGiven'
  BY <1>1, <1>2, <1>4 DEF IdsGiven
<1>6. \A c \in Children : Wanted(c)' => Wanted(c)
  BY DEF Wanted, Requests
<1>7. AskedFor'
  BY <1>1, <1>2, <1>4, <1>6 DEF AskedFor, Requests
<1>8. Agreed'
  BY <1>1, <1>2 DEF Agreed, Marked, Settled, Gone, Noted
<1>9. CallAnswered'
  BY <1>1 DEF CallAnswered
<1> QED
  BY <1>3, <1>5, <1>7, <1>8, <1>9 DEF IInv

\* A command is sent.
LEMMA AppendMail ==
  ASSUME mail \in Seq(Cmd), NEW cmd \in Cmd, mail' = Append(mail, cmd)
  PROVE  /\ mail' \in Seq(Cmd)
         /\ \A i \in DOMAIN mail : i \in DOMAIN mail' /\ mail'[i] = mail[i]
         /\ \A i \in DOMAIN mail' : i \in DOMAIN mail \/ mail'[i] = cmd
         /\ Len(mail) + 1 \in DOMAIN mail' /\ mail'[Len(mail) + 1] = cmd
OBVIOUS

\* A person speaks to an agent.
LEMMA SayKeeps ==
  ASSUME IInv, NEW a \in AgentIds, UserSays(a)
  PROVE  IInv'
<1>1. /\ agents \in Agents /\ mail \in Seq(Cmd) /\ loaded \in BOOLEAN
      /\ spent \in [turns : Nat, number : Nat, kinds : SUBSET Interventions]
      /\ (~loaded => mail = <<>>)
  BY DEF IInv, Types, Sound
<1>2. /\ Intervene("say") /\ UNCHANGED <<forest, staged, mail, loaded, heard, again, fresh>>
      /\ agents' = [Enqueue(agents, a) EXCEPT ![a].asks = FALSE]
  BY DEF UserSays
<1>3. /\ spent.kinds \subseteq spent'.kinds
      /\ spent' \in [turns : Nat, number : Nat, kinds : SUBSET Interventions]
  BY <1>1, <1>2, SpentGrows
<1>4. /\ Enqueue(agents, a) \in Agents
      /\ \A b \in AgentIds : Enqueue(agents, a)[b].call = agents[b].call
  BY <1>1, ReachTypes
<1> DEFINE ag == Enqueue(agents, a)
<1>5. agents' = [ag EXCEPT ![a].asks = FALSE]
  BY <1>2
<1> HIDE DEF ag
<1>6. ag \in Agents /\ \A b \in AgentIds : ag[b].call = agents[b].call
  BY <1>4 DEF ag
<1>7. agents' \in Agents /\ \A b \in AgentIds : agents'[b].call = agents[b].call
  BY <1>5, <1>6 DEF Agents, AgentRec
<1> QED
  BY <1>1, <1>2, <1>3, <1>7, QuietKeeps

\* A turn begins.
LEMMA BeginKeeps ==
  ASSUME IInv, NEW a \in AgentIds, BeginTurn(a)
  PROVE  IInv'
<1>1. /\ agents \in Agents /\ mail \in Seq(Cmd) /\ loaded \in BOOLEAN /\ loaded
      /\ spent \in [turns : Nat, number : Nat, kinds : SUBSET Interventions]
  BY DEF IInv, Types, Sound, BeginTurn
<1>2. /\ agents' \in Agents /\ \A b \in AgentIds : agents'[b].call = agents[b].call
  BY <1>1 DEF BeginTurn, Agents, AgentRec
<1>3. /\ spent.kinds = spent'.kinds
      /\ spent' \in [turns : Nat, number : Nat, kinds : SUBSET Interventions]
  BY <1>1 DEF BeginTurn
<1>4. UNCHANGED <<forest, staged, loaded, heard, again, fresh>> /\ TellStarted(a)
  BY DEF BeginTurn
<1>5. CASE a \in SubIds
  <2> DEFINE cmd == [t |-> "Started", from |-> a]
  <2>1. cmd \in Cmd /\ ~Requests(cmd)
    BY <1>5 DEF Cmd, Resuming, Requests
  <2>2. mail' = Append(mail, cmd)
    BY <1>4, <1>5 DEF TellStarted, Tell
  <2> HIDE DEF cmd
  <2>3. /\ mail' \in Seq(Cmd)
        /\ \A i \in DOMAIN mail : i \in DOMAIN mail' /\ mail'[i] = mail[i]
        /\ \A i \in DOMAIN mail' : i \in DOMAIN mail \/ mail'[i] = cmd
    BY <1>1, <2>1, <2>2, AppendMail
  <2> QED
    BY <1>1, <1>2, <1>3, <1>4, <2>1, <2>3, QuietKeeps
<1>6. CASE a \notin SubIds
  <2>1. mail' = mail
    BY <1>4, <1>6 DEF TellStarted
  <2> QED
    BY <1>1, <1>2, <1>3, <1>4, <2>1, QuietKeeps
<1> QED
  BY <1>5, <1>6

\* A turn ends, and says how.
LEMMA EndKeeps ==
  ASSUME IInv, NEW a \in AgentIds, NEW end, NEW out, NEW asks \in BOOLEAN, EndTurn(a, end, out, asks),
         [t |-> "Outcome", from |-> a, end |-> end, out |-> out] \in Reporting
  PROVE  IInv'
<1> DEFINE cmd == [t |-> "Outcome", from |-> a, end |-> end, out |-> out]
<1>1. /\ agents \in Agents /\ mail \in Seq(Cmd) /\ loaded \in BOOLEAN /\ loaded
      /\ spent \in [turns : Nat, number : Nat, kinds : SUBSET Interventions]
  BY DEF IInv, Types, Sound, EndTurn, AtWork
<1>2. /\ agents' \in Agents /\ \A b \in AgentIds : agents'[b].call = agents[b].call
  BY <1>1 DEF EndTurn, Agents, AgentRec
<1>3. UNCHANGED <<forest, staged, loaded, heard, again, fresh, spent>> /\ mail' = Append(mail, cmd)
  BY DEF EndTurn, Tell
<1>4. cmd \in Cmd /\ ~Requests(cmd)
  BY DEF Cmd, Requests
<1> HIDE DEF cmd
<1>5. /\ mail' \in Seq(Cmd)
      /\ \A i \in DOMAIN mail : i \in DOMAIN mail' /\ mail'[i] = mail[i]
      /\ \A i \in DOMAIN mail' : i \in DOMAIN mail \/ mail'[i] = cmd
  BY <1>1, <1>3, <1>4, AppendMail
<1> QED
  BY <1>1, <1>2, <1>3, <1>4, <1>5, QuietKeeps

\* The steps of an agent in its turn.
LEMMA TurnKeeps ==
  ASSUME IInv, NEW a \in AgentIds, TurnSteps(a)
  PROVE  IInv'
<1>0. a = Main \/ a \in SubIds \/ a \in StepIds
  BY DEF AgentIds
<1>1. CASE EndsInWords(a) /\ a # Main /\ agents[a].queued
  <2>1. /\ agents \in Agents /\ mail \in Seq(Cmd) /\ loaded \in BOOLEAN /\ loaded
        /\ spent \in [turns : Nat, number : Nat, kinds : SUBSET Interventions]
    BY <1>1 DEF IInv, Types, Sound, EndsInWords, AtWork
  <2>2. /\ agents' \in Agents /\ \A b \in AgentIds : agents'[b].call = agents[b].call
    <3>1. agents' = [agents EXCEPT ![a].queued = FALSE]
      BY <1>1 DEF EndsInWords
    <3> QED
      BY <2>1, <3>1 DEF Agents, AgentRec
  <2>3. UNCHANGED <<forest, staged, loaded, heard, again, fresh, spent>> /\ TellStarted(a)
    BY <1>1 DEF EndsInWords
  <2>4. CASE a \in SubIds
    <3> DEFINE cmd == [t |-> "Started", from |-> a]
    <3>1. cmd \in Cmd /\ ~Requests(cmd)
      BY <2>4 DEF Cmd, Resuming, Requests
    <3>2. mail' = Append(mail, cmd)
      BY <2>3, <2>4 DEF TellStarted, Tell
    <3> HIDE DEF cmd
    <3>3. /\ mail' \in Seq(Cmd)
          /\ \A i \in DOMAIN mail : i \in DOMAIN mail' /\ mail'[i] = mail[i]
          /\ \A i \in DOMAIN mail' : i \in DOMAIN mail \/ mail'[i] = cmd
      BY <2>1, <3>1, <3>2, AppendMail
    <3> QED
      BY <2>1, <2>2, <2>3, <3>1, <3>3, QuietKeeps
  <2>5. CASE a \notin SubIds
    <3>1. mail' = mail
      BY <2>3, <2>5 DEF TellStarted
    <3> QED
      BY <2>1, <2>2, <2>3, <3>1, QuietKeeps
  <2> QED
    BY <2>4, <2>5
<1>2. CASE EndsInWords(a) /\ ~(a # Main /\ agents[a].queued)
  <2> DEFINE end == IF a # Main /\ agents[a].open # {} THEN "Parked"
                    ELSE IF a \in StepIds THEN "Failed" ELSE "Concluded"
  <2>1. EndTurn(a, end, "", FALSE)
    BY <1>2 DEF EndsInWords
  <2>2. [t |-> "Outcome", from |-> a, end |-> end, out |-> ""] \in Reporting
    BY <1>0, IdFacts DEF Reporting, Outs
  <2> HIDE DEF end
  <2> QED
    BY <2>1, <2>2, EndKeeps
<1>3. CASE Fails(a)
  <2>1. [t |-> "Outcome", from |-> a, end |-> "Failed", out |-> ""] \in Reporting
    BY <1>0 DEF Reporting, Outs
  <2> QED
    BY <1>3, <2>1, EndKeeps DEF Fails
<1>4. CASE Asks(a)
  <2>1. [t |-> "Outcome", from |-> a, end |-> "Asked", out |-> ""] \in Reporting
    BY <1>4 DEF Asks, Reporting, Outs
  <2> QED
    BY <1>4, <2>1, EndKeeps DEF Asks
<1>5. ASSUME NEW out \in Outcomes, Submit(a, out)
      PROVE  IInv'
  <2>1. [t |-> "Outcome", from |-> a, end |-> "Concluded", out |-> out] \in Reporting
    BY <1>5 DEF Submit, Reporting, Outs
  <2> QED
    BY <1>5, <2>1, EndKeeps DEF Submit
<1> QED
  BY <1>1, <1>2, <1>3, <1>4, <1>5 DEF TurnSteps

\* A tool is called: the child it asks for has an id nobody had.
LEMMA CallKeeps ==
  ASSUME IInv, NEW a \in AgentIds, NEW what \in {"Spawn", "Create"}, CallTool(a, what)
  PROVE  IInv'
<1>0. PICK id : id = IF what = "Spawn" THEN <<"sub", fresh.subs + 1>> ELSE <<"run", fresh.runs + 1>>
  OBVIOUS
<1> DEFINE cmd == [t |-> what, from |-> a, id |-> id]
<1>1. Types /\ IdsGiven /\ AskedFor /\ Agreed /\ CallAnswered
  BY DEF IInv
<1>2. /\ agents \in Agents /\ mail \in Seq(Cmd) /\ fresh \in [subs : Nat, runs : Nat] /\ loaded
  BY <1>1 DEF Types, Sound, CallTool, AtWork
<1>3. /\ id \in Children /\ agents' = [agents EXCEPT ![a].call = id] /\ mail' = Append(mail, cmd)
      /\ fresh' = IF what = "Spawn" THEN [fresh EXCEPT !.subs = @ + 1]
                                    ELSE [fresh EXCEPT !.runs = @ + 1]
      /\ UNCHANGED <<forest, staged, loaded, heard, again, spent>>
  BY <1>0 DEF CallTool, Tell
<1>4. /\ what = "Spawn" => id \in SubIds
      /\ what = "Create" => id \in Invoked /\ id \notin SubIds
      /\ ~Given(id) /\ Given(id)'
      /\ \A c \in Children : Given(c) => Given(c)'
      /\ fresh' \in [subs : Nat, runs : Nat]
  <2>1. \A c \in Children : c[2] \in Nat
    BY ConstantsAssumption DEF Children, SubIds, RunIds
  <2>2. CASE what = "Spawn"
    <3>1. id = <<"sub", fresh.subs + 1>> /\ id[2] = fresh.subs + 1 /\ id[1] = "sub"
      BY <1>0, <2>2
    <3>2. id \in SubIds
      BY <1>3, <3>1 DEF Children, SubIds, RunIds
    <3>3. fresh' \in [subs : Nat, runs : Nat] /\ fresh'.subs = fresh.subs + 1 /\ fresh'.runs = fresh.runs
      BY <1>2, <1>3, <2>2
    <3> QED
      BY <1>2, <2>1, <2>2, <3>1, <3>2, <3>3 DEF Given
  <2>3. CASE what = "Create"
    <3>1. id = <<"run", fresh.runs + 1>> /\ id[2] = fresh.runs + 1 /\ id[1] = "run"
      BY <1>0, <2>3
    <3>2. id \in RunIds /\ id \notin SubIds
      BY <1>3, <3>1 DEF Children, SubIds, RunIds
    <3>3. fresh' \in [subs : Nat, runs : Nat] /\ fresh'.subs = fresh.subs /\ fresh'.runs = fresh.runs + 1
      BY <1>2, <1>3, <2>3
    <3>4. id # RootRun
      BY <1>2, <3>1 DEF RootRun
    <3> QED
      BY <1>2, <2>1, <2>3, <3>1, <3>2, <3>3, <3>4 DEF Given, Invoked
  <2> QED
    BY <2>2, <2>3
<1>5. cmd \in Cmd /\ Requests(cmd) /\ Replies(cmd) /\ cmd.id = id
  <2>1. cmd \in Asking
    BY <1>4 DEF Asking
  <2> QED
    BY <2>1 DEF Cmd, Requests, Replies
<1>6. Gone(forest, id) /\ Gone(Ahead, id) /\ id \notin heard
  BY <1>1, <1>3, <1>4 DEF IdsGiven
<1> HIDE DEF cmd
<1>7. /\ mail' \in Seq(Cmd)
      /\ \A i \in DOMAIN mail : i \in DOMAIN mail' /\ mail'[i] = mail[i]
      /\ \A i \in DOMAIN mail' : \/ i \in DOMAIN mail
                                 \/ mail'[i] = cmd /\ i = Len(mail) + 1
      /\ Len(mail) + 1 \in DOMAIN mail' /\ mail'[Len(mail) + 1] = cmd
  BY <1>2, <1>3, <1>5
<1>8. /\ agents' \in Agents
      /\ \A b \in AgentIds : agents'[b].call = IF b = a THEN id ELSE agents[b].call
  BY <1>2, <1>3 DEF Agents, AgentRec
<1>9. Ahead' = Ahead
  BY <1>3 DEF Ahead
<1>10. Types'
  BY <1>1, <1>2, <1>3, <1>4, <1>7, <1>8, <1>9 DEF Types, Sound
<1>11. \A c \in Children : (Gone(forest, c)' <=> Gone(forest, c)) /\ (Gone(Ahead, c)' <=> Gone(Ahead, c))
  BY <1>3, <1>9 DEF Gone
<1>12. IdsGiven'
  BY <1>1, <1>3, <1>4, <1>11 DEF IdsGiven
<1>13. AskedFor'
  <2>1. \A c \in Children : Wanted(c)' => Wanted(c) \/ c = id
    BY <1>5, <1>7 DEF Wanted, Requests
  <2>2. \A i \in DOMAIN mail : Requests(mail[i]) => mail[i].id # id
    <3> SUFFICES ASSUME NEW i \in DOMAIN mail, Requests(mail[i]), mail[i].id = id PROVE FALSE
      OBVIOUS
    <3>1. Wanted(id)
      BY DEF Wanted
    <3> QED
      BY <1>1, <1>3, <1>4, <3>1 DEF AskedFor
  <2>3. ASSUME NEW i \in DOMAIN mail', NEW j \in DOMAIN mail',
               Requests(mail'[i]), Requests(mail'[j]), mail'[i].id = mail'[j].id
        PROVE  i = j
    BY <1>1, <1>5, <1>7, <2>2, <2>3 DEF AskedFor
  <2> QED
    BY <1>1, <1>3, <1>4, <1>6, <1>11, <2>1, <2>3 DEF AskedFor, Requests
<1>14. Agreed'
  BY <1>1, <1>3, <1>9 DEF Agreed, Marked, Settled, Gone, Noted
<1>15. CallAnswered'
  <2> SUFFICES ASSUME NEW b \in AgentIds, agents'[b].call # NoAgent
               PROVE  \E i \in DOMAIN mail' : Replies(mail'[i]) /\ mail'[i].id = agents'[b].call
    BY DEF CallAnswered, Replies
  <2>1. CASE b = a
    BY <1>5, <1>7, <1>8, <2>1
  <2>2. CASE b # a
    <3>1. PICK i \in DOMAIN mail : Replies(mail[i]) /\ mail[i].id = agents[b].call
      BY <1>1, <1>8, <2>2 DEF CallAnswered, Replies
    <3> QED
      BY <1>7, <1>8, <2>2, <3>1
  <2> QED
    BY <2>1, <2>2
<1> QED
  BY <1>10, <1>12, <1>13, <1>14, <1>15 DEF IInv

\* The records of an event change no call.
LEMMA LogsTypes ==
  ASSUME NEW f, NEW ag \in Agents, NEW e \in Event
  PROVE  /\ WriteLogs(f, ag, e) \in Agents
         /\ \A a \in AgentIds : WriteLogs(f, ag, e)[a].call = ag[a].call
<1> DEFINE news == {n \in Route(f, e) : ag[n.to].up}
           set(a) == {n.child : n \in {m \in news : m.to = a /\ m.running}}
           clr(a) == {n.child : n \in {m \in news : m.to = a /\ ~m.running}}
           open == [a \in AgentIds |-> (ag[a].open \union set(a)) \ clr(a)]
<1>1. e.id \in Children
  BY EventKinds DEF Children
<1>2. \A n \in Route(f, e) : n.child = e.id
  BY DEF Route
<1>3. \A a \in AgentIds : set(a) \subseteq Children
  BY <1>1, <1>2
<1>4. WriteLogs(f, ag, e) = [a \in AgentIds |-> [ag[a] EXCEPT !.open = (@ \union set(a)) \ clr(a)]]
  BY DEF WriteLogs
<1> HIDE DEF set, clr
<1>5. \A a \in AgentIds : ag[a] \in AgentRec /\ open[a] \in SUBSET Children
  BY <1>3 DEF Agents, AgentRec
<1>6. WriteLogs(f, ag, e) = [a \in AgentIds |-> [ag[a] EXCEPT !.open = open[a]]]
  BY <1>4
<1> HIDE DEF open
<1>7. \A a \in AgentIds : /\ [ag[a] EXCEPT !.open = open[a]] \in AgentRec
                          /\ [ag[a] EXCEPT !.open = open[a]].call = ag[a].call
  BY <1>5 DEF AgentRec
<1> QED
  BY <1>6, <1>7 DEF Agents

\* The records of all the events leave the agents agents, and their calls open.
LEMMA AllLogsTypes ==
  ASSUME NEW f, NEW ag \in Agents, NEW s \in Seq(Event)
  PROVE  /\ WriteAll(f, ag, s) \in Agents
         /\ \A a \in AgentIds : WriteAll(f, ag, s)[a].call = ag[a].call
<1> DEFINE n == Len(s)
<1>1. n \in Nat /\ \A i \in 1..n : s[i] \in Event
  OBVIOUS
<1> HIDE DEF n
<1>2. PICK r : /\ r[0] = ag
               /\ \A k \in 1..n : r[k] = WriteLogs(f, r[k - 1], s[k])
               /\ r[n] = WriteAll(f, ag, s)
  BY LogsFold DEF n
<1> DEFINE G == {k \in 0..n : r[k] \in Agents /\ \A a \in AgentIds : r[k][a].call = ag[a].call}
<1>3. 0 \in G
  BY <1>1, <1>2
<1>4. ASSUME NEW k \in 0..(n - 1), k \in G
      PROVE  k + 1 \in G
  <2>1. k + 1 \in 1..n /\ k + 1 \in 0..n /\ (k + 1) - 1 = k
    BY <1>1
  <2>2. r[k + 1] = WriteLogs(f, r[k], s[k + 1]) /\ s[k + 1] \in Event
    BY <1>1, <1>2, <2>1
  <2>3. r[k] \in Agents /\ \A a \in AgentIds : r[k][a].call = ag[a].call
    BY <1>4
  <2>4. r[k + 1] \in Agents /\ \A a \in AgentIds : r[k + 1][a].call = r[k][a].call
    BY <2>2, <2>3, LogsTypes
  <2> QED
    BY <2>1, <2>3, <2>4
<1>5. \A k \in 0..n : k \in G
  <2> HIDE DEF G
  <2> QED
    BY <1>1, <1>3, <1>4, Induction
<1>6. n \in G
  BY <1>1, <1>5
<1> QED
  BY <1>2, <1>6

\* The journal write.
LEMMA PersistKeeps ==
  ASSUME IInv, Persist
  PROVE  IInv'
<1>1. Types /\ IdsGiven /\ AskedFor /\ Agreed /\ CallAnswered
  BY DEF IInv
<1>2. /\ loaded /\ forest' = Ahead /\ staged' = <<>>
      /\ UNCHANGED <<mail, loaded, heard, again, fresh, spent>>
  BY DEF Persist, Ahead, Journal
<1>3. agents' = WriteAll(forest', agents, staged)
  BY DEF Persist, WriteAll
<1>4. agents \in Agents /\ staged \in Seq(Event) /\ Ahead \in Forest /\ Good(Ahead) /\ Rooted(Ahead)
  BY <1>1 DEF Types, Sound
<1>5. agents' \in Agents /\ \A a \in AgentIds : agents'[a].call = agents[a].call
  <2>1. PICK f : f = forest'
    OBVIOUS
  <2> QED
    BY <1>3, <1>4, <2>1, AllLogsTypes
<1>6. Ahead' = Ahead
  <2>1. PICK f : f = Ahead
    OBVIOUS
  <2>2. Journal(f, <<>>) = f
    BY ApplyNone
  <2> QED
    BY <1>2, <2>1, <2>2 DEF Ahead
<1>7. Types'
  BY <1>1, <1>2, <1>4, <1>5, <1>6 DEF Types, Sound
<1>8. \A c \in Children : /\ Given(c)' <=> Given(c)
                          /\ Gone(forest, c)' <=> Gone(Ahead, c)
                          /\ Gone(Ahead, c)' <=> Gone(Ahead, c)
  BY <1>2, <1>6 DEF Given, Gone
<1>9. IdsGiven'
  BY <1>1, <1>2, <1>8 DEF IdsGiven
<1>10. \A c \in Children : Wanted(c)' => Wanted(c)
  BY <1>2 DEF Wanted, Requests
<1>11. AskedFor'
  BY <1>1, <1>2, <1>8, <1>10 DEF AskedFor, Requests
<1>12. Agreed'
  BY <1>1, <1>2, <1>6 DEF Agreed, Marked, Settled, Gone, Noted
<1>13. CallAnswered'
  BY <1>1, <1>2, <1>5 DEF CallAnswered
<1> QED
  BY <1>7, <1>9, <1>11, <1>12, <1>13 DEF IInv

\* A crash: the journal stays, and nobody waits for anything any more.
LEMMA CrashKeeps ==
  ASSUME IInv, Crash
  PROVE  IInv'
<1>1. Types /\ IdsGiven
  BY DEF IInv
<1>2. /\ Intervene("crash") /\ loaded' = FALSE /\ staged' = <<>> /\ mail' = <<>>
      /\ UNCHANGED <<forest, heard, again, fresh>>
      /\ agents' = [a \in AgentIds |-> [agents[a] EXCEPT
                      !.up = FALSE, !.busy = FALSE, !.call = NoAgent,
                      !.died = (a = Main /\ agents[a].busy)]]
  BY DEF Crash
<1>9. staged' = <<>> /\ mail' = <<>>
  BY DEF Crash
<1>3. agents' \in Agents /\ \A a \in AgentIds : agents'[a].call = NoAgent
  <2> DEFINE died(a) == a = Main /\ agents[a].busy
             ag(a) == [agents[a] EXCEPT !.up = FALSE, !.busy = FALSE, !.call = NoAgent,
                                        !.died = died(a)]
  <2>1. \A a \in AgentIds : agents[a] \in AgentRec /\ died(a) \in BOOLEAN
    BY <1>1 DEF Types, Sound, Agents, AgentRec
  <2>2. agents' = [a \in AgentIds |-> ag(a)]
    BY <1>2
  <2> HIDE DEF died
  <2>3. \A a \in AgentIds : ag(a) \in AgentRec /\ ag(a).call = NoAgent
    BY <2>1 DEF AgentRec
  <2> HIDE DEF ag
  <2> QED
    BY <2>2, <2>3 DEF Agents
<1>4. /\ "crash" \in spent'.kinds
      /\ spent' \in [turns : Nat, number : Nat, kinds : SUBSET Interventions]
  BY <1>1, <1>2, SpentGrows DEF Types
<1>5. Ahead' = forest
  <2>1. PICK f : f = forest
    OBVIOUS
  <2>2. Journal(f, <<>>) = f
    BY ApplyNone
  <2> QED
    BY <1>2, <2>1, <2>2 DEF Ahead
<1>6. Types'
  <2>1. staged' \in Seq(Event) /\ mail' \in Seq(Cmd)
    BY <1>9
  <2>2. Sound'
    BY <1>1, <1>2, <1>3 DEF Types, Sound
  <2>3. Ahead' \in Forest /\ Good(Ahead)' /\ Rooted(Ahead)'
    BY <1>1, <1>5 DEF Types, Sound, Good, Rooted
  <2> QED
    BY <1>1, <1>2, <1>4, <2>1, <2>2, <2>3 DEF Types
<1>7. IdsGiven'
  BY <1>1, <1>2, <1>5 DEF IdsGiven, Given, Gone
<1>8. AskedFor' /\ Agreed' /\ CallAnswered'
  <2>1. DOMAIN mail' = {}
    BY <1>9
  <2>2. AskedFor'
    BY <2>1 DEF AskedFor, Wanted
  <2> QED
    BY <1>3, <1>4, <2>2 DEF Agreed, CallAnswered
<1> QED
  BY <1>6, <1>7, <1>8 DEF IInv

\* A load: the repairs, and the end of a turn that died.
LEMMA LoadKeeps ==
  ASSUME IInv, Load
  PROVE  IInv'
<1> DEFINE subs == IF ActiveSubs(forest) # {} THEN <<[t |-> "Reconcile"]>> ELSE <<>>
           runs == IF InFlightSteps(forest) # {} THEN <<[t |-> "ReconcileInterrupted"]>>
                   ELSE IF \E r \in RunIds : forest.runs[r].status = "Pending"
                   THEN <<[t |-> "Advance"]>> ELSE <<>>
           told == IF agents[Main].died
                   THEN <<[t |-> "Outcome", from |-> Main, end |-> "Interrupted", out |-> ""]>>
                   ELSE <<>>
           S    == Reporting \union Repairing
<1>1. /\ ~loaded /\ loaded' = TRUE /\ UNCHANGED <<forest, staged, heard, again, fresh, spent>>
      /\ mail' = told \o subs \o runs \/ mail' = subs \o runs \o told
      /\ agents' = [agents EXCEPT ![Main].up = forest.root = "main", ![Main].died = FALSE]
  BY DEF Load
<1>2. /\ agents \in Agents /\ mail = <<>>
      /\ spent \in [turns : Nat, number : Nat, kinds : SUBSET Interventions]
  BY <1>1 DEF IInv, Types, Sound
<1>3. /\ [t |-> "Outcome", from |-> Main, end |-> "Interrupted", out |-> ""] \in S
      /\ [t |-> "Reconcile"] \in S /\ [t |-> "ReconcileInterrupted"] \in S /\ [t |-> "Advance"] \in S
  BY DEF Reporting, Repairing, Outs
<1>4. S \subseteq Cmd /\ \A cmd \in S : ~Requests(cmd)
  BY DEF Cmd, Reporting, Repairing, Requests
<1> HIDE DEF S
<1>5. told \in Seq(S) /\ subs \in Seq(S) /\ runs \in Seq(S)
  <2>1. <<>> \in Seq(S) /\ \A x \in S : <<x>> \in Seq(S)
    OBVIOUS
  <2> QED
    BY <1>3, <2>1
<1> HIDE DEF told, subs, runs
<1>6. mail' \in Seq(S)
  <2>1. \A x, y \in Seq(S) : x \o y \in Seq(S)
    OBVIOUS
  <2>2. (told \o subs) \o runs \in Seq(S) /\ (subs \o runs) \o told \in Seq(S)
    BY <1>5, <2>1
  <2> QED
    BY <1>1, <2>2
<1>7. mail' \in Seq(Cmd) /\ \A i \in DOMAIN mail' : ~Requests(mail'[i])
  BY <1>4, <1>6
<1>8. agents' \in Agents /\ \A a \in AgentIds : agents'[a].call = agents[a].call
  <2> DEFINE up == forest.root = "main"
  <2>1. agents' = [agents EXCEPT ![Main].up = up, ![Main].died = FALSE] /\ up \in BOOLEAN
    BY <1>1
  <2> HIDE DEF up
  <2> QED
    BY <1>2, <2>1 DEF Agents, AgentRec
<1>9. \A i \in DOMAIN mail : i \in DOMAIN mail' /\ mail'[i] = mail[i]
  BY <1>2
<1>10. spent' = spent /\ loaded' = TRUE
  BY <1>1
<1>11. UNCHANGED <<forest, staged, heard, again, fresh>>
  BY <1>1
<1> QED
  BY <1>2, <1>7, <1>8, <1>9, <1>10, <1>11, QuietKeeps

\* The beginning.
LEMMA InitHolds ==
  ASSUME Init
  PROVE  IInv
<1>1. PICK root \in Roots :
        /\ forest = [root |-> root,
                     subs |-> [s \in SubIds |-> NoSub],
                     runs |-> [r \in RunIds |-> IF r = RootRun /\ root = "workflow"
                                                THEN NewRun(NoAgent) ELSE NoRun]]
        /\ mail = IF root = "workflow" THEN <<[t |-> "Advance"]>> ELSE <<>>
        /\ agents = [a \in AgentIds |-> IF a = Main /\ root = "main"
                                        THEN [Quiet EXCEPT !.up = TRUE, !.queued = TRUE]
                                        ELSE Quiet]
  BY DEF Init
<1>2. /\ staged = <<>> /\ loaded = TRUE /\ heard = {} /\ again = FALSE
      /\ fresh = [subs |-> 0, runs |-> 0] /\ spent = [turns |-> 0, number |-> 0, kinds |-> {}]
  BY DEF Init
<1>3. /\ NoSub \in SubRec /\ NoSub.status = "Absent"
      /\ NoRun \in RunRec /\ NoRun.status = "Absent" /\ \A r : GoodRun(r, NoRun)
      /\ NewRun(NoAgent) \in RunRec /\ GoodRun(RootRun, NewRun(NoAgent))
  <2>2. <<>> \in Seq(StepRec)
    OBVIOUS
  <2>3. /\ NoSub \in SubRec /\ NoSub.status = "Absent"
        /\ NoRun \in RunRec /\ NoRun.status = "Absent" /\ \A r : GoodRun(r, NoRun)
    BY <2>2 DEF NoSub, NoRun, SubRec, SubStatus, RunRec, RunStatus, GoodRun, IsGone, Flying
  <2>5. NoRun.parent = NoAgent /\ NoRun.steps = <<>> /\ NoRun.status = "Absent"
    BY DEF NoRun
  <2>6. /\ NewRun(NoAgent) \in RunRec
        /\ NewRun(NoAgent).parent = NoAgent /\ NewRun(NoAgent).status = "Pending"
        /\ NewRun(NoAgent).steps = <<>>
    BY <2>3, <2>5 DEF NewRun, RunRec, RunStatus
  <2>4. NewRun(NoAgent) \in RunRec /\ GoodRun(RootRun, NewRun(NoAgent))
    BY <2>6 DEF GoodRun, IsGone, Flying
  <2> QED
    BY <2>3, <2>4
<1>4. forest \in Forest /\ Good(forest)
  BY <1>1, <1>3 DEF Forest, Good
<1>12. Rooted(forest)
  <2>1. ASSUME NEW c \in Children \ {RootRun}
        PROVE  Gone(forest, c)
    BY <1>1, <1>3 DEF Gone, Children
  <2> QED
    BY <2>1 DEF Rooted
<1>5. agents \in Agents /\ \A a \in AgentIds : agents[a].call = NoAgent
  <2>1. /\ Quiet \in AgentRec /\ Quiet.call = NoAgent
        /\ [Quiet EXCEPT !.up = TRUE, !.queued = TRUE] \in AgentRec
        /\ [Quiet EXCEPT !.up = TRUE, !.queued = TRUE].call = NoAgent
    BY DEF Quiet, AgentRec
  <2> QED
    BY <1>1, <2>1 DEF Agents
<1>6. Ahead = forest
  BY <1>2, ApplyNone DEF Ahead
<1>7. mail \in Seq(Cmd) /\ \A i \in DOMAIN mail : ~Requests(mail[i])
  <2>1. [t |-> "Advance"] \in Cmd /\ ~Requests([t |-> "Advance"])
    BY DEF Cmd, Repairing, Requests
  <2> QED
    BY <1>1, <2>1
<1>8. Types
  <2>1. staged \in Seq(Event)
    BY <1>2
  <2>2. /\ fresh \in [subs : Nat, runs : Nat]
        /\ spent \in [turns : Nat, number : Nat, kinds : SUBSET Interventions]
    BY <1>2
  <2>3. heard \in SUBSET Children /\ again \in BOOLEAN /\ loaded \in BOOLEAN /\ loaded
    BY <1>2
  <2> QED
    BY <1>4, <1>5, <1>6, <1>7, <1>12, <2>1, <2>2, <2>3 DEF Types, Sound
<1>9. IdsGiven
  <2>1. ASSUME NEW c \in Children, ~Gone(forest, c)
        PROVE  c = RootRun /\ c \notin SubIds
    <3>1. c \notin SubIds
      BY <1>1, <1>3, <2>1 DEF Gone
    <3>2. c \in RunIds
      BY <3>1 DEF Children
    <3> QED
      BY <1>1, <1>3, <2>1, <3>1, <3>2 DEF Gone
  <2>2. RootRun \notin SubIds => Given(RootRun)
    BY <1>2 DEF Given, RootRun
  <2> QED
    BY <1>2, <1>6, <2>1, <2>2 DEF IdsGiven
<1>10. AskedFor
  BY <1>7 DEF AskedFor, Wanted
<1>11. Agreed /\ CallAnswered
  BY <1>2, <1>5 DEF Agreed, Marked, CallAnswered
<1> QED
  BY <1>8, <1>9, <1>10, <1>11 DEF IInv

\* Every step keeps it.
LEMMA Inductive == Spec => []IInv
<1>1. Init => IInv
  BY InitHolds
<1>2. IInv /\ [Next]_vars => IInv'
  <2> SUFFICES ASSUME IInv, [Next]_vars PROVE IInv'
    OBVIOUS
  <2>1. CASE HandleCommand
    BY <2>1, HandleKeeps
  <2>2. CASE Persist
    BY <2>2, PersistKeeps
  <2>3. ASSUME NEW a \in AgentIds, BeginTurn(a) \/ TurnSteps(a)
        PROVE  IInv'
    BY <2>3, BeginKeeps, TurnKeeps
  <2>4. ASSUME NEW a \in AgentIds, CallTool(a, "Spawn") \/ CallTool(a, "Create")
        PROVE  IInv'
    BY <2>4, CallKeeps
  <2>5. ASSUME NEW a \in AgentIds, Stop(a) \/ UserSays(a)
        PROVE  IInv'
    BY <2>5, StopKeeps, SayKeeps
  <2>6. ASSUME NEW s \in SubIds, DeleteAgent(s)
        PROVE  IInv'
    BY <2>6, DeleteKeeps
  <2>7. ASSUME NEW k \in 1..MaxLog, RetryStep(k)
        PROVE  IInv'
    BY <2>7, RetryKeeps
  <2>8. CASE Crash
    BY <2>8, CrashKeeps
  <2>9. CASE Load
    BY <2>9, LoadKeeps
  <2>10. CASE UNCHANGED vars
    <3>1. /\ UNCHANGED <<forest, staged, heard, again, fresh>>
          /\ agents' = agents /\ mail' = mail /\ loaded' = loaded /\ spent' = spent
      BY <2>10 DEF vars
    <3>2. /\ agents \in Agents /\ mail \in Seq(Cmd) /\ loaded \in BOOLEAN
          /\ spent \in [turns : Nat, number : Nat, kinds : SUBSET Interventions]
          /\ ~loaded => mail = <<>>
      BY DEF IInv, Types, Sound
    <3> QED
      BY <3>1, <3>2, QuietKeeps
  <2> QED
    BY <2>1, <2>2, <2>3, <2>4, <2>5, <2>6, <2>7, <2>8, <2>9, <2>10 DEF Next, AgentSteps
<1> QED
  BY <1>1, <1>2, PTL DEF Spec

-----------------------------------------------------------------------------
(* What a boundary leaves: nothing, after two of its rounds *)

-----------------------------------------------------------------------------
(* The rounds run dry *)

\* Two forests have the same entry for a child.
Same(f, g, c) == IF c \in SubIds THEN f.subs[c] = g.subs[c] ELSE f.runs[c] = g.runs[c]

\* A forest that wants nothing: no result is owed, and no run wants a step or its end.
Rest(f) == Owed(f) = {} /\ \A r \in RunIds : StepActions(f, r) = {}

\* What a child wants depends on its entry only.
LEMMA SameWants ==
  ASSUME NEW f, NEW g, NEW c \in Children, Same(f, g, c)
  PROVE  /\ c \in Owed(f) <=> c \in Owed(g)
         /\ c \in RunIds => StepActions(f, c) = StepActions(g, c)
<1>1. CASE c \in SubIds
  BY <1>1, IdFacts DEF Same, Owed
<1>2. CASE c \notin SubIds
  BY <1>2, IdFacts DEF Same, Owed, StepActions
<1> QED
  BY <1>1, <1>2

\* A run that is over, interrupted, waiting, or at work wants nothing of the driver.
LEMMA NoStepActions ==
  ASSUME NEW f, NEW r,
         \/ f.runs[r].status \in {"Absent", "Suspended", "AwaitingInput"} \union Terminal
         \/ Current(f.runs[r]) # 0
  PROVE  StepActions(f, r) = {}
BY DEF StepActions

\* What an event that is not a deletion leaves of the entries it is not about.
LEMMA ApplySame ==
  ASSUME NEW f \in Forest, NEW e \in Event, e.t # "AgentDeleted", NEW c \in Children, c # e.id
  PROVE  Same(f, Apply(f, e), c)
<1>1. CASE e \in AboutRun /\ e.id \in RunIds
  <2>1. Apply(f, e) = [f EXCEPT !.runs = [@ EXCEPT ![e.id] = NextRun(f.runs[e.id], e)]]
    BY <1>1, ApplyRun
  <2> QED
    BY <1>1, <2>1 DEF Same, Forest, Children
<1>2. CASE e \in AboutSub /\ e.id \in SubIds
  <2>1. Apply(f, e) = [f EXCEPT !.subs = [@ EXCEPT ![e.id] = NextSub(f.subs[e.id], e)]]
    BY <1>2, ApplySub
  <2> QED
    BY <1>2, <2>1 DEF Same, Forest, Children
<1> QED
  BY <1>1, <1>2, EventKinds

\* What it makes of the entry it is about.
LEMMA ApplyEntry ==
  ASSUME NEW f \in Forest, NEW e \in Event
  PROVE  /\ e \in AboutRun => Apply(f, e).runs[e.id] = NextRun(f.runs[e.id], e)
         /\ e \in AboutSub => Apply(f, e).subs[e.id] = NextSub(f.subs[e.id], e)
<1>1. CASE e \in AboutRun /\ e.id \in RunIds
  <2>1. Apply(f, e) = [f EXCEPT !.runs = [@ EXCEPT ![e.id] = NextRun(f.runs[e.id], e)]]
    BY <1>1, ApplyRun
  <2>2. e \notin AboutSub
    BY <1>1, IdFacts DEF AboutSub, Spawned, SubEvent
  <2> QED
    BY <1>1, <2>1, <2>2 DEF Forest
<1>2. CASE e \in AboutSub /\ e.id \in SubIds
  <2>1. Apply(f, e) = [f EXCEPT !.subs = [@ EXCEPT ![e.id] = NextSub(f.subs[e.id], e)]]
    BY <1>2, ApplySub
  <2>2. e \notin AboutRun
    BY <1>2, IdFacts DEF AboutRun, Created, StartedStep, ConcludedStep, EndedStep, RunEvent, Invoked
  <2> QED
    BY <1>2, <2>1, <2>2 DEF Forest
<1>3. CASE e.t = "AgentDeleted"
  BY <1>3 DEF AboutRun, AboutSub, Spawned, Created, StartedStep, ConcludedStep, EndedStep, RunEvent
<1> QED
  BY <1>1, <1>2, <1>3, EventKinds

\* What is appended is in the sequence.
LEMMA LastAdded ==
  ASSUME NEW S, NEW s \in Seq(S), NEW x
  PROVE  \E k : k \in DOMAIN Append(s, x) /\ Append(s, x)[k] = x
<1>1. Len(s) + 1 \in DOMAIN Append(s, x) /\ Append(s, x)[Len(s) + 1] = x
  OBVIOUS
<1> QED
  BY <1>1

\* Events that extinguish what their child wanted.
Quieting == {"SubAgentSpawned", "SubAgentRunning", "SubAgentNotified", "RunNotified",
             "StepStarted", "AskRecorded"}

LEMMA ApplyQuiets ==
  ASSUME NEW f \in Forest, Good(f), NEW e \in Event, Fits(f, e)
  PROVE  /\ e.t \in Quieting => e.id \notin Owed(Apply(f, e))
         /\ e.t \in {"StepStarted", "AskRecorded", "RunFinished", "RunFailed"}
              => e.id \in RunIds /\ StepActions(Apply(f, e), e.id) = {}
         /\ e.t = "RunNotified"
              => e.id \in RunIds /\ StepActions(Apply(f, e), e.id) = StepActions(f, e.id)
<1> DEFINE g == Apply(f, e)
<1>1. CASE e \in AboutSub /\ e.id \in SubIds /\ e.id \notin RunIds
  <2>1. g.subs[e.id] = NextSub(f.subs[e.id], e) /\ f.subs[e.id] \in SubRec
    BY <1>1, ApplyEntry DEF Forest
  <2>2. e.t \in {"SubAgentSpawned", "SubAgentRunning", "SubAgentCompleted", "SubAgentFailed",
                 "SubAgentNotified"}
    BY <1>1 DEF AboutSub, Spawned, SubEvent
  <2> HIDE DEF g
  <2>3. e.t \in Quieting => \/ g.subs[e.id].status \notin {"Completed", "Failed"}
                            \/ g.subs[e.id].notified
    <3>1. CASE e.t = "SubAgentSpawned"
      BY <2>1, <3>1 DEF NextSub
    <3>2. CASE e.t = "SubAgentRunning"
      BY <2>1, <3>2 DEF NextSub, SubRec
    <3>3. CASE e.t = "SubAgentNotified"
      <4>1. g.subs[e.id] = [f.subs[e.id] EXCEPT !.notified = TRUE]
        BY <2>1, <3>3 DEF NextSub
      <4> QED
        BY <2>1, <4>1 DEF SubRec
    <3> QED
      BY <2>2, <3>1, <3>2, <3>3 DEF Quieting
  <2>4. e.t \in Quieting => e.id \notin Owed(g)
    BY <1>1, <2>3 DEF Owed
  <2> QED
    BY <2>2, <2>4 DEF g
<1>2. CASE e \in AboutRun /\ e.id \in RunIds /\ e.id \notin SubIds
  <2> DEFINE run  == f.runs[e.id]
             next == NextRun(run, e)
  <2>1. g.runs[e.id] = next /\ run \in RunRec /\ GoodRun(e.id, run) /\ RunFits(run, e)
    BY <1>2, ApplyEntry DEF Forest, Good, Fits
  <2>2. e.t \in {"RunCreated", "StepStarted", "StepConcluded", "StepFailed", "StepCancelled",
                 "AskRecorded", "RunFinished", "RunFailed", "RunNotified"}
    BY <1>2 DEF AboutRun, Created, StartedStep, ConcludedStep, EndedStep, RunEvent
  <2>3. next \in RunRec /\ GoodRun(e.id, next)
    BY <1>2, <2>1, NextRunGood
  <2>4. /\ e.t = "AskRecorded" => next.status = "AwaitingInput"
        /\ e.t = "RunFinished" => next.status = "Finished"
        /\ e.t = "RunFailed" => next.status = "Failed"
        /\ e.t = "RunNotified" => next = [run EXCEPT !.notified = TRUE]
    BY <2>1 DEF NextRun, RunRec
  <2>5. e.t = "StepStarted" => next.status = "Running" /\ ~Idle(next)
    <3> SUFFICES ASSUME e.t = "StepStarted" PROVE next.status = "Running" /\ ~Idle(next)
      OBVIOUS
    <3> DEFINE step  == [step |-> e.step, status |-> "Running", out |-> ""]
               steps == Append(run.steps, step)
    <3>1. next = [run EXCEPT !.steps = steps, !.status = "Running"]
      BY DEF NextRun
    <3>2. run.steps \in Seq(StepRec) /\ step.status = "Running"
      BY <2>1 DEF RunRec
    <3> HIDE DEF step
    <3>3. PICK k : k \in DOMAIN steps /\ steps[k] = step
      BY <3>2, LastAdded
    <3> HIDE DEF steps, next
    <3>4. next.steps = steps /\ next.status = "Running"
      BY <2>1, <3>1 DEF RunRec
    <3>5. k \in Flying(next)
      BY <3>2, <3>3, <3>4 DEF Flying
    <3> QED
      BY <3>4, <3>5 DEF Idle
  <2> HIDE DEF next, g
  <2>6. e.t \in Quieting => g.runs[e.id].status \notin Terminal \/ g.runs[e.id].notified
    BY <2>1, <2>2, <2>4, <2>5 DEF Quieting, Terminal, RunRec
  <2>7. e.t \in Quieting => e.id \notin Owed(g)
    BY <1>2, <2>6 DEF Owed
  <2>8. e.t = "StepStarted" => Current(g.runs[e.id]) # 0
    BY <2>1, <2>3, <2>5, CurrentIs
  <2>9. e.t \in {"StepStarted", "AskRecorded", "RunFinished", "RunFailed"}
          => StepActions(g, e.id) = {}
    BY <2>1, <2>4, <2>8, NoStepActions DEF Terminal
  <2>10. e.t = "RunNotified" => StepActions(g, e.id) = StepActions(f, e.id)
    <3> SUFFICES ASSUME e.t = "RunNotified" PROVE StepActions(g, e.id) = StepActions(f, e.id)
      OBVIOUS
    <3>1. next.status = run.status /\ next.steps = run.steps
      BY <2>1, <2>4 DEF RunRec
    <3> QED
      BY <2>1, <3>1 DEF StepActions, Current
  <2> QED
    BY <1>2, <2>7, <2>9, <2>10 DEF g
<1>3. CASE e.t = "AgentDeleted"
  BY <1>3 DEF Quieting
<1> QED
  BY <1>1, <1>2, <1>3, EventKinds

\* A forest at rest stays so when a subagent is spawned or resumes, when a step asks,
\* and when an agent is deleted.
LEMMA RestStays ==
  ASSUME NEW f \in Forest, Good(f), Rest(f), NEW e \in Event, Fits(f, e),
         e.t \in {"SubAgentSpawned", "SubAgentRunning", "AskRecorded", "AgentDeleted"}
  PROVE  Rest(Apply(f, e))
<1> DEFINE g == Apply(f, e)
<1>0. Owed(g) \subseteq Children /\ RunIds \subseteq Children
  BY DEF Owed, Children
<1>1. CASE e.t = "AgentDeleted"
  <2>1. /\ \A s \in SubIds : g.subs[s] \in {f.subs[s], NoSub}
        /\ \A r \in RunIds : g.runs[r] \in {f.runs[r], NoRun}
    BY <1>1, ApplyDelete
  <2>2. NoSub.status = "Absent" /\ NoRun.status = "Absent"
    BY DEF NoSub, NoRun
  <2> HIDE DEF g
  <2>3. ASSUME NEW c \in Owed(g) PROVE FALSE
    <3>1. c \in Children /\ c \notin Owed(f)
      BY <1>0 DEF Rest
    <3>2. CASE c \in SubIds
      <4>1. g.subs[c] = NoSub
        BY <2>1, <3>1, <3>2, SameWants DEF Same
      <4> QED
        BY <2>2, <2>3, <3>2, <4>1, IdFacts DEF Owed
    <3>3. CASE c \notin SubIds
      <4>1. c \in RunIds /\ g.runs[c] = NoRun
        BY <2>1, <3>1, <3>3, SameWants DEF Same, Children
      <4> QED
        BY <2>2, <2>3, <3>3, <4>1 DEF Owed, Terminal
    <3> QED
      BY <3>2, <3>3
  <2>4. ASSUME NEW r \in RunIds PROVE StepActions(g, r) = {}
    <3>1. CASE g.runs[r] = f.runs[r]
      BY <1>0, <3>1, SameWants, IdFacts DEF Same, Rest
    <3>2. CASE g.runs[r] = NoRun
      BY <2>2, <3>2, NoStepActions
    <3> QED
      BY <2>1, <3>1, <3>2
  <2> QED
    BY <2>3, <2>4 DEF Rest, g
<1>2. CASE e.t # "AgentDeleted"
  <2>1. \A c \in Children : c # e.id => Same(f, g, c)
    BY <1>2, ApplySame
  <2>2. e.id \notin Owed(g)
    BY <1>2, ApplyQuiets DEF Quieting
  <2>3. e.t = "AskRecorded" => StepActions(g, e.id) = {}
    BY ApplyQuiets
  <2>4. e.t # "AskRecorded" => e.id \notin RunIds
    <3>1. e.t # "AskRecorded" => e \notin AboutRun
      BY <1>2 DEF AboutRun, Created, StartedStep, ConcludedStep, EndedStep, RunEvent
    <3> QED
      BY <1>2, <3>1, EventKinds
  <2> HIDE DEF g
  <2>5. \A c \in Children : c \notin Owed(g)
    BY <2>1, <2>2, SameWants DEF Rest
  <2>6. \A r \in RunIds : StepActions(g, r) = {}
    BY <1>0, <2>1, <2>3, <2>4, SameWants DEF Rest
  <2> QED
    BY <1>0, <2>5, <2>6 DEF Rest, g
<1> QED
  BY <1>1, <1>2

\* An action of a round is one event, about the child the action is about.
LEMMA PerformIs ==
  ASSUME NEW h, Sane(h), NEW b \in Action, Ready(h, b)
  PROVE  \E e \in Event :
           /\ Perform(h, b).f = Apply(h.f, e)
           /\ Fits(h.f, e) /\ e.id = b.id
           /\ b.t = "Deliver" => e.t \in {"SubAgentNotified", "RunNotified"}
           /\ b.t = "StartStep" => e.t = "StepStarted"
           /\ b.t \in {"Finish", "Fail"} => e.t \in {"RunFinished", "RunFailed"}
<1>0. h \in Hands /\ h.f \in Forest /\ h.ag \in Agents /\ h.ev \in Seq(Event)
  BY DEF Sane, Hands
<1>1. CASE b \in Delivery
  <2> DEFINE c == b.id
             p == ParentOfChild(h.f, c)
             g == [h EXCEPT !.ag = Enqueue(@, p), !.again = @ \/ c \in h.heard,
                            !.heard = @ \union {c}]
             e == [t |-> IF c \in RunIds THEN "RunNotified" ELSE "SubAgentNotified", id |-> c]
  <2>1. b = [t |-> "Deliver", id |-> c] /\ c \in Children /\ b.t = "Deliver"
    BY <1>1 DEF Delivery
  <2>2. e \in Event /\ e.t \in {"SubAgentNotified", "RunNotified"} /\ e.id = c
    BY <2>1 DEF Event, RunEvent, SubEvent, Children
  <2>3. Perform(h, b) = Emit(g, e)
    BY <2>1 DEF Perform, Deliver
  <2>4. Enqueue(h.ag, p) \in Agents
    BY <1>0, ReachTypes
  <2> HIDE DEF p
  <2>5. g \in Hands /\ g.f = h.f
    BY <1>0, <2>1, <2>4 DEF Hands
  <2> HIDE DEF g, e
  <2>6. Emit(g, e).f = Apply(h.f, e)
    BY <2>2, <2>5, EmitParts
  <2>7. Fits(h.f, e)
    BY <2>2 DEF Fits, RunFits, OfRun, OfStep
  <2> QED
    BY <2>1, <2>2, <2>3, <2>6, <2>7
<1>2. CASE b \in Starting
  <2> DEFINE r == b.id
             a == StepOf(r, Len(h.f.runs[r].steps) + 1)
             g == [h EXCEPT !.ag = Enqueue(@, a)]
             e == [t |-> "StepStarted", id |-> r, step |-> b.step]
  <2>1. r \in RunIds /\ b.step \in DOMAIN Transitions /\ b.t = "StartStep"
    BY <1>2 DEF Starting
  <2>2. e \in Event /\ e.t = "StepStarted" /\ e.id = r
    BY <2>1 DEF Event, StartedStep
  <2>3. Perform(h, b) = Emit(g, e)
    BY <2>1 DEF Perform, StartStep
  <2>4. Enqueue(h.ag, a) \in Agents
    BY <1>0, ReachTypes
  <2> HIDE DEF a
  <2>5. g \in Hands /\ g.f = h.f
    BY <1>0, <2>4 DEF Hands
  <2> HIDE DEF g, e
  <2>6. Emit(g, e).f = Apply(h.f, e)
    BY <2>2, <2>5, EmitParts
  <2>7. Fits(h.f, e)
    BY <2>1, <2>2 DEF Ready, Fits, RunFits, OfRun, OfStep
  <2> QED
    BY <2>1, <2>2, <2>3, <2>6, <2>7
<1>3. CASE b \in Ending
  <2> DEFINE e == [t |-> IF b.t = "Finish" THEN "RunFinished" ELSE "RunFailed", id |-> b.id]
  <2>1. b.id \in RunIds /\ b.t \in {"Finish", "Fail"}
    BY <1>3 DEF Ending
  <2>2. e \in Event /\ e.t \in {"RunFinished", "RunFailed"} /\ e.id = b.id
    BY <2>1 DEF Event, RunEvent
  <2>3. Perform(h, b) = Emit(h, e)
    BY <2>1 DEF Perform
  <2> HIDE DEF e
  <2>6. Emit(h, e).f = Apply(h.f, e)
    BY <1>0, <2>2, EmitParts
  <2>7. Fits(h.f, e)
    BY <2>1, <2>2 DEF Ready, Fits, RunFits, OfRun, OfStep
  <2> QED
    BY <2>1, <2>2, <2>3, <2>6, <2>7
<1> QED
  BY <1>1, <1>2, <1>3 DEF Action

\* The sequence of a finite set has all its elements.
LEMMA SequenceHas ==
  ASSUME NEW S, IsFiniteSet(S), NEW x \in S
  PROVE  \E i \in 1..Len(SetToSeq(S)) : SetToSeq(S)[i] = x
<1> DEFINE n == Cardinality(S)
           q == SetToSeq(S)
<1>1. n \in Nat
  BY FS_CardinalityType
<1>2. \E p \in [1..n -> S] : IsInjective(p)
  <2>1. ExistsBijection(1..n, S)
    BY FS_CardinalityType
  <2>2. PICK p \in [1..n -> S] : \A i, j \in 1..n : p[i] = p[j] => i = j
    BY <2>1 DEF ExistsBijection, Bijection, Injection, IsInjective
  <2> QED
    BY <2>2 DEF IsInjective
<1>3. q \in [1..n -> S] /\ IsInjective(q)
  BY <1>2 DEF SetToSeq
<1>4. IsFiniteSet(1..n) /\ Cardinality(1..n) = n
  BY <1>1, FS_Interval
<1> HIDE DEF q
<1>5. q \in Injection(1..n, S)
  BY <1>3 DEF Injection, IsInjective
<1>6. Cardinality(1..n) = Cardinality(S) <=> q \in Surjection(1..n, S)
  BY <1>5, FS_Injection
<1>7. q \in Surjection(1..n, S)
  BY <1>4, <1>6
<1>8. \E i \in 1..n : q[i] = x
  BY <1>7 DEF Surjection
<1>9. Len(q) = n
  BY <1>1, <1>3
<1> QED
  BY <1>8, <1>9 DEF q

\* What a boundary sets off: one action for each child that wants one, and no other.
LEMMA NextActionsAll ==
  ASSUME NEW f \in Forest, Good(f)
  PROVE  LET s == NextActions(f) IN
         /\ \A i, j \in 1..Len(s) : s[i].id = s[j].id => i = j
         /\ \A i \in 1..Len(s) :
              \/ s[i].t = "Deliver" /\ s[i].id \in Owed(f)
              \/ /\ s[i].t \in {"StartStep", "Finish", "Fail"}
                 /\ s[i].id \in RunIds /\ s[i] \in StepActions(f, s[i].id)
         /\ \A c \in Owed(f) : Known(f, ParentOfChild(f, c))
              => \E i \in 1..Len(s) : s[i].t = "Deliver" /\ s[i].id = c
         /\ \A r \in RunIds : StepActions(f, r) # {} => \E i \in 1..Len(s) : s[i].id = r
<1> DEFINE owed == {d \in Owed(f) : Known(f, ParentOfChild(f, d))}
           D == {[t |-> "Deliver", id |-> c] : c \in owed}
           U == UNION {StepActions(f, r) : r \in RunIds}
           s == SetToSeq(D)
           q == SetToSeq(U)
           a == s \o q
<1>1. NextActions(f) = a
  BY DEF NextActions
<1>2. Owed(f) \subseteq Children
  BY DEF Owed, Children
<1>3. /\ \A b \in D : b.t = "Deliver" /\ b.id \in owed /\ b.id \in Children
      /\ \A b, d \in D : b.id = d.id => b = d
      /\ \A c \in owed : \E b \in D : b.t = "Deliver" /\ b.id = c
  <2>1. owed \subseteq Children
    BY <1>2
  <2> HIDE DEF owed
  <2>2. ASSUME NEW c \in owed
        PROVE  \E b \in D : b.t = "Deliver" /\ b.id = c
    <3>1. [t |-> "Deliver", id |-> c] \in D
      OBVIOUS
    <3> QED
      BY <3>1
  <2> QED
    BY <2>1, <2>2
<1>4. \A b \in U : /\ b.t \in {"StartStep", "Finish", "Fail"} /\ b.id \in RunIds /\ b.id \in Children
                   /\ b \in StepActions(f, b.id)
  BY StepActionIs DEF Starting, Ending, Children
<1>5. \A b, d \in U : b.id = d.id => b = d
  BY <1>4, StepActionIs
<1>6. \A r \in RunIds : StepActions(f, r) # {} => \E b \in U : b.id = r
  <2> SUFFICES ASSUME NEW r \in RunIds, StepActions(f, r) # {} PROVE \E b \in U : b.id = r
    OBVIOUS
  <2>1. PICK b : b \in StepActions(f, r)
    OBVIOUS
  <2>2. b \in U /\ b.id = r
    BY <2>1, StepActionIs
  <2> QED
    BY <2>2
<1>7. \A b \in D, d \in U : b.id # d.id
  <2> SUFFICES ASSUME NEW b \in D, NEW d \in U, b.id = d.id PROVE FALSE
    OBVIOUS
  <2>1. b.id \in Owed(f) /\ b.id \in RunIds /\ d \in StepActions(f, b.id)
    BY <1>3, <1>4
  <2> HIDE DEF D, U
  <2>2. f.runs[b.id].status \in Terminal
    BY <2>1, IdFacts DEF Owed
  <2> QED
    BY <2>1, <2>2, NoStepActions
<1> HIDE DEF D, U
<1>8. IsFiniteSet(D) /\ IsFiniteSet(U)
  BY <1>3, <1>4, <1>5, FiniteById
<1>9. /\ s \in Seq(D) /\ \A i, j \in 1..Len(s) : s[i] = s[j] => i = j
      /\ q \in Seq(U) /\ \A i, j \in 1..Len(q) : q[i] = q[j] => i = j
  BY <1>8, SequenceOf
<1>10. /\ \A b \in D : \E i \in 1..Len(s) : s[i] = b
       /\ \A b \in U : \E i \in 1..Len(q) : q[i] = b
  BY <1>8, SequenceHas
<1> HIDE DEF s, q
<1>11. /\ Len(s) \in Nat /\ Len(q) \in Nat /\ Len(a) = Len(s) + Len(q)
       /\ \A i \in 1..Len(a) : \/ i \in 1..Len(s) /\ a[i] = s[i] /\ a[i] \in D
                               \/ /\ i - Len(s) \in 1..Len(q) /\ i > Len(s)
                                  /\ a[i] = q[i - Len(s)] /\ a[i] \in U
       /\ \A i \in 1..Len(s) : i \in 1..Len(a) /\ a[i] = s[i]
       /\ \A i \in 1..Len(q) : Len(s) + i \in 1..Len(a) /\ a[Len(s) + i] = q[i]
  BY <1>9
<1> HIDE DEF a
<1>12. ASSUME NEW i \in 1..Len(a), NEW j \in 1..Len(a), a[i].id = a[j].id
       PROVE  i = j
  <2>1. \/ i \in 1..Len(s) /\ a[i] = s[i] /\ a[i] \in D
        \/ i - Len(s) \in 1..Len(q) /\ i > Len(s) /\ a[i] = q[i - Len(s)] /\ a[i] \in U
    BY <1>11
  <2>2. \/ j \in 1..Len(s) /\ a[j] = s[j] /\ a[j] \in D
        \/ j - Len(s) \in 1..Len(q) /\ j > Len(s) /\ a[j] = q[j - Len(s)] /\ a[j] \in U
    BY <1>11
  <2>3. CASE a[i] \in D /\ a[j] \in D /\ i \in 1..Len(s) /\ a[i] = s[i] /\ j \in 1..Len(s) /\ a[j] = s[j]
    BY <1>3, <1>9, <1>12, <2>3
  <2>4. CASE /\ a[i] \in U /\ a[j] \in U
             /\ i - Len(s) \in 1..Len(q) /\ a[i] = q[i - Len(s)]
             /\ j - Len(s) \in 1..Len(q) /\ a[j] = q[j - Len(s)]
    <3>1. q[i - Len(s)] = q[j - Len(s)]
      BY <1>5, <1>12, <2>4
    <3>2. i - Len(s) = j - Len(s)
      BY <1>9, <2>4, <3>1
    <3> QED
      BY <1>11, <3>2
  <2>5. CASE (a[i] \in D /\ a[j] \in U) \/ (a[i] \in U /\ a[j] \in D)
    BY <1>7, <1>12, <2>5
  <2> QED
    BY <2>1, <2>2, <2>3, <2>4, <2>5
<1>13. \A i \in 1..Len(a) :
         \/ a[i].t = "Deliver" /\ a[i].id \in Owed(f)
         \/ /\ a[i].t \in {"StartStep", "Finish", "Fail"}
            /\ a[i].id \in RunIds /\ a[i] \in StepActions(f, a[i].id)
  BY <1>3, <1>4, <1>11
<1>14. \A b \in D \union U : \E i \in 1..Len(a) : a[i] = b
  <2>1. ASSUME NEW b \in D
        PROVE  \E i \in 1..Len(a) : a[i] = b
    <3>1. PICK i \in 1..Len(s) : s[i] = b
      BY <1>10
    <3> QED
      BY <1>11, <3>1
  <2>2. ASSUME NEW b \in U
        PROVE  \E i \in 1..Len(a) : a[i] = b
    <3>1. PICK i \in 1..Len(q) : q[i] = b
      BY <1>10
    <3> QED
      BY <1>11, <3>1
  <2> QED
    BY <2>1, <2>2
<1>15. \A c \in owed : \E i \in 1..Len(a) : a[i].t = "Deliver" /\ a[i].id = c
  <2> SUFFICES ASSUME NEW c \in owed
               PROVE  \E i \in 1..Len(a) : a[i].t = "Deliver" /\ a[i].id = c
    OBVIOUS
  <2>1. PICK b \in D : b.t = "Deliver" /\ b.id = c
    BY <1>3
  <2> QED
    BY <1>14, <2>1
<1>16. \A r \in RunIds : StepActions(f, r) # {} => \E i \in 1..Len(a) : a[i].id = r
  <2> SUFFICES ASSUME NEW r \in RunIds, StepActions(f, r) # {}
               PROVE  \E i \in 1..Len(a) : a[i].id = r
    OBVIOUS
  <2>1. PICK b \in U : b.id = r
    BY <1>6
  <2> QED
    BY <1>14, <2>1
<1> QED
  BY <1>1, <1>12, <1>13, <1>15, <1>16

\* The parent of a child that is there is known.
LEMMA ParentKnown ==
  ASSUME NEW f \in Forest, Good(f), Rooted(f), NEW c \in Owed(f)
  PROVE  Known(f, ParentOfChild(f, c))
<1>1. c \in Children /\ c # RootRun /\ ~Gone(f, c)
  <2>1. CASE c \in SubIds
    BY <2>1, IdFacts DEF Owed, Children, Gone
  <2>2. CASE c \notin SubIds
    <3>1. c \in RunIds /\ f.runs[c].status \in Terminal /\ f.runs[c].parent # NoAgent
      BY <2>2 DEF Owed
    <3>2. c # RootRun
      BY <3>1 DEF Good, GoodRun
    <3> QED
      BY <2>2, <3>1, <3>2 DEF Gone, Terminal, Children
  <2> QED
    BY <2>1, <2>2
<1>2. PICK s : Line(f, ParentOfChild(f, c), s)
  BY <1>1 DEF Rooted, Reaches
<1>3. 1 \in 1..Len(s) /\ s[1] = ParentOfChild(f, c)
  BY <1>2 DEF Line
<1> QED
  BY <1>2, <1>3 DEF Line

\* What an action has extinguished.
Spent(f, b) == /\ b.t = "Deliver" => b.id \notin Owed(f)
               /\ b.id \in RunIds => StepActions(f, b.id) = {}

\* A round: no run wants anything after it, and a result it leaves owed is of a run
\* that it ended.
LEMMA RoundSpends ==
  ASSUME NEW h, Sane(h)
  PROVE  /\ \A r \in RunIds : StepActions(Round(h).f, r) = {}
         /\ \A c \in Owed(Round(h).f) : c \in RunIds /\ StepActions(h.f, c) # {}
<1> DEFINE s == NextActions(h.f)
           n == Len(s)
<1>1. h.f \in Forest /\ Good(h.f) /\ Rooted(h.f)
  BY DEF Sane, Hands
<1>2. /\ s \in Seq(Action)
      /\ \A i, j \in 1..n : i # j => Apart(s[i], s[j])
      /\ \A i \in 1..n : /\ s[i].t \in {"StartStep", "Finish", "Fail"} =>
                              ~IsGone(h.f.runs[s[i].id]) /\ Idle(h.f.runs[s[i].id])
                         /\ s[i].t = "Deliver" => ~Settled(h.f, s[i].id)
  BY <1>1, NextActionsAre
<1>3. /\ \A i, j \in 1..n : s[i].id = s[j].id => i = j
      /\ \A i \in 1..n :
           \/ s[i].t = "Deliver" /\ s[i].id \in Owed(h.f)
           \/ /\ s[i].t \in {"StartStep", "Finish", "Fail"}
              /\ s[i].id \in RunIds /\ s[i] \in StepActions(h.f, s[i].id)
      /\ \A c \in Owed(h.f) : Known(h.f, ParentOfChild(h.f, c))
           => \E i \in 1..n : s[i].t = "Deliver" /\ s[i].id = c
      /\ \A r \in RunIds : StepActions(h.f, r) # {} => \E i \in 1..n : s[i].id = r
  BY <1>1, NextActionsAll
<1>4. Round(h) = PerformAll(h, s)
  BY DEF Round, PerformAll
<1> HIDE DEF s
<1>5. n \in Nat /\ \A i \in 1..n : s[i] \in Action
  BY <1>2
<1>6. ASSUME NEW i \in 1..n
      PROVE  Ready(h, s[i])
  <2>1. CASE s[i].t = "Deliver"
    <3>1. s[i].id \in Children
      BY <1>5, <2>1 DEF Action, Delivery, Starting, Ending
    <3>2. ~Settled(h.f, s[i].id)
      BY <1>2, <2>1
    <3>3. ~Gone(forest, s[i].id)
      BY <3>1, <3>2 DEF Sane, Settled
    <3>4. ~again /\ Marked(heard, forest) => s[i].id \notin h.heard
      BY <3>2 DEF Sane, Marked
    <3> QED
      BY <2>1, <3>3, <3>4 DEF Ready
  <2>2. CASE s[i].t # "Deliver"
    BY <1>2, <2>2 DEF Ready
  <2> QED
    BY <2>1, <2>2
<1> HIDE DEF n
<1>7. PICK r : /\ r[0] = h
               /\ \A k \in 1..n : r[k] = Perform(r[k - 1], s[k])
               /\ r[n] = PerformAll(h, s)
  BY <1>2, PerformFold DEF n
<1> DEFINE G == {k \in 0..n :
                   /\ Sane(r[k]) /\ \A i \in (k + 1)..n : Ready(r[k], s[i])
                   /\ \A i \in 1..k : Spent(r[k].f, s[i])
                   /\ \A c \in Children : (\A i \in 1..k : s[i].id # c) => Same(h.f, r[k].f, c)}
<1>8. 0 \in G
  <2>1. 1..0 = {} /\ 0 \in 0..n /\ \A i \in (0 + 1)..n : i \in 1..n
    BY <1>5
  <2>2. \A c \in Children : Same(h.f, h.f, c)
    BY DEF Same
  <2> QED
    BY <1>6, <1>7, <2>1, <2>2
<1>9. ASSUME NEW k \in 0..(n - 1), k \in G
      PROVE  k + 1 \in G
  <2>1. k + 1 \in 1..n /\ k + 1 \in 0..n /\ (k + 1) - 1 = k /\ k + 1 \in (k + 1)..n
    BY <1>5
  <2>2. r[k + 1] = Perform(r[k], s[k + 1])
    BY <1>7, <2>1
  <2>3. /\ Sane(r[k]) /\ \A i \in (k + 1)..n : Ready(r[k], s[i])
        /\ \A i \in 1..k : Spent(r[k].f, s[i])
        /\ \A c \in Children : (\A i \in 1..k : s[i].id # c) => Same(h.f, r[k].f, c)
    BY <1>9
  <2>4. s[k + 1] \in Action /\ Ready(r[k], s[k + 1])
    BY <1>5, <2>1, <2>3
  <2>5. /\ Sane(r[k + 1])
        /\ \A d \in Action : Ready(r[k], d) /\ Apart(s[k + 1], d) => Ready(r[k + 1], d)
    BY <2>2, <2>3, <2>4, PerformSane
  <2>6. ASSUME NEW i \in (k + 1 + 1)..n
        PROVE  Ready(r[k + 1], s[i])
    <3>1. i \in 1..n /\ i # k + 1 /\ i \in (k + 1)..n
      BY <1>5, <2>1
    <3>2. s[i] \in Action /\ Ready(r[k], s[i]) /\ Apart(s[k + 1], s[i])
      BY <1>2, <1>5, <2>1, <2>3, <3>1 DEF n
    <3> QED
      BY <2>5, <3>2
  <2>7. PICK e \in Event :
          /\ r[k + 1].f = Apply(r[k].f, e)
          /\ Fits(r[k].f, e) /\ e.id = s[k + 1].id
          /\ s[k + 1].t = "Deliver" => e.t \in {"SubAgentNotified", "RunNotified"}
          /\ s[k + 1].t = "StartStep" => e.t = "StepStarted"
          /\ s[k + 1].t \in {"Finish", "Fail"} => e.t \in {"RunFinished", "RunFailed"}
    BY <2>2, <2>3, <2>4, PerformIs
  <2>8. /\ s[k + 1].t \in {"Deliver", "StartStep", "Finish", "Fail"}
        /\ e.t # "AgentDeleted" /\ s[k + 1].id \in Children
    <3>1. s[k + 1].t \in {"Deliver", "StartStep", "Finish", "Fail"} /\ s[k + 1].id \in Children
      BY <2>4 DEF Action, Delivery, Starting, Ending, Children
    <3> QED
      BY <2>7, <3>1
  <2>9. r[k].f \in Forest /\ Good(r[k].f)
    BY <2>3 DEF Sane, Hands
  <2>10. \A c \in Children : c # s[k + 1].id => Same(r[k].f, r[k + 1].f, c)
    BY <2>7, <2>8, <2>9, ApplySame
  <2>11. Same(h.f, r[k].f, s[k + 1].id)
    <3>1. \A i \in 1..k : i \in 1..n /\ i # k + 1
      BY <1>5, <2>1
    <3>2. \A i \in 1..k : s[i].id # s[k + 1].id
      BY <1>3, <2>1, <3>1 DEF n
    <3> QED
      BY <2>3, <2>8, <3>2
  <2>12. Spent(r[k + 1].f, s[k + 1])
    <3>1. s[k + 1].t = "Deliver" => s[k + 1].id \notin Owed(r[k + 1].f)
      BY <2>7, <2>9, ApplyQuiets DEF Quieting
    <3>2. CASE s[k + 1].t # "Deliver"
      BY <2>7, <2>8, <2>9, <3>2, ApplyQuiets DEF Spent
    <3>3. CASE s[k + 1].t = "Deliver" /\ s[k + 1].id \in RunIds
      <4>1. s[k + 1].id \in Owed(h.f)
        BY <1>3, <2>1, <3>3 DEF n
      <4>2. h.f.runs[s[k + 1].id].status \in Terminal
        BY <3>3, <4>1, IdFacts DEF Owed
      <4>3. StepActions(r[k].f, s[k + 1].id) = {}
        BY <2>8, <2>11, <3>3, <4>2, NoStepActions, SameWants
      <4>4. e.t = "RunNotified"
        <5>1. e \notin AboutSub
          BY <2>7, <3>3, IdFacts DEF AboutSub, Spawned, SubEvent
        <5> QED
          BY <2>7, <3>3, <5>1, EventKinds DEF AboutRun, Created, StartedStep, ConcludedStep,
             EndedStep, RunEvent, Invoked, AboutSub, Spawned, SubEvent
      <4>5. StepActions(r[k + 1].f, s[k + 1].id) = {}
        BY <2>7, <2>9, <4>3, <4>4, ApplyQuiets
      <4> QED
        BY <3>1, <4>5 DEF Spent
    <3> QED
      BY <3>1, <3>2, <3>3 DEF Spent
  <2>13. ASSUME NEW i \in 1..(k + 1)
         PROVE  Spent(r[k + 1].f, s[i])
    <3>1. CASE i = k + 1
      BY <2>12, <3>1
    <3>2. CASE i # k + 1
      <4>1. i \in 1..k /\ i \in 1..n
        BY <1>5, <2>1, <3>2
      <4>2. Spent(r[k].f, s[i]) /\ s[i].id # s[k + 1].id /\ s[i] \in Action
        BY <1>3, <1>5, <2>1, <2>3, <3>2, <4>1 DEF n
      <4>3. s[i].id \in Children
        BY <4>2 DEF Action, Delivery, Starting, Ending, Children
      <4>4. Same(r[k].f, r[k + 1].f, s[i].id)
        BY <2>10, <4>2, <4>3
      <4> QED
        BY <4>2, <4>3, <4>4, SameWants DEF Spent
    <3> QED
      BY <3>1, <3>2
  <2>14. ASSUME NEW c \in Children, \A i \in 1..(k + 1) : s[i].id # c
         PROVE  Same(h.f, r[k + 1].f, c)
    <3>1. k + 1 \in 1..(k + 1) /\ \A i \in 1..k : i \in 1..(k + 1)
      BY <1>5
    <3>2. Same(h.f, r[k].f, c) /\ c # s[k + 1].id
      BY <2>3, <2>14, <3>1
    <3>3. Same(r[k].f, r[k + 1].f, c)
      BY <2>10, <3>2
    <3> QED
      BY <3>2, <3>3 DEF Same
  <2> QED
    BY <2>1, <2>5, <2>6, <2>13, <2>14
<1>10. \A k \in 0..n : k \in G
  <2> HIDE DEF G
  <2> QED
    BY <1>5, <1>8, <1>9, Induction
<1>11. n \in G
  BY <1>5, <1>10
<1> DEFINE g == Round(h).f
<1>12. /\ \A i \in 1..n : Spent(g, s[i])
       /\ \A c \in Children : (\A i \in 1..n : s[i].id # c) => Same(h.f, g, c)
  BY <1>4, <1>7, <1>11
<1> HIDE DEF g, G
<1>13. ASSUME NEW x \in RunIds
       PROVE  StepActions(g, x) = {}
  <2>1. x \in Children
    BY DEF Children
  <2>2. CASE \E i \in 1..n : s[i].id = x
    BY <1>12, <2>2 DEF Spent
  <2>3. CASE \A i \in 1..n : s[i].id # x
    <3>1. StepActions(h.f, x) = {}
      BY <1>3, <2>3 DEF n
    <3> QED
      BY <1>12, <2>1, <2>3, <3>1, SameWants
  <2> QED
    BY <2>2, <2>3
<1>14. ASSUME NEW c \in Owed(g)
       PROVE  c \in RunIds /\ StepActions(h.f, c) # {}
  <2>1. c \in Children
    BY DEF Owed, Children
  <2>2. CASE \A i \in 1..n : s[i].id # c
    <3>1. c \in Owed(h.f)
      BY <1>12, <2>1, <2>2, SameWants
    <3>2. Known(h.f, ParentOfChild(h.f, c))
      BY <1>1, <3>1, ParentKnown
    <3> QED
      BY <1>3, <2>2, <3>1, <3>2 DEF n
  <2>3. CASE \E i \in 1..n : s[i].id = c
    <3>1. PICK i \in 1..n : s[i].id = c
      BY <2>3
    <3>2. s[i].t # "Deliver"
      BY <1>12, <3>1 DEF Spent
    <3>3. c \in RunIds /\ s[i] \in StepActions(h.f, c)
      BY <1>3, <3>1, <3>2 DEF n
    <3> QED
      BY <3>3
  <2> QED
    BY <2>2, <2>3
<1> QED
  BY <1>13, <1>14 DEF g

\* Two rounds leave nothing to do, whatever there was.
LEMMA TwoRoundsRest ==
  ASSUME NEW h, Sane(h)
  PROVE  Rest(Round(Round(h)).f)
<1>1. Sane(Round(h))
  BY RoundSane
<1>2. \A r \in RunIds : StepActions(Round(h).f, r) = {}
  BY RoundSpends
<1>3. /\ \A r \in RunIds : StepActions(Round(Round(h)).f, r) = {}
      /\ \A c \in Owed(Round(Round(h)).f) : c \in RunIds /\ StepActions(Round(h).f, c) # {}
  BY <1>1, RoundSpends
<1> QED
  BY <1>2, <1>3 DEF Rest

\* A forest at rest wants no action.
LEMMA RestWantsNothing ==
  ASSUME NEW f \in Forest, Good(f), Rest(f)
  PROVE  NextActions(f) = <<>>
<1> DEFINE s == NextActions(f)
<1>1. s \in Seq(Action)
  BY NextActionsAre
<1>2. \A i \in 1..Len(s) :
        \/ s[i].id \in Owed(f)
        \/ s[i].id \in RunIds /\ s[i] \in StepActions(f, s[i].id)
  BY NextActionsAll
<1> HIDE DEF s
<1>3. \A i \in 1..Len(s) : FALSE
  BY <1>2 DEF Rest
<1>4. Len(s) = 0
  BY <1>1, <1>3
<1>5. s = <<>>
  BY <1>1, <1>4
<1> QED
  BY <1>5 DEF s

\* A round with nothing to do does nothing.
LEMMA RestRound ==
  ASSUME NEW h, Sane(h), Rest(h.f)
  PROVE  Round(h) = h
<1>1. NextActions(h.f) = <<>>
  BY RestWantsNothing DEF Sane, Hands
<1>2. PICK s : s = NextActions(h.f)
  OBVIOUS
<1>3. s \in Seq(Action) /\ Len(s) = 0
  BY <1>1, <1>2, NextActionsAre DEF Sane, Hands
<1>4. Round(h) = PerformAll(h, s)
  BY <1>2 DEF Round, PerformAll
<1>5. PICK r : /\ r[0] = h
               /\ \A k \in 1..Len(s) : r[k] = Perform(r[k - 1], s[k])
               /\ r[Len(s)] = PerformAll(h, s)
  BY <1>3, PerformFold
<1> QED
  BY <1>3, <1>4, <1>5

\* The eight rounds of a boundary come to two.
LEMMA FlushTwo ==
  ASSUME NEW h, Sane(h)
  PROVE  FlushThenDrain(h) = Round(Round(h))
<1> DEFINE s == [n \in 1..Rounds |-> n]
           n == Len(s)
           two == Round(Round(h))
<1>1. s \in Seq(Nat) /\ n = 8
  BY DEF Rounds
<1>2. FlushThenDrain(h) = RoundAll(h, s)
  BY DEF FlushThenDrain, RoundAll
<1> HIDE DEF s
<1>3. PICK r : /\ r[0] = h
               /\ \A k \in 1..n : r[k] = Round(r[k - 1])
               /\ r[n] = RoundAll(h, s)
  BY <1>1, RoundFold DEF n
<1> HIDE DEF n
<1>4. Sane(two) /\ Rest(two.f)
  BY RoundSane, TwoRoundsRest
<1>5. Round(two) = two
  BY <1>4, RestRound
<1>6. \A k \in 0..7 : r[k + 1] = Round(r[k])
  BY <1>1, <1>3
<1>7. r[2] = two
  <2>1. r[0 + 1] = Round(r[0]) /\ r[1 + 1] = Round(r[1])
    BY <1>6
  <2> QED
    BY <1>3, <2>1
<1> HIDE DEF two
<1>8. r[8] = two
  <2>1. /\ r[2 + 1] = Round(r[2]) /\ r[3 + 1] = Round(r[3]) /\ r[4 + 1] = Round(r[4])
        /\ r[5 + 1] = Round(r[5]) /\ r[6 + 1] = Round(r[6]) /\ r[7 + 1] = Round(r[7])
    BY <1>6
  <2> QED
    BY <1>5, <1>7, <2>1
<1> QED
  BY <1>1, <1>2, <1>3, <1>8 DEF two

\* So a boundary ends with nothing to do.
LEMMA FlushRest ==
  ASSUME NEW h, Sane(h)
  PROVE  Rest(FlushThenDrain(h).f)
BY FlushTwo, TwoRoundsRest

\* A queued command that will reconcile; what only a restart or a retry leaves behind.
Promised == \E i \in DOMAIN mail : mail[i].t \in {"FinishCreate", "Advance"}
Excused  == spent.kinds \intersect {"crash", "retry"} # {}
Repairs  == \E i \in DOMAIN mail : mail[i].t \in {"Reconcile", "ReconcileInterrupted"}

\* The forest, with the events at hand folded, wants nothing, but for these; a repair
\* is for a session that was restarted.
Rested == /\ Excused \/ Promised \/ Rest(Ahead)
          /\ ~loaded \/ Repairs => "crash" \in spent.kinds

\* After a handler the forest ahead is the one it has folded.
LEMMA HandlerRests ==
  ASSUME Rested, Serving, NEW h, h.f = Journal(forest, h.ev), Finish(h),
         spent.kinds \subseteq spent'.kinds,
         Repairs' => Repairs,
         Promised => Promised' \/ Rest(h.f) \/ Excused',
         Rest(forest) => Promised' \/ Rest(h.f) \/ Excused'
  PROVE  Rested'
<1>1. /\ forest' = forest /\ staged' = h.ev /\ loaded' = loaded
  BY DEF Finish
<1>2. Ahead' = h.f /\ Ahead = forest
  BY <1>1, ApplyNone DEF Ahead, Serving
<1>3. Excused => Excused'
  BY DEF Excused
<1>4. Excused' \/ Promised' \/ Rest(h.f)
  BY <1>2, <1>3 DEF Rested
<1>5. Rest(Ahead)' <=> Rest(h.f)
  BY <1>2 DEF Rest, Owed, StepActions
<1> QED
  BY <1>1, <1>4, <1>5 DEF Rested

\* A command is taken from the mailbox.
LEMMA TailMail ==
  ASSUME mail \in Seq(Cmd), mail # <<>>, mail' = Tail(mail)
  PROVE  /\ Repairs' => Repairs
         /\ Head(mail).t \notin {"FinishCreate", "Advance"} => (Promised => Promised')
<1>1. /\ \A i \in DOMAIN mail' : i + 1 \in DOMAIN mail /\ mail'[i] = mail[i + 1]
      /\ \A i \in DOMAIN mail : i = 1 \/ (i - 1 \in DOMAIN mail' /\ mail'[i - 1] = mail[i])
      /\ Head(mail) = mail[1]
  OBVIOUS
<1> QED
  BY <1>1 DEF Repairs, Promised

\* Commands are added, none of them a repair.
LEMMA MoreMail ==
  ASSUME \A i \in DOMAIN mail : i \in DOMAIN mail' /\ mail'[i] = mail[i],
         \A i \in DOMAIN mail' : \/ i \in DOMAIN mail
                                 \/ mail'[i].t \notin {"Reconcile", "ReconcileInterrupted"}
  PROVE  (Repairs' => Repairs) /\ (Promised => Promised')
BY DEF Repairs, Promised

\* A handler with a sane hand that takes a command which promised nothing, or settles it.
LEMMA CommandRests ==
  ASSUME IInv, Rested, Serving, mail # <<>>, mail' = Tail(mail), UNCHANGED spent,
         NEW h, Sane(h), Finish(h),
         \/ Rest(h.f)
         \/ /\ Head(mail).t \notin {"FinishCreate", "Advance"}
            /\ Rest(forest) => Rest(h.f)
         \/ Head(mail).t \in {"Reconcile", "ReconcileInterrupted"}
  PROVE  Rested'
<1>1. mail \in Seq(Cmd)
  BY DEF IInv, Types
<1>2. /\ Repairs' => Repairs
      /\ Head(mail).t \notin {"FinishCreate", "Advance"} => (Promised => Promised')
  BY <1>1, TailMail
<1>3. CASE Rest(h.f) \/ (Head(mail).t \notin {"FinishCreate", "Advance"} /\ (Rest(forest) => Rest(h.f)))
  BY <1>2, <1>3, HandlerRests DEF Sane
<1>4. CASE Head(mail).t \in {"Reconcile", "ReconcileInterrupted"}
  <2>1. 1 \in DOMAIN mail /\ mail[1] = Head(mail)
    BY <1>1
  <2>2. "crash" \in spent.kinds
    BY <1>4, <2>1 DEF Rested, Repairs
  <2>3. Excused'
    BY <2>2 DEF Excused
  <2> QED
    BY <1>2, <2>3, HandlerRests DEF Sane
<1> QED
  BY <1>3, <1>4

\* An accepted spawn leaves a forest at rest; an accepted invocation promises.
LEMMA BirthRests ==
  ASSUME IInv, Rested, Serving, mail # <<>>, NEW cmd, cmd = Head(mail), Requests(cmd), UNCHANGED spent,
         NEW e \in Event, e.t \in Births, Fits(forest, e), NEW reply, Finish(Emit(Hand(forest), e)),
         mail' = Append(Tail(mail), reply),
         \/ e.t = "SubAgentSpawned" /\ reply.t = "FinishSpawn"
         \/ reply.t = "FinishCreate"
  PROVE  Rested'
<1>1. Sound /\ mail \in Seq(Cmd) /\ forest \in Forest /\ Good(forest)
  BY DEF IInv, Types, Sound
<1> DEFINE h == Hand(forest)
<1>2. Sane(h) /\ h.f = forest
  BY <1>1, HandSane
<1>3. h \in Hands /\ h.ev \in Seq(Event) /\ h.f = Journal(forest, h.ev)
  BY <1>2 DEF Sane, Hands
<1> HIDE DEF h
<1>4. Emit(h, e).f = Apply(forest, e) /\ Emit(h, e).f = Journal(forest, Emit(h, e).ev)
  <2>1. Emit(h, e).f = Apply(h.f, e) /\ Emit(h, e).ev = Append(h.ev, e)
    BY <1>3, EmitParts
  <2>2. Journal(forest, Append(h.ev, e)) = Apply(Journal(forest, h.ev), e)
    BY <1>3, ApplyAppend
  <2> QED
    BY <1>2, <1>3, <2>1, <2>2, Zenon
<1>5. /\ \A i \in DOMAIN mail : i = 1 \/ (i - 1 \in DOMAIN mail' /\ mail'[i - 1] = mail[i])
      /\ Len(mail) \in DOMAIN mail' /\ mail'[Len(mail)] = reply
      /\ \A i \in DOMAIN mail' : mail'[i] = reply \/ (i + 1 \in DOMAIN mail /\ mail'[i] = mail[i + 1])
      /\ Head(mail) = mail[1]
  <2> DEFINE t == Tail(mail)
  <2>1. /\ t \in Seq(Cmd) /\ Len(t) = Len(mail) - 1 /\ Len(mail) \in Nat /\ Len(mail) >= 1
        /\ \A i \in 1..Len(t) : t[i] = mail[i + 1]
    BY <1>1
  <2> HIDE DEF t
  <2>2. /\ DOMAIN mail' = 1..(Len(t) + 1) /\ mail'[Len(t) + 1] = reply
        /\ \A i \in 1..Len(t) : mail'[i] = t[i]
    BY <2>1 DEF t
  <2> QED
    BY <1>1, <2>1, <2>2
<1>6. (Repairs' => Repairs) /\ (Promised => Promised')
  BY <1>5 DEF Repairs, Promised, Requests
<1>7. reply.t = "FinishCreate" => Promised'
  BY <1>5 DEF Promised
<1>8. e.t = "SubAgentSpawned" /\ Rest(forest) => Rest(Apply(forest, e))
  <2>1. PICK f : f = forest
    OBVIOUS
  <2> QED
    BY <1>1, <2>1, RestStays
<1>9. Finish(Emit(h, e))
  BY DEF h
<1>10. Rest(forest) => Promised' \/ Rest(Emit(h, e).f)
  BY <1>4, <1>7, <1>8
<1> QED
  BY <1>4, <1>6, <1>9, <1>10, HandlerRests

\* A boundary with events that fit.
LEMMA AdvanceRests ==
  ASSUME NEW h, Sane(h), NEW s \in Seq(Fitting(h.f))
  PROVE  Rest(Advance(h, s).f)
<1>1. Sane(EmitAll(h, s))
  BY EmitFitting
<1>2. Advance(h, s) = FlushThenDrain(EmitAll(h, s))
  BY DEF Advance, EmitAll
<1> QED
  BY <1>1, <1>2, FlushRest

LEMMA AdvanceFewRest ==
  ASSUME NEW h, Sane(h)
  PROVE  /\ Rest(Advance(h, <<>>).f)
         /\ \A e \in Fitting(h.f) : Rest(Advance(h, <<e>>).f)
<1> DEFINE S == Fitting(h.f)
<1>1. <<>> \in Seq(S) /\ \A e \in S : <<e>> \in Seq(S)
  <2> HIDE DEF S
  <2> QED
    OBVIOUS
<1> QED
  BY <1>1, AdvanceRests

\* A handler that folds one harmless event that fits.
LEMMA EmitRests ==
  ASSUME NEW h, Sane(h), NEW e \in Event, Fits(h.f, e),
         e.t \in {"SubAgentRunning", "AskRecorded", "AgentDeleted"}
  PROVE  Rest(h.f) => Rest(Emit(h, e).f)
<1>1. h \in Hands /\ h.f \in Forest /\ Good(h.f)
  BY DEF Sane, Hands
<1>2. Emit(h, e).f = Apply(h.f, e)
  BY <1>1, EmitParts
<1> QED
  BY <1>1, <1>2, RestStays

\* A reply folds nothing.
LEMMA ReplyForest ==
  ASSUME NEW h, Sane(h), NEW c
  PROVE  Reply(h, c).f = h.f
<1>1. h \in Hands
  BY DEF Sane
<1> DEFINE ag == Released(h.ag, c)
<1>2. Reply(h, c) = [h EXCEPT !.ag = ag]
  BY DEF Reply
<1> HIDE DEF ag
<1> QED
  BY <1>1, <1>2 DEF Hands

\* Spawn, refused or accepted.
LEMMA SpawnRests ==
  ASSUME IInv, Rested, Serving, mail # <<>>, NEW cmd, cmd = Head(mail), cmd.t = "Spawn", Spawn(cmd),
         UNCHANGED spent
  PROVE  Rested'
<1>1. Sound /\ mail \in Seq(Cmd)
  BY DEF IInv, Types
<1>2. cmd \in Cmd /\ Requests(cmd)
  BY <1>1 DEF Requests
<1>3. cmd.id \in SubIds /\ cmd.from \in AgentIds /\ cmd.id \in Children
  BY <1>2, RequestIds DEF Asking, Children
<1>4. CASE Finish(Reply(Hand(forest), cmd.id)) /\ mail' = Tail(mail)
  <2> DEFINE h == Hand(forest)
             g == Reply(h, cmd.id)
  <2>1. Sane(h) /\ h.f = forest
    BY <1>1, HandSane
  <2>2. Finish(g)
    BY <1>4
  <2> HIDE DEF h
  <2>3. Sane(g) /\ g.f = h.f
    BY <1>3, <2>1, ReplySane, ReplyForest
  <2> HIDE DEF g
  <2>4. Rest(forest) => Rest(g.f)
    BY <2>1, <2>3
  <2> QED
    BY <1>4, <2>2, <2>3, <2>4, CommandRests
<1>5. CASE /\ Finish(Emit(Hand(forest), [t |-> "SubAgentSpawned", id |-> cmd.id, parent |-> cmd.from]))
           /\ mail' = Append(Tail(mail), [t |-> "FinishSpawn", id |-> cmd.id])
  <2> DEFINE e == [t |-> "SubAgentSpawned", id |-> cmd.id, parent |-> cmd.from]
             reply == [t |-> "FinishSpawn", id |-> cmd.id]
  <2>1. e \in Event /\ e.t = "SubAgentSpawned" /\ e.id = cmd.id
    BY <1>3 DEF Event, Spawned
  <2>2. reply.t = "FinishSpawn"
    OBVIOUS
  <2>3. Finish(Emit(Hand(forest), e)) /\ mail' = Append(Tail(mail), reply)
    BY <1>5
  <2> HIDE DEF e, reply
  <2>4. Fits(forest, e) /\ e.t \in Births
    BY <1>3, <2>1, IdFacts DEF Fits, Births
  <2> QED
    BY <1>2, <2>1, <2>2, <2>3, <2>4, BirthRests
<1> QED
  BY <1>4, <1>5 DEF Spawn

\* Create: accepted, its FinishCreate will reconcile.
LEMMA CreateRests ==
  ASSUME IInv, Rested, Serving, mail # <<>>, NEW cmd, cmd = Head(mail), cmd.t = "Create", Create(cmd),
         UNCHANGED spent
  PROVE  Rested'
<1>1. Sound /\ mail \in Seq(Cmd)
  BY DEF IInv, Types
<1>2. cmd \in Cmd /\ Requests(cmd)
  BY <1>1 DEF Requests
<1>3. cmd.id \in Invoked /\ cmd.from \in AgentIds /\ cmd.id \in Children
  BY <1>2, RequestIds DEF Asking, Children
<1>4. CASE Finish(Reply(Hand(forest), cmd.id)) /\ mail' = Tail(mail)
  <2> DEFINE h == Hand(forest)
             g == Reply(h, cmd.id)
  <2>1. Sane(h) /\ h.f = forest
    BY <1>1, HandSane
  <2>2. Finish(g)
    BY <1>4
  <2> HIDE DEF h
  <2>3. Sane(g) /\ g.f = h.f
    BY <1>3, <2>1, ReplySane, ReplyForest
  <2> HIDE DEF g
  <2>4. Rest(forest) => Rest(g.f)
    BY <2>1, <2>3
  <2> QED
    BY <1>4, <2>2, <2>3, <2>4, CommandRests
<1>5. CASE /\ Finish(Emit(Hand(forest), [t |-> "RunCreated", id |-> cmd.id, parent |-> cmd.from]))
           /\ mail' = Append(Tail(mail), [t |-> "FinishCreate", id |-> cmd.id])
  <2> DEFINE e == [t |-> "RunCreated", id |-> cmd.id, parent |-> cmd.from]
             reply == [t |-> "FinishCreate", id |-> cmd.id]
  <2>1. e \in Event /\ e.t = "RunCreated" /\ e.id = cmd.id
    BY <1>3 DEF Event, Created
  <2>2. reply.t = "FinishCreate"
    OBVIOUS
  <2>3. Finish(Emit(Hand(forest), e)) /\ mail' = Append(Tail(mail), reply)
    BY <1>5
  <2> HIDE DEF e, reply
  <2>4. Fits(forest, e) /\ e.t \in Births
    BY <2>1 DEF Fits, RunFits, OfRun, OfStep, Births
  <2> QED
    BY <1>2, <2>1, <2>2, <2>3, <2>4, BirthRests
<1> QED
  BY <1>4, <1>5 DEF Create

\* The commands that finish a spawn and an invocation.
LEMMA FinishSpawnRests ==
  ASSUME IInv, Rested, Serving, mail # <<>>, NEW cmd, cmd = Head(mail), cmd.t = "FinishSpawn",
         FinishSpawn(cmd), UNCHANGED spent
  PROVE  Rested'
<1>1. Sound /\ mail \in Seq(Cmd) /\ agents \in Agents
  BY DEF IInv, Types, Sound
<1>2. cmd.id \in Children
  <2>1. cmd \in Cmd
    BY <1>1
  <2>2. cmd \in Finishing
    BY <2>1 DEF Cmd, Asking, Resuming, Reporting, Repairing
  <2> QED
    BY <2>2 DEF Finishing, Children, Invoked
<1> DEFINE h == Hand(forest)
           g == [h EXCEPT !.ag = Enqueue(@, cmd.id)]
<1>3. Sane(h) /\ h.ag = agents /\ h.f = forest
  BY <1>1, HandSane
<1>4. Sane(g) /\ g.f = forest
  <2>1. Enqueue(agents, cmd.id) \in Agents
        /\ \A a \in AgentIds : Enqueue(agents, cmd.id)[a].call = agents[a].call
    BY <1>1, ReachTypes
  <2>2. g = [h EXCEPT !.ag = Enqueue(agents, cmd.id)]
    BY <1>3
  <2> HIDE DEF h, g
  <2> QED
    BY <1>3, <2>1, <2>2, RetellSane
<1>5. mail' = Tail(mail) /\ (Finish(Reply(g, cmd.id)) \/ Finish(Reply(h, cmd.id)))
  BY DEF FinishSpawn
<1> HIDE DEF h, g
<1>6. ASSUME NEW k, Sane(k), k.f = forest, Finish(Reply(k, cmd.id))
      PROVE  Rested'
  <2> DEFINE o == Reply(k, cmd.id)
  <2>1. Sane(o) /\ o.f = forest /\ Finish(o)
    BY <1>2, <1>6, ReplySane, ReplyForest
  <2> HIDE DEF o
  <2>2. Rest(forest) => Rest(o.f)
    BY <2>1
  <2> QED
    BY <1>5, <2>1, <2>2, CommandRests
<1> QED
  BY <1>3, <1>4, <1>5, <1>6

LEMMA FinishCreateRests ==
  ASSUME IInv, Rested, Serving, mail # <<>>, NEW cmd, cmd = Head(mail), cmd.t = "FinishCreate",
         FinishCreate(cmd), UNCHANGED spent
  PROVE  Rested'
<1>1. Sound /\ mail \in Seq(Cmd)
  BY DEF IInv, Types
<1>2. cmd.id \in Children
  <2>1. cmd \in Cmd
    BY <1>1
  <2>2. cmd \in Finishing
    BY <2>1 DEF Cmd, Asking, Resuming, Reporting, Repairing
  <2> QED
    BY <2>2 DEF Finishing, Children, Invoked
<1> DEFINE g == Reply(Hand(forest), cmd.id)
           h == FlushThenDrain(g)
<1>3. Sane(g)
  BY <1>1, <1>2, HandSane, ReplySane
<1>4. Finish(h) /\ mail' = Tail(mail)
  BY DEF FinishCreate
<1> HIDE DEF g
<1>5. Sane(h) /\ Rest(h.f)
  BY <1>3, FlushSane, FlushRest
<1> HIDE DEF h
<1> QED
  BY <1>4, <1>5, CommandRests

\* A subagent goes back to work: it is owed nothing for that.
LEMMA StartedRests ==
  ASSUME IInv, Rested, Serving, mail # <<>>, NEW cmd, cmd = Head(mail), cmd.t = "Started", Started(cmd),
         UNCHANGED spent
  PROVE  Rested'
<1>1. Sound /\ mail \in Seq(Cmd) /\ forest \in Forest /\ Good(forest)
  BY DEF IInv, Types, Sound
<1>2. cmd.from \in SubIds
  <2>1. cmd \in Cmd
    BY <1>1
  <2>2. cmd \in Resuming
    BY <2>1 DEF Cmd, Asking, Finishing, Reporting, Repairing
  <2> QED
    BY <2>2 DEF Resuming
<1> DEFINE e == [t |-> "SubAgentRunning", id |-> cmd.from]
           h == Hand(forest)
<1>3. Sane(h) /\ h.f = forest
  BY <1>1, HandSane
<1>4. e \in Fitting(forest) /\ e.t = "SubAgentRunning"
  BY <1>1, <1>2, FittingEvents
<1>5. mail' = Tail(mail) /\ (Finish(Emit(h, e)) \/ Finish(h))
  BY DEF Started
<1> HIDE DEF e, h
<1>6. Sane(Emit(h, e)) /\ e \in Event /\ Fits(h.f, e)
  BY <1>3, <1>4, AdvanceOne DEF Fitting
<1>7. Rest(forest) => Rest(Emit(h, e).f)
  BY <1>3, <1>4, <1>6, EmitRests
<1>8. CASE Finish(Emit(h, e))
  <2> DEFINE o == Emit(h, e)
  <2>1. Sane(o) /\ Finish(o) /\ (Rest(forest) => Rest(o.f))
    BY <1>6, <1>7, <1>8
  <2> HIDE DEF o
  <2> QED
    BY <1>5, <2>1, CommandRests
<1>9. CASE Finish(h)
  <2>1. Rest(forest) => Rest(h.f)
    BY <1>3
  <2> QED
    BY <1>3, <1>5, <1>9, <2>1, CommandRests
<1> QED
  BY <1>5, <1>8, <1>9

\* The end of a turn: a boundary, a question, or nothing.
LEMMA OutcomeRests ==
  ASSUME IInv, Rested, Serving, mail # <<>>, NEW cmd, cmd = Head(mail), cmd.t = "Outcome", AgentOutcome(cmd),
         UNCHANGED spent
  PROVE  Rested'
<1>1. Sound /\ mail \in Seq(Cmd) /\ forest \in Forest /\ Good(forest)
  BY DEF IInv, Types, Sound
<1>2. cmd \in Reporting
  <2>1. cmd \in Cmd
    BY <1>1
  <2> QED
    BY <2>1 DEF Cmd, Asking, Finishing, Resuming, Repairing
<1> DEFINE h == Hand(forest)
           o == IF ~Known(forest, cmd.from) THEN h
                ELSE CASE cmd.from = Main      -> Advance(h, <<>>)
                       [] cmd.from \in SubIds  -> SubAgentOutcome(h, cmd)
                       [] cmd.from \in StepIds -> StepOutcome(h, cmd)
<1>3. Sane(h) /\ h.f = forest
  BY <1>1, HandSane
<1>4. mail' = Tail(mail) /\ Finish(o)
  BY DEF AgentOutcome
<1> HIDE DEF h
<1>5. /\ Sane(Advance(h, <<>>)) /\ Rest(Advance(h, <<>>).f)
      /\ \A e \in Fitting(forest) : Sane(Advance(h, <<e>>)) /\ Rest(Advance(h, <<e>>).f)
  BY <1>3, AdvanceNone, AdvanceOne, AdvanceFewRest
<1>6. Sane(o) /\ (Rest(forest) => Rest(o.f))
  <2>1. CASE ~Known(forest, cmd.from)
    BY <1>3, <2>1
  <2>2. CASE Known(forest, cmd.from) /\ cmd.from = Main
    <3>1. o = Advance(h, <<>>)
      BY <2>2, IdFacts
    <3> HIDE DEF o
    <3> QED
      BY <1>5, <3>1
  <2>3. CASE Known(forest, cmd.from) /\ cmd.from \in SubIds
    <3> DEFINE e(t) == [t |-> t, id |-> cmd.from]
    <3>1. o = SubAgentOutcome(h, cmd)
      BY <2>3, IdFacts
    <3>2. cmd.end \in {"Concluded", "Failed", "Parked"}
      BY <1>2, <2>3, IdFacts DEF Reporting
    <3>3. SubAgentOutcome(h, cmd) \in
            {Advance(h, <<e("SubAgentCompleted")>>), Advance(h, <<e("SubAgentFailed")>>), Advance(h, <<>>)}
      BY <3>2 DEF SubAgentOutcome
    <3>4. e("SubAgentCompleted") \in Fitting(forest) /\ e("SubAgentFailed") \in Fitting(forest)
      BY <1>1, <2>3, FittingEvents
    <3> HIDE DEF e, o
    <3> QED
      BY <1>5, <3>1, <3>3, <3>4
  <2>4. CASE Known(forest, cmd.from) /\ cmd.from \in StepIds
    <3> DEFINE r == RunOf(cmd.from)
               k == cmd.from[3]
               done == [t |-> "StepConcluded", id |-> r, index |-> k, out |-> cmd.out]
               fail == [t |-> "StepFailed", id |-> r, index |-> k]
               ask  == [t |-> "AskRecorded", id |-> r]
    <3>1. o = StepOutcome(h, cmd)
      BY <2>4, IdFacts
    <3>2. cmd.end \in {"Concluded", "Failed", "Parked", "Asked"} /\ cmd.out \in Outs
      BY <1>2, <2>4, IdFacts DEF Reporting
    <3>3. StepOutcome(h, cmd) \in {Advance(h, <<done>>), Advance(h, <<fail>>), Emit(h, ask), h}
      BY <3>2 DEF StepOutcome
    <3>4. r \in RunIds /\ k \in DOMAIN forest.runs[r].steps
      BY <1>1, <2>4, KnownStep
    <3> HIDE DEF r, k
    <3>5. done \in Fitting(forest) /\ fail \in Fitting(forest) /\ ask \in Fitting(forest)
          /\ ask.t = "AskRecorded"
      BY <1>1, <3>2, <3>4, FittingEvents
    <3> HIDE DEF done, fail, ask
    <3>6. Sane(Emit(h, ask)) /\ ask \in Event /\ Fits(h.f, ask)
      BY <1>3, <3>5, AdvanceOne DEF Fitting
    <3>7. Rest(forest) => Rest(Emit(h, ask).f)
      BY <1>3, <3>5, <3>6, EmitRests
    <3> HIDE DEF o
    <3> QED
      BY <1>3, <1>5, <3>1, <3>3, <3>5, <3>6, <3>7
  <2> QED
    BY <1>2, <2>1, <2>2, <2>3, <2>4 DEF Reporting
<1> HIDE DEF o
<1> QED
  BY <1>4, <1>6, CommandRests

\* The repairs of a load are excused; an advance of the driver leaves nothing.
LEMMA RepairRests ==
  ASSUME IInv, Rested, Serving, mail # <<>>, NEW cmd, cmd = Head(mail), UNCHANGED spent,
         \/ cmd.t = "Reconcile" /\ Reconcile
         \/ cmd.t = "ReconcileInterrupted" /\ ReconcileInterrupted
         \/ cmd.t = "Advance" /\ AdvanceRuns
  PROVE  Rested'
<1>1. CASE AdvanceRuns
  <2> DEFINE h == FlushThenDrain(Hand(forest))
  <2>1. Sound
    BY DEF IInv, Types
  <2>2. Sane(h) /\ Finish(h) /\ mail' = Tail(mail) /\ Rest(h.f)
    BY <1>1, <2>1, HandSane, FlushSane, FlushRest DEF AdvanceRuns
  <2> HIDE DEF h
  <2> QED
    BY <2>2, CommandRests
<1>2. CASE (cmd.t = "Reconcile" /\ Reconcile) \/ (cmd.t = "ReconcileInterrupted" /\ ReconcileInterrupted)
  <2>1. PICK h : Sane(h) /\ Finish(h)
    BY <1>2, RepairSane
  <2>2. mail' = Tail(mail) /\ Head(mail).t \in {"Reconcile", "ReconcileInterrupted"}
    BY <1>2, RepairSane
  <2> QED
    BY <2>1, <2>2, CommandRests
<1> QED
  BY <1>1, <1>2

LEMMA HandleRests ==
  ASSUME IInv, Rested, HandleCommand
  PROVE  Rested'
<1>1. PICK cmd : cmd = Head(mail)
  OBVIOUS
<1>2. /\ Serving /\ mail # <<>> /\ UNCHANGED spent
      /\ \/ cmd.t = "Spawn"        /\ Spawn(cmd)
         \/ cmd.t = "FinishSpawn"  /\ FinishSpawn(cmd)
         \/ cmd.t = "Create"       /\ Create(cmd)
         \/ cmd.t = "FinishCreate" /\ FinishCreate(cmd)
         \/ cmd.t = "Started"      /\ Started(cmd)
         \/ cmd.t = "Outcome"      /\ AgentOutcome(cmd)
         \/ cmd.t = "Reconcile"    /\ Reconcile
         \/ cmd.t = "ReconcileInterrupted" /\ ReconcileInterrupted
         \/ cmd.t = "Advance"      /\ AdvanceRuns
  BY <1>1 DEF HandleCommand
<1>3. CASE cmd.t = "Spawn" /\ Spawn(cmd)
  BY <1>1, <1>2, <1>3, SpawnRests
<1>4. CASE cmd.t = "FinishSpawn" /\ FinishSpawn(cmd)
  BY <1>1, <1>2, <1>4, FinishSpawnRests
<1>5. CASE cmd.t = "Create" /\ Create(cmd)
  BY <1>1, <1>2, <1>5, CreateRests
<1>6. CASE cmd.t = "FinishCreate" /\ FinishCreate(cmd)
  BY <1>1, <1>2, <1>6, FinishCreateRests
<1>7. CASE cmd.t = "Started" /\ Started(cmd)
  BY <1>1, <1>2, <1>7, StartedRests
<1>8. CASE cmd.t = "Outcome" /\ AgentOutcome(cmd)
  BY <1>1, <1>2, <1>8, OutcomeRests
<1>9. CASE \/ cmd.t = "Reconcile"    /\ Reconcile
           \/ cmd.t = "ReconcileInterrupted" /\ ReconcileInterrupted
           \/ cmd.t = "Advance"      /\ AdvanceRuns
  BY <1>1, <1>2, <1>9, RepairRests
<1> QED
  BY <1>2, <1>3, <1>4, <1>5, <1>6, <1>7, <1>8, <1>9

\* A stop is a boundary; a deletion takes the work it owed with it; a retry is excused.
LEMMA StopRests ==
  ASSUME IInv, Rested, NEW a \in AgentIds, Stop(a)
  PROVE  Rested'
<1>1. Serving /\ Intervene("stop") /\ UNCHANGED mail
  BY StopSane
<1>2. PICK g : Sane(g) /\ Finish(FlushThenDrain(g))
  BY StopSane
<1> DEFINE o == FlushThenDrain(g)
<1>3. Sane(o) /\ Finish(o) /\ Rest(o.f)
  BY <1>2, FlushSane, FlushRest
<1> HIDE DEF o
<1>4. spent.kinds \subseteq spent'.kinds
  BY <1>1, SpentGrows DEF IInv, Types
<1>5. Repairs' => Repairs
  BY <1>1 DEF Repairs
<1> QED
  BY <1>1, <1>3, <1>4, <1>5, HandlerRests DEF Sane

LEMMA DeleteRests ==
  ASSUME IInv, Rested, NEW s \in SubIds, DeleteAgent(s)
  PROVE  Rested'
<1>1. Serving /\ Intervene("delete") /\ UNCHANGED mail
  BY DeleteSane
<1>2. PICK h : \E e \in Event :
        Sane(h) /\ h.f = forest /\ e.t = "AgentDeleted" /\ Fits(h.f, e) /\ Finish(Emit(h, e))
  BY DeleteSane
<1>3. PICK e \in Event :
        Sane(h) /\ h.f = forest /\ e.t = "AgentDeleted" /\ Fits(h.f, e) /\ Finish(Emit(h, e))
  BY <1>2
<1> DEFINE o == Emit(h, e)
<1>4. Sane(o) /\ Finish(o) /\ (Rest(forest) => Rest(o.f))
  BY <1>3, EmitSane, EmitRests DEF Births
<1> HIDE DEF o
<1>5. spent.kinds \subseteq spent'.kinds
  BY <1>1, SpentGrows DEF IInv, Types
<1>6. (Repairs' => Repairs) /\ (Promised => Promised')
  BY <1>1 DEF Repairs, Promised
<1> QED
  BY <1>1, <1>4, <1>5, <1>6, HandlerRests DEF Sane

LEMMA RetryRests ==
  ASSUME IInv, Rested, NEW k, RetryStep(k)
  PROVE  Rested'
<1>1. Serving /\ Intervene("retry") /\ UNCHANGED mail
  BY RetrySane
<1>2. PICK h : Sane(h) /\ Finish(h)
  BY RetrySane
<1>3. spent.kinds \subseteq spent'.kinds /\ "retry" \in spent'.kinds
  BY <1>1, SpentGrows DEF IInv, Types
<1>4. (Repairs' => Repairs) /\ Excused'
  BY <1>1, <1>3 DEF Repairs, Excused
<1> QED
  BY <1>1, <1>2, <1>3, <1>4, HandlerRests DEF Sane

\* What leaves the forest and the events at hand alone, and sends no repair.
LEMMA QuietRests ==
  ASSUME Rested, UNCHANGED <<forest, staged, loaded>>, spent.kinds \subseteq spent'.kinds,
         \A i \in DOMAIN mail : i \in DOMAIN mail' /\ mail'[i] = mail[i],
         \A i \in DOMAIN mail' : \/ i \in DOMAIN mail
                                 \/ mail'[i].t \notin {"Reconcile", "ReconcileInterrupted"}
  PROVE  Rested'
<1>1. (Repairs' => Repairs) /\ (Promised => Promised')
  BY MoreMail
<1>2. Ahead' = Ahead
  BY DEF Ahead
<1>3. Rest(Ahead)' <=> Rest(Ahead)
  BY <1>2 DEF Rest, Owed, StepActions
<1>4. Excused => Excused'
  BY DEF Excused
<1> QED
  BY <1>1, <1>3, <1>4 DEF Rested

\* A command is told to the session.
LEMMA TellRests ==
  ASSUME IInv, Rested, UNCHANGED <<forest, staged, loaded>>, spent.kinds \subseteq spent'.kinds,
         NEW cmd, cmd.t \notin {"Reconcile", "ReconcileInterrupted"},
         mail' = mail \/ mail' = Append(mail, cmd)
  PROVE  Rested'
<1>1. mail \in Seq(Cmd)
  BY DEF IInv, Types
<1>2. CASE mail' = mail
  BY <1>2, QuietRests
<1>3. CASE mail' = Append(mail, cmd)
  <2>1. /\ \A i \in DOMAIN mail : i \in DOMAIN mail' /\ mail'[i] = mail[i]
        /\ \A i \in DOMAIN mail' : i \in DOMAIN mail \/ mail'[i] = cmd
    BY <1>1, <1>3
  <2> QED
    BY <2>1, QuietRests
<1> QED
  BY <1>2, <1>3

\* What the agents do, and what a person says to them.
LEMMA AgentRests ==
  ASSUME IInv, Rested, NEW a \in AgentIds,
         \/ BeginTurn(a) \/ TurnSteps(a) \/ UserSays(a)
         \/ CallTool(a, "Spawn") \/ CallTool(a, "Create")
  PROVE  Rested'
<1>1. CASE BeginTurn(a)
  <2> DEFINE cmd == [t |-> "Started", from |-> a]
  <2>1. /\ UNCHANGED <<forest, staged, loaded>>
        /\ mail' = mail \/ mail' = Append(mail, cmd)
    BY <1>1 DEF BeginTurn, TellStarted, Tell
  <2>2. spent.kinds \subseteq spent'.kinds
    BY <1>1 DEF BeginTurn, IInv, Types
  <2>3. cmd.t \notin {"Reconcile", "ReconcileInterrupted"}
    OBVIOUS
  <2> HIDE DEF cmd
  <2> QED
    BY <2>1, <2>2, <2>3, TellRests
<1>2. CASE TurnSteps(a)
  <2>1. CASE EndsInWords(a) /\ a # Main /\ agents[a].queued
    <3> DEFINE cmd == [t |-> "Started", from |-> a]
    <3>1. /\ UNCHANGED <<forest, staged, loaded, spent>>
          /\ mail' = mail \/ mail' = Append(mail, cmd)
      BY <2>1 DEF EndsInWords, TellStarted, Tell
    <3>2. cmd.t \notin {"Reconcile", "ReconcileInterrupted"}
      OBVIOUS
    <3> HIDE DEF cmd
    <3> QED
      BY <3>1, <3>2, TellRests
  <2>2. ASSUME NEW end, NEW out, NEW asks, EndTurn(a, end, out, asks)
        PROVE  Rested'
    <3> DEFINE cmd == [t |-> "Outcome", from |-> a, end |-> end, out |-> out]
    <3>1. /\ UNCHANGED <<forest, staged, loaded, spent>>
          /\ mail' = Append(mail, cmd)
      BY <2>2 DEF EndTurn, Tell
    <3>2. cmd.t \notin {"Reconcile", "ReconcileInterrupted"}
      OBVIOUS
    <3> HIDE DEF cmd
    <3> QED
      BY <3>1, <3>2, TellRests
  <2> QED
    BY <1>2, <2>1, <2>2 DEF TurnSteps, EndsInWords, Fails, Asks, Submit
<1>3. CASE UserSays(a)
  <2>1. UNCHANGED <<forest, staged, loaded, mail>> /\ spent.kinds \subseteq spent'.kinds
    BY <1>3, SpentGrows DEF UserSays, IInv, Types
  <2> QED
    BY <2>1, QuietRests
<1>4. ASSUME NEW what \in {"Spawn", "Create"}, CallTool(a, what)
      PROVE  Rested'
  <2>1. PICK id : /\ UNCHANGED <<forest, staged, loaded, spent>>
                  /\ mail' = Append(mail, [t |-> what, from |-> a, id |-> id])
    BY <1>4 DEF CallTool, Tell
  <2> DEFINE cmd == [t |-> what, from |-> a, id |-> id]
  <2>2. cmd.t \notin {"Reconcile", "ReconcileInterrupted"} /\ mail' = Append(mail, cmd)
    BY <2>1
  <2> HIDE DEF cmd
  <2> QED
    BY <2>1, <2>2, TellRests
<1> QED
  BY <1>1, <1>2, <1>3, <1>4

\* The journal write makes the forest the one that was ahead.
LEMMA PersistRests ==
  ASSUME IInv, Rested, Persist
  PROVE  Rested'
<1>1. forest' = Ahead /\ staged' = <<>> /\ UNCHANGED <<mail, loaded, spent>>
  BY DEF Persist, Ahead, Journal
<1>2. Ahead' = Ahead
  <2>1. PICK f : f = Ahead
    OBVIOUS
  <2>2. Journal(f, <<>>) = f
    BY ApplyNone
  <2> QED
    BY <1>1, <2>1, <2>2 DEF Ahead
<1>3. Rest(Ahead)' <=> Rest(Ahead)
  BY <1>2 DEF Rest, Owed, StepActions
<1> QED
  BY <1>1, <1>3 DEF Rested, Excused, Promised, Repairs

\* A crash excuses what it leaves, until the session's end.
LEMMA CrashRests ==
  ASSUME IInv, Rested, Crash \/ Load
  PROVE  Rested'
<1>1. "crash" \in spent'.kinds
  <2>1. CASE Crash
    BY <2>1, SpentGrows DEF Crash, IInv, Types
  <2>2. CASE Load
    BY <2>2 DEF Load, Rested
  <2> QED
    BY <2>1, <2>2
<1> QED
  BY <1>1 DEF Rested, Excused

\* A new session wants nothing, or has the command that starts its run.
LEMMA InitRests ==
  ASSUME Init
  PROVE  Rested
<1>1. PICK root \in Roots :
        /\ forest = [root |-> root,
                     subs |-> [s \in SubIds |-> NoSub],
                     runs |-> [r \in RunIds |-> IF r = RootRun /\ root = "workflow"
                                                THEN NewRun(NoAgent) ELSE NoRun]]
        /\ mail = IF root = "workflow" THEN <<[t |-> "Advance"]>> ELSE <<>>
  BY DEF Init
<1>2. loaded /\ staged = <<>>
  BY DEF Init
<1>3. ~Repairs
  BY <1>1 DEF Repairs
<1>4. CASE root = "workflow"
  <2>1. 1 \in DOMAIN mail /\ mail[1].t = "Advance"
    BY <1>1, <1>4
  <2> QED
    BY <1>2, <1>3, <2>1 DEF Rested, Promised
<1>5. CASE root # "workflow"
  <2>1. Ahead = forest
    BY <1>2, ApplyNone DEF Ahead
  <2>2. \A s \in SubIds : forest.subs[s].status = "Absent"
    BY <1>1 DEF NoSub
  <2>3. \A r \in RunIds : forest.runs[r].status = "Absent"
    BY <1>1, <1>5 DEF NoRun
  <2>4. Owed(forest) = {}
    BY <2>2, <2>3 DEF Owed, Terminal
  <2>5. \A r \in RunIds : StepActions(forest, r) = {}
    BY <2>3 DEF StepActions
  <2> QED
    BY <1>2, <1>3, <2>1, <2>4, <2>5 DEF Rested, Rest
<1> QED
  BY <1>4, <1>5

LEMMA RestInductive == Spec => [](IInv /\ Rested)
<1>1. Init => Rested
  BY InitRests
<1>2. IInv /\ Rested /\ [Next]_vars => Rested'
  <2> SUFFICES ASSUME IInv, Rested, [Next]_vars PROVE Rested'
    OBVIOUS
  <2>1. CASE HandleCommand
    BY <2>1, HandleRests
  <2>2. CASE Persist
    BY <2>2, PersistRests
  <2>3. ASSUME NEW a \in AgentIds,
               \/ BeginTurn(a) \/ TurnSteps(a) \/ UserSays(a)
               \/ CallTool(a, "Spawn") \/ CallTool(a, "Create")
        PROVE  Rested'
    BY <2>3, AgentRests
  <2>4. ASSUME NEW a \in AgentIds, Stop(a)
        PROVE  Rested'
    BY <2>4, StopRests
  <2>5. ASSUME NEW s \in SubIds, DeleteAgent(s)
        PROVE  Rested'
    BY <2>5, DeleteRests
  <2>6. ASSUME NEW k \in 1..MaxLog, RetryStep(k)
        PROVE  Rested'
    BY <2>6, RetryRests
  <2>7. CASE Crash \/ Load
    BY <2>7, CrashRests
  <2>8. CASE UNCHANGED vars
    <3>1. UNCHANGED <<forest, staged, loaded, mail>> /\ spent.kinds \subseteq spent'.kinds
      BY <2>8 DEF vars
    <3> QED
      BY <3>1, QuietRests
  <2> QED
    BY <2>1, <2>2, <2>3, <2>4, <2>5, <2>6, <2>7, <2>8 DEF Next, AgentSteps
<1> QED
  BY <1>1, <1>2, Inductive, PTL DEF Spec

-----------------------------------------------------------------------------
(* The theorems *)

(* The forest, the agents and the owner's own state have their types; an    *)
(* invoked run has a parent, and only one that is there.  (RunForest's      *)
(* entries, run_forest.rs, as the session keeps them.)                      *)
THEOREM TypesHold == Spec => []TypeOK
<1>1. IInv => TypeOK
  <2> SUFFICES ASSUME IInv PROVE TypeOK
    OBVIOUS
  <2>1. forest \in Forest /\ Good(forest) /\ agents \in Agents /\ heard \in SUBSET Children
        /\ again \in BOOLEAN /\ loaded \in BOOLEAN
    BY DEF IInv, Types, Sound
  <2>2. forest.root \in Roots /\ forest.subs \in [SubIds -> SubRec]
    BY <2>1 DEF Forest
  <2>3. ASSUME NEW r \in RunIds
        PROVE  /\ forest.runs[r].parent \in AgentIds \union {NoAgent}
               /\ forest.runs[r].parent = NoAgent <=> (r = RootRun \/ forest.runs[r].status = "Absent")
               /\ forest.runs[r].status \in RunStatus
               /\ forest.runs[r].notified \in BOOLEAN
               /\ \A k \in DOMAIN forest.runs[r].steps :
                    forest.runs[r].steps[k].status \in StepStatus
    <3>1. forest.runs[r] \in RunRec /\ GoodRun(r, forest.runs[r])
      BY <2>1 DEF Forest, Good
    <3>2. forest.runs[r].steps \in Seq(StepRec)
      BY <3>1 DEF RunRec
    <3>3. \A k \in DOMAIN forest.runs[r].steps : forest.runs[r].steps[k] \in StepRec
      BY <3>2
    <3> QED
      BY <3>1, <3>3 DEF RunRec, GoodRun, IsGone, StepRec
  <2> QED
    BY <2>1, <2>2, <2>3 DEF TypeOK, SubRec, Agents, AgentRec
<1> QED
  BY <1>1, Inductive, PTL

(* No run has two steps in flight, whichever of the driver's advances, an   *)
(* outcome, a Stop, a retry, a deletion or a restart came between: every    *)
(* StepStarted is emitted when the run it is about has none.                *)
THEOREM StepsOneByOne == Spec => []OneStepInFlight
<1>1. IInv => OneStepInFlight
  <2> SUFFICES ASSUME IInv, NEW r \in RunIds
               PROVE  Cardinality({k \in DOMAIN forest.runs[r].steps :
                                     forest.runs[r].steps[k].status = "Running"}) <= 1
    BY DEF OneStepInFlight
  <2> DEFINE F == {k \in DOMAIN forest.runs[r].steps : forest.runs[r].steps[k].status = "Running"}
  <2>1. \A j, k \in F : j = k
    BY DEF IInv, Types, Sound, Good, GoodRun, Flying
  <2> HIDE DEF F
  <2>2. CASE F = {}
    BY <2>2, FS_EmptySet DEF F
  <2>3. CASE F # {}
    <3>1. PICK k : F = {k}
      BY <2>1, <2>3
    <3>2. Cardinality(F) = 1
      BY <3>1, FS_Singleton
    <3> QED
      BY <3>2 DEF F
  <2> QED
    BY <2>2, <2>3
<1> QED
  BY <1>1, Inductive, PTL

(* A turn that waits for a spawn or a create waits for a command in the     *)
(* owner's mailbox that will reply: no path of the handlers drops the reply *)
(* of the call and leaves the caller's tool call open.                      *)
THEOREM CallsAnswered == Spec => []CallAnswered
<1>1. IInv => CallAnswered
  BY DEF IInv
<1> QED
  BY <1>1, Inductive, PTL

(* Without a crash a child's result is not sent twice: each delivery's mark *)
(* stands in the forest or in the events at hand, so that no later round,   *)
(* repair or report owes it again.                                          *)
THEOREM ResultsOnce == Spec => []DeliveredOnce
<1>1. IInv => DeliveredOnce
  BY DEF IInv, Agreed, DeliveredOnce
<1> QED
  BY <1>1, Inductive, PTL

(* From every child the parents lead to the session's own agent, or to a    *)
(* step of its own workflow, in at most MaxDepth steps, each over an agent  *)
(* that is there: a spawn is refused at the depth, and a deletion takes     *)
(* all that descends from what it deletes.                                  *)
THEOREM ChainsReach == Spec => []ChainsReachRoot
<1>1. IInv => ChainsReachRoot
  <2> SUFFICES ASSUME IInv PROVE ChainsReachRoot
    OBVIOUS
  <2>1. Rooted(forest) /\ forest \in Forest /\ Good(forest)
    BY DEF IInv, Types, Sound
  <2> QED
    BY <2>1, RootedReaches
<1> QED
  BY <1>1, Inductive, PTL

(* Whatever events that fit its forest a handler has begun with, the eight  *)
(* rounds of flush_then_drain come to two: the first starts, finishes or    *)
(* fails every run that wants it, the runs it ended are all that the second *)
(* has to deliver, and the rest find nothing to do.  The cap is a backstop, *)
(* as the comment in session_actor/mod.rs has it.                           *)
THEOREM TwoRoundsEnough ==
  Spec => [](\A s \in Seq(Fitting(forest)) :
               Advance(Hand(forest), s) = Round(Round(EmitAll(Hand(forest), s))))
<1> DEFINE Two == \A s \in Seq(Fitting(forest)) :
                    Advance(Hand(forest), s) = Round(Round(EmitAll(Hand(forest), s)))
<1>1. IInv => Two
  <2> SUFFICES ASSUME IInv, NEW s \in Seq(Fitting(forest))
               PROVE  Advance(Hand(forest), s) = Round(Round(EmitAll(Hand(forest), s)))
    OBVIOUS
  <2> DEFINE h == Hand(forest)
             g == EmitAll(h, s)
  <2>1. Sane(h) /\ h.f = forest
    BY HandSane DEF IInv, Types
  <2> HIDE DEF h
  <2>2. s \in Seq(Fitting(h.f))
    BY <2>1
  <2>3. Sane(g)
    BY <2>1, <2>2, EmitFitting
  <2>4. Advance(h, s) = FlushThenDrain(g)
    BY DEF Advance, EmitAll
  <2> HIDE DEF g
  <2>5. Advance(h, s) = Round(Round(g))
    BY <2>3, <2>4, FlushTwo
  <2> QED
    BY <2>5 DEF h, g
<1> HIDE DEF Two
<1>2. Spec => []Two
  BY <1>1, Inductive, PTL
<1> QED
  BY <1>2 DEF Two

(* Between two commands nothing is owed and no step waits to be started,    *)
(* but for what a queued command will reconcile, or a restart or a retry    *)
(* has left: flush_then_drain (session_actor/mod.rs) is done after two of   *)
(* its eight rounds, whatever the forest, and what reconciles nothing       *)
(* brings about nothing that wants a reconciliation.                        *)
THEOREM NothingLeft == Spec => []NothingStrands
<1>1. IInv /\ Rested => NothingStrands
  <2> SUFFICES ASSUME IInv, Rested, Serving, NextActions(forest) # <<>>
               PROVE  Promised \/ Excused
    BY DEF NothingStrands, Promised, Excused
  <2>1. forest \in Forest /\ Good(forest)
    BY DEF IInv, Types, Sound
  <2>2. Ahead = forest
    BY ApplyNone DEF Ahead, Serving
  <2>3. ~Rest(forest)
    BY <2>1, RestWantsNothing
  <2> QED
    BY <2>2, <2>3 DEF Rested
<1> QED
  BY <1>1, RestInductive, PTL
=============================================================================
