--------------------------- MODULE RoutinesProofs ---------------------------
(***************************************************************************)
(* The theorems of Routines, and of the calendar it computes with.  Inv is *)
(* what every node keeps; Ahead, added to it, is why one server runs a due *)
(* instant once; Based, why a timer is where the schedule says.  That the  *)
(* scans of recurrence.rs agree with the rules as a person reads them is a *)
(* fact about the calendar alone, proved from the lengths of its years and *)
(* months, with no instance of it enumerated.                              *)
(***************************************************************************)
EXTENDS Routines, TLAPS, FiniteSetTheorems, SequenceTheorems, WellFoundedInduction

-----------------------------------------------------------------------------
(* The least of some integers *)

\* What has a lower bound has a least element, and Min is it.
LEMMA Least ==
    ASSUME NEW S \in SUBSET Int, S # {}, NEW b \in Int, \A x \in S : b <= x
    PROVE  Min(S) \in S /\ \A x \in S : Min(S) <= x
<1> DEFINE T == {k \in Nat : b + k \in S}
<1>1. T # {} /\ T \in SUBSET Nat
  <2>1. PICK x \in S : TRUE
    OBVIOUS
  <2>2. x - b \in Nat /\ b + (x - b) = x
    OBVIOUS
  <2> QED
    BY <2>2
<1>2. PICK k \in T : \A j \in T : k <= j
  <2>1. \E k \in T : \A j \in T : ~(<<j, k>> \in OpToRel(<, Nat))
    <3> HIDE DEF T
    <3> QED
      BY <1>1, WFMin, NatLessThanWellFounded, Zenon
  <2>2. \E k \in T : \A j \in T : ~(j < k)
    BY <1>1, <2>1 DEF OpToRel
  <2> QED
    BY <1>1, <2>2
<1>3. b + k \in S /\ \A x \in S : b + k <= x
  <2>1. ASSUME NEW x \in S PROVE b + k <= x
    <3>1. x - b \in T
      OBVIOUS
    <3> QED
      BY <1>1, <1>2, <3>1
  <2> QED
    BY <1>2, <2>1
<1>4. \E x \in S : \A y \in S : x <= y
  BY <1>3
<1> QED
  BY <1>4 DEF Min

\* What a scan returns: nothing, or the earliest of its instants after t.
LEMMA Scans ==
    ASSUME NEW days \in SUBSET Int, NEW clock \in Nat, NEW t \in Nat
    PROVE  \/ /\ FirstAfter(days, clock, t) = Never
              /\ \A n \in days : n * TicksPerDay + clock <= t
           \/ /\ FirstAfter(days, clock, t) \in Nat
              /\ FirstAfter(days, clock, t) > t
              /\ \E n \in days : FirstAfter(days, clock, t) = n * TicksPerDay + clock
              /\ \A n \in days : n * TicksPerDay + clock > t =>
                                   FirstAfter(days, clock, t) <= n * TicksPerDay + clock
<1> DEFINE U == {n * TicksPerDay + clock : n \in days}
           V == {u \in U : u > t}
<1>1. \A n \in days : n * TicksPerDay + clock \in Int
  BY TicksAssumption
<1>2. V \in SUBSET Int /\ \A u \in V : t <= u
  BY <1>1
<1>3. FirstAfter(days, clock, t) = IF V = {} THEN Never ELSE Min(V)
  BY DEF FirstAfter, Earliest
<1>4. CASE V = {}
  BY <1>1, <1>3, <1>4
<1>5. CASE V # {}
  <2>1. Min(V) \in V /\ \A u \in V : Min(V) <= u
    <3> HIDE DEF V
    <3> QED
      BY <1>2, <1>5, Least
  <2>2. PICK u : u = Min(V)
    OBVIOUS
  <2> QED
    BY <1>1, <1>3, <1>5, <2>1, <2>2
<1> QED
  BY <1>4, <1>5

-----------------------------------------------------------------------------
(* The calendar *)

LEMMA YearStartInt == \A y \in Int : YearStart(y) \in Int
BY DEF YearStart

LEMMA FirstDay == \A y \in Int : DayNumber(y, 1, 1) = YearStart(y) - 719162
<1>1. YearStart(1970) = 719162
  BY DEF YearStart
<1>2. \A y : MonthStart(y, 1) = 0
  BY DEF MonthStart
<1> QED
  BY <1>1, <1>2, YearStartInt DEF DayNumber

\* A day of the epoch or later has a year.
LEMMA YearFound ==
    ASSUME NEW n \in Nat
    PROVE  /\ YearOf(n) \in Int /\ YearOf(n) >= 1969
           /\ DayNumber(YearOf(n), 1, 1) <= n /\ n < DayNumber(YearOf(n) + 1, 1, 1)
<1> DEFINE f(y) == YearStart(y) - 719162
           lo == 1969 + (n \div 366)
           hi == 1971 + (n \div 365)
<1>1. lo \in Int /\ hi \in Int /\ lo <= hi /\ 1969 <= lo
  OBVIOUS
<1>2. f(lo) <= n
  BY DEF YearStart
<1>3. n < f(hi + 1)
  BY DEF YearStart
<1>4. \E y \in lo..hi : f(y) <= n /\ n < f(y + 1)
  <2> DEFINE S == {y \in lo..hi : n < f(y + 1)}
  <2>1. hi \in S /\ S \in SUBSET Int /\ \A y \in S : lo <= y
    BY <1>1, <1>3
  <2>2. Min(S) \in S /\ \A y \in S : Min(S) <= y
    <3> HIDE DEF S
    <3> QED
      BY <1>1, <2>1, Least
  <2>3. PICK y \in S : \A z \in S : y <= z
    BY <2>2
  <2>4. y \in lo..hi /\ y \in Int /\ n < f(y + 1)
    BY <1>1, <2>3
  <2>5. CASE y = lo
    BY <1>2, <2>4, <2>5
  <2>6. CASE y # lo
    <3>1. y - 1 \in lo..hi /\ y - 1 \notin S /\ (y - 1) + 1 = y
      BY <1>1, <2>3, <2>4, <2>6
    <3>2. ~(n < f(y))
      BY <3>1
    <3>3. f(y) \in Int
      BY <2>4, YearStartInt
    <3> QED
      BY <2>4, <3>2, <3>3
  <2> QED
    BY <2>5, <2>6
<1>5. \E y \in lo..hi : DayNumber(y, 1, 1) <= n /\ n < DayNumber(y + 1, 1, 1)
  BY <1>1, <1>4, FirstDay
<1>6. /\ YearOf(n) \in lo..hi
      /\ DayNumber(YearOf(n), 1, 1) <= n /\ n < DayNumber(YearOf(n) + 1, 1, 1)
  BY <1>5 DEF YearOf
<1> QED
  BY <1>1, <1>6

\* The months of a year follow one another and fill it.
LEMMA MonthsFill ==
    ASSUME NEW y \in Int
    PROVE  /\ \A m \in 1..12 : DayNumber(y, m, 1) \in Int /\ DaysInMonth(y, m) \in 28..31
           /\ \A m \in 1..11 : DayNumber(y, m + 1, 1) = DayNumber(y, m, 1) + DaysInMonth(y, m)
           /\ DayNumber(y + 1, 1, 1) = DayNumber(y, 12, 1) + DaysInMonth(y, 12)
<1>1. PICK leap \in BOOLEAN : leap = Leap(y)
  BY DEF Leap
<1>2. PICK a \in Int : a = YearStart(y)
  BY YearStartInt
<1>3. YearStart(1970) = 719162
  BY DEF YearStart
<1>4. YearStart(y + 1) = a + IF leap THEN 366 ELSE 365
  <2>1. y \div 4 = ((y - 1) \div 4) + IF y % 4 = 0 THEN 1 ELSE 0
    OBVIOUS
  <2>2. y \div 100 = ((y - 1) \div 100) + IF y % 100 = 0 THEN 1 ELSE 0
    OBVIOUS
  <2>3. y \div 400 = ((y - 1) \div 400) + IF y % 400 = 0 THEN 1 ELSE 0
    OBVIOUS
  <2>4. (y % 100 = 0 => y % 4 = 0) /\ (y % 400 = 0 => y % 100 = 0)
    OBVIOUS
  <2>5. (y + 1) - 1 = y
    OBVIOUS
  <2>6. YearStart(y + 1) = (365 * y) + (y \div 4) - (y \div 100) + (y \div 400)
    BY <2>5 DEF YearStart
  <2>7. a = (365 * (y - 1)) + ((y - 1) \div 4) - ((y - 1) \div 100) + ((y - 1) \div 400)
    BY <1>2 DEF YearStart
  <2>8. leap <=> (y % 4 = 0 /\ (y % 100 # 0 \/ y % 400 = 0))
    BY <1>1 DEF Leap
  <2> QED
    BY <2>1, <2>2, <2>3, <2>4, <2>6, <2>7, <2>8
<1>5. \A m \in 1..12 : MonthStart(y, m) =
        <<0, 31, 59, 90, 120, 151, 181, 212, 243, 273, 304, 334>>[m]
          + (IF m > 2 /\ leap THEN 1 ELSE 0)
  BY <1>1 DEF MonthStart
<1>6. \A m \in 1..12 : DaysInMonth(y, m) =
        IF m = 2 THEN (IF leap THEN 29 ELSE 28) ELSE IF m \in {4, 6, 9, 11} THEN 30 ELSE 31
  BY <1>1 DEF DaysInMonth
<1>7. \A m \in 1..12 : DayNumber(y, m, 1) = a - 719162 + MonthStart(y, m)
  <2>1. \A m \in 1..12 : MonthStart(y, m) \in Int
    BY <1>5
  <2> QED
    BY <1>2, <1>3, <2>1 DEF DayNumber
<1>8. DayNumber(y + 1, 1, 1) = YearStart(y + 1) - 719162
  BY FirstDay
<1> QED
  BY <1>2, <1>4, <1>5, <1>6, <1>7, <1>8

LEMMA MonthFound ==
    ASSUME NEW n \in Nat
    PROVE  /\ MonthOf(n) \in 1..12
           /\ DayNumber(YearOf(n), MonthOf(n), 1) <= n
           /\ n < DayNumber(YearOf(n), MonthOf(n), 1) + DaysInMonth(YearOf(n), MonthOf(n))
<1>1. PICK y \in Int : y = YearOf(n)
  BY YearFound
<1>2. DayNumber(y, 1, 1) <= n /\ n < DayNumber(y + 1, 1, 1)
  BY <1>1, YearFound
<1>3. /\ \A m \in 1..12 : DayNumber(y, m, 1) \in Int /\ DaysInMonth(y, m) \in 28..31
      /\ \A m \in 1..11 : DayNumber(y, m + 1, 1) = DayNumber(y, m, 1) + DaysInMonth(y, m)
      /\ DayNumber(y + 1, 1, 1) = DayNumber(y, 12, 1) + DaysInMonth(y, 12)
  BY MonthsFill
<1>4. \E m \in 1..12 : DayNumber(y, m, 1) <= n /\ n < DayNumber(y, m, 1) + DaysInMonth(y, m)
  <2>1. SUFFICES ASSUME \A m \in 1..12 : DayNumber(y, m, 1) <= n =>
                          DayNumber(y, m, 1) + DaysInMonth(y, m) <= n
                 PROVE  FALSE
    BY <1>3
  <2>2. \A m \in 1..11 : DayNumber(y, m, 1) <= n => DayNumber(y, m + 1, 1) <= n
    BY <1>3, <2>1
  <2>3. /\ DayNumber(y, 2, 1) <= n /\ DayNumber(y, 3, 1) <= n
    BY <1>2, <2>2
  <2>4. /\ DayNumber(y, 4, 1) <= n /\ DayNumber(y, 5, 1) <= n
    BY <2>2, <2>3
  <2>5. /\ DayNumber(y, 6, 1) <= n /\ DayNumber(y, 7, 1) <= n
    BY <2>2, <2>4
  <2>6. /\ DayNumber(y, 8, 1) <= n /\ DayNumber(y, 9, 1) <= n
    BY <2>2, <2>5
  <2>7. /\ DayNumber(y, 10, 1) <= n /\ DayNumber(y, 11, 1) <= n
    BY <2>2, <2>6
  <2>8. DayNumber(y, 12, 1) <= n
    BY <2>2, <2>7
  <2> QED
    BY <1>2, <1>3, <2>1, <2>8
<1> QED
  BY <1>1, <1>4 DEF MonthOf

-----------------------------------------------------------------------------
(* The timer is never set to the past *)

LEMMA TodayInt == ASSUME NEW t \in Nat PROVE Today(t) \in Nat /\ Today(t) * TicksPerDay <= t
                                            /\ t < (Today(t) + 1) * TicksPerDay
BY TicksAssumption DEF Today

LEMMA DayInt ==
    ASSUME NEW y \in Int, NEW m \in 1..12, NEW d \in Int
    PROVE  DayNumber(y, m, d) \in Int /\ DayNumber(y, m, d) = DayNumber(y, m, 1) + d - 1
<1>1. YearStart(y) \in Int /\ YearStart(1970) \in Int
  BY YearStartInt
<1>2. MonthStart(y, m) \in Int
  BY DEF MonthStart
<1> QED
  BY <1>1, <1>2 DEF DayNumber

LEMMA DatesInt ==
    \A y \in Int, m \in 1..12, d \in Int : DateIn(y, m, d) \in SUBSET Int
BY DayInt DEF DateIn

\* Every schedule that can be saved, computed at any instant, fires later or never.
LEMMA NextAhead ==
    ASSUME NEW s \in Schedules, NEW enabled \in BOOLEAN, NEW t \in Nat
    PROVE  \/ NextRunAt(s, enabled, t) = Never
           \/ NextRunAt(s, enabled, t) \in Nat /\ NextRunAt(s, enabled, t) > t
<1>1. Validated(s)
  BY ScheduleAssumption
<1>2. CASE ~enabled
  BY <1>2 DEF NextRunAt
<1>3. CASE enabled /\ s.kind = "manual"
  BY <1>3 DEF NextRunAt
<1>4. CASE enabled /\ s.kind = "every"
  <2>1. NextRunAt(s, enabled, t) = t + s.interval
    BY <1>4 DEF NextRunAt
  <2>2. s.interval \in Nat \ {0}
    BY <1>1, <1>4 DEF Validated
  <2> QED
    BY <2>1, <2>2
<1>5. CASE enabled /\ s.kind = "once"
  <2>1. NextRunAt(s, enabled, t) = IF s.at > t THEN s.at ELSE Never
    BY <1>5 DEF NextRunAt
  <2>2. s.at \in Int
    BY <1>1, <1>5 DEF Validated
  <2> QED
    BY <2>1, <2>2
<1>6. ASSUME NEW days \in SUBSET Int, s.clock \in 0..(TicksPerDay - 1),
             NextRunAt(s, enabled, t) = FirstAfter(days, s.clock, t)
      PROVE  \/ NextRunAt(s, enabled, t) = Never
             \/ NextRunAt(s, enabled, t) \in Nat /\ NextRunAt(s, enabled, t) > t
  <2>1. s.clock \in Nat
    BY <1>6, TicksAssumption
  <2> QED
    BY <1>6, <2>1, Scans
<1>7. CASE enabled /\ s.kind = "daily"
  <2>1. {Today(t), Today(t) + 1} \in SUBSET Int
    BY TodayInt
  <2> QED
    BY <1>1, <1>6, <1>7, <2>1 DEF NextRunAt, DailyNext, Validated
<1>8. CASE enabled /\ s.kind = "weekly"
  <2>1. {n \in Today(t)..(Today(t) + 7) : WeekdayOf(n) \in s.weekdays} \in SUBSET Int
    BY TodayInt
  <2> QED
    BY <1>1, <1>6, <1>8, <2>1 DEF NextRunAt, WeeklyNext, Validated
<1>9. CASE enabled /\ s.kind = "monthly"
  <2> DEFINE this == 12 * YearOf(Today(t)) + MonthOf(Today(t)) - 1
  <2>1. this \in Int
    BY TodayInt, YearFound, MonthFound
  <2>2. s.day \in Int
    BY <1>1, <1>9 DEF Validated
  <2>3. \A k \in this..(this + 13) : DateIn(k \div 12, (k % 12) + 1, s.day) \in SUBSET Int
    <3>1. \A k \in Int : k \div 12 \in Int /\ (k % 12) + 1 \in 1..12
      OBVIOUS
    <3> HIDE DEF this
    <3> QED
      BY <2>1, <2>2, <3>1, DatesInt
  <2>4. UNION {DateIn(k \div 12, (k % 12) + 1, s.day) : k \in this..(this + 13)} \in SUBSET Int
    BY <2>3
  <2> QED
    BY <1>1, <1>6, <1>9, <2>4 DEF NextRunAt, MonthlyNext, Validated
<1>10. CASE enabled /\ s.kind = "yearly"
  <2> DEFINE this == YearOf(Today(t))
  <2>1. this \in Int
    BY TodayInt, YearFound
  <2>2. s.day \in Int /\ s.month \in 1..12
    BY <1>1, <1>10 DEF Validated
  <2>3. \A y \in this..(this + 7) : DateIn(y, s.month, s.day) \in SUBSET Int
    <3> HIDE DEF this
    <3> QED
      BY <2>1, <2>2, DatesInt
  <2>4. UNION {DateIn(y, s.month, s.day) : y \in this..(this + 7)} \in SUBSET Int
    BY <2>3
  <2> QED
    BY <1>1, <1>6, <1>10, <2>4 DEF NextRunAt, YearlyNext, Validated
<1> QED
  BY <1>1, <1>2, <1>3, <1>4, <1>5, <1>7, <1>8, <1>9, <1>10 DEF Validated

-----------------------------------------------------------------------------
(* The inductive invariant *)

TableRow == [def : Definitions, next : Nat \cup {Never}]
Firing == [name : Names, def : Definitions, next : Nat, again : BOOLEAN]
Place == [phase : {"rest", "claim", "start"}, at : Instants \cup {0}, due : Seq(Firing)]

Shaped ==
    /\ now \in Instants
    /\ rows \in [Names -> SUBSET TableRow]
    /\ timer \in [Nodes -> Place]
    /\ edits \in 0..MaxEdits /\ trouble \in 0..MaxTrouble
    /\ fired \in [Names -> {Never} \cup Nat]

\* The table is finite, and a name is a key of it.
Keyed ==
    /\ IsFiniteSet({r \in Names : rows[r] # {}})
    /\ \A r \in Names : \A x, y \in rows[r] : x = y

\* A tick works through rows that were due when it began.
Ticking ==
    \A n \in Nodes :
        /\ timer[n].phase = "rest" <=> timer[n].due = <<>>
        /\ timer[n].at <= now
        /\ \A i \in 1..Len(timer[n].due) : timer[n].due[i].next <= timer[n].at

\* A routine was run for an instant that had come.
Past == \A r \in Names : fired[r] <= now

\* An edit in flight came in at an instant that is past.
Asked ==
    /\ requests \subseteq Requests /\ \A e \in requests : e.id < edits /\ e.at <= now
    /\ again \subseteq Names

\* What the table and the lists of the ticks still hold was not run yet, or was put back
\* by an edit; a routine is claimed before it is run, and a tick is later than the runs
\* before it.
Ahead ==
    /\ \A r \in Names : \A row \in rows[r] : row.next = Never \/ row.next > fired[r] \/ r \in again
    /\ \A n \in Nodes : \A i \in 1..Len(timer[n].due) :
          /\ timer[n].due[i].next > fired[timer[n].due[i].name] \/ timer[n].due[i].again
          /\ \A j \in 1..Len(timer[n].due) : timer[n].due[i].name = timer[n].due[j].name => i = j
    /\ \A n \in Nodes : timer[n].phase = "start" =>
          \A row \in rows[Head(timer[n].due).name] :
              \/ row.next = Never \/ row.next > Head(timer[n].due).next
              \/ Head(timer[n].due).name \in again
    /\ \A n \in Nodes : timer[n].phase # "rest" => \A r \in Names : fired[r] <= timer[n].at

Inv == Shaped /\ Keyed /\ Ticking /\ Past /\ Asked

\* What a tick reads: due rows, each once.
LEMMA TickReads ==
    ASSUME NEW n \in Nodes, Shaped, Keyed, Tick(n)
    PROVE  \E order \in Seq(Firing) :
              /\ order # <<>>
              /\ timer' = [timer EXCEPT ![n] = [phase |-> "claim", at |-> now, due |-> order]]
              /\ \A i \in 1..Len(order) : \E row \in rows[order[i].name] :
                    row.next = order[i].next /\ row.next \in Nat /\ row.next <= now
              /\ \A i \in 1..Len(order) : order[i].again = (order[i].name \in again)
              /\ \A i, j \in 1..Len(order) : order[i].name = order[j].name => i = j
<1> DEFINE D == {q \in Names : DueNow(q)}
           rec(r) == [name |-> r, def |-> Row(r).def, next |-> Row(r).next, again |-> r \in again]
           due == {rec(r) : r \in D}
<1>1. rows \in [Names -> SUBSET TableRow] /\ now \in Nat
  BY RoutineAssumption DEF Shaped
<1>2. \A r \in D : /\ Row(r) \in rows[r] /\ Row(r) \in TableRow
                   /\ Row(r).next \in Nat /\ Row(r).next <= now
  <2> SUFFICES ASSUME NEW r \in D
               PROVE  /\ Row(r) \in rows[r] /\ Row(r) \in TableRow
                      /\ Row(r).next \in Nat /\ Row(r).next <= now
    OBVIOUS
  <2>1. PICK row \in rows[r] : row.def.enabled /\ row.next # Never /\ row.next <= now
    BY DEF DueNow
  <2>2. Row(r) = row
    BY <2>1 DEF Row, Keyed
  <2>3. row \in TableRow
    BY <1>1, <2>1
  <2> QED
    BY <2>1, <2>2, <2>3 DEF TableRow
<1>3. \A r \in D : rec(r) \in Firing
  BY <1>2 DEF Firing, TableRow
<1>4. IsFiniteSet(due)
  <2> DEFINE f == [r \in D |-> rec(r)]
  <2>1. D \subseteq {r \in Names : rows[r] # {}}
    BY DEF DueNow
  <2>2. IsFiniteSet(D)
    <3>1. IsFiniteSet({r \in Names : rows[r] # {}})
      BY DEF Keyed
    <3> HIDE DEF D
    <3> QED
      BY <2>1, <3>1, FS_Subset
  <2>3. f \in Surjection(D, due)
    BY DEF Surjection
  <2> HIDE DEF D, due, f
  <2> QED
    BY <2>2, <2>3, FS_Surjection
<1>5. due # {} /\ \E o \in SetToSeqs(due) :
          timer' = [timer EXCEPT ![n] = [phase |-> "claim", at |-> now, due |-> o]]
  BY DEF Tick
<1>6. PICK order \in SetToSeqs(due) :
          timer' = [timer EXCEPT ![n] = [phase |-> "claim", at |-> now, due |-> order]]
  BY <1>5
<1>7. PICK k \in Nat : k = Cardinality(due) /\ k # 0
  BY <1>4, <1>5, FS_EmptySet, FS_CardinalityType
<1>8. order \in [1..k -> due] /\ \A i, j \in 1..k : i # j => order[i] # order[j]
  <2> HIDE DEF due
  <2> QED
    BY <1>6, <1>7 DEF SetToSeqs
<1>9. order \in Seq(Firing) /\ Len(order) = k /\ order # <<>>
  <2>1. due \subseteq Firing
    BY <1>3
  <2>2. order \in [1..k -> Firing]
    <3> HIDE DEF due
    <3> QED
      BY <1>8, <2>1
  <2>3. order \in Seq(Firing)
    BY <1>7, <2>2, SeqDef, Zenon
  <2>4. DOMAIN order = 1..k /\ DOMAIN order = 1..Len(order) /\ Len(order) \in Nat
    BY <2>2, <2>3, LenProperties
  <2>5. Len(order) = k
    <3> HIDE DEF due
    <3> QED
      BY <1>7, <2>4
  <2> QED
    BY <1>7, <2>3, <2>5, EmptySeq
<1>10. \A i \in 1..k : order[i].name \in D /\ order[i] = rec(order[i].name)
  <2> SUFFICES ASSUME NEW i \in 1..k PROVE order[i].name \in D /\ order[i] = rec(order[i].name)
    OBVIOUS
  <2>1. PICK r \in D : order[i] = rec(r)
    BY <1>8
  <2> QED
    BY <2>1
<1>11. \A i \in 1..k : \E row \in rows[order[i].name] :
          row.next = order[i].next /\ row.next \in Nat /\ row.next <= now
  <2> SUFFICES ASSUME NEW i \in 1..k
               PROVE  \E row \in rows[order[i].name] :
                         row.next = order[i].next /\ row.next \in Nat /\ row.next <= now
    OBVIOUS
  <2>1. PICK r \in D : order[i].name = r /\ order[i].next = Row(r).next
    <3>1. PICK r : r \in D /\ order[i] = rec(r)
      BY <1>10
    <3> QED
      BY <3>1
  <2> QED
    BY <1>2, <2>1
<1>12. \A i, j \in 1..k : order[i].name = order[j].name => i = j
  BY <1>8, <1>10
<1>13. \A i \in 1..k : order[i].again = (order[i].name \in again)
  <2> SUFFICES ASSUME NEW i \in 1..k PROVE order[i].again = (order[i].name \in again)
    OBVIOUS
  <2>1. PICK x : x = order[i].name
    OBVIOUS
  <2>2. order[i] = rec(x)
    BY <1>10, <2>1, Zenon
  <2>3. rec(x).again = (x \in again)
    BY Zenon
  <2> QED
    BY <2>1, <2>2, <2>3, Zenon
<1> QED
  BY <1>6, <1>9, <1>11, <1>12, <1>13

\* Going on: the rest of the list, or nothing.
LEMMA GoesOn ==
    ASSUME NEW n \in Nodes, Shaped, timer[n].due # <<>>
    PROVE  /\ Continued(n) \in Place
           /\ Continued(n).phase \in {"rest", "claim"}
           /\ Continued(n).phase = "rest" <=> Continued(n).due = <<>>
           /\ Continued(n).at <= timer[n].at
           /\ Continued(n).phase # "rest" => Continued(n).at = timer[n].at
           /\ \A i \in 1..Len(Continued(n).due) :
                 /\ i + 1 \in 1..Len(timer[n].due)
                 /\ Continued(n).due[i] = timer[n].due[i + 1]
                 /\ Continued(n).at = timer[n].at
<1>1. PICK p \in Place : p = timer[n]
  BY DEF Shaped
<1>2. p.due \in Seq(Firing) /\ p.due # <<>> /\ p.at \in Nat /\ p.at \in Instants \cup {0}
  <2>1. p.due \in Seq(Firing) /\ p.at \in Instants \cup {0}
    BY DEF Place
  <2>2. Instants \cup {0} \subseteq Nat
    BY RoutineAssumption
  <2> QED
    BY <1>1, <2>1, <2>2
<1>3. /\ Tail(p.due) \in Seq(Firing) /\ Len(Tail(p.due)) = Len(p.due) - 1
      /\ Len(p.due) \in Nat \ {0}
      /\ \A i \in 1..Len(Tail(p.due)) : Tail(p.due)[i] = p.due[i + 1]
  BY <1>2, HeadTailProperties, EmptySeq
<1>4. CASE Len(p.due) = 1
  <2>1. Continued(n) = Resting
    BY <1>1, <1>4 DEF Continued
  <2>2. <<>> \in Seq(Firing) /\ Len(<<>>) = 0
    BY EmptySeq
  <2>3. Resting \in Place
    BY <2>2 DEF Resting, Place
  <2> QED
    BY <1>1, <1>2, <2>1, <2>2, <2>3 DEF Resting
<1>5. CASE Len(p.due) # 1
  <2>1. Continued(n) = [p EXCEPT !.phase = "claim", !.due = Tail(p.due)]
    BY <1>1, <1>5 DEF Continued
  <2>2. PICK c : c = Continued(n)
    OBVIOUS
  <2>3. c \in Place /\ c.phase = "claim" /\ c.due = Tail(p.due) /\ c.at = p.at
    BY <1>3, <2>1, <2>2 DEF Place
  <2>4. c.due # <<>>
    <3>1. Len(<<>>) = 0
      BY EmptySeq
    <3>2. Len(Tail(p.due)) # 0
      BY <1>3, <1>5
    <3> QED
      BY <2>3, <3>1, <3>2, Zenon
  <2>5. \A i \in 1..Len(c.due) : i + 1 \in 1..Len(p.due) /\ c.due[i] = p.due[i + 1]
    BY <1>3, <2>3
  <2>6. p.at <= p.at
    BY <1>2
  <2> QED
    BY <1>1, <2>2, <2>3, <2>4, <2>5, <2>6
<1> QED
  BY <1>4, <1>5

\* The first of a list that is not over.
LEMMA Heads ==
    ASSUME NEW n \in Nodes, Shaped, timer[n].due # <<>>
    PROVE  /\ 1 \in 1..Len(timer[n].due) /\ Head(timer[n].due) = timer[n].due[1]
           /\ Head(timer[n].due) \in Firing
           /\ timer[n].at \in Nat /\ timer[n] \in Place
<1>1. PICK p \in Place : p = timer[n]
  BY DEF Shaped
<1>2. p.due \in Seq(Firing) /\ p.due # <<>> /\ p.at \in Nat
  <2>1. p.due \in Seq(Firing) /\ p.at \in Instants \cup {0}
    BY DEF Place
  <2>2. Instants \cup {0} \subseteq Nat
    BY RoutineAssumption
  <2> QED
    BY <1>1, <2>1, <2>2
<1>3. Head(p.due) \in Firing /\ Len(p.due) \in Nat \ {0} /\ Head(p.due) = p.due[1]
  BY <1>2, HeadTailProperties, EmptySeq
<1> QED
  BY <1>1, <1>2, <1>3

LEMMA Begins == Init => Inv /\ Ahead
<1> SUFFICES ASSUME Init PROVE Inv /\ Ahead
  OBVIOUS
<1>1. now \in Instants /\ now \in Nat
  <2>1. Instants \in SUBSET Int /\ Instants # {} /\ \A x \in Instants : 0 <= x
    BY RoutineAssumption
  <2>2. Min(Instants) \in Instants
    BY <2>1, Least
  <2> QED
    BY <2>2, RoutineAssumption DEF Init
<1>2. Resting \in Place /\ <<>> \in Seq(Firing) /\ Len(<<>>) = 0
  <2>1. <<>> \in Seq(Firing) /\ Len(<<>>) = 0
    BY EmptySeq
  <2> QED
    BY <2>1 DEF Place, Resting
<1>3. \A n \in Nodes : timer[n] = Resting
  BY DEF Init
<1>4. \A r \in Names : rows[r] = {} /\ fired[r] = Never
  BY DEF Init
<1>5. Shaped
  BY <1>1, <1>2, RoutineAssumption DEF Shaped, Init
<1>6. Keyed
  <2>1. {r \in Names : rows[r] # {}} = {}
    BY <1>4
  <2> QED
    BY <1>4, <2>1, FS_EmptySet DEF Keyed
<1>7. Ticking
  BY <1>1, <1>2, <1>3 DEF Ticking, Resting
<1>8. Past /\ Ahead
  BY <1>1, <1>2, <1>3, <1>4 DEF Past, Ahead, Resting, Never
<1>9. Asked
  BY DEF Asked, Init
<1> QED
  BY <1>5, <1>6, <1>7, <1>8, <1>9 DEF Inv

\* A row computed when an edit came in, or a tick began, is one of the table's.
LEMMA ArmedRow ==
    ASSUME NEW def \in Definitions, NEW at \in Nat
    PROVE  /\ Armed(def, at) \in TableRow
           /\ Armed(def, at).next = Never \/ Armed(def, at).next > at
<1>1. PICK sch \in Schedules, on \in BOOLEAN : sch = def.schedule /\ on = def.enabled
  BY DefinitionAssumption
<1>2. PICK x : x = NextRunAt(sch, on, at)
  OBVIOUS
<1>3. x = Never \/ (x \in Nat /\ x > at)
  <2>1. NextRunAt(sch, on, at) = Never \/ (NextRunAt(sch, on, at) \in Nat /\ NextRunAt(sch, on, at) > at)
    BY <1>1, NextAhead, Zenon
  <2> QED
    BY <1>2, <2>1, Zenon
<1>4. Armed(def, at) = [def |-> def, next |-> x]
  BY <1>1, <1>2 DEF Armed
<1> QED
  BY <1>3, <1>4 DEF TableRow

-----------------------------------------------------------------------------
(* What one action does to the table, and to a tick *)

\* The row of one routine is written.
LEMMA TableChange ==
    ASSUME Shaped, Keyed, NEW r \in Names, NEW X \in SUBSET TableRow, \A x, y \in X : x = y,
           rows' = [rows EXCEPT ![r] = X]
    PROVE  rows' \in [Names -> SUBSET TableRow] /\ Keyed'
<1>1. rows \in [Names -> SUBSET TableRow]
  BY DEF Shaped
<1>2. rows' \in [Names -> SUBSET TableRow] /\ \A q \in Names : rows'[q] = IF q = r THEN X ELSE rows[q]
  BY <1>1
<1>3. IsFiniteSet({q \in Names : rows'[q] # {}})
  <2> DEFINE old == {q \in Names : rows[q] # {}}
             new == {q \in Names : rows'[q] # {}}
  <2>1. IsFiniteSet(old)
    BY DEF Keyed
  <2>2. new \subseteq old \cup {r}
    BY <1>2
  <2> HIDE DEF old, new
  <2>3. IsFiniteSet(old \cup {r})
    BY <2>1, FS_AddElement
  <2>4. IsFiniteSet(new)
    BY <2>2, <2>3, FS_Subset
  <2> QED
    BY <2>4 DEF new
<1>4. \A q \in Names : \A x, y \in rows'[q] : x = y
  BY <1>2 DEF Keyed
<1> QED
  BY <1>2, <1>3, <1>4 DEF Keyed

\* One tick goes on.
LEMMA TickChange ==
    ASSUME Shaped, Ticking, NEW n \in Nodes, NEW p \in Place, now' = now,
           p.phase = "rest" <=> p.due = <<>>, p.at <= now,
           \A i \in 1..Len(p.due) : p.due[i].next <= p.at,
           timer' = [timer EXCEPT ![n] = p]
    PROVE  timer' \in [Nodes -> Place] /\ Ticking'
<1>1. timer \in [Nodes -> Place]
  BY DEF Shaped
<1>2. timer' \in [Nodes -> Place] /\ \A m \in Nodes : timer'[m] = IF m = n THEN p ELSE timer[m]
  BY <1>1
<1> QED
  BY <1>2 DEF Ticking

\* Nothing of the table, or of the ticks.
LEMMA TableSame == ASSUME Keyed, rows' = rows PROVE Keyed'
BY DEF Keyed

LEMMA TickSame == ASSUME Ticking, timer' = timer, now' = now PROVE Ticking'
BY DEF Ticking

-----------------------------------------------------------------------------
(* Every step keeps the invariant *)

LEMMA KeepsEdit ==
    ASSUME Inv, NEW r \in Names, NEW X \in SUBSET TableRow, \A x, y \in X : x = y,
           rows' = [rows EXCEPT ![r] = X], edits' \in 0..MaxEdits, Asked',
           UNCHANGED <<now, timer, trouble, fired>>
    PROVE  Inv'
<1>1. rows' \in [Names -> SUBSET TableRow] /\ Keyed'
  BY TableChange DEF Inv
<1>3. Shaped'
  BY <1>1 DEF Inv, Shaped
<1>4. Ticking'
  BY TickSame DEF Inv
<1>5. Past'
  BY DEF Inv, Past
<1> QED
  BY <1>1, <1>3, <1>4, <1>5 DEF Inv

LEMMA KeepsTick ==
    ASSUME Inv, NEW n \in Nodes, NEW p \in Place,
           p.phase = "rest" <=> p.due = <<>>, p.at <= now,
           \A i \in 1..Len(p.due) : p.due[i].next <= p.at,
           timer' = [timer EXCEPT ![n] = p], now' = now,
           rows' \in [Names -> SUBSET TableRow] /\ Keyed',
           fired' \in [Names -> {Never} \cup Nat], Past',
           trouble' \in 0..MaxTrouble, edits' = edits, Asked'
    PROVE  Inv'
<1>1. timer' \in [Nodes -> Place] /\ Ticking'
  BY TickChange DEF Inv
<1>2. Shaped'
  BY <1>1 DEF Inv, Shaped
<1> QED
  BY <1>1, <1>2 DEF Inv

\* The edits in flight: one comes in, or they are written or refused.
LEMMA KeepsAsked == Inv /\ [Next]_vars => Asked'
<1> SUFFICES ASSUME Inv, [Next]_vars PROVE Asked'
  OBVIOUS
<1>1. /\ now \in Nat /\ now \in Instants /\ edits \in Nat /\ Instants \subseteq Nat
      /\ requests \subseteq Requests /\ again \subseteq Names
      /\ \A e \in requests : e.id < edits /\ e.at <= now
      /\ \A e \in requests : e.id \in Nat /\ e.at \in Nat
  <2>1. now \in Nat /\ now \in Instants /\ edits \in Nat /\ Instants \subseteq Nat
    BY RoutineAssumption DEF Inv, Shaped
  <2>2. /\ requests \subseteq Requests /\ again \subseteq Names
        /\ \A e \in requests : e.id < edits /\ e.at <= now
    BY DEF Inv, Asked
  <2>3. ASSUME NEW e \in requests PROVE e.id \in Nat /\ e.at \in Nat
    <3>1. e.id \in 0..(MaxEdits - 1) /\ e.at \in Instants
      BY <2>2 DEF Requests
    <3>2. \A i \in 0..(MaxEdits - 1) : i \in Nat
      BY RoutineAssumption
    <3>3. \A t \in Instants : t \in Nat
      BY <2>1
    <3> QED
      BY <3>1, <3>2, <3>3, Zenon
  <2> QED
    BY <2>1, <2>2, <2>3
<1>2. ASSUME requests' \subseteq requests, edits' \in {edits, edits + 1}, now' \in Nat, now' >= now,
             again' \subseteq Names
      PROVE  Asked'
  BY <1>1, <1>2 DEF Asked
<1>3. CASE Advance
  BY <1>1, <1>2, <1>3 DEF Advance
<1>4. ASSUME NEW r \in Names, NEW def \in Definitions, Request(r, def) PROVE Asked'
  <2>1. PICK e : e = [id |-> edits, name |-> r, def |-> def, at |-> now]
    OBVIOUS
  <2>2. /\ edits < MaxEdits /\ edits' = edits + 1 /\ now' = now /\ again' = again
        /\ requests' = requests \cup {e}
    BY <1>4, <2>1 DEF Request
  <2>3. e \in Requests /\ e.id = edits /\ e.at = now
    BY <1>1, <2>1, <2>2, RoutineAssumption DEF Requests
  <2> QED
    BY <1>1, <2>2, <2>3 DEF Asked
<1>5. ASSUME NEW e \in requests, Create(e) \/ Replace(e) PROVE Asked'
  <2>1. e.name \in Names
    BY <1>1 DEF Requests
  <2> QED
    BY <1>1, <1>2, <1>5, <2>1 DEF Create, Replace, Write
<1>6. ASSUME NEW e \in requests, Refuse(e) PROVE Asked'
  BY <1>1, <1>2, <1>6 DEF Refuse
<1>7. ASSUME NEW r \in Names, Delete(r) PROVE Asked'
  BY <1>1, <1>2, <1>7 DEF Delete
<1>8. ASSUME NEW n \in Nodes, Tick(n) \/ Arm(n) \/ Start(n) \/ Skip(n) \/ Crash(n) PROVE Asked'
  <2>1. requests' = requests /\ edits' = edits /\ now' = now
    BY <1>8 DEF Tick, Arm, Start, Skip, Crash
  <2>2. again' \subseteq again
    BY <1>8 DEF Tick, Arm, Start, Skip, Crash
  <2> QED
    BY <1>1, <1>2, <2>1, <2>2
<1>9. CASE UNCHANGED vars
  BY <1>1, <1>2, <1>9 DEF vars
<1> QED
  BY <1>3, <1>4, <1>5, <1>6, <1>7, <1>8, <1>9 DEF Next, Edit, Fire

\* What an edit in flight will write.
LEMMA Written ==
    ASSUME Inv, NEW e \in requests
    PROVE  /\ e.name \in Names /\ e.def \in Definitions /\ e.at \in Instants /\ e.at \in Nat
           /\ Armed(e.def, e.at) \in TableRow
<1>1. e.name \in Names /\ e.def \in Definitions /\ e.at \in Instants /\ e.at \in Nat
  BY RoutineAssumption DEF Inv, Asked, Requests
<1> QED
  BY <1>1, ArmedRow

LEMMA Keeps == Inv /\ [Next]_vars => Inv'
<1> SUFFICES ASSUME Inv, [Next]_vars PROVE Inv'
  OBVIOUS
<1> USE DEF Inv
<1>1. now \in Instants /\ now \in Nat
  BY RoutineAssumption DEF Shaped
<1>2. rows \in [Names -> SUBSET TableRow] /\ Keyed
  BY DEF Shaped
<1>3. fired \in [Names -> {Never} \cup Nat] /\ trouble \in 0..MaxTrouble
  BY DEF Shaped
<1>4. (fired' = fired /\ now' = now => Past') /\ Asked'
  BY KeepsAsked DEF Past
<1>5. CASE Advance
  <2>1. PICK t \in Instants : t > now /\ now' = t
    BY <1>5 DEF Advance
  <2>2. t \in Nat
    BY RoutineAssumption
  <2>3. /\ rows' = rows /\ timer' = timer /\ edits' = edits /\ trouble' = trouble /\ fired' = fired
    BY <1>5 DEF Advance
  <2>4. Shaped'
    BY <2>1, <2>3 DEF Shaped
  <2>5. Keyed'
    BY <2>3, TableSame
  <2>6. \A n \in Nodes : timer[n].at \in Nat
    <3> SUFFICES ASSUME NEW n \in Nodes PROVE timer[n].at \in Nat
      OBVIOUS
    <3>1. timer[n].at \in Instants \cup {0}
      BY DEF Shaped, Place
    <3>2. Instants \cup {0} \subseteq Nat
      BY RoutineAssumption
    <3> QED
      BY <3>1, <3>2
  <2>7. Ticking'
    BY <1>1, <2>1, <2>2, <2>3, <2>6 DEF Ticking
  <2>8. Past'
    BY <1>1, <1>3, <2>1, <2>2, <2>3 DEF Past, Never
  <2> QED
    BY <1>4, <2>4, <2>5, <2>7, <2>8
<1>6. ASSUME NEW e \in requests, Create(e) \/ Replace(e) PROVE Inv'
  <2>1. /\ rows' = [rows EXCEPT ![e.name] = {Armed(e.def, e.at)}]
        /\ edits' = edits /\ UNCHANGED <<now, timer, trouble, fired>>
    BY <1>6 DEF Create, Replace, Write
  <2>2. e.name \in Names /\ Armed(e.def, e.at) \in TableRow
    BY Written
  <2>3. {Armed(e.def, e.at)} \in SUBSET TableRow /\ \A x, y \in {Armed(e.def, e.at)} : x = y
    BY <2>2
  <2>4. edits' \in 0..MaxEdits
    BY <2>1 DEF Shaped
  <2> QED
    BY <1>4, <2>1, <2>2, <2>3, <2>4, KeepsEdit, Zenon
<1>7. ASSUME NEW r \in Names, Delete(r) PROVE Inv'
  <2>1. /\ rows' = [rows EXCEPT ![r] = {}]
        /\ edits < MaxEdits /\ edits' = edits + 1 /\ UNCHANGED <<now, timer, trouble, fired>>
    BY <1>7 DEF Delete
  <2>2. {} \in SUBSET TableRow /\ \A x, y \in {} : x = y
    OBVIOUS
  <2>3. edits' \in 0..MaxEdits
    BY <2>1, RoutineAssumption DEF Shaped
  <2> QED
    BY <1>4, <2>1, <2>2, <2>3, KeepsEdit, Zenon
<1>15. ASSUME NEW r \in Names, NEW def \in Definitions, Request(r, def) PROVE Inv'
  <2>1. edits < MaxEdits /\ edits' = edits + 1 /\ UNCHANGED <<now, rows, timer, trouble, fired>>
    BY <1>15 DEF Request
  <2>2. edits' \in 0..MaxEdits
    BY <2>1, RoutineAssumption DEF Shaped
  <2> QED
    BY <1>4, <2>1, <2>2 DEF Shaped, Keyed, Ticking, Past
<1>16. ASSUME NEW e \in requests, Refuse(e) PROVE Inv'
  BY <1>4, <1>16 DEF Refuse, Shaped, Keyed, Ticking, Past
<1>8. ASSUME NEW n \in Nodes, Tick(n) PROVE Inv'
  <2>1. PICK order \in Seq(Firing) :
              /\ order # <<>>
              /\ timer' = [timer EXCEPT ![n] = [phase |-> "claim", at |-> now, due |-> order]]
              /\ \A i \in 1..Len(order) : \E row \in rows[order[i].name] :
                    row.next = order[i].next /\ row.next \in Nat /\ row.next <= now
    BY <1>8, TickReads
  <2>2. PICK p : p = [phase |-> "claim", at |-> now, due |-> order]
    OBVIOUS
  <2>3. p \in Place /\ p.phase = "claim" /\ p.due = order /\ p.at = now
    BY <1>1, <2>2 DEF Place
  <2>4. (p.phase = "rest" <=> p.due = <<>>) /\ p.at <= now
    BY <1>1, <2>1, <2>3
  <2>5. \A i \in 1..Len(p.due) : p.due[i].next <= p.at
    BY <2>1, <2>3
  <2>6. timer' = [timer EXCEPT ![n] = p]
    BY <2>1, <2>2
  <2>7. rows' = rows /\ fired' = fired /\ trouble' = trouble /\ edits' = edits /\ now' = now
    BY <1>8 DEF Tick
  <2>8. rows' \in [Names -> SUBSET TableRow] /\ Keyed'
    BY <1>2, <2>7, TableSame
  <2> QED
    BY <1>3, <1>4, <2>3, <2>4, <2>5, <2>6, <2>7, <2>8, KeepsTick
<1>9. ASSUME NEW n \in Nodes, Arm(n) PROVE Inv'
  <2>1. timer[n].phase = "claim" /\ timer[n].due # <<>>
    BY <1>9 DEF Arm, Ticking
  <2>2. /\ Head(timer[n].due) \in Firing /\ timer[n].at \in Nat /\ timer[n] \in Place
    BY <2>1, Heads
  <2>3. PICK c : c = Head(timer[n].due)
    OBVIOUS
  <2>4. c.name \in Names /\ c.def \in Definitions
    BY <2>2, <2>3 DEF Firing
  <2>5. PICK next : next = NextRunAt(c.def.schedule, c.def.enabled, timer[n].at)
    OBVIOUS
  <2>6. next \in Nat \cup {Never}
    <3>1. Armed(c.def, timer[n].at) \in TableRow
      BY <2>2, <2>4, ArmedRow
    <3> QED
      BY <2>5, <3>1 DEF Armed, TableRow
  <2>7. PICK X : X = {[row EXCEPT !.next = next] : row \in rows[c.name]}
    OBVIOUS
  <2>8. rows' = [rows EXCEPT ![c.name] = X]
    BY <1>9, <2>3, <2>5, <2>7 DEF Arm
  <2>9. X \in SUBSET TableRow /\ \A x, y \in X : x = y
    <3>1. \A row \in rows[c.name] : row \in TableRow
      BY <1>2, <2>4
    <3>2. \A x, y \in rows[c.name] : x = y
      BY <2>4 DEF Keyed
    <3> QED
      BY <2>6, <2>7, <3>1, <3>2 DEF TableRow
  <2>10. rows' \in [Names -> SUBSET TableRow] /\ Keyed'
    BY <2>4, <2>8, <2>9, TableChange
  <2>11. PICK p : p = [timer[n] EXCEPT !.phase = "start"]
    OBVIOUS
  <2>12. p \in Place /\ p.phase = "start" /\ p.due = timer[n].due /\ p.at = timer[n].at
    BY <2>2, <2>11 DEF Place
  <2>13. timer' = [timer EXCEPT ![n] = p]
    BY <1>9, <2>11 DEF Arm
  <2>14. (p.phase = "rest" <=> p.due = <<>>) /\ p.at <= now /\ \A i \in 1..Len(p.due) : p.due[i].next <= p.at
    BY <2>1, <2>12 DEF Ticking
  <2>15. fired' = fired /\ trouble' = trouble /\ edits' = edits /\ now' = now
    BY <1>9 DEF Arm
  <2> QED
    BY <1>3, <1>4, <2>10, <2>12, <2>13, <2>14, <2>15, KeepsTick
<1>10. ASSUME NEW n \in Nodes, timer[n].due # <<>>,
             timer' = [timer EXCEPT ![n] = Continued(n)], now' = now,
             rows' = rows, fired' \in [Names -> {Never} \cup Nat], Past',
             trouble' \in 0..MaxTrouble, edits' = edits
      PROVE  Inv'
  <2>1. PICK p : p = Continued(n)
    OBVIOUS
  <2>2. /\ p \in Place /\ (p.phase = "rest" <=> p.due = <<>>)
        /\ p.at <= timer[n].at
        /\ \A i \in 1..Len(p.due) :
                 /\ i + 1 \in 1..Len(timer[n].due) /\ p.due[i] = timer[n].due[i + 1]
                 /\ p.at = timer[n].at
    BY <1>10, <2>1, GoesOn
  <2>3. timer[n].at <= now /\ timer[n].at \in Nat
    BY <1>10, Heads DEF Ticking
  <2>4. p.at \in Nat
    <3>1. p.at \in Instants \cup {0}
      BY <2>2 DEF Place
    <3>2. Instants \cup {0} \subseteq Nat
      BY RoutineAssumption
    <3> QED
      BY <3>1, <3>2
  <2>5. p.at <= now
    BY <1>1, <2>2, <2>3, <2>4
  <2>6. \A i \in 1..Len(p.due) : p.due[i].next <= p.at
    BY <2>2 DEF Ticking
  <2>7. rows' \in [Names -> SUBSET TableRow] /\ Keyed'
    BY <1>2, <1>10, TableSame
  <2>8. timer' = [timer EXCEPT ![n] = p]
    BY <1>10, <2>1
  <2> QED
    BY <1>4, <1>10, <2>2, <2>5, <2>6, <2>7, <2>8, KeepsTick
<1>11. ASSUME NEW n \in Nodes, Skip(n) PROVE Inv'
  <2>1. timer[n].due # <<>>
    BY <1>11 DEF Skip, Ticking
  <2>2. trouble' \in 0..MaxTrouble
    BY <1>3, <1>11, RoutineAssumption DEF Skip
  <2> QED
    BY <1>3, <1>10, <1>11, <1>4, <2>1, <2>2 DEF Skip
<1>12. ASSUME NEW n \in Nodes, Start(n) PROVE Inv'
  <2>1. timer[n].due # <<>>
    BY <1>12 DEF Start, Ticking
  <2>2. PICK c : c = Head(timer[n].due)
    OBVIOUS
  <2>3. c.next \in Nat /\ c.next <= now
    <3>1. /\ c \in Firing /\ c = timer[n].due[1] /\ 1 \in 1..Len(timer[n].due)
          /\ timer[n].at \in Nat
      BY <2>1, <2>2, Heads
    <3>2. c.next <= timer[n].at /\ timer[n].at <= now
      BY <3>1 DEF Ticking
    <3>3. c.next \in Nat
      BY <3>1 DEF Firing
    <3> QED
      BY <1>1, <3>1, <3>2, <3>3
  <2>4. \/ fired' = fired
        \/ fired' = [fired EXCEPT ![c.name] = c.next]
    BY <1>3, <1>12, <2>2 DEF Start
  <2>5. now' = now
    BY <1>12 DEF Start
  <2>6. fired' \in [Names -> {Never} \cup Nat]
    BY <1>3, <2>3, <2>4
  <2>7. Past'
    BY <1>3, <2>3, <2>4, <2>5 DEF Past
  <2> QED
    BY <1>3, <1>10, <1>12, <2>1, <2>6, <2>7 DEF Start
<1>13. ASSUME NEW n \in Nodes, Crash(n) PROVE Inv'
  <2>1. <<>> \in Seq(Firing) /\ Len(<<>>) = 0
    BY EmptySeq
  <2>2. PICK p : p = Resting
    OBVIOUS
  <2>3. p \in Place /\ p.phase = "rest" /\ p.due = <<>> /\ p.at = 0
    BY <2>1, <2>2 DEF Resting, Place
  <2>4. (p.phase = "rest" <=> p.due = <<>>) /\ p.at <= now /\ \A i \in 1..Len(p.due) : p.due[i].next <= p.at
    BY <1>1, <2>1, <2>3
  <2>5. timer' = [timer EXCEPT ![n] = p]
    BY <1>13, <2>2 DEF Crash
  <2>6. rows' = rows /\ fired' = fired /\ edits' = edits /\ now' = now
    BY <1>13 DEF Crash
  <2>7. rows' \in [Names -> SUBSET TableRow] /\ Keyed'
    BY <1>2, <2>6, TableSame
  <2>8. trouble' \in 0..MaxTrouble
    BY <1>3, <1>13, RoutineAssumption DEF Crash
  <2> QED
    BY <1>3, <1>4, <2>3, <2>4, <2>5, <2>6, <2>7, <2>8, KeepsTick
<1>14. CASE UNCHANGED vars
  BY <1>4, <1>14 DEF vars, Shaped, Keyed, Ticking, Past
<1> QED
  BY <1>5, <1>6, <1>7, <1>8, <1>9, <1>11, <1>12, <1>13, <1>14, <1>15, <1>16 DEF Next, Edit, Fire

\* Every reachable state is well formed: a name has at most one row, a tick at rest has
\* no list, and what a tick works through was due when the tick began.
THEOREM TypeCorrect == Spec => []TypeOK
<1>1. Init => Inv
  BY Begins
<1>2. Inv /\ [Next]_vars => Inv'
  BY Keeps
<1>3. Inv => TypeOK
  <2> SUFFICES ASSUME Inv PROVE TypeOK
    OBVIOUS
  <2>1. now \in Instants /\ now \in Nat /\ edits \in 0..MaxEdits /\ trouble \in 0..MaxTrouble
    BY RoutineAssumption DEF Inv, Shaped
  <2>2. ASSUME NEW r \in Names
        PROVE  /\ Cardinality(rows[r]) <= 1
               /\ \A row \in rows[r] : row.def \in Definitions /\ row.next \in Nat \cup {Never}
               /\ fired[r] = Never \/ fired[r] \in 0..now
    <3>1. rows[r] \in SUBSET TableRow /\ \A x, y \in rows[r] : x = y
      BY DEF Inv, Shaped, Keyed
    <3>2. rows[r] = {} \/ \E x : rows[r] = {x}
      BY <3>1
    <3>3. Cardinality(rows[r]) <= 1
      <4>1. CASE rows[r] = {}
        BY <4>1, FS_EmptySet
      <4>2. CASE \E x : rows[r] = {x}
        <5>1. PICK x : rows[r] = {x}
          BY <4>2
        <5>2. Cardinality(rows[r]) = 1
          BY <5>1, FS_Singleton
        <5> QED
          BY <5>2
      <4> QED
        BY <3>2, <4>1, <4>2
    <3>4. \A row \in rows[r] : row.def \in Definitions /\ row.next \in Nat \cup {Never}
      BY <3>1 DEF TableRow
    <3>5. fired[r] \in {Never} \cup Nat /\ fired[r] <= now
      BY DEF Inv, Shaped, Past
    <3>6. fired[r] = Never \/ fired[r] \in 0..now
      BY <2>1, <3>5
    <3> QED
      BY <3>3, <3>4, <3>6
  <2>3. ASSUME NEW n \in Nodes
        PROVE  /\ timer[n].phase \in {"rest", "claim", "start"}
               /\ timer[n].at \in Instants \cup {0}
               /\ timer[n].phase = "rest" <=> timer[n].due = <<>>
               /\ \A i \in DOMAIN timer[n].due : timer[n].due[i].next \in 0..timer[n].at
    <3>1. PICK p \in Place : p = timer[n]
      BY DEF Inv, Shaped
    <3>2. /\ p.phase \in {"rest", "claim", "start"} /\ p.at \in Instants \cup {0}
          /\ p.due \in Seq(Firing)
      BY DEF Place
    <3>3. p.phase = "rest" <=> p.due = <<>>
      BY <3>1 DEF Inv, Ticking
    <3>4. ASSUME NEW i \in DOMAIN p.due PROVE p.due[i].next \in 0..p.at
      <4>1. i \in 1..Len(p.due)
        BY <3>2, LenProperties
      <4>2. p.due[i] \in Firing
        BY <3>2, <4>1, ElementOfSeq
      <4>3. p.due[i].next \in Nat
        BY <4>2 DEF Firing
      <4>4. p.due[i].next <= p.at
        BY <3>1, <4>1 DEF Inv, Ticking
      <4>5. p.at \in Nat
        <5>1. Instants \cup {0} \subseteq Nat
          BY RoutineAssumption
        <5> QED
          BY <3>2, <5>1
      <4> QED
        BY <4>3, <4>4, <4>5
    <3> QED
      BY <3>1, <3>2, <3>3, <3>4
  <2> QED
    BY <2>1, <2>2, <2>3 DEF TypeOK, Inv, Asked
<1> QED
  BY <1>1, <1>2, <1>3, PTL DEF Spec

-----------------------------------------------------------------------------
(* One server: a firing is run once *)

Alone == \A m, n \in Nodes : m = n

LEMMA KeepsAhead ==
    ASSUME Alone, Inv, Ahead, [Next]_vars
    PROVE  Ahead'
<1>1. /\ now \in Nat /\ rows \in [Names -> SUBSET TableRow] /\ fired \in [Names -> {Never} \cup Nat]
      /\ again \subseteq Names
  BY RoutineAssumption DEF Inv, Shaped, Asked
<1>2. timer \in [Nodes -> Place]
  BY DEF Inv, Shaped
<1>3. \A r \in Names : fired[r] <= now
  BY DEF Inv, Past
<1>4. CASE UNCHANGED <<rows, timer, fired, again>>
  BY <1>4 DEF Ahead
<1>5. ASSUME NEW r \in Names, NEW X \in SUBSET TableRow,
             \A row \in X : row.next = Never \/ r \in again' \/ ~Ran(r, row.next),
             \A q \in again : q # r => q \in again',
             rows' = [rows EXCEPT ![r] = X], timer' = timer, fired' = fired
      PROVE  Ahead'
  <2>1. \A q \in Names : rows'[q] = IF q = r THEN X ELSE rows[q]
    BY <1>1, <1>5
  <2>2. ASSUME NEW q \in Names, NEW row \in rows'[q], row.next # Never, q \notin again'
        PROVE  row.next > fired'[q]
    <3>1. CASE q = r
      <4>1. ~(row.next <= fired[q]) /\ row.next \in Nat
        BY <1>5, <2>1, <2>2, <3>1 DEF TableRow, Ran
      <4>2. fired[q] \in {Never} \cup Nat
        BY <1>1
      <4> QED
        BY <1>5, <4>1, <4>2 DEF Never
    <3>2. CASE q # r
      BY <1>5, <2>1, <2>2, <3>2 DEF Ahead
    <3> QED
      BY <3>1, <3>2
  <2>3. ASSUME NEW n \in Nodes, timer'[n].phase = "start",
               NEW row \in rows'[Head(timer'[n].due).name], row.next # Never,
               Head(timer'[n].due).name \notin again'
        PROVE  row.next > Head(timer'[n].due).next
    <3>1. timer[n].due # <<>> /\ timer[n].phase = "start"
      BY <1>5, <2>3 DEF Inv, Ticking
    <3>2. PICK c : c = Head(timer[n].due)
      OBVIOUS
    <3>3. c \in Firing
      BY <3>1, <3>2, Heads DEF Inv
    <3>4. c.name \in Names /\ c.next \in Nat
      BY <3>3 DEF Firing
    <3>5. row \in rows'[c.name] /\ c.name \notin again'
      BY <1>5, <2>3, <3>2
    <3>6. CASE c.name = r
      <4>1. row \in X
        BY <2>1, <3>4, <3>5, <3>6
      <4>2. row.next \in Nat /\ ~Ran(c.name, row.next)
        BY <1>5, <2>3, <3>5, <3>6, <4>1 DEF TableRow
      <4>3. ~(row.next <= c.next)
        BY <3>1, <3>2, <4>2 DEF Ran
      <4> QED
        BY <1>5, <3>2, <3>4, <4>2, <4>3
    <3>7. CASE c.name # r
      <4>1. row \in rows[c.name] /\ c.name \notin again
        BY <1>5, <2>1, <3>4, <3>5, <3>7
      <4>2. row.next > c.next
        BY <2>3, <3>1, <3>2, <4>1 DEF Ahead
      <4> QED
        BY <1>5, <3>2, <4>2
    <3> QED
      BY <3>6, <3>7
  <2>4. \A q \in Names : \A row \in rows'[q] : row.next = Never \/ row.next > fired'[q] \/ q \in again'
    BY <2>2
  <2>5. \A n \in Nodes : timer'[n].phase = "start" =>
            \A row \in rows'[Head(timer'[n].due).name] :
                \/ row.next = Never \/ row.next > Head(timer'[n].due).next
                \/ Head(timer'[n].due).name \in again'
    BY <2>3
  <2> QED
    BY <1>5, <2>4, <2>5 DEF Ahead
<1>6. ASSUME NEW e \in requests, Create(e) \/ Replace(e) PROVE Ahead'
  <2>1. PICK row : row = Armed(e.def, e.at)
    OBVIOUS
  <2>2. rows' = [rows EXCEPT ![e.name] = {row}] /\ timer' = timer /\ fired' = fired
    BY <1>6, <2>1 DEF Create, Replace, Write
  <2>3. again' = IF row.next # Never /\ Ran(e.name, row.next) THEN again \cup {e.name}
                                                             ELSE again \ {e.name}
    BY <1>6, <2>1 DEF Create, Replace, Write
  <2>4. e.name \in Names /\ {row} \in SUBSET TableRow
    BY <2>1, Written
  <2>5. \A x \in {row} : x.next = Never \/ e.name \in again' \/ ~Ran(e.name, x.next)
    BY <2>3
  <2>6. \A q \in again : q # e.name => q \in again'
    BY <2>3
  <2> QED
    BY <1>5, <2>2, <2>4, <2>5, <2>6, Zenon
<1>7. ASSUME NEW r \in Names, Delete(r) PROVE Ahead'
  <2>1. rows' = [rows EXCEPT ![r] = {}] /\ timer' = timer /\ fired' = fired /\ again' = again \ {r}
    BY <1>7 DEF Delete
  <2>2. {} \in SUBSET TableRow /\ \A row \in {} : row.next = Never \/ r \in again' \/ ~Ran(r, row.next)
    OBVIOUS
  <2>3. \A q \in again : q # r => q \in again'
    BY <2>1
  <2> QED
    BY <1>5, <2>1, <2>2, <2>3
<1>8. ASSUME NEW n \in Nodes, Tick(n) PROVE Ahead'
  <2>1. PICK order \in Seq(Firing) :
              /\ order # <<>>
              /\ timer' = [timer EXCEPT ![n] = [phase |-> "claim", at |-> now, due |-> order]]
              /\ \A i \in 1..Len(order) : \E row \in rows[order[i].name] :
                    row.next = order[i].next /\ row.next \in Nat /\ row.next <= now
              /\ \A i \in 1..Len(order) : order[i].again = (order[i].name \in again)
              /\ \A i, j \in 1..Len(order) : order[i].name = order[j].name => i = j
    BY <1>8, TickReads DEF Inv
  <2>2. rows' = rows /\ fired' = fired /\ again' = again
    BY <1>8 DEF Tick
  <2>3. \A m \in Nodes : timer'[m].due = order /\ timer'[m].phase = "claim" /\ timer'[m].at = now
    BY <1>2, <2>1 DEF Alone
  <2>4. ASSUME NEW i \in 1..Len(order), ~order[i].again PROVE order[i].next > fired[order[i].name]
    <3>1. PICK row \in rows[order[i].name] : row.next = order[i].next /\ row.next \in Nat
      BY <2>1
    <3>2. order[i].name \in Names
      <4>1. order[i] \in Firing
        BY ElementOfSeq
      <4> QED
        BY <4>1 DEF Firing
    <3>3. order[i].name \notin again
      BY <2>1, <2>4
    <3>4. row.next > fired[order[i].name]
      BY <3>1, <3>2, <3>3 DEF Ahead, Never
    <3> QED
      BY <3>1, <3>4
  <2>5. \A i \in 1..Len(order) : order[i].next > fired[order[i].name] \/ order[i].again
    BY <2>4
  <2> QED
    BY <1>3, <2>1, <2>2, <2>3, <2>5 DEF Ahead
<1>9. ASSUME NEW n \in Nodes, Arm(n) PROVE Ahead'
  <2>1. timer[n].phase = "claim" /\ timer[n].due # <<>>
    BY <1>9 DEF Arm, Inv, Ticking
  <2>2. PICK p : p = timer[n]
    OBVIOUS
  <2>3. PICK c : c = Head(p.due)
    OBVIOUS
  <2>4. /\ c \in Firing /\ c = p.due[1] /\ 1 \in 1..Len(p.due) /\ p.at \in Nat /\ p \in Place
    BY <2>1, <2>2, <2>3, Heads DEF Inv
  <2>5. c.name \in Names /\ c.def \in Definitions /\ c.next \in Nat
    BY <2>4 DEF Firing
  <2>6. fired[c.name] <= p.at /\ c.next <= p.at
    BY <2>1, <2>2, <2>4, <2>5 DEF Ahead, Inv, Ticking
  <2>7. PICK next : next = NextRunAt(c.def.schedule, c.def.enabled, p.at)
    OBVIOUS
  <2>8. next = Never \/ next > p.at
    <3>1. Armed(c.def, p.at).next = Never \/ Armed(c.def, p.at).next > p.at
      BY <2>4, <2>5, ArmedRow
    <3> QED
      BY <2>7, <3>1 DEF Armed
  <2>9. next \in Nat \cup {Never}
    <3>1. Armed(c.def, p.at) \in TableRow
      BY <2>4, <2>5, ArmedRow
    <3> QED
      BY <2>7, <3>1 DEF Armed, TableRow
  <2>10. rows' = [rows EXCEPT ![c.name] = {[row EXCEPT !.next = next] : row \in rows[c.name]}]
    BY <1>9, <2>2, <2>3, <2>7 DEF Arm
  <2>11. /\ \A q \in Names : q # c.name => rows'[q] = rows[q]
         /\ \A row \in rows'[c.name] : row.next = next
    <3>1. \A row \in rows[c.name] : [row EXCEPT !.next = next].next = next
      BY <1>1, <2>5 DEF TableRow
    <3> QED
      BY <1>1, <2>5, <2>10, <3>1
  <2>12. fired' = fired /\ again' = again \ {c.name}
    BY <1>9, <2>2, <2>3 DEF Arm
  <2>13. \A m \in Nodes : timer'[m].due = p.due /\ timer'[m].phase = "start" /\ timer'[m].at = p.at
    <3>1. timer' = [timer EXCEPT ![n].phase = "start"]
      BY <1>9 DEF Arm
    <3>2. \A m \in Nodes : m = n
      BY DEF Alone
    <3>3. timer'[n] = [p EXCEPT !.phase = "start"]
      BY <1>2, <2>2, <3>1
    <3>4. timer'[n].due = p.due /\ timer'[n].phase = "start" /\ timer'[n].at = p.at
      BY <2>4, <3>3 DEF Place
    <3> QED
      BY <3>2, <3>4, Zenon
  <2>14. next = Never \/ (next > c.next /\ next > fired[c.name])
    BY <1>1, <2>4, <2>5, <2>6, <2>8, <2>9 DEF Never
  <2>15. \A q \in Names : \A row \in rows'[q] : row.next = Never \/ row.next > fired'[q] \/ q \in again'
    BY <2>11, <2>12, <2>14 DEF Ahead
  <2>16. \A m \in Nodes : \A i \in 1..Len(timer'[m].due) :
            /\ timer'[m].due[i].next > fired'[timer'[m].due[i].name] \/ timer'[m].due[i].again
            /\ \A j \in 1..Len(timer'[m].due) : timer'[m].due[i].name = timer'[m].due[j].name => i = j
    BY <2>2, <2>12, <2>13 DEF Ahead
  <2>17. \A m \in Nodes : timer'[m].phase = "start" =>
            \A row \in rows'[Head(timer'[m].due).name] :
                row.next = Never \/ row.next > Head(timer'[m].due).next
    BY <2>3, <2>11, <2>13, <2>14
  <2>18. \A m \in Nodes : \A r \in Names : fired'[r] <= timer'[m].at
    BY <2>1, <2>2, <2>12, <2>13 DEF Ahead
  <2> QED
    BY <2>15, <2>16, <2>17, <2>18 DEF Ahead
<1>10. ASSUME NEW n \in Nodes, timer[n].due # <<>>, rows' = rows, again' = again,
              timer' = [timer EXCEPT ![n] = Continued(n)],
              \A r \in Names : \A row \in rows[r] : row.next = Never \/ row.next > fired'[r] \/ r \in again,
              \A i \in 1..Len(timer[n].due) : i # 1 =>
                  timer[n].due[i].next > fired'[timer[n].due[i].name] \/ timer[n].due[i].again,
              \A r \in Names : fired'[r] <= timer[n].at
       PROVE  Ahead'
  <2>1. PICK p : p = Continued(n)
    OBVIOUS
  <2>2. /\ p \in Place /\ p.phase # "start" /\ (p.phase # "rest" => p.at = timer[n].at)
        /\ \A i \in 1..Len(p.due) :
              i + 1 \in 1..Len(timer[n].due) /\ p.due[i] = timer[n].due[i + 1]
    BY <1>10, <2>1, GoesOn DEF Inv
  <2>3. \A m \in Nodes : timer'[m] = p
    BY <1>2, <1>10, <2>1 DEF Alone
  <2>4. ASSUME NEW i \in 1..Len(p.due)
        PROVE  /\ p.due[i].next > fired'[p.due[i].name] \/ p.due[i].again
               /\ \A j \in 1..Len(p.due) : p.due[i].name = p.due[j].name => i = j
    <3>1. i + 1 # 1 /\ i + 1 \in 1..Len(timer[n].due) /\ p.due[i] = timer[n].due[i + 1]
      BY <2>2
    <3>2. p.due[i].next > fired'[p.due[i].name] \/ p.due[i].again
      BY <1>10, <3>1
    <3>3. ASSUME NEW j \in 1..Len(p.due), p.due[i].name = p.due[j].name PROVE i = j
      <4>1. j + 1 \in 1..Len(timer[n].due) /\ p.due[j] = timer[n].due[j + 1]
        BY <2>2
      <4>2. i + 1 = j + 1
        BY <3>1, <3>3, <4>1 DEF Ahead
      <4> QED
        BY <4>2
    <3> QED
      BY <3>2, <3>3
  <2>5. \A r \in Names : \A row \in rows'[r] : row.next = Never \/ row.next > fired'[r] \/ r \in again'
    BY <1>10
  <2>6. \A m \in Nodes : \A i \in 1..Len(timer'[m].due) :
            /\ timer'[m].due[i].next > fired'[timer'[m].due[i].name] \/ timer'[m].due[i].again
            /\ \A j \in 1..Len(timer'[m].due) : timer'[m].due[i].name = timer'[m].due[j].name => i = j
    <3> SUFFICES ASSUME NEW m \in Nodes, NEW i \in 1..Len(p.due)
                 PROVE  /\ p.due[i].next > fired'[p.due[i].name] \/ p.due[i].again
                        /\ \A j \in 1..Len(p.due) : p.due[i].name = p.due[j].name => i = j
      BY <2>3, Zenon
    <3> QED
      BY <2>4, Zenon
  <2>7. \A m \in Nodes : timer'[m].phase # "start"
    BY <2>2, <2>3
  <2>8. \A m \in Nodes : timer'[m].phase # "rest" => \A r \in Names : fired'[r] <= timer'[m].at
    BY <1>10, <2>2, <2>3
  <2> QED
    BY <2>5, <2>6, <2>7, <2>8 DEF Ahead
<1>11. ASSUME NEW n \in Nodes, Skip(n) PROVE Ahead'
  <2>1. timer[n].due # <<>> /\ timer[n].phase # "rest"
    BY <1>11 DEF Skip, Inv, Ticking
  <2>2. rows' = rows /\ fired' = fired /\ again' = again /\ timer' = [timer EXCEPT ![n] = Continued(n)]
    BY <1>11 DEF Skip
  <2>3. /\ \A r \in Names : \A row \in rows[r] : row.next = Never \/ row.next > fired'[r] \/ r \in again
        /\ \A i \in 1..Len(timer[n].due) :
              timer[n].due[i].next > fired'[timer[n].due[i].name] \/ timer[n].due[i].again
        /\ \A r \in Names : fired'[r] <= timer[n].at
    BY <2>1, <2>2 DEF Ahead
  <2> QED
    BY <1>10, <2>1, <2>2, <2>3
<1>12. ASSUME NEW n \in Nodes, Start(n) PROVE Ahead'
  <2>1. timer[n].due # <<>> /\ timer[n].phase = "start"
    BY <1>12 DEF Start, Inv, Ticking
  <2>2. PICK c : c = Head(timer[n].due)
    OBVIOUS
  <2>3. /\ c \in Firing /\ c = timer[n].due[1] /\ 1 \in 1..Len(timer[n].due)
        /\ c.name \in Names /\ c.next \in Nat
    BY <2>1, <2>2, Heads DEF Inv, Firing
  <2>4. rows' = rows /\ again' = again /\ timer' = [timer EXCEPT ![n] = Continued(n)]
    BY <1>12 DEF Start
  <2>5. fired' = [fired EXCEPT ![c.name] = IF rows[c.name] = {} \/ c.next <= @ THEN @ ELSE c.next]
    BY <1>12, <2>2 DEF Start
  <2>6. /\ \A q \in Names : q # c.name => fired'[q] = fired[q]
        /\ fired'[c.name] \in {fired[c.name], c.next}
    BY <1>1, <2>3, <2>5
  <2>7. \A r \in Names : \A row \in rows[r] : row.next = Never \/ row.next > fired'[r] \/ r \in again
    <3>1. \A row \in rows[c.name] : row.next = Never \/ row.next > c.next \/ c.name \in again
      BY <2>1, <2>2 DEF Ahead
    <3>2. \A r \in Names : \A row \in rows[r] : row.next = Never \/ row.next > fired[r] \/ r \in again
      BY DEF Ahead
    <3> QED
      BY <2>6, <3>1, <3>2
  <2>8. ASSUME NEW i \in 1..Len(timer[n].due), i # 1
        PROVE  timer[n].due[i].next > fired'[timer[n].due[i].name] \/ timer[n].due[i].again
    <3>1. timer[n].due[i].name # c.name
      BY <2>3, <2>8 DEF Ahead
    <3>2. timer[n].due[i].name \in Names
      <4>1. timer[n].due \in Seq(Firing)
        BY <1>2 DEF Place
      <4> QED
        <5>1. timer[n].due[i] \in Firing
          BY <4>1, ElementOfSeq
        <5> QED
          BY <5>1 DEF Firing
    <3> QED
      BY <2>6, <3>1, <3>2 DEF Ahead
  <2>9. \A r \in Names : fired'[r] <= timer[n].at
    <3>1. c.next <= timer[n].at
      BY <2>3 DEF Inv, Ticking
    <3>2. \A r \in Names : fired[r] <= timer[n].at
      BY <2>1 DEF Ahead
    <3> QED
      BY <2>6, <3>1, <3>2
  <2> QED
    BY <1>10, <2>1, <2>4, <2>7, <2>8, <2>9
<1>13. ASSUME NEW n \in Nodes, Crash(n) PROVE Ahead'
  <2>1. rows' = rows /\ fired' = fired /\ again' = again /\ timer' = [timer EXCEPT ![n] = Resting]
    BY <1>13 DEF Crash
  <2>2. \A m \in Nodes : timer'[m] = Resting
    BY <1>2, <2>1 DEF Alone
  <2>3. Len(<<>>) = 0
    BY EmptySeq
  <2>4. \A m \in Nodes : timer'[m].phase = "rest" /\ Len(timer'[m].due) = 0
    BY <2>2, <2>3 DEF Resting
  <2> QED
    BY <2>1, <2>4 DEF Ahead
<1>14. ASSUME NEW r \in Names, NEW def \in Definitions, Request(r, def) PROVE Ahead'
  BY <1>4, <1>14 DEF Request
<1>15. ASSUME NEW e \in requests, Refuse(e) PROVE Ahead'
  BY <1>4, <1>15 DEF Refuse
<1>16. CASE Advance \/ UNCHANGED vars
  BY <1>4, <1>16 DEF Advance, vars
<1> QED
  BY <1>6, <1>7, <1>8, <1>9, <1>11, <1>12, <1>13, <1>14, <1>15, <1>16 DEF Next, Edit, Fire

\* With one server a due instant is run once: what a tick is about to start is later
\* than every run of that routine before it, whatever fails or restarts between the
\* read, the claim and the run, unless an edit whose request came in before that
\* instant was run is written after it (again): and then once for every such edit,
\* as the next claim moves the timer past every run.
THEOREM FiredOnce ==
    ASSUME Alone
    PROVE  Spec => []FiredOncePerDue
<1>1. Init => Inv /\ Ahead
  BY Begins
<1>2. Inv /\ Ahead /\ [Next]_vars => (Inv /\ Ahead)'
  BY Keeps, KeepsAhead
<1>3. Inv /\ Ahead => FiredOncePerDue
  <2> SUFFICES ASSUME Inv, Ahead, NEW n \in Nodes, timer[n].phase = "start"
               PROVE  \/ Head(timer[n].due).next > fired[Head(timer[n].due).name]
                      \/ Head(timer[n].due).again
    BY DEF FiredOncePerDue
  <2>1. timer[n].due # <<>>
    BY DEF Inv, Ticking
  <2>2. Head(timer[n].due) = timer[n].due[1] /\ 1 \in 1..Len(timer[n].due)
    BY <2>1, Heads DEF Inv
  <2> QED
    BY <2>2 DEF Ahead
<1> QED
  BY <1>1, <1>2, <1>3, PTL DEF Spec

-----------------------------------------------------------------------------
(* Years and months follow one another *)

LEMMA MonthInt ==
    /\ \A y \in Int, m \in 1..12 : DayNumber(y, m, 1) \in Int /\ DaysInMonth(y, m) \in 28..31
    /\ \A y \in Int : DayNumber(y, 1, 1) \in Int
BY MonthsFill

\* A year ends before a later one begins.
LEMMA YearsFollow ==
    ASSUME NEW x \in Int, NEW y \in Int, x < y
    PROVE  DayNumber(x + 1, 1, 1) <= DayNumber(y, 1, 1)
<1>1. YearStart(x + 1) = (365 * x) + (x \div 4) - (x \div 100) + (x \div 400)
  BY DEF YearStart
<1>2. PICK p \in Int : p = y - 1 /\ x <= p
  OBVIOUS
<1>3. YearStart(y) = (365 * p) + (p \div 4) - (p \div 100) + (p \div 400)
  BY <1>2 DEF YearStart
<1>4. x \div 4 <= p \div 4 /\ x \div 400 <= p \div 400
  BY <1>2
<1>5. (p \div 100) - (x \div 100) <= 365 * (p - x)
  BY <1>2
<1>6. YearStart(x + 1) <= YearStart(y)
  BY <1>1, <1>2, <1>3, <1>4, <1>5
<1>7. DayNumber(x + 1, 1, 1) = YearStart(x + 1) - 719162 /\ DayNumber(y, 1, 1) = YearStart(y) - 719162
  BY FirstDay
<1> QED
  BY <1>6, <1>7, YearStartInt

\* A month ends before a later one of its year begins, and the last ends the year.
LEMMA MonthsFollow ==
    ASSUME NEW y \in Int
    PROVE  /\ \A m, k \in 1..12 : m < k => DayNumber(y, m, 1) + DaysInMonth(y, m) <= DayNumber(y, k, 1)
           /\ \A m \in 1..12 : /\ DayNumber(y, 1, 1) <= DayNumber(y, m, 1)
                               /\ DayNumber(y, m, 1) + DaysInMonth(y, m) <= DayNumber(y + 1, 1, 1)
<1>1. PICK a \in Int : a = DayNumber(y, 1, 1)
  BY MonthsFill
<1>2. PICK leap \in {0, 1} : \A m \in 1..12 :
         /\ DayNumber(y, m, 1) = a + <<0, 31, 59, 90, 120, 151, 181, 212, 243, 273, 304, 334>>[m]
                                   + (IF m > 2 THEN leap ELSE 0)
         /\ DaysInMonth(y, m) = IF m = 2 THEN 28 + leap ELSE IF m \in {4, 6, 9, 11} THEN 30 ELSE 31
  <2>1. PICK b \in BOOLEAN : b = Leap(y)
    BY DEF Leap
  <2>2. PICK leap \in {0, 1} : leap = IF b THEN 1 ELSE 0
    OBVIOUS
  <2>3. \A m \in 1..12 : MonthStart(y, m) =
          <<0, 31, 59, 90, 120, 151, 181, 212, 243, 273, 304, 334>>[m] + (IF m > 2 THEN leap ELSE 0)
    BY <2>1, <2>2 DEF MonthStart
  <2>4. \A m \in 1..12 : DaysInMonth(y, m) = IF m = 2 THEN 28 + leap
                                             ELSE IF m \in {4, 6, 9, 11} THEN 30 ELSE 31
    BY <2>1, <2>2 DEF DaysInMonth
  <2>5. \A m \in 1..12 : DayNumber(y, m, 1) = YearStart(y) - YearStart(1970) + MonthStart(y, m)
    <3>1. \A m \in 1..12 : MonthStart(y, m) \in Int
      BY <2>3
    <3> QED
      BY <3>1, YearStartInt DEF DayNumber
  <2>6. MonthStart(y, 1) = 0
    BY <2>3
  <2>7. YearStart(y) \in Int /\ YearStart(1970) \in Int
    BY YearStartInt
  <2>8. a = YearStart(y) - YearStart(1970)
    BY <1>1, <2>5, <2>6, <2>7
  <2>9. \A m \in 1..12 : DayNumber(y, m, 1) = a + <<0, 31, 59, 90, 120, 151, 181, 212, 243, 273, 304, 334>>[m]
                                   + (IF m > 2 THEN leap ELSE 0)
    BY <2>3, <2>5, <2>7, <2>8
  <2> QED
    BY <2>4, <2>9
<1>3. DayNumber(y + 1, 1, 1) = DayNumber(y, 12, 1) + DaysInMonth(y, 12)
  BY MonthsFill
<1>4. DayNumber(y + 1, 1, 1) = a + 365 + leap
  BY <1>2, <1>3
<1> QED
  BY <1>2, <1>4

\* A date is of its year, of its month and of its day.
LEMMA Dated ==
    ASSUME NEW y \in Int, NEW m \in 1..12, NEW d \in 1..31, d <= DaysInMonth(y, m),
           NEW n \in Nat, n = DayNumber(y, m, d)
    PROVE  YearOf(n) = y /\ MonthOf(n) = m /\ DayOf(n) = d
<1>1. n = DayNumber(y, m, d)
  OBVIOUS
<1>2. PICK z \in Int : z = YearOf(n)
  BY YearFound
<1>3. DayNumber(z, 1, 1) <= n /\ n < DayNumber(z + 1, 1, 1)
  BY <1>2, YearFound
<1>4. /\ n = DayNumber(y, m, 1) + d - 1
      /\ DayNumber(y, m, 1) \in Int /\ DaysInMonth(y, m) \in 28..31
  <2>1. d \in Int
    OBVIOUS
  <2> QED
    BY <1>1, <2>1, DayInt, MonthInt
<1>5. DayNumber(y, 1, 1) <= n /\ n < DayNumber(y + 1, 1, 1)
  <2>1. DayNumber(y, 1, 1) <= DayNumber(y, m, 1) /\ DayNumber(y, m, 1) + DaysInMonth(y, m) <= DayNumber(y + 1, 1, 1)
    BY MonthsFollow
  <2>2. DayNumber(y, 1, 1) \in Int /\ DayNumber(y + 1, 1, 1) \in Int
    BY MonthInt
  <2> QED
    BY <1>4, <2>1, <2>2
<1>6. z = y
  <2>1. /\ DayNumber(y, 1, 1) \in Int /\ DayNumber(y + 1, 1, 1) \in Int
        /\ DayNumber(z, 1, 1) \in Int /\ DayNumber(z + 1, 1, 1) \in Int
    <3>1. y + 1 \in Int /\ z + 1 \in Int /\ z \in Int
      BY <1>2
    <3> QED
      BY <3>1, MonthInt, Zenon
  <2>2. ~(z < y)
    <3>1. z < y => DayNumber(z + 1, 1, 1) <= DayNumber(y, 1, 1)
      BY YearsFollow
    <3> QED
      BY <1>3, <1>5, <2>1, <3>1
  <2>3. ~(y < z)
    <3>1. y < z => DayNumber(y + 1, 1, 1) <= DayNumber(z, 1, 1)
      BY YearsFollow
    <3> QED
      BY <1>3, <1>5, <2>1, <3>1
  <2> QED
    BY <2>2, <2>3
<1>7. PICK k \in 1..12 : k = MonthOf(n)
  BY MonthFound
<1>8. DayNumber(y, k, 1) <= n /\ n < DayNumber(y, k, 1) + DaysInMonth(y, k)
  BY <1>2, <1>6, <1>7, MonthFound
<1>9. k = m
  <2>1. /\ DayNumber(y, k, 1) \in Int /\ DaysInMonth(y, k) \in 28..31
    BY <1>7, MonthInt, Zenon
  <2>2. m < k => DayNumber(y, m, 1) + DaysInMonth(y, m) <= DayNumber(y, k, 1)
    BY MonthsFollow
  <2>3. k < m => DayNumber(y, k, 1) + DaysInMonth(y, k) <= DayNumber(y, m, 1)
    BY MonthsFollow
  <2> QED
    BY <1>4, <1>8, <2>1, <2>2, <2>3
<1>10. DayOf(n) = n - DayNumber(y, m, 1) + 1
  BY <1>2, <1>6, <1>7, <1>9 DEF DayOf
<1>11. DayOf(n) = d
  BY <1>4, <1>10
<1> QED
  BY <1>1, <1>2, <1>6, <1>7, <1>9, <1>11

LEMMA DatesRead ==
    \A y \in Int, m \in 1..12, d \in 1..31, n \in Nat :
        n = DayNumber(y, m, d) /\ d <= DaysInMonth(y, m)
            => YearOf(n) = y /\ MonthOf(n) = m /\ DayOf(n) = d
BY Dated

\* A day of the epoch or later is the date it says it is.
LEMMA DateOf ==
    ASSUME NEW n \in Nat
    PROVE  /\ YearOf(n) \in Int /\ MonthOf(n) \in 1..12 /\ DayOf(n) \in 1..31
           /\ DayOf(n) <= DaysInMonth(YearOf(n), MonthOf(n))
           /\ n = DayNumber(YearOf(n), MonthOf(n), DayOf(n))
<1>0. PICK d : d = DayOf(n)
  OBVIOUS
<1>1. PICK y \in Int, m \in 1..12 : y = YearOf(n) /\ m = MonthOf(n) /\ d = DayOf(n)
  BY <1>0, YearFound, MonthFound
<1>2. DayNumber(y, m, 1) <= n /\ n < DayNumber(y, m, 1) + DaysInMonth(y, m)
  BY <1>1, MonthFound
<1>3. DayNumber(y, m, 1) \in Int /\ DaysInMonth(y, m) \in 28..31
  BY MonthInt
<1>4. d = n - DayNumber(y, m, 1) + 1
  BY <1>1 DEF DayOf
<1>5. d \in 1..31 /\ d <= DaysInMonth(y, m)
  <2>1. PICK a \in Int, b \in 28..31 : a = DayNumber(y, m, 1) /\ b = DaysInMonth(y, m)
    BY <1>3
  <2>2. d = n - a + 1 /\ a <= n /\ n < a + b
    BY <1>2, <1>4, <2>1
  <2> QED
    BY <2>1, <2>2
<1>6. DayNumber(y, m, d) = DayNumber(y, m, 1) + d - 1
  <2>1. d \in Int
    BY <1>5
  <2> QED
    BY <1>1, <2>1, DayInt
<1>7. n = DayNumber(y, m, d)
  BY <1>3, <1>4, <1>5, <1>6
<1> QED
  BY <1>1, <1>5, <1>7

\* Later days are of the same month or a later one.
LEMMA LaterMonth ==
    ASSUME NEW n \in Nat, NEW w \in Nat, n <= w
    PROVE  /\ YearOf(n) <= YearOf(w)
           /\ 12 * YearOf(n) + MonthOf(n) <= 12 * YearOf(w) + MonthOf(w)
<1>1. PICK y \in Int, m \in 1..12 : y = YearOf(n) /\ m = MonthOf(n)
  BY YearFound, MonthFound
<1>2. PICK z \in Int, k \in 1..12 : z = YearOf(w) /\ k = MonthOf(w)
  BY YearFound, MonthFound
<1>3. y <= z
  <2>1. DayNumber(y, 1, 1) <= n /\ w < DayNumber(z + 1, 1, 1)
    BY <1>1, <1>2, YearFound
  <2>2. DayNumber(y, 1, 1) \in Int /\ DayNumber(z + 1, 1, 1) \in Int
    BY MonthInt
  <2>3. z < y => DayNumber(z + 1, 1, 1) <= DayNumber(y, 1, 1)
    BY YearsFollow
  <2> QED
    BY <2>1, <2>2, <2>3
<1>4. y = z => m <= k
  <2>1. DayNumber(y, m, 1) <= n /\ w < DayNumber(z, k, 1) + DaysInMonth(z, k)
    BY <1>1, <1>2, MonthFound
  <2>2. DayNumber(y, m, 1) \in Int /\ DayNumber(z, k, 1) \in Int /\ DaysInMonth(z, k) \in 28..31
    BY <1>1, <1>2, MonthInt, Zenon
  <2>3. k < m => DayNumber(z, k, 1) + DaysInMonth(z, k) <= DayNumber(z, m, 1)
    BY MonthsFollow
  <2> QED
    BY <2>1, <2>2, <2>3
<1> QED
  BY <1>1, <1>2, <1>3, <1>4

-----------------------------------------------------------------------------
(* A scan finds the first day its rule falls on *)

LEMMA TicksGrow ==
    ASSUME NEW a \in Int, NEW b \in Int
    PROVE  /\ a * TicksPerDay \in Int
           /\ a < b => a * TicksPerDay + TicksPerDay <= b * TicksPerDay
<1>1. PICK k \in Nat : k = TicksPerDay /\ k >= 1
  BY TicksAssumption
<1>2. a < b => (b - a) * k >= k
  <2> SUFFICES ASSUME a < b PROVE (b - a) * k >= k
    OBVIOUS
  <2>1. PICK c \in Nat : b = a + 1 + c
    <3>1. b - a - 1 \in Nat /\ b = a + 1 + (b - a - 1)
      OBVIOUS
    <3> QED
      BY <3>1
  <2>2. b - a = 1 + c
    BY <2>1
  <2>3. (1 + c) * k = k + c * k /\ c * k >= 0
    BY <1>1, <2>1
  <2> QED
    BY <1>1, <2>2, <2>3
<1>3. b * k = a * k + (b - a) * k /\ a * k \in Int
  BY <1>1
<1> QED
  BY <1>1, <1>2, <1>3

\* A scan over some days agrees with the rule, if after today and within both
\* reaches there is a day it falls on, and up to that day the scan misses none
\* and makes up none.
LEMMA SameFirst ==
    ASSUME NEW s, s.clock \in 0..(TicksPerDay - 1), NEW t \in Nat,
           NEW C \in SUBSET Int, NEW w \in C,
           Today(t) < w, w <= Today(t) + Horizon, FallsOn(s, w),
           \A n \in C : Today(t) <= n => FallsOn(s, n),
           \A n \in Today(t)..w : FallsOn(s, n) => n \in C
    PROVE  FirstAfter(C, s.clock, t) = Stated(s, t, Horizon)
<1>1. PICK T \in Nat, c \in Nat, d \in Nat : T = TicksPerDay /\ c = s.clock /\ c < T /\ d = Today(t)
  <2>1. TicksPerDay \in Nat /\ Today(t) \in Nat
    BY TicksAssumption, TodayInt
  <2>2. s.clock \in Nat /\ s.clock < TicksPerDay
    BY <2>1
  <2> QED
    BY <2>1, <2>2, Zenon
<1>2. d * T <= t /\ t < d * T + T /\ d * T \in Int /\ w * T \in Int
  <2>1. Today(t) * TicksPerDay <= t /\ t < (Today(t) + 1) * TicksPerDay
    BY TodayInt
  <2>2. (d + 1) * T = d * T + T
    BY <1>1
  <2>3. d * T \in Int /\ w * T \in Int
    BY <1>1, TicksGrow
  <2> QED
    BY <1>1, <2>1, <2>2, <2>3
<1>3. \A a, b \in Int : a * T \in Int /\ (a < b => a * T + T <= b * T)
  BY <1>1, TicksGrow
<1>4. w * T + c > t
  <2>1. d \in Int /\ w \in Int /\ d < w
    BY <1>1
  <2>2. d * T + T <= w * T
    BY <1>3, <2>1, Zenon
  <2> QED
    BY <1>1, <1>2, <2>2
<1>5. PICK D \in SUBSET Int : D = {k \in d..(d + Horizon) : FallsOn(s, k) /\ k * T + c > t}
  <2>1. \A k \in d..(d + Horizon) : k \in Int
    OBVIOUS
  <2>2. {k \in d..(d + Horizon) : FallsOn(s, k) /\ k * T + c > t} \in SUBSET Int
    BY <2>1, Zenon
  <2> QED
    BY <2>2
<1>6. Stated(s, t, Horizon) = FirstAfter(D, c, t)
  <2>1. {u \in {n * T + c : n \in D} : u > t} = {n * T + c : n \in D}
    BY <1>5
  <2>2. Stated(s, t, Horizon) = Earliest({n * T + c : n \in D})
    BY <1>1, <1>5 DEF Stated
  <2> QED
    BY <1>1, <2>1, <2>2 DEF FirstAfter
<1>7. w \in D
  BY <1>1, <1>4, <1>5, RoutineAssumption
<1>8. \A n \in C : n * T + c > t => d <= n
  <2> SUFFICES ASSUME NEW n \in C, n * T + c > t, n < d PROVE FALSE
    BY <1>1
  <2>1. n * T + T <= d * T /\ n * T \in Int
    BY <1>1, <1>3
  <2> QED
    BY <1>1, <1>2, <2>1
<1>9. \A n \in Int : n * T + c <= w * T + c => n <= w
  <2> SUFFICES ASSUME NEW n \in Int, n * T + c <= w * T + c, w < n PROVE FALSE
    OBVIOUS
  <2>1. w * T + T <= n * T /\ n * T \in Int
    BY <1>3
  <2> QED
    BY <1>1, <1>2, <2>1
<1>10. PICK x : x = FirstAfter(C, c, t)
  OBVIOUS
<1>11. PICK y : y = FirstAfter(D, c, t)
  OBVIOUS
<1>12. /\ x \in Nat /\ x > t
       /\ \E n \in C : x = n * T + c
       /\ \A n \in C : n * T + c > t => x <= n * T + c
  <2>1. \/ /\ FirstAfter(C, c, t) = Never
           /\ \A n \in C : n * TicksPerDay + c <= t
        \/ /\ FirstAfter(C, c, t) \in Nat
           /\ FirstAfter(C, c, t) > t
           /\ \E n \in C : FirstAfter(C, c, t) = n * TicksPerDay + c
           /\ \A n \in C : n * TicksPerDay + c > t => FirstAfter(C, c, t) <= n * TicksPerDay + c
    <3>1. C \in SUBSET Int /\ c \in Nat
      BY <1>1
    <3> QED
      BY <3>1, Scans, Zenon
  <2> QED
    BY <1>1, <1>2, <1>4, <1>10, <2>1
<1>13. /\ y \in Nat /\ y > t
       /\ \E n \in D : y = n * T + c
       /\ \A n \in D : n * T + c > t => y <= n * T + c
  <2>1. \/ /\ FirstAfter(D, c, t) = Never
           /\ \A n \in D : n * TicksPerDay + c <= t
        \/ /\ FirstAfter(D, c, t) \in Nat
           /\ FirstAfter(D, c, t) > t
           /\ \E n \in D : FirstAfter(D, c, t) = n * TicksPerDay + c
           /\ \A n \in D : n * TicksPerDay + c > t => FirstAfter(D, c, t) <= n * TicksPerDay + c
    <3>1. D \in SUBSET Int /\ c \in Nat
      BY <1>1, <1>5
    <3> QED
      BY <3>1, Scans, Zenon
  <2> QED
    BY <1>1, <1>2, <1>4, <1>7, <1>11, <2>1
<1>14. y <= x
  <2>1. PICK n \in C : x = n * T + c
    BY <1>12
  <2>2. n \in Int /\ d <= n /\ n <= w
    BY <1>4, <1>8, <1>9, <1>12, <2>1
  <2>3. n \in D
    BY <1>1, <1>5, <1>12, <2>1, <2>2, RoutineAssumption
  <2> QED
    BY <1>12, <1>13, <2>1, <2>3
<1>15. x <= y
  <2>1. PICK n \in D : y = n * T + c
    BY <1>13
  <2>2. n \in Int /\ n \in d..(d + Horizon) /\ FallsOn(s, n)
    BY <1>5, <2>1
  <2>3. n <= w
    BY <1>4, <1>7, <1>9, <1>13, <2>1, <2>2
  <2>4. n \in C
    BY <1>1, <2>2, <2>3, RoutineAssumption
  <2> QED
    BY <1>12, <1>13, <2>1, <2>4
<1> QED
  BY <1>1, <1>6, <1>10, <1>11, <1>12, <1>13, <1>14, <1>15

\* A scan that has no day agrees with a rule that falls on none.
LEMMA SameNever ==
    ASSUME NEW s, NEW t, NEW clock, \A n \in Today(t)..(Today(t) + Horizon) : ~FallsOn(s, n)
    PROVE  FirstAfter({}, clock, t) = Never /\ Stated(s, t, Horizon) = Never
<1>1. {u \in {n * TicksPerDay + clock : n \in {}} : u > t} = {}
  OBVIOUS
<1>2. {n * TicksPerDay + s.clock :
                n \in {k \in Today(t)..(Today(t) + Horizon) :
                          FallsOn(s, k) /\ k * TicksPerDay + s.clock > t}} = {}
  OBVIOUS
<1> QED
  BY <1>1, <1>2 DEF FirstAfter, Stated, Earliest

-----------------------------------------------------------------------------
(* Each scan reaches far enough *)

\* The reference looks five years ahead.
FarSighted == Horizon >= 1830

LEMMA DailySame ==
    ASSUME NEW s \in Schedules, s.kind = "daily", NEW t \in Nat, FarSighted
    PROVE  DailyNext(s, t) = Stated(s, t, Horizon)
<1>1. s.clock \in 0..(TicksPerDay - 1)
  BY ScheduleAssumption DEF Validated
<1>2. PICK d \in Nat : d = Today(t)
  BY TodayInt
<1>3. PICK C \in SUBSET Int : C = {d, d + 1}
  <2>1. {d, d + 1} \in SUBSET Int
    BY <1>2
  <2> QED
    BY <2>1, Zenon
<1>4. \A n : FallsOn(s, n)
  BY DEF FallsOn
<1>5. PICK w \in C : w = d + 1
  BY <1>3
<1>6. d < w /\ w <= d + Horizon /\ \A n \in d..w : n \in C
  BY <1>2, <1>3, <1>5, RoutineAssumption DEF FarSighted
<1>7. FirstAfter(C, s.clock, t) = Stated(s, t, Horizon)
  BY <1>1, <1>2, <1>4, <1>5, <1>6, SameFirst
<1> QED
  BY <1>2, <1>3, <1>7 DEF DailyNext

LEMMA WeeklySame ==
    ASSUME NEW s \in Schedules, s.kind = "weekly", NEW t \in Nat, FarSighted
    PROVE  WeeklyNext(s, t) = Stated(s, t, Horizon)
<1>1. s.clock \in 0..(TicksPerDay - 1) /\ s.weekdays # {} /\ s.weekdays \subseteq 1..7
  BY ScheduleAssumption DEF Validated
<1>2. PICK d \in Nat : d = Today(t)
  BY TodayInt
<1>3. PICK C \in SUBSET Int : C = {n \in d..(d + 7) : WeekdayOf(n) \in s.weekdays}
  <2>1. \A n \in d..(d + 7) : n \in Int
    OBVIOUS
  <2>2. {n \in d..(d + 7) : WeekdayOf(n) \in s.weekdays} \in SUBSET Int
    BY <2>1
  <2> QED
    BY <2>2, Zenon
<1>4. \A n : FallsOn(s, n) <=> WeekdayOf(n) \in s.weekdays
  BY DEF FallsOn
<1>5. PICK w \in (d + 1)..(d + 7) : WeekdayOf(w) \in s.weekdays
  <2>1. PICK v \in 1..7 : v \in s.weekdays
    BY <1>1
  <2>2. \E w \in (d + 1)..(d + 7) : ((w + 3) % 7) + 1 = v
    <3>1. PICK k \in 0..6 : k = (d + 4) % 7
      BY <1>2
    <3>2. PICK x \in 0..6 : (k + x) % 7 = v - 1
      <4>1. CASE v - 1 >= k
        <5>1. v - 1 - k \in 0..6 /\ (k + (v - 1 - k)) % 7 = v - 1
          BY <2>1, <3>1, <4>1
        <5> QED
          BY <5>1
      <4>2. CASE v - 1 < k
        <5>1. v + 6 - k \in 0..6 /\ (k + (v + 6 - k)) % 7 = v - 1
          BY <2>1, <3>1, <4>2
        <5> QED
          BY <5>1
      <4> QED
        BY <2>1, <3>1, <4>1, <4>2
    <3>3. PICK u \in (d + 1)..(d + 7) : u = d + 1 + x
      BY <1>2, <3>2
    <3>4. (u + 3) % 7 = (k + x) % 7
      BY <1>2, <3>1, <3>2, <3>3
    <3>5. ((u + 3) % 7) + 1 = v
      BY <2>1, <3>2, <3>4
    <3> QED
      BY <3>3, <3>5
  <2> QED
    BY <2>1, <2>2 DEF WeekdayOf
<1>6. /\ w \in C /\ d < w /\ w <= d + Horizon /\ FallsOn(s, w)
      /\ \A n \in C : FallsOn(s, n)
      /\ \A n \in d..w : FallsOn(s, n) => n \in C
  BY <1>2, <1>3, <1>4, <1>5, RoutineAssumption DEF FarSighted
<1>7. FirstAfter(C, s.clock, t) = Stated(s, t, Horizon)
  BY <1>1, <1>2, <1>6, SameFirst
<1> QED
  BY <1>2, <1>3, <1>7 DEF WeeklyNext

\* Months counted from year 0: one begins where the one before it ends.
LEMMA MonthStep ==
    ASSUME NEW k \in Int
    PROVE  /\ k \div 12 \in Int /\ (k % 12) + 1 \in 1..12
           /\ DayNumber((k + 1) \div 12, ((k + 1) % 12) + 1, 1)
                = DayNumber(k \div 12, (k % 12) + 1, 1) + DaysInMonth(k \div 12, (k % 12) + 1)
<1>1. PICK y \in Int, m \in 1..12 : y = k \div 12 /\ m = (k % 12) + 1
  OBVIOUS
<1>2. CASE m < 12
  <2>1. (k + 1) \div 12 = y /\ ((k + 1) % 12) + 1 = m + 1 /\ m \in 1..11
    BY <1>1, <1>2
  <2> QED
    BY <1>1, <2>1, MonthsFill
<1>3. CASE m = 12
  <2>1. (k + 1) \div 12 = y + 1 /\ ((k + 1) % 12) + 1 = 1
    BY <1>1, <1>3
  <2> QED
    BY <1>1, <1>3, <2>1, MonthsFill
<1> QED
  BY <1>1, <1>2, <1>3

LEMMA MonthlySame ==
    ASSUME NEW s \in Schedules, s.kind = "monthly", NEW t \in Nat, FarSighted
    PROVE  MonthlyNext(s, t) = Stated(s, t, Horizon)
<1>1. s.clock \in 0..(TicksPerDay - 1)
  BY ScheduleAssumption DEF Validated
<1>2. PICK day \in 1..31 : day = s.day
  BY ScheduleAssumption DEF Validated
<1>3. PICK d \in Nat : d = Today(t)
  BY TodayInt
<1>4. PICK e \in Int : e = 12 * YearOf(d) + MonthOf(d) - 1
  BY <1>3, YearFound, MonthFound
<1>5. YearOf(d) \in Int /\ MonthOf(d) \in 1..12 /\ YearOf(d) = e \div 12 /\ MonthOf(d) = (e % 12) + 1
  <2>1. YearOf(d) \in Int /\ MonthOf(d) \in 1..12
    BY <1>3, YearFound, MonthFound
  <2> QED
    BY <1>4, <2>1
<1>6. \A k \in Int : k \div 12 \in Int /\ (k % 12) + 1 \in 1..12
  OBVIOUS
<1>7. PICK C \in SUBSET Int : C = UNION {DateIn(k \div 12, (k % 12) + 1, day) : k \in e..(e + 13)}
  <2>1. \A k \in e..(e + 13) : DateIn(k \div 12, (k % 12) + 1, day) \in SUBSET Int
    BY <1>2, <1>4, <1>6, DatesInt
  <2>2. UNION {DateIn(k \div 12, (k % 12) + 1, day) : k \in e..(e + 13)} \in SUBSET Int
    BY <2>1
  <2> QED
    BY <2>2, Zenon
<1>8. \A n : FallsOn(s, n) <=> DayOf(n) = day
  BY <1>2 DEF FallsOn
<1>9. \A n : n \in C <=> \E k \in e..(e + 13) : n \in DateIn(k \div 12, (k % 12) + 1, day)
  BY <1>7
<1>10. \A n \in C : d <= n => FallsOn(s, n)
  <2> SUFFICES ASSUME NEW n \in C, d <= n PROVE DayOf(n) = day
    BY <1>8
  <2>1. PICK k \in Int : n \in DateIn(k \div 12, (k % 12) + 1, day)
    BY <1>4, <1>9
  <2>2. PICK y \in Int, m \in 1..12 : y = k \div 12 /\ m = (k % 12) + 1
    BY <2>1, <1>6
  <2>3. day <= DaysInMonth(y, m) /\ n = DayNumber(y, m, day)
    BY <2>1, <2>2 DEF DateIn
  <2>4. n \in Nat
    BY <1>3, <1>7
  <2> QED
    <3>1. y \in Int /\ m \in 1..12 /\ day \in 1..31 /\ n = DayNumber(y, m, day)
      BY <1>2, <2>2, <2>3
    <3>2. DayOf(n) = day
      BY <2>3, <2>4, <3>1, DatesRead
    <3> QED
      BY <3>2
<1>11. PICK k \in {e + 1, e + 2} : day <= DaysInMonth(k \div 12, (k % 12) + 1)
  <2>1. PICK m \in 1..12 : m = ((e + 1) % 12) + 1
    BY <1>4
  <2>2. CASE m \notin {2, 4, 6, 9, 11}
    <3>1. DaysInMonth((e + 1) \div 12, m) = 31
      BY <2>1, <2>2 DEF DaysInMonth
    <3> QED
      BY <1>2, <2>1, <3>1
  <2>3. CASE m \in {2, 4, 6, 9, 11}
    <3>1. ((e + 2) % 12) + 1 = m + 1
      BY <1>4, <2>1, <2>3
    <3>2. DaysInMonth((e + 2) \div 12, m + 1) = 31
      BY <2>3 DEF DaysInMonth
    <3> QED
      BY <1>2, <3>1, <3>2
  <2> QED
    BY <2>2, <2>3
<1>12. PICK y \in Int, m \in 1..12 : y = k \div 12 /\ m = (k % 12) + 1
  BY <1>4, <1>6, <1>11
<1>13. PICK w \in Int : w = DayNumber(y, m, day) /\ w = DayNumber(y, m, 1) + day - 1
  <2>1. day \in Int
    BY <1>2
  <2>2. DayNumber(y, m, day) \in Int /\ DayNumber(y, m, day) = DayNumber(y, m, 1) + day - 1
    BY <1>12, <2>1, DayInt, Zenon
  <2> QED
    BY <2>2, Zenon
<1>14. d < w /\ w <= d + 92
  <2>1. PICK a \in Int, x \in 28..31 : a = DayNumber(e \div 12, (e % 12) + 1, 1)
                                       /\ x = DaysInMonth(e \div 12, (e % 12) + 1)
    BY <1>4, <1>6, MonthInt, Zenon
  <2>2. a <= d /\ d < a + x
    BY <1>3, <1>5, <2>1, MonthFound
  <2>3. DayNumber((e + 1) \div 12, ((e + 1) % 12) + 1, 1) = a + x
    <3>1. DayNumber((e + 1) \div 12, ((e + 1) % 12) + 1, 1)
            = DayNumber(e \div 12, (e % 12) + 1, 1) + DaysInMonth(e \div 12, (e % 12) + 1)
      BY <1>4, MonthStep, Zenon
    <3> QED
      BY <2>1, <3>1, Zenon
  <2>4. PICK z \in 28..31 : z = DaysInMonth((e + 1) \div 12, ((e + 1) % 12) + 1)
    <3>1. e + 1 \in Int
      BY <1>4
    <3> QED
      BY <1>6, <3>1, MonthInt, Zenon
  <2>5. DayNumber((e + 2) \div 12, ((e + 2) % 12) + 1, 1) = a + x + z
    <3>1. e + 1 \in Int /\ (e + 1) + 1 = e + 2
      BY <1>4
    <3>2. PICK f \in Int : f = e + 1 /\ f + 1 = e + 2
      BY <3>1
    <3>3. DayNumber((f + 1) \div 12, ((f + 1) % 12) + 1, 1)
            = DayNumber(f \div 12, (f % 12) + 1, 1) + DaysInMonth(f \div 12, (f % 12) + 1)
      BY <3>2, MonthStep, Zenon
    <3> QED
      BY <2>3, <2>4, <3>2, <3>3, Zenon
  <2>6. DayNumber(y, m, 1) \in {a + x, a + x + z}
    BY <1>11, <1>12, <2>3, <2>5
  <2> QED
    BY <1>2, <1>13, <2>1, <2>2, <2>4, <2>6
<1>15. w \in Nat /\ YearOf(w) = y /\ MonthOf(w) = m /\ DayOf(w) = day
  <2>1. w \in Nat
    BY <1>3, <1>13, <1>14
  <2> QED
    <3>1. day <= DaysInMonth(y, m)
      BY <1>11, <1>12, Zenon
    <3> QED
      <4>1. y \in Int /\ m \in 1..12 /\ day \in 1..31 /\ w = DayNumber(y, m, day)
        BY <1>2, <1>12, <1>13
      <4>2. day \in 1..31 /\ day <= DaysInMonth(y, m) /\ w \in Nat
        BY <2>1, <3>1, <4>1
      <4>3. YearOf(w) = y /\ MonthOf(w) = m /\ DayOf(w) = day
        BY <4>1, <4>2, DatesRead
      <4> QED
        BY <4>2, <4>3
<1>16. w \in C
  <2>1. w \in DateIn(k \div 12, (k % 12) + 1, day)
    BY <1>11, <1>12, <1>13 DEF DateIn
  <2> QED
    BY <1>4, <1>9, <1>11, <2>1
<1>17. \A n \in d..w : FallsOn(s, n) => n \in C
  <2> SUFFICES ASSUME NEW n \in d..w, DayOf(n) = day PROVE n \in C
    BY <1>8
  <2>1. n \in Nat /\ d <= n /\ n <= w
    BY <1>3
  <2>2. PICK v \in Int, u \in 1..12 : v = YearOf(n) /\ u = MonthOf(n)
    BY <2>1, YearFound, MonthFound
  <2>3. n = DayNumber(v, u, day) /\ day <= DaysInMonth(v, u)
    BY <2>1, <2>2, DateOf
  <2>4. PICK j \in Int : j = 12 * v + u - 1 /\ j \div 12 = v /\ (j % 12) + 1 = u
    <3>1. 12 * v + u - 1 \in Int /\ (12 * v + u - 1) \div 12 = v /\ ((12 * v + u - 1) % 12) + 1 = u
      BY <2>2
    <3> QED
      BY <3>1
  <2>5. 12 * YearOf(d) + MonthOf(d) <= 12 * v + u
    BY <1>3, <2>1, <2>2, LaterMonth
  <2>6. 12 * v + u <= 12 * y + m
    BY <1>15, <2>1, <2>2, LaterMonth
  <2>7. 12 * y + m = k + 1
    BY <1>4, <1>11, <1>12
  <2>8. j \in e..(e + 13)
    <3>1. e + 1 = 12 * YearOf(d) + MonthOf(d)
      BY <1>4, <1>5
    <3>2. j + 1 = 12 * v + u
      BY <2>2, <2>4
    <3>3. e + 1 <= j + 1 /\ j + 1 <= k + 1
      BY <2>5, <2>6, <2>7, <3>1, <3>2, Zenon
    <3> QED
      BY <1>4, <1>11, <2>4, <3>3
  <2>9. n \in DateIn(j \div 12, (j % 12) + 1, day)
    BY <2>3, <2>4 DEF DateIn
  <2> QED
    BY <1>9, <2>8, <2>9
<1>18. FirstAfter(C, s.clock, t) = Stated(s, t, Horizon)
  <2>1. w <= d + Horizon
    BY <1>3, <1>13, <1>14, RoutineAssumption DEF FarSighted
  <2>2. FallsOn(s, w)
    BY <1>8, <1>15
  <2> QED
    BY <1>1, <1>3, <1>10, <1>14, <1>16, <1>17, <2>1, <2>2, SameFirst
<1> QED
  BY <1>2, <1>3, <1>4, <1>7, <1>18 DEF MonthlyNext

\* The clock stays in the years in which a leap day comes round within eight:
\* there is none between those of 2096 and 2104.
Century == \A t \in Instants : Today(t) < DayNumber(2096, 1, 1)
Years == 1969..2095

LEMMA OfTheCentury ==
    ASSUME Century, NEW t \in Instants
    PROVE  YearOf(Today(t)) \in Years
<1> USE DEF Years
<1>1. PICK d \in Nat : d = Today(t)
  BY TodayInt, RoutineAssumption
<1>2. PICK e \in Int : e = YearOf(d) /\ e >= 1969 /\ DayNumber(e, 1, 1) <= d
  BY YearFound
<1>3. 2095 < e => DayNumber(2096, 1, 1) <= DayNumber(e, 1, 1)
  <2>1. 2095 < e => DayNumber(2095 + 1, 1, 1) <= DayNumber(e, 1, 1)
    BY YearsFollow
  <2> QED
    BY <2>1
<1>4. d < DayNumber(2096, 1, 1)
  BY <1>1 DEF Century
<1>5. DayNumber(e, 1, 1) \in Int /\ DayNumber(2096, 1, 1) \in Int
  BY MonthInt
<1>6. ~(2095 < e)
  BY <1>2, <1>3, <1>4, <1>5
<1> QED
  BY <1>1, <1>2, <1>6

\* A date that is in no year of the next four is in none at all.
LEMMA NoSuchDate ==
    ASSUME NEW e \in Years, NEW m \in 1..12, NEW d \in 1..31
    PROVE  (\A y \in (e + 1)..(e + 4) : d > DaysInMonth(y, m))
              => \A y \in Int : d > DaysInMonth(y, m)
<1> SUFFICES ASSUME \A y \in (e + 1)..(e + 4) : d > DaysInMonth(y, m)
             PROVE  \A y \in Int : d > DaysInMonth(y, m)
  OBVIOUS
<1> USE DEF Years
<1>1. CASE m # 2
  <2>1. \A y \in Int : DaysInMonth(y, m) = DaysInMonth(e + 1, m)
    BY <1>1 DEF DaysInMonth
  <2>2. e + 1 \in (e + 1)..(e + 4)
    OBVIOUS
  <2> QED
    BY <2>1, <2>2
<1>2. CASE m = 2
  <2>1. \A y \in Int : DaysInMonth(y, m) = IF Leap(y) THEN 29 ELSE 28
    BY <1>2 DEF DaysInMonth
  <2>2. PICK y \in (e + 1)..(e + 4) : y % 4 = 0
    <3>1. PICK k \in 0..3 : k = e % 4
      OBVIOUS
    <3>2. PICK z \in Int : z = e + (4 - k)
      BY <3>1
    <3>3. z \in (e + 1)..(e + 4) /\ z % 4 = 0
      BY <3>1, <3>2
    <3> QED
      BY <3>3
  <2>3. y % 100 # 0 \/ y = 2000
    BY <2>2
  <2>4. Leap(y)
    BY <2>2, <2>3 DEF Leap
  <2>5. d > 29
    <3>1. y \in Int
      BY <2>2
    <3>2. DaysInMonth(y, m) = 29
      BY <2>1, <2>4, <3>1
    <3> QED
      BY <2>2, <3>2
  <2> QED
    BY <2>1, <2>5
<1> QED
  BY <1>1, <1>2

LEMMA YearLength ==
    \A y \in Int : DayNumber(y + 5, 1, 1) <= DayNumber(y, 1, 1) + 1830
<1> SUFFICES ASSUME NEW y \in Int PROVE DayNumber(y + 5, 1, 1) <= DayNumber(y, 1, 1) + 1830
  OBVIOUS
<1>1. PICK p \in Int : p = y - 1 /\ p + 5 = (y + 5) - 1
  OBVIOUS
<1>2. YearStart(y) = (365 * p) + (p \div 4) - (p \div 100) + (p \div 400)
  BY <1>1 DEF YearStart
<1>3. YearStart(y + 5) = (365 * (p + 5)) + ((p + 5) \div 4) - ((p + 5) \div 100) + ((p + 5) \div 400)
  BY <1>1 DEF YearStart
<1>4. /\ (p + 5) \div 4 <= (p \div 4) + 2
      /\ (p + 5) \div 100 >= p \div 100
      /\ (p + 5) \div 400 <= (p \div 400) + 1
  OBVIOUS
<1>5. DayNumber(y, 1, 1) = YearStart(y) - 719162 /\ DayNumber(y + 5, 1, 1) = YearStart(y + 5) - 719162
  BY FirstDay
<1> QED
  BY <1>2, <1>3, <1>4, <1>5

LEMMA YearlySame ==
    ASSUME Century, FarSighted, NEW s \in Schedules, s.kind = "yearly", NEW t \in Instants
    PROVE  YearlyNext(s, t) = Stated(s, t, Horizon)
<1>1. s.clock \in 0..(TicksPerDay - 1)
  BY ScheduleAssumption DEF Validated
<1>2. PICK month \in 1..12, day \in 1..31 : month = s.month /\ day = s.day
  BY ScheduleAssumption DEF Validated
<1>3. t \in Nat
  BY RoutineAssumption
<1>4. PICK d \in Nat : d = Today(t)
  BY <1>3, TodayInt
<1>5. PICK e \in Int : e = YearOf(d) /\ DayNumber(e, 1, 1) <= d /\ d < DayNumber(e + 1, 1, 1)
  BY YearFound
<1>6. PICK C \in SUBSET Int : C = UNION {DateIn(y, month, day) : y \in e..(e + 7)}
  <2>1. \A y \in e..(e + 7) : DateIn(y, month, day) \in SUBSET Int
    BY <1>2, <1>5, DatesInt
  <2>2. UNION {DateIn(y, month, day) : y \in e..(e + 7)} \in SUBSET Int
    BY <2>1
  <2> QED
    BY <2>2, Zenon
<1>7. \A n : n \in C <=> \E y \in e..(e + 7) : n \in DateIn(y, month, day)
  BY <1>6
<1>8. \A n : FallsOn(s, n) <=> MonthOf(n) = month /\ DayOf(n) = day
  BY <1>2 DEF FallsOn
<1>9. CASE \A y \in Int : day > DaysInMonth(y, month)
  <2>1. \A y \in e..(e + 7) : DateIn(y, month, day) = {}
    <3> SUFFICES ASSUME NEW y \in e..(e + 7) PROVE DateIn(y, month, day) = {}
      OBVIOUS
    <3>0. y \in Int
      BY <1>5
    <3>1. day > DaysInMonth(y, month) /\ DaysInMonth(y, month) \in 28..31
      BY <1>2, <1>9, <3>0, MonthInt
    <3>2. ~(day <= DaysInMonth(y, month))
      BY <1>2, <3>1
    <3> QED
      BY <3>2 DEF DateIn
  <2>2. C = {}
    BY <1>7, <2>1
  <2>3. \A n \in d..(d + Horizon) : ~FallsOn(s, n)
    <3> SUFFICES ASSUME NEW n \in d..(d + Horizon), MonthOf(n) = month, DayOf(n) = day PROVE FALSE
      BY <1>8
    <3>1. n \in Nat
      BY <1>4, RoutineAssumption
    <3>2. YearOf(n) \in Int /\ day <= DaysInMonth(YearOf(n), month)
      BY <3>1, DateOf
    <3>3. DaysInMonth(YearOf(n), month) \in 28..31
      BY <3>2, <1>2, MonthInt
    <3> QED
      BY <1>2, <1>9, <3>2, <3>3
  <2>4. FirstAfter(C, s.clock, t) = Never /\ Stated(s, t, Horizon) = Never
    BY <1>4, <2>2, <2>3, SameNever
  <2> QED
    BY <1>2, <1>4, <1>5, <1>6, <2>4 DEF YearlyNext
<1>10. CASE ~(\A y \in Int : day > DaysInMonth(y, month))
  <2>1. PICK y \in Int : y \in (e + 1)..(e + 4) /\ day <= DaysInMonth(y, month)
    <3>1. e \in Years
      <4>1. YearOf(Today(t)) \in Years
        BY OfTheCentury
      <4> QED
        BY <1>4, <1>5, <4>1
    <3>2. PICK y \in (e + 1)..(e + 4) : ~(day > DaysInMonth(y, month))
      <4>1. (\A y \in (e + 1)..(e + 4) : day > DaysInMonth(y, month))
               => \A y \in Int : day > DaysInMonth(y, month)
        BY <1>2, <3>1, NoSuchDate, Zenon
      <4> QED
        BY <1>10, <4>1
    <3>3. y \in Int /\ DaysInMonth(y, month) \in 28..31
      <4>1. y \in Int
        BY <1>5, <3>2
      <4> QED
        BY <1>2, <4>1, MonthInt
    <3> QED
      BY <1>2, <3>2, <3>3
  <2>2. PICK a \in Int, x \in 28..31 : a = DayNumber(y, month, 1) /\ x = DaysInMonth(y, month)
    BY <1>2, <2>1, MonthInt
  <2>3. PICK w \in Int : w = DayNumber(y, month, day) /\ w = a + day - 1
    <3>1. day \in Int
      BY <1>2
    <3>2. DayNumber(y, month, day) \in Int /\ DayNumber(y, month, day) = DayNumber(y, month, 1) + day - 1
      BY <1>2, <2>1, <3>1, DayInt
    <3> QED
      BY <2>2, <3>2
  <2>4. DayNumber(y, 1, 1) <= w /\ w < DayNumber(y + 1, 1, 1)
    <3>1. DayNumber(y, 1, 1) <= a /\ a + x <= DayNumber(y + 1, 1, 1)
      BY <1>2, <2>1, <2>2, MonthsFollow
    <3>2. DayNumber(y, 1, 1) \in Int /\ DayNumber(y + 1, 1, 1) \in Int
      BY <2>1, MonthInt
    <3> QED
      BY <1>2, <2>1, <2>2, <2>3, <3>1, <3>2
  <2>5. d < w
    <3>1. DayNumber(e + 1, 1, 1) <= DayNumber(y, 1, 1)
      <4>1. e < y
        BY <1>5, <2>1
      <4> QED
        BY <1>5, <2>1, <4>1, YearsFollow
    <3>2. DayNumber(y, 1, 1) \in Int /\ DayNumber(e + 1, 1, 1) \in Int
      BY <1>5, <2>1, MonthInt
    <3> QED
      BY <1>4, <1>5, <2>3, <2>4, <3>1, <3>2
  <2>6. w <= d + 1830
    <3>1. DayNumber(y + 1, 1, 1) <= DayNumber(e + 5, 1, 1)
      <4>1. y < e + 5 /\ e + 5 \in Int
        BY <1>5, <2>1
      <4> QED
        BY <2>1, <4>1, YearsFollow
    <3>2. DayNumber(e + 5, 1, 1) <= DayNumber(e, 1, 1) + 1830
      BY <1>5, YearLength
    <3>3. /\ DayNumber(y + 1, 1, 1) \in Int /\ DayNumber(e + 5, 1, 1) \in Int
          /\ DayNumber(e, 1, 1) \in Int
      <4>1. y + 1 \in Int /\ e + 5 \in Int /\ e \in Int
        BY <1>5, <2>1
      <4> QED
        BY <4>1, MonthInt
    <3> QED
      BY <1>4, <1>5, <2>3, <2>4, <3>1, <3>2, <3>3
  <2>7. w \in Nat
    BY <1>4, <2>3, <2>5
  <2>8. YearOf(w) = y /\ MonthOf(w) = month /\ DayOf(w) = day
    <3>1. month \in 1..12 /\ day \in 1..31 /\ y \in Int
      BY <1>2, <2>1
    <3>2. day <= DaysInMonth(y, month) /\ w = DayNumber(y, month, day)
      BY <2>1, <2>3
    <3> QED
      BY <2>7, <3>1, <3>2, DatesRead
  <2>9. w \in C
    <3>1. w \in DateIn(y, month, day)
      BY <2>1, <2>3 DEF DateIn
    <3>2. y \in e..(e + 7)
      BY <1>5, <2>1
    <3> QED
      BY <1>7, <3>1, <3>2
  <2>10. \A n \in C : d <= n => FallsOn(s, n)
    <3> SUFFICES ASSUME NEW n \in C, d <= n PROVE MonthOf(n) = month /\ DayOf(n) = day
      BY <1>8
    <3>1. PICK z \in Int : n \in DateIn(z, month, day)
      BY <1>5, <1>7
    <3>2. day <= DaysInMonth(z, month) /\ n = DayNumber(z, month, day)
      BY <3>1 DEF DateIn
    <3>3. n \in Nat
      BY <1>4, <1>6
    <3> QED
      <4>1. month \in 1..12 /\ day \in 1..31 /\ z \in Int
        BY <1>2, <3>1
      <4> QED
        BY <3>2, <3>3, <4>1, DatesRead
  <2>11. \A n \in d..w : FallsOn(s, n) => n \in C
    <3> SUFFICES ASSUME NEW n \in d..w, MonthOf(n) = month, DayOf(n) = day PROVE n \in C
      BY <1>8
    <3>1. n \in Nat /\ d <= n /\ n <= w
      BY <1>4, <2>3
    <3>2. PICK z \in Int : z = YearOf(n)
      BY <3>1, YearFound
    <3>3. n = DayNumber(z, month, day) /\ day <= DaysInMonth(z, month)
      BY <3>1, <3>2, DateOf
    <3>4. e <= z /\ z <= y
      BY <1>4, <1>5, <2>7, <2>8, <3>1, <3>2, LaterMonth
    <3>5. z \in e..(e + 7)
      BY <1>5, <2>1, <3>2, <3>4
    <3>6. n \in DateIn(z, month, day)
      BY <3>3 DEF DateIn
    <3> QED
      BY <1>7, <3>5, <3>6
  <2>12. w <= d + Horizon
    BY <1>4, <2>3, <2>6, RoutineAssumption DEF FarSighted
  <2>13. FallsOn(s, w)
    BY <1>8, <2>8
  <2>14. FirstAfter(C, s.clock, t) = Stated(s, t, Horizon)
    BY <1>1, <1>3, <1>4, <2>5, <2>9, <2>10, <2>11, <2>12, <2>13, SameFirst
  <2> QED
    BY <1>2, <1>4, <1>5, <1>6, <2>14 DEF YearlyNext
<1> QED
  BY <1>9, <1>10

\* The scans and the rules agree, for every schedule that can be saved.
LEMMA AsPromised ==
    ASSUME Century, FarSighted, NEW s \in Schedules, NEW t \in Instants
    PROVE  NextRunAt(s, TRUE, t) = Promised(s, t)
<1>1. Validated(s) /\ t \in Nat
  BY ScheduleAssumption, RoutineAssumption
<1>2. CASE s.kind = "manual"
  BY <1>2 DEF NextRunAt, Promised
<1>3. CASE s.kind = "every"
  BY <1>3 DEF NextRunAt, Promised
<1>4. CASE s.kind = "once"
  BY <1>4 DEF NextRunAt, Promised
<1>5. CASE s.kind = "daily"
  BY <1>1, <1>5, DailySame DEF NextRunAt, Promised
<1>6. CASE s.kind = "weekly"
  BY <1>1, <1>6, WeeklySame DEF NextRunAt, Promised
<1>7. CASE s.kind = "monthly"
  BY <1>1, <1>7, MonthlySame DEF NextRunAt, Promised
<1>8. CASE s.kind = "yearly"
  BY <1>8, YearlySame DEF NextRunAt, Promised
<1> QED
  BY <1>1, <1>2, <1>3, <1>4, <1>5, <1>6, <1>7, <1>8 DEF Validated

-----------------------------------------------------------------------------
(* What a timer was computed from *)

Basis == [def : Definitions, at : Instants]

Based ==
    /\ basis \in [Names -> SUBSET Basis]
    /\ \A r \in Names : \A b \in basis[r], row \in rows[r] :
          row.next = NextRunAt(b.def.schedule, b.def.enabled, b.at)
    /\ \A n \in Nodes : timer[n].phase # "rest" => timer[n].at \in Instants

LEMMA BasedChange ==
    ASSUME Shaped, Based, NEW r \in Names, NEW X \in SUBSET Basis, NEW Y \in SUBSET TableRow,
           \A b \in X, row \in Y : row.next = NextRunAt(b.def.schedule, b.def.enabled, b.at),
           basis' = [basis EXCEPT ![r] = X], rows' = [rows EXCEPT ![r] = Y],
           \A n \in Nodes : timer'[n].phase # "rest" => timer'[n].at \in Instants
    PROVE  Based'
<1>1. /\ basis' \in [Names -> SUBSET Basis]
      /\ \A q \in Names : basis'[q] = IF q = r THEN X ELSE basis[q]
  BY DEF Based
<1>2. \A q \in Names : rows'[q] = IF q = r THEN Y ELSE rows[q]
  BY DEF Shaped
<1>3. \A q \in Names : \A b \in basis'[q], row \in rows'[q] :
          row.next = NextRunAt(b.def.schedule, b.def.enabled, b.at)
  BY <1>1, <1>2 DEF Based
<1> QED
  BY <1>1, <1>3 DEF Based

LEMMA BasedSame ==
    ASSUME Based, basis' = basis, rows' = rows,
           \A n \in Nodes : timer'[n].phase # "rest" => timer'[n].at \in Instants
    PROVE  Based'
BY DEF Based

LEMMA KeepsBased == Inv /\ Based /\ [Next]_vars => Based'
<1> SUFFICES ASSUME Inv, Based, [Next]_vars PROVE Based'
  OBVIOUS
<1>1. now \in Instants /\ rows \in [Names -> SUBSET TableRow] /\ timer \in [Nodes -> Place] /\ Shaped
  BY DEF Inv, Shaped
<1>2. timer' = timer => \A n \in Nodes : timer'[n].phase # "rest" => timer'[n].at \in Instants
  BY DEF Based
<1>3. ASSUME NEW n \in Nodes, NEW p \in Place, p.phase # "rest" => p.at \in Instants,
             timer' = [timer EXCEPT ![n] = p]
      PROVE  \A m \in Nodes : timer'[m].phase # "rest" => timer'[m].at \in Instants
  <2>1. \A m \in Nodes : timer'[m] = IF m = n THEN p ELSE timer[m]
    BY <1>1, <1>3
  <2> QED
    BY <1>3, <2>1 DEF Based
<1>4. CASE Advance \/ UNCHANGED vars
  BY <1>2, <1>4, BasedSame DEF Advance, vars
<1>5. ASSUME NEW e \in requests, Create(e) \/ Replace(e) PROVE Based'
  <2>1. /\ rows' = [rows EXCEPT ![e.name] = {Armed(e.def, e.at)}] /\ timer' = timer
        /\ basis' = [basis EXCEPT ![e.name] = ComputedFrom(e.def, e.at)]
    BY <1>5 DEF Create, Replace, Write
  <2>2. e.name \in Names /\ {Armed(e.def, e.at)} \in SUBSET TableRow
    BY Written
  <2>3. ComputedFrom(e.def, e.at) \in SUBSET Basis
    BY Written DEF ComputedFrom, Basis
  <2>4. \A b \in ComputedFrom(e.def, e.at), row \in {Armed(e.def, e.at)} :
           row.next = NextRunAt(b.def.schedule, b.def.enabled, b.at)
    BY DEF ComputedFrom, Armed
  <2> QED
    BY <1>1, <1>2, <2>1, <2>2, <2>3, <2>4, BasedChange, Zenon
<1>6. ASSUME NEW r \in Names, Delete(r) PROVE Based'
  <2>1. rows' = [rows EXCEPT ![r] = {}] /\ basis' = [basis EXCEPT ![r] = {}] /\ timer' = timer
    BY <1>6 DEF Delete
  <2>2. /\ {} \in SUBSET TableRow /\ {} \in SUBSET Basis
        /\ \A b \in {}, row \in {} : row.next = NextRunAt(b.def.schedule, b.def.enabled, b.at)
    OBVIOUS
  <2> QED
    BY <1>1, <1>2, <2>1, <2>2, BasedChange, Zenon
<1>7. ASSUME NEW n \in Nodes, Tick(n) PROVE Based'
  <2>1. PICK order \in Seq(Firing) :
            timer' = [timer EXCEPT ![n] = [phase |-> "claim", at |-> now, due |-> order]]
    BY <1>1, <1>7, TickReads DEF Inv
  <2>2. PICK p : p = [phase |-> "claim", at |-> now, due |-> order]
    OBVIOUS
  <2>3. p \in Place /\ p.at \in Instants
    BY <1>1, <2>2 DEF Place
  <2>4. basis' = basis /\ rows' = rows
    BY <1>7 DEF Tick
  <2> QED
    BY <1>3, <2>1, <2>2, <2>3, <2>4, BasedSame
<1>8. ASSUME NEW n \in Nodes, Arm(n) PROVE Based'
  <2>1. timer[n].phase = "claim" /\ timer[n].due # <<>>
    BY <1>8 DEF Arm, Inv, Ticking
  <2>2. PICK at \in Instants : at = timer[n].at
    BY <2>1 DEF Based
  <2>3. PICK c \in Firing : c = Head(timer[n].due)
    BY <1>1, <2>1, Heads
  <2>4. c.name \in Names /\ c.def \in Definitions
    BY <2>3 DEF Firing
  <2>5. PICK next : next = NextRunAt(c.def.schedule, c.def.enabled, at)
    OBVIOUS
  <2>6. next \in Nat \cup {Never}
    <3>1. at \in Nat
      BY <2>2, RoutineAssumption
    <3>2. Armed(c.def, at) \in TableRow
      BY <2>4, <3>1, ArmedRow
    <3> QED
      BY <2>5, <3>2 DEF Armed, TableRow
  <2>7. PICK Y : Y = {[row EXCEPT !.next = next] : row \in rows[c.name]}
    OBVIOUS
  <2>8. PICK X : X = IF rows[c.name] = {} THEN {} ELSE ComputedFrom(c.def, at)
    OBVIOUS
  <2>9. rows' = [rows EXCEPT ![c.name] = Y] /\ basis' = [basis EXCEPT ![c.name] = X]
    BY <1>8, <2>2, <2>3, <2>5, <2>7, <2>8 DEF Arm
  <2>10. Y \in SUBSET TableRow /\ \A row \in Y : row.next = next
    <3>1. \A row \in rows[c.name] : row \in TableRow
      BY <1>1, <2>4
    <3> QED
      BY <2>6, <2>7, <3>1 DEF TableRow
  <2>11. X \in SUBSET Basis /\ \A b \in X : b.def = c.def /\ b.at = at
    BY <2>2, <2>4, <2>8 DEF ComputedFrom, Basis
  <2>12. \A b \in X, row \in Y : row.next = NextRunAt(b.def.schedule, b.def.enabled, b.at)
    BY <2>5, <2>10, <2>11
  <2>13. PICK p : p = [timer[n] EXCEPT !.phase = "start"]
    OBVIOUS
  <2>14. p \in Place /\ p.at \in Instants
    <3>1. timer[n] \in Place
      BY <1>1
    <3> QED
      BY <2>2, <2>13, <3>1 DEF Place
  <2>15. timer' = [timer EXCEPT ![n] = p]
    BY <1>8, <2>13 DEF Arm
  <2>16. \A m \in Nodes : timer'[m].phase # "rest" => timer'[m].at \in Instants
    BY <1>3, <2>14, <2>15
  <2> QED
    BY <1>1, <2>4, <2>9, <2>10, <2>11, <2>12, <2>16, BasedChange, Zenon
<1>9. ASSUME NEW n \in Nodes, Skip(n) \/ Start(n) PROVE Based'
  <2>1. timer[n].phase # "rest" /\ timer[n].due # <<>>
    BY <1>9 DEF Skip, Start, Inv, Ticking
  <2>2. /\ timer' = [timer EXCEPT ![n] = Continued(n)] /\ basis' = basis /\ rows' = rows
    BY <1>9 DEF Skip, Start
  <2>3. PICK p : p = Continued(n)
    OBVIOUS
  <2>4. /\ p \in Place /\ (p.phase = "rest" <=> p.due = <<>>)
        /\ \A i \in 1..Len(p.due) : p.at = timer[n].at
    BY <1>1, <2>1, <2>3, GoesOn
  <2>5. p.phase # "rest" => p.at \in Instants
    <3> SUFFICES ASSUME p.phase # "rest" PROVE p.at \in Instants
      OBVIOUS
    <3>1. p.due \in Seq(Firing) /\ p.due # <<>>
      BY <2>4 DEF Place
    <3>2. Len(p.due) \in Nat \ {0}
      BY <3>1, EmptySeq
    <3>3. p.at = timer[n].at
      BY <2>4, <3>2
    <3> QED
      BY <2>1, <3>3 DEF Based
  <2> QED
    BY <1>3, <2>2, <2>3, <2>4, <2>5, BasedSame
<1>10. ASSUME NEW n \in Nodes, Crash(n) PROVE Based'
  <2>1. timer' = [timer EXCEPT ![n] = Resting] /\ basis' = basis /\ rows' = rows
    BY <1>10 DEF Crash
  <2>2. Resting \in Place /\ Resting.phase = "rest"
    <3>1. <<>> \in Seq(Firing)
      BY EmptySeq
    <3> QED
      BY <3>1 DEF Resting, Place
  <2> QED
    BY <1>3, <2>1, <2>2, BasedSame
<1>11. ASSUME \/ \E r \in Names, def \in Definitions : Request(r, def)
              \/ \E e \in requests : Refuse(e)
       PROVE  Based'
  BY <1>2, <1>11, BasedSame DEF Request, Refuse
<1> QED
  BY <1>4, <1>5, <1>6, <1>7, <1>8, <1>9, <1>10, <1>11 DEF Next, Edit, Fire

\* A routine's timer is at the first instant at which its schedule fires after the
\* moment it was computed, for every schedule that can be saved: no scan of
\* recurrence.rs stops too early or finds a day that is not one.  With any number of
\* servers, and until the end of 2095; FarSighted bounds the reference, not the code.
THEOREM NothingPassedOver ==
    ASSUME Century, FarSighted
    PROVE  Spec => []NextIsLeast
<1>1. Init => Inv /\ Based
  <2> SUFFICES ASSUME Init PROVE Inv /\ Based
    OBVIOUS
  <2>1. Inv
    BY Begins
  <2>2. Based
    BY DEF Init, Based, Resting
  <2> QED
    BY <2>1, <2>2
<1>2. Inv /\ Based /\ [Next]_vars => (Inv /\ Based)'
  BY Keeps, KeepsBased
<1>3. Inv /\ Based => NextIsLeast
  <2> SUFFICES ASSUME Inv, Based, NEW r \in Names, rows[r] # {}, ~EditedUnderClaim(r),
                      NEW b \in basis[r]
               PROVE  IF Row(r).def.enabled
                      THEN <<Row(r).def.schedule, b.at, Row(r).next>> \in PromisedTimes
                      ELSE Row(r).next = Never
    BY DEF NextIsLeast
  <2>1. PICK row \in rows[r] : row = Row(r)
    BY DEF Row
  <2>2. b.def = row.def
    BY <2>1 DEF EditedUnderClaim
  <2>3. row.next = NextRunAt(b.def.schedule, b.def.enabled, b.at)
    BY <2>1 DEF Based
  <2>4. b \in Basis
    BY DEF Based
  <2>5. PICK s \in Schedules, on \in BOOLEAN, t \in Instants :
            s = b.def.schedule /\ on = b.def.enabled /\ t = b.at
    BY <2>4, DefinitionAssumption DEF Basis
  <2>6. CASE on
    <3>1. row.next = Promised(s, t)
      <4>1. on = TRUE
        BY <2>5, <2>6
      <4>2. row.next = NextRunAt(s, TRUE, t)
        BY <2>3, <2>5, <4>1, Zenon
      <4>3. NextRunAt(s, TRUE, t) = Promised(s, t)
        BY AsPromised
      <4> QED
        BY <4>2, <4>3, Zenon
    <3>2. <<s, t, row.next>> \in PromisedTimes
      BY <3>1 DEF PromisedTimes
    <3> QED
      BY <2>1, <2>2, <2>5, <2>6, <3>2
  <2>7. CASE ~on
    <3>1. row.next = Never
      BY <2>3, <2>5, <2>7 DEF NextRunAt
    <3> QED
      BY <2>1, <2>2, <2>5, <2>7, <3>1
  <2> QED
    BY <2>6, <2>7
<1> QED
  BY <1>1, <1>2, <1>3, PTL DEF Spec
=============================================================================
