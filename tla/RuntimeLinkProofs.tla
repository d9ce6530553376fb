-------------------------- MODULE RuntimeLinkProofs --------------------------
(***************************************************************************)
(* Proofs about RuntimeLink, for every set of calls and agents and every   *)
(* bound: its types, that it implements RemoteCalls, and that on a link    *)
(* with no fault a grace of two rounds or more fails no call.              *)
(***************************************************************************)
EXTENDS RuntimeLink, TLAPS, SequenceTheorems, FiniteSetTheorems

-----------------------------------------------------------------------------
(* Sets made into sequences, and identities for pings *)

\* A finite set's elements, put in some order, are a sequence over the set.
LEMMA SetToSeqType ==
    ASSUME NEW S, IsFiniteSet(S)
    PROVE  SetToSeq(S) \in Seq(S)
<1> DEFINE n == Cardinality(S)
<1>1. n \in Nat /\ ExistsBijection(1..n, S)
  BY FS_CardinalityType
<1>2. PICK f \in [1..n -> S] : IsInjective(f)
  BY <1>1 DEF ExistsBijection, Bijection, Injection, IsInjective
<1>3. SetToSeq(S) \in [1..n -> S]
  BY <1>2 DEF SetToSeq
<1> QED
  BY <1>1, <1>3

\* The cancel frames of a finite set of calls are finitely many.
LEMMA CancelFramesFinite ==
    ASSUME NEW cs, IsFiniteSet(cs)
    PROVE  IsFiniteSet({Frame("cancel", c) : c \in cs})
<1> DEFINE T == {Frame("cancel", c) : c \in cs}
           f == [c \in cs |-> Frame("cancel", c)]
<1>1. f \in Surjection(cs, T)
  BY DEF Surjection
<1> QED
  BY <1>1, FS_Surjection

\* The ids of the ping frames of a queue are finitely many.
LEMMA PingFramesFinite ==
    ASSUME NEW S, NEW q \in Seq(S)
    PROVE  IsFiniteSet({q[i].id : i \in {j \in DOMAIN q : q[j].t = "ping"}})
<1> DEFINE D == {j \in DOMAIN q : q[j].t = "ping"}
           T == {q[i].id : i \in D}
           f == [i \in D |-> q[i].id]
<1>1. IsFiniteSet(1..Len(q))
  BY LenProperties, FS_Interval
<1>2. D \in SUBSET (1..Len(q))
  BY LenProperties
<1>3. IsFiniteSet(D)
  BY <1>1, <1>2, FS_Subset
<1>4. f \in Surjection(D, T)
  BY DEF Surjection
<1> QED
  BY <1>3, <1>4, FS_Surjection

\* Among one identity more than are in use, one is free.
LEMMA FreeIdentity ==
    ASSUME NEW S, IsFiniteSet(S)
    PROVE  \E p \in 1..(Cardinality(S) + 1) : p \notin S
<1> DEFINE n == Cardinality(S)
<1>1. n \in Nat
  BY FS_CardinalityType
<1> SUFFICES ASSUME (1..(n + 1)) \subseteq S PROVE FALSE
  OBVIOUS
<1>2. Cardinality(1..(n + 1)) <= n
  BY FS_Subset
<1>3. Cardinality(1..(n + 1)) = n + 1
  BY <1>1, FS_Interval
<1> QED
  BY <1>1, <1>2, <1>3

-----------------------------------------------------------------------------
(* Types *)

Frames == [t : {"call", "cancel"}, id : Calls] \cup [t : {"ping"}, id : PingIds]

\* The queue carries frames, the maps hold finitely many calls, and a loop in the
\* middle of a call has one.
WellFormed ==
    /\ inq \in Seq(Frames)
    /\ IsFiniteSet(inFlight)
    /\ IsFiniteSet(executing)
    /\ IsFiniteSet(rec.answer)
    /\ IsFiniteSet(pinged)
    /\ loop.at # "recv" => loop.id \in Calls

Typed == TypeOK /\ WellFormed

\* A new ping has an identity of its own.
LEMMA FreshPingType ==
    ASSUME Typed
    PROVE  FreshPing \in PingIds /\ FreshPing \notin InUse
<1>1. IsFiniteSet({inq[i].id : i \in {j \in DOMAIN inq : inq[j].t = "ping"}})
  BY PingFramesFinite DEF Typed, WellFormed
<1>2. IsFiniteSet({rec.ping, acq.ping})
  BY FS_EmptySet, FS_AddElement, IsFiniteSet({rec.ping}), {rec.ping, acq.ping} = {rec.ping} \cup {acq.ping}
<1>3. IsFiniteSet(InUse)
  BY <1>1, <1>2, FS_Union DEF InUse, Typed, WellFormed
<1>4. \E p \in 1..(Cardinality(InUse) + 1) : p \notin InUse
  BY <1>3, FreeIdentity
<1>5. FreshPing \in 1..(Cardinality(InUse) + 1) /\ FreshPing \notin InUse
  BY <1>4 DEF FreshPing
<1> QED
  BY <1>3, <1>5, FS_CardinalityType DEF PingIds

\* What is published are frames, in the order it is published.
LEMMA PublishedType ==
    ASSUME NEW frames \in Seq(Frames), inq \in Seq(Frames)
    PROVE  Published(frames) \in Seq(Frames)
BY ConcatProperties DEF Published

\* The cancel frames of a finite set of calls are a sequence of frames.
LEMMA CancelsType ==
    ASSUME NEW cs \in SUBSET Calls, IsFiniteSet(cs)
    PROVE  SetToSeq({Frame("cancel", c) : c \in cs}) \in Seq(Frames)
<1>1. SetToSeq({Frame("cancel", c) : c \in cs}) \in Seq({Frame("cancel", c) : c \in cs})
  BY CancelFramesFinite, SetToSeqType
<1>2. {Frame("cancel", c) : c \in cs} \subseteq Frames
  BY DEF Frames, Frame
<1> QED
  BY <1>1, <1>2, SeqMonotonic

\* The calls a session starts with are typed.
LEMMA TypedInit == Init => Typed
<1>1. Init => slot \in BOOLEAN /\ reader \in BOOLEAN /\ up \in BOOLEAN
  BY Zenon DEF Init
<1>2. Init => TypeOK
  BY <1>1, BoundsAssumption
     DEF Init, TypeOK, Asleep, Present, NotAcquiring, Idle, Awaiting, BoundsAssumption
<1>3. Init => WellFormed
  BY FS_EmptySet, EmptySeq DEF Init, WellFormed, Asleep, Idle
<1> QED
  BY <1>2, <1>3 DEF Typed

\* The caller's steps keep the types.
LEMMA TypedCaller ==
    ASSUME Typed, NEW c \in Calls, Invoke(c) \/ Publish(c) \/ PublishFails(c) \/ Resume(c)
    PROVE  Typed'
<1> USE DEF Typed, server, runtime, wire, ghosts
<1>1. CASE Invoke(c)
  <2>1. IsFiniteSet(inFlight')
    BY <1>1, FS_AddElement DEF Invoke, WellFormed
  <2> QED
    BY <1>1, <2>1 DEF Invoke, TypeOK, WellFormed, Awaiting
<1>2. CASE Publish(c)
  <2>1. <<Frame("call", c)>> \in Seq(Frames)
    BY DEF Frame, Frames
  <2>2. inq' \in Seq(Frames)
    BY <1>2, <2>1, PublishedType DEF Publish, WellFormed
  <2> QED
    BY <1>2, <2>2 DEF Publish, TypeOK, WellFormed, Awaiting
<1>3. CASE PublishFails(c)
  <2>1. IsFiniteSet(inFlight')
    BY <1>3, FS_RemoveElement DEF PublishFails, WellFormed
  <2> QED
    BY <1>3, <2>1 DEF PublishFails, TypeOK, WellFormed, Awaiting
<1>4. CASE Resume(c)
  <2>1. IsFiniteSet(inFlight')
    BY <1>4, FS_RemoveElement DEF Resume, WellFormed
  <2> QED
    BY <1>4, <2>1 DEF Resume, TypeOK, WellFormed, Awaiting
<1> QED
  BY <1>1, <1>2, <1>3, <1>4

\* The two halves of a stop keep the types.
LEMMA TypedStops ==
    ASSUME Typed, NEW a \in Agents, CancelInFlight(a) \/ DropRun(a)
    PROVE  Typed'
<1> USE DEF Typed, server, runtime, wire, ghosts
<1>1. CASE CancelInFlight(a)
  <2>1. OfAgent(a) \in SUBSET Calls /\ IsFiniteSet(OfAgent(a))
    BY FS_Subset DEF OfAgent, TypeOK, WellFormed
  <2>2. inq' \in Seq(Frames)
    BY <1>1, <2>1, CancelsType, PublishedType DEF CancelInFlight, WellFormed
  <2> QED
    BY <1>1, <2>2 DEF CancelInFlight, TypeOK, WellFormed, Awaiting
<1>2. CASE DropRun(a)
  BY <1>2 DEF DropRun, TypeOK, WellFormed, Awaiting
<1> QED
  BY <1>1, <1>2

\* An answer that arrives, or is lost, keeps the types of the server's side.
LEMMA TypedSays ==
    ASSUME TypeOK, NEW c \in Calls, NEW how \in {"result", "cancelled", "refused"},
           Says(Answered(c, how))
    PROVE  /\ pending' \subseteq {d \in Calls : client'[d] # "new"}
           /\ rx' \in [Calls -> {"empty", "result", "cancelled", "refused", "closed"}]
           /\ UNCHANGED <<client, inFlight, slot, reader, rec, acq, stopping>>
BY DEF Says, Answered, TypeOK, server

\* The frame the runtime takes is a frame, and leaves frames behind it.
LEMMA ReceiveType ==
    ASSUME WellFormed, NEW t, Receive(t)
    PROVE  Head(inq) \in Frames /\ Head(inq).t = t /\ inq' \in Seq(Frames)
BY HeadTailProperties DEF Receive, WellFormed

\* What the loop does with a frame keeps the types.
LEMMA TypedLoop ==
    ASSUME Typed, \/ RecvRefuse \/ RecvCall \/ InsertHandle \/ RecvCancel \/ CancelReply
                  \/ RecvPing
    PROVE  Typed'
<1> USE DEF Typed, runtime, wire
<1>1. CASE RecvRefuse
  <2>1. Head(inq).id \in Calls /\ inq' \in Seq(Frames)
    BY <1>1, ReceiveType DEF RecvRefuse, Frames
  <2> QED
    BY <1>1, <2>1, TypedSays DEF RecvRefuse, TypeOK, WellFormed
<1>2. CASE RecvCall
  <2>1. Head(inq).id \in Calls /\ inq' \in Seq(Frames)
    BY <1>2, ReceiveType DEF RecvCall, Frames
  <2> QED
    BY <1>2, <2>1 DEF RecvCall, TypeOK, WellFormed, server
<1>3. CASE InsertHandle
  <2>1. loop.id \in Calls /\ IsFiniteSet(executing')
    BY <1>3, FS_AddElement DEF InsertHandle, WellFormed
  <2> QED
    BY <1>3, <2>1 DEF InsertHandle, TypeOK, WellFormed, server, Idle
<1>4. CASE RecvCancel
  <2>1. Head(inq).id \in Calls /\ inq' \in Seq(Frames)
    BY <1>4, ReceiveType DEF RecvCancel, Frames
  <2>2. IsFiniteSet(executing')
    BY <1>4, FS_RemoveElement DEF RecvCancel, WellFormed
  <2> QED
    BY <1>4, <2>1, <2>2 DEF RecvCancel, TypeOK, WellFormed, server
<1>5. CASE CancelReply
  <2>1. loop.id \in Calls
    BY <1>5 DEF CancelReply, WellFormed
  <2> QED
    BY <1>5, <2>1, TypedSays DEF CancelReply, TypeOK, WellFormed, Idle
<1>6. CASE RecvPing
  <2>1. Head(inq).id \in PingIds /\ inq' \in Seq(Frames)
    BY <1>6, ReceiveType DEF RecvPing, Frames
  <2>2. IsFiniteSet(pinged')
    BY <1>6, FS_AddElement DEF RecvPing, WellFormed
  <2> QED
    BY <1>6, <2>1, <2>2 DEF RecvPing, TypeOK, WellFormed, server
<1> QED
  BY <1>1, <1>2, <1>3, <1>4, <1>5, <1>6

\* The tasks' steps, a call's and a ping's, keep the types.
LEMMA TypedTasks ==
    ASSUME Typed, \/ \E c \in Calls : Finish(c) \/ RemoveHandle(c) \/ FinishDetached(c)
                  \/ \E p \in pinged : SayPong(p)
    PROVE  Typed'
<1> USE DEF Typed, runtime, wire
<1>1. ASSUME NEW c \in Calls, Finish(c) PROVE Typed'
  BY <1>1, TypedSays DEF Finish, TypeOK, WellFormed
<1>2. ASSUME NEW c \in Calls, RemoveHandle(c) PROVE Typed'
  <2>1. IsFiniteSet(executing')
    BY <1>2, FS_RemoveElement DEF RemoveHandle, WellFormed
  <2> QED
    BY <1>2, <2>1 DEF RemoveHandle, TypeOK, WellFormed, server
<1>3. ASSUME NEW c \in Calls, FinishDetached(c) PROVE Typed'
  BY <1>3 DEF FinishDetached, TypeOK, WellFormed, server
<1>4. ASSUME NEW p \in pinged, SayPong(p) PROVE Typed'
  <2>1. IsFiniteSet(pinged') /\ pinged' \subseteq PingIds
    BY <1>4, FS_RemoveElement DEF SayPong, WellFormed, TypeOK
  <2>2. CASE Ponged(p, executing)
    <3>1. /\ rec' \in [phase : {"sleep", "pinging", "answered"}, ping : {0} \cup PingIds,
                       outstanding : SUBSET Calls, answer : SUBSET Calls,
                       vanished : [Calls -> 0..GraceRounds]]
          /\ IsFiniteSet(rec'.answer)
      BY <2>2 DEF Ponged, TypeOK, WellFormed
    <3>2. acq' \in [phase : {"none", "waiting"}, ping : {0} \cup PingIds]
      BY <2>2 DEF Ponged, Acquired, NotAcquiring, TypeOK
    <3>3. slot' \in BOOLEAN /\ reader' \in BOOLEAN
      BY <2>2, Zenon DEF Ponged, Acquired, TypeOK
    <3> QED
      BY <1>4, <2>1, <2>2, <3>1, <3>2, <3>3 DEF SayPong, Ponged, TypeOK, WellFormed
  <2>3. CASE UNCHANGED server
    BY <1>4, <2>1, <2>3 DEF SayPong, TypeOK, WellFormed, server
  <2> QED
    BY <1>4, <2>2, <2>3 DEF SayPong, Says
<1> QED
  BY <1>1, <1>2, <1>3, <1>4

\* A round of the reconciler keeps the types.
LEMMA TypedReconciler ==
    ASSUME Typed, Reconciler
    PROVE  Typed'
<1> USE DEF Typed, server, runtime, wire, ghosts
<1>1. CASE Rest
  BY <1>1, FS_EmptySet, BoundsAssumption
     DEF Rest, TypeOK, WellFormed, Asleep, Present, BoundsAssumption
<1>2. CASE Ping
  <2>1. FreshPing \in PingIds
    BY FreshPingType
  <2>2. <<Frame("ping", FreshPing)>> \in Seq(Frames)
    BY <2>1 DEF Frame, Frames
  <2>3. inq' \in Seq(Frames)
    BY <1>2, <2>2, PublishedType DEF Ping, WellFormed
  <2> QED
    BY <1>2, <2>1, <2>3 DEF Ping, TypeOK, WellFormed
<1>3. CASE PingTimeout
  BY <1>3, FS_EmptySet, BoundsAssumption
     DEF PingTimeout, Abandon, TypeOK, WellFormed, Asleep, Present, BoundsAssumption
<1>4. CASE Settle
  <2>1. rec.answer \ inFlight \in SUBSET Calls /\ IsFiniteSet(rec.answer \ inFlight)
    BY FS_Subset DEF TypeOK, WellFormed
  <2>2. inq' \in Seq(Frames)
    BY <1>4, <2>1, CancelsType, PublishedType DEF Settle, WellFormed
  <2>3. rec' \in [phase : {"sleep", "pinging", "answered"}, ping : {0} \cup PingIds,
                  outstanding : SUBSET Calls, answer : SUBSET Calls,
                  vanished : [Calls -> 0..GraceRounds]]
    <3>1. \A c \in Calls : rec.vanished[c] \in 0..GraceRounds
      BY DEF TypeOK
    <3>2. \A c \in Calls : c \in rec.outstanding /\ c \notin Expired \cup rec.answer
                             => rec.vanished[c] + 1 \in 0..GraceRounds
      BY <3>1, BoundsAssumption DEF Expired, BoundsAssumption
    <3> QED
      BY <1>4, <3>1, <3>2, BoundsAssumption DEF Settle, Asleep, BoundsAssumption
  <2>4. rec'.answer = {}
    BY <1>4 DEF Settle, Asleep
  <2> QED
    BY <1>4, <2>2, <2>3, <2>4, FS_EmptySet DEF Settle, Abandon, TypeOK, WellFormed
<1> QED
  BY <1>1, <1>2, <1>3, <1>4 DEF Reconciler

\* Acquiring a runtime and letting it go keep the types.
LEMMA TypedManager ==
    ASSUME Typed, Manager
    PROVE  Typed'
<1> USE DEF Typed, server, runtime, wire, ghosts
<1>1. CASE Acquire
  BY <1>1 DEF Acquire, TypeOK, WellFormed
<1>2. CASE Probe
  <2>1. FreshPing \in PingIds
    BY FreshPingType
  <2>2. <<Frame("ping", FreshPing)>> \in Seq(Frames)
    BY <2>1 DEF Frame, Frames
  <2>3. inq' \in Seq(Frames)
    BY <1>2, <2>2, PublishedType DEF Probe, WellFormed
  <2> QED
    BY <1>2, <2>1, <2>3 DEF Probe, TypeOK, WellFormed
<1>3. CASE ProbeTimeout
  BY <1>3 DEF ProbeTimeout, TypeOK, WellFormed
<1>4. CASE Deadline \/ AcquireFails
  BY <1>4 DEF Deadline, AcquireFails, NotAcquiring, TypeOK, WellFormed
<1>5. CASE Hibernate
  <2>1. slot' \in BOOLEAN /\ reader' \in BOOLEAN
    BY <1>5, Zenon DEF Hibernate
  <2> QED
    BY <1>5, <2>1, FS_EmptySet, BoundsAssumption
       DEF Hibernate, TypeOK, WellFormed, Asleep, Present, BoundsAssumption
<1> QED
  BY <1>1, <1>2, <1>3, <1>4, <1>5 DEF Manager

\* Losses, lags, disconnections and restarts keep the types.
LEMMA TypedFaults ==
    ASSUME Typed, Faults
    PROVE  Typed'
<1> USE DEF Typed, runtime, wire
<1>1. CASE LoseIn
  <2>1. inq' \in Seq(Frames)
    BY <1>1, HeadTailProperties DEF LoseIn, WellFormed
  <2> QED
    BY <1>1, <2>1 DEF LoseIn, TypeOK, WellFormed, server
<1>2. CASE Disconnect
  BY <1>2, FS_EmptySet, EmptySeq DEF Disconnect, TypeOK, WellFormed, Idle, server
<1>3. CASE Reconnect
  <2>1. CASE Announced
    <3>1. slot' \in BOOLEAN /\ reader' \in BOOLEAN /\ up' \in BOOLEAN
      BY <1>3, <2>1, Zenon DEF Reconnect, Announced, Acquired, TypeOK
    <3> QED
      BY <1>3, <2>1, <3>1
         DEF Reconnect, Announced, Acquired, NotAcquiring, TypeOK, WellFormed
  <2>2. CASE UNCHANGED server
    BY <1>3, <2>2 DEF Reconnect, TypeOK, WellFormed, server
  <2> QED
    BY <1>3, <2>1, <2>2 DEF Reconnect, Says
<1>4. CASE ReaderLags
  BY <1>4 DEF ReaderLags, TypeOK, WellFormed
<1>5. CASE Restart
  <2>1. slot' \in BOOLEAN /\ reader' \in BOOLEAN
    BY <1>5, Zenon DEF Restart
  <2> QED
    BY <1>5, <2>1, FS_EmptySet, BoundsAssumption
       DEF Restart, TypeOK, WellFormed, Asleep, Present, Awaiting, BoundsAssumption
<1> QED
  BY <1>1, <1>2, <1>3, <1>4, <1>5 DEF Faults

\* Every step keeps the types.
LEMMA TypedNext == Typed /\ [Next]_vars => Typed'
<1> SUFFICES ASSUME Typed, [Next]_vars PROVE Typed'
  OBVIOUS
<1>1. CASE UNCHANGED vars
  BY <1>1 DEF vars, server, runtime, wire, Typed, TypeOK, WellFormed
<1>2. CASE Next
  BY <1>2, TypedCaller, TypedStops, TypedLoop, TypedTasks, TypedReconciler, TypedManager,
     TypedFaults DEF Next, Caller, Stops, Runtime
<1> QED
  BY <1>1, <1>2

\* Every variable of the link keeps its type: in particular a waiter is registered
\* only for a call that was made, and no call outlasts its grace unfailed
\* (reconcile's vanished map).
THEOREM TypeCorrect == Spec => []TypeOK
<1>1. Spec => []Typed
  BY TypedInit, TypedNext, PTL DEF Spec
<1>2. Typed => TypeOK
  BY DEF Typed
<1> QED
  BY <1>1, <1>2, PTL

-----------------------------------------------------------------------------
(* The link implements RemoteCalls *)

\* Nobody awaits the call, which was made; or its own agent asked for its end.
Ended(c) == client[c] \notin Awaiting \cup {"new"}
MayCut(c) == c \in asked \/ Ended(c)

\* A call that is awaited is tracked.  One nobody has made yet is not, has not been
\* asked to stop, and has no task.
Tracked == \A c \in Calls : client[c] \in Awaiting => c \in inFlight
Unmade == \A c \in Calls : client[c] = "new" => /\ c \notin inFlight
                                                /\ c \notin asked
                                                /\ task[c] = "none"

\* A call frame on its way is the only one of its call, which has been published
\* and has not started.
CallFrames ==
    /\ \A i \in DOMAIN inq : inq[i].t = "call" =>
          /\ client[inq[i].id] \notin {"new", "registered"}
          /\ task[inq[i].id] = "none"
    /\ \A i, j \in DOMAIN inq :
          inq[i].t = "call" /\ inq[j].t = "call" /\ inq[i].id = inq[j].id => i = j
Unsent == \A c \in Calls : client[c] = "registered" => task[c] = "none"

\* A cancellation, on its way or being answered, is of a call that may be cut short.
Cuts ==
    /\ \A i \in DOMAIN inq : inq[i].t = "cancel" => MayCut(inq[i].id)
    /\ loop.at = "reply" => MayCut(loop.id)

\* A waiter is told only what happened.
Channels ==
    \A c \in Calls : /\ rx[c] = "cancelled" => c \in asked
                     /\ rx[c] = "result" => task[c] \in {"sent", "over"}

\* The runtime's map, and what it reported of it, hold calls that have a task.
Started ==
    /\ \A c \in executing \cup rec.answer : task[c] # "none"
    /\ loop.at = "insert" => task[loop.id] # "none"

LinkInv == /\ Typed /\ Tracked /\ Unmade /\ CallFrames /\ Unsent /\ Cuts
           /\ Channels /\ Started

\* The frames left when the first is gone, each one place further on.
LEMMA QueueTail ==
    ASSUME inq \in Seq(Frames), inq # <<>>, inq' = Tail(inq)
    PROVE  /\ 1 \in DOMAIN inq /\ Head(inq) = inq[1]
           /\ \A i \in DOMAIN inq' : /\ i \in Nat \ {0}
                                     /\ i + 1 \in DOMAIN inq
                                     /\ inq'[i] = inq[i + 1]
<1>1. /\ Len(inq) \in Nat \ {0} /\ DOMAIN inq = 1..Len(inq)
      /\ Tail(inq) \in Seq(Frames) /\ Len(Tail(inq)) = Len(inq) - 1
      /\ DOMAIN Tail(inq) = 1..Len(Tail(inq))
      /\ \A i \in 1..Len(Tail(inq)) : Tail(inq)[i] = inq[i + 1]
  BY EmptySeq, LenProperties, HeadTailProperties
<1>2. Head(inq) = inq[1]
  BY <1>1
<1> QED
  BY <1>1, <1>2

\* The frames after a publish: those there were, in place, and new ones behind them.
LEMMA QueueMore ==
    ASSUME NEW fs \in Seq(Frames), inq \in Seq(Frames), inq' = Published(fs)
    PROVE  \A i \in DOMAIN inq' :
              \/ i \in DOMAIN inq /\ inq'[i] = inq[i]
              \/ /\ i \notin DOMAIN inq /\ i - Len(inq) \in DOMAIN fs
                 /\ inq'[i] = fs[i - Len(inq)]
<1>1. CASE ~up
  BY <1>1 DEF Published
<1>2. CASE up
  <2>1. /\ Len(inq) \in Nat /\ DOMAIN inq = 1..Len(inq)
        /\ Len(fs) \in Nat /\ DOMAIN fs = 1..Len(fs)
        /\ inq' \in Seq(Frames) /\ Len(inq') = Len(inq) + Len(fs)
        /\ \A i \in 1..Len(inq') : inq'[i] = IF i <= Len(inq) THEN inq[i]
                                                               ELSE fs[i - Len(inq)]
    BY <1>2, LenProperties, ConcatProperties DEF Published
  <2>2. DOMAIN inq' = 1..Len(inq')
    BY <2>1, LenProperties
  <2> QED
    BY <2>1, <2>2
<1> QED
  BY <1>1, <1>2

\* Publishing cancel frames adds the frame of a call of the set, and nothing else.
LEMMA QueueCancels ==
    ASSUME NEW cs \in SUBSET Calls, IsFiniteSet(cs), inq \in Seq(Frames),
           inq' = Published(SetToSeq({Frame("cancel", c) : c \in cs}))
    PROVE  \A i \in DOMAIN inq' :
              \/ i \in DOMAIN inq /\ inq'[i] = inq[i]
              \/ inq'[i].t = "cancel" /\ inq'[i].id \in cs
<1> DEFINE fs == SetToSeq({Frame("cancel", c) : c \in cs})
<1>1. fs \in Seq({Frame("cancel", c) : c \in cs}) /\ fs \in Seq(Frames)
  BY CancelFramesFinite, SetToSeqType, CancelsType
<1>2. \A j \in DOMAIN fs : fs[j] \in {Frame("cancel", c) : c \in cs}
  BY <1>1, ElementOfSeq, LenProperties
<1> HIDE DEF fs
<1>3. \A j \in DOMAIN fs : fs[j].t = "cancel" /\ fs[j].id \in cs
  BY <1>2 DEF Frame
<1>4. inq' = Published(fs)
  BY DEF fs
<1> QED
  BY <1>1, <1>3, <1>4, QueueMore

\* Publishing one ping adds its frame and nothing else.
LEMMA QueuePing ==
    ASSUME NEW p \in PingIds, inq \in Seq(Frames), inq' = Published(<<Frame("ping", p)>>)
    PROVE  \A i \in DOMAIN inq' :
              \/ i \in DOMAIN inq /\ inq'[i] = inq[i]
              \/ inq'[i].t = "ping"
<1>1. <<Frame("ping", p)>> \in Seq(Frames)
  BY DEF Frame, Frames
<1>2. \A j \in DOMAIN <<Frame("ping", p)>> : <<Frame("ping", p)>>[j] = Frame("ping", p)
  OBVIOUS
<1>3. PICK fs : fs = <<Frame("ping", p)>>
  OBVIOUS
<1>4. fs \in Seq(Frames) /\ inq' = Published(fs)
  BY <1>1, <1>3
<1>5. \A j \in DOMAIN fs : fs[j].t = "ping"
  <2>1. Frame("ping", p).t = "ping"
    BY DEF Frame
  <2> QED
    BY <1>2, <1>3, <2>1
<1>6. \A i \in DOMAIN inq' :
         \/ i \in DOMAIN inq /\ inq'[i] = inq[i]
         \/ /\ i \notin DOMAIN inq /\ i - Len(inq) \in DOMAIN fs
            /\ inq'[i] = fs[i - Len(inq)]
  BY <1>4, QueueMore, Zenon
<1> QED
  BY <1>5, <1>6, Zenon

\* Publishing one call adds its frame and nothing else.
LEMMA QueueCall ==
    ASSUME NEW c \in Calls, inq \in Seq(Frames), inq' = Published(<<Frame("call", c)>>)
    PROVE  \A i \in DOMAIN inq' :
              \/ i \in DOMAIN inq /\ inq'[i] = inq[i]
              \/ /\ i \notin DOMAIN inq /\ i = Len(inq) + 1
                 /\ inq'[i].t = "call" /\ inq'[i].id = c
<1> DEFINE fs == <<Frame("call", c)>>
<1>1. fs \in Seq(Frames)
  BY DEF Frame, Frames
<1>2. \A j \in DOMAIN fs : j = 1 /\ fs[j] = Frame("call", c)
  OBVIOUS
<1>3. Frame("call", c).t = "call" /\ Frame("call", c).id = c
  BY DEF Frame
<1>4. inq' = Published(fs)
  OBVIOUS
<1> HIDE DEF fs
<1>5. Len(inq) \in Nat /\ (inq' \in Seq(Frames))
  BY <1>1, <1>4, LenProperties, PublishedType
<1>6. \A i \in DOMAIN inq' : i \in Nat
  BY <1>5, LenProperties
<1>7. \A i \in DOMAIN inq' : i - Len(inq) = 1 => i = Len(inq) + 1
  BY <1>5, <1>6
<1>8. \A i \in DOMAIN inq' :
         \/ i \in DOMAIN inq /\ inq'[i] = inq[i]
         \/ i \notin DOMAIN inq /\ i - Len(inq) \in DOMAIN fs /\ inq'[i] = fs[i - Len(inq)]
  BY <1>1, <1>4, QueueMore
<1>9. \A i \in DOMAIN inq' :
         \/ i \in DOMAIN inq /\ inq'[i] = inq[i]
         \/ i \notin DOMAIN inq /\ i = Len(inq) + 1 /\ inq'[i] = Frame("call", c)
  BY <1>2, <1>7, <1>8
<1> QED
  BY <1>3, <1>9

\* The parts of the invariant besides the types.
Ends == Tracked /\ Unmade /\ Unsent /\ Channels /\ Started
Queue == CallFrames /\ Cuts

\* At the start nothing has been asked, sent or run.
LEMMA LinkInvInit == Init => LinkInv
<1>1. Init => Typed
  BY TypedInit
<1>2. Init => Ends /\ Queue
  BY DEF Init, Ends, Queue, Tracked, Unmade, CallFrames, Unsent, Cuts, Channels, Started,
         Awaiting, Asleep, Idle
<1> QED
  BY <1>1, <1>2 DEF LinkInv, Ends, Queue

\* The caller's steps keep the invariant.
LEMMA LinkInvCaller ==
    ASSUME LinkInv, NEW c \in Calls, Invoke(c) \/ Publish(c) \/ PublishFails(c) \/ Resume(c)
    PROVE  Ends' /\ Queue'
<1> USE DEF LinkInv, Typed, TypeOK, runtime, wire, ghosts, Ended, MayCut, Awaiting
<1>1. CASE Invoke(c)
  <2>1. Ends'
    BY <1>1 DEF Invoke, Ends, Tracked, Unmade, Unsent, Channels, Started
  <2>2. Queue'
    BY <1>1 DEF Invoke, Queue, CallFrames, Cuts
  <2> QED
    BY <2>1, <2>2
<1>2. CASE Publish(c)
  <2>1. Ends'
    BY <1>2 DEF Publish, Ends, Tracked, Unmade, Unsent, Channels, Started
  <2>2. inq \in Seq(Frames) /\ inq' = Published(<<Frame("call", c)>>)
    BY <1>2 DEF Publish, WellFormed
  <2>3. \A i \in DOMAIN inq' : \/ i \in DOMAIN inq /\ inq'[i] = inq[i]
                               \/ /\ i \notin DOMAIN inq /\ i = Len(inq) + 1
                                  /\ inq'[i].t = "call" /\ inq'[i].id = c
    BY <2>2, QueueCall
  <2>4. /\ client[c] = "registered" /\ task[c] = "none"
        /\ client' = [client EXCEPT ![c] = "waiting"]
        /\ UNCHANGED <<task, loop, asked>>
    BY <1>2 DEF Publish, Unsent
  <2>5. \A i \in DOMAIN inq : inq[i].t = "call" => inq[i].id # c
    BY <2>4 DEF CallFrames
  <2>6. CallFrames'
    BY <2>3, <2>4, <2>5 DEF CallFrames
  <2>7. Cuts'
    BY <2>3, <2>4 DEF Cuts
  <2> QED
    BY <2>1, <2>6, <2>7 DEF Queue
<1>3. CASE PublishFails(c)
  <2>1. Ends'
    BY <1>3 DEF PublishFails, Ends, Tracked, Unmade, Unsent, Channels, Started
  <2>2. Queue'
    BY <1>3 DEF PublishFails, Queue, CallFrames, Cuts
  <2> QED
    BY <2>1, <2>2
<1>4. CASE Resume(c)
  <2>1. Ends'
    BY <1>4 DEF Resume, Ends, Tracked, Unmade, Unsent, Channels, Started
  <2>2. Queue'
    BY <1>4 DEF Resume, Queue, CallFrames, Cuts
  <2> QED
    BY <2>1, <2>2
<1> QED
  BY <1>1, <1>2, <1>3, <1>4

\* The two halves of a stop keep the invariant.
LEMMA LinkInvStops ==
    ASSUME LinkInv, NEW a \in Agents, CancelInFlight(a) \/ DropRun(a)
    PROVE  Ends' /\ Queue'
<1> USE DEF LinkInv, Typed, runtime, wire, ghosts, Ended, MayCut, Awaiting
<1>1. CASE CancelInFlight(a)
  <2>1. OfAgent(a) \in SUBSET Calls /\ IsFiniteSet(OfAgent(a)) /\ inq \in Seq(Frames)
    BY FS_Subset DEF OfAgent, TypeOK, WellFormed
  <2>2. \A i \in DOMAIN inq' : \/ i \in DOMAIN inq /\ inq'[i] = inq[i]
                               \/ inq'[i].t = "cancel" /\ inq'[i].id \in OfAgent(a)
    BY <1>1, <2>1, QueueCancels DEF CancelInFlight
  <2>3. asked' = asked \cup OfAgent(a)
    BY <1>1 DEF CancelInFlight, OfAgent
  <2>4. Ends'
    BY <1>1, <2>3 DEF CancelInFlight, OfAgent, Ends, Tracked, Unmade, Unsent, Channels, Started
  <2>5. UNCHANGED <<client, task, loop>>
    BY <1>1 DEF CancelInFlight
  <2>6. CallFrames'
    BY <2>2, <2>5 DEF CallFrames
  <2>7. Cuts'
    BY <2>2, <2>3, <2>5 DEF Cuts
  <2> QED
    BY <2>4, <2>6, <2>7 DEF Queue
<1>2. CASE DropRun(a)
  <2>1. Ends'
    BY <1>2 DEF DropRun, Ends, Tracked, Unmade, Unsent, Channels, Started, TypeOK
  <2>2. \A i \in DOMAIN inq : inq[i].t \in {"call", "cancel"} => inq[i].id \in Calls
    BY ElementOfSeq, LenProperties DEF WellFormed, Frames
  <2>3. Queue'
    BY <1>2, <2>2 DEF DropRun, Queue, CallFrames, Cuts, WellFormed, TypeOK
  <2> QED
    BY <2>1, <2>3
<1> QED
  BY <1>1, <1>2

\* What the loop does with a frame keeps the invariant.
LEMMA LinkInvLoop ==
    ASSUME LinkInv, \/ RecvRefuse \/ RecvCall \/ InsertHandle \/ RecvCancel \/ CancelReply
                    \/ RecvPing
    PROVE  Ends' /\ Queue'
<1> USE DEF LinkInv, Typed, runtime, wire, ghosts, Ended, MayCut, Awaiting
<1>0. \A i \in DOMAIN inq : inq[i].t \in {"call", "cancel"} => inq[i].id \in Calls
  BY ElementOfSeq, LenProperties DEF WellFormed, Frames
<1>1. CASE RecvRefuse
  <2>1. /\ inq \in Seq(Frames) /\ inq # <<>> /\ inq' = Tail(inq)
        /\ Head(inq).t = "call" /\ Head(inq).id \in Calls
    BY <1>1, ReceiveType DEF RecvRefuse, Receive, WellFormed, Frames
  <2>2. /\ UNCHANGED <<client, inFlight, rec, asked, loop, task, executing>>
        /\ \A d \in Calls : rx'[d] \in {rx[d], "refused"}
    BY <1>1, <2>1 DEF RecvRefuse, Says, Answered, TypeOK, server
  <2>3. Ends'
    BY <2>2 DEF Ends, Tracked, Unmade, Unsent, Channels, Started
  <2>4. Queue'
    BY <2>1, <2>2, QueueTail DEF Queue, CallFrames, Cuts
  <2> QED
    BY <2>3, <2>4
<1>2. CASE RecvCall
  <2>1. /\ inq \in Seq(Frames) /\ inq # <<>> /\ inq' = Tail(inq)
        /\ Head(inq).t = "call" /\ Head(inq).id \in Calls
    BY <1>2, ReceiveType DEF RecvCall, Receive, WellFormed, Frames
  <2>2. /\ 1 \in DOMAIN inq /\ Head(inq) = inq[1]
        /\ \A i \in DOMAIN inq' : /\ i \in Nat \ {0} /\ i + 1 \in DOMAIN inq
                                  /\ inq'[i] = inq[i + 1]
    BY <2>1, QueueTail
  <2>3. /\ task[Head(inq).id] = "none"
        /\ client[Head(inq).id] \notin {"new", "registered"}
    BY <2>1, <2>2 DEF CallFrames
  <2>4. Ends'
    BY <1>2, <2>1, <2>3 DEF RecvCall, server, TypeOK, Ends, Tracked, Unmade, Unsent, Channels, Started
  <2>5. \A i \in DOMAIN inq' : inq'[i].t = "call" => inq'[i].id # Head(inq).id
    BY <2>1, <2>2 DEF CallFrames
  <2>6. CallFrames'
    BY <1>2, <1>0, <2>1, <2>2, <2>5 DEF RecvCall, server, TypeOK, CallFrames
  <2>7. Cuts'
    BY <1>2, <2>2 DEF RecvCall, server, Cuts
  <2> QED
    BY <2>4, <2>6, <2>7 DEF Queue
<1>3. CASE InsertHandle
  BY <1>3 DEF InsertHandle, server, Idle, Ends, Tracked, Unmade, Unsent, Channels, Started,
              Queue, CallFrames, Cuts
<1>4. CASE RecvCancel
  <2>1. /\ inq \in Seq(Frames) /\ inq # <<>> /\ inq' = Tail(inq)
        /\ Head(inq).t = "cancel" /\ Head(inq).id \in Calls
    BY <1>4, ReceiveType DEF RecvCancel, Receive, WellFormed, Frames
  <2>2. /\ 1 \in DOMAIN inq /\ Head(inq) = inq[1]
        /\ \A i \in DOMAIN inq' : /\ i \in Nat \ {0} /\ i + 1 \in DOMAIN inq
                                  /\ inq'[i] = inq[i + 1]
    BY <2>1, QueueTail
  <2>3. /\ loop' = [at |-> "reply", id |-> Head(inq).id]
        /\ executing' \subseteq executing
        /\ UNCHANGED <<client, inFlight, rec, rx, asked>>
    BY <1>4 DEF RecvCancel, server
  <2>4. \A d \in Calls : /\ task'[d] = "none" <=> task[d] = "none"
                         /\ task[d] \in {"sent", "over"} => task'[d] \in {"sent", "over"}
    BY <1>4, <2>1 DEF RecvCancel, TypeOK, Started
  <2>5. MayCut(Head(inq).id)
    BY <2>1, <2>2 DEF Cuts
  <2>6. Ends'
    BY <2>3, <2>4 DEF TypeOK, Ends, Tracked, Unmade, Unsent, Channels, Started
  <2>7. Queue'
    BY <1>0, <2>1, <2>2, <2>3, <2>4, <2>5 DEF TypeOK, Queue, CallFrames, Cuts
  <2> QED
    BY <2>6, <2>7
<1>5. CASE CancelReply
  <2>1. loop.id \in Calls /\ MayCut(loop.id) /\ loop' = Idle
    BY <1>5 DEF CancelReply, WellFormed, Cuts
  <2>2. /\ UNCHANGED <<client, inFlight, rec, asked, task, executing, inq>>
        /\ \A d \in Calls : rx'[d] = rx[d] \/ (rx'[d] = "cancelled" /\ d \in asked)
    <3>0. UNCHANGED <<asked, task, executing, inq>>
      BY <1>5 DEF CancelReply, Says
    <3>1. CASE Answered(loop.id, "cancelled")
      <4>1. \A d \in Calls : rx'[d] = rx[d] \/ /\ rx'[d] = "cancelled" /\ d = loop.id
                                               /\ client[d] \in {"registered", "waiting"}
        BY <2>1, <3>1 DEF Answered, TypeOK
      <4>2. UNCHANGED <<client, inFlight, rec>>
        BY <3>1 DEF Answered
      <4>3. \A d \in Calls : d = loop.id /\ client[d] \in {"registered", "waiting"} => d \in asked
        BY <2>1
      <4> QED
        BY <3>0, <4>1, <4>2, <4>3
    <3>2. CASE UNCHANGED server
      <4>1. UNCHANGED <<client, inFlight, rec, rx>>
        BY <3>2 DEF server
      <4> QED
        BY <3>0, <4>1
    <3> QED
      BY <1>5, <3>1, <3>2 DEF CancelReply, Says
  <2> QED
    BY <2>1, <2>2 DEF Idle, Ends, Tracked, Unmade, Unsent, Channels, Started, Queue,
                      CallFrames, Cuts
<1>6. CASE RecvPing
  <2>1. inq \in Seq(Frames) /\ inq # <<>> /\ inq' = Tail(inq)
    BY <1>6 DEF RecvPing, Receive, WellFormed
  <2>2. Ends'
    BY <1>6 DEF RecvPing, server, Ends, Tracked, Unmade, Unsent, Channels, Started
  <2>3. Queue'
    BY <1>6, <2>1, QueueTail DEF RecvPing, server, Queue, CallFrames, Cuts
  <2> QED
    BY <2>2, <2>3
<1> QED
  BY <1>1, <1>2, <1>3, <1>4, <1>5, <1>6

\* The tasks' steps, a call's and a ping's, keep the invariant.
LEMMA LinkInvTasks ==
    ASSUME LinkInv, \/ \E c \in Calls : Finish(c) \/ RemoveHandle(c) \/ FinishDetached(c)
                    \/ \E p \in pinged : SayPong(p)
    PROVE  Ends' /\ Queue'
<1> USE DEF LinkInv, Typed, runtime, wire, ghosts, Ended, MayCut, Awaiting
<1>0. \A i \in DOMAIN inq : inq[i].t \in {"call", "cancel"} => inq[i].id \in Calls
  BY ElementOfSeq, LenProperties DEF WellFormed, Frames
<1>1. ASSUME NEW c \in Calls, Finish(c) PROVE Ends' /\ Queue'
  <2>1. /\ UNCHANGED <<loop, executing, inq, asked>> /\ task[c] = "running"
        /\ task' = [task EXCEPT ![c] = "sent"]
    BY <1>1 DEF Finish, Says
  <2>2. UNCHANGED <<client, inFlight, rec>>
    BY <1>1, TypedSays DEF Finish
  <2>3. \A d \in Calls : rx'[d] = rx[d] \/ (rx'[d] = "result" /\ d = c)
    BY <1>1 DEF Finish, Says, Answered, TypeOK, server
  <2>4. Ends'
    BY <2>1, <2>2, <2>3 DEF TypeOK, Ends, Tracked, Unmade, Unsent, Channels, Started
  <2>5. Queue'
    BY <1>0, <2>1, <2>2 DEF TypeOK, Queue, CallFrames, Cuts
  <2> QED
    BY <2>4, <2>5
<1>2. ASSUME NEW c \in Calls, RemoveHandle(c) \/ FinishDetached(c) PROVE Ends' /\ Queue'
  <2>1. /\ task[c] \in {"sent", "detached"} /\ task' = [task EXCEPT ![c] = "over"]
        /\ executing' \subseteq executing
        /\ UNCHANGED <<client, inFlight, rec, rx, loop, inq, asked>>
    BY <1>2 DEF RemoveHandle, FinishDetached, server
  <2>2. Ends'
    BY <2>1 DEF TypeOK, Ends, Tracked, Unmade, Unsent, Channels, Started
  <2>3. Queue'
    BY <1>0, <2>1 DEF TypeOK, Queue, CallFrames, Cuts
  <2> QED
    BY <2>2, <2>3
<1>3. ASSUME NEW p \in pinged, SayPong(p) PROVE Ends' /\ Queue'
  <2>1. UNCHANGED <<loop, task, executing, inq, asked>>
    BY <1>3 DEF SayPong, Says
  <2>2. UNCHANGED <<client, inFlight, rx>>
    BY <1>3 DEF SayPong, Says, Ponged, server
  <2>3. rec'.answer \in {rec.answer, executing}
    BY <1>3 DEF SayPong, Says, Ponged, server, TypeOK
  <2> QED
    BY <2>1, <2>2, <2>3
       DEF Ends, Tracked, Unmade, Unsent, Channels, Started, Queue, CallFrames, Cuts
<1> QED
  BY <1>1, <1>2, <1>3

\* A round of the reconciler keeps the invariant: what it cancels has a task, and
\* nobody tracks it.
LEMMA LinkInvReconciler ==
    ASSUME LinkInv, Reconciler
    PROVE  Ends' /\ Queue'
<1> USE DEF LinkInv, Typed, runtime, wire, ghosts, Ended, MayCut, Awaiting
<1>0. UNCHANGED <<client, inFlight, loop, task, executing, asked>>
  BY DEF Reconciler, Rest, Ping, PingTimeout, Settle
<1>1. rec'.answer \in {rec.answer, {}}
  <2>1. Rest \/ PingTimeout \/ Settle => rec'.answer = {}
    BY DEF Rest, PingTimeout, Settle, Asleep
  <2>2. Ping => rec'.answer = rec.answer
    BY DEF Ping, TypeOK
  <2> QED
    BY <2>1, <2>2 DEF Reconciler
<1>2. \A c \in Calls : rx'[c] \in {rx[c], "closed"}
  BY DEF Reconciler, Rest, Ping, PingTimeout, Settle, Abandon, TypeOK
<1>3. Ends'
  BY <1>0, <1>1, <1>2 DEF Ends, Tracked, Unmade, Unsent, Channels, Started
<1>4. CASE UNCHANGED inq
  BY <1>0, <1>3, <1>4 DEF Queue, CallFrames, Cuts
<1>5. CASE Ping
  <2>1. \A i \in DOMAIN inq' : (i \in DOMAIN inq /\ inq'[i] = inq[i]) \/ inq'[i].t = "ping"
    BY <1>5, FreshPingType, QueuePing DEF Ping, WellFormed
  <2> QED
    BY <1>0, <1>3, <2>1 DEF Queue, CallFrames, Cuts
<1>6. CASE Settle
  <2>1. rec.answer \ inFlight \in SUBSET Calls /\ IsFiniteSet(rec.answer \ inFlight)
    BY FS_Subset DEF TypeOK, WellFormed
  <2>2. \A i \in DOMAIN inq' : \/ i \in DOMAIN inq /\ inq'[i] = inq[i]
                               \/ inq'[i].t = "cancel" /\ inq'[i].id \in rec.answer \ inFlight
    BY <1>6, <2>1, QueueCancels DEF Settle, WellFormed
  <2>3. \A c \in rec.answer \ inFlight : Ended(c)
    BY <2>1 DEF Started, Unmade, Tracked
  <2>4. CallFrames'
    BY <1>0, <2>2 DEF CallFrames
  <2>5. Cuts'
    BY <1>0, <2>2, <2>3 DEF Cuts
  <2> QED
    BY <1>3, <2>4, <2>5 DEF Queue
<1> QED
  BY <1>4, <1>5, <1>6 DEF Reconciler, Rest, PingTimeout

\* Acquiring a runtime and letting it go keep the invariant.
LEMMA LinkInvManager ==
    ASSUME LinkInv, Manager
    PROVE  Ends' /\ Queue'
<1> USE DEF LinkInv, Typed, runtime, wire, ghosts, Ended, MayCut, Awaiting
<1>0. /\ UNCHANGED <<client, rx, loop, task, executing, asked>>
      /\ inFlight' = inFlight \/ (inFlight' = {} /\ \A c \in Calls : client[c] \notin Awaiting)
  BY DEF Manager, Acquire, Probe, ProbeTimeout, Deadline, AcquireFails, Hibernate
<1>1. rec'.answer \in {rec.answer, {}}
  BY DEF Manager, Acquire, Probe, ProbeTimeout, Deadline, AcquireFails, Hibernate, Asleep
<1>2. Ends'
  BY <1>0, <1>1 DEF Ends, Tracked, Unmade, Unsent, Channels, Started
<1>3. CASE UNCHANGED inq
  BY <1>0, <1>2, <1>3 DEF Queue, CallFrames, Cuts
<1>4. CASE Probe
  <2>1. \A i \in DOMAIN inq' : (i \in DOMAIN inq /\ inq'[i] = inq[i]) \/ inq'[i].t = "ping"
    BY <1>4, FreshPingType, QueuePing DEF Probe, WellFormed
  <2> QED
    BY <1>0, <1>2, <2>1 DEF Queue, CallFrames, Cuts
<1> QED
  BY <1>3, <1>4 DEF Manager, Acquire, ProbeTimeout, Deadline, AcquireFails, Hibernate

\* Losses, lags, disconnections and restarts keep the invariant.
LEMMA LinkInvFaults ==
    ASSUME LinkInv, Faults
    PROVE  Ends' /\ Queue'
<1> USE DEF LinkInv, Typed, runtime, wire, ghosts, Ended, MayCut, Awaiting
<1>0. \A i \in DOMAIN inq : inq[i].t \in {"call", "cancel"} => inq[i].id \in Calls
  BY ElementOfSeq, LenProperties DEF WellFormed, Frames
<1>1. CASE LoseIn
  <2>1. inq \in Seq(Frames) /\ inq # <<>> /\ inq' = Tail(inq)
    BY <1>1 DEF LoseIn, WellFormed
  <2>2. Ends'
    BY <1>1 DEF LoseIn, server, Ends, Tracked, Unmade, Unsent, Channels, Started
  <2>3. Queue'
    BY <1>1, <2>1, QueueTail DEF LoseIn, server, Queue, CallFrames, Cuts
  <2> QED
    BY <2>2, <2>3
<1>2. CASE Disconnect
  <2>1. Ends'
    BY <1>2 DEF Disconnect, server, Idle, TypeOK, Ends, Tracked, Unmade, Unsent, Channels,
                Started
  <2>2. Queue'
    BY <1>2 DEF Disconnect, server, Idle, Queue, CallFrames, Cuts
  <2> QED
    BY <2>1, <2>2
<1>3. CASE Reconnect \/ ReaderLags
  <2>1. UNCHANGED <<client, inFlight, rx, rec, loop, task, executing, inq, asked>>
    BY <1>3 DEF Reconnect, ReaderLags, Says, Announced, server
  <2> QED
    BY <2>1 DEF Ends, Tracked, Unmade, Unsent, Channels, Started, Queue, CallFrames, Cuts
<1>4. CASE Restart
  <2>1. Ends'
    BY <1>4 DEF Restart, Asleep, TypeOK, Ends, Tracked, Unmade, Unsent, Channels, Started
  <2>2. Queue'
    BY <1>0, <1>4 DEF Restart, TypeOK, WellFormed, Queue, CallFrames, Cuts
  <2> QED
    BY <2>1, <2>2
<1> QED
  BY <1>1, <1>2, <1>3, <1>4 DEF Faults

\* Every step keeps the invariant.
LEMMA LinkInvNext == LinkInv /\ [Next]_vars => LinkInv'
<1> SUFFICES ASSUME LinkInv, [Next]_vars PROVE LinkInv'
  OBVIOUS
<1>1. Typed'
  BY TypedNext DEF LinkInv
<1>2. CASE UNCHANGED vars
  <2>1. UNCHANGED <<client, inFlight, rx, rec, loop, task, executing, inq, asked>>
    BY <1>2 DEF vars, server, runtime, wire, ghosts
  <2> QED
    BY <1>1, <2>1 DEF LinkInv, Tracked, Unmade, CallFrames, Unsent, Cuts, Channels, Started,
                      MayCut, Ended
<1>3. CASE Next
  <2>1. Ends' /\ Queue'
    BY <1>3, LinkInvCaller, LinkInvStops, LinkInvLoop, LinkInvTasks, LinkInvReconciler,
       LinkInvManager, LinkInvFaults DEF Next, Caller, Stops, Runtime
  <2> QED
    BY <1>1, <2>1 DEF LinkInv, Ends, Queue
<1> QED
  BY <1>2, <1>3

\* Every step of the link is a step of RemoteCalls, or changes nothing it sees.
LEMMA LinkStep == LinkInv /\ LinkInv' /\ [Next]_vars => [Promise!Next]_(Promise!vars)
<1> DEFINE Wait == [c \in Calls |-> IF client[c] \in Awaiting THEN "open" ELSE client[c]]
           Work == [c \in Calls |-> CASE task[c] \in {"running", "detached"} -> "running"
                                      [] task[c] \in {"sent", "over"} -> "finished"
                                      [] OTHER -> task[c]]
<1> SUFFICES ASSUME LinkInv, LinkInv', [Next]_vars
             PROVE  Promise!Next \/ UNCHANGED <<Wait, Work, asked>>
  BY DEF Promise!vars
<1>a. /\ \A c \in Calls : Promise!Issue(c) \/ Promise!Start(c) \/ Promise!Finish(c)
                           \/ Promise!Stop(c) => Promise!Next
      /\ \A a \in Agents : Promise!Ask(a) => Promise!Next
      /\ \A c \in Calls, how \in Promise!Answers : Promise!Answer(c, how) => Promise!Next
      /\ \A cs \in SUBSET Calls : Promise!Drop(cs) => Promise!Next
  BY DEF Promise!Next
<1>0. UNCHANGED <<client, task, asked>> => UNCHANGED <<Wait, Work, asked>>
  OBVIOUS
<1>1. ASSUME NEW c \in Calls, Invoke(c) PROVE Promise!Issue(c)
  BY <1>1 DEF Invoke, Promise!Issue, runtime, ghosts, LinkInv, Typed, TypeOK, Awaiting
<1>2. ASSUME NEW c \in Calls, Publish(c) PROVE UNCHANGED <<Wait, Work, asked>>
  BY <1>2 DEF Publish, runtime, ghosts, LinkInv, Typed, TypeOK, Awaiting
<1>3. ASSUME NEW c \in Calls, PublishFails(c) PROVE Promise!Next
  <2>1. Promise!Answer(c, "failed")
    BY <1>3 DEF PublishFails, Promise!Answer, runtime, ghosts, LinkInv, Typed, TypeOK, Awaiting
  <2> QED
    BY <1>a, <2>1 DEF Promise!Answers
<1>4. ASSUME NEW c \in Calls, Resume(c) PROVE Promise!Next
  <2>1. PICK how \in Promise!Answers \ {"dropped"} :
            how = IF rx[c] = "closed" THEN "failed" ELSE rx[c]
    BY <1>4 DEF Resume, LinkInv, Typed, TypeOK, Promise!Answers
  <2>2. /\ how = "result" => Work[c] = "finished"
        /\ how = "cancelled" => c \in asked
    BY <2>1 DEF LinkInv, Typed, TypeOK, Channels
  <2>3. /\ client[c] \in Awaiting /\ client' = [client EXCEPT ![c] = how]
        /\ UNCHANGED <<task, asked>>
    BY <1>4, <2>1 DEF Resume, runtime, ghosts, Awaiting
  <2>4. Promise!Answer(c, how)
    <3>1. Wait[c] = "open" /\ Work' = Work
      BY <2>3
    <3>2. how \notin Awaiting
      BY DEF Promise!Answers, Awaiting
    <3>3. Wait' = [Wait EXCEPT ![c] = how]
      BY <2>3, <3>2 DEF LinkInv, Typed, TypeOK
    <3> QED
      BY <2>2, <2>3, <3>1, <3>3 DEF Promise!Answer
  <2> QED
    BY <1>a, <2>4
<1>5. ASSUME NEW a \in Agents, CancelInFlight(a) PROVE Promise!Ask(a)
  <2>1. asked' = asked \cup OfAgent(a) /\ UNCHANGED <<client, task>>
    BY <1>5 DEF CancelInFlight, OfAgent, runtime
  <2>2. OfAgent(a) \in SUBSET {c \in Calls : Issuer[c] = a /\ Wait[c] # "new"}
    BY DEF OfAgent, LinkInv, Typed, TypeOK, Unmade
  <2> QED
    BY <2>1, <2>2 DEF Promise!Ask
<1>6. ASSUME NEW a \in Agents, DropRun(a)
      PROVE  Promise!Next
  <2>0. PICK cs \in SUBSET Calls : cs = {c \in Calls : Issuer[c] = a /\ client[c] \in Awaiting}
    OBVIOUS
  <2>1. Promise!Drop(cs)
    BY <1>6, <2>0 DEF DropRun, Promise!Drop, runtime, ghosts, LinkInv, Typed, TypeOK, Awaiting
  <2> QED
    BY <1>a, <2>1
<1>7. CASE Stops \/ Caller
  BY <1>a, <1>7, <1>1, <1>2, <1>3, <1>4, <1>5, <1>6 DEF Caller, Stops
<1>8. CASE RecvRefuse \/ CancelReply
  BY <1>0, <1>8 DEF RecvRefuse, CancelReply, Says, Answered, server, runtime, ghosts
<1>9. CASE RecvCall
  <2>1. inq \in Seq(Frames) /\ inq # <<>> /\ inq' = Tail(inq) /\ Head(inq).t = "call"
    BY <1>9 DEF RecvCall, Receive, LinkInv, Typed, WellFormed
  <2>2. PICK c \in Calls : c = Head(inq).id
    BY <1>9, ReceiveType DEF RecvCall, Frames, LinkInv, Typed
  <2>3. task[c] = "none" /\ client[c] # "new"
    BY <2>1, <2>2, QueueTail DEF LinkInv, CallFrames
  <2>4. Promise!Start(c)
    BY <1>9, <2>2, <2>3
       DEF RecvCall, Promise!Start, server, ghosts, LinkInv, Typed, TypeOK, Awaiting
  <2> QED
    BY <1>a, <2>4
<1>10. CASE InsertHandle \/ RecvPing
  BY <1>0, <1>10 DEF InsertHandle, RecvPing, server, ghosts
<1>11. CASE RecvCancel
  <2>1. inq \in Seq(Frames) /\ inq # <<>> /\ inq' = Tail(inq) /\ Head(inq).t = "cancel"
    BY <1>11 DEF RecvCancel, Receive, LinkInv, Typed, WellFormed
  <2>2. PICK c \in Calls : c = Head(inq).id
    BY <1>11, ReceiveType DEF RecvCancel, Frames, LinkInv, Typed
  <2>3. c \in asked \/ Wait[c] \in Promise!Answers
    BY <2>1, <2>2, QueueTail DEF LinkInv, Typed, TypeOK, Cuts, MayCut, Ended, Awaiting,
                                   Promise!Answers
  <2>4. UNCHANGED <<client, asked>>
    BY <1>11 DEF RecvCancel, server, ghosts
  <2>5. CASE c \in executing /\ task[c] = "running"
    <3>1. task' = [task EXCEPT ![c] = "stopped"]
      BY <1>11, <2>2, <2>5 DEF RecvCancel, LinkInv, Typed, TypeOK
    <3>2. Promise!Stop(c)
      BY <2>2, <2>3, <2>4, <2>5, <3>1 DEF Promise!Stop, LinkInv, Typed, TypeOK
    <3> QED
      BY <1>a, <3>2
  <2>6. CASE ~(c \in executing /\ task[c] = "running")
    <3>1. task' = task \/ (task[c] = "sent" /\ task' = [task EXCEPT ![c] = "over"])
      BY <1>11, <2>2, <2>6 DEF RecvCancel, LinkInv, Typed, TypeOK
    <3> QED
      BY <2>2, <2>4, <3>1 DEF LinkInv, Typed, TypeOK
  <2> QED
    BY <2>5, <2>6
<1>12. ASSUME NEW c \in Calls, Finish(c) PROVE Promise!Finish(c)
  <2>1. /\ task[c] = "running" /\ task' = [task EXCEPT ![c] = "sent"]
        /\ UNCHANGED <<client, asked>>
    BY <1>12 DEF Finish, Says, Answered, server, ghosts
  <2> QED
    BY <2>1 DEF Promise!Finish, LinkInv, Typed, TypeOK
<1>13. ASSUME NEW c \in Calls, RemoveHandle(c) PROVE UNCHANGED <<Wait, Work, asked>>
  BY <1>13 DEF RemoveHandle, server, ghosts, LinkInv, Typed, TypeOK
<1>14. ASSUME NEW c \in Calls, FinishDetached(c) PROVE Promise!Finish(c)
  BY <1>14 DEF FinishDetached, Promise!Finish, server, ghosts, LinkInv, Typed, TypeOK
<1>15. ASSUME NEW p \in pinged, SayPong(p) PROVE UNCHANGED <<Wait, Work, asked>>
  BY <1>0, <1>15 DEF SayPong, Says, Ponged, server, ghosts
<1>16. CASE Runtime
  BY <1>a, <1>16, <1>8, <1>9, <1>10, <1>11, <1>12, <1>13, <1>14, <1>15 DEF Runtime
<1>17. CASE Reconciler
  BY <1>0, <1>17 DEF Reconciler, Rest, Ping, PingTimeout, Settle, runtime, ghosts
<1>18. CASE Manager
  BY <1>0, <1>18 DEF Manager, Acquire, Probe, ProbeTimeout, Deadline, AcquireFails,
                     Hibernate, runtime, ghosts
<1>19. CASE LoseIn \/ Reconnect \/ ReaderLags
  BY <1>0, <1>19 DEF LoseIn, Reconnect, ReaderLags, Says, Announced, server, runtime, ghosts
<1>20. CASE Disconnect
  BY <1>20 DEF Disconnect, server, LinkInv, Typed, TypeOK
<1>21. CASE Restart
  <2>0. PICK cs \in SUBSET Calls : cs = {c \in Calls : client[c] \in Awaiting}
    OBVIOUS
  <2>1. Promise!Drop(cs)
    BY <1>21, <2>0 DEF Restart, Promise!Drop, runtime, LinkInv, Typed, TypeOK, Awaiting
  <2> QED
    BY <1>a, <2>1
<1>22. CASE UNCHANGED vars
  BY <1>0, <1>22 DEF vars, server, runtime, ghosts
<1> QED
  BY <1>7, <1>16, <1>17, <1>18, <1>19, <1>20, <1>21, <1>22 DEF Next, Faults

\* The link implements RemoteCalls: bus, pump, socket, waiters and reconciler, with
\* every loss, restart and stop between them, never run a call twice, answer it with
\* a result nothing produced, or cut it short while its own agent awaits it unasked.
THEOREM LinkKeepsPromise == Spec => KeepsPromise
<1>1. Init => Promise!Init
  BY DEF Init, Promise!Init, Awaiting
<1>2. Spec => []LinkInv
  BY LinkInvInit, LinkInvNext, PTL DEF Spec
<1> QED
  BY <1>1, <1>2, LinkStep, PTL DEF Spec, KeepsPromise, Promise!Spec

-----------------------------------------------------------------------------
(* The grace of the reconciler: the inductive invariant of a healthy link *)

PingFrame(i) == inq[i].t = "ping" /\ inq[i].id = rec.ping
CallFrame(c, i) == inq[i].t = "call" /\ inq[i].id = c

\* A reconciler in a round, and a waiter, belong to a slot; and the ping of the
\* round is in one place at most.
Slotted == /\ rec.phase # "sleep" \/ pending # {} => slot
           /\ rec.phase = "pinging" =>
                /\ \A i, j \in DOMAIN inq : PingFrame(i) /\ PingFrame(j) => i = j
                /\ rec.ping \in pinged => \A i \in DOMAIN inq : ~PingFrame(i)
           /\ \A c \in Calls : client[c] = "new" => rec.vanished[c] = 0
           /\ faults \in Nat /\ stops \in Nat

\* Without a fault a slot is connected and read, and the ping of a round is still on
\* its way until it is answered.
Connected == /\ slot => up /\ reader
             /\ pinged # {} => up
             /\ rec.phase = "pinging" => Carried(rec.ping)

\* Without a fault no waiter is closed, no call failed, and a task that has sent
\* its reply has no waiter left.
Unfailed == \A c \in Calls : /\ rx[c] # "closed"
                             /\ client[c] # "failed"
                             /\ c \in pending => task[c] # "sent"

\* The grace a call with a waiter has used.  One round may miss it while its frame is
\* still to be published, or published behind the ping.  A ping that follows the
\* frame finds it in the map, unless a cancellation has just taken it out: the
\* reply to that goes out before another ping is taken.
Unpublished(c) ==
    /\ rec.vanished[c] <= 1
    /\ rec.phase # "sleep" => rec.vanished[c] = 0

Sent(c, i) ==
    /\ rec.vanished[c] <= 1
    /\ rec.phase = "answered" => rec.vanished[c] = 0
    /\ rec.phase = "pinging" /\ rec.vanished[c] = 1 =>
         \E j \in DOMAIN inq : i < j /\ PingFrame(j)

Inserting(c) ==
    /\ rec.vanished[c] <= 1
    /\ rec.phase = "answered" => rec.vanished[c] = 0
    /\ rec.phase = "pinging" /\ rec.vanished[c] = 1 => rec.ping \notin pinged

Running(c) ==
    /\ rec.vanished[c] <= 1
    /\ rec.phase = "answered" => rec.vanished[c] = 0 \/ c \in rec.answer

Replying(c) ==
    /\ rec.vanished[c] <= 2
    /\ rec.vanished[c] = 2 => \/ rec.phase = "sleep"
                              \/ rec.phase = "pinging" /\ rec.ping \notin pinged

Grace(c) ==
    /\ client[c] = "registered" => Unpublished(c)
    /\ client[c] = "waiting" =>
         /\ \/ \E i \in DOMAIN inq : CallFrame(c, i)
            \/ loop.at # "recv" /\ loop.id = c
            \/ c \in executing
         /\ \A i \in DOMAIN inq : CallFrame(c, i) => Sent(c, i)
         /\ loop.at = "insert" /\ loop.id = c => Inserting(c)
         /\ c \in executing => Running(c)
         /\ loop.at = "reply" /\ loop.id = c => Replying(c)

HealthInv == /\ LinkInv /\ Slotted
             /\ faults = 0 => Connected /\ Unfailed /\ \A c \in pending : Grace(c)

-----------------------------------------------------------------------------
(* The queue, further *)

\* The places of a queue are numbers from one.
LEMMA QueuePlaces ==
    ASSUME inq \in Seq(Frames)
    PROVE  \A i \in DOMAIN inq : i \in Nat \ {0} /\ inq[i] \in Frames
BY LenProperties, ElementOfSeq

\* What is published goes behind the frames there are, which stay where they are.
LEMMA QueueKeeps ==
    ASSUME NEW fs \in Seq(Frames), inq \in Seq(Frames), inq' = Published(fs)
    PROVE  \A i \in DOMAIN inq : i \in DOMAIN inq' /\ inq'[i] = inq[i]
<1>1. CASE ~up
  BY <1>1 DEF Published
<1>2. CASE up
  <2>1. /\ Len(inq) \in Nat /\ DOMAIN inq = 1..Len(inq) /\ Len(fs) \in Nat
        /\ inq' \in Seq(Frames) /\ Len(inq') = Len(inq) + Len(fs)
        /\ \A i \in 1..Len(inq') : inq'[i] = IF i <= Len(inq) THEN inq[i]
                                                               ELSE fs[i - Len(inq)]
    BY <1>2, LenProperties, ConcatProperties DEF Published
  <2>2. DOMAIN inq' = 1..Len(inq')
    BY <2>1, LenProperties
  <2> QED
    BY <2>1, <2>2
<1> QED
  BY <1>1, <1>2

\* A frame published to a connected runtime is the last of its queue.
LEMMA QueueLast ==
    ASSUME NEW f \in Frames, inq \in Seq(Frames), inq' = Published(<<f>>), up
    PROVE  \E j \in DOMAIN inq' : inq'[j] = f /\ \A i \in DOMAIN inq : i < j
<1>1. /\ Len(inq) \in Nat /\ DOMAIN inq = 1..Len(inq) /\ <<f>> \in Seq(Frames) /\ Len(<<f>>) = 1
  BY LenProperties
<1>2. /\ inq' \in Seq(Frames) /\ Len(inq') = Len(inq) + 1
      /\ inq'[Len(inq) + 1] = <<f>>[1]
  BY <1>1, ConcatProperties DEF Published
<1>3. DOMAIN inq' = 1..Len(inq')
  BY <1>2, LenProperties
<1> QED
  BY <1>1, <1>2, <1>3

\* Every frame but the first is still there, one place nearer.
LEMMA TailKeeps ==
    ASSUME inq \in Seq(Frames), inq # <<>>, inq' = Tail(inq)
    PROVE  \A i \in DOMAIN inq : i # 1 => i - 1 \in DOMAIN inq' /\ inq'[i - 1] = inq[i]
<1>1. /\ Len(inq) \in Nat \ {0} /\ DOMAIN inq = 1..Len(inq)
      /\ Tail(inq) \in Seq(Frames) /\ Len(Tail(inq)) = Len(inq) - 1
      /\ DOMAIN Tail(inq) = 1..Len(Tail(inq))
      /\ \A i \in 1..Len(Tail(inq)) : Tail(inq)[i] = inq[i + 1]
  BY EmptySeq, LenProperties, HeadTailProperties
<1> QED
  BY <1>1

\* A ping is carried when its task is there, or its frame.
LEMMA CarriedBy ==
    ASSUME Typed
    PROVE  /\ Carried(rec.ping) <=> rec.ping \in pinged \/ \E i \in DOMAIN inq : PingFrame(i)
           /\ \A i \in DOMAIN inq : inq[i].t = "ping" => inq[i].id \in InUse
           /\ pinged \subseteq InUse /\ rec.ping \in InUse
<1>1. \A i \in DOMAIN inq : inq[i] = Frame("ping", rec.ping) <=> PingFrame(i)
  BY QueuePlaces DEF Typed, WellFormed, Frame, Frames, PingFrame
<1> QED
  BY <1>1 DEF Carried, InUse

-----------------------------------------------------------------------------
(* The parts that hold with faults too *)

\* The queue loses its first frame, and the ping it may be joins the tasks, or does not.
LEMMA OnePingTail ==
    ASSUME HealthInv, inq # <<>>, inq' = Tail(inq), UNCHANGED rec,
           \/ pinged' = pinged
           \/ Head(inq).t = "ping" /\ pinged' = pinged \cup {Head(inq).id}
    PROVE  rec'.phase = "pinging" =>
             /\ \A i, j \in DOMAIN inq' : PingFrame(i)' /\ PingFrame(j)' => i = j
             /\ rec'.ping \in pinged' => \A i \in DOMAIN inq' : ~PingFrame(i)'
<1>1. inq \in Seq(Frames)
  BY DEF HealthInv, LinkInv, Typed, WellFormed
<1>2. /\ 1 \in DOMAIN inq /\ Head(inq) = inq[1]
      /\ \A i \in DOMAIN inq' : i \in Nat \ {0} /\ i + 1 \in DOMAIN inq /\ inq'[i] = inq[i + 1]
  BY <1>1, QueueTail
<1> QED
  BY <1>2 DEF HealthInv, Slotted, PingFrame

\* The queue gains frames that are not the ping of the round.
LEMMA OnePingMore ==
    ASSUME HealthInv, UNCHANGED <<rec, pinged>>,
           \A i \in DOMAIN inq' : \/ i \in DOMAIN inq /\ inq'[i] = inq[i]
                                  \/ ~PingFrame(i)'
    PROVE  rec'.phase = "pinging" =>
             /\ \A i, j \in DOMAIN inq' : PingFrame(i)' /\ PingFrame(j)' => i = j
             /\ rec'.ping \in pinged' => \A i \in DOMAIN inq' : ~PingFrame(i)'
BY DEF HealthInv, Slotted, PingFrame

\* The caller's steps and the two halves of a stop.
LEMMA SlottedCallers ==
    ASSUME HealthInv, Caller \/ Stops
    PROVE  Slotted'
<1> USE DEF runtime, wire, ghosts
<1>0. inq \in Seq(Frames) /\ faults \in Nat /\ stops \in Nat
  BY DEF HealthInv, LinkInv, Typed, WellFormed, Slotted
<1>1. ASSUME NEW c \in Calls, Invoke(c) PROVE Slotted'
  BY <1>1 DEF Invoke, HealthInv, LinkInv, Typed, TypeOK, Slotted, PingFrame
<1>2. ASSUME NEW c \in Calls, Publish(c) PROVE Slotted'
  <2>1. \A i \in DOMAIN inq' : (i \in DOMAIN inq /\ inq'[i] = inq[i]) \/ inq'[i].t = "call"
    BY <1>0, <1>2, QueueCall DEF Publish
  <2>2. \A i \in DOMAIN inq' : (i \in DOMAIN inq /\ inq'[i] = inq[i]) \/ ~PingFrame(i)'
    BY <2>1 DEF PingFrame
  <2> QED
    BY <1>2, <2>2, OnePingMore DEF Publish, HealthInv, LinkInv, Typed, TypeOK, Slotted
<1>3. ASSUME NEW c \in Calls, PublishFails(c) \/ Resume(c) PROVE Slotted'
  BY <1>3 DEF PublishFails, Resume, Fault, HealthInv, LinkInv, Typed, TypeOK, Slotted, PingFrame
<1>4. ASSUME NEW a \in Agents, CancelInFlight(a) PROVE Slotted'
  <2>1. OfAgent(a) \in SUBSET Calls /\ IsFiniteSet(OfAgent(a))
    BY FS_Subset DEF OfAgent, HealthInv, LinkInv, Typed, TypeOK, WellFormed
  <2>2. \A i \in DOMAIN inq' : (i \in DOMAIN inq /\ inq'[i] = inq[i]) \/ inq'[i].t = "cancel"
    BY <1>0, <1>4, <2>1, QueueCancels DEF CancelInFlight
  <2>3. \A i \in DOMAIN inq' : (i \in DOMAIN inq /\ inq'[i] = inq[i]) \/ ~PingFrame(i)'
    BY <2>2 DEF PingFrame
  <2>4. UNCHANGED <<client, pending, slot, rec, pinged, faults>> /\ stops' = stops + 1
    BY <1>4 DEF CancelInFlight
  <2> QED
    BY <1>0, <2>3, <2>4, OnePingMore DEF HealthInv, Slotted
<1>5. ASSUME NEW a \in Agents, DropRun(a) PROVE Slotted'
  BY <1>5 DEF DropRun, HealthInv, LinkInv, Typed, TypeOK, Slotted, PingFrame
<1> QED
  BY <1>1, <1>2, <1>3, <1>4, <1>5 DEF Caller, Stops

\* The runtime's steps.
LEMMA SlottedRuntime ==
    ASSUME HealthInv, Runtime
    PROVE  Slotted'
<1> USE DEF runtime, wire, ghosts
<1>0. inq \in Seq(Frames) /\ faults \in Nat /\ stops \in Nat
  BY DEF HealthInv, LinkInv, Typed, WellFormed, Slotted
<1>1. ASSUME NEW c \in Calls, NEW how \in {"result", "cancelled", "refused"},
             Says(Answered(c, how))
      PROVE  /\ UNCHANGED <<client, slot, rec>> /\ pending' \subseteq pending
             /\ faults' \in Nat /\ stops' \in Nat
  BY <1>0, <1>1 DEF Says, Answered, Fault, server
<1>2. CASE RecvRefuse
  <2>1. Head(inq).id \in Calls
    BY <1>2, ReceiveType DEF RecvRefuse, Frames, HealthInv, LinkInv, Typed
  <2>2. /\ UNCHANGED <<client, slot, rec>> /\ pending' \subseteq pending
        /\ faults' \in Nat /\ stops' \in Nat
    BY <1>1, <1>2, <2>1 DEF RecvRefuse
  <2> QED
    BY <1>2, <2>2, OnePingTail DEF RecvRefuse, Receive, HealthInv, Slotted
<1>3. CASE RecvCall \/ RecvCancel
  <2>1. UNCHANGED <<client, slot, rec, pending, faults, stops, pinged>>
    BY <1>3 DEF RecvCall, RecvCancel, server
  <2> QED
    BY <1>0, <1>3, <2>1, OnePingTail DEF RecvCall, RecvCancel, Receive, HealthInv, Slotted
<1>4. CASE RecvPing
  <2>1. UNCHANGED <<client, slot, rec, pending, faults, stops>>
    BY <1>4 DEF RecvPing, server
  <2> QED
    BY <1>0, <1>4, <2>1, OnePingTail DEF RecvPing, Receive, HealthInv, Slotted
<1>5. CASE InsertHandle
  BY <1>5 DEF InsertHandle, server, HealthInv, Slotted, PingFrame
<1>6. CASE CancelReply
  <2>1. loop.id \in Calls
    BY <1>6 DEF CancelReply, HealthInv, LinkInv, Typed, WellFormed
  <2>2. /\ UNCHANGED <<client, slot, rec>> /\ pending' \subseteq pending
        /\ faults' \in Nat /\ stops' \in Nat
    BY <1>1, <1>6, <2>1 DEF CancelReply
  <2> QED
    BY <1>6, <2>2 DEF CancelReply, HealthInv, Slotted, PingFrame
<1>7. ASSUME NEW c \in Calls, Finish(c) PROVE Slotted'
  <2>1. /\ UNCHANGED <<client, slot, rec>> /\ pending' \subseteq pending
        /\ faults' \in Nat /\ stops' \in Nat
    BY <1>1, <1>7 DEF Finish
  <2> QED
    BY <1>7, <2>1 DEF Finish, HealthInv, Slotted, PingFrame
<1>8. ASSUME NEW c \in Calls, RemoveHandle(c) \/ FinishDetached(c) PROVE Slotted'
  BY <1>8 DEF RemoveHandle, FinishDetached, server, HealthInv, Slotted, PingFrame
<1>9. ASSUME NEW p \in pinged, SayPong(p) PROVE Slotted'
  <2>1. /\ UNCHANGED <<client, pending, inq>> /\ (slot => slot') /\ pinged' \subseteq pinged
        /\ faults' \in Nat /\ stops' \in Nat
    BY <1>0, <1>9 DEF SayPong, Says, Ponged, Acquired, Fault, server
  <2>2. /\ rec'.vanished = rec.vanished
        /\ rec' = rec \/ (rec.phase = "pinging" /\ rec'.phase = "answered")
    BY <1>9 DEF SayPong, Says, Ponged, server, HealthInv, LinkInv, Typed, TypeOK
  <2> QED
    BY <2>1, <2>2 DEF HealthInv, Slotted, PingFrame
<1> QED
  BY <1>2, <1>3, <1>4, <1>5, <1>6, <1>7, <1>8, <1>9 DEF Runtime

\* A ping goes out under an identity that is nowhere yet.
LEMMA FreshPingAlone ==
    ASSUME Typed, inq' = Published(<<Frame("ping", FreshPing)>>), pinged' = pinged
    PROVE  /\ FreshPing # rec.ping /\ FreshPing \notin pinged'
           /\ \A i \in DOMAIN inq' :
                \/ /\ i \in DOMAIN inq /\ inq'[i] = inq[i]
                   /\ ~(inq[i].t = "ping" /\ inq[i].id = FreshPing)
                \/ /\ i \notin DOMAIN inq /\ i = Len(inq) + 1
                   /\ inq'[i].t = "ping" /\ inq'[i].id = FreshPing
<1> DEFINE f == Frame("ping", FreshPing)
           fs == <<f>>
<1>0. FreshPing \in PingIds /\ FreshPing \notin InUse
  BY FreshPingType
<1>1. f \in Frames /\ f.t = "ping" /\ f.id = FreshPing
  BY <1>0 DEF Frame, Frames
<1>2. inq \in Seq(Frames) /\ inq' = Published(fs)
  BY DEF Typed, WellFormed
<1> HIDE DEF f
<1>3. fs \in Seq(Frames) /\ \A j \in DOMAIN fs : j = 1 /\ fs[j] = f
  BY <1>1
<1> HIDE DEF fs
<1>4. \A i \in DOMAIN inq' :
         \/ i \in DOMAIN inq /\ inq'[i] = inq[i]
         \/ i \notin DOMAIN inq /\ i - Len(inq) \in DOMAIN fs /\ inq'[i] = fs[i - Len(inq)]
  BY <1>2, <1>3, QueueMore
<1>5. Len(inq) \in Nat /\ inq' \in Seq(Frames)
  BY <1>2, <1>3, LenProperties, PublishedType
<1>6. \A i \in DOMAIN inq' : i \in Nat
  BY <1>5, LenProperties
<1>7. \A i \in DOMAIN inq' : i - Len(inq) = 1 => i = Len(inq) + 1
  BY <1>5, <1>6
<1>8. \A i \in DOMAIN inq' :
         \/ i \in DOMAIN inq /\ inq'[i] = inq[i]
         \/ i \notin DOMAIN inq /\ i = Len(inq) + 1 /\ inq'[i] = f
  BY <1>3, <1>4, <1>7
<1> QED
  BY <1>0, <1>1, <1>8, CarriedBy

\* A round of the reconciler.
LEMMA SlottedReconciler ==
    ASSUME HealthInv, Reconciler
    PROVE  Slotted'
<1> USE DEF runtime, wire, ghosts
<1>0. inq \in Seq(Frames) /\ faults \in Nat /\ stops \in Nat /\ Typed
  BY DEF HealthInv, LinkInv, Typed, WellFormed, Slotted
<1>1. CASE Rest
  BY <1>1 DEF Rest, Asleep, Present, HealthInv, Slotted
<1>2. CASE Ping
  <2>1. /\ UNCHANGED <<client, pending, slot, pinged, stops>> /\ slot
        /\ rec'.ping = FreshPing /\ rec'.vanished = rec.vanished /\ faults' \in Nat
        /\ inq' = Published(<<Frame("ping", FreshPing)>>)
    BY <1>0, <1>2 DEF Ping, Fault, Typed, TypeOK
  <2>2. /\ rec'.ping \notin pinged'
        /\ \A i, j \in DOMAIN inq' : PingFrame(i)' /\ PingFrame(j)' => i = j
    BY <1>0, <2>1, FreshPingAlone DEF PingFrame
  <2> QED
    BY <1>0, <2>1, <2>2 DEF HealthInv, Slotted
<1>3. CASE PingTimeout
  BY <1>0, <1>3 DEF PingTimeout, TimesOut, Fault, Abandon, Asleep, Present, HealthInv, Slotted
<1>4. CASE Settle
  <2>1. /\ UNCHANGED <<client, inFlight, slot, stops, faults>> /\ pending' \subseteq pending
        /\ rec'.phase = "sleep"
    BY <1>4 DEF Settle, Abandon, Asleep
  <2>2. \A c \in Calls : c \notin inFlight => rec'.vanished[c] = 0
    BY <1>4 DEF Settle, Asleep
  <2> QED
    BY <1>0, <2>1, <2>2 DEF HealthInv, LinkInv, Unmade, Slotted
<1> QED
  BY <1>1, <1>2, <1>3, <1>4 DEF Reconciler

\* Acquiring a runtime and letting it go.
LEMMA SlottedManager ==
    ASSUME HealthInv, Manager
    PROVE  Slotted'
<1> USE DEF runtime, wire, ghosts
<1>0. inq \in Seq(Frames) /\ faults \in Nat /\ stops \in Nat /\ Typed
  BY DEF HealthInv, LinkInv, Typed, WellFormed, Slotted
<1>1. CASE Acquire \/ Deadline \/ ProbeTimeout \/ AcquireFails
  BY <1>0, <1>1 DEF Acquire, Deadline, ProbeTimeout, TimesOut, AcquireFails, Fault, HealthInv,
                    Slotted, PingFrame
<1>2. CASE Probe
  <2>1. \A i \in DOMAIN inq' : (i \in DOMAIN inq /\ inq'[i] = inq[i]) \/ ~PingFrame(i)'
    BY <1>0, <1>2, FreshPingAlone DEF Probe, PingFrame
  <2> QED
    BY <1>0, <1>2, <2>1, OnePingMore DEF Probe, HealthInv, Slotted
<1>3. CASE Hibernate
  BY <1>3 DEF Hibernate, Asleep, Present, HealthInv, Slotted
<1> QED
  BY <1>1, <1>2, <1>3 DEF Manager

\* Losses, lags, disconnections and restarts.
LEMMA SlottedFaults ==
    ASSUME HealthInv, Faults
    PROVE  Slotted'
<1> USE DEF runtime, wire, ghosts
<1>0. inq \in Seq(Frames) /\ faults \in Nat /\ stops \in Nat
  BY DEF HealthInv, LinkInv, Typed, WellFormed, Slotted
<1>1. CASE LoseIn
  BY <1>0, <1>1, OnePingTail DEF LoseIn, Fault, server, HealthInv, Slotted
<1>2. CASE Disconnect
  BY <1>0, <1>2 DEF Disconnect, Fault, server, HealthInv, Slotted
<1>3. CASE Reconnect
  <2>1. /\ UNCHANGED <<client, pending, rec, inq, pinged>> /\ (slot => slot')
        /\ faults' \in Nat /\ stops' \in Nat
    BY <1>0, <1>3 DEF Reconnect, Says, Announced, Acquired, Fault, server
  <2> QED
    BY <2>1 DEF HealthInv, Slotted, PingFrame
<1>4. CASE ReaderLags
  BY <1>0, <1>4 DEF ReaderLags, Fault, HealthInv, Slotted, PingFrame
<1>5. CASE Restart
  BY <1>0, <1>5 DEF Restart, Fault, Asleep, Present, HealthInv, Slotted
<1> QED
  BY <1>1, <1>2, <1>3, <1>4, <1>5 DEF Faults

-----------------------------------------------------------------------------
(* The parts that hold until the first fault *)

Healthy == Connected /\ Unfailed /\ \A c \in pending : Grace(c)

\* What an unharmed link knows.
LEMMA HealthFacts ==
    ASSUME HealthInv, faults = 0
    PROVE  /\ Typed /\ inq \in Seq(Frames) /\ Connected /\ Unfailed
           /\ pending \subseteq Calls
           /\ \A c \in pending : Grace(c)
           /\ \A c \in Calls : rec.vanished[c] \in Nat
           /\ pending # {} \/ rec.phase # "sleep" => slot /\ up /\ reader
BY DEF HealthInv, LinkInv, Typed, TypeOK, WellFormed, Slotted, Connected

\* A step that only adds frames, none of them a call's own, leaves its grace.
LEMMA GraceKept ==
    ASSUME HealthInv, NEW c \in Calls, Grace(c),
           UNCHANGED <<rec, pinged, loop>>,
           \A i \in DOMAIN inq : i \in DOMAIN inq' /\ inq'[i] = inq[i],
           \A i \in DOMAIN inq' : (i \in DOMAIN inq /\ inq'[i] = inq[i]) \/ ~CallFrame(c, i)',
           c \in executing' <=> c \in executing,
           client'[c] = client[c] \/ client'[c] \notin Awaiting
    PROVE  Grace(c)'
<1>1. CASE client'[c] \notin Awaiting
  BY <1>1 DEF Grace, Awaiting
<1>2. CASE client'[c] = client[c]
  BY <1>2 DEF Grace, Unpublished, Sent, Inserting, Running, Replying, CallFrame, PingFrame
<1> QED
  BY <1>1, <1>2

\* A step that takes the first frame, not a call's own, while the loop has nothing
\* else in hand, leaves its grace.
LEMMA GraceTail ==
    ASSUME HealthInv, NEW c \in Calls, Grace(c), loop = Idle,
           inq # <<>>, inq' = Tail(inq), ~CallFrame(c, 1),
           UNCHANGED rec,
           loop'.id = c => loop'.at = "recv",
           c \in executing' <=> c \in executing,
           client'[c] = client[c]
    PROVE  Grace(c)'
<1>1. inq \in Seq(Frames)
  BY DEF HealthInv, LinkInv, Typed, WellFormed
<1>2. \A i \in DOMAIN inq' : i \in Nat \ {0} /\ i + 1 \in DOMAIN inq /\ inq'[i] = inq[i + 1]
  BY <1>1, QueueTail
<1>3. \A i \in DOMAIN inq : i # 1 => i - 1 \in DOMAIN inq' /\ inq'[i - 1] = inq[i]
  BY <1>1, TailKeeps
<1>4. \A i \in DOMAIN inq : i \in Nat \ {0}
  BY <1>1, QueuePlaces
<1>5. client'[c] = "registered" => Unpublished(c)'
  BY DEF Grace, Unpublished
<1>6. ASSUME client'[c] = "waiting" PROVE Grace(c)'
  <2>1. (\E i \in DOMAIN inq : CallFrame(c, i)) \/ c \in executing
    BY <1>6 DEF Grace, Idle
  <2>2. (\E i \in DOMAIN inq' : CallFrame(c, i)') \/ c \in executing'
    BY <1>3, <2>1 DEF CallFrame
  <2>3. ASSUME NEW i \in DOMAIN inq', CallFrame(c, i)' PROVE Sent(c, i)'
    <3>1. i + 1 \in DOMAIN inq /\ CallFrame(c, i + 1)
      BY <1>2, <2>3 DEF CallFrame
    <3>2. Sent(c, i + 1)
      BY <1>6, <3>1 DEF Grace
    <3>3. ASSUME rec.phase = "pinging", rec.vanished[c] = 1
          PROVE  \E j \in DOMAIN inq' : i < j /\ PingFrame(j)'
      <4>1. PICK j \in DOMAIN inq : i + 1 < j /\ PingFrame(j)
        BY <3>2, <3>3 DEF Sent
      <4>2. j - 1 \in DOMAIN inq' /\ inq'[j - 1] = inq[j] /\ i < j - 1
        BY <1>2, <1>3, <1>4, <4>1
      <4> QED
        BY <4>1, <4>2 DEF PingFrame
    <3> QED
      BY <3>2, <3>3 DEF Sent
  <2>4. c \in executing' => Running(c)'
    BY <1>6 DEF Grace, Running
  <2> QED
    BY <1>6, <2>2, <2>3, <2>4 DEF Grace
<1> QED
  BY <1>5, <1>6 DEF Grace

\* The ping of a round stays on its way when frames are added.
LEMMA CarriedKept ==
    ASSUME Typed, Typed', Carried(rec.ping), UNCHANGED <<rec, pinged>>,
           \A i \in DOMAIN inq : i \in DOMAIN inq' /\ inq'[i] = inq[i]
    PROVE  Carried(rec.ping)'
BY DEF Carried

\* The caller's steps.
LEMMA HealthyCaller ==
    ASSUME HealthInv, Typed', faults = 0, faults' = 0, Caller
    PROVE  Healthy'
<1> USE DEF runtime, wire, ghosts
<1>0. /\ Typed /\ inq \in Seq(Frames) /\ Connected /\ Unfailed
      /\ pending \subseteq Calls
      /\ \A c \in pending : Grace(c)
      /\ \A c \in Calls : rec.vanished[c] \in Nat
      /\ pending # {} \/ rec.phase # "sleep" => slot /\ up /\ reader
  BY HealthFacts
<1>1. ASSUME NEW c \in Calls, Invoke(c) PROVE Healthy'
  <2>1. Connected'
    BY <1>0, <1>1 DEF Invoke, Connected, Carried
  <2>2. task[c] = "none" /\ rec.vanished[c] = 0
    BY <1>1 DEF Invoke, HealthInv, LinkInv, Unmade, Slotted
  <2>3. Unfailed'
    BY <1>0, <1>1, <2>2 DEF Invoke, Unfailed, Typed, TypeOK
  <2>4. Grace(c)'
    BY <1>1, <2>2 DEF Invoke, Grace, Unpublished, Typed, TypeOK
  <2>5. ASSUME NEW d \in pending, d # c PROVE Grace(d)'
    BY <1>0, <1>1, <2>5, GraceKept DEF Invoke, Typed, TypeOK, CallFrame
  <2> QED
    BY <1>1, <2>1, <2>3, <2>4, <2>5 DEF Invoke, Healthy
<1>2. ASSUME NEW c \in Calls, Publish(c) PROVE Healthy'
  <2>1. /\ client[c] = "registered" /\ client' = [client EXCEPT ![c] = "waiting"]
        /\ inq' = Published(<<Frame("call", c)>>)
        /\ UNCHANGED <<pending, rx, slot, reader, rec, loop, task, executing, pinged, up>>
    BY <1>2 DEF Publish
  <2>2. Frame("call", c) \in Frames /\ <<Frame("call", c)>> \in Seq(Frames)
    BY DEF Frame, Frames
  <2>3. \A i \in DOMAIN inq : i \in DOMAIN inq' /\ inq'[i] = inq[i]
    BY <1>0, <2>1, <2>2, QueueKeeps
  <2>4. \A i \in DOMAIN inq' : \/ i \in DOMAIN inq /\ inq'[i] = inq[i]
                               \/ inq'[i].t = "call" /\ inq'[i].id = c
    BY <1>0, <2>1, QueueCall
  <2>5. Connected'
    BY <1>0, <2>1, <2>3, CarriedKept DEF Connected
  <2>6. Unfailed'
    BY <1>0, <2>1 DEF Unfailed, Typed, TypeOK
  <2>7. ASSUME c \in pending PROVE Grace(c)'
    <3>1. Unpublished(c) /\ up
      BY <1>0, <2>1, <2>7 DEF Grace
    <3>2. \E j \in DOMAIN inq' : CallFrame(c, j)'
      BY <1>0, <2>1, <2>2, <3>1, QueueLast DEF CallFrame, Frame
    <3>3. task[c] = "none"
      BY <2>1 DEF HealthInv, LinkInv, Unsent
    <3>4. ~(loop.at = "insert" /\ loop.id = c) /\ c \notin executing
      BY <3>3 DEF HealthInv, LinkInv, Started
    <3>5. client'[c] = "waiting"
      BY <1>0, <2>1 DEF Typed, TypeOK
    <3>6. rec.vanished[c] \in Nat
      BY <1>0
    <3> QED
      BY <2>1, <3>1, <3>2, <3>4, <3>5, <3>6 DEF Grace, Unpublished, Sent, Replying
  <2>8. ASSUME NEW d \in pending, d # c PROVE Grace(d)'
    <3>1. d \in Calls /\ client'[d] = client[d] /\ Grace(d)
      BY <1>0, <2>1, <2>8 DEF Typed, TypeOK
    <3>2. \A i \in DOMAIN inq' : (i \in DOMAIN inq /\ inq'[i] = inq[i]) \/ ~CallFrame(d, i)'
      BY <2>4, <2>8 DEF CallFrame
    <3> QED
      BY <2>1, <2>3, <3>1, <3>2, GraceKept
  <2> QED
    BY <2>1, <2>5, <2>6, <2>7, <2>8 DEF Healthy
<1>3. ASSUME NEW c \in Calls, PublishFails(c) PROVE FALSE
  BY <1>3 DEF PublishFails, Fault
<1>4. ASSUME NEW c \in Calls, Resume(c) PROVE Healthy'
  <2>1. /\ UNCHANGED <<pending, slot, reader, rec, loop, task, executing, pinged, up, inq>>
        /\ rx' = [rx EXCEPT ![c] = "empty"] /\ rx[c] # "closed"
        /\ client' = [client EXCEPT ![c] = rx[c]] /\ rx[c] \notin Awaiting \cup {"failed"}
    BY <1>0, <1>4 DEF Resume, Unfailed, Typed, TypeOK, Awaiting
  <2>2. Connected' /\ Unfailed'
    BY <1>0, <2>1 DEF Connected, Carried, Unfailed, Typed, TypeOK
  <2>3. ASSUME NEW d \in pending PROVE Grace(d)'
    <3>1. client'[d] = client[d] \/ client'[d] \notin Awaiting
      BY <1>0, <2>1 DEF Typed, TypeOK
    <3> QED
      BY <1>0, <2>1, <3>1, GraceKept
  <2> QED
    BY <2>1, <2>2, <2>3 DEF Healthy
<1> QED
  BY <1>1, <1>2, <1>3, <1>4 DEF Caller

\* The two halves of a stop.
LEMMA HealthyStops ==
    ASSUME HealthInv, Typed', faults = 0, faults' = 0, Stops
    PROVE  Healthy'
<1> USE DEF runtime, wire, ghosts
<1>0. /\ Typed /\ inq \in Seq(Frames) /\ Connected /\ Unfailed
      /\ pending \subseteq Calls
      /\ \A c \in pending : Grace(c)
      /\ \A c \in Calls : rec.vanished[c] \in Nat
      /\ pending # {} \/ rec.phase # "sleep" => slot /\ up /\ reader
  BY HealthFacts
<1>1. ASSUME NEW a \in Agents, CancelInFlight(a) PROVE Healthy'
  <2>1. /\ UNCHANGED <<client, pending, rx, slot, reader, rec, loop, task, executing, pinged, up>>
        /\ inq' = Published(SetToSeq({Frame("cancel", c) : c \in OfAgent(a)}))
    BY <1>1 DEF CancelInFlight
  <2>2. OfAgent(a) \in SUBSET Calls /\ IsFiniteSet(OfAgent(a))
    BY <1>0, FS_Subset DEF OfAgent, Typed, TypeOK, WellFormed
  <2>3. \A i \in DOMAIN inq : i \in DOMAIN inq' /\ inq'[i] = inq[i]
    BY <1>0, <2>1, <2>2, CancelsType, QueueKeeps
  <2>4. \A i \in DOMAIN inq' : (i \in DOMAIN inq /\ inq'[i] = inq[i]) \/ inq'[i].t = "cancel"
    BY <1>0, <2>1, <2>2, QueueCancels
  <2>5. Connected' /\ Unfailed'
    BY <1>0, <2>1, <2>3, CarriedKept DEF Connected, Unfailed
  <2>6. ASSUME NEW d \in pending PROVE Grace(d)'
    <3>1. \A i \in DOMAIN inq' : (i \in DOMAIN inq /\ inq'[i] = inq[i]) \/ ~CallFrame(d, i)'
      BY <2>4 DEF CallFrame
    <3> QED
      BY <1>0, <2>1, <2>3, <3>1, GraceKept
  <2> QED
    BY <2>1, <2>5, <2>6 DEF Healthy
<1>2. ASSUME NEW a \in Agents, DropRun(a) PROVE Healthy'
  <2>1. /\ UNCHANGED <<pending, slot, reader, rec, loop, task, executing, pinged, up, inq>>
        /\ \A c \in Calls : /\ client'[c] \in {client[c], "dropped"}
                            /\ rx'[c] \in {rx[c], "empty"}
    BY <1>2 DEF DropRun
  <2>2. Connected' /\ Unfailed'
    BY <1>0, <2>1 DEF Connected, Carried, Unfailed
  <2>3. ASSUME NEW d \in pending PROVE Grace(d)'
    <3>1. client'[d] = client[d] \/ client'[d] \notin Awaiting
      BY <1>0, <2>1 DEF Awaiting
    <3> QED
      BY <1>0, <2>1, <3>1, GraceKept
  <2> QED
    BY <2>1, <2>2, <2>3 DEF Healthy
<1> QED
  BY <1>1, <1>2 DEF Stops

\* A reply that is not lost takes the waiter of its call.
LEMMA HealthySays ==
    ASSUME HealthInv, faults = 0, faults' = 0, NEW c \in Calls,
           NEW how \in {"result", "cancelled", "refused"}, Says(Answered(c, how))
    PROVE  /\ UNCHANGED <<client, slot, reader, rec>>
           /\ pending' = pending \ {c}
           /\ \A d \in Calls : rx[d] # "closed" => rx'[d] # "closed"
<1>1. Answered(c, how)
  BY DEF Says, Fault
<1>2. c \in pending => reader
  BY HealthFacts
<1> QED
  BY <1>1, <1>2 DEF Answered, HealthInv, LinkInv, Typed, TypeOK

\* Taking the first frame leaves a slot connected, unless it was the ping.
LEMMA ConnectedTail ==
    ASSUME HealthInv, faults = 0, Typed', inq # <<>>, inq' = Tail(inq), up,
           UNCHANGED <<slot, reader, rec, up>>,
           \/ pinged' = pinged /\ Head(inq).t # "ping"
           \/ pinged' = pinged \cup {Head(inq).id}
    PROVE  Connected'
<1>1. Connected /\ Typed /\ inq \in Seq(Frames)
  BY HealthFacts
<1>2. /\ 1 \in DOMAIN inq /\ Head(inq) = inq[1]
      /\ \A i \in DOMAIN inq : i # 1 => i - 1 \in DOMAIN inq' /\ inq'[i - 1] = inq[i]
  BY <1>1, QueueTail, TailKeeps
<1>3. rec.phase = "pinging" => rec.ping \in pinged \/ \E i \in DOMAIN inq : PingFrame(i)
  BY <1>1, CarriedBy DEF Connected
<1>4. Carried(rec.ping)' <=> rec'.ping \in pinged' \/ \E i \in DOMAIN inq' : PingFrame(i)'
  <2>1. inq' \in Seq(Frames)
    BY DEF Typed, WellFormed
  <2>2. \A i \in DOMAIN inq' : inq'[i] \in Frames
    BY <2>1, LenProperties, ElementOfSeq
  <2>3. \A i \in DOMAIN inq' : inq'[i] = Frame("ping", rec'.ping) <=> PingFrame(i)'
    BY <2>2 DEF Frame, Frames, PingFrame
  <2> QED
    BY <2>3 DEF Carried
<1>5. rec.phase = "pinging" => Carried(rec.ping)'
  BY <1>2, <1>3, <1>4 DEF PingFrame
<1> QED
  BY <1>1, <1>5 DEF Connected

\* The frames the loop takes.
LEMMA HealthyReceives ==
    ASSUME HealthInv, Typed', faults = 0, faults' = 0,
           RecvRefuse \/ RecvCall \/ RecvCancel \/ RecvPing
    PROVE  Healthy'
<1> USE DEF runtime, wire, ghosts
<1>0. /\ Typed /\ inq \in Seq(Frames) /\ Connected /\ Unfailed
      /\ pending \subseteq Calls
      /\ \A c \in pending : Grace(c)
      /\ \A c \in Calls : rec.vanished[c] \in Nat
      /\ pending # {} \/ rec.phase # "sleep" => slot /\ up /\ reader
  BY HealthFacts
<1>1. /\ inq # <<>> /\ inq' = Tail(inq) /\ up /\ up' = up /\ loop = Idle
      /\ 1 \in DOMAIN inq /\ Head(inq) = inq[1]
  BY <1>0, QueueTail DEF RecvRefuse, RecvCall, RecvCancel, RecvPing, Receive
<1>2. CASE RecvRefuse
  <2>1. inq[1].id \in Calls /\ inq[1].t = "call"
    BY <1>0, <1>1, <1>2, ReceiveType DEF RecvRefuse, Frames, Typed
  <2>2. /\ UNCHANGED <<client, slot, reader, rec, loop, task, executing, pinged>>
        /\ pending' = pending \ {inq[1].id}
        /\ \A d \in Calls : rx[d] # "closed" => rx'[d] # "closed"
    BY <1>1, <1>2, <2>1, HealthySays DEF RecvRefuse
  <2>3. Connected'
    BY <1>1, <2>1, <2>2, ConnectedTail
  <2>4. Unfailed'
    BY <1>0, <2>2 DEF Unfailed
  <2>5. ASSUME NEW d \in pending' PROVE Grace(d)'
    <3>1. d \in pending /\ d \in Calls /\ ~CallFrame(d, 1)
      BY <1>0, <2>2 DEF CallFrame
    <3> QED
      BY <1>0, <1>1, <2>2, <3>1, GraceTail DEF Idle
  <2> QED
    BY <2>3, <2>4, <2>5 DEF Healthy
<1>3. CASE RecvCall
  <2>1. PICK c \in Calls : c = inq[1].id /\ inq[1].t = "call"
    BY <1>0, <1>1, <1>3, ReceiveType DEF RecvCall, Frames, Typed
  <2>2. /\ UNCHANGED <<client, pending, rx, slot, reader, rec, executing, pinged>>
        /\ task' = [task EXCEPT ![c] = "running"] /\ loop' = [at |-> "insert", id |-> c]
    BY <1>1, <1>3, <2>1 DEF RecvCall, server
  <2>3. Connected'
    BY <1>1, <2>1, <2>2, ConnectedTail
  <2>4. Unfailed'
    BY <1>0, <2>2 DEF Unfailed, Typed, TypeOK
  <2>5. ASSUME NEW d \in pending, d # c PROVE Grace(d)'
    <3>1. d \in Calls /\ ~CallFrame(d, 1)
      BY <1>0, <2>1, <2>5 DEF CallFrame
    <3> QED
      BY <1>0, <1>1, <2>2, <2>5, <3>1, GraceTail
  <2>6. ASSUME c \in pending PROVE Grace(c)'
    <3>1. CallFrame(c, 1) /\ task[c] = "none" /\ client[c] \notin {"new", "registered"}
      BY <1>1, <2>1 DEF CallFrame, HealthInv, LinkInv, CallFrames
    <3>2. c \notin executing
      BY <3>1 DEF HealthInv, LinkInv, Started
    <3>3. \A i \in DOMAIN inq' : ~CallFrame(c, i)'
      <4>1. \A i \in DOMAIN inq' : i \in Nat \ {0} /\ i + 1 \in DOMAIN inq /\ inq'[i] = inq[i + 1]
        BY <1>0, <1>1, QueueTail
      <4> QED
        BY <1>1, <3>1, <4>1 DEF CallFrame, HealthInv, LinkInv, CallFrames
    <3>4. client[c] = "waiting" => Sent(c, 1)
      BY <1>0, <1>1, <2>6, <3>1 DEF Grace
    <3>5. rec.phase = "pinging" /\ (\E j \in DOMAIN inq : PingFrame(j)) => rec.ping \notin pinged
      BY DEF HealthInv, Slotted
    <3>6. client[c] = "waiting" => Inserting(c)
      BY <3>4, <3>5 DEF Sent, Inserting
    <3> QED
      BY <2>2, <3>1, <3>2, <3>3, <3>6 DEF Grace, Inserting
  <2> QED
    BY <2>2, <2>3, <2>4, <2>5, <2>6 DEF Healthy
<1>4. CASE RecvCancel
  <2>1. PICK c \in Calls : c = inq[1].id /\ inq[1].t = "cancel"
    BY <1>0, <1>1, <1>4, ReceiveType DEF RecvCancel, Frames, Typed
  <2>2. /\ UNCHANGED <<client, pending, rx, slot, reader, rec, pinged>>
        /\ executing' = executing \ {c} /\ loop' = [at |-> "reply", id |-> c]
        /\ \A d \in Calls : task'[d] = "sent" => task[d] = "sent"
    BY <1>0, <1>1, <1>4, <2>1 DEF RecvCancel, server, Typed, TypeOK
  <2>3. Connected'
    BY <1>1, <2>1, <2>2, ConnectedTail
  <2>4. Unfailed'
    BY <1>0, <2>2 DEF Unfailed
  <2>5. ASSUME NEW d \in pending, d # c PROVE Grace(d)'
    <3>1. d \in Calls /\ ~CallFrame(d, 1)
      BY <1>0, <2>1, <2>5 DEF CallFrame
    <3> QED
      BY <1>0, <1>1, <2>2, <2>5, <3>1, GraceTail
  <2>6. ASSUME c \in pending PROVE Grace(c)'
    <3>1. CASE client[c] = "waiting"
      <4>1. (\E i \in DOMAIN inq : CallFrame(c, i)) \/ c \in executing
        BY <1>0, <1>1, <2>6, <3>1 DEF Grace, Idle
      <4>2. rec.vanished[c] <= 1
        BY <1>0, <2>6, <3>1, <4>1 DEF Grace, Sent, Running
      <4>3. ASSUME NEW i \in DOMAIN inq', CallFrame(c, i)' PROVE Sent(c, i)'
        <5>1. /\ \A k \in DOMAIN inq : k \in Nat \ {0}
              /\ \A k \in DOMAIN inq : k # 1 => k - 1 \in DOMAIN inq' /\ inq'[k - 1] = inq[k]
          BY <1>0, <1>1, QueuePlaces, TailKeeps
        <5>2. i \in Nat \ {0} /\ i + 1 \in DOMAIN inq /\ inq'[i] = inq[i + 1]
          BY <1>0, <1>1, QueueTail
        <5>3. Sent(c, i + 1)
          BY <1>0, <2>6, <3>1, <4>3, <5>2 DEF Grace, CallFrame
        <5>4. ASSUME rec.phase = "pinging", rec.vanished[c] = 1
              PROVE  \E j \in DOMAIN inq' : i < j /\ PingFrame(j)'
          <6>1. PICK j \in DOMAIN inq : i + 1 < j /\ PingFrame(j)
            BY <5>3, <5>4 DEF Sent
          <6>2. j - 1 \in DOMAIN inq' /\ inq'[j - 1] = inq[j] /\ i < j - 1
            BY <5>1, <5>2, <6>1
          <6> QED
            BY <2>2, <6>1, <6>2 DEF PingFrame
        <5> QED
          BY <2>2, <5>3, <5>4 DEF Sent
      <4>4. rec.vanished[c] \in Nat
        BY <1>0
      <4> QED
        BY <2>2, <3>1, <4>2, <4>3, <4>4 DEF Grace, Replying
    <3>2. CASE client[c] # "waiting"
      BY <1>0, <2>2, <2>6, <3>2 DEF Grace, Unpublished
    <3> QED
      BY <3>1, <3>2
  <2> QED
    BY <2>2, <2>3, <2>4, <2>5, <2>6 DEF Healthy
<1>5. CASE RecvPing
  <2>1. /\ UNCHANGED <<client, pending, rx, slot, reader, rec, loop, task, executing>>
        /\ pinged' = pinged \cup {Head(inq).id} /\ inq[1].t = "ping"
    BY <1>1, <1>5 DEF RecvPing, Receive, server
  <2>2. Connected'
    BY <1>1, <2>1, ConnectedTail
  <2>3. Unfailed'
    BY <1>0, <2>1 DEF Unfailed
  <2>4. ASSUME NEW d \in pending PROVE Grace(d)'
    <3>1. d \in Calls /\ ~CallFrame(d, 1)
      BY <1>0, <2>1 DEF CallFrame
    <3> QED
      BY <1>0, <1>1, <2>1, <3>1, GraceTail DEF Idle
  <2> QED
    BY <2>1, <2>2, <2>3, <2>4 DEF Healthy
<1> QED
  BY <1>2, <1>3, <1>4, <1>5

\* The rest of what the loop and the tasks of calls do.
LEMMA HealthyTasks ==
    ASSUME HealthInv, Typed', faults = 0, faults' = 0,
           \/ InsertHandle \/ CancelReply
           \/ \E c \in Calls : Finish(c) \/ RemoveHandle(c) \/ FinishDetached(c)
    PROVE  Healthy'
<1> USE DEF runtime, wire, ghosts
<1>0. /\ Typed /\ inq \in Seq(Frames) /\ Connected /\ Unfailed
      /\ pending \subseteq Calls
      /\ \A c \in pending : Grace(c)
      /\ \A c \in Calls : rec.vanished[c] \in Nat
      /\ pending # {} \/ rec.phase # "sleep" => slot /\ up /\ reader
  BY HealthFacts
<1>1. CASE InsertHandle
  <2>1. PICK c \in Calls : c = loop.id
    BY <1>0, <1>1 DEF InsertHandle, Typed, WellFormed
  <2>2. /\ UNCHANGED <<client, pending, rx, slot, reader, rec, task, pinged, up, inq>>
        /\ executing' = executing \cup {c} /\ loop.at = "insert" /\ loop'.at = "recv"
    BY <1>1, <2>1 DEF InsertHandle, server, Idle
  <2>3. Connected' /\ Unfailed'
    BY <1>0, <2>2 DEF Connected, Carried, Unfailed
  <2>4. ASSUME NEW d \in pending PROVE Grace(d)'
    BY <1>0, <2>1, <2>2 DEF Grace, Unpublished, Sent, Inserting, Running, CallFrame, PingFrame
  <2> QED
    BY <2>2, <2>3, <2>4 DEF Healthy
<1>2. CASE CancelReply
  <2>1. PICK c \in Calls : c = loop.id
    BY <1>0, <1>2 DEF CancelReply, Typed, WellFormed
  <2>2. /\ UNCHANGED <<client, slot, reader, rec, task, executing, pinged, up, inq>>
        /\ pending' = pending \ {c}
        /\ \A d \in Calls : rx[d] # "closed" => rx'[d] # "closed"
    BY <1>2, <2>1, HealthySays DEF CancelReply
  <2>3. Connected' /\ Unfailed'
    BY <1>0, <2>2 DEF Connected, Carried, Unfailed
  <2>4. loop'.at = "recv"
    BY <1>2 DEF CancelReply, Idle
  <2>5. ASSUME NEW d \in pending, d # c PROVE Grace(d)'
    BY <1>0, <2>1, <2>2, <2>4, <2>5
       DEF Grace, Unpublished, Sent, Running, CallFrame, PingFrame
  <2> QED
    BY <2>2, <2>3, <2>5 DEF Healthy
<1>3. ASSUME NEW c \in Calls, Finish(c) PROVE Healthy'
  <2>1. /\ UNCHANGED <<client, slot, reader, rec, loop, executing, pinged, up, inq>>
        /\ task' = [task EXCEPT ![c] = "sent"] /\ pending' = pending \ {c}
        /\ \A d \in Calls : rx[d] # "closed" => rx'[d] # "closed"
    BY <1>3, HealthySays DEF Finish
  <2>2. Connected' /\ Unfailed'
    BY <1>0, <2>1 DEF Connected, Carried, Unfailed, Typed, TypeOK
  <2>3. ASSUME NEW d \in pending' PROVE Grace(d)'
    BY <1>0, <2>1, GraceKept
  <2> QED
    BY <2>2, <2>3 DEF Healthy
<1>4. ASSUME NEW c \in Calls, RemoveHandle(c) \/ FinishDetached(c) PROVE Healthy'
  <2>1. /\ UNCHANGED <<client, pending, rx, slot, reader, rec, loop, pinged, up, inq>>
        /\ task' = [task EXCEPT ![c] = "over"]
        /\ executing' = executing \/ (executing' = executing \ {c} /\ task[c] = "sent")
    BY <1>4 DEF RemoveHandle, FinishDetached, server
  <2>2. Connected' /\ Unfailed'
    BY <1>0, <2>1 DEF Connected, Carried, Unfailed, Typed, TypeOK
  <2>3. ASSUME NEW d \in pending PROVE Grace(d)'
    <3>1. d \in Calls /\ (d \in executing' <=> d \in executing)
      BY <1>0, <2>1 DEF Unfailed
    <3> QED
      BY <1>0, <2>1, <3>1, GraceKept
  <2> QED
    BY <2>1, <2>2, <2>3 DEF Healthy
<1> QED
  BY <1>1, <1>2, <1>3, <1>4

\* A pong.
LEMMA HealthyPong ==
    ASSUME HealthInv, Typed', faults = 0, faults' = 0, NEW p \in pinged, SayPong(p)
    PROVE  Healthy'
<1> USE DEF runtime, wire, ghosts
<1>0. /\ Typed /\ inq \in Seq(Frames) /\ Connected /\ Unfailed
      /\ pending \subseteq Calls
      /\ \A c \in pending : Grace(c)
      /\ \A c \in Calls : rec.vanished[c] \in Nat
      /\ pending # {} \/ rec.phase # "sleep" => slot /\ up /\ reader
  BY HealthFacts
<1>1. /\ Ponged(p, executing) /\ pinged' = pinged \ {p} /\ up
      /\ UNCHANGED <<client, pending, rx, loop, task, executing, up, inq>>
  BY <1>0 DEF SayPong, Says, Fault, Ponged, Connected
<1>2. (slot' = slot /\ reader' = reader) \/ (slot' /\ reader')
  BY <1>1 DEF Ponged, Acquired
<1>3. Unfailed'
  BY <1>0, <1>1 DEF Unfailed
<1>4. CASE rec.phase = "pinging" /\ rec.ping = p
  <2>1. /\ rec'.phase = "answered" /\ rec'.answer = executing
        /\ rec'.vanished = rec.vanished
    BY <1>0, <1>1, <1>4 DEF Ponged, Typed, TypeOK
  <2>2. \A i \in DOMAIN inq : ~PingFrame(i)
    BY <1>4 DEF HealthInv, Slotted
  <2>3. Connected'
    BY <1>0, <1>1, <1>2, <2>1 DEF Connected
  <2>4. ASSUME NEW d \in pending PROVE Grace(d)'
    <3>1. rec.vanished[d] \in Nat /\ Grace(d)
      BY <1>0
    <3>2. client[d] = "registered" => Unpublished(d)'
      BY <1>1, <1>4, <2>1, <3>1 DEF Grace, Unpublished
    <3>3. ASSUME client[d] = "waiting", NEW i \in DOMAIN inq, CallFrame(d, i) PROVE Sent(d, i)'
      <4>1. rec.vanished[d] = 0
        BY <1>4, <2>2, <3>1, <3>3 DEF Grace, Sent
      <4> QED
        BY <2>1, <4>1 DEF Sent
    <3>4. ASSUME client[d] = "waiting", loop.at = "insert", loop.id = d PROVE Inserting(d)'
      BY <1>4, <2>1, <3>1, <3>4 DEF Grace, Inserting
    <3>5. ASSUME client[d] = "waiting", d \in executing PROVE Running(d)'
      BY <1>4, <2>1, <3>1, <3>5 DEF Grace, Running
    <3>6. ASSUME client[d] = "waiting", loop.at = "reply", loop.id = d PROVE Replying(d)'
      BY <1>4, <2>1, <3>1, <3>6 DEF Grace, Replying
    <3> QED
      BY <1>1, <3>1, <3>2, <3>3, <3>4, <3>5, <3>6 DEF Grace, CallFrame
  <2> QED
    BY <1>1, <1>3, <2>3, <2>4 DEF Healthy
<1>5. CASE ~(rec.phase = "pinging" /\ rec.ping = p)
  <2>1. rec' = rec
    BY <1>1, <1>5 DEF Ponged
  <2>2. Connected'
    BY <1>0, <1>1, <1>2, <1>5, <2>1 DEF Connected, Carried
  <2>3. ASSUME NEW d \in pending PROVE Grace(d)'
    BY <1>0, <1>1, <2>1 DEF Grace, Unpublished, Sent, Inserting, Running, Replying, CallFrame,
                            PingFrame
  <2> QED
    BY <1>1, <1>3, <2>2, <2>3 DEF Healthy
<1> QED
  BY <1>4, <1>5

\* A round of the reconciler: no ping runs out, and no call has used up its grace.
LEMMA HealthyReconciler ==
    ASSUME HealthInv, Typed', faults = 0, faults' = 0, Reconciler
    PROVE  Healthy'
<1> USE DEF runtime, wire, ghosts
<1>0. /\ Typed /\ inq \in Seq(Frames) /\ Connected /\ Unfailed
      /\ pending \subseteq Calls
      /\ \A c \in pending : Grace(c)
      /\ \A c \in Calls : rec.vanished[c] \in Nat
      /\ pending # {} \/ rec.phase # "sleep" => slot /\ up /\ reader
  BY HealthFacts
<1>1. CASE Rest
  <2>1. /\ UNCHANGED <<client, pending, rx, slot, reader, task, pinged, up>>
        /\ rec'.phase = "sleep" /\ inFlight = {}
    BY <1>1 DEF Rest, Asleep
  <2>2. Connected' /\ Unfailed'
    BY <1>0, <2>1 DEF Connected, Unfailed
  <2>3. \A d \in Calls : client'[d] \notin Awaiting
    BY <2>1 DEF HealthInv, LinkInv, Tracked
  <2> QED
    BY <1>0, <2>1, <2>2, <2>3 DEF Healthy, Grace, Awaiting
<1>2. CASE Ping
  <2>1. /\ UNCHANGED <<client, pending, rx, slot, reader, loop, task, executing, pinged, up>>
        /\ slot /\ rec'.phase = "pinging" /\ rec'.ping = FreshPing
        /\ rec'.vanished = rec.vanished /\ rec'.answer = rec.answer
        /\ inq' = Published(<<Frame("ping", FreshPing)>>)
    BY <1>0, <1>2 DEF Ping, Typed, TypeOK
  <2>2. \A c \in Calls : client[c] = "registered" => rec.vanished[c] = 0
    BY <1>0, <1>2 DEF Ping, Fault
  <2>3. up
    BY <1>0, <2>1 DEF Connected
  <2>4. Frame("ping", FreshPing) \in Frames /\ <<Frame("ping", FreshPing)>> \in Seq(Frames)
    BY <1>0, FreshPingType DEF Frame, Frames
  <2>5. PICK j \in DOMAIN inq' : inq'[j] = Frame("ping", FreshPing) /\ \A i \in DOMAIN inq : i < j
    BY <1>0, <2>1, <2>3, <2>4, QueueLast
  <2>6. PingFrame(j)' /\ Carried(rec.ping)'
    BY <2>1, <2>5 DEF PingFrame, Carried, Frame
  <2>7. Connected' /\ Unfailed'
    BY <1>0, <2>1, <2>6 DEF Connected, Unfailed
  <2>8. FreshPing \notin pinged
    BY <1>0, <2>1, FreshPingAlone
  <2>9. \A i \in DOMAIN inq : i \in DOMAIN inq' /\ inq'[i] = inq[i]
    BY <1>0, <2>1, <2>4, QueueKeeps
  <2>10. \A i \in DOMAIN inq' : (i \in DOMAIN inq /\ inq'[i] = inq[i]) \/ inq'[i].t = "ping"
    BY <1>0, <2>1, FreshPingAlone
  <2>11. ASSUME NEW d \in pending PROVE Grace(d)'
    <3>1. rec.vanished[d] \in Nat /\ Grace(d) /\ d \in Calls
      BY <1>0
    <3>2. client[d] = "registered" => Unpublished(d)'
      BY <2>1, <2>2, <3>1 DEF Unpublished
    <3>3. ASSUME client[d] = "waiting", NEW i \in DOMAIN inq', CallFrame(d, i)' PROVE Sent(d, i)'
      <4>1. i \in DOMAIN inq /\ CallFrame(d, i)
        BY <2>10, <3>3 DEF CallFrame
      <4>2. rec.vanished[d] <= 1
        BY <3>1, <3>3, <4>1 DEF Grace, Sent
      <4> QED
        BY <2>1, <2>5, <2>6, <4>1, <4>2 DEF Sent
    <3>4. ASSUME client[d] = "waiting", loop.at = "insert", loop.id = d PROVE Inserting(d)'
      BY <2>1, <2>8, <3>1, <3>4 DEF Grace, Inserting
    <3>5. ASSUME client[d] = "waiting", d \in executing PROVE Running(d)'
      BY <2>1, <3>1, <3>5 DEF Grace, Running
    <3>6. ASSUME client[d] = "waiting", loop.at = "reply", loop.id = d PROVE Replying(d)'
      BY <2>1, <2>8, <3>1, <3>6 DEF Grace, Replying
    <3> QED
      BY <2>1, <2>9, <3>1, <3>2, <3>3, <3>4, <3>5, <3>6 DEF Grace, CallFrame
  <2> QED
    BY <2>1, <2>7, <2>11 DEF Healthy
<1>3. CASE PingTimeout
  BY <1>0, <1>3 DEF PingTimeout, TimesOut, Fault, Connected
<1>4. CASE Settle
  <2>1. ASSUME NEW d \in pending, client[d] \in Awaiting, d \notin rec.answer
        PROVE  rec.vanished[d] <= 1
    <3>1. Grace(d) /\ rec.vanished[d] \in Nat
      BY <1>0
    <3> QED
      BY <1>4, <2>1, <3>1, <1>0
         DEF Settle, Grace, Unpublished, Sent, Inserting, Running, Replying, Awaiting, Typed, TypeOK
  <2>2. \A d \in pending : client[d] \in Awaiting => d \notin Expired
    BY <1>0, <2>1, BoundsAssumption DEF Expired, BoundsAssumption
  <2>3. /\ UNCHANGED <<client, slot, reader, loop, task, executing, pinged, up>>
        /\ pending' \subseteq pending /\ rec'.phase = "sleep"
        /\ \A d \in Calls : rx[d] # "closed" => rx'[d] # "closed"
    BY <1>4, <2>2 DEF Settle, Abandon, Asleep
  <2>4. \A d \in Calls : /\ d \in rec.answer => rec'.vanished[d] = 0
                         /\ rec'.vanished[d] \in {0, rec.vanished[d], rec.vanished[d] + 1}
    BY <1>4 DEF Settle, Asleep
  <2>5. Connected' /\ Unfailed'
    BY <1>0, <2>3 DEF Connected, Unfailed
  <2>6. rec.answer \ inFlight \in SUBSET Calls /\ IsFiniteSet(rec.answer \ inFlight)
    BY <1>0, FS_Subset DEF Typed, TypeOK, WellFormed
  <2>7. \A i \in DOMAIN inq : i \in DOMAIN inq' /\ inq'[i] = inq[i]
    BY <1>0, <1>4, <2>6, CancelsType, QueueKeeps DEF Settle
  <2>8. \A i \in DOMAIN inq' : (i \in DOMAIN inq /\ inq'[i] = inq[i]) \/ inq'[i].t = "cancel"
    BY <1>0, <1>4, <2>6, QueueCancels DEF Settle
  <2>9. ASSUME NEW d \in pending' PROVE Grace(d)'
    <3>1. rec.vanished[d] \in Nat /\ Grace(d) /\ d \in Calls /\ d \in pending /\ rec.phase = "answered"
      BY <1>0, <1>4, <2>3 DEF Settle
    <3>2. client[d] = "registered" => Unpublished(d)'
      BY <2>3, <2>4, <3>1 DEF Grace, Unpublished
    <3>3. ASSUME client[d] = "waiting", NEW i \in DOMAIN inq', CallFrame(d, i)' PROVE Sent(d, i)'
      <4>1. i \in DOMAIN inq /\ CallFrame(d, i)
        BY <2>8, <3>3 DEF CallFrame
      <4>2. rec.vanished[d] = 0
        BY <3>1, <3>3, <4>1 DEF Grace, Sent
      <4> QED
        BY <2>3, <2>4, <3>1, <4>2 DEF Sent
    <3>4. ASSUME client[d] = "waiting", loop.at = "insert", loop.id = d PROVE Inserting(d)'
      BY <2>3, <2>4, <3>1, <3>4 DEF Grace, Inserting
    <3>5. ASSUME client[d] = "waiting", d \in executing PROVE Running(d)'
      BY <2>3, <2>4, <3>1, <3>5 DEF Grace, Running
    <3>6. ASSUME client[d] = "waiting", loop.at = "reply", loop.id = d PROVE Replying(d)'
      <4>1. rec.vanished[d] <= 1
        BY <3>1, <3>6 DEF Grace, Replying
      <4> QED
        BY <2>3, <2>4, <3>1, <4>1 DEF Replying
    <3> QED
      BY <2>3, <2>7, <3>1, <3>2, <3>3, <3>4, <3>5, <3>6 DEF Grace, CallFrame
  <2> QED
    BY <2>5, <2>9 DEF Healthy
<1> QED
  BY <1>1, <1>2, <1>3, <1>4 DEF Reconciler

\* Acquiring a runtime and letting it go.
LEMMA HealthyManager ==
    ASSUME HealthInv, Typed', faults = 0, faults' = 0, Manager
    PROVE  Healthy'
<1> USE DEF runtime, wire, ghosts
<1>0. /\ Typed /\ inq \in Seq(Frames) /\ Connected /\ Unfailed
      /\ pending \subseteq Calls
      /\ \A c \in pending : Grace(c)
      /\ \A c \in Calls : rec.vanished[c] \in Nat
      /\ pending # {} \/ rec.phase # "sleep" => slot /\ up /\ reader
  BY HealthFacts
<1>1. CASE Acquire \/ ProbeTimeout \/ Deadline \/ AcquireFails
  <2>1. UNCHANGED <<client, pending, rx, slot, reader, rec, loop, task, executing, pinged, up, inq>>
    BY <1>1 DEF Acquire, ProbeTimeout, Deadline, AcquireFails
  <2>2. Connected' /\ Unfailed'
    BY <1>0, <2>1 DEF Connected, Carried, Unfailed
  <2>3. ASSUME NEW d \in pending PROVE Grace(d)'
    BY <1>0, <2>1, GraceKept
  <2> QED
    BY <2>1, <2>2, <2>3 DEF Healthy
<1>2. CASE Probe
  <2>1. /\ UNCHANGED <<client, pending, rx, slot, reader, rec, loop, task, executing, pinged, up>>
        /\ inq' = Published(<<Frame("ping", FreshPing)>>)
    BY <1>2 DEF Probe
  <2>2. <<Frame("ping", FreshPing)>> \in Seq(Frames)
    BY <1>0, FreshPingType DEF Frame, Frames
  <2>3. \A i \in DOMAIN inq : i \in DOMAIN inq' /\ inq'[i] = inq[i]
    BY <1>0, <2>1, <2>2, QueueKeeps
  <2>4. \A i \in DOMAIN inq' : (i \in DOMAIN inq /\ inq'[i] = inq[i]) \/ inq'[i].t = "ping"
    BY <1>0, <2>1, FreshPingAlone
  <2>5. Connected' /\ Unfailed'
    BY <1>0, <2>1, <2>3, CarriedKept DEF Connected, Unfailed
  <2>6. ASSUME NEW d \in pending PROVE Grace(d)'
    <3>1. \A i \in DOMAIN inq' : (i \in DOMAIN inq /\ inq'[i] = inq[i]) \/ ~CallFrame(d, i)'
      BY <2>4 DEF CallFrame
    <3> QED
      BY <1>0, <2>1, <2>3, <3>1, GraceKept
  <2> QED
    BY <2>1, <2>5, <2>6 DEF Healthy
<1>3. CASE Hibernate
  <2>1. /\ ~slot' /\ rec'.phase = "sleep" /\ pending' = {}
        /\ UNCHANGED <<client, rx, pinged, up, task>>
    BY <1>3 DEF Hibernate, Asleep
  <2> QED
    BY <1>0, <2>1 DEF Healthy, Connected, Unfailed
<1> QED
  BY <1>1, <1>2, <1>3 DEF Manager

\* The socket connects: the only step among the faults that is none.
LEMMA HealthyFaults ==
    ASSUME HealthInv, Typed', faults = 0, faults' = 0, Faults
    PROVE  Healthy'
<1> USE DEF runtime, wire, ghosts
<1>0. /\ Typed /\ inq \in Seq(Frames) /\ Connected /\ Unfailed
      /\ pending \subseteq Calls
      /\ \A c \in pending : Grace(c)
      /\ \A c \in Calls : rec.vanished[c] \in Nat
      /\ pending # {} \/ rec.phase # "sleep" => slot /\ up /\ reader
  BY HealthFacts
<1>1. CASE LoseIn \/ Disconnect \/ ReaderLags \/ Restart
  BY <1>1 DEF LoseIn, Disconnect, ReaderLags, Restart, Fault
<1>2. CASE Reconnect
  <2>1. /\ UNCHANGED <<client, pending, rx, rec, loop, task, executing, pinged, inq>> /\ up'
        /\ (slot' = slot /\ reader' = reader) \/ (slot' /\ reader')
    BY <1>2 DEF Reconnect, Says, Fault, Announced, Acquired
  <2>2. Connected' /\ Unfailed'
    BY <1>0, <2>1 DEF Connected, Carried, Unfailed
  <2>3. ASSUME NEW d \in pending PROVE Grace(d)'
    BY <1>0, <2>1, GraceKept
  <2> QED
    BY <2>1, <2>2, <2>3 DEF Healthy
<1> QED
  BY <1>1, <1>2 DEF Faults

-----------------------------------------------------------------------------
(* The theorem *)

\* At the start there is nothing to lose.
LEMMA HealthInit == Init => HealthInv
<1>1. Init => LinkInv
  BY LinkInvInit
<1>2. Init => Slotted /\ Healthy
  BY DEF Init, Slotted, Healthy, Connected, Unfailed, Asleep, Present
<1> QED
  BY <1>1, <1>2 DEF HealthInv, Healthy

\* Faults are only ever added.
LEMMA FaultsGrow ==
    ASSUME HealthInv, [Next]_vars, faults' = 0
    PROVE  faults = 0
<1>1. faults \in Nat
  BY DEF HealthInv, Slotted
<1>2. faults' = faults \/ faults' = faults + 1
  <2> USE DEF server, runtime, wire, ghosts, Fault
  <2>1. CASE UNCHANGED vars
    BY <2>1 DEF vars
  <2>2. CASE Caller \/ Stops
    BY <2>2 DEF Caller, Stops, Invoke, Publish, PublishFails, Resume, CancelInFlight, DropRun
  <2>3. CASE Runtime
    BY <2>3 DEF Runtime, RecvRefuse, RecvCall, InsertHandle, RecvCancel, CancelReply, RecvPing,
                Finish, RemoveHandle, FinishDetached, SayPong, Says
  <2>4. CASE Reconciler \/ Manager
    BY <2>4 DEF Reconciler, Rest, Ping, PingTimeout, Settle, TimesOut, Manager, Acquire, Probe,
                ProbeTimeout, Deadline, AcquireFails, Hibernate
  <2>5. CASE Faults
    BY <2>5 DEF Faults, LoseIn, Disconnect, Reconnect, ReaderLags, Restart, Says
  <2> QED
    BY <2>1, <2>2, <2>3, <2>4, <2>5 DEF Next
<1> QED
  BY <1>1, <1>2

\* Every step keeps the invariant.
LEMMA HealthNext == HealthInv /\ [Next]_vars => HealthInv'
<1> SUFFICES ASSUME HealthInv, [Next]_vars PROVE HealthInv'
  OBVIOUS
<1>1. LinkInv' /\ Typed'
  BY LinkInvNext DEF HealthInv, LinkInv
<1>2. CASE UNCHANGED vars
  <2>1. UNCHANGED <<client, pending, rx, slot, reader, rec, loop, task, executing, pinged, up, inq,
                    faults, stops>>
    BY <1>2 DEF vars, server, runtime, wire, ghosts
  <2> QED
    BY <1>1, <2>1 DEF HealthInv, Slotted, Connected, Carried, Unfailed, Grace, Unpublished, Sent,
                      Inserting, Running, Replying, CallFrame, PingFrame
<1>3. CASE Next
  <2>1. Slotted'
    BY <1>3, SlottedCallers, SlottedRuntime, SlottedReconciler, SlottedManager, SlottedFaults
       DEF Next
  <2>2. ASSUME faults' = 0 PROVE Healthy'
    <3>1. faults = 0
      BY <2>2, FaultsGrow
    <3>2. CASE Runtime
      BY <1>1, <2>2, <3>1, <3>2, HealthyReceives, HealthyTasks, HealthyPong DEF Runtime
    <3> QED
      BY <1>1, <1>3, <2>2, <3>1, <3>2, HealthyCaller, HealthyStops, HealthyReconciler,
         HealthyManager, HealthyFaults DEF Next
  <2> QED
    BY <1>1, <2>1, <2>2 DEF HealthInv, Healthy
<1> QED
  BY <1>2, <1>3

\* A grace of two rounds is enough: on a link that loses nothing and keeps up, the
\* reconciler fails no call, however many there are and however their frames, pings,
\* cancellations and replies cross (runtime_reconciler.rs, VANISHED_GRACE).
THEOREM GraceIsEnough == Spec => []HealthyLinkFailsNothing
<1>1. Spec => []HealthInv
  BY HealthInit, HealthNext, PTL DEF Spec
<1>2. HealthInv => HealthyLinkFailsNothing
  BY DEF HealthInv, Slotted, Unfailed, HealthyLinkFailsNothing
<1> QED
  BY <1>1, <1>2, PTL

=============================================================================
