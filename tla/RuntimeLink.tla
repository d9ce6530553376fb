----------------------------- MODULE RuntimeLink -----------------------------
(***************************************************************************)
(* One session and its sandbox, across the bus: the client that tracks     *)
(* every call (runtime-host), the transport that holds a waiter for each   *)
(* (bus_transport), the pump that joins two topics to a socket             *)
(* (runtime_pump), the runtime's dispatch loop and its tasks (runtime),    *)
(* the reconciler that pings it and settles what nobody will answer        *)
(* (runtime_reconciler), and the acquisition that waits for it             *)
(* (runtime_manager).                                                      *)
(*                                                                         *)
(* Socket, pump and topic keep the order of one sender.  What the server   *)
(* sends waits in a queue.  What the runtime says settles its waiter at    *)
(* once: the task that waiter wakes may run as late as a frame may arrive. *)
(* Everything that goes wrong on the way is a fault, and MaxTrouble bounds *)
(* how many happen.                                                        *)
(***************************************************************************)
EXTENDS Integers, Sequences, FiniteSets, SequencesExt

CONSTANTS Calls,        \* call ids
          Agents,       \* the agents that share the sandbox
          Issuer,       \* which agent makes each call
          NoCall,       \* the absence of a call
          GraceRounds,  \* rounds a call may be missing before it is failed
          MaxTrouble,   \* bound on losses, lags, disconnections, restarts and stops
          MaxAcquires   \* bound on acquisitions

ASSUME IssuerAssumption == Issuer \in [Calls -> Agents]
\* VANISHED_GRACE is 30 s, and a round whose ping is answered takes less than
\* PING_INTERVAL + PING_WINDOW = 30 s: two misses in a row never use it up.
ASSUME BoundsAssumption == /\ GraceRounds \in Nat /\ GraceRounds >= 2
                           /\ MaxTrouble \in Nat
                           /\ MaxAcquires \in Nat
ASSUME NoCallAssumption == NoCall \notin Calls

(* The server's side. *)
VARIABLES client,    \* where RuntimeClient::invoke stands for each call
          inFlight,  \* InFlight: the calls tracked against this runtime
          pending,   \* BusTransport.pending: the calls with a waiter
          rx,        \* what each waiter's channel holds
          slot,      \* RuntimeSlot exists: its transport and its reconciler
          reader,    \* the transport's reader task still reads its topic
          rec,       \* the reconciler
          acq,       \* the acquisition under way
          stopping   \* agents between the two halves of cancel_agent

(* The wire and the runtime. *)
VARIABLES up,        \* a socket joins the pump and the runtime
          inq,       \* frames on their way to the runtime
          loop,      \* what run_loop is in the middle of
          task,      \* the task of each call
          executing, \* run_loop's in_flight map
          pinged     \* ping tasks that have not answered yet

(* Recorded for the properties and the bounds. *)
VARIABLES faults,    \* how many faults have happened
          asked,     \* the calls whose agent asked for them to be cancelled
          acquires,  \* how many acquisitions have begun
          stops      \* how many stops have begun

server == <<client, inFlight, pending, rx, slot, reader, rec, acq, stopping>>
runtime == <<loop, task, executing, pinged>>
wire == <<up, inq>>
ghosts == <<faults, asked, acquires, stops>>
vars == <<server, runtime, wire, ghosts>>

-----------------------------------------------------------------------------
(* Frames and identities. *)

PingIds == Nat \ {0}

Frame(t, id) == [t |-> t, id |-> id]

\* The frame of a ping, or the task that answers it, is at the runtime's end.
Carried(p) == p \in pinged \/ \E i \in DOMAIN inq : inq[i] = Frame("ping", p)

\* The pings somebody waits for, or that are still on their way.
InUse == pinged \cup {inq[i].id : i \in {j \in DOMAIN inq : inq[j].t = "ping"}}
                \cup {rec.ping, acq.ping}

\* format!("ping-{probe}"): an identity no earlier ping still uses.
FreshPing == CHOOSE p \in 1..(Cardinality(InUse) + 1) : p \notin InUse

\* Topic::publish onto the in topic: with no pump subscribed a frame is gone.
Published(frames) == IF up THEN inq \o frames ELSE inq

Fault == /\ faults + stops < MaxTrouble
         /\ faults' = faults + 1

Awaiting == {"registered", "waiting"}

-----------------------------------------------------------------------------
(* RuntimeClient and BusTransport::relay: one call. *)

\* invoke, and relay up to its publish: the call is tracked, and then its waiter
\* registered, before the frame that may be answered at once.
Invoke(c) ==
    /\ slot
    /\ client[c] = "new"
    /\ client' = [client EXCEPT ![c] = "registered"]
    /\ inFlight' = inFlight \cup {c}
    /\ pending' = pending \cup {c}
    /\ UNCHANGED <<rx, slot, reader, rec, acq, stopping, runtime, wire, ghosts>>

Publish(c) ==
    /\ client[c] = "registered"
    /\ client' = [client EXCEPT ![c] = "waiting"]
    /\ inq' = Published(<<Frame("call", c)>>)
    /\ UNCHANGED <<inFlight, pending, rx, slot, reader, rec, acq, stopping, runtime,
                   up, ghosts>>

\* The bus refuses the frame: the waiter is taken back and the call untracked.
PublishFails(c) ==
    /\ client[c] = "registered"
    /\ Fault
    /\ client' = [client EXCEPT ![c] = "failed"]
    /\ pending' = pending \ {c}
    /\ inFlight' = inFlight \ {c}
    /\ UNCHANGED <<rx, slot, reader, rec, acq, stopping, runtime, wire, asked, acquires, stops>>

\* The channel resolves: untrack, and the answer goes to the tool.
Resume(c) ==
    /\ client[c] = "waiting"
    /\ rx[c] # "empty"
    /\ client' = [client EXCEPT ![c] = IF rx[c] = "closed" THEN "failed" ELSE rx[c]]
    /\ inFlight' = inFlight \ {c}
    /\ rx' = [rx EXCEPT ![c] = "empty"]
    /\ UNCHANGED <<pending, slot, reader, rec, acq, stopping, runtime, wire, ghosts>>

OfAgentAll(a) == inFlight

\* InFlight::of_agent: only this agent's calls.
OfAgent(a) == {c \in inFlight : Issuer[c] = a}

\* cancel_agent, first half: RuntimeClient::cancel_in_flight.
CancelInFlight(a) ==
    /\ slot
    /\ a \notin stopping
    /\ faults + stops < MaxTrouble
    /\ stops' = stops + 1
    /\ stopping' = stopping \cup {a}
    /\ inq' = Published(SetToSeq({Frame("cancel", c) : c \in OfAgent(a)}))
    /\ asked' = asked \cup {c \in OfAgent(a) : Issuer[c] = a}
    /\ UNCHANGED <<client, inFlight, pending, rx, slot, reader, rec, acq, runtime,
                   up, faults, acquires>>

\* cancel_agent, second half: the loop is cancelled, which drops the futures of
\* its calls where they stand; neither untrack nor the waiter's removal runs.
DropRun(a) ==
    /\ a \in stopping
    /\ stopping' = stopping \ {a}
    /\ client' = [c \in Calls |-> IF Issuer[c] = a /\ client[c] \in Awaiting
                                  THEN "dropped" ELSE client[c]]
    /\ rx' = [c \in Calls |-> IF Issuer[c] = a THEN "empty" ELSE rx[c]]
    /\ UNCHANGED <<inFlight, pending, slot, reader, rec, acq, runtime, wire, ghosts>>

\* The waiters of cs go away, so what awaits them resolves as Disconnected.
Abandon(cs) ==
    /\ pending' = pending \ cs
    /\ rx' = [c \in Calls |-> IF c \in cs \cap pending /\ client[c] \in Awaiting
                              THEN "closed" ELSE rx[c]]

-----------------------------------------------------------------------------
(* The replies: BusTransport's reader, and the acquisition's two ears. *)

NotAcquiring == [phase |-> "none", ping |-> 0]
Present == [c \in Calls |-> 0]
Asleep == [phase |-> "sleep", ping |-> 0, outstanding |-> {}, answer |-> {},
           vanished |-> Present]

\* The reader settles the waiter of call c, and drops a reply that has none.
Answered(c, how) ==
    /\ IF reader /\ c \in pending
       THEN /\ pending' = pending \ {c}
            /\ rx' = [rx EXCEPT ![c] = IF client[c] \in Awaiting THEN how ELSE @]
       ELSE UNCHANGED <<pending, rx>>
    /\ UNCHANGED <<client, inFlight, slot, reader, rec, acq, stopping>>

\* RuntimeManager::slot: the transport the acquisition opened, its reader running,
\* and a reconciler.
Acquired ==
    /\ acq' = NotAcquiring
    /\ slot' = TRUE
    /\ reader' = TRUE

\* Ready is heard by an acquisition that is waiting, and by nobody else.
Announced ==
    /\ IF acq.phase = "waiting" THEN Acquired ELSE UNCHANGED <<acq, slot, reader>>
    /\ UNCHANGED <<client, inFlight, pending, rx, rec, stopping>>

\* A pong settles the reconciler's ping, or the acquisition's probe.
Ponged(p, ids) ==
    /\ rec' = IF reader /\ rec.phase = "pinging" /\ rec.ping = p
              THEN [rec EXCEPT !.phase = "answered", !.answer = ids, !.ping = 0]
              ELSE rec
    /\ IF acq.phase = "waiting" /\ acq.ping = p THEN Acquired ELSE UNCHANGED <<acq, slot, reader>>
    /\ UNCHANGED <<client, inFlight, pending, rx, stopping>>

\* What the runtime says arrives, or the bus loses it.
Says(arrives) == \/ arrives /\ UNCHANGED ghosts
                 \/ Fault /\ UNCHANGED <<server, asked, acquires, stops>>

-----------------------------------------------------------------------------
(* The runtime: run_loop and the tasks it spawns. *)

Idle == [at |-> "recv", id |-> NoCall]

Receive(t) == /\ up
              /\ loop = Idle
              /\ inq # <<>>
              /\ Head(inq).t = t
              /\ inq' = Tail(inq)

\* An agent nothing has provisioned is refused.
RecvRefuse ==
    /\ Receive("call")
    /\ Says(Answered(Head(inq).id, "refused"))
    /\ UNCHANGED <<runtime, up>>

\* The task is spawned first, and its handle entered in the map after.
RecvCall ==
    /\ Receive("call")
    /\ task' = [task EXCEPT ![Head(inq).id] = "running"]
    /\ loop' = [at |-> "insert", id |-> Head(inq).id]
    /\ UNCHANGED <<server, executing, pinged, up, ghosts>>

InsertHandle ==
    /\ loop.at = "insert"
    /\ executing' = executing \cup {loop.id}
    /\ loop' = Idle
    /\ UNCHANGED <<server, task, pinged, wire, ghosts>>

\* The tool is done: the reply is sent, and only then is the entry removed.
Finish(c) ==
    /\ task[c] = "running"
    /\ Says(Answered(c, "result"))
    /\ task' = [task EXCEPT ![c] = "sent"]
    /\ UNCHANGED <<loop, executing, pinged, wire>>

RemoveHandle(c) ==
    /\ task[c] = "sent"
    /\ executing' = executing \ {c}
    /\ task' = [task EXCEPT ![c] = "over"]
    /\ UNCHANGED <<server, loop, pinged, wire, ghosts>>

\* A task whose connection is gone finishes with nowhere to send its reply.
FinishDetached(c) ==
    /\ task[c] = "detached"
    /\ task' = [task EXCEPT ![c] = "over"]
    /\ UNCHANGED <<server, loop, executing, pinged, wire, ghosts>>

\* CancelCall: the task is aborted if the map has it, and the call is answered
\* either way.
RecvCancel ==
    LET c == Head(inq).id IN
    /\ Receive("cancel")
    /\ executing' = executing \ {c}
    /\ task' = [task EXCEPT ![c] = CASE c \in executing /\ @ = "running" -> "stopped"
                                     [] c \in executing /\ @ = "sent" -> "over"
                                     [] OTHER -> @]
    /\ loop' = [at |-> "reply", id |-> c]
    /\ UNCHANGED <<server, pinged, up, ghosts>>

CancelReply ==
    /\ loop.at = "reply"
    /\ Says(Answered(loop.id, "cancelled"))
    /\ loop' = Idle
    /\ UNCHANGED <<task, executing, pinged, wire>>

\* A ping is answered on a task of its own, whenever that task runs: it reads the
\* map and answers, beside whatever the loop is in the middle of.
RecvPing ==
    /\ Receive("ping")
    /\ pinged' = pinged \cup {Head(inq).id}
    /\ UNCHANGED <<server, loop, task, executing, up, ghosts>>

SayPong(p) ==
    /\ p \in pinged
    /\ pinged' = pinged \ {p}
    /\ Says(Ponged(p, executing))
    /\ UNCHANGED <<loop, task, executing, wire>>

-----------------------------------------------------------------------------
(* runtime_reconciler::reconcile: one round. *)

\* Nothing outstanding costs no message, and nothing can have vanished.
Rest ==
    /\ slot
    /\ rec.phase = "sleep"
    /\ inFlight = {}
    /\ rec.vanished # Present
    /\ rec' = Asleep
    /\ UNCHANGED <<client, inFlight, pending, rx, slot, reader, acq, stopping, runtime,
                   wire, ghosts>>

\* The outstanding calls are read before the ping and used after it.  A client
\* that has been publishing since the round before is a fault of the bus.
Ping ==
    /\ slot
    /\ rec.phase = "sleep"
    /\ inFlight # {}
    /\ IF \E c \in Calls : client[c] = "registered" /\ rec.vanished[c] > 0
       THEN Fault ELSE UNCHANGED faults
    /\ rec' = [rec EXCEPT !.phase = "pinging", !.ping = FreshPing, !.outstanding = inFlight]
    /\ inq' = Published(<<Frame("ping", FreshPing)>>)
    /\ UNCHANGED <<client, inFlight, pending, rx, slot, reader, acq, stopping, runtime,
                   up, asked, acquires, stops>>

\* PING_WINDOW: a ping still on its way when the window closes is a fault of its
\* own; one that was lost has nothing else to wait for.
TimesOut(p) == IF Carried(p) THEN Fault ELSE UNCHANGED faults

PingTimeoutForgets ==
    /\ rec.phase = "pinging"
    /\ TimesOut(rec.ping)
    /\ rec' = Asleep
    /\ UNCHANGED <<client, inFlight, pending, rx, slot, reader, acq, stopping, runtime, wire,
                   asked, acquires, stops>>

\* Unanswered: everything that was outstanding is failed.
PingTimeout ==
    /\ rec.phase = "pinging"
    /\ TimesOut(rec.ping)
    /\ Abandon(rec.outstanding)
    /\ rec' = Asleep
    /\ UNCHANGED <<client, inFlight, slot, reader, acq, stopping, runtime, wire,
                   asked, acquires, stops>>

ExpiredAtOnce == rec.outstanding \ rec.answer
ExpiredLate == {c \in rec.outstanding \ rec.answer : rec.vanished[c] > GraceRounds}

\* The calls of the list that have been missing for the whole grace.
Expired == {c \in rec.outstanding \ rec.answer : rec.vanished[c] >= GraceRounds}

\* Answered.  What the runtime runs and nobody tracks, by the map as it is now, is
\* cancelled; of the list, a call still working loses the grace it had used, a
\* missing one uses some, and one that has used it all is failed.
Settle ==
    /\ rec.phase = "answered"
    /\ inq' = Published(SetToSeq({Frame("cancel", c) : c \in rec.answer \ inFlight}))
    /\ Abandon(Expired)
    /\ rec' = [Asleep EXCEPT !.vanished =
                 [c \in Calls |->
                    IF c \notin inFlight \/ c \in Expired \cup rec.answer THEN 0
                    ELSE IF c \in rec.outstanding THEN rec.vanished[c] + 1
                    ELSE rec.vanished[c]]]
    /\ UNCHANGED <<client, inFlight, slot, reader, acq, stopping, runtime, up, ghosts>>

-----------------------------------------------------------------------------
(* RuntimeManager: acquiring the runtime, and letting it go. *)

\* get: subscribed to the out topic, and then the vendor is asked.  One that finds
\* a slot ends with that slot, and is left out.
Acquire ==
    /\ ~slot
    /\ acq.phase = "none"
    /\ acquires < MaxAcquires
    /\ acquires' = acquires + 1
    /\ acq' = [phase |-> "waiting", ping |-> 0]
    /\ UNCHANGED <<client, inFlight, pending, rx, slot, reader, rec, stopping, runtime,
                   wire, faults, asked, stops>>

ProbeNever == FALSE

\* probe: ask whether it is there, until it says yes.
Probe ==
    /\ acq.phase = "waiting"
    /\ acq.ping = 0
    /\ acq' = [acq EXCEPT !.ping = FreshPing]
    /\ inq' = Published(<<Frame("ping", FreshPing)>>)
    /\ UNCHANGED <<client, inFlight, pending, rx, slot, reader, rec, stopping, runtime,
                   up, ghosts>>

\* PROBE_WINDOW: the waiter is abandoned and another probe follows.
ProbeTimeout ==
    /\ acq.ping # 0
    /\ TimesOut(acq.ping)
    /\ acq' = [acq EXCEPT !.ping = 0]
    /\ UNCHANGED <<client, inFlight, pending, rx, slot, reader, rec, stopping, runtime,
                   wire, asked, acquires, stops>>

\* ACQUIRE_WINDOW is over a hundred probes long: it closes on a runtime that is
\* not connected.
Deadline ==
    /\ acq.phase = "waiting"
    /\ ~up
    /\ acq' = NotAcquiring
    /\ UNCHANGED <<client, inFlight, pending, rx, slot, reader, rec, stopping, runtime,
                   wire, ghosts>>

\* The vendor reports the substrate gone or stopped, or the out topic ends.
AcquireFails ==
    /\ acq.phase = "waiting"
    /\ Fault
    /\ acq' = NotAcquiring
    /\ UNCHANGED <<client, inFlight, pending, rx, slot, reader, rec, stopping, runtime,
                   wire, asked, acquires, stops>>

\* hibernate: the session is idle, and the slot is forgotten with its reconciler,
\* its transport and its map.
Hibernate ==
    /\ slot
    /\ stopping = {}
    /\ \A c \in Calls : client[c] \notin Awaiting
    /\ slot' = FALSE
    /\ reader' = FALSE
    /\ rec' = Asleep
    /\ inFlight' = {}
    /\ pending' = {}
    /\ UNCHANGED <<client, rx, acq, stopping, runtime, wire, ghosts>>

-----------------------------------------------------------------------------
(* Faults. *)

\* The bus loses a frame: at most once is all it promises.
LoseIn == /\ inq # <<>>
          /\ Fault
          /\ inq' = Tail(inq)
          /\ UNCHANGED <<server, runtime, up, asked, acquires, stops>>

\* The socket closes: the pump goes, and run_loop returns with its map.  The tasks
\* it spawned run on; what they say goes nowhere.
Disconnect ==
    /\ up
    /\ Fault
    /\ up' = FALSE
    /\ inq' = <<>>
    /\ loop' = Idle
    /\ task' = [c \in Calls |-> IF task[c] = "running" THEN "detached"
                                ELSE IF task[c] = "sent" THEN "over" ELSE task[c]]
    /\ executing' = {}
    /\ pinged' = {}
    /\ UNCHANGED <<server, asked, acquires, stops>>

\* serve_until_disconnected dials again; run_loop says Ready, once, and starts
\* with an empty map.
Reconnect ==
    /\ ~up
    /\ up' = TRUE
    /\ Says(Announced)
    /\ UNCHANGED <<runtime, inq>>

\* The reader falls a topic's capacity behind: Subscription::recv turns the lag
\* into the end of the stream, and the reader task returns.
ReaderLags ==
    /\ slot
    /\ reader
    /\ Fault
    /\ reader' = FALSE
    /\ UNCHANGED <<client, inFlight, pending, rx, slot, rec, acq, stopping, runtime, wire,
                   asked, acquires, stops>>

\* The server's process restarts; the runtime, and a pump elsewhere, do not.
Restart ==
    /\ slot
    /\ Fault
    /\ client' = [c \in Calls |-> IF client[c] \in Awaiting THEN "dropped" ELSE client[c]]
    /\ inFlight' = {}
    /\ pending' = {}
    /\ rx' = [c \in Calls |-> "empty"]
    /\ slot' = FALSE
    /\ reader' = FALSE
    /\ rec' = Asleep
    /\ stopping' = {}
    /\ UNCHANGED <<acq, runtime, up, inq, asked, acquires, stops>>

-----------------------------------------------------------------------------

Init ==
    /\ client = [c \in Calls |-> "new"]
    /\ inFlight = {}
    /\ pending = {}
    /\ rx = [c \in Calls |-> "empty"]
    /\ slot = FALSE
    /\ reader = FALSE
    /\ rec = Asleep
    /\ acq = NotAcquiring
    /\ stopping = {}
    /\ up = FALSE
    /\ inq = <<>>
    /\ loop = Idle
    /\ task = [c \in Calls |-> "none"]
    /\ executing = {}
    /\ pinged = {}
    /\ faults = 0
    /\ asked = {}
    /\ acquires = 0
    /\ stops = 0

Caller == \E c \in Calls : Invoke(c) \/ Publish(c) \/ PublishFails(c) \/ Resume(c)
Stops == \E a \in Agents : CancelInFlight(a) \/ DropRun(a)
Runtime == \/ RecvRefuse \/ RecvCall \/ InsertHandle \/ RecvCancel \/ CancelReply \/ RecvPing
           \/ \E c \in Calls : Finish(c) \/ RemoveHandle(c) \/ FinishDetached(c)
           \/ \E p \in pinged : SayPong(p)
Reconciler == Rest \/ Ping \/ PingTimeout \/ Settle
Manager == Acquire \/ Probe \/ ProbeTimeout \/ Deadline \/ AcquireFails \/ Hibernate
Faults == LoseIn \/ Disconnect \/ Reconnect \/ ReaderLags \/ Restart

Next == Caller \/ Stops \/ Runtime \/ Reconciler \/ Manager \/ Faults

Spec == Init /\ [][Next]_vars

\* Tasks that are ready run, sockets and topics carry what they hold, and timers
\* fire.  Nothing says that a tool ends, a vendor answers or a socket returns.
Fairness ==
    /\ \A c \in Calls : WF_vars(Publish(c)) /\ WF_vars(Resume(c))
                        /\ WF_vars(RemoveHandle(c))
    /\ WF_vars(RecvRefuse \/ RecvCall \/ RecvCancel \/ RecvPing)
    /\ WF_vars(InsertHandle \/ CancelReply)
    /\ WF_vars(\E p \in pinged : SayPong(p))
    /\ WF_vars(Ping) /\ WF_vars(Settle)
    /\ WF_vars(PingTimeout /\ ~Carried(rec.ping))
    /\ WF_vars(Probe) /\ WF_vars(ProbeTimeout /\ ~Carried(acq.ping)) /\ WF_vars(Deadline)

FairSpec == Spec /\ Fairness

-----------------------------------------------------------------------------
(* Properties. *)

\* Every variable holds a value of its kind; in particular a call has a waiter
\* only once its client has registered one, and a grace never outlasts its rounds.
TypeOK ==
    /\ client \in [Calls -> Awaiting \cup {"new", "result", "cancelled", "refused",
                                           "failed", "dropped"}]
    /\ inFlight \subseteq Calls
    /\ pending \subseteq {c \in Calls : client[c] # "new"}
    /\ rx \in [Calls -> {"empty", "result", "cancelled", "refused", "closed"}]
    /\ slot \in BOOLEAN /\ reader \in BOOLEAN /\ up \in BOOLEAN
    /\ rec \in [phase : {"sleep", "pinging", "answered"}, ping : {0} \cup PingIds,
                outstanding : SUBSET Calls, answer : SUBSET Calls,
                vanished : [Calls -> 0..GraceRounds]]
    /\ acq \in [phase : {"none", "waiting"}, ping : {0} \cup PingIds]
    /\ stopping \subseteq Agents
    /\ loop \in [at : {"recv", "insert", "reply"}, id : Calls \cup {NoCall}]
    /\ task \in [Calls -> {"none", "running", "sent", "over", "stopped", "detached"}]
    /\ executing \subseteq Calls
    /\ pinged \subseteq PingIds

\* On a link that loses nothing and keeps up, the reconciler fails no call: neither
\* one whose frame is still to be published when the ping goes out, nor one whose
\* result or cancellation is on its way back (runtime_reconciler.rs, the grace).
HealthyLinkFailsNothing ==
    \A c \in Calls : client[c] = "failed" => faults > 0

\* The link implements RemoteCalls: what is between the two ends never runs a call
\* twice, answers with a result nothing produced, or cuts a call short that its own
\* agent, or a sibling, still waits for.
Promise == INSTANCE RemoteCalls WITH
    wait <- [c \in Calls |-> IF client[c] \in Awaiting THEN "open" ELSE client[c]],
    work <- [c \in Calls |-> CASE task[c] \in {"running", "detached"} -> "running"
                               [] task[c] \in {"sent", "over"} -> "finished"
                               [] OTHER -> task[c]]

KeepsPromise == Promise!Spec

\* A call does not stay awaited for ever on a runtime that does not report it,
\* whatever was lost: a frame, the socket, the reader, the runtime itself
\* (BusTransport has no deadline, so only the reconciler ends such a wait).
SilenceEnds ==
    \A c \in Calls : []<>(client[c] \notin Awaiting \/ c \in executing)

\* An acquisition ends, with a runtime whose only announcement was made before it
\* began too (runtime_manager.rs, probe).
AcquisitionEnds == acq.phase = "waiting" ~> acq.phase = "none"

=============================================================================
