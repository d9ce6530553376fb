----------------------------- MODULE RemoteCalls -----------------------------
(***************************************************************************)
(* What a session is promised about the calls it makes on its sandbox,     *)
(* whatever lies between them: each call runs at most once, a result is    *)
(* only ever the result of work that was done, and work is only ever cut   *)
(* short for the agent that asked for it, or when nobody awaits it.        *)
(* RuntimeLink, with its queues, waiters, pings and graces, implements it. *)
(***************************************************************************)

CONSTANTS Calls,    \* the identities of the calls
          Agents,   \* the agents of one session, which share one sandbox
          Issuer    \* the agent that makes each call

VARIABLES wait,     \* where the caller of each call stands
          work,     \* where the sandbox stands with it
          asked     \* the calls whose own agent asked for them to be stopped

vars == <<wait, work, asked>>

Answers == {"result", "cancelled", "refused", "failed", "dropped"}
Waits == {"new", "open"} \cup Answers
Works == {"none", "running", "finished", "stopped"}

Init == /\ wait = [c \in Calls |-> "new"]
        /\ work = [c \in Calls |-> "none"]
        /\ asked = {}

Issue(c) == /\ wait[c] = "new"
            /\ wait' = [wait EXCEPT ![c] = "open"]
            /\ UNCHANGED <<work, asked>>

\* A call whose caller has given up may still reach the sandbox.
Start(c) == /\ wait[c] # "new"
            /\ work[c] = "none"
            /\ work' = [work EXCEPT ![c] = "running"]
            /\ UNCHANGED <<wait, asked>>

Finish(c) == /\ work[c] = "running"
             /\ work' = [work EXCEPT ![c] = "finished"]
             /\ UNCHANGED <<wait, asked>>

\* Work is cut short only for the agent that asked, or for nobody.
Stop(c) == /\ work[c] = "running"
           /\ c \in asked \/ wait[c] \in Answers
           /\ work' = [work EXCEPT ![c] = "stopped"]
           /\ UNCHANGED <<wait, asked>>

\* An agent asks for its own calls to be stopped, never for another's.
Ask(a) == /\ \E cs \in SUBSET {c \in Calls : Issuer[c] = a /\ wait[c] # "new"} :
               asked' = asked \cup cs
          /\ UNCHANGED <<wait, work>>

Answer(c, how) == /\ wait[c] = "open"
                  /\ how = "result" => work[c] = "finished"
                  /\ how = "cancelled" => c \in asked
                  /\ wait' = [wait EXCEPT ![c] = how]
                  /\ UNCHANGED <<work, asked>>

\* Callers go away together: a run is stopped, or the server restarts.
Drop(cs) == /\ \A c \in cs : wait[c] = "open"
            /\ wait' = [c \in Calls |-> IF c \in cs THEN "dropped" ELSE wait[c]]
            /\ UNCHANGED <<work, asked>>

Next == \/ \E c \in Calls : Issue(c) \/ Start(c) \/ Finish(c) \/ Stop(c)
        \/ \E a \in Agents : Ask(a)
        \/ \E c \in Calls, how \in Answers : Answer(c, how)
        \/ \E cs \in SUBSET Calls : Drop(cs)

Spec == Init /\ [][Next]_vars
==============================================================================
