---------------------------- MODULE DurableInbox ----------------------------
(***************************************************************************)
(* What an agent's queue promises whoever put an item into it: once        *)
(* acknowledged the item waits, is taken with everything that waits beside *)
(* it, and is then said to the model, in one message, or refused aloud. It *)
(* is never said again, never said once refused, and never back in the     *)
(* queue. AgentActor, with its journal, staged writes, hooks, parks, runs  *)
(* and crashes, implements it.                                             *)
(***************************************************************************)

CONSTANTS Items,    \* the messages and reports that may be queued
          Forgets   \* whether an end of the process can take a batch with it

VARIABLES accepted, \* the items acknowledged so far
          queue,    \* those that wait
          taken,    \* those of the turn that is about to start
          said,     \* those that one message of the transcript holds
          refused,  \* those of turns whose failure to start was reported
          up        \* whether the agent is loaded

items == <<accepted, queue, taken, said, refused>>
vars == <<items, up>>

Init == /\ accepted = {} /\ queue = {} /\ taken = {} /\ said = {} /\ refused = {}
        /\ up = TRUE

Accept(i) == /\ i \in Items \ accepted
             /\ accepted' = accepted \cup {i}
             /\ queue' = queue \cup {i}
             /\ UNCHANGED <<taken, said, refused>>

\* One turn at a time, and it takes all that waits.
Take == /\ taken = {}
        /\ taken' = queue
        /\ queue' = {}
        /\ UNCHANGED <<accepted, said, refused>>

TakeAndSay == /\ taken = {}
              /\ said' = said \cup queue
              /\ queue' = {}
              /\ UNCHANGED <<accepted, taken, refused>>

Say == /\ said' = said \cup taken
       /\ taken' = {}
       /\ UNCHANGED <<accepted, queue, refused>>

Refuse == /\ refused' = refused \cup taken
          /\ taken' = {}
          /\ UNCHANGED <<accepted, queue, said>>

\* What a loaded agent does.
Move == /\ (\E i \in Items : Accept(i)) \/ Take \/ TakeAndSay \/ Say \/ Refuse
        /\ up
        /\ UNCHANGED up

End == /\ up
       /\ up' = FALSE
       /\ taken = {} \/ Forgets
       /\ taken' = {}
       /\ UNCHANGED <<accepted, queue, said, refused>>

Begin == /\ ~up
         /\ up' = TRUE
         /\ UNCHANGED items

Next == Move \/ End \/ Begin

Spec == Init /\ [][Next]_vars
=============================================================================
