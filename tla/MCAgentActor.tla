---------------------------- MODULE MCAgentActor ----------------------------
(* The instances of AgentActor that TLC checks. *)
EXTENDS AgentActor

Queued(kind, id) == [kind |-> kind, id |-> id, n |-> 0]

OneMessage == {Queued("User", "m1")}
MessageAndReport == {Queued("User", "m1"), Queued("SubAgent", "s1")}
MessageAndCompact == {Queued("User", "m1"), Queued("Compact", "c1")}
MessageAndBranch == {Queued("User", "m1"), Queued("SubSession", "b1")}

=============================================================================
