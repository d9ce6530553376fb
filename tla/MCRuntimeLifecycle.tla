------------------------- MODULE MCRuntimeLifecycle -------------------------
(* The instances of RuntimeLifecycle that TLC checks. *)
EXTENDS RuntimeLifecycle

NoSub == {}
OneSub == {"branch"}

=============================================================================
