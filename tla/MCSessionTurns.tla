--------------------------- MODULE MCSessionTurns ---------------------------
(* SessionTurns for TLC: every constant is given by the configuration. *)
EXTENDS SessionTurns
=============================================================================
