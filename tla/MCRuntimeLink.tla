---- MODULE MCRuntimeLink ----
(* Two agents of one session, with one call each. *)
EXTENDS RuntimeLink, TLC
CONSTANTS c1, c2, a1, a2

MCIssuer == (c1 :> a1) @@ (c2 :> a2)
====
