-------------------------- MODULE MCRequestLifecycle --------------------------
(* Two slots, so that two requests overlap in every way, over small limits. *)
EXTENDS RequestLifecycle, TLC

CONSTANTS r1, r2

MCRequests == {r1, r2}
=============================================================================
