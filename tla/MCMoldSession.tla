---------------------------- MODULE MCMoldSession ----------------------------
(* MoldSession with small feeds; the bounds are in the configurations. *)
EXTENDS MoldSession
==============================================================================
