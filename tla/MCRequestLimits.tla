-------------------------- MODULE MCRequestLimits --------------------------
(* An instance of RequestLimits for TLC. *)
EXTENDS RequestLimits
=============================================================================
