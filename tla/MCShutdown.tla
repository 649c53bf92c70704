----------------------------- MODULE MCShutdown -----------------------------
(* An instance of Shutdown, with its PreflightPool, for TLC. *)
EXTENDS Shutdown
=============================================================================
