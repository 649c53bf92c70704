----------------------------- MODULE MCBackfill -----------------------------
(* An instance of Backfill for TLC. *)
EXTENDS Backfill
=============================================================================
