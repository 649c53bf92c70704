-------------------------- MODULE MCIngestService --------------------------
(* An instance of IngestService for TLC. *)
EXTENDS IngestService
=============================================================================
