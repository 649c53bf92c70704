---------------------------- MODULE MCLedgerStore ---------------------------
(* An instance of LedgerStore for TLC: the readers are model values. *)
EXTENDS LedgerStore
=============================================================================
