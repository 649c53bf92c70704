---------------------------- MODULE MCFeeWindow ----------------------------
(* FeeWindow for TLC: up to MaxFees fees per ledger, each one of Fees. *)
EXTENDS FeeWindow

CONSTANTS Fees, MaxFees

MCContent == BoundedSeq(Fees, MaxFees)
=============================================================================
