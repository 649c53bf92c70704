--------------------------- MODULE BoundedWindow ---------------------------
(***************************************************************************)
(* What a ledger bucket window promises: the buckets of the most recent    *)
(* consecutive ledgers, oldest first, never more than Capacity of them.    *)
(***************************************************************************)
EXTENDS Naturals, Sequences

CONSTANTS
    Capacity,      (* the retention window                                 *)
    Content,       (* what a bucket holds for a ledger                     *)
    MaxLedger      (* bound on the ledger sequence numbers                 *)

VARIABLE window    (* the buckets, oldest first                            *)

Bucket == [ledgerSeq : 1..MaxLedger, content : Content]

Init == window = <<>>

\* The bucket of the next ledger enters; the oldest leaves a full window.
Push(b) ==
    /\ window # <<>> => b.ledgerSeq = window[Len(window)].ledgerSeq + 1
    /\ window' = IF Len(window) < Capacity
                 THEN Append(window, b)
                 ELSE Append(Tail(window), b)

Clear == window' = <<>>

Next == Clear \/ \E b \in Bucket : Push(b)

Spec == Init /\ [][Next]_window
=============================================================================
