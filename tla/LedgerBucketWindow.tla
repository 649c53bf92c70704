------------------------- MODULE LedgerBucketWindow -------------------------
(***************************************************************************)
(* The circular buffer of per-ledger buckets                               *)
(* (internal/ledgerbucketwindow/ledgerbucketwindow.go), the store behind   *)
(* the fee windows.  buckets is the Go slice, cell i of the slice being    *)
(* buckets[i + 1]; the slice never grows past its capacity.                *)
(***************************************************************************)
EXTENDS Naturals, Sequences

CONSTANTS
    Capacity,      (* cap(buckets) : the retention window                  *)
    Content,       (* what a bucket holds for a ledger                     *)
    MaxLedger      (* bound on the ledger sequence numbers                 *)

ASSUME CapacityAssumption == Capacity \in Nat \ {0}
ASSUME LedgerAssumption == MaxLedger \in Nat

VARIABLES
    buckets,       (* the slice                                            *)
    start          (* index of the head in the circular buffer             *)

vars == <<buckets, start>>

Bucket == [ledgerSeq : 1..MaxLedger, content : Content]

\* Get(i): the i-th bucket from the oldest, for i < Len(buckets).
Index(i) == (start + i) % Len(buckets)
Get(i) == buckets[Index(i) + 1]

\* GetLedgerRange: the oldest and the newest ledger, zeros when empty.
GetLedgerRange ==
    IF Len(buckets) = 0
    THEN [first |-> 0, last |-> 0]
    ELSE [first |-> Get(0).ledgerSeq, last |-> Get(Len(buckets) - 1).ledgerSeq]

Init == buckets = <<>> /\ start = 0

\* The bucket must carry the sequence expected after the newest ledger.
Contiguous(b) == Len(buckets) > 0 => b.ledgerSeq = buckets[start + 1].ledgerSeq + Len(buckets)

\* Append to a window that is not full.
AppendCell(b) ==
    /\ Contiguous(b)
    /\ Len(buckets) < Capacity
    /\ buckets' = Append(buckets, b)
    /\ UNCHANGED start

\* Mutant: the head stays where it is when its cell is overwritten.
OverwriteKeepsHead(b) ==
    /\ Contiguous(b)
    /\ Len(buckets) >= Capacity
    /\ buckets' = [buckets EXCEPT ![start + 1] = b]
    /\ UNCHANGED start

\* Append to a full window: the oldest cell is overwritten and becomes the
\* newest.
OverwriteCell(b) ==
    /\ Contiguous(b)
    /\ Len(buckets) >= Capacity
    /\ buckets' = [buckets EXCEPT ![start + 1] = b]
    /\ start' = (start + 1) % Len(buckets)

\* Append refuses every other bucket and changes nothing.
RejectBucket(b) == ~Contiguous(b) /\ UNCHANGED vars

Reset == buckets' = <<>> /\ start' = 0

Next ==
    \/ \E b \in Bucket : AppendCell(b) \/ OverwriteCell(b) \/ RejectBucket(b)
    \/ Reset

Spec == Init /\ [][Next]_vars

-----------------------------------------------------------------------------
\* The slice holds buckets within its capacity and start is one of its cells.
TypeOK ==
    /\ buckets \in Seq(Bucket)
    /\ Len(buckets) <= Capacity
    /\ start \in Nat
    /\ start = 0 \/ start < Len(buckets)

\* The buckets read through Get(0), Get(1), ... belong to consecutive ledgers,
\* across every wrap of the circular buffer and every Reset, and the range
\* reported by GetLedgerRange is the interval of these ledgers.
ConsecutiveLedgers ==
    \A i \in 0..(Len(buckets) - 1) :
        /\ Get(i).ledgerSeq = Get(0).ledgerSeq + i
        /\ Get(i).ledgerSeq <= GetLedgerRange.last

\* Only a full window has moved its head.
HeadMovesWhenFull == start # 0 => Len(buckets) = Capacity

\* The circular buffer, read through Get, is the bounded window of the most
\* recent ledgers.
Logical == [i \in 1..Len(buckets) |-> Get(i - 1)]
Abstract == INSTANCE BoundedWindow WITH window <- Logical
RefinesBoundedWindow == Abstract!Spec
=============================================================================
