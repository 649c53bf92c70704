----------------------------- MODULE FeeWindow -----------------------------
(***************************************************************************)
(* One fee window (internal/feewindow/feewindow.go): the fees charged in   *)
(* the most recent ledgers, in a LedgerBucketWindow, and the distribution  *)
(* computed from them whenever a ledger enters.  Every operation holds the *)
(* window's lock from its first to its last statement, so each is one      *)
(* step.  A bucket's content is the sequence of the fees of its ledger.    *)
(***************************************************************************)
EXTENDS LedgerBucketWindow, FiniteSets, SequencesExt

\* Fees are unsigned numbers.
ASSUME ContentAssumption == Content \subseteq Seq(Nat)

VARIABLE distribution     (* what GetFeeDistribution returns               *)

feeVars == <<buckets, start, distribution>>

Percentiles == {10, 20, 30, 40, 50, 60, 70, 80, 90, 95, 99}

\* FeeDistribution{}: the zero value.
NoDistribution ==
    [Max |-> 0, Min |-> 0, Mode |-> 0, P |-> [p \in Percentiles |-> 0],
     FeeCount |-> 0, LedgerCount |-> 0]

\* slices.Sort: each fee goes after those that do not exceed it.
Insert(sorted, fee) ==
    InsertAt(sorted, Cardinality({i \in DOMAIN sorted : sorted[i] <= fee}) + 1, fee)
Sort(fees) ==
    LET sort[k \in 0..Len(fees)] == IF k = 0 THEN <<>> ELSE Insert(sort[k - 1], fees[k])
    IN  sort[Len(fees)]

\* A turn of the loop over the clusters of equal fees.
NextFee(acc, fee) ==
    IF fee = acc.lastVal
    THEN [acc EXCEPT !.local = @ + 1]
    ELSE [mode    |-> IF acc.local > acc.max THEN acc.lastVal ELSE acc.mode,
          max     |-> IF acc.local > acc.max THEN acc.local ELSE acc.max,
          lastVal |-> fee,
          local   |-> 0]

\* The loop, over the fees of a sorted, non-empty sequence.
Clusters(fees) ==
    LET scan[k \in 1..Len(fees)] ==
            IF k = 1
            THEN [mode |-> fees[1], max |-> 0, lastVal |-> fees[1], local |-> 0]
            ELSE NextFee(scan[k - 1], fees[k])
    IN  scan[Len(fees)]

\* Mutant: the last cluster of equal fees is not looked at.
ModeOfClosedClusters(fees) == Clusters(fees).mode

ModeOf(fees) ==
    LET end == Clusters(fees)
    IN  IF end.local > end.max THEN end.lastVal ELSE end.mode

\* The nearest-rank percentile of a sorted sequence.
Percentile(fees, p) == fees[((p * Len(fees)) + 100 - 1) \div 100]

computeFeeDistribution(fees, ledgerCount) ==
    LET sorted == Sort(fees) IN
    IF fees = <<>>
    THEN NoDistribution
    ELSE [Max         |-> sorted[Len(sorted)],
          Min         |-> sorted[1],
          Mode        |-> ModeOf(sorted),
          P           |-> [p \in Percentiles |-> Percentile(sorted, p)],
          FeeCount    |-> Len(sorted),
          LedgerCount |-> ledgerCount]

\* The fees of all buckets, oldest ledger first.
AllFees == FlattenSeq([i \in 1..Len(buckets) |-> Get(i - 1).content])

FeeInit == Init /\ distribution = NoDistribution

\* AppendLedgerFees: a bucket the window refuses leaves the distribution alone.
AppendLedgerFees(b) ==
    \/ /\ AppendCell(b) \/ OverwriteCell(b)
       /\ distribution' = computeFeeDistribution(AllFees', Len(buckets'))
    \/ /\ RejectBucket(b)
       /\ UNCHANGED distribution

ResetFees == Reset /\ distribution' = NoDistribution

FeeNext == ResetFees \/ \E b \in Bucket : AppendLedgerFees(b)

FeeSpec == FeeInit /\ [][FeeNext]_feeVars

-----------------------------------------------------------------------------
\* How many of the fees are v, and how many are at most v.
Occurrences(fees, v) == Cardinality({i \in DOMAIN fees : fees[i] = v})
CountUpTo(fees, v) == Cardinality({i \in DOMAIN fees : fees[i] <= v})

\* What the distribution of some fees is, without sorting them: the extremes,
\* the smallest of the most frequent fees, and for each percentile p the
\* smallest fee that p percent of the fees do not exceed.
IsDistribution(d, fees) ==
    LET values == Range(fees) IN
    /\ d.Max \in values /\ \A v \in values : v <= d.Max
    /\ d.Min \in values /\ \A v \in values : d.Min <= v
    /\ d.Mode \in values
    /\ \A v \in values :
          \/ Occurrences(fees, v) < Occurrences(fees, d.Mode)
          \/ Occurrences(fees, v) = Occurrences(fees, d.Mode) /\ d.Mode <= v
    /\ \A p \in Percentiles :
          /\ d.P[p] \in values
          /\ 100 * CountUpTo(fees, d.P[p]) >= p * Len(fees)
          /\ \A v \in values : v < d.P[p] => 100 * CountUpTo(fees, v) < p * Len(fees)
    /\ d.FeeCount = Len(fees)

\* The distribution that getFeeStats reads is always the one of exactly the
\* fees in the window: after every wrap of the circular buffer, every refused
\* bucket and every Reset (AppendLedgerFees, computeFeeDistribution).
DistributionCurrent ==
    IF AllFees = <<>>
    THEN distribution = NoDistribution
    ELSE IsDistribution(distribution, AllFees) /\ distribution.LedgerCount = Len(buckets)
=============================================================================
