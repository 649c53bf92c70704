---------------------- MODULE LedgerBucketWindowProofs ----------------------
(***************************************************************************)
(* The circular buffer of buckets is correct for every capacity: its type, *)
(* the order of the buckets read through Get, and its refinement of        *)
(* BoundedWindow.  All the arithmetic modulo the length of the slice is in *)
(* WrapOnce and LogicalValue; the two ways Append changes the slice are    *)
(* then described on the logical order of the buckets (AppendEffect,       *)
(* OverwriteEffect).                                                       *)
(*                                                                         *)
(* The fee window kept in it reports the distribution of its fees, for     *)
(* every capacity and all fees.  The recursive functions of the model are  *)
(* followed by induction over a set of numbers (CountUp): Sort orders the  *)
(* fees (SortedBy relates every position to a count of fees), the loop     *)
(* over clusters keeps ScanInv, and the nearest rank of a percentile is    *)
(* the smallest fee that enough fees do not exceed.                        *)
(***************************************************************************)
EXTENDS FeeWindow, Integers, FiniteSetTheorems, SequenceTheorems,
        WellFoundedInduction, TLAPS

\* The inductive invariant: consecutive ledgers need the head to be cell 0
\* until the slice is full, or Append would not add at the logical end.
WindowInv == TypeOK /\ HeadMovesWhenFull /\ ConsecutiveLedgers

\* The cell of the i-th bucket from the head at s, in a slice of n cells.
Wrapped(s, n, i) == IF s + i < n THEN s + i ELSE s + i - n

\* The logical order, and the ledgers in it, without modulo.
LogicalCells ==
    Logical = [i \in 1..Len(buckets) |-> buckets[Wrapped(start, Len(buckets), i - 1) + 1]]
LogicalConsecutive ==
    \A i \in 1..Len(Logical) : Logical[i].ledgerSeq = Logical[1].ledgerSeq + (i - 1)

\* An index below twice the length wraps at most once.
LEMMA WrapOnce ==
    ASSUME NEW n \in Nat, NEW s \in 0..(n - 1), NEW i \in 0..n
    PROVE  (s + i) % n = Wrapped(s, n, i)
BY DEF Wrapped

\* A sequence is the function of its elements.
LEMMA SeqElements ==
    ASSUME NEW S, NEW q \in Seq(S)
    PROVE  q = [i \in 1..Len(q) |-> q[i]]
OBVIOUS

\* The elements of a sequence that loses its head and gains an element.
LEMMA ShiftElements ==
    ASSUME NEW S, NEW q \in Seq(S), Len(q) > 0, NEW b \in S
    PROVE  LET t == Append(Tail(q), b)
           IN  /\ t \in Seq(S) /\ Len(t) = Len(q) /\ t[Len(q)] = b
               /\ \A i \in 1..(Len(q) - 1) : t[i] = q[i + 1]
<1>1. /\ Tail(q) \in Seq(S) /\ Len(Tail(q)) = Len(q) - 1
      /\ \A i \in 1..(Len(q) - 1) : Tail(q)[i] = q[i + 1]
  OBVIOUS
<1>. QED
  BY <1>1

\* Get(i) reads the cell at distance i from the head.
LEMMA GetCell ==
    ASSUME TypeOK, NEW i \in 0..(Len(buckets) - 1)
    PROVE  /\ Get(i) = buckets[Wrapped(start, Len(buckets), i) + 1]
           /\ Wrapped(start, Len(buckets), i) \in 0..(Len(buckets) - 1)
           /\ Get(i) \in Bucket
<1>1. Len(buckets) \in Nat /\ start \in 0..(Len(buckets) - 1) /\ i \in 0..Len(buckets)
  BY DEF TypeOK
<1>2. (start + i) % Len(buckets) = Wrapped(start, Len(buckets), i)
  BY <1>1, WrapOnce
<1>3. Wrapped(start, Len(buckets), i) \in 0..(Len(buckets) - 1)
  BY <1>1 DEF Wrapped
<1>. QED
  BY <1>1, <1>2, <1>3 DEF Index, Get, TypeOK

\* The logical order without modulo.
LEMMA LogicalValue == TypeOK => LogicalCells
<1>. SUFFICES ASSUME TypeOK PROVE LogicalCells
  OBVIOUS
<1>1. Len(buckets) \in Nat
  BY DEF TypeOK
<1>2. \A i \in 1..Len(buckets) : Get(i - 1) = buckets[Wrapped(start, Len(buckets), i - 1) + 1]
  BY <1>1, GetCell
<1>. QED
  BY <1>2 DEF Logical, LogicalCells

\* The logical order is a sequence of buckets, as long as the slice.
LEMMA LogicalType ==
    ASSUME TypeOK
    PROVE  /\ Len(buckets) \in Nat
           /\ Logical \in Seq(Bucket)
           /\ Len(Logical) = Len(buckets)
           /\ \A i \in 1..Len(buckets) : /\ Logical[i] = Get(i - 1)
                                         /\ Logical[i] \in Bucket
<1>1. Len(buckets) \in Nat
  BY DEF TypeOK
<1>2. \A i \in 1..Len(buckets) : Get(i - 1) \in Bucket
  BY <1>1, GetCell
<1>. QED
  BY <1>1, <1>2 DEF Logical

\* Appending to a slice that is not full adds at the logical end.
LEMMA AppendEffect ==
    ASSUME WindowInv, NEW b \in Bucket, AppendCell(b)
    PROVE  TypeOK' /\ HeadMovesWhenFull' /\ Logical' = Append(Logical, b)
<1>. DEFINE n == Len(buckets)
<1>1. /\ n \in Nat /\ n < Capacity /\ start = 0 /\ start' = 0
      /\ Capacity \in Nat /\ buckets \in Seq(Bucket)
  BY CapacityAssumption DEF WindowInv, TypeOK, HeadMovesWhenFull, AppendCell
<1>2. /\ buckets' \in Seq(Bucket) /\ Len(buckets') = n + 1
      /\ buckets' = Append(buckets, b)
  BY <1>1 DEF AppendCell
<1>3. TypeOK' /\ HeadMovesWhenFull'
  BY <1>1, <1>2 DEF TypeOK, HeadMovesWhenFull
<1>4. LogicalCells /\ LogicalCells'
  BY <1>3, LogicalValue, PTL DEF WindowInv
<1>5. Logical = [i \in 1..n |-> buckets[i]]
  BY <1>1, <1>4 DEF LogicalCells, Wrapped
<1>6. Logical' = [i \in 1..(n + 1) |-> buckets'[i]]
  BY <1>1, <1>2, <1>4 DEF LogicalCells, Wrapped
<1>7. Logical = buckets /\ Logical' = buckets'
  <2>1. buckets = [i \in 1..n |-> buckets[i]] /\ buckets' = [i \in 1..(n + 1) |-> buckets'[i]]
    BY <1>1, <1>2, SeqElements
  <2>. QED BY <1>5, <1>6, <2>1
<1>. QED
  BY <1>2, <1>3, <1>7

\* Overwriting the head of a full slice drops the oldest bucket and adds the
\* new one at the logical end.
LEMMA OverwriteEffect ==
    ASSUME WindowInv, NEW b \in Bucket, OverwriteCell(b)
    PROVE  TypeOK' /\ HeadMovesWhenFull' /\ Logical' = Append(Tail(Logical), b)
<1>. DEFINE n == Len(buckets)
<1>1. /\ n \in Nat /\ n = Capacity /\ n > 0 /\ start \in 0..(n - 1)
      /\ buckets \in Seq(Bucket)
  BY CapacityAssumption DEF WindowInv, TypeOK, OverwriteCell
<1>2. start' = IF start + 1 < n THEN start + 1 ELSE 0
  <2>1. (start + 1) % n = Wrapped(start, n, 1)
    BY <1>1, WrapOnce
  <2>. QED BY <1>1, <2>1 DEF OverwriteCell, Wrapped
<1>3. /\ buckets' \in Seq(Bucket) /\ Len(buckets') = n
      /\ \A i \in 1..n : buckets'[i] = IF i = start + 1 THEN b ELSE buckets[i]
  BY <1>1 DEF OverwriteCell
<1>4. TypeOK' /\ HeadMovesWhenFull'
  BY <1>1, <1>2, <1>3 DEF TypeOK, HeadMovesWhenFull
<1>5. LogicalCells /\ LogicalCells'
  BY <1>4, LogicalValue, PTL DEF WindowInv
<1>6. Logical = [i \in 1..n |-> buckets[Wrapped(start, n, i - 1) + 1]]
  BY <1>5 DEF LogicalCells
<1>7. Logical' = [i \in 1..n |-> buckets'[Wrapped(start', n, i - 1) + 1]]
  BY <1>3, <1>5 DEF LogicalCells
<1>8. Wrapped(start', n, n - 1) = start
  BY <1>1, <1>2 DEF Wrapped
<1>9. \A i \in 1..(n - 1) : /\ Wrapped(start', n, i - 1) = Wrapped(start, n, i)
                            /\ Wrapped(start, n, i) \in 0..(n - 1)
                            /\ Wrapped(start, n, i) # start
  BY <1>1, <1>2 DEF Wrapped
<1>10. Logical'[n] = b
  BY <1>1, <1>3, <1>7, <1>8
<1>11. \A i \in 1..(n - 1) : Logical'[i] = buckets[Wrapped(start, n, i) + 1]
  <2>. TAKE i \in 1..(n - 1)
  <2>1. i \in 1..n
    BY <1>1
  <2>2. Logical'[i] = buckets'[Wrapped(start, n, i) + 1]
    BY <1>7, <1>9, <2>1
  <2>3. Wrapped(start, n, i) + 1 \in 1..n /\ Wrapped(start, n, i) + 1 # start + 1
    BY <1>1, <1>9
  <2>. QED BY <1>3, <2>2, <2>3
<1>12. \A i \in 1..(n - 1) : Logical[i + 1] = buckets[Wrapped(start, n, i) + 1]
  <2>. TAKE i \in 1..(n - 1)
  <2>1. i + 1 \in 1..n /\ (i + 1) - 1 = i
    BY <1>1
  <2>2. Logical[i + 1] = buckets[Wrapped(start, n, (i + 1) - 1) + 1]
    BY <1>6, <2>1
  <2>. QED BY <2>1, <2>2
<1>13. Logical \in Seq(Bucket) /\ Len(Logical) = n
  BY LogicalType DEF WindowInv
<1>. DEFINE s == Append(Tail(Logical), b)
<1>14. /\ s \in Seq(Bucket) /\ Len(s) = n
       /\ s[n] = b /\ \A i \in 1..(n - 1) : s[i] = Logical[i + 1]
  BY <1>1, <1>13, ShiftElements
<1>15. \A i \in 1..n : Logical'[i] = s[i]
  <2>. HIDE DEF s
  <2>. TAKE i \in 1..n
  <2>1. i = n \/ i \in 1..(n - 1)
    BY <1>1
  <2>. QED BY <1>10, <1>11, <1>12, <1>14, <2>1
<1>16. Logical' = [i \in 1..n |-> Logical'[i]]
  BY <1>7
<1>. HIDE DEF s
<1>17. s = [i \in 1..n |-> s[i]]
  BY <1>14, SeqElements
<1>18. Logical' = s
  BY <1>15, <1>16, <1>17
<1>. QED
  BY <1>4, <1>18 DEF s

\* ConsecutiveLedgers, said of the logical order.
LEMMA ConsecutiveLogical == TypeOK => (ConsecutiveLedgers <=> LogicalConsecutive)
<1>. SUFFICES ASSUME TypeOK PROVE ConsecutiveLedgers <=> LogicalConsecutive
  OBVIOUS
<1>. DEFINE n == Len(buckets)
<1>1. /\ n \in Nat /\ Len(Logical) = n
      /\ \A i \in 1..n : Logical[i] = Get(i - 1)
  BY LogicalType
<1>2. \A i \in 0..(n - 1) : Get(i).ledgerSeq \in Nat
  BY <1>1, GetCell, LedgerAssumption DEF Bucket
<1>3. n # 0 => GetLedgerRange.last = Get(n - 1).ledgerSeq
  BY DEF GetLedgerRange
<1>4. ASSUME ConsecutiveLedgers, NEW i \in 1..n
      PROVE  Logical[i].ledgerSeq = Logical[1].ledgerSeq + (i - 1)
  <2>1. i - 1 \in 0..(n - 1) /\ 1 \in 1..n /\ 1 - 1 = 0
    BY <1>1
  <2>2. Get(i - 1).ledgerSeq = Get(0).ledgerSeq + (i - 1)
    BY <1>4, <2>1 DEF ConsecutiveLedgers
  <2>3. Logical[i] = Get(i - 1) /\ Logical[1] = Get(1 - 1)
    BY <1>1, <2>1
  <2>. QED BY <2>1, <2>2, <2>3
<1>5. ASSUME LogicalConsecutive, NEW i \in 0..(n - 1)
      PROVE  Get(i).ledgerSeq = Get(0).ledgerSeq + i
  <2>1. i + 1 \in 1..n /\ 1 \in 1..n /\ (i + 1) - 1 = i /\ 1 - 1 = 0
    BY <1>1
  <2>2. Logical[i + 1] = Get((i + 1) - 1) /\ Logical[1] = Get(1 - 1)
    BY <1>1, <2>1
  <2>3. Logical[i + 1].ledgerSeq = Logical[1].ledgerSeq + ((i + 1) - 1)
    BY <1>1, <1>5, <2>1 DEF LogicalConsecutive
  <2>. QED BY <2>1, <2>2, <2>3
<1>6. ASSUME LogicalConsecutive, NEW i \in 0..(n - 1)
      PROVE  Get(i).ledgerSeq <= GetLedgerRange.last
  <2>1. n # 0 /\ n - 1 \in 0..(n - 1) /\ 0 \in 0..(n - 1)
    BY <1>1
  <2>2. Get(n - 1).ledgerSeq = Get(0).ledgerSeq + (n - 1)
    BY <1>5, <1>6, <2>1
  <2>3. Get(i).ledgerSeq = Get(0).ledgerSeq + i
    BY <1>5, <1>6
  <2>4. Get(0).ledgerSeq \in Nat
    BY <1>2, <2>1
  <2>. QED BY <1>1, <1>3, <2>1, <2>2, <2>3, <2>4
<1>. QED
  BY <1>1, <1>4, <1>5, <1>6 DEF ConsecutiveLedgers, LogicalConsecutive

\* A bucket that Append accepts follows the newest one.
LEMMA AcceptedFollows ==
    ASSUME WindowInv, NEW b \in Bucket, Contiguous(b), Len(buckets) # 0
    PROVE  /\ b.ledgerSeq = Logical[1].ledgerSeq + Len(Logical)
           /\ b.ledgerSeq = Logical[Len(Logical)].ledgerSeq + 1
<1>. DEFINE n == Len(buckets)
<1>1. n \in Nat /\ n > 0 /\ 1 \in 1..n /\ n \in 1..n /\ 0 \in 0..(n - 1) /\ 1 - 1 = 0
  BY LogicalType DEF WindowInv
<1>2. start \in 0..(n - 1)
  BY <1>1 DEF WindowInv, TypeOK
<1>3. Get(0) = buckets[Wrapped(start, n, 0) + 1] /\ Get(0) \in Bucket
  BY <1>1, GetCell DEF WindowInv
<1>4. Wrapped(start, n, 0) = start
  BY <1>1, <1>2 DEF Wrapped
<1>5. Len(Logical) = n /\ Logical[1] = Get(1 - 1)
  BY <1>1, LogicalType DEF WindowInv
<1>6. Logical[1] = buckets[start + 1] /\ Logical[1].ledgerSeq \in Nat
  BY <1>1, <1>3, <1>4, <1>5, LedgerAssumption DEF Bucket
<1>7. LogicalConsecutive
  BY ConsecutiveLogical DEF WindowInv
<1>8. Logical[n].ledgerSeq = Logical[1].ledgerSeq + (n - 1)
  BY <1>1, <1>5, <1>7 DEF LogicalConsecutive
<1>. QED
  BY <1>1, <1>5, <1>6, <1>8 DEF Contiguous

\* WindowInv is inductive.
LEMMA WindowStep == WindowInv /\ [Next]_vars => WindowInv'
<1>. SUFFICES ASSUME WindowInv, [Next]_vars PROVE WindowInv'
  OBVIOUS
<1>. DEFINE n == Len(buckets)
<1>1. /\ n \in Nat /\ Len(Logical) = n /\ Logical \in Seq(Bucket)
      /\ \A i \in 1..n : Logical[i].ledgerSeq \in Nat
  BY LogicalType, LedgerAssumption DEF WindowInv, Bucket
<1>2. \A i \in 1..n : Logical[i].ledgerSeq = Logical[1].ledgerSeq + (i - 1)
  BY <1>1, ConsecutiveLogical DEF WindowInv, LogicalConsecutive
<1>3. ASSUME NEW b \in Bucket, AppendCell(b) PROVE WindowInv'
  <2>1. TypeOK' /\ HeadMovesWhenFull' /\ Logical' = Append(Logical, b)
    BY <1>3, AppendEffect
  <2>2. n # 0 => b.ledgerSeq = Logical[1].ledgerSeq + n
    BY <1>1, <1>3, AcceptedFollows DEF AppendCell
  <2>3. b.ledgerSeq \in Nat
    BY LedgerAssumption DEF Bucket
  <2>4. LogicalConsecutive'
    BY <1>1, <1>2, <2>1, <2>2, <2>3 DEF LogicalConsecutive
  <2>5. ConsecutiveLedgers'
    BY <2>1, <2>4, ConsecutiveLogical, PTL
  <2>. QED BY <2>1, <2>5 DEF WindowInv
<1>4. ASSUME NEW b \in Bucket, OverwriteCell(b) PROVE WindowInv'
  <2>1. TypeOK' /\ HeadMovesWhenFull' /\ Logical' = Append(Tail(Logical), b)
    BY <1>4, OverwriteEffect
  <2>2. n > 0
    BY <1>1, <1>4, CapacityAssumption DEF OverwriteCell
  <2>3. b.ledgerSeq = Logical[1].ledgerSeq + n /\ b.ledgerSeq \in Nat
    BY <1>1, <1>4, <2>2, AcceptedFollows, LedgerAssumption DEF OverwriteCell, Bucket
  <2>4. /\ Len(Logical') = n
        /\ Logical'[n] = b
        /\ \A i \in 1..(n - 1) : Logical'[i] = Logical[i + 1]
    BY <1>1, <2>1, <2>2, ShiftElements
  <2>5. \A i \in 1..(n - 1) : Logical'[i].ledgerSeq = Logical[1].ledgerSeq + i
    <3>. TAKE i \in 1..(n - 1)
    <3>1. i + 1 \in 1..n /\ (i + 1) - 1 = i
      BY <1>1
    <3>2. Logical[i + 1].ledgerSeq = Logical[1].ledgerSeq + ((i + 1) - 1)
      BY <1>2, <3>1
    <3>. QED BY <2>4, <3>1, <3>2
  <2>6. \A i \in 1..n : Logical'[i].ledgerSeq = Logical[1].ledgerSeq + i
    <3>. TAKE i \in 1..n
    <3>1. i = n \/ i \in 1..(n - 1)
      BY <1>1
    <3>. QED BY <2>3, <2>4, <2>5, <3>1
  <2>7. LogicalConsecutive'
    <3>1. 1 \in 1..n /\ Logical[1].ledgerSeq \in Nat
      BY <1>1, <2>2
    <3>2. Logical'[1].ledgerSeq = Logical[1].ledgerSeq + 1
      BY <2>6, <3>1
    <3>3. ASSUME NEW i \in 1..n
          PROVE  Logical'[i].ledgerSeq = Logical'[1].ledgerSeq + i - 1
      <4>1. i \in Nat
        BY <1>1
      <4>2. Logical'[i].ledgerSeq = Logical[1].ledgerSeq + i
        BY <2>6
      <4>3. Logical[1].ledgerSeq + i = Logical[1].ledgerSeq + 1 + i - 1
        BY <3>1, <4>1
      <4>. QED BY <3>2, <4>2, <4>3
    <3>. QED BY <2>4, <3>3 DEF LogicalConsecutive
  <2>8. ConsecutiveLedgers'
    BY <2>1, <2>7, ConsecutiveLogical, PTL
  <2>. QED BY <2>1, <2>8 DEF WindowInv
<1>5. ASSUME Reset PROVE WindowInv'
  BY <1>5, CapacityAssumption
     DEF Reset, WindowInv, TypeOK, HeadMovesWhenFull, ConsecutiveLedgers
<1>6. ASSUME UNCHANGED vars PROVE WindowInv'
  BY <1>6
     DEF vars, WindowInv, TypeOK, HeadMovesWhenFull, ConsecutiveLedgers, GetLedgerRange, Get, Index
<1>. QED
  BY <1>3, <1>4, <1>5, <1>6 DEF Next, RejectBucket

\* WindowInv holds in every behaviour.
LEMMA WindowInvariant == Spec => []WindowInv
<1>1. Init => WindowInv
  BY CapacityAssumption
     DEF Init, WindowInv, TypeOK, HeadMovesWhenFull, ConsecutiveLedgers
<1>. QED
  BY <1>1, WindowStep, PTL DEF Spec

\* The slice never outgrows its capacity and the head is always one of its
\* cells, for every capacity (Append's growth and wrap-around).
THEOREM WindowTypeCorrect == Spec => []TypeOK
<1>1. WindowInv => TypeOK
  BY DEF WindowInv
<1>. QED
  BY <1>1, WindowInvariant, PTL

\* For every capacity, Get enumerates consecutive ledgers and GetLedgerRange
\* is their interval, across wraps and resets.
THEOREM LedgersAreConsecutive == Spec => []ConsecutiveLedgers
<1>1. WindowInv => ConsecutiveLedgers
  BY DEF WindowInv
<1>. QED
  BY <1>1, WindowInvariant, PTL

\* For every capacity the circular buffer implements the bounded window of the
\* most recent consecutive ledgers.
THEOREM WindowRefinement == Spec => RefinesBoundedWindow
<1>1. Init => Abstract!Init
  BY DEF Init, Abstract!Init, Logical
<1>2. WindowInv /\ [Next]_vars => [Abstract!Next]_Logical
  <2>. SUFFICES ASSUME WindowInv, [Next]_vars PROVE [Abstract!Next]_Logical
    OBVIOUS
  <2>1. Len(buckets) \in Nat /\ Len(Logical) = Len(buckets) /\ Logical \in Seq(Bucket)
    BY LogicalType DEF WindowInv
  <2>2. ASSUME NEW b \in Bucket, AppendCell(b) PROVE Abstract!Push(b)
    <3>1. Logical' = Append(Logical, b)
      BY <2>2, AppendEffect
    <3>2. Logical # <<>> => b.ledgerSeq = Logical[Len(Logical)].ledgerSeq + 1
      BY <2>1, <2>2, AcceptedFollows DEF AppendCell
    <3>. QED BY <2>1, <2>2, <3>1, <3>2 DEF Abstract!Push, AppendCell
  <2>3. ASSUME NEW b \in Bucket, OverwriteCell(b) PROVE Abstract!Push(b)
    <3>1. Logical' = Append(Tail(Logical), b)
      BY <2>3, OverwriteEffect
    <3>2. Logical # <<>> => b.ledgerSeq = Logical[Len(Logical)].ledgerSeq + 1
      BY <2>1, <2>3, AcceptedFollows DEF OverwriteCell
    <3>3. ~(Len(Logical) < Capacity)
      BY <2>1, <2>3, CapacityAssumption DEF OverwriteCell
    <3>. QED BY <3>1, <3>2, <3>3 DEF Abstract!Push
  <2>4. ASSUME Reset PROVE Abstract!Clear
    BY <2>4 DEF Reset, Abstract!Clear, Logical
  <2>5. ASSUME UNCHANGED vars PROVE Logical' = Logical
    BY <2>5 DEF vars, Logical, Get, Index
  <2>6. Abstract!Bucket = Bucket
    BY DEF Abstract!Bucket, Bucket
  <2>. QED
    BY <2>2, <2>3, <2>4, <2>5, <2>6 DEF Next, RejectBucket, Abstract!Next
<1>. QED
  BY <1>1, <1>2, WindowInvariant, PTL DEF Spec, RefinesBoundedWindow, Abstract!Spec

-----------------------------------------------------------------------------
\* Induction up to n, over a set: without the step there would be a smallest
\* number that is missing.
LEMMA CountUp ==
    ASSUME NEW n \in Nat, NEW T, 0 \in T, \A k \in 1..n : k - 1 \in T => k \in T
    PROVE  0..n \subseteq T
<1>. DEFINE Missing == (0..n) \ T
            R == OpToRel(<, Nat)
<1>1. SUFFICES ASSUME Missing # {} PROVE FALSE
  OBVIOUS
<1>2. PICK m \in Missing : \A k \in Missing : ~(<<k, m>> \in R)
  <2>1. Missing \subseteq Nat
    OBVIOUS
  <2>. HIDE DEF Missing, R
  <2>. QED
    BY <1>1, <2>1, NatLessThanWellFounded, WFMin DEF R
<1>3. m \in 1..n /\ m - 1 \in 0..n
  OBVIOUS
<1>4. <<m - 1, m>> \in R
  BY <1>3 DEF OpToRel
<1>. QED
  BY <1>2, <1>3, <1>4

-----------------------------------------------------------------------------
\* How many of the first k fees are at most w.
UpTo(fees, k, w) == Cardinality({j \in 1..k : fees[j] <= w})

\* A number up to k, and all of k only if every one of the first k fees is at most w.
LEMMA UpToType ==
    ASSUME NEW n \in Nat, NEW fees \in [1..n -> Nat], NEW k \in 0..n, NEW w \in Int
    PROVE  /\ UpTo(fees, k, w) \in 0..k
           /\ IsFiniteSet({j \in 1..k : fees[j] <= w})
           /\ UpTo(fees, k, w) = k => \A j \in 1..k : fees[j] <= w
<1>. DEFINE S == {j \in 1..k : fees[j] <= w}
<1>1. k \in Nat /\ IsFiniteSet(1..k) /\ Cardinality(1..k) = k
  BY FS_Interval
<1>2. S \subseteq 1..k
  OBVIOUS
<1>3. IsFiniteSet(S) /\ Cardinality(S) <= k /\ (Cardinality(S) = k => S = 1..k)
  <2>. HIDE DEF S
  <2>1. IsFiniteSet(S) /\ Cardinality(S) <= Cardinality(1..k)
    BY <1>1, <1>2, FS_Subset
  <2>2. Cardinality(S) = Cardinality(1..k) => S = 1..k
    BY <1>1, <1>2, FS_Subset
  <2>. QED
    BY <1>1, <2>1, <2>2
<1>4. Cardinality(S) \in Nat
  <2>. HIDE DEF S
  <2>. QED
    BY <1>3, FS_CardinalityType
<1>5. Cardinality(S) = k => \A j \in 1..k : fees[j] <= w
  BY <1>3
<1>. QED
  BY <1>1, <1>3, <1>4, <1>5 DEF UpTo

\* One fee more counts if it is at most w.
LEMMA UpToStep ==
    ASSUME NEW n \in Nat, NEW fees \in [1..n -> Nat], NEW k \in 1..n, NEW w \in Int
    PROVE  UpTo(fees, k, w) = UpTo(fees, k - 1, w) + (IF fees[k] <= w THEN 1 ELSE 0)
<1>. DEFINE S == {j \in 1..k : fees[j] <= w}
            T == {j \in 1..(k - 1) : fees[j] <= w}
<1>0. UpTo(fees, k, w) = Cardinality(S) /\ UpTo(fees, k - 1, w) = Cardinality(T)
  BY DEF UpTo
<1>1. IsFiniteSet(T) /\ k \notin T /\ UpTo(fees, k - 1, w) \in Nat
  <2>1. k - 1 \in 0..n
    OBVIOUS
  <2>2. IsFiniteSet(T) /\ UpTo(fees, k - 1, w) \in 0..(k - 1)
    BY <2>1, UpToType
  <2>. QED
    BY <2>2
<1>. HIDE DEF S, T
<1>2. CASE fees[k] <= w
  <2>1. S = T \cup {k}
    BY <1>2 DEF S, T
  <2>2. Cardinality(S) = Cardinality(T) + 1
    BY <1>1, <2>1, FS_AddElement
  <2>. QED
    BY <1>0, <1>2, <2>2
<1>3. CASE ~(fees[k] <= w)
  <2>1. S = T
    BY <1>3 DEF S, T
  <2>. QED
    BY <1>0, <1>1, <1>3, <2>1
<1>. QED
  BY <1>2, <1>3

\* A larger bound has no fewer fees below it.
LEMMA UpToMonotone ==
    ASSUME NEW n \in Nat, NEW fees \in [1..n -> Nat], NEW k \in 0..n,
           NEW w \in Int, NEW x \in Int, w <= x
    PROVE  UpTo(fees, k, w) <= UpTo(fees, k, x)
<1>. DEFINE S == {j \in 1..k : fees[j] <= w}
            T == {j \in 1..k : fees[j] <= x}
<1>1. IsFiniteSet(T)
  BY UpToType
<1>2. S \subseteq T
  OBVIOUS
<1>3. Cardinality(S) <= Cardinality(T)
  <2>. HIDE DEF S, T
  <2>. QED
    BY <1>1, <1>2, FS_Subset
<1>. QED
  BY <1>3 DEF UpTo

\* The fees equal to v are those up to v without those up to v - 1, and there
\* is one if v is one of the fees.
LEMMA OccurrencesUpTo ==
    ASSUME NEW n \in Nat, NEW fees \in [1..n -> Nat], NEW v \in Nat
    PROVE  /\ Occurrences(fees, v) = UpTo(fees, n, v) - UpTo(fees, n, v - 1)
           /\ v \in Range(fees) => Occurrences(fees, v) > 0
<1>. DEFINE A == {j \in 1..n : fees[j] <= v}
            B == {j \in 1..n : fees[j] <= v - 1}
            E == {j \in 1..n : fees[j] = v}
<1>1. IsFiniteSet(A) /\ IsFiniteSet(B) /\ Cardinality(B) \in Nat /\ Cardinality(A) \in Nat
  <2>1. n \in 0..n /\ v - 1 \in Int /\ v \in Int
    OBVIOUS
  <2>2. IsFiniteSet(A) /\ IsFiniteSet(B)
    BY <2>1, UpToType
  <2>. HIDE DEF A, B
  <2>. QED
    BY <2>2, FS_CardinalityType
<1>2. E \subseteq A /\ A = B \cup E /\ B \cap E = {}
  OBVIOUS
<1>3. /\ IsFiniteSet(E) /\ Cardinality(E) \in Nat
      /\ Cardinality(A) = Cardinality(B) + Cardinality(E)
  <2>. HIDE DEF A, B, E
  <2>1. IsFiniteSet(E) /\ Cardinality(E) \in Nat
    BY <1>1, <1>2, FS_Subset, FS_CardinalityType
  <2>2. Cardinality(B \cup E) = Cardinality(B) + Cardinality(E) - Cardinality(B \cap E)
    BY <1>1, <2>1, FS_Union
  <2>3. Cardinality(B \cap E) = 0
    BY <1>2, FS_EmptySet
  <2>. QED
    BY <1>1, <1>2, <2>1, <2>2, <2>3
<1>4. Occurrences(fees, v) = Cardinality(E)
  <2>1. {i \in DOMAIN fees : fees[i] = v} = E
    OBVIOUS
  <2>. QED
    BY <2>1 DEF Occurrences
<1>5. ASSUME v \in Range(fees)
      PROVE  Cardinality(E) > 0
  <2>1. E # {}
    BY <1>5 DEF Range
  <2>. HIDE DEF E
  <2>. QED
    BY <1>3, <2>1, FS_EmptySet
<1>. QED
  BY <1>1, <1>3, <1>4, <1>5 DEF UpTo

-----------------------------------------------------------------------------
\* s has the first k fees in their order: the i-th of them is at most w just
\* when at least i of them are.
SortedBy(s, fees, k) ==
    /\ s \in [1..k -> Nat]
    /\ \A i \in 1..k : \E j \in 1..k : s[i] = fees[j]
    /\ \A i \in 1..k, w \in Int : s[i] <= w <=> i <= UpTo(fees, k, w)

\* A function on 1..n is a sequence of length n.
LEMMA FunctionIsSequence ==
    ASSUME NEW n \in Nat, NEW s \in [1..n -> Nat]
    PROVE  s \in Seq(Nat) /\ Len(s) = n
OBVIOUS

\* t is s, of length n, with v inserted after its first m elements.
Inserted(t, s, n, m, v) ==
    /\ t \in [1..(n + 1) -> Nat]
    /\ \A i \in 1..(n + 1) : t[i] = IF i <= m THEN s[i] ELSE IF i = m + 1 THEN v ELSE s[i - 1]

\* InsertAt's sequences, element by element.
LEMMA InsertElements ==
    ASSUME NEW n \in Nat, NEW s \in [1..n -> Nat], NEW m \in 0..n, NEW v \in Nat
    PROVE  Inserted(InsertAt(s, m + 1, v), s, n, m, v)
<1>s. s \in Seq(Nat) /\ Len(s) = n
  BY FunctionIsSequence
<1>1. PICK a : a = SubSeq(s, 1, m)
  OBVIOUS
<1>2. PICK b : b = SubSeq(s, m + 1, n)
  OBVIOUS
<1>3. PICK o : o = <<v>>
  OBVIOUS
<1>a. a \in Seq(Nat) /\ Len(a) = m /\ \A i \in 1..m : a[i] = s[i]
  BY <1>s, <1>1
<1>b. b \in Seq(Nat) /\ Len(b) = n - m /\ \A i \in 1..(n - m) : b[i] = s[m + i]
  BY <1>s, <1>2
<1>o. o \in Seq(Nat) /\ Len(o) = 1 /\ o[1] = v
  BY <1>3
<1>4. PICK c : c = a \o o
  OBVIOUS
<1>c. /\ c \in Seq(Nat) /\ Len(c) = m + 1
      /\ \A i \in 1..(m + 1) : c[i] = IF i <= m THEN a[i] ELSE o[i - m]
  <2>1. /\ c \in Seq(Nat) /\ Len(c) = Len(a) + Len(o)
        /\ \A i \in 1..(Len(a) + Len(o)) : c[i] = IF i <= Len(a) THEN a[i] ELSE o[i - Len(a)]
    BY <1>a, <1>o, <1>4, ConcatProperties
  <2>2. Len(a) = m /\ Len(a) + Len(o) = m + 1
    BY <1>a, <1>o
  <2>. QED
    BY <2>1, <2>2
<1>5. PICK t : t = c \o b
  OBVIOUS
<1>t. /\ t \in Seq(Nat) /\ Len(t) = n + 1
      /\ \A i \in 1..(n + 1) : t[i] = IF i <= m + 1 THEN c[i] ELSE b[i - (m + 1)]
  <2>1. /\ t \in Seq(Nat) /\ Len(t) = Len(c) + Len(b)
        /\ \A i \in 1..(Len(c) + Len(b)) : t[i] = IF i <= Len(c) THEN c[i] ELSE b[i - Len(c)]
    BY <1>b, <1>c, <1>5, ConcatProperties
  <2>2. Len(c) = m + 1 /\ Len(c) + Len(b) = n + 1
    BY <1>b, <1>c
  <2>. QED
    BY <2>1, <2>2
<1>6. InsertAt(s, m + 1, v) = t
  <2>1. InsertAt(s, m + 1, v) = SubSeq(s, 1, (m + 1) - 1) \o <<v>> \o SubSeq(s, m + 1, n)
    BY <1>s DEF InsertAt
  <2>2. (m + 1) - 1 = m
    OBVIOUS
  <2>3. InsertAt(s, m + 1, v) = SubSeq(s, 1, m) \o <<v>> \o SubSeq(s, m + 1, n)
    BY <2>1, <2>2, Zenon
  <2>. QED
    BY <1>1, <1>2, <1>3, <1>4, <1>5, <2>3, Zenon
<1>7. ASSUME NEW i \in 1..(n + 1)
      PROVE  t[i] = IF i <= m THEN s[i] ELSE IF i = m + 1 THEN v ELSE s[i - 1]
  <2>1. CASE i <= m
    BY <1>a, <1>c, <1>t, <2>1
  <2>2. CASE i = m + 1
    <3>1. t[m + 1] = c[m + 1] /\ c[m + 1] = o[(m + 1) - m] /\ (m + 1) - m = 1
      BY <1>c, <1>t
    <3>2. t[i] = v
      BY <1>o, <2>2, <3>1
    <3>. QED
      BY <2>2, <3>2
  <2>3. CASE i > m + 1
    <3>1. i - (m + 1) \in 1..(n - m) /\ m + (i - (m + 1)) = i - 1
      BY <2>3
    <3>2. t[i] = b[i - (m + 1)]
      BY <1>t, <2>3
    <3>3. b[i - (m + 1)] = s[m + (i - (m + 1))]
      BY <1>b, <3>1
    <3>4. t[i] = s[i - 1]
      BY <3>1, <3>2, <3>3
    <3>. QED
      BY <2>3, <3>4
  <2>. QED
    BY <2>1, <2>2, <2>3
<1>8. t \in [1..(n + 1) -> Nat]
  BY <1>t
<1>. QED
  BY <1>6, <1>7, <1>8, Zenon DEF Inserted

\* The places before, at and after an insertion.
LEMMA InsertIndex ==
    ASSUME NEW q \in Nat, NEW m \in 0..q
    PROVE  /\ {i \in 1..q : i <= m} = 1..m
           /\ Cardinality(1..m) = m
           /\ \A i \in 1..(q + 1) :
                 /\ i \in Nat
                 /\ i <= m => i \in 1..q
                 /\ i = m + 1 => ~(i <= m)
                 /\ i > m + 1 => i - 1 \in 1..q /\ ~(i <= m) /\ i # m + 1
                 /\ i <= m \/ i = m + 1 \/ i > m + 1
<1>1. Cardinality(1..m) = m
  BY FS_Interval
<1>. QED
  BY <1>1

\* The insertion keeps the order: m elements are at most v, c at most w.
LEMMA InsertArithmetic ==
    ASSUME NEW m \in Nat, NEW c \in Nat, NEW i \in Nat, NEW v \in Nat, NEW w \in Int, NEW x \in Nat,
           v <= w => m <= c,
           w <= v => c <= m,
           \/ i <= m /\ (x <= w <=> i <= c)
           \/ i = m + 1 /\ x = v
           \/ i > m + 1 /\ (x <= w <=> i - 1 <= c)
    PROVE  x <= w <=> i <= c + (IF v <= w THEN 1 ELSE 0)
OBVIOUS

\* Inserting the next fee keeps the fees before it in order.
LEMMA InsertSorts ==
    ASSUME NEW n \in Nat, NEW fees \in [1..n -> Nat], NEW k \in 1..n, NEW s,
           SortedBy(s, fees, k - 1)
    PROVE  SortedBy(Insert(s, fees[k]), fees, k)
<1>q. PICK q \in Nat : q = k - 1 /\ q + 1 = k /\ q \in 0..n
  OBVIOUS
<1>v. PICK v \in Nat : v = fees[k]
  OBVIOUS
<1>vi. v \in Int
  OBVIOUS
<1>1. /\ s \in [1..q -> Nat]
      /\ \A i \in 1..q : \E j \in 1..q : s[i] = fees[j]
      /\ \A i \in 1..q : \A w \in Int : s[i] <= w <=> i <= UpTo(fees, q, w)
  BY <1>q DEF SortedBy
<1>2. PICK C \in [Int -> 0..q] : \A w \in Int : C[w] = UpTo(fees, q, w)
  <2>1. \A w \in Int : UpTo(fees, q, w) \in 0..q
    BY <1>q, UpToType
  <2>2. [w \in Int |-> UpTo(fees, q, w)] \in [Int -> 0..q]
    BY <2>1
  <2>. QED
    BY <2>2
<1>3. \A i \in 1..q : \A w \in Int : s[i] <= w <=> i <= C[w]
  BY <1>1, <1>2
<1>m. PICK m \in 0..q : m = C[v]
  BY <1>vi, Zenon
<1>t. PICK t : t = Insert(s, v)
  OBVIOUS
<1>4. t = InsertAt(s, m + 1, v)
  <2>1. DOMAIN s = 1..q
    BY <1>1
  <2>2. {i \in DOMAIN s : s[i] <= v} = {i \in 1..q : i <= m}
    BY <1>3, <1>vi, <1>m, <2>1, Zenon
  <2>3. {i \in 1..q : i <= m} = 1..m /\ Cardinality(1..m) = m
    BY InsertIndex, Zenon
  <2>. QED
    BY <1>t, <2>2, <2>3, Zenon DEF Insert
<1>5. /\ t \in [1..(q + 1) -> Nat]
      /\ \A i \in 1..(q + 1) : t[i] = IF i <= m THEN s[i]
                                      ELSE IF i = m + 1 THEN v ELSE s[i - 1]
  <2>1. Inserted(InsertAt(s, m + 1, v), s, q, m, v)
    BY <1>1, InsertElements, Zenon
  <2>. QED
    BY <1>4, <2>1, Zenon DEF Inserted
<1>6. \A w \in Int : UpTo(fees, k, w) = C[w] + (IF v <= w THEN 1 ELSE 0)
  BY <1>q, <1>v, <1>2, UpToStep
<1>7. ASSUME NEW w \in Int
      PROVE  (v <= w => m <= C[w]) /\ (w <= v => C[w] <= m)
  <2>1. /\ v <= w => UpTo(fees, q, v) <= UpTo(fees, q, w)
        /\ w <= v => UpTo(fees, q, w) <= UpTo(fees, q, v)
    BY <1>q, <1>vi, UpToMonotone
  <2>. QED
    BY <1>2, <1>vi, <1>m, <2>1, Zenon
<1>8. ASSUME NEW i \in 1..(q + 1)
      PROVE  /\ i <= m => i \in 1..q /\ t[i] = s[i]
             /\ i = m + 1 => t[i] = v
             /\ i > m + 1 => i - 1 \in 1..q /\ t[i] = s[i - 1]
             /\ i <= m \/ i = m + 1 \/ i > m + 1
  <2>1. t[i] = IF i <= m THEN s[i] ELSE IF i = m + 1 THEN v ELSE s[i - 1]
    BY <1>5, Zenon
  <2>2. /\ i <= m => i \in 1..q
        /\ i = m + 1 => ~(i <= m)
        /\ i > m + 1 => i - 1 \in 1..q /\ ~(i <= m) /\ i # m + 1
        /\ i <= m \/ i = m + 1 \/ i > m + 1
    BY InsertIndex, Zenon
  <2>. QED
    BY <2>1, <2>2, Zenon
<1>9. ASSUME NEW i \in 1..(q + 1)
      PROVE  \E j \in 1..(q + 1) : t[i] = fees[j]
  <2>1. ASSUME NEW x \in 1..q
        PROVE  \E j \in 1..(q + 1) : s[x] = fees[j]
    <3>1. PICK j \in 1..q : s[x] = fees[j]
      BY <1>1
    <3>2. j \in 1..(q + 1)
      OBVIOUS
    <3>. QED
      BY <3>1, <3>2, Zenon
  <2>2. CASE i <= m
    BY <1>8, <2>1, <2>2, Zenon
  <2>3. CASE i = m + 1
    <3>1. q + 1 \in 1..(q + 1) /\ t[i] = fees[q + 1]
      BY <1>8, <1>q, <1>v, <2>3
    <3>. QED
      BY <3>1, Zenon
  <2>4. CASE i > m + 1
    <3>1. i - 1 \in 1..q /\ t[i] = s[i - 1]
      BY <1>8, <2>4, Zenon
    <3>2. \E j \in 1..(q + 1) : s[i - 1] = fees[j]
      BY <2>1, <3>1, Zenon
    <3>. QED
      BY <3>1, <3>2, Zenon
  <2>. QED
    BY <1>8, <2>2, <2>3, <2>4, Zenon
<1>10. ASSUME NEW i \in 1..(q + 1), NEW w \in Int
       PROVE  t[i] <= w <=> i <= UpTo(fees, q + 1, w)
  <2>1. PICK c \in 0..q : c = C[w]
    OBVIOUS
  <2>2. PICK x \in Nat : x = t[i]
    BY <1>5
  <2>3. /\ i <= m => (x <= w <=> i <= c)
        /\ i = m + 1 => x = v
        /\ i > m + 1 => (x <= w <=> i - 1 <= c)
    BY <1>3, <1>8, <2>1, <2>2, Zenon
  <2>4. (v <= w => m <= c) /\ (w <= v => c <= m)
    BY <1>7, <2>1, Zenon
  <2>5. x <= w <=> i <= c + (IF v <= w THEN 1 ELSE 0)
    <3>1. m \in Nat /\ c \in Nat
      OBVIOUS
    <3>2. \/ i <= m /\ (x <= w <=> i <= c)
          \/ i = m + 1 /\ x = v
          \/ i > m + 1 /\ (x <= w <=> i - 1 <= c)
      BY <1>8, <2>3, Zenon
    <3>3. i \in Nat
      BY InsertIndex, Zenon
    <3>. QED
      BY <2>4, <3>1, <3>2, <3>3, InsertArithmetic, SMTT(30)
  <2>6. UpTo(fees, q + 1, w) = c + (IF v <= w THEN 1 ELSE 0)
    BY <1>6, <1>q, <2>1, Zenon
  <2>. QED
    BY <2>2, <2>5, <2>6, Zenon
<1>11. SortedBy(t, fees, q + 1)
  BY <1>5, <1>9, <1>10, Zenon DEF SortedBy
<1>. QED
  BY <1>q, <1>v, <1>t, <1>11, Zenon

\* The function that sorts the first k fees for every k, and what it computes.
Sorter(g, fees, n) == g = [k \in 0..n |-> IF k = 0 THEN <<>> ELSE Insert(g[k - 1], fees[k])]

\* The recursion of Sort defines a function.
LEMMA SorterExists ==
    ASSUME NEW n \in Nat, NEW fees
    PROVE  \E g : Sorter(g, fees, n)
<1>. DEFINE T == {m \in 0..n : \E g : Sorter(g, fees, m)}
<1>1. 0 \in T
  <2>1. Sorter([k \in 0..0 |-> <<>>], fees, 0)
    BY DEF Sorter
  <2>2. \E g : Sorter(g, fees, 0)
    BY <2>1, Zenon
  <2>. QED
    BY <2>2
<1>2. ASSUME NEW m \in 1..n, m - 1 \in T
      PROVE  m \in T
  <2>1. PICK g : Sorter(g, fees, m - 1)
    BY <1>2
  <2>. DEFINE h == [k \in 0..m |-> IF k = m THEN Insert(g[m - 1], fees[m]) ELSE g[k]]
  <2>2. \A k \in 0..(m - 1) : g[k] = IF k = 0 THEN <<>> ELSE Insert(g[k - 1], fees[k])
    BY <2>1 DEF Sorter
  <2>3. ASSUME NEW k \in 0..m
        PROVE  h[k] = IF k = 0 THEN <<>> ELSE Insert(h[k - 1], fees[k])
    <3>1. CASE k = 0
      BY <2>2, <3>1
    <3>2. CASE k # 0
      <4>1. h[k - 1] = g[k - 1]
        BY <3>2
      <4>2. h[k] = Insert(g[k - 1], fees[k])
        BY <2>2, <3>2
      <4>. QED
        BY <3>2, <4>1, <4>2
    <3>. QED
      BY <3>1, <3>2
  <2>4. Sorter(h, fees, m)
    <3>1. h = [k \in 0..m |-> h[k]]
      OBVIOUS
    <3>. HIDE DEF h
    <3>. QED
      BY <2>3, <3>1 DEF Sorter
  <2>5. \E f : Sorter(f, fees, m)
    BY <2>4, Zenon
  <2>. QED
    BY <2>5
<1>3. 0..n \subseteq T
  <2>. HIDE DEF T
  <2>. QED
    BY <1>1, <1>2, CountUp
<1>. QED
  BY <1>3

\* Sort puts all of the fees in order.
LEMMA SortSorts ==
    ASSUME NEW n \in Nat, NEW fees \in [1..n -> Nat]
    PROVE  SortedBy(Sort(fees), fees, n)
<1>1. PICK f : f = CHOOSE g : Sorter(g, fees, n)
  OBVIOUS
<1>2. Sorter(f, fees, n)
  BY <1>1, SorterExists, Zenon
<1>3. Sort(fees) = f[n]
  <2>1. Len(fees) = n
    BY FunctionIsSequence
  <2>. QED
    BY <1>1, <2>1 DEF Sort, Sorter
<1>4. \A k \in 0..n : f[k] = IF k = 0 THEN <<>> ELSE Insert(f[k - 1], fees[k])
  BY <1>2 DEF Sorter
<1>. DEFINE P == {k \in 0..n : SortedBy(f[k], fees, k)}
<1>5. 0 \in P
  <2>1. f[0] = <<>>
    BY <1>4
  <2>2. f[0] \in [1..0 -> Nat]
    BY <2>1
  <2>3. SortedBy(f[0], fees, 0)
    BY <2>2 DEF SortedBy
  <2>. QED
    BY <2>3
<1>6. ASSUME NEW k \in 1..n, k - 1 \in P
      PROVE  k \in P
  <2>1. f[k] = Insert(f[k - 1], fees[k])
    BY <1>4
  <2>2. SortedBy(f[k - 1], fees, k - 1)
    BY <1>6
  <2>3. SortedBy(f[k], fees, k)
    BY <2>1, <2>2, InsertSorts
  <2>. QED
    BY <2>3
<1>7. 0..n \subseteq P
  <2>. HIDE DEF P
  <2>. QED
    BY <1>5, <1>6, CountUp
<1>8. SortedBy(f[n], fees, n)
  BY <1>7
<1>. QED
  BY <1>3, <1>8
-----------------------------------------------------------------------------
\* s is in order, and C says how many of its n elements are at most a number.
Ordered(s, n, C) ==
    /\ s \in [1..n -> Nat]
    /\ C \in [Int -> 0..n]
    /\ \A i \in 1..n : \A w \in Int : s[i] <= w <=> i <= C[w]

\* m is the smallest of the most frequent elements up to u, and occurs x + 1 times.
Best(m, x, s, n, C, u) ==
    /\ \E j \in 1..n : s[j] = m
    /\ m <= u
    /\ C[m] - C[m - 1] = x + 1
    /\ \A j \in 1..n : s[j] <= u => \/ C[s[j]] - C[s[j] - 1] < x + 1
                                    \/ C[s[j]] - C[s[j] - 1] = x + 1 /\ m <= s[j]

\* What the loop over the clusters knows after k elements: the cluster it is
\* in, how many elements of it came before, and the mode of what is smaller.
ScanInv(acc, k, s, n, C) ==
    /\ acc \in [mode : Nat, max : Nat, lastVal : Nat, local : Nat]
    /\ acc.lastVal = s[k]
    /\ acc.local = k - 1 - C[s[k] - 1]
    /\ \/ s[k] = s[1] /\ acc.mode = s[1] /\ acc.max = 0
       \/ Best(acc.mode, acc.max, s, n, C, s[k] - 1)

\* An ordered sequence does not descend.
LEMMA OrderedAscends ==
    ASSUME NEW n \in Nat, NEW s, NEW C, Ordered(s, n, C),
           NEW i \in 1..n, NEW j \in 1..n, i <= j
    PROVE  s[i] <= s[j] /\ s[i] \in Nat /\ s[j] \in Nat
<1>1. PICK y \in Nat : y = s[j]
  BY DEF Ordered
<1>2. y \in Int /\ y <= y
  OBVIOUS
<1>3. PICK c \in 0..n : c = C[y]
  BY <1>2 DEF Ordered
<1>4. s[j] <= y <=> j <= c
  BY <1>2, <1>3, Zenon DEF Ordered
<1>5. j <= c
  BY <1>1, <1>2, <1>4
<1>6. i <= c
  BY <1>5
<1>7. s[i] <= y
  BY <1>2, <1>3, <1>6, Zenon DEF Ordered
<1>8. s[i] \in Nat
  BY DEF Ordered
<1>. QED
  BY <1>1, <1>7, <1>8

\* The arithmetic of closing a cluster of the fee u with l + 1 elements.
LEMMA CloseArithmetic ==
    ASSUME NEW l \in Nat, NEW x \in Nat, NEW md \in Nat,
           NEW u \in Nat, NEW y \in Nat, NEW o \in Int,
           y <= u,
           y = u => o = l + 1,
           \/ u <= y /\ md = u /\ x = 0
           \/ /\ md <= u - 1
              /\ y <= u - 1 => o < x + 1 \/ (o = x + 1 /\ md <= y)
    PROVE  /\ l > x => o < l + 1 \/ (o = l + 1 /\ u <= y)
           /\ ~(l > x) => o < x + 1 \/ (o = x + 1 /\ md <= y)
<1>1. CASE u <= y /\ md = u /\ x = 0
  <2>1. y = u /\ o = l + 1
    BY <1>1
  <2>. QED
    BY <1>1, <2>1
<1>2. CASE md <= u - 1 /\ y = u
  <2>1. o = l + 1
    BY <1>2
  <2>. QED
    BY <1>2, <2>1
<1>3. CASE md <= u - 1 /\ y <= u - 1 /\ (o < x + 1 \/ (o = x + 1 /\ md <= y))
  <2>1. l > x => o < l + 1
    BY <1>3
  <2>2. o < x + 1 \/ (o = x + 1 /\ md <= y)
    BY <1>3, Zenon
  <2>. QED
    BY <2>1, <2>2, Zenon
<1>4. y = u \/ y <= u - 1
  OBVIOUS
<1>. QED
  BY <1>1, <1>2, <1>3, <1>4, Zenon

\* The mode of the elements up to the cluster that k is the last element of.
LEMMA CloseCluster ==
    ASSUME NEW n \in Nat, NEW s, NEW C, Ordered(s, n, C), NEW k \in 1..n,
           NEW acc, ScanInv(acc, k, s, n, C), C[s[k]] = k
    PROVE  /\ acc.local > acc.max => Best(acc.lastVal, acc.local, s, n, C, s[k])
           /\ ~(acc.local > acc.max) => Best(acc.mode, acc.max, s, n, C, s[k])
<1>u. PICK u \in Nat : u = s[k]
  BY DEF Ordered
<1>b. PICK b \in 0..n : b = C[u - 1]
  <2>1. u - 1 \in Int
    OBVIOUS
  <2>. QED
    BY <2>1 DEF Ordered
<1>l. PICK l \in Nat : l = acc.local
  BY Zenon DEF ScanInv
<1>x. PICK x \in Nat : x = acc.max
  BY Zenon DEF ScanInv
<1>m. PICK md \in Nat : md = acc.mode
  BY Zenon DEF ScanInv
<1>1. l = k - 1 - b
  BY <1>u, <1>b, <1>l, Zenon DEF ScanInv
<1>2. C[u] - C[u - 1] = l + 1
  <2>1. C[u] = k
    BY <1>u
  <2>. QED
    BY <1>b, <1>1, <2>1
<1>3. ASSUME NEW j \in 1..n, s[j] <= u
      PROVE  /\ l > x => \/ C[s[j]] - C[s[j] - 1] < l + 1
                         \/ C[s[j]] - C[s[j] - 1] = l + 1 /\ u <= s[j]
             /\ ~(l > x) => \/ C[s[j]] - C[s[j] - 1] < x + 1
                            \/ C[s[j]] - C[s[j] - 1] = x + 1 /\ md <= s[j]
  <2>1. PICK y \in Nat : y = s[j]
    BY DEF Ordered
  <2>2. PICK o \in Int : o = C[y] - C[y - 1]
    <3>1. y \in Int /\ y - 1 \in Int
      OBVIOUS
    <3>2. C[y] \in 0..n /\ C[y - 1] \in 0..n
      BY <3>1, Zenon DEF Ordered
    <3>3. C[y] - C[y - 1] \in Int
      BY <3>2
    <3>. QED
      BY <3>3, Zenon
  <2>3. y <= u
    BY <1>3, <2>1
  <2>4. y = u => o = l + 1
    BY <1>2, <2>2, Zenon
  <2>5. CASE s[k] = s[1] /\ acc.mode = s[1] /\ acc.max = 0
    <3>1. s[1] <= s[j]
      <4>1. 1 \in 1..n /\ 1 <= j
        OBVIOUS
      <4>. QED
        BY <4>1, OrderedAscends, Zenon
    <3>2. u <= y /\ md = u /\ x = 0
      BY <1>u, <1>m, <1>x, <2>1, <2>5, <3>1
    <3>. QED
      BY <2>1, <2>2, <2>3, <2>4, <3>2, CloseArithmetic
  <2>6. CASE Best(acc.mode, acc.max, s, n, C, s[k] - 1)
    <3>1. /\ md <= u - 1
          /\ y <= u - 1 => o < x + 1 \/ (o = x + 1 /\ md <= y)
      <4>1. Best(md, x, s, n, C, u - 1)
        BY <1>u, <1>m, <1>x, <2>6, Zenon
      <4>2. md <= u - 1
        BY <4>1, Zenon DEF Best
      <4>3. s[j] <= u - 1 => \/ C[s[j]] - C[s[j] - 1] < x + 1
                             \/ C[s[j]] - C[s[j] - 1] = x + 1 /\ md <= s[j]
        BY <4>1, Zenon DEF Best
      <4>4. C[s[j]] - C[s[j] - 1] = o
        BY <2>1, <2>2, Zenon
      <4>5. s[j] <= u - 1 => o < x + 1 \/ (o = x + 1 /\ md <= s[j])
        BY <4>3, <4>4, Zenon
      <4>. QED
        BY <2>1, <4>2, <4>5, Zenon
    <3>. QED
      BY <2>1, <2>2, <2>3, <2>4, <3>1, CloseArithmetic
  <2>. QED
    BY <2>5, <2>6, Zenon DEF ScanInv
<1>4. ASSUME l > x
      PROVE  Best(u, l, s, n, C, u)
  <2>1. (\E j \in 1..n : s[j] = u) /\ u <= u
    BY <1>u
  <2>. QED
    BY <1>2, <1>3, <1>4, <2>1, Zenon DEF Best
<1>5. ASSUME ~(l > x)
      PROVE  Best(md, x, s, n, C, u)
  <2>1. CASE s[k] = s[1] /\ acc.mode = s[1] /\ acc.max = 0
    <3>1. md = u /\ x = 0 /\ l = 0
      BY <1>u, <1>m, <1>x, <1>5, <2>1
    <3>2. (\E j \in 1..n : s[j] = md) /\ md <= u /\ C[md] - C[md - 1] = x + 1
      BY <1>u, <1>2, <3>1
    <3>. QED
      BY <1>3, <1>5, <3>2, Zenon DEF Best
  <2>2. CASE Best(acc.mode, acc.max, s, n, C, s[k] - 1)
    <3>1. (\E j \in 1..n : s[j] = md) /\ md <= u - 1 /\ C[md] - C[md - 1] = x + 1
      BY <1>u, <1>m, <1>x, <2>2, Zenon DEF Best
    <3>2. md <= u
      BY <3>1
    <3>. QED
      BY <1>3, <1>5, <3>1, <3>2, Zenon DEF Best
  <2>. QED
    BY <2>1, <2>2, Zenon DEF ScanInv
<1>6. acc.lastVal = u
  BY <1>u, Zenon DEF ScanInv
<1>. QED
  BY <1>u, <1>l, <1>x, <1>m, <1>4, <1>5, <1>6, Zenon

\* A turn of the loop.
LEMMA TurnKeepsScan ==
    ASSUME NEW n \in Nat, NEW s, NEW C, Ordered(s, n, C), NEW j \in 1..n, NEW k \in 1..n, k = j + 1,
           NEW acc, ScanInv(acc, j, s, n, C)
    PROVE  ScanInv(NextFee(acc, s[k]), k, s, n, C)
<1>u. PICK u \in Nat : u = s[j]
  BY DEF Ordered
<1>f. PICK f \in Nat : f = s[k]
  BY DEF Ordered
<1>0. u <= f
  <2>1. j <= k
    OBVIOUS
  <2>. QED
    BY <1>u, <1>f, <2>1, OrderedAscends, Zenon
<1>a. /\ acc.mode \in Nat /\ acc.max \in Nat /\ acc.lastVal \in Nat /\ acc.local \in Nat
      /\ acc \in [mode : Nat, max : Nat, lastVal : Nat, local : Nat]
      /\ acc.lastVal = u
  BY <1>u, Zenon DEF ScanInv
<1>1. CASE f = u
  <2>1. PICK new : new = [acc EXCEPT !.local = acc.local + 1]
    OBVIOUS
  <2>2. NextFee(acc, s[k]) = new
    BY <1>f, <1>1, <1>a, <2>1 DEF NextFee
  <2>3. /\ new \in [mode : Nat, max : Nat, lastVal : Nat, local : Nat]
        /\ new.mode = acc.mode /\ new.max = acc.max /\ new.lastVal = u
        /\ new.local = acc.local + 1
    BY <1>a, <2>1
  <2>4. s[k] = s[j]
    BY <1>u, <1>f, <1>1
  <2>5. new.local = k - 1 - C[s[k] - 1]
    <3>1. acc.local = j - 1 - C[u - 1]
      BY <1>u, Zenon DEF ScanInv
    <3>2. C[u - 1] \in Int
      BY u - 1 \in Int DEF Ordered
    <3>3. new.local = k - 1 - C[u - 1]
      BY <2>3, <3>1, <3>2
    <3>. QED
      BY <1>f, <1>1, <3>3, Zenon
  <2>6. new.lastVal = s[k]
    BY <1>f, <1>1, <2>3
  <2>7. \/ s[k] = s[1] /\ new.mode = s[1] /\ new.max = 0
        \/ Best(new.mode, new.max, s, n, C, s[k] - 1)
    BY <2>3, <2>4, Zenon DEF ScanInv
  <2>8. ScanInv(new, k, s, n, C)
    BY <2>3, <2>5, <2>6, <2>7, Zenon DEF ScanInv
  <2>. QED
    BY <2>2, <2>8, Zenon
<1>2. CASE f # u
  <2>0. u < f /\ u \in Int /\ f - 1 \in Int /\ ~(f <= u) /\ u <= u /\ ~(f <= f - 1) /\ u <= f - 1
    BY <1>0, <1>2
  <2>1. C[u] = j
    <3>1. PICK c \in 0..n : c = C[u]
      BY <2>0 DEF Ordered
    <3>2. j <= c /\ ~(k <= c)
      BY <1>u, <1>f, <2>0, <3>1, Zenon DEF Ordered
    <3>. QED
      BY <3>1, <3>2
  <2>2. C[f - 1] = j
    <3>1. PICK c \in 0..n : c = C[f - 1]
      BY <2>0 DEF Ordered
    <3>2. j <= c /\ ~(k <= c)
      BY <1>u, <1>f, <2>0, <3>1, Zenon DEF Ordered
    <3>. QED
      BY <3>1, <3>2
  <2>3. /\ acc.local > acc.max => Best(u, acc.local, s, n, C, u)
        /\ ~(acc.local > acc.max) => Best(acc.mode, acc.max, s, n, C, u)
    <3>1. C[s[j]] = j
      BY <1>u, <2>1
    <3>. QED
      BY <1>u, <1>a, <3>1, CloseCluster, Zenon
  <2>4. ASSUME NEW m \in Nat, NEW x \in Nat, Best(m, x, s, n, C, u)
        PROVE  Best(m, x, s, n, C, f - 1)
    <3>1. m <= f - 1
      <4>1. m <= u
        BY <2>4, Zenon DEF Best
      <4>. QED
        BY <2>0, <4>1
    <3>2. ASSUME NEW i \in 1..n, s[i] <= f - 1
          PROVE  s[i] <= u
      <4>1. i <= j
        BY <2>0, <2>2, <3>2, Zenon DEF Ordered
      <4>. QED
        BY <1>u, <4>1, OrderedAscends, Zenon
    <3>. QED
      BY <2>4, <3>1, <3>2, Zenon DEF Best
  <2>5. PICK new : new = [mode    |-> IF acc.local > acc.max THEN u ELSE acc.mode,
                          max     |-> IF acc.local > acc.max THEN acc.local ELSE acc.max,
                          lastVal |-> f,
                          local   |-> 0]
    OBVIOUS
  <2>6. NextFee(acc, s[k]) = new
    BY <1>f, <1>2, <1>a, <2>5 DEF NextFee
  <2>7. /\ new \in [mode : Nat, max : Nat, lastVal : Nat, local : Nat]
        /\ new.lastVal = f /\ new.local = 0
    BY <1>a, <2>5
  <2>8. Best(new.mode, new.max, s, n, C, f - 1)
    <3>1. CASE acc.local > acc.max
      <4>1. new.mode = u /\ new.max = acc.local
        BY <2>5, <3>1
      <4>. QED
        BY <1>a, <2>3, <2>4, <3>1, <4>1, Zenon
    <3>2. CASE ~(acc.local > acc.max)
      <4>1. new.mode = acc.mode /\ new.max = acc.max
        BY <2>5, <3>2
      <4>. QED
        BY <1>a, <2>3, <2>4, <3>2, <4>1, Zenon
    <3>. QED
      BY <3>1, <3>2, Zenon
  <2>9. new.local = k - 1 - C[s[k] - 1]
    <3>1. 0 = k - 1 - j
      OBVIOUS
    <3>. QED
      BY <1>f, <2>2, <2>7, <3>1, Zenon
  <2>10. ScanInv(new, k, s, n, C)
    BY <1>f, <2>7, <2>8, <2>9, Zenon DEF ScanInv
  <2>. QED
    BY <2>6, <2>10, Zenon
<1>. QED
  BY <1>1, <1>2

\* The state of the loop before its first turn.
LEMMA FirstFeeScans ==
    ASSUME NEW n \in Nat, 1 \in 1..n, NEW s, NEW C, Ordered(s, n, C)
    PROVE  ScanInv([mode |-> s[1], max |-> 0, lastVal |-> s[1], local |-> 0], 1, s, n, C)
<1>1. PICK u \in Nat : u = s[1]
  BY DEF Ordered
<1>2. PICK c \in 0..n : c = C[u - 1]
  BY u - 1 \in Int DEF Ordered
<1>3. ~(1 <= c)
  <2>1. u - 1 \in Int /\ ~(u <= u - 1)
    OBVIOUS
  <2>. QED
    BY <1>1, <1>2, <2>1, Zenon DEF Ordered
<1>4. c = 0
  BY <1>3
<1>. QED
  BY <1>1, <1>2, <1>4 DEF ScanInv

\* The function that the loop computes, for every number of turns.
Scanner(g, fees, n) ==
    g = [k \in 1..n |-> IF k = 1
                        THEN [mode |-> fees[1], max |-> 0, lastVal |-> fees[1], local |-> 0]
                        ELSE NextFee(g[k - 1], fees[k])]

\* The recursion of Clusters defines a function.
LEMMA ScannerExists ==
    ASSUME NEW n \in Nat, NEW fees
    PROVE  \E g : Scanner(g, fees, n)
<1>. DEFINE T == {m \in 0..n : \E g : Scanner(g, fees, m)}
<1>1. 0 \in T
  <2>1. Scanner([k \in 1..0 |-> 0], fees, 0)
    BY DEF Scanner
  <2>2. \E g : Scanner(g, fees, 0)
    BY <2>1, Zenon
  <2>. QED
    BY <2>2
<1>2. ASSUME NEW m \in 1..n, m - 1 \in T
      PROVE  m \in T
  <2>1. PICK g : Scanner(g, fees, m - 1)
    BY <1>2
  <2>0. PICK first : first = [mode |-> fees[1], max |-> 0, lastVal |-> fees[1], local |-> 0]
    OBVIOUS
  <2>. DEFINE h == [k \in 1..m |->
                       IF k = m THEN (IF m = 1 THEN first ELSE NextFee(g[m - 1], fees[m]))
                                ELSE g[k]]
  <2>2. \A k \in 1..(m - 1) : g[k] = IF k = 1 THEN first ELSE NextFee(g[k - 1], fees[k])
    BY <2>0, <2>1 DEF Scanner
  <2>3. ASSUME NEW k \in 1..m
        PROVE  h[k] = IF k = 1 THEN first ELSE NextFee(h[k - 1], fees[k])
    <3>1. CASE k = 1
      BY <2>2, <3>1
    <3>2. CASE k # 1
      <4>1. h[k - 1] = g[k - 1]
        BY <3>2
      <4>2. h[k] = NextFee(g[k - 1], fees[k])
        BY <2>2, <3>2
      <4>. QED
        BY <3>2, <4>1, <4>2
    <3>. QED
      BY <3>1, <3>2
  <2>4. Scanner(h, fees, m)
    <3>1. h = [k \in 1..m |-> h[k]]
      OBVIOUS
    <3>. HIDE DEF h
    <3>2. h = [k \in 1..m |-> IF k = 1 THEN first ELSE NextFee(h[k - 1], fees[k])]
      BY <2>3, <3>1
    <3>. QED
      BY <2>0, <3>2, Zenon DEF Scanner
  <2>5. \E f : Scanner(f, fees, m)
    BY <2>4, Zenon
  <2>. QED
    BY <2>5
<1>3. 0..n \subseteq T
  <2>. HIDE DEF T
  <2>. QED
    BY <1>1, <1>2, CountUp
<1>. QED
  BY <1>3

\* The state of the loop after its last turn.
LEMMA ClustersScanned ==
    ASSUME NEW n \in Nat, 1 \in 1..n, NEW s, NEW C, Ordered(s, n, C)
    PROVE  ScanInv(Clusters(s), n, s, n, C)
<1>1. PICK f : f = CHOOSE g : Scanner(g, s, n)
  OBVIOUS
<1>2. Scanner(f, s, n)
  BY <1>1, ScannerExists, Zenon
<1>3. Clusters(s) = f[n]
  <2>1. Len(s) = n
    BY FunctionIsSequence, Zenon DEF Ordered
  <2>. QED
    BY <1>1, <2>1 DEF Clusters, Scanner
<1>4. /\ f[1] = [mode |-> s[1], max |-> 0, lastVal |-> s[1], local |-> 0]
      /\ \A k \in 1..n : k # 1 => f[k] = NextFee(f[k - 1], s[k])
  BY <1>2 DEF Scanner
<1>. DEFINE P == {k \in 0..n : k = 0 \/ ScanInv(f[k], k, s, n, C)}
<1>5. 0 \in P
  OBVIOUS
<1>6. ASSUME NEW k \in 1..n, k - 1 \in P
      PROVE  k \in P
  <2>1. CASE k = 1
    <3>1. ScanInv(f[1], 1, s, n, C)
      BY <1>4, FirstFeeScans, Zenon
    <3>. QED
      BY <2>1, <3>1
  <2>2. CASE k # 1
    <3>1. PICK j \in 1..n : j = k - 1 /\ k = j + 1
      BY <2>2
    <3>2. f[k] = NextFee(f[j], s[k])
      BY <1>4, <2>2, <3>1, Zenon
    <3>3. ScanInv(f[j], j, s, n, C)
      BY <1>6, <3>1
    <3>4. ScanInv(f[k], k, s, n, C)
      BY <3>1, <3>2, <3>3, TurnKeepsScan, Zenon
    <3>. QED
      BY <3>4
  <2>. QED
    BY <2>1, <2>2
<1>7. 0..n \subseteq P
  <2>. HIDE DEF P
  <2>. QED
    BY <1>5, <1>6, CountUp
<1>8. n \in P /\ n # 0
  BY <1>7
<1>9. ScanInv(f[n], n, s, n, C)
  BY <1>8
<1>. QED
  BY <1>3, <1>9, Zenon

\* What computeFeeDistribution takes for the mode.
LEMMA ModeOfBest ==
    ASSUME NEW n \in Nat, 1 \in 1..n, NEW s, NEW C, Ordered(s, n, C)
    PROVE  \E x : x \in Nat /\ Best(ModeOf(s), x, s, n, C, s[n])
<1>n. n \in 1..n
  OBVIOUS
<1>1. PICK acc : acc = Clusters(s)
  OBVIOUS
<1>2. ScanInv(acc, n, s, n, C)
  BY <1>1, ClustersScanned, Zenon
<1>3. C[s[n]] = n
  <2>1. PICK u \in Nat : u = s[n]
    BY <1>n DEF Ordered
  <2>2. u \in Int /\ u <= u
    OBVIOUS
  <2>3. PICK c \in 0..n : c = C[u]
    BY <2>2 DEF Ordered
  <2>4. n <= c
    BY <1>n, <2>1, <2>2, <2>3, Zenon DEF Ordered
  <2>. QED
    BY <2>1, <2>3, <2>4
<1>4. acc.local \in Nat /\ acc.max \in Nat
  BY <1>2, Zenon DEF ScanInv
<1>5. /\ acc.local > acc.max => Best(acc.lastVal, acc.local, s, n, C, s[n])
      /\ ~(acc.local > acc.max) => Best(acc.mode, acc.max, s, n, C, s[n])
  BY <1>n, <1>2, <1>3, CloseCluster, Zenon
<1>6. ModeOf(s) = IF acc.local > acc.max THEN acc.lastVal ELSE acc.mode
  BY <1>1 DEF ModeOf
<1>. QED
  BY <1>4, <1>5, <1>6, Zenon

-----------------------------------------------------------------------------
\* The fees in order, with the counts of the fees themselves.
LEMMA SortedIsOrdered ==
    ASSUME NEW n \in Nat, NEW fees \in [1..n -> Nat], NEW s, SortedBy(s, fees, n)
    PROVE  \E C : Ordered(s, n, C) /\ \A w \in Int : C[w] = UpTo(fees, n, w)
<1>1. PICK C : C = [w \in Int |-> UpTo(fees, n, w)]
  OBVIOUS
<1>2. n \in 0..n
  OBVIOUS
<1>3. C \in [Int -> 0..n] /\ \A w \in Int : C[w] = UpTo(fees, n, w)
  BY <1>1, <1>2, UpToType
<1>4. Ordered(s, n, C)
  BY <1>3, Zenon DEF SortedBy, Ordered
<1>. QED
  BY <1>3, <1>4, Zenon

\* The same values are in the sequence of the fees and in the one in order.
LEMMA SameValues ==
    ASSUME NEW n \in Nat, NEW fees \in [1..n -> Nat], NEW s, SortedBy(s, fees, n)
    PROVE  /\ \A i \in 1..n : s[i] \in Range(fees)
           /\ \A v \in Range(fees) : v \in Nat /\ \E i \in 1..n : s[i] = v
<1>1. DOMAIN fees = 1..n
  OBVIOUS
<1>2. \A i \in 1..n : s[i] \in Range(fees)
  BY <1>1, Zenon DEF SortedBy, Range
<1>3. ASSUME NEW v \in Range(fees)
      PROVE  v \in Nat /\ \E i \in 1..n : s[i] = v
  <2>1. v \in Nat
    BY <1>1 DEF Range
  <2>2. v \in Int /\ v - 1 \in Int /\ n \in 0..n
    BY <2>1
  <2>3. PICK i \in 0..n : i = UpTo(fees, n, v)
    BY <2>2, UpToType
  <2>4. PICK h \in 0..n : h = UpTo(fees, n, v - 1)
    BY <2>2, UpToType
  <2>5. i > h
    <3>1. i - h > 0
      BY <2>1, <2>3, <2>4, OccurrencesUpTo
    <3>. QED
      BY <3>1
  <2>6. i \in 1..n /\ i <= i /\ ~(i <= h)
    BY <2>5
  <2>7. s[i] <= v /\ ~(s[i] <= v - 1)
    BY <2>2, <2>3, <2>4, <2>6, Zenon DEF SortedBy
  <2>8. s[i] \in Nat
    BY <2>6 DEF SortedBy
  <2>9. s[i] = v
    BY <2>1, <2>7, <2>8
  <2>. QED
    BY <2>1, <2>6, <2>9, Zenon
<1>. QED
  BY <1>2, <1>3

\* The nearest rank of a percentile.
LEMMA NearestRank ==
    ASSUME NEW n \in Nat, n >= 1, NEW p \in Percentiles
    PROVE  \E k \in 1..n : /\ k = ((p * n) + 100 - 1) \div 100
                           /\ 100 * k >= p * n
                           /\ 100 * (k - 1) < p * n
<1>1. ASSUME NEW x \in Nat, x >= 1, x <= 100 * n
      PROVE  \E k \in 1..n : /\ k = (x + 100 - 1) \div 100
                             /\ 100 * k >= x
                             /\ 100 * (k - 1) < x
  <2>1. PICK k : k = (x + 100 - 1) \div 100
    OBVIOUS
  <2>2. k \in Int /\ 100 * k >= x /\ 100 * (k - 1) < x
    BY <2>1
  <2>3. k \in 1..n
    BY <1>1, <2>2
  <2>. QED
    BY <2>1, <2>2, <2>3, Zenon
<1>2. p * n \in Nat /\ p * n >= 1 /\ p * n <= 100 * n
  BY DEF Percentiles
<1>. QED
  BY <1>1, <1>2, Zenon

\* How many fees are at most v.
LEMMA CountIsUpTo ==
    ASSUME NEW n \in Nat, NEW fees \in [1..n -> Nat], NEW v
    PROVE  CountUpTo(fees, v) = UpTo(fees, n, v)
<1>1. DOMAIN fees = 1..n
  OBVIOUS
<1>. QED
  BY <1>1, Zenon DEF CountUpTo, UpTo

\* The percentile of the fees.
LEMMA PercentileIsRank ==
    ASSUME NEW n \in Nat, n >= 1, NEW fees \in [1..n -> Nat], NEW s, SortedBy(s, fees, n),
           NEW p \in Percentiles
    PROVE  /\ Percentile(s, p) \in Range(fees)
           /\ 100 * CountUpTo(fees, Percentile(s, p)) >= p * n
           /\ \A v \in Range(fees) :
                 v < Percentile(s, p) => 100 * CountUpTo(fees, v) < p * n
<1>1. PICK k \in 1..n : /\ k = ((p * n) + 100 - 1) \div 100
                        /\ 100 * k >= p * n
                        /\ 100 * (k - 1) < p * n
  BY NearestRank
<1>2. Len(s) = n /\ s \in [1..n -> Nat]
  BY FunctionIsSequence, Zenon DEF SortedBy
<1>3. Percentile(s, p) = s[k]
  BY <1>1, <1>2, Zenon DEF Percentile
<1>4. PICK d \in Nat : d = s[k]
  BY <1>2
<1>5. p * n \in Nat
  BY DEF Percentiles
<1>6. 100 * CountUpTo(fees, d) >= p * n
  <2>1. d \in Int /\ d <= d /\ n \in 0..n
    OBVIOUS
  <2>2. PICK c \in 0..n : c = UpTo(fees, n, d)
    BY <2>1, UpToType
  <2>3. k <= c
    BY <1>4, <2>1, <2>2, Zenon DEF SortedBy
  <2>4. 100 * c >= p * n
    BY <1>1, <1>5, <2>3
  <2>. QED
    BY <2>2, <2>4, CountIsUpTo, Zenon
<1>7. ASSUME NEW v \in Range(fees), v < d
      PROVE  100 * CountUpTo(fees, v) < p * n
  <2>1. v \in Nat
    BY SameValues, Zenon
  <2>2. v \in Int /\ ~(d <= v) /\ n \in 0..n
    BY <1>7, <2>1
  <2>3. PICK c \in 0..n : c = UpTo(fees, n, v)
    BY <2>2, UpToType
  <2>4. ~(k <= c)
    BY <1>4, <2>2, <2>3, Zenon DEF SortedBy
  <2>5. c <= k - 1
    BY <2>4
  <2>6. 100 * c < p * n
    BY <1>1, <1>5, <2>5
  <2>. QED
    BY <2>3, <2>6, CountIsUpTo, Zenon
<1>8. s[k] \in Range(fees)
  BY SameValues, Zenon
<1>. QED
  BY <1>3, <1>4, <1>6, <1>7, <1>8, Zenon

\* The mode of the fees.
LEMMA ModeIsMode ==
    ASSUME NEW n \in Nat, n >= 1, NEW fees \in [1..n -> Nat], NEW s, SortedBy(s, fees, n)
    PROVE  /\ ModeOf(s) \in Range(fees)
           /\ \A v \in Range(fees) :
                 \/ Occurrences(fees, v) < Occurrences(fees, ModeOf(s))
                 \/ Occurrences(fees, v) = Occurrences(fees, ModeOf(s)) /\ ModeOf(s) <= v
<1>1. PICK C : Ordered(s, n, C) /\ \A w \in Int : C[w] = UpTo(fees, n, w)
  BY SortedIsOrdered
<1>2. 1 \in 1..n /\ n \in 1..n /\ \A j \in 1..n : j <= n
  OBVIOUS
<1>3. PICK x : x \in Nat /\ Best(ModeOf(s), x, s, n, C, s[n])
  BY <1>1, <1>2, ModeOfBest, Zenon
<1>4. ModeOf(s) \in Range(fees)
  <2>1. PICK j \in 1..n : s[j] = ModeOf(s)
    BY <1>3, Zenon DEF Best
  <2>2. \A i \in 1..n : s[i] \in Range(fees)
    BY SameValues, Zenon
  <2>. QED
    BY <2>1, <2>2, Zenon
<1>5. ASSUME NEW v \in Range(fees)
      PROVE  Occurrences(fees, v) = C[v] - C[v - 1]
  <2>1. v \in Nat
    BY SameValues, Zenon
  <2>2. v \in Int /\ v - 1 \in Int
    BY <2>1
  <2>3. C[v] = UpTo(fees, n, v) /\ C[v - 1] = UpTo(fees, n, v - 1)
    BY <1>1, <2>2, Zenon
  <2>. QED
    BY <2>1, <2>3, OccurrencesUpTo
<1>6. Occurrences(fees, ModeOf(s)) = x + 1
  BY <1>3, <1>4, <1>5, Zenon DEF Best
<1>7. ASSUME NEW v \in Range(fees)
      PROVE  \/ Occurrences(fees, v) < Occurrences(fees, ModeOf(s))
             \/ Occurrences(fees, v) = Occurrences(fees, ModeOf(s)) /\ ModeOf(s) <= v
  <2>0. \A y \in Range(fees) : y \in Nat /\ \E i \in 1..n : s[i] = y
    BY SameValues
  <2>1. PICK j \in 1..n : s[j] = v
    BY <2>0, Zenon
  <2>2. s[j] <= s[n]
    BY <1>1, <1>2, OrderedAscends, Zenon
  <2>3. \/ C[v] - C[v - 1] < x + 1
        \/ C[v] - C[v - 1] = x + 1 /\ ModeOf(s) <= v
    BY <1>3, <2>1, <2>2, Zenon DEF Best
  <2>. QED
    BY <1>5, <1>6, <2>3, Zenon
<1>. QED
  BY <1>4, <1>7

\* computeFeeDistribution computes the distribution of the fees.
LEMMA ComputesDistribution ==
    ASSUME NEW fees \in Seq(Nat), fees # <<>>, NEW c
    PROVE  /\ IsDistribution(computeFeeDistribution(fees, c), fees)
           /\ computeFeeDistribution(fees, c).LedgerCount = c
<1>1. PICK n \in Nat : n = Len(fees)
  OBVIOUS
<1>2. fees \in [1..n -> Nat] /\ n >= 1
  BY <1>1
<1>3. PICK s : s = Sort(fees)
  OBVIOUS
<1>4. SortedBy(s, fees, n)
  BY <1>2, <1>3, SortSorts, Zenon
<1>5. Len(s) = n /\ s \in [1..n -> Nat]
  BY <1>4, FunctionIsSequence, Zenon DEF SortedBy
<1>6. PICK d : d = [Max |-> s[n], Min |-> s[1], Mode |-> ModeOf(s),
                    P |-> [p \in Percentiles |-> Percentile(s, p)],
                    FeeCount |-> n, LedgerCount |-> c]
  OBVIOUS
<1>7. computeFeeDistribution(fees, c) = d
  BY <1>3, <1>5, <1>6, Zenon DEF computeFeeDistribution
<1>8. /\ d.Max = s[n] /\ d.Min = s[1] /\ d.Mode = ModeOf(s) /\ d.FeeCount = n /\ d.LedgerCount = c
      /\ \A p \in Percentiles : d.P[p] = Percentile(s, p)
  BY <1>6
<1>9. /\ d.Max \in Range(fees) /\ \A v \in Range(fees) : v <= d.Max
      /\ d.Min \in Range(fees) /\ \A v \in Range(fees) : d.Min <= v
  <2>1. 1 \in 1..n /\ n \in 1..n
    BY <1>2
  <2>2. s[1] \in Range(fees) /\ s[n] \in Range(fees)
    BY <1>2, <1>4, <2>1, SameValues, Zenon
  <2>3. ASSUME NEW v \in Range(fees)
        PROVE  s[1] <= v /\ v <= s[n]
    <3>0. \A y \in Range(fees) : y \in Nat /\ \E i \in 1..n : s[i] = y
      BY <1>2, <1>4, SameValues
    <3>1. PICK j \in 1..n : s[j] = v
      BY <3>0, Zenon
    <3>2. 1 <= j /\ j <= n
      OBVIOUS
    <3>3. PICK C : Ordered(s, n, C)
      BY <1>2, <1>4, SortedIsOrdered, Zenon
    <3>. QED
      BY <2>1, <3>1, <3>2, <3>3, OrderedAscends, Zenon
  <2>. QED
    BY <1>8, <2>2, <2>3, Zenon
<1>10. /\ d.Mode \in Range(fees)
       /\ \A v \in Range(fees) :
             \/ Occurrences(fees, v) < Occurrences(fees, d.Mode)
             \/ Occurrences(fees, v) = Occurrences(fees, d.Mode) /\ d.Mode <= v
  <2>1. /\ ModeOf(s) \in Range(fees)
        /\ \A v \in Range(fees) :
              \/ Occurrences(fees, v) < Occurrences(fees, ModeOf(s))
              \/ Occurrences(fees, v) = Occurrences(fees, ModeOf(s)) /\ ModeOf(s) <= v
    BY <1>2, <1>4, ModeIsMode, Zenon
  <2>. QED
    BY <1>8, <2>1, Zenon
<1>11. ASSUME NEW p \in Percentiles
       PROVE  /\ d.P[p] \in Range(fees)
              /\ 100 * CountUpTo(fees, d.P[p]) >= p * Len(fees)
              /\ \A v \in Range(fees) :
                    v < d.P[p] => 100 * CountUpTo(fees, v) < p * Len(fees)
  <2>1. /\ Percentile(s, p) \in Range(fees)
        /\ 100 * CountUpTo(fees, Percentile(s, p)) >= p * n
        /\ \A v \in Range(fees) : v < Percentile(s, p) => 100 * CountUpTo(fees, v) < p * n
    BY <1>2, <1>4, PercentileIsRank, Zenon
  <2>2. d.P[p] = Percentile(s, p)
    BY <1>8, Zenon
  <2>. QED
    BY <1>1, <2>1, <2>2, Zenon
<1>12. IsDistribution(d, fees)
  BY <1>1, <1>8, <1>9, <1>10, <1>11, Zenon DEF IsDistribution
<1>. QED
  BY <1>7, <1>8, <1>12, Zenon

-----------------------------------------------------------------------------
\* The function that concatenates the first i sequences, for every i.
Flattener(g, seqs, n) ==
    g = [i \in 1..n |-> IF i = 1 THEN seqs[i] ELSE g[i - 1] \o seqs[i]]

\* The recursion of FlattenSeq defines a function.
LEMMA FlattenerExists ==
    ASSUME NEW n \in Nat, NEW seqs
    PROVE  \E g : Flattener(g, seqs, n)
<1>. DEFINE T == {m \in 0..n : \E g : Flattener(g, seqs, m)}
<1>1. 0 \in T
  <2>1. Flattener([k \in 1..0 |-> 0], seqs, 0)
    BY DEF Flattener
  <2>2. \E g : Flattener(g, seqs, 0)
    BY <2>1, Zenon
  <2>. QED
    BY <2>2
<1>2. ASSUME NEW m \in 1..n, m - 1 \in T
      PROVE  m \in T
  <2>1. PICK g : Flattener(g, seqs, m - 1)
    BY <1>2
  <2>. DEFINE h == [k \in 1..m |-> IF k = m THEN (IF m = 1 THEN seqs[m] ELSE g[m - 1] \o seqs[m])
                                            ELSE g[k]]
  <2>2. \A k \in 1..(m - 1) : g[k] = IF k = 1 THEN seqs[k] ELSE g[k - 1] \o seqs[k]
    BY <2>1 DEF Flattener
  <2>3. ASSUME NEW k \in 1..m
        PROVE  h[k] = IF k = 1 THEN seqs[k] ELSE h[k - 1] \o seqs[k]
    <3>1. CASE k = 1
      BY <2>2, <3>1
    <3>2. CASE k # 1
      <4>1. h[k - 1] = g[k - 1]
        BY <3>2
      <4>2. h[k] = g[k - 1] \o seqs[k]
        <5>1. CASE k = m
          BY <3>2, <5>1
        <5>2. CASE k # m
          <6>1. k \in 1..(m - 1) /\ h[k] = g[k]
            BY <5>2
          <6>2. g[k] = IF k = 1 THEN seqs[k] ELSE g[k - 1] \o seqs[k]
            BY <2>2, <6>1, Zenon
          <6>. QED
            BY <3>2, <6>1, <6>2, Zenon
        <5>. QED
          BY <5>1, <5>2
      <4>. QED
        BY <3>2, <4>1, <4>2
    <3>. QED
      BY <3>1, <3>2
  <2>4. Flattener(h, seqs, m)
    <3>1. h = [k \in 1..m |-> h[k]]
      OBVIOUS
    <3>. HIDE DEF h
    <3>. QED
      BY <2>3, <3>1 DEF Flattener
  <2>5. \E f : Flattener(f, seqs, m)
    BY <2>4, Zenon
  <2>. QED
    BY <2>5
<1>3. 0..n \subseteq T
  <2>. HIDE DEF T
  <2>. QED
    BY <1>1, <1>2, CountUp
<1>. QED
  BY <1>3

\* Concatenating sequences of fees gives a sequence of fees.
LEMMA FlattenType ==
    ASSUME NEW n \in Nat, NEW seqs \in [1..n -> Seq(Nat)]
    PROVE  FlattenSeq(seqs) \in Seq(Nat) /\ (n = 0 => FlattenSeq(seqs) = <<>>)
<1>1. Len(seqs) = n /\ seqs \in Seq(Seq(Nat))
  OBVIOUS
<1>2. CASE n = 0
  <2>1. seqs = <<>>
    BY <1>1, <1>2
  <2>2. FlattenSeq(seqs) = <<>>
    BY <1>1, <1>2, <2>1 DEF FlattenSeq
  <2>. QED
    BY <2>2
<1>3. CASE n # 0
  <2>1. PICK f : f = CHOOSE g : Flattener(g, seqs, n)
    OBVIOUS
  <2>2. Flattener(f, seqs, n)
    BY <2>1, FlattenerExists, Zenon
  <2>3. FlattenSeq(seqs) = f[n]
    BY <1>1, <1>3, <2>1 DEF FlattenSeq, Flattener
  <2>4. \A k \in 1..n : f[k] = IF k = 1 THEN seqs[k] ELSE f[k - 1] \o seqs[k]
    BY <2>2 DEF Flattener
  <2>. DEFINE P == {k \in 0..n : k = 0 \/ f[k] \in Seq(Nat)}
  <2>5. 0 \in P
    OBVIOUS
  <2>6. ASSUME NEW k \in 1..n, k - 1 \in P
        PROVE  k \in P
    <3>1. seqs[k] \in Seq(Nat)
      OBVIOUS
    <3>2. CASE k = 1
      <4>1. f[k] = seqs[k]
        BY <2>4, <3>2
      <4>. QED
        BY <3>1, <4>1
    <3>3. CASE k # 1
      <4>1. f[k - 1] \in Seq(Nat)
        BY <2>6, <3>3
      <4>2. f[k] = f[k - 1] \o seqs[k]
        BY <2>4, <3>3
      <4>3. f[k] \in Seq(Nat)
        BY <3>1, <4>1, <4>2, ConcatProperties
      <4>. QED
        BY <4>3
    <3>. QED
      BY <3>2, <3>3
  <2>7. 0..n \subseteq P
    <3>. HIDE DEF P
    <3>. QED
      BY <2>5, <2>6, CountUp
  <2>8. f[n] \in Seq(Nat)
    BY <1>3, <2>7
  <2>. QED
    BY <1>3, <2>3, <2>8
<1>. QED
  BY <1>2, <1>3

\* The fees of the window are a sequence of fees, empty with the window.
FeesTyped == AllFees \in Seq(Nat) /\ (buckets = <<>> => AllFees = <<>>)

\* AllFees is such a sequence while the window has its type.
LEMMA AllFeesType == TypeOK => FeesTyped
<1>. SUFFICES ASSUME TypeOK PROVE FeesTyped
  OBVIOUS
<1>1. PICK n \in Nat : n = Len(buckets)
  BY DEF TypeOK
<1>2. PICK seqs : seqs = [i \in 1..n |-> Get(i - 1).content]
  OBVIOUS
<1>3. \A i \in 1..n : Get(i - 1).content \in Seq(Nat)
  <2>1. \A i \in 1..n : Get(i - 1) \in Bucket
    BY <1>1, LogicalType
  <2>2. \A b \in Bucket : b.content \in Seq(Nat)
    BY ContentAssumption DEF Bucket
  <2>. QED
    BY <2>1, <2>2, Zenon
<1>4. seqs \in [1..n -> Seq(Nat)]
  BY <1>2, <1>3
<1>5. AllFees = FlattenSeq(seqs)
  BY <1>1, <1>2, Zenon DEF AllFees
<1>6. buckets = <<>> => n = 0
  BY <1>1
<1>. QED
  BY <1>4, <1>5, <1>6, FlattenType, Zenon DEF FeesTyped

\* A step of the fee window is one of the circular buffer.
LEMMA FeeStepIsWindowStep == [FeeNext]_feeVars => [Next]_vars
BY Zenon DEF FeeNext, feeVars, AppendLedgerFees, ResetFees, Next, vars

\* So the fee window keeps the invariant of the circular buffer.
LEMMA FeeWindowInvariant == FeeSpec => []WindowInv
<1>1. FeeSpec => Spec
  <2>1. FeeInit => Init
    BY DEF FeeInit
  <2>. QED
    BY <2>1, FeeStepIsWindowStep, PTL DEF FeeSpec, Spec
<1>. QED
  BY <1>1, WindowInvariant, PTL

\* For every capacity and every content of the ledgers, the distribution that
\* getFeeStats reads is the one of exactly the fees in the window: its
\* extremes, its mode and its percentiles are those of the fees, whatever
\* wraps, refused buckets and resets came before.
THEOREM DistributionIsCurrent == FeeSpec => []DistributionCurrent
<1>1. FeeInit => DistributionCurrent
  <2>. SUFFICES ASSUME FeeInit PROVE DistributionCurrent
    OBVIOUS
  <2>1. buckets = <<>> /\ TypeOK
    BY CapacityAssumption DEF FeeInit, Init, TypeOK
  <2>2. AllFees = <<>>
    BY <2>1, AllFeesType, Zenon DEF FeesTyped
  <2>. QED
    BY <2>2, Zenon DEF FeeInit, DistributionCurrent
<1>2. ASSUME WindowInv, WindowInv', DistributionCurrent, [FeeNext]_feeVars
      PROVE  DistributionCurrent'
  <2>0. AllFees' \in Seq(Nat) /\ (buckets' = <<>> => AllFees' = <<>>)
    <3>1. TypeOK'
      BY <1>2, Zenon DEF WindowInv
    <3>2. FeesTyped'
      BY <3>1, AllFeesType, PTL
    <3>. QED
      BY <3>2, Zenon DEF FeesTyped
  <2>1. ASSUME distribution' = computeFeeDistribution(AllFees', Len(buckets'))
        PROVE  DistributionCurrent'
    <3>1. CASE AllFees' = <<>>
      <4>1. distribution' = NoDistribution
        BY <2>1, <3>1, Zenon DEF computeFeeDistribution
      <4>. QED
        BY <3>1, <4>1, Zenon DEF DistributionCurrent
    <3>2. CASE AllFees' # <<>>
      <4>1. /\ IsDistribution(distribution', AllFees')
            /\ distribution'.LedgerCount = Len(buckets')
        BY <2>0, <2>1, <3>2, ComputesDistribution, Zenon
      <4>. QED
        BY <3>2, <4>1, Zenon DEF DistributionCurrent
    <3>. QED
      BY <3>1, <3>2
  <2>2. ASSUME ResetFees
        PROVE  DistributionCurrent'
    <3>1. AllFees' = <<>> /\ distribution' = NoDistribution
      BY <2>0, <2>2, Zenon DEF ResetFees, Reset
    <3>. QED
      BY <3>1, Zenon DEF DistributionCurrent
  <2>3. ASSUME UNCHANGED feeVars
        PROVE  DistributionCurrent'
    BY <1>2, <2>3
       DEF feeVars, DistributionCurrent, AllFees, Get, Index
  <2>4. ASSUME NEW b \in Bucket, AppendLedgerFees(b)
        PROVE  DistributionCurrent'
    <3>1. CASE RejectBucket(b) /\ UNCHANGED distribution
      BY <2>3, <3>1, Zenon DEF RejectBucket, vars, feeVars
    <3>. QED
      BY <2>1, <2>4, <3>1, Zenon DEF AppendLedgerFees
  <2>. QED
    BY <1>2, <2>2, <2>3, <2>4, Zenon DEF FeeNext
<1>. QED
  BY <1>1, <1>2, FeeWindowInvariant, PTL DEF FeeSpec

\* The fee window, too, is the bounded window of the most recent ledgers.
THEOREM FeeWindowRefinement == FeeSpec => RefinesBoundedWindow
<1>1. FeeInit => Init
  BY DEF FeeInit
<1>. QED
  BY <1>1, FeeStepIsWindowStep, WindowRefinement, PTL DEF FeeSpec, Spec
=============================================================================
