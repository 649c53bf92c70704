--------------------------- MODULE BackfillProofs ---------------------------
(***************************************************************************)
(* Filling the database leaves no gap that a killed process would be stuck *)
(* with, writes no ledger twice, fills the retention window, and deletes   *)
(* nothing that belongs in it.                                             *)
(*                                                                         *)
(* None of these is inductive.  The gap check counts the ledgers of a      *)
(* range that may come from the cache, so the cache must be right when a   *)
(* fill begins (CacheInv) for the check to mean that the database is an    *)
(* interval (InfoInv); from there on the loop bounds say which interval it *)
(* is (BackInv) and up to where everything is accounted for (FrontInv).    *)
(***************************************************************************)
EXTENDS Backfill, Integers, FiniteSetTheorems, WellFoundedInduction, TLAPS

RangeType == [first : Nat, last : Nat]

TypeInv ==
    /\ tip \in Nat /\ tip >= CheckpointFrequency - 1
    /\ db \in SUBSET (Nat \ {0}) /\ IsFiniteSet(db)
    /\ cache \in [first : Nat, latest : Nat]
    /\ info \in [first : Nat, last : Nat, isNewDb : BOOLEAN]
    /\ bounds \in [backfill : RangeType, frontfill : RangeType, n : Nat]
    /\ left \in Nat /\ right \in Nat
    /\ pc \in {"boot", "meta", "verify", "bounds", "backfill", "frontfill", "frontchunk",
               "fronted", "recheck", "reset", "serving", "fatal"}

\* What is cached when a fill begins is true of the database.
CacheInv ==
    pc \in {"meta", "verify"} /\ db # {} =>
        /\ cache.first \in {0, OldestOf(db)}
        /\ cache.latest \in {0, NewestOf(db)}

\* databaseInfo describes the database, and past the gap check all of it.
InfoInv ==
    pc \in {"verify", "bounds"} =>
        /\ info.isNewDb = (db = {})
        /\ ~info.isNewDb => /\ info.first = OldestOf(db) /\ info.last = NewestOf(db)
                            /\ pc = "bounds" => db = info.first..info.last

\* backfillChunks: the database ends where the frontfill will begin and begins
\* where the next chunk ends.  Trimming by that chunk reaches none of it.
BackInv ==
    pc = "backfill" =>
        /\ db = (right + 1)..(bounds.frontfill.first - 1)
        /\ right + 1 < bounds.frontfill.first
        /\ 1 <= left /\ right < left + HistoryRetentionWindow
        /\ bounds.n <= tip /\ left <= MaxOf(tip - bounds.n + 1, OldestInDatastore)

\* A ledger that is stored, was trimmed, or is a checkpoint.
Accounted(s) ==
    \/ s \in db
    \/ \E n \in db : s + HistoryRetentionWindow <= n
    \/ PrevCheckpoint(s) = s

\* runFrontfill: everything before end is accounted for, nothing from end on is
\* stored.
FilledBefore(end) ==
    /\ \A s \in left..(end - 1) : Accounted(s)
    /\ \A s \in db : s < end

FrontInv ==
    /\ pc \in {"frontfill", "frontchunk", "fronted", "recheck", "reset"} => 1 <= left
    /\ pc = "frontfill" => /\ 1 <= bounds.frontfill.first
                           /\ FilledBefore(bounds.frontfill.first)
    /\ pc = "frontchunk" => /\ 1 <= bounds.frontfill.first
                            /\ bounds.frontfill.first <= right
                            /\ right <= bounds.frontfill.last
                            /\ FilledBefore(right)
    /\ pc = "fronted" => /\ 1 <= bounds.frontfill.first
                         /\ FilledBefore(MaxOf(bounds.frontfill.first, bounds.frontfill.last + 1))
    /\ pc \in {"recheck", "reset"} =>
          \A s \in left..bounds.frontfill.last : Accounted(s)

FillInv == TypeInv /\ CacheInv /\ InfoInv /\ BackInv /\ FrontInv

-----------------------------------------------------------------------------
(***************************************************************************)
(* The ends of a finite set, and the arithmetic of checkpoints.            *)
(***************************************************************************)

\* A finite set of numbers has a largest one: a set without one would have a
\* smallest subset without one.
LEMMA LargestExists ==
    ASSUME NEW S, IsFiniteSet(S), S # {}, S \subseteq Int
    PROVE  \E x \in S : \A y \in S : y <= x
<1> DEFINE Top(T) == \E x \in T : \A y \in T : y <= x
           Bad == {T \in SUBSET S : T # {} /\ ~Top(T)}
<1>1. SUFFICES ASSUME Bad # {} PROVE FALSE
    OBVIOUS
<1>2. IsWellFoundedOn(StrictSubsetOrdering(S), SUBSET S)
    BY FS_StrictSubsetOrderingWellFounded, FS_FiniteSubsetsOfFinite
<1>3. PICK T \in Bad : \A U \in Bad : ~(<<U, T>> \in StrictSubsetOrdering(S))
    <2>1. Bad \subseteq SUBSET S
        OBVIOUS
    <2> HIDE DEF Bad
    <2> QED
        BY <1>1, <1>2, <2>1, WFMin
<1>4. PICK x \in T : TRUE
    OBVIOUS
<1>5. CASE T = {x}
    BY <1>5
<1>6. CASE T # {x}
    <2> DEFINE U == T \ {x}
    <2>1. U \in SUBSET S /\ U # {} /\ U # T /\ U \subseteq T
        BY <1>4, <1>6
    <2>2. <<U, T>> \in StrictSubsetOrdering(S)
        BY <2>1 DEF StrictSubsetOrdering
    <2>3. Top(U)
        BY <1>3, <2>1, <2>2
    <2>4. PICK m \in U : \A y \in U : y <= m
        BY <2>3
    <2>5. x \in Int /\ m \in Int /\ T \subseteq Int
        BY <2>1
    <2>6. CASE x <= m
        BY <2>4, <2>6
    <2>7. CASE m <= x
        BY <2>4, <2>5, <2>7
    <2> QED
        BY <2>5, <2>6, <2>7
<1> QED
    BY <1>5, <1>6

LEMMA SmallestExists ==
    ASSUME NEW S, IsFiniteSet(S), S # {}, S \subseteq Int
    PROVE  \E x \in S : \A y \in S : x <= y
<1> DEFINE N == {-x : x \in S}
           f == [x \in S |-> -x]
<1>1. f \in Surjection(S, N)
    BY DEF Surjection
<1>2. IsFiniteSet(N)
    <2> HIDE DEF f, N
    <2> QED
        BY <1>1, FS_Surjection
<1>3. N # {} /\ N \subseteq Int
    OBVIOUS
<1>4. PICK m \in N : \A y \in N : y <= m
    <2> HIDE DEF N
    <2> QED
        BY <1>2, <1>3, LargestExists
<1>5. PICK x \in S : m = -x
    BY <1>4
<1>6. \A y \in S : -y <= m
    BY <1>4
<1> QED
    BY <1>5, <1>6

LEMMA Ends ==
    ASSUME NEW S, IsFiniteSet(S), S # {}, S \subseteq Int
    PROVE  /\ OldestOf(S) \in S /\ \A x \in S : OldestOf(S) <= x
           /\ NewestOf(S) \in S /\ \A x \in S : x <= NewestOf(S)
<1>1. \E x \in S : \A y \in S : x <= y
    BY SmallestExists
<1>2. \E x \in S : \A y \in S : y <= x
    BY LargestExists
<1> QED
    BY <1>1, <1>2 DEF OldestOf, NewestOf

\* As many numbers as the range is long: every number of the range.
LEMMA CountedRange ==
    ASSUME NEW S, IsFiniteSet(S), S # {}, S \subseteq Int,
           Cardinality(S) = NewestOf(S) - OldestOf(S) + 1
    PROVE  S = OldestOf(S)..NewestOf(S)
<1>1. /\ OldestOf(S) \in S /\ \A x \in S : OldestOf(S) <= x
      /\ NewestOf(S) \in S /\ \A x \in S : x <= NewestOf(S)
    BY Ends
<1> DEFINE a == OldestOf(S)
           b == NewestOf(S)
<1>2. a \in Int /\ b \in Int /\ a <= b
    BY <1>1
<1>3. S \subseteq a..b
    BY <1>1
<1> HIDE DEF a, b
<1>4. IsFiniteSet(a..b) /\ Cardinality(a..b) = b - a + 1
    BY <1>2, FS_Interval
<1>5. Cardinality(S) = b - a + 1
    BY DEF a, b
<1>6. S = a..b
    BY <1>3, <1>4, <1>5, FS_Subset
<1> QED
    BY <1>6 DEF a, b

\* (s + 1) / f * f - 1 is a checkpoint, and not negative from f - 1 on.
LEMMA Checkpoints ==
    ASSUME NEW s \in Nat, s >= CheckpointFrequency - 1
    PROVE  /\ PrevCheckpoint(s) \in Nat
           /\ PrevCheckpoint(PrevCheckpoint(s)) = PrevCheckpoint(s)
<1> DEFINE f == CheckpointFrequency
           q == (s + 1) \div f
<1>1. f \in Nat \ {0}
    BY BackfillAssumption
<1> HIDE DEF f
<1>2. q \in Nat /\ q >= 1
    BY <1>1 DEF f
<1> HIDE DEF q
<1>3. q * f \in Nat /\ q * f >= f
    BY <1>1, <1>2
<1>4. (q * f) \div f = q
    BY <1>1, <1>2
<1>5. PrevCheckpoint(s) = q * f - 1
    BY DEF PrevCheckpoint, q, f
<1>6. PrevCheckpoint(q * f - 1) = q * f - 1
    <2> DEFINE p == q * f
    <2>1. p \in Nat /\ p - 1 + 1 = p
        BY <1>3
    <2>2. PrevCheckpoint(p - 1) = ((p - 1 + 1) \div f) * f - 1
        BY DEF PrevCheckpoint, f
    <2>3. p \div f = q
        BY <1>4
    <2> HIDE DEF p
    <2>4. PrevCheckpoint(p - 1) = q * f - 1
        BY <2>1, <2>2, <2>3
    <2> QED
        BY <2>4 DEF p
<1> QED
    BY <1>1, <1>3, <1>5, <1>6

-----------------------------------------------------------------------------
(***************************************************************************)
(* The steps.                                                              *)
(***************************************************************************)
LEMMA DbEnds ==
    ASSUME TypeInv, db # {}
    PROVE  /\ OldestOf(db) \in db /\ \A x \in db : OldestOf(db) <= x
           /\ NewestOf(db) \in db /\ \A x \in db : x <= NewestOf(db)
           /\ OldestOf(db) \in Nat \ {0} /\ NewestOf(db) \in Nat \ {0}
<1>1. db \subseteq Int /\ IsFiniteSet(db) /\ db \subseteq Nat \ {0}
    BY DEF TypeInv
<1>2. /\ OldestOf(db) \in db /\ \A x \in db : OldestOf(db) <= x
      /\ NewestOf(db) \in db /\ \A x \in db : x <= NewestOf(db)
    BY <1>1, Ends
<1> QED
    BY <1>1, <1>2

\* A true cache gives the true range, and stays true.
LEMMA TrueRange ==
    ASSUME TypeInv, CacheInv, pc \in {"meta", "verify"}
    PROVE  /\ db = {} => LedgerRange = NoRange
           /\ db # {} => LedgerRange = [first |-> OldestOf(db), last |-> NewestOf(db)]
           /\ Memoized \in [first : Nat, latest : Nat]
           /\ db # {} => /\ Memoized.first \in {0, OldestOf(db)}
                         /\ Memoized.latest \in {0, NewestOf(db)}
<1>1. CASE db = {}
    BY <1>1 DEF LedgerRange, Memoized, TypeInv
<1>2. CASE db # {}
    <2>1. OldestOf(db) \in Nat /\ NewestOf(db) \in Nat
        BY <1>2, DbEnds
    <2>2. cache.first \in {0, OldestOf(db)} /\ cache.latest \in {0, NewestOf(db)}
        BY <1>2 DEF CacheInv
    <2>3. LedgerRange = [first |-> OldestOf(db), last |-> NewestOf(db)]
        BY <1>2, <2>2 DEF LedgerRange
    <2>4. LedgerRange.first = OldestOf(db)
        BY <2>3
    <2>5. \/ Memoized = cache
          \/ Memoized = [cache EXCEPT !.first = OldestOf(db)]
        BY <2>4 DEF Memoized
    <2>6. cache \in [first : Nat, latest : Nat]
        BY DEF TypeInv
    <2>7. Memoized \in [first : Nat, latest : Nat]
        BY <2>1, <2>5, <2>6
    <2>8. Memoized.first \in {0, OldestOf(db)} /\ Memoized.latest \in {0, NewestOf(db)}
        BY <2>2, <2>5, <2>6
    <2> QED
        BY <1>2, <2>3, <2>7, <2>8
<1> QED
    BY <1>1, <1>2

LEMMA MemoizedType ==
    ASSUME TypeInv
    PROVE  Memoized \in [first : Nat, latest : Nat]
<1>1. CASE ~(db # {} /\ cache.latest # 0)
    BY <1>1 DEF Memoized, TypeInv
<1>2. CASE db # {} /\ cache.latest # 0
    <2>1. OldestOf(db) \in Nat
        BY <1>2, DbEnds
    <2>2. LedgerRange.first \in Nat
        BY <1>2, <2>1 DEF LedgerRange, TypeInv
    <2>3. Memoized = [cache EXCEPT !.first = LedgerRange.first]
        BY <1>2 DEF Memoized
    <2> HIDE DEF LedgerRange
    <2> QED
        BY <2>2, <2>3 DEF TypeInv
<1> QED
    BY <1>1, <1>2

LEMMA FillInvInit == Init => FillInv
<1> SUFFICES ASSUME Init PROVE FillInv
    OBVIOUS
<1>1. tip \in Nat /\ tip >= CheckpointFrequency - 1
    BY BackfillAssumption DEF Init
<1>2. db \in SUBSET (Nat \ {0}) /\ IsFiniteSet(db)
    <2>1. CASE db = {}
        BY <2>1, FS_EmptySet
    <2>2. CASE db # {}
        <3>1. PICK a \in 1..MaxLedger, b \in 1..MaxLedger : db = a..b
            BY <2>2 DEF Init
        <3>2. a \in Int /\ b \in Int /\ a..b \subseteq Nat \ {0}
            BY BackfillAssumption
        <3>3. IsFiniteSet(a..b)
            BY <3>2, FS_Interval
        <3> QED
            BY <3>1, <3>2, <3>3
    <2> QED
        BY <2>1, <2>2
<1>3. /\ NoCache \in [first : Nat, latest : Nat]
      /\ NoBounds \in [backfill : RangeType, frontfill : RangeType, n : Nat]
      /\ info \in [first : Nat, last : Nat, isNewDb : BOOLEAN]
    BY DEF NoCache, NoBounds, NoRange, RangeType, Init
<1>4. TypeInv
    BY <1>1, <1>2, <1>3 DEF TypeInv, Init
<1> QED
    BY <1>4 DEF Init, FillInv, CacheInv, InfoInv, BackInv, FrontInv

LEMMA FillInvBoot ==
    ASSUME FillInv, Boot
    PROVE  FillInv'
<1> DEFINE newest == IF db = {} THEN 0 ELSE NewestOf(db)
<1>1. /\ cache' = [NoCache EXCEPT !.latest = newest]
      /\ pc' = "meta" /\ UNCHANGED <<tip, db, info, bounds, left, right>>
    BY DEF Boot
<1>2. newest \in Nat
    BY DbEnds DEF FillInv
<1> HIDE DEF newest
<1>3. cache' = [first |-> 0, latest |-> newest]
    BY <1>1 DEF NoCache
<1>4. TypeInv'
    <2>1. cache' \in [first : Nat, latest : Nat]
        BY <1>2, <1>3
    <2> QED
        BY <1>1, <2>1 DEF FillInv, TypeInv
<1>5. CacheInv'
    BY <1>1, <1>3 DEF CacheInv, newest
<1> QED
    BY <1>1, <1>4, <1>5 DEF FillInv, InfoInv, BackInv, FrontInv

LEMMA FillInvMeta ==
    ASSUME FillInv, NewBackfillMeta
    PROVE  FillInv'
<1> DEFINE r == LedgerRange
<1>1. /\ pc = "meta" /\ pc' = "verify"
      /\ info' = [first |-> r.first, last |-> r.last, isNewDb |-> db = {}]
      /\ cache' = Memoized
      /\ UNCHANGED <<tip, db, bounds, left, right>>
    BY DEF NewBackfillMeta
<1>2. /\ db = {} => r = NoRange
      /\ db # {} => r = [first |-> OldestOf(db), last |-> NewestOf(db)]
      /\ Memoized \in [first : Nat, latest : Nat]
      /\ db # {} => /\ Memoized.first \in {0, OldestOf(db)}
                    /\ Memoized.latest \in {0, NewestOf(db)}
    BY <1>1, TrueRange DEF FillInv
<1>3. db # {} => OldestOf(db) \in Nat /\ NewestOf(db) \in Nat
    BY DbEnds DEF FillInv
<1> HIDE DEF r
<1>4. r.first \in Nat /\ r.last \in Nat
    BY <1>2, <1>3 DEF NoRange
<1>5. info' \in [first : Nat, last : Nat, isNewDb : BOOLEAN]
    BY <1>1, <1>4
<1>6. TypeInv'
    BY <1>1, <1>2, <1>5 DEF FillInv, TypeInv
<1>7. CacheInv'
    BY <1>1, <1>2 DEF CacheInv
<1>8. InfoInv'
    <2>1. info'.first = r.first /\ info'.last = r.last /\ info'.isNewDb = (db = {})
        BY <1>1
    <2>2. db # {} => r.first = OldestOf(db) /\ r.last = NewestOf(db)
        BY <1>2
    <2> QED
        BY <1>1, <2>1, <2>2 DEF InfoInv
<1> QED
    BY <1>1, <1>6, <1>7, <1>8 DEF FillInv, BackInv, FrontInv

\* verifyDbGapless: the database that passes is an interval.
LEMMA FillInvVerifyBefore ==
    ASSUME FillInv, VerifyBefore
    PROVE  FillInv'
<1>1. /\ pc = "verify" /\ pc' = IF GaplessCheck THEN "bounds" ELSE "fatal"
      /\ cache' = Memoized
      /\ UNCHANGED <<tip, db, info, bounds, left, right>>
    BY DEF VerifyBefore
<1>2. TypeInv'
    BY <1>1, MemoizedType DEF FillInv, TypeInv
<1>3. ASSUME db # {}, GaplessCheck
      PROVE  db = OldestOf(db)..NewestOf(db)
    <2>1. LedgerRange = [first |-> OldestOf(db), last |-> NewestOf(db)]
        BY <1>1, <1>3, TrueRange DEF FillInv
    <2>2. Cardinality({s \in db : OldestOf(db) <= s /\ s <= NewestOf(db)})
              = NewestOf(db) - OldestOf(db) + 1
        BY <1>3, <2>1 DEF GaplessCheck
    <2>3. {s \in db : OldestOf(db) <= s /\ s <= NewestOf(db)} = db
        BY <1>3, DbEnds DEF FillInv
    <2>4. IsFiniteSet(db) /\ db \subseteq Int
        BY DEF FillInv, TypeInv
    <2> QED
        BY <1>3, <2>2, <2>3, <2>4, CountedRange
<1>4. InfoInv'
    <2>1. /\ info.isNewDb = (db = {})
          /\ ~info.isNewDb => info.first = OldestOf(db) /\ info.last = NewestOf(db)
        BY <1>1 DEF FillInv, InfoInv
    <2> QED
        BY <1>1, <1>3, <2>1 DEF InfoInv
<1> QED
    BY <1>1, <1>2, <1>4 DEF FillInv, CacheInv, BackInv, FrontInv

LEMMA FillInvSetBounds ==
    ASSUME FillInv, SetBounds
    PROVE  FillInv'
<1> DEFINE n == MinOf(HistoryRetentionWindow, tip)
           start == IF tip >= n + 1 THEN MaxOf(tip - n + 1, OldestInDatastore)
                                    ELSE OldestInDatastore
           back == ~info.isNewDb /\ info.first > start
           b == IF back THEN [first |-> start, last |-> info.first - 1] ELSE NoRange
           next == IF info.isNewDb THEN start ELSE info.last + 1
<1>1. /\ pc = "bounds"
      /\ bounds' = [n |-> n, backfill |-> b, frontfill |-> [first |-> next, last |-> 0]]
      /\ pc' = IF back /\ tip < info.first THEN "fatal"
               ELSE IF back THEN "backfill" ELSE "frontfill"
      /\ left' = start
      /\ right' = IF back THEN info.first - 1 ELSE right
      /\ UNCHANGED <<tip, db, cache, info>>
    BY DEF SetBounds
<1>2. /\ HistoryRetentionWindow \in Nat \ {0} /\ OldestInDatastore \in Nat \ {0}
      /\ tip \in Nat /\ info.first \in Nat /\ info.last \in Nat /\ right \in Nat
    BY BackfillAssumption DEF FillInv, TypeInv
<1>3. /\ info.isNewDb => db = {}
      /\ ~info.isNewDb => /\ db = info.first..info.last
                          /\ info.first <= info.last /\ 1 <= info.first
    <2>1. /\ info.isNewDb => db = {}
          /\ ~info.isNewDb => /\ info.first = OldestOf(db) /\ info.last = NewestOf(db)
                              /\ db = info.first..info.last /\ db # {}
        BY <1>1 DEF FillInv, InfoInv
    <2>2. db # {} => OldestOf(db) \in db /\ OldestOf(db) <= NewestOf(db) /\ OldestOf(db) \in Nat \ {0}
        BY DbEnds DEF FillInv
    <2> QED
        BY <1>2, <2>1, <2>2
<1>4. /\ n \in Nat /\ start \in Nat /\ 1 <= start
      /\ n <= tip /\ start <= MaxOf(tip - n + 1, OldestInDatastore)
      /\ tip < start + HistoryRetentionWindow
    BY <1>2 DEF MinOf, MaxOf
<1> HIDE DEF n, start
<1>5. next \in Nat /\ 1 <= next /\ right' \in Nat
    BY <1>1, <1>2, <1>3, <1>4
<1>6. b \in RangeType
    BY <1>2, <1>4 DEF NoRange, RangeType
<1>7. /\ bounds'.n = n /\ bounds'.frontfill.first = next
      /\ bounds' \in [backfill : RangeType, frontfill : RangeType, n : Nat]
    <2> HIDE DEF b, next
    <2>1. [first |-> next, last |-> 0] \in RangeType
        BY <1>5 DEF RangeType
    <2> QED
        BY <1>1, <1>4, <1>6, <2>1
<1>8. TypeInv'
    BY <1>1, <1>4, <1>5, <1>7 DEF FillInv, TypeInv
<1>9. BackInv'
    <2>1. SUFFICES ASSUME back, ~(tip < info.first) PROVE BackInv'
        BY <1>1 DEF BackInv
    <2>2. right' = info.first - 1 /\ next = info.last + 1 /\ 1 <= info.first
        BY <1>1, <1>3, <2>1
    <2>3. db' = (right' + 1)..(next - 1) /\ right' + 1 < next
        BY <1>1, <1>2, <1>3, <2>1, <2>2
    <2>4. right' < left' + HistoryRetentionWindow
        BY <1>1, <1>2, <1>4, <2>1, <2>2
    <2> QED
        BY <1>1, <1>4, <1>7, <2>3, <2>4 DEF BackInv, MaxOf
<1>10. FrontInv'
    <2>1. SUFFICES ASSUME ~back, pc' = "frontfill" PROVE FrontInv'
        BY <1>1 DEF FrontInv
    <2>2. \A s \in start..(next - 1) : s \in db
        BY <1>2, <1>3, <1>4, <2>1
    <2>3. \A s \in db : s < next
        BY <1>2, <1>3
    <2>4. \A s \in left'..(bounds'.frontfill.first - 1) : Accounted(s)'
        BY <1>1, <1>7, <2>2 DEF Accounted
    <2>5. \A s \in db' : s < bounds'.frontfill.first
        BY <1>1, <1>7, <2>3
    <2> QED
        BY <1>1, <1>4, <1>5, <1>7, <2>1, <2>4, <2>5 DEF FrontInv, FilledBefore
<1> QED
    BY <1>1, <1>8, <1>9, <1>10 DEF FillInv, CacheInv, InfoInv

\* The cache after a transaction, whatever was in it.
LEMMA CacheAfter ==
    ASSUME TypeInv, NEW lo \in Nat, NEW hi \in Nat, IngestRange(lo, hi)
    PROVE  cache' \in [first : Nat, latest : Nat]
<1> DEFINE cutoff == IF hi + 1 > HistoryRetentionWindow THEN hi + 1 - HistoryRetentionWindow
                                                        ELSE 0
           a == MaxOf(cache.latest, hi)
           f == IF cache.first < cutoff THEN 0 ELSE cache.first
<1>1. cache' = [latest |-> a, first |-> f]
    BY DEF IngestRange
<1>2. a \in Nat /\ f \in Nat
    BY DEF TypeInv, MaxOf
<1> HIDE DEF a, f
<1> QED
    BY <1>1, <1>2

\* Service.ingestRange: the newest ledger of the chunk is stored, and what is
\* not stored any more lies a retention window before it.
LEMMA Ingested ==
    ASSUME TypeInv, NEW lo \in Nat \ {0}, NEW hi \in Nat, lo <= hi, IngestRange(lo, hi)
    PROVE  /\ db' \in SUBSET (Nat \ {0}) /\ IsFiniteSet(db')
           /\ db' \subseteq db \cup lo..hi
           /\ hi \in db'
           /\ \A s \in db \cup lo..hi : s \in db' \/ s + HistoryRetentionWindow <= hi
           /\ \A s \in Nat : s + HistoryRetentionWindow > hi /\ s \in db \cup lo..hi => s \in db'
<1> DEFINE cutoff == IF hi + 1 > HistoryRetentionWindow THEN hi + 1 - HistoryRetentionWindow
                                                        ELSE 0
<1>1. HistoryRetentionWindow \in Nat \ {0} /\ db \subseteq Nat \ {0} /\ IsFiniteSet(db)
    BY BackfillAssumption DEF TypeInv
<1>2. db' = {s \in db \cup lo..hi : s >= cutoff}
    BY DEF IngestRange
<1>3. /\ cutoff \in Nat
      /\ \A s \in Nat : s >= cutoff <=> s + HistoryRetentionWindow > hi
    BY <1>1
<1> HIDE DEF cutoff
<1>4. db \cup lo..hi \subseteq Nat \ {0} /\ hi \in lo..hi
    BY <1>1
<1>5. IsFiniteSet(db \cup lo..hi)
    <2>1. lo \in Int /\ hi \in Int
        OBVIOUS
    <2>2. IsFiniteSet(lo..hi)
        BY <2>1, FS_Interval
    <2> QED
        BY <1>1, <2>2, FS_Union
<1>6. IsFiniteSet(db')
    <2>1. db' \subseteq db \cup lo..hi
        BY <1>2
    <2> QED
        BY <1>5, <2>1, FS_Subset
<1>7. hi \in db'
    BY <1>1, <1>2, <1>3, <1>4
<1>8. \A s \in db \cup lo..hi : s \in db' \/ s + HistoryRetentionWindow <= hi
    BY <1>1, <1>2, <1>3, <1>4
<1>9. \A s \in Nat : s + HistoryRetentionWindow > hi /\ s \in db \cup lo..hi => s \in db'
    BY <1>2, <1>3
<1> QED
    BY <1>2, <1>4, <1>6, <1>7, <1>8, <1>9

\* backfillChunks: the chunk ends right before the database, and none of the
\* two is trimmed.
LEMMA FillInvBackfillChunk ==
    ASSUME FillInv, BackfillChunk
    PROVE  FillInv'
<1> DEFINE lo == BackfillChunkStart
           H == HistoryRetentionWindow
           first == bounds.frontfill.first
           edge == MaxOf(tip - bounds.n + 1, OldestInDatastore)
<1>1. /\ pc = "backfill" /\ right >= left /\ IngestRange(lo, right)
      /\ right' = lo - 1 /\ (left' = edge \/ left' = left)
      /\ UNCHANGED <<tip, pc, info, bounds>>
    BY DEF BackfillChunk
<1>2. /\ db = (right + 1)..(first - 1) /\ right + 1 < first
      /\ 1 <= left /\ right < left + H
      /\ bounds.n <= tip /\ left <= edge
    BY <1>1 DEF FillInv, BackInv
<1>3. /\ H \in Nat \ {0} /\ left \in Nat /\ right \in Nat /\ first \in Nat
      /\ tip \in Nat /\ bounds.n \in Nat /\ ChunkSize \in Nat \ {0}
      /\ OldestInDatastore \in Nat \ {0}
    BY BackfillAssumption DEF FillInv, TypeInv, RangeType
<1>4. lo \in Nat \ {0} /\ left <= lo /\ lo <= right
    BY <1>1, <1>2, <1>3 DEF BackfillChunkStart, MaxOf
<1>5. edge \in Nat
    BY <1>2, <1>3 DEF MaxOf
<1> HIDE DEF lo, edge
<1>6. /\ db' \in SUBSET (Nat \ {0}) /\ IsFiniteSet(db')
      /\ db' \subseteq db \cup lo..right
      /\ \A s \in Nat : s + H > right /\ s \in db \cup lo..right => s \in db'
    BY <1>1, <1>3, <1>4, Ingested DEF FillInv
<1>7. db' = lo..(first - 1)
    <2> HIDE DEF H, first
    <2>1. db \cup lo..right = lo..(first - 1)
        BY <1>2, <1>3, <1>4
    <2>2. \A s \in lo..(first - 1) : s \in Nat /\ s + H > right
        BY <1>2, <1>3, <1>4
    <2> QED
        BY <1>6, <2>1, <2>2
<1>8. cache' \in [first : Nat, latest : Nat]
    BY <1>1, <1>3, <1>4, CacheAfter DEF FillInv
<1>9. left' \in Nat /\ left <= left' /\ left' <= edge /\ right' \in Nat /\ right' + 1 = lo
    BY <1>1, <1>2, <1>3, <1>4, <1>5
<1>10. TypeInv'
    BY <1>1, <1>6, <1>8, <1>9 DEF FillInv, TypeInv
<1>11. BackInv'
    <2>1. first' = first /\ edge' = edge /\ bounds' = bounds /\ tip' = tip
        BY <1>1 DEF edge
    <2>2. db' = (right' + 1)..(first - 1)
        BY <1>7, <1>9
    <2>3. right' + 1 < first /\ 1 <= left' /\ right' < left' + H
        <3>1. /\ lo \in Int /\ right' \in Int /\ left' \in Int
              /\ right \in Int /\ left \in Int /\ H \in Int /\ first \in Int
            BY <1>3, <1>4, <1>9
        <3>2. /\ lo = right' + 1 /\ lo <= right /\ left <= left'
              /\ right + 1 < first /\ 1 <= left /\ right < left + H
            BY <1>2, <1>4, <1>9
        <3>3. \A a, b, c, d, e, f, h \in Int :
                 a = b + 1 /\ a <= c /\ d <= e /\ c + 1 < f /\ 1 <= d /\ c < d + h
                     => b + 1 < f /\ 1 <= e /\ b < e + h
            OBVIOUS
        <3> HIDE DEF first, H
        <3> QED
            BY <3>1, <3>2, <3>3, Zenon
    <2> QED
        BY <1>2, <1>9, <2>1, <2>2, <2>3 DEF BackInv, edge
<1> QED
    BY <1>1, <1>10, <1>11 DEF FillInv, CacheInv, InfoInv, FrontInv

LEMMA FillInvBackfillDone ==
    ASSUME FillInv, BackfillDone
    PROVE  FillInv'
<1> DEFINE first == bounds.frontfill.first
<1>1. /\ pc = "backfill" /\ right < left /\ pc' = "frontfill"
      /\ bounds' = [bounds EXCEPT !.backfill.first = left]
      /\ info' = [info EXCEPT !.first = left]
      /\ UNCHANGED <<tip, db, cache, left, right>>
    BY DEF BackfillDone
<1>2. db = (right + 1)..(first - 1) /\ right + 1 < first /\ 1 <= left
    BY <1>1 DEF FillInv, BackInv
<1>3. /\ left \in Nat /\ right \in Nat
      /\ bounds \in [backfill : RangeType, frontfill : RangeType, n : Nat]
      /\ info \in [first : Nat, last : Nat, isNewDb : BOOLEAN]
    BY DEF FillInv, TypeInv
<1>4. first \in Nat
    BY <1>3 DEF RangeType
<1>5. /\ bounds' \in [backfill : RangeType, frontfill : RangeType, n : Nat]
      /\ bounds'.frontfill = bounds.frontfill
    BY <1>1, <1>3 DEF RangeType
<1>6. info' \in [first : Nat, last : Nat, isNewDb : BOOLEAN]
    BY <1>1, <1>3
<1>7. TypeInv'
    BY <1>1, <1>5, <1>6 DEF FillInv, TypeInv
<1>8. FrontInv'
    <2>1. \A s \in left..(first - 1) : s \in db
        BY <1>1, <1>2, <1>3, <1>4
    <2>2. \A s \in db : s < first
        BY <1>2, <1>3, <1>4
    <2>3. 1 <= first
        BY <1>2, <1>3, <1>4
    <2> QED
        BY <1>1, <1>2, <1>5, <2>1, <2>2, <2>3 DEF FrontInv, FilledBefore, Accounted
<1> QED
    BY <1>1, <1>7, <1>8 DEF FillInv, CacheInv, InfoInv, BackInv

\* runFrontfill: a range that is left out holds nothing but a checkpoint.
LEMMA FillInvFrontfillStart ==
    ASSUME FillInv, FrontfillStart
    PROVE  FillInv'
<1> DEFINE first == bounds.frontfill.first
           last == PrevCheckpoint(tip)
<1>1. /\ pc = "frontfill"
      /\ bounds' = [bounds EXCEPT !.frontfill.last = last]
      /\ right' = first
      /\ UNCHANGED <<tip, db, cache, info, left>>
      /\ pc' = IF FrontfillNeeded(bounds'.frontfill) THEN "frontchunk" ELSE "fronted"
    BY DEF FrontfillStart
<1>2. /\ bounds \in [backfill : RangeType, frontfill : RangeType, n : Nat]
      /\ left \in Nat /\ tip \in Nat /\ tip >= CheckpointFrequency - 1
      /\ db \subseteq Nat
    BY DEF FillInv, TypeInv
<1>3. last \in Nat /\ PrevCheckpoint(last) = last
    BY <1>2, Checkpoints
<1>4. first \in Nat
    BY <1>2 DEF RangeType
<1> HIDE DEF last
<1>5. /\ bounds' \in [backfill : RangeType, frontfill : RangeType, n : Nat]
      /\ bounds'.frontfill.first = first /\ bounds'.frontfill.last = last
    BY <1>1, <1>2, <1>3 DEF RangeType
<1>6. TypeInv'
    BY <1>1, <1>4, <1>5 DEF FillInv, TypeInv
<1>7. /\ 1 <= left /\ 1 <= first
      /\ \A s \in left..(first - 1) : Accounted(s)
      /\ \A s \in db : s < first
    BY <1>1 DEF FillInv, FrontInv, FilledBefore
<1>8. \A s : Accounted(s) => Accounted(s)'
    BY <1>1 DEF Accounted
<1>9. CASE first < last
    <2>1. pc' = "frontchunk"
        BY <1>1, <1>5, <1>9 DEF FrontfillNeeded
    <2>2. \A s \in left'..(right' - 1) : Accounted(s)'
        BY <1>1, <1>7, <1>8
    <2>3. FrontInv'
        BY <1>1, <1>3, <1>4, <1>5, <1>7, <1>9, <2>1, <2>2 DEF FrontInv, FilledBefore
    <2> QED
        BY <1>6, <2>1, <2>3 DEF FillInv, CacheInv, InfoInv, BackInv
<1>10. CASE ~(first < last)
    <2> DEFINE end == MaxOf(first, last + 1)
    <2>1. pc' = "fronted"
        BY <1>1, <1>5, <1>10 DEF FrontfillNeeded
    <2>2. end \in Nat /\ first <= end /\ (end = first \/ (end - 1 = last /\ last = first))
        <3> HIDE DEF first
        <3>1. end = IF first > last + 1 THEN first ELSE last + 1
            BY DEF MaxOf
        <3> HIDE DEF end
        <3> QED
            BY <1>3, <1>4, <1>10, <3>1
    <2> HIDE DEF end
    <2>3. \A s \in left'..(end - 1) : Accounted(s)'
        <3>1. ASSUME NEW s \in left..(end - 1) PROVE Accounted(s)
            <4>1. s \in Int /\ (s \in left..(first - 1) \/ s = last)
                BY <1>2, <1>4, <2>2
            <4>2. CASE s = last
                BY <1>3, <4>2 DEF Accounted
            <4> QED
                BY <1>7, <4>1, <4>2
        <3> QED
            BY <1>1, <1>8, <3>1
    <2>4. \A s \in db' : s < end
        BY <1>1, <1>2, <1>4, <1>7, <2>2
    <2>5. end = MaxOf(bounds'.frontfill.first, bounds'.frontfill.last + 1)
        BY <1>5 DEF end
    <2>6. FrontInv'
        BY <1>1, <1>5, <1>7, <2>1, <2>3, <2>4, <2>5 DEF FrontInv, FilledBefore, MaxOf
    <2> QED
        BY <1>6, <2>1, <2>6 DEF FillInv, CacheInv, InfoInv, BackInv
<1> QED
    BY <1>9, <1>10

\* frontfillChunks: the chunk begins where everything before is accounted for.
LEMMA FillInvFrontfillChunk ==
    ASSUME FillInv, FrontfillChunk
    PROVE  FillInv'
<1> DEFINE first == bounds.frontfill.first
           last == bounds.frontfill.last
           hi == FrontfillChunkEnd
           H == HistoryRetentionWindow
<1>1. /\ pc = "frontchunk" /\ right <= last
      /\ IngestRange(right, hi)
      /\ right' = right + ChunkSize
      /\ pc' = IF right + ChunkSize <= last THEN "frontchunk" ELSE "fronted"
      /\ UNCHANGED <<tip, info, bounds, left>>
    BY DEF FrontfillChunk
<1>2. /\ right \in Nat /\ left \in Nat /\ first \in Nat /\ last \in Nat
      /\ ChunkSize \in Nat \ {0} /\ H \in Nat \ {0} /\ db \subseteq Nat
    BY BackfillAssumption DEF FillInv, TypeInv, RangeType
<1>3. /\ 1 <= left /\ 1 <= first /\ first <= right
      /\ \A s \in left..(right - 1) : Accounted(s)
      /\ \A s \in db : s < right
    BY <1>1 DEF FillInv, FrontInv, FilledBefore
<1>4. /\ hi \in Nat /\ right <= hi /\ hi <= last /\ hi < right + ChunkSize
      /\ right + ChunkSize <= last => hi + 1 = right + ChunkSize
      /\ ~(right + ChunkSize <= last) => hi = last
    BY <1>1, <1>2 DEF FrontfillChunkEnd, MinOf
<1> HIDE DEF hi
<1>5. right \in Nat \ {0}
    BY <1>2, <1>3
<1>6. /\ db' \in SUBSET (Nat \ {0}) /\ IsFiniteSet(db')
      /\ db' \subseteq db \cup right..hi
      /\ hi \in db'
      /\ \A s \in db \cup right..hi : s \in db' \/ s + H <= hi
    BY <1>1, <1>4, <1>5, Ingested DEF FillInv
<1>7. cache' \in [first : Nat, latest : Nat]
    BY <1>1, <1>4, <1>5, CacheAfter DEF FillInv
<1>8. TypeInv'
    BY <1>1, <1>2, <1>6, <1>7 DEF FillInv, TypeInv
<1>9. \A s \in db' : s \in Nat /\ s <= hi
    <2>1. ASSUME NEW s \in db' PROVE s \in Nat /\ s <= hi
        <3>1. s \in db \/ s \in right..hi
            BY <1>6
        <3>2. CASE s \in db
            BY <1>2, <1>3, <1>4, <3>2
        <3>3. CASE s \in right..hi
            BY <1>2, <1>4, <3>3
        <3> QED
            BY <3>1, <3>2, <3>3
    <2> QED
        BY <2>1
<1>10. ASSUME NEW s \in left..hi
       PROVE  Accounted(s)'
    <2>1. s \in Int /\ (s \in left..(right - 1) \/ s \in right..hi)
        BY <1>2, <1>4
    <2>2. CASE s \in db \cup right..hi
        BY <1>6, <2>2 DEF Accounted
    <2>3. CASE \E n \in db : s + H <= n
        BY <1>2, <1>3, <1>4, <1>6, <2>1, <2>3 DEF Accounted
    <2>4. CASE PrevCheckpoint(s) = s
        BY <2>4 DEF Accounted
    <2> QED
        BY <1>3, <2>1, <2>2, <2>3, <2>4 DEF Accounted
<1>11. FrontInv'
    <2>1. CASE right + ChunkSize <= last
        <3>1. hi = right' - 1 /\ right' <= last /\ first <= right' /\ hi < right'
            BY <1>1, <1>2, <1>3, <1>4, <2>1
        <3>2. \A s \in left'..(right' - 1) : Accounted(s)'
            BY <1>1, <1>10, <3>1
        <3>3. \A s \in db' : s < right'
            BY <1>1, <1>2, <1>4, <1>9, <3>1
        <3>4. pc' = "frontchunk"
            BY <1>1, <2>1
        <3> QED
            BY <1>1, <1>3, <3>1, <3>2, <3>3, <3>4 DEF FrontInv, FilledBefore
    <2>2. CASE ~(right + ChunkSize <= last)
        <3> DEFINE end == MaxOf(first, last + 1)
        <3>1. end \in Nat /\ end - 1 = hi /\ hi < end
            BY <1>2, <1>3, <1>4, <2>2 DEF MaxOf
        <3> HIDE DEF end
        <3>2. \A s \in left'..(end - 1) : Accounted(s)'
            BY <1>1, <1>10, <3>1
        <3>3. \A s \in db' : s < end
            BY <1>4, <1>9, <3>1
        <3>4. pc' = "fronted"
            BY <1>1, <2>2
        <3>5. end = MaxOf(bounds'.frontfill.first, bounds'.frontfill.last + 1)
            BY <1>1 DEF end
        <3> QED
            BY <1>1, <1>3, <3>2, <3>3, <3>4, <3>5 DEF FrontInv, FilledBefore, MaxOf
    <2> QED
        BY <2>1, <2>2
<1> QED
    BY <1>1, <1>8, <1>11 DEF FillInv, CacheInv, InfoInv, BackInv

LEMMA FillInvFrontfillNext ==
    ASSUME FillInv, FrontfillNext
    PROVE  FillInv'
<1> DEFINE first == bounds.frontfill.first
           last == bounds.frontfill.last
           end == MaxOf(first, last + 1)
<1>1. /\ pc = "fronted"
      /\ bounds' = [bounds EXCEPT !.frontfill.first = MaxOf(@, last + 1)]
      /\ pc' \in {"frontfill", "recheck"}
      /\ \/ info' = info
         \/ info' = [info EXCEPT !.last = MaxOf(bounds'.frontfill.first - 1, @)]
      /\ UNCHANGED <<tip, db, cache, left, right>>
    BY DEF FrontfillNext
<1>2. /\ bounds \in [backfill : RangeType, frontfill : RangeType, n : Nat]
      /\ info \in [first : Nat, last : Nat, isNewDb : BOOLEAN]
      /\ left \in Nat
    BY DEF FillInv, TypeInv
<1>3. first \in Nat /\ last \in Nat /\ info.last \in Nat
    BY <1>2 DEF RangeType
<1>4. end \in Nat /\ 1 <= end /\ last <= end - 1
    BY <1>3 DEF MaxOf
<1>5. /\ 1 <= left
      /\ \A s \in left..(end - 1) : Accounted(s)
      /\ \A s \in db : s < end
    BY <1>1 DEF FillInv, FrontInv, FilledBefore
<1>6. bounds' = [bounds EXCEPT !.frontfill.first = end]
    BY <1>1, <1>2 DEF RangeType
<1> HIDE DEF end
<1>7. /\ bounds' \in [backfill : RangeType, frontfill : RangeType, n : Nat]
      /\ bounds'.frontfill.first = end /\ bounds'.frontfill.last = last
    BY <1>2, <1>4, <1>6 DEF RangeType
<1>8. info' \in [first : Nat, last : Nat, isNewDb : BOOLEAN]
    <2> DEFINE m == MaxOf(end - 1, info.last)
    <2>1. m \in Nat
        BY <1>3, <1>4 DEF MaxOf
    <2>2. info' = info \/ info' = [info EXCEPT !.last = m]
        BY <1>1, <1>7
    <2> HIDE DEF m
    <2> QED
        BY <1>2, <2>1, <2>2
<1>9. TypeInv'
    BY <1>1, <1>7, <1>8 DEF FillInv, TypeInv
<1>10. \A s : Accounted(s) => Accounted(s)'
    BY <1>1 DEF Accounted
<1>11. FrontInv'
    <2>1. \A s \in left'..(end - 1) : Accounted(s)'
        BY <1>1, <1>5, <1>10
    <2>2. \A s \in left'..last : Accounted(s)'
        BY <1>1, <1>2, <1>3, <1>4, <2>1
    <2> QED
        BY <1>1, <1>4, <1>5, <1>7, <2>1, <2>2 DEF FrontInv, FilledBefore
<1> QED
    BY <1>1, <1>9, <1>11 DEF FillInv, CacheInv, InfoInv, BackInv

LEMMA FillInvVerifyAfter ==
    ASSUME FillInv, VerifyAfter
    PROVE  FillInv'
<1>1. /\ pc = "recheck" /\ pc' \in {"reset", "fatal"}
      /\ cache' = Memoized
      /\ UNCHANGED <<tip, db, info, bounds, left, right>>
    BY DEF VerifyAfter
<1>2. TypeInv'
    BY <1>1, MemoizedType DEF FillInv, TypeInv
<1>3. FrontInv'
    BY <1>1 DEF FillInv, FrontInv, Accounted
<1> QED
    BY <1>1, <1>2, <1>3 DEF FillInv, CacheInv, InfoInv, BackInv

\* The steps outside a fill: ResetCache, Restart.
LEMMA FillInvOutside ==
    ASSUME FillInv, ResetCache \/ Restart
    PROVE  FillInv'
<1>1. /\ cache' = NoCache /\ pc' \in {"meta", "serving", "boot"}
      /\ UNCHANGED <<tip, db, info, bounds, left, right>>
    BY DEF ResetCache, Restart
<1>2. NoCache \in [first : Nat, latest : Nat] /\ NoCache.first = 0 /\ NoCache.latest = 0
    BY DEF NoCache
<1>3. TypeInv' /\ CacheInv'
    BY <1>1, <1>2 DEF FillInv, TypeInv, CacheInv
<1> QED
    BY <1>1, <1>3 DEF FillInv, InfoInv, BackInv, FrontInv

\* The datastore's tip moves on under a fill.
LEMMA FillInvExport ==
    ASSUME FillInv, Export
    PROVE  FillInv'
<1>1. tip' = tip + 1 /\ UNCHANGED <<db, cache, pc, info, bounds, left, right>>
    BY DEF Export
<1>2. /\ tip \in Nat /\ CheckpointFrequency \in Nat /\ bounds.n \in Nat /\ left \in Nat
      /\ OldestInDatastore \in Nat
    BY BackfillAssumption DEF FillInv, TypeInv
<1>3. TypeInv'
    BY <1>1, <1>2 DEF FillInv, TypeInv
<1>4. BackInv'
    <2>1. SUFFICES ASSUME pc = "backfill" PROVE BackInv'
        BY <1>1 DEF BackInv
    <2>2. bounds.n <= tip' /\ left <= MaxOf(tip' - bounds.n + 1, OldestInDatastore)
        BY <1>1, <1>2, <2>1 DEF FillInv, BackInv, MaxOf
    <2> QED
        BY <1>1, <2>1, <2>2 DEF FillInv, BackInv
<1>5. CacheInv' /\ InfoInv' /\ FrontInv'
    BY <1>1 DEF FillInv, CacheInv, InfoInv, FrontInv, FilledBefore, Accounted
<1> QED
    BY <1>3, <1>4, <1>5 DEF FillInv

LEMMA FillInvStep == FillInv /\ [Next]_vars => FillInv'
<1> SUFFICES ASSUME FillInv, [Next]_vars PROVE FillInv'
    OBVIOUS
<1>1. CASE UNCHANGED vars
    BY <1>1 DEF vars, FillInv, TypeInv, CacheInv, InfoInv, BackInv, FrontInv, FilledBefore,
                Accounted
<1> QED
    BY <1>1, FillInvBoot, FillInvMeta, FillInvVerifyBefore, FillInvSetBounds,
       FillInvBackfillChunk, FillInvBackfillDone, FillInvFrontfillStart,
       FillInvFrontfillChunk, FillInvFrontfillNext, FillInvVerifyAfter, FillInvOutside,
       FillInvExport
       DEF Next, BackfillStep

-----------------------------------------------------------------------------
(***************************************************************************)
(* The properties.                                                         *)
(***************************************************************************)
LEMMA FillInvAlways == Spec => []FillInv
BY FillInvInit, FillInvStep, PTL DEF Spec

\* backfillChunks, from newest to oldest: for every chunk size, window and
\* renewal of the left edge, a process killed between two chunks leaves no gap.
THEOREM NoGapBetweenChunks == Spec => []GaplessWhileBackfilling
<1>1. FillInv => GaplessWhileBackfilling
    <2> SUFFICES ASSUME FillInv, pc = "backfill" PROVE Gapless(db)
        BY DEF GaplessWhileBackfilling
    <2>1. /\ db = (right + 1)..(bounds.frontfill.first - 1)
          /\ right \in Int /\ bounds.frontfill.first \in Int
        BY DEF FillInv, BackInv, TypeInv, RangeType
    <2> QED
        BY <2>1 DEF Gapless
<1> QED
    BY FillInvAlways, <1>1, PTL

\* Service.ingestRange, whose insertions fail on a stored ledger: no chunk of
\* either direction meets one, wherever earlier processes were killed.
THEOREM ChunksAlwaysNew == Spec => []ChunksAreNew
<1>1. FillInv => ChunksAreNew
    <2> SUFFICES ASSUME FillInv PROVE ChunksAreNew
        OBVIOUS
    <2>1. /\ right \in Int /\ bounds.frontfill.first \in Int /\ db \subseteq Int
        BY DEF FillInv, TypeInv, RangeType
    <2>2. pc = "backfill" => \A s \in db : s > right
        BY <2>1 DEF FillInv, BackInv
    <2>3. pc = "frontchunk" => \A s \in db : s < right
        BY DEF FillInv, FrontInv, FilledBefore
    <2>4. ASSUME pc = "backfill" PROVE BackfillChunkStart..right \cap db = {}
        BY <2>1, <2>2, <2>4
    <2>5. ASSUME pc = "frontchunk" PROVE right..FrontfillChunkEnd \cap db = {}
        BY <2>1, <2>3, <2>5
    <2> QED
        BY <2>4, <2>5 DEF ChunksAreNew
<1> QED
    BY FillInvAlways, <1>1, PTL

\* runBackfill and runFrontfill: a finished fill has every ledger from the left
\* edge to the newest checkpoint, but for those trimmed since and a checkpoint.
THEOREM WindowIsFilled == Spec => []WindowFilled
<1>1. FillInv => WindowFilled
    BY DEF FillInv, FrontInv, Accounted, WindowFilled
<1> QED
    BY FillInvAlways, <1>1, PTL

\* Adding a chunk of older ledgers trims nothing.
LEMMA OlderChunkKept ==
    ASSUME FillInv, BackfillChunk
    PROVE  db' = db \cup BackfillChunkStart..right
<1> DEFINE lo == BackfillChunkStart
<1>1. right >= left /\ pc = "backfill" /\ IngestRange(lo, right)
    BY DEF BackfillChunk
<1>2. /\ HistoryRetentionWindow \in Nat \ {0} /\ ChunkSize \in Nat \ {0}
      /\ left \in Nat /\ right \in Nat /\ bounds.frontfill.first \in Nat
      /\ db \subseteq Nat \ {0}
    BY BackfillAssumption DEF FillInv, TypeInv, RangeType
<1>3. /\ db = (right + 1)..(bounds.frontfill.first - 1)
      /\ 1 <= left /\ right < left + HistoryRetentionWindow
    BY <1>1 DEF FillInv, BackInv
<1>4. lo \in Nat \ {0} /\ left <= lo /\ lo <= right
    BY <1>1, <1>2, <1>3 DEF BackfillChunkStart, MaxOf
<1> HIDE DEF lo
<1>5. /\ db' \subseteq db \cup lo..right
      /\ \A s \in Nat : s + HistoryRetentionWindow > right /\ s \in db \cup lo..right => s \in db'
    BY <1>1, <1>2, <1>4, Ingested DEF FillInv
<1>6. \A s \in db \cup lo..right : s \in Nat /\ s + HistoryRetentionWindow > right
    <2>1. ASSUME NEW s \in db
          PROVE  s \in Nat /\ s + HistoryRetentionWindow > right
        <3>1. s \in (right + 1)..(bounds.frontfill.first - 1)
            BY <1>3
        <3> QED
            BY <1>2, <3>1
    <2>2. ASSUME NEW s \in lo..right
          PROVE  s \in Nat /\ s + HistoryRetentionWindow > right
        BY <1>2, <1>3, <1>4
    <2> QED
        BY <2>1, <2>2
<1> QED
    BY <1>5, <1>6 DEF lo

\* Adding a chunk of newer ledgers trims what is a retention window older.
LEMMA NewerChunkTrims ==
    ASSUME FillInv, FrontfillChunk, NEW s \in db, s \notin db'
    PROVE  \E n \in db' : s + HistoryRetentionWindow <= n
<1> DEFINE hi == FrontfillChunkEnd
<1>1. pc = "frontchunk" /\ right <= bounds.frontfill.last /\ IngestRange(right, hi)
    BY DEF FrontfillChunk
<1>2. /\ ChunkSize \in Nat \ {0} /\ right \in Nat /\ bounds.frontfill.last \in Nat
      /\ 1 <= bounds.frontfill.first /\ bounds.frontfill.first \in Nat
      /\ bounds.frontfill.first <= right
    BY <1>1, BackfillAssumption DEF FillInv, TypeInv, RangeType, FrontInv
<1>3. right \in Nat \ {0} /\ hi \in Nat /\ right <= hi
    BY <1>1, <1>2 DEF FrontfillChunkEnd, MinOf
<1> HIDE DEF hi
<1>4. hi \in db' /\ s + HistoryRetentionWindow <= hi
    BY <1>1, <1>3, Ingested DEF FillInv
<1> QED
    BY <1>4

\* backfillChunks and frontfillChunks: for every window, chunk size and pace of
\* the datastore, no transaction deletes a ledger that is within the retention
\* window of a stored one, and none deletes a part of what it has just loaded
\* from the left of the database.
THEOREM FillKeeps == Spec => FillKeepsLedgers
<1>1. ASSUME FillInv, [Next]_vars
      PROVE  [/\ BackfillChunk => db' = db \cup BackfillChunkStart..right
              /\ \A s \in db \ db' : \E n \in db' : s + HistoryRetentionWindow <= n]_vars
    <2>1. ASSUME BackfillChunk PROVE db' = db \cup BackfillChunkStart..right
        BY <1>1, <2>1, OlderChunkKept
    <2>2. ASSUME NEW s \in db, s \notin db'
          PROVE  \E n \in db' : s + HistoryRetentionWindow <= n
        <3>1. CASE BackfillChunk
            BY <2>1, <2>2, <3>1
        <3>2. CASE FrontfillChunk
            BY <1>1, <2>2, <3>2, NewerChunkTrims
        <3>3. CASE db' = db
            BY <2>2, <3>3
        <3>4. BackfillChunk \/ FrontfillChunk \/ db' = db
            BY <1>1 DEF Next, BackfillStep, vars, Boot, NewBackfillMeta, VerifyBefore, SetBounds,
                        BackfillDone, FrontfillStart, FrontfillNext, VerifyAfter, ResetCache,
                        Export, Restart
        <3> QED
            BY <3>1, <3>2, <3>3, <3>4
    <2> QED
        BY <2>1, <2>2
<1> QED
    BY <1>1, FillInvAlways, PTL DEF Spec, FillKeepsLedgers
=============================================================================
