------------------------------ MODULE Backfill ------------------------------
(***************************************************************************)
(* Filling the database from the cloud datastore before live ingestion     *)
(* starts (internal/ingest/backfill.go, Service.ingestRange, and the two   *)
(* mustBackfill calls of internal/daemon/daemon.go).  It runs alone: no    *)
(* reader and no other writer uses the database yet.  Ledgers older than   *)
(* the database are written in chunks from newest to oldest, newer ones    *)
(* from oldest to newest, each chunk in one transaction that also trims    *)
(* the tables and updates the range cache.  The datastore is external; its *)
(* tip moves on while the database is being filled.                        *)
(*                                                                         *)
(* A ledger stands for its sequence number.  The process may die between   *)
(* any two steps; failures end it with log.Fatal.                          *)
(***************************************************************************)
EXTENDS Naturals, FiniteSets

CONSTANTS
    HistoryRetentionWindow, (* ledgers kept in the database                *)
    ChunkSize,              (* ledgers per transaction                     *)
    CheckpointFrequency,    (* ledgers between two checkpoints             *)
    RefreshPeriod,          (* chunks after which the left edge is renewed *)
    OldestInDatastore,      (* oldest ledger of the datastore              *)
    MaxLedger               (* bound on the ledger sequence numbers        *)

ASSUME BackfillAssumption ==
    /\ HistoryRetentionWindow \in Nat \ {0}
    /\ ChunkSize \in Nat \ {0}
    /\ CheckpointFrequency \in Nat \ {0}
    /\ RefreshPeriod \in Nat \ {0}
    /\ OldestInDatastore \in Nat \ {0}
    /\ MaxLedger \in Nat
    /\ CheckpointFrequency <= MaxLedger

VARIABLES
    tip,        (* newest ledger in the datastore                          *)
    db,         (* ledgers committed in the local database                 *)
    cache,      (* dbCache : first and latest ledger, 0 : unknown          *)
    pc,         (* where MustNew stands                                    *)
    round,      (* the first or the second mustBackfill                    *)
    info,       (* databaseInfo of BackfillMeta                            *)
    bounds,     (* fillBounds                                              *)
    left,       (* lBound of backfillChunks                                *)
    right,      (* rChunkBound of backfillChunks, lChunkBound of front     *)
    count       (* chunks written so far, or iterations left               *)

vars == <<tip, db, cache, pc, round, info, bounds, left, right, count>>

LedgerOrNone == 0..MaxLedger
MaxOf(a, b) == IF a > b THEN a ELSE b
MinOf(a, b) == IF a < b THEN a ELSE b
OldestOf(S) == CHOOSE m \in S : \A x \in S : m <= x
NewestOf(S) == CHOOSE m \in S : \A x \in S : x <= m

\* CheckpointManager.PrevCheckpoint: the newest checkpoint up to ledger s.
PrevCheckpoint(s) == ((s + 1) \div CheckpointFrequency) * CheckpointFrequency - 1

NoRange == [first |-> 0, last |-> 0]
NoCache == [first |-> 0, latest |-> 0]
NoBounds == [backfill |-> NoRange, frontfill |-> NoRange, n |-> 0]

Init ==
    /\ tip \in (CheckpointFrequency - 1)..MaxLedger
    /\ db \in {{}} \cup {a..b : a \in 1..MaxLedger, b \in 1..MaxLedger}
    /\ Cardinality(db) <= HistoryRetentionWindow
    /\ cache = NoCache
    /\ pc = "boot"
    /\ round = 1
    /\ info = [first |-> 0, last |-> 0, isNewDb |-> FALSE]
    /\ bounds = NoBounds
    /\ left = 0
    /\ right = 0
    /\ count = 0

-----------------------------------------------------------------------------
\* ledgerReader.GetLedgerRange: the cached ends, the other ones from a query.
LedgerRange ==
    IF db = {}
    THEN NoRange
    ELSE [first |-> IF cache.latest # 0 /\ cache.first # 0 THEN cache.first ELSE OldestOf(db),
          last  |-> IF cache.latest # 0 THEN cache.latest ELSE NewestOf(db)]

\* ... which memoizes the oldest ledger when the latest one is cached.
Memoized ==
    IF db # {} /\ cache.latest # 0 THEN [cache EXCEPT !.first = LedgerRange.first] ELSE cache

\* mustInitializeStorage: GetLatestLedgerSequence fills the cache's latest ledger.
Boot ==
    /\ pc = "boot"
    /\ cache' = [NoCache EXCEPT !.latest = IF db = {} THEN 0 ELSE NewestOf(db)]
    /\ pc' = "meta"
    /\ round' = 1
    /\ UNCHANGED <<tip, db, info, bounds, left, right, count>>

NewBackfillMeta ==
    /\ pc = "meta"
    /\ info' = [first |-> LedgerRange.first, last |-> LedgerRange.last, isNewDb |-> db = {}]
    /\ cache' = Memoized
    /\ pc' = "verify"
    /\ UNCHANGED <<tip, db, round, bounds, left, right, count>>

\* verifyDbGapless: the ledgers counted in the range are as many as its length.
GaplessCheck ==
    LET r == LedgerRange IN
    db # {} => Cardinality({s \in db : r.first <= s /\ s <= r.last}) = r.last - r.first + 1

VerifyBefore ==
    /\ pc = "verify"
    /\ pc' = IF GaplessCheck THEN "bounds" ELSE "fatal"
    /\ cache' = Memoized
    /\ UNCHANGED <<tip, db, round, info, bounds, left, right, count>>

\* setBounds, with fillStartMin the left edge of the retention window.
SetBounds ==
    /\ pc = "bounds"
    /\ LET n == MinOf(HistoryRetentionWindow, tip)
           fillStartMin == IF tip >= n + 1
                           THEN MaxOf(tip - n + 1, OldestInDatastore)
                           ELSE OldestInDatastore
           backfillFirst == ~info.isNewDb /\ info.first > fillStartMin
       IN  /\ bounds' = [n         |-> n,
                         backfill  |-> IF backfillFirst
                                       THEN [first |-> fillStartMin, last |-> info.first - 1]
                                       ELSE NoRange,
                         frontfill |-> [first |-> IF info.isNewDb THEN fillStartMin
                                                                  ELSE info.last + 1,
                                        last  |-> 0]]
           /\ pc' = IF backfillFirst /\ tip < info.first THEN "fatal"
                    ELSE IF backfillFirst THEN "backfill" ELSE "frontfill"
           /\ left' = fillStartMin
           /\ right' = IF backfillFirst THEN info.first - 1 ELSE right
           /\ count' = IF backfillFirst THEN 0 ELSE 2
    /\ UNCHANGED <<tip, db, cache, round, info>>

\* Mutant: the end of the range is taken as exclusive.
IngestRangeExclusive(lo, hi) ==
    LET cutoff == IF hi + 1 > HistoryRetentionWindow THEN hi + 1 - HistoryRetentionWindow ELSE 0
    IN  /\ db' = {s \in db \cup lo..(hi - 1) : s >= cutoff}
        /\ cache' = [latest |-> MaxOf(cache.latest, hi),
                     first  |-> IF cache.first < cutoff THEN 0 ELSE cache.first]

(***************************************************************************)
(* Service.ingestRange: one transaction for the ledgers lo..hi.  Commit    *)
(* trims by the newest of them, raises the cached latest ledger to it, and *)
(* drops the cached first ledger when it was trimmed.                      *)
(***************************************************************************)
IngestRange(lo, hi) ==
    LET cutoff == IF hi + 1 > HistoryRetentionWindow THEN hi + 1 - HistoryRetentionWindow ELSE 0
    IN  /\ db' = {s \in db \cup lo..hi : s >= cutoff}
        /\ cache' = [latest |-> MaxOf(cache.latest, hi),
                     first  |-> IF cache.first < cutoff THEN 0 ELSE cache.first]

\* lChunkBound of backfillChunks and rChunkBound of frontfillChunks.
BackfillChunkStart ==
    IF right >= left + ChunkSize - 1 THEN MaxOf(left, right + 1 - ChunkSize) ELSE left
FrontfillChunkEnd == MinOf(bounds.frontfill.last, right + ChunkSize - 1)

\* One turn of the loop of backfillChunks, the renewal of lBound included.
BackfillChunk ==
    /\ pc = "backfill"
    /\ right >= left
    /\ LET lo == BackfillChunkStart
           refresh == count > 0 /\ count % RefreshPeriod = 0 /\ lo > left
       IN  /\ IngestRange(lo, right)
           /\ right' = lo - 1
           /\ count' = count + 1
           /\ left' = IF refresh THEN MaxOf(tip - bounds.n + 1, OldestInDatastore) ELSE left
    /\ UNCHANGED <<tip, pc, round, info, bounds>>

\* runBackfill after the last chunk; one frontfill iteration follows.
BackfillDone ==
    /\ pc = "backfill"
    /\ right < left
    /\ bounds' = [bounds EXCEPT !.backfill.first = left]
    /\ info' = [info EXCEPT !.first = left]
    /\ count' = 1
    /\ pc' = "frontfill"
    /\ UNCHANGED <<tip, db, cache, round, left, right>>

\* Mutant: the ends of the range are both taken as present.
FrontfillNeededBetween(range) == range.first + 1 < range.last

\* An iteration of runFrontfill: fill up to the newest checkpoint, if that is
\* ahead.
FrontfillNeeded(range) == range.first < range.last

FrontfillStart ==
    /\ pc = "frontfill"
    /\ count > 0
    /\ bounds' = [bounds EXCEPT !.frontfill.last = PrevCheckpoint(tip)]
    /\ right' = bounds.frontfill.first
    /\ pc' = IF FrontfillNeeded(bounds'.frontfill) THEN "frontchunk" ELSE "fronted"
    /\ UNCHANGED <<tip, db, cache, round, info, left, count>>

\* One turn of the loop of frontfillChunks.
FrontfillChunk ==
    /\ pc = "frontchunk"
    /\ right <= bounds.frontfill.last
    /\ IngestRange(right, FrontfillChunkEnd)
    /\ right' = right + ChunkSize
    /\ pc' = IF right + ChunkSize <= bounds.frontfill.last THEN "frontchunk" ELSE "fronted"
    /\ UNCHANGED <<tip, round, info, bounds, left, count>>

\* Mutant: the second iteration starts where the first one did.
FrontfillNextFromSameStart ==
    /\ pc = "fronted"
    /\ count' = count - 1
    /\ pc' = IF count > 1 THEN "frontfill" ELSE "recheck"
    /\ UNCHANGED <<tip, db, cache, round, info, bounds, left, right>>

\* Mutant: iterate until the tip is reached.
FrontfillNextUntilTip ==
    /\ pc = "fronted"
    /\ bounds' = [bounds EXCEPT !.frontfill.first = MaxOf(@, bounds.frontfill.last + 1)]
    /\ pc' = IF bounds'.frontfill.first <= tip THEN "frontfill" ELSE "recheck"
    /\ UNCHANGED <<tip, db, cache, round, info, left, right, count>>

\* The end of an iteration, and of runFrontfill after the last one.
FrontfillNext ==
    /\ pc = "fronted"
    /\ bounds' = [bounds EXCEPT !.frontfill.first = MaxOf(@, bounds.frontfill.last + 1)]
    /\ count' = count - 1
    /\ pc' = IF count > 1 THEN "frontfill" ELSE "recheck"
    /\ info' = IF count > 1 THEN info
               ELSE [info EXCEPT !.last = MaxOf(bounds'.frontfill.first - 1, @)]
    /\ UNCHANGED <<tip, db, cache, round, left, right>>

\* The gap check after filling; verifyBounds only warns.
VerifyAfter ==
    /\ pc = "recheck"
    /\ cache' = Memoized
    /\ pc' = IF GaplessCheck THEN "reset" ELSE "fatal"
    /\ UNCHANGED <<tip, db, round, info, bounds, left, right, count>>

\* mustBackfill: ResetCache; after the second call ingestion starts.
ResetCache ==
    /\ pc = "reset"
    /\ cache' = NoCache
    /\ round' = 2
    /\ pc' = IF round = 1 THEN "meta" ELSE "serving"
    /\ UNCHANGED <<tip, db, info, bounds, left, right, count>>

\* The datastore receives the next ledger.
Export ==
    /\ tip < MaxLedger
    /\ tip' = tip + 1
    /\ UNCHANGED <<db, cache, pc, round, info, bounds, left, right, count>>

\* The process dies, or has ended, and is started again.
Restart ==
    /\ pc # "boot"
    /\ pc' = "boot"
    /\ cache' = NoCache
    /\ UNCHANGED <<tip, db, round, info, bounds, left, right, count>>

BackfillStep ==
    \/ Boot \/ NewBackfillMeta \/ VerifyBefore \/ SetBounds \/ BackfillChunk \/ BackfillDone
    \/ FrontfillStart \/ FrontfillChunk \/ FrontfillNext \/ VerifyAfter \/ ResetCache

Next == BackfillStep \/ Export \/ Restart

Spec == Init /\ [][Next]_vars

\* A process that is not killed goes on.
FairSpec == Spec /\ WF_vars(BackfillStep)

-----------------------------------------------------------------------------
Gapless(S) == \A a, b \in S : a..b \subseteq S

\* While older ledgers are being added the database has no gap, so that a
\* process killed between two chunks passes the gap check when it is started
\* again (backfillChunks goes from newest to oldest).
GaplessWhileBackfilling == pc = "backfill" => Gapless(db)

\* A finished run has filled the retention window up to the newest checkpoint
\* of the datastore: a ledger that is not there has been trimmed, or is a
\* checkpoint (runFrontfill leaves out a range of one ledger, a checkpoint).
WindowFilled ==
    pc = "reset" =>
        \A s \in left..bounds.frontfill.last :
            \/ s \in db
            \/ \E n \in db : s + HistoryRetentionWindow <= n
            \/ PrevCheckpoint(s) = s

\* No chunk holds a ledger that is already in the database, whose sequence
\* number is its primary key: ingestRange would fail and the process end.
ChunksAreNew ==
    /\ pc = "backfill" /\ right >= left => BackfillChunkStart..right \cap db = {}
    /\ pc = "frontchunk" => right..FrontfillChunkEnd \cap db = {}

\* No chunk costs the database a ledger that it should keep.  Adding older
\* ledgers trims nothing, neither what is stored nor what was just loaded,
\* although the left edge is renewed on the way; adding newer ones trims only
\* what a stored ledger has left behind by a whole retention window.
FillKeepsLedgers ==
    [][/\ BackfillChunk => db' = db \cup BackfillChunkStart..right
       /\ \A s \in db \ db' : \E n \in db' : s + HistoryRetentionWindow <= n]_vars

\* Filling ends, with ingestion about to start or with log.Fatal, unless the
\* process is killed over and over: no chunk is written twice, no loop bound
\* runs away from its loop, and a restart does not start over for ever.
BackfillEnds == <>[][~Restart]_vars => <>(pc \in {"serving", "fatal"})

\* "Ensure no gaps introduced": filling never leaves a gap in the database.
NoGapIntroduced == Gapless(db)
=============================================================================
