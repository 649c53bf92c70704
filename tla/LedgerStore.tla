---------------------------- MODULE LedgerStore ----------------------------
(***************************************************************************)
(* The ledger database and its in-memory range cache (internal/db/db.go,   *)
(* ledger.go).  One writer (the ingestion service) writes a ledger, its    *)
(* transactions and its events in one SQLite transaction, trims the three  *)
(* tables, commits and updates the cache under the cache's write lock.     *)
(* Readers (the JSON-RPC handlers) copy the cache under its read lock, run *)
(* their SQL without any lock, and take the write lock again to memoize    *)
(* what they found.  SQL is external: a statement outside a transaction    *)
(* sees the tables as last committed; a read transaction fixes its         *)
(* snapshot at its first statement, because BEGIN is deferred.             *)
(*                                                                         *)
(* A ledger stands for its sequence number; 0 is the code's "not cached".  *)
(* The close times travel with the sequence numbers and are left out.      *)
(***************************************************************************)
EXTENDS Naturals

CONSTANTS
    Readers,                (* concurrent calls into the reader API        *)
    HistoryRetentionWindow, (* ledgers kept in the database                *)
    MaxLedger               (* bound on the ledger sequence numbers        *)

ASSUME WindowAssumption == HistoryRetentionWindow \in Nat \ {0}
ASSUME MaxLedgerAssumption == MaxLedger \in Nat \ {0}

VARIABLES
    db,          (* committed tables: for which ledgers each table has rows *)
    latest,      (* dbCache.latestLedgerSeq                                 *)
    first,       (* dbCache.firstLedgerSeq                                  *)
    cacheLock,   (* holder of dbCache's write lock                          *)
    writer,      (* the writeTx of the ingestion service                    *)
    reader       (* the reader calls in progress                            *)

cache == <<latest, first>>
vars == <<db, latest, first, cacheLock, writer, reader>>

Ledger == 1..MaxLedger
LedgerOrNone == 0..MaxLedger

Tables == [ledgers : SUBSET Ledger, transactions : SUBSET Ledger, events : SUBSET Ledger]

\* MIN(sequence) and MAX(sequence): no row when the table is empty.
Oldest(S) == {m \in S : \A x \in S : m <= x}
Newest(S) == {m \in S : \A x \in S : x <= m}

(***************************************************************************)
(* Rows a writer still buffers in memory (transactionHandler.pending,      *)
(* eventHandler.pending) belong to the ledgers of pending.                 *)
(***************************************************************************)
WriterState ==
    [pc      : {"idle", "open", "inserted", "flushed", "trimmed", "committed", "checkpoint"},
     seq     : LedgerOrNone,
     tables  : Tables,
     pending : SUBSET Ledger]

(***************************************************************************)
(* op is the API function called.  lastSeen is the copy of                 *)
(* cache.latestLedgerSeq a call works with; lo and hi are the result       *)
(* (lo = 0 : an error, or a call that asks for the latest ledger only).    *)
(* snap are the ledgers visible to the call's statement, before the        *)
(* ledgers committed when the call began; both are history only.           *)
(***************************************************************************)
ReaderState ==
    [op       : {"none", "range", "latest", "tx"},
     pc       : {"idle", "copy", "query", "memoize", "publish", "done"},
     lastSeen : LedgerOrNone,
     lo       : LedgerOrNone,
     hi       : LedgerOrNone,
     snap     : SUBSET Ledger,
     before   : SUBSET Ledger]

NoTables == [ledgers |-> {}, transactions |-> {}, events |-> {}]
IdleWriter == [pc |-> "idle", seq |-> 0, tables |-> NoTables, pending |-> {}]
IdleReader == [op |-> "none", pc |-> "idle", lastSeen |-> 0, lo |-> 0, hi |-> 0,
               snap |-> {}, before |-> {}]

\* Mutant: a reader does not wait for the cache's lock.
CacheNeverLocked == TRUE

CacheUnlocked == cacheLock = "free"

Init ==
    /\ db = NoTables
    /\ latest = 0
    /\ first = 0
    /\ cacheLock = "free"
    /\ writer = IdleWriter
    /\ reader = [r \in Readers |-> IdleReader]

-----------------------------------------------------------------------------
(***************************************************************************)
(* The writer.                                                             *)
(***************************************************************************)

\* readWriter.NewTx: BEGIN on a clone of the session.
NewWriteTx ==
    /\ writer.pc = "idle"
    /\ writer' = [IdleWriter EXCEPT !.pc = "open", !.tables = db]
    /\ UNCHANGED <<db, latest, first, cacheLock, reader>>

\* Mutant: the loop asks for any newer ledger, so that a gap is possible.
NextToIngestWithGap(s) ==
    /\ s \in Ledger
    /\ \A n \in Newest(db.ledgers) : n < s

\* The ledger the ingestion loop asks for: the one after the newest ledger in
\* the database, or where the archive stands when the database is empty.
NextToIngest(s) ==
    /\ s \in Ledger
    /\ db.ledgers # {} => (s - 1) \in Newest(db.ledgers)

\* InsertLedger, InsertTransactions and InsertEvents for the ledgers of batch.
\* The ledger row is inserted at once; the other rows are buffered.
InsertLedgers(batch, s) ==
    /\ writer.pc = "open"
    /\ batch \cap writer.tables.ledgers = {}
    /\ writer' = [writer EXCEPT !.pc = "inserted", !.seq = s,
                                !.tables.ledgers = @ \cup batch,
                                !.pending = @ \cup batch]
    /\ UNCHANGED <<db, latest, first, cacheLock, reader>>

IngestLedger == \E s \in Ledger : NextToIngest(s) /\ InsertLedgers({s}, s)

\* Mutant: the buffered events are forgotten.
FlushTransactionsOnly ==
    /\ writer.pc = "inserted"
    /\ writer' = [writer EXCEPT !.pc = "flushed",
                                !.tables.transactions = @ \cup writer.pending,
                                !.pending = {}]
    /\ UNCHANGED <<db, latest, first, cacheLock, reader>>

\* flushWriters: the buffered rows reach the tables of the open transaction.
FlushWriters ==
    /\ writer.pc = "inserted"
    /\ writer' = [writer EXCEPT !.pc = "flushed",
                                !.tables.transactions = @ \cup writer.pending,
                                !.tables.events = @ \cup writer.pending,
                                !.pending = {}]
    /\ UNCHANGED <<db, latest, first, cacheLock, reader>>

\* Mutant: the cutoff is off by one, so that one ledger too many is kept.
TrimTooLittle(S, s) == {x \in S : x + HistoryRetentionWindow >= s}

\* DELETE ... WHERE sequence < cutoff, unless the window is not full yet.
Trim(S, s) ==
    IF s + 1 <= HistoryRetentionWindow
    THEN S
    ELSE {x \in S : x >= s + 1 - HistoryRetentionWindow}

\* trimTables: trimLedgers, trimTransactions, trimEvents.
TrimTables ==
    /\ writer.pc = "flushed"
    /\ writer' = [writer EXCEPT !.pc = "trimmed",
                                !.tables = [ledgers      |-> Trim(@.ledgers, writer.seq),
                                            transactions |-> Trim(@.transactions, writer.seq),
                                            events       |-> Trim(@.events, writer.seq)]]
    /\ UNCHANGED <<db, latest, first, cacheLock, reader>>

\* commitAndUpdateCache, first half: take the cache's write lock and COMMIT.
\* From here on every statement of a reader sees the new tables.
CommitTx ==
    /\ writer.pc = "trimmed"
    /\ CacheUnlocked
    /\ cacheLock' = "writer"
    /\ db' = writer.tables
    /\ writer' = [writer EXCEPT !.pc = "committed"]
    /\ UNCHANGED <<latest, first, reader>>

\* The cached oldest ledger is dropped when the trim removed it.
FirstAfterCommit(s) ==
    IF /\ s + 1 > HistoryRetentionWindow
       /\ first # 0
       /\ first < s + 1 - HistoryRetentionWindow
    THEN 0
    ELSE first

\* Mutant: the lock is not released.
UpdateCacheKeepsLock ==
    /\ writer.pc = "committed"
    /\ latest' = IF writer.seq > latest THEN writer.seq ELSE latest
    /\ first' = FirstAfterCommit(writer.seq)
    /\ writer' = [writer EXCEPT !.pc = "checkpoint"]
    /\ UNCHANGED <<db, cacheLock, reader>>

\* commitAndUpdateCache, second half, and the deferred Unlock.
UpdateCache ==
    /\ writer.pc = "committed"
    /\ latest' = IF writer.seq > latest THEN writer.seq ELSE latest
    /\ first' = FirstAfterCommit(writer.seq)
    /\ cacheLock' = "free"
    /\ writer' = [writer EXCEPT !.pc = "checkpoint"]
    /\ UNCHANGED <<db, reader>>

\* postCommit: PRAGMA wal_checkpoint, whose failure is reported to the caller
\* although the transaction is committed.
PostCommit ==
    /\ writer.pc = "checkpoint"
    /\ writer' = IdleWriter
    /\ UNCHANGED <<db, latest, first, cacheLock, reader>>

\* An insert, flush, trim or COMMIT fails, and the deferred Rollback runs.
Rollback ==
    /\ writer.pc \in {"open", "inserted", "flushed", "trimmed"}
    /\ writer' = IdleWriter
    /\ UNCHANGED <<db, latest, first, cacheLock, reader>>

-----------------------------------------------------------------------------
(***************************************************************************)
(* The readers.                                                            *)
(***************************************************************************)

Set(r, state) ==
    /\ reader' = [reader EXCEPT ![r] = state]
    /\ UNCHANGED <<db, cacheLock, writer>>

\* Where a call continues once ledgerReader.GetLedgerRange has its answer.
AfterRange(op) == IF op = "latest" THEN "publish" ELSE "done"

\* ledgerReader.GetLedgerRange up to RUnlock: answer from the cache when both
\* ends are cached, else go on to the query.
CopyCache(r, state) ==
    /\ CacheUnlocked
    /\ Set(r, IF latest # 0 /\ first # 0
              THEN [state EXCEPT !.pc = AfterRange(state.op), !.lastSeen = latest,
                                 !.lo = first, !.hi = latest, !.snap = db.ledgers]
              ELSE [state EXCEPT !.pc = "query", !.lastSeen = latest])
    /\ UNCHANGED cache

GetLedgerRange(r) ==
    /\ reader[r].pc = "idle"
    /\ CopyCache(r, [IdleReader EXCEPT !.op = "range", !.before = db.ledgers])

\* ledgerReader.NewTx: BEGIN and the copy of the cached latest ledger, under
\* the read lock; tx.GetLedgerRange continues with the query.
NewReadTx(r) ==
    /\ reader[r].pc = "idle"
    /\ CacheUnlocked
    /\ Set(r, [IdleReader EXCEPT !.op = "tx", !.pc = "query",
                                 !.lastSeen = latest, !.before = db.ledgers])
    /\ UNCHANGED cache

\* getLatestLedgerSequence up to RUnlock.
GetLatestLedgerSequence(r) ==
    /\ reader[r].pc = "idle"
    /\ CacheUnlocked
    /\ LET call == [IdleReader EXCEPT !.op = "latest", !.before = db.ledgers]
       IN  Set(r, IF latest # 0
                  THEN [call EXCEPT !.pc = "done", !.hi = latest]
                  ELSE [call EXCEPT !.pc = "copy"])
    /\ UNCHANGED cache

\* getLatestLedgerSequence calls ledgerReader.GetLedgerRange.
GetRangeForLatest(r) ==
    /\ reader[r].pc = "copy"
    /\ CopyCache(r, reader[r])

\* getLedgerRangeWithCache: SELECT the oldest ledger, keep the cached latest.
QueryOldest(r) ==
    /\ reader[r].pc = "query"
    /\ reader[r].lastSeen # 0
    /\ \E m \in Oldest(db.ledgers) :
          Set(r, [reader[r] EXCEPT !.pc = IF reader[r].op = "tx" THEN "done" ELSE "memoize",
                                   !.lo = m, !.hi = reader[r].lastSeen,
                                   !.snap = db.ledgers])
    /\ UNCHANGED cache

\* getLedgerRangeWithoutCache: one SELECT for both ends, never memoized.
QueryBoth(r) ==
    /\ reader[r].pc = "query"
    /\ reader[r].lastSeen = 0
    /\ \E m \in Oldest(db.ledgers), n \in Newest(db.ledgers) :
          Set(r, [reader[r] EXCEPT !.pc = AfterRange(reader[r].op),
                                   !.lo = m, !.hi = n, !.snap = db.ledgers])
    /\ UNCHANGED cache

\* Either query finds no row: ErrEmptyDB is returned at once.
QueryEmpty(r) ==
    /\ reader[r].pc = "query"
    /\ db.ledgers = {}
    /\ Set(r, [reader[r] EXCEPT !.pc = "done"])
    /\ UNCHANGED cache

\* The statement fails, or the request's context is cancelled.
QueryFails(r) ==
    /\ reader[r].pc = "query"
    /\ Set(r, [reader[r] EXCEPT !.pc = "done"])
    /\ UNCHANGED cache

\* Mutant: the oldest ledger is memoized although a commit came in between.
MemoizeUnchecked(r) ==
    /\ reader[r].pc = "memoize"
    /\ CacheUnlocked
    /\ first' = IF first = 0 THEN reader[r].lo ELSE first
    /\ Set(r, [reader[r] EXCEPT !.pc = AfterRange(reader[r].op)])
    /\ UNCHANGED latest

\* The tail of ledgerReader.GetLedgerRange: memoize the oldest ledger unless
\* it is known by now or a commit advanced the latest ledger.
Memoize(r) ==
    /\ reader[r].pc = "memoize"
    /\ CacheUnlocked
    /\ first' = IF first = 0 /\ latest = reader[r].lastSeen THEN reader[r].lo ELSE first
    /\ Set(r, [reader[r] EXCEPT !.pc = AfterRange(reader[r].op)])
    /\ UNCHANGED latest

\* Mutant: a slow reader overwrites the cached latest ledger.
PublishUnchecked(r) ==
    /\ reader[r].pc = "publish"
    /\ CacheUnlocked
    /\ latest' = reader[r].hi
    /\ Set(r, [reader[r] EXCEPT !.pc = "done"])
    /\ UNCHANGED first

\* The tail of getLatestLedgerSequence: refresh the cached latest ledger.
PublishLatest(r) ==
    /\ reader[r].pc = "publish"
    /\ CacheUnlocked
    /\ latest' = IF latest < reader[r].hi THEN reader[r].hi ELSE latest
    /\ Set(r, [reader[r] EXCEPT !.pc = "done"])
    /\ UNCHANGED first

\* The call returns to its handler (and a read transaction is rolled back).
Return(r) ==
    /\ reader[r].pc = "done"
    /\ Set(r, IdleReader)
    /\ UNCHANGED cache

-----------------------------------------------------------------------------
(***************************************************************************)
(* The process.                                                            *)
(***************************************************************************)

\* DB.ResetCache, called by mustBackfill before ingestion and the HTTP
\* server start: nobody else uses the database at that moment.
ResetCache ==
    /\ writer.pc = "idle"
    /\ \A r \in Readers : reader[r].pc = "idle"
    /\ latest' = 0
    /\ first' = 0
    /\ UNCHANGED <<db, cacheLock, writer, reader>>

\* The process dies and is started again: the memory is lost, an uncommitted
\* transaction is rolled back by SQLite, the committed tables stay.
Restart ==
    /\ latest' = 0
    /\ first' = 0
    /\ cacheLock' = "free"
    /\ writer' = IdleWriter
    /\ reader' = [r \in Readers |-> IdleReader]
    /\ UNCHANGED db

WriterStep ==
    \/ IngestLedger \/ FlushWriters \/ TrimTables
    \/ CommitTx \/ UpdateCache \/ PostCommit

ReaderStep(r) ==
    \/ GetRangeForLatest(r) \/ QueryOldest(r) \/ QueryBoth(r) \/ QueryEmpty(r)
    \/ Memoize(r) \/ PublishLatest(r) \/ Return(r)

Call(r) == GetLedgerRange(r) \/ NewReadTx(r) \/ GetLatestLedgerSequence(r)

Next ==
    \/ NewWriteTx \/ WriterStep \/ Rollback
    \/ \E r \in Readers : Call(r) \/ ReaderStep(r) \/ QueryFails(r)
    \/ ResetCache \/ Restart

Spec == Init /\ [][Next]_vars

\* The goroutine that holds the cache's lock goes on, and so does a reader that
\* was called: sync.RWMutex starves nobody, hence strong fairness for the steps
\* that wait for it.  Nobody is obliged to begin a call or a ledger.
Fairness ==
    /\ WF_vars(UpdateCache)
    /\ \A r \in Readers : SF_vars(ReaderStep(r))

FairSpec == Spec /\ Fairness

-----------------------------------------------------------------------------
(***************************************************************************)
(* Properties.                                                             *)
(***************************************************************************)

\* Every variable holds a value of its type.
TypeOK ==
    /\ db \in Tables
    /\ latest \in LedgerOrNone
    /\ first \in LedgerOrNone
    /\ cacheLock \in {"free", "writer"}
    /\ writer \in WriterState
    /\ reader \in [Readers -> ReaderState]

\* Whenever the cache can be read (its lock is free) a cached latest ledger is
\* the newest ledger of the database and a cached first ledger its oldest: no
\* memoization or refresh of a slow reader survives a commit or a trim that
\* ran while its statement was in flight (ledger.go, GetLedgerRange; db.go,
\* Commit and getLatestLedgerSequence).
CacheCoherent ==
    CacheUnlocked =>
        /\ latest # 0 => latest \in Newest(db.ledgers)
        /\ first # 0 => latest # 0 /\ first \in Oldest(db.ledgers)

\* The three tables always hold rows for the same ledgers: a ledger's
\* transactions and events appear with it and are trimmed with it, whatever
\* fails on the way (db.go, Commit).
TablesAgree == db.transactions = db.ledgers /\ db.events = db.ledgers

\* The retained ledgers are one gapless interval no longer than the retention
\* window (trimLedgers with the ingestion loop's choice of the next ledger).
RetentionWindow ==
    \A a, b \in db.ledgers :
        /\ a < b + HistoryRetentionWindow
        /\ \A c \in a..b : c \in db.ledgers

\* Every ledger of the range a call returns was there for the statement that
\* computed the range; for a read transaction this is the snapshot in which
\* the handler goes on to read those ledgers (getLedgers, getTransactions).
RangeServable ==
    \A r \in Readers :
        reader[r].pc = "done" /\ reader[r].lo # 0
            => reader[r].lo..reader[r].hi \subseteq reader[r].snap

\* A call that succeeds never reports a latest ledger older than one already
\* committed when the call began: a client that has seen a ledger does not
\* lose it on its next request.
FreshLatest ==
    \A r \in Readers :
        reader[r].pc = "done" /\ reader[r].hi # 0
            => \A x \in reader[r].before : x <= reader[r].hi

\* A committed ledger disappears only when the window has moved past it, and
\* only while a newer ledger takes its place (trimLedgers' cutoff).
TrimOnlyExpired ==
    [][\A x \in db.ledgers \ db'.ledgers :
          \E n \in db'.ledgers : x + HistoryRetentionWindow <= n]_db

\* The database implements the sliding window of RetainedLedgers.
Abstract == INSTANCE RetainedLedgers WITH retained <- db.ledgers
RefinesRetainedLedgers == Abstract!Spec

\* Every call that was started returns: neither the cache's lock nor the
\* query path can hold a reader forever.
CallsReturn == \A r \in Readers : reader[r].pc # "idle" ~> reader[r].pc = "idle"

-----------------------------------------------------------------------------
(***************************************************************************)
(* The inductive invariant behind the safety properties.                   *)
(***************************************************************************)

\* Ledger s extends the interval S by one at its new end.
Follows(s, S) ==
    /\ s \in Ledger
    /\ \A x \in S : x < s
    /\ S # {} => (s - 1) \in S

\* What the open write transaction holds, step by step, relative to db.
WriterInv ==
    /\ (cacheLock = "writer") <=> (writer.pc = "committed")
    /\ writer.pc = "open" => writer.tables = db /\ writer.pending = {}
    /\ writer.pc \in {"inserted", "flushed", "trimmed"} => Follows(writer.seq, db.ledgers)
    /\ writer.pc = "inserted" =>
          /\ writer.pending = {writer.seq}
          /\ writer.tables.ledgers = db.ledgers \cup {writer.seq}
          /\ writer.tables.transactions = db.transactions
          /\ writer.tables.events = db.events
    /\ writer.pc = "flushed" =>
          /\ writer.tables.ledgers = db.ledgers \cup {writer.seq}
          /\ writer.tables.transactions = db.transactions \cup {writer.seq}
          /\ writer.tables.events = db.events \cup {writer.seq}
    /\ writer.pc = "trimmed" =>
          /\ writer.tables.ledgers = Trim(db.ledgers \cup {writer.seq}, writer.seq)
          /\ writer.tables.transactions = Trim(db.transactions \cup {writer.seq}, writer.seq)
          /\ writer.tables.events = Trim(db.events \cup {writer.seq}, writer.seq)

\* Between COMMIT and the cache update the cache is behind the tables, but
\* only by the ledger being committed.
LockedInv ==
    cacheLock = "writer" =>
        /\ writer.seq \in Newest(db.ledgers)
        /\ latest < writer.seq
        /\ first # 0 =>
              /\ latest # 0
              /\ \/ first \in Oldest(db.ledgers)
                 \/ /\ writer.seq + 1 > HistoryRetentionWindow
                    /\ first < writer.seq + 1 - HistoryRetentionWindow

\* What the call of reader r knows of the database, at each of its steps.
CallInv(r) ==
    LET c == reader[r] IN
    /\ c.pc \in {"query", "memoize"} => c.lastSeen <= latest
    /\ c.pc = "memoize" =>
          /\ c.lastSeen # 0
          /\ c.lo # 0
          /\ c.hi = c.lastSeen
          /\ CacheUnlocked /\ latest = c.lastSeen => c.lo \in Oldest(db.ledgers)
    /\ c.pc = "publish" =>
          /\ CacheUnlocked => c.hi <= latest \/ c.hi \in Newest(db.ledgers)
          /\ cacheLock = "writer" => c.hi <= writer.seq

ReaderInv == \A r \in Readers : CallInv(r)

CoherenceInv == TypeOK /\ WriterInv /\ LockedInv /\ ReaderInv /\ CacheCoherent

\* What the result of a call rests on: the interval it has computed lies in
\* its snapshot, and it knows of every ledger committed before it began.
CallResultInv(r) ==
    LET c == reader[r] IN
    /\ c.pc \in {"memoize", "publish", "done"} /\ c.lo # 0 => c.lo..c.hi \subseteq c.snap
    /\ c.pc \in {"copy", "query"} =>
          /\ c.lo = 0
          /\ c.hi = 0
          /\ \A x \in c.before : \E n \in db.ledgers : x <= n
    /\ c.pc = "query" /\ c.lastSeen # 0 => \A x \in c.before : x <= c.lastSeen
    /\ c.pc \in {"memoize", "publish", "done"} /\ c.hi # 0 => \A x \in c.before : x <= c.hi

ResultInv == \A r \in Readers : CallResultInv(r)

IndInv ==
    /\ CoherenceInv
    /\ TablesAgree
    /\ RetentionWindow
    /\ ResultInv
=============================================================================
