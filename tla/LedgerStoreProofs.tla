-------------------------- MODULE LedgerStoreProofs -------------------------
(***************************************************************************)
(* Proofs about LedgerStore, for any set of readers, any retention window  *)
(* and any bound on the ledger sequence numbers.                           *)
(***************************************************************************)
EXTENDS LedgerStore, TLAPS

USE WindowAssumption, MaxLedgerAssumption

-----------------------------------------------------------------------------
(***************************************************************************)
(* Type correctness.                                                       *)
(***************************************************************************)

\* Trimming a table keeps a subset of its ledgers.
LEMMA TrimSubset ==
    ASSUME NEW S, NEW s PROVE Trim(S, s) \subseteq S
BY DEF Trim

\* A state of the idle reader and the idle writer has its type.
LEMMA IdleTypes == IdleWriter \in WriterState /\ IdleReader \in ReaderState
BY DEF IdleWriter, IdleReader, WriterState, ReaderState, NoTables, Tables, LedgerOrNone, Ledger

\* Copying the cache into a well-typed call keeps every type.
LEMMA CopyCacheType ==
    ASSUME TypeOK, NEW r \in Readers, NEW c \in ReaderState, CopyCache(r, c)
    PROVE  TypeOK'
BY DEF TypeOK, CopyCache, Set, cache, AfterRange, ReaderState, Tables

\* The type invariant is preserved by every step of the writer.
LEMMA WriterType ==
    ASSUME TypeOK, NewWriteTx \/ WriterStep \/ Rollback
    PROVE  TypeOK'
<1>1. CASE NewWriteTx
  <2>1. [IdleWriter EXCEPT !.pc = "open", !.tables = db] \in WriterState
    BY IdleTypes DEF TypeOK, WriterState
  <2>. QED
    BY <1>1, <2>1 DEF NewWriteTx, TypeOK
<1>2. CASE IngestLedger
  <2>1. PICK s \in Ledger : InsertLedgers({s}, s)
    BY <1>2 DEF IngestLedger
  <2>2. writer' \in WriterState
    <3>1. s \in LedgerOrNone /\ {s} \in SUBSET Ledger
      BY DEF Ledger, LedgerOrNone
    <3>2. [writer.tables EXCEPT !.ledgers = @ \cup {s}] \in Tables
      BY <3>1 DEF TypeOK, WriterState, Tables
    <3>3. writer' = [writer EXCEPT !.pc = "inserted", !.seq = s,
                       !.tables = [writer.tables EXCEPT !.ledgers = @ \cup {s}],
                       !.pending = @ \cup {s}]
      BY <2>1 DEF InsertLedgers, TypeOK, WriterState, Tables
    <3>. QED
      BY <3>1, <3>2, <3>3 DEF TypeOK, WriterState
  <2>. QED
    BY <2>1, <2>2 DEF InsertLedgers, TypeOK
<1>3. CASE FlushWriters
  BY <1>3 DEF FlushWriters, TypeOK, WriterState, Tables
<1>4. CASE TrimTables
  <2>1. writer' \in WriterState
    BY <1>4, TrimSubset DEF TrimTables, TypeOK, WriterState, Tables
  <2>. QED
    BY <1>4, <2>1 DEF TrimTables, TypeOK
<1>5. CASE CommitTx
  BY <1>5 DEF CommitTx, TypeOK, WriterState, Tables
<1>6. CASE UpdateCache
  BY <1>6 DEF UpdateCache, TypeOK, WriterState, FirstAfterCommit, LedgerOrNone
<1>7. CASE PostCommit
  BY <1>7, IdleTypes DEF PostCommit, TypeOK
<1>8. CASE Rollback
  BY <1>8, IdleTypes DEF Rollback, TypeOK
<1>. QED
  BY <1>1, <1>2, <1>3, <1>4, <1>5, <1>6, <1>7, <1>8 DEF WriterStep

\* The type invariant is preserved by every step of a reader.
LEMMA ReaderType ==
    ASSUME TypeOK, NEW r \in Readers, Call(r) \/ ReaderStep(r) \/ QueryFails(r)
    PROVE  TypeOK'
<1>1. CASE GetLedgerRange(r)
  <2>1. [IdleReader EXCEPT !.op = "range", !.before = db.ledgers] \in ReaderState
    BY IdleTypes DEF TypeOK, Tables, ReaderState
  <2>. QED
    BY <1>1, <2>1, CopyCacheType DEF GetLedgerRange
<1>2. CASE NewReadTx(r)
  <2>1. [IdleReader EXCEPT !.op = "tx", !.pc = "query", !.lastSeen = latest,
                           !.before = db.ledgers] \in ReaderState
    BY IdleTypes DEF TypeOK, Tables, ReaderState
  <2>. QED
    BY <1>2, <2>1 DEF NewReadTx, Set, cache, TypeOK
<1>3. CASE GetLatestLedgerSequence(r)
  <2>. DEFINE call == [IdleReader EXCEPT !.op = "latest", !.before = db.ledgers]
  <2>1. call \in ReaderState
    BY IdleTypes DEF TypeOK, Tables, ReaderState
  <2>2. /\ [call EXCEPT !.pc = "done", !.hi = latest] \in ReaderState
        /\ [call EXCEPT !.pc = "copy"] \in ReaderState
    BY <2>1 DEF TypeOK, ReaderState
  <2>. QED
    BY <1>3, <2>2 DEF GetLatestLedgerSequence, Set, cache, TypeOK
<1>4. CASE GetRangeForLatest(r)
  BY <1>4, CopyCacheType DEF GetRangeForLatest, TypeOK
<1>5. CASE QueryOldest(r)
  <2>1. PICK m \in Oldest(db.ledgers) :
           Set(r, [reader[r] EXCEPT !.pc = IF reader[r].op = "tx" THEN "done" ELSE "memoize",
                                    !.lo = m, !.hi = reader[r].lastSeen,
                                    !.snap = db.ledgers])
    BY <1>5 DEF QueryOldest
  <2>2. m \in LedgerOrNone /\ db.ledgers \in SUBSET Ledger
    BY DEF Oldest, TypeOK, Tables, Ledger, LedgerOrNone
  <2>3. reader'[r] \in ReaderState
    BY <2>1, <2>2 DEF Set, TypeOK, ReaderState
  <2>. QED
    BY <1>5, <2>1, <2>3 DEF QueryOldest, Set, cache, TypeOK
<1>6. CASE QueryBoth(r)
  <2>1. PICK m \in Oldest(db.ledgers), n \in Newest(db.ledgers) :
           Set(r, [reader[r] EXCEPT !.pc = AfterRange(reader[r].op),
                                    !.lo = m, !.hi = n, !.snap = db.ledgers])
    BY <1>6 DEF QueryBoth
  <2>2. m \in LedgerOrNone /\ n \in LedgerOrNone /\ db.ledgers \in SUBSET Ledger
    BY DEF Oldest, Newest, TypeOK, Tables, Ledger, LedgerOrNone
  <2>3. reader'[r] \in ReaderState
    BY <2>1, <2>2 DEF Set, AfterRange, TypeOK, ReaderState
  <2>. QED
    BY <1>6, <2>1, <2>3 DEF QueryBoth, Set, cache, TypeOK
<1>7. CASE QueryEmpty(r)
  BY <1>7 DEF QueryEmpty, Set, cache, TypeOK, ReaderState
<1>8. CASE QueryFails(r)
  BY <1>8 DEF QueryFails, Set, cache, TypeOK, ReaderState
<1>9. CASE Memoize(r)
  BY <1>9 DEF Memoize, AfterRange, Set, TypeOK, ReaderState
<1>10. CASE PublishLatest(r)
  BY <1>10 DEF PublishLatest, Set, TypeOK, ReaderState
<1>11. CASE Return(r)
  BY <1>11, IdleTypes DEF Return, Set, cache, TypeOK
<1>. QED
  BY <1>1, <1>2, <1>3, <1>4, <1>5, <1>6, <1>7, <1>8, <1>9, <1>10, <1>11
     DEF Call, ReaderStep

\* Every step keeps the types.
LEMMA NextType == TypeOK /\ [Next]_vars => TypeOK'
<1>. SUFFICES ASSUME TypeOK, [Next]_vars PROVE TypeOK'
  OBVIOUS
<1>1. CASE ResetCache
  BY <1>1 DEF ResetCache, TypeOK, LedgerOrNone
<1>2. CASE Restart
  BY <1>2, IdleTypes DEF Restart, TypeOK, LedgerOrNone
<1>3. CASE UNCHANGED vars
  BY <1>3 DEF vars, TypeOK
<1>. QED
  BY <1>1, <1>2, <1>3, WriterType, ReaderType DEF Next

\* The database, the cache, the writer and every reader call always have
\* their types (dbCache, writeTx and ledgerReader in internal/db).
THEOREM TypeCorrect == Spec => []TypeOK
<1>1. Init => TypeOK
  BY IdleTypes DEF Init, TypeOK, NoTables, Tables, LedgerOrNone
<1>. QED
  BY <1>1, NextType, PTL DEF Spec
-----------------------------------------------------------------------------
(***************************************************************************)
(* Cache coherence.                                                        *)
(***************************************************************************)

\* A window extended by its next ledger and trimmed: the new ledger is its
\* newest, and its old minimum survives as minimum unless it was cut off.
LEMMA TrimExtended ==
    ASSUME NEW S \in SUBSET Ledger, NEW s, Follows(s, S)
    PROVE  /\ s \in Newest(Trim(S \cup {s}, s))
           /\ \A m \in Oldest(S) :
                 \/ m \in Oldest(Trim(S \cup {s}, s))
                 \/ s + 1 > HistoryRetentionWindow /\ m < s + 1 - HistoryRetentionWindow
BY DEF Follows, Newest, Oldest, Trim, Ledger

\* Steps of the writer before COMMIT change neither tables nor cache.
LEMMA WriterPrivate ==
    ASSUME CoherenceInv, TypeOK',
           NewWriteTx \/ IngestLedger \/ FlushWriters \/ TrimTables \/ PostCommit \/ Rollback
    PROVE  CoherenceInv'
<1>1. UNCHANGED <<db, latest, first, cacheLock, reader>>
  BY DEF NewWriteTx, IngestLedger, InsertLedgers, FlushWriters, TrimTables, PostCommit, Rollback
<1>2. writer.pc # "committed" /\ writer'.pc # "committed"
  <2>. USE DEF CoherenceInv, TypeOK, WriterState
  <2>1. CASE NewWriteTx
    BY <2>1 DEF NewWriteTx, IdleWriter
  <2>2. CASE IngestLedger
    BY <2>2 DEF IngestLedger, InsertLedgers
  <2>3. CASE FlushWriters \/ TrimTables
    BY <2>3 DEF FlushWriters, TrimTables
  <2>4. CASE PostCommit \/ Rollback
    BY <2>4 DEF PostCommit, Rollback, IdleWriter
  <2>. QED
    BY <2>1, <2>2, <2>3, <2>4
<1>3. cacheLock = "free"
  BY <1>2 DEF CoherenceInv, WriterInv, TypeOK
<1>4. WriterInv'
  <2>1. CASE NewWriteTx
    BY <2>1, <1>1, <1>3 DEF NewWriteTx, WriterInv, IdleWriter
  <2>2. CASE IngestLedger
    <3>1. PICK s \in Ledger : NextToIngest(s) /\ InsertLedgers({s}, s)
      BY <2>2 DEF IngestLedger
    <3>2. Follows(s, db.ledgers)
      BY <3>1 DEF NextToIngest, Follows, Newest, Ledger, CoherenceInv, TypeOK, Tables
    <3>3. /\ writer'.pc = "inserted"
          /\ writer'.seq = s
          /\ writer'.pending = writer.pending \cup {s}
          /\ writer'.tables.ledgers = writer.tables.ledgers \cup {s}
          /\ writer'.tables.transactions = writer.tables.transactions
          /\ writer'.tables.events = writer.tables.events
      BY <3>1 DEF InsertLedgers, CoherenceInv, TypeOK, WriterState, Tables
    <3>4. writer.tables = db /\ writer.pending = {}
      BY <3>1 DEF InsertLedgers, CoherenceInv, WriterInv
    <3>. QED
      BY <3>2, <3>3, <3>4, <1>1, <1>3 DEF WriterInv
  <2>3. CASE FlushWriters
    <3>1. /\ writer.pc = "inserted"
          /\ writer'.pc = "flushed"
          /\ writer'.seq = writer.seq
          /\ writer'.tables.ledgers = writer.tables.ledgers
          /\ writer'.tables.transactions = writer.tables.transactions \cup writer.pending
          /\ writer'.tables.events = writer.tables.events \cup writer.pending
      BY <2>3 DEF FlushWriters, CoherenceInv, TypeOK, WriterState, Tables
    <3>. QED
      BY <3>1, <1>1, <1>3 DEF CoherenceInv, WriterInv
  <2>4. CASE TrimTables
    <3>1. /\ writer.pc = "flushed"
          /\ writer'.pc = "trimmed"
          /\ writer'.seq = writer.seq
          /\ writer'.tables.ledgers = Trim(writer.tables.ledgers, writer.seq)
          /\ writer'.tables.transactions = Trim(writer.tables.transactions, writer.seq)
          /\ writer'.tables.events = Trim(writer.tables.events, writer.seq)
      BY <2>4 DEF TrimTables, CoherenceInv, TypeOK, WriterState, Tables
    <3>. QED
      BY <3>1, <1>1, <1>3 DEF CoherenceInv, WriterInv
  <2>5. CASE PostCommit \/ Rollback
    BY <2>5, <1>1, <1>3 DEF PostCommit, Rollback, WriterInv, IdleWriter
  <2>. QED
    BY <2>1, <2>2, <2>3, <2>4, <2>5
<1>5. LockedInv' /\ ReaderInv' /\ CacheCoherent'
  BY <1>1, <1>3 DEF CoherenceInv, LockedInv, ReaderInv, CallInv, CacheCoherent, CacheUnlocked
<1>. QED
  BY <1>4, <1>5 DEF CoherenceInv

\* COMMIT makes the new tables visible while the cache is locked.
LEMMA CommitCoherent ==
    ASSUME CoherenceInv, TypeOK', CommitTx
    PROVE  CoherenceInv'
<1>1. /\ writer.pc = "trimmed" /\ writer'.pc = "committed" /\ writer'.seq = writer.seq
      /\ cacheLock = "free" /\ cacheLock' = "writer"
      /\ db'.ledgers = writer.tables.ledgers
      /\ UNCHANGED <<latest, first, reader>>
  BY DEF CommitTx, CacheUnlocked, CoherenceInv, TypeOK, WriterState
<1>2. /\ Follows(writer.seq, db.ledgers)
      /\ db'.ledgers = Trim(db.ledgers \cup {writer.seq}, writer.seq)
  BY <1>1 DEF CoherenceInv, WriterInv
<1>3. db.ledgers \in SUBSET Ledger
  BY DEF CoherenceInv, TypeOK, Tables
<1>4. WriterInv'
  BY <1>1 DEF WriterInv
<1>5. LockedInv'
  <2>1. writer.seq \in Newest(db'.ledgers)
    BY <1>2, <1>3, TrimExtended
  <2>2. latest < writer.seq
    BY <1>1, <1>2 DEF CoherenceInv, CacheCoherent, CacheUnlocked, Newest, Follows, Ledger
  <2>3. first # 0 => latest # 0 /\ first \in Oldest(db.ledgers)
    BY <1>1 DEF CoherenceInv, CacheCoherent, CacheUnlocked
  <2>. QED
    BY <1>1, <1>2, <1>3, <2>1, <2>2, <2>3, TrimExtended DEF LockedInv
<1>6. ReaderInv'
  <2>. SUFFICES ASSUME NEW r \in Readers, reader[r].pc = "publish"
                PROVE  reader[r].hi <= writer.seq
    BY <1>1 DEF CoherenceInv, ReaderInv, CallInv, CacheUnlocked
  <2>1. reader[r].hi <= latest \/ reader[r].hi \in Newest(db.ledgers)
    BY <1>1 DEF CoherenceInv, ReaderInv, CallInv, CacheUnlocked
  <2>2. latest = 0 \/ latest \in db.ledgers
    BY <1>1 DEF CoherenceInv, CacheCoherent, CacheUnlocked, Newest
  <2>3. /\ reader[r].hi \in Nat /\ latest \in Nat /\ writer.seq \in Nat
        /\ \A x \in db.ledgers : x \in Nat /\ x < writer.seq
    BY <1>2, <1>3 DEF CoherenceInv, TypeOK, ReaderState, LedgerOrNone, Ledger, Follows
  <2>. QED
    BY <2>1, <2>2, <2>3 DEF Newest
<1>7. CacheCoherent'
  BY <1>1 DEF CacheCoherent, CacheUnlocked
<1>. QED
  BY <1>4, <1>5, <1>6, <1>7 DEF CoherenceInv
\* The cache update under the lock makes the cache agree with the tables, and
\* moves the latest ledger past what any slow reader has seen.
LEMMA UpdateCacheCoherent ==
    ASSUME CoherenceInv, TypeOK', UpdateCache
    PROVE  CoherenceInv'
<1>1. /\ writer.pc = "committed" /\ writer'.pc = "checkpoint"
      /\ cacheLock = "writer" /\ cacheLock' = "free"
      /\ first' = FirstAfterCommit(writer.seq)
      /\ UNCHANGED <<db, reader>>
  BY DEF UpdateCache, CoherenceInv, WriterInv, TypeOK, WriterState
<1>2. latest < writer.seq /\ writer.seq \in Newest(db.ledgers)
  BY <1>1 DEF CoherenceInv, LockedInv
<1>3. latest \in Nat /\ writer.seq \in Nat /\ writer.seq # 0 /\ latest' = writer.seq
  BY <1>2 DEF UpdateCache, CoherenceInv, TypeOK, WriterState, LedgerOrNone
<1>4. WriterInv' /\ LockedInv'
  BY <1>1 DEF WriterInv, LockedInv
<1>5. CacheCoherent'
  <2>1. first' # 0 => first' \in Oldest(db.ledgers)
    BY <1>1 DEF FirstAfterCommit, CoherenceInv, LockedInv
  <2>. QED
    BY <1>1, <1>2, <1>3, <2>1 DEF CacheCoherent
<1>6. ReaderInv'
  <2>. SUFFICES ASSUME NEW r \in Readers PROVE CallInv(r)'
    BY DEF ReaderInv
  <2>1. reader[r].lastSeen \in Nat
    BY DEF CoherenceInv, TypeOK, ReaderState, LedgerOrNone
  <2>. QED
    BY <1>1, <1>2, <1>3, <2>1 DEF CoherenceInv, ReaderInv, CallInv
<1>. QED
  BY <1>4, <1>5, <1>6 DEF CoherenceInv

\* A call that starts, or restarts, by copying the cache.
LEMMA CopyCacheCoherent ==
    ASSUME CoherenceInv, TypeOK', NEW r \in Readers, NEW c \in ReaderState, CopyCache(r, c)
    PROVE  CoherenceInv'
<1>1. cacheLock = "free" /\ UNCHANGED <<db, cacheLock, writer, latest, first>>
  BY DEF CopyCache, CacheUnlocked, Set, cache
<1>2. WriterInv' /\ LockedInv' /\ CacheCoherent'
  BY <1>1 DEF CoherenceInv, WriterInv, LockedInv, CacheCoherent, CacheUnlocked
<1>3. ReaderInv'
  <2>1. /\ \A q \in Readers \ {r} : reader'[q] = reader[q]
        /\ reader'[r].pc = "query" => reader'[r].lastSeen = latest
        /\ reader'[r].pc = "publish" => reader'[r].hi = latest
        /\ reader'[r].pc \in {"query", "publish", "done"}
    BY DEF CopyCache, Set, AfterRange, CoherenceInv, TypeOK, ReaderState
  <2>. SUFFICES ASSUME NEW q \in Readers PROVE CallInv(q)'
    BY DEF ReaderInv
  <2>. QED
    BY <1>1, <2>1 DEF CoherenceInv, ReaderInv, CallInv, CacheUnlocked, TypeOK, LedgerOrNone
<1>. QED
  BY <1>2, <1>3 DEF CoherenceInv

\* Steps of a reader that leave the cache alone.
LEMMA ReaderQuietCoherent ==
    ASSUME CoherenceInv, TypeOK', NEW r \in Readers,
           \/ Call(r) \/ GetRangeForLatest(r) \/ QueryOldest(r) \/ QueryBoth(r)
           \/ QueryEmpty(r) \/ QueryFails(r) \/ Return(r)
    PROVE  CoherenceInv'
<1>1. CASE GetLedgerRange(r)
  <2>1. [IdleReader EXCEPT !.op = "range", !.before = db.ledgers] \in ReaderState
    BY IdleTypes DEF CoherenceInv, TypeOK, Tables, ReaderState
  <2>. QED
    BY <1>1, <2>1, CopyCacheCoherent DEF GetLedgerRange
<1>2. CASE GetRangeForLatest(r)
  BY <1>2, CopyCacheCoherent DEF GetRangeForLatest, CoherenceInv, TypeOK
<1>3. CASE \/ NewReadTx(r) \/ GetLatestLedgerSequence(r) \/ QueryOldest(r) \/ QueryBoth(r)
           \/ QueryEmpty(r) \/ QueryFails(r) \/ Return(r)
  <2>1. /\ UNCHANGED <<db, cacheLock, writer, latest, first>>
        /\ \A q \in Readers \ {r} : reader'[q] = reader[q]
    BY <1>3 DEF NewReadTx, GetLatestLedgerSequence, QueryOldest, QueryBoth, QueryEmpty,
                QueryFails, Return, Set, cache, CoherenceInv, TypeOK
  <2>2. WriterInv' /\ LockedInv' /\ CacheCoherent'
    BY <2>1 DEF CoherenceInv, WriterInv, LockedInv, CacheCoherent, CacheUnlocked
  <2>3. \A q \in Readers \ {r} : CallInv(q)'
    BY <2>1 DEF CoherenceInv, ReaderInv, CallInv, CacheUnlocked
  <2>4. CallInv(r)'
    <3>1. CASE NewReadTx(r)
      <4>1. reader'[r].pc = "query" /\ reader'[r].lastSeen = latest
        BY <3>1 DEF NewReadTx, Set, IdleReader, CoherenceInv, TypeOK
      <4>. QED
        BY <4>1, <2>1 DEF CallInv, CoherenceInv, TypeOK, LedgerOrNone
    <3>2. CASE GetLatestLedgerSequence(r) \/ QueryEmpty(r) \/ QueryFails(r) \/ Return(r)
      <4>1. reader'[r].pc \in {"idle", "copy", "done"}
        <5>. USE DEF Set, CoherenceInv, TypeOK
        <5>1. CASE GetLatestLedgerSequence(r)
          BY <5>1 DEF GetLatestLedgerSequence, IdleReader
        <5>2. CASE QueryEmpty(r) \/ QueryFails(r)
          BY <5>2 DEF QueryEmpty, QueryFails, ReaderState
        <5>3. CASE Return(r)
          BY <5>3 DEF Return, IdleReader
        <5>. QED
          BY <3>2, <5>1, <5>2, <5>3
      <4>. QED
        BY <4>1 DEF CallInv
    <3>3. CASE QueryOldest(r)
      <4>1. PICK m \in Oldest(db.ledgers) :
               Set(r, [reader[r] EXCEPT
                          !.pc = IF reader[r].op = "tx" THEN "done" ELSE "memoize",
                          !.lo = m, !.hi = reader[r].lastSeen, !.snap = db.ledgers])
        BY <3>3 DEF QueryOldest
      <4>2. /\ reader'[r].pc \in {"done", "memoize"}
            /\ reader'[r].lo = m
            /\ reader'[r].hi = reader[r].lastSeen
            /\ reader'[r].lastSeen = reader[r].lastSeen
        BY <4>1 DEF Set, CoherenceInv, TypeOK, ReaderState
      <4>3. m # 0
        BY DEF Oldest, CoherenceInv, TypeOK, Tables, Ledger
      <4>4. reader[r].lastSeen # 0 /\ reader[r].lastSeen <= latest
        BY <3>3 DEF QueryOldest, CoherenceInv, ReaderInv, CallInv
      <4>. QED
        BY <2>1, <4>2, <4>3, <4>4 DEF CallInv
    <3>4. CASE QueryBoth(r)
      <4>1. PICK m \in Oldest(db.ledgers), n \in Newest(db.ledgers) :
               Set(r, [reader[r] EXCEPT !.pc = AfterRange(reader[r].op),
                                        !.lo = m, !.hi = n, !.snap = db.ledgers])
        BY <3>4 DEF QueryBoth
      <4>2. reader'[r].pc \in {"publish", "done"} /\ reader'[r].hi = n
        BY <4>1 DEF Set, AfterRange, CoherenceInv, TypeOK, ReaderState
      <4>3. cacheLock = "writer" => n <= writer.seq
        BY DEF CoherenceInv, LockedInv, Newest
      <4>. QED
        BY <2>1, <4>2, <4>3 DEF CallInv
    <3>. QED
      BY <1>3, <3>1, <3>2, <3>3, <3>4
  <2>. QED
    BY <2>2, <2>3, <2>4 DEF CoherenceInv, ReaderInv
<1>. QED
  BY <1>1, <1>2, <1>3 DEF Call

\* Memoizing the oldest ledger: nothing was committed since the query if the
\* latest ledger is still the one copied before it.
LEMMA MemoizeCoherent ==
    ASSUME CoherenceInv, TypeOK', NEW r \in Readers, Memoize(r)
    PROVE  CoherenceInv'
<1>1. /\ cacheLock = "free"
      /\ UNCHANGED <<db, cacheLock, writer, latest>>
      /\ \A q \in Readers \ {r} : reader'[q] = reader[q]
      /\ reader'[r].pc = AfterRange(reader[r].op)
      /\ reader'[r].hi = reader[r].hi
  BY DEF Memoize, CacheUnlocked, Set, CoherenceInv, TypeOK, ReaderState
<1>2. CallInv(r) /\ reader[r].pc = "memoize"
  BY DEF Memoize, CoherenceInv, ReaderInv
<1>3. WriterInv' /\ LockedInv'
  BY <1>1 DEF CoherenceInv, WriterInv, LockedInv
<1>4. CacheCoherent'
  BY <1>1, <1>2 DEF Memoize, CoherenceInv, CacheCoherent, CacheUnlocked, CallInv
<1>5. ReaderInv'
  BY <1>1, <1>2 DEF CoherenceInv, ReaderInv, CallInv, CacheUnlocked, AfterRange
<1>. QED
  BY <1>3, <1>4, <1>5 DEF CoherenceInv

\* Refreshing the latest ledger never sets it back behind a commit.
LEMMA PublishCoherent ==
    ASSUME CoherenceInv, TypeOK', NEW r \in Readers, PublishLatest(r)
    PROVE  CoherenceInv'
<1>1. /\ cacheLock = "free"
      /\ UNCHANGED <<db, cacheLock, writer, first>>
      /\ \A q \in Readers \ {r} : reader'[q] = reader[q]
      /\ reader'[r].pc = "done"
  BY DEF PublishLatest, CacheUnlocked, Set, CoherenceInv, TypeOK, ReaderState
<1>2. CallInv(r) /\ reader[r].pc = "publish"
  BY DEF PublishLatest, CoherenceInv, ReaderInv
<1>3. /\ latest \in Nat /\ latest' \in Nat /\ latest <= latest'
      /\ latest' # latest => latest' = reader[r].hi /\ latest' \in Newest(db.ledgers)
  BY <1>1, <1>2 DEF PublishLatest, CallInv, CacheUnlocked, CoherenceInv, TypeOK, ReaderState,
                    LedgerOrNone
<1>4. WriterInv' /\ LockedInv'
  BY <1>1 DEF CoherenceInv, WriterInv, LockedInv
<1>5. CacheCoherent'
  BY <1>1, <1>3 DEF CoherenceInv, CacheCoherent, CacheUnlocked
<1>6. ReaderInv'
  <2>. SUFFICES ASSUME NEW q \in Readers PROVE CallInv(q)'
    BY DEF ReaderInv
  <2>1. CASE q = r
    BY <1>1, <2>1 DEF CallInv
  <2>2. CASE q # r
    <3>1. CallInv(q) /\ reader'[q] = reader[q]
      BY <1>1, <2>2 DEF CoherenceInv, ReaderInv
    <3>2. reader[q].lastSeen \in Nat /\ reader[q].hi \in Nat
      BY DEF CoherenceInv, TypeOK, ReaderState, LedgerOrNone
    <3>. QED
      BY <1>1, <1>3, <3>1, <3>2 DEF CallInv, CacheUnlocked
  <2>. QED
    BY <2>1, <2>2
<1>. QED
  BY <1>4, <1>5, <1>6 DEF CoherenceInv

\* Losing the cache, when nobody uses it or when everything else is lost too.
LEMMA ResetCoherent ==
    ASSUME CoherenceInv, TypeOK', ResetCache \/ Restart
    PROVE  CoherenceInv'
<1>1. /\ latest' = 0 /\ first' = 0 /\ db' = db
      /\ \A r \in Readers : reader'[r].pc = "idle"
      /\ cacheLock' = "free" /\ writer'.pc = "idle"
  BY DEF ResetCache, Restart, IdleReader, IdleWriter, CoherenceInv, WriterInv, TypeOK
<1>. QED
  BY <1>1 DEF CoherenceInv, WriterInv, LockedInv, ReaderInv, CallInv, CacheCoherent

\* CoherenceInv is inductive.
LEMMA CoherenceStep == CoherenceInv /\ [Next]_vars => CoherenceInv'
<1>. SUFFICES ASSUME CoherenceInv, [Next]_vars PROVE CoherenceInv'
  OBVIOUS
<1>1. TypeOK'
  BY NextType DEF CoherenceInv
<1>2. CASE NewWriteTx \/ WriterStep \/ Rollback
  BY <1>1, <1>2, WriterPrivate, CommitCoherent, UpdateCacheCoherent DEF WriterStep
<1>3. ASSUME NEW r \in Readers, Call(r) \/ ReaderStep(r) \/ QueryFails(r)
      PROVE  CoherenceInv'
  BY <1>1, <1>3, ReaderQuietCoherent, MemoizeCoherent, PublishCoherent DEF ReaderStep
<1>4. CASE ResetCache \/ Restart
  BY <1>1, <1>4, ResetCoherent
<1>5. CASE UNCHANGED vars
  BY <1>1, <1>5 DEF vars, CoherenceInv, WriterInv, LockedInv, ReaderInv, CallInv, CacheCoherent,
                    CacheUnlocked
<1>. QED
  BY <1>2, <1>3, <1>4, <1>5 DEF Next

\* The strengthened invariant holds in every behaviour.
LEMMA CoherenceInvariant == Spec => []CoherenceInv
<1>1. Init => CoherenceInv
  <2>1. Init => TypeOK
    BY IdleTypes DEF Init, TypeOK, NoTables, Tables, LedgerOrNone
  <2>. QED
    BY <2>1 DEF Init, CoherenceInv, WriterInv, LockedInv, ReaderInv, CallInv, CacheCoherent,
                IdleWriter, IdleReader
<1>. QED
  BY <1>1, CoherenceStep, PTL DEF Spec

\* For every number of readers and every retention window, a reader that can
\* see the cache sees the true newest ledger and the true oldest ledger or
\* nothing (GetLedgerRange's memoization against Commit's trim).
THEOREM CacheIsCoherent == Spec => []CacheCoherent
<1>1. CoherenceInv => CacheCoherent
  BY DEF CoherenceInv
<1>. QED
  BY <1>1, CoherenceInvariant, PTL
-----------------------------------------------------------------------------
(***************************************************************************)
(* The tables: atomicity, the retention window and the refinement.         *)
(***************************************************************************)

\* Only COMMIT changes what readers can see.
LEMMA OnlyCommitChangesDb ==
    ASSUME [Next]_vars, ~CommitTx PROVE db' = db
<1>1. CASE NewWriteTx \/ WriterStep \/ Rollback
  BY <1>1 DEF NewWriteTx, WriterStep, Rollback, IngestLedger, InsertLedgers, FlushWriters,
              TrimTables, UpdateCache, PostCommit
<1>2. ASSUME NEW r \in Readers, Call(r) \/ ReaderStep(r) \/ QueryFails(r) PROVE db' = db
  BY <1>2 DEF Call, ReaderStep, GetLedgerRange, NewReadTx, GetLatestLedgerSequence,
              GetRangeForLatest, CopyCache, QueryOldest, QueryBoth, QueryEmpty, QueryFails,
              Memoize, PublishLatest, Return, Set
<1>3. CASE ResetCache \/ Restart \/ UNCHANGED vars
  BY <1>3 DEF ResetCache, Restart, vars
<1>. QED
  BY <1>1, <1>2, <1>3 DEF Next

\* What COMMIT does to the three tables.
LEMMA CommitEffect ==
    ASSUME CoherenceInv, CommitTx
    PROVE  /\ Follows(writer.seq, db.ledgers)
           /\ db'.ledgers = Trim(db.ledgers \cup {writer.seq}, writer.seq)
           /\ db'.transactions = Trim(db.transactions \cup {writer.seq}, writer.seq)
           /\ db'.events = Trim(db.events \cup {writer.seq}, writer.seq)
BY DEF CommitTx, CoherenceInv, WriterInv

\* Extending and trimming a gapless window within the retention limit yields
\* such a window again.
LEMMA TrimWindow ==
    ASSUME NEW S \in SUBSET Ledger, NEW s, Follows(s, S),
           \A a, b \in S : \A c \in a..b : c \in S,
           NEW T, T = Trim(S \cup {s}, s),
           NEW a \in T, NEW b \in T
    PROVE  /\ a < b + HistoryRetentionWindow
           /\ \A c \in a..b : c \in T
<1>1. /\ s \in Nat
      /\ a \in Nat /\ a <= s
      /\ b \in Nat /\ b <= s
      /\ s < b + HistoryRetentionWindow
  BY DEF Follows, Trim, Ledger
<1>2. ASSUME NEW c \in a..b PROVE c \in S \cup {s}
  <2>1. c \in Nat /\ a <= c /\ c <= b
    BY <1>1
  <2>2. CASE c = s
    BY <2>2
  <2>3. CASE c # s
    <3>1. a \in S /\ s - 1 \in S /\ c <= s - 1
      BY <1>1, <2>1, <2>3 DEF Follows, Trim
    <3>2. c \in a..(s - 1)
      BY <1>1, <2>1, <3>1
    <3>. QED
      BY <3>1, <3>2
  <2>. QED
    BY <2>2, <2>3
<1>3. ASSUME NEW c \in a..b PROVE c \in T
  BY <1>1, <1>2, <1>3 DEF Trim
<1>. QED
  BY <1>1, <1>3

TableInv == CoherenceInv /\ TablesAgree /\ RetentionWindow

\* TableInv is inductive.
LEMMA TableStep == TableInv /\ [Next]_vars => TableInv'
<1>. SUFFICES ASSUME TableInv, [Next]_vars PROVE TableInv'
  OBVIOUS
<1>1. CoherenceInv'
  BY CoherenceStep DEF TableInv
<1>2. CASE CommitTx
  <2>1. TablesAgree'
    BY <1>2, CommitEffect DEF TableInv, TablesAgree
  <2>2. /\ db.ledgers \in SUBSET Ledger
        /\ \A a, b \in db.ledgers : \A c \in a..b : c \in db.ledgers
    BY DEF TableInv, CoherenceInv, TypeOK, Tables, RetentionWindow
  <2>3. RetentionWindow'
    <3>. SUFFICES ASSUME NEW a \in db'.ledgers, NEW b \in db'.ledgers
                  PROVE  /\ a < b + HistoryRetentionWindow
                         /\ \A c \in a..b : c \in db'.ledgers
      BY DEF RetentionWindow
    <3>. QED
      BY <1>2, <2>2, CommitEffect, TrimWindow DEF TableInv
  <2>. QED
    BY <1>1, <2>1, <2>3 DEF TableInv
<1>3. CASE ~CommitTx
  BY <1>1, <1>3, OnlyCommitChangesDb DEF TableInv, TablesAgree, RetentionWindow
<1>. QED
  BY <1>2, <1>3

\* ... and so holds in every behaviour.
LEMMA TableInvariant == Spec => []TableInv
<1>1. Init => TablesAgree /\ RetentionWindow
  BY DEF Init, NoTables, TablesAgree, RetentionWindow
<1>2. TableInv <=> CoherenceInv /\ TablesAgree /\ RetentionWindow
  BY DEF TableInv
<1>. QED
  BY <1>1, <1>2, CoherenceInvariant, TableStep, PTL DEF Spec

\* A ledger, its transactions and its events are always retained together,
\* whatever fails before COMMIT and whenever the process dies.
THEOREM TablesAlwaysAgree == Spec => []TablesAgree
<1>1. TableInv => TablesAgree
  BY DEF TableInv
<1>. QED
  BY <1>1, TableInvariant, PTL

\* The retained ledgers are a gapless interval within the retention window.
THEOREM WindowIsGapless == Spec => []RetentionWindow
<1>1. TableInv => RetentionWindow
  BY DEF TableInv
<1>. QED
  BY <1>1, TableInvariant, PTL

\* No commit drops a ledger that the retention window still covers.
THEOREM OnlyExpiredLedgersTrimmed == Spec => TrimOnlyExpired
<1>1. ASSUME CoherenceInv, [Next]_vars
      PROVE  [\A x \in db.ledgers \ db'.ledgers :
                 \E n \in db'.ledgers : x + HistoryRetentionWindow <= n]_db
  <2>1. CASE CommitTx
    <3>. SUFFICES ASSUME NEW x \in db.ledgers, x \notin db'.ledgers
                  PROVE  \E n \in db'.ledgers : x + HistoryRetentionWindow <= n
      OBVIOUS
    <3>1. db.ledgers \in SUBSET Ledger
      BY <1>1 DEF CoherenceInv, TypeOK, Tables
    <3>2. Follows(writer.seq, db.ledgers)
      BY <1>1, <2>1, CommitEffect
    <3>3. db'.ledgers = Trim(db.ledgers \cup {writer.seq}, writer.seq)
      BY <1>1, <2>1, CommitEffect
    <3>4. writer.seq \in db'.ledgers
      BY <3>1, <3>2, <3>3, TrimExtended DEF Newest
    <3>5. x + HistoryRetentionWindow <= writer.seq
      BY <3>1, <3>2, <3>3 DEF Trim, Follows, Ledger
    <3>. QED
      BY <3>4, <3>5
  <2>2. CASE ~CommitTx
    BY <1>1, <2>2, OnlyCommitChangesDb
  <2>. QED
    BY <2>1, <2>2
<1>. QED
  BY <1>1, CoherenceInvariant, PTL DEF Spec, TrimOnlyExpired

\* The database, seen through its ledger table, is the sliding window of
\* RetainedLedgers: COMMIT is its only step and moves it by one ledger.
THEOREM Refinement == Spec => RefinesRetainedLedgers
<1>1. Init => Abstract!Init
  BY DEF Init, NoTables, Abstract!Init
<1>2. ASSUME CoherenceInv, [Next]_vars PROVE [Abstract!Next]_(db.ledgers)
  <2>1. CASE CommitTx
    <3>1. db.ledgers \in SUBSET Ledger
      BY <1>2 DEF CoherenceInv, TypeOK, Tables
    <3>2. Follows(writer.seq, db.ledgers)
      BY <1>2, <2>1, CommitEffect
    <3>3. db'.ledgers = Trim(db.ledgers \cup {writer.seq}, writer.seq)
      BY <1>2, <2>1, CommitEffect
    <3>4. db'.ledgers = Abstract!Covered(db.ledgers \cup {writer.seq}, writer.seq)
      BY <3>1, <3>2, <3>3 DEF Trim, Abstract!Covered, Follows, Ledger
    <3>5. Abstract!Advance(writer.seq)
      BY <3>1, <3>2, <3>4 DEF Abstract!Advance, Follows, Ledger
    <3>6. writer.seq \in Abstract!Ledger
      BY <3>2 DEF Follows, Ledger, Abstract!Ledger
    <3>. QED
      BY <3>5, <3>6 DEF Abstract!Next
  <2>2. CASE ~CommitTx
    BY <1>2, <2>2, OnlyCommitChangesDb
  <2>. QED
    BY <2>1, <2>2
<1>. QED
  BY <1>1, <1>2, CoherenceInvariant, PTL DEF Spec, RefinesRetainedLedgers, Abstract!Spec
-----------------------------------------------------------------------------
(***************************************************************************)
(* What the reader API returns.                                            *)
(***************************************************************************)

\* In a gapless window, an interval that starts at a retained ledger and ends
\* no later than another retained ledger is retained.
LEMMA IntervalRetained ==
    ASSUME TableInv, NEW m \in db.ledgers, NEW k \in Nat, NEW n \in db.ledgers, k <= n
    PROVE  m..k \subseteq db.ledgers
<1>1. m \in Nat /\ n \in Nat
  BY DEF TableInv, CoherenceInv, TypeOK, Tables, Ledger
<1>2. \A c \in m..n : c \in db.ledgers
  BY DEF TableInv, RetentionWindow
<1>. QED
  BY <1>1, <1>2

\* Every value a reader works with is a natural number.
LEMMA NatTypes ==
    ASSUME TypeOK
    PROVE  /\ latest \in Nat /\ first \in Nat /\ writer.seq \in Nat
           /\ db.ledgers \subseteq Nat
           /\ \A r \in Readers : /\ reader[r].lastSeen \in Nat
                                 /\ reader[r].lo \in Nat
                                 /\ reader[r].hi \in Nat
                                 /\ reader[r].before \subseteq Nat
BY DEF TypeOK, Tables, WriterState, ReaderState, LedgerOrNone, Ledger

\* Copying the cache: c is the call so far.
LEMMA CopyCacheResult ==
    ASSUME TableInv, ResultInv, NEW r \in Readers, NEW c \in ReaderState, CopyCache(r, c),
           c.lo = 0, c.hi = 0,
           \A x \in c.before : \E n \in db.ledgers : x <= n
    PROVE  CallResultInv(r)'
<1>1. /\ cacheLock = "free"
      /\ db' = db
      /\ latest # 0 => latest \in Newest(db.ledgers)
      /\ first # 0 => first \in Oldest(db.ledgers)
  BY DEF CopyCache, Set, CacheUnlocked, TableInv, CoherenceInv, CacheCoherent
<1>2. c.before \subseteq Nat /\ db.ledgers \subseteq Nat /\ latest \in Nat
  BY NatTypes DEF TableInv, CoherenceInv, ReaderState, Ledger
<1>3. latest # 0 => \A x \in c.before : x <= latest
  BY <1>1, <1>2 DEF Newest
<1>4. CASE latest # 0 /\ first # 0
  <2>1. /\ reader'[r].pc \in {"publish", "done"}
        /\ reader'[r].lo = first
        /\ reader'[r].hi = latest
        /\ reader'[r].snap = db.ledgers
        /\ reader'[r].before = c.before
    BY <1>4 DEF CopyCache, Set, AfterRange, TableInv, CoherenceInv, TypeOK, ReaderState
  <2>2. first..latest \subseteq db.ledgers
    BY <1>1, <1>2, <1>4, IntervalRetained DEF Oldest, Newest
  <2>. QED
    BY <1>3, <1>4, <2>1, <2>2 DEF CallResultInv
<1>5. CASE ~(latest # 0 /\ first # 0)
  <2>1. /\ reader'[r].pc = "query"
        /\ reader'[r].lo = 0
        /\ reader'[r].hi = 0
        /\ reader'[r].lastSeen = latest
        /\ reader'[r].before = c.before
    BY <1>5 DEF CopyCache, Set, TableInv, CoherenceInv, TypeOK, ReaderState
  <2>. QED
    BY <1>1, <1>3, <2>1 DEF CallResultInv
<1>. QED
  BY <1>4, <1>5

\* The call of reader r after one of its own steps.
LEMMA ReaderResult ==
    ASSUME TableInv, ResultInv, NEW r \in Readers, Call(r) \/ ReaderStep(r) \/ QueryFails(r)
    PROVE  CallResultInv(r)'
<1>. USE DEF TableInv, CoherenceInv
<1>1. CallResultInv(r) /\ CallInv(r) /\ reader[r] \in ReaderState
  BY DEF ResultInv, ReaderInv, TypeOK
<1>2. db.ledgers \subseteq Nat /\ latest \in Nat /\ db.ledgers \in SUBSET Ledger
  BY NatTypes DEF TypeOK, Tables
<1>3. CASE GetLedgerRange(r)
  <2>. DEFINE c == [IdleReader EXCEPT !.op = "range", !.before = db.ledgers]
  <2>1. c \in ReaderState
    BY <1>2, IdleTypes DEF ReaderState
  <2>2. c.lo = 0 /\ c.hi = 0 /\ c.before = db.ledgers
    BY DEF IdleReader
  <2>3. \A x \in c.before : \E n \in db.ledgers : x <= n
    BY <1>2, <2>2
  <2>4. CopyCache(r, c)
    BY <1>3 DEF GetLedgerRange
  <2>. HIDE DEF c
  <2>. QED
    BY <2>1, <2>2, <2>3, <2>4, CopyCacheResult
<1>4. CASE GetRangeForLatest(r)
  BY <1>1, <1>4, CopyCacheResult DEF GetRangeForLatest, CallResultInv
<1>5. CASE NewReadTx(r)
  <2>1. /\ reader'[r].pc = "query" /\ reader'[r].lastSeen = latest
        /\ reader'[r].lo = 0 /\ reader'[r].hi = 0 /\ reader'[r].before = db.ledgers
        /\ db' = db
    BY <1>5 DEF NewReadTx, Set, IdleReader, TypeOK
  <2>2. latest # 0 => latest \in Newest(db.ledgers)
    BY <1>5 DEF NewReadTx, CacheCoherent
  <2>. QED
    BY <1>2, <2>1, <2>2 DEF CallResultInv, Newest
<1>6. CASE GetLatestLedgerSequence(r)
  <2>1. latest # 0 => latest \in Newest(db.ledgers)
    BY <1>6 DEF GetLatestLedgerSequence, CacheCoherent
  <2>2. /\ reader'[r].lo = 0 /\ reader'[r].before = db.ledgers /\ db' = db
        /\ \/ reader'[r].pc = "done" /\ latest # 0 /\ reader'[r].hi = latest
           \/ reader'[r].pc = "copy" /\ reader'[r].hi = 0
    BY <1>6 DEF GetLatestLedgerSequence, Set, IdleReader, TypeOK
  <2>. QED
    BY <1>2, <2>1, <2>2 DEF CallResultInv, Newest
<1>7. CASE QueryOldest(r)
  <2>1. PICK m \in Oldest(db.ledgers) :
           Set(r, [reader[r] EXCEPT !.pc = IF reader[r].op = "tx" THEN "done" ELSE "memoize",
                                    !.lo = m, !.hi = reader[r].lastSeen,
                                    !.snap = db.ledgers])
    BY <1>7 DEF QueryOldest
  <2>2. /\ reader'[r].pc \in {"done", "memoize"}
        /\ reader'[r].lo = m
        /\ reader'[r].hi = reader[r].lastSeen
        /\ reader'[r].snap = db.ledgers
        /\ reader'[r].before = reader[r].before
    BY <2>1 DEF Set, TypeOK, ReaderState
  <2>3. /\ reader[r].pc = "query" /\ reader[r].lastSeen # 0
        /\ reader[r].lastSeen \in Nat /\ reader[r].lastSeen <= latest
    BY <1>1, <1>7, NatTypes DEF QueryOldest, CallInv
  <2>4. PICK n \in db.ledgers : latest <= n
    <3>1. CASE cacheLock = "free"
      BY <1>2, <2>3, <3>1 DEF CacheCoherent, CacheUnlocked, Newest
    <3>2. CASE cacheLock = "writer"
      BY <1>2, <3>2, NatTypes DEF LockedInv, Newest
    <3>. QED
      BY <3>1, <3>2 DEF TypeOK
  <2>5. m..reader[r].lastSeen \subseteq db.ledgers
    BY <1>2, <2>3, <2>4, IntervalRetained DEF Oldest
  <2>6. \A x \in reader[r].before : x <= reader[r].lastSeen
    BY <1>1, <2>3 DEF CallResultInv
  <2>. QED
    BY <2>2, <2>5, <2>6 DEF CallResultInv
<1>8. CASE QueryBoth(r)
  <2>1. PICK m \in Oldest(db.ledgers), n \in Newest(db.ledgers) :
           Set(r, [reader[r] EXCEPT !.pc = AfterRange(reader[r].op),
                                    !.lo = m, !.hi = n, !.snap = db.ledgers])
    BY <1>8 DEF QueryBoth
  <2>2. /\ reader'[r].pc \in {"publish", "done"}
        /\ reader'[r].lo = m
        /\ reader'[r].hi = n
        /\ reader'[r].snap = db.ledgers
        /\ reader'[r].before = reader[r].before
    BY <2>1 DEF Set, AfterRange, TypeOK, ReaderState
  <2>3. m..n \subseteq db.ledgers
    BY <1>2, IntervalRetained DEF Oldest, Newest
  <2>4. \A x \in reader[r].before : x \in Nat /\ \E k \in db.ledgers : x <= k
    BY <1>1, <1>8, NatTypes DEF QueryBoth, CallResultInv
  <2>5. \A x \in reader[r].before : x <= n
    BY <1>2, <2>4 DEF Newest
  <2>. QED
    BY <2>2, <2>3, <2>5 DEF CallResultInv
<1>9. CASE QueryEmpty(r) \/ QueryFails(r)
  <2>1. reader'[r].pc = "done" /\ reader'[r].lo = reader[r].lo /\ reader'[r].hi = reader[r].hi
    BY <1>9 DEF QueryEmpty, QueryFails, Set, TypeOK, ReaderState
  <2>2. reader[r].lo = 0 /\ reader[r].hi = 0
    BY <1>1, <1>9 DEF QueryEmpty, QueryFails, CallResultInv
  <2>. QED
    BY <2>1, <2>2 DEF CallResultInv
<1>10. CASE Memoize(r) \/ PublishLatest(r)
  <2>1. /\ reader[r].pc \in {"memoize", "publish"}
        /\ reader'[r].pc \in {"publish", "done"}
        /\ reader'[r].lo = reader[r].lo
        /\ reader'[r].hi = reader[r].hi
        /\ reader'[r].snap = reader[r].snap
        /\ reader'[r].before = reader[r].before
    BY <1>10 DEF Memoize, PublishLatest, AfterRange, Set, TypeOK, ReaderState
  <2>. QED
    BY <1>1, <2>1 DEF CallResultInv
<1>11. CASE Return(r)
  <2>1. reader'[r].pc = "idle"
    BY <1>11 DEF Return, Set, IdleReader, TypeOK
  <2>. QED
    BY <2>1 DEF CallResultInv
<1>. QED
  BY <1>3, <1>4, <1>5, <1>6, <1>7, <1>8, <1>9, <1>10, <1>11 DEF Call, ReaderStep

\* A call is not disturbed by the steps of others.
LEMMA OthersResult ==
    ASSUME TableInv, NEW q \in Readers, CallResultInv(q), reader'[q] = reader[q], [Next]_vars
    PROVE  CallResultInv(q)'
<1>1. CASE CommitTx
  <2>1. /\ writer.seq \in db'.ledgers
        /\ \A x \in db.ledgers : x <= writer.seq
    <3>1. Follows(writer.seq, db.ledgers) /\ db.ledgers \in SUBSET Ledger
      BY <1>1, CommitEffect DEF TableInv, CoherenceInv, TypeOK, Tables
    <3>2. writer.seq \in Newest(Trim(db.ledgers \cup {writer.seq}, writer.seq))
      BY <3>1, TrimExtended
    <3>3. db'.ledgers = Trim(db.ledgers \cup {writer.seq}, writer.seq)
      BY <1>1, CommitEffect DEF TableInv
    <3>4. writer.seq \in db'.ledgers
      BY <3>2, <3>3 DEF Newest
    <3>5. \A x \in db.ledgers : x <= writer.seq
      BY <3>1 DEF Follows, Ledger
    <3>. QED
      BY <3>4, <3>5
  <2>2. /\ writer.seq \in Nat /\ db.ledgers \subseteq Nat /\ reader[q].before \subseteq Nat
    BY NatTypes DEF TableInv, CoherenceInv
  <2>3. ASSUME NEW x \in reader[q].before, \E n \in db.ledgers : x <= n
        PROVE  x <= writer.seq
    BY <2>1, <2>2, <2>3
  <2>. QED
    BY <2>1, <2>3 DEF CallResultInv
<1>2. CASE ~CommitTx
  BY <1>2, OnlyCommitChangesDb DEF CallResultInv
<1>. QED
  BY <1>1, <1>2

\* IndInv is inductive.
LEMMA IndInvStep == IndInv /\ [Next]_vars => IndInv'
<1>. SUFFICES ASSUME IndInv, [Next]_vars PROVE IndInv'
  OBVIOUS
<1>1. TableInv /\ ResultInv /\ reader \in [Readers -> ReaderState]
  BY DEF IndInv, TableInv, CoherenceInv, TypeOK
<1>2. TableInv'
  BY <1>1, TableStep
<1>3. ResultInv'
  <2>. SUFFICES ASSUME NEW q \in Readers PROVE CallResultInv(q)'
    BY DEF ResultInv
  <2>1. CASE reader'[q] = reader[q]
    BY <1>1, <2>1, OthersResult DEF ResultInv
  <2>2. ASSUME NEW r \in Readers, Call(r) \/ ReaderStep(r) \/ QueryFails(r),
               reader'[q] # reader[q]
        PROVE  CallResultInv(q)'
    <3>1. q = r
      BY <1>1, <2>2
         DEF Call, ReaderStep, GetLedgerRange, NewReadTx, GetLatestLedgerSequence,
             GetRangeForLatest, CopyCache, QueryOldest, QueryBoth, QueryEmpty, QueryFails,
             Memoize, PublishLatest, Return, Set
    <3>. QED
      BY <1>1, <2>2, <3>1, ReaderResult
  <2>3. CASE Restart
    <3>1. reader'[q].pc = "idle"
      BY <2>3 DEF Restart, IdleReader
    <3>. QED
      BY <3>1 DEF CallResultInv
  <2>4. CASE ResetCache \/ UNCHANGED vars \/ NewWriteTx \/ WriterStep \/ Rollback
    <3>1. reader' = reader
      BY <2>4 DEF ResetCache, vars, NewWriteTx, WriterStep, Rollback, IngestLedger, InsertLedgers,
                  FlushWriters, TrimTables, CommitTx, UpdateCache, PostCommit
    <3>. QED
      BY <3>1, <2>1
  <2>. QED
    BY <2>1, <2>2, <2>3, <2>4 DEF Next
<1>. QED
  BY <1>2, <1>3 DEF IndInv, TableInv

\* The whole inductive invariant holds in every behaviour.
THEOREM IndInvariant == Spec => []IndInv
<1>1. Init => ResultInv
  <2>1. ASSUME Init, NEW r \in Readers PROVE reader[r].pc = "idle"
    BY <2>1 DEF Init, IdleReader
  <2>. QED
    BY <2>1 DEF ResultInv, CallResultInv
<1>2. IndInv <=> TableInv /\ ResultInv
  BY DEF IndInv, TableInv
<1>. QED
  BY <1>1, <1>2, TableInvariant, IndInvStep, PTL DEF Spec

\* Every ledger of a range that GetLedgerRange returns, in or outside a read
\* transaction, was visible to the statement that computed the range.
THEOREM RangesAreServable == Spec => []RangeServable
<1>1. IndInv => RangeServable
  BY DEF IndInv, ResultInv, CallResultInv, RangeServable
<1>. QED
  BY <1>1, IndInvariant, PTL

\* No call returns a latest ledger older than one committed before it began.
THEOREM LatestIsFresh == Spec => []FreshLatest
<1>1. IndInv => FreshLatest
  BY DEF IndInv, ResultInv, CallResultInv, FreshLatest
<1>. QED
  BY <1>1, IndInvariant, PTL
=============================================================================
