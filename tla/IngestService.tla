--------------------------- MODULE IngestService ---------------------------
(***************************************************************************)
(* The ingestion service (internal/ingest/service.go): one goroutine that  *)
(* takes the ledgers of the network one by one, writes each into the       *)
(* database and into the two in-memory fee windows, and is run again by    *)
(* backoff.RetryNotify when anything fails.  It composes the service with  *)
(*   - the database as RetainedLedgers promises it, an interval of ledgers *)
(*     (LedgerStore implements it);                                        *)
(*   - the fee windows as BoundedWindow promises them, bounded intervals   *)
(*     of ledgers (LedgerBucketWindow implements it);                      *)
(*   - the start and the end of the process (internal/daemon/daemon.go),   *)
(*     in which the fee windows are rebuilt from the database;             *)
(*   - the getFeeStats calls that read all three.                          *)
(* Captive core and the history archive are external: they deliver the     *)
(* ledgers up to the network's tip and may fail at any call.               *)
(***************************************************************************)
EXTENDS Naturals

CONSTANTS
    Callers,                (* concurrent getFeeStats calls                *)
    HistoryRetentionWindow, (* ledgers kept in the database                *)
    ClassicRetention,       (* capacity of the classic fee window          *)
    SorobanRetention,       (* capacity of the Soroban fee window          *)
    CheckpointFrequency,    (* ledgers between two archive checkpoints     *)
    MaxRetries,             (* retries granted by WithMaxRetries           *)
    Backfills,              (* whether a start may backfill the database   *)
    LoadTests,              (* values of loadTestEnd to start with         *)
    MaxLedger,              (* bound on the ledger sequence numbers        *)
    MaxFaults               (* bound on the failures of the environment    *)

ASSUME RetentionAssumption ==
    /\ HistoryRetentionWindow \in Nat
    /\ ClassicRetention \in 1..HistoryRetentionWindow
    /\ SorobanRetention \in 1..HistoryRetentionWindow
ASSUME BoundAssumption ==
    /\ CheckpointFrequency \in Nat \ {0, 1}
    /\ MaxRetries \in Nat \ {0}
    /\ MaxLedger \in Nat \ {0}
    /\ MaxFaults \in Nat
    /\ LoadTests \subseteq 0..MaxLedger
    /\ Backfills \subseteq BOOLEAN

VARIABLES
    tip,        (* newest ledger the ledger backend can deliver            *)
    archive,    (* CurrentLedger of the history archive, 0 : none yet      *)
    db,         (* the committed ledgers                                   *)
    classic,    (* ledgers in FeeWindows.ClassicFeeWindow                  *)
    soroban,    (* ledgers in FeeWindows.SorobanInclusionFeeWindow         *)
    pc,         (* where the service's goroutine stands                    *)
    next,       (* nextLedgerSeq                                           *)
    err,        (* the error run() returned                                *)
    retries,    (* numTries of the retry budget                            *)
    closing,    (* Close was called: the context is cancelled              *)
    stats,      (* the getFeeStats calls                                   *)
    loadTestEnd,(* last ledger of a load test, 0 : the live network        *)
    unseen,     (* history: the newest ledger stored when this process left*)
                (* the fee windows empty, 0 : it has filled them           *)
    faults      (* history: failures of the environment so far             *)

windows == <<classic, soroban>>
vars == <<tip, archive, db, classic, soroban, pc, next, err, retries, closing, stats,
          loadTestEnd, unseen, faults>>

LedgerOrNone == 0..MaxLedger

(***************************************************************************)
(* An interval of ledgers; last = 0 when it is empty.                      *)
(***************************************************************************)
Interval == [first : LedgerOrNone, last : LedgerOrNone]
NoLedgers == [first |-> 0, last |-> 0]
Size(i) == IF i.last = 0 THEN 0 ELSE i.last + 1 - i.first

\* The interval moves on to ledger s and keeps at most n ledgers.
Push(i, s, n) ==
    [first |-> LET f == IF i.last = 0 THEN s ELSE i.first
               IN  IF s + 1 > f + n THEN s + 1 - n ELSE f,
     last  |-> s]

\* The newest n ledgers of an interval.
NewestOf(i, n) == IF i.last = 0 THEN NoLedgers ELSE Push(i, i.last, n)

\* The ledgers of an interval after ledger s.
After(i, s) ==
    IF i.last <= s THEN NoLedgers
    ELSE [i EXCEPT !.first = IF @ <= s THEN s + 1 ELSE @]

\* The archive's ledger advances from checkpoint to checkpoint.
Checkpoints == {k \in 1..tip : k % CheckpointFrequency = 0}

IdleCall == [pc |-> "idle", latest |-> 0, soroban |-> 0, classic |-> 0]

-----------------------------------------------------------------------------
(***************************************************************************)
(* Startup.                                                                *)
(***************************************************************************)

\* Mutant: only the newest ledger is fed to the fee windows.
LoadedWindowLatestOnly(i, n, backfill) ==
    IF backfill \/ loadTestEnd # 0 THEN NoLedgers ELSE NewestOf(i, 1)

\* mustInitializeStorage feeds the newest ledgers of the database to both fee
\* windows, except in load-test mode; mustBackfill resets them afterwards.
LoadedWindow(i, n, backfill) ==
    IF backfill \/ loadTestEnd # 0 THEN NoLedgers ELSE NewestOf(i, n)

\* The ledgers that the fee windows do not get, up to this one.
NotLoaded(i, backfill) == IF backfill \/ loadTestEnd # 0 THEN i.last ELSE 0

Init ==
    /\ loadTestEnd \in LoadTests
    /\ tip \in LedgerOrNone
    /\ archive \in {0} \cup Checkpoints
    /\ db \in {i \in Interval :
                  \/ i = NoLedgers
                  \/ /\ i.first \in 1..i.last
                     /\ i.last <= tip
                     /\ Size(i) <= HistoryRetentionWindow}
    /\ \E backfill \in Backfills :
          /\ classic = LoadedWindow(db, ClassicRetention, backfill)
          /\ soroban = LoadedWindow(db, SorobanRetention, backfill)
          /\ unseen = NotLoaded(db, backfill)
    /\ pc = "run"
    /\ next = 0
    /\ err = "none"
    /\ retries = 0
    /\ closing = FALSE
    /\ stats = [c \in Callers |-> IdleCall]
    /\ faults = 0

\* The process is started, perhaps with other options, on the database it left
\* behind.  (The ledgers that a backfill adds are in Backfill.)
StartAgain ==
    /\ \E backfill \in Backfills :
          /\ classic' = LoadedWindow(db, ClassicRetention, backfill)
          /\ soroban' = LoadedWindow(db, SorobanRetention, backfill)
          /\ unseen' = NotLoaded(db, backfill)
    /\ pc' = "run"
    /\ next' = 0
    /\ err' = "none"
    /\ retries' = 0
    /\ closing' = FALSE
    /\ stats' = [c \in Callers |-> IdleCall]
    /\ UNCHANGED <<tip, archive, db>>

\* It dies at any moment ...
Crash ==
    /\ faults < MaxFaults
    /\ faults' = faults + 1
    /\ StartAgain

\* ... or has ended by itself: log.Fatal, or Close.
Restart == (pc = "fatal" \/ (closing /\ pc = "exited")) /\ StartAgain /\ UNCHANGED faults

-----------------------------------------------------------------------------
(***************************************************************************)
(* The network.                                                            *)
(***************************************************************************)

CloseLedger ==
    /\ tip < MaxLedger
    /\ tip' = tip + 1
    /\ UNCHANGED <<archive, db, windows, pc, next, err, retries, closing, stats, faults>>

PublishCheckpoint ==
    /\ \E k \in Checkpoints : archive < k /\ archive' = k
    /\ UNCHANGED <<tip, db, windows, pc, next, err, retries, closing, stats, faults>>

-----------------------------------------------------------------------------
(***************************************************************************)
(* The service.                                                            *)
(***************************************************************************)

Goto(label) == pc' = label /\ UNCHANGED <<tip, archive, err, retries, closing, stats, faults>>

\* run() returns an error; the deferred Rollback leaves the database alone.
FailWith(e) ==
    /\ pc' = "failed"
    /\ err' = e
    /\ UNCHANGED <<tip, archive, db, windows, next, retries, closing, stats>>

\* The steps that call SQLite, captive core or the archive.
Fallible == {"run", "prepare", "fetch", "begin", "insert", "fees", "commit", "checkpoint"}

\* The environment fails such a call: the database, the backend (a timeout of
\* PrepareRange included), the archive, or metadata that cannot be decoded.
Fault ==
    /\ pc \in Fallible
    /\ faults < MaxFaults
    /\ faults' = faults + 1
    /\ FailWith("fault")

\* Mutant: GetLedger waits for its ledger whatever happens to the context.
CancelledExceptGetLedger ==
    /\ closing
    /\ pc \in {"run", "prepare", "begin", "insert", "commit", "checkpoint"}
    /\ FailWith("canceled")
    /\ UNCHANGED faults

\* A call that takes the context fails once it is cancelled.  (run can answer
\* from the cache; the others cannot get past it.)
Cancelled ==
    /\ closing
    /\ pc \in {"run", "prepare", "fetch", "begin", "insert", "commit", "checkpoint"}
    /\ FailWith("canceled")
    /\ UNCHANGED faults

\* getNextLedgerSequence on a database with ledgers.
NextAfterLatest == db.last + 1

ContinueAfterLatest ==
    /\ pc = "run"
    /\ db.last # 0
    /\ next' = NextAfterLatest
    /\ Goto("prepare")
    /\ UNCHANGED <<db, windows>>

\* getNextLedgerSequence on an empty database: start at the archive's ledger.
StartAtArchive ==
    /\ pc = "run"
    /\ db.last = 0
    /\ archive # 0
    /\ ~closing
    /\ next' = archive
    /\ Goto("prepare")
    /\ UNCHANGED <<db, windows>>

\* getNextLedgerSequence before the first checkpoint is published.
EmptyArchives ==
    /\ pc = "run"
    /\ db.last = 0
    /\ archive = 0
    /\ FailWith("emptyArchives")
    /\ UNCHANGED faults

\* The backend can deliver the ledger: captive core follows the network, the
\* backend of a load test its synthetic stream.
Available(s) == IF loadTestEnd = 0 THEN s <= tip ELSE s <= loadTestEnd

\* PrepareRange returns when the backend has the first ledger of the range.
PrepareRange ==
    /\ pc = "prepare"
    /\ ~closing
    /\ loadTestEnd # 0 \/ Available(next)
    /\ Goto("fetch")
    /\ UNCHANGED <<db, windows, next>>

\* ledgerBackend.GetLedger waits for the ledger.
GetLedger ==
    /\ pc = "fetch"
    /\ ~closing
    /\ Available(next)
    /\ Goto("begin")
    /\ UNCHANGED <<db, windows, next>>

\* The stream of a load test is exhausted.
LoadTestDone ==
    /\ pc = "fetch"
    /\ loadTestEnd # 0
    /\ ~Available(next)
    /\ FailWith("loadTestDone")
    /\ UNCHANGED faults

NewTx ==
    /\ pc = "begin"
    /\ ~closing
    /\ Goto("insert")
    /\ UNCHANGED <<db, windows, next>>

\* ingestLedgerCloseMeta: rows of the open transaction, not visible yet.
InsertLedgerCloseMeta ==
    /\ pc = "insert"
    /\ Goto("fees")
    /\ UNCHANGED <<db, windows, next>>

\* LedgerBucketWindow.Append takes the ledger after its newest one, or any
\* ledger when it is empty.
Accepts(window, s) == window.last = 0 \/ s = window.last + 1

\* IngestFees has read the transactions' fees: the classic window first.
AppendClassicFees ==
    /\ pc = "fees"
    /\ Accepts(classic, next)
    /\ classic' = Push(classic, next, ClassicRetention)
    /\ Goto("soroban")
    /\ UNCHANGED <<db, soroban, next>>

\* Mutant: a ledger without Soroban transactions may skip the Soroban window.
AppendSorobanFeesIfAny ==
    /\ pc = "soroban"
    /\ Accepts(soroban, next)
    /\ soroban' \in {soroban, Push(soroban, next, SorobanRetention)}
    /\ Goto("commit")
    /\ UNCHANGED <<db, classic, next>>

AppendSorobanFees ==
    /\ pc = "soroban"
    /\ Accepts(soroban, next)
    /\ soroban' = Push(soroban, next, SorobanRetention)
    /\ Goto("commit")
    /\ UNCHANGED <<db, classic, next>>

\* "ledgers not contiguous": IngestFees returns the error of either window.
RejectFees ==
    /\ \/ pc = "fees" /\ ~Accepts(classic, next)
       \/ pc = "soroban" /\ ~Accepts(soroban, next)
    /\ FailWith("notContiguous")
    /\ UNCHANGED faults

\* tx.Commit: flush, trim, COMMIT and the update of the range cache.
Commit ==
    /\ pc = "commit"
    /\ ~closing
    /\ db' = Push(db, next, HistoryRetentionWindow)
    /\ pc' = "checkpoint"
    /\ UNCHANGED <<tip, archive, windows, next, err, retries, closing, stats, faults>>

\* Mutant: the loop skips a ledger.
PostCommitSkips ==
    /\ pc = "checkpoint"
    /\ next' = IF next < MaxLedger THEN next + 2 ELSE next + 1
    /\ Goto("fetch")
    /\ UNCHANGED <<db, windows>>

\* postCommit, then the loop goes on with the next ledger.
PostCommit ==
    /\ pc = "checkpoint"
    /\ next' = next + 1
    /\ Goto("fetch")
    /\ UNCHANGED <<db, windows>>

-----------------------------------------------------------------------------
(***************************************************************************)
(* Start(): backoff.RetryNotify around run().                              *)
(***************************************************************************)

\* backoff.Permanent: the end of a load test is not retried.
Permanent(e) == e = "loadTestDone"

\* Mutant: an archive without a checkpoint uses up the retries.
RetriesUsedAlways == retries

\* numTries when NextBackOff is asked; errEmptyArchives resets it.
RetriesUsed == IF err = "emptyArchives" THEN 0 ELSE retries

\* The goroutine ends: a permanent error, or NextBackOff stops and the context
\* is cancelled.
StopRetrying ==
    /\ pc = "failed"
    /\ Permanent(err) \/ closing
    /\ pc' = "exited"
    /\ UNCHANGED <<tip, archive, db, windows, next, err, retries, closing, stats, faults>>

\* The retries are used up: log.Fatal ends the process.
GiveUp ==
    /\ pc = "failed"
    /\ ~Permanent(err)
    /\ ~closing
    /\ RetriesUsed >= MaxRetries
    /\ pc' = "fatal"
    /\ UNCHANGED <<tip, archive, db, windows, next, err, retries, closing, stats, faults>>

BackOff ==
    /\ pc = "failed"
    /\ ~Permanent(err)
    /\ ~closing
    /\ RetriesUsed < MaxRetries
    /\ retries' = RetriesUsed + 1
    /\ pc' = "backoff"
    /\ UNCHANGED <<tip, archive, db, windows, next, err, closing, stats, faults>>

\* The select between the timer and the context: run() once more ...
TimerFires ==
    /\ pc = "backoff"
    /\ Goto("run")
    /\ UNCHANGED <<db, windows, next>>

\* ... or the end.
CancelledInBackOff ==
    /\ pc = "backoff"
    /\ closing
    /\ Goto("exited")
    /\ UNCHANGED <<db, windows, next>>

\* Service.Close: cancel the context, then wait for the goroutine to end.
Close ==
    /\ ~closing
    /\ pc # "fatal"
    /\ closing' = TRUE
    /\ UNCHANGED <<tip, archive, db, windows, pc, next, err, retries, stats, faults>>

-----------------------------------------------------------------------------
(***************************************************************************)
(* getFeeStats: the ledger range, then the Soroban and the classic         *)
(* distribution, each under its own lock.                                  *)
(***************************************************************************)

SetCall(c, call) ==
    /\ pc # "fatal"
    /\ stats' = [stats EXCEPT ![c] = call]
    /\ UNCHANGED <<tip, archive, db, windows, pc, next, err, retries, closing, faults>>

ReadLedgerRange(c) ==
    /\ stats[c].pc = "idle"
    /\ SetCall(c, [IdleCall EXCEPT !.pc = "soroban", !.latest = db.last])

ReadSorobanFees(c) ==
    /\ stats[c].pc = "soroban"
    /\ SetCall(c, [stats[c] EXCEPT !.pc = "classic", !.soroban = soroban.last])

\* Mutant: the ledger range is read after the distributions.
ReadClassicFeesThenRange(c) ==
    /\ stats[c].pc = "classic"
    /\ SetCall(c, [stats[c] EXCEPT !.pc = "done", !.classic = classic.last, !.latest = db.last])

ReadClassicFees(c) ==
    /\ stats[c].pc = "classic"
    /\ SetCall(c, [stats[c] EXCEPT !.pc = "done", !.classic = classic.last])

Respond(c) ==
    /\ stats[c].pc = "done"
    /\ SetCall(c, IdleCall)

-----------------------------------------------------------------------------
ServiceStep ==
    \/ ContinueAfterLatest \/ StartAtArchive \/ EmptyArchives \/ Cancelled
    \/ PrepareRange \/ GetLedger \/ LoadTestDone \/ NewTx \/ InsertLedgerCloseMeta
    \/ AppendClassicFees \/ AppendSorobanFees \/ RejectFees \/ Commit \/ PostCommit
    \/ StopRetrying \/ GiveUp \/ BackOff \/ TimerFires \/ CancelledInBackOff

GetFeeStats(c) ==
    ReadLedgerRange(c) \/ ReadSorobanFees(c) \/ ReadClassicFees(c) \/ Respond(c)

Next ==
    /\ \/ /\ \/ ServiceStep \/ Fault \/ Close
             \/ CloseLedger \/ PublishCheckpoint
             \/ \E c \in Callers : GetFeeStats(c)
          /\ UNCHANGED unseen
       \/ Crash \/ Restart
    /\ UNCHANGED loadTestEnd

Spec == Init /\ [][Next]_vars

\* The goroutine keeps running, and the timer of a back-off fires.
FairSpec == Spec /\ WF_vars(ServiceStep /\ UNCHANGED <<loadTestEnd, unseen>>)

-----------------------------------------------------------------------------
\* Between two ledgers the two fee windows end at the same ledger, which is the
\* newest ledger of the database or the one whose commit failed: they never
\* lag behind, whatever failed, was retried or restarted (ingest, IngestFees).
WindowsTrackDatabase ==
    pc \notin {"soroban", "commit"} =>
        /\ classic.last = soroban.last
        /\ classic.last # 0 /\ db.last # 0 => classic.last \in {db.last, db.last + 1}

\* A getFeeStats response that has statistics never reports a latest ledger
\* whose fees are missing from them, and its classic statistics are at least
\* as recent as its Soroban ones: it reads in the opposite order of the
\* service's writes (NewGetFeeStatsHandler; ingest, IngestFees).
FeeStatsCoverLatestLedger ==
    \A c \in Callers :
        stats[c].pc = "done" /\ stats[c].soroban # 0
            => stats[c].latest <= stats[c].soroban /\ stats[c].soroban <= stats[c].classic

\* Ingestion gives up only when something has failed: waiting for the first
\* checkpoint of the history archive never uses up the retries.
NoFatalWithoutFault == pc = "fatal" => faults > 0

\* The fee windows hold the newest ledgers of the database, as many as they
\* have room for; a restart loses none of them (mustInitializeStorage).  A process
\* that backfills, or runs a load test, starts with empty windows that nothing
\* re-populates from the database: exactly the ledgers that it found are missing,
\* until the windows have filled up with newer ones.
FeeWindowsComplete ==
    pc = "fetch" /\ next = db.last + 1 /\ classic.last <= db.last
        => /\ classic = NewestOf(After(db, unseen), ClassicRetention)
           /\ soroban = NewestOf(After(db, unseen), SorobanRetention)

\* Close returns: the service's goroutine ends once its context is cancelled.
CloseReturns == closing ~> (pc \in {"exited", "fatal"} \/ ~closing)

\* Every ledger of the network is ingested unless the service was closed, gave
\* up or was a load test that ended.
LedgersAreIngested ==
    \A k \in 1..MaxLedger :
        (tip >= k /\ archive # 0) ~> (db.last >= k \/ pc \in {"exited", "fatal"})

\* "Retry running ingestion every second for 5 seconds": an environment that
\* fails once and recovers does not end the service, a retry gets past it.
OneFaultIsSurvived == pc = "fatal" => faults > 1
=============================================================================
