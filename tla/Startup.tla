------------------------------ MODULE Startup -------------------------------
(***************************************************************************)
(* The start of the daemon (daemon.go: MustNew, mustInitializeStorage) on  *)
(* a database file that survives it: the data migrations of migration.go,  *)
(* the bulk load of db.go (PrepareBulkLoad, FinalizeBulkLoad) around the   *)
(* backfill, then ingestion.  The process may be killed at any step, and   *)
(* every error of a step is logger.Fatal, which ends it as well.           *)
(*                                                                         *)
(* A table is the set of ledgers whose rows it holds.  The fee windows are *)
(* loaded in the same pass as the migrations and are in IngestService;     *)
(* load tests, which are documented to destroy the database, are left out, *)
(* and so are the ranges that Backfill chooses.                            *)
(***************************************************************************)
EXTENDS Integers, FiniteSets, FiniteSetsExt, Sequences

CONSTANTS
    HistoryRetentionWindow, (* ledgers kept in the database                *)
    MaxLedger               (* bound on the ledger sequence numbers        *)

ASSUME StartupAssumption ==
    /\ HistoryRetentionWindow \in Nat \ {0}
    /\ MaxLedger \in Nat

FirstLedger == 2
Ledger == FirstLedger..MaxLedger

\* Each of the tables has a guarded migration (currentMigrations).
Table == {"transactions", "events"}

\* deferredIndexes, in the order in which they are built.
DeferredIndexes == <<"idx_transactions_hash", "idx_id_contract_id", "idx_id_topic1">>
Index == {DeferredIndexes[i] : i \in 1..Len(DeferredIndexes)}

VARIABLES
    ledgers,   (* ledger_close_meta: the ledgers stored                    *)
    rows,      (* for each table, the ledgers whose rows are stored        *)
    guard,     (* metadata: "Migration...Done" of each table               *)
    recorded,  (* metadata: BulkLoadPendingIndexes is present              *)
    indexes,   (* the deferred indexes (or the primary key) that exist     *)
    pc,        (* where MustNew is                                         *)
    backfill,  (* cfg.Backfill of this process                             *)
    migration, (* the MultiMigration of this process                       *)
    unmigrated (* history: for each table, the ledgers without rows when   *)
               (* its guard was stored on its own                          *)

disk == <<ledgers, rows, guard, recorded, indexes>>
vars == <<ledgers, rows, guard, recorded, indexes, pc, backfill, migration, unmigrated>>

Latest == IF ledgers = {} THEN 0 ELSE Max(ledgers)

NoMigration ==
    [todo   |-> {},                       \* tables not migrated yet
     stream |-> {},                       \* ledgers not yet applied
     buffer |-> [t \in Table |-> {}],     \* ledgers with rows in the writers
     rows   |-> [t \in Table |-> {}],     \* the tables in the transaction
     guard  |-> [t \in Table |-> FALSE],  \* the guards in the transaction
     inTx   |-> FALSE,                    \* the session has a transaction
     failed |-> FALSE]                    \* a Commit returned an error

\* A database of this version or of one that had not all migrations: the
\* transactions table is older than its migration, the events table is not.
\* A database written with another retention window may hold more ledgers.
Init ==
    /\ \E l \in Ledger, n \in 0..(MaxLedger - 1) : ledgers = {x \in Ledger : l <= x /\ x < l + n}
    /\ guard \in [Table -> BOOLEAN]
    /\ \E s \in Ledger :
          rows = [t \in Table |-> IF guard[t] THEN ledgers
                                  ELSE IF t = "events" THEN {}
                                  ELSE {x \in ledgers : x >= s}]
    /\ recorded = FALSE
    /\ indexes = Index
    /\ pc = "down"
    /\ backfill = FALSE
    /\ migration = NoMigration
    /\ unmigrated = [t \in Table |-> {}]

-----------------------------------------------------------------------------
\* The process ends: what is not committed is lost.
Exit(how) ==
    /\ pc' = how
    /\ migration' = NoMigration
    /\ UNCHANGED <<disk, backfill, unmigrated>>

\* A kill, a stop, or a failing statement on the way up.
Crash == pc \notin {"down", "fatal"} /\ Exit("down")

\* mustOpenDatabase: the schema migrations have no effect on these tables.
Start ==
    /\ pc \in {"down", "fatal"}
    /\ backfill' \in BOOLEAN
    /\ pc' = "open"
    /\ UNCHANGED <<disk, migration, unmigrated>>

-----------------------------------------------------------------------------
(***************************************************************************)
(* mustInitializeStorage: the data migrations in one transaction.          *)
(***************************************************************************)

\* Mutant: a window of ledgers is counted from the latest one exclusive.
MigrationRangeShort ==
    {l \in ledgers : l > Latest - HistoryRetentionWindow + 1}

\* GetMigrationLedgerRange, and the ledgers StreamLedgerRange finds in it.
MigrationRange ==
    LET first == IF Latest > HistoryRetentionWindow
                 THEN Latest - HistoryRetentionWindow
                 ELSE FirstLedger
    IN  {l \in ledgers : first <= l /\ l <= Latest}

\* Mutant: the transactions table keeps its rows.
TruncatedKept(t) == FALSE

\* Only newTransactionTableMigration empties its table.
Truncated(t) == t = "transactions"

\* BuildMigrations: BEGIN, and one guarded migration for each table whose
\* guard is not set.
BuildMigrations ==
    /\ pc = "open"
    /\ LET todo == {t \in Table : ~guard[t]} IN
       migration' = [NoMigration EXCEPT
                        !.todo = todo,
                        !.stream = IF todo = {} THEN {} ELSE MigrationRange,
                        !.rows = [t \in Table |-> IF t \in todo /\ Truncated(t)
                                                  THEN {} ELSE rows[t]],
                        !.guard = guard,
                        !.inTx = TRUE]
    /\ pc' = "apply"
    /\ UNCHANGED <<disk, backfill, unmigrated>>

\* InsertTransactions and InsertEvents put the rows of a ledger into the
\* writer's buffer.
Buffered(l) ==
    [t \in Table |-> IF t \in migration.todo THEN migration.buffer[t] \cup {l} ELSE {}]

\* MultiMigration.Apply on the next ledger of the stream.  The writers flush
\* full batches; how many rows a ledger has is left open: flushed are the
\* writers whose buffer is empty afterwards.  A row that is in the table
\* already is a conflict.
Apply ==
    /\ pc = "apply"
    /\ migration.stream # {}
    /\ \E flushed \in SUBSET migration.todo :
       LET l == Min(migration.stream)
           full == Buffered(l)
       IN  IF \E t \in flushed : full[t] \cap migration.rows[t] # {}
           THEN Exit("fatal")
           ELSE /\ migration' = [migration EXCEPT
                      !.stream = @ \ {l},
                      !.buffer = [t \in Table |-> IF t \in flushed THEN {} ELSE full[t]],
                      !.rows = [t \in Table |-> IF t \in flushed THEN @[t] \cup full[t] ELSE @[t]]]
                /\ UNCHANGED <<disk, pc, backfill, unmigrated>>

\* guardedMigration.Commit can flush the buffer: in the transaction when no row
\* is in the table already; after a rollback when there is nothing to flush,
\* since the writer's statements belong to the transaction.
CanFlush(t) ==
    IF migration.inTx THEN migration.buffer[t] \cap migration.rows[t] = {}
                      ELSE migration.buffer[t] = {}

\* It returns an error: MultiMigration.Commit rolls back and goes on with the
\* other migrations, without a transaction.
RollBack(t) ==
    /\ migration' = [migration EXCEPT !.todo = @ \ {t}, !.inTx = FALSE, !.failed = TRUE]
    /\ UNCHANGED <<disk, pc, backfill, unmigrated>>

CommitOneRefused(t) == ~CanFlush(t) /\ RollBack(t)

\* A statement fails that could have succeeded.
CommitOneFails(t) == CanFlush(t) /\ RollBack(t)

\* In the transaction: the buffer is flushed and the guard set.
CommitOneInTx(t) ==
    /\ migration.inTx /\ CanFlush(t)
    /\ migration' = [migration EXCEPT !.todo = @ \ {t},
                                      !.rows[t] = @ \cup migration.buffer[t],
                                      !.buffer[t] = {},
                                      !.guard[t] = TRUE]
    /\ UNCHANGED <<disk, pc, backfill, unmigrated>>

\* After a rollback: setMetaBool stores the guard at once.
CommitOneAlone(t) ==
    /\ ~migration.inTx /\ CanFlush(t)
    /\ guard' = [guard EXCEPT ![t] = TRUE]
    /\ unmigrated' = [unmigrated EXCEPT ![t] = ledgers \ rows[t]]
    /\ migration' = [migration EXCEPT !.todo = @ \ {t}]
    /\ UNCHANGED <<ledgers, rows, recorded, indexes, pc, backfill>>

\* The order of the migrations is that of a Go map: any.
CommitOne ==
    /\ pc = "apply"
    /\ migration.stream = {}
    /\ \E t \in migration.todo :
          CommitOneInTx(t) \/ CommitOneAlone(t) \/ CommitOneRefused(t) \/ CommitOneFails(t)

\* MultiMigration.Commit returns the errors before it gets to db.Commit.
MayCommit == ~migration.failed

CommitAll ==
    /\ pc = "apply"
    /\ migration.stream = {} /\ migration.todo = {}
    /\ IF MayCommit
       THEN /\ rows' = migration.rows
            /\ guard' = migration.guard
            /\ migration' = NoMigration
            /\ pc' = "storage"
            /\ UNCHANGED <<ledgers, recorded, indexes, backfill, unmigrated>>
       ELSE Exit("fatal")

-----------------------------------------------------------------------------
(***************************************************************************)
(* The bulk load.                                                          *)
(***************************************************************************)

\* Mutant: the database is taken for a fresh one.
IsFreshAlways == TRUE

IsFresh == ledgers = {}

\* MustNew up to the first mustBackfill.  PrepareBulkLoad is one transaction:
\* the indexes go, the transactions table is created anew without its key, and
\* the record of the indexes to build is written.
PrepareBulkLoad ==
    /\ pc = "storage"
    /\ IF backfill /\ IsFresh
       THEN /\ indexes' = {}
            /\ rows' = [rows EXCEPT !["transactions"] = {}]
            /\ recorded' = TRUE
       ELSE UNCHANGED <<indexes, rows, recorded>>
    /\ pc' = IF backfill THEN "backfill" ELSE "finalize"
    /\ UNCHANGED <<ledgers, guard, backfill, migration, unmigrated>>

\* One ledger is written with its rows, and the tables are trimmed.
InsertLedger(l) ==
    LET kept == {x \in Ledger : x + HistoryRetentionWindow >= l + 1} IN
    /\ ledgers' = (ledgers \cup {l}) \cap kept
    /\ rows' = [t \in Table |-> (rows[t] \cup {l}) \cap kept]
    /\ UNCHANGED <<guard, recorded, indexes, pc, backfill, migration, unmigrated>>

\* A ledger of a chunk: below or above the ledgers that are stored.
BackfillLedger ==
    /\ pc \in {"backfill", "topup"}
    /\ \E l \in Ledger :
          /\ ledgers # {} => l \in {Min(ledgers) - 1, Latest + 1}
          /\ l + HistoryRetentionWindow > Latest
          /\ InsertLedger(l)

\* mustBackfill returns; after the second time ingestion is started.
BackfillDone ==
    /\ pc \in {"backfill", "topup"}
    /\ pc' = IF pc = "backfill" THEN "finalize" ELSE "serving"
    /\ UNCHANGED <<disk, backfill, migration, unmigrated>>

\* FinalizeBulkLoad: the first index of the record that does not exist is built.
BuildIndex ==
    /\ pc = "finalize" /\ recorded
    /\ \E i \in 1..Len(DeferredIndexes) :
          /\ DeferredIndexes[i] \notin indexes
          /\ \A j \in 1..(i - 1) : DeferredIndexes[j] \in indexes
          /\ indexes' = indexes \cup {DeferredIndexes[i]}
    /\ UNCHANGED <<ledgers, rows, guard, recorded, pc, backfill, migration, unmigrated>>

\* Mutant: the record is cleared before the indexes are built.
AllBuiltFirst == TRUE

AllBuilt == indexes = Index

\* The record is cleared when its indexes are built.
ClearRecord ==
    /\ pc = "finalize" /\ recorded
    /\ AllBuilt
    /\ recorded' = FALSE
    /\ UNCHANGED <<ledgers, rows, guard, indexes, pc, backfill, migration, unmigrated>>

\* No record: FinalizeBulkLoad returns.
FinalizeDone ==
    /\ pc = "finalize" /\ ~recorded
    /\ pc' = IF backfill THEN "topup" ELSE "serving"
    /\ UNCHANGED <<disk, backfill, migration, unmigrated>>

\* The ingestion service and the handlers are up.
Ingest ==
    /\ pc = "serving"
    /\ \E l \in Ledger :
          /\ ledgers # {} => l = Latest + 1
          /\ InsertLedger(l)

-----------------------------------------------------------------------------
StartStep ==
    \/ Start \/ BuildMigrations \/ Apply \/ CommitOne \/ CommitAll
    \/ PrepareBulkLoad \/ BackfillLedger \/ BackfillDone
    \/ BuildIndex \/ ClearRecord \/ FinalizeDone

Next == StartStep \/ Ingest \/ Crash

Spec == Init /\ [][Next]_vars

\* MustNew runs on by itself, and a supervisor restarts a daemon that ended.
FairSpec == Spec /\ WF_vars(StartStep)

-----------------------------------------------------------------------------
\* "Restore the canonical schema after a bulk-load, including one interrupted
\* by a crash": wherever earlier processes were killed, with whatever options
\* they ran, no process serves without all of the indexes.
ServingIsIndexed == pc = "serving" => indexes = Index /\ ~recorded

\* The inductive form of ServingIsIndexed: an index that is missing is in the
\* record, and past FinalizeBulkLoad nothing is missing or recorded.
IndexInv ==
    /\ recorded \in BOOLEAN /\ indexes \subseteq Index
    /\ indexes # Index => recorded
    /\ pc \in {"topup", "serving"} => indexes = Index /\ ~recorded

\* When the process serves, every ledger of the retention window has its
\* transactions and events, whichever versions wrote the database and wherever
\* they were killed.  All that may be missing is what was missing when
\* MultiMigration.Commit, after it had rolled back the rows, stored the guard of
\* a table on its own: the later ledgers of that table, and the other table,
\* are complete.
ServingIsMigrated ==
    pc = "serving" =>
        \A t \in Table :
            {l \in ledgers : l + HistoryRetentionWindow > Latest} \ unmigrated[t] \subseteq rows[t]

\* The rows of a ledger that stays in the database are never lost again once
\* their table is migrated, neither to a migration nor to the bulk load's DROP.
RowsKept ==
    [][\A t \in Table : guard[t] => rows[t] \cap ledgers' \subseteq rows'[t]]_vars

\* Started often enough without a kill or an error, the daemon serves:
\* nothing that an earlier process left behind keeps it from starting.
StartupCompletes ==
    <>[][~Crash /\ ~(\E t \in Table : CommitOneFails(t))]_vars => <>(pc = "serving")
=============================================================================
