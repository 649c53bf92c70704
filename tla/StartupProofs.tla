--------------------------- MODULE StartupProofs ----------------------------
(***************************************************************************)
(* The way to a running daemon: its database (Startup), then its           *)
(* configuration (Config).                                                 *)
(*                                                                         *)
(* Wherever processes are killed, the daemon serves only with all indexes  *)
(* and with the migrated rows of its retention window.  ServingIsIndexed   *)
(* is not inductive: a process that begins to finalize relies on the       *)
(* record that an earlier, killed one wrote in the same transaction in     *)
(* which it dropped the indexes (IndexInv).                                *)
(*                                                                         *)
(* Whatever the user writes, the sources of the configuration have their   *)
(* precedence, networks do not mix and gen-config-file is read back.  These*)
(* speak of the end of SetValues; the invariants (PlainValues, NetworkInv, *)
(* GenerateInv) say for each pass and each row of the table what has been  *)
(* applied so far.                                                         *)
(***************************************************************************)
EXTENDS Startup, Config, FiniteSetTheorems, WellFoundedInduction, TLAPS

LEMMA IndexInvInit == Init => IndexInv
BY DEF Init, IndexInv

\* Steps that touch neither the indexes nor the record, and do not get past
\* FinalizeBulkLoad.
LEMMA IndexInvKept ==
    ASSUME IndexInv, UNCHANGED <<recorded, indexes>>,
           pc' \in {"topup", "serving"} => pc \in {"topup", "serving"}
    PROVE  IndexInv'
BY DEF IndexInv

LEMMA IndexInvStep == IndexInv /\ [Next]_vars => IndexInv'
<1> SUFFICES ASSUME IndexInv, [Next]_vars PROVE IndexInv'
    OBVIOUS
<1>1. CASE Start
    BY <1>1, IndexInvKept DEF Start, disk
<1>2. CASE BuildMigrations
    BY <1>2, IndexInvKept DEF BuildMigrations, disk
<1>3. CASE Apply
    BY <1>3, IndexInvKept DEF Apply, Exit, disk
<1>4. CASE CommitOne
    <2>1. PICK t \in migration.todo :
              CommitOneInTx(t) \/ CommitOneAlone(t) \/ CommitOneRefused(t) \/ CommitOneFails(t)
        BY <1>4 DEF CommitOne
    <2> QED
        BY <2>1, IndexInvKept
           DEF CommitOneInTx, CommitOneAlone, CommitOneRefused, CommitOneFails, RollBack, disk
<1>5. CASE CommitAll
    BY <1>5, IndexInvKept DEF CommitAll, Exit, disk
<1>6. CASE PrepareBulkLoad
    BY <1>6 DEF PrepareBulkLoad, IndexInv
<1>7. CASE BackfillLedger
    BY <1>7, IndexInvKept DEF BackfillLedger, InsertLedger
<1>8. CASE BackfillDone
    BY <1>8 DEF BackfillDone, disk, IndexInv
<1>9. CASE BuildIndex
    BY <1>9 DEF BuildIndex, IndexInv, Index
<1>10. CASE ClearRecord
    BY <1>10 DEF ClearRecord, AllBuilt, IndexInv
<1>11. CASE FinalizeDone
    BY <1>11 DEF FinalizeDone, disk, IndexInv
<1>12. CASE Ingest
    BY <1>12, IndexInvKept DEF Ingest, InsertLedger
<1>13. CASE Crash
    BY <1>13, IndexInvKept DEF Crash, Exit, disk
<1>14. CASE UNCHANGED vars
    BY <1>14, IndexInvKept DEF vars
<1> QED
    BY <1>1, <1>2, <1>3, <1>4, <1>5, <1>6, <1>7, <1>8, <1>9, <1>10, <1>11, <1>12, <1>13, <1>14
       DEF Next, StartStep

\* FinalizeBulkLoad and the record that PrepareBulkLoad writes: for every
\* retention window and every sequence of kills, restarts and options, a daemon
\* that serves has all of the deferred indexes and an empty record.
THEOREM OnlyIndexedServes == Spec => []ServingIsIndexed
<1>1. IndexInv => ServingIsIndexed
    BY DEF IndexInv, ServingIsIndexed
<1> QED
    BY IndexInvInit, IndexInvStep, <1>1, PTL DEF Spec

-----------------------------------------------------------------------------
(***************************************************************************)
(* Migrations.  ServingIsMigrated relates the tables to the ledgers only   *)
(* while the process serves; what carries it through kills and restarts is *)
(* the guard: a table whose guard is stored has the rows of the window     *)
(* (but for those that were missing when it was stored alone), and while   *)
(* the migrations run the rows that are missing in the transaction are in  *)
(* a writer's buffer or still in the stream.                               *)
(***************************************************************************)

\* The ledgers whose rows are due: those of the retention window.
Window == {l \in ledgers : l + HistoryRetentionWindow > Latest}

MigrationType ==
    [todo : SUBSET Table, stream : SUBSET Ledger, buffer : [Table -> SUBSET Ledger],
     rows : [Table -> SUBSET Ledger], guard : [Table -> BOOLEAN],
     inTx : BOOLEAN, failed : BOOLEAN]

TypeInv ==
    /\ ledgers \in SUBSET Ledger
    /\ rows \in [Table -> SUBSET Ledger]
    /\ guard \in [Table -> BOOLEAN]
    /\ unmigrated \in [Table -> SUBSET Ledger]
    /\ migration \in MigrationType

\* A stored guard vouches for the rows of the window.
GuardInv == \A t \in Table : guard[t] => Window \ unmigrated[t] \subseteq rows[t]

\* Past the migrations every guard is stored.
MigratedInv ==
    pc \in {"storage", "backfill", "finalize", "topup", "serving"} => \A t \in Table : guard[t]

\* The transaction of the migrations, until one of them fails.
TransactionInv ==
    pc = "apply" /\ ~migration.failed =>
        /\ migration.inTx
        /\ \A t \in Table :
              /\ guard[t] => /\ t \notin migration.todo
                             /\ migration.rows[t] = rows[t]
              /\ t \in migration.todo \/ migration.guard[t]
        /\ \A t \in Table :
              IF t \in migration.todo
              THEN Window \subseteq migration.rows[t] \cup migration.buffer[t]
                                     \cup migration.stream \cup unmigrated[t]
              ELSE Window \ unmigrated[t] \subseteq migration.rows[t]

RowsInv == TypeInv /\ GuardInv /\ MigratedInv /\ TransactionInv

\* A finite set of numbers has a largest one: a set without one would have a
\* smallest subset without one.
LEMMA LargestExists ==
    ASSUME NEW S, IsFiniteSet(S), S # {}, S \subseteq Int
    PROVE  \E x \in S : \A y \in S : x >= y
<1> DEFINE Top(T) == \E x \in T : \A y \in T : x >= y
           Bad == {T \in SUBSET S : T # {} /\ ~Top(T)}
<1>1. SUFFICES ASSUME Bad # {} PROVE FALSE
    OBVIOUS
<1>2. IsWellFoundedOn(StrictSubsetOrdering(S), SUBSET S)
    BY FS_StrictSubsetOrderingWellFounded, FS_FiniteSubsetsOfFinite
<1>3. PICK T \in Bad : \A U \in Bad : ~(<<U, T>> \in StrictSubsetOrdering(S))
    <2>1. Bad \subseteq SUBSET S
        OBVIOUS
    <2> HIDE DEF Bad
    <2> QED
        BY <1>1, <1>2, <2>1, WFMin
<1>4. PICK x \in T : TRUE
    OBVIOUS
<1>5. CASE T = {x}
    BY <1>5
<1>6. CASE T # {x}
    <2> DEFINE U == T \ {x}
    <2>1. U \in SUBSET S /\ U # {} /\ U # T /\ U \subseteq T
        BY <1>4, <1>6
    <2>2. <<U, T>> \in StrictSubsetOrdering(S)
        BY <2>1 DEF StrictSubsetOrdering
    <2>3. Top(U)
        BY <1>3, <2>1, <2>2
    <2>4. PICK m \in U : \A y \in U : m >= y
        BY <2>3
    <2>5. x \in Int /\ m \in Int /\ T \subseteq Int
        BY <2>1
    <2>6. CASE m >= x
        BY <2>4, <2>6
    <2>7. CASE x >= m
        BY <2>4, <2>5, <2>7
    <2> QED
        BY <2>5, <2>6, <2>7
<1> QED
    BY <1>5, <1>6

LEMMA SmallestExists ==
    ASSUME NEW S, IsFiniteSet(S), S # {}, \A x \in S : x \in Int
    PROVE  \E x \in S : \A y \in S : x =< y
<1> DEFINE N == {-x : x \in S}
           f == [x \in S |-> -x]
<1>1. f \in Surjection(S, N)
    BY DEF Surjection
<1>2. IsFiniteSet(N)
    <2> HIDE DEF f, N
    <2> QED
        BY <1>1, FS_Surjection
<1>3. N # {} /\ N \subseteq Int
    OBVIOUS
<1>4. PICK m \in N : \A y \in N : m >= y
    <2> HIDE DEF N
    <2> QED
        BY <1>2, <1>3, LargestExists
<1>5. PICK x \in S : m = -x
    BY <1>4
<1>6. \A y \in S : m >= -y
    BY <1>4
<1> QED
    BY <1>5, <1>6

LEMMA FiniteLedgers == \A S \in SUBSET Ledger : IsFiniteSet(S) /\ S \subseteq Int
<1>1. 2 \in Int /\ MaxLedger \in Int
    BY StartupAssumption
<1>2. IsFiniteSet(2..MaxLedger)
    BY <1>1, FS_Interval
<1>3. ASSUME NEW S \in SUBSET (2..MaxLedger)
      PROVE  IsFiniteSet(S) /\ S \subseteq Int
    <2>1. S \subseteq Int
        BY <1>1
    <2> QED
        BY <1>2, <2>1, FS_Subset
<1> QED
    BY <1>3 DEF Ledger, FirstLedger

LEMMA LatestIsLatest ==
    ASSUME NEW S \in SUBSET Ledger
    PROVE  LET latest == IF S = {} THEN 0 ELSE Max(S) IN
           /\ latest \in Nat
           /\ S # {} => latest \in S
           /\ \A x \in S : x <= latest
<1>1. CASE S = {}
    BY <1>1
<1>2. CASE S # {}
    <2>1. IsFiniteSet(S) /\ S \subseteq Int
        BY FiniteLedgers
    <2>3. \E x \in S : \A y \in S : x >= y
        BY <1>2, <2>1, LargestExists
    <2>4. Max(S) \in S /\ \A y \in S : Max(S) >= y
        BY <2>3 DEF Max
    <2>5. Max(S) \in Nat
        <3>1. \A x \in Ledger : x \in Nat
            BY StartupAssumption DEF Ledger, FirstLedger
        <3> HIDE DEF Max
        <3> QED
            BY <2>4, <3>1
    <2> QED
        BY <1>2, <2>1, <2>4, <2>5
<1> QED
    BY <1>1, <1>2

LEMMA LatestInLedgers ==
    ASSUME ledgers \in SUBSET Ledger
    PROVE  /\ Latest \in Nat
           /\ ledgers # {} => Latest \in ledgers
           /\ \A x \in ledgers : x <= Latest
BY LatestIsLatest DEF Latest

\* The migrations' range has all of the retention window.
LEMMA RangeHasWindow ==
    ASSUME TypeInv
    PROVE  Window \subseteq MigrationRange /\ MigrationRange \subseteq Ledger
<1>1. /\ Latest \in Nat
      /\ \A x \in ledgers : x <= Latest
      /\ ledgers \subseteq Ledger
    BY LatestInLedgers DEF TypeInv
<1>2. HistoryRetentionWindow \in Nat /\ \A x \in ledgers : x \in Int /\ x >= FirstLedger
    BY <1>1, StartupAssumption DEF Ledger, FirstLedger
<1> QED
    BY <1>1, <1>2 DEF Window, MigrationRange, FirstLedger

\* Writing a ledger next to the stored ones never moves the latest one back.
LEMMA InsertRaisesLatest ==
    ASSUME TypeInv, NEW l \in Ledger, InsertLedger(l),
           ledgers # {} => l <= Latest + 1
    PROVE  Latest <= Latest'
<1> DEFINE kept == {x \in Ledger : x + HistoryRetentionWindow >= l + 1}
<1>1. ledgers' = (ledgers \cup {l}) \cap kept
    BY DEF InsertLedger
<1>2. ledgers' \in SUBSET Ledger
    BY <1>1
<1>3. Latest' \in Nat /\ \A x \in ledgers' : x <= Latest'
    BY <1>2, LatestIsLatest DEF Latest
<1>4. Latest \in Nat /\ (ledgers # {} => Latest \in ledgers)
    BY LatestInLedgers DEF TypeInv
<1>5. HistoryRetentionWindow \in Nat \ {0} /\ l \in Int
    BY StartupAssumption DEF Ledger, FirstLedger
<1>6. l \in ledgers'
    BY <1>1, <1>5
<1>7. CASE ledgers = {}
    BY <1>3, <1>7 DEF Latest
<1>8. CASE ledgers # {} /\ l > Latest
    BY <1>3, <1>4, <1>5, <1>6, <1>8
<1>9. CASE ledgers # {} /\ l <= Latest
    <2>1. Latest \in kept
        BY <1>4, <1>5, <1>9 DEF TypeInv
    <2> QED
        BY <1>1, <1>3, <1>4, <1>9, <2>1
<1> QED
    BY <1>4, <1>5, <1>7, <1>8, <1>9

\* The ledgers that come into the window come with their rows.
LEMMA InsertKeepsGuardInv ==
    ASSUME TypeInv, GuardInv, NEW l \in Ledger, InsertLedger(l),
           ledgers # {} => l <= Latest + 1
    PROVE  TypeInv' /\ GuardInv'
<1> DEFINE kept == {x \in Ledger : x + HistoryRetentionWindow >= l + 1}
<1>1. /\ ledgers' = (ledgers \cup {l}) \cap kept
      /\ rows' = [t \in Table |-> (rows[t] \cup {l}) \cap kept]
      /\ UNCHANGED <<guard, unmigrated, migration>>
    BY DEF InsertLedger
<1>2. TypeInv'
    <2>1. ledgers' \in SUBSET Ledger /\ rows' \in [Table -> SUBSET Ledger]
        BY <1>1
    <2> QED
        BY <1>1, <2>1 DEF TypeInv
<1>3. Latest <= Latest'
    BY InsertRaisesLatest
<1>4. Latest \in Nat /\ Latest' \in Nat
    BY <1>2, LatestIsLatest DEF Latest, TypeInv
<1>5. ASSUME NEW t \in Table, Window \ unmigrated[t] \subseteq rows[t],
             NEW x \in Window' \ unmigrated[t]
      PROVE  x \in rows'[t]
    <2>1. x \in ledgers' /\ x + HistoryRetentionWindow > Latest'
        BY <1>5 DEF Window
    <2>2. x \in Int /\ HistoryRetentionWindow \in Nat
        BY <1>1, <2>1, StartupAssumption DEF Ledger, FirstLedger
    <2>3. x + HistoryRetentionWindow > Latest
        BY <1>3, <1>4, <2>1, <2>2
    <2>4. x = l \/ x \in Window
        BY <1>1, <2>1, <2>3 DEF Window
    <2> QED
        BY <1>1, <1>5, <2>1, <2>4
<1>6. GuardInv'
    BY <1>1, <1>5 DEF GuardInv
<1> QED
    BY <1>2, <1>6

LEMMA NoMigrationType == NoMigration \in MigrationType
BY DEF NoMigration, MigrationType

\* Steps that leave the disk alone and are not in the migrations.
LEMMA RowsInvKept ==
    ASSUME RowsInv, UNCHANGED <<disk, unmigrated>>, migration' \in MigrationType,
           pc' # "apply",
           MigratedInv'
    PROVE  RowsInv'
<1>1. TypeInv'
    BY DEF RowsInv, TypeInv, disk
<1>2. GuardInv'
    BY DEF RowsInv, GuardInv, Window, Latest, disk
<1>3. TransactionInv'
    BY DEF TransactionInv
<1> QED
    BY <1>1, <1>2, <1>3 DEF RowsInv

LEMMA RowsInvExit ==
    ASSUME RowsInv, NEW how \in {"down", "fatal"}, Exit(how)
    PROVE  RowsInv'
BY RowsInvKept, NoMigrationType DEF Exit, MigratedInv

LEMMA RowsInvInit == Init => RowsInv
<1> SUFFICES ASSUME Init PROVE RowsInv
    OBVIOUS
<1>1. ledgers \in SUBSET Ledger /\ guard \in [Table -> BOOLEAN]
    BY DEF Init
<1>2. PICK s \in Ledger :
          rows = [t \in Table |-> IF guard[t] THEN ledgers
                                  ELSE IF t = "events" THEN {}
                                  ELSE {x \in ledgers : x >= s}]
    BY DEF Init
<1>3. rows \in [Table -> SUBSET Ledger]
    BY <1>1, <1>2
<1>4. TypeInv
    BY <1>1, <1>3, NoMigrationType DEF Init, TypeInv
<1>5. GuardInv
    BY <1>2 DEF GuardInv, Window
<1>6. MigratedInv /\ TransactionInv
    BY DEF Init, MigratedInv, TransactionInv
<1> QED
    BY <1>4, <1>5, <1>6 DEF RowsInv

\* BuildMigrations: everything that is due is in the stream.
LEMMA RowsInvBuild ==
    ASSUME RowsInv, BuildMigrations
    PROVE  RowsInv'
<1> DEFINE todo == {t \in Table : ~guard[t]}
           stream == IF todo = {} THEN {} ELSE MigrationRange
           kept == [t \in Table |-> IF t \in todo /\ Truncated(t) THEN {} ELSE rows[t]]
<1>1. /\ migration' = [NoMigration EXCEPT !.todo = todo, !.stream = stream, !.rows = kept,
                                          !.guard = guard, !.inTx = TRUE]
      /\ pc' = "apply"
      /\ UNCHANGED <<disk, unmigrated>>
    BY DEF BuildMigrations
<1>2. MigrationRange \subseteq Ledger /\ Window \subseteq MigrationRange
    BY RangeHasWindow DEF RowsInv
<1>3. /\ todo \in SUBSET Table /\ stream \in SUBSET Ledger
      /\ kept \in [Table -> SUBSET Ledger] /\ guard \in [Table -> BOOLEAN]
    BY <1>2 DEF RowsInv, TypeInv
<1>4. /\ migration' \in MigrationType
      /\ migration'.todo = todo /\ migration'.stream = stream /\ migration'.rows = kept
      /\ migration'.guard = guard /\ migration'.inTx
    <2> HIDE DEF todo, stream, kept
    <2> QED
        BY <1>1, <1>3, NoMigrationType DEF MigrationType
<1>5. TypeInv' /\ GuardInv' /\ MigratedInv'
    BY <1>1, <1>4 DEF RowsInv, TypeInv, GuardInv, MigratedInv, Window, Latest, disk
<1>6. Window' = Window /\ guard' = guard /\ rows' = rows /\ unmigrated' = unmigrated
    BY <1>1 DEF Window, Latest, disk
<1>7. ASSUME NEW t \in Table
      PROVE  /\ guard[t] => t \notin todo /\ kept[t] = rows[t]
             /\ t \in todo \/ guard[t]
             /\ t \in todo => Window \subseteq stream
             /\ t \notin todo => Window \ unmigrated[t] \subseteq kept[t]
    BY <1>2 DEF RowsInv, GuardInv
<1>8. TransactionInv'
    <2> HIDE DEF todo, stream, kept
    <2> QED
        BY <1>4, <1>6, <1>7 DEF TransactionInv
<1> QED
    BY <1>5, <1>8 DEF RowsInv

\* MultiMigration.Apply: a ledger goes from the stream to the buffers, and from
\* there to the tables.
LEMMA RowsInvApply ==
    ASSUME RowsInv, Apply
    PROVE  RowsInv'
<1>1. PICK flushed \in SUBSET migration.todo :
          LET l == Min(migration.stream)
              full == Buffered(l)
          IN  IF \E t \in flushed : full[t] \cap migration.rows[t] # {}
              THEN Exit("fatal")
              ELSE /\ migration' = [migration EXCEPT
                         !.stream = @ \ {l},
                         !.buffer = [t \in Table |-> IF t \in flushed THEN {} ELSE full[t]],
                         !.rows = [t \in Table |-> IF t \in flushed THEN @[t] \cup full[t] ELSE @[t]]]
                   /\ UNCHANGED <<disk, pc, backfill, unmigrated>>
    BY DEF Apply
<1> DEFINE l == Min(migration.stream)
           full == Buffered(l)
           stream == migration.stream \ {l}
           buffer == [t \in Table |-> IF t \in flushed THEN {} ELSE full[t]]
           table == [t \in Table |-> IF t \in flushed THEN migration.rows[t] \cup full[t]
                                     ELSE migration.rows[t]]
<1>2. CASE Exit("fatal")
    BY <1>2, RowsInvExit
<1>3. CASE /\ migration' = [migration EXCEPT !.stream = stream, !.buffer = buffer, !.rows = table]
           /\ UNCHANGED <<disk, pc, backfill, unmigrated>>
    <2>1. migration \in MigrationType /\ pc = "apply"
        BY DEF RowsInv, TypeInv, Apply
    <2>2. /\ migration.todo \in SUBSET Table
          /\ migration.stream \in SUBSET Ledger
          /\ migration.buffer \in [Table -> SUBSET Ledger]
          /\ migration.rows \in [Table -> SUBSET Ledger]
        BY <2>1 DEF MigrationType
    <2>3. l \in Ledger
        <3>3. migration.stream # {}
            BY DEF Apply
        <3>4. \E x \in migration.stream : \A y \in migration.stream : x =< y
            BY <2>2, <3>3, FiniteLedgers, SmallestExists
        <3>5. l \in migration.stream
            BY <3>4 DEF Min
        <3> HIDE DEF l
        <3> QED
            BY <2>2, <3>5
    <2> HIDE DEF l
    <2>4. full = [t \in Table |-> IF t \in migration.todo THEN migration.buffer[t] \cup {l} ELSE {}]
        BY DEF Buffered
    <2>5. full \in [Table -> SUBSET Ledger]
        BY <2>2, <2>3, <2>4
    <2> HIDE DEF full
    <2>6. /\ stream \in SUBSET Ledger
          /\ buffer \in [Table -> SUBSET Ledger]
          /\ table \in [Table -> SUBSET Ledger]
        BY <2>2, <2>5
    <2>7. ASSUME NEW t \in Table
          PROVE  /\ t \notin migration.todo => table[t] = migration.rows[t]
                 /\ t \in migration.todo =>
                       migration.rows[t] \cup migration.buffer[t] \cup migration.stream
                           \subseteq table[t] \cup buffer[t] \cup stream
        BY <2>4
    <2> HIDE DEF stream, buffer, table
    <2>8. /\ migration' \in MigrationType
          /\ migration'.stream = stream /\ migration'.buffer = buffer /\ migration'.rows = table
          /\ migration'.todo = migration.todo /\ migration'.guard = migration.guard
          /\ migration'.inTx = migration.inTx /\ migration'.failed = migration.failed
        BY <1>3, <2>1, <2>6 DEF MigrationType
    <2>9. TypeInv' /\ GuardInv' /\ MigratedInv'
        BY <1>3, <2>8 DEF RowsInv, TypeInv, GuardInv, MigratedInv, Window, Latest, disk
    <2>10. Window' = Window /\ guard' = guard /\ rows' = rows /\ unmigrated' = unmigrated
           /\ pc' = pc
        BY <1>3 DEF Window, Latest, disk
    <2>11. TransactionInv'
        <3>1. SUFFICES ASSUME ~migration.failed PROVE TransactionInv'
            BY <2>8 DEF TransactionInv
        <3>2. /\ migration.inTx
              /\ \A t \in Table :
                    /\ guard[t] => t \notin migration.todo /\ migration.rows[t] = rows[t]
                    /\ t \in migration.todo \/ migration.guard[t]
              /\ \A t \in Table :
                    /\ t \in migration.todo =>
                          Window \subseteq migration.rows[t] \cup migration.buffer[t]
                                            \cup migration.stream \cup unmigrated[t]
                    /\ t \notin migration.todo => Window \ unmigrated[t] \subseteq migration.rows[t]
            BY <2>1, <3>1 DEF RowsInv, TransactionInv
        <3> QED
            BY <2>7, <2>8, <2>10, <3>2 DEF TransactionInv
    <2> QED
        BY <2>9, <2>11 DEF RowsInv
<1> QED
    BY <1>1, <1>2, <1>3

\* guardedMigration.Commit, with and without the transaction.
LEMMA RowsInvCommitOne ==
    ASSUME RowsInv, CommitOne
    PROVE  RowsInv'
<1>1. PICK t \in migration.todo :
          CommitOneInTx(t) \/ CommitOneAlone(t) \/ RollBack(t)
    BY DEF CommitOne, CommitOneRefused, CommitOneFails
<1>2. pc = "apply" /\ migration.stream = {} /\ migration \in MigrationType
    BY DEF CommitOne, RowsInv, TypeInv
<1>3. /\ t \in Table /\ migration.todo \in SUBSET Table
      /\ migration.buffer \in [Table -> SUBSET Ledger]
      /\ migration.rows \in [Table -> SUBSET Ledger]
      /\ migration.guard \in [Table -> BOOLEAN]
    BY <1>2 DEF MigrationType
<1>4. CASE CommitOneInTx(t)
    <2> DEFINE todo == migration.todo \ {t}
               table == [migration.rows EXCEPT ![t] = @ \cup migration.buffer[t]]
               buffer == [migration.buffer EXCEPT ![t] = {}]
               done == [migration.guard EXCEPT ![t] = TRUE]
    <2>1. /\ migration' = [migration EXCEPT !.todo = todo, !.rows = table,
                                            !.buffer = buffer, !.guard = done]
          /\ UNCHANGED <<disk, pc, backfill, unmigrated>>
        BY <1>2, <1>4 DEF CommitOneInTx, MigrationType
    <2>2. /\ todo \in SUBSET Table /\ table \in [Table -> SUBSET Ledger]
          /\ buffer \in [Table -> SUBSET Ledger] /\ done \in [Table -> BOOLEAN]
        BY <1>3
    <2>3. ASSUME NEW u \in Table
          PROVE  /\ u # t => /\ table[u] = migration.rows[u] /\ buffer[u] = migration.buffer[u]
                             /\ done[u] = migration.guard[u]
                 /\ u = t => table[u] = migration.rows[u] \cup migration.buffer[u] /\ done[u]
        BY <1>3
    <2>4. t \notin todo /\ \A u \in Table : u # t => (u \in todo <=> u \in migration.todo)
        OBVIOUS
    <2> HIDE DEF todo, table, buffer, done
    <2>5. /\ migration' \in MigrationType
          /\ migration'.todo = todo /\ migration'.buffer = buffer /\ migration'.rows = table
          /\ migration'.guard = done /\ migration'.stream = migration.stream
          /\ migration'.inTx = migration.inTx /\ migration'.failed = migration.failed
        BY <1>2, <2>1, <2>2 DEF MigrationType
    <2>6. TypeInv' /\ GuardInv' /\ MigratedInv'
        BY <2>1, <2>5 DEF RowsInv, TypeInv, GuardInv, MigratedInv, Window, Latest, disk
    <2>7. Window' = Window /\ guard' = guard /\ rows' = rows /\ unmigrated' = unmigrated
          /\ pc' = pc
        BY <2>1 DEF Window, Latest, disk
    <2>8. TransactionInv'
        <3>1. SUFFICES ASSUME ~migration.failed PROVE TransactionInv'
            BY <2>5 DEF TransactionInv
        <3>2. /\ migration.inTx
              /\ \A u \in Table :
                    /\ guard[u] => u \notin migration.todo /\ migration.rows[u] = rows[u]
                    /\ u \in migration.todo \/ migration.guard[u]
              /\ \A u \in Table :
                    /\ u \in migration.todo =>
                          Window \subseteq migration.rows[u] \cup migration.buffer[u] \cup unmigrated[u]
                    /\ u \notin migration.todo => Window \ unmigrated[u] \subseteq migration.rows[u]
            BY <1>2, <3>1 DEF RowsInv, TransactionInv
        <3>3. ~guard[t]
            BY <1>1, <1>3, <3>2
        <3>4. ASSUME NEW u \in Table
              PROVE  /\ guard[u] => u \notin todo /\ table[u] = rows[u]
                     /\ u \in todo \/ done[u]
            BY <2>3, <2>4, <3>2, <3>3
        <3>5. ASSUME NEW u \in Table
              PROVE  /\ u \in todo => Window \subseteq table[u] \cup buffer[u]
                                                          \cup migration.stream \cup unmigrated[u]
                     /\ u \notin todo => Window \ unmigrated[u] \subseteq table[u]
            <4>1. CASE u = t
                BY <1>1, <2>3, <2>4, <3>2, <4>1
            <4>2. CASE u # t
                BY <2>3, <2>4, <3>2, <4>2
            <4> QED
                BY <4>1, <4>2
        <3> QED
            BY <2>5, <2>7, <3>2, <3>4, <3>5 DEF TransactionInv
    <2> QED
        BY <2>6, <2>8 DEF RowsInv
<1>5. CASE CommitOneAlone(t)
    <2>1. /\ guard' = [guard EXCEPT ![t] = TRUE]
          /\ unmigrated' = [unmigrated EXCEPT ![t] = ledgers \ rows[t]]
          /\ migration' = [migration EXCEPT !.todo = @ \ {t}]
          /\ UNCHANGED <<ledgers, rows, pc>>
          /\ ~migration.inTx
        BY <1>5 DEF CommitOneAlone
    <2>2. migration.failed
        BY <1>2, <2>1 DEF RowsInv, TransactionInv
    <2>3. migration' \in MigrationType /\ migration'.failed
        BY <1>2, <2>1, <2>2 DEF MigrationType
    <2>4. TypeInv'
        BY <2>1, <2>3 DEF RowsInv, TypeInv
    <2>5. GuardInv'
        <3>1. ASSUME NEW u \in Table, u # t
              PROVE  guard'[u] = guard[u] /\ unmigrated'[u] = unmigrated[u]
            BY <2>1, <3>1 DEF RowsInv, TypeInv
        <3>2. Window' = Window /\ rows' = rows /\ Window \subseteq ledgers
            BY <2>1 DEF Window, Latest
        <3>3. unmigrated'[t] = ledgers \ rows[t]
            BY <1>3, <2>1 DEF RowsInv, TypeInv
        <3> QED
            BY <3>1, <3>2, <3>3 DEF RowsInv, GuardInv
    <2>6. MigratedInv' /\ TransactionInv'
        BY <1>2, <2>1, <2>3 DEF MigratedInv, TransactionInv
    <2> QED
        BY <2>4, <2>5, <2>6 DEF RowsInv
<1>6. CASE RollBack(t)
    <2>1. /\ migration' = [migration EXCEPT !.todo = @ \ {t}, !.inTx = FALSE, !.failed = TRUE]
          /\ UNCHANGED <<disk, pc, backfill, unmigrated>>
        BY <1>6 DEF RollBack
    <2>2. migration' \in MigrationType /\ migration'.failed
        BY <1>2, <2>1 DEF MigrationType
    <2>3. TypeInv' /\ GuardInv' /\ MigratedInv'
        BY <2>1, <2>2 DEF RowsInv, TypeInv, GuardInv, MigratedInv, Window, Latest, disk
    <2>4. TransactionInv'
        BY <2>2 DEF TransactionInv
    <2> QED
        BY <2>3, <2>4 DEF RowsInv
<1> QED
    BY <1>1, <1>4, <1>5, <1>6

LEMMA RowsInvCommitAll ==
    ASSUME RowsInv, CommitAll
    PROVE  RowsInv'
<1>1. CASE Exit("fatal")
    BY <1>1, RowsInvExit
<1>2. CASE /\ ~migration.failed
           /\ rows' = migration.rows /\ guard' = migration.guard
           /\ migration' = NoMigration /\ pc' = "storage"
           /\ UNCHANGED <<ledgers, unmigrated>>
    <2>1. /\ migration.todo = {} /\ pc = "apply"
          /\ migration \in MigrationType
        BY DEF CommitAll, RowsInv, TypeInv
    <2>2. /\ \A t \in Table : migration.guard[t]
          /\ \A t \in Table : Window \ unmigrated[t] \subseteq migration.rows[t]
        BY <1>2, <2>1 DEF RowsInv, TransactionInv
    <2>3. TypeInv'
        BY <1>2, <2>1, NoMigrationType DEF RowsInv, TypeInv, MigrationType
    <2>4. GuardInv' /\ MigratedInv' /\ TransactionInv'
        BY <1>2, <2>2 DEF GuardInv, MigratedInv, TransactionInv, Window, Latest
    <2> QED
        BY <2>3, <2>4 DEF RowsInv
<1> QED
    BY <1>1, <1>2 DEF CommitAll, MayCommit

LEMMA RowsInvPrepare ==
    ASSUME RowsInv, PrepareBulkLoad
    PROVE  RowsInv'
<1>1. /\ pc = "storage" /\ pc' \in {"backfill", "finalize"}
      /\ UNCHANGED <<ledgers, guard, migration, unmigrated>>
      /\ \/ rows' = rows
         \/ ledgers = {} /\ rows' = [rows EXCEPT !["transactions"] = {}]
    BY DEF PrepareBulkLoad, IsFresh
<1>2. TypeInv'
    BY <1>1 DEF RowsInv, TypeInv
<1>3. GuardInv'
    BY <1>1 DEF RowsInv, GuardInv, Window, Latest
<1>4. MigratedInv' /\ TransactionInv'
    BY <1>1 DEF RowsInv, MigratedInv, TransactionInv
<1> QED
    BY <1>2, <1>3, <1>4 DEF RowsInv

\* A ledger of a backfill chunk, or the next one of live ingestion.
LEMMA RowsInvInsert ==
    ASSUME RowsInv, NEW l \in Ledger, InsertLedger(l), pc # "apply",
           ledgers # {} => l \in {Min(ledgers) - 1, Latest + 1}
    PROVE  RowsInv'
<1>1. ledgers # {} => l <= Latest + 1
    <2>1. SUFFICES ASSUME ledgers # {}, l = Min(ledgers) - 1 PROVE l <= Latest + 1
        <3>1. Latest \in Nat
            BY LatestInLedgers DEF RowsInv, TypeInv
        <3> QED
            BY <3>1
    <2>2. Latest \in Nat /\ Latest \in ledgers /\ ledgers \in SUBSET Ledger
        BY <2>1, LatestInLedgers DEF RowsInv, TypeInv
    <2>3. \E x \in ledgers : \A y \in ledgers : x =< y
        BY <2>1, <2>2, FiniteLedgers, SmallestExists
    <2>4. Min(ledgers) \in ledgers /\ Min(ledgers) =< Latest
        BY <2>2, <2>3 DEF Min
    <2>5. Min(ledgers) \in Int
        <3>1. \A x \in ledgers : x \in Int
            BY <2>2, StartupAssumption DEF Ledger, FirstLedger
        <3> QED
            BY <2>4, <3>1
    <2> QED
        BY <2>1, <2>2, <2>4, <2>5
<1>2. TypeInv' /\ GuardInv'
    BY <1>1, InsertKeepsGuardInv DEF RowsInv
<1>3. UNCHANGED <<pc, guard>>
    BY DEF InsertLedger
<1>4. MigratedInv' /\ TransactionInv'
    BY <1>3 DEF RowsInv, MigratedInv, TransactionInv
<1> QED
    BY <1>2, <1>4 DEF RowsInv

LEMMA RowsInvStep == RowsInv /\ [Next]_vars => RowsInv'
<1> SUFFICES ASSUME RowsInv, [Next]_vars PROVE RowsInv'
    OBVIOUS
<1> USE DEF MigratedInv
<1>0. migration \in MigrationType /\ MigratedInv
    BY DEF RowsInv, TypeInv
<1>1. CASE Start
    BY <1>0, <1>1, RowsInvKept DEF Start
<1>2. CASE BuildMigrations
    BY <1>2, RowsInvBuild
<1>3. CASE Apply
    BY <1>3, RowsInvApply
<1>4. CASE CommitOne
    BY <1>4, RowsInvCommitOne
<1>5. CASE CommitAll
    BY <1>5, RowsInvCommitAll
<1>6. CASE PrepareBulkLoad
    BY <1>6, RowsInvPrepare
<1>7. CASE BackfillLedger
    BY <1>7, RowsInvInsert DEF BackfillLedger
<1>8. CASE BackfillDone
    BY <1>0, <1>8, RowsInvKept DEF BackfillDone, disk
<1>9. CASE BuildIndex \/ ClearRecord
    <2>1. UNCHANGED <<ledgers, rows, guard, pc, migration, unmigrated>>
        BY <1>9 DEF BuildIndex, ClearRecord
    <2> QED
        BY <2>1 DEF RowsInv, TypeInv, GuardInv, TransactionInv, Window, Latest
<1>10. CASE FinalizeDone
    BY <1>0, <1>10, RowsInvKept DEF FinalizeDone, disk
<1>11. CASE Ingest
    BY <1>11, RowsInvInsert DEF Ingest
<1>12. CASE Crash
    BY <1>12, RowsInvExit DEF Crash
<1>13. CASE UNCHANGED vars
    BY <1>13 DEF vars, RowsInv, TypeInv, GuardInv, TransactionInv, Window, Latest
<1> QED
    BY <1>1, <1>2, <1>3, <1>4, <1>5, <1>6, <1>7, <1>8, <1>9, <1>10, <1>11, <1>12, <1>13
       DEF Next, StartStep

\* The data migrations (migration.go), the bulk load and the trimming of the
\* tables: for every retention window and every sequence of kills, failed
\* commits and restarts, a daemon that serves has the transactions and events of
\* every ledger of the window, but for the ledgers that had no rows in a table at
\* the moment its guard was stored alone.
THEOREM OnlyMigratedServes == Spec => []ServingIsMigrated
<1>1. RowsInv => ServingIsMigrated
    BY DEF RowsInv, MigratedInv, GuardInv, ServingIsMigrated, Window
<1> QED
    BY RowsInvInit, RowsInvStep, <1>1, PTL DEF Spec

\* One step: the rows of a migrated table that a step takes away belong to
\* ledgers that it takes away as well.
LEMMA RowsKeptStep ==
    ASSUME RowsInv, [Next]_vars, NEW t \in Table, guard[t]
    PROVE  rows[t] \cap ledgers' \subseteq rows'[t]
<1>1. CASE rows' = rows
    BY <1>1
<1>2. CASE CommitAll /\ rows' # rows
    <2>1. pc = "apply" /\ ~migration.failed /\ rows' = migration.rows
        BY <1>2 DEF CommitAll, MayCommit, Exit, disk
    <2>2. migration.rows[t] = rows[t]
        BY <2>1 DEF RowsInv, TransactionInv
    <2> QED
        BY <2>1, <2>2
<1>3. CASE PrepareBulkLoad
    BY <1>3 DEF PrepareBulkLoad, IsFresh, RowsInv, TypeInv
<1>4. CASE \E l \in Ledger : InsertLedger(l)
    BY <1>4 DEF InsertLedger
<1> QED
    BY <1>1, <1>2, <1>3, <1>4
       DEF Next, StartStep, Start, BuildMigrations, Apply, CommitOne, CommitOneInTx,
           CommitOneAlone, CommitOneRefused, CommitOneFails, RollBack, BackfillLedger,
           BackfillDone, BuildIndex, ClearRecord, FinalizeDone, Ingest, Crash, Exit, disk, vars

\* Migrations, PrepareBulkLoad's DROP and trimming: once the guard of a table is
\* stored, no step loses the rows of a ledger that stays in the database.
THEOREM MigratedRowsStay == Spec => RowsKept
<1>1. RowsInv /\ [Next]_vars
          => [\A t \in Table : guard[t] => rows[t] \cap ledgers' \subseteq rows'[t]]_vars
    BY RowsKeptStep
<1> QED
    BY RowsInvInit, RowsInvStep, <1>1, PTL DEF Spec, RowsKept

-----------------------------------------------------------------------------
(***************************************************************************)
(* The configuration.                                                      *)
(***************************************************************************)

\* The rows of the table: the name and the kind of each, and what else of a
\* row matters below.
LEMMA TableRows ==
    /\ DOMAIN options = 1..23 /\ Len(options) = 23
    /\ options[1].name = "config-path" /\ options[1].kind = "string"
    /\ options[1].sources = Named
    /\ options[2].name = "config-strict" /\ options[2].kind = "bool"
    /\ options[3].name = "endpoint" /\ options[3].kind = "string"
    /\ options[4].name = "stellar-core-url" /\ options[4].kind = "string"
    /\ options[5].name = "backfill" /\ options[5].kind = "bool"
    /\ options[6].name = "stellar-core-timeout" /\ options[6].kind = "duration"
    /\ options[7].name = "http-port" /\ options[7].kind = "uint16"
    /\ options[8].name = "http-query-port" /\ options[8].kind = "uint16"
    /\ options[9].name = "log-level" /\ options[9].kind = "level"
    /\ options[10].name = "captive-core-config-path" /\ options[10].kind = "string"
    /\ options[10].validate = "required" /\ options[10].sources = Everywhere
    /\ options[11].name = "captive-core-storage-path" /\ options[11].kind = "storage"
    /\ options[12].name = "history-archive-urls" /\ options[12].kind = "strings"
    /\ options[12].default = Blank /\ options[12].validate = "required"
    /\ options[12].sources = Everywhere
    /\ options[13].name = "network-passphrase" /\ options[13].kind = "string"
    /\ options[13].default = Blank /\ options[13].validate = "required"
    /\ options[14].name = "network" /\ options[14].kind = "network"
    /\ options[14].default = Blank
    /\ options[15].name = "history-retention-window" /\ options[15].kind = "uint32"
    /\ options[16].name = "fee-stats-retention-window" /\ options[16].kind = "uint32"
    /\ options[17].name = "max-limit" /\ options[17].kind = "uint32"
    /\ options[18].name = "default-limit" /\ options[18].kind = "uint32"
    /\ options[19].name = "preflight-enable-debug" /\ options[19].kind = "bool"
    /\ options[20].name = "queue-limit" /\ options[20].kind = "uint32"
    /\ options[21].name = "execution-duration" /\ options[21].kind = "duration"
    /\ options[22].name = "serve-ledgers-from-datastore" /\ options[22].kind = "bool"
    /\ options[23].name = "datastore_config" /\ options[23].kind = "table"
<1>. USE DEF options, ServerOptions, CoreOptions, LogOptions, CaptiveCoreOptions,
             NetworkOptions, StorageOptions, LimitOptions, PreflightOptions,
             QueueLimitOptions, DurationOptions, DatastoreOptions
<1>1. DOMAIN options = 1..23 /\ Len(options) = 23
  OBVIOUS
<1>2. /\ options[1].name = "config-path" /\ options[1].kind = "string"
      /\ options[1].sources = Named
  BY DEF Option, Number
<1>3. /\ options[2].name = "config-strict" /\ options[2].kind = "bool"
  BY DEF Option, Number
<1>4. /\ options[3].name = "endpoint" /\ options[3].kind = "string"
  BY DEF Option, Number
<1>5. /\ options[4].name = "stellar-core-url" /\ options[4].kind = "string"
  BY DEF Option, Number
<1>6. /\ options[5].name = "backfill" /\ options[5].kind = "bool"
  BY DEF Option, Number
<1>7. /\ options[6].name = "stellar-core-timeout" /\ options[6].kind = "duration"
  BY DEF Option, Number
<1>8. /\ options[7].name = "http-port" /\ options[7].kind = "uint16"
  BY DEF Option, Number
<1>9. /\ options[8].name = "http-query-port" /\ options[8].kind = "uint16"
  BY DEF Option, Number
<1>10. /\ options[9].name = "log-level" /\ options[9].kind = "level"
  BY DEF Option, Number
<1>11. /\ options[10].name = "captive-core-config-path" /\ options[10].kind = "string"
       /\ options[10].validate = "required" /\ options[10].sources = Everywhere
  BY DEF Option, Number
<1>12. /\ options[11].name = "captive-core-storage-path" /\ options[11].kind = "storage"
  BY DEF Option, Number
<1>13. /\ options[12].name = "history-archive-urls" /\ options[12].kind = "strings"
       /\ options[12].default = Blank /\ options[12].validate = "required"
       /\ options[12].sources = Everywhere
  BY DEF Option, Number
<1>14. /\ options[13].name = "network-passphrase" /\ options[13].kind = "string"
       /\ options[13].default = Blank /\ options[13].validate = "required"
  BY DEF Option, Number
<1>15. /\ options[14].name = "network" /\ options[14].kind = "network"
       /\ options[14].default = Blank
  BY DEF Option, Number
<1>16. /\ options[15].name = "history-retention-window" /\ options[15].kind = "uint32"
  BY DEF Option, Number
<1>17. /\ options[16].name = "fee-stats-retention-window" /\ options[16].kind = "uint32"
  BY DEF Option, Number
<1>18. /\ options[17].name = "max-limit" /\ options[17].kind = "uint32"
  BY DEF Option, Number
<1>19. /\ options[18].name = "default-limit" /\ options[18].kind = "uint32"
  BY DEF Option, Number
<1>20. /\ options[19].name = "preflight-enable-debug" /\ options[19].kind = "bool"
  BY DEF Option, Number
<1>21. /\ options[20].name = "queue-limit" /\ options[20].kind = "uint32"
  BY DEF Option, Number
<1>22. /\ options[21].name = "execution-duration" /\ options[21].kind = "duration"
  BY DEF Option, Number
<1>23. /\ options[22].name = "serve-ledgers-from-datastore" /\ options[22].kind = "bool"
  BY DEF Option, Number
<1>24. /\ options[23].name = "datastore_config" /\ options[23].kind = "table"
  BY DEF Option, Number
<1>. HIDE DEF options
<1>. QED
  BY <1>1, <1>2, <1>3, <1>4, <1>5, <1>6, <1>7, <1>8, <1>9, <1>10, <1>11, <1>12,
     <1>13, <1>14, <1>15, <1>16, <1>17, <1>18, <1>19, <1>20, <1>21, <1>22, <1>23, <1>24

\* The rows, one by one.
LEMMA RowCases ==
    \A i \in DOMAIN options :
        \/ i \in 1..6 /\ (i = 1 \/ i = 2 \/ i = 3 \/ i = 4 \/ i = 5 \/ i = 6)
        \/ i \in 7..12 /\ (i = 7 \/ i = 8 \/ i = 9 \/ i = 10 \/ i = 11 \/ i = 12)
        \/ i \in 13..18 /\ (i = 13 \/ i = 14 \/ i = 15 \/ i = 16 \/ i = 17 \/ i = 18)
        \/ i \in 19..23 /\ (i = 19 \/ i = 20 \/ i = 21 \/ i = 22 \/ i = 23)
<1>1. DOMAIN options = 1..23
  BY TableRows
<1>. QED
  BY <1>1

\* No two options have the same name.
LEMMA NamesDiffer ==
    \A i, j \in DOMAIN options : options[i].name = options[j].name => i = j
BY TableRows, RowCases

\* The network option is the only one of its kind.
LEMMA NetworkRow ==
    \A i \in DOMAIN options : options[i].kind = "network" <=> i = 14
BY TableRows, RowCases

\* The rows that the proofs speak of by number.
LEMMA NamedRows ==
    /\ DOMAIN options = 1..23 /\ Len(options) = 23
    /\ options[1].name = "config-path" /\ options[1].kind = "string"
    /\ options[10].name = "captive-core-config-path" /\ options[10].kind = "string"
    /\ options[12].name = "history-archive-urls" /\ options[12].kind = "strings"
    /\ options[13].name = "network-passphrase" /\ options[13].kind = "string"
    /\ options[14].name = "network" /\ options[14].kind = "network"
    /\ \A i \in DOMAIN options : options[i].name \in Names /\ options[i] \in OptionSet
<1>1. \A i \in DOMAIN options : options[i].name \in Names /\ options[i] \in OptionSet
  BY DEF Names, OptionSet
<1>. QED
  BY <1>1, TableRows

\* The names of the rows that other rows write.
LEMMA WrittenRows ==
    \A i \in DOMAIN options : options[i].name \in WrittenByNetwork <=> i \in {10, 12, 13}
BY TableRows, RowCases DEF WrittenByNetwork

-----------------------------------------------------------------------------
Phases == DOMAIN SourceOf \cup {"input", "defaults", "loaded", "ready", "refused"}

\* The types, as far as the loading of the options relies on them.
ConfigType ==
    /\ phase \in Phases
    /\ row \in 0..23
    /\ phase \in {"input", "defaults", "loaded"} => row = 0
    /\ cfg = [n \in Names |-> cfg[n]]
    /\ <<"file", "config-path">> \notin DOMAIN settings
    /\ phase = "input" => generated = <<>>

\* The setting of row i by a source; the network option ignores the empty text.
Sets(source, i) ==
    Given(source, options[i]) /\ (i = 14 => Text(source, options[i]) # Blank)
SetTo(source, i) == Value(options[i], Text(source, options[i]))
Over(source, i, below) == IF Sets(source, i) THEN SetTo(source, i) ELSE below

\* The value of row i after each pass.
AfterEnv(i) == Over("env", i, Defaults[options[i].name])
AfterFlags(i) == Over("flag", i, AfterEnv(i))
AfterFile(i) == Over("file", i, AfterFlags(i))
AfterEnvAgain(i) == Over("env", i, AfterFile(i))
AfterFlagsAgain(i) == Over("flag", i, AfterEnvAgain(i))

\* The value of row i before the pass, and now.
Before(i) ==
    CASE phase = "env" -> Defaults[options[i].name]
      [] phase = "flags" -> AfterEnv(i)
      [] phase = "file" -> AfterFlags(i)
      [] phase = "env_again" -> AfterFile(i)
      [] OTHER -> AfterEnvAgain(i)
Expected(i) == IF i <= row THEN Over(SourceOf[phase], i, Before(i)) ELSE Before(i)

\* The rows that no other row writes.
Plain(i) == options[i].name \in WrittenByNetwork => ~NetworkGiven

\* The invariant behind StrongestSourceWins.
PlainValues ==
    /\ phase \in DOMAIN SourceOf =>
          \A i \in DOMAIN options : Plain(i) => cfg[options[i].name] = Expected(i)
    /\ phase \in {"file", "env_again", "flags_again"} => AfterFlags(1) # Blank
    /\ phase = "loaded" =>
          \A i \in DOMAIN options :
              Plain(i) => cfg[options[i].name] =
                              IF FileUsed THEN AfterFlagsAgain(i) ELSE AfterFlags(i)

\* Archives and passphrase.
Checked == {12, 13}
Applied(source, i) ==
    \/ phase \in DOMAIN SourceOf /\ SourceOf[phase] = source /\ row >= i
    \/ source = "env" /\ phase \in {"flags", "file", "env_again", "flags_again", "loaded", "ready"}
    \/ source = "flag" /\ phase \in {"file", "env_again", "flags_again", "loaded", "ready"}
    \/ source = "file" /\ phase \in {"env_again", "flags_again"}
    \/ source = "file" /\ phase \in {"loaded", "ready"} /\ FileUsed

\* What one source alone gives stays once it is there.
GivenStays ==
    \A i \in Checked, source \in Everywhere :
        GivenOnce(options[i].name) /\ Given(source, options[i])
          /\ SetTo(source, i) # Zero(options[i]) /\ Applied(source, i)
        => cfg[options[i].name] = SetTo(source, i)

\* The network that counts has been checked.
Settled ==
    \/ phase = "file" /\ row >= 14 /\ Sets("file", 14)
    \/ phase = "env_again" /\ IF Sets("env", 14) THEN row >= 14 ELSE Sets("file", 14)
    \/ phase = "flags_again" /\ IF Sets("flag", 14) THEN row >= 14
                                ELSE Sets("env", 14) \/ Sets("file", 14)
    \/ phase \in {"loaded", "ready"} /\ FileUsed
          /\ (Sets("flag", 14) \/ Sets("env", 14) \/ Sets("file", 14))
CheckedAgrees ==
    Settled => \A i \in Checked :
        GivenOnce(options[i].name) =>
            cfg[options[i].name] \in {Zero(options[i]), OfNetwork(options[i].name, cfg["network"])}

\* The same of a start that has read no config file, yet or at all: the last to
\* check the network are the flags or, if these give none, the environment.
SettledEarly ==
    \/ phase = "env" /\ row >= 14 /\ Sets("env", 14)
    \/ phase = "flags" /\ IF Sets("flag", 14) THEN row >= 14 ELSE Sets("env", 14)
    \/ phase \in {"loaded", "ready"} /\ ~FileUsed /\ (Sets("flag", 14) \/ Sets("env", 14))
EarlyAgrees ==
    SettledEarly => \A i \in Checked :
        (Given("flag", options[i]) => Sets("flag", 14)) =>
            cfg[options[i].name] = OfNetwork(options[i].name, cfg["network"])

\* The form of the values.
Typed(o, v) ==
    /\ o.kind = "bool" => v \in BOOLEAN
    /\ o.kind = "uint16" => v \in 0..(Uint16 - 1)
    /\ o.kind = "strings" => v = <<>> \/ (v = <<v[1]>> /\ v[1] # Blank)
    /\ o.kind = "storage" => v # "."
TypedValues ==
    /\ \A i \in DOMAIN options : Typed(options[i], cfg[options[i].name])
    /\ \A i \in DOMAIN options, source \in Everywhere :
          options[i].kind = "uint16" /\ Given(source, options[i])
              => Text(source, options[i]) \in Int

\* The settings of a start with a generated file.
FromGenerated ==
    generated # <<>> =>
        /\ \A i \in DOMAIN options : Typed(options[i], generated[options[i].name])
        /\ \A i \in DOMAIN options :
              /\ Given("file", options[i]) <=> InFile(generated, options[i])
              /\ Given("file", options[i]) =>
                    Text("file", options[i]) = Written(generated, options[i])
              /\ ~Given("env", options[i])
              /\ Given("flag", options[i]) <=> i = 1
        /\ settings[<<"flag", "config-path">>] = "path"
CaptiveCoreStays ==
    generated # <<>> /\ Complete(generated) /\ Applied("file", 10)
        => cfg["captive-core-config-path"] = generated["captive-core-config-path"]

-----------------------------------------------------------------------------
\* The empty text is no network's name.
LEMMA BlankNoNetwork == Blank # "testnet" /\ Blank # "pubnet" /\ Blank # "path" /\ Blank # "cwd"
BY Zenon DEF Blank

\* The zero values of single rows.
LEMMA ZeroRows ==
    /\ Zero(options[12]) = <<>>
    /\ Zero(options[1]) = Blank /\ Zero(options[10]) = Blank
    /\ Zero(options[13]) = Blank /\ Zero(options[14]) = Blank
<1>1. Zero(options[12]) = <<>>
  BY NamedRows DEF Zero, IsNumber
<1>2. Zero(options[1]) = Blank /\ Zero(options[10]) = Blank
  BY NamedRows DEF Zero, IsNumber
<1>3. Zero(options[13]) = Blank /\ Zero(options[14]) = Blank
  BY NamedRows DEF Zero, IsNumber
<1>. QED
  BY <1>1, <1>2, <1>3

\* What the network option does to the configuration c when it succeeds.
NetworkSet(c, text, d) ==
    /\ d = [n \in Names |-> d[n]]
    /\ \A n \in Names \ (WrittenByNetwork \cup {"network"}) : d[n] = c[n]
    /\ text = Blank => d = c
    /\ text # Blank =>
          /\ text \in Networks /\ d["network"] = text
          /\ \A i \in Checked :
                /\ d[options[i].name] = OfNetwork(options[i].name, text)
                /\ c[options[i].name] # Zero(options[i]) => d[options[i].name] = c[options[i].name]
          /\ c["history-archive-urls"] # <<>> =>
                d["captive-core-config-path"] = c["captive-core-config-path"]

\* A network that is accepted replaces no archives and no passphrase.
LEMMA NetworkEffect ==
    ASSUME NEW c, c = [n \in Names |-> c[n]], NEW text, NEW temp \in BOOLEAN,
           SetNetwork(c, text, temp).ok
    PROVE  NetworkSet(c, text, SetNetwork(c, text, temp).cfg)
<1>. DEFINE r == setForNetwork(c, text, temp)
            d == SetNetwork(c, text, temp).cfg
<1>0. /\ "network" \in Names /\ "captive-core-config-path" \in Names
      /\ "history-archive-urls" \in Names /\ "network-passphrase" \in Names
  BY NamedRows
<1>1. CASE text = Blank
  BY <1>1 DEF SetNetwork, NetworkSet
<1>2. CASE text # Blank
  <2>1. text \in Networks /\ r.ok /\ d = [r EXCEPT !.cfg["network"] = text].cfg
    BY <1>2 DEF SetNetwork, Failed
  <2>. DEFINE there == /\ c["history-archive-urls"] = ArchiveURLs(text)
                       /\ c["network-passphrase"] = Passphrase(text)
  <2>2. CASE there
    <3>1. r = [ok |-> TRUE, cfg |-> c]
      BY <2>2 DEF setForNetwork
    <3>2. d = [c EXCEPT !["network"] = text]
      BY <2>1, <3>1
    <3>3. /\ d = [n \in Names |-> d[n]] /\ d["network"] = text
          /\ \A n \in Names : n # "network" => d[n] = c[n]
      <4>. HIDE DEF d
      <4>. QED
        BY <1>0, <3>2
    <3>. HIDE DEF d
    <3>4. \A n \in Names \ (WrittenByNetwork \cup {"network"}) : d[n] = c[n]
      BY <3>3
    <3>5. \A i \in Checked :
             /\ d[options[i].name] = OfNetwork(options[i].name, text)
             /\ d[options[i].name] = c[options[i].name]
      BY <2>2, <3>3, <1>0, NamedRows DEF Checked, OfNetwork
    <3>6. d["captive-core-config-path"] = c["captive-core-config-path"]
      BY <3>3, <1>0
    <3>. QED
      BY <1>2, <2>1, <3>3, <3>4, <3>5, <3>6 DEF NetworkSet, d
  <2>3. CASE ~there
    <3>1. /\ c["history-archive-urls"] = <<>> /\ c["network-passphrase"] = Blank
          /\ r.cfg = [c EXCEPT !["captive-core-config-path"] = TempConfig[text],
                               !["history-archive-urls"] = ArchiveURLs(text),
                               !["network-passphrase"] = Passphrase(text)]
      BY <2>1, <2>3 DEF setForNetwork, Failed
    <3>2. /\ r.cfg = [n \in Names |-> r.cfg[n]]
          /\ \A n \in Names \ WrittenByNetwork : r.cfg[n] = c[n]
          /\ r.cfg["history-archive-urls"] = ArchiveURLs(text)
          /\ r.cfg["network-passphrase"] = Passphrase(text)
      <4>. HIDE DEF r
      <4>. QED
        BY <1>0, <3>1 DEF WrittenByNetwork
    <3>3. d = [r.cfg EXCEPT !["network"] = text]
      <4>1. r = [ok |-> r.ok, cfg |-> r.cfg]
        BY <2>1, <2>3 DEF setForNetwork, Failed
      <4>. HIDE DEF r
      <4>. QED
        BY <2>1, <4>1
    <3>. HIDE DEF r, d
    <3>4. /\ d = [n \in Names |-> d[n]] /\ d["network"] = text
          /\ \A n \in Names : n # "network" => d[n] = r.cfg[n]
      BY <1>0, <3>2, <3>3
    <3>5. \A n \in Names \ (WrittenByNetwork \cup {"network"}) : d[n] = c[n]
      BY <3>4, <3>2
    <3>6. \A i \in Checked :
             /\ d[options[i].name] = OfNetwork(options[i].name, text)
             /\ c[options[i].name] = Zero(options[i])
      <4>1. /\ d["history-archive-urls"] = ArchiveURLs(text)
            /\ d["network-passphrase"] = Passphrase(text)
        BY <3>2, <3>4, <1>0
      <4>. QED
        BY <3>1, <4>1, NamedRows, ZeroRows DEF Checked, OfNetwork
    <3>. QED
      BY <1>2, <2>1, <3>1, <3>4, <3>5, <3>6 DEF NetworkSet, d
  <2>. QED
    BY <2>2, <2>3
<1>. QED
  BY <1>1, <1>2

\* What a turn of the loop does when it succeeds: row i is the next that the
\* source gives.
Loads(i) ==
    LET source == SourceOf[phase] IN
    /\ phase \in DOMAIN SourceOf /\ i \in DOMAIN options
    /\ Given(source, options[i])
    /\ row < i /\ row' = i
    /\ \A j \in DOMAIN options : row < j /\ j < i => ~Given(source, options[j])
    /\ settings' = settings /\ generated' = generated /\ phase' = phase
    /\ i # 14 => /\ Parses(options[i], Text(source, options[i]))
                 /\ cfg' = [cfg EXCEPT ![options[i].name] = SetTo(source, i)]
    /\ i = 14 => NetworkSet(cfg, Text(source, options[i]), cfg')

\* A turn of the loop in loadEnv, loadFlags or parseToml that is not refused.
LEMMA LoadEffect ==
    ASSUME ConfigType, LoadOption, ~Refuse
    PROVE  \E i \in DOMAIN options : Loads(i)
<1>. DEFINE source == SourceOf[phase]
<1>1. PICK i \in Ahead, temp \in BOOLEAN :
        /\ \A j \in Ahead : i <= j
        /\ setValue(cfg, options[i], Text(source, options[i]), temp).ok
        /\ cfg' = setValue(cfg, options[i], Text(source, options[i]), temp).cfg
        /\ row' = i /\ phase' = phase /\ Keep
  BY DEF LoadOption
<1>2. /\ i \in DOMAIN options /\ row < i /\ Given(source, options[i])
      /\ \A j \in DOMAIN options : row < j /\ j < i => ~Given(source, options[j])
  <2>1. Ahead = {j \in (row + 1)..23 : Given(source, options[j])} /\ row \in 0..23
    BY NamedRows DEF Ahead, ConfigType
  <2>2. i \in (row + 1)..23 /\ Given(source, options[i])
    BY <2>1
  <2>3. i \in DOMAIN options /\ row < i
    BY <2>1, <2>2, NamedRows
  <2>4. ASSUME NEW j \in DOMAIN options, row < j, j < i, Given(source, options[j])
        PROVE  FALSE
    <3>1. j \in (row + 1)..23 /\ ~(i <= j)
      BY <2>1, <2>2, <2>4, NamedRows
    <3>. QED
      BY <1>1, <2>1, <2>4, <3>1
  <2>. QED
    BY <2>2, <2>3, <2>4
<1>3. ASSUME i # 14
      PROVE  /\ Parses(options[i], Text(source, options[i]))
             /\ cfg' = [cfg EXCEPT ![options[i].name] = SetTo(source, i)]
  <2>1. options[i].kind # "network"
    BY <1>2, <1>3, NetworkRow
  <2>. QED
    BY <1>1, <2>1 DEF setValue, Set, Failed, SetTo
<1>4. ASSUME i = 14
      PROVE  NetworkSet(cfg, Text(source, options[i]), cfg')
  <2>1. options[i].kind = "network"
    BY <1>4, NamedRows
  <2>2. /\ SetNetwork(cfg, Text(source, options[i]), temp).ok
        /\ cfg' = SetNetwork(cfg, Text(source, options[i]), temp).cfg
    BY <1>1, <2>1 DEF setValue
  <2>. QED
    BY <2>2, NetworkEffect DEF ConfigType
<1>. QED
  BY <1>1, <1>2, <1>3, <1>4 DEF Loads, LoadOption, Keep

\* What the user adds to the settings: the text for row i from one of its sources.
Adds(i, source, text) ==
    /\ i \in DOMAIN options /\ source \in options[i].sources /\ text \in Texts[options[i].name]
    /\ DOMAIN settings' = DOMAIN settings \cup {<<source, options[i].name>>}
    /\ settings'[<<source, options[i].name>>] = text
    /\ \A k \in DOMAIN settings : k # <<source, options[i].name>> => settings'[k] = settings[k]

\* A setting that the user writes leaves the others alone.
LEMMA ProvideEffect ==
    ASSUME Provide
    PROVE  \E i \in DOMAIN options : \E source, text : Adds(i, source, text)
<1>1. PICK o \in OptionSet : \E source \in o.sources, text \in Texts[o.name] :
        settings' = [k \in DOMAIN settings \cup {<<source, o.name>>} |->
                        IF k = <<source, o.name>> THEN text ELSE settings[k]]
  BY DEF Provide
<1>2. PICK source \in o.sources, text \in Texts[o.name] :
        settings' = [k \in DOMAIN settings \cup {<<source, o.name>>} |->
                        IF k = <<source, o.name>> THEN text ELSE settings[k]]
  BY <1>1
<1>3. PICK i \in DOMAIN options : o = options[i]
  BY DEF OptionSet
<1>. DEFINE k == <<source, o.name>>
<1>4. settings' = [x \in DOMAIN settings \cup {k} |-> IF x = k THEN text ELSE settings[x]]
  BY <1>2
<1>. HIDE DEF k
<1>5. /\ DOMAIN settings' = DOMAIN settings \cup {k} /\ settings'[k] = text
      /\ \A x \in DOMAIN settings : x # k => settings'[x] = settings[x]
  BY <1>4
<1>6. Adds(i, source, text)
  BY <1>2, <1>3, <1>5 DEF k, Adds
<1>. QED
  BY <1>6

\* At the end of a pass nothing that the source gives is ahead.
LEMMA PassEffect ==
    ASSUME ConfigType, NEW from, PassEnds(from)
    PROVE  \A j \in DOMAIN options : Given(SourceOf[from], options[j]) => j <= row
<1>1. Ahead = {} /\ phase = from /\ row \in 0..23
  BY DEF PassEnds, ConfigType
<1>2. \A j \in DOMAIN options : j \in 1..23 /\ (j \in (row + 1)..23 \/ j <= row)
  BY <1>1, NamedRows
<1>. QED
  BY <1>1, <1>2, NamedRows DEF Ahead

\* The configuration file never names the configuration file.
LEMMA NoPathInFile ==
    ASSUME NEW i \in DOMAIN options, NEW source \in options[i].sources
    PROVE  <<source, options[i].name>> # <<"file", "config-path">>
<1>1. CASE i = 1
  BY <1>1, TableRows DEF Named
<1>2. CASE i # 1
  BY <1>2, NamesDiffer, NamedRows
<1>. QED
  BY <1>1, <1>2

\* What gen-config-file leaves for the next start.
Generates ==
    /\ phase = "loaded" /\ phase' = "defaults" /\ cfg' = ZeroConfig /\ row' = row
    /\ generated' = cfg
    /\ \A i \in DOMAIN options :
          /\ <<"file", options[i].name>> \in DOMAIN settings' <=> InFile(cfg, options[i])
          /\ InFile(cfg, options[i]) =>
                settings'[<<"file", options[i].name>>] = Written(cfg, options[i])
          /\ <<"env", options[i].name>> \notin DOMAIN settings'
          /\ <<"flag", options[i].name>> \in DOMAIN settings' <=> i = 1
    /\ settings'[<<"flag", "config-path">>] = "path"
    /\ <<"file", "config-path">> \notin DOMAIN settings'

\* MarshalTOML writes the options that are not zero, and nothing but the file is
\* given to the next start.
LEMMA GenerateEffect ==
    ASSUME GenConfigFile
    PROVE  Generates
<1>. DEFINE S == {o \in OptionSet : InFile(cfg, o)}
            K == {<<"flag", "config-path">>} \cup {<<"file", o.name>> : o \in S}
            W(k) == IF k[1] = "flag" THEN "path"
                    ELSE Written(cfg, CHOOSE o \in S : o.name = k[2])
<1>1. settings' = [k \in K |-> W(k)]
  BY DEF GenConfigFile
<1>2. DOMAIN settings' = K /\ \A k \in K : settings'[k] = W(k)
  <2>. HIDE DEF K, W
  <2>. QED
    BY <1>1
<1>3. \A o, p \in OptionSet : o.name = p.name => o = p
  BY NamesDiffer DEF OptionSet
<1>4. ASSUME NEW i \in DOMAIN options
      PROVE  /\ <<"file", options[i].name>> \in K <=> InFile(cfg, options[i])
             /\ InFile(cfg, options[i]) =>
                   W(<<"file", options[i].name>>) = Written(cfg, options[i])
             /\ <<"env", options[i].name>> \notin K
             /\ <<"flag", options[i].name>> \in K <=> i = 1
  <2>1. options[i] \in OptionSet
    BY NamedRows
  <2>2. <<"file", options[i].name>> \in K <=> InFile(cfg, options[i])
    BY <1>3, <2>1
  <2>3. ASSUME InFile(cfg, options[i])
        PROVE  W(<<"file", options[i].name>>) = Written(cfg, options[i])
    <3>1. options[i] \in S
      BY <2>1, <2>3
    <3>2. (CHOOSE o \in S : o.name = options[i].name) = options[i]
      BY <1>3, <3>1
    <3>. QED
      BY <3>2
  <2>4. <<"env", options[i].name>> \notin K
    OBVIOUS
  <2>5. <<"flag", options[i].name>> \in K <=> i = 1
    BY NamesDiffer, NamedRows
  <2>. QED
    BY <2>2, <2>3, <2>4, <2>5
<1>5. ~InFile(cfg, options[1])
  BY TableRows DEF InFile, Named
<1>6. W(<<"flag", "config-path">>) = "path" /\ <<"flag", "config-path">> \in K
  OBVIOUS
<1>. HIDE DEF K, W
<1>7. <<"file", "config-path">> \notin DOMAIN settings'
  <2>1. 1 \in DOMAIN options /\ options[1].name = "config-path"
    BY NamedRows
  <2>2. <<"file", options[1].name>> \in K <=> InFile(cfg, options[1])
    BY <2>1, <1>4
  <2>. QED
    BY <1>2, <1>5, <2>1, <2>2
<1>8. \A i \in DOMAIN options :
          /\ <<"file", options[i].name>> \in DOMAIN settings' <=> InFile(cfg, options[i])
          /\ InFile(cfg, options[i]) =>
                settings'[<<"file", options[i].name>>] = Written(cfg, options[i])
          /\ <<"env", options[i].name>> \notin DOMAIN settings'
          /\ <<"flag", options[i].name>> \in DOMAIN settings' <=> i = 1
  BY <1>2, <1>4
<1>. QED
  BY <1>2, <1>6, <1>7, <1>8 DEF Generates, GenConfigFile

\* Before anything is loaded.
LEMMA ConfigTypeInit == ConfigInit => ConfigType
BY DEF ConfigInit, ConfigType, ZeroConfig, Phases

\* Every step keeps the types.
LEMMA ConfigTypeStep == ConfigType /\ [ConfigNext]_configVars => ConfigType'
<1>. SUFFICES ASSUME ConfigType, [ConfigNext]_configVars
     PROVE  ConfigType'
  OBVIOUS
<1>. USE DEF Phases
<1>0. DOMAIN SourceOf = {"env", "flags", "file", "env_again", "flags_again"}
  BY DEF SourceOf
<1>1. CASE Provide
  <2>1. PICK i \in DOMAIN options : \E source, text : Adds(i, source, text)
    BY <1>1, ProvideEffect
  <2>2. PICK source, text : Adds(i, source, text)
    BY <2>1
  <2>3. <<"file", "config-path">> \notin DOMAIN settings'
    BY <2>2, NoPathInFile DEF Adds, ConfigType
  <2>. QED
    BY <1>1, <2>3 DEF Provide, ConfigType
<1>2. CASE ParseFlags
  BY <1>2 DEF ParseFlags, Refuse, Keep, ConfigType
<1>3. CASE LoadDefaults
  BY <1>3, <1>0 DEF LoadDefaults, Defaults, Keep, ConfigType
<1>4. CASE LoadOption /\ ~Refuse
  <2>1. PICK i \in DOMAIN options : Loads(i)
    BY <1>4, LoadEffect
  <2>2. cfg' = [n \in Names |-> cfg'[n]]
    BY <2>1, NamedRows DEF Loads, NetworkSet, ConfigType
  <2>3. row' \in 0..23 /\ phase' = phase /\ settings' = settings /\ generated' = generated
    BY <2>1, NamedRows DEF Loads
  <2>. QED
    BY <2>1, <2>2, <2>3, <1>0 DEF Loads, ConfigType
<1>5. CASE Refuse
  BY <1>5 DEF Refuse, Keep, ConfigType
<1>6. CASE EnvLoaded
  BY <1>6, <1>0 DEF EnvLoaded, NextPass, Keep, ConfigType
<1>7. CASE FlagsLoaded
  BY <1>7, <1>0 DEF FlagsLoaded, NextPass, Keep, ConfigType
<1>8. CASE ConfigPathLoaded
  BY <1>5, <1>8, <1>0 DEF ConfigPathLoaded, NextPass, Keep, ConfigType
<1>9. CASE EnvLoadedAgain
  BY <1>9, <1>0 DEF EnvLoadedAgain, NextPass, Keep, ConfigType
<1>10. CASE FlagsLoadedAgain
  BY <1>10, <1>0 DEF FlagsLoadedAgain, NextPass, Keep, ConfigType
<1>11. CASE Validate
  BY <1>5, <1>11, <1>0 DEF Validate, Keep, ConfigType
<1>12. CASE GenConfigFile
  BY <1>12, <1>0, GenerateEffect DEF Generates, ZeroConfig, ConfigType
<1>13. CASE UNCHANGED configVars
  BY <1>13 DEF configVars, ConfigType
<1>. QED
  BY <1>1, <1>2, <1>3, <1>4, <1>5, <1>6, <1>7, <1>8, <1>9, <1>10, <1>11, <1>12, <1>13
     DEF ConfigNext, ConfigFileUnreadable, Ended

-----------------------------------------------------------------------------
\* The values that the passes give depend on the settings only.
LEMMA SameSettings ==
    ASSUME settings' = settings
    PROVE  \A i : /\ AfterEnv(i)' = AfterEnv(i) /\ AfterFlags(i)' = AfterFlags(i)
                  /\ AfterFile(i)' = AfterFile(i) /\ AfterEnvAgain(i)' = AfterEnvAgain(i)
                  /\ AfterFlagsAgain(i)' = AfterFlagsAgain(i) /\ Plain(i)' = Plain(i)
<1>1. \A s, i, b : Over(s, i, b)' = Over(s, i, b)
  BY DEF Over, Sets, SetTo, Given, Text
<1>. QED
  BY <1>1 DEF AfterEnv, AfterFlags, AfterFile, AfterEnvAgain, AfterFlagsAgain, Plain,
              NetworkGiven, Over, Sets, SetTo, Given, Text

\* After the last row of a pass.
LEMMA PassValue ==
    ASSUME ConfigType, NEW from \in DOMAIN SourceOf, PassEnds(from), NEW i \in DOMAIN options
    PROVE  Expected(i) = Over(SourceOf[from], i, Before(i))
<1>1. CASE i <= row
  BY <1>1 DEF Expected, PassEnds
<1>2. CASE ~(i <= row)
  <2>1. ~Sets(SourceOf[from], i)
    BY <1>2, PassEffect DEF Sets
  <2>. QED
    BY <1>2, <2>1 DEF Expected, Over
<1>. QED
  BY <1>1, <1>2

\* The config file that was read is still named when the last pass ends.
LEMMA FileStaysNamed ==
    ASSUME ConfigType, PlainValues, PassEnds("flags_again")
    PROVE  FileUsed
<1>1. 1 \in DOMAIN options /\ Plain(1) /\ options[1].name = "config-path"
  BY NamedRows, WrittenRows DEF Plain
<1>2. phase = "flags_again" /\ "flags_again" \in DOMAIN SourceOf
  BY DEF PassEnds, SourceOf
<1>3. cfg["config-path"] = Over("flag", 1, Before(1))
  BY <1>1, <1>2, PassValue DEF PlainValues, SourceOf
<1>4. ~Sets("file", 1)
  BY <1>1 DEF ConfigType, Sets, Given
<1>5. Over("flag", 1, Before(1)) = AfterFlags(1)
  BY <1>2, <1>4 DEF Before, AfterEnvAgain, AfterFile, AfterFlags, AfterEnv, Over
<1>. QED
  BY <1>2, <1>3, <1>5 DEF PlainValues, FileUsed

\* Every turn of a loop, and every change from one pass to the next, keeps what
\* the sources so far give for an option that no other option writes.
LEMMA PlainValuesStep ==
    ConfigType /\ PlainValues /\ [ConfigNext]_configVars => PlainValues'
<1>. SUFFICES ASSUME ConfigType, PlainValues, [ConfigNext]_configVars
     PROVE  PlainValues'
  OBVIOUS
<1>0. DOMAIN SourceOf = {"env", "flags", "file", "env_again", "flags_again"}
  BY DEF SourceOf
<1>1. CASE phase' \in {"input", "defaults", "ready", "refused"}
  BY <1>0, <1>1 DEF PlainValues
<1>2. CASE LoadDefaults
  <2>1. phase' = "env" /\ row' = 0 /\ cfg' = Defaults
    BY <1>2 DEF LoadDefaults, ConfigType
  <2>2. \A i \in DOMAIN options : Expected(i)' = Defaults[options[i].name]
    <3>1. \A i \in DOMAIN options : ~(i <= 0)
      BY NamedRows
    <3>. QED
      BY <2>1, <3>1 DEF Expected, Before
  <2>. QED
    BY <2>1, <2>2, <1>0 DEF PlainValues
<1>3. CASE LoadOption /\ ~Refuse
  <2>1. PICK i \in DOMAIN options : Loads(i)
    BY <1>3, LoadEffect
  <2>. DEFINE source == SourceOf[phase]
  <2>2. /\ phase \in DOMAIN SourceOf /\ phase' = phase /\ settings' = settings
        /\ row' = i /\ row < i /\ i \in 1..23 /\ row \in 0..23 /\ Given(source, options[i])
    BY <2>1, NamedRows DEF Loads, ConfigType
  <2>3. ASSUME NEW j \in DOMAIN options, Plain(j)'
        PROVE  cfg'[options[j].name] = Expected(j)'
    <3>1. Plain(j) /\ cfg[options[j].name] = Expected(j)
      BY <2>2, <2>3, SameSettings DEF PlainValues
    <3>2. Before(j)' = Before(j)
      BY <2>2, SameSettings DEF Before
    <3>. DEFINE over == Over(source, j, Before(j))
    <3>3. Expected(j)' = IF j <= i THEN over ELSE Before(j)
      BY <2>2, <3>2 DEF Expected, Over, Sets, SetTo, Given, Text
    <3>4. Expected(j) = IF j <= row THEN over ELSE Before(j)
      BY DEF Expected
    <3>5. CASE j = i /\ i # 14
      <4>1. cfg'[options[j].name] = SetTo(source, j)
        BY <2>1, <3>5, NamedRows DEF Loads, ConfigType
      <4>2. over = SetTo(source, j)
        BY <2>2, <3>5 DEF Over, Sets
      <4>. QED
        BY <2>2, <3>3, <3>5, <4>1, <4>2
    <3>6. CASE j = i /\ i = 14
      <4>1. NetworkSet(cfg, Text(source, options[i]), cfg') /\ options[j].name = "network"
        BY <2>1, <3>6, NamedRows DEF Loads
      <4>2. SetTo(source, j) = Text(source, options[j])
        BY <3>6, NamedRows DEF SetTo, Value
      <4>3. CASE Text(source, options[i]) = Blank
        <5>1. cfg' = cfg /\ over = Before(j)
          BY <3>6, <4>1, <4>3 DEF NetworkSet, Over, Sets
        <5>. QED
          BY <2>2, <3>1, <3>3, <3>4, <3>6, <5>1
      <4>4. CASE Text(source, options[i]) # Blank
        <5>1. cfg'["network"] = Text(source, options[j]) /\ over = SetTo(source, j)
          BY <2>2, <3>6, <4>1, <4>4 DEF NetworkSet, Over, Sets
        <5>. QED
          BY <2>2, <3>3, <3>6, <4>1, <4>2, <5>1
      <4>. QED
        BY <4>3, <4>4
    <3>7. CASE j # i
      <4>1. options[j].name # options[i].name /\ options[j].name \in Names
        BY <3>7, NamesDiffer, NamedRows
      <4>2. cfg'[options[j].name] = cfg[options[j].name]
        <5>1. CASE i # 14
          BY <2>1, <4>1, <5>1, NamedRows DEF Loads, ConfigType
        <5>2. CASE i = 14
          <6>1. NetworkGiven
            BY <2>2, <5>2, NamedRows DEF NetworkGiven, Given, SourceOf, Everywhere, Named
          <6>2. options[j].name \notin WrittenByNetwork \cup {"network"}
            BY <3>1, <4>1, <5>2, <6>1, NamedRows DEF Plain
          <6>. QED
            BY <2>1, <4>1, <5>2, <6>2 DEF Loads, NetworkSet
        <5>. QED
          BY <5>1, <5>2
      <4>3. Expected(j)' = Expected(j)
        <5>1. CASE j <= row
          BY <2>2, <3>3, <3>4, <5>1, NamedRows
        <5>2. CASE row < j /\ j < i
          <6>1. over = Before(j)
            BY <2>1, <5>2 DEF Loads, Over, Sets
          <6>. QED
            BY <2>2, <3>3, <3>4, <6>1
        <5>3. CASE i < j
          BY <2>2, <3>3, <3>4, <5>3, NamedRows
        <5>. QED
          BY <2>2, <3>7, <5>1, <5>2, <5>3, NamedRows
      <4>. QED
        BY <3>1, <4>2, <4>3
    <3>. QED
      BY <3>5, <3>6, <3>7
  <2>4. AfterFlags(1)' = AfterFlags(1)
    BY <2>2, SameSettings
  <2>. QED
    BY <1>0, <2>2, <2>3, <2>4 DEF PlainValues
<1>4. ASSUME NEW from \in DOMAIN SourceOf, PassEnds(from)
      PROVE  \A i \in DOMAIN options :
                Plain(i) => cfg[options[i].name] = Over(SourceOf[from], i, Before(i))
  BY <1>4, PassValue DEF PlainValues, PassEnds
<1>5. ASSUME settings' = settings, row' = 0, cfg' = cfg, phase' \in DOMAIN SourceOf
      PROVE  \A i \in DOMAIN options : Expected(i)' = Before(i)' /\ (Plain(i)' <=> Plain(i))
  <2>1. \A i \in DOMAIN options : ~(i <= 0)
    BY NamedRows
  <2>. QED
    BY <1>5, <2>1, SameSettings DEF Expected
<1>6. 1 \in DOMAIN options /\ Plain(1) /\ options[1].name = "config-path"
  BY NamedRows, WrittenRows DEF Plain
<1>7. CASE EnvLoaded
  <2>1. /\ settings' = settings /\ row' = 0 /\ cfg' = cfg /\ phase' = "flags" /\ phase = "env"
        /\ PassEnds("env")
    BY <1>7 DEF EnvLoaded, NextPass, PassEnds, Keep
  <2>2. \A i \in DOMAIN options : Plain(i) => cfg[options[i].name] = AfterEnv(i)
    BY <1>0, <1>4, <2>1 DEF Before, AfterEnv, SourceOf
  <2>3. \A i \in DOMAIN options : Before(i)' = AfterEnv(i)
    BY <2>1, SameSettings DEF Before
  <2>. QED
    BY <1>0, <1>5, <2>1, <2>2, <2>3 DEF PlainValues
<1>8. CASE FlagsLoaded
  <2>1. /\ settings' = settings /\ row' = 0 /\ cfg' = cfg /\ phase = "flags"
        /\ phase' = (IF cfg["config-path"] = Blank THEN "loaded" ELSE "file")
        /\ PassEnds("flags")
    BY <1>8 DEF FlagsLoaded, NextPass, PassEnds, Keep
  <2>2. \A i \in DOMAIN options : Plain(i) => cfg[options[i].name] = AfterFlags(i)
    BY <1>0, <1>4, <2>1 DEF Before, AfterFlags, SourceOf
  <2>3. CASE cfg["config-path"] = Blank
    <3>1. ~FileUsed' /\ phase' = "loaded"
      BY <2>1, <2>3 DEF FileUsed
    <3>2. \A i \in DOMAIN options : AfterFlags(i)' = AfterFlags(i) /\ (Plain(i)' <=> Plain(i))
      BY <2>1, SameSettings
    <3>. QED
      BY <1>0, <2>1, <2>2, <3>1, <3>2 DEF PlainValues
  <2>4. CASE cfg["config-path"] # Blank
    <3>1. phase' = "file"
      BY <2>1, <2>4
    <3>2. AfterFlags(1)' # Blank
      BY <1>6, <2>1, <2>2, <2>4, SameSettings
    <3>3. \A i \in DOMAIN options : Before(i)' = AfterFlags(i)
      BY <2>1, <3>1, SameSettings DEF Before
    <3>. QED
      BY <1>0, <1>5, <2>1, <2>2, <3>1, <3>2, <3>3 DEF PlainValues
  <2>. QED
    BY <2>3, <2>4
<1>9. CASE ConfigPathLoaded /\ ~Refuse
  <2>1. /\ settings' = settings /\ row' = 0 /\ cfg' = cfg /\ phase' = "env_again" /\ phase = "file"
        /\ PassEnds("file")
    BY <1>9 DEF ConfigPathLoaded, NextPass, PassEnds, Keep
  <2>2. \A i \in DOMAIN options : Plain(i) => cfg[options[i].name] = AfterFile(i)
    BY <1>0, <1>4, <2>1 DEF Before, AfterFile, SourceOf
  <2>3. \A i \in DOMAIN options : Before(i)' = AfterFile(i)
    BY <2>1, SameSettings DEF Before
  <2>4. AfterFlags(1)' # Blank
    BY <2>1, SameSettings DEF PlainValues
  <2>. QED
    BY <1>0, <1>5, <2>1, <2>2, <2>3, <2>4 DEF PlainValues
<1>10. CASE EnvLoadedAgain
  <2>1. /\ settings' = settings /\ row' = 0 /\ cfg' = cfg /\ phase = "env_again"
        /\ phase' = "flags_again" /\ PassEnds("env_again")
    BY <1>10 DEF EnvLoadedAgain, NextPass, PassEnds, Keep
  <2>2. \A i \in DOMAIN options : Plain(i) => cfg[options[i].name] = AfterEnvAgain(i)
    BY <1>0, <1>4, <2>1 DEF Before, AfterEnvAgain, SourceOf
  <2>3. \A i \in DOMAIN options : Before(i)' = AfterEnvAgain(i)
    BY <2>1, SameSettings DEF Before
  <2>4. AfterFlags(1)' # Blank
    BY <2>1, SameSettings DEF PlainValues
  <2>. QED
    BY <1>0, <1>5, <2>1, <2>2, <2>3, <2>4 DEF PlainValues
<1>11. CASE FlagsLoadedAgain
  <2>1. /\ settings' = settings /\ row' = 0 /\ cfg' = cfg /\ phase = "flags_again"
        /\ phase' = "loaded" /\ PassEnds("flags_again")
    BY <1>11 DEF FlagsLoadedAgain, NextPass, PassEnds, Keep
  <2>2. \A i \in DOMAIN options : Plain(i) => cfg[options[i].name] = AfterFlagsAgain(i)
    BY <1>0, <1>4, <2>1 DEF Before, AfterFlagsAgain, SourceOf
  <2>3. FileUsed'
    BY <2>1, FileStaysNamed DEF FileUsed
  <2>4. \A i \in DOMAIN options : AfterFlagsAgain(i)' = AfterFlagsAgain(i) /\ (Plain(i)' <=> Plain(i))
    BY <2>1, SameSettings
  <2>. QED
    BY <1>0, <2>1, <2>2, <2>3, <2>4 DEF PlainValues
<1>12. CASE UNCHANGED configVars
  <2>1. /\ settings' = settings /\ row' = row /\ cfg' = cfg /\ phase' = phase
    BY <1>12 DEF configVars
  <2>2. \A i : Expected(i)' = Expected(i)
    BY <2>1, SameSettings DEF Expected, Before, Over, Sets, SetTo, Given, Text
  <2>. QED
    BY <2>1, <2>2, SameSettings DEF PlainValues, FileUsed
<1>. QED
  BY <1>1, <1>2, <1>3, <1>7, <1>8, <1>9, <1>10, <1>11, <1>12
     DEF ConfigNext, Provide, ParseFlags, Refuse, ConfigFileUnreadable, Validate,
         GenConfigFile, Ended

\* StrongestSourceWins says what PlainValues says of the end of SetValues.
LEMMA PlainValuesImply == ConfigType /\ PlainValues => StrongestSourceWins
<1>. SUFFICES ASSUME ConfigType, PlainValues, phase = "loaded", NEW o \in OptionSet,
                     o.kind # "network", o.name \in WrittenByNetwork => ~NetworkGiven
     PROVE  cfg[o.name] =
               IF Given("flag", o) THEN Value(o, Text("flag", o))
               ELSE IF Given("env", o) THEN Value(o, Text("env", o))
               ELSE IF FileUsed /\ Given("file", o) THEN Value(o, Text("file", o))
               ELSE Defaults[o.name]
  BY DEF StrongestSourceWins
<1>1. PICK i \in DOMAIN options : o = options[i]
  BY DEF OptionSet
<1>2. i # 14
  BY <1>1, NamedRows
<1>3. cfg[o.name] = IF FileUsed THEN AfterFlagsAgain(i) ELSE AfterFlags(i)
  BY <1>1 DEF PlainValues, Plain
<1>4. \A s, b : Over(s, i, b) = IF Given(s, o) THEN Value(o, Text(s, o)) ELSE b
  BY <1>1, <1>2 DEF Over, Sets, SetTo
<1>5. AfterFlags(i) = IF Given("flag", o) THEN Value(o, Text("flag", o))
                      ELSE IF Given("env", o) THEN Value(o, Text("env", o))
                      ELSE Defaults[o.name]
  BY <1>1, <1>4 DEF AfterFlags, AfterEnv
<1>6. AfterFlagsAgain(i) = IF Given("flag", o) THEN Value(o, Text("flag", o))
                           ELSE IF Given("env", o) THEN Value(o, Text("env", o))
                           ELSE IF Given("file", o) THEN Value(o, Text("file", o))
                           ELSE Defaults[o.name]
  BY <1>1, <1>4, <1>5 DEF AfterFlagsAgain, AfterEnvAgain, AfterFile
<1>. QED
  BY <1>3, <1>5, <1>6

\* SetValues: flags before environment before config file before defaults, for
\* every option that no other option writes, though the sources are applied in
\* another order and two of them twice.
THEOREM SourcesHavePrecedence == ConfigSpec => []StrongestSourceWins
<1>1. ConfigInit => ConfigType /\ PlainValues
  BY ConfigTypeInit DEF ConfigInit, PlainValues, SourceOf
<1>. QED
  BY <1>1, ConfigTypeStep, PlainValuesStep, PlainValuesImply, PTL DEF ConfigSpec

-----------------------------------------------------------------------------
\* A daemon that runs has archives and passphrase, and its network was given.
ReadyNetwork ==
    phase = "ready" =>
        /\ \A i \in Checked : cfg[options[i].name] # Zero(options[i])
        /\ cfg["network"] # Blank =>
              Sets("flag", 14) \/ Sets("env", 14) \/ (FileUsed /\ Sets("file", 14))

\* The invariant behind NetworkCoherent.
NetworkInv == GivenStays /\ CheckedAgrees /\ EarlyAgrees /\ ReadyNetwork

\* Facts that depend on the settings only.
LEMMA SameGiven ==
    ASSUME settings' = settings
    PROVE  /\ \A name : GivenOnce(name)' <=> GivenOnce(name)
           /\ \A source, i : /\ Sets(source, i)' <=> Sets(source, i)
                             /\ SetTo(source, i)' = SetTo(source, i)
           /\ \A source, o : Given(source, o)' <=> Given(source, o)
BY DEF GivenOnce, Sets, SetTo, Given, Text

\* The rows of archives and passphrase.
LEMMA CheckedRows ==
    ASSUME NEW i \in Checked
    PROVE  /\ i \in DOMAIN options /\ i \in 12..13 /\ options[i].name \in Names
           /\ options[i].name \notin {"config-path", "network", "stellar-core-url"}
           /\ options[i].validate = "required"
<1>1. i = 12 \/ i = 13
  BY DEF Checked
<1>2. i \in DOMAIN options /\ i \in 12..13
  BY <1>1, NamedRows
<1>. QED
  BY <1>1, <1>2, TableRows, NamedRows

\* A row that is not the network's changes nothing else.
LEMMA OneRow ==
    ASSUME ConfigType, NEW j \in DOMAIN options, Loads(j), j # 14
    PROVE  /\ cfg'[options[j].name] = SetTo(SourceOf[phase], j)
           /\ \A i \in DOMAIN options : i # j => cfg'[options[i].name] = cfg[options[i].name]
<1>1. /\ cfg' = [cfg EXCEPT ![options[j].name] = SetTo(SourceOf[phase], j)]
      /\ cfg = [n \in Names |-> cfg[n]]
  BY DEF Loads, ConfigType
<1>2. \A i \in DOMAIN options :
         options[i].name \in Names /\ (i # j => options[i].name # options[j].name)
  BY NamesDiffer, NamedRows
<1>. QED
  BY <1>1, <1>2

\* A turn of the loop passes no row that the source gives.
LEMMA NoRowPassed ==
    ASSUME ConfigType, NEW j \in DOMAIN options, Loads(j), NEW i \in DOMAIN options,
           i # j, i <= j, Given(SourceOf[phase], options[i])
    PROVE  i <= row
<1>1. row \in 0..23 /\ i \in 1..23 /\ j \in 1..23
  BY NamedRows DEF ConfigType
<1>. QED
  BY <1>1 DEF Loads

\* A turn of the loop keeps archives and a passphrase that one source gives: no
\* other source sets them, and a network that would replace them is a conflict.
LEMMA GivenStaysLoad ==
    ASSUME ConfigType, GivenStays, NEW j \in DOMAIN options, Loads(j)
    PROVE  GivenStays'
<1>. SUFFICES ASSUME NEW i \in Checked, NEW source \in Everywhere,
                     GivenOnce(options[i].name)', Given(source, options[i])',
                     SetTo(source, i)' # Zero(options[i]), Applied(source, i)'
     PROVE  cfg'[options[i].name] = SetTo(source, i)'
  BY DEF GivenStays
<1>1. /\ settings' = settings /\ phase' = phase /\ phase \in DOMAIN SourceOf
      /\ row' = j /\ row < j /\ Given(SourceOf[phase], options[j])
      /\ row \in 0..23 /\ j \in 1..23
  BY NamedRows DEF Loads, ConfigType
<1>2. /\ GivenOnce(options[i].name) /\ Given(source, options[i])
      /\ SetTo(source, i)' = SetTo(source, i) /\ SetTo(source, i) # Zero(options[i])
  BY <1>1, SameGiven
<1>3. i \in DOMAIN options /\ i \in 12..13
  BY CheckedRows
<1>4. SourceOf[phase] \in Everywhere
  BY <1>1 DEF SourceOf, Everywhere, Named
<1>5. CASE j = i
  <2>1. SourceOf[phase] = source
    BY <1>1, <1>2, <1>4, <1>5 DEF GivenOnce, Given
  <2>. QED
    BY <1>2, <1>3, <1>5, <2>1, OneRow
<1>6. CASE j # i
  <2>1. Applied(source, i)
    <3>1. CASE SourceOf[phase] = source /\ j >= i
      <4>1. i <= row
        BY <1>2, <1>3, <1>6, <3>1, NoRowPassed
      <4>. QED
        BY <1>1, <1>3, <3>1, <4>1 DEF Applied
    <3>2. CASE ~(SourceOf[phase] = source /\ j >= i)
      <4>1. phase \notin {"loaded", "ready"}
        BY <1>1 DEF SourceOf
      <4>. QED
        BY <1>1, <3>2, <4>1 DEF Applied
    <3>. QED
      BY <3>1, <3>2
  <2>2. cfg[options[i].name] = SetTo(source, i)
    BY <1>2, <2>1 DEF GivenStays
  <2>3. CASE j # 14
    BY <1>2, <1>3, <1>6, <2>2, <2>3, OneRow
  <2>4. CASE j = 14
    BY <1>2, <2>2, <2>4 DEF Loads, NetworkSet
  <2>. QED
    BY <2>3, <2>4
<1>. QED
  BY <1>5, <1>6

\* A turn of the loop keeps archives and passphrase those of the checked network.
LEMMA CheckedAgreesLoad ==
    ASSUME ConfigType, GivenStays, CheckedAgrees, NEW j \in DOMAIN options, Loads(j)
    PROVE  CheckedAgrees'
<1>. SUFFICES ASSUME Settled', NEW i \in Checked, GivenOnce(options[i].name)'
     PROVE  cfg'[options[i].name] \in
               {Zero(options[i]), OfNetwork(options[i].name, cfg'["network"])}
  BY DEF CheckedAgrees
<1>1. /\ settings' = settings /\ phase' = phase /\ phase \in DOMAIN SourceOf
      /\ row' = j /\ row < j /\ Given(SourceOf[phase], options[j])
      /\ row \in 0..23 /\ j \in 1..23
  BY NamedRows DEF Loads, ConfigType
<1>2. GivenOnce(options[i].name) /\ \A source : Sets(source, 14)' <=> Sets(source, 14)
  BY <1>1, SameGiven
<1>3. i \in DOMAIN options /\ i \in 12..13 /\ 14 \in DOMAIN options /\ options[14].name = "network"
  BY CheckedRows, NamedRows
<1>4. CASE j = 14 /\ Text(SourceOf[phase], options[j]) # Blank
  BY <1>4 DEF Loads, NetworkSet
<1>5. phase \in {"file", "env_again", "flags_again"}
  BY <1>1 DEF Settled, SourceOf
<1>6. ASSUME j # 14 \/ Text(SourceOf[phase], options[j]) = Blank
      PROVE  Settled
  <2>1. CASE j = 14
    <3>1. ~Sets(SourceOf[phase], 14)
      BY <1>6, <2>1 DEF Sets
    <3>. QED
      BY <1>1, <1>2, <1>5, <3>1 DEF Settled, SourceOf
  <2>2. CASE j # 14
    <3>1. Sets(SourceOf[phase], 14) /\ j >= 14 => row >= 14
      BY <1>1, <1>3, <2>2, NoRowPassed DEF Sets
    <3>. QED
      BY <1>1, <1>2, <1>5, <3>1 DEF Settled, SourceOf
  <2>. QED
    BY <2>1, <2>2
<1>7. CASE j = 14 /\ Text(SourceOf[phase], options[j]) = Blank
  <2>1. cfg' = cfg
    BY <1>7 DEF Loads, NetworkSet
  <2>. QED
    BY <1>2, <1>6, <1>7, <2>1 DEF CheckedAgrees
<1>8. CASE j # 14
  <2>1. /\ cfg[options[i].name] \in {Zero(options[i]), OfNetwork(options[i].name, cfg["network"])}
        /\ cfg'["network"] = cfg["network"]
    BY <1>2, <1>3, <1>6, <1>8, OneRow DEF CheckedAgrees
  <2>2. CASE i # j
    BY <1>3, <1>8, <2>1, <2>2, OneRow
  <2>3. CASE i = j
    <3>1. cfg'[options[i].name] = SetTo(SourceOf[phase], i)
      BY <1>3, <1>8, <2>3, OneRow
    <3>2. CASE SetTo(SourceOf[phase], i) = Zero(options[i])
      BY <3>1, <3>2
    <3>3. CASE SetTo(SourceOf[phase], i) # Zero(options[i])
      <4>1. Applied(SourceOf[phase], i) /\ SourceOf[phase] \in Everywhere
        BY <1>1, <1>2, <1>3, <1>5, <1>6, <1>8, <2>3
           DEF Applied, Settled, SourceOf, Everywhere, Named
      <4>2. cfg[options[i].name] = SetTo(SourceOf[phase], i)
        BY <1>1, <1>2, <2>3, <3>3, <4>1 DEF GivenStays
      <4>. QED
        BY <2>1, <3>1, <4>2
    <3>. QED
      BY <3>2, <3>3
  <2>. QED
    BY <2>2, <2>3
<1>. QED
  BY <1>4, <1>7, <1>8

\* So it does before a config file is read: archives and passphrase come before
\* the network in each pass, and later flags do not give them.
LEMMA EarlyAgreesLoad ==
    ASSUME ConfigType, EarlyAgrees, NEW j \in DOMAIN options, Loads(j)
    PROVE  EarlyAgrees'
<1>. SUFFICES ASSUME SettledEarly', NEW i \in Checked,
                     (Given("flag", options[i]) => Sets("flag", 14))'
     PROVE  cfg'[options[i].name] = OfNetwork(options[i].name, cfg'["network"])
  BY DEF EarlyAgrees
<1>1. /\ settings' = settings /\ phase' = phase /\ phase \in DOMAIN SourceOf
      /\ row' = j /\ row < j /\ Given(SourceOf[phase], options[j])
      /\ row \in 0..23 /\ j \in 1..23
  BY NamedRows DEF Loads, ConfigType
<1>2. /\ Given("flag", options[i]) => Sets("flag", 14)
      /\ \A source : Sets(source, 14)' <=> Sets(source, 14)
  BY <1>1, SameGiven
<1>3. i \in DOMAIN options /\ i \in 12..13 /\ 14 \in DOMAIN options /\ options[14].name = "network"
  BY CheckedRows, NamedRows
<1>4. CASE j = 14 /\ Text(SourceOf[phase], options[j]) # Blank
  BY <1>4 DEF Loads, NetworkSet
<1>5. phase \in {"env", "flags"}
  BY <1>1 DEF SettledEarly, SourceOf
<1>6. ASSUME j # 14 \/ Text(SourceOf[phase], options[j]) = Blank
      PROVE  SettledEarly
  <2>1. CASE j = 14
    <3>1. ~Sets(SourceOf[phase], 14)
      BY <1>6, <2>1 DEF Sets
    <3>. QED
      BY <1>1, <1>2, <1>5, <3>1 DEF SettledEarly, SourceOf
  <2>2. CASE j # 14
    <3>1. Sets(SourceOf[phase], 14) /\ j >= 14 => row >= 14
      BY <1>1, <1>3, <2>2, NoRowPassed DEF Sets
    <3>. QED
      BY <1>1, <1>2, <1>5, <3>1 DEF SettledEarly, SourceOf
  <2>. QED
    BY <2>1, <2>2
<1>7. CASE j = 14 /\ Text(SourceOf[phase], options[j]) = Blank
  <2>1. cfg' = cfg
    BY <1>7 DEF Loads, NetworkSet
  <2>. QED
    BY <1>2, <1>6, <1>7, <2>1 DEF EarlyAgrees
<1>8. CASE j # 14
  <2>1. i # j
    <3>1. CASE phase = "env"
      BY <1>1, <1>3, <1>6, <1>8, <3>1 DEF SettledEarly
    <3>2. CASE phase = "flags"
      <4>1. CASE Sets("flag", 14)
        BY <1>1, <1>3, <1>6, <1>8, <3>2, <4>1 DEF SettledEarly
      <4>2. CASE ~Sets("flag", 14)
        BY <1>1, <1>2, <3>2, <4>2 DEF SourceOf
      <4>. QED
        BY <4>1, <4>2
    <3>. QED
      BY <1>5, <3>1, <3>2
  <2>2. /\ cfg[options[i].name] = OfNetwork(options[i].name, cfg["network"])
        /\ cfg'["network"] = cfg["network"]
    BY <1>2, <1>3, <1>6, <1>8, OneRow DEF EarlyAgrees
  <2>. QED
    BY <1>3, <1>8, <2>1, <2>2, OneRow
<1>. QED
  BY <1>4, <1>7, <1>8

\* The end of a pass, when it is not refused.
Passes(from, to) ==
    /\ PassEnds(from) /\ phase' = to /\ row' = 0
    /\ cfg' = cfg /\ settings' = settings /\ generated' = generated

\* The phase that follows a pass.
PassFollows(from, to) ==
    \/ from = "env" /\ to = "flags"
    \/ from = "flags" /\ to = (IF FileUsed THEN "file" ELSE "loaded")
    \/ from = "file" /\ to = "env_again"
    \/ from = "env_again" /\ to = "flags_again"
    \/ from = "flags_again" /\ to = "loaded"

\* What Validate does to a configuration that it accepts.
Validates ==
    /\ phase = "loaded" /\ phase' = "ready"
    /\ settings' = settings /\ generated' = generated /\ row' = row
    /\ \A i \in DOMAIN options : options[i].validate = "required" =>
                                    cfg[options[i].name] # Zero(options[i])
    /\ \A i \in DOMAIN options : options[i].name # "stellar-core-url" =>
                                    cfg'[options[i].name] = cfg[options[i].name]

\* Validate changes the core's address only, and accepts no missing required option.
LEMMA ValidateEffect ==
    ASSUME ConfigType, Validate, ~Refuse
    PROVE  Validates
<1>1. /\ \A o \in OptionSet : Valid(cfg, o)
      /\ cfg' = [cfg EXCEPT !["stellar-core-url"] =
                    IF @ = Blank THEN LocalCore(cfg["http-port"]) ELSE @]
      /\ cfg = [n \in Names |-> cfg[n]]
  BY DEF Validate, ConfigType
<1>2. \A i \in DOMAIN options : options[i].name # "stellar-core-url" =>
                                   cfg'[options[i].name] = cfg[options[i].name]
  BY <1>1, NamedRows
<1>3. ASSUME NEW i \in DOMAIN options, options[i].validate = "required"
      PROVE  cfg[options[i].name] # Zero(options[i])
  BY <1>1, <1>3, NamedRows DEF Valid
<1>. QED
  BY <1>2, <1>3 DEF Validates, Validate, Keep

\* The ways a step can go on that is neither refused nor before the passes.
LEMMA StepCases ==
    ASSUME ConfigType, [ConfigNext]_configVars
    PROVE  \/ phase' \in {"input", "defaults", "refused"}
           \/ LoadDefaults
           \/ \E i \in DOMAIN options : Loads(i)
           \/ \E from, to : PassFollows(from, to) /\ Passes(from, to)
           \/ Validates
           \/ UNCHANGED configVars
<1>1. CASE Refuse \/ Provide \/ ParseFlags \/ GenConfigFile
  BY <1>1 DEF Refuse, Provide, ParseFlags, GenConfigFile
<1>2. CASE LoadOption /\ ~Refuse
  BY <1>2, LoadEffect
<1>3. CASE EnvLoaded \/ FlagsLoaded \/ EnvLoadedAgain \/ FlagsLoadedAgain
  BY <1>3 DEF EnvLoaded, FlagsLoaded, EnvLoadedAgain, FlagsLoadedAgain, Passes,
              PassFollows, NextPass, Keep, FileUsed
<1>4. CASE ConfigPathLoaded /\ ~Refuse
  BY <1>4 DEF ConfigPathLoaded, Passes, PassFollows, NextPass, Keep
<1>5. CASE Validate /\ ~Refuse
  BY <1>5, ValidateEffect
<1>. QED
  BY <1>1, <1>2, <1>3, <1>4, <1>5 DEF ConfigNext, ConfigFileUnreadable, Ended

\* What is applied when a pass ends was applied in it or before.
LEMMA AppliedPass ==
    ASSUME ConfigType, NEW from, NEW to, PassFollows(from, to), Passes(from, to),
           NEW i \in DOMAIN options, NEW source \in Everywhere,
           Given(source, options[i]), Applied(source, i)'
    PROVE  Applied(source, i)
<1>1. /\ phase = from /\ phase' = to /\ row' = 0 /\ cfg' = cfg /\ ~(row' >= i)
      /\ i \in 1..23 /\ row \in 0..23
  BY NamedRows DEF Passes, PassEnds, ConfigType
<1>2. FileUsed' <=> FileUsed
  BY <1>1 DEF FileUsed
<1>3. ASSUME SourceOf[from] = source
      PROVE  row >= i
  BY <1>1, <1>3, PassEffect DEF Passes
<1>. QED
  BY <1>1, <1>2, <1>3 DEF Applied, PassFollows, SourceOf, Everywhere, Named

\* The network that counts when a pass begins was checked in an earlier one.
LEMMA SettledPass ==
    ASSUME ConfigType, PlainValues, NEW from, NEW to, PassFollows(from, to), Passes(from, to)
    PROVE  (Settled' => Settled) /\ (SettledEarly' => SettledEarly)
<1>1. /\ phase = from /\ phase' = to /\ row' = 0 /\ cfg' = cfg /\ ~(row' >= 14)
      /\ settings' = settings
  BY DEF Passes, PassEnds
<1>2. (FileUsed' <=> FileUsed) /\ \A source : Sets(source, 14)' <=> Sets(source, 14)
  BY <1>1, SameGiven DEF FileUsed
<1>3. Sets(SourceOf[from], 14) => row >= 14
  BY <1>1, PassEffect, NamedRows DEF Passes, Sets, ConfigType
<1>4. Settled' => Settled
  BY <1>1, <1>2, <1>3 DEF Settled, PassFollows, SourceOf
<1>5. SettledEarly' => SettledEarly
  <2>1. from = "flags_again" => FileUsed
    BY FileStaysNamed DEF Passes
  <2>. QED
    BY <1>1, <1>2, <1>3, <2>1 DEF SettledEarly, PassFollows, SourceOf
<1>. QED
  BY <1>4, <1>5

\* The change from one pass to the next keeps the invariant.
LEMMA NetworkInvPass ==
    ASSUME ConfigType, PlainValues, NetworkInv, NEW from, NEW to, PassFollows(from, to),
           Passes(from, to)
    PROVE  NetworkInv'
<1>1. settings' = settings /\ cfg' = cfg /\ phase' = to /\ to # "ready"
  BY DEF Passes, PassFollows
<1>2. GivenStays'
  <2>. SUFFICES ASSUME NEW i \in Checked, NEW source \in Everywhere,
                       GivenOnce(options[i].name)', Given(source, options[i])',
                       SetTo(source, i)' # Zero(options[i]), Applied(source, i)'
       PROVE  cfg'[options[i].name] = SetTo(source, i)'
    BY DEF GivenStays
  <2>1. /\ GivenOnce(options[i].name) /\ Given(source, options[i])
        /\ SetTo(source, i)' = SetTo(source, i)
    BY <1>1, SameGiven
  <2>2. Applied(source, i)
    BY <2>1, AppliedPass, CheckedRows
  <2>. QED
    BY <1>1, <2>1, <2>2 DEF NetworkInv, GivenStays
<1>3. CheckedAgrees'
  BY <1>1, SettledPass, SameGiven DEF NetworkInv, CheckedAgrees
<1>4. EarlyAgrees'
  BY <1>1, SettledPass, SameGiven DEF NetworkInv, EarlyAgrees
<1>. QED
  BY <1>1, <1>2, <1>3, <1>4 DEF NetworkInv, ReadyNetwork

\* No network is the default.
LEMMA NetworkDefault == Defaults["network"] = Blank
<1>1. options[14] \in OptionSet /\ options[14].name = "network" /\ "network" \in Names
  BY NamedRows
<1>2. \A o \in OptionSet : o.name = "network" => o = options[14]
  BY <1>1, NamesDiffer, NamedRows DEF OptionSet
<1>3. (CHOOSE x \in OptionSet : x.name = "network") = options[14]
  BY <1>1, <1>2
<1>4. Value(options[14], options[14].default) = Blank
  BY TableRows DEF Value
<1>5. options[14].kind # "table"
  BY NamedRows
<1>. QED
  BY <1>1, <1>3, <1>4, <1>5 DEF Defaults

\* So does Validate, which finds archives and a passphrase.
LEMMA NetworkInvValidate ==
    ASSUME ConfigType, PlainValues, NetworkInv, Validates
    PROVE  NetworkInv'
<1>1. phase = "loaded" /\ phase' = "ready" /\ settings' = settings
  BY DEF Validates
<1>2. /\ \A i \in Checked : cfg'[options[i].name] = cfg[options[i].name]
      /\ cfg'["network"] = cfg["network"] /\ cfg'["config-path"] = cfg["config-path"]
  BY CheckedRows, NamedRows DEF Validates
<1>3. FileUsed' <=> FileUsed
  BY <1>2 DEF FileUsed
<1>4. \A i, source : Applied(source, i)' => Applied(source, i)
  BY <1>1, <1>3 DEF Applied, SourceOf
<1>5. (Settled' => Settled) /\ (SettledEarly' => SettledEarly)
  BY <1>1, <1>3, SameGiven DEF Settled, SettledEarly, SourceOf
<1>6. GivenStays'
  BY <1>1, <1>2, <1>4, SameGiven DEF NetworkInv, GivenStays
<1>7. CheckedAgrees' /\ EarlyAgrees'
  BY <1>1, <1>2, <1>5, SameGiven DEF NetworkInv, CheckedAgrees, EarlyAgrees
<1>8. \A i \in Checked : cfg'[options[i].name] # Zero(options[i])
  BY <1>2, CheckedRows DEF Validates
<1>9. ASSUME cfg'["network"] # Blank
      PROVE  (Sets("flag", 14) \/ Sets("env", 14) \/ (FileUsed /\ Sets("file", 14)))'
  <2>1. 14 \in DOMAIN options /\ Plain(14) /\ options[14].name = "network"
    BY NamedRows, WrittenRows DEF Plain
  <2>2. cfg["network"] = IF FileUsed THEN AfterFlagsAgain(14) ELSE AfterFlags(14)
    BY <1>1, <2>1 DEF PlainValues
  <2>3. Defaults["network"] = Blank
    BY NetworkDefault
  <2>. QED
    BY <1>1, <1>2, <1>3, <1>9, <2>1, <2>2, <2>3, SameGiven
       DEF AfterFlagsAgain, AfterEnvAgain, AfterFile, AfterFlags, AfterEnv, Over
<1>. QED
  BY <1>6, <1>7, <1>8, <1>9 DEF NetworkInv, ReadyNetwork

\* Every step keeps it.
LEMMA NetworkInvStep ==
    ConfigType /\ PlainValues /\ NetworkInv /\ [ConfigNext]_configVars => NetworkInv'
<1>. SUFFICES ASSUME ConfigType, PlainValues, NetworkInv, [ConfigNext]_configVars
     PROVE  NetworkInv'
  OBVIOUS
<1>1. CASE phase' \in {"input", "defaults", "refused"}
  BY <1>1
     DEF NetworkInv, GivenStays, CheckedAgrees, EarlyAgrees, ReadyNetwork, Applied, Settled,
         SettledEarly, SourceOf
<1>2. CASE LoadDefaults
  <2>1. phase' = "env" /\ row' = 0
    BY <1>2 DEF LoadDefaults, ConfigType
  <2>2. \A i \in Checked : ~(row' >= i)
    BY <2>1, CheckedRows
  <2>. QED
    BY <2>1, <2>2
       DEF NetworkInv, GivenStays, CheckedAgrees, EarlyAgrees, ReadyNetwork, Applied, Settled,
         SettledEarly, SourceOf
<1>3. ASSUME NEW i \in DOMAIN options, Loads(i)
      PROVE  NetworkInv'
  BY <1>3, GivenStaysLoad, CheckedAgreesLoad, EarlyAgreesLoad
     DEF NetworkInv, ReadyNetwork, Loads, SourceOf
<1>4. CASE UNCHANGED configVars
  <2>1. settings' = settings /\ cfg' = cfg /\ phase' = phase /\ row' = row
    BY <1>4 DEF configVars
  <2>2. FileUsed' <=> FileUsed
    BY <2>1 DEF FileUsed
  <2>3. /\ (Settled' <=> Settled) /\ (SettledEarly' <=> SettledEarly)
        /\ \A i, source : Applied(source, i)' <=> Applied(source, i)
    BY <2>1, <2>2, SameGiven DEF Settled, SettledEarly, Applied
  <2>4. GivenStays' /\ CheckedAgrees' /\ EarlyAgrees' /\ ReadyNetwork'
    BY <2>1, <2>2, <2>3, SameGiven
       DEF NetworkInv, GivenStays, CheckedAgrees, EarlyAgrees, ReadyNetwork
  <2>. QED
    BY <2>4 DEF NetworkInv
<1>. QED
  BY <1>1, <1>2, <1>3, <1>4, StepCases, NetworkInvPass, NetworkInvValidate

\* NetworkCoherent says what NetworkInv says of a daemon that runs.
LEMMA NetworkInvImplies == NetworkInv => NetworkCoherent
<1>1. options[12].name = "history-archive-urls" /\ options[13].name = "network-passphrase"
      /\ options[14].name = "network"
  BY NamedRows
<1>. SUFFICES ASSUME NetworkInv, phase = "ready", cfg["network"] # Blank, NEW i \in Checked,
                     IF FileUsed THEN GivenOnce(options[i].name)
                                 ELSE FlagsNameNetwork(options[i].name)
     PROVE  cfg[options[i].name] = OfNetwork(options[i].name, cfg["network"])
  BY <1>1 DEF NetworkCoherent, Checked
<1>2. CASE FileUsed
  <2>1. Settled
    BY <1>2 DEF NetworkInv, ReadyNetwork, Settled
  <2>. QED
    BY <1>2, <2>1 DEF NetworkInv, CheckedAgrees, ReadyNetwork
<1>3. CASE ~FileUsed
  <2>1. SettledEarly
    BY <1>3 DEF NetworkInv, ReadyNetwork, SettledEarly
  <2>2. Given("flag", options[i]) => Sets("flag", 14)
    BY <1>1, <1>3 DEF FlagsNameNetwork, Given, Text, Sets
  <2>. QED
    BY <2>1, <2>2 DEF NetworkInv, EarlyAgrees
<1>. QED
  BY <1>2, <1>3

\* setForNetwork and the second pass over environment and flags: a daemon never
\* runs with the name of one network and the archives or the passphrase of another,
\* unless two sources give the same of the two or, without a config file, the flags
\* give one of them and no network.
THEOREM NetworksDoNotMix == ConfigSpec => []NetworkCoherent
<1>1. ConfigInit => ConfigType /\ PlainValues /\ NetworkInv
  BY ConfigTypeInit DEF ConfigInit, PlainValues, SourceOf, NetworkInv, GivenStays,
                        CheckedAgrees, EarlyAgrees, ReadyNetwork, Applied, Settled,
                        SettledEarly
<1>. QED
  BY <1>1, ConfigTypeStep, PlainValuesStep, NetworkInvStep, NetworkInvImplies, PTL
     DEF ConfigSpec

-----------------------------------------------------------------------------
\* The default of a row.
LEMMA DefaultOf ==
    ASSUME NEW i \in DOMAIN options
    PROVE  /\ ZeroConfig[options[i].name] = Zero(options[i])
           /\ Defaults[options[i].name] \in
                 {Zero(options[i]), Value(options[i], options[i].default)}
<1>. DEFINE n == options[i].name
<1>1. options[i] \in OptionSet /\ n \in Names
  BY NamedRows
<1>2. \A o \in OptionSet : o.name = n => o = options[i]
  BY NamesDiffer DEF OptionSet
<1>3. (CHOOSE x \in OptionSet : x.name = n) = options[i]
  BY <1>1, <1>2
<1>. HIDE DEF n
<1>. QED
  BY <1>1, <1>3 DEF Defaults, ZeroConfig, n

\* The setters leave values of the option's type.
LEMMA ValueTyped ==
    ASSUME NEW o, NEW text, o.kind = "uint16" => text \in Int
    PROVE  Typed(o, Value(o, text)) /\ Typed(o, Zero(o))
<1>1. CASE o.kind = "bool"
  <2>1. Value(o, text) = (text = "true") /\ Zero(o) = FALSE
    BY <1>1, Zenon DEF Value, Zero, IsNumber
  <2>2. Value(o, text) \in BOOLEAN /\ Zero(o) \in BOOLEAN
    BY <2>1, Zenon
  <2>. QED
    BY <1>1, <2>2 DEF Typed
<1>2. CASE o.kind = "uint16"
  BY <1>2, ConfigAssumption DEF Typed, Value, Zero, IsNumber
<1>3. CASE o.kind = "strings"
  BY <1>3 DEF Typed, Value, Zero, IsNumber
<1>4. CASE o.kind = "storage"
  <2>1. Blank # "."
    BY Zenon DEF Blank
  <2>. QED
    BY <1>4, <2>1 DEF Typed, Value, Zero, IsNumber
<1>5. CASE o.kind \notin {"bool", "uint16", "strings", "storage"}
  BY <1>5 DEF Typed
<1>. QED
  BY <1>1, <1>2, <1>3, <1>4, <1>5

\* What gen-config-file writes for a value is read back as that value.
LEMMA RoundTrip ==
    ASSUME NEW c, NEW o, Typed(o, c[o.name]), o.kind # "table", c[o.name] # Zero(o)
    PROVE  Value(o, Written(c, o)) = c[o.name]
<1>1. CASE o.kind = "bool"
  <2>1. Zero(o) = FALSE
    BY <1>1, Zenon DEF Zero, IsNumber
  <2>2. c[o.name] = TRUE
    BY <1>1, <2>1, Zenon DEF Typed
  <2>. QED
    BY <1>1, <2>2 DEF Value, Written
<1>2. CASE o.kind = "uint16"
  <2>1. c[o.name] \in 0..(Uint16 - 1) /\ Uint16 \in Nat \ {0}
    BY <1>2, ConfigAssumption DEF Typed
  <2>2. \A v \in 0..(Uint16 - 1) : v % Uint16 = v
    BY <2>1
  <2>. QED
    BY <1>2, <2>1, <2>2 DEF Value, Written
<1>3. CASE o.kind = "strings"
  BY <1>3 DEF Typed, Value, Written, Zero, IsNumber
<1>4. CASE o.kind = "storage"
  BY <1>4 DEF Typed, Value, Written, Zero, IsNumber
<1>5. CASE o.kind \notin {"bool", "uint16", "strings", "storage"}
  BY <1>5 DEF Value, Written
<1>. QED
  BY <1>1, <1>2, <1>3, <1>4, <1>5

\* A step other than writing a setting and gen-config-file keeps the settings.
LEMMA KeepsSettings ==
    ASSUME [ConfigNext]_configVars, ~Provide, ~GenConfigFile
    PROVE  settings' = settings /\ generated' = generated
BY
   DEF ConfigNext, configVars, ParseFlags, LoadDefaults, LoadOption, EnvLoaded,
       FlagsLoaded,
       ConfigFileUnreadable, ConfigPathLoaded, EnvLoadedAgain, FlagsLoadedAgain, Validate,
       Ended, Refuse, NextPass, Keep

\* The zero values have the form of their options.
LEMMA TypedValuesInit == ConfigInit => TypedValues
<1>. SUFFICES ASSUME ConfigInit
     PROVE  TypedValues
  OBVIOUS
<1>1. cfg = ZeroConfig /\ DOMAIN settings = {}
  BY DEF ConfigInit
<1>2. \A i \in DOMAIN options : Typed(options[i], cfg[options[i].name])
  BY <1>1, DefaultOf, ValueTyped, ConfigAssumption
<1>. QED
  BY <1>1, <1>2 DEF TypedValues, Given

\* Every step leaves values of the form of their options.
LEMMA TypedValuesStep ==
    ConfigType /\ TypedValues /\ [ConfigNext]_configVars => TypedValues'
<1>. SUFFICES ASSUME ConfigType, TypedValues, [ConfigNext]_configVars
     PROVE  TypedValues'
  OBVIOUS
<1>. DEFINE Cfg == \A i \in DOMAIN options : Typed(options[i], cfg[options[i].name])
            Numbers == \A i \in DOMAIN options, source \in Everywhere :
                          options[i].kind = "uint16" /\ Given(source, options[i])
                              => Text(source, options[i]) \in Int
<1>1. Cfg /\ Numbers
  BY DEF TypedValues
<1>2. ASSUME settings' = settings
      PROVE  Numbers'
  BY <1>1, <1>2 DEF Given, Text
<1>3. ASSUME cfg' = cfg
      PROVE  Cfg'
  BY <1>1, <1>3 DEF Typed
<1>4. ASSUME NEW i \in DOMAIN options
      PROVE  Typed(options[i], Zero(options[i])) /\ Typed(options[i], Defaults[options[i].name])
  <2>1. options[i] \in OptionSet
    BY NamedRows
  <2>2. options[i].kind = "uint16" => options[i].default \in Int
    BY <2>1, ConfigAssumption DEF IsNumber
  <2>3. Defaults[options[i].name] \in {Zero(options[i]), Value(options[i], options[i].default)}
    BY DefaultOf
  <2>. QED
    BY <2>2, <2>3, ValueTyped
<1>5. CASE Provide
  <2>1. PICK i \in DOMAIN options : \E source, text : Adds(i, source, text)
    BY <1>5, ProvideEffect
  <2>2. PICK source, text : Adds(i, source, text)
    BY <2>1
  <2>3. options[i].kind = "uint16" => text \in Int
    BY <2>2, NamedRows, ConfigAssumption DEF Adds, IsNumber
  <2>4. ASSUME NEW j \in DOMAIN options, NEW s \in Everywhere, options[j].kind = "uint16",
               Given(s, options[j])'
        PROVE  Text(s, options[j])' \in Int
    <3>. DEFINE k == <<s, options[j].name>>
                a == <<source, options[i].name>>
    <3>1. CASE k = a
      <4>1. i = j
        BY <3>1, NamesDiffer
      <4>. QED
        BY <2>2, <2>3, <2>4, <3>1, <4>1 DEF Adds, Text
    <3>2. CASE k # a
      <4>1. k \in DOMAIN settings /\ settings'[k] = settings[k]
        BY <2>2, <2>4, <3>2 DEF Adds, Given
      <4>. QED
        BY <1>1, <2>4, <4>1 DEF Given, Text
    <3>. QED
      BY <3>1, <3>2
  <2>. QED
    BY <1>3, <1>5, <2>4 DEF Provide, TypedValues
<1>6. CASE GenConfigFile
  <2>1. Generates
    BY <1>6, GenerateEffect
  <2>2. Cfg'
    BY <1>4, <2>1, DefaultOf DEF Generates
  <2>3. ASSUME NEW j \in DOMAIN options, NEW s \in Everywhere, options[j].kind = "uint16",
               Given(s, options[j])'
        PROVE  Text(s, options[j])' \in Int
    <3>1. j # 1
      BY <2>3, NamedRows
    <3>2. s = "file" /\ InFile(cfg, options[j])
      BY <2>1, <2>3, <3>1 DEF Generates, Given, Everywhere, Named
    <3>3. Text(s, options[j])' = Written(cfg, options[j])
      BY <2>1, <3>2 DEF Generates, Text
    <3>4. Written(cfg, options[j]) = cfg[options[j].name]
      BY <2>3 DEF Written
    <3>. QED
      BY <1>1, <2>3, <3>3, <3>4, ConfigAssumption DEF Typed
  <2>. QED
    BY <2>2, <2>3 DEF TypedValues
<1>7. CASE LoadDefaults
  <2>1. Cfg'
    BY <1>4, <1>7 DEF LoadDefaults
  <2>. QED
    BY <1>2, <1>7, <2>1 DEF LoadDefaults, Keep, TypedValues
<1>8. ASSUME NEW j \in DOMAIN options, Loads(j)
      PROVE  TypedValues'
  <2>1. /\ settings' = settings /\ phase \in DOMAIN SourceOf
        /\ Given(SourceOf[phase], options[j]) /\ SourceOf[phase] \in Everywhere
    BY <1>8 DEF Loads, SourceOf, Everywhere, Named
  <2>2. CASE j # 14
    <3>1. Typed(options[j], SetTo(SourceOf[phase], j))
      BY <1>1, <2>1, ValueTyped DEF SetTo
    <3>2. Cfg'
      BY <1>1, <1>8, <2>2, <3>1, OneRow
    <3>. QED
      BY <1>2, <2>1, <3>2 DEF TypedValues
  <2>3. CASE j = 14
    <3>1. NetworkSet(cfg, Text(SourceOf[phase], options[j]), cfg')
      BY <1>8, <2>3 DEF Loads
    <3>2. ASSUME NEW i \in DOMAIN options
          PROVE  Typed(options[i], cfg'[options[i].name])
      <4>1. CASE i \in {10, 13, 14}
        BY <4>1, NamedRows DEF Typed
      <4>2. CASE i = 12
        <5>1. CASE Text(SourceOf[phase], options[j]) = Blank
          BY <1>1, <3>1, <5>1 DEF NetworkSet
        <5>2. CASE Text(SourceOf[phase], options[j]) # Blank
          <6>1. PICK n \in Networks : cfg'[options[12].name] = ArchiveURLs(n)
            BY <3>1, <5>2, NamedRows DEF NetworkSet, Checked, OfNetwork
          <6>2. n # Blank
            BY BlankNoNetwork DEF Networks
          <6>. QED
            BY <4>2, <6>1, <6>2, NamedRows DEF Typed, ArchiveURLs
        <5>. QED
          BY <5>1, <5>2
      <4>3. CASE i \notin {10, 12, 13, 14}
        <5>1. options[i].name \in Names \ (WrittenByNetwork \cup {"network"})
          BY <4>3, WrittenRows, NamesDiffer, NamedRows
        <5>. QED
          BY <1>1, <3>1, <5>1 DEF NetworkSet
      <4>. QED
        BY <4>1, <4>2, <4>3
    <3>. QED
      BY <1>2, <2>1, <3>2 DEF TypedValues
  <2>. QED
    BY <2>2, <2>3
<1>9. CASE Validates
  <2>1. ASSUME NEW i \in DOMAIN options
        PROVE  Typed(options[i], cfg'[options[i].name])
    <3>1. CASE i = 4
      BY <3>1, TableRows DEF Typed
    <3>2. CASE i # 4
      <4>1. options[i].name # "stellar-core-url"
        BY <3>2, NamesDiffer, TableRows
      <4>. QED
        BY <1>1, <1>9, <4>1 DEF Validates
    <3>. QED
      BY <3>1, <3>2
  <2>. QED
    BY <1>2, <1>9, <2>1 DEF Validates, TypedValues
<1>10. ASSUME settings' = settings, cfg' = cfg
       PROVE  TypedValues'
  BY <1>2, <1>3, <1>10 DEF TypedValues
<1>11. CASE /\ phase' \in {"input", "defaults", "refused"}
            /\ ~Provide /\ ~GenConfigFile /\ ~LoadDefaults
  <2>1. settings' = settings
    BY <1>11, KeepsSettings
  <2>2. cfg' = cfg \/ (\E i \in DOMAIN options : Loads(i))
    <3>1. CASE LoadOption /\ ~Refuse
      BY <3>1, LoadEffect
    <3>. QED
      BY <1>11, <3>1
         DEF ConfigNext, configVars, ParseFlags, EnvLoaded, FlagsLoaded,
             ConfigFileUnreadable, ConfigPathLoaded, EnvLoadedAgain, FlagsLoadedAgain,
             Validate, Ended, Refuse, NextPass
  <2>. QED
    BY <1>8, <1>10, <2>1, <2>2
<1>. QED
  BY <1>5, <1>6, <1>7, <1>8, <1>9, <1>10, <1>11, StepCases DEF Passes, configVars

\* The settings of a start with a generated file are those that were written.
LEMMA FromGeneratedStep ==
    ConfigType /\ TypedValues /\ FromGenerated /\ [ConfigNext]_configVars => FromGenerated'
<1>. SUFFICES ASSUME ConfigType, TypedValues, FromGenerated, [ConfigNext]_configVars
     PROVE  FromGenerated'
  OBVIOUS
<1>1. CASE Provide
  BY <1>1 DEF Provide, ConfigType, FromGenerated
<1>2. CASE GenConfigFile
  BY <1>2, GenerateEffect DEF Generates, FromGenerated, TypedValues, Given, Text
<1>3. CASE ~Provide /\ ~GenConfigFile
  <2>1. settings' = settings /\ generated' = generated
    BY <1>3, KeepsSettings
  <2>. QED
    BY <2>1 DEF FromGenerated, Given, Text
<1>. QED
  BY <1>1, <1>2, <1>3

\* The file that gen-config-file wrote gives the required options.
LEMMA RequiredInFile ==
    ASSUME FromGenerated, generated # <<>>, Complete(generated), NEW i \in {10, 12}
    PROVE  /\ i \in DOMAIN options /\ Given("file", options[i])
           /\ generated[options[i].name] # Zero(options[i])
           /\ SetTo("file", i) = generated[options[i].name]
           /\ GivenOnce(options[i].name)
<1>1. /\ i \in DOMAIN options /\ i # 1 /\ options[i] \in OptionSet
      /\ options[i].validate = "required" /\ options[i].kind # "table"
  BY TableRows, NamedRows
<1>2. generated[options[i].name] # Zero(options[i])
  BY <1>1 DEF Complete
<1>3. "file" \in options[i].sources
  BY TableRows DEF Everywhere, Named
<1>4. Given("file", options[i]) /\ Text("file", options[i]) = Written(generated, options[i])
  BY <1>1, <1>2, <1>3 DEF FromGenerated, InFile
<1>5. SetTo("file", i) = generated[options[i].name]
  BY <1>1, <1>2, <1>4, RoundTrip DEF SetTo, FromGenerated
<1>6. GivenOnce(options[i].name)
  BY <1>1 DEF FromGenerated, GivenOnce, Given, Everywhere, Named
<1>. QED
  BY <1>1, <1>2, <1>4, <1>5, <1>6

\* The captive core file that a generated file gives stays: its archives are in
\* place when its network is set.
LEMMA CaptiveCoreStep ==
    ConfigType /\ FromGenerated /\ GivenStays /\ CaptiveCoreStays /\ [ConfigNext]_configVars
    => CaptiveCoreStays'
<1>. SUFFICES ASSUME ConfigType, FromGenerated, GivenStays, CaptiveCoreStays,
                     [ConfigNext]_configVars,
                     generated' # <<>>, Complete(generated)', Applied("file", 10)'
     PROVE  cfg'["captive-core-config-path"] = generated'["captive-core-config-path"]
  BY DEF CaptiveCoreStays
<1>. DEFINE path == "captive-core-config-path"
<1>0. /\ phase' \notin {"input", "defaults", "refused", "env", "flags"}
      /\ options[10].name = path /\ 10 \in DOMAIN options /\ "file" \in Everywhere
  BY NamedRows DEF Applied, SourceOf, Everywhere
<1>1. settings' = settings /\ generated' = generated
  BY <1>0, KeepsSettings DEF Provide, GenConfigFile
<1>2. generated # <<>> /\ Complete(generated)
  BY <1>1 DEF Complete
<1>3. Given("file", options[10]) /\ SetTo("file", 10) = generated[path]
  BY <1>0, <1>2, RequiredInFile
<1>4. ASSUME Applied("file", 10)
      PROVE  cfg[path] = generated[path]
  BY <1>2, <1>4 DEF CaptiveCoreStays
<1>5. ASSUME NEW j \in DOMAIN options, Loads(j)
      PROVE  cfg'[path] = generated[path]
  <2>1. /\ phase' = phase /\ phase \in DOMAIN SourceOf /\ row' = j /\ row < j
        /\ row \in 0..23 /\ j \in 1..23 /\ Given(SourceOf[phase], options[j])
    BY <1>5, NamedRows DEF Loads, ConfigType
  <2>2. j # 1 => SourceOf[phase] = "file" /\ phase = "file"
    BY <1>2, <2>1 DEF FromGenerated, SourceOf
  <2>3. CASE j = 10
    BY <1>0, <1>3, <1>5, <2>2, <2>3, OneRow
  <2>4. CASE j # 10
    <3>1. Applied("file", 10)
      <4>1. CASE phase = "file"
        <5>1. 10 <= j
          BY <1>0, <2>1, <4>1 DEF Applied, SourceOf
        <5>2. SourceOf[phase] = "file"
          BY <4>1 DEF SourceOf
        <5>3. 10 <= row
          BY <1>0, <1>3, <1>5, <2>4, <5>1, <5>2, NoRowPassed
        <5>. QED
          BY <2>1, <5>2, <5>3 DEF Applied
      <4>2. CASE phase # "file"
        BY <2>1, <4>2 DEF Applied, SourceOf
      <4>. QED
        BY <4>1, <4>2
    <3>2. CASE j # 14
      BY <1>0, <1>4, <1>5, <2>4, <3>1, <3>2, OneRow
    <3>3. CASE j = 14
      <4>1. /\ 12 \in DOMAIN options /\ Given("file", options[12])
            /\ generated[options[12].name] # Zero(options[12])
            /\ SetTo("file", 12) = generated[options[12].name]
            /\ GivenOnce(options[12].name) /\ options[12].name = "history-archive-urls"
        BY <1>2, RequiredInFile, NamedRows
      <4>2. 12 <= row /\ SourceOf[phase] = "file"
        BY <1>5, <2>2, <3>3, <4>1, NoRowPassed
      <4>3. Applied("file", 12)
        BY <2>1, <4>2 DEF Applied
      <4>4. cfg["history-archive-urls"] # <<>>
        BY <1>0, <4>1, <4>3, ZeroRows DEF GivenStays, Checked
      <4>5. cfg'[path] = cfg[path]
        BY <1>5, <3>3, <4>4 DEF Loads, NetworkSet
      <4>. QED
        BY <1>4, <3>1, <4>5
    <3>. QED
      BY <3>2, <3>3
  <2>. QED
    BY <2>3, <2>4
<1>6. CASE Validates
  <2>1. FileUsed' => FileUsed
    BY <1>6, NamedRows DEF Validates, FileUsed
  <2>2. Applied("file", 10)
    BY <1>6, <2>1 DEF Validates, Applied, SourceOf
  <2>3. cfg'[path] = cfg[path]
    BY <1>0, <1>6 DEF Validates
  <2>. QED
    BY <1>1, <1>4, <2>2, <2>3
<1>7. CASE UNCHANGED configVars
  BY <1>1, <1>4, <1>7 DEF configVars, Applied, FileUsed
<1>8. ASSUME NEW from, NEW to, PassFollows(from, to), Passes(from, to)
      PROVE  cfg'[path] = generated[path]
  <2>1. Applied("file", 10)
    BY <1>0, <1>3, <1>8, AppliedPass
  <2>. QED
    BY <1>4, <1>8, <2>1 DEF Passes
<1>9. ~LoadDefaults
  BY <1>0 DEF LoadDefaults
<1>. QED
  BY <1>0, <1>1, <1>5, <1>6, <1>7, <1>8, <1>9, StepCases

\* The invariant behind GeneratedFileReproduces.
GenerateInv == TypedValues /\ FromGenerated /\ CaptiveCoreStays

\* GeneratedFileReproduces says what the invariants say of a start with a
\* generated file.
LEMMA GenerateInvImplies ==
    ConfigType /\ PlainValues /\ NetworkInv /\ GenerateInv => GeneratedFileReproduces
<1>. SUFFICES ASSUME ConfigType, PlainValues, NetworkInv, GenerateInv,
                     phase = "loaded", generated # <<>>, NEW i \in DOMAIN options,
                     "file" \in options[i].sources, options[i].kind # "table",
                     options[i].name \in WrittenByNetwork => Complete(generated)
     PROVE  cfg[options[i].name] =
                IF generated[options[i].name] = Zero(options[i]) THEN Defaults[options[i].name]
                ELSE generated[options[i].name]
  BY DEF GeneratedFileReproduces, OptionSet
<1>. DEFINE n == options[i].name
<1>1. i # 1
  <2>1. options[1].sources = {"env", "flag"}
    BY TableRows DEF Named
  <2>. QED
    BY <2>1
<1>2. /\ Given("file", options[i]) <=> generated[n] # Zero(options[i])
      /\ Given("file", options[i]) => Text("file", options[i]) = Written(generated, options[i])
      /\ ~Given("env", options[i]) /\ ~Given("flag", options[i])
  BY <1>1 DEF GenerateInv, FromGenerated, InFile
<1>3. Given("file", options[i]) => SetTo("file", i) = generated[n]
  BY <1>2, RoundTrip DEF SetTo, GenerateInv, FromGenerated
<1>4. FileUsed
  <2>1. 1 \in DOMAIN options /\ Plain(1) /\ options[1].name = "config-path"
    BY NamedRows, WrittenRows DEF Plain
  <2>2. Given("flag", options[1]) /\ Text("flag", options[1]) = "path"
    BY <2>1 DEF GenerateInv, FromGenerated, Text
  <2>3. SetTo("flag", 1) = "path" /\ Sets("flag", 1)
    BY <2>2, NamedRows DEF SetTo, Value, Sets
  <2>4. AfterFlags(1) = "path" /\ AfterFlagsAgain(1) = "path"
    BY <2>3 DEF AfterFlags, AfterFlagsAgain, Over
  <2>. QED
    BY <2>1, <2>4, BlankNoNetwork DEF PlainValues, FileUsed
<1>5. CASE Plain(i)
  <2>1. cfg[n] = AfterFlagsAgain(i)
    BY <1>4, <1>5 DEF PlainValues
  <2>2. (Sets("file", i) <=> Given("file", options[i])) /\ ~Sets("env", i) /\ ~Sets("flag", i)
    <3>1. i = 14 /\ Given("file", options[i]) => Text("file", options[i]) # Blank
      BY <1>2, ZeroRows, NamedRows DEF Written
    <3>. QED
      BY <1>2, <3>1 DEF Sets
  <2>3. AfterFlagsAgain(i) = IF Given("file", options[i]) THEN SetTo("file", i) ELSE Defaults[n]
    BY <2>2 DEF AfterFlagsAgain, AfterEnvAgain, AfterFile, AfterFlags, AfterEnv, Over
  <2>. QED
    BY <1>2, <1>3, <2>1, <2>3
<1>6. CASE ~Plain(i)
  <2>1. Complete(generated) /\ i \in {10, 12, 13}
    BY <1>6, WrittenRows DEF Plain
  <2>0. generated[n] # Zero(options[i]) /\ Given("file", options[i])
    <3>1. options[i] \in OptionSet /\ options[i].validate = "required"
      BY <2>1, TableRows, NamedRows
    <3>. QED
      BY <1>2, <2>1, <3>1 DEF Complete
  <2>2. CASE i = 10
    <3>1. Applied("file", 10)
      BY <1>4 DEF Applied
    <3>. QED
      BY <2>0, <2>1, <2>2, <3>1, NamedRows DEF GenerateInv, CaptiveCoreStays
  <2>3. CASE i \in Checked
    <3>1. GivenOnce(n)
      BY <1>2 DEF GivenOnce, Given, Everywhere, Named
    <3>2. Applied("file", i) /\ "file" \in Everywhere
      BY <1>4 DEF Applied, Everywhere
    <3>. QED
      BY <1>3, <2>0, <2>3, <3>1, <3>2 DEF NetworkInv, GivenStays
  <2>. QED
    BY <2>1, <2>2, <2>3 DEF Checked
<1>. QED
  BY <1>5, <1>6

\* gen-config-file: a daemon started with its output gets the configuration that
\* was written out, with the default in the place of each zero value, but for
\* tables and, if a required option was missing, what the network writes.
THEOREM GeneratedFileComesBack == ConfigSpec => []GeneratedFileReproduces
<1>1. ConfigInit => ConfigType /\ PlainValues /\ NetworkInv
  BY ConfigTypeInit DEF ConfigInit, PlainValues, SourceOf, NetworkInv, GivenStays,
                        CheckedAgrees, EarlyAgrees, ReadyNetwork, Applied, Settled,
                        SettledEarly
<1>2. ConfigInit => GenerateInv
  BY TypedValuesInit DEF ConfigInit, GenerateInv, FromGenerated, CaptiveCoreStays
<1>3. ConfigType /\ NetworkInv /\ GenerateInv /\ [ConfigNext]_configVars => GenerateInv'
  BY TypedValuesStep, FromGeneratedStep, CaptiveCoreStep DEF GenerateInv, NetworkInv
<1>. QED
  BY <1>1, <1>2, <1>3, ConfigTypeStep, PlainValuesStep, NetworkInvStep,
     GenerateInvImplies, PTL DEF ConfigSpec
=============================================================================
