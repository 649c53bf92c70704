# A TLA+ model of Stellar RPC

Stellar RPC keeps the most recent ledgers of the Stellar network in a SQLite
database and serves them, and what can be computed from them, over JSON-RPC.
This directory holds TLA+ modules that model the parts of it in which
concurrency, failures and restarts matter, TLC configurations that check them on
small instances, and TLAPS proofs of the properties that matter most for every
instance. Source paths below are relative to `cmd/stellar-rpc/internal/`.

## 1. Inventory

| Component | State | Operations | What is hard about it | What makes it correct |
|---|---|---|---|---|
| Ledger store (`db/db.go`, `db/ledger.go`) | tables of ledgers, transactions and events; `dbCache` (latest and first ledger) under a lock | write transaction: insert, flush, trim, commit, update cache; `GetLedgerRange`, `GetLatestLedgerSequence`, read transactions | readers query without the lock and publish what they found later; commit and cache update are two steps; crash in between | the cache never promises a trimmed ledger; all tables agree; the window is gapless; ranges are servable |
| Migrations and bulk load (`db/migration.go`, `db/db.go`, `daemon/daemon.go`) | guards and pending-index record in the metadata table, indexes | build, apply and commit migrations; prepare and finalize a bulk load | the process dies anywhere; the next one runs with other options | no service without indexes or with half-migrated tables; a restart always gets through |
| Ledger bucket window (`ledgerbucketwindow/`) | ring buffer and its start | append, overwrite, reset | wrap-around, refused gaps | the last `Capacity` ledgers, in order |
| Fee windows (`feewindow/`) | two bucket windows with a distribution each | append a ledger's fees, reset | eviction and recomputation; one-pass mode; percentile ranks | the distribution is that of the fees in the window |
| Ingestion service (`ingest/service.go`) | next ledger, retry budget, open write transaction | start, wait for core, ingest, retry, close | a retry repeats what was half done; cancellation while waiting | gapless database, windows not behind it, it ends when told to |
| Backfill (`ingest/backfill.go`) | bounds, chunk edges, datastore tip | backfill and frontfill in chunks, refresh the tip, final check | the tip moves while it works; chunks fail; restarts | no gap, no chunk twice, window filled, it ends |
| Request limits (`network/`, `jsonrpc.go`) | pending counters, goroutines and channels per request | admit, refuse, time out, finish | a timeout races the answer; slots on every path | slots are returned exactly once, limits hold, everybody is answered, nobody leaks |
| Preflight pool (`preflight/pool.go`) | job channel, closed flag, workers | submit, work, answer, close | unbuffered answers, contexts, close while submitting | accepted jobs are answered, close returns |
| Reading handlers (`methods/get_ledgers.go`, `get_transactions.go`, `get_events.go`, `get_transaction.go`, `get_latest_ledger.go`, `get_fee_stats.go`) | none of their own; the client's cursor | read a range, read a page, return a cursor | ledgers are committed and trimmed between the reads of a call and between calls | pages skip and repeat nothing; responses do not contradict each other |
| Handlers that ask core (`get_health`, `get_ledger_entries`, `send_transaction`, `simulate_transaction`, with `ledgerentries/`, `preflight/preflight.go`) | none of their own | read the latest ledger or the range, then query or submit to core | core is ahead of the database and forgets old states; a failed query inside a simulation is not an error | what a response says belongs to the ledger it names |
| `get_network`, `get_version_info` | none | report constants | – | – |
| Preflight and XDR libraries (Rust, `xdr2json/`) | none | pure computation over FFI | memory ownership across FFI | – |
| Daemon (`daemon/daemon.go`, `util/panicgroup.go`) | the components above; `closeOnce`, `done` | start in order, run, stop in order within a grace period | kills during the start; requests, simulations and a second `Close` during the stop | see migrations, backfill, ingestion; waiting clients are served within the grace period, nothing works after `Close`, it returns |
| Configuration (`config/`) | the `Config` struct | load defaults, environment, flags and file, load two of them again, validate, write a file | later sources overwrite earlier ones, one option writes three others, widths and zero values | the strongest source wins; one network; a written file means what was written |
| Metrics, logging (`daemon/metrics.go`) | counters | observe | – | – |

How they interact: the daemon opens the database, migrates it while it loads the
fee windows, backfills it, finalizes a bulk load, tops the database up, and
starts the ingestion service and the servers, all from one configuration. When it
is told to stop it closes the servers, ingestion, captive core, the handler, the
database, the preflight pool and the datastore, in that order. The ingestion
service is the only
writer. Each request passes the HTTP duration limiter, the global queue, the
method's duration limiter and the method's queue before its handler reads the
store, the fee windows or calls the pool. Handlers and writer share only the
database, the cache and the fee windows.

`PROJECT.json` lists, under `hazards`, the places where this is hard to test,
with the properties aimed at each.

## 2. Modules

| Module | Models | Composed from |
|---|---|---|
| `RetainedLedgers` | abstract: an interval of ledgers that grows at its end and loses expired ledgers | – |
| `LedgerStore` | `db.go`, `ledger.go`: writer, cache, lock, readers, crashes | refines `RetainedLedgers` |
| `LedgerStoreProofs` | proofs about `LedgerStore` | |
| `BoundedWindow` | abstract: a queue of at most `Capacity` consecutive ledgers | – |
| `LedgerBucketWindow` | `ledgerbucketwindow.go`: the ring buffer | refines `BoundedWindow` |
| `FeeWindow` | `feewindow.go`: the distribution over a `LedgerBucketWindow` | extends `LedgerBucketWindow` |
| `LedgerBucketWindowProofs` | proofs about both | |
| `IngestService`, `IngestServiceProofs` | `service.go`, fee-window loading of `daemon.go`, `get_fee_stats.go` | uses the intervals that `RetainedLedgers` and `BoundedWindow` promise |
| `RequestLimits`, `RequestLimitsProofs` | `backlogQ.go`, `requestdurationlimiter.go` in the order of `jsonrpc.go` | |
| `Backfill`, `BackfillProofs` | `backfill.go`, `ingestRange`, the two `mustBackfill` calls | |
| `PreflightPool` | `pool.go` | |
| `Shutdown` | `Run`, `Close` and `close` of `daemon.go`, `simulateTransaction` in flight, the panic group | extends `PreflightPool` |
| `ShutdownProofs` | proofs about both | |
| `RpcReads` | the reading handlers with the reader API of `ledger.go`, `transaction.go`, `event.go` | the store as `LedgerStore` shows it |
| `CoreReads` | `getHealth`, `getLedgerEntries`, `simulateTransaction`, `sendTransaction` | extends `RpcReads` |
| `CoreReadsProofs` | proofs about both | |
| `Config` | `config/`: sources, setters, validation, `gen-config-file` | |
| `Startup` | `migration.go`, the bulk load of `db.go`, `MustNew` | |
| `StartupProofs` | proofs about `Config` and `Startup` | |
| `MC…` | an instance of each for TLC | |

Conventions. A ledger is its sequence number, and close times travel with it.
A transaction or an event is its ledger and its position. Each SQL statement is
one step; a read transaction's snapshot is taken at its first statement, because
SQLite's `BEGIN` is deferred. A statement, a call to core or to the datastore may
fail wherever the code handles an error. A definition whose comment begins with
"Mutant" is a plausible mistake in the definition after it; it is not part of
the specification and serves to show that a property notices it.

### How state and actions correspond to the code

* **LedgerStore.** `db` is the committed tables; `latest`, `first`, `cacheLock`
  are `dbCache`; `writer` is the `writeTx` with its buffered rows; `reader` is one
  call into the reader API per element of `Readers`. `NewWriteTx`,
  `InsertLedgers`, `FlushWriters`, `TrimTables`, `CommitTx`, `UpdateCache`,
  `PostCommit`, `Rollback` are the steps of a write; `CopyCache`, `QueryOldest`,
  `QueryBoth`, `Memoize`, `PublishLatest` those of a read. `Restart` drops
  everything but `db`.
* **LedgerBucketWindow / FeeWindow.** `buckets` and `start` are the slice and the
  index; `AppendCell`, `OverwriteCell`, `RejectBucket` are the paths through
  `Append`. `computeFeeDistribution` follows the sort, the single pass for the
  mode (`NextFee` is a turn of its loop) and the percentile ranks, and is compared
  with a direct definition, `IsDistribution`.
* **IngestService.** One `pc` for the goroutine, with a step for every call that
  can fail between taking the next ledger and the WAL checkpoint; `err` and
  `retries` are the state of `backoff.RetryNotify`; `stats` are concurrent
  `getFeeStats` calls. Each start is with or without backfill (`Backfills`);
  `unseen` is history: up to which ledger this start left the fee windows empty.
* **RequestLimits.** Three goroutines per request (`server`, `bridge`, `handler`)
  and the one-element channels between them; a timer may fire at any step.
* **Backfill.** `info`, `bounds`, `left`, `right`, `count` are the local variables
  of `RunBackfill`; each chunk is one transaction that trims and updates the
  cache.
* **PreflightPool.** `requestChan` is the buffered channel; the answer channel is
  unbuffered, so delivering a result is one step of worker and caller together.
* **Shutdown.** `stage` is the step of `close`; `graceOver` is `shutdownCtx`;
  `request` is what the HTTP server knows of a client and `method` the goroutine
  that works for it, which outlives the request when a duration limiter answers.
  `CallPool` and `WorkPool` are the pool's own steps. `met` records the closed
  components a request came upon. `once` is the `sync.Once` as its callers see
  it. A panic of ingestion counts it as done before the process exits, as the
  order of the deferred calls has it.
* **RpcReads.** `session` is what a client pages through; `call` is its call in
  progress, one step per access to the cache or the database. The store is an
  interval with a cached latest ledger. Clients do not share state, so one is
  enough. An event query has the merged contracts, types and topics of all
  filters (`combineContractIDs`, `combineEventTypes`, `combineTopics`) and each row
  is tested against the filters (`Matches`) before it counts.
* **CoreReads.** `core` is the last ledger captive core closed. `asked`,
  `entries` and `lost` are what the call in progress has read from it and for which
  keys the query failed; `answer` holds a response in the state in which it is sent. Which entries a simulation
  reads is open.
* **Config.** `settings` maps a source and an option to the text a user gave;
  `cfg` is the struct; `phase` is the position in `SetValues` and `row` the last
  option that the loop it is in has applied, so a step is one option's turn: the
  setter of an option sees what those before it wrote. `strict` is the value of
  `config-strict` when the config file was opened. Options of the same type,
  default and validator are represented by one of them. `GenConfigFile` starts the
  daemon a second time, with the file just written and nothing else.
* **Startup.** The disk (`ledgers`, `rows`, `guard`, `recorded`, `indexes`)
  survives `Crash`; `migration` is the `MultiMigration` with its transaction and
  its writers' buffers. `unmigrated` is history: for each table, the ledgers that had
  no rows in it when its guard was stored outside of the transaction.

## 3. Model checking

| Run | Bounds | Checks |
|---|---|---|
| `ledger_store` | 2 readers, 4 ledgers, window 2 | `CacheCoherent`, `TablesAgree`, `RetentionWindow`, `RangeServable`, `FreshLatest`, refinement, `CallsReturn` |
| `fee_window` | capacity 3, 6 ledgers, up to 2 fees out of 3 values per ledger | `DistributionCurrent`, refinement |
| `ingest` | 4 ledgers, window 2, fee windows of 1 and 2, 2 retries, 2 faults, starts with and without backfill, live network or a load test, 1 caller | `WindowsTrackDatabase`, `FeeStatsCoverLatestLedger`, `NoFatalWithoutFault`, `FeeWindowsComplete`, `LedgersAreIngested`, `CloseReturns` |
| `ingest_one_fault` (violation) | as `ingest`, 1 fault | `OneFaultIsSurvived` |
| `request_limits` | 2 requests, limits 1 and 1 | `SlotsAccounted`, `WithinLimits`, `RequestsAnswered`, `NoGoroutineLeft` |
| `backfill` | 11 ledgers, window 5, chunks of 2, checkpoints every 3 | `GaplessWhileBackfilling`, `WindowFilled`, `ChunksAreNew`, `BackfillEnds` |
| `backfill_gap` (violation) | as `backfill` | `NoGapIntroduced` |
| `shutdown` | 2 clients, 2 workers, a queue of 1, 2 callers of `Close` | `JobsAccounted`, `GracefulForClients`, `QuietAfterClose`, `ShutdownEnds` |
| `rpc_reads` | ledgers 2 to 6 with 2, 0, 1, 2, 0 items, window 2, pages of 2, scans of 2 ledgers, three sets of event filters, core up to 2 ledgers ahead with 2 snapshots, 2 keys | `PagesSkipNothing`, `DeliveredOnce`, `FoundIsCovered`, `EntriesOfOneLedger`, `SentIsAhead`, `LatestNeverGoesBack` |
| `rpc_reads_repeat` (violation) | as `rpc_reads` | `TransactionsDeliveredOnce` |
| `startup` | ledgers 2 to 6, window 3 | `ServingIsIndexed`, `ServingIsMigrated`, `RowsKept`, `StartupCompletes` |
| `config` | 4 settings out of all sources and options, numbers of 3 and 4 bits, zero values of each type | `StrongestSourceWins`, `NetworkCoherent`, `GeneratedFileReproduces` |

Why these bounds are enough for the cases of interest: the number of ledgers
exceeds the retention window by at least two, so that trimming happens while
readers hold older copies; two readers let one memoize while another publishes;
fee windows smaller than the database wrap and are loaded partly; two faults in
ingestion let a fault hit a retry; with one place in each queue two requests
compete for it; with two clients, one worker can be busy with an abandoned
simulation while the other client waits, and a queue of one can be full; core can
forget the ledger a call began with, since it keeps two and can be two ahead; four
settings are enough to name a config file, give the network and let an empty value
of one source hide another's while the network is checked; the backfill
window spans several chunks and the tip can move past a chunk while it is
loaded; a ledger without items and pages smaller than a ledger plus its
neighbour occur in `RpcReads`. The bounds `MaxLedger` and `MaxFaults` are guards
on the environment (no new ledger, no new fault), never on the program.

### Fairness

* `LedgerStore`: the writer's step under the lock is weakly fair (the goroutine
  runs); readers' steps are strongly fair, because `sync.RWMutex` lets a waiting
  reader in after each writer.
* `IngestService`, `Backfill`, `Startup`: the goroutine's own steps are weakly
  fair. In `Startup` this includes the restart by a supervisor, and
  `StartupCompletes` is about behaviours in which kills and errors stop.
* `RequestLimits`: the goroutines of both limiters are weakly fair, their timers
  included. Handlers are not assumed to return (`RequestsAnswered`);
  `NoGoroutineLeft` takes that as its hypothesis (`HandlersReturn`).
* `Shutdown`: workers are weakly fair (a simulation ends: it is a bounded
  computation), and so are the timer of the grace period, the steps of `close`,
  the panic group, and ingestion once it has been cancelled (`CloseReturns` of
  `IngestService`). Nothing is assumed of clients, limiters, method goroutines
  and the admin server. The daemon may stop, so deadlock is not checked there.
* `RpcReads`, `CoreReads` and `Config` have no liveness property and no fairness.

### What the violations show

* `ingest_one_fault`: the fee windows are appended before the commit. A failure
  after that makes each retry fail with "not contiguous", until the service ends
  fatally. A restart repairs it, since the windows are rebuilt.
* `backfill_gap`: a frontfill range of exactly one ledger is skipped, and the
  next starts after it. The final check finds the gap and the start fails.
* `rpc_reads_repeat`: a `getTransactions` page without a new transaction in the
  latest ledger returns a cursor before that ledger's first transaction.

### Observations without a run of their own

Where the code falls short of a comment, a test or what one would expect, the
property that is about it says what remains true: it holds, and it names exactly
the states in which the stronger claim fails.

* The retry budget of the ingestion service is never given back, so failures days
  apart add up.
* `mustBackfill` resets the fee windows "so they re-populate from the database"
  (`daemon/daemon.go:549`), but nothing reads the database again: fee statistics
  start from the ledgers ingested later. `FeeWindowsComplete` says so: after a start
  with backfill the windows hold the newest ledgers after `unseen`, all of them and
  no others.
* When the `Commit` of one sub-migration fails, the loop in
  `MultiMigration.Commit` goes on after the rollback and may store the guard of
  the next one outside of a transaction (`CommitOneAlone`): the table then counts
  as migrated without its rows, although "we don't do "partial" migrations (all or
  nothing)" (`daemon/daemon.go:472`). `ServingIsMigrated` says how far this goes:
  the ledgers that had no rows at that moment (`unmigrated`) may stay without them;
  later ledgers of the table, and the other table, are complete.
* Core is closed before the preflight pool. A simulation whose client was
  answered by a limiter, or one still running after the grace period, reads from
  a closed core; `GracefulForClients` therefore speaks of clients that still wait
  within the grace period.
* A failed query to core inside a simulation is logged and taken for a missing
  entry (`preflight/preflight.go:58`), and the simulation is answered all the same.
  `EntriesOfOneLedger` says that the answer then lacks exactly the entries whose
  query failed (`lost`), and that the others are still of the ledger it names.
* Network options. Without a config file the setters run once per source, and the
  network of the environment together with a passphrase given as a flag is
  accepted; `main_test.go:127` says of two flags that one "should not be able to
  set network option along with network-passphrase". For starts without a file
  `NetworkCoherent` therefore asks that flags which give a passphrase or archives
  give a network too; in all other cases the networks agree. With a file, the
  second pass notices. For the same reason a network given as a flag does not
  override the network of the file but conflicts with it, although the sources are
  loaded again "to overwrite what we got from the config file"
  (`config/main.go:150`). An explicit captive core file is overwritten by the
  network without a config file and wins with one. An empty value in the file hides
  the archives or the passphrase of the environment while the file's network is
  checked, and they come back with the second pass; for starts with a file
  `NetworkCoherent` therefore asks that no two sources give the same one of these
  options.
* A 16-bit option from the environment or a file is checked for 32 bits and keeps
  its low bits (`config/parse.go:120`); as a flag it is refused.
* `gen-config-file` comments out options at their zero value (`false`, 0, `0s`, the
  log level `panic`, which is 0 in logrus), so a zero that overrides a non-zero
  default comes back as the default: `GeneratedFileReproduces` says that it does,
  and that every other value comes back as it was. It excepts the tables, which are
  written with their defaults. Where a required option was missing, the file gives
  the daemon a network it did not have; a captive core file that was given alone
  then gives way to the network's, which is excepted too. An empty list and none
  at all are one value in the model.

## 4. Proofs

TLAPS proves the following for every value of the constants, from the named
assumptions in the modules that declare them: windows, limits, chunk sizes and
the checkpoint frequency are positive, sets of requests finite, the topics of
events and filters are sequences, fees are natural numbers, and the texts of
numeric options stand for integers. The bounds that keep TLC finite (`MaxLedger`,
`MaxFaults` and the like) are constants too, so the theorems hold for any number
of ledgers, failures and restarts.

* **LedgerStore** (`LedgerStoreProofs`): `TypeCorrect`, `CacheIsCoherent`,
  `TablesAlwaysAgree`, `WindowIsGapless`, `RangesAreServable`, `LatestIsFresh`,
  `OnlyExpiredLedgersTrimmed` (`TrimOnlyExpired`, which no run repeats) and
  `Refinement` (it implements `RetainedLedgers`).
  None of them is inductive alone: whether a reader may memoize what it found
  depends on how its copy of the cache relates to the database it queried and to
  the commits since. `IndInv` states that relation for each position of the
  writer and of a reader: a commit in progress holds the lock; the cache is that
  of the committed tables unless it does; a reader's copy and snapshot are
  bounded by what was committed when it took them. One lemma per action.
* **LedgerBucketWindow** (`LedgerBucketWindowProofs`): `WindowTypeCorrect`,
  `LedgersAreConsecutive`, `WindowRefinement`. The invariant adds that only a
  full buffer has a start other than 0. The argument goes through the logical
  sequence `Get(0), Get(1), …`: an append extends it, an overwrite drops its head
  and extends it.
* **FeeWindow** (`LedgerBucketWindowProofs`): `DistributionIsCurrent` and
  `FeeWindowRefinement`, for every number of fees and all their values. The
  prover cannot instantiate an induction rule over a formula, but it can over a
  set: `CountUp` says that a set with 0 which contains k whenever it contains
  k - 1 has all numbers up to n, by a smallest missing number. With it the
  recursive functions of the model are shown to exist and followed turn by turn.
  `SortedBy` says what a sorted sequence is without reference to a permutation:
  its i-th element is at most w just when at least i of the fees are. From it come
  the extremes, the percentiles (the nearest rank is the smallest k with
  100 k ≥ p n) and `ScanInv`, the invariant of the loop for the mode: `local` is
  the number of equal fees before this one, and the mode so far is the smallest
  of the most frequent fees below the current cluster, except in the first one.
* **RequestLimits** (`RequestLimitsProofs`): `LimitsTypeCorrect`,
  `SlotsAreAccounted`, `LimitsHold`. The invariant says for each queue that the
  counter is the cardinality of the set of requests owning a slot, and that those
  past the comparison saw a count within the limit.
* **PreflightPool and Shutdown** (`ShutdownProofs`): `PoolJobsAreAccounted` for
  the pool alone, `JobsAreAccounted`, `ShutdownIsGraceful` and `CloseLeavesQuiet`
  for the daemon. `PoolInv` adds to `JobsAccounted` that a worker has a job exactly
  while it runs or delivers, and that a worker stops only on a closed and empty
  channel. Every step of the daemon is a step of the pool or leaves it alone, so
  the daemon has `PoolInv` too. `DaemonInv` adds what each stage of `close` relies
  on: past the servers no client waits unless the grace period is over, past
  ingestion it has stopped, past the pool it is closed, and calls return when all
  is done.
* **Startup** (`StartupProofs`): `OnlyIndexedServes`, from the invariant that a
  missing index is always in the record on disk, which a killed process leaves to
  the next. `OnlyMigratedServes` and the action property `MigratedRowsStay` rest on
  `RowsInv`: a stored guard vouches for the rows of the retention window (but
  for `unmigrated`, when it was stored alone); past the migrations every guard is stored; and while they
  run, until one fails, a row that is due is in the transaction's table, in a
  writer's buffer or still in the stream. A ledger that is written next to the
  stored ones never lowers the latest one, so the window never grows backwards to
  ledgers without rows.
* **Config** (`StartupProofs`): `SourcesHavePrecedence`, `NetworksDoNotMix` and
  `GeneratedFileComesBack`, for any number of settings and any table of values.
  All three need an invariant over the loops, that is, over `phase` and `row`.
  `PlainValues` says which sources have reached an option that no other option
  writes. `NetworkInv` follows network, archives and passphrase: what a source gave
  stays until a stronger one gives it (`GivenStays`), and from the moment the
  network's setter has run the two others agree with it (`CheckedAgrees`
  for starts with a file, `EarlyAgrees` for those without, `ReadyNetwork`). `GenerateInv` relates the second start to the configuration the
  file was written from (`FromGenerated`), together with the types of the values
  and what becomes of the captive core file (`CaptiveCoreStays`). The attempt to
  prove the last two properties showed that both had been stated too strongly: the
  exceptions under "Network options" above need four settings, and the run then had
  three.
* **IngestService** (`IngestServiceProofs`): `WindowsFollow`, `FeeStatsCover`,
  `FatalNeedsFault`, `WindowsComplete`. `IndInv` names for each step of `ingest`
  the ledger in flight and how far the two windows are ahead of the database
  because of it; a call of `getFeeStats` has read values in an order in which the
  later one can only be larger; without a fault the windows are never ahead
  except inside a step or on the way out. `WindowsComplete` covers starts with
  backfill and load tests: what the windows hold is compared with the ledgers after
  `unseen`, which a start sets and ingestion leaves alone.
  Feeding a ledger to the newest n of an interval gives the newest n of the longer
  interval, which is the one fact about `Push` that the proof turns on.
  `IngestionRefinement` is the other half of the composition with the ledger store:
  the service's steps on its interval of ledgers are those of `RetainedLedgers`,
  which `LedgerStore` implements (from any database it starts on, so it is a
  statement about steps and not about the initial state).
* **Backfill** (`BackfillProofs`): `NoGapBetweenChunks`, `ChunksAlwaysNew`,
  `WindowIsFilled`. The gap check compares a count with the length of a range that
  may come from the cache. `CacheInv` says that the cache is right when a fill
  begins, so that a database which passes is an interval (`CountedRange`);
  `BackInv` then says which: it begins after the next chunk and ends before the
  frontfill, and the renewed left edge never comes so far down that a chunk would
  trim. `FrontInv` says up to where every ledger is stored, trimmed or a
  checkpoint, and that nothing is stored from there on. The final gap check is not
  needed for these.
  From the same invariant, the action property `FillKeepsLedgers` (`FillKeeps`), which
  no run repeats: a fill deletes nothing within a retention window of a stored
  ledger, and a chunk of older ledgers trims nothing at all.
* **RpcReads and CoreReads** (`CoreReadsProofs`, about `CoreSpec`, which has the
  handlers of both): `NothingIsSkipped`, `NothingTwice`, `FoundAlwaysCovered`,
  `EntriesAlwaysOfOneLedger`, `SentAlwaysAhead` and the action property
  `LatestOnlyGrows`. `ReadInv` relates a call in progress to the store (what it has
  read is between what the client knows and what is committed), the entries of a
  simulation to the ledger it asked for, and what the client has got to its
  cursor. The core is one lemma for each paging handler (`LedgersPage`,
  `TransactionsPage`, `EventsPage`): its page, together with the earlier ones, has
  every wanted item up to the new cursor. They rest on facts about finite sets of
  positions: the first n items are closed downwards, and a nonempty set has a last
  one. The latter, and its like in `StartupProofs` and `BackfillProofs`, is proved
  by a smallest counterexample, because the prover cannot instantiate induction.

Only model-checked is everything temporal other than safety
(`LedgersAreIngested`, `CloseReturns`, `CallsReturn`, `RequestsAnswered`,
`NoGoroutineLeft`, `BackfillEnds`, `StartupCompletes`, `ShutdownEnds`): fairness and
`ENABLED` are out of the prover's reach.

Every invariant, every action property and every refinement of a passing run is
proved. `TypeOK` of `LedgerStore` and `ConsecutiveLedgers` are proved for every
instance, and no run repeats them. The inductive invariants of the proof modules were checked with TLC
on small instances before they were proved.

## 5. Not modelled

* The Rust libraries, XDR decoding and encoding, request and response formats:
  pure functions whose results are inputs of the models.
* `getNetwork` and `getVersionInfo`, which report constants, and the checks of a
  request that come before its first read.
* Signals other than as a call of `Close`; a second signal. A panic of a goroutine
  other than ingestion ends the process and is a crash in the models.
* Metrics and logging. Outside of `Config`, options are constants.
* The extraction of fees from ledger metadata, with its unsigned subtraction.
* The integration tests' infrastructure (`integrationtest/`): programs that start
  other processes for tests and measurements.

## 6. Plan

Done: the ledger store and its refinement, the windows, ingestion, limits,
backfill, the pool within the daemon's shutdown, the reading handlers with event
filters, the handlers that ask core, the start, and configuration.

Proved: every invariant and action property of a passing run, and the
refinements.

What could follow:

1. `Backfill` seen from outside: an abstract specification of a database that is
   an interval except while a frontfill runs, and the refinement by `Backfill`.
2. The fee windows of `IngestService` between two restarts as `BoundedWindow`s.
3. The extraction of fees from a ledger's metadata, as the content of the buckets.
