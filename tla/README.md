# Verification of JRVLTSQL

JRVLTSQL pulls horse-racing data out of JRA-VAN's JV-Link (a Windows COM
component behind a small bridge process), parses its fixed-width records and
stores them in SQLite or PostgreSQL. It works in two ways: historical fetches by
date range (command line, quickstart, a background service) and realtime streams
polled while races run. This directory holds TLA+ specifications of the parts of
the program that keep state across failures, interleavings and retries, the TLC
configurations that check them on small instances, and theorems about them that
TLAPS proves for every value of the constants.

All paths below are relative to the root of the repository (`src/fetcher/...`),
where `PROJECT.json` writes them with a leading `src/`.

Contents: 1 the system · 2 the modules · 3 what is checked · 4 fairness ·
5 what is proved · 6 what is only model-checked · 7 disagreements found ·
8 what is not modelled · 9 plan · 10 running it.


## 1. The system

### 1.1 Components

| Component | Code | State it keeps | Operations |
|---|---|---|---|
| Bridge session | `src/jvlink/bridge.py`, `tools/jvlink-bridge/` | child process, `_initialized`, `_is_open`, `_needs_close`; JV-Link's own session and open stream | jv_init, jv_open, jv_rt_open, jv_read/gets, jv_status, jv_file_delete, jv_close, cleanup |
| COM wrapper | `src/jvlink/wrapper.py` | the same, in process | the same |
| Historical fetcher | `src/fetcher/historical.py`, `base.py` | open stream, retry budget, replay count, completeness of the range | fetch, fetch_with_cache |
| NL cache | `src/cache/manager.py` | one append-only file per (spec, date), index of complete dates, checkpoints | write, mark complete, replay, restore, clear |
| S3 synchronisation | `src/cache/s3_sync.py` | local directory and bucket | sync, upload, download |
| Importer | `src/importer/importer.py`, `importer_optimized.py` | row buffers per table, counters, the fingerprint of the last record, "tables are ready" | import_records, import_single_record; one writer per sort of record |
| Batch processor | `src/importer/batch.py` | transaction of a run | process_date_range, process_multiple_specs |
| Database handlers | `src/database/{sqlite,postgresql,dual}_handler.py` | connection, transaction, (dual) in-sync flag | begin, execute, commit, rollback, reconnect |
| Schema, migration, verification | `src/database/schema*.py`, `migration.py`, `verify_*` in `importer.py` | the tables in the database, of this release or an earlier one | create, add columns, verify |
| Realtime fetcher | `src/fetcher/realtime.py`, `database/timeseries_capture.py` | open stream; the stamp of first collection | fetch one key; choose the races of a window and fetch them |
| Monitoring service | `src/services/realtime_monitor.py` | `is_running`, `_stop_event`, polling thread, list of specs, one transaction per cycle | start, stop, add_data_spec, poll |
| Record updater | `src/realtime/updater.py` | what it has written in the caller's transaction | process_record, process_parsed_record, process_parsed_records_batch, replace_date_snapshot |
| Legacy monitor | `src/realtime/monitor.py` | as the service | start, stop |
| Background updater | `scripts/background_updater.py` | three threads, JV-Link lock, updating flags, trigger file, API handlers, rate limit, PID file | historical and realtime update, trigger, stop |
| Process lock | `src/utils/lock_manager.py` | a lock file with a PID | acquire, release |
| Parsers | `src/parser/` | none | buffer to rows, refusal of what the official format does not have |
| Quickstart | `scripts/quickstart.py` | `data/setup_history.json`, a process lock | setup, update, realtime runs |
| Daily update | `scripts/daily_update.py` | none | the sync of the last days |
| Command line, race-day scripts | `src/cli/main.py`, `scripts/` | none of their own | drive the others |

### 1.2 How they interact

    CLI / quickstart / daily_update ──> BatchProcessor ──> HistoricalFetcher ──> bridge client ══> bridge process ──> JV-Link
                                            │                    │  (generator of rows)   (pipes)
                                            │                    └──> CacheManager ──> files, index ──> S3
                                            └──> DataImporter ──> database handler ──> SQLite / PostgreSQL / both
    RealtimeMonitor thread ──> bridge client, RealtimeUpdater ──> database handler
    background_updater: historical thread ──> child process `jltsql fetch`
                        realtime thread   ──> fetch in the thread
                        trigger thread    <── trigger file <── HTTP handlers, another console
    ProcessLock: a file that keeps two runs of the same program apart

* The importer *pulls* the fetcher's generator: fetch, cache write and import are
  interleaved record by record, and an error in any of them unwinds the others
  (the consumer drops the generator; the fetcher's `finally` closes the stream
  and rolls the cache back; the processor rolls the transaction back).
* JV-Link is one session per process with at most one open stream; an open that
  is not closed makes every later open answer -202.
* The database connection is shared by everything in a process; a handler may
  roll a whole transaction back by itself when one statement fails (SQLite) or
  lose it (PostgreSQL), which its callers must notice.
* Processes share files only: cache, lock file, trigger file, PID file, the
  history of quickstart; and the database.
* A record takes one of five ways to its rows: `import_records` in the native or in
  the standard schema, or the updater with a raw record, with parsed rows, or with
  a batch of them. Each has its own checks, grouping and erases.

### 1.3 What is hard

* **Self-repair and replay** - a zero-byte file in the middle of a stream (-402)
  makes the fetcher delete the file, reopen the same window and swallow what was
  already handed out, across window boundaries and with leftovers of earlier use.
* **Buffers against direct writes** - rows wait in per-table batches while
  erases and snapshots are written at once.
* **Failing in the middle** - statements, commits, rollbacks, closes, restores,
  each may fail after others have taken effect; a handler's own rollback changes
  the transaction under the caller.
* **Interleaving** - threads (monitor and its owner; the three loops of the
  background service) and processes (lock file, trigger file).
* **Timeouts and late answers** - a bridge answer after its timeout; a thread
  join that times out; a wait for a download that never ends.
* **Crashes and restarts** - of the bridge, a run, a service, between any two
  file operations, or two statements of a schema upgrade.
* **Several rows for one record** - a header, its children and their children,
  written by one statement after another on one or two databases.
* **Many ways for one record** - buffered, grouped by table, deduplicated or in
  order, by five pieces of code that must mean the same.

The list, each hazard with its line, is `hazards` in `PROJECT.json`.

### 1.4 What makes each component correct

* Fetcher: the rows handed out are those of the provider's stream, once each and
  in order; success means the whole range with the stream closed; every fetch ends.
* Cache: a complete date replays, of every key, what the last complete fetch of
  that key delivered; a failed fetch leaves no trace.
* Import: the database holds a prefix of the stream that ends at a commit point;
  success means all of it; nothing leaks into the next run.
* Bridge session: answers are never taken for those of another command, a stream
  that is open is never forgotten, a new process is initialized before use.
* Monitoring service: one thread, which stop() reaches and ends; what is
  committed comes from streams read to their end.
* Background updater: one update at a time; no failure leaves the lock or a flag
  behind or ends collection; a trigger is taken, and served at most once.
* Process lock: one holder; a dead one does not lock anybody out.
* Coupled writers: what is durable of a record is one whole version of it; what
  is counted is what is durable; a secondary that counts as in sync agrees.
* Collectors: what is stored is whole answers that were read to their end; a run
  that fails changed nothing, one that succeeds stored what it accepted; a window
  opens the races that are due.
* Storage: nothing is written to a table that would change it or let it replace
  another record; a refusal alters nothing; an interrupted upgrade is finished.
* Record types: the rows are what the records taken say in their order, whichever
  way they came; what the official format does not have is refused, and told.
* Drivers: what the history of quickstart vouches for is in the database; a daily
  sync that ends well left no gap in the days it looks back.


## 2. The modules

Conventions: one module per component, one action per operation, handler or step
between two points where another actor can act or a failure can strike; the
comment at an action names what it stands for, and `map` in `PROJECT.json` the
lines. `MC<Module>` gives the constants that a `.cfg` cannot write; mutated forms
of definitions (`Mutant...`) stand right before the definition they mutate and
are used by no specification: each is a plausible bug that makes one of the
properties fail. `<Module>Proofs` holds the theorems; `DriversProofs` holds those of
`FetchWindows` and of `ProcessLock`, the lock a quickstart holds while it runs,
`ProviderProofs` those of `HistoricalFetch` and of `BridgeSession`, the connection
it reads from, `ServicesProofs` those of `RealtimeMonitor` and of `BackgroundUpdater`.

### 2.1 RecordStream and HistoricalFetch

`RecordStream` is what a consumer of `HistoricalFetcher.fetch` is promised: a
request is cut into windows (`Chunks`), the provider offers each as a sequence of
buffers, every buffer's rows arrive exactly once and in order, and `complete` is
said only of the whole.

`HistoricalFetch` is the code.

| TLA+ | Code |
|---|---|
| `phase`, `chunk` | where `fetch` / `_fetch_one_open` is; the window of the loop over calendar years |
| `attempts`, `fetched`, `base`, `remaining` | repair attempts of the request, records fetched in all, at the open, still to be replayed |
| `opened`, `pos`, `version` | JV-Link: a stream is open, its position, which contents it serves |
| `rangeComplete`, `raised`, `recovering` | the completeness flag of the request, the pending exception, a repair under way |
| `BeginFetch`, `Finish` | entry and end of `fetch`; nothing of the object is reset but what the code resets |
| `OpenWindow`, `OpenEmptyWindow`, `OpenFails` | the outcomes of JVOpen |
| `DownloadPoll/Done/Fails` | the wait on JVStatus |
| `ReadWait`, `ReadFileSwitch`, `ReadReplayed`, `ReadRecord`, `ReadRejected`, `ReadEnd`, `ReadFails`, `ReadZeroByteFile` | the outcomes of JVRead in the read loop |
| `DeleteAndClose`, `DeleteOrCloseFails`, `Reopen`, `ReopenRefused` | `_recover_historical_read_error` |
| `Resume`, `Abandon` | the consumer takes the next row or drops the generator |
| `Close`, `CloseFails` | the `finally` block |

The provider is `Offer[c][v]`: for each window several *versions*, with a
timestamp and file count as JVOpen reports them and the buffers that follow.
A reopen may meet any version: the same, one that stops earlier, another.
Assumption `StampIdentifiesStream` is what the recovery relies on and cannot
check: equal timestamp and file count mean the same records as far as both go.

### 2.2 ImportLog and ImportTxn

`ImportLog` promises of `process_date_range` that whole commit groups of the
spec's stream appear in the provider's order, as if the records had been
applied one by one; success means all, and no group with a refused record appears.

`ImportTxn` is `process_date_range` driving `import_records(auto_commit=False)` on
one SQLite or PostgreSQL connection.

| TLA+ | Code |
|---|---|
| `buffer[t]` | `batch_buffers`: positions of the records whose rows wait for table t |
| `committed`, `working`, `durable` | rows others see; rows the connection sees; rows of a commit whose answer was lost |
| `active`, `poisoned` | a transaction is open; PostgreSQL refuses all but rollback |
| `StartRun`, `NextGroup`, `CommitGroup` | the loop over groups: the whole spec, or `SETUP_COMMIT_INTERVAL` records with option 4 |
| `BufferRow`, `ImportDirect`, `FlushRest`, `Write` | a row joins its batch; an erase or snapshot flushes its table and is written at once; the rest at the end of a group |
| `ImportInvalid`, `SkipUnknown`, `SkipFollower`, `RejectGroup` | records refused, counted, or carried by their header record; `_raise_if_rejected` |
| `WriteFails` with `StatementFails`, `CommitFails`, `FetchFails`, `Abort`, `Crash` | failures, the automatic rollback of SQLite's handler and the refusal of PostgreSQL, rollback by importer and processor, death |

A record is `[kind, table, write]`, where `write` maps the rows it sets to a value
and those it erases to `"none"`. How a record type becomes rows is data and left
out; which rows are buffered and which are written at once is control and kept.

### 2.3 NlCache

The cache of one data spec under the fetches that fill it. `bin[d]` is the
sequence of records in a date's file, `complete` the index, `checkpoints` the
lengths to restore to. Records are positions in `Provider`, the order of
publication; each has a publication day, an event date and a key, because JVOpen
selects by publication while the cache files by event date. `byRange` says
whether the opens of the spec take an end as well as a start (`Opened`; RACE only),
`held` which version of each key the last complete fetch delivered. Actions:
`BeginFetch`, `FetchDated`, `FetchUndated`, `EmptyWindow`, `Finish`
(`mark_nl_range_complete`), `Rollback` (a failed, abandoned or incomplete fetch:
`restore_nl` of every touched date; a restore may fail), `BeginClear`,
`ClearFile`, `ClearIndex`, and crashes inside a fetch (perhaps leaving a torn
record) and inside a clear.

### 2.4 ProcessLock

`acquire` and `release` with one action per file operation: `Check` (`exists`),
`ReadPid`, `Probe`/`ProbeFails`, `GiveUp`/`WaitAgain`, `RemoveStale`,
`RemoveInvalid`, `Create` (`open('w')`, which empties), `WritePid`, `Release`,
`ReleaseUnlink`, `Dies`. `linked[p]` says whether the file p has open is still
the one at the path (POSIX lets it be unlinked; Windows refuses). The
specification is called `LockSpec`, with `LockInit`, `LockNext` and `lockVars`, so
that the module can be extended beside `FetchWindows`.

### 2.5 BridgeSession

Client and bridge process over two pipes. A call of the client is one or several
commands (`call`, `awaits`); `stdin` and `stdout` hold the commands and answers
in flight, with the command's number, which the code does not send: relating
answers by their order alone is what `SessionInv` is about. Client actions:
`JvInit`, `JvOpen`, `JvRead`, `JvAsk`, `JvClose`, `Cleanup`, `CleanupDead`, the
`Read...` actions for each answer, `ResponseLost` (timeout, end of file, garbage:
`_abort_process`), `StartFails`. Process actions: `HandlePlain`, `HandleInit`,
`HandleOpen`, `HandleClose`, `HandleQuit`, `Dies`. `com` is what JV-Link has open.

### 2.6 RealtimeMonitor

The service and its threads: `Start`, `BeginStop`, `EndStop` (the join returns or
times out), `AddDataSpec`; and per thread `InitDone/InitFails`, `BeginCycle`,
`OpenStream/OpenNoData/OpenRaises`, `ReadRow`, `ReadAndCommitRow`, `RowFails`,
`EndStream`, `DrainFails`, `CycleOver`, `Commit`, `Rollback`, `CycleRaises`,
`SeesStop`, `Leave`. As in the code `Start` looks at `is_running` only, which a stop
clears although its join timed out, and clears the event the old thread has not yet
seen: any number of threads may then share the one connection and its transaction.
The auxiliary `givenUp` counts the joins that timed out and `overlapped` records that
a start was made over a living thread. A key is a spec with its date or race; `SnapshotKeys` are replaced whole
(0B14), `MiningKeys` commit by themselves when they find no transaction, the rest
is upserted. `db` is what the connection sees, `stored` what is committed, `link`
whose stream the one connection of JV-Link carries.

### 2.7 BackgroundUpdater

The three loops as threads whose `pc` walks `loop`, `check` (the flag), `acquire`
(the non-blocking lock), `mark` (the flag is set), `prepare`, `ready`/`busy` (per
spec), `timeseries`, `clear`, `release`; `todo` holds the updates the trigger
thread has still to run. The trigger file is written in two steps by the handlers
of the HTTP API (in the process, and gone with it) and by a console: `OpenTrigger`
empties or creates the file, `WriteTrigger` writes into it, and a writer whose file
has been deleted meanwhile writes nowhere. `SeeTrigger`, `ReadTrigger`,
`UnlinkTrigger`, `UnlinkFails` are the trigger loop. `Stop`, `Exit`, `Killed`,
`StartService` are the process. The names `UpdaterInit`, `UpdaterNext`,
`UpdaterSpec` let the module be extended beside `RealtimeMonitor`. `sent` and `handled` count the triggers sent and the
triggers that have led to a forced update.


### 2.8 Backends, DualDatabase and CoupledWrite

`Backends` is one connection of SQLite, psycopg or pg8000 and the rows behind it:
each operator is the *set of outcomes* of one call (`connect`, `begin_transaction`,
`execute`, `insert_many`, `commit`, `rollback`, `disconnect`), with the backend
afterwards, whether the call raised, and the faults it took. A statement that
fails rolls SQLite back, leaves psycopg in a failed transaction and pg8000, which
commits each statement unless BEGIN was sent, where it was; connections are
lost; a COMMIT may go unanswered. `DualDatabase` builds the handle of an importer
from one or two of them, in the order and with the exceptions of
`dual_handler.py`, with the transaction identity and the invalidation of
`BaseDatabase`.

`CoupledWrite` is the importer on such a handle. `Script(kind, record)` is the
sequence of statements of a writer: TK, WF, CH, KS, CK, RC and YS, odds and votes
split over header and children, native snapshots, plain rows. `Prepared...` are
its checks before the first statement. The actions walk a batch: `NextBatch`,
`Step` (one statement), `Finish`, then on failure the path of the writer that
failed: `WriterUndo`, `OwnedUndo`, `SnapshotUndo`, `AutoUndo`, `UndoAndRetry`
(record by record), `FallsBack` (row by row), `Each`, `RetryUndo`, `WriterRaises`;
`BeginSingle` and `SingleUndo` are `import_single_record`; `CallerCommits` and
`Exit` end a transaction the importer does not own. `base`, `stuck` and `carried`
are auxiliary: the rows a call found, a session that could be neither rolled back
nor dropped, and a call that began with something pending.

### 2.9 RaceWindow and RealtimeCollect

`RaceWindow` computes which races a time-series run opens: rows of NL_RA that rows
of RT_RA supersede, canceled races, the filter by day and then by minute, and the
refusals (a key whose rows contradict each other).

`RealtimeCollect` runs one of six collectors, all of which open keys one after
another and store the answers by `RealtimeUpdater`:

| Collector | Code | Transaction |
|---|---|---|
| `background` | `_run_realtime_update` of the background updater | one per spec, undone on error |
| `bgtime` | `_run_time_series_update` | one for all specs |
| `quickspeed` | `_fetch_single_realtime_spec` of quickstart | the database context |
| `quicktime` | `_run_fetch_timeseries_rich` | one for all specs |
| `daily` | `_sync_realtime_spec` of the daily update | one per spec, over its days |
| `capture` | `timeseries` of the command line | one per batch |

`Select` chooses keys; `OpenData`, `OpenNoData`, `OpenFails`, `Gather`, `ReadFails`,
`EndResponse` are the stream; `Clear`, `Row`, `Flush`, `Collect` write;
`FinishSpec`, `FinishSpecs`, `FinishRun`, `FinishCapture`, `Exit`, `Crash` end a run.

### 2.10 StorageContract and StorageUpgrade

`StorageContract` is what a table must look like before a record may be written to
it: the generic verification of `migration.py` and one operator for each
`verify_*_storage_schema`. A table is its key, its flaws (of a fixed list: a
missing column, another primary key, a further unique index, a lost default...)
and the type of one column; `Compatible`, `FixedWidthHolds` say which types hold
which official widths without loss. `StorageUpgrade` runs the four ways of
preparing a database (`create_all_tables`, `SchemaManager`, the create-tables
command, the standard-name preparation of an import) as scripts of steps, on the
backends of 2.8, each of which may fail or be the last before a crash. `TableStates`
are the tables there may be (a fixed width is one of codes, only HS has rows of
an old layout, only CK and WF have a parent); the cases explored are among them
(`CasesAreTyped`).

### 2.11 StatusDomain, RecordContracts, RecordRows, RecordMeaning, RecordBoard, RecordLifecycle

`StatusDomain` has the statuses each of the 38 record types may carry, for
accumulated and realtime data and by the date it was made on. `RecordContracts`
says which physical records parse, to which rows, and which rows the
`validate_*_record` functions still refuse. `RecordRows` files rows in the realtime,
native or standard schema. A record is `[type, kubun, made, id, body, slots, time,
n, wire]`: status, key, whether its fields are official, blank, out of domain or
not decodable, the horses or combinations of its repeated part, its version.

`RecordMeaning` says what `docs/record_contracts.md` makes of a record for the rows of
its kind, whichever way it goes and whatever it is handed over with: an erase takes
away what it names (of five types, where the document says nothing of "0", an import
keeps a row that says so), one physical record of odds, votes or mining replaces all
rows of its race (741-743, 814-816, 917-919), anything else is filed row by row.
`RecordBoard` is the promise, for any such meaning: a record handed over is taken, or
refused and then its caller is told; a sequence that is taken adds no row but its own,
and what its records mean in the order they came is there, and nothing else of their
races; what is committed is what the board shows at a moment nothing was refused.
`RecordLifecycle` is the code of the five ways with their buffers, dedupe by
fingerprint, erases, snapshots and rollbacks, and is shown to implement the board. A
batch without an erase or mining is written in two passes, as
`process_parsed_records_batch` does: first every snapshot of odds (`SnapshotsFirst`),
then the rows of all other records by table (`RowsByTable`). The batches explored have
a caller's row of odds before, behind and beside the snapshot of its race.

The code keeps less than the document in places that `RecordMeaning` names, apart from
the meaning, so that each can be struck out (and TLC then finds the stale row):
`Overlaid`, the types of which rows of an earlier snapshot may stay beside those of
the later one - votes outside the standard schema, and odds that
`process_parsed_record` takes row by row or a batch holds beside an erase, mining or
WIN5 records; and `Unsettled`, the races whose rows may be older ones -
a caller's row of odds handed over before a snapshot of its race in one batch
(`Overtaken`: the snapshot is written first, so the older row ends over it), and
horse weights that come again after their erase in the standard schema (`Forgotten`).

### 2.12 FetchWindows

Which days the drivers ask for. `tick` is the clock, `PerDay` ticks to a day;
`Items` are publications with their time and event day. A process is a quickstart
(asked for a mode and period, or for the update that begins at the day of the
last success) or the daily update; `Setup`/`Update` read the settings, `Lock` takes
the process lock or gives up, `FetchSpec`/`SkipSpec`/`FailSpec` go through the spec
list of the mode with `_effective_option`, `Offered` and `Delivered`, `Extras` are the
realtime runs and the background service, `OpenHistory`/`WriteHistory` write
`setup_history.json`, which `open(.., "w")` empties first. `Crash` strikes anywhere.
A setup begins a chain of runs, which updates carry on. Auxiliary parts of the history
say of its chain from which day on its setup was to hold each spec of its list
(`since`, which no update moves), and which publications its runs have moved the
history past without asking for them (`missed`, which only grows): those of a spec
without a contract or outside `UPDATE_SPECS` (`NotFetched`), of a weekly spec what was
older than this week (`BeforeThisWeek`), what appeared after the day the run was
asked for (`AfterItWasAsked`), and what lay beyond its period (`AfterItsPeriod`).


## 3. What is checked

Twelve runs, all of which pass.

| Run | Instance | Shows |
|---|---|---|
| `historical_fetch` | 2 windows, 3 versions each, 2 repairs, 1 poll, 2 fetches of one object | `DoneIsClosed`, `FetchEnds`, `ImplementsRecordStream` |
| `import_txn` | 2 tables of 2 keys, 4 streams, batches and intervals of 2, 3 runs | `NothingLeftPending`, `ImplementsImportLog` |
| `nl_cache` | 3 dates, 5 records, 3 fetches or clears, opens with and without an end | `CompleteDatesReplay`, `FailedFetchLeavesNoTrace` |
| `process_lock` | 3 processes (symmetric), 4 acquires, POSIX and Windows | `SettledHolderKeepsLock`, `NothingLeftBehind` |
| `bridge_session` | 12 commands | `SessionInv`, `CloseIsOwed`, `JVInitComesFirst` |
| `realtime_monitor` | 2 keys of 2 slots, 2 versions, 2 threads, 2 cycles | `StoredStreamsWhole`, `MonitorInv`, `StopEnds` |
| `background_updater` | 3 threads, 2 writers, 2 triggers, 2 starts, 1 spec | `UpdaterInv`, `CollectorsSurvive`, `ServedAtMostOnce`, `UpdatesEnd`, `TriggerIsTaken` |
| `coupled_write` | every writer, 5 handles, 2 keys, batches of 2, 2 calls, 2 failures | `CoupledComplete`, `CountsHonest`, `MirrorInSync`, `OwnedWaits` |
| `realtime_collect` | 6 collectors, 2 keys, 2 versions of 2 slots, 2 runs, 2 failures | `StoredResponsesWhole`, `StoredOddsRead`, `FailedRunStoresNothing`, `SuccessIsStored`, `CaptureIsFirst`, `OpensCurrentRaces` |
| `storage_upgrade` | a table of each type with each deviation beside one to upgrade, 2 commands, 1 failure or crash (2 in imports) | `WrittenIsSound`, `RefusedChangesNothing`, `ResumesAfterInterruption`, `CallerKeepsTransaction`, `ReadyFlagDurable` |
| `record_lifecycle` | 38 types, 5 ways, 3 records, batches of 2 | `BoardKept`, `OneSnapshotPerRace`, `OnlyOfficialStored` |
| `fetch_windows` | 2 quickstarts (symmetric) and the daily update, 3 specs, 5 publications, 3 days of 2 ticks, 3 runs | `UpdatesLeaveNoGap`, `DailyLeavesNoGap` |

The properties in words:

* **ImplementsRecordStream** - every row once, in order, success only for the
  whole. **DoneIsClosed** - a fetch that ends well left no stream open.
* **ImplementsImportLog** - whatever fails, what is committed is whole commit
  groups in the order of the stream; success means all, none refused.
  **NothingLeftPending** - a finished run leaves no transaction that the next
  commits.
* **FailedFetchLeavesNoTrace** - a step that ends a fetch without completing it
  restores every file but those whose restore fails. **CompleteDatesReplay** -
  replaying a complete date ends, of every key, with the version that the last
  complete fetch to deliver the key delivered; where the opens take no end (every
  spec but RACE), that is never older than what the date was marked with.
* **SettledHolderKeepsLock** - once a holder is settled (the file names it and
  nobody is past looking at it) it keeps the lock until it releases it or dies, or
  a probe of its PID wrongly says that it is dead.
  **NothingLeftBehind** - when all have finished and none died, no file is left.
* **SessionInv** - the pipes hold at most the awaited command or its answer.
  **CloseIsOwed** - between calls the client knows of every stream that is open in
  a living process. **JVInitComesFirst** - nothing reaches a process before JVInit.
* **StoredStreamsWhole** - committed rows of a key come from streams stored to
  their end, until a start over a living thread. **MonitorInv** - the threads beside
  the last one started are no more than the joins that timed out, a service that
  calls itself running has a living thread, and until a start over a living thread
  the one that polls can be stopped.
* **UpdaterInv** - the lock is held exactly by the thread inside an update and a
  flag is set exactly while its update runs. **CollectorsSurvive** - neither
  collecting thread ends while the service runs. **ServedAtMostOnce** - no trigger
  leads to two updates, across kills and restarts.
* **CoupledComplete** - what is durable of a coupled record, in either database, is
  one version of header and children, or nothing. **CountsHonest** - after a
  committed import the rows are what the counted records make of those before.
  **MirrorInSync** - a secondary that counts as in sync holds what the primary
  holds. **OwnedWaits** - an import in the caller's transaction makes nothing
  durable.
* **StoredResponsesWhole**, **StoredOddsRead** - what is durable is whole answers,
  and odds only of answers read to their end. **FailedRunStoresNothing**,
  **SuccessIsStored** - the verdict of a run and the database agree.
  **CaptureIsFirst** - a stamp of first collection never gets later.
  **OpensCurrentRaces** - a window opens exactly the races whose current row is run
  and due.
* **WrittenIsSound** - no row is written where the table would change it or let it
  replace another. **RefusedChangesNothing** - a refused preparation altered no
  table. **ResumesAfterInterruption** - without failures, only what a command does
  not repair stops it. **CallerKeepsTransaction** - verification leaves the
  caller's transaction as it found it. **ReadyFlagDurable** - "ready" is true.
* **BoardKept** - the five ways implement `RecordBoard`: what is stored is what the
  document says of the records in their order, but for `Overlaid` types and `Unsettled`
  races; what is not stored is told. **OneSnapshotPerRace** - the
  rows of a race whose answers are replaced whole are of one answer.
  **OnlyOfficialStored** - every stored row, whatever it was batched with, comes from a
  record its own type's official format allows, but on the ways that do not check it
  (`Unguarded`).
* **UpdatesLeaveNoGap** - of the specs of a setup, what was published from its first
  day to the day of the history is in the database the history names, but for what is
  in `missed`. Each of its four causes is needed: without any of them TLC finds the gap.
  **DailyLeavesNoGap** - what was published in the days a successful daily sync
  looks back is stored, for the specs it did not skip.

### Bounds, and why they are enough

* *HistoricalFetch*: two windows are what "counted over the whole fetch instead of
  this window" needs; the second is longer, so a wrong count swallows records
  instead of hitting the end check. Two repairs per request allow one in each
  window, two in one, and a third that exceeds the budget. Two fetches show
  leftovers. The buffers include one with two rows, one beyond `to_date`, one the
  parser rejects. One poll shows both a wait that ends and one that gives up.
* *ImportTxn*: five records with batches of two make a batch fill in the middle
  and leave a rest; a row is buffered, erased and written again, with a row of
  another table in between; intervals of two make groups of 2, 2 and 1; three
  runs allow a failure, a rerun and a different spec on the same connection.
* *NlCache*: three dates give ranges that overlap and one inside another;
  corrections of a record of the first date on the second and third day make
  publication and event date differ; three operations allow complete, clear and a
  narrower refetch, or a failure between two fetches; both kinds of open.
* *ProcessLock*: three processes are a holder, one removing a file it took for
  stale and one creating its own; four acquires let one of them return.
* *BridgeSession*: twelve commands cover two lives of the process with an open,
  a read and a close in each.
* *RealtimeMonitor*: a snapshot and a mining key; the second version withdraws a row;
  two cycles let the second meet what the first left, two threads overlap. The
  invariants also held with a third, upserted key (2.1 million states), where
  liveness takes too long, and with three threads and one cycle.
* *BackgroundUpdater*: one spec per historical update suffices, as the loop over
  specs repeats the same states; two triggers by two writers overlap; two starts
  are a kill and a restart.

* *CoupledWrite*: two keys so that a batch holds the record that fails and one that
  must survive it; each stream puts a record, another, a new version of the first,
  and erases it or ends with a malformed one; handles are SQLite, psycopg and
  pg8000 alone, and SQLite with a psycopg or a pg8000 mirror; two
  failures are one of a statement and one of its recovery.
* *RealtimeCollect*: two keys (a failure at the second meets the first already
  stored), two versions of which the later withdraws a row, two runs, two
  failures; windows that end just before, at and after a race.
* *StorageUpgrade*: one table that is only upgraded stands before the one whose
  contract decides, which is what "altered before refused" needs; every flaw of
  every type is its own initial state; two commands are an interruption and its
  resumption, and a second fault in an import ends the caller's transaction on one
  database after it was already damaged on the other. A caller writes one row, once:
  it is the mark by which its transaction is followed.
* *RecordLifecycle*: the records of a type are two versions for one race, one of
  another race, an erase and one of each sort that must be refused; three of them
  fill a batch of two and leave a rest. Buffers longer than two repeat the same
  step. Batches that are handed over have a caller's row before, behind and beside the
  snapshot of its race, and odds beside an erase, mining and WIN5 records.
* *FetchWindows*: two ticks a day let a publication fall before and after a fetch of
  the same day; three days are one setup, one update and one more; the week reaches one
  day back, so an update two days after the setup comes too late for it; `Far` is
  small enough for a difference that becomes a setup; three specs are one of
  every mode, one with a setup option, one that no update fetches; three runs are two
  that overlap and one after them.

`CHECK_DEADLOCK FALSE` is in every configuration, because every model stops when
its bounded fetches, runs, commands, cycles or starts are used up.

Every property of a passing run has a mutant in `PROJECT.json`: a definition of
the model changed as a plausible bug would change the code (an erase that
overtakes its batch, a flag cleared before the event, a release outside a
`finally`, a commit before the verdict, a failed spec that counts as done),
under which TLC finds the property violated.


## 4. Fairness

Only liveness properties need it; no safety property does.

* `FetchEnds` - weak fairness of `Step`: the import loop drains the generator,
  every JV-Link call returns (the bridge bounds each by a timeout), waits give up.
  `Abandon` is not fair: nobody promises to drop a generator.
* `StopEnds` - weak fairness of each thread's `LoopStep`, without failures of
  initialization and cycles: the thread is scheduled and its calls return.
  The property excepts a `start()` that clears the event first.
* `UpdatesEnd`, `TriggerIsTaken` - weak fairness of each thread's `Update`, of the
  trigger loop, and of a writer that has opened the file: JV-Link calls are
  bounded and a `fetch` child is killed after 600 seconds. Loops waking up,
  stops and kills are not fair. `TriggerIsTaken` excepts a stopped service and a
  trigger thread that has ended on an error, which the code allows.


## 5. What is proved

For every value of the constants that satisfies the named assumptions, by TLAPS
(SMT, Zenon, and PTL for the temporal step):

| Module | Theorem | States |
|---|---|---|
| `ProviderProofs` | `FetchInvariant`, `InOrder`, `Whole`, `ClosedAtEnd`, `Refinement` | `[]FetchInv`, `[]DeliveredInOrder`, `[]DoneIsWhole`, `[]DoneIsClosed`, `ImplementsRecordStream` |
| `PersistenceProofs` | `ImportInvariant`, `CommittedIsPrefixAlways`, `DoneIsCompleteAlways`, `NothingLeftPendingAlways`, `ImportRefinesLog` | `[]ImportInv`, the three properties, `ImplementsImportLog` |
| `PersistenceProofs` | `CacheInvariant`, `NoTrace`, `CompleteDatesReplayed` | `[]CacheInv`, `FailedFetchLeavesNoTrace`, `[]CompleteDatesReplay` |
| `DriversProofs` | `LockTypes`, `SettledStays`, `NoFileLeft` | `[]LockTypeOK`, `SettledHolderKeepsLock`, `[]NothingLeftBehind` |
| `DriversProofs` | `WindowsInvariant`, `NoGapBeforeUpdates`, `NoGapInDailyWindow` | `[]WindowsInv`, `[]UpdatesLeaveNoGap`, `DailyLeavesNoGap` |
| `ProviderProofs` | `InStep`, `CloseOwed`, `InitFirst` | the three properties |
| `ServicesProofs` | `MonitorInvariant`, `StoredWhole` | `[]MonitorInv`, `[]StoredStreamsWhole` |
| `ServicesProofs` | `UpdaterTypes`, `UpdaterInvariant`, `CollectorsGoOn`, `ServedOnce` | types, `[]UpdaterInv`, `[]CollectorsSurvive`, `[]ServedAtMostOnce` |
| `RealtimeCollectProofs` | `WindowsOpenDueRaces`, `FailuresStoreNothing`, `SuccessesAreStored` | `OpensCurrentRaces`, `[]FailedRunStoresNothing`, `[]SuccessIsStored` (the last without the `capture` collector) |
| `RealtimeCollectProofs` | `OddsAreRead` | `[]StoredOddsRead`, with every collector, on one database or a mirrored pair |
| `StorageUpgradeProofs` | `StorageInvariant`, `RowsAreSound` | `[]StorageInv`, `[]WrittenIsSound` |
| `StorageUpgradeProofs` | `CallerInvariant`, `CallerIsKept` | `[]KeepsInv`, `[]CallerKeepsTransaction` |
| `StorageUpgradeProofs` | `ReadyHolds` | `[]ReadyFlagDurable` |
| `RecordLifecycleProofs` | `LifecycleInvariant`, `OneSnapshotAlways`, `OnlyOfficialAlways` | `[]LifecycleInv`, `[]OneSnapshotPerRace`, `[]OnlyOfficialStored` |
| `RecordLifecycleProofs` | `LifecycleRefinesBoard` | `BoardKept`: the five ways implement `RecordBoard`, but for `Overlaid` and `Unsettled` |
| `CoupledWriteProofs` | `FlowHolds`, `CallerOwnsCommit` | types and `[]FlowInv`, `OwnedWaits` |
| `CoupledWriteProofs` | `CoupledRowsComplete`, `MirrorHolds`, `CountsHold` | `[]CoupledComplete`, `[]MirrorInSync`, `[]CountsHonest` |

The arguments:

* **Fetcher.** `FetchInv` adds to the types: windows behind are whole and windows
  ahead untouched (`WindowOrder`); JV-Link's position, the replay count and what
  the consumer has are tied (`ReplayPosition`: rows received = position, less what
  is still to skip); what was handed out fits every version a repair would accept
  (`DeliveredFits`, the step that uses `StampIdentifiesStream`); the stream is
  closed between windows (`StreamClosed`). Without `DeliveredFits` a reopen could
  not be shown to continue the prefix. The refinement follows step by step: a
  record maps to `Deliver`, an open or reopen to `Serve`, waits and replayed
  records to stuttering.
* **Import.** `ImportInv`: what is committed is the content of a prefix at a commit
  point (`CommittedPrefix`); what waits in a buffer is later than everything its
  table has been given (`BufferOrder`); the connection sees the records read, less
  the buffered ones (`WorkingPrefix`); nothing is open between groups
  (`GroupClosed`). The lemmas `ContentCompose` and `FlushInOrder` say when
  applying records in two portions equals applying them in order; `BufferOrder`
  is what makes a flush such a case. The refinement maps `CommitGroup` to
  `Commit`, everything in between to stuttering.
* **Cache.** `AppendedSinceCheckpoint`: a file is what it was when the fetch
  began, followed by what the fetch appended, and the checkpoint is the border.
  For the replay, `ReplayInv` adds: only a crash leaves torn records (`WholeFiles`);
  what was promised of a complete date has been published
  (`PromisesArePublished`) and of its key a version is held (`PromisesHeld`); a running fetch has appended to each file exactly what
  it was sent of that date, in order (`AppendedInOrder`), behind a file that ends
  as held (`FilesEndAsHeld`); a clear empties a file before it
  leaves it (`ClearedAreEmpty`). A file then ends with the last version of a key that
  the last fetch was sent, or as before where it was sent none (`CompleteEndsWith`).
  That this is no older needs that a fetch without an end is sent everything from its
  start on (`PromiseIsHeld`); with an end it is not true. The theorem needs `PublishedInOrder` and
  `KeysHaveOneDate`, no bound on dates, records or fetches.
* **Lock.** A settled holder's file is named by it and every other process is
  before its check; a case per file operation. That nothing is left behind rests
  on `FileIsOwned`: while nobody has died, a blank file is open for writing in some
  process and one with a PID names a process that holds it or is about to unlink
  it, so when all have finished there is none. It is a statement about POSIX,
  where no unlink fails because another process reads.
* **Windows.** `Vouches` says of a history what the property says of the one on disk. It
  is kept because `GoodJob` follows a run from its settings to the write: the window
  of each spec it has fetched is stored (`StoredSoFar`), an update begins
  on the day up to which the history it has read accounts for everything, in that
  history's database (`JoinsOn`), what it did not ask for enters `missed`, and other
  processes only add to a database. Runs that overlap, fail or die
  need no assumption; the days are related by `DayIsMonotone` alone.
* **Collectors.** For the window, the filter by whole dates drops only keys that the
  filter by minutes would drop (`OnItsDay`), so what is opened is what is due
  (`TargetsAreDue`). For the verdict, `CollectInv`: until it is judged, a run of the
  five collectors with one transaction writes inside it, so the store is what it was
  at the start, and the connection sees exactly what was accepted unless a failure
  was counted (`InsideOneTransaction`); after the verdict, a failed run has nothing
  left to commit and a successful one has committed or has it still to do on the
  way out of its context (`JudgedFirst`). The step lemmas rest on one lemma per call
  of a handle (`BeginIs`, `ExecuteIs`, `CommitIs`, `RollbackIs`, `DisconnectIs`,
  `ContextExitIs`, ...), each proved from one per call of a session: of a mirrored
  pair the primary decides, whatever the secondary does. `CollectInv` and these lemmas
  hold for SQLite, psycopg and pg8000, alone or mirrored.
* **Odds.** `Rows(W)` are the rows whose odds are of the publications `W`, `Lines(W)` the
  statements that store only such odds. Of the databases `OddsInv` says that what is
  durable in the primary is in `Rows(whole)`, of the responses read to their end, and
  what its connection sees in `Rows(Seeable)`: those and, while the rows of a response
  are being applied, that response; anything once the run is doomed. It needs
  `ReadInv` (the rows read are of the response being read; those a capture holds
  back are of whole ones) and `DoomInv` (a run that raised or counted a failure is
  not committed); which responses a secondary holds, `StoredOddsRead` does not say.
  Calls keep rows in a set the statements do not leave (`StoreIs`, `InsertManyIs`,
  ...); a batch of any length does by unfolding its recursion as above (`InOrderIs`,
  `OrderedBatchIs`, `GroupedBatchIs`). A response joins `whole` only once it was
  read to its end, before its rows are applied where they are gathered first and after
  them where they are applied as they come (`OddsWhole`), and only then may the
  transaction be judged a success (`OddsFinish`).
* **Storage.** That a row is harmed only where a verification lets it be needs one
  more fact at each step of the way. `VerifiedIsSound`: what a verification admits
  harms no row, whatever the types, widths and scales (by record type, over
  `CompatibleKeeps`). `PutUpgrades`: a statement turns a table only into what it was,
  a created one, one with a column more or one with rows, and each keeps a sound
  table sound (`UpgradedIs`). `Grown` ties what is seen to what is durable, so that
  a rollback, a lost connection or a failed commit brings back only tables from
  which the sound ones grew (`DerivedIsSafe`). The tables a writer verified are never
  verified again: `StorageInv` says they are sound on every open database, and
  keeps it because nothing stays verified when the handle is closed, and a
  secondary that was not connected at the verification does not connect
  afterwards. A lemma per call of a session, of a handle and of a command says that it
  leaves the handle in `HandlesOf(verified)`. Neither the number of tables and
  commands nor the drivers, faults and crashes matter, and no induction over the script
  of a command is needed: any order of its steps would do.
* **The caller's transaction.** Here the order of the steps does matter. `KeepsInv`
  has two parts. `OwnInv` says where the caller's row is: in its transaction on every
  database while the import runs (`Holding`), nowhere durable until the caller ends
  it; and that a session at rest has nothing begun. `ScriptInv` says of the steps that
  are left that what verifies, alters or closes comes after the entry of the
  preparation or under a snapshot that already tells the caller's transaction from the
  import's own (`Snapped`), and that ready comes right after a close. The scripts have
  it whatever the number of tables (`ImportScriptIs`, from what a part of one kind of
  step adds, `Joined`), and taking the first step away keeps it (`TailOf`), so the
  proof needs no induction over the list of tables. That a step spares the row is
  again a lemma per call of a session (`Keeps`), of a handle (`Carries`,
  `SparesBoth`) and of a command; closing what the preparation opened leaves alone
  what was pending before it (`CloseCreatedSpares`). An outcome in which a catalog
  could not be read and was taken for an absent table is marked `unsure` and excepted.
* **Ready tables.** That the remembered "ready" is durable takes the tables one by one:
  `ReadyInv` says that a table is `Fit`, as its writer expects it on every open
  database, once the step that decides on it is no longer left (`Decides`: the check of
  an ordered master, the upgrade of any other), and that between two steps nothing
  altered waits for its commit (`Even`), since each migration commits what it added
  before it verifies. So what a verification has seen is durable. The
  steps that follow cannot undo it: tables only lose deviations (`Finer`, `FinerFits`),
  and a lemma per call of a session and of a handle says that a call which returns
  without a fault keeps what holds of every table of both sessions (`Held`, `Steady`,
  `Clean`); after ready come only rows and the commit (`InOrderOf`, `WritesOnly`),
  which touch no columns. A fault makes the step raise, and then nothing is remembered,
  or leaves the importer `unsure`. The proof takes the steps of `KeepsInv`
  from the front of the script as well and needs no induction.
* **Records.** `Sound` says of rows that none is outside its contract, unless its
  way does not check it, and that a race has one snapshot; `LifecycleInv`, that the
  rows as of the last commit and as the connection sees them are sound and
  that everything buffered came through the checks of an import (`Buffered`). A lemma
  per way says that what it accepts is within its contract (`ListedRowIsLawful`,
  `OrderedIsLawful`, `GroupedIsLawful`, `ImportableIsLawful`, ..., over
  `ValidatedIsOfficial` and `ParsedIsOfficial`, a case per record type), and one that
  a native snapshot never waits in a buffer (`SnapshotsDoNotWait`). For the
  refinement, a lemma per way says that what it does to the rows is what the record
  means, but for older rows of overlaid types (`Reads`; `SingleMeans`, `SnapshotMeans`,
  `WaitingMeans`, `SplitMeans`, `PerformedMeans`, ...): that takes that 9 deletes only
  where the status contract refuses it (`DeletesAreErases`), that a snapshot which
  passed its checks has its key in every row (`SnapshotIsKeyed`), and that a row
  dropped for its key had nothing to file (`UngroupedFilesNothing`). Of a sequence,
  `Close` compares one race in what was written and in what is meant, and a record keeps
  them close (`CloseStep`). For a batch in two passes that is an induction over both at
  once (`GroupedRace`): of a race that is not overtaken no snapshot comes behind a row,
  so the first pass is close to the meaning until the first row of the race, and the
  second, which up to there has not touched the race, goes on from what the first one
  left. The board sees
  `Shown`, the rows with the buffer written; `BoardInv` adds that only an import
  buffers, that an import that is done has written everything, that without a
  transaction nothing is pending, and that the record the fingerprint remembers
  is there already or is the one that is lost (`Echoes`), which is why skipping it
  is right. Recursion over a sequence (`_flush_batch`, `InOrder`, `SnapshotsFirst`,
  `RowsByTable`, `MeaningOfAll`) is unfolded once for each (`FlushGoes`, ...): the recursive
  function exists because its steps stay inside a set (`Iterates`), and what every
  step keeps the last value has, by a least counterexample (`UpTo`).
* **Coupled writers.** Three layers: what a call makes of a session (`BeginsTo`,
  `ExecutesTo`, `CommitsTo`, ..., from the outcomes in `Backends`), of a handle
  (`BeginsHandle`, ..., from `DualDatabase`), and the writers. `Spares` says of a call
  that it leaves what is durable alone and that what is seen is as it was or forgotten:
  every begin and every undo is such a call (`UndoSpares`, `BeginSpares`). `FlowInv`
  says which transactions are open in which phase; from it and `ExecuteWaits` follows
  `OwnedWaits`.

  For what the statements make of the rows, `Leads(driver, rows, scripts, X)` says
  that the scripts that are left lead from these rows into X, by way of a set of rows
  between every two scripts: one step forward is a lemma (`LeadsStep`), and no
  induction over scripts or batches is needed. `ScriptReplays` says of each writer's script,
  `StatementsReplay` of each batch, that it leads from whole rows to what its records
  tell, which takes that children are replaced or merged under the same numbers
  (`FullRows`) and that an insert of many rows keeps the last of a key.
  `WholeInv`: what is durable is whole; what is seen is whole outside a record being
  written, and there the remaining statements make it whole. A writer without a
  transaction has one statement left (`OneLeft`), so nothing less than whole can
  be committed by itself.

  `MirrorInv`: the statements left lead both sides from what each sees to the same rows,
  and both hold the same durable rows but between the last statement of a pg8000
  primary outside a transaction, which is durable at once, and the commit of its
  secondary (`Ahead`). `WrittenInv`, that a connection works when the last statement
  returned, keeps a commit from ending in a rollback on one side only.

  `CountInv`: what is durable is near what the counted records make of the rows the call found
  (`Near`). Near and not equal, because a record whose failure may leave its rows
  pending is *frail*: an erase applied outside any writer, and a snapshot. Where
  such a call raised, what is seen may differ from what is durable in the keys of
  frail records, and a later call starts from there; each is overwritten by the
  time its record has been taken (`Later`), so that at the end of the stream near is
  equal (`NearAtEnd`). `PlaceInv` says that records are counted in the order of the stream and
  that a frail one is a batch of its own, which is what makes replaying portion
  after portion the same as replaying all of them (`ReplayTwice`, `NearFurther`).
* **Bridge.** The five conjuncts `SessionInv`, one line in flight (`OneLine`), what
  a response tells (`ResponseTells`), the order of JVInit (`JVInitInTime`,
  `JVInitComesFirst`) are inductive together: an answer in the pipe must already
  agree with what JV-Link has open and with what the client will then note.
* **Monitor.** `OneThreadPerGivenUp` is inductive because a thread is left behind only
  by a start, which needs the last one to have been given up (`CanBeLeft`). While no
  start has overlapped, `StreamInv` relates the rows a thread has written to the version it
  drains, `TransactionOfCycle` says whose transaction is open, `Newest` that
  versions only grow, which is what an upserted key needs.
* **Updater.** `LockHeldInside` and `FlagsAreTrue` are inductive with the fact that
  a service that is down has no lock and no thread (`Quiet`); for the triggers,
  `handled` plus the triggers taken or in the file never exceeds `sent`.

Assumptions on constants are named in the modules that declare them
(`CountsAreNaturals`, `OfferIsTyped`, `StampIdentifiesStream`, `StreamsAreTyped`,
`ProviderIsTyped`, `PublishedInOrder`, `KeysHaveOneDate`, `WindowsAssumption`,
`WindowAssumption`, `CollectAssumption`, `CasesAreTyped`, `KindsAreKnown`,
`StreamIsParsed`, `HandlesAreKnown`, ...), and TLC evaluates them on each run. Most
only say of what sort a constant is. Those that say more are facts about the
provider: `StampIdentifiesStream`, and of the cache that publications are ordered
and a key has one event date. `RecordsAreTyped` lets a record be any
combination of the fields of section 2.11, of any type, in batches of any length and mixture;
only the names that mark rows ("head", "odd", "erased") are kept out of slots and
versions. `CollectAssumption` asks that every key has a day
and the commands' rows and windows are those of `RaceWindow`, `AnswersAssumption` that
an answer stores and erases rows and that the odds it stores are of its own publication.

Every inductive invariant above was checked by TLC before it was proved;
`CollectInv` with all collectors on single databases, and without `capture` on a
mirrored psycopg and pg8000 pair as well.


## 6. What is only model-checked

* Liveness (`FetchEnds`, `StopEnds`, `UpdatesEnd`, `TriggerIsTaken`): liveness
  under fairness and ENABLED are out of this prover's reach.
* Of RealtimeCollect: `SuccessIsStored` for `capture`, `StoredResponsesWhole`,
  `CaptureIsFirst`. What a capture accepted and which rows of an answer are
  whole are outcomes of a fold of the community modules over its rows: what such
  a fold leaves needs induction over its sequence.
* Of StorageUpgrade `RefusedChangesNothing` and `ResumesAfterInterruption`: both say
  why a command raised. That takes the converse of the lemmas above for every step,
  that in a working session a call without faults returns, and which tables the
  steps already taken named, where those of `fetch` and `manager` are filtered from
  the list of tables.

Out of the prover's reach as well: the library's induction theorems (they take an
operator as a parameter) and modules with RECURSIVE operators, of which there are
none. What is recursive is a recursive function over the positions of a sequence
(see Records above) or stated through the last writer of each row. Facts about a
fold of the community modules would have to be stated over the operator it takes, so
the steps that use one are model-checked.


## 7. Disagreements found

Statements of the repository that the code does not keep, met while modelling.
Each behaviour is one the models have; no run asserts its opposite.

1. `_drain_key` returns on -1 without `jv_close`
   (`src/services/realtime_monitor.py:322`): the next key's JVRTOpen is answered
   -202 and skipped, against the contract quoted in `src/jvlink/bridge.py:699-702`
   and `tools/jvlink-bridge/Program.cs:240`. `scripts/daily_update.py:141` does the
   same. (`RealtimeMonitor.OpenNoData`, `RealtimeCollect.OpenNoData`.)
2. `_initialized` outlives the bridge process: after a lost process and a refused
   JVInit the new one counts as initialized, against `src/jvlink/bridge.py:656-657`.
   (`BridgeSession.Abort`, `ReadInitRefused`.)
3. After an automatic rollback inside a monitoring cycle the next mining record
   begins and commits its own transaction, against "in the caller transaction"
   (`src/realtime/updater.py:625`). (`RealtimeMonitor.ReadAndCommitRow`.)
4. A record about an earlier date is cached under that date while the range is
   marked complete, so a hit does not replay it, against
   `src/fetcher/historical.py:420`. (`NlCache.FetchDated`.)
5. Two processes that start together both hold the lock, against
   `src/utils/lock_manager.py:5-6`. (`ProcessLock.Check`, `Create`.)
6. "Coupled master writes must never enter the parent-only fallback"
   (`src/importer/importer.py:8984`), but the list above it lacks NL_CK: when a CK
   batch and its rollback both fail, CK parents are inserted without children.
   (`CoupledWrite.PlainFallsBack`; `CoupledComplete` excepts such a session by `stuck`.)
7. "The same as last time, differences only" (`scripts/quickstart.py:917`): the update
   stores `update_specs` and fetches `UPDATE_SPECS`, so a spec of the setup that is
   not among those (BLDN, SLOP, WOOD, ...) is never updated while the history moves
   on, as it does past a spec that has no contract. The weekly specs (TOKU, RACE, TCVN,
   RCVN) are asked for with option 2, so after a pause longer than this week the
   days between are never fetched, though the range shown begins at the last
   success (1073). The history also takes the time of its writing: what is published
   between the fetch of a spec and midnight is missed by the next update if the run ends
   the day after; and an event after the last day of a run is dropped.
   (`FetchWindows.Missed`, which `UpdatesLeaveNoGap` excepts.)
8. "without partial success" (`docs/record_contracts.md:123-127`): a WF batch that is
   grouped drops rows with an incomplete key and lets the rest be committed, and
   tells its caller. (`RecordLifecycle.Groupable`.)
9. Odds by `process_parsed_record`, or in a batch with an erase, mining or WIN5 records,
   are upserted, so the combinations of the answer before stay, against
   `docs/record_contracts.md:917-919`; so are votes in `NL_H1`, `RT_H1`, `NL_H6` and `RT_H6`,
   against 741-743 and 814-816. (`RecordMeaning.Overlaid`.)

Also seen: a batch writes its odds snapshots before its rows, so a caller's row of odds
handed over before a snapshot of its race ends over it (`updater.py:960-967`,
`RecordMeaning.Overtaken`); after a clear, a fetch of a narrower range of RACE leaves an older version
in a complete date (publications after the last day asked for are not sent: fetch 1..3,
clear of day 2, fetch 2..2 puts the correction of day 2 behind that of day 3 in the
file of day 1; `NlCache.Opened`, and why `CompleteDatesReplay` compares versions only
where opens take no end); a restart over a stop whose join timed out makes two polling
threads, where the class promises one (`src/services/realtime_monitor.py:61-63`, 119),
and two threads commit each other's half-read streams (`overlapped` in
`RealtimeMonitor`); the trigger thread ends on the first
error it meets; a trigger that finds JV-Link busy is used up without an update; a
kill of the service leaves its fetch child running; the rate limit is checked and
recorded in two steps; a crash between unlinking and index in `clear` leaves
complete dates without data; two processes on one cache directory lose each
other's marks; `import_single_record(auto_commit=True)` counts a row before its
commit; identical horse weights after their erase are skipped (`importer.py:8608`);
`table_exists` takes a failed read for an absent table (`sqlite_handler.py:255`); on
psycopg a failing CREATE undoes the CREATEs before it that were reported done
(`schema.py:3023`); the mining specs of quickstart's realtime run are always
rejected (`updater.py:1258-1275`); an erase under `auto_commit` whose commit fails stays
pending on both databases (`importer.py:8504-8516`, no rollback at 8642-8658), and if the
first statement of the next call fails on a SQLite primary, which rolls back, the
secondary keeps the erase and commits it later while `secondary_in_sync` stays true
(`carried` in `CoupledWrite`); a rejected subscription after rejected rows
returns "skipped" and commits a part (`quickstart.py:3060`).


## 8. What is not modelled, and why

* *Inside the modelled components*: `process_multiple_specs` (no caller uses its
  shared transaction); RT cache files (append and read only), unreadable index
  files, two processes on one cache directory; a PID that the system gives to
  another program; counters and error lists of the monitoring service; the bridge's
  payloads, dialog watcher and the commands no client sends; the rate limit, PID
  file and schedule of the background service and the fetch child that survives a
  kill; the values of columns that no rule and no later read depends on; the
  dialogue of quickstart.
* *Narrowed properties*: `MirrorInSync` is stated for a psycopg mirror and not for
  single auto-committed records nor after a call that began with something pending; `CompleteDatesReplay` not for
  dates a crash hit; `StoredResponsesWhole` not for a spec whose partial answer a
  collector lets through; `StoredStreamsWhole`, and that a polling thread can be stopped,
  not after a start over a living thread; `UpdatesLeaveNoGap` not for
  specs skipped or outside `UPDATE_SPECS`, weekly specs after a longer pause, runs past
  midnight nor events beyond a run's period; `BoardKept` not for older rows of `Overlaid`
  types nor for `Unsettled` races; `CallerKeepsTransaction` and `ReadyFlagDurable` not
  after a catalog that could not be read. In each case the code does what the
  property would forbid, and the models show it if the exception is removed.
* *Whole components*: S3 synchronisation (file transfers without a protocol of
  their own), the legacy monitor (superseded), the COM wrapper (the protocol of
  `BridgeSession` in process), column definitions, indexes and comments (data);
  command line and race-day scripts (argument handling, and sequences of calls into
  the modelled parts); maintenance scripts, configuration, logging, progress,
  self-update.
* *Everywhere*: the layout of records, SQL text, logging, progress display; the
  clock, but in RaceWindow and FetchWindows (elsewhere a timeout is an event that
  may happen).


## 9. Plan

Modelled and checked: all modules of section 2. Proved: those of section 5.

Proofs that remain, in this order: `RefusedChangesNothing`, with `ReadyInv` and the
totality of calls without faults; `SuccessIsStored` for `capture`, with what it
expects written as a recursive function, as its batches are; `CaptureIsFirst`, which
takes that no run stores again a row it has erased.

Models that could follow: a composition of NlCache and ImportTxn (a complete range
is in the database or replayed to it), two processes on a cache directory, the
rate limit of the HTTP handlers, the fetch child as a process.


## 10. Running it

    tlc -workers 2 -config ImportTxn.cfg MCImportTxn     # a run: see "runs" in PROJECT.json
    tlapm PersistenceProofs.tla                          # a module's proofs

The largest state spaces are FetchWindows (2 million distinct states), CoupledWrite (about a
million), NlCache (476 thousand), BackgroundUpdater (201 thousand, with liveness) and
RealtimeMonitor (176 thousand, with liveness), one to three minutes each.
