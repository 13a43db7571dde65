# MySQL-to-Async: a TLA+ model of the synchronisation service

The service copies MySQL tables to a MySQL target (*full load*), follows the
source's binary log into MySQL, Kafka or a webhook (*incremental*), or does one
after the other (*ALL*). This directory holds TLA+ models of its protocols, TLC
configurations that check them on small instances, and TLAPS proofs.

Paths below are relative to the repository. `FL/` is `internal/sync/fullload/`,
`TS` is `internal/task/application/service/task_service.go`, `SS` is
`internal/sync/application/sync_service.go`, `SUB` is `pkg/binlog/subscriber.go`,
`CMP` is `internal/task/application/service/row_count_comparison.go`.

Check a run with `tlc -config <cfg> <module>`, a proof with `tlapm <module>.tla`.
`PROJECT.json` lists the runs, the source lines of every definition (`map`), a
mutant of the code for every property that must break it, the hazards and the
findings.

## 1. The system

```
 user, scheduler --> TaskService ---- task file
                       | one run (goroutine executeSync) per start
          +------------+---------------------+
          v                                  v
   full load (V1: TaskService;       incremental (IncrementalSyncService)
              V2: fullload.Engine)
   readers -> batchQueue -> writers  Subscriber -> handler -> sinks
          |          |                       |         |
     source rows  target tables,        checkpoint   MySQL (+ mark table),
                  marker rows                        Kafka, webhook
```

| Component | State | Operations | Hard because |
|---|---|---|---|
| Writers, tx markers (`FL/writer.go`, `tx_marker.go`) | open transaction, its batches, marker id, retry counters | take, begin, write, commit, verify, replay, report | a COMMIT whose answer is lost; plain INSERTs may not be repeated |
| Queue, completion tracker, engine (`FL/queue.go`, `completion.go`, `engine.go`) | a sub-queue per table, byte counts, in-flight counts | Put, GetUntil, Close, report, callbacks, error choice | condition variables, writers bound to one table, errors and stops at any point |
| Chunk planning and reads (`FL/chunk.go`, `reader.go`) | boundaries, a cursor per chunk | plan, batch query, probe and fetch | no snapshot: the table changes between queries |
| Coordinator, attempts, staging (`FL/read_coordinator.go`, `retry.go`, `table_state.go`, `staging.go`) | attempt ids, in-flight batches, staging tables | submit, fail, retry, publish | late batches of a failed attempt |
| Task lifecycle (`TS`, `full_load_v2.go`, `domain/entity/task.go`) | status, phase, sub-phase, manifest, P0, P1, schedule; runs; locks | start, pause, end, skip, schedule, edit; the steps of a run; recovery | user operations, other runs and crashes between any two steps of a run |
| Incremental sync (`SS`, `SUB`, sinks, checkpoint) | open sink transactions, skipped sinks, mark, checkpoint | event, commit, save, catch-up bound, stop, close of the sinks | several systems that commit one after the other; replay after a failure; a stop that closes sinks in use |
| Legacy engine, V1 (`TS` 2900-6100, `cursor_reader.go`, `data_writer.go`) | tables and their ranges, a transaction per worker, the indexes left out | create, drop indexes, cut, read, write, retry, commit, restore | workers whose transactions fail alone; ALTERs that fail half way or answer nothing |
| Task archive (`TS`, `domain/entity/task.go`) | the registry in memory, its copy in a file or in MySQL | save, snapshot, delete, close, load, change of storage | writers of one file with and without the mutex; a crash in the middle of a write |
| Row-count comparison (`CMP`) | registered comparisons, status in the task | start, connect, count, book, cancel, wait | runs in the background; delete and shutdown wait for it |
| Task events, read-only protection, API, UI, configuration, metrics | | | not modelled, see section 8 |

How they interact. A run of the lifecycle copies with the engine that
`full_load_engine` names, the legacy one (V1) when it is empty. It passes V2
callbacks: `IsStopped` and `StopCause` (the task's status, polled), `OnCommit`
(progress), `OnTableStateChange` (the manifest) and `OnTableDataReady`. The
lifecycle owns the checkpoint: it stores P0, the source's position before the
copy, then takes P1 after it, replays P0..P1 (bounded catch-up) and goes on as a
stream. Readers and writers meet only in the queue and in the completion
tracker. The stream's handler calls the sinks one after the other and then saves
the checkpoint.

What must hold. Writers: no batch twice, none counted before it is there. Pipeline:
success means everything was written; the pipeline always ends. Reads: a key at most
once, a row that stays at least once. Lifecycle: no change lost between copy, catch-up
and stream; what a resumed load skips is there. Stream: nothing skipped, whole
transactions in order, once where the target can remember its position, but for what a
stop does to a sink in use (section 5). Legacy engine: a completed table has every row
once, and the target gets back every index that was left out. Archive: what the next
start loads is the task as it was; whoever waits for a comparison gets an answer.

## 2. Modules

| Module | Models | Role |
|---|---|---|
| `AtomicApply` | what the write side promises | abstract specification |
| `WriterTx` | `writerLoop`, `commit`, replay, markers, and the target server's decision | implements `AtomicApply` |
| `WriterTxProofs` | | 6 theorems |
| `FullLoadPipeline` | read workers, `batchQueue`, completion tracker, writers, `Engine.Run` | a transaction is one step here; `WriterTx` has its inside |
| `FullLoadPipelineProofs` | | 7 theorems |
| `ChunkedRead` | `planIntegerRange`, `planKeysetBoundaries`, `nextKeysetBatch`, `nextTwoPhaseKeysetBatch`, the application | |
| `ChunkedReadProofs` | | 3 theorems |
| `TableAttempt` | `readTableWithRetry`, `tableStateTracker`, `chunkScheduler`, `readCoordinator`, staging; readers and writers as far as they count batches | one table of V2 with retries |
| `TableAttemptProofs` | | 3 theorems |
| `DeferredIndexes` | the frame of a V1 load: target tables, indexes left out or dropped, rollback, restore | base of `LegacyFullLoad` |
| `LegacyFullLoad` | the copy of V1: tables, ranges, workers, transactions | extends `DeferredIndexes` |
| `LegacyFullLoadProofs` | | 5 theorems, of both modules |
| `TaskLifecycle` | a `SyncTask`, its runs, its file, its checkpoint, its tables | a table copy is two steps here; the pipeline has its inside |
| `TaskLifecycleProofs` | | 5 theorems |
| `TaskArchive` | the registry and its copy in the storage, progress snapshots, row-count comparison, delete, close, load | |
| `TaskArchiveProofs` | | 2 theorems |
| `TransactionLog` | what a stream promises to a target that keeps its position | abstract specification |
| `IncrementalSync` | subscriber, `syncEventHandler`, sinks, mark table, checkpoint | implements `TransactionLog` |
| `IncrementalSyncProofs` | | 7 theorems |
| `MC*` | constants for TLC | |

The models meet at their interfaces. `TableAttempt` has what the pipeline leaves out,
several attempts at one table, and takes a transaction as one step, as the pipeline
does. `TableAttempt` and `LegacyFullLoad` end as `TaskLifecycle`'s `EngineDone` and
`EngineFails` say; `TaskArchive` details the saves that `TaskLifecycle` takes as one
step, and knows of a run only its status. `WriterTx` delivers what the pipeline's
`Commit`/`CommitFails`/`Report` assume: a transaction happens or not as a whole and is
reported only if it happened (the outcome "committed but failed" of `CommitFails` is
`WriterTx`'s fail-closed exit). The pipeline's result is `TaskLifecycle`'s `EngineDone`,
`EngineFails` and `EngineEndsEarly`. The end of a subscription in `IncrementalSync` is
`StreamEnds` and `CatchUpFails` there.

### WriterTx

`pc` is the place in `writerLoop` and `commit()`. `buf` is `buf`/`pending`,
`sess` what the open transaction has on the server, `doubt` a transaction whose
COMMIT was sent on a connection that broke: the server alone decides it, at any
later time. Reading the marker `FOR UPDATE` waits for that decision
(`LockedRead`); with a plain read (`PlainRead`, the mutant) a batch is doubled.
Retries inside `replayInFreshTx` change nothing and are stuttering steps. Not
modelled: what an INSERT says, sizes, the commit interval (a commit may come at
any time).

### FullLoadPipeline

Everything under one lock is one step; `blocked`/`woken` and `wait`/`get` are the
two sides of `notFull` and `notEmpty`, and `Signal` wakes one waiting writer,
which may be the wrong one. The limit of a table is half of the queue's, at most
`SoftCap` (32 MiB in the code). A writer is bound to the table of the batches in its
transaction. `rcancel`, `wcancel` and `cancelled` are the readers', the writers'
and the engine's contexts. `StopTask` may come at any time; `IsStopped` answers
from then on, the watcher cancels later. A chunk's error cancels the readers only
while its table's `submitTable` waits; later there is no attempt to cancel
(`SetTableErr`). The model has no retries of a table: a
chunk's error ends the readers, as without `read_retry_times`; `TableAttempt` has
them.

### TableAttempt

`pc` is the place in `readTableWithRetry` and `submitTable`; `att`, `inflight` and
`phase` are the `TableLoadState`, `disk` its phase in the task file. `todo` and `active`
are the scheduler's entry of the table, `regAtt`, `regCtx` and `tabErr` the
coordinator's maps, `ended` the attempts whose context is cancelled. A reader keeps the
attempt it looked up (`job`), so it may outlive it; a writer asks `IsCurrent` when it
takes a batch and not again. `rows[a]` is the staging table of attempt `a` and
`twice[a]` what was inserted there more than once, so that a batch that comes twice is
seen whoever brings it. A reader picks its chunk in one step and asks for the attempt in
another (`lookup`); when `Submit` registers an attempt in between, the model notes it in
`marred` ("early"). `DROP`, `TRUNCATE` and `RENAME` wait for open transactions
(`OpenOn`). `marred` names why an attempt may be incomplete; `NextRun` is the run after
a failure or a crash.

### DeferredIndexes and LegacyFullLoad

`phase` and `cur` are the place in `executeFullSync`: the tables are created one
after the other, then copied by `TableWorkers` at a time, then `Collect`,
`CatchUp` (mode ALL) and the restore. The catch-up ends only when the source
commits once more, so `CatchUp` is a step of the environment (`SourceStep`) and not
a fair one. A unique index may contain an AUTO_INCREMENT column (`AutoInc`) without
identifying the rows: `CREATE TABLE` keeps it. `idx[t]` are the secondary
indexes on the target, `saved[t]` is `savedIndexes`, `todo[t]` what is still to be
added. An ALTER of one index type is one step, and may have happened when its
connection breaks. Each worker has a range (`cut`), a cursor, a batch in its hand and
a transaction; `Leaves` is the deferred `Rollback`. `rolled` collects what a lock
retry rolled back and the cursor has already passed. The number of batches
between commits differs between one worker alone and several (`CommitAlone`,
`CommitEvery`).

### ChunkedRead

A key stands for its place in the index order. A query takes at most `BatchRows`
keys above the cursor, or fewer (`BatchBytes`). The application inserts and
deletes between any two queries; `stable` are the keys that were never missing.
A transient error of a query is retried from the same cursor and changes nothing.
The step of the sampled boundaries follows from an estimate that may be wrong;
the model lets it be anything from `MinStep` up.

### TaskLifecycle

A user operation holds `TaskService.mu` and is one step. A run takes the mutex
anew for every change, so it has a step for each (`pc`, `loc` are per run). A
position is a number of changes; `seen[t]` says how far a table reflects the
source without a hole. `base[t]` is what a copy left: nothing, a part, all.
`doubled` are tables copied over rows that were there. `disk` is the task
file; a save whose error the code only logs may leave it behind. `CrashAndRestart`
loads it and runs `recoverFullLoadV2States`.

### TaskArchive

A section that holds `s.mu` is one step up to its `Save`; the `Save` takes time
(`io`), and `io.by = Mu` says that the mutex is held meanwhile. A worker's
progress snapshot (`shots`) is taken under the mutex, checked under it again and
written without it, under the storage's own mutex only. Of `LastUpdateTime` only
"the task has changed since" is kept (`late`); `SkipError` changes the status without
advancing it. `ReinitStorage` may take the same directory or database again, the
one of the other kind that was left with an older copy (`left`), or an empty one; a
snapshot that the old storage is writing goes on there (`astray` when that is the
present place, else `elsewhere`). A file is truncated before it is
written (`Torn`); a row of MySQL is replaced at once. The comparison looks at its
context before each table and after the last (`NextTable`), so a cancel during a
count is booked as that table's error first. `del` is the place in
`DeleteTask`, `waits` whether `Close` found a comparison to wait for; `reg` and
`cmp` are `comparisonCancels` and the goroutine. `missed` and `overtaken` are the
two known reasons why the copy may lag behind.

### IncrementalSync

A source transaction has `Size[t]` events, 0 when it touches none of the task's
tables. `pend` and `active` are the sinks' open transactions, `out` what they
delivered, `mark` the position kept by a durable sink in one of its schemas.
Every error ends the subscription: the handler's state goes, the sink
transactions are rolled back (`Ends`). A `Stop` cancels the context and then closes
the sinks one by one in its own goroutine (`CloseSink`), with the handler anywhere
between two calls. A closed MySQL sink has no transaction: its commit does nothing
and reports success (`CommitsNothing`, kept in `overtaken`), unless the mark before it
failed; rows written to it may be executed outside of a transaction or never
(`Strays`, kept in `strayed`). A closed Kafka or webhook sink has no client any more and
its commit ends the process, which is `CommitFails`. The end of RunFrom after
`canal.Close` is the library's. A commit that fails may have happened
(MySQL), or may have delivered some of the events (Kafka, webhook). `gap` records
that a subscription started at the source's position because the checkpoint could
not be read, which the code only logs.

## 3. Runs that pass

The runs that end in a violation are in section 4.

| Run | Instance | Shows |
|---|---|---|
| `writer_tx` | 3 batches, 2 retries | `NeverTwice`, `AckedIsDurable`, `DoneIsComplete`, `StopIsClean`; every run of a writer ends; `AtomicApply` is implemented |
| `pipeline_one_table` | 1 table, chunks of 2 and 1 batches, 2 writers, room for 2 batches, all faults | with one table success means every batch is there once, and the table was announced |
| `pipeline_two_tables` | 2 tables, one with a batch larger than the buffer, 1 writer, all faults | the byte bound; no table announced too early while nothing failed; the pipeline ends |
| `chunked_read` | keys 1, 2, 4, 5 (a gap), up to 3 chunks, batches of 2, 2 changes, both read modes | boundaries increase; no row read twice; with one query per batch a row that stays is read |
| `lifecycle_all` | ALL with drop-before-DDL, with and without staging, 2 tables, 3 starts, 1 change on the source, 1 fault of any kind | `NoGap`, `PublishedIsThere` |
| `lifecycle_full` | FULL and ALL, rebuilding or not, repeat and cron schedules, edits of the mode, 2 starts, 1 fault | `CompletedMeansCopied`, `RebuildNeverDoubles` |
| `attempt` | a table of two chunks with a batch each, 2 readers, 1 writer with transactions of 1 or 2 batches, 1 retry, 2 faults of any kind in the first run, a second run | no batch twice in the present attempt's staging table or in what is published (`StagedOnce`, but for "early"), `PublishedIsComplete` |
| `legacy` | a table of 4 keys (a gap) cut into 2 ranges, and a table without a key that exists with indexes of its own; 4 configurations; every fault, at any time, any number of times | `WrittenOnce`, `CopiedOrRolledBack`, `IndexesBack`; no unique index during copy and catch-up in mode ALL but the identity and, on a table the run creates, those with an AUTO_INCREMENT column (`UniqueOffButAutoInc`); every run ends or waits for the source in the catch-up (`EndsOrAwaitsSource`) |
| `archive` | file and MySQL, a comparison of 2 tables, a worker that reports progress, 4 calls, 1 fault, 2 starts | `ArchiveIsCurrent`, also with SkipError and when the storage is switched, back and forth or to the same place; nobody waits for a comparison for ever, and none stays CHECKING (`NobodyHangs`) |
| `incremental` | MySQL, Kafka and webhook; 4 transactions of 2, 0, 1 and 1 events; catch-up to the first; 3 errors, stops or crashes | nothing skipped, in order, MySQL exactly once (`TransactionLog`), each but for a transaction whose commit at MySQL a stop overtook; the catch-up delivers nothing after its bound, the stream drains |

Why the bounds are enough. Two batches of one transaction and a third one distinguish
"rolled back with the others", "replayed" and "not yet taken"; the retry counters reach
their limit and both sides of it. Two chunks of one table and a second table make all
the cases of a writer's binding; a buffer of one or two batches blocks every reader, and
a `SoftCap` below and above half of the buffer is met by some instance. Four keys with
three chunks give an empty chunk, an inner one and both open ends; one insert and one
delete, or two of either, reach a batch that lost all its rows. Three starts are a first
run, a resumed one, and one after that was interrupted; one change on the source
suffices to be lost. An empty transaction, one with two events and two with one
distinguish "within", "between" and "after"; one stop reaches a sink that is closed in
each of these places; three faults allow a fault, a second one during the replay and a
third during that one. A repeat count is always 2. One retry makes an attempt and the
one it must be kept apart from; two faults are the one that ends the first attempt and
one that meets the second; two batches may share a transaction, which then may belong to
two attempts. With faults in both runs (`FaultyRuns = 2`) the instance of `attempt` has
7.2 million states and passes too. Two ranges have the open and the bounded end of one;
a commit after two batches leaves one to roll back; an index of each of the kinds
"unique", "identity", "plain" and "auto-increment" (which may be unique), of two types,
takes every way of the frame. Four calls are create, start and two that race, or lead to
a comparison; the safety half passes with five too (`MCArchiveLong.cfg`); two starts are
a crash and the load after it.

`CHECK_DEADLOCK FALSE` is set where a run, a load or a stream may legitimately
be over or idle.

Restrictions of the passing runs that matter. `pipeline_one_table` checks `NoSilentLoss`
for one table because it fails for two (section 4). In `lifecycle_*` the user starts a
task only after its earlier run has ended (`Patient`), `lifecycle_full` leaves out
SkipError, and a checkpoint is lost only while an unfinished task is idle; section 5
says what happens otherwise. `incremental` has one target schema, and
`PublishedIsComplete` and `ArchiveIsCurrent` name their exceptions, for what section 5
lists. `NothingSkipped`, `TransactionsInOrder` and `ExactlyOnce` except an overtaken commit,
`StagedOnce` an early pick and `UniqueOffButAutoInc` the AUTO_INCREMENT indexes: each is
what is left of a stricter property that section 5 shows violated. `CopiedOrRolledBack`
excepts exactly the rows of section 4's `legacy_loss`. `attempt` checks safety only;
that an attempt ends is checked by `MCAttemptEnds.cfg`, with one fault in either run.

**Fairness.** The goroutines of one component keep running (`WF` on the writer's, the
readers', the engine's, the service's steps): Go's scheduler runs a goroutine that can
run. The target server eventually decides a transaction whose client is gone.
`StreamDrains` also takes an ended subscription to be started again, which a user or the
scheduler does. In `legacy` it is enough that some goroutine of the run goes on; the
catch-up's end is left to the source, which need not commit. `NobodyHangs` takes a Save,
a query of the comparison and the rest of a DeleteTask or Close that has begun to be
carried out; that a mutex is free again is not assumed but follows. Nothing assumes that
a fault, a stop, a change of the source or a user's operation happens.

## 4. Disagreements between code and comments

Each has a run whose property states what the comment or the documentation says,
and fails:

* `pipeline_loss` / `NoSilentLoss`: with two tables the queue can close while
  every writer is bound to one of them; each leaves after its commit, the other
  table's batches stay in the queue, and the load succeeds (`FL/queue.go:195`,
  comments `FL/engine.go:228`, `FL/queue.go:281`).
* `legacy_loss` / `CompletedIsCopied`: a parallel V1 worker that meets a lock wait
  rolls back every batch since its last commit and writes only the last one
  again; the table completes without the others (`TS:3938`; README.md:479,
  docs/CONFIGURATION.md:372).

## 5. Further disagreements

Seen with the same modules. The first group has a configuration to repeat each:

* `MCIncrementalStop.cfg`, `CommittedBeforeSaved`: `Stop` closes the MySQL sink between the
  handler's mark and commit. `Close` rolls back and forgets the transaction, the commit
  finds none and returns nil, and the checkpoint is saved past it
  (`mysql/sink.go:328`, `SS:229`, `SS:502`; comment `SS:382`).
* `MCIncrementalStray.cfg`, `InsertedOnce`: when the context is cancelled already, the
  rollback in `Close` fails and `Close` returns early; a row that the handler still
  writes is executed outside of a transaction and without a mark, and inserted again
  by the replay (`mysql/sink.go:379`; comment `SS:384`).
* `MCIncrementalCatchUp.cfg`, `CatchUpEnds`: a catch-up that reached its position cancels
  a context that `RunFrom` does not look at; it ends with the source's next
  transaction, on an idle source never (`SS:463`, `SUB:165`; comment `SS:314`).
* `MCAttemptTwice.cfg`, `NothingTwice`: a reader picks a chunk of the failed attempt and
  asks for the attempt only when the next one is registered, which reads the chunk
  too: rows are twice in the published table, or, where the copy has a unique key over
  them, the INSERT and the table fail (`FL/read_coordinator.go:113`; comments
  `FL/options.go:129`, `FL/options.go:132`).
* `MCLegacyUnique.cfg`, `UniqueOffWhileCopying`: in mode ALL a unique index that contains
  an AUTO_INCREMENT column is created with the table and is there during copy and
  catch-up (`TS:5274`-`5281`; comments `TS:5259`, `TS:8140`).
* `MCPipelineReady.cfg`, `ReadyIsComplete`, and `MCAttemptLoss.cfg`,
  `PublishedHasEverything`: a failed chunk is counted as done before its error is
  recorded, so that a table may be announced, and with staging published, in
  between (`FL/read_coordinator.go:135`; comments `FL/completion.go:8`,
  `FL/table_state.go:16`).
* `MCChunkedReadLoss.cfg`, `StableRowsRead`: in two-phase mode, a probe whose rows
  have all gone by the time of the fetch ends the chunk (`FL/reader.go:693`,
  comment `FL/reader.go:694`).
* `MCIncrementalMarks.cfg`, `NoDuplicate`: with two target schemas the schema of
  the mark table depends on the order of a Go map at each start; a replay may miss
  the mark (`SS:171`, comment `SS:384`).
* `MCArchiveStale.cfg`, `NeverOvertaken`: a progress snapshot is checked under the
  mutex and written after it is released; in between the task may be completed
  or deleted, and the copy is older than the task, or there again
  (`TS:6893`, comments `TS:6820`, `TS:1426`).
* `MCArchiveSealed.cfg`, `GivesUpForAReason`: with an encryption key `Save` puts
  encrypted passwords into the configuration that a comparison shares, which
  then connects with them and fails.
* `MCLifecycleStopped.cfg`, `StoppedIsFinal`: `PauseTask` has no guard, an ended
  task becomes PAUSED and can be started (`TS:7017`; "STOPPED 为用户确认结束的终态",
  `TS:1493`).
* `MCLifecycleDouble.cfg`, `NoDoubleCopy`: without drop-before-DDL an interrupted
  load that has a manifest is started again and INSERTs over the rows of the first
  (`FullSyncIncomplete` is false then); the message at `TS:1645` says such a
  restart is refused.
* `MCLifecycleSeed.cfg`, `NoGap`: a FULL task that completed and is edited to
  INCREMENTAL has no position and starts at the source's current one (`TS:2511`).
* `MCLifecyclePause.cfg`, `PauseHolds`, and `MCLifecyclePhase.cfg`,
  `PauseKeepsPhase`: `completeTask` does not look at the status, so a run that is
  past its last check completes a paused task; a run that fails to get its locks
  marks a paused task's load as failed (`TS:2483` says the phase is kept).
* `MCLifecycleOverlap.cfg`, `CompletedMeansCopied`: when the user starts a task
  again before the paused run has ended, two runs of one task overlap and the
  first marks the load completed (`TS:3174`).

Without a configuration, either because the models except them by name or
because they lie outside the models:

* A chunk, its reader, or a batch that a writer has taken, may outlive its attempt: its
  `markDone` and `markTableFailed` then hit the entry of the next attempt, and a
  transaction that holds batches of two attempts is counted under the last one (`marred`
  = "outlived"). With two retries it is enough that `submitTable` returns an error of
  the attempt before and leaves its own chunks in the scheduler: no reader works when
  the third attempt starts, one then takes a chunk of the second, and its `markDone`
  ends the wait of the third too early. The proof of PublishedIsComplete needed this
  case named; the runs have one retry and never meet it. A stop or another table's
  failure rolls back and releases the batches in flight, and the barrier lets the
  attempt through ("rolledBack").
* `submitTable` may see the cancelled context before the recorded error, and
  `Canceled` is not retryable: the retry that `FL/retry.go:18` promises is lost.
* When the only deferred index of a V1 table is that of an AUTO_INCREMENT column,
  the index is kept at creation and then picked by `dropDeferredIndexes`; MySQL
  refuses and the load fails.
* A `dropDeferredIndexes` whose rollback fails, or a run that fails later, leaves
  the target without indexes of its own, and nobody remembers them.
* A task file that many saves in a row left behind may call a table PUBLISHED which
  a later run has dropped to copy it again; after a crash the resumed run skips it.
  `Save` in `TaskLifecycle` can reach this (a FULL task with staging and
  drop-before-DDL, and some ten failed saves before the crash).
* SkipError on a RUNNING task makes `IsStopped` answer TRUE, the readers end as if
  read; scheduled again in that moment, the load completes with nothing copied.
* A crash in the middle of a write leaves a task file that the next start skips:
  the task is gone. A change of the storage does not copy the tasks.
* `Subscriber.Stop` holds the subscriber's mutex while `canal.Close` may call
  `OnPosSynced`, whose handler takes the mutex (`SUB:188`, `SUB:376`); `PauseTask`
  calls it under `TaskService.mu`. The models take Stop to return.

## 6. Proofs

TLAPS checks these for every value of the constants that the module's assumption
allows. Each invariant property of a passing run is stated by a theorem, most of
them without hypotheses; where there are some, they are named below with the reason.

`WriterTxProofs` (any set of batches, any retry limit): `TypeCorrect`,
`NoDuplicate` (`[]NeverTwice`), `ProgressIsDurable`, `DoneMeansComplete`,
`StopIsExact`, `Refinement` (`AtomicApply`). `NeverTwice` is not inductive: the
invariant `IInv` says what each place of `commit()` knows of the target. Until
COMMIT is sent nothing of the transaction is there and its marker is new; after
an unknown COMMIT the server either still holds exactly this transaction, or it
has decided and the marker row tells which way; and no batch is lost between
queue and progress.

`FullLoadPipelineProofs` (finitely many tables, chunks and writers, any batches,
weights and faults): `TypeCorrect`; `BufferIsBounded` (`[]BufferBound`), for which
`CurBytes`, a fold over the tables, is shown to be the number of units in the
sub-queues, so that a step on one of them changes the sum by its own share;
`NothingStoredTwice`; `ReadyTablesAreComplete` (`[]ReadyWithoutErrors`). The
invariant has four parts: what a writer holds at each place of its loop; what
contexts, errors and the end of the run say of each other; that a batch that was
read is in one place, with its reader, in the queue, with one writer or out of the
pipeline; and that, as long as nothing is disturbed, a batch that left the pipeline
is on the target and the tracker counts exactly those on their way.
`OnlyTheQueueIsLost` says for any number of tables what a run that succeeds may
have lost: the batches still in the queue, nothing else, and it has announced the
tables with an empty sub-queue. So the loss of section 4 is the only one.
`OneTableNothingLost` (`[]NoSilentLoss`) and `OneTableAnnounced`
(`[]OkAnnouncesAll`) add the hypothesis of one table: a writer that leaves found
its own sub-queue empty, which is then the whole queue.

`ChunkedReadProofs` (any set of integer keys, any plan, any number of changes):
`TypeCorrect`, whose core is that the boundaries of both planners increase
strictly (`DivStrict`, `BoundariesIncrease` for the arithmetic one), `NoKeyTwice`
(`[]KeyOnce`) and `PlainKeepsStable` (`[]PlainReadsStable`). The invariant: a key
that was emitted lies at or below the cursor of its chunk, a probe lies above the
cursor of its chunk, and the chunks are disjoint. For a row that stays, and one
query per batch, the converse: every key has a chunk, and those at or below its
cursor were emitted.

`TableAttemptProofs` (finitely many chunks, readers and writers; any batches,
retries, faults and runs): `TypeCorrect`, `NothingStagedTwice` (`[]StagedOnce`)
and `PublishedWhole` (`[]PublishedIsComplete`). `StagedOnce` needs more than that a
table the present attempt may write into was emptied: that a batch of it can be
inserted only once. `Once` says so: as long as no attempt was registered under a
reader that had picked a chunk, a batch of the present attempt is in one place at
most (ahead of one reader, in the queue, in one writer's hand or buffer, or in the
table), for a chunk is taken from the scheduler once and a batch leaves each place
when it enters the next. `PublishedIsComplete` needs an attempt's in-flight counter against the
places a batch can be in: while nothing mars the attempt, the counter is at least
the number of batches on their way, and greater once one was lost, so that the
barrier before the publication does not open; and until the data are ready every
row is ahead of a reader, on its way, in the staging table, or kept out of it by
such a counter. Its proof needs a case named that the runs with one retry do
not meet (chunks of the last attempt but one left in the scheduler, section 5);
`Outlives` is that name.

`LegacyFullLoadProofs` (any tables, keys, batch sizes, indexes, workers, retries
and faults): `TypeCorrect`, `EachRowOnce` (`[]WrittenOnce`), `CopyIsComplete`
(`[]CopiedOrRolledBack`), `IndexesAreBack` (`[]IndexesBack`), `UniqueIsOff`
(`[]UniqueOffButAutoInc`). For the frame: an index that the run took away or
left out is always on the target, in the list saved for its table, or in what the
restore still has to do. For the copy: the boundaries between the workers never
decrease, whether they come from the range or from a sample (`CutsOrdered`), so
each row is in the part of exactly one worker; of its part a worker has dealt with
the rows up to its cursor and with no other, and each of these is committed, in
its transaction, or rolled back, in one of the three only.

`TaskLifecycleProofs` (any tables, positions, starts and faults): `TypeCorrect`
without hypotheses. The others follow from an invariant over the 30 places of a run,
and each has the hypotheses without which it is false:

| Theorem | Property | Hypotheses |
|---|---|---|
| `PublishedIsWhole` | `PublishedIsThere` | no save fails |
| `RebuildIsClean` | `RebuildNeverDoubles` | `Patient` |
| `CompletedIsCopied` | `CompletedMeansCopied` | `Patient`, `Undisturbed`, `FileTrusted` |
| `NothingLeftOut` | `NoGap` | these, and `Modes = {"ALL"}` |

`Patient`: the user starts a task when its earlier run has ended (section 5 has
what happens otherwise); then at most one run is live (`Serial`). `FileTrusted`:
either saves do not fail or the process does not crash, so a restart reads the task
as it was; a stale file may call tables published that are gone (section 5).
`Undisturbed`: where SkipError is used the task is not planned and is never refused
a start, and a task that can be ended is not edited. SkipError and EndTask change
the status of a task whose run they do not cancel; the engine may then end early
(`EngineEndsEarly`) and, if another operation makes the status look harmless before the
check after it, the load is marked completed. `Held` says that within the
hypotheses this does not happen: a run is at work on a RUNNING task that owns it,
or it is cancelled, or a stop is on record that no operation takes back.
`Complete` then says for each place of a run which tables are copied. `NoGap`
needs `Followed` besides. No position is ahead of the source. A fresh load takes its P0
when no table is published and saves it as checkpoint before it is marked started;
a resumed one keeps both, or puts the saved P0 in the place of a lost checkpoint.
A table copied or published since is at least at P0 and at the checkpoint; past the
copy all tables are level with the checkpoint, and the catch-up and the stream
begin there. The mode ALL is needed because an edit from FULL to INCREMENTAL
leaves P0 out (section 5). `Held`, `Complete` and `Followed` were checked by TLC on
instances of up to 2.9 million states before they were proved. `lifecycle_all` and
`lifecycle_full` also have a failed save or a crash, but one fault in all: the
smallest instances where a stale file does harm have far more.

`IncrementalSyncProofs` (any sinks, any transactions, any number of schemas and
faults): `TypeCorrect`, `NothingIsSkipped` (`[]NothingSkipped`),
`MarksAreDelivered` (`[]MarkMeansDelivered`), `OrderIsKept`
(`[]TransactionsInOrder`) and `CatchUpDeliversNoMore`
(`CatchUpStops`, given a durable sink; without one a finished catch-up may still
send part of a transaction to Kafka before its commit fails). `NothingSkipped`
speaks of the checkpoint alone and is not inductive. `IInv` adds what each place
of a transaction knows: the stream stands at the checkpoint; an open sink
transaction holds exactly the events dispatched so far; after the last event a
sink holds them all or has them; what a mark covers every sink has, so a sink may
be skipped; and before the save every sink has the transaction. The one durable
sink committing last is what keeps the mark honest, and the proof uses the
assumption that there is at most one. A sink closed by a stop is either a durable one
whose open transaction is gone, and then the step after the mark puts the
transaction into `overtaken` before the checkpoint may pass it; or the handler fails
before it gets there. `FollowsTheLog` is the refinement
`ExactlyOnce` (every step is a step of `TransactionLog` or leaves it alone) and
`NoEventTwice` that no event is committed twice at the durable sink (an overtaken
commit is the log's step `Miss`; what strays outside of transactions is not in `out`).
Both take one target schema: with two, a restart may keep the mark in another one (section 5).

`TaskArchiveProofs` (any number of workers, tables, calls, faults and starts, both
storages, with or without an encryption key): `TypeCorrect` and `CopyIsCurrent`
(`[]ArchiveIsCurrent`). The invariant adds to it what is being written (under the
mutex the task as it is; a worker's snapshot the task as it is, or an overtaken
one, or the task is just being deleted), that a snapshot which is not late is the
task as it is, but for the status before its check, and that no task can be created
while one is deleted. The proof uses that a worker is not the holder of the mutex,
and both comparisons in `shouldPersistAsyncProgressSnapshot`: that of the times for
every change but SkipError, which does not advance `LastUpdateTime`, and that of the
status for SkipError.

Least elements, ranks and sums of finite sets are needed in several proofs. They
are not computed by induction over data: that one exists follows from the
well-founded order of the naturals or of the finite subsets.

Model-checked only: liveness (`WriterEnds`, `Terminates`, `StreamDrains`,
`EndsOrAwaitsSource`, `NobodyHangs`, and the end of an attempt in section 3), which
needs fairness and ENABLED; the properties of `TaskLifecycle` where a theorem's
hypotheses do not hold, as in the runs with one fault of any kind; and the violations of
sections 4 and 5, which are counterexamples.

## 7. Plan

1. Done: `WriterTx`, `FullLoadPipeline`, `ChunkedRead`, `TaskLifecycle`,
   `IncrementalSync`; then `TableAttempt` (attempts, in-flight barrier, staging,
   late batches, publication), `DeferredIndexes` and `LegacyFullLoad` (the default
   engine), `TaskArchive` (every writer of the task's copy, the comparison).
2. Left to model: the subscriber's and the service's mutexes against
   `canal.Close`; the schema locks' heartbeat with two processes; the read budget
   and the stream watchdog; the event recorder; the read-only manager.
3. Theorems left: `PublishedIsThere` and `CompletedMeansCopied` with fewer
   hypotheses (how stale a file must be to do harm; which plans and edits are
   harmless next to SkipError); that `TableAttempt` implements the two copy steps of
   `TaskLifecycle`, and the pipeline a `TableAttempt` without retries.

## 8. Not modelled

* Tasks with HWM positions of an older version, the preflight for tables without
  keys, the check of the source's settings, `ExecuteFullSyncChannel`
  (`channel_sync.go`, called by tests only), paging and sorting of the task list.
* V2: tables without any key (streaming read, INSERT IGNORE), the retry of one
  query, the order in which writers poll the tables, read budget, watchdogs,
  statistics and events. V1: changes of the source during the copy, progress
  counters, types and SQL text.
* Buffer limits and spilling of a source transaction, DDL events, events without
  a transaction after the catch-up's bound, row conversion, Kafka's partitioning,
  HTTP retries, several durable sinks.
* Redis reconnection; the fields of a task file; row counts, of which the model
  keeps equal, different and failed.
* Task events (an asynchronous journal that may lose entries), read-only
  protection (a server variable), metadata (pure functions), configuration,
  metrics, audit, logging, encryption, HTTP handlers, web interface: no shared
  protocol, or left in section 7.
