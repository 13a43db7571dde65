--------------------------- MODULE LegacyFullLoad ---------------------------
(***************************************************************************)
(* The default full-load engine (V1): syncDatabasePair of TaskService with *)
(* the readers of cursor_reader.go and the BatchWriter of data_writer.go.  *)
(*                                                                         *)
(* Up to TableWorkers tables are copied at a time.  A table is read by one *)
(* worker (a stream, or key-set pages) or by several, each with its range  *)
(* of keys: equal parts of the numeric range, or parts sampled along the   *)
(* primary key.  Every worker has a transaction of its own, writes each    *)
(* batch with a plain INSERT and commits after some batches.                *)
(*                                                                         *)
(*   "read" -> "write" -> ("commit" ->) "read" -> ... -> "last" -> "ended" *)
(*                                                                         *)
(* A worker that meets a lock wait or a deadlock rolls back and writes the *)
(* batch in its hand again.  A worker that sees the task stopped leaves    *)
(* without an error.  DeferredIndexes has the frame around the copy.       *)
(* Not covered: changes of the source during the copy, the progress        *)
(* counters, a second run started while this one winds down.               *)
(***************************************************************************)
EXTENDS DeferredIndexes, FiniteSetsExt, Sequences

CONSTANTS
  Keys,         \* the rows of a source table: a finite set of integers
  Identified,   \* "none" (no key), "numeric" (one integer column) or "other"
  Estimate,     \* TABLE_ROWS of a table, an estimate
  BatchSize,    \* syncReadBatchLimit
  IntraWorkers, \* EffectiveIntraTableWorkers
  TableWorkers, \* worker_count
  CommitEvery,  \* txCommitEveryNParallel, batches in a transaction
  CommitAlone,  \* txCommitEveryN, for a worker alone (200 in the code)
  LockRetries   \* parallelWriteMaxRetries

ASSUME LoadAssumption ==
  /\ \A t \in Tables : Keys[t] \in SUBSET Int /\ IsFiniteSet(Keys[t])
  /\ Identified \in [Tables -> {"none", "numeric", "other"}]
  /\ Estimate \in [Tables -> Nat]
  /\ {BatchSize, IntraWorkers, TableWorkers, CommitEvery, CommitAlone} \subseteq Nat \ {0}
  /\ LockRetries \in Nat

Workers == 0..(IntraWorkers - 1)
AllKeys == {0} \cup UNION {Keys[t] : t \in Tables}
Open == Min(AllKeys) - 1      \* nil, no lower bound: below every key

VARIABLES
  tpc,      \* a table: "queued", "plan", "copy", "done", "skipped", "error"
  cut,      \* the boundaries between the workers of a table
  wpc,      \* a worker: see above; "off" when the table has no use for it
  cursor,   \* lastID
  hand,     \* the batch read and not written yet
  tx, txN,  \* the open transaction: its rows and its batches
  attempt,  \* tries of the batch in hand
  target,   \* the committed rows
  rolled    \* rows a retry rolled back and nobody writes again

copyVars == <<tpc, cut, wpc, cursor, hand, tx, txN, attempt, target, rolled>>
workerVars == <<wpc, cursor, hand, tx, txN, attempt>>
vars == <<indexVars, copyVars>>

PerWorker(x) == [t \in Tables |-> [w \in Workers |-> x]]

Init ==
  /\ IndexInit
  /\ tpc = [t \in Tables |-> "queued"]
  /\ cut = [t \in Tables |-> <<>>]
  /\ wpc = PerWorker("off")
  /\ cursor = PerWorker(Open)
  /\ hand = PerWorker({})
  /\ tx = PerWorker({})
  /\ txN = PerWorker(0)
  /\ attempt = PerWorker(0)
  /\ target = [t \in Tables |-> {}]
  /\ rolled = [t \in Tables |-> {}]

-----------------------------------------------------------------------------
(* The plan of a table: boundaries b1 < b2 < ...; worker 0 reads the keys  *)
(* up to b1, worker i those above bi and up to the next one, the last      *)
(* worker those above its boundary.                                        *)

CeilDiv(a, b) == (a + b - 1) \div b

(* Numeric keys: the span of MIN..MAX in equal parts.  A worker whose part *)
(* would begin above MAX has nothing to read.                              *)
RangeCuts(lo, hi, n) ==
  LET span == hi - lo + 1
      m == IF span < n THEN span ELSE n
      size == CeilDiv(span, m)
  IN  [i \in 1..(m - 1) |-> lo + i * size]

(* Sampling: every step-th key along the primary key, until the table ends.*)
KthAbove(S, k) == CHOOSE x \in S : Cardinality({y \in S : y <= x}) = k
SampleCuts(S, estimate, n) ==
  LET step == estimate \div n
      usable == Min({n - 1, Cardinality(S) \div step})
  IN  [i \in 1..usable |-> KthAbove(S, i * step)]

Sampled(t) == IntraWorkers > 1 /\ Estimate[t] >= 2 * IntraWorkers
Ranged(t) == Identified[t] = "numeric" /\ IntraWorkers > 1 /\ Keys[t] # {}

(* A query of the plan that fails only makes the plan simpler.             *)
Simpler(t) ==
  IF Identified[t] # "none" /\ Sampled(t)
  THEN {SampleCuts(Keys[t], Estimate[t], IntraWorkers), <<>>}
  ELSE {<<>>}

Cuts(t) ==
  (IF Ranged(t) THEN {RangeCuts(Min(Keys[t]), Max(Keys[t]), IntraWorkers)} ELSE {})
    \cup (IF Ranged(t) /\ "read" \notin Faults THEN {} ELSE Simpler(t))

Last(t) == Len(cut[t])                  \* the number of the last worker
Alone(t) == cut[t] = <<>>
BelowEnd(t, w, k) == w = Last(t) \/ k < cut[t][w + 1]
PastEnd(t, w, k) == w = Last(t) \/ k <= cut[t][w + 1] + 1
UpToEnd(t, w, k) == w = Last(t) \/ k <= cut[t][w + 1]

(* ReadBatchByKeyRange, ReadBatchByKeys, and the stream of ReadBatch.      *)
Rest(t, w) == {k \in Keys[t] : k > cursor[t][w] /\ UpToEnd(t, w, k)}
NextBatch(t, w) ==
  {k \in Rest(t, w) : Cardinality({j \in Rest(t, w) : j < k}) < BatchSize}

-----------------------------------------------------------------------------
(* One goroutine per table, a semaphore around it.                         *)

Copying == {t \in Tables : tpc[t] \in {"plan", "copy"}}

TakeTable(t) ==
  /\ phase = "copy" /\ tpc[t] = "queued"
  /\ Cardinality(Copying) < TableWorkers
  /\ tpc' = [tpc EXCEPT ![t] = IF TaskStopped THEN "skipped" ELSE "plan"]
  /\ UNCHANGED <<cut, workerVars, target, rolled, indexVars>>

PlanTable(t) ==
  /\ tpc[t] = "plan"
  /\ \E c \in Cuts(t) :
       /\ cut' = [cut EXCEPT ![t] = c]
       /\ wpc' = [wpc EXCEPT ![t] = [w \in Workers |-> IF w <= Len(c) THEN "read" ELSE "off"]]
       /\ cursor' = [cursor EXCEPT ![t] =
                       [w \in Workers |-> IF w \in 1..Len(c) THEN c[w] ELSE Open]]
  /\ tpc' = [tpc EXCEPT ![t] = "copy"]
  /\ UNCHANGED <<hand, tx, txN, attempt, target, rolled, indexVars>>

(* A table ends with the last of its workers (syncWg.Wait).                *)
AllEnded(t) == \A w \in Workers : wpc[t][w] \in {"off", "ended", "error"}
AnyFailed(t) == \E w \in Workers : wpc[t][w] = "error"

TableFails(t) ==
  /\ tpc[t] = "copy" /\ AllEnded(t) /\ AnyFailed(t)
  /\ tpc' = [tpc EXCEPT ![t] = "error"]
  /\ status' = IF cancelled \/ UserStop THEN status ELSE "FAILED"
  /\ UNCHANGED <<phase, cur, cancelled, conf, schemaVars, restoreVars,
                 cut, workerVars, target, rolled>>

TableEnds(t) ==
  /\ tpc[t] = "copy" /\ AllEnded(t) /\ ~AnyFailed(t)
  /\ tpc' = [tpc EXCEPT ![t] = IF TaskStopped THEN "skipped" ELSE "done"]
  /\ UNCHANGED <<cut, workerVars, target, rolled, indexVars>>

(* wg.Wait, then the first error of errChan, or the pending indexes.       *)
CopyEnds ==
  /\ phase = "copy"
  /\ \A t \in Tables : tpc[t] \in {"done", "skipped", "error"}
  /\ IF \E t \in Tables : tpc[t] = "error"
     THEN FailRun
     ELSE phase' = "collect" /\ UNCHANGED status
  /\ UNCHANGED <<cur, cancelled, conf, schemaVars, restoreVars, copyVars>>

-----------------------------------------------------------------------------
(* One worker.                                                             *)

Goes(t, w, pc) == wpc' = [wpc EXCEPT ![t][w] = pc]

(* The deferred Rollback of whatever is still open. *)
Leaves(t, w, pc) ==
  /\ Goes(t, w, pc)
  /\ tx' = [tx EXCEPT ![t][w] = {}]
  /\ hand' = [hand EXCEPT ![t][w] = {}]
  /\ UNCHANGED <<cursor, txN, attempt, tpc, cut, rolled>>

SeesStop(t, w) ==
  /\ wpc[t][w] = "read" /\ TaskStopped
  /\ Leaves(t, w, "ended")
  /\ UNCHANGED <<target, indexVars>>

Read(t, w) ==
  /\ wpc[t][w] = "read" /\ ~TaskStopped /\ ~cancelled
  /\ hand' = [hand EXCEPT ![t][w] = NextBatch(t, w)]
  /\ Goes(t, w, IF NextBatch(t, w) = {} THEN "last" ELSE "write")
  /\ UNCHANGED <<cursor, tx, txN, attempt, tpc, cut, target, rolled, indexVars>>

(* A connection that cannot be had or set up, and a query that is still    *)
(* broken after its retries.                                               *)
ReadFails(t, w) ==
  /\ wpc[t][w] = "read"
  /\ "read" \in Faults \/ cancelled
  /\ Leaves(t, w, "error")
  /\ UNCHANGED <<target, indexVars>>

CommitsLate(t) == (IF Alone(t) THEN CommitAlone ELSE CommitEvery) + 1
CommitAfter(t) == IF Alone(t) THEN CommitAlone ELSE CommitEvery

Write(t, w) ==
  /\ wpc[t][w] = "write" /\ ~cancelled
  /\ tx' = [tx EXCEPT ![t][w] = @ \cup hand[t][w]]
  /\ txN' = [txN EXCEPT ![t][w] = @ + 1]
  /\ cursor' = [cursor EXCEPT ![t][w] = Max(hand[t][w])]
  /\ hand' = [hand EXCEPT ![t][w] = {}]
  /\ attempt' = [attempt EXCEPT ![t][w] = 0]
  /\ Goes(t, w, IF txN[t][w] + 1 >= CommitAfter(t) THEN "commit" ELSE "read")
  /\ UNCHANGED <<tpc, cut, target, rolled, indexVars>>

(* isRetryableLockError: the whole transaction is rolled back, and only    *)
(* the batch in hand is written again.  One worker alone does not retry.   *)
LockRetry(t, w) ==
  /\ wpc[t][w] = "write" /\ ~cancelled /\ ~Alone(t)
  /\ "lock" \in Faults /\ attempt[t][w] < LockRetries
  /\ rolled' = [rolled EXCEPT ![t] = @ \cup tx[t][w]]
  /\ tx' = [tx EXCEPT ![t][w] = {}]
  /\ txN' = [txN EXCEPT ![t][w] = 0]
  /\ attempt' = [attempt EXCEPT ![t][w] = @ + 1]
  /\ UNCHANGED <<wpc, cursor, hand, tpc, cut, target, indexVars>>

WriteFails(t, w) ==
  /\ wpc[t][w] = "write"
  /\ "write" \in Faults \/ cancelled
  /\ Leaves(t, w, "error")
  /\ UNCHANGED <<target, indexVars>>

CommitTx(t, w) ==
  /\ wpc[t][w] \in {"commit", "last"} /\ ~cancelled
  /\ target' = [target EXCEPT ![t] = @ \cup tx[t][w]]
  /\ tx' = [tx EXCEPT ![t][w] = {}]
  /\ txN' = [txN EXCEPT ![t][w] = 0]
  /\ Goes(t, w, IF wpc[t][w] = "last" THEN "ended" ELSE "read")
  /\ UNCHANGED <<cursor, hand, attempt, tpc, cut, rolled, indexVars>>

(* COMMIT reports an error; the server has committed or not. *)
CommitFails(t, w) ==
  /\ wpc[t][w] \in {"commit", "last"} /\ tx[t][w] # {}
  /\ "commit" \in Faults \/ cancelled
  /\ \/ target' = [target EXCEPT ![t] = @ \cup tx[t][w]]
     \/ UNCHANGED target
  /\ Leaves(t, w, "error")
  /\ UNCHANGED indexVars

(* BeginTx opened nothing when the shard is empty: nothing to commit. *)
NothingToCommit(t, w) ==
  /\ wpc[t][w] = "last" /\ tx[t][w] = {} /\ cancelled
  /\ Leaves(t, w, "ended")
  /\ UNCHANGED <<target, indexVars>>

-----------------------------------------------------------------------------
WorkerStep ==
  \E t \in Tables, w \in Workers :
    \/ SeesStop(t, w) \/ Read(t, w) \/ ReadFails(t, w)
    \/ Write(t, w) \/ LockRetry(t, w) \/ WriteFails(t, w)
    \/ CommitTx(t, w) \/ CommitFails(t, w) \/ NothingToCommit(t, w)

TableStep ==
  \E t \in Tables : TakeTable(t) \/ PlanTable(t) \/ TableFails(t) \/ TableEnds(t)

CopyStep == WorkerStep \/ TableStep \/ CopyEnds
ProgramStep ==
  \/ CopyStep
  \/ IndexStep /\ UNCHANGED copyVars

Next ==
  \/ ProgramStep
  \/ (SourceStep \/ UserStep) /\ UNCHANGED copyVars

(* The goroutines of a run are never held back for ever; the source may    *)
(* commit nothing more, and then the catch-up does not end.                *)
Spec == Init /\ [][Next]_vars /\ WF_vars(ProgramStep)

-----------------------------------------------------------------------------
TypeOK ==
  /\ phase \in {"ddl", "drop", "copy", "collect", "catchup", "restore", "final"} \cup Ended
  /\ status \in {"RUNNING", "PAUSED", "FAILED"} /\ cancelled \in BOOLEAN
  /\ cur \in Tables /\ exists \subseteq Tables
  /\ \A t \in Tables :
       /\ idx[t] \cup saved[t] \cup removed[t] \cup todo[t] \subseteq Indexes
       /\ target[t] \cup rolled[t] \subseteq Keys[t]
       /\ tries[t] \in 0..ConnRetries
       /\ \A w \in Workers : /\ tx[t][w] \cup hand[t][w] \subseteq Keys[t]
                             /\ attempt[t][w] \in 0..LockRetries
                             /\ txN[t][w] \in 0..Max({CommitAlone, CommitEvery})
                             /\ wpc[t][w] # "off" => w <= Last(t)

(* The parts of a table do not overlap: no row is in two transactions, and *)
(* none is written again once it is committed (a plain INSERT would fail). *)
WrittenOnce ==
  \A t \in Tables : \A v, w \in Workers :
    /\ (tx[t][w] \cup hand[t][w]) \cap target[t] = {}
    /\ v # w => (tx[t][v] \cup hand[t][v]) \cap (tx[t][w] \cup hand[t][w]) = {}

(* When the copy is over and the task still runs, every row of every table *)
(* is committed on the target; only the rows of a transaction that a lock  *)
(* retry rolled back are missing.  A table that failed, one whose workers  *)
(* left early and one that nobody took are never passed off as copied.     *)
CopiedOrRolledBack ==
  status = "RUNNING" /\ phase \in {"collect", "catchup", "restore", "final", "completed"}
    => \A t \in Tables : target[t] = Keys[t] \ rolled[t]

(* What CONFIGURATION.md says of the FULL mode: a completed run has gone   *)
(* over the whole table.  The lock retry of the parallel workers breaks it.*)
CompletedIsCopied ==
  phase = "completed" => \A t \in Tables : target[t] = Keys[t]

(* A completed run leaves every index on the target that it left out or    *)
(* dropped there, and those the source has: also after lost answers.       *)
IndexesBack ==
  phase = "completed" => \A t \in Tables :
    /\ removed[t] \subseteq idx[t]
    /\ Deferral => SelectDeferred(SourceIndexes[t]) \subseteq idx[t]
    /\ t \notin Existing \/ DropFirst => SourceIndexes[t] \subseteq idx[t]

MayBeUnique(t) ==
  IF t \in Existing /\ ~DropFirst THEN Identity ELSE Identity \cup AutoInc

(* In mode ALL a table that exists keeps no unique index but the one that  *)
(* identifies the rows while rows are copied and the changes of the        *)
(* meantime are applied; a table that the run creates keeps those with an  *)
(* AUTO_INCREMENT column besides, and no other.                            *)
UniqueOffButAutoInc ==
  AllMode /\ phase \in {"copy", "collect", "catchup"}
    => \A t \in Tables : idx[t] \cap Unique \subseteq MayBeUnique(t)

(* What comments of task_service.go say of mode ALL: "always defers the    *)
(* other unique indexes", "requires that the unique indexes that are not   *)
(* the identity do not exist before the catch-up".                         *)
UniqueOffWhileCopying ==
  AllMode /\ phase \in {"copy", "collect", "catchup"}
    => \A t \in Tables : idx[t] \cap Unique \subseteq Identity

(* Every run ends, whatever fails and whenever the task is stopped, unless *)
(* it stays in the catch-up of mode ALL, where it waits for the source's   *)
(* next commit.                                                            *)
EndsOrAwaitsSource == <>(phase \in Ended) \/ <>[](phase = "catchup")
=============================================================================
