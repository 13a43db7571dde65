--------------------------- MODULE DeferredIndexes ---------------------------
(***************************************************************************)
(* The frame of a full load around the copy of the rows (executeFullSync,  *)
(* syncDatabasePair): the target tables are created one after the other,   *)
(* the secondary indexes that would slow the copy or break the catch-up    *)
(* are left out or dropped, and they are added again when every row is     *)
(* there, a few tables at a time, one ALTER TABLE for each index type.     *)
(*                                                                         *)
(*   "ddl" -> "drop" -> ... -> "copy" -> "collect" -> "catchup"            *)
(*         -> "restore" -> "final" -> "completed" | "failed" | "stopped"    *)
(*                                                                         *)
(* The end of the catch-up is the source's step, not the program's: after  *)
(* its last position it comes back with the source's next commit only.     *)
(*                                                                         *)
(* Covered: an existing target table with indexes of its own, deferral by  *)
(* mode, a DROP INDEX that fails half way and its rollback, an ALTER whose *)
(* answer is lost, the cancellation of the other tables by the first       *)
(* error, a user's stop.  Not covered: the text of the statements, indexes *)
(* of one name and two definitions.  The module that extends this one      *)
(* copies the rows.                                                        *)
(***************************************************************************)
EXTENDS Integers, FiniteSets

CONSTANTS
  Tables,          \* 1..n, in the order of the loop over the tables; a pair
                   \* of databases without a table has nothing to do
  Indexes,         \* names of secondary indexes
  SourceIndexes,   \* the indexes of a source table
  OwnIndexes,      \* the indexes of the target table, where it exists
  Existing,        \* the tables that exist on the target before the run
  Unique, Identity,\* unique indexes; those that identify the rows of a UK table
  AutoInc,         \* indexes with an AUTO_INCREMENT column among their columns
  TypeOf,          \* BTREE = 1, FULLTEXT = 2, SPATIAL = 3
  Configs,         \* the task configurations: mode ALL (otherwise FULL),
                   \* optimize_index, enable_drop_table_before_ddl
  RestoreWorkers,  \* index_restore_worker_count
  ConnRetries,     \* indexRestoreConnMaxRetries
  Faults           \* a subset of {"ddl", "alter", "conn", "stop", ...}

ASSUME IndexAssumption ==
  /\ IsFiniteSet(Tables) /\ Tables # {} /\ Tables = 1..Cardinality(Tables)
  /\ SourceIndexes \in [Tables -> SUBSET Indexes]
  /\ OwnIndexes \in [Tables -> SUBSET Indexes]
  /\ Existing \subseteq Tables
  /\ Identity \subseteq Unique /\ Unique \subseteq Indexes /\ AutoInc \subseteq Indexes
  /\ TypeOf \in [Indexes -> 1..3]
  /\ Configs \subseteq [all : BOOLEAN, optimize : BOOLEAN, drop : BOOLEAN]
  /\ RestoreWorkers \in Nat \ {0} /\ ConnRetries \in Nat

VARIABLES
  \* the run and its task
  phase, cur, status, cancelled, conf,
  \* the target schema
  exists, idx,
  \* savedIndexes of a table, and what the run ever took from the target
  saved, removed,
  \* restorePendingIndexes
  rpc, todo, tries, rcancel

runVars == <<phase, cur, status, cancelled>>
schemaVars == <<exists, idx, saved, removed>>
restoreVars == <<rpc, todo, tries, rcancel>>
indexVars == <<runVars, schemaVars, restoreVars, conf>>

AllMode == conf.all
OptimizeIndex == conf.optimize
DropFirst == conf.drop

IndexInit ==
  /\ conf \in Configs
  /\ phase = "ddl" /\ cur = 1
  /\ status = "RUNNING" /\ cancelled = FALSE
  /\ exists = Existing
  /\ idx = [t \in Tables |-> IF t \in Existing THEN OwnIndexes[t] ELSE {}]
  /\ saved = [t \in Tables |-> {}]
  /\ removed = [t \in Tables |-> {}]
  /\ rpc = [t \in Tables |-> "off"]
  /\ todo = [t \in Tables |-> {}]
  /\ tries = [t \in Tables |-> 0]
  /\ rcancel = FALSE

Ended == {"completed", "failed", "stopped"}
TaskStopped == status # "RUNNING"       \* isTaskStopped
UserStop == status = "PAUSED"           \* isUserFullSyncStop

(* failTaskUnlessCancelled, then the way out through executeFullSync.      *)
FailRun ==
  /\ status' = IF cancelled \/ UserStop THEN status ELSE "FAILED"
  /\ phase' = IF UserStop THEN "stopped" ELSE "failed"

-----------------------------------------------------------------------------
(* Which indexes wait.                                                     *)

AsInFullMode(i) == OptimizeIndex
ShouldDefer(i) ==
  IF AllMode /\ i \in Unique THEN i \notin Identity ELSE OptimizeIndex

SelectDeferred(S) == {i \in S : ShouldDefer(i)}
Deferral == AllMode \/ OptimizeIndex

-----------------------------------------------------------------------------
(* Phase 1, one table after the other: ensureTargetTable, then             *)
(* dropDeferredIndexes when it has left nothing to restore.                *)

NextTable ==
  IF cur + 1 \in Tables THEN cur' = cur + 1 /\ phase' = "ddl"
  ELSE phase' = "copy" /\ UNCHANGED cur

AfterEnsure(deferred) ==
  IF Deferral /\ deferred = {} THEN phase' = "drop" /\ UNCHANGED cur ELSE NextTable

KeepExisting ==
  /\ cur \in exists /\ ~DropFirst
  /\ AfterEnsure({})
  /\ UNCHANGED schemaVars

(* CREATE TABLE LIKE, or SHOW CREATE TABLE without the deferred indexes;   *)
(* every index with an AUTO_INCREMENT column stays, a unique one too.      *)
CreateTable ==
  LET deferred == IF Deferral THEN SelectDeferred(SourceIndexes[cur] \ AutoInc) ELSE {}
  IN  /\ cur \notin exists \/ DropFirst
      /\ exists' = exists \cup {cur}
      /\ idx' = [idx EXCEPT ![cur] = SourceIndexes[cur] \ deferred]
      /\ saved' = [saved EXCEPT ![cur] = deferred]
      /\ removed' = [removed EXCEPT ![cur] = deferred]
      /\ AfterEnsure(deferred)

EnsureTable ==
  /\ phase = "ddl" /\ ~UserStop
  /\ KeepExisting \/ CreateTable
  /\ UNCHANGED <<status, cancelled, restoreVars>>

(* DROP TABLE may have happened before CREATE TABLE failed. *)
EnsureFails ==
  /\ phase = "ddl"
  /\ ("ddl" \in Faults /\ ~UserStop) \/ cancelled
  /\ FailRun
  /\ \/ UNCHANGED <<exists, idx>>
     \/ /\ DropFirst /\ cur \in exists
        /\ exists' = exists \ {cur}
        /\ idx' = [idx EXCEPT ![cur] = {}]
  /\ UNCHANGED <<cur, cancelled, saved, removed, restoreVars>>

DdlStopped ==
  /\ phase = "ddl" /\ UserStop
  /\ phase' = "stopped"
  /\ UNCHANGED <<cur, status, cancelled, schemaVars, restoreVars>>

(* One ALTER TABLE ... DROP INDEX.  MySQL refuses to drop an index that    *)
(* the AUTO_INCREMENT column needs; which one that is is left open.        *)
DropIndex(i) ==
  /\ phase = "drop" /\ ~cancelled
  /\ i \in SelectDeferred(idx[cur])
  /\ idx' = [idx EXCEPT ![cur] = @ \ {i}]
  /\ saved' = [saved EXCEPT ![cur] = @ \cup {i}]
  /\ removed' = [removed EXCEPT ![cur] = @ \cup {i}]
  /\ UNCHANGED <<runVars, exists, restoreVars>>

(* rollbackDropped: the indexes dropped so far are added again; when that  *)
(* fails too, nobody keeps them.                                           *)
RollbackDropped ==
  \/ idx' = [idx EXCEPT ![cur] = @ \cup saved[cur]]
  \/ "alter" \in Faults /\ saved[cur] # {} /\ UNCHANGED idx

DropIndexFails ==
  /\ phase = "drop"
  /\ \/ "ddl" \in Faults
     \/ cancelled
     \/ SelectDeferred(idx[cur]) \cap AutoInc # {}
  /\ RollbackDropped
  /\ FailRun
  /\ saved' = [saved EXCEPT ![cur] = {}]
  /\ UNCHANGED <<cur, cancelled, exists, removed, restoreVars>>

DropsDone ==
  /\ phase = "drop" /\ ~cancelled
  /\ SelectDeferred(idx[cur]) = {}
  /\ NextTable
  /\ UNCHANGED <<status, cancelled, schemaVars, restoreVars>>

-----------------------------------------------------------------------------
(* Phase 3: collectMissingDeferredIndexes, the catch-up of mode ALL, and   *)
(* restorePendingIndexes.                                                  *)

Missing(t) == SelectDeferred(SourceIndexes[t]) \ idx[t]
OnlyWhatTheSourceHas(t) == IF Deferral THEN Missing(t) ELSE {}
Pending(t) == saved[t] \cup (IF Deferral THEN Missing(t) ELSE {})

Collect ==
  /\ phase = "collect" /\ ~UserStop
  /\ todo' = [t \in Tables |-> Pending(t)]
  /\ phase' = IF AllMode THEN "catchup" ELSE "restore"
  /\ UNCHANGED <<cur, status, cancelled, schemaVars, rpc, tries, rcancel>>

CollectFails ==
  /\ phase = "collect" /\ Deferral
  /\ "ddl" \in Faults \/ cancelled
  /\ FailRun
  /\ UNCHANGED <<cur, cancelled, schemaVars, restoreVars>>

(* runBoundedCatchUp returns at once when the checkpoint is at P1 already; *)
(* otherwise a commit after the one that reached P1 makes it return.  A    *)
(* stop that left the context alive is seen only then.                     *)
CatchUp ==
  /\ phase = "catchup" /\ ~cancelled
  /\ IF TaskStopped THEN FailRun ELSE phase' = "restore" /\ UNCHANGED status
  /\ UNCHANGED <<cur, cancelled, schemaVars, restoreVars>>

CatchUpFails ==
  /\ phase = "catchup" /\ "ddl" \in Faults
  /\ FailRun
  /\ UNCHANGED <<cur, cancelled, schemaVars, restoreVars>>

(* PauseTask stops the stream of the catch-up. *)
CatchUpStopped ==
  /\ phase = "catchup" /\ cancelled
  /\ FailRun
  /\ UNCHANGED <<cur, cancelled, schemaVars, restoreVars>>

(* abortFullSyncIfCancelled before the catch-up, the restore and the end.  *)
AbortSeen ==
  /\ phase \in {"collect", "restore", "final"} /\ UserStop
  /\ \A t \in Tables : rpc[t] = "off"
  /\ phase' = "stopped"
  /\ UNCHANGED <<cur, status, cancelled, schemaVars, restoreVars>>

RestoreBegin ==
  /\ phase = "restore" /\ ~UserStop
  /\ \A t \in Tables : rpc[t] = "off"
  /\ rpc' = [t \in Tables |-> IF todo[t] = {} THEN "done" ELSE "queued"]
  /\ rcancel' = FALSE
  /\ UNCHANGED <<runVars, schemaVars, todo, tries>>

Restoring == {t \in Tables : rpc[t] \in {"check", "alter"}}
RestoreStopped == rcancel \/ cancelled

(* The loop takes the tables in order: it looks for a stop, then waits for *)
(* a free worker; the worker looks for a cancelled context.                *)
RestoreNext(t) ==
  /\ rpc[t] = "queued" /\ ~TaskStopped /\ ~RestoreStopped
  /\ \A u \in Tables : rpc[u] # "waits" /\ (u < t => rpc[u] # "queued")
  /\ rpc' = [rpc EXCEPT ![t] = "waits"]
  /\ UNCHANGED <<runVars, schemaVars, todo, tries, rcancel>>

RestoreStart(t) ==
  /\ rpc[t] = "waits"
  /\ Cardinality(Restoring) < RestoreWorkers
  /\ rpc' = [rpc EXCEPT ![t] = IF RestoreStopped THEN "skipped" ELSE "check"]
  /\ UNCHANGED <<runVars, schemaVars, todo, tries, rcancel>>

LoopAtStop ==
  /\ \A t \in Tables : rpc[t] # "waits"
  /\ \E t \in Tables : rpc[t] = "queued"
  /\ rpc' = [t \in Tables |-> IF rpc[t] = "queued" THEN "skipped" ELSE rpc[t]]
  /\ UNCHANGED <<runVars, schemaVars, todo, tries>>

BreaksOnStatusOnly == TaskStopped /\ LoopAtStop /\ rcancel' = TRUE     \* mutant

RestoreBreak ==
  /\ TaskStopped \/ RestoreStopped
  /\ LoopAtStop
  /\ rcancel' = (rcancel \/ TaskStopped)

(* restoreIndexes: what is there already is left out.                      *)
CheckExisting(t) ==
  /\ rpc[t] = "check" /\ ~RestoreStopped
  /\ todo' = [todo EXCEPT ![t] = @ \ idx[t]]
  /\ rpc' = [rpc EXCEPT ![t] = IF todo'[t] = {} THEN "done" ELSE "alter"]
  /\ UNCHANGED <<runVars, schemaVars, tries, rcancel>>

(* The next batch: the indexes of the first type that has any.             *)
Batch(t) == {i \in todo[t] : \A j \in todo[t] : TypeOf[i] <= TypeOf[j]}
Applied(t) == Batch(t) \subseteq idx[t]

BatchDone(t) ==
  /\ todo' = [todo EXCEPT ![t] = @ \ Batch(t)]
  /\ tries' = [tries EXCEPT ![t] = 0]
  /\ rpc' = [rpc EXCEPT ![t] = IF todo'[t] = {} THEN "done" ELSE "alter"]

RestoreError(t) ==
  /\ rpc' = [rpc EXCEPT ![t] = "error"]
  /\ rcancel' = TRUE
  /\ UNCHANGED <<todo, tries>>

AlterAdds(t) ==
  /\ rpc[t] = "alter" /\ ~RestoreStopped
  /\ Batch(t) \cap idx[t] = {}
  /\ idx' = [idx EXCEPT ![t] = @ \cup Batch(t)]
  /\ BatchDone(t)
  /\ UNCHANGED <<runVars, exists, saved, removed, rcancel>>

(* The connection is lost; the server has executed the statement or not.   *)
AlterConnLost(t) ==
  /\ rpc[t] = "alter" /\ "conn" \in Faults /\ tries[t] < ConnRetries
  /\ tries' = [tries EXCEPT ![t] = @ + 1]
  /\ \/ UNCHANGED idx
     \/ Batch(t) \cap idx[t] = {} /\ idx' = [idx EXCEPT ![t] = @ \cup Batch(t)]
  /\ UNCHANGED <<runVars, exists, saved, removed, rpc, todo, rcancel>>

(* The retry finds its own work: "duplicate key name" is a success when    *)
(* every index of the batch matches.                                       *)
VerifyApplied(t) == Applied(t) /\ BatchDone(t) /\ UNCHANGED rcancel

AlterRefused(t) ==
  /\ rpc[t] = "alter" /\ Applied(t) /\ ~RestoreStopped
  /\ VerifyApplied(t)
  /\ UNCHANGED <<runVars, schemaVars>>

RestoreFails(t) ==
  /\ rpc[t] \in {"check", "alter"}
  /\ \/ "alter" \in Faults
     \/ "conn" \in Faults /\ tries[t] = ConnRetries
     \/ RestoreStopped
  /\ RestoreError(t)
  /\ UNCHANGED <<runVars, schemaVars>>

RestoreEnd ==
  /\ phase = "restore"
  /\ \A t \in Tables : rpc[t] \in {"done", "skipped", "error"}
  /\ IF TaskStopped \/ RestoreStopped THEN FailRun
     ELSE phase' = "final" /\ UNCHANGED status
  /\ rpc' = [t \in Tables |-> "off"]
  /\ UNCHANGED <<cur, cancelled, schemaVars, todo, tries, rcancel>>

MarkCompleted ==
  /\ phase = "final" /\ ~UserStop
  /\ phase' = "completed"
  /\ UNCHANGED <<cur, status, cancelled, schemaVars, restoreVars>>

-----------------------------------------------------------------------------
(* PauseTask cancels the run's context; SkipError only sets the status.    *)
PauseTask ==
  /\ "stop" \in Faults /\ phase \notin Ended /\ status = "RUNNING"
  /\ status' = "PAUSED"
  /\ cancelled' = TRUE
  /\ UNCHANGED <<phase, cur, schemaVars, restoreVars>>

SkipError ==
  /\ "skip" \in Faults /\ phase \notin Ended /\ status \in {"RUNNING", "FAILED"}
  /\ status' = "PAUSED"
  /\ UNCHANGED <<phase, cur, cancelled, schemaVars, restoreVars>>

DdlStep == EnsureTable \/ EnsureFails \/ DdlStopped \/ DropIndexFails \/ DropsDone
             \/ \E i \in Indexes : DropIndex(i)
RestoreStep ==
  \/ RestoreBegin \/ RestoreBreak \/ RestoreEnd
  \/ \E t \in Tables : \/ RestoreNext(t) \/ RestoreStart(t) \/ CheckExisting(t) \/ AlterAdds(t)
                       \/ AlterConnLost(t) \/ AlterRefused(t) \/ RestoreFails(t)
FrameStep == Collect \/ CollectFails \/ CatchUpStopped \/ AbortSeen \/ MarkCompleted
IndexStep == (DdlStep \/ RestoreStep \/ FrameStep) /\ UNCHANGED conf
SourceStep == (CatchUp \/ CatchUpFails) /\ UNCHANGED conf
UserStep == (PauseTask \/ SkipError) /\ UNCHANGED conf
=============================================================================
