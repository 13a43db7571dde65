------------------------- MODULE TaskLifecycleProofs -------------------------
(***************************************************************************)
(* Theorems of TaskLifecycle, for any tables, any number of starts, faults *)
(* and changes on the source.                                              *)
(*                                                                         *)
(*  TypeInv   types, the places of a run, and who holds the schema locks   *)
(*  Written   without failing saves the file is the task                   *)
(*  Staged    what the manifest calls PUBLISHED is copied                  *)
(*  Serial    a user who waits never has two runs of one task              *)
(*  Cleared   a task that drops its tables copies into empty ones          *)
(*  Held      a run at work either may go on or will be stopped            *)
(*  Complete  what each place of a run knows of the copied tables          *)
(*  Followed  what it knows of P0, the checkpoint and the positions          *)
(***************************************************************************)
EXTENDS TaskLifecycle, TLAPS

Failing == {"markfail", "check", "setfail"}
Fetching == {"full", "detect", "restoreP0", "capture", "saveP0", "mark"}
Locking == {"lock", "manifest", "prepare"}
Ending == {"copied", "p1", "catchopen", "catchup", "catcherr", "caught", "final", "complete"}
Streaming == {"incr", "open", "stream", "rollback"}
PCs == {"none", "done", "begin", "copy", "engineerr", "finish"}
         \cup Failing \cup Fetching \cup Locking \cup Ending \cup Streaming

Positions == Pos \cup {None}
Locs == [mode : Modes, resume : BOOLEAN, p0 : Positions, p1 : Positions, end : Positions,
         pos : Positions, todo : SUBSET Tables, from : [Tables -> Positions], again : BOOLEAN]

TaskTyped == task \in TaskRecords /\ disk \in TaskRecords /\ faults \in 0..MaxFaults

RunTyped ==
  /\ pc \in [Runs -> PCs] /\ loc \in [Runs -> Locs]
  /\ runtime \in 0..MaxStarts /\ closing \subseteq Runs /\ setup \in {"none", "repeat", "cron"}
  /\ starts \in 0..MaxStarts /\ dead \subseteq Runs /\ lost \subseteq Runs

DataTyped ==
  /\ cp \in Positions /\ head \in Pos
  /\ base \in [Tables -> {"none", "part", "whole"}]
  /\ seen \in [Tables -> Positions] /\ doubled \subseteq Tables

(* The schema locks are held from AcquireLocks on; a run that fails inside *)
(* executeFullSync keeps them until its error has been marked there.       *)
LockHeld ==
  /\ lock \in 0..MaxStarts
  /\ lock # 0 => /\ pc[lock] \in {"manifest", "prepare", "copy", "engineerr"} \cup Ending \cup Failing
                 /\ pc[lock] \in Failing => loc[lock].again = TRUE

(* A run that has not been started is nowhere.                             *)
Unstarted == \A q \in Runs : q > starts => pc[q] = "none"

TypeInv == TaskTyped /\ RunTyped /\ DataTyped /\ LockHeld /\ Unstarted

-----------------------------------------------------------------------------
(* Types *)

LEMMA Constants ==
  /\ MaxStarts \in Nat /\ MaxHead \in Nat /\ MaxFaults \in Nat
  /\ Modes \subseteq {"FULL", "INCREMENTAL", "ALL"} /\ InitMode \in Modes
  /\ 0 \notin Runs /\ None \notin Pos /\ 0 \in Pos
BY LifecycleAssumption DEF LifecycleAssumption, Runs, None, Pos

LEMMA NoLocTyped == NoLoc \in Locs
BY Constants DEF NoLoc, Locs, Positions

LEMMA TypeInit == Init => TypeInv
<1> SUFFICES ASSUME Init PROVE TypeInv
  OBVIOUS
<1>1. \A b \in Rebuilds, s \in Stagings : NewTask(b, s) \in TaskRecords
  BY Constants DEF NewTask, TaskRecords, Statuses, Phases
<1>2. TaskTyped
  BY <1>1, Constants DEF Init, TaskTyped
<1>3. RunTyped
  BY Constants, NoLocTyped DEF Init, RunTyped, PCs
<1>4. DataTyped
  BY Constants DEF Init, DataTyped, Positions
<1>5. LockHeld
  BY Constants DEF Init, LockHeld
<1>6. Unstarted
  BY DEF Init, Unstarted
<1> QED
  BY <1>2, <1>3, <1>4, <1>5, <1>6 DEF TypeInv

LEMMA FaultTyped ==
  ASSUME TaskTyped, NEW f, Fault(f)
  PROVE  faults' \in 0..MaxFaults
BY Constants DEF TaskTyped, Fault

LEMMA SaveTyped ==
  ASSUME TaskTyped, NEW k \in TaskRecords, Save(k)
  PROVE  TaskTyped'
<1>1. faults' \in 0..MaxFaults
  BY FaultTyped DEF Save, TaskTyped
<1> QED
  BY <1>1 DEF TaskTyped, Save

(* What the changes of a task leave is a task.                             *)
LEMMA TasksTyped ==
  ASSUME NEW k \in TaskRecords
  PROVE  /\ \A s \in Statuses : [k EXCEPT !.status = s] \in TaskRecords
         /\ \A p \in Phases : [k EXCEPT !.phase = p] \in TaskRecords
         /\ \A m \in [Tables -> {"none", "PENDING", "PUBLISHED"}] : [k EXCEPT !.manifest = m] \in TaskRecords
         /\ \A m \in Modes : [k EXCEPT !.mode = m] \in TaskRecords
         /\ \A c \in BOOLEAN, l \in 0..2 : [k EXCEPT !.cron = c, !.left = l] \in TaskRecords
         /\ ClearScheduleConfig(k) \in TaskRecords
         /\ \A s \in Statuses : [ClearScheduleConfig(k) EXCEPT !.status = s] \in TaskRecords
         /\ \A s \in Statuses : [MarkFullSyncFailed(k) EXCEPT !.status = s] \in TaskRecords
         /\ Started(k) \in TaskRecords /\ ScheduledTask(k) \in TaskRecords /\ Completed(k) \in TaskRecords
         /\ MarkFullSyncFailed(k) \in TaskRecords /\ MarkFullSyncCompleted(k) \in TaskRecords
         /\ \A p \in Positions : MarkFullSyncStarted(k, p) \in TaskRecords
         /\ \A p \in Positions : [k EXCEPT !.p1 = p, !.sub = "CATCH_UP"] \in TaskRecords
         /\ [k EXCEPT !.sub = "RESTORE_INDEX"] \in TaskRecords
         /\ Recovered(k) \in TaskRecords
<1>t. /\ k.status \in Statuses /\ k.from \in Statuses \cup {"none"} /\ k.left \in 0..2
      /\ {"PENDING", "SCHEDULED", "RUNNING", "COMPLETED"} \subseteq Statuses /\ "FULL_COMPLETED" \in Phases
  BY DEF TaskRecords, Statuses, Phases
<1>z. /\ 0 \in 0..2 /\ 2 \in 0..2 /\ FALSE \in BOOLEAN /\ TRUE \in BOOLEAN /\ "none" \in Statuses \cup {"none"}
      /\ k.left > 1 => k.left - 1 \in 0..2
  BY <1>t
<1>1. \A s \in Statuses : [k EXCEPT !.status = s] \in TaskRecords
  BY DEF TaskRecords, Statuses, Phases, Positions
<1>2. \A p \in Phases : [k EXCEPT !.phase = p] \in TaskRecords
  BY DEF TaskRecords, Statuses, Phases, Positions
<1>3. \A m \in [Tables -> {"none", "PENDING", "PUBLISHED"}] : [k EXCEPT !.manifest = m] \in TaskRecords
  BY DEF TaskRecords, Statuses, Phases, Positions
<1>4. \A m \in Modes : [k EXCEPT !.mode = m] \in TaskRecords
  BY DEF TaskRecords, Statuses, Phases, Positions
<1>5. \A c \in BOOLEAN, l \in 0..2 : [k EXCEPT !.cron = c, !.left = l] \in TaskRecords
  BY DEF TaskRecords, Statuses, Phases, Positions
<1>f. \A f \in Statuses \cup {"none"}, l \in 0..2, c \in BOOLEAN :
        [k EXCEPT !.cron = c, !.left = l, !.from = f] \in TaskRecords
  BY DEF TaskRecords
<1>g. \A f \in Statuses \cup {"none"}, s \in Statuses : [k EXCEPT !.status = s, !.from = f] \in TaskRecords
  BY DEF TaskRecords
<1>6. ClearScheduleConfig(k) \in TaskRecords
  BY <1>f, <1>z, Zenon DEF ClearScheduleConfig
<1>7. \A s \in Statuses : [ClearScheduleConfig(k) EXCEPT !.status = s] \in TaskRecords
  <2>1. \A j \in TaskRecords, s \in Statuses : [j EXCEPT !.status = s] \in TaskRecords
    BY DEF TaskRecords
  <2> QED
    BY <1>6, <2>1
<1>8. \A s \in Statuses : [MarkFullSyncFailed(k) EXCEPT !.status = s] \in TaskRecords
  BY DEF MarkFullSyncFailed, TaskRecords, Statuses, Phases, Positions
<1>9. Started(k) \in TaskRecords
  <2>1. \A j \in TaskRecords, s \in Statuses, f \in Statuses \cup {"none"} :
          [j EXCEPT !.status = s, !.from = f] \in TaskRecords
    BY DEF TaskRecords
  <2>2. [k EXCEPT !.status = "RUNNING", !.from = "none"] \in TaskRecords
    BY <1>t, <1>z, <2>1
  <2>3. [ClearScheduleConfig(k) EXCEPT !.status = "RUNNING", !.from = "none"] \in TaskRecords
    BY <1>t, <1>z, <1>6, <2>1
  <2> QED
    BY <2>2, <2>3 DEF Started
<1>10. ScheduledTask(k) \in TaskRecords
  BY <1>g, <1>t, <1>z DEF ScheduledTask
<1>11. Completed(k) \in TaskRecords
  <2>1. \A s \in Statuses, l \in 0..2 : [k EXCEPT !.status = s, !.left = l] \in TaskRecords
    BY DEF TaskRecords, Statuses, Phases, Positions
  <2>2. k.left > 1 => [k EXCEPT !.status = "SCHEDULED", !.left = @ - 1] \in TaskRecords
    BY <1>t, <1>z, <2>1, Zenon
  <2>3. [k EXCEPT !.status = "SCHEDULED"] \in TaskRecords
    BY <1>1, <1>t
  <2>4. [ClearScheduleConfig(k) EXCEPT !.status = "COMPLETED"] \in TaskRecords
    BY <1>7, <1>t
  <2> QED
    BY <2>2, <2>3, <2>4 DEF Completed
<1>12. MarkFullSyncFailed(k) \in TaskRecords
  BY DEF MarkFullSyncFailed, TaskRecords, Statuses, Phases, Positions
<1>13. MarkFullSyncCompleted(k) \in TaskRecords
  <2>1. [k EXCEPT !.phase = "FULL_COMPLETED", !.completedAt = TRUE, !.sub = "STREAMING"] \in TaskRecords
    BY DEF TaskRecords, Statuses, Phases, Positions
  <2>2. [k EXCEPT !.phase = "FULL_COMPLETED", !.completedAt = TRUE, !.sub = @] \in TaskRecords
    BY DEF TaskRecords, Statuses, Phases, Positions
  <2> QED
    BY <2>1, <2>2 DEF MarkFullSyncCompleted
<1>14. \A p \in Positions : MarkFullSyncStarted(k, p) \in TaskRecords
  BY DEF MarkFullSyncStarted, TaskRecords, Statuses, Phases, Positions
<1>15. \A p \in Positions : [k EXCEPT !.p1 = p, !.sub = "CATCH_UP"] \in TaskRecords
  BY DEF TaskRecords, Statuses, Phases, Positions
<1>16. [k EXCEPT !.sub = "RESTORE_INDEX"] \in TaskRecords
  BY DEF TaskRecords, Statuses, Phases, Positions
<1>17. Recovered(k) \in TaskRecords
  <2>1. \A c \in BOOLEAN, p \in Phases : [k EXCEPT !.phase = p, !.completedAt = c] \in TaskRecords
    BY DEF TaskRecords
  <2>2. [k EXCEPT !.phase = "FULL_COMPLETED", !.completedAt = TRUE] \in TaskRecords
    BY <1>t, <1>z, <2>1, Zenon
  <2> QED
    BY <2>2 DEF Recovered
<1> QED
  BY <1>1, <1>2, <1>3, <1>4, <1>5, <1>6, <1>7, <1>8, <1>9, <1>10, <1>11, <1>12, <1>13, <1>14, <1>15, <1>16, <1>17
-----------------------------------------------------------------------------
(* The steps of a run that leave the task and its file alone.              *)
ControlStep(r) ==
  \/ Begin(r) \/ Detect(r) \/ RestoreP0(r) \/ CaptureP0(r) \/ SaveP0(r)
  \/ AcquireLocks(r) \/ Prepare(r) \/ \E t \in Tables : CopyStart(r, t)
  \/ EngineFails(r) \/ EngineEndsEarly(r) \/ EngineDone(r) \/ EngineError(r) \/ Copied(r)
  \/ CatchUpOpens(r) \/ CatchUpApplies(r) \/ CatchUpFails(r) \/ CatchUpError(r) \/ RestoreIndexes(r)
  \/ StreamOpens(r) \/ StreamApplies(r) \/ StreamEnds(r) \/ FailCheck(r)

LEMMA ControlKeeps ==
  ASSUME NEW r \in Runs, ControlStep(r)
  PROVE  UNCHANGED <<task, disk, head, dead, runtime, userVars>> /\ (faults' = faults \/ Fault("db"))
<1> USE DEF Quiet, Untouched, RunFrame, DbFails, Abort
<1>1. CASE Begin(r) \/ Detect(r) \/ RestoreP0(r) \/ CaptureP0(r) \/ SaveP0(r)
  BY <1>1 DEF Begin, Detect, RestoreP0, CaptureP0, SaveP0
<1>2. CASE AcquireLocks(r) \/ Prepare(r) \/ \E t \in Tables : CopyStart(r, t)
  BY <1>2 DEF AcquireLocks, Prepare, CopyStart
<1>3. CASE EngineFails(r) \/ EngineEndsEarly(r) \/ EngineDone(r) \/ EngineError(r) \/ Copied(r)
  BY <1>3 DEF EngineFails, EngineEndsEarly, EngineDone, EngineError, Copied
<1>4. CASE CatchUpOpens(r) \/ CatchUpApplies(r) \/ CatchUpFails(r) \/ CatchUpError(r) \/ RestoreIndexes(r)
  BY <1>4 DEF CatchUpOpens, CatchUpApplies, CatchUpFails, CatchUpError, RestoreIndexes, ApplyEvent
<1>5. CASE StreamOpens(r) \/ StreamApplies(r) \/ StreamEnds(r) \/ FailCheck(r)
  BY <1>5 DEF StreamOpens, StreamApplies, StreamEnds, FailCheck, ApplyEvent
<1> QED
  BY <1>1, <1>2, <1>3, <1>4, <1>5 DEF ControlStep

(* The others save the task.                                               *)
SavingStep(r) ==
  \/ FullEntry(r) \/ MarkStarted(r) \/ InitManifest(r) \/ \E t \in Tables : CopyEnd(r, t)
  \/ CaptureP1(r) \/ CaughtUp(r) \/ MarkCompleted(r) \/ CompleteTask(r)
  \/ MarkIncremental(r) \/ StreamRollback(r) \/ MarkFailed(r) \/ SetFailed(r)

LEMMA RunSteps == \A r \in Runs : RunStep(r) <=> ControlStep(r) \/ SavingStep(r)
<1> TAKE r \in Runs
<1>1. FullStep(r) => ControlStep(r) \/ SavingStep(r)
  BY DEF FullStep, ControlStep, SavingStep
<1>2. RunStep(r) => ControlStep(r) \/ SavingStep(r)
  BY <1>1 DEF RunStep, StreamStep, ControlStep, SavingStep
<1>3. ControlStep(r) \/ SavingStep(r) => RunStep(r)
  BY DEF FullStep, RunStep, StreamStep, ControlStep, SavingStep
<1> QED
  BY <1>2, <1>3

LEMMA TaskOfSave ==
  ASSUME TypeInv, NEW r \in Runs, SavingStep(r)
  PROVE  TaskTyped'
<1> USE DEF TypeInv
<1>t. task \in TaskRecords /\ disk \in TaskRecords /\ TaskTyped
  BY DEF TaskTyped
<1>s. \A k \in TaskRecords : Save(k) => TaskTyped'
  BY <1>t, SaveTyped
<1>n. ASSUME UNCHANGED <<task, disk, faults>> PROVE TaskTyped'
  BY <1>n, <1>t DEF TaskTyped
<1>m. task.manifest \in [Tables -> {"none", "PENDING", "PUBLISHED"}]
  BY <1>t DEF TaskRecords
<1>d. ASSUME task' \in TaskRecords, disk' = task' \/ disk' = disk, faults' = faults \/ \E f \in {"save", "db"} : Fault(f)
      PROVE  TaskTyped'
  BY <1>d, <1>t, FaultTyped DEF TaskTyped
<1>1. CASE FullEntry(r)
  <2>1. [task EXCEPT !.manifest = [t \in Tables |-> "none"]] \in TaskRecords
    BY <1>t, TasksTyped
  <2> QED
    BY <1>1, <1>s, <1>n, <1>t, <2>1 DEF FullEntry, Quiet, Untouched
<1>2. CASE MarkStarted(r)
  <2>1. loc[r].p0 \in Positions
    BY DEF RunTyped, Locs
  <2>2. [task EXCEPT !.phase = "FULL_STARTED"] \in TaskRecords /\ MarkFullSyncStarted(task, loc[r].p0) \in TaskRecords
    BY <1>t, <2>1, TasksTyped DEF Phases
  <2> QED
    BY <1>2, <1>s, <2>2 DEF MarkStarted
<1>3. CASE InitManifest(r)
  <2>1. [task EXCEPT !.manifest = [t \in Tables |-> "PENDING"]] \in TaskRecords
    BY <1>t, TasksTyped
  <2> QED
    BY <1>3, <1>n, <1>d, <2>1 DEF InitManifest, Quiet, Untouched
<1>4. ASSUME NEW t \in Tables, CopyEnd(r, t) PROVE TaskTyped'
  <2>1. [task.manifest EXCEPT ![t] = "PUBLISHED"] \in [Tables -> {"none", "PENDING", "PUBLISHED"}]
    BY <1>m
  <2>2. [task EXCEPT !.manifest = [task.manifest EXCEPT ![t] = "PUBLISHED"]] \in TaskRecords
    BY <1>t, <2>1, TasksTyped
  <2>3. [task EXCEPT !.manifest[t] = "PUBLISHED"] \in TaskRecords
    BY <2>2
  <2> QED
    BY <1>4, <1>n, <1>d, <2>3 DEF CopyEnd, Quiet, Untouched
<1>5. CASE CaptureP1(r)
  <2>1. head \in Positions
    BY DEF DataTyped, Positions
  <2>2. [task EXCEPT !.p1 = head, !.sub = "CATCH_UP"] \in TaskRecords
    BY <1>t, <2>1, TasksTyped
  <2> QED
    BY <1>5, <1>n, <1>s, <1>d, <1>t, <2>2 DEF CaptureP1, Quiet, Untouched, Abort, DbFails
<1>6. CASE CaughtUp(r)
  <2>1. [task EXCEPT !.sub = "RESTORE_INDEX"] \in TaskRecords
    BY <1>t, TasksTyped
  <2> QED
    BY <1>6, <1>n, <1>s, <2>1 DEF CaughtUp, Quiet, Untouched
<1>7. CASE MarkCompleted(r) \/ CompleteTask(r) \/ MarkFailed(r)
  <2>1. MarkFullSyncCompleted(task) \in TaskRecords /\ Completed(task) \in TaskRecords /\ MarkFullSyncFailed(task) \in TaskRecords
    BY <1>t, TasksTyped
  <2> QED
    BY <1>7, <1>s, <2>1 DEF MarkCompleted, CompleteTask, MarkFailed
<1>8. CASE MarkIncremental(r) \/ StreamRollback(r)
  <2>1. \A p \in Phases : [task EXCEPT !.phase = p] \in TaskRecords
    BY <1>t, TasksTyped
  <2>2. [task EXCEPT !.phase = "INCREMENTAL_STARTED"] \in TaskRecords
    BY <2>1 DEF Phases
  <2>3. [task EXCEPT !.phase = IF task.completedAt THEN "FULL_COMPLETED" ELSE "INIT"] \in TaskRecords
    BY <2>1 DEF Phases
  <2> QED
    BY <1>8, <1>s, <2>2, <2>3 DEF MarkIncremental, StreamRollback
<1>9. CASE SetFailed(r)
  <2>1. [task EXCEPT !.status = "FAILED"] \in TaskRecords
    BY <1>t, TasksTyped DEF Statuses
  <2> QED
    BY <1>9, <1>s, <2>1 DEF SetFailed
<1> QED
  BY <1>1, <1>2, <1>3, <1>4, <1>5, <1>6, <1>7, <1>8, <1>9 DEF SavingStep
LEMMA TaskOfUser ==
  ASSUME TypeInv, UserStep \/ ServiceStep \/ EnvStep
  PROVE  TaskTyped'
<1> USE DEF TypeInv
<1>t. task \in TaskRecords /\ disk \in TaskRecords /\ TaskTyped
  BY DEF TaskTyped
<1>s. \A k \in TaskRecords : Save(k) => TaskTyped'
  BY <1>t, SaveTyped
<1>n. ASSUME UNCHANGED <<task, disk>>, faults' = faults \/ \E f \in {"lock", "checkpoint"} : Fault(f) PROVE TaskTyped'
  BY <1>n, <1>t, FaultTyped DEF TaskTyped
<1>k. /\ \A s \in Statuses : [task EXCEPT !.status = s] \in TaskRecords
      /\ \A s \in Statuses : [ClearScheduleConfig(task) EXCEPT !.status = s] \in TaskRecords
      /\ \A s \in Statuses : [MarkFullSyncFailed(task) EXCEPT !.status = s] \in TaskRecords
      /\ \A c \in BOOLEAN, l \in 0..2 : [task EXCEPT !.cron = c, !.left = l] \in TaskRecords
      /\ Started(task) \in TaskRecords /\ ScheduledTask(task) \in TaskRecords
      /\ \A m \in Modes : [task EXCEPT !.mode = m] \in TaskRecords
  BY <1>t, TasksTyped
<1>1. CASE StartBlocked
  <2>1. [MarkFullSyncFailed(task) EXCEPT !.status = "FAILED"] \in TaskRecords
    BY <1>k DEF Statuses
  <2> QED
    BY <1>1, <1>s, <2>1 DEF StartBlocked
<1>2. ASSUME NEW r \in Runs, StartTask(r) PROVE TaskTyped'
  BY <1>2, <1>s, <1>k DEF StartTask
<1>3. CASE PauseTask \/ SkipError
  <2>1. [task EXCEPT !.status = "PAUSED"] \in TaskRecords
    BY <1>k DEF Statuses
  <2> QED
    BY <1>3, <1>s, <2>1 DEF PauseTask, SkipError
<1>4. CASE EndTask
  <2>1. [ClearScheduleConfig(task) EXCEPT !.status = "STOPPED"] \in TaskRecords
    BY <1>k DEF Statuses
  <2> QED
    BY <1>4, <1>s, <2>1 DEF EndTask
<1>5. ASSUME NEW kind, Schedule(kind) PROVE TaskTyped'
  BY <1>5, <1>s, <1>k DEF Schedule
<1>6. CASE CancelSchedule
  <2>1. (IF task.from = "none" THEN "PENDING" ELSE task.from) \in Statuses
    BY <1>t DEF TaskRecords, Statuses
  <2>2. [ClearScheduleConfig(task) EXCEPT !.status = IF task.from = "none" THEN "PENDING" ELSE task.from] \in TaskRecords
    BY <1>k, <2>1
  <2> QED
    BY <1>6, <1>s, <2>2 DEF CancelSchedule
<1>7. ASSUME NEW m \in Modes, UpdateTask(m) PROVE TaskTyped'
  BY <1>7, <1>s, <1>k DEF UpdateTask
<1>8. CASE EndTaskCloses \/ SourceWrites \/ CheckpointLost \/ SchemaLockLost
  BY <1>8, <1>n DEF EndTaskCloses, SourceWrites, CheckpointLost, SchemaLockLost
<1>9. CASE Configure
  <2>z. TRUE \in BOOLEAN /\ FALSE \in BOOLEAN /\ 0 \in 0..2 /\ 2 \in 0..2
    OBVIOUS
  <2>1. [task EXCEPT !.cron = TRUE, !.left = 0] \in TaskRecords /\ [task EXCEPT !.cron = FALSE, !.left = 2] \in TaskRecords
    BY <1>k, <2>z, Zenon
  <2> QED
    BY <1>9, <1>s, <2>1 DEF Configure
<1>10. CASE CrashAndRestart
  <2>1. Recovered(disk) \in TaskRecords
    BY <1>t, TasksTyped
  <2> QED
    BY <1>10, <1>t, <2>1, FaultTyped DEF CrashAndRestart, TaskTyped
<1> QED
  BY <1>1, <1>2, <1>3, <1>4, <1>5, <1>6, <1>7, <1>8, <1>9, <1>10 DEF UserStep, ServiceStep, EnvStep

LEMMA SavesRun ==
  ASSUME TypeInv, NEW r \in Runs, RunStep(r)
  PROVE  UNCHANGED <<runtime, userVars, dead, head>>
<1>1. CASE ControlStep(r)
  BY <1>1, ControlKeeps
<1>2. CASE SavingStep(r)
  BY <1>2 DEF SavingStep, FullEntry, MarkStarted, InitManifest, CopyEnd, CaptureP1, CaughtUp, MarkCompleted,
     CompleteTask, MarkIncremental, StreamRollback, MarkFailed, SetFailed, RunFrame
<1> QED
  BY <1>1, <1>2, RunSteps

(* What the changes of a run's locals leave are locals.                    *)
LEMMA LocalsTyped ==
  ASSUME NEW k \in Locs
  PROVE  /\ \A m \in Modes : [NoLoc EXCEPT !.mode = m] \in Locs
         /\ \A b \in BOOLEAN : [k EXCEPT !.again = b] \in Locs
         /\ \A b, c \in BOOLEAN, p, q \in Positions : [k EXCEPT !.resume = b, !.p0 = p, !.p1 = q, !.again = c] \in Locs
         /\ \A p \in Positions : [k EXCEPT !.p0 = p] \in Locs /\ [k EXCEPT !.end = p] \in Locs /\ [k EXCEPT !.pos = p] \in Locs
         /\ \A S \in SUBSET Tables : [k EXCEPT !.todo = S] \in Locs
         /\ \A t \in Tables, p \in Positions : [k EXCEPT !.from[t] = p] \in Locs
<1>1. \A m \in Modes : [NoLoc EXCEPT !.mode = m] \in Locs
  BY NoLocTyped DEF Locs
<1>2. \A b \in BOOLEAN : [k EXCEPT !.again = b] \in Locs
  BY DEF Locs
<1>3. \A b, c \in BOOLEAN, p, q \in Positions : [k EXCEPT !.resume = b, !.p0 = p, !.p1 = q, !.again = c] \in Locs
  BY DEF Locs
<1>4. \A p \in Positions : [k EXCEPT !.p0 = p] \in Locs /\ [k EXCEPT !.end = p] \in Locs /\ [k EXCEPT !.pos = p] \in Locs
  BY DEF Locs
<1>5. \A S \in SUBSET Tables : [k EXCEPT !.todo = S] \in Locs
  BY DEF Locs
<1>6. \A t \in Tables, p \in Positions : [k EXCEPT !.from[t] = p] \in Locs
  <2> TAKE t \in Tables, p \in Positions
  <2>1. k.from \in [Tables -> Positions]
    BY DEF Locs
  <2>2. [k.from EXCEPT ![t] = p] \in [Tables -> Positions]
    BY <2>1
  <2>3. \A f \in [Tables -> Positions] : [k EXCEPT !.from = f] \in Locs
    BY DEF Locs
  <2>4. [k EXCEPT !.from = [k.from EXCEPT ![t] = p]] \in Locs
    BY <2>2, <2>3
  <2> QED
    BY <2>4
<1> QED
  BY <1>1, <1>2, <1>3, <1>4, <1>5, <1>6

(* A step of a run moves that run only.                                    *)
Moves(r) ==
  /\ pc' \in [Runs -> PCs] /\ loc' \in [Runs -> Locs]
  /\ \A q \in Runs \ {r} : pc'[q] = pc[q] /\ loc'[q] = loc[q]
  /\ lost' \subseteq lost

PcMoves(r) == pc' \in [Runs -> PCs] /\ \A q \in Runs \ {r} : pc'[q] = pc[q]
LocMoves(r) == loc' \in [Runs -> Locs] /\ \A q \in Runs \ {r} : loc'[q] = loc[q]

LEMMA LostShrinks ==
  ASSUME NEW r \in Runs, RunStep(r)
  PROVE  lost' \subseteq lost
<1> USE DEF KeepLocks, Release, Stopped, InnerFail, OuterFail, Abort
<1>1. CASE Begin(r) \/ FullEntry(r) \/ Detect(r) \/ RestoreP0(r) \/ CaptureP0(r) \/ SaveP0(r) \/ MarkStarted(r)
  BY <1>1 DEF Begin, FullEntry, Detect, RestoreP0, CaptureP0, SaveP0, MarkStarted
<1>2. CASE AcquireLocks(r) \/ InitManifest(r) \/ Prepare(r) \/ \E t \in Tables : CopyStart(r, t) \/ CopyEnd(r, t)
  BY <1>2 DEF AcquireLocks, InitManifest, Prepare, CopyStart, CopyEnd
<1>3. CASE EngineFails(r) \/ EngineEndsEarly(r) \/ EngineDone(r) \/ EngineError(r) \/ Copied(r)
  BY <1>3 DEF EngineFails, EngineEndsEarly, EngineDone, EngineError, Copied
<1>4. CASE CaptureP1(r) \/ CatchUpOpens(r) \/ CatchUpApplies(r) \/ CatchUpFails(r) \/ CaughtUp(r) \/ CatchUpError(r)
  BY <1>4 DEF CaptureP1, CatchUpOpens, CatchUpApplies, CatchUpFails, CaughtUp, CatchUpError, ApplyEvent
<1>5. CASE RestoreIndexes(r) \/ MarkCompleted(r) \/ CompleteTask(r) \/ MarkIncremental(r) \/ StreamOpens(r)
  BY <1>5 DEF RestoreIndexes, MarkCompleted, CompleteTask, MarkIncremental, StreamOpens
<1>6. CASE StreamApplies(r) \/ StreamEnds(r) \/ StreamRollback(r) \/ MarkFailed(r) \/ FailCheck(r) \/ SetFailed(r)
  BY <1>6 DEF StreamApplies, StreamEnds, StreamRollback, MarkFailed, FailCheck, SetFailed, ApplyEvent, AfterFail
<1> QED
  BY <1>1, <1>2, <1>3, <1>4, <1>5, <1>6 DEF RunStep, FullStep, StreamStep

LEMMA RunMoves ==
  ASSUME TypeInv, NEW r \in Runs, RunStep(r)
  PROVE  Moves(r)
<1>t. /\ pc \in [Runs -> PCs] /\ loc \in [Runs -> Locs] /\ loc[r] \in Locs /\ head \in Positions /\ cp \in Positions
      /\ task \in TaskRecords /\ task.mode \in Modes /\ task.p0 \in Positions /\ task.p1 \in Positions
  BY DEF TypeInv, TaskTyped, RunTyped, DataTyped, Positions, TaskRecords
<1>z. TRUE \in BOOLEAN /\ FALSE \in BOOLEAN
  OBVIOUS
<1>g. \A l \in PCs : Go(r, l) => PcMoves(r)
  BY <1>t DEF Go, PcMoves
<1>u. UNCHANGED pc => PcMoves(r)
  BY <1>t DEF PcMoves
<1>l. \A l \in Locs : Locals(r, l) => LocMoves(r)
  BY <1>t DEF Locals, LocMoves
<1>k. UNCHANGED loc => LocMoves(r)
  BY <1>t DEF LocMoves
<1>f. /\ [loc[r] EXCEPT !.again = TRUE] \in Locs /\ [loc[r] EXCEPT !.again = FALSE] \in Locs
      /\ \A p \in Positions : /\ [loc[r] EXCEPT !.p0 = p] \in Locs /\ [loc[r] EXCEPT !.end = p] \in Locs
                              /\ [loc[r] EXCEPT !.pos = p] \in Locs
  BY <1>t, <1>z, LocalsTyped
<1>s. Stopped(r) => PcMoves(r) /\ LocMoves(r)
  BY <1>g, <1>k DEF Stopped, KeepLocals, PCs
<1>i. InnerFail(r) => PcMoves(r) /\ LocMoves(r)
  BY <1>g, <1>l, <1>f DEF InnerFail, PCs, Failing
<1>o. OuterFail(r) => PcMoves(r) /\ LocMoves(r)
  BY <1>g, <1>l, <1>f DEF OuterFail, PCs, Failing
<1>a. Abort(r) => PcMoves(r) /\ LocMoves(r)
  BY <1>s, <1>o DEF Abort
<1>p. PCs = {"none", "done", "begin", "copy", "engineerr", "finish"}
         \cup Failing \cup Fetching \cup Locking \cup Ending \cup Streaming
  BY DEF PCs
<1> USE DEF KeepLocals, Failing, Fetching, Locking, Ending, Streaming
<1>q. PcMoves(r) /\ LocMoves(r)
  <2>1. CASE Begin(r)
    <3>1. [NoLoc EXCEPT !.mode = task.mode] \in Locs
      BY <1>t, LocalsTyped
    <3> QED
      BY <2>1, <3>1, <1>g, <1>l, <1>p DEF Begin
  <2>2. CASE FullEntry(r)
    BY <2>2, <1>g, <1>k, <1>p DEF FullEntry
  <2>3. CASE Detect(r)
    <3>1. PICK l \in Locs : Locals(r, l)
      <4> DEFINE res == IF Resumes(task) THEN TRUE ELSE FALSE
      <4> DEFINE noP0 == IF Resumes(task) /\ task.mode = "ALL" /\ task.p0 = None THEN TRUE ELSE FALSE
      <4> DEFINE a == IF Resumes(task) THEN task.p0 ELSE None
      <4> DEFINE b == IF Resumes(task) THEN task.p1 ELSE None
      <4>1. res \in BOOLEAN /\ noP0 \in BOOLEAN /\ a \in Positions /\ b \in Positions
        BY <1>t DEF Positions
      <4>2. [loc[r] EXCEPT !.resume = res, !.p0 = a, !.p1 = b, !.again = noP0] \in Locs
        BY <1>t, <4>1, LocalsTyped
      <4>3. res = Resumes(task) /\ noP0 = (Resumes(task) /\ task.mode = "ALL" /\ task.p0 = None)
        BY DEF Resumes
      <4>4. Locals(r, [loc[r] EXCEPT !.resume = res, !.p0 = a, !.p1 = b, !.again = noP0])
        BY <2>3, <4>3 DEF Detect
      <4> QED
        BY <4>2, <4>4
    <3> QED
      BY <2>3, <3>1, <1>g, <1>l, <1>p DEF Detect
  <2>4. CASE RestoreP0(r) \/ CaptureP0(r) \/ SaveP0(r)
    BY <2>4, <1>t, <1>f, <1>g, <1>l, <1>k, <1>i, <1>p DEF RestoreP0, CaptureP0, SaveP0
  <2>5. CASE MarkStarted(r) \/ AcquireLocks(r) \/ InitManifest(r)
    BY <2>5, <1>g, <1>k, <1>i, <1>p DEF MarkStarted, AcquireLocks, InitManifest
  <2>6. CASE Prepare(r)
    <3>1. [loc[r] EXCEPT !.todo = {t \in Tables : task.manifest[t] # "PUBLISHED"}] \in Locs
      BY <1>t, LocalsTyped
    <3> QED
      BY <2>6, <3>1, <1>g, <1>l, <1>a, <1>i, <1>o, <1>p DEF Prepare
  <2>7. ASSUME NEW t \in Tables, CopyStart(r, t) PROVE PcMoves(r) /\ LocMoves(r)
    <3>1. [loc[r] EXCEPT !.from[t] = head] \in Locs
      BY <1>t, LocalsTyped
    <3> QED
      BY <2>7, <3>1, <1>u, <1>l DEF CopyStart
  <2>8. ASSUME NEW t \in Tables, CopyEnd(r, t) PROVE PcMoves(r) /\ LocMoves(r)
    <3>1. loc[r].todo \ {t} \in SUBSET Tables
      BY <1>t DEF Locs
    <3>2. [loc[r] EXCEPT !.todo = loc[r].todo \ {t}] \in Locs
      BY <1>t, <3>1, LocalsTyped
    <3>3. Locals(r, [loc[r] EXCEPT !.todo = loc[r].todo \ {t}])
      BY <2>8 DEF CopyEnd
    <3> QED
      BY <2>8, <3>2, <3>3, <1>u, <1>l, <1>g, <1>p DEF CopyEnd
  <2>9. CASE EngineFails(r) \/ EngineEndsEarly(r) \/ EngineDone(r)
    BY <2>9, <1>g, <1>k, <1>p DEF EngineFails, EngineEndsEarly, EngineDone
  <2>10. CASE EngineError(r) \/ Copied(r) \/ RestoreIndexes(r) \/ CatchUpError(r)
    BY <2>10, <1>g, <1>k, <1>a, <1>i, <1>o, <1>p DEF EngineError, Copied, RestoreIndexes, CatchUpError
  <2>11. CASE CaptureP1(r)
    <3>1. loc[r].p1 \in Positions
      BY <1>t DEF Locs
    <3> QED
      BY <2>11, <3>1, <1>t, <1>f, <1>l, <1>g, <1>k, <1>a, <1>i, <1>p DEF CaptureP1
  <2>12. CASE CatchUpOpens(r) \/ StreamOpens(r)
    BY <2>12, <1>t, <1>f, <1>l, <1>g, <1>k, <1>p DEF CatchUpOpens, StreamOpens, StartPosition
  <2>13. CASE CatchUpApplies(r) \/ StreamApplies(r)
    <3>1. loc[r].pos + 1 \in Positions
      <4>1. loc[r].pos \in Positions /\ loc[r].pos < head /\ head \in Pos
        BY <2>13 DEF CatchUpApplies, StreamApplies, ApplyEvent, TypeInv, RunTyped, Locs, DataTyped
      <4> QED
        BY <4>1, Constants DEF Positions, Pos, None
    <3>2. LocMoves(r)
      BY <2>13, <3>1, <1>f, <1>l DEF CatchUpApplies, StreamApplies, ApplyEvent
    <3>3. \E l \in PCs : Go(r, l)
      BY <2>13, <1>p DEF CatchUpApplies, StreamApplies, ApplyEvent
    <3> QED
      BY <3>2, <3>3, <1>g
  <2>14. CASE CatchUpFails(r) \/ CaughtUp(r)
    BY <2>14, <1>g, <1>k, <1>p DEF CatchUpFails, CaughtUp
  <2>15. CASE MarkCompleted(r) \/ CompleteTask(r) \/ MarkIncremental(r) \/ StreamEnds(r)
    BY <2>15, <1>g, <1>k, <1>p DEF MarkCompleted, CompleteTask, MarkIncremental, StreamEnds
  <2>16. CASE StreamRollback(r) \/ MarkFailed(r)
    BY <2>16, <1>f, <1>g, <1>k, <1>l, <1>p DEF StreamRollback, MarkFailed
  <2>17. CASE FailCheck(r) \/ SetFailed(r)
    BY <2>17, <1>g, <1>k, <1>o, <1>p DEF FailCheck, SetFailed, AfterFail
  <2> QED
    BY <2>1, <2>2, <2>3, <2>4, <2>5, <2>6, <2>7, <2>8, <2>9, <2>10, <2>11, <2>12, <2>13, <2>14, <2>15, <2>16, <2>17
    DEF RunStep, FullStep, StreamStep
<1> QED
  BY <1>q, LostShrinks DEF Moves, PcMoves, LocMoves
LEMMA RunKeepsLock ==
  ASSUME TypeInv, NEW r \in Runs, RunStep(r)
  PROVE  LockHeld'
<1> DEFINE LockedAt == {"manifest", "prepare", "copy", "engineerr"} \cup Ending \cup Failing
<1> DEFINE Good == lock' = r => pc'[r] \in LockedAt /\ (pc'[r] \in Failing => loc'[r].again = TRUE)
<1>t. /\ pc \in [Runs -> PCs] /\ loc \in [Runs -> Locs] /\ loc[r] \in Locs /\ lock \in 0..MaxStarts /\ r # 0
      /\ lock = r => pc[r] \in LockedAt /\ (pc[r] \in Failing => loc[r].again = TRUE)
  BY Constants DEF TypeInv, RunTyped, LockHeld
<1>h. \A l : Go(r, l) => pc'[r] = l
  BY <1>t DEF Go
<1>l. \A l : Locals(r, l) => loc'[r] = l
  BY <1>t DEF Locals
<1>r. lock' # r => Good
  OBVIOUS
<1>n. Release(r) => Good
  BY <1>t DEF Release
<1>x. [loc[r] EXCEPT !.again = TRUE].again = TRUE
  BY <1>t DEF Locs
<1>y. "markfail" \in LockedAt /\ "check" \in LockedAt /\ "setfail" \in LockedAt
  BY DEF Failing
<1>g. \A l \in {"manifest", "prepare", "copy", "engineerr"} \cup Ending : Go(r, l) => Good
  BY <1>h DEF Failing, Ending
<1>s. Stopped(r) => Good
  BY <1>n DEF Stopped
<1>o. OuterFail(r) => Good
  BY <1>n DEF OuterFail
<1>i. InnerFail(r) => Good
  BY <1>h, <1>l, <1>x, <1>y DEF InnerFail
<1>a. Abort(r) => Good
  BY <1>s, <1>o DEF Abort
<1>b. ASSUME pc[r] \in {"begin", "lock", "finish"} \cup Fetching \cup Streaming, UNCHANGED lock PROVE Good
  BY <1>b, <1>t DEF Fetching, Streaming, Failing, Ending
<1>c. ASSUME pc[r] \in Failing, pc'[r] \in Failing, UNCHANGED <<loc, lock>> PROVE Good
  BY <1>c, <1>t
<1>d. ASSUME pc[r] \in Failing, ~loc[r].again, UNCHANGED lock PROVE Good
  BY <1>d, <1>t
<1>e. \A l \in {"manifest", "prepare", "copy", "engineerr"} \cup Ending : pc'[r] = l => Good
  BY DEF Failing, Ending
<1> HIDE DEF Good, LockedAt
<1>1. ASSUME Begin(r) \/ FullEntry(r) \/ Detect(r) \/ CaptureP0(r) \/ SaveP0(r) \/ RestoreP0(r) \/ MarkStarted(r) PROVE Good
  <2>1. pc[r] \in {"begin", "full", "detect", "capture", "saveP0", "restoreP0", "mark"} /\ UNCHANGED lock
    BY <1>1 DEF Begin, FullEntry, Detect, CaptureP0, SaveP0, RestoreP0, MarkStarted, At, KeepLocks, InnerFail
  <2> QED
    BY <2>1, <1>b DEF Fetching
<1>2. ASSUME AcquireLocks(r) PROVE Good
  BY <1>2, <1>g, <1>i DEF AcquireLocks
<1>3. ASSUME InitManifest(r) \/ Prepare(r) PROVE Good
  BY <1>3, <1>g, <1>i, <1>a, <1>o DEF InitManifest, Prepare
<1>4. ASSUME NEW t \in Tables, CopyStart(r, t) \/ CopyEnd(r, t) PROVE Good
  <2>1. pc'[r] \in {"copy", "engineerr"}
    BY <1>4, <1>h DEF CopyStart, CopyEnd, At
  <2> QED
    BY <2>1, <1>e
<1> USE DEF Ending
<1>5. ASSUME EngineFails(r) \/ EngineEndsEarly(r) \/ EngineDone(r) \/ CatchUpFails(r) PROVE Good
  BY <1>5, <1>g DEF EngineFails, EngineEndsEarly, EngineDone, CatchUpFails
<1>6. ASSUME EngineError(r) \/ Copied(r) \/ CatchUpError(r) \/ RestoreIndexes(r) \/ CaptureP1(r) PROVE Good
  BY <1>6, <1>g, <1>a, <1>i, <1>o DEF EngineError, Copied, CatchUpError, RestoreIndexes, CaptureP1
<1>7. ASSUME CatchUpOpens(r) \/ CatchUpApplies(r) \/ CaughtUp(r) PROVE Good
  BY <1>7, <1>g DEF CatchUpOpens, CatchUpApplies, CaughtUp, ApplyEvent
<1>8. ASSUME MarkCompleted(r) PROVE Good
  BY <1>8, <1>n DEF MarkCompleted
<1>9. ASSUME CompleteTask(r) \/ MarkIncremental(r) \/ StreamOpens(r) \/ StreamApplies(r) \/ StreamEnds(r) \/ StreamRollback(r) PROVE Good
  <2>1. pc[r] \in {"finish", "incr", "open", "stream", "rollback"} /\ UNCHANGED lock
    BY <1>9 DEF CompleteTask, MarkIncremental, StreamOpens, StreamApplies, StreamEnds, StreamRollback, At, KeepLocks, ApplyEvent
  <2> QED
    BY <2>1, <1>b DEF Streaming
<1>10. ASSUME MarkFailed(r) PROVE Good
  BY <1>10, <1>h, <1>c DEF MarkFailed, At, KeepLocals, KeepLocks, Failing
<1>11. ASSUME FailCheck(r) \/ SetFailed(r) PROVE Good
  <2>1. pc[r] \in Failing
    BY <1>11 DEF FailCheck, SetFailed, At, Failing
  <2>2. AfterFail(r) => Good
    BY <2>1, <1>o, <1>d DEF AfterFail, KeepLocks
  <2>3. Go(r, "setfail") /\ KeepLocks /\ KeepLocals => Good
    BY <2>1, <1>h, <1>c DEF KeepLocks, KeepLocals, Failing
  <2> QED
    BY <1>11, <2>2, <2>3 DEF FailCheck, SetFailed
<1>12. Good
  BY <1>1, <1>2, <1>3, <1>4, <1>5, <1>6, <1>7, <1>8, <1>9, <1>10, <1>11 DEF RunStep, FullStep, StreamStep
<1>13. lock' \in {0, lock, r}
  <2> USE DEF KeepLocks, Release, Stopped, InnerFail, OuterFail, Abort
  <2>1. CASE Begin(r) \/ FullEntry(r) \/ Detect(r) \/ RestoreP0(r) \/ CaptureP0(r) \/ SaveP0(r) \/ MarkStarted(r)
    BY <2>1 DEF Begin, FullEntry, Detect, RestoreP0, CaptureP0, SaveP0, MarkStarted
  <2>2. CASE AcquireLocks(r) \/ InitManifest(r) \/ Prepare(r) \/ \E t \in Tables : CopyStart(r, t) \/ CopyEnd(r, t)
    BY <2>2 DEF AcquireLocks, InitManifest, Prepare, CopyStart, CopyEnd
  <2>3. CASE EngineFails(r) \/ EngineEndsEarly(r) \/ EngineDone(r) \/ EngineError(r) \/ Copied(r)
    BY <2>3 DEF EngineFails, EngineEndsEarly, EngineDone, EngineError, Copied
  <2>4. CASE CaptureP1(r) \/ CatchUpOpens(r) \/ CatchUpApplies(r) \/ CatchUpFails(r) \/ CaughtUp(r) \/ CatchUpError(r)
    BY <2>4 DEF CaptureP1, CatchUpOpens, CatchUpApplies, CatchUpFails, CaughtUp, CatchUpError, ApplyEvent
  <2>5. CASE RestoreIndexes(r) \/ MarkCompleted(r) \/ CompleteTask(r) \/ MarkIncremental(r) \/ StreamOpens(r)
    BY <2>5 DEF RestoreIndexes, MarkCompleted, CompleteTask, MarkIncremental, StreamOpens
  <2>6. CASE StreamApplies(r) \/ StreamEnds(r) \/ StreamRollback(r) \/ MarkFailed(r) \/ FailCheck(r) \/ SetFailed(r)
    BY <2>6 DEF StreamApplies, StreamEnds, StreamRollback, MarkFailed, FailCheck, SetFailed, ApplyEvent, AfterFail
  <2> QED
    BY <2>1, <2>2, <2>3, <2>4, <2>5, <2>6 DEF RunStep, FullStep, StreamStep
<1>14. \A q \in Runs \ {r} : pc'[q] = pc[q] /\ loc'[q] = loc[q]
  BY RunMoves DEF Moves
<1>15. lock' # 0 /\ lock' # r => lock' = lock /\ lock \in Runs \ {r}
  BY <1>13, <1>t, Constants DEF Runs
<1>16. lock' \in 0..MaxStarts
  BY <1>13, <1>t, Constants DEF Runs
<1> QED
  BY <1>12, <1>14, <1>15, <1>16 DEF LockHeld, TypeInv, Good, LockedAt

LEMMA RunKeepsData ==
  ASSUME TypeInv, NEW r \in Runs, RunStep(r)
  PROVE  DataTyped'
<1>t. /\ cp \in Positions /\ head \in Pos /\ head \in Positions /\ None \in Positions
      /\ base \in [Tables -> {"none", "part", "whole"}] /\ seen \in [Tables -> Positions] /\ doubled \subseteq Tables
  BY DEF TypeInv, DataTyped, Positions
<1>l. loc[r].p0 \in Positions /\ loc[r].pos \in Positions /\ loc[r].from \in [Tables -> Positions]
  BY DEF TypeInv, RunTyped, Locs
<1>h. head' = head
  BY SavesRun
<1>n. ASSUME UNCHANGED dataVars PROVE DataTyped'
  BY <1>n, <1>h, <1>t DEF dataVars, DataTyped
<1>c. ASSUME cp' \in Positions, UNCHANGED <<base, seen, doubled>> PROVE DataTyped'
  BY <1>c, <1>h, <1>t DEF DataTyped
<1>1. CASE RestoreP0(r) \/ SaveP0(r)
  BY <1>1, <1>c, <1>t, <1>l DEF RestoreP0, SaveP0
<1>2. CASE Prepare(r)
  <2>1. CASE UNCHANGED dataVars
    BY <2>1, <1>n
  <2>2. CASE ~UNCHANGED dataVars
    <3>1. PICK dropped : /\ base' = [t \in Tables |-> IF t \in dropped THEN "none" ELSE base[t]]
                         /\ seen' = [t \in Tables |-> IF t \in dropped THEN None ELSE seen[t]]
                         /\ UNCHANGED <<cp, doubled>>
      BY <1>2, <2>2 DEF Prepare
    <3> QED
      BY <3>1, <1>h, <1>t DEF DataTyped
  <2> QED
    BY <2>1, <2>2
<1>3. ASSUME NEW t \in Tables, CopyStart(r, t) PROVE DataTyped'
  <2>1. UNCHANGED <<cp, seen>>
    BY <1>3 DEF CopyStart
  <2>2. base' \in [Tables -> {"none", "part", "whole"}]
    BY <1>3, <1>t DEF CopyStart
  <2>3. doubled' \subseteq Tables
    BY <1>3, <1>t DEF CopyStart
  <2> QED
    BY <2>1, <2>2, <2>3, <1>h, <1>t DEF DataTyped
<1>4. ASSUME NEW t \in Tables, CopyEnd(r, t) PROVE DataTyped'
  BY <1>4, <1>h, <1>t, <1>l DEF CopyEnd, DataTyped
<1>5. CASE CatchUpApplies(r) \/ StreamApplies(r)
  <2>1. \E next, failed : ApplyEvent(r, next, failed)
    BY <1>5 DEF CatchUpApplies, StreamApplies
  <2>2. PICK next, failed : ApplyEvent(r, next, failed)
    BY <2>1
  <2>3. loc[r].pos + 1 \in Positions
    <3>1. loc[r].pos < head
      BY <2>2 DEF ApplyEvent
    <3> QED
      BY <3>1, <1>l, <1>t, Constants DEF Positions, Pos, None
  <2>4. \A t \in Tables : Later(seen[t], loc[r].pos + 1) \in Positions
    BY <2>3, <1>t DEF Later
  <2>5. seen' = [t \in Tables |-> IF seen[t] >= loc[r].pos THEN Later(seen[t], loc[r].pos + 1) ELSE seen[t]]
    BY <2>2 DEF ApplyEvent
  <2>6. UNCHANGED <<base, doubled>> /\ cp' \in Positions
    BY <2>2, <2>3, <1>t DEF ApplyEvent
  <2>7. seen' \in [Tables -> Positions]
    BY <2>4, <2>5, <1>t
  <2> QED
    BY <2>6, <2>7, <1>h, <1>t DEF DataTyped
<1>6. CASE Begin(r) \/ FullEntry(r) \/ Detect(r) \/ CaptureP0(r) \/ MarkStarted(r) \/ AcquireLocks(r) \/ InitManifest(r)
  BY <1>6, <1>n DEF Begin, FullEntry, Detect, CaptureP0, MarkStarted, AcquireLocks, InitManifest
<1>7. CASE EngineFails(r) \/ EngineEndsEarly(r) \/ EngineDone(r) \/ EngineError(r) \/ Copied(r) \/ CaptureP1(r)
  BY <1>7, <1>n DEF EngineFails, EngineEndsEarly, EngineDone, EngineError, Copied, CaptureP1
<1>8. CASE CatchUpOpens(r) \/ CatchUpFails(r) \/ CaughtUp(r) \/ CatchUpError(r) \/ RestoreIndexes(r) \/ MarkCompleted(r)
  BY <1>8, <1>n DEF CatchUpOpens, CatchUpFails, CaughtUp, CatchUpError, RestoreIndexes, MarkCompleted
<1>9. CASE CompleteTask(r) \/ MarkIncremental(r) \/ StreamOpens(r) \/ StreamEnds(r) \/ StreamRollback(r) \/ MarkFailed(r)
           \/ FailCheck(r) \/ SetFailed(r)
  BY <1>9, <1>n DEF CompleteTask, MarkIncremental, StreamOpens, StreamEnds, StreamRollback, MarkFailed, FailCheck, SetFailed
<1> QED
  BY <1>1, <1>2, <1>3, <1>4, <1>5, <1>6, <1>7, <1>8, <1>9 DEF RunStep, FullStep, StreamStep

LEMMA RunStarted ==
  ASSUME NEW r \in Runs, RunStep(r)
  PROVE  pc[r] \notin {"none", "done"}
<1> USE DEF At
<1>1. CASE Begin(r) \/ FullEntry(r) \/ Detect(r) \/ RestoreP0(r) \/ CaptureP0(r) \/ SaveP0(r) \/ MarkStarted(r)
  BY <1>1 DEF Begin, FullEntry, Detect, RestoreP0, CaptureP0, SaveP0, MarkStarted
<1>2. CASE AcquireLocks(r) \/ InitManifest(r) \/ Prepare(r) \/ \E t \in Tables : CopyStart(r, t) \/ CopyEnd(r, t)
  BY <1>2 DEF AcquireLocks, InitManifest, Prepare, CopyStart, CopyEnd
<1>3. CASE EngineFails(r) \/ EngineEndsEarly(r) \/ EngineDone(r) \/ EngineError(r) \/ Copied(r)
  BY <1>3 DEF EngineFails, EngineEndsEarly, EngineDone, EngineError, Copied
<1>4. CASE CaptureP1(r) \/ CatchUpOpens(r) \/ CatchUpApplies(r) \/ CatchUpFails(r) \/ CaughtUp(r) \/ CatchUpError(r)
  BY <1>4 DEF CaptureP1, CatchUpOpens, CatchUpApplies, CatchUpFails, CaughtUp, CatchUpError
<1>5. CASE RestoreIndexes(r) \/ MarkCompleted(r) \/ CompleteTask(r) \/ MarkIncremental(r) \/ StreamOpens(r)
  BY <1>5 DEF RestoreIndexes, MarkCompleted, CompleteTask, MarkIncremental, StreamOpens
<1>6. CASE StreamApplies(r) \/ StreamEnds(r) \/ StreamRollback(r) \/ MarkFailed(r) \/ FailCheck(r) \/ SetFailed(r)
  BY <1>6 DEF StreamApplies, StreamEnds, StreamRollback, MarkFailed, FailCheck, SetFailed
<1> QED
  BY <1>1, <1>2, <1>3, <1>4, <1>5, <1>6 DEF RunStep, FullStep, StreamStep

LEMMA UserKeepsTypes ==
  ASSUME TypeInv, UserStep \/ ServiceStep \/ EnvStep
  PROVE  RunTyped' /\ DataTyped' /\ LockHeld' /\ Unstarted'
<1>t. /\ pc \in [Runs -> PCs] /\ loc \in [Runs -> Locs] /\ lock \in 0..MaxStarts /\ runtime \in 0..MaxStarts
      /\ starts \in 0..MaxStarts /\ closing \subseteq Runs /\ dead \subseteq Runs /\ lost \subseteq Runs
      /\ setup \in {"none", "repeat", "cron"} /\ (runtime # 0 => runtime \in Runs)
  BY Constants DEF TypeInv, RunTyped, LockHeld, Runs
<1>f. ASSUME UNCHANGED <<pc, loc, lock>> PROVE LockHeld'
  BY <1>f DEF TypeInv, LockHeld
<1>d. ASSUME UNCHANGED <<dataVars, head>> PROVE DataTyped'
  BY <1>d DEF TypeInv, DataTyped, dataVars
<1>c. \A S : S \subseteq Runs \cup {0} /\ Cancel(S) => dead' \subseteq Runs
  BY <1>t DEF Cancel
<1>v. ASSUME NEW S, S = {runtime} \/ S = closing, Cancel(S) PROVE dead' \subseteq Runs
  <2>1. S \subseteq Runs \cup {0}
    BY <1>t, <1>v
  <2> QED
    BY <1>c, <1>v, <2>1
<1>w. ASSUME UNCHANGED <<starts, pc>> PROVE Unstarted'
  BY <1>w DEF TypeInv, Unstarted
<1>1. CASE StartBlocked \/ SkipError \/ CancelSchedule \/ (\E m \in Modes : UpdateTask(m)) \/ SourceWrites \/ CheckpointLost
  <2>1. UNCHANGED <<runtime, userVars, runVars>>
    BY <1>1 DEF StartBlocked, SkipError, CancelSchedule, UpdateTask, SourceWrites, CheckpointLost, UserOp, userVars, runVars
  <2>2. RunTyped'
    BY <1>t, <2>1 DEF RunTyped, userVars, runVars
  <2>3. DataTyped'
    <3>1. CASE SourceWrites
      BY <3>1, Constants DEF SourceWrites, TypeInv, DataTyped, dataVars, Pos
    <3>2. CASE CheckpointLost
      BY <3>2 DEF CheckpointLost, TypeInv, DataTyped, Positions
    <3>3. CASE StartBlocked \/ SkipError \/ CancelSchedule \/ \E m \in Modes : UpdateTask(m)
      BY <3>3, <1>d DEF StartBlocked, SkipError, CancelSchedule, UpdateTask, UserOp
    <3> QED
      BY <1>1, <3>1, <3>2, <3>3
  <2> QED
    BY <1>f, <1>w, <2>1, <2>2, <2>3 DEF runVars, userVars
<1>2. ASSUME NEW r \in Runs, StartTask(r) PROVE RunTyped' /\ DataTyped' /\ LockHeld' /\ Unstarted'
  <2>1. pc' = [pc EXCEPT ![r] = "begin"] /\ UNCHANGED <<closing, setup, loc, lock, lost>> /\ starts' = r /\ runtime' = r
    BY <1>2 DEF StartTask
  <2>2. r \in 0..MaxStarts /\ r # 0 /\ Cancel({runtime})
    BY <1>2, Constants DEF StartTask, Runs
  <2>3. dead' \subseteq Runs
    BY <1>v, <2>2
  <2>4. RunTyped'
    BY <1>t, <2>1, <2>2, <2>3 DEF RunTyped, PCs
  <2>5. lock # 0 => lock # r
    <3>1. r > starts
      BY <1>2, <1>t DEF StartTask, Runs
    <3>2. pc[r] = "none"
      BY <3>1 DEF TypeInv, Unstarted
    <3> QED
      BY <3>2 DEF TypeInv, LockHeld, Ending, Failing
  <2>6. LockHeld'
    BY <1>t, <2>1, <2>5 DEF TypeInv, LockHeld
  <2>7. Unstarted'
    <3>1. starts' = starts + 1 /\ starts' = r
      BY <1>2 DEF StartTask
    <3> QED
      BY <3>1, <2>1, <1>t, Constants DEF TypeInv, Unstarted, Runs
  <2> QED
    BY <1>2, <1>d, <2>4, <2>6, <2>7 DEF StartTask
<1>3. CASE PauseTask
  <2>1. UNCHANGED <<userVars, pc, loc, lock, lost>> /\ runtime' = 0 /\ Cancel({runtime}) /\ UNCHANGED <<dataVars, head>>
    BY <1>3 DEF PauseTask, UserOp
  <2>2. dead' \subseteq Runs /\ 0 \in 0..MaxStarts
    BY <1>v, <2>1, Constants
  <2>3. RunTyped'
    BY <1>t, <2>1, <2>2 DEF RunTyped, userVars
  <2> QED
    BY <1>d, <1>f, <1>w, <2>1, <2>3 DEF userVars
<1>4. CASE EndTask
  <2>1. UNCHANGED <<setup, starts, pc, loc, lock, lost, dead>> /\ runtime' = 0 /\ UNCHANGED <<dataVars, head>>
        /\ closing' = closing \cup ({runtime} \ {0})
    BY <1>4 DEF EndTask, UserOp, runVars
  <2>2. closing' \subseteq Runs /\ 0 \in 0..MaxStarts
    BY <1>t, <2>1, Constants
  <2>3. RunTyped'
    BY <1>t, <2>1, <2>2 DEF RunTyped
  <2> QED
    BY <1>d, <1>f, <1>w, <2>1, <2>3 DEF userVars
<1>5. ASSUME NEW kind \in {"once", "repeat", "cron"}, Schedule(kind) PROVE RunTyped' /\ DataTyped' /\ LockHeld' /\ Unstarted'
  <2>1. UNCHANGED <<closing, starts, runtime, pc, dead, loc, lock, lost>> /\ setup' \in {"none", "repeat", "cron"}
        /\ UNCHANGED <<dataVars, head>>
    BY <1>5 DEF Schedule, UserOp
  <2>2. RunTyped'
    BY <1>t, <2>1 DEF RunTyped
  <2> QED
    BY <1>d, <1>f, <1>w, <2>1, <2>2
<1>6. CASE Configure \/ EndTaskCloses
  <2>1. UNCHANGED <<starts, runtime, pc, loc, lock, lost>> /\ setup' \in {"none", "repeat", "cron"}
        /\ UNCHANGED <<dataVars, head>> /\ closing' \subseteq Runs
    BY <1>6, <1>t DEF Configure, EndTaskCloses, runVars
  <2>2. dead' \subseteq Runs
    BY <1>6, <1>t, <1>c DEF Configure, EndTaskCloses, runVars
  <2>3. RunTyped'
    BY <1>t, <2>1, <2>2 DEF RunTyped
  <2> QED
    BY <1>d, <1>f, <1>w, <2>1, <2>3 DEF userVars
<1>7. CASE CrashAndRestart
  <2>1. pc' \in [Runs -> PCs]
    BY <1>7 DEF CrashAndRestart, PCs
  <2>2. loc' \in [Runs -> Locs]
    BY <1>7, NoLocTyped DEF CrashAndRestart
  <2>3. RunTyped'
    BY <1>7, <1>t, <2>1, <2>2, Constants DEF CrashAndRestart, RunTyped
  <2>4. LockHeld'
    BY <1>7, Constants DEF CrashAndRestart, LockHeld
  <2>5. Unstarted'
    BY <1>7 DEF CrashAndRestart, TypeInv, Unstarted
  <2> QED
    BY <1>7, <1>d, <2>3, <2>4, <2>5 DEF CrashAndRestart
<1>8. CASE SchemaLockLost
  <2>1. UNCHANGED <<runtime, userVars, pc, dead, loc, dataVars, head>> /\ lost' = lost \cup {lock} /\ lock # 0 /\ lock' = 0
    BY <1>8 DEF SchemaLockLost
  <2>2. lost' \subseteq Runs /\ 0 \in 0..MaxStarts
    BY <1>t, <2>1, Constants DEF Runs
  <2>3. RunTyped'
    BY <1>t, <2>1, <2>2 DEF RunTyped, userVars
  <2> QED
    BY <1>d, <1>w, <2>1, <2>2, <2>3 DEF LockHeld, userVars
<1> QED
  BY <1>1, <1>2, <1>3, <1>4, <1>5, <1>6, <1>7, <1>8 DEF UserStep, ServiceStep, EnvStep

LEMMA TypeStep == TypeInv /\ [Next]_vars => TypeInv'
<1> SUFFICES ASSUME TypeInv, [Next]_vars PROVE TypeInv'
  OBVIOUS
<1>1. ASSUME NEW r \in Runs, RunStep(r) PROVE TypeInv'
  <2>1. Moves(r) /\ UNCHANGED <<runtime, userVars, dead, head>> /\ LockHeld' /\ DataTyped'
    BY <1>1, RunMoves, SavesRun, RunKeepsLock, RunKeepsData
  <2>2. TaskTyped'
    <3>1. CASE SavingStep(r)
      BY <3>1, TaskOfSave
    <3>2. CASE ControlStep(r)
      <4>1. UNCHANGED <<task, disk>> /\ (faults' = faults \/ Fault("db"))
        BY <3>2, ControlKeeps
      <4> QED
        BY <4>1, FaultTyped DEF TypeInv, TaskTyped
    <3> QED
      BY <1>1, <3>1, <3>2, RunSteps
  <2>3. RunTyped'
    BY <2>1 DEF TypeInv, RunTyped, Moves, userVars
  <2>4. Unstarted'
    BY <1>1, <2>1, RunStarted DEF TypeInv, Unstarted, Moves, userVars
  <2> QED
    BY <2>1, <2>2, <2>3, <2>4 DEF TypeInv
<1>2. CASE UserStep \/ ServiceStep \/ EnvStep
  BY <1>2, TaskOfUser, UserKeepsTypes DEF TypeInv
<1>3. CASE UNCHANGED vars
  <2>1. TaskTyped' /\ RunTyped'
    BY <1>3 DEF TypeInv, TaskTyped, RunTyped, vars, userVars, runVars
  <2>2. DataTyped' /\ LockHeld' /\ Unstarted'
    BY <1>3 DEF TypeInv, DataTyped, LockHeld, Unstarted, vars, userVars, runVars, dataVars
  <2> QED
    BY <2>1, <2>2 DEF TypeInv
<1> QED
  BY <1>1, <1>2, <1>3 DEF Next

LEMMA TypeFollows == TypeInv => TypeOK
<1> SUFFICES ASSUME TypeInv PROVE TypeOK
  OBVIOUS
<1>1. lock # 0 => Live(lock) /\ pc[lock] \notin {"begin", "full", "detect", "lock", "incr", "open", "stream"}
  BY DEF TypeInv, LockHeld, Live, Ending, Failing
<1> QED
  BY <1>1 DEF TypeInv, TaskTyped, RunTyped, DataTyped, LockHeld, Positions, TypeOK

(* The variables have their types, whatever pauses, restarts, crashes and  *)
(* failed saves there are, and the schema locks belong to a live run that  *)
(* is past AcquireLocks and has not returned from executeFullSync: no path *)
(* out of it forgets its Release, and a run that has ended blocks no other.*)
THEOREM TypeCorrect == Spec => []TypeOK
<1>1. Spec => []TypeInv
  BY TypeInit, TypeStep, PTL DEF Spec
<1> QED
  BY <1>1, TypeFollows, PTL

-----------------------------------------------------------------------------
(* The task file *)

(* When no save fails the file holds the task.                             *)
Written == "save" \notin Faults => disk = task

(* A restart reads a file that a failed save has left behind only when the *)
(* instance has both kinds of faults.                                      *)
FileTrusted == "save" \notin Faults \/ "crash" \notin Faults

LEMMA WrittenStep == Written /\ [Next]_vars => Written'
<1> SUFFICES ASSUME Written, [Next]_vars, "save" \notin Faults PROVE disk' = task'
  BY DEF Written
<1>a. disk = task
  BY DEF Written
<1>s. \A k : Save(k) => disk' = task'
  BY DEF Save, Fault
<1>u. UNCHANGED <<task, disk>> => disk' = task'
  BY <1>a
<1>1. ASSUME NEW r \in Runs, RunStep(r) PROVE disk' = task'
  <2>1. CASE ControlStep(r)
    BY <2>1, <1>u, ControlKeeps
  <2>2. CASE SavingStep(r)
    <3>1. CASE FullEntry(r) \/ MarkStarted(r) \/ CaptureP1(r) \/ CaughtUp(r) \/ MarkCompleted(r) \/ CompleteTask(r)
      BY <3>1, <1>s, <1>u DEF FullEntry, MarkStarted, CaptureP1, CaughtUp, MarkCompleted, CompleteTask,
         Quiet, Untouched, Abort
    <3>2. CASE MarkIncremental(r) \/ StreamRollback(r) \/ MarkFailed(r) \/ SetFailed(r)
      BY <3>2, <1>s DEF MarkIncremental, StreamRollback, MarkFailed, SetFailed
    <3>3. CASE InitManifest(r) \/ \E t \in Tables : CopyEnd(r, t)
      BY <3>3, <1>u DEF InitManifest, CopyEnd, Quiet, Untouched, Fault
    <3> QED
      BY <2>2, <3>1, <3>2, <3>3 DEF SavingStep
  <2> QED
    BY <1>1, <2>1, <2>2, RunSteps
<1>2. CASE UserStep
  BY <1>2, <1>s DEF UserStep, StartBlocked, StartTask, PauseTask, EndTask, SkipError, Schedule, CancelSchedule, UpdateTask
<1>3. CASE ServiceStep \/ EnvStep
  BY <1>3, <1>s, <1>u DEF ServiceStep, EnvStep, EndTaskCloses, Configure, CrashAndRestart, SourceWrites, CheckpointLost, SchemaLockLost
<1>4. CASE UNCHANGED vars
  BY <1>4, <1>u DEF vars
<1> QED
  BY <1>1, <1>2, <1>3, <1>4 DEF Next

-----------------------------------------------------------------------------
(* What a step leaves of the task *)

SameLoad(k, j) ==
  /\ k.manifest = j.manifest /\ k.p0 = j.p0 /\ k.p1 = j.p1 /\ k.sub = j.sub
  /\ (k.completedAt = TRUE <=> j.completedAt = TRUE)

SameKind(k, j) == (k.rebuild = TRUE <=> j.rebuild = TRUE) /\ (k.staging = TRUE <=> j.staging = TRUE)

LEMMA TaskChanges ==
  ASSUME NEW k \in TaskRecords
  PROVE  /\ \A s : /\ SameLoad([k EXCEPT !.status = s], k) /\ SameKind([k EXCEPT !.status = s], k)
                   /\ [k EXCEPT !.status = s].phase = k.phase /\ [k EXCEPT !.status = s].mode = k.mode
         /\ \A s : /\ SameLoad([ClearScheduleConfig(k) EXCEPT !.status = s], k)
                   /\ SameKind([ClearScheduleConfig(k) EXCEPT !.status = s], k)
                   /\ [ClearScheduleConfig(k) EXCEPT !.status = s].phase = k.phase
                   /\ [ClearScheduleConfig(k) EXCEPT !.status = s].mode = k.mode
         /\ SameLoad(Started(k), k) /\ SameKind(Started(k), k) /\ Started(k).phase = k.phase /\ Started(k).mode = k.mode
         /\ /\ SameLoad(ScheduledTask(k), k) /\ SameKind(ScheduledTask(k), k)
            /\ ScheduledTask(k).phase = k.phase /\ ScheduledTask(k).mode = k.mode
         /\ SameLoad(Completed(k), k) /\ SameKind(Completed(k), k) /\ Completed(k).phase = k.phase /\ Completed(k).mode = k.mode
         /\ \A m : /\ SameLoad([k EXCEPT !.mode = m], k) /\ SameKind([k EXCEPT !.mode = m], k)
                   /\ [k EXCEPT !.mode = m].phase = k.phase
         /\ \A c, l : /\ SameLoad([k EXCEPT !.cron = c, !.left = l], k) /\ SameKind([k EXCEPT !.cron = c, !.left = l], k)
                      /\ [k EXCEPT !.cron = c, !.left = l].phase = k.phase /\ [k EXCEPT !.cron = c, !.left = l].mode = k.mode
<1> USE DEF SameLoad, SameKind, TaskRecords, ClearScheduleConfig, Started, ScheduledTask, Completed
<1>1. \A s : /\ SameLoad([k EXCEPT !.status = s], k) /\ SameKind([k EXCEPT !.status = s], k)
             /\ [k EXCEPT !.status = s].phase = k.phase /\ [k EXCEPT !.status = s].mode = k.mode
  OBVIOUS
<1>2. \A s : /\ SameLoad([ClearScheduleConfig(k) EXCEPT !.status = s], k)
             /\ SameKind([ClearScheduleConfig(k) EXCEPT !.status = s], k)
             /\ [ClearScheduleConfig(k) EXCEPT !.status = s].phase = k.phase
             /\ [ClearScheduleConfig(k) EXCEPT !.status = s].mode = k.mode
  OBVIOUS
<1>3. SameLoad(Started(k), k) /\ SameKind(Started(k), k) /\ Started(k).phase = k.phase /\ Started(k).mode = k.mode
  OBVIOUS
<1>4. /\ SameLoad(ScheduledTask(k), k) /\ SameKind(ScheduledTask(k), k)
      /\ ScheduledTask(k).phase = k.phase /\ ScheduledTask(k).mode = k.mode
  OBVIOUS
<1>5. SameLoad(Completed(k), k) /\ SameKind(Completed(k), k) /\ Completed(k).phase = k.phase /\ Completed(k).mode = k.mode
  OBVIOUS
<1>6. \A m : /\ SameLoad([k EXCEPT !.mode = m], k) /\ SameKind([k EXCEPT !.mode = m], k)
             /\ [k EXCEPT !.mode = m].phase = k.phase
  OBVIOUS
<1>7. \A c, l : /\ SameLoad([k EXCEPT !.cron = c, !.left = l], k) /\ SameKind([k EXCEPT !.cron = c, !.left = l], k)
                /\ [k EXCEPT !.cron = c, !.left = l].phase = k.phase /\ [k EXCEPT !.cron = c, !.left = l].mode = k.mode
  OBVIOUS
<1> HIDE DEF SameLoad, SameKind, TaskRecords, ClearScheduleConfig, Started, ScheduledTask, Completed
<1> QED
  BY <1>1, <1>2, <1>3, <1>4, <1>5, <1>6, <1>7, Zenon

(* A user's operation and the service leave what the load has recorded;    *)
(* only a refused start changes the phase, and only an edit the mode.      *)
LEMMA UserKeepsLoad ==
  ASSUME TypeInv, UserStep \/ ServiceStep \/ SourceWrites \/ CheckpointLost \/ SchemaLockLost
  PROVE  /\ SameLoad(task', task) /\ SameKind(task', task)
         /\ task'.phase = task.phase \/ (StartBlocked /\ task'.phase = "FULL_FAILED")
         /\ task'.mode = task.mode \/ \E m \in Modes : UpdateTask(m) /\ task'.mode = m
         /\ UNCHANGED <<base, seen, doubled>> /\ (cp' = cp \/ CheckpointLost) /\ (head' = head \/ SourceWrites)
<1>t. task \in TaskRecords
  BY DEF TypeInv, TaskTyped
<1>s. \A k : Save(k) => task' = k
  BY DEF Save
<1> USE DEF UserOp, dataVars
<1>k. SameLoad(task, task) /\ SameKind(task, task)
  BY DEF SameLoad, SameKind
<1>1. CASE StartBlocked
  <2>1. task' = [MarkFullSyncFailed(task) EXCEPT !.status = "FAILED"] /\ UNCHANGED <<dataVars, head>>
    BY <1>1, <1>s DEF StartBlocked
  <2>2. SameLoad(task', task) /\ SameKind(task', task) /\ task'.phase = "FULL_FAILED" /\ task'.mode = task.mode
    BY <1>t, <2>1 DEF MarkFullSyncFailed, SameLoad, SameKind, TaskRecords
  <2> QED
    BY <1>1, <2>1, <2>2
<1>2. ASSUME NEW r \in Runs, StartTask(r)
      PROVE  /\ SameLoad(task', task) /\ SameKind(task', task) /\ task'.phase = task.phase /\ task'.mode = task.mode
             /\ UNCHANGED <<dataVars, head>>
  BY <1>2, <1>s, <1>t, TaskChanges DEF StartTask
<1>3. CASE PauseTask \/ SkipError \/ EndTask \/ CancelSchedule
  <2>1. \E s : task' = [task EXCEPT !.status = s] \/ task' = [ClearScheduleConfig(task) EXCEPT !.status = s]
    BY <1>3, <1>s DEF PauseTask, SkipError, EndTask, CancelSchedule
  <2>2. SameLoad(task', task) /\ SameKind(task', task) /\ task'.phase = task.phase /\ task'.mode = task.mode
    <3>1. CASE \E s : task' = [task EXCEPT !.status = s]
      <4> PICK s : task' = [task EXCEPT !.status = s]
        BY <3>1
      <4> QED
        BY <1>t, TaskChanges
    <3>2. CASE \E s : task' = [ClearScheduleConfig(task) EXCEPT !.status = s]
      <4> PICK s : task' = [ClearScheduleConfig(task) EXCEPT !.status = s]
        BY <3>2
      <4> QED
        BY <1>t, TaskChanges
    <3> QED
      BY <2>1, <3>1, <3>2
  <2> QED
    BY <1>3, <2>2 DEF PauseTask, SkipError, EndTask, CancelSchedule
<1>4. ASSUME NEW kind, Schedule(kind)
      PROVE  /\ SameLoad(task', task) /\ SameKind(task', task) /\ task'.phase = task.phase /\ task'.mode = task.mode
             /\ UNCHANGED <<dataVars, head>>
  BY <1>4, <1>s, <1>t, TaskChanges DEF Schedule
<1>5. ASSUME NEW m \in Modes, UpdateTask(m)
      PROVE  /\ SameLoad(task', task) /\ SameKind(task', task) /\ task'.phase = task.phase /\ task'.mode = m
             /\ UNCHANGED <<dataVars, head>>
  <2>1. task' = [task EXCEPT !.mode = m] /\ UNCHANGED <<dataVars, head>>
    BY <1>5, <1>s DEF UpdateTask
  <2>2. [task EXCEPT !.mode = m].mode = m
    BY <1>t DEF TaskRecords
  <2> QED
    BY <2>1, <2>2, <1>t, TaskChanges
<1>6. CASE Configure
  <2>1. task' = [task EXCEPT !.cron = TRUE, !.left = 0] \/ task' = [task EXCEPT !.cron = FALSE, !.left = 2]
    BY <1>6, <1>s DEF Configure
  <2>2. SameLoad(task', task) /\ SameKind(task', task) /\ task'.phase = task.phase /\ task'.mode = task.mode
    <3>1. CASE task' = [task EXCEPT !.cron = TRUE, !.left = 0]
      BY <3>1, <1>t DEF SameLoad, SameKind, TaskRecords
    <3>2. CASE task' = [task EXCEPT !.cron = FALSE, !.left = 2]
      BY <3>2, <1>t DEF SameLoad, SameKind, TaskRecords
    <3> QED
      BY <2>1, <3>1, <3>2
  <2> QED
    BY <1>6, <2>2 DEF Configure
<1>7. CASE EndTaskCloses \/ SourceWrites \/ CheckpointLost \/ SchemaLockLost
  BY <1>7, <1>k DEF EndTaskCloses, SourceWrites, CheckpointLost, SchemaLockLost
<1> QED
  BY <1>1, <1>2, <1>3, <1>4, <1>5, <1>6, <1>7 DEF UserStep, ServiceStep

LEMMA RunKeepsKind ==
  ASSUME TypeInv, NEW r \in Runs, RunStep(r)
  PROVE  SameKind(task', task) /\ task'.mode = task.mode
<1>t. task \in TaskRecords
  BY DEF TypeInv, TaskTyped
<1>s. \A k : Save(k) => task' = k
  BY DEF Save
<1>k. UNCHANGED task => SameKind(task', task) /\ task'.mode = task.mode
  BY DEF SameKind
<1>m. \A f : /\ SameKind([task EXCEPT !.manifest = f], task) /\ [task EXCEPT !.manifest = f].mode = task.mode
             /\ SameKind([task EXCEPT !.phase = f], task) /\ [task EXCEPT !.phase = f].mode = task.mode
  BY <1>t DEF SameKind, TaskRecords
<1>1. CASE ControlStep(r)
  BY <1>1, <1>k, ControlKeeps
<1>2. CASE SavingStep(r)
  <2>1. CASE FullEntry(r) \/ InitManifest(r) \/ MarkIncremental(r) \/ StreamRollback(r)
    BY <2>1, <1>s, <1>k, <1>m DEF FullEntry, InitManifest, MarkIncremental, StreamRollback, Quiet, Untouched
  <2>2. CASE MarkStarted(r)
    <3>1. task' = [task EXCEPT !.phase = "FULL_STARTED"] \/ task' = MarkFullSyncStarted(task, loc[r].p0)
      BY <2>2, <1>s DEF MarkStarted
    <3>2. \A p : SameKind(MarkFullSyncStarted(task, p), task) /\ MarkFullSyncStarted(task, p).mode = task.mode
      BY <1>t DEF MarkFullSyncStarted, SameKind, TaskRecords
    <3> QED
      BY <3>1, <3>2, <1>m
  <2>3. ASSUME NEW t \in Tables, CopyEnd(r, t) PROVE SameKind(task', task) /\ task'.mode = task.mode
    <3>1. task' = task \/ task' = [task EXCEPT !.manifest = [task.manifest EXCEPT ![t] = "PUBLISHED"]]
      BY <2>3 DEF CopyEnd, Quiet, Untouched
    <3> QED
      BY <3>1, <1>k, <1>m
  <2>4. CASE CaptureP1(r) \/ CaughtUp(r)
    <3>1. \/ task' = task \/ task' = [task EXCEPT !.p1 = head, !.sub = "CATCH_UP"]
          \/ task' = [task EXCEPT !.sub = "RESTORE_INDEX"]
      BY <2>4, <1>s DEF CaptureP1, CaughtUp, Abort, Quiet, Untouched
    <3> QED
      BY <3>1, <1>t DEF SameKind, TaskRecords
  <2>5. CASE MarkCompleted(r) \/ MarkFailed(r)
    <3>1. task' = MarkFullSyncCompleted(task) \/ task' = MarkFullSyncFailed(task)
      BY <2>5, <1>s DEF MarkCompleted, MarkFailed
    <3> QED
      BY <3>1, <1>t DEF SameKind, TaskRecords, MarkFullSyncCompleted, MarkFullSyncFailed
  <2>6. CASE CompleteTask(r)
    BY <2>6, <1>s, <1>t, TaskChanges DEF CompleteTask
  <2>7. CASE SetFailed(r)
    <3>1. task' = [task EXCEPT !.status = "FAILED"]
      BY <2>7, <1>s DEF SetFailed
    <3> QED
      BY <3>1, <1>t DEF SameKind, TaskRecords
  <2> QED
    BY <1>2, <2>1, <2>2, <2>3, <2>4, <2>5, <2>6, <2>7 DEF SavingStep
<1> QED
  BY <1>1, <1>2, RunSteps

LEMMA RunKeepsManifest ==
  ASSUME TypeInv, NEW r \in Runs, RunStep(r), ~FullEntry(r), ~InitManifest(r), \A t \in Tables : ~CopyEnd(r, t)
  PROVE  task'.manifest = task.manifest
<1>t. task \in TaskRecords
  BY DEF TypeInv, TaskTyped
<1>s. \A k : Save(k) => task' = k
  BY DEF Save
<1>1. CASE ControlStep(r)
  BY <1>1, ControlKeeps
<1>2. CASE MarkStarted(r)
  <2>1. task' = [task EXCEPT !.phase = "FULL_STARTED"] \/ task' = MarkFullSyncStarted(task, loc[r].p0)
    BY <1>2, <1>s DEF MarkStarted
  <2> QED
    BY <2>1, <1>t DEF MarkFullSyncStarted, TaskRecords
<1>3. CASE CaptureP1(r) \/ CaughtUp(r)
  BY <1>3, <1>s, <1>t DEF CaptureP1, CaughtUp, Abort, Quiet, Untouched, TaskRecords
<1>4. CASE MarkCompleted(r) \/ MarkFailed(r) \/ MarkIncremental(r) \/ StreamRollback(r)
  BY <1>4, <1>s, <1>t DEF MarkCompleted, MarkFailed, MarkIncremental, StreamRollback, MarkFullSyncCompleted, MarkFullSyncFailed, TaskRecords
<1>5. CASE CompleteTask(r)
  <2>1. task' = Completed(task)
    BY <1>5, <1>s DEF CompleteTask
  <2>2. SameLoad(Completed(task), task)
    BY <1>t, TaskChanges
  <2> QED
    BY <2>1, <2>2 DEF SameLoad
<1>6. CASE SetFailed(r)
  BY <1>6, <1>s, <1>t DEF SetFailed, TaskRecords
<1> QED
  BY <1>1, <1>2, <1>3, <1>4, <1>5, <1>6, RunSteps DEF SavingStep

(* The target's tables change in three steps of a run only.                *)
LEMMA RunKeepsBase ==
  ASSUME NEW r \in Runs, RunStep(r), ~Prepare(r), \A t \in Tables : ~CopyStart(r, t) /\ ~CopyEnd(r, t)
  PROVE  UNCHANGED <<base, doubled>>
<1> USE DEF dataVars
<1>1. CASE Begin(r) \/ FullEntry(r) \/ Detect(r) \/ RestoreP0(r) \/ CaptureP0(r) \/ SaveP0(r) \/ MarkStarted(r)
           \/ AcquireLocks(r) \/ InitManifest(r)
  BY <1>1 DEF Begin, FullEntry, Detect, RestoreP0, CaptureP0, SaveP0, MarkStarted, AcquireLocks, InitManifest
<1>2. CASE EngineFails(r) \/ EngineEndsEarly(r) \/ EngineDone(r) \/ EngineError(r) \/ Copied(r) \/ CaptureP1(r)
  BY <1>2 DEF EngineFails, EngineEndsEarly, EngineDone, EngineError, Copied, CaptureP1
<1>3. CASE CatchUpOpens(r) \/ CatchUpApplies(r) \/ CatchUpFails(r) \/ CaughtUp(r) \/ CatchUpError(r)
           \/ RestoreIndexes(r) \/ MarkCompleted(r)
  BY <1>3 DEF CatchUpOpens, CatchUpApplies, CatchUpFails, CaughtUp, CatchUpError, RestoreIndexes, MarkCompleted, ApplyEvent
<1>4. CASE CompleteTask(r) \/ MarkIncremental(r) \/ StreamOpens(r) \/ StreamApplies(r) \/ StreamEnds(r) \/ StreamRollback(r)
           \/ MarkFailed(r) \/ FailCheck(r) \/ SetFailed(r)
  BY <1>4 DEF CompleteTask, MarkIncremental, StreamOpens, StreamApplies, StreamEnds, StreamRollback, MarkFailed,
     FailCheck, SetFailed, ApplyEvent
<1> QED
  BY <1>1, <1>2, <1>3, <1>4 DEF RunStep, FullStep, StreamStep

-----------------------------------------------------------------------------
(* What the manifest says is there *)

Staged == \A t \in Tables : task.manifest[t] = "PUBLISHED" => base[t] = "whole" /\ task.staging = TRUE

LEMMA RunKeepsStaged ==
  ASSUME TypeInv, Staged, NEW r \in Runs, RunStep(r)
  PROVE  Staged'
<1>t. /\ task \in TaskRecords /\ task.manifest \in [Tables -> {"none", "PENDING", "PUBLISHED"}]
      /\ base \in [Tables -> {"none", "part", "whole"}]
  BY DEF TypeInv, TaskTyped, DataTyped, TaskRecords
<1>s. task'.staging = TRUE <=> task.staging = TRUE
  BY RunKeepsKind DEF SameKind
<1>0. CASE ~FullEntry(r) /\ ~InitManifest(r) /\ ~Prepare(r) /\ (\A t \in Tables : ~CopyStart(r, t) /\ ~CopyEnd(r, t))
  BY <1>0, <1>s, RunKeepsManifest, RunKeepsBase DEF Staged
<1>1. CASE FullEntry(r) \/ InitManifest(r)
  <2>1. UNCHANGED base
    BY <1>1 DEF FullEntry, InitManifest, dataVars
  <2>2. \/ task' = task \/ task' = [task EXCEPT !.manifest = [t \in Tables |-> "none"]]
        \/ task' = [task EXCEPT !.manifest = [t \in Tables |-> "PENDING"]]
    BY <1>1 DEF FullEntry, InitManifest, Save, Quiet, Untouched
  <2>3. \A t \in Tables : task'.manifest[t] = "PUBLISHED" => task.manifest[t] = "PUBLISHED"
    <3>1. \/ task'.manifest = task.manifest \/ task'.manifest = [t \in Tables |-> "none"]
          \/ task'.manifest = [t \in Tables |-> "PENDING"]
      BY <2>2, <1>t DEF TaskRecords
    <3> QED
      BY <3>1
  <2> QED
    BY <2>1, <2>3, <1>s DEF Staged
<1>2. CASE Prepare(r)
  <2>1. UNCHANGED task
    BY <1>2 DEF Prepare, Abort, Quiet, Untouched
  <2>2. \A t \in Tables : task.manifest[t] = "PUBLISHED" => base'[t] = base[t]
    BY <1>2 DEF Prepare, DropBeforeCopy, dataVars
  <2> QED
    BY <2>1, <2>2 DEF Staged
<1>3. ASSUME NEW t \in Tables, CopyStart(r, t) PROVE Staged'
  <2>1. UNCHANGED task
    BY <1>3 DEF CopyStart, Quiet, Untouched
  <2>2. task.staging = TRUE => UNCHANGED base
    BY <1>3 DEF CopyStart
  <2> QED
    BY <2>1, <2>2 DEF Staged
<1>4. ASSUME NEW t \in Tables, CopyEnd(r, t) PROVE Staged'
  <2>1. base' = [base EXCEPT ![t] = "whole"]
    BY <1>4 DEF CopyEnd
  <2>2. \/ task' = task
        \/ task.staging = TRUE /\ task' = [task EXCEPT !.manifest = [task.manifest EXCEPT ![t] = "PUBLISHED"]]
    BY <1>4, <1>t DEF CopyEnd, Quiet, Untouched, TaskRecords
  <2>3. \A u \in Tables : task'.manifest[u] = "PUBLISHED" => task.manifest[u] = "PUBLISHED" \/ (u = t /\ task.staging = TRUE)
    <3>1. CASE task' = task
      BY <3>1
    <3>2. CASE task.staging = TRUE /\ task' = [task EXCEPT !.manifest = [task.manifest EXCEPT ![t] = "PUBLISHED"]]
      <4>1. task'.manifest = [task.manifest EXCEPT ![t] = "PUBLISHED"]
        BY <3>2, <1>t DEF TaskRecords
      <4> QED
        BY <3>2, <4>1, <1>t
    <3> QED
      BY <2>2, <3>1, <3>2
  <2> QED
    BY <2>1, <2>3, <1>s, <1>t DEF Staged
<1> QED
  BY <1>0, <1>1, <1>2, <1>3, <1>4

(* A restart from a file that is kept up leaves the load as it was.        *)
LEMMA CrashKeepsLoad ==
  ASSUME TypeInv, Written, FileTrusted, CrashAndRestart
  PROVE  /\ task' = Recovered(task)
         /\ task'.manifest = task.manifest /\ task'.p0 = task.p0 /\ task'.mode = task.mode /\ task'.status = task.status
         /\ SameKind(task', task) /\ UNCHANGED <<dataVars, head, starts>>
<1>1. disk = task
  BY DEF Written, FileTrusted, CrashAndRestart, Fault
<1>2. task' = Recovered(task)
  BY <1>1 DEF CrashAndRestart
<1>3. task \in TaskRecords
  BY DEF TypeInv, TaskTyped
<1> QED
  BY <1>2, <1>3 DEF Recovered, SameKind, TaskRecords, CrashAndRestart

LEMMA StagedStep == FileTrusted /\ TypeInv /\ Written /\ Staged /\ [Next]_vars => Staged'
<1> SUFFICES ASSUME FileTrusted, TypeInv, Written, Staged, [Next]_vars PROVE Staged'
  OBVIOUS
<1>1. ASSUME NEW r \in Runs, RunStep(r) PROVE Staged'
  BY <1>1, RunKeepsStaged
<1>2. CASE UserStep \/ ServiceStep \/ SourceWrites \/ CheckpointLost \/ SchemaLockLost
  BY <1>2, UserKeepsLoad DEF Staged, SameLoad, SameKind
<1>3. CASE CrashAndRestart
  BY <1>3, CrashKeepsLoad DEF Staged, SameKind, dataVars
<1>4. CASE UNCHANGED vars
  BY <1>4 DEF Staged, vars, dataVars
<1> QED
  BY <1>1, <1>2, <1>3, <1>4 DEF Next, EnvStep

(* A table recorded as PUBLISHED, in memory or in the task file, holds a   *)
(* complete copy, for any tables, starts, pauses, edits and crashes, if no *)
(* save of the task fails: a resumed run may skip it.  A file that one     *)
(* failed save after another leaves behind may call PUBLISHED what a later *)
(* run has dropped (saveTaskUnsafe only logs the error).                   *)
THEOREM PublishedIsWhole ==
  ASSUME "save" \notin Faults
  PROVE  Spec => []PublishedIsThere
<1>1. FileTrusted
  BY DEF FileTrusted
<1>2. Init => TypeInv /\ Written /\ Staged
  <2>1. \A b, s : \A t \in Tables : NewTask(b, s).manifest[t] = "none"
    BY DEF NewTask
  <2> QED
    BY <2>1, TypeInit DEF Init, Written, Staged
<1>3. TypeInv /\ Written /\ Staged /\ [Next]_vars => (TypeInv /\ Written /\ Staged)'
  BY <1>1, TypeStep, WrittenStep, StagedStep
<1>4. TypeInv /\ Written /\ Staged => PublishedIsThere
  BY DEF Written, Staged, PublishedIsThere
<1> QED
  BY <1>2, <1>3, <1>4, PTL DEF Spec

-----------------------------------------------------------------------------
(* One run at a time *)

(* A user who waits for the earlier run has one run at a time.             *)
Serial == Patient => \A q, r \in Runs : Live(q) /\ Live(r) => q = r

LEMMA UserKeepsRuns ==
  ASSUME UserStep \/ ServiceStep \/ SourceWrites \/ CheckpointLost \/ SchemaLockLost, \A r \in Runs : ~StartTask(r)
  PROVE  UNCHANGED <<pc, loc>>
BY DEF UserStep, ServiceStep, StartBlocked, PauseTask, EndTask, SkipError, Schedule, CancelSchedule, UpdateTask,
   EndTaskCloses, Configure, SourceWrites, CheckpointLost, SchemaLockLost, UserOp, runVars

LEMMA SerialStep == TypeInv /\ Serial /\ [Next]_vars => Serial'
<1> SUFFICES ASSUME TypeInv, Serial, [Next]_vars, Patient PROVE \A q, r \in Runs : Live(q)' /\ Live(r)' => q = r
  BY DEF Serial
<1>t. pc \in [Runs -> PCs]
  BY DEF TypeInv, RunTyped
<1>1. ASSUME NEW s \in Runs, RunStep(s), NEW q \in Runs, Live(q)' PROVE q = s \/ Live(q)
  BY <1>1, RunMoves DEF Moves, Live
<1>2. ASSUME NEW s \in Runs, RunStep(s) PROVE \A q, r \in Runs : Live(q)' /\ Live(r)' => q = r
  <2>1. Live(s)
    BY <1>2, RunStarted DEF Live
  <2> QED
    BY <1>1, <1>2, <2>1 DEF Serial
<1>3. ASSUME NEW s \in Runs, StartTask(s) PROVE \A q, r \in Runs : Live(q)' /\ Live(r)' => q = r
  BY <1>3, <1>t DEF StartTask, Live
<1>4. CASE (UserStep \/ ServiceStep \/ SourceWrites \/ CheckpointLost \/ SchemaLockLost) /\ \A r \in Runs : ~StartTask(r)
  BY <1>4, UserKeepsRuns DEF Live, Serial
<1>5. CASE CrashAndRestart
  BY <1>5 DEF CrashAndRestart, Live
<1>6. CASE UNCHANGED vars
  BY <1>6 DEF vars, runVars, Live, Serial
<1> QED
  BY <1>2, <1>3, <1>4, <1>5, <1>6 DEF Next, EnvStep

-----------------------------------------------------------------------------
(* A rebuilt task copies into empty tables *)

Cleared ==
  Patient /\ task.rebuild = TRUE =>
    /\ doubled = {}
    /\ \A r \in Runs : pc[r] = "copy" =>
         \A t \in loc[r].todo : loc[r].from[t] = None => base[t] = "none"

(* What the file says of the switches the task never changes.              *)
SwitchesKept == SameKind(disk, task)

LEMMA SaveKeepsSwitches ==
  ASSUME SwitchesKept, SameKind(task', task), disk' = task' \/ disk' = disk
  PROVE  SwitchesKept'
BY DEF SwitchesKept, SameKind

LEMMA DiskFollows == [Next]_vars => disk' = task' \/ disk' = disk
<1> SUFFICES ASSUME [Next]_vars PROVE disk' = task' \/ disk' = disk
  OBVIOUS
<1>s. \A k : Save(k) => disk' = task' \/ disk' = disk
  BY DEF Save
<1> USE DEF Quiet, Untouched, Abort
<1>1. ASSUME NEW r \in Runs, RunStep(r) PROVE disk' = task' \/ disk' = disk
  <2>1. CASE ControlStep(r)
    BY <2>1, ControlKeeps
  <2>2. CASE SavingStep(r)
    <3>1. CASE FullEntry(r) \/ MarkStarted(r) \/ CaptureP1(r) \/ CaughtUp(r) \/ MarkCompleted(r) \/ CompleteTask(r)
      BY <3>1, <1>s DEF FullEntry, MarkStarted, CaptureP1, CaughtUp, MarkCompleted, CompleteTask
    <3>2. CASE MarkIncremental(r) \/ StreamRollback(r) \/ MarkFailed(r) \/ SetFailed(r)
      BY <3>2, <1>s DEF MarkIncremental, StreamRollback, MarkFailed, SetFailed
    <3>3. CASE InitManifest(r) \/ \E t \in Tables : CopyEnd(r, t)
      BY <3>3 DEF InitManifest, CopyEnd
    <3> QED
      BY <2>2, <3>1, <3>2, <3>3 DEF SavingStep
  <2> QED
    BY <1>1, <2>1, <2>2, RunSteps
<1>2. CASE UserStep
  BY <1>2, <1>s DEF UserStep, StartBlocked, StartTask, PauseTask, EndTask, SkipError, Schedule, CancelSchedule, UpdateTask
<1>3. CASE ServiceStep \/ EnvStep
  BY <1>3, <1>s DEF ServiceStep, EnvStep, EndTaskCloses, Configure, CrashAndRestart, SourceWrites, CheckpointLost, SchemaLockLost
<1>4. CASE UNCHANGED vars
  BY <1>4 DEF vars
<1> QED
  BY <1>1, <1>2, <1>3, <1>4 DEF Next

LEMMA SwitchesStay == TypeInv /\ SwitchesKept /\ [Next]_vars => SwitchesKept' /\ SameKind(task', task)
<1> SUFFICES ASSUME TypeInv, SwitchesKept, [Next]_vars PROVE SwitchesKept' /\ SameKind(task', task)
  OBVIOUS
<1>1. SameKind(task', task)
  <2>1. CASE \E r \in Runs : RunStep(r)
    BY <2>1, RunKeepsKind
  <2>2. CASE UserStep \/ ServiceStep \/ SourceWrites \/ CheckpointLost \/ SchemaLockLost
    BY <2>2, UserKeepsLoad
  <2>3. CASE CrashAndRestart
    <3>1. disk \in TaskRecords
      BY DEF TypeInv, TaskTyped
    <3>2. SameKind(Recovered(disk), disk)
      BY <3>1 DEF SameKind, Recovered, TaskRecords
    <3> QED
      BY <2>3, <3>2 DEF CrashAndRestart, SwitchesKept, SameKind
  <2>4. CASE UNCHANGED vars
    BY <2>4 DEF vars, SameKind
  <2> QED
    BY <2>1, <2>2, <2>3, <2>4 DEF Next, EnvStep
<1> QED
  BY <1>1, DiskFollows, SaveKeepsSwitches

LEMMA EntersCopy ==
  ASSUME TypeInv, NEW r \in Runs, RunStep(r), pc'[r] = "copy"
  PROVE  Prepare(r) \/ \E t \in Tables : CopyStart(r, t) \/ CopyEnd(r, t)
<1>t. pc \in [Runs -> PCs]
  BY DEF TypeInv, RunTyped
<1>g. \A l : Go(r, l) => l = "copy"
  BY <1>t DEF Go
<1> USE DEF Stopped, InnerFail, OuterFail, Abort
<1>1. ~(Begin(r) \/ FullEntry(r) \/ Detect(r) \/ RestoreP0(r) \/ CaptureP0(r) \/ SaveP0(r) \/ MarkStarted(r))
  BY <1>g DEF Begin, FullEntry, Detect, RestoreP0, CaptureP0, SaveP0, MarkStarted
<1>2. ~(AcquireLocks(r) \/ InitManifest(r))
  BY <1>g DEF AcquireLocks, InitManifest
<1>3. ~(EngineFails(r) \/ EngineEndsEarly(r) \/ EngineDone(r) \/ EngineError(r) \/ Copied(r))
  BY <1>g DEF EngineFails, EngineEndsEarly, EngineDone, EngineError, Copied
<1>4. ~(CaptureP1(r) \/ CatchUpOpens(r) \/ CatchUpApplies(r) \/ CatchUpFails(r) \/ CaughtUp(r) \/ CatchUpError(r))
  BY <1>g DEF CaptureP1, CatchUpOpens, CatchUpApplies, CatchUpFails, CaughtUp, CatchUpError, ApplyEvent
<1>5. ~(RestoreIndexes(r) \/ MarkCompleted(r) \/ CompleteTask(r) \/ MarkIncremental(r) \/ StreamOpens(r))
  BY <1>g DEF RestoreIndexes, MarkCompleted, CompleteTask, MarkIncremental, StreamOpens
<1>6. ~(StreamApplies(r) \/ StreamEnds(r) \/ StreamRollback(r) \/ MarkFailed(r) \/ FailCheck(r) \/ SetFailed(r))
  BY <1>g DEF StreamApplies, StreamEnds, StreamRollback, MarkFailed, FailCheck, SetFailed, ApplyEvent, AfterFail
<1> QED
  BY <1>1, <1>2, <1>3, <1>4, <1>5, <1>6 DEF RunStep, FullStep, StreamStep

LEMMA ClearedStep == TypeInv /\ Serial /\ SwitchesKept /\ Cleared /\ [Next]_vars => Cleared'
<1> SUFFICES ASSUME TypeInv, Serial, SwitchesKept, Cleared, [Next]_vars, Patient, task'.rebuild = TRUE
    PROVE  /\ doubled' = {}
           /\ \A r \in Runs : pc'[r] = "copy" => \A t \in loc'[r].todo : loc'[r].from[t] = None => base'[t] = "none"
  BY DEF Cleared
<1> DEFINE Goal == /\ doubled' = {}
                   /\ \A r \in Runs : pc'[r] = "copy" => \A t \in loc'[r].todo : loc'[r].from[t] = None => base'[t] = "none"
<1>0. task.rebuild = TRUE
  BY SwitchesStay DEF SameKind
<1>c. /\ doubled = {}
      /\ \A r \in Runs : pc[r] = "copy" => \A t \in loc[r].todo : loc[r].from[t] = None => base[t] = "none"
  BY <1>0 DEF Cleared
<1>1. ASSUME NEW r \in Runs, RunStep(r) PROVE Goal
  <2>t. /\ pc \in [Runs -> PCs] /\ loc \in [Runs -> Locs] /\ loc[r].todo \subseteq Tables
        /\ loc[r].from \in [Tables -> Positions] /\ base \in [Tables -> {"none", "part", "whole"}] /\ loc[r] \in Locs
    BY DEF TypeInv, RunTyped, DataTyped, Locs
  <2>1. \A q \in Runs \ {r} : pc'[q] # "copy"
    BY <1>1, RunStarted, RunMoves DEF Moves, Serial, Live
  <2>2. CASE pc'[r] # "copy" /\ UNCHANGED doubled
    BY <2>1, <2>2, <1>c
  <2>3. CASE Prepare(r) /\ pc'[r] = "copy"
    <3>1. pc[r] = "prepare"
      BY <2>3 DEF Prepare, At
    <3>2. \A l : Go(r, l) => l = "copy"
      BY <2>3, <2>t DEF Go
    <3>3. ~Abort(r) /\ ~InnerFail(r) /\ ~OuterFail(r)
      BY <3>2 DEF Abort, Stopped, InnerFail, OuterFail
    <3>4. PICK todo : /\ Locals(r, [loc[r] EXCEPT !.todo = todo])
                      /\ base' = [t \in Tables |-> IF t \in DropBeforeCopy(todo) THEN "none" ELSE base[t]]
                      /\ todo = {t \in Tables : task.manifest[t] # "PUBLISHED"}
                      /\ UNCHANGED doubled
      BY <2>3, <3>3 DEF Prepare
    <3>5. loc'[r].todo = todo /\ todo \subseteq Tables
      BY <3>4, <2>t DEF Locals, Locs
    <3>6. DropBeforeCopy(todo) = todo
      BY <1>0 DEF DropBeforeCopy
    <3> QED
      BY <2>1, <3>4, <3>5, <3>6, <1>c
  <2>4. ASSUME NEW t \in Tables, CopyStart(r, t) PROVE Goal
    <3>1. pc[r] = "copy" /\ t \in loc[r].todo /\ loc[r].from[t] = None /\ base[t] = "none"
      BY <2>4, <1>c DEF CopyStart, At
    <3>2. doubled' = {} /\ (base' = base \/ base' = [base EXCEPT ![t] = "part"])
      BY <2>4, <3>1, <1>c DEF CopyStart
    <3>3. loc'[r] = [loc[r] EXCEPT !.from = [loc[r].from EXCEPT ![t] = head]]
      BY <2>4, <2>t DEF CopyStart, Locals
    <3>4. loc'[r].todo = loc[r].todo /\ loc'[r].from = [loc[r].from EXCEPT ![t] = head]
      BY <3>3, <2>t DEF Locs
    <3>5. head # None
      BY Constants DEF TypeInv, DataTyped
    <3>6. \A u \in loc'[r].todo : loc'[r].from[u] = None => u # t /\ loc[r].from[u] = None
      BY <3>4, <3>5, <2>t
    <3>7. \A u \in loc'[r].todo : loc'[r].from[u] = None => base'[u] = "none"
      BY <3>1, <3>2, <3>4, <3>6, <2>t, <1>c
    <3> QED
      BY <2>1, <3>2, <3>7
  <2>5. ASSUME NEW t \in Tables, CopyEnd(r, t) PROVE Goal
    <3>1. pc[r] = "copy" /\ base' = [base EXCEPT ![t] = "whole"] /\ UNCHANGED doubled
      BY <2>5 DEF CopyEnd, At
    <3>2. loc'[r] = [loc[r] EXCEPT !.todo = loc[r].todo \ {t}]
      BY <2>5, <2>t DEF CopyEnd, Locals
    <3>3. loc'[r].todo = loc[r].todo \ {t} /\ loc'[r].from = loc[r].from
      BY <3>2, <2>t DEF Locs
    <3> QED
      BY <2>1, <3>1, <3>3, <2>t, <1>c
  <2>6. CASE ~Prepare(r) /\ \A t \in Tables : ~CopyStart(r, t) /\ ~CopyEnd(r, t)
    BY <1>1, <2>2, <2>6, EntersCopy, RunKeepsBase
  <2>7. CASE Prepare(r) /\ pc'[r] # "copy"
    BY <2>2, <2>7 DEF Prepare, dataVars
  <2> QED
    BY <2>3, <2>4, <2>5, <2>6, <2>7
<1>2. ASSUME NEW s \in Runs, StartTask(s) PROVE Goal
  <2>1. UNCHANGED <<loc, base, doubled>> /\ pc' = [pc EXCEPT ![s] = "begin"]
    BY <1>2 DEF StartTask, dataVars
  <2>2. \A r \in Runs : pc'[r] = "copy" => pc[r] = "copy"
    BY <2>1 DEF TypeInv, RunTyped
  <2> QED
    BY <2>1, <2>2, <1>c
<1>3. CASE (UserStep \/ ServiceStep \/ SourceWrites \/ CheckpointLost \/ SchemaLockLost) /\ \A r \in Runs : ~StartTask(r)
  BY <1>3, <1>c, UserKeepsRuns, UserKeepsLoad
<1>4. CASE CrashAndRestart
  BY <1>4, <1>c DEF CrashAndRestart, dataVars
<1>5. CASE UNCHANGED vars
  BY <1>5, <1>c DEF vars, runVars, dataVars
<1> QED
  BY <1>1, <1>2, <1>3, <1>4, <1>5 DEF Next, EnvStep

(* A task that drops its tables before the copy never copies over rows an  *)
(* earlier run left, for any tables, starts and faults, if its user waits  *)
(* for the interrupted run to end before starting the next: two runs of    *)
(* one task are what would double the rows (PauseTask does not wait).      *)
THEOREM RebuildIsClean ==
  ASSUME Patient
  PROVE  Spec => []RebuildNeverDoubles
<1>1. Init => TypeInv /\ Serial /\ SwitchesKept /\ Cleared
  <2> SUFFICES ASSUME Init PROVE TypeInv /\ Serial /\ SwitchesKept /\ Cleared
    OBVIOUS
  <2>1. TypeInv /\ Serial
    BY TypeInit DEF Init, Serial, Live
  <2>2. SwitchesKept /\ Cleared
    BY DEF Init, SwitchesKept, SameKind, Cleared
  <2> QED
    BY <2>1, <2>2
<1>2. TypeInv /\ Serial /\ SwitchesKept /\ Cleared /\ [Next]_vars => (TypeInv /\ Serial /\ SwitchesKept /\ Cleared)'
  BY TypeStep, SerialStep, SwitchesStay, ClearedStep
<1>3. TypeInv /\ Cleared => RebuildNeverDoubles
  <2> SUFFICES ASSUME TypeInv, Cleared, task.rebuild PROVE doubled = {}
    BY DEF RebuildNeverDoubles, NoDoubleCopy
  <2>1. task.rebuild \in BOOLEAN
    BY Constants, LifecycleAssumption DEF TypeInv, TaskTyped, TaskRecords, LifecycleAssumption
  <2>2. task.rebuild = TRUE
    BY <2>1
  <2> QED
    BY <2>2 DEF Cleared
<1> QED
  BY <1>1, <1>2, <1>3, PTL DEF Spec

-----------------------------------------------------------------------------
(* Where a run's steps lead *)

Loading == Locking \cup {"copy", "engineerr"} \cup Ending

LEMMA RunLeads ==
  ASSUME TypeInv, NEW r \in Runs, RunStep(r)
  PROVE  /\ pc[r] = "begin" => Begin(r)
         /\ pc[r] = "finish" => CompleteTask(r)
         /\ pc[r] \in Failing => pc'[r] \in Failing \cup {"done"}
         /\ pc[r] \in Streaming => pc'[r] \in Streaming \cup {"done", "check"}
         /\ pc[r] \in Fetching => pc'[r] \in Fetching \cup {"done", "markfail", "lock"}
         /\ pc[r] \in Loading => pc'[r] \in (Loading \ {"lock"}) \cup {"done", "markfail", "finish", "incr"}
<1> DEFINE Leads ==
         /\ pc[r] = "begin" => Begin(r)
         /\ pc[r] = "finish" => CompleteTask(r)
         /\ pc[r] \in Failing => pc'[r] \in Failing \cup {"done"}
         /\ pc[r] \in Streaming => pc'[r] \in Streaming \cup {"done", "check"}
         /\ pc[r] \in Fetching => pc'[r] \in Fetching \cup {"done", "markfail", "lock"}
         /\ pc[r] \in Loading => pc'[r] \in (Loading \ {"lock"}) \cup {"done", "markfail", "finish", "incr"}
<1>t. pc \in [Runs -> PCs]
  BY DEF TypeInv, RunTyped
<1>g. \A l : Go(r, l) => pc'[r] = l
  BY <1>t DEF Go
<1>f. /\ Stopped(r) => pc'[r] = "done"
      /\ InnerFail(r) => pc'[r] = "markfail"
      /\ OuterFail(r) => pc'[r] = "markfail"
      /\ Abort(r) => pc'[r] \in {"done", "markfail"}
  BY <1>g DEF Stopped, InnerFail, OuterFail, Abort
<1> USE DEF Failing, Streaming, Fetching, Loading, Locking, Ending, At
<1>1. CASE Begin(r) \/ FullEntry(r) \/ Detect(r) \/ RestoreP0(r) \/ CaptureP0(r) \/ SaveP0(r) \/ MarkStarted(r)
  <2>1. CASE Begin(r)
    <3>1. pc[r] = "begin"
      BY <2>1 DEF Begin
    <3> QED
      BY <2>1, <3>1
  <2>2. CASE FullEntry(r) \/ Detect(r) \/ RestoreP0(r) \/ CaptureP0(r) \/ SaveP0(r) \/ MarkStarted(r)
    <3>1. pc[r] \in {"full", "detect", "restoreP0", "capture", "saveP0", "mark"}
      BY <2>2 DEF FullEntry, Detect, RestoreP0, CaptureP0, SaveP0, MarkStarted
    <3>2. pc'[r] \in Fetching \cup {"done", "markfail", "lock"}
      BY <2>2, <1>f, <1>g DEF FullEntry, Detect, RestoreP0, CaptureP0, SaveP0, MarkStarted
    <3> QED
      BY <3>1, <3>2
  <2> QED
    BY <1>1, <2>1, <2>2
<1>2. CASE AcquireLocks(r) \/ InitManifest(r) \/ Prepare(r) \/ \E t \in Tables : CopyStart(r, t) \/ CopyEnd(r, t)
  <2>1. pc[r] \in {"lock", "manifest", "prepare", "copy"}
    BY <1>2 DEF AcquireLocks, InitManifest, Prepare, CopyStart, CopyEnd
  <2>2. pc'[r] \in {"manifest", "prepare", "copy", "engineerr", "done", "markfail"}
    BY <1>2, <1>f, <1>g DEF AcquireLocks, InitManifest, Prepare, CopyStart, CopyEnd
  <2> QED
    BY <2>1, <2>2
<1>3. CASE EngineFails(r) \/ EngineEndsEarly(r) \/ EngineDone(r) \/ EngineError(r) \/ Copied(r)
  <2>1. pc[r] \in {"copy", "engineerr", "copied"}
    BY <1>3 DEF EngineFails, EngineEndsEarly, EngineDone, EngineError, Copied
  <2>2. pc'[r] \in {"engineerr", "copied", "p1", "final", "done", "markfail"}
    BY <1>3, <1>f, <1>g DEF EngineFails, EngineEndsEarly, EngineDone, EngineError, Copied
  <2> QED
    BY <2>1, <2>2
<1>4. CASE CaptureP1(r) \/ CatchUpOpens(r) \/ CatchUpApplies(r) \/ CatchUpFails(r) \/ CaughtUp(r) \/ CatchUpError(r)
  <2>1. pc[r] \in {"p1", "catchopen", "catchup", "caught", "catcherr"}
    BY <1>4 DEF CaptureP1, CatchUpOpens, CatchUpApplies, CatchUpFails, CaughtUp, CatchUpError
  <2>2. pc'[r] \in {"final", "catchopen", "catchup", "caught", "catcherr", "done", "markfail"}
    BY <1>4, <1>f, <1>g DEF CaptureP1, CatchUpOpens, CatchUpApplies, CatchUpFails, CaughtUp, CatchUpError, ApplyEvent
  <2> QED
    BY <2>1, <2>2
<1>5. CASE RestoreIndexes(r) \/ MarkCompleted(r)
  <2>1. pc[r] \in {"final", "complete"}
    BY <1>5 DEF RestoreIndexes, MarkCompleted
  <2>2. pc'[r] \in {"complete", "finish", "incr", "done", "markfail"}
    BY <1>5, <1>f, <1>g DEF RestoreIndexes, MarkCompleted
  <2> QED
    BY <2>1, <2>2
<1>6. CASE CompleteTask(r)
  <2>1. pc[r] = "finish"
    BY <1>6 DEF CompleteTask
  <2> QED
    BY <2>1, <1>6
<1>7. CASE MarkIncremental(r) \/ StreamOpens(r) \/ StreamApplies(r) \/ StreamEnds(r) \/ StreamRollback(r)
  <2>1. pc[r] \in {"incr", "open", "stream", "rollback"}
    BY <1>7 DEF MarkIncremental, StreamOpens, StreamApplies, StreamEnds, StreamRollback
  <2>2. pc'[r] \in {"open", "stream", "rollback", "done", "check"}
    BY <1>7, <1>g DEF MarkIncremental, StreamOpens, StreamApplies, StreamEnds, StreamRollback, ApplyEvent
  <2> QED
    BY <2>1, <2>2
<1>8. CASE MarkFailed(r) \/ FailCheck(r) \/ SetFailed(r)
  <2>1. pc[r] \in {"markfail", "check", "setfail"}
    BY <1>8 DEF MarkFailed, FailCheck, SetFailed
  <2>2. pc'[r] \in {"markfail", "check", "setfail", "done"}
    BY <1>8, <1>f, <1>g DEF MarkFailed, FailCheck, SetFailed, AfterFail
  <2> QED
    BY <2>1, <2>2
<1>9. Leads
  BY <1>1, <1>2, <1>3, <1>4, <1>5, <1>6, <1>7, <1>8 DEF RunStep, FullStep, StreamStep
<1> QED
  BY <1>9

(* The steps of a run that change the status, and those that change the phase. *)
LEMMA RunStatus ==
  ASSUME TypeInv, NEW r \in Runs, RunStep(r)
  PROVE  /\ task'.status = task.status \/ (CompleteTask(r) /\ pc'[r] = "done") \/ (SetFailed(r) /\ task'.status = "FAILED")
         /\ task'.from = task.from \/ task'.from = "none"
         /\ ~(MarkStarted(r) \/ MarkCompleted(r) \/ MarkFailed(r) \/ MarkIncremental(r) \/ StreamRollback(r))
              => task'.phase = task.phase
         /\ MarkStarted(r) => task'.phase = "FULL_STARTED"
         /\ MarkCompleted(r) => task'.phase = "FULL_COMPLETED"
         /\ MarkFailed(r) => task'.phase = "FULL_FAILED"
         /\ StreamRollback(r) => task'.phase \in {"FULL_COMPLETED", "INIT"}
<1>t. task \in TaskRecords /\ pc \in [Runs -> PCs]
  BY DEF TypeInv, TaskTyped, RunTyped
<1>s. \A k : Save(k) => task' = k
  BY DEF Save
<1> DEFINE Same == task'.status = task.status /\ task'.from = task.from /\ task'.phase = task.phase
<1>d. /\ MarkStarted(r) => task' = [task EXCEPT !.phase = "FULL_STARTED"] \/ task' = MarkFullSyncStarted(task, loc[r].p0)
      /\ MarkCompleted(r) => task' = MarkFullSyncCompleted(task)
      /\ MarkFailed(r) => task' = MarkFullSyncFailed(task)
      /\ MarkIncremental(r) => task' = [task EXCEPT !.phase = "INCREMENTAL_STARTED"]
      /\ StreamRollback(r) => task' = [task EXCEPT !.phase = IF task.completedAt THEN "FULL_COMPLETED" ELSE "INIT"]
  BY <1>s DEF MarkStarted, MarkCompleted, MarkFailed, MarkIncremental, StreamRollback
<1>m. /\ MarkStarted(r) => task'.phase = "FULL_STARTED"
      /\ MarkCompleted(r) => task'.phase = "FULL_COMPLETED"
      /\ MarkFailed(r) => task'.phase = "FULL_FAILED"
      /\ StreamRollback(r) => task'.phase \in {"FULL_COMPLETED", "INIT"}
  <2>1. MarkStarted(r) => task'.phase = "FULL_STARTED"
    BY <1>d, <1>t DEF MarkFullSyncStarted, TaskRecords
  <2>2. /\ MarkCompleted(r) => task'.phase = "FULL_COMPLETED"
        /\ MarkFailed(r) => task'.phase = "FULL_FAILED"
    BY <1>d, <1>t DEF MarkFullSyncCompleted, MarkFullSyncFailed, TaskRecords
  <2>3. StreamRollback(r) => task'.phase \in {"FULL_COMPLETED", "INIT"}
    BY <1>d, <1>t DEF TaskRecords
  <2> QED
    BY <2>1, <2>2, <2>3
<1>1. CASE ControlStep(r)
  <2>1. Same
    BY <1>1, ControlKeeps
  <2> QED
    BY <2>1, <1>m
<1>2. CASE MarkStarted(r) \/ MarkCompleted(r) \/ MarkFailed(r) \/ MarkIncremental(r) \/ StreamRollback(r)
  <2>1. task'.status = task.status /\ task'.from = task.from
    BY <1>2, <1>d, <1>t DEF MarkFullSyncStarted, MarkFullSyncCompleted, MarkFullSyncFailed, TaskRecords
  <2> QED
    BY <1>2, <2>1, <1>m
<1>3. CASE FullEntry(r) \/ InitManifest(r) \/ \E t \in Tables : CopyEnd(r, t)
  <2>1. Same
    BY <1>3, <1>s, <1>t DEF FullEntry, InitManifest, CopyEnd, Quiet, Untouched, TaskRecords
  <2> QED
    BY <2>1, <1>m
<1>4. CASE CaptureP1(r) \/ CaughtUp(r)
  <2>1. Same
    BY <1>4, <1>s, <1>t DEF CaptureP1, CaughtUp, Abort, Quiet, Untouched, TaskRecords
  <2> QED
    BY <2>1, <1>m
<1>5. CASE CompleteTask(r)
  <2>1. task' = Completed(task) /\ pc'[r] = "done"
    BY <1>5, <1>s, <1>t DEF CompleteTask, Go
  <2>2. Completed(task).phase = task.phase
    BY <1>t, TaskChanges
  <2>3. Completed(task).from = task.from \/ Completed(task).from = "none"
    BY <1>t DEF Completed, ClearScheduleConfig, TaskRecords
  <2> QED
    BY <2>1, <2>2, <2>3, <1>5, <1>m
<1>6. CASE SetFailed(r)
  <2>1. task' = [task EXCEPT !.status = "FAILED"]
    BY <1>6, <1>s DEF SetFailed
  <2>2. task'.status = "FAILED" /\ task'.from = task.from /\ task'.phase = task.phase
    BY <2>1, <1>t DEF TaskRecords
  <2> QED
    BY <2>2, <1>6, <1>m
<1> QED
  BY <1>1, <1>2, <1>3, <1>4, <1>5, <1>6, RunSteps DEF SavingStep

-----------------------------------------------------------------------------
(* A load that nobody has stopped *)

(* The user has stopped the task and the run has not been told: SkipError  *)
(* sets the status and cancels nothing.                                    *)
Interrupted == "skip" \in Ops /\ UserStop

(* EndTask's condition on the task.                                        *)
MayEnd == task.mode = "ALL" /\ task.phase = "INCREMENTAL_STARTED"

(* A run that loads and is not cancelled is the one of a RUNNING task, or  *)
(* its user's stop is there for it to see.                                 *)
HeldAt(r) ==
  \/ r \in dead \/ Interrupted
  \/ pc[r] \in Failing \cup Streaming \cup {"finish"}
  \/ task.status = "RUNNING" /\ runtime = r /\ (pc[r] = "begin" \/ ~MayEnd)
  \/ pc[r] = "begin" /\ MayEnd /\ "edit" \notin Ops
Held == \A r \in Runs : Live(r) => HeldAt(r)

(* The user's operations leave the status of a load that is stopped or     *)
(* ended alone: no plan is made for a task whose run was not told to stop, *)
(* nor is its start refused, and no ended task is edited.                  *)
Undisturbed ==
  /\ "skip" \in Ops => {"once", "repeat", "cron"} \cap Ops = {} /\ FALSE \notin Rebuilds
  /\ ~({"end", "edit"} \subseteq Ops)

LEMMA OnlyOneRuns ==
  ASSUME Patient, TypeInv, Serial, NEW r \in Runs, RunStep(r)
  PROVE  Live(r) /\ \A q \in Runs \ {r} : ~Live(q) /\ ~Live(q)'
<1>1. Live(r)
  BY RunStarted DEF Live
<1> QED
  BY <1>1, RunMoves DEF Serial, Moves, Live

LEMMA UserStatus ==
  ASSUME TypeInv, task.from # "COMPLETED", UserStep \/ ServiceStep \/ SourceWrites \/ CheckpointLost \/ SchemaLockLost
  PROVE  /\ task'.status = task.status \/ task'.status # "COMPLETED"
         /\ task'.from # "COMPLETED"
<1>t. task \in TaskRecords
  BY DEF TypeInv, TaskTyped
<1>s. \A k : Save(k) => task' = k
  BY DEF Save
<1> USE DEF TaskRecords
<1>1. CASE StartBlocked
  BY <1>1, <1>s, <1>t DEF StartBlocked, MarkFullSyncFailed
<1>2. ASSUME NEW r \in Runs, StartTask(r)
      PROVE  task'.status # "COMPLETED" /\ task'.from # "COMPLETED"
  <2>1. task' = Started(task)
    BY <1>2, <1>s DEF StartTask
  <2> QED
    BY <2>1, <1>t DEF Started, ClearScheduleConfig
<1>3. CASE PauseTask \/ SkipError
  <2>1. task' = [task EXCEPT !.status = "PAUSED"]
    BY <1>3, <1>s DEF PauseTask, SkipError
  <2> QED
    BY <2>1, <1>t
<1>4. CASE EndTask
  <2>1. task' = [ClearScheduleConfig(task) EXCEPT !.status = "STOPPED"]
    BY <1>4, <1>s DEF EndTask
  <2> QED
    BY <2>1, <1>t DEF ClearScheduleConfig
<1>5. ASSUME NEW kind, Schedule(kind) PROVE task'.status # "COMPLETED" /\ task'.from # "COMPLETED"
  <2>1. task' = ScheduledTask(task) /\ task.status # "COMPLETED"
    BY <1>5, <1>s DEF Schedule
  <2> QED
    BY <2>1, <1>t DEF ScheduledTask
<1>6. CASE CancelSchedule
  <2>1. task' = [ClearScheduleConfig(task) EXCEPT !.status = IF task.from = "none" THEN "PENDING" ELSE task.from]
    BY <1>6, <1>s DEF CancelSchedule
  <2> QED
    BY <2>1, <1>t DEF ClearScheduleConfig
<1>7. ASSUME NEW m \in Modes, UpdateTask(m) PROVE task'.status = task.status /\ task'.from = task.from
  <2>1. task' = [task EXCEPT !.mode = m]
    BY <1>7, <1>s DEF UpdateTask
  <2> QED
    BY <2>1, <1>t
<1>8. CASE Configure
  <2>1. task' = [task EXCEPT !.cron = TRUE, !.left = 0] \/ task' = [task EXCEPT !.cron = FALSE, !.left = 2]
    BY <1>8, <1>s DEF Configure
  <2> QED
    BY <2>1, <1>t
<1>9. CASE EndTaskCloses \/ SourceWrites \/ CheckpointLost \/ SchemaLockLost
  BY <1>9 DEF EndTaskCloses, SourceWrites, CheckpointLost, SchemaLockLost
<1> QED
  BY <1>1, <1>2, <1>3, <1>4, <1>5, <1>6, <1>7, <1>8, <1>9 DEF UserStep, ServiceStep

LEMMA InterruptedStays ==
  ASSUME TypeInv, Undisturbed, Interrupted, UserStep \/ ServiceStep \/ SourceWrites \/ CheckpointLost \/ SchemaLockLost,
         \A r \in Runs : ~StartTask(r)
  PROVE  Interrupted'
<1>t. task \in TaskRecords
  BY DEF TypeInv, TaskTyped
<1>s. \A k : Save(k) => task' = k
  BY DEF Save
<1>u. /\ "skip" \in Ops /\ task.status \in {"PAUSED", "STOPPED"}
      /\ {"once", "repeat", "cron"} \cap Ops = {} /\ FALSE \notin Rebuilds
  BY DEF Undisturbed, Interrupted, UserStop
<1>1. ~StartBlocked
  <2>1. task.rebuild \in Rebuilds /\ Rebuilds \subseteq BOOLEAN
    BY <1>t, LifecycleAssumption DEF TaskRecords, LifecycleAssumption
  <2>2. task.rebuild = TRUE
    BY <2>1, <1>u
  <2> QED
    BY <2>2 DEF StartBlocked, RestartBlocked
<1>2. CASE PauseTask \/ SkipError
  <2>1. task' = [task EXCEPT !.status = "PAUSED"]
    BY <1>2, <1>s DEF PauseTask, SkipError
  <2> QED
    BY <2>1, <1>t, <1>u DEF Interrupted, UserStop, TaskRecords
<1>3. ~EndTask /\ ~CancelSchedule
  BY <1>u DEF EndTask, CancelSchedule
<1>4. \A kind : ~Schedule(kind)
  BY <1>u DEF Schedule, UserOp
<1>5. ASSUME NEW m \in Modes, UpdateTask(m) PROVE Interrupted'
  <2>1. task' = [task EXCEPT !.mode = m]
    BY <1>5, <1>s DEF UpdateTask
  <2> QED
    BY <2>1, <1>t, <1>u DEF Interrupted, UserStop, TaskRecords
<1>6. CASE Configure
  <2>1. task' = [task EXCEPT !.cron = TRUE, !.left = 0] \/ task' = [task EXCEPT !.cron = FALSE, !.left = 2]
    BY <1>6, <1>s DEF Configure
  <2>2. task'.status = task.status
    BY <2>1, <1>t DEF TaskRecords
  <2> QED
    BY <2>2, <1>u DEF Interrupted, UserStop
<1>7. CASE EndTaskCloses \/ SourceWrites \/ CheckpointLost \/ SchemaLockLost
  BY <1>7, <1>u DEF EndTaskCloses, SourceWrites, CheckpointLost, SchemaLockLost, Interrupted, UserStop
<1> QED
  BY <1>1, <1>2, <1>3, <1>4, <1>5, <1>6, <1>7 DEF UserStep, ServiceStep

LEMMA RunKeepsHeld ==
  ASSUME Patient, TypeInv, Serial, Held, NEW r \in Runs, RunStep(r)
  PROVE  Held'
<1>t. task \in TaskRecords /\ pc \in [Runs -> PCs]
  BY DEF TypeInv, TaskTyped, RunTyped
<1>1. Live(r) /\ \A q \in Runs \ {r} : ~Live(q)'
  BY OnlyOneRuns
<1> SUFFICES ASSUME Live(r)' PROVE HeldAt(r)'
  BY <1>1 DEF Held
<1>2. HeldAt(r) /\ pc'[r] # "done"
  BY <1>1 DEF Held, Live
<1>3. UNCHANGED <<runtime, dead>> /\ task'.mode = task.mode
  BY SavesRun, RunKeepsKind
<1>4. CASE r \in dead
  BY <1>3, <1>4 DEF HeldAt
<1>5. CASE pc[r] \in Failing \cup Streaming \cup {"finish"}
  <2>1. pc[r] # "finish"
    BY <1>2, <1>t, RunLeads DEF CompleteTask, Go
  <2>2. pc'[r] \in Failing \cup Streaming
    BY <1>2, <1>5, <2>1, RunLeads DEF Failing
  <2> QED
    BY <2>2 DEF HeldAt
<1>6. CASE pc[r] = "begin" /\ MayEnd
  <2>1. Begin(r)
    BY <1>6, RunLeads
  <2>2. pc'[r] = "incr"
    BY <1>6, <2>1, <1>t DEF Begin, MayEnd, Go, HasFullSyncEverCompleted
  <2> QED
    BY <2>2 DEF HeldAt, Streaming
<1>7. CASE pc[r] \notin Failing \cup Streaming \cup {"finish"}
  <2>1. ~CompleteTask(r) /\ ~SetFailed(r) /\ ~MarkIncremental(r)
    BY <1>7 DEF CompleteTask, SetFailed, MarkIncremental, At, Failing, Streaming
  <2>2. task'.status = task.status
    BY <2>1, RunStatus
  <2>3. ~MayEnd => ~MayEnd'
    BY <1>3, <2>1, RunStatus DEF MayEnd
  <2>4. Interrupted => Interrupted'
    BY <2>2 DEF Interrupted, UserStop
  <2> QED
    BY <1>2, <1>3, <1>4, <1>6, <1>7, <2>2, <2>3, <2>4 DEF HeldAt
<1> QED
  BY <1>5, <1>7

LEMMA UserKeepsHeld ==
  ASSUME Undisturbed, TypeInv, Held, UserStep \/ ServiceStep \/ SourceWrites \/ CheckpointLost \/ SchemaLockLost,
         \A r \in Runs : ~StartTask(r)
  PROVE  Held'
<1> SUFFICES ASSUME NEW r \in Runs, Live(r)' PROVE HeldAt(r)'
  BY DEF Held
<1>t. task \in TaskRecords
  BY DEF TypeInv, TaskTyped
<1>s. \A k : Save(k) => task' = k
  BY DEF Save
<1>1. Live(r) /\ pc'[r] = pc[r]
  BY UserKeepsRuns DEF Live
<1>2. HeldAt(r)
  BY <1>1 DEF Held
<1>3. dead \subseteq dead'
  BY DEF UserStep, ServiceStep, StartBlocked, PauseTask, EndTask, SkipError, Schedule, CancelSchedule, UpdateTask,
     EndTaskCloses, Configure, SourceWrites, CheckpointLost, SchemaLockLost, UserOp, runVars, Cancel
<1>4. CASE r \in dead \/ Interrupted \/ pc[r] \in Failing \cup Streaming \cup {"finish"}
  BY <1>1, <1>3, <1>4, InterruptedStays DEF HeldAt
<1>5. CASE pc[r] = "begin" /\ MayEnd /\ "edit" \notin Ops
  <2>1. ~StartBlocked
    BY <1>5 DEF StartBlocked, RestartBlocked, FullSyncIncomplete, Unfinished, MayEnd
  <2>2. \A m : ~UpdateTask(m)
    BY <1>5 DEF UpdateTask, UserOp
  <2>3. MayEnd'
    BY <1>5, <2>1, <2>2, UserKeepsLoad DEF MayEnd
  <2> QED
    BY <1>1, <1>5, <2>3 DEF HeldAt
<1>6. CASE task.status = "RUNNING" /\ runtime = r /\ (pc[r] = "begin" \/ ~MayEnd)
  <2>1. ~StartBlocked /\ ~CancelSchedule /\ (\A m : ~UpdateTask(m)) /\ (\A kind : ~Schedule(kind))
    BY <1>6 DEF StartBlocked, CancelSchedule, UpdateTask, Schedule
  <2>2. ASSUME PauseTask PROVE HeldAt(r)'
    <3>1. r \in dead'
      BY <2>2, <1>6, Constants DEF PauseTask, Cancel
    <3> QED
      BY <3>1 DEF HeldAt
  <2>3. ASSUME SkipError PROVE HeldAt(r)'
    <3>1. task' = [task EXCEPT !.status = "PAUSED"] /\ "skip" \in Ops
      BY <2>3, <1>s DEF SkipError, UserOp
    <3>2. Interrupted'
      BY <3>1, <1>t DEF Interrupted, UserStop, TaskRecords
    <3> QED
      BY <3>2 DEF HeldAt
  <2>4. ASSUME EndTask PROVE HeldAt(r)'
    <3>1. MayEnd /\ "edit" \notin Ops
      BY <2>4 DEF EndTask, MayEnd, UserOp, Undisturbed
    <3> QED
      BY <3>1, <1>5, <1>6
  <2>5. ASSUME ServiceStep \/ SourceWrites \/ CheckpointLost \/ SchemaLockLost PROVE HeldAt(r)'
    <3>1. task'.status = task.status /\ UNCHANGED runtime
      <4>1. CASE Configure
        <5>1. task' = [task EXCEPT !.cron = TRUE, !.left = 0] \/ task' = [task EXCEPT !.cron = FALSE, !.left = 2]
          BY <4>1, <1>s DEF Configure
        <5> QED
          BY <5>1, <4>1, <1>t DEF TaskRecords, Configure
      <4> QED
        BY <2>5, <4>1 DEF ServiceStep, EndTaskCloses, SourceWrites, CheckpointLost, SchemaLockLost
    <3>2. task'.phase = task.phase /\ task'.mode = task.mode
      BY <2>1, UserKeepsLoad
    <3> QED
      BY <1>1, <1>6, <3>1, <3>2 DEF HeldAt, MayEnd
  <2> QED
    BY <2>1, <2>2, <2>3, <2>4, <2>5 DEF UserStep
<1> QED
  BY <1>2, <1>4, <1>5, <1>6 DEF HeldAt

LEMMA HeldStep == Patient /\ Undisturbed /\ TypeInv /\ Serial /\ Held /\ [Next]_vars => Held'
<1> SUFFICES ASSUME Patient, Undisturbed, TypeInv, Serial, Held, [Next]_vars PROVE Held'
  OBVIOUS
<1>1. ASSUME NEW r \in Runs, RunStep(r) PROVE Held'
  BY <1>1, RunKeepsHeld
<1>2. ASSUME NEW r \in Runs, StartTask(r) PROVE Held'
  <2>1. \A q \in Runs : Live(q)' => q = r
    BY <1>2 DEF StartTask, Live, TypeInv, RunTyped
  <2>2. task' = Started(task) /\ runtime' = r /\ pc'[r] = "begin"
    BY <1>2 DEF StartTask, Save, TypeInv, RunTyped
  <2>3. task'.status = "RUNNING"
    BY <2>2 DEF TypeInv, TaskTyped, TaskRecords, Started, ClearScheduleConfig
  <2> QED
    BY <2>1, <2>2, <2>3 DEF Held, HeldAt
<1>3. CASE (UserStep \/ ServiceStep \/ SourceWrites \/ CheckpointLost \/ SchemaLockLost) /\ \A r \in Runs : ~StartTask(r)
  BY <1>3, UserKeepsHeld
<1>4. CASE CrashAndRestart
  BY <1>4 DEF CrashAndRestart, Live, Held
<1>5. CASE UNCHANGED vars
  BY <1>5 DEF vars, userVars, runVars, Held, HeldAt, Live, Interrupted, UserStop, MayEnd
<1> QED
  BY <1>1, <1>2, <1>3, <1>4, <1>5 DEF Next, EnvStep

-----------------------------------------------------------------------------
(* A completed load has copied every table *)

AllWhole == \A t \in Tables : base[t] = "whole"

CopiedAt(r) ==
  /\ Live(r) => task.status # "COMPLETED"
  /\ pc[r] \in Loading => Unfinished(task)
  /\ pc[r] = "copy" => \A t \in Tables \ loc[r].todo : base[t] = "whole"
  /\ pc[r] = "copied" => AllWhole \/ Interrupted
  /\ pc[r] \in (Ending \ {"copied"}) \cup Streaming \cup {"finish"} => AllWhole

Complete ==
  /\ HasFullSyncEverCompleted(task) \/ task.status = "COMPLETED" => AllWhole
  /\ task.from # "COMPLETED"
  /\ \A r \in Runs : CopiedAt(r)

LEMMA EntersCopied ==
  ASSUME TypeInv, NEW r \in Runs, RunStep(r), pc'[r] = "copied"
  PROVE  EngineEndsEarly(r) \/ EngineDone(r)
<1>t. pc \in [Runs -> PCs]
  BY DEF TypeInv, RunTyped
<1>g. \A l : Go(r, l) => l = "copied"
  BY <1>t DEF Go
<1> USE DEF Stopped, InnerFail, OuterFail, Abort
<1>1. ~(Begin(r) \/ FullEntry(r) \/ Detect(r) \/ RestoreP0(r) \/ CaptureP0(r) \/ SaveP0(r) \/ MarkStarted(r))
  BY <1>g DEF Begin, FullEntry, Detect, RestoreP0, CaptureP0, SaveP0, MarkStarted
<1>2. ~(AcquireLocks(r) \/ InitManifest(r) \/ Prepare(r) \/ \E t \in Tables : CopyStart(r, t) \/ CopyEnd(r, t))
  BY <1>g DEF AcquireLocks, InitManifest, Prepare, CopyStart, CopyEnd, At
<1>3. ~(EngineFails(r) \/ EngineError(r) \/ Copied(r))
  BY <1>g DEF EngineFails, EngineError, Copied
<1>4. ~(CaptureP1(r) \/ CatchUpOpens(r) \/ CatchUpApplies(r) \/ CatchUpFails(r) \/ CaughtUp(r) \/ CatchUpError(r))
  BY <1>g DEF CaptureP1, CatchUpOpens, CatchUpApplies, CatchUpFails, CaughtUp, CatchUpError, ApplyEvent
<1>5. ~(RestoreIndexes(r) \/ MarkCompleted(r) \/ CompleteTask(r) \/ MarkIncremental(r) \/ StreamOpens(r))
  BY <1>g DEF RestoreIndexes, MarkCompleted, CompleteTask, MarkIncremental, StreamOpens
<1>6. ~(StreamApplies(r) \/ StreamEnds(r) \/ StreamRollback(r) \/ MarkFailed(r) \/ FailCheck(r) \/ SetFailed(r))
  BY <1>g DEF StreamApplies, StreamEnds, StreamRollback, MarkFailed, FailCheck, SetFailed, ApplyEvent, AfterFail
<1> QED
  BY <1>1, <1>2, <1>3, <1>4, <1>5, <1>6 DEF RunStep, FullStep, StreamStep

(* What is past the copy was past it, or has just been let through.        *)
Past == (Ending \ {"copied"}) \cup Streaming \cup {"finish"}

LEMMA EntersPast ==
  ASSUME TypeInv, NEW r \in Runs, RunStep(r), pc'[r] \in Past
  PROVE  \/ pc[r] \in Past
         \/ Copied(r) /\ pc[r] = "copied" /\ GoesOn(r)
         \/ Begin(r) /\ pc[r] = "begin" /\ pc'[r] = "incr" /\ HasFullSyncEverCompleted(task)
<1>t. pc \in [Runs -> PCs]
  BY DEF TypeInv, RunTyped
<1> DEFINE Goal == \/ pc[r] \in Past
                   \/ Copied(r) /\ pc[r] = "copied" /\ GoesOn(r)
                   \/ Begin(r) /\ pc[r] = "begin" /\ pc'[r] = "incr" /\ HasFullSyncEverCompleted(task)
<1>g. \A l : Go(r, l) => pc'[r] = l /\ l \in Past
  BY <1>t DEF Go
<1>p. \A l \in {"done", "check", "full", "detect", "mark", "markfail", "restoreP0", "capture", "saveP0", "lock", "manifest",
                "prepare", "copy", "engineerr", "copied", "setfail"} : l \notin Past
  BY DEF Past, Ending, Streaming
<1>f. ~Stopped(r) /\ ~InnerFail(r) /\ ~OuterFail(r) /\ ~Abort(r)
  BY <1>g, <1>p DEF Stopped, InnerFail, OuterFail, Abort
<1>1. CASE Begin(r)
  <2>1. Go(r, IF task.mode # "FULL" /\ HasFullSyncEverCompleted(task) THEN "incr"
              ELSE IF task.mode = "INCREMENTAL" THEN "check" ELSE "full") /\ pc[r] = "begin"
    BY <1>1 DEF Begin, At
  <2> QED
    BY <1>1, <2>1, <1>g, <1>p
<1>2. ~(FullEntry(r) \/ Detect(r) \/ RestoreP0(r) \/ CaptureP0(r) \/ SaveP0(r) \/ MarkStarted(r))
  BY <1>g, <1>p, <1>f DEF FullEntry, Detect, RestoreP0, CaptureP0, SaveP0, MarkStarted
<1>3. ~(AcquireLocks(r) \/ InitManifest(r) \/ Prepare(r))
  BY <1>g, <1>p, <1>f DEF AcquireLocks, InitManifest, Prepare
<1>4. \A t \in Tables : ~CopyStart(r, t) /\ ~CopyEnd(r, t)
  BY <1>g, <1>p DEF CopyStart, CopyEnd, At
<1>5. ~(EngineFails(r) \/ EngineEndsEarly(r) \/ EngineDone(r) \/ EngineError(r))
  BY <1>g, <1>p, <1>f DEF EngineFails, EngineEndsEarly, EngineDone, EngineError
<1>6. Copied(r) => Goal
  BY <1>f DEF Copied, At
<1>7. CASE CaptureP1(r) \/ CatchUpOpens(r) \/ CatchUpApplies(r) \/ CatchUpFails(r) \/ CaughtUp(r) \/ CatchUpError(r)
           \/ RestoreIndexes(r) \/ MarkCompleted(r)
  BY <1>7 DEF CaptureP1, CatchUpOpens, CatchUpApplies, CatchUpFails, CaughtUp, CatchUpError, RestoreIndexes, MarkCompleted,
     At, Past, Ending
<1>8. CASE CompleteTask(r) \/ MarkIncremental(r) \/ StreamOpens(r) \/ StreamApplies(r) \/ StreamEnds(r) \/ StreamRollback(r)
  BY <1>8 DEF CompleteTask, MarkIncremental, StreamOpens, StreamApplies, StreamEnds, StreamRollback, At, Past, Streaming
<1>9. ~(MarkFailed(r) \/ FailCheck(r) \/ SetFailed(r))
  BY <1>g, <1>p, <1>f DEF MarkFailed, FailCheck, SetFailed, AfterFail
<1>10. Goal
  BY <1>1, <1>2, <1>3, <1>4, <1>5, <1>6, <1>7, <1>8, <1>9 DEF RunStep, FullStep, StreamStep
<1> QED
  BY <1>10

(* A run that is loading was loading, or has just marked the start.        *)
LEMMA EntersLoading ==
  ASSUME TypeInv, NEW r \in Runs, RunStep(r), ~MarkStarted(r), pc'[r] \in Loading
  PROVE  pc[r] \in Loading
<1>t. pc \in [Runs -> PCs]
  BY DEF TypeInv, RunTyped
<1>1. pc[r] \notin Failing \cup Streaming \cup {"finish", "none", "done"}
  BY RunLeads, RunStarted, <1>t DEF CompleteTask, Go, Failing, Streaming, Loading, Locking, Ending
<1>2. pc[r] # "begin"
  BY RunLeads, <1>t DEF Begin, Go, Loading, Locking, Ending
<1>3. pc[r] \notin Fetching
  <2>1. ASSUME pc[r] \in Fetching PROVE pc'[r] = "lock"
    BY <2>1, RunLeads DEF Fetching, Loading, Locking, Ending
  <2>2. ASSUME pc'[r] = "lock", pc[r] \in Fetching PROVE FALSE
    <3>1. FullEntry(r) \/ Detect(r) \/ RestoreP0(r) \/ CaptureP0(r) \/ SaveP0(r)
      BY <2>2 DEF RunStep, FullStep, StreamStep, Fetching, Begin, CompleteTask, MarkIncremental, StreamOpens,
         StreamApplies, StreamEnds, MarkFailed, FailCheck, SetFailed, AcquireLocks, InitManifest, Prepare, CopyStart,
         CopyEnd, EngineFails, EngineEndsEarly, EngineDone, EngineError, Copied, CaptureP1, CatchUpOpens,
         CatchUpApplies, CatchUpFails, CaughtUp, CatchUpError, RestoreIndexes, MarkCompleted, StreamRollback, At
    <3>2. \A l : Go(r, l) => l = "lock"
      BY <2>2, <1>t DEF Go
    <3> QED
      BY <3>1, <3>2 DEF FullEntry, Detect, RestoreP0, CaptureP0, SaveP0, InnerFail
  <2> QED
    BY <2>1, <2>2
<1>4. pc[r] \in PCs
  BY <1>t
<1> QED
  BY <1>1, <1>2, <1>3, <1>4 DEF PCs, Loading

LEMMA RunKeepsCopied ==
  ASSUME Patient, TypeInv, Serial, Staged, Held, Complete, NEW r \in Runs, RunStep(r)
  PROVE  CopiedAt(r)'
<1>t. /\ task \in TaskRecords /\ pc \in [Runs -> PCs] /\ loc \in [Runs -> Locs] /\ loc[r] \in Locs
      /\ loc[r].todo \subseteq Tables /\ base \in [Tables -> {"none", "part", "whole"}]
  BY DEF TypeInv, TaskTyped, RunTyped, DataTyped, Locs
<1>r. Live(r) /\ CopiedAt(r) /\ HeldAt(r)
  BY OnlyOneRuns DEF Complete, Held
<1>p. Past = (Ending \ {"copied"}) \cup Streaming \cup {"finish"}
  BY DEF Past
<1>n. (\A t \in Tables : ~CopyStart(r, t) /\ ~CopyEnd(r, t)) /\ ~Prepare(r) => (AllWhole => AllWhole')
  BY RunKeepsBase DEF AllWhole
<1>1. Live(r)' => task'.status # "COMPLETED"
  <2>1. pc'[r] # "done" => ~CompleteTask(r)
    BY <1>t DEF CompleteTask, Go
  <2> QED
    BY <1>r, <2>1, RunStatus DEF Live, CopiedAt
<1>2. pc'[r] \in Loading => Unfinished(task')
  <2> SUFFICES ASSUME pc'[r] \in Loading PROVE Unfinished(task')
    OBVIOUS
  <2>1. ~MarkCompleted(r) /\ ~MarkFailed(r) /\ ~MarkIncremental(r) /\ ~StreamRollback(r)
    BY <1>t DEF MarkCompleted, MarkFailed, MarkIncremental, StreamRollback, Go, Loading, Locking, Ending
  <2>2. CASE MarkStarted(r)
    BY <2>2, RunStatus DEF Unfinished
  <2>3. CASE ~MarkStarted(r)
    <3>1. pc[r] \in Loading
      BY <2>3, EntersLoading
    <3>2. task'.phase = task.phase
      BY <2>1, <2>3, RunStatus
    <3> QED
      BY <1>r, <3>1, <3>2 DEF CopiedAt, Unfinished
  <2> QED
    BY <2>2, <2>3
<1>3. pc'[r] = "copy" => \A t \in Tables \ loc'[r].todo : base'[t] = "whole"
  <2> SUFFICES ASSUME pc'[r] = "copy" PROVE \A t \in Tables \ loc'[r].todo : base'[t] = "whole"
    OBVIOUS
  <2>1. CASE Prepare(r)
    <3>1. \A l : Go(r, l) => l = "copy"
      BY <1>t DEF Go
    <3>2. ~Abort(r) /\ ~InnerFail(r) /\ ~OuterFail(r)
      BY <3>1 DEF Abort, Stopped, InnerFail, OuterFail
    <3>3. PICK todo : /\ Locals(r, [loc[r] EXCEPT !.todo = todo])
                      /\ base' = [t \in Tables |-> IF t \in DropBeforeCopy(todo) THEN "none" ELSE base[t]]
                      /\ todo = {t \in Tables : task.manifest[t] # "PUBLISHED"}
      BY <2>1, <3>2 DEF Prepare
    <3>4. loc'[r].todo = todo
      BY <3>3, <1>t DEF Locals, Locs
    <3> QED
      BY <3>3, <3>4 DEF Staged, DropBeforeCopy
  <2>2. ASSUME NEW t \in Tables, CopyStart(r, t) PROVE \A u \in Tables \ loc'[r].todo : base'[u] = "whole"
    <3>1. pc[r] = "copy" /\ t \in loc[r].todo /\ (base' = base \/ base' = [base EXCEPT ![t] = "part"])
      BY <2>2 DEF CopyStart, At
    <3>2. loc'[r] = [loc[r] EXCEPT !.from = [loc[r].from EXCEPT ![t] = head]]
      BY <2>2, <1>t DEF CopyStart, Locals
    <3>3. loc'[r].todo = loc[r].todo
      BY <3>2, <1>t DEF Locs
    <3> QED
      BY <3>1, <3>3, <1>r, <1>t DEF CopiedAt
  <2>3. ASSUME NEW t \in Tables, CopyEnd(r, t) PROVE \A u \in Tables \ loc'[r].todo : base'[u] = "whole"
    <3>1. pc[r] = "copy" /\ base' = [base EXCEPT ![t] = "whole"]
      BY <2>3 DEF CopyEnd, At
    <3>2. loc'[r] = [loc[r] EXCEPT !.todo = loc[r].todo \ {t}]
      BY <2>3, <1>t DEF CopyEnd, Locals
    <3>3. loc'[r].todo = loc[r].todo \ {t}
      BY <3>2, <1>t DEF Locs
    <3> QED
      BY <3>1, <3>3, <1>r, <1>t DEF CopiedAt
  <2> QED
    BY <2>1, <2>2, <2>3, EntersCopy
<1>4. pc'[r] = "copied" => AllWhole' \/ Interrupted'
  <2> SUFFICES ASSUME pc'[r] = "copied" PROVE AllWhole' \/ Interrupted'
    OBVIOUS
  <2>1. CASE EngineDone(r)
    <3>1. AllWhole /\ UNCHANGED base
      BY <2>1, <1>r DEF EngineDone, At, CopiedAt, AllWhole, dataVars
    <3> QED
      BY <3>1 DEF AllWhole
  <2>2. CASE EngineEndsEarly(r)
    <3>1. pc[r] = "copy" /\ r \notin dead /\ task.status # "RUNNING" /\ UNCHANGED task
      BY <2>2 DEF EngineEndsEarly, At, Gone, Quiet, Untouched
    <3>2. Interrupted
      BY <3>1, <1>r DEF HeldAt, Failing, Streaming
    <3> QED
      BY <3>1, <3>2 DEF Interrupted, UserStop
  <2> QED
    BY <2>1, <2>2, EntersCopied
<1>5. pc'[r] \in Past => AllWhole'
  <2> SUFFICES ASSUME pc'[r] \in Past PROVE AllWhole'
    OBVIOUS
  <2>1. AllWhole
    BY EntersPast, <1>p, <1>r DEF Complete, CopiedAt, GoesOn, Interrupted
  <2>2. pc[r] \notin {"prepare", "copy"}
    BY EntersPast DEF Past, Ending, Streaming
  <2>3. ~Prepare(r) /\ \A t \in Tables : ~CopyStart(r, t) /\ ~CopyEnd(r, t)
    BY <2>2 DEF Prepare, CopyStart, CopyEnd, At
  <2> QED
    BY <2>1, <2>3, <1>n
<1> QED
  BY <1>1, <1>2, <1>3, <1>4, <1>5, <1>p DEF CopiedAt

LEMMA RunKeepsComplete ==
  ASSUME Patient, TypeInv, Serial, Staged, Held, Complete, NEW r \in Runs, RunStep(r)
  PROVE  Complete'
<1>t. pc \in [Runs -> PCs]
  BY DEF TypeInv, RunTyped
<1>r. Live(r) /\ CopiedAt(r) /\ \A q \in Runs \ {r} : ~Live(q)'
  BY OnlyOneRuns DEF Complete
<1>1. \A q \in Runs \ {r} : CopiedAt(q)'
  <2>1. \A q \in Runs \ {r} : pc'[q] \in {"none", "done"}
    BY <1>r DEF Live
  <2> QED
    BY <1>r, <2>1 DEF CopiedAt, Loading, Locking, Ending, Streaming
<1>2. task'.from # "COMPLETED"
  BY RunStatus DEF Complete
<1>3. HasFullSyncEverCompleted(task') \/ task'.status = "COMPLETED" => AllWhole'
  <2>1. CASE pc[r] \in Loading \cup Fetching \cup Failing \cup {"begin"} /\ ~MarkCompleted(r)
    <3>1. ~CompleteTask(r) /\ ~MarkIncremental(r) /\ ~StreamRollback(r)
      BY <2>1 DEF CompleteTask, MarkIncremental, StreamRollback, At, Loading, Fetching, Failing, Locking, Ending
    <3>2. task'.status # "COMPLETED"
      BY <3>1, <1>r, RunStatus DEF CopiedAt
    <3>3. HasFullSyncEverCompleted(task') => HasFullSyncEverCompleted(task)
      BY <2>1, <3>1, RunStatus DEF HasFullSyncEverCompleted
    <3>4. HasFullSyncEverCompleted(task) => pc[r] \notin Loading
      BY <1>r DEF CopiedAt, HasFullSyncEverCompleted, Unfinished
    <3>5. HasFullSyncEverCompleted(task) => UNCHANGED base
      <4>1. pc[r] \notin {"prepare", "copy"} => UNCHANGED base
        BY RunKeepsBase DEF Prepare, CopyStart, CopyEnd, At
      <4> QED
        BY <4>1, <3>4 DEF Loading, Locking
    <3> QED
      BY <3>2, <3>3, <3>5 DEF Complete, AllWhole
  <2>2. CASE MarkCompleted(r)
    BY <2>2, <1>r DEF MarkCompleted, At, CopiedAt, Ending, AllWhole, dataVars
  <2>3. CASE pc[r] \in Streaming \cup {"finish"}
    <3>1. AllWhole
      BY <2>3, <1>r DEF CopiedAt
    <3>2. UNCHANGED base
      BY <2>3, RunKeepsBase DEF Prepare, CopyStart, CopyEnd, At, Streaming
    <3> QED
      BY <3>1, <3>2 DEF AllWhole
  <2>4. pc[r] \in PCs /\ pc[r] \notin {"none", "done"}
    BY <1>t, RunStarted
  <2> QED
    BY <2>1, <2>2, <2>3, <2>4 DEF PCs, Loading
<1> QED
  BY <1>1, <1>2, <1>3, RunKeepsCopied DEF Complete

LEMMA CompleteStep ==
  Patient /\ Undisturbed /\ FileTrusted /\ TypeInv /\ Written /\ Serial /\ Staged /\ Held /\ Complete /\ [Next]_vars => Complete'
<1> SUFFICES ASSUME Patient, Undisturbed, FileTrusted, TypeInv, Written, Serial, Staged, Held, Complete, [Next]_vars
    PROVE Complete'
  OBVIOUS
<1>1. ASSUME NEW r \in Runs, RunStep(r) PROVE Complete'
  BY <1>1, RunKeepsComplete
<1>2. CASE UserStep \/ ServiceStep \/ SourceWrites \/ CheckpointLost \/ SchemaLockLost
  <2>1. /\ task'.phase = task.phase \/ (StartBlocked /\ task'.phase = "FULL_FAILED")
        /\ UNCHANGED base
    BY <1>2, UserKeepsLoad
  <2>2. (task'.status = task.status \/ task'.status # "COMPLETED") /\ task'.from # "COMPLETED"
    BY <1>2, UserStatus DEF Complete
  <2>3. HasFullSyncEverCompleted(task') \/ task'.status = "COMPLETED" => AllWhole'
    BY <2>1, <2>2 DEF Complete, AllWhole, HasFullSyncEverCompleted
  <2>4. AllWhole => AllWhole'
    BY <2>1 DEF AllWhole
  <2>5. Unfinished(task) => Unfinished(task')
    BY <2>1 DEF Unfinished
  <2>6. ASSUME NEW r \in Runs, StartTask(r) PROVE \A q \in Runs : CopiedAt(q)'
    <3>1. \A q \in Runs : pc'[q] \in {"none", "done", "begin"}
      BY <2>6 DEF StartTask, Live, TypeInv, RunTyped
    <3>2. task' = Started(task)
      BY <2>6 DEF StartTask, Save
    <3>3. task'.status = "RUNNING"
      BY <3>2 DEF TypeInv, TaskTyped, TaskRecords, Started, ClearScheduleConfig
    <3> QED
      BY <3>1, <3>3 DEF CopiedAt, Loading, Locking, Ending, Streaming
  <2>7. ASSUME \A r \in Runs : ~StartTask(r), NEW q \in Runs PROVE CopiedAt(q)'
    <3>1. UNCHANGED <<pc, loc>>
      BY <1>2, <2>7, UserKeepsRuns
    <3>2. Interrupted => Interrupted'
      BY <1>2, <2>7, InterruptedStays
    <3> QED
      BY <2>1, <2>2, <2>4, <2>5, <3>1, <3>2 DEF Complete, CopiedAt, Live
  <2> QED
    BY <2>2, <2>3, <2>6, <2>7 DEF Complete
<1>3. CASE CrashAndRestart
  <2>1. /\ task' = Recovered(task) /\ task'.status = task.status /\ UNCHANGED base
        /\ pc' = [r \in Runs |-> IF pc[r] = "none" THEN "none" ELSE "done"]
    BY <1>3, CrashKeepsLoad DEF CrashAndRestart, dataVars
  <2>2. task'.phase = task.phase \/ (AllPublished(task) /\ task'.phase = "FULL_COMPLETED")
    BY <2>1 DEF Recovered, TypeInv, TaskTyped, TaskRecords
  <2>3. AllPublished(task) => AllWhole
    BY DEF AllPublished, Staged, AllWhole
  <2>4. HasFullSyncEverCompleted(task') \/ task'.status = "COMPLETED" => AllWhole'
    BY <2>1, <2>2, <2>3 DEF Complete, AllWhole, HasFullSyncEverCompleted
  <2>5. task'.from = task.from
    BY <2>1 DEF Recovered, TypeInv, TaskTyped, TaskRecords
  <2>6. \A q \in Runs : pc'[q] \in {"none", "done"}
    BY <2>1
  <2>7. \A q \in Runs : CopiedAt(q)'
    BY <2>6 DEF CopiedAt, Live, Loading, Locking, Ending, Streaming
  <2> QED
    BY <2>4, <2>5, <2>7 DEF Complete
<1>4. CASE UNCHANGED vars
  BY <1>4 DEF vars, runVars, dataVars, Complete, CopiedAt, AllWhole, Live, Interrupted, UserStop
<1> QED
  BY <1>1, <1>2, <1>3, <1>4 DEF Next, EnvStep

LoadInv == TypeInv /\ Written /\ Serial /\ Staged /\ Held /\ Complete

LEMMA LoadStart == Init => LoadInv
<1> SUFFICES ASSUME Init PROVE LoadInv
  OBVIOUS
<1>1. TypeInv /\ Written /\ Serial /\ Held
  BY TypeInit DEF Init, Written, Serial, Held, Live
<1>2. PICK b \in Rebuilds, s \in Stagings : task = NewTask(b, s)
  BY DEF Init
<1>3. Staged
  BY <1>2 DEF Staged, NewTask
<1>4. Complete
  BY <1>2 DEF Init, Complete, CopiedAt, HasFullSyncEverCompleted, NewTask, Live, Loading, Locking, Ending, Streaming
<1> QED
  BY <1>1, <1>3, <1>4 DEF LoadInv

LEMMA LoadStep == Patient /\ Undisturbed /\ FileTrusted /\ LoadInv /\ [Next]_vars => LoadInv'
BY TypeStep, WrittenStep, SerialStep, StagedStep, HeldStep, CompleteStep DEF LoadInv

(* A task whose full load counts as completed has every table copied, for  *)
(* any tables and modes and any number of starts, pauses, edits, plans,    *)
(* restarts and faults of the database, the locks and the checkpoint, if   *)
(* its user waits for a run to end before starting the next, a restart     *)
(* reads the task as it was last saved, and no operation changes the       *)
(* status of a task whose run was not cancelled (Undisturbed): the engine  *)
(* that ends early on a task no longer RUNNING is then always stopped by   *)
(* the check after it (executeFullSync).                                   *)
THEOREM CompletedIsCopied ==
  ASSUME Patient, Undisturbed, FileTrusted
  PROVE  Spec => []CompletedMeansCopied
<1>1. LoadInv /\ [Next]_vars => LoadInv'
  BY LoadStep
<1>2. LoadInv => CompletedMeansCopied
  BY DEF LoadInv, Complete, HasFullSyncEverCompleted, AllWhole, CompletedMeansCopied
<1> QED
  BY <1>1, <1>2, LoadStart, PTL DEF Spec

-----------------------------------------------------------------------------
(* No change of the source is left out *)

Level == \A t \in Tables : seen[t] >= cp

(* Positions never run ahead of the source.                                *)
Behind == cp <= head /\ task.p0 <= head /\ \A r \in Runs : loc[r].p0 <= head

PublishedLevel == \A t \in Tables : task.manifest[t] = "PUBLISHED" => seen[t] >= cp /\ seen[t] >= task.p0

FinishedLevel == HasFullSyncEverCompleted(task) => cp # None /\ Level

(* The P0 protocol: a fresh load takes a new P0 when no table is published, *)
(* a resumed one keeps P0 and the checkpoint; a table copied since then is  *)
(* at least at both; the catch-up and the stream start at the checkpoint.   *)
FetchLevel(r) ==
  /\ pc[r] \in Fetching => ~HasFullSyncEverCompleted(task)
  /\ pc[r] = "detect" => Unfinished(task) \/ ~HasManifest(task)
  /\ pc[r] \in {"capture", "saveP0"} => ~HasManifest(task) /\ loc[r].resume = FALSE
  /\ pc[r] = "saveP0" => loc[r].p0 # None
  /\ pc[r] = "restoreP0" => loc[r].p0 = task.p0 /\ loc[r].p0 # None /\ loc[r].resume = TRUE
  /\ pc[r] = "mark" => cp # None /\ (loc[r].resume = TRUE \/ ~HasManifest(task))
CopyLevel(r) ==
  /\ pc[r] \in Fetching \cup Locking => \A t \in Tables : loc[r].from[t] = None
  /\ pc[r] = "copy" => \A t \in Tables :
       /\ t \notin loc[r].todo => seen[t] >= cp
       /\ loc[r].from[t] # None => loc[r].from[t] >= cp /\ loc[r].from[t] >= task.p0
  /\ pc[r] = "copied" => Level \/ Interrupted
PastLevel(r) ==
  /\ pc[r] \in Loading \cup Streaming => cp # None
  /\ pc[r] \in (Ending \ {"copied"}) \cup Streaming => Level
  /\ pc[r] \in {"catchup", "stream"} => loc[r].pos = cp
LevelAt(r) == FetchLevel(r) /\ CopyLevel(r) /\ PastLevel(r)

Followed == Behind /\ PublishedLevel /\ FinishedLevel /\ \A r \in Runs : LevelAt(r)

(* The steps of a run that move the checkpoint, what the tables reflect,   *)
(* and P0.                                                                 *)
LEMMA RunPositions ==
  ASSUME TypeInv, NEW r \in Runs, RunStep(r)
  PROVE  /\ ~(RestoreP0(r) \/ SaveP0(r) \/ CatchUpApplies(r) \/ StreamApplies(r)) => cp' = cp
         /\ ~(Prepare(r) \/ (\E t \in Tables : CopyEnd(r, t)) \/ CatchUpApplies(r) \/ StreamApplies(r)) => seen' = seen
         /\ ~MarkStarted(r) => task'.p0 = task.p0
<1>t. task \in TaskRecords
  BY DEF TypeInv, TaskTyped
<1>s. \A k : Save(k) => task' = k
  BY DEF Save
<1> USE DEF dataVars
<1>1. ~(RestoreP0(r) \/ SaveP0(r) \/ CatchUpApplies(r) \/ StreamApplies(r)) => cp' = cp
  <2>1. CASE Begin(r) \/ FullEntry(r) \/ Detect(r) \/ CaptureP0(r) \/ MarkStarted(r) \/ AcquireLocks(r) \/ InitManifest(r)
             \/ Prepare(r) \/ \E t \in Tables : CopyStart(r, t) \/ CopyEnd(r, t)
    BY <2>1 DEF Begin, FullEntry, Detect, CaptureP0, MarkStarted, AcquireLocks, InitManifest, Prepare, CopyStart, CopyEnd
  <2>2. CASE EngineFails(r) \/ EngineEndsEarly(r) \/ EngineDone(r) \/ EngineError(r) \/ Copied(r) \/ CaptureP1(r)
             \/ CatchUpOpens(r) \/ CatchUpFails(r) \/ CaughtUp(r) \/ CatchUpError(r) \/ RestoreIndexes(r) \/ MarkCompleted(r)
    BY <2>2 DEF EngineFails, EngineEndsEarly, EngineDone, EngineError, Copied, CaptureP1, CatchUpOpens, CatchUpFails,
       CaughtUp, CatchUpError, RestoreIndexes, MarkCompleted
  <2>3. CASE CompleteTask(r) \/ MarkIncremental(r) \/ StreamOpens(r) \/ StreamEnds(r) \/ StreamRollback(r)
             \/ MarkFailed(r) \/ FailCheck(r) \/ SetFailed(r)
    BY <2>3 DEF CompleteTask, MarkIncremental, StreamOpens, StreamEnds, StreamRollback, MarkFailed, FailCheck, SetFailed
  <2> QED
    BY <2>1, <2>2, <2>3 DEF RunStep, FullStep, StreamStep
<1>2. ~(Prepare(r) \/ (\E t \in Tables : CopyEnd(r, t)) \/ CatchUpApplies(r) \/ StreamApplies(r)) => seen' = seen
  <2>1. CASE Begin(r) \/ FullEntry(r) \/ Detect(r) \/ RestoreP0(r) \/ CaptureP0(r) \/ SaveP0(r) \/ MarkStarted(r)
             \/ AcquireLocks(r) \/ InitManifest(r) \/ \E t \in Tables : CopyStart(r, t)
    BY <2>1 DEF Begin, FullEntry, Detect, RestoreP0, CaptureP0, SaveP0, MarkStarted, AcquireLocks, InitManifest, CopyStart
  <2>2. CASE EngineFails(r) \/ EngineEndsEarly(r) \/ EngineDone(r) \/ EngineError(r) \/ Copied(r) \/ CaptureP1(r)
             \/ CatchUpOpens(r) \/ CatchUpFails(r) \/ CaughtUp(r) \/ CatchUpError(r) \/ RestoreIndexes(r) \/ MarkCompleted(r)
    BY <2>2 DEF EngineFails, EngineEndsEarly, EngineDone, EngineError, Copied, CaptureP1, CatchUpOpens, CatchUpFails,
       CaughtUp, CatchUpError, RestoreIndexes, MarkCompleted
  <2>3. CASE CompleteTask(r) \/ MarkIncremental(r) \/ StreamOpens(r) \/ StreamEnds(r) \/ StreamRollback(r)
             \/ MarkFailed(r) \/ FailCheck(r) \/ SetFailed(r)
    BY <2>3 DEF CompleteTask, MarkIncremental, StreamOpens, StreamEnds, StreamRollback, MarkFailed, FailCheck, SetFailed
  <2> QED
    BY <2>1, <2>2, <2>3 DEF RunStep, FullStep, StreamStep
<1>3. ~MarkStarted(r) => task'.p0 = task.p0
  <2>1. CASE ControlStep(r)
    BY <2>1, ControlKeeps
  <2>2. CASE FullEntry(r) \/ InitManifest(r) \/ \E t \in Tables : CopyEnd(r, t)
    BY <2>2, <1>s, <1>t DEF FullEntry, InitManifest, CopyEnd, Quiet, Untouched, TaskRecords
  <2>3. CASE CaptureP1(r) \/ CaughtUp(r)
    BY <2>3, <1>s, <1>t DEF CaptureP1, CaughtUp, Abort, Quiet, Untouched, TaskRecords
  <2>4. CASE MarkCompleted(r) \/ MarkFailed(r) \/ MarkIncremental(r) \/ StreamRollback(r)
    BY <2>4, <1>s, <1>t DEF MarkCompleted, MarkFailed, MarkIncremental, StreamRollback, MarkFullSyncCompleted, MarkFullSyncFailed, TaskRecords
  <2>5. CASE CompleteTask(r)
    <3>1. task' = Completed(task)
      BY <2>5, <1>s DEF CompleteTask
    <3>2. SameLoad(Completed(task), task)
      BY <1>t, TaskChanges
    <3> QED
      BY <3>1, <3>2 DEF SameLoad
  <2>6. CASE SetFailed(r)
    BY <2>6, <1>s, <1>t DEF SetFailed, TaskRecords
  <2> QED
    BY <2>1, <2>2, <2>3, <2>4, <2>5, <2>6, RunSteps DEF SavingStep
<1> QED
  BY <1>1, <1>2, <1>3

(* The steps of a run that change the locals the positions depend on.      *)
LEMMA RunLocals ==
  ASSUME TypeInv, NEW r \in Runs, RunStep(r), ~Begin(r), ~Detect(r)
  PROVE  /\ ~CaptureP0(r) => loc'[r].p0 = loc[r].p0
         /\ loc'[r].resume = TRUE <=> loc[r].resume = TRUE
         /\ (\A t \in Tables : ~CopyStart(r, t)) => loc'[r].from = loc[r].from
<1>t. loc \in [Runs -> Locs] /\ loc[r] \in Locs
  BY DEF TypeInv, RunTyped
<1> DEFINE Same == /\ loc'[r].p0 = loc[r].p0 /\ loc'[r].from = loc[r].from
                   /\ (loc'[r].resume = TRUE <=> loc[r].resume = TRUE)
<1>l. \A k : Locals(r, k) => loc'[r] = k
  BY <1>t DEF Locals
<1>k. UNCHANGED loc => Same
  OBVIOUS
<1>a. \A b : Locals(r, [loc[r] EXCEPT !.again = b]) => Same
  BY <1>l, <1>t DEF Locs
<1>b. \A p : Locals(r, [loc[r] EXCEPT !.pos = p]) => Same
  BY <1>l, <1>t DEF Locs
<1>c. \A p : Locals(r, [loc[r] EXCEPT !.end = p]) => Same
  BY <1>l, <1>t DEF Locs
<1>d. \A p : Locals(r, [loc[r] EXCEPT !.todo = p]) => Same
  BY <1>l, <1>t DEF Locs
<1>f. (Stopped(r) => Same) /\ (InnerFail(r) => Same) /\ (OuterFail(r) => Same) /\ (Abort(r) => Same)
  <2>1. Stopped(r) => Same
    BY <1>k DEF Stopped, KeepLocals
  <2>2. InnerFail(r) => Same
    BY <1>a DEF InnerFail
  <2>3. OuterFail(r) => Same
    BY <1>a DEF OuterFail
  <2> QED
    BY <2>1, <2>2, <2>3 DEF Abort
<1>1. CASE FullEntry(r) \/ RestoreP0(r) \/ SaveP0(r) \/ MarkStarted(r) \/ AcquireLocks(r) \/ InitManifest(r)
  <2>1. Same
    BY <1>1, <1>f, <1>k DEF FullEntry, RestoreP0, SaveP0, MarkStarted, AcquireLocks, InitManifest, KeepLocals
  <2> QED
    BY <2>1
<1>2. CASE Prepare(r)
  <2>1. Same
    BY <1>2, <1>f, <1>d DEF Prepare
  <2> QED
    BY <2>1
<1>3. ASSUME NEW t \in Tables, CopyEnd(r, t) PROVE Same
  <2>1. Locals(r, [loc[r] EXCEPT !.todo = loc[r].todo \ {t}])
    BY <1>3 DEF CopyEnd
  <2> QED
    BY <2>1, <1>d
<1>4. CASE EngineFails(r) \/ EngineEndsEarly(r) \/ EngineDone(r) \/ EngineError(r) \/ Copied(r) \/ CatchUpError(r)
           \/ RestoreIndexes(r) \/ MarkCompleted(r) \/ CatchUpFails(r) \/ CaughtUp(r)
  <2>1. Same
    BY <1>4, <1>f, <1>k DEF EngineFails, EngineEndsEarly, EngineDone, EngineError, Copied, CatchUpError, RestoreIndexes,
       MarkCompleted, CatchUpFails, CaughtUp, KeepLocals
  <2> QED
    BY <2>1
<1>5. CASE CaptureP1(r)
  <2>1. Same
    BY <1>5, <1>f, <1>k, <1>c DEF CaptureP1, KeepLocals
  <2> QED
    BY <2>1
<1>6. CASE CatchUpOpens(r) \/ CatchUpApplies(r) \/ StreamOpens(r) \/ StreamApplies(r)
  <2>1. Same
    BY <1>6, <1>k, <1>b DEF CatchUpOpens, CatchUpApplies, StreamOpens, StreamApplies, ApplyEvent, KeepLocals
  <2> QED
    BY <2>1
<1>7. CASE CompleteTask(r) \/ MarkIncremental(r) \/ StreamEnds(r) \/ StreamRollback(r) \/ MarkFailed(r)
           \/ FailCheck(r) \/ SetFailed(r)
  <2>1. Same
    BY <1>7, <1>f, <1>k, <1>a DEF CompleteTask, MarkIncremental, StreamEnds, StreamRollback, MarkFailed, FailCheck, SetFailed,
       AfterFail, KeepLocals
  <2> QED
    BY <2>1
<1>8. ASSUME NEW t \in Tables, CopyStart(r, t)
      PROVE  loc'[r].p0 = loc[r].p0 /\ (loc'[r].resume = TRUE <=> loc[r].resume = TRUE)
  <2>1. loc'[r] = [loc[r] EXCEPT !.from = [loc[r].from EXCEPT ![t] = head]]
    BY <1>8, <1>l DEF CopyStart
  <2> QED
    BY <2>1, <1>t DEF Locs
<1>9. CASE CaptureP0(r)
  <2>1. Locals(r, [loc[r] EXCEPT !.p0 = head]) \/ InnerFail(r)
    BY <1>9 DEF CaptureP0
  <2>2. /\ loc'[r].resume = TRUE <=> loc[r].resume = TRUE
        /\ loc'[r].from = loc[r].from
    BY <2>1, <1>f, <1>l, <1>t DEF Locs
  <2> QED
    BY <2>2, <1>9
<1> QED
  BY <1>1, <1>2, <1>3, <1>4, <1>5, <1>6, <1>7, <1>8, <1>9 DEF RunStep, FullStep, StreamStep

(* A change applied at the checkpoint leaves the tables level with it.     *)
LEMMA ApplyKeepsLevel ==
  ASSUME TypeInv, NEW r \in Runs, NEW next, NEW failed, ApplyEvent(r, next, failed), loc[r].pos = cp, cp # None, Level
  PROVE  /\ Level' /\ cp' # None /\ cp' <= head
         /\ \A t \in Tables : seen'[t] >= seen[t]
         /\ (pc'[r] = next /\ loc'[r].pos = cp') \/ pc'[r] = failed
<1>t. /\ cp \in Positions /\ head \in Pos /\ seen \in [Tables -> Positions] /\ loc \in [Runs -> Locs] /\ loc[r] \in Locs
      /\ pc \in [Runs -> PCs]
  BY DEF TypeInv, RunTyped, DataTyped
<1>1. cp \in 0..MaxHead /\ head \in 0..MaxHead /\ cp < head
  BY <1>t DEF ApplyEvent, Positions, Pos
<1>2. \A t \in Tables : seen[t] \in Int /\ seen[t] >= cp
  BY <1>t, Constants DEF Level, Positions, Pos, None
<1>3. seen' = [t \in Tables |-> IF seen[t] >= cp THEN Later(seen[t], cp + 1) ELSE seen[t]]
  BY DEF ApplyEvent
<1>4. \A t \in Tables : seen'[t] = Later(seen[t], cp + 1)
  BY <1>2, <1>3
<1>5. \A t \in Tables : seen'[t] >= cp + 1 /\ seen'[t] >= seen[t] /\ seen'[t] \in Int
  BY <1>1, <1>2, <1>4, Constants DEF Later
<1>6. cp' = cp + 1 \/ cp' = cp
  BY DEF ApplyEvent
<1>7. cp' # None /\ cp' <= head
  BY <1>1, <1>6, Constants DEF None
<1>8. Level'
  BY <1>1, <1>5, <1>6, Constants DEF Level
<1>9. (cp' = cp + 1 /\ Go(r, next)) \/ Go(r, failed)
  BY DEF ApplyEvent
<1>10. loc'[r] = [loc[r] EXCEPT !.pos = cp + 1]
  BY <1>t DEF ApplyEvent, Locals
<1>11. loc'[r].pos = cp + 1
  BY <1>10, <1>t DEF Locs
<1> QED
  BY <1>5, <1>7, <1>8, <1>9, <1>11, <1>t DEF Go

LEMMA RunKeepsBehind ==
  ASSUME TypeInv, Followed, NEW r \in Runs, RunStep(r)
  PROVE  Behind'
<1>t. /\ task \in TaskRecords /\ cp \in Positions /\ head \in Pos /\ loc \in [Runs -> Locs] /\ loc[r] \in Locs
      /\ task.p0 \in Positions
  BY DEF TypeInv, TaskTyped, RunTyped, DataTyped, TaskRecords, Positions
<1>b. cp <= head /\ task.p0 <= head /\ \A q \in Runs : loc[q].p0 <= head
  BY DEF Followed, Behind
<1>h. head' = head /\ None <= head
  BY <1>t, SavesRun, Constants DEF None, Pos
<1>1. cp' <= head
  <2>1. CASE RestoreP0(r) \/ SaveP0(r)
    BY <2>1, <1>b DEF RestoreP0, SaveP0
  <2>2. CASE CatchUpApplies(r) \/ StreamApplies(r)
    <3>1. \E next, failed : ApplyEvent(r, next, failed)
      BY <2>2 DEF CatchUpApplies, StreamApplies
    <3>2. pc[r] \in {"catchup", "stream"}
      BY <2>2 DEF CatchUpApplies, StreamApplies, At
    <3>3. loc[r].pos = cp /\ cp # None /\ Level
      BY <3>2 DEF Followed, LevelAt, PastLevel, Loading, Ending, Streaming
    <3> QED
      BY <3>1, <3>3, ApplyKeepsLevel
  <2> QED
    BY <2>1, <2>2, <1>b, RunPositions
<1>2. task'.p0 <= head
  <2>1. CASE MarkStarted(r)
    <3>1. task' = [task EXCEPT !.phase = "FULL_STARTED"] \/ task' = MarkFullSyncStarted(task, loc[r].p0)
      BY <2>1 DEF MarkStarted, Save
    <3>2. task'.p0 = task.p0 \/ task'.p0 = loc[r].p0
      BY <3>1, <1>t DEF MarkFullSyncStarted, TaskRecords
    <3> QED
      BY <3>2, <1>b
  <2> QED
    BY <2>1, <1>b, RunPositions
<1>3. loc'[r].p0 <= head
  <2>1. CASE Begin(r)
    <3>1. loc'[r] = [NoLoc EXCEPT !.mode = task.mode]
      BY <2>1, <1>t DEF Begin, Locals
    <3>2. loc'[r].p0 = None
      BY <3>1 DEF NoLoc
    <3> QED
      BY <3>2, <1>h
  <2>2. CASE Detect(r)
    <3>1. PICK a, b, q : loc'[r] = [loc[r] EXCEPT !.resume = a, !.p0 = IF Resumes(task) THEN task.p0 ELSE None, !.p1 = q, !.again = b]
      BY <2>2, <1>t DEF Detect, Locals
    <3>2. loc'[r].p0 = IF Resumes(task) THEN task.p0 ELSE None
      BY <3>1, <1>t DEF Locs
    <3> QED
      BY <3>2, <1>b, <1>h
  <2>3. CASE CaptureP0(r)
    <3>1. Locals(r, [loc[r] EXCEPT !.p0 = head]) \/ Locals(r, [loc[r] EXCEPT !.again = TRUE])
      BY <2>3 DEF CaptureP0, InnerFail
    <3>2. loc'[r] = [loc[r] EXCEPT !.p0 = head] \/ loc'[r] = [loc[r] EXCEPT !.again = TRUE]
      BY <3>1, <1>t DEF Locals
    <3>3. loc'[r].p0 = head \/ loc'[r].p0 = loc[r].p0
      BY <3>2, <1>t DEF Locs
    <3>4. head <= head
      BY <1>t, Constants DEF Pos
    <3> QED
      BY <3>3, <3>4, <1>b
  <2> QED
    BY <2>1, <2>2, <2>3, <1>b, RunLocals
<1>4. \A q \in Runs \ {r} : loc'[q] = loc[q]
  BY RunMoves DEF Moves
<1> QED
  BY <1>1, <1>2, <1>3, <1>4, <1>b, <1>h DEF Behind

LEMMA RunKeepsPublished ==
  ASSUME Patient, TypeInv, Serial, Followed, NEW r \in Runs, RunStep(r)
  PROVE  PublishedLevel'
<1>t. /\ task \in TaskRecords /\ task.manifest \in [Tables -> {"none", "PENDING", "PUBLISHED"}] /\ task.p0 \in Positions
      /\ seen \in [Tables -> Positions] /\ loc[r] \in Locs /\ loc \in [Runs -> Locs]
  BY DEF TypeInv, TaskTyped, RunTyped, DataTyped, TaskRecords, Positions
<1>u. task \in TaskRecords /\ task.manifest \in [Tables -> {"none", "PENDING", "PUBLISHED"}]
  BY <1>t
<1>i. task.p0 \in Int /\ \A t \in Tables : seen[t] \in Int
  BY <1>t, Constants DEF Positions, Pos, None
<1>p. /\ \A t \in Tables : task.manifest[t] = "PUBLISHED" => seen[t] >= cp /\ seen[t] >= task.p0
      /\ LevelAt(r)
  BY DEF Followed, PublishedLevel
<1>q. \A l : At(r, l) => pc[r] = l
  BY DEF At
<1>1. CASE FullEntry(r) \/ InitManifest(r)
  <2>1. UNCHANGED <<cp, seen>>
    BY <1>1 DEF FullEntry, InitManifest, dataVars
  <2>2. \/ task' = task \/ task' = [task EXCEPT !.manifest = [t \in Tables |-> "none"]]
        \/ task' = [task EXCEPT !.manifest = [t \in Tables |-> "PENDING"]]
    BY <1>1 DEF FullEntry, InitManifest, Save, Quiet, Untouched
  <2>3. task'.p0 = task.p0 /\ \A t \in Tables : task'.manifest[t] = "PUBLISHED" => task.manifest[t] = "PUBLISHED"
    <3>1. pc[r] \in {"full", "manifest"}
      BY <1>1, <1>q DEF FullEntry, InitManifest
    <3>2. task'.p0 = task.p0
      BY <3>1, <1>q, RunPositions DEF MarkStarted
    <3>3. \A t \in Tables : task'.manifest[t] = "PUBLISHED" => task.manifest[t] = "PUBLISHED"
      <4>1. \A f : [task EXCEPT !.manifest = f].manifest = f
        BY <1>u DEF TaskRecords
      <4> DEFINE f == [t \in Tables |-> "none"]
                 g == [t \in Tables |-> "PENDING"]
      <4>2. \A t \in Tables : f[t] # "PUBLISHED" /\ g[t] # "PUBLISHED"
        OBVIOUS
      <4>3. task' = task \/ task' = [task EXCEPT !.manifest = f] \/ task' = [task EXCEPT !.manifest = g]
        BY <2>2, Zenon
      <4> HIDE DEF f, g
      <4>4. task'.manifest = task.manifest \/ task'.manifest = f \/ task'.manifest = g
        BY <4>1, <4>3, Zenon
      <4> QED
        BY <4>2, <4>4, Zenon
    <3> QED
      BY <3>2, <3>3
  <2> QED
    BY <2>1, <2>3, <1>p DEF PublishedLevel
<1>2. CASE MarkStarted(r)
  <2>1. UNCHANGED <<cp, seen>> /\ pc[r] = "mark"
    BY <1>2, <1>q DEF MarkStarted, dataVars
  <2>2. /\ loc[r].resume = TRUE => task' = [task EXCEPT !.phase = "FULL_STARTED"]
        /\ task' = [task EXCEPT !.phase = "FULL_STARTED"] \/ task' = MarkFullSyncStarted(task, loc[r].p0)
    BY <1>2 DEF MarkStarted, Save
  <2>a. [task EXCEPT !.phase = "FULL_STARTED"].manifest = task.manifest /\ [task EXCEPT !.phase = "FULL_STARTED"].p0 = task.p0
    BY <1>t DEF TaskRecords
  <2>b. MarkFullSyncStarted(task, loc[r].p0).manifest = task.manifest
    BY <1>t DEF MarkFullSyncStarted, TaskRecords
  <2>3. task'.manifest = task.manifest /\ (loc[r].resume = TRUE => task'.p0 = task.p0)
    BY <2>2, <2>a, <2>b
  <2>4. CASE loc[r].resume = TRUE
    BY <2>1, <2>3, <2>4, <1>p DEF PublishedLevel
  <2>5. CASE ~HasManifest(task)
    BY <2>3, <2>5 DEF PublishedLevel, HasManifest
  <2> QED
    BY <2>1, <2>4, <2>5, <1>p DEF LevelAt, FetchLevel
<1>3. CASE RestoreP0(r)
  <2>1. UNCHANGED <<task, seen>> /\ (cp' = cp \/ cp' = loc[r].p0) /\ pc[r] = "restoreP0"
    BY <1>3, <1>q DEF RestoreP0, Untouched
  <2>2. loc[r].p0 = task.p0
    BY <2>1, <1>p DEF LevelAt, FetchLevel
  <2> QED
    BY <2>1, <2>2, <1>p DEF PublishedLevel
<1>4. CASE SaveP0(r)
  <2>1. UNCHANGED <<task, seen>> /\ pc[r] = "saveP0"
    BY <1>4, <1>q DEF SaveP0, Untouched
  <2>2. ~HasManifest(task)
    BY <2>1, <1>p DEF LevelAt, FetchLevel
  <2> QED
    BY <2>1, <2>2 DEF PublishedLevel, HasManifest
<1>5. CASE Prepare(r)
  <2>1. UNCHANGED <<task, cp>>
    BY <1>5 DEF Prepare, Abort, Quiet, Untouched, dataVars
  <2>2. \A t \in Tables : task.manifest[t] = "PUBLISHED" => seen'[t] = seen[t]
    BY <1>5 DEF Prepare, DropBeforeCopy, dataVars
  <2> QED
    BY <2>1, <2>2, <1>p DEF PublishedLevel
<1>6. ASSUME NEW t \in Tables, CopyEnd(r, t) PROVE PublishedLevel'
  <2>1. /\ pc[r] = "copy" /\ t \in loc[r].todo /\ loc[r].from[t] # None /\ cp' = cp
        /\ seen' = [seen EXCEPT ![t] = loc[r].from[t]]
    BY <1>6, <1>q DEF CopyEnd
  <2>2. loc[r].from[t] >= cp /\ loc[r].from[t] >= task.p0
    BY <2>1, <1>p DEF LevelAt, CopyLevel
  <2>3. task' = task \/ task' = [task EXCEPT !.manifest = [task.manifest EXCEPT ![t] = "PUBLISHED"]]
    BY <1>6 DEF CopyEnd, Quiet, Untouched
  <2>4. task'.p0 = task.p0 /\ \A u \in Tables \ {t} : task'.manifest[u] = task.manifest[u]
    <3>1. CASE task' = task
      BY <3>1
    <3>2. CASE task' = [task EXCEPT !.manifest = [task.manifest EXCEPT ![t] = "PUBLISHED"]]
      <4>1. task'.manifest = [task.manifest EXCEPT ![t] = "PUBLISHED"] /\ task'.p0 = task.p0
        BY <3>2, <1>t DEF TaskRecords
      <4> QED
        BY <4>1, <1>t
    <3> QED
      BY <2>3, <3>1, <3>2
  <2> QED
    BY <2>1, <2>2, <2>4, <1>p, <1>t DEF PublishedLevel
<1>7. CASE CatchUpApplies(r) \/ StreamApplies(r)
  <2>1. \E next, failed : ApplyEvent(r, next, failed)
    BY <1>7 DEF CatchUpApplies, StreamApplies
  <2>2. pc[r] \in {"catchup", "stream"}
    BY <1>7, <1>q DEF CatchUpApplies, StreamApplies
  <2>3. loc[r].pos = cp /\ cp # None /\ Level
    BY <2>2, <1>p DEF LevelAt, PastLevel, Loading, Ending, Streaming
  <2>4. Level' /\ \A t \in Tables : seen'[t] >= seen[t]
    BY <2>1, <2>3, ApplyKeepsLevel
  <2>5. UNCHANGED task
    BY <2>1 DEF ApplyEvent, Untouched
  <2>6. \A t \in Tables : seen'[t] \in Int
    <3>1. seen' \in [Tables -> Positions]
      BY RunKeepsData DEF DataTyped
    <3> QED
      BY <3>1, Constants DEF Positions, Pos, None
  <2>7. \A t \in Tables : task.manifest[t] = "PUBLISHED" => seen'[t] >= task.p0
    BY <2>4, <2>6, <1>p, <1>i
  <2> QED
    BY <2>4, <2>5, <2>7 DEF PublishedLevel, Level
<1>8. CASE /\ ~FullEntry(r) /\ ~InitManifest(r) /\ ~MarkStarted(r) /\ ~RestoreP0(r) /\ ~SaveP0(r) /\ ~Prepare(r)
           /\ ~CatchUpApplies(r) /\ ~StreamApplies(r) /\ \A t \in Tables : ~CopyEnd(r, t)
  BY <1>8, <1>p, RunPositions, RunKeepsManifest DEF PublishedLevel
<1> QED
  BY <1>1, <1>2, <1>3, <1>4, <1>5, <1>6, <1>7, <1>8

LEMMA RunKeepsFinished ==
  ASSUME Patient, TypeInv, Serial, Complete, Followed, NEW r \in Runs, RunStep(r)
  PROVE  FinishedLevel'
<1>t. pc[r] \in PCs
  BY DEF TypeInv, RunTyped
<1>p. LevelAt(r) /\ FinishedLevel /\ CopiedAt(r)
  BY DEF Followed, Complete
<1>q. \A l : At(r, l) => pc[r] = l
  BY DEF At
<1>k. CASE /\ UNCHANGED <<cp, seen>> /\ Level /\ cp # None
  BY <1>k DEF FinishedLevel, Level
<1>1. CASE MarkCompleted(r) \/ MarkIncremental(r) \/ StreamRollback(r)
  <2>1. UNCHANGED <<cp, seen>> /\ pc[r] \in {"complete", "incr", "rollback"}
    BY <1>1, <1>q DEF MarkCompleted, MarkIncremental, StreamRollback, dataVars
  <2>2. Level /\ cp # None
    BY <2>1, <1>p DEF LevelAt, PastLevel, Loading, Ending, Streaming
  <2> QED
    BY <2>1, <2>2, <1>k
<1>2. CASE MarkStarted(r) \/ MarkFailed(r)
  BY <1>2, RunStatus DEF FinishedLevel, HasFullSyncEverCompleted
<1>3. CASE StreamApplies(r)
  <2>1. \E next, failed : ApplyEvent(r, next, failed)
    BY <1>3 DEF StreamApplies
  <2>2. pc[r] = "stream"
    BY <1>3, <1>q DEF StreamApplies
  <2>3. loc[r].pos = cp /\ cp # None /\ Level
    BY <2>2, <1>p DEF LevelAt, PastLevel, Loading, Ending, Streaming
  <2>4. Level' /\ cp' # None
    BY <2>1, <2>3, ApplyKeepsLevel
  <2> QED
    BY <2>4 DEF FinishedLevel
<1>4. CASE /\ ~MarkCompleted(r) /\ ~MarkIncremental(r) /\ ~StreamRollback(r) /\ ~MarkStarted(r) /\ ~MarkFailed(r)
           /\ ~StreamApplies(r)
  <2>1. task'.phase = task.phase
    BY <1>4, RunStatus
  <2>2. HasFullSyncEverCompleted(task) => pc[r] \notin Fetching \cup Loading
    BY <1>p DEF LevelAt, FetchLevel, CopiedAt, HasFullSyncEverCompleted, Unfinished
  <2>3. ASSUME pc[r] \notin Fetching \cup Loading PROVE UNCHANGED <<cp, seen>>
    <3>1. ~RestoreP0(r) /\ ~SaveP0(r) /\ ~CatchUpApplies(r) /\ ~Prepare(r) /\ \A t \in Tables : ~CopyEnd(r, t)
      BY <2>3, <1>q DEF RestoreP0, SaveP0, CatchUpApplies, Prepare, CopyEnd, Fetching, Loading, Locking, Ending
    <3> QED
      BY <3>1, <1>4, RunPositions
  <2> QED
    BY <2>1, <2>2, <2>3, <1>p DEF FinishedLevel, HasFullSyncEverCompleted, Level
<1> QED
  BY <1>1, <1>2, <1>3, <1>4

LEMMA RunKeepsFetchLevel ==
  ASSUME Modes = {"ALL"}, Patient, TypeInv, Serial, Complete, Followed, NEW r \in Runs, RunStep(r)
  PROVE  FetchLevel(r)'
<1>t. /\ task \in TaskRecords /\ task.mode = "ALL" /\ task.manifest \in [Tables -> {"none", "PENDING", "PUBLISHED"}]
      /\ loc \in [Runs -> Locs] /\ loc[r] \in Locs /\ pc \in [Runs -> PCs] /\ head \in Pos /\ cp \in Positions
  BY DEF TypeInv, TaskTyped, RunTyped, DataTyped, TaskRecords
<1>p. FetchLevel(r) /\ FinishedLevel /\ CopiedAt(r)
  BY DEF Followed, LevelAt, Complete
<1>q. \A l : At(r, l) => pc[r] = l
  BY DEF At
<1>g. \A l : Go(r, l) => pc'[r] = l
  BY <1>t DEF Go
<1>x. ASSUME pc'[r] \notin Fetching PROVE FetchLevel(r)'
  BY <1>x DEF FetchLevel, Fetching
<1>y. "markfail" \notin Fetching /\ "done" \notin Fetching /\ "lock" \notin Fetching /\ "check" \notin Fetching /\ "incr" \notin Fetching
  BY DEF Fetching
<1>f. InnerFail(r) => FetchLevel(r)'
  BY <1>g, <1>x, <1>y DEF InnerFail
<1>1. CASE Begin(r)
  <2>1. pc'[r] = "incr" \/ (~HasFullSyncEverCompleted(task) /\ pc'[r] = "full") \/ pc'[r] = "check"
    BY <1>1, <1>t, <1>g DEF Begin
  <2>2. UNCHANGED task
    BY <1>1 DEF Begin, Quiet, Untouched
  <2> QED
    BY <2>1, <2>2, <1>x, <1>y DEF FetchLevel, Fetching
<1>2. CASE FullEntry(r)
  <2>1. CASE UserStop
    BY <1>2, <2>1, <1>g, <1>x, <1>y DEF FullEntry
  <2>2. CASE ~UserStop
    <3>1. /\ pc[r] = "full" /\ pc'[r] = "detect"
          /\ task' = IF Unfinished(task) THEN task ELSE [task EXCEPT !.manifest = [t \in Tables |-> "none"]]
      BY <1>2, <2>2, <1>g, <1>q DEF FullEntry, Save
    <3>2. ~MarkStarted(r) /\ ~MarkCompleted(r) /\ ~MarkFailed(r) /\ ~MarkIncremental(r) /\ ~StreamRollback(r)
      BY <3>1 DEF MarkStarted, MarkCompleted, MarkFailed, MarkIncremental, StreamRollback, At
    <3>3. task'.phase = task.phase
      BY <3>2, RunStatus
    <3>4. ~HasFullSyncEverCompleted(task')
      BY <3>1, <3>3, <1>p DEF FetchLevel, Fetching, HasFullSyncEverCompleted
    <3>5. Unfinished(task') \/ ~HasManifest(task')
      <4>1. CASE Unfinished(task)
        BY <3>3, <4>1 DEF Unfinished
      <4>2. CASE ~Unfinished(task)
        <5> DEFINE f == [t \in Tables |-> "none"]
        <5>1. task' = [task EXCEPT !.manifest = f]
          BY <3>1, <4>2
        <5>2. \A t \in Tables : f[t] = "none"
          OBVIOUS
        <5> HIDE DEF f
        <5>3. task'.manifest = f
          BY <5>1, <1>t DEF TaskRecords
        <5> QED
          BY <5>2, <5>3 DEF HasManifest
      <4> QED
        BY <4>1, <4>2
    <3> QED
      BY <3>1, <3>4, <3>5 DEF FetchLevel
  <2> QED
    BY <2>1, <2>2
<1>3. CASE Detect(r)
  <2>1. pc[r] = "detect" /\ UNCHANGED task /\ ~HasFullSyncEverCompleted(task)
    BY <1>3, <1>q, <1>p DEF Detect, Quiet, Untouched, FetchLevel, Fetching
  <2>2. CASE Resumes(task) /\ task.p0 = None
    <3>1. pc'[r] = "markfail"
      BY <1>3, <2>2, <1>t, <1>g DEF Detect
    <3> QED
      BY <3>1, <1>x, <1>y
  <2>3. CASE Resumes(task) /\ task.p0 # None
    <3>1. pc'[r] = "restoreP0"
      BY <1>3, <2>3, <1>t, <1>g DEF Detect
    <3>2. loc'[r] = [loc[r] EXCEPT !.resume = TRUE, !.p0 = task.p0, !.p1 = task.p1, !.again = FALSE]
      <4>1. Resumes(task) = TRUE /\ (Resumes(task) /\ task.mode = "ALL" /\ task.p0 = None) = FALSE
        BY <2>3 DEF Resumes
      <4>2. loc'[r] = [loc[r] EXCEPT !.resume = Resumes(task), !.p0 = IF Resumes(task) THEN task.p0 ELSE None,
                         !.p1 = IF Resumes(task) THEN task.p1 ELSE None,
                         !.again = (Resumes(task) /\ task.mode = "ALL" /\ task.p0 = None)]
        BY <1>3, <1>t, Zenon DEF Detect, Locals
      <4> QED
        BY <4>1, <4>2, Zenon
    <3>3. loc'[r].resume = TRUE /\ loc'[r].p0 = task.p0
      BY <3>2, <1>t DEF Locs
    <3> QED
      BY <2>1, <2>3, <3>1, <3>3 DEF FetchLevel
  <2>4. CASE ~Resumes(task)
    <3>1. pc'[r] = "capture"
      BY <1>3, <2>4, <1>t, <1>g DEF Detect
    <3>2. ~HasManifest(task)
      BY <2>1, <2>4, <1>p DEF FetchLevel, Resumes
    <3>3. loc'[r] = [loc[r] EXCEPT !.resume = FALSE, !.p0 = None, !.p1 = None, !.again = FALSE]
      <4>1. Resumes(task) = FALSE /\ (Resumes(task) /\ task.mode = "ALL" /\ task.p0 = None) = FALSE
        BY <2>4 DEF Resumes
      <4>2. loc'[r] = [loc[r] EXCEPT !.resume = Resumes(task), !.p0 = IF Resumes(task) THEN task.p0 ELSE None,
                         !.p1 = IF Resumes(task) THEN task.p1 ELSE None,
                         !.again = (Resumes(task) /\ task.mode = "ALL" /\ task.p0 = None)]
        BY <1>3, <1>t, Zenon DEF Detect, Locals
      <4> QED
        BY <4>1, <4>2, Zenon
    <3>4. loc'[r].resume = FALSE
      BY <3>3, <1>t DEF Locs
    <3> QED
      BY <2>1, <3>1, <3>2, <3>4 DEF FetchLevel
  <2> QED
    BY <2>2, <2>3, <2>4
<1>4. CASE RestoreP0(r)
  <2>1. CASE InnerFail(r)
    BY <2>1, <1>f
  <2>2. CASE Go(r, "mark") /\ cp' = (IF cp = None THEN loc[r].p0 ELSE cp) /\ KeepLocals
    <3>1. pc[r] = "restoreP0" /\ pc'[r] = "mark" /\ UNCHANGED task /\ loc'[r] = loc[r]
      BY <1>4, <2>2, <1>q, <1>g DEF RestoreP0, Untouched, KeepLocals
    <3>2. loc[r].p0 # None /\ loc[r].resume = TRUE /\ ~HasFullSyncEverCompleted(task)
      BY <3>1, <1>p DEF FetchLevel, Fetching
    <3>3. cp' # None
      BY <2>2, <3>2
    <3> QED
      BY <3>1, <3>2, <3>3 DEF FetchLevel
  <2> QED
    BY <1>4, <2>1, <2>2 DEF RestoreP0
<1>5. CASE CaptureP0(r)
  <2>1. CASE InnerFail(r)
    BY <2>1, <1>f
  <2>2. CASE Go(r, "saveP0") /\ Locals(r, [loc[r] EXCEPT !.p0 = head])
    <3>1. pc[r] = "capture" /\ pc'[r] = "saveP0" /\ UNCHANGED task /\ loc'[r] = [loc[r] EXCEPT !.p0 = head]
      BY <1>5, <2>2, <1>q, <1>g, <1>t DEF CaptureP0, Untouched, Locals
    <3>2. loc'[r].p0 = head /\ (loc'[r].resume = FALSE <=> loc[r].resume = FALSE)
      BY <3>1, <1>t DEF Locs
    <3>3. head # None
      BY <1>t, Constants
    <3> QED
      BY <3>1, <3>2, <3>3, <1>p DEF FetchLevel, Fetching
  <2> QED
    BY <1>5, <2>1, <2>2 DEF CaptureP0
<1>6. CASE SaveP0(r)
  <2>1. CASE InnerFail(r)
    BY <2>1, <1>f
  <2>2. CASE Go(r, "mark") /\ cp' = loc[r].p0 /\ KeepLocals
    <3>1. pc[r] = "saveP0" /\ pc'[r] = "mark" /\ UNCHANGED task
      BY <1>6, <2>2, <1>q, <1>g DEF SaveP0, Untouched
    <3> QED
      BY <2>2, <3>1, <1>p DEF FetchLevel, Fetching
  <2> QED
    BY <1>6, <2>1, <2>2 DEF SaveP0
<1>7. CASE MarkStarted(r)
  BY <1>7, <1>g, <1>x, <1>y DEF MarkStarted
<1>8. CASE ~(Begin(r) \/ FullEntry(r) \/ Detect(r) \/ RestoreP0(r) \/ CaptureP0(r) \/ SaveP0(r) \/ MarkStarted(r))
  <2>1. pc[r] \notin Fetching \cup {"begin"}
    <3>1. pc[r] # "begin"
      BY <1>8, RunLeads
    <3>2. ASSUME pc[r] \in Fetching PROVE FALSE
      BY <3>2, <1>8, <1>q DEF RunStep, FullStep, StreamStep, Fetching, CompleteTask, MarkIncremental, StreamOpens,
         StreamApplies, StreamEnds, MarkFailed, FailCheck, SetFailed, AcquireLocks, InitManifest, Prepare, CopyStart,
         CopyEnd, EngineFails, EngineEndsEarly, EngineDone, EngineError, Copied, CaptureP1, CatchUpOpens,
         CatchUpApplies, CatchUpFails, CaughtUp, CatchUpError, RestoreIndexes, MarkCompleted, StreamRollback
    <3> QED
      BY <3>1, <3>2
  <2>2. pc[r] \in PCs \ {"none", "done", "begin"}
    BY <1>t, <2>1, RunStarted
  <2>3. pc'[r] \in Failing \cup Streaming \cup Loading \cup {"done", "finish"}
    <3>1. CASE pc[r] = "finish"
      BY <3>1, RunLeads, <1>g DEF CompleteTask
    <3>2. CASE pc[r] # "finish"
      BY <2>1, <2>2, <3>2, RunLeads DEF PCs, Failing, Streaming, Loading
    <3> QED
      BY <3>1, <3>2
  <2>4. pc'[r] \notin Fetching
    BY <2>3 DEF Failing, Streaming, Loading, Locking, Ending, Fetching
  <2> QED
    BY <2>4, <1>x
<1> QED
  BY <1>1, <1>2, <1>3, <1>4, <1>5, <1>6, <1>7, <1>8

(* A run at its beginning or under way to the copy was so before.          *)
LEMMA EntersFetching ==
  ASSUME TypeInv, NEW r \in Runs, RunStep(r), ~Begin(r), pc'[r] \in Fetching \cup Locking
  PROVE  pc[r] \in Fetching \cup Locking
<1>t. pc \in [Runs -> PCs]
  BY DEF TypeInv, RunTyped
<1>g. \A l : Go(r, l) => pc'[r] = l /\ l \in Fetching \cup Locking
  BY <1>t DEF Go
<1>p. \A l \in {"done", "markfail", "check", "setfail", "copy", "engineerr", "copied", "p1", "catchopen", "catchup", "catcherr",
                "caught", "final", "complete", "finish", "incr", "open", "stream", "rollback"} : l \notin Fetching \cup Locking
  BY DEF Fetching, Locking
<1>f. ~Stopped(r) /\ ~InnerFail(r) /\ ~OuterFail(r) /\ ~Abort(r)
  BY <1>g, <1>p DEF Stopped, InnerFail, OuterFail, Abort
<1>1. CASE FullEntry(r) \/ Detect(r) \/ RestoreP0(r) \/ CaptureP0(r) \/ SaveP0(r) \/ MarkStarted(r) \/ AcquireLocks(r)
           \/ InitManifest(r) \/ Prepare(r)
  BY <1>1 DEF FullEntry, Detect, RestoreP0, CaptureP0, SaveP0, MarkStarted, AcquireLocks, InitManifest, Prepare, At,
     Fetching, Locking
<1>2. ASSUME NEW t \in Tables, CopyStart(r, t) \/ CopyEnd(r, t) PROVE FALSE
  BY <1>2, <1>g, <1>p DEF CopyStart, CopyEnd, At
<1>3. ~(EngineFails(r) \/ EngineEndsEarly(r) \/ EngineDone(r) \/ EngineError(r) \/ Copied(r))
  BY <1>g, <1>p, <1>f DEF EngineFails, EngineEndsEarly, EngineDone, EngineError, Copied
<1>4. ~(CaptureP1(r) \/ CatchUpOpens(r) \/ CatchUpApplies(r) \/ CatchUpFails(r) \/ CaughtUp(r) \/ CatchUpError(r))
  BY <1>g, <1>p, <1>f DEF CaptureP1, CatchUpOpens, CatchUpApplies, CatchUpFails, CaughtUp, CatchUpError, ApplyEvent
<1>5. ~(RestoreIndexes(r) \/ MarkCompleted(r) \/ CompleteTask(r) \/ MarkIncremental(r) \/ StreamOpens(r))
  BY <1>g, <1>p, <1>f DEF RestoreIndexes, MarkCompleted, CompleteTask, MarkIncremental, StreamOpens
<1>6. ~(StreamApplies(r) \/ StreamEnds(r) \/ StreamRollback(r) \/ MarkFailed(r) \/ FailCheck(r) \/ SetFailed(r))
  BY <1>g, <1>p, <1>f DEF StreamApplies, StreamEnds, StreamRollback, MarkFailed, FailCheck, SetFailed, ApplyEvent, AfterFail
<1> QED
  BY <1>1, <1>2, <1>3, <1>4, <1>5, <1>6 DEF RunStep, FullStep, StreamStep

LEMMA RunKeepsCopyLevel ==
  ASSUME Patient, TypeInv, Serial, Held, Followed, NEW r \in Runs, RunStep(r)
  PROVE  CopyLevel(r)'
<1>t. /\ task \in TaskRecords /\ task.manifest \in [Tables -> {"none", "PENDING", "PUBLISHED"}] /\ task.p0 \in Positions
      /\ loc \in [Runs -> Locs] /\ loc[r] \in Locs /\ loc[r].from \in [Tables -> Positions] /\ loc[r].todo \subseteq Tables
      /\ pc \in [Runs -> PCs] /\ seen \in [Tables -> Positions] /\ head \in Pos /\ cp \in Positions
  BY DEF TypeInv, TaskTyped, RunTyped, DataTyped, TaskRecords, Positions, Locs
<1>p. Behind /\ PublishedLevel /\ CopyLevel(r)
  BY DEF Followed, LevelAt
<1>r. Live(r) /\ HeldAt(r)
  BY OnlyOneRuns DEF Held
<1>1. pc'[r] \in Fetching \cup Locking => \A t \in Tables : loc'[r].from[t] = None
  <2> SUFFICES ASSUME pc'[r] \in Fetching \cup Locking PROVE \A t \in Tables : loc'[r].from[t] = None
    OBVIOUS
  <2>1. CASE Begin(r)
    <3>1. loc'[r] = [NoLoc EXCEPT !.mode = task.mode]
      BY <2>1, <1>t DEF Begin, Locals
    <3>2. loc'[r].from = [t \in Tables |-> None]
      BY <3>1 DEF NoLoc
    <3> QED
      BY <3>2
  <2>2. ASSUME ~Begin(r) PROVE \A t \in Tables : loc'[r].from[t] = None
    <3>1. pc[r] \in Fetching \cup Locking
      BY <2>2, EntersFetching
    <3>2. \A t \in Tables : loc[r].from[t] = None
      BY <3>1, <1>p DEF CopyLevel
    <3>3. \A t \in Tables : ~CopyStart(r, t)
      BY <3>1 DEF CopyStart, At, Fetching, Locking
    <3>4. CASE Detect(r)
      <4>1. PICK a, b, p, q : loc'[r] = [loc[r] EXCEPT !.resume = a, !.p0 = p, !.p1 = q, !.again = b]
        BY <3>4, <1>t DEF Detect, Locals
      <4>2. loc'[r].from = loc[r].from
        BY <4>1, <1>t DEF Locs
      <4> QED
        BY <3>2, <4>2
    <3> QED
      BY <2>2, <3>2, <3>3, <3>4, RunLocals
  <2> QED
    BY <2>1, <2>2
<1>2. pc'[r] = "copy" => \A t \in Tables :
        /\ t \notin loc'[r].todo => seen'[t] >= cp'
        /\ loc'[r].from[t] # None => loc'[r].from[t] >= cp' /\ loc'[r].from[t] >= task'.p0
  <2> SUFFICES ASSUME pc'[r] = "copy", NEW t \in Tables
               PROVE  /\ t \notin loc'[r].todo => seen'[t] >= cp'
                      /\ loc'[r].from[t] # None => loc'[r].from[t] >= cp' /\ loc'[r].from[t] >= task'.p0
    OBVIOUS
  <2>1. CASE Prepare(r)
    <3>1. \A l : Go(r, l) => l = "copy"
      BY <1>t DEF Go
    <3>2. ~Abort(r) /\ ~InnerFail(r) /\ ~OuterFail(r)
      BY <3>1 DEF Abort, Stopped, InnerFail, OuterFail
    <3>3. PICK todo : /\ Locals(r, [loc[r] EXCEPT !.todo = todo])
                      /\ seen' = [u \in Tables |-> IF u \in DropBeforeCopy(todo) THEN None ELSE seen[u]]
                      /\ todo = {u \in Tables : task.manifest[u] # "PUBLISHED"}
      BY <2>1, <3>2 DEF Prepare
    <3>4. loc'[r].todo = todo /\ loc'[r].from = loc[r].from
      BY <3>3, <1>t DEF Locals, Locs
    <3>5. loc[r].from[t] = None /\ cp' = cp
      BY <2>1, <1>p DEF Prepare, At, CopyLevel, Locking, dataVars
    <3> QED
      BY <3>3, <3>4, <3>5, <1>p DEF DropBeforeCopy, PublishedLevel
  <2>2. ASSUME NEW u \in Tables, CopyStart(r, u)
        PROVE  /\ t \notin loc'[r].todo => seen'[t] >= cp'
               /\ loc'[r].from[t] # None => loc'[r].from[t] >= cp' /\ loc'[r].from[t] >= task'.p0
    <3>1. pc[r] = "copy" /\ UNCHANGED <<cp, seen, task>>
      BY <2>2 DEF CopyStart, At, Quiet, Untouched
    <3>2. loc'[r] = [loc[r] EXCEPT !.from = [loc[r].from EXCEPT ![u] = head]]
      BY <2>2, <1>t DEF CopyStart, Locals
    <3>3. loc'[r].todo = loc[r].todo /\ loc'[r].from = [loc[r].from EXCEPT ![u] = head]
      BY <3>2, <1>t DEF Locs
    <3>4. loc'[r].from[t] = IF t = u THEN head ELSE loc[r].from[t]
      BY <3>3, <1>t
    <3>5. head >= cp /\ head >= task.p0
      BY <1>p, <1>t, Constants DEF Behind, Positions, Pos, None
    <3> QED
      BY <3>1, <3>3, <3>4, <3>5, <1>p DEF CopyLevel
  <2>3. ASSUME NEW u \in Tables, CopyEnd(r, u)
        PROVE  /\ t \notin loc'[r].todo => seen'[t] >= cp'
               /\ loc'[r].from[t] # None => loc'[r].from[t] >= cp' /\ loc'[r].from[t] >= task'.p0
    <3>1. /\ pc[r] = "copy" /\ cp' = cp /\ loc[r].from[u] # None
          /\ seen' = [seen EXCEPT ![u] = loc[r].from[u]]
      BY <2>3 DEF CopyEnd, At
    <3>2. loc'[r] = [loc[r] EXCEPT !.todo = loc[r].todo \ {u}]
      BY <2>3, <1>t DEF CopyEnd, Locals
    <3>3. loc'[r].todo = loc[r].todo \ {u} /\ loc'[r].from = loc[r].from
      BY <3>2, <1>t DEF Locs
    <3>4. task'.p0 = task.p0
      BY <3>1, RunPositions DEF MarkStarted, At
    <3>5. seen'[t] = IF t = u THEN loc[r].from[u] ELSE seen[t]
      BY <3>1, <1>t
    <3> QED
      BY <3>1, <3>3, <3>4, <3>5, <1>p DEF CopyLevel
  <2> QED
    BY <2>1, <2>2, <2>3, EntersCopy
<1>3. pc'[r] = "copied" => Level' \/ Interrupted'
  <2> SUFFICES ASSUME pc'[r] = "copied" PROVE Level' \/ Interrupted'
    OBVIOUS
  <2>1. CASE EngineDone(r)
    <3>1. pc[r] = "copy" /\ loc[r].todo = {} /\ UNCHANGED <<cp, seen>>
      BY <2>1 DEF EngineDone, At, dataVars
    <3>2. Level
      BY <3>1, <1>p DEF CopyLevel, Level
    <3> QED
      BY <3>1, <3>2 DEF Level
  <2>2. CASE EngineEndsEarly(r)
    <3>1. pc[r] = "copy" /\ r \notin dead /\ task.status # "RUNNING" /\ UNCHANGED task
      BY <2>2 DEF EngineEndsEarly, At, Gone, Quiet, Untouched
    <3>2. Interrupted
      BY <3>1, <1>r DEF HeldAt, Failing, Streaming
    <3> QED
      BY <3>1, <3>2 DEF Interrupted, UserStop
  <2> QED
    BY <2>1, <2>2, EntersCopied
<1> QED
  BY <1>1, <1>2, <1>3 DEF CopyLevel

LEMMA RunKeepsPastLevel ==
  ASSUME Patient, TypeInv, Serial, Followed, NEW r \in Runs, RunStep(r)
  PROVE  PastLevel(r)'
<1>t. /\ loc \in [Runs -> Locs] /\ loc[r] \in Locs /\ pc \in [Runs -> PCs]
  BY DEF TypeInv, RunTyped
<1>p. FinishedLevel /\ FetchLevel(r) /\ CopyLevel(r) /\ PastLevel(r)
  BY DEF Followed, LevelAt
<1>q. \A l : At(r, l) => pc[r] = l
  BY DEF At
<1>g. \A l : Go(r, l) => pc'[r] = l
  BY <1>t DEF Go
<1>f. pc[r] = "finish" => pc'[r] = "done"
  BY RunLeads, <1>g DEF CompleteTask
<1>a. ASSUME CatchUpApplies(r) \/ StreamApplies(r)
      PROVE  /\ Level' /\ cp' # None
             /\ pc'[r] \in {"catchup", "stream"} => loc'[r].pos = cp'
  <2>1. pc[r] \in {"catchup", "stream"}
    BY <1>a, <1>q DEF CatchUpApplies, StreamApplies
  <2>2. loc[r].pos = cp /\ cp # None /\ Level
    BY <2>1, <1>p DEF PastLevel, Loading, Ending, Streaming
  <2>3. PICK next, failed : ApplyEvent(r, next, failed) /\ failed \in {"catcherr", "rollback"}
    BY <1>a DEF CatchUpApplies, StreamApplies
  <2>4. Level' /\ cp' # None /\ ((pc'[r] = next /\ loc'[r].pos = cp') \/ pc'[r] = failed)
    BY <2>2, <2>3, ApplyKeepsLevel
  <2> QED
    BY <2>3, <2>4
<1>1. pc'[r] \in Loading \cup Streaming => cp' # None
  <2> SUFFICES ASSUME pc'[r] \in Loading \cup Streaming PROVE cp' # None
    OBVIOUS
  <2>1. CASE MarkStarted(r)
    BY <2>1, <1>p, <1>q DEF MarkStarted, dataVars, FetchLevel
  <2>2. CASE Begin(r) /\ pc'[r] = "incr" /\ HasFullSyncEverCompleted(task)
    BY <2>2, <1>p DEF Begin, dataVars, FinishedLevel
  <2>3. CASE pc[r] \in Loading \cup Streaming
    <3>1. CASE CatchUpApplies(r) \/ StreamApplies(r)
      BY <3>1, <1>a
    <3>2. ~RestoreP0(r) /\ ~SaveP0(r)
      BY <2>3, <1>q DEF RestoreP0, SaveP0, Loading, Streaming, Locking, Ending
    <3>3. cp # None
      BY <2>3, <1>p DEF PastLevel
    <3> QED
      BY <3>1, <3>2, <3>3, RunPositions
  <2>4. CASE pc'[r] \in Loading /\ ~MarkStarted(r)
    BY <2>3, <2>4, EntersLoading
  <2>5. CASE pc'[r] \in Streaming
    <3>1. pc'[r] \in Past /\ pc'[r] # "done"
      BY <2>5 DEF Past, Streaming
    <3>2. Past \subseteq Loading \cup Streaming \cup {"finish"} /\ "copied" \in Loading
      BY DEF Past, Loading, Ending
    <3> QED
      BY <2>2, <2>3, <3>1, <3>2, <1>f, EntersPast
  <2> QED
    BY <2>1, <2>4, <2>5
<1>2. pc'[r] \in (Ending \ {"copied"}) \cup Streaming => Level'
  <2> SUFFICES ASSUME pc'[r] \in (Ending \ {"copied"}) \cup Streaming PROVE Level'
    OBVIOUS
  <2>1. CASE CatchUpApplies(r) \/ StreamApplies(r)
    BY <2>1, <1>a
  <2>2. pc'[r] \in Past /\ pc'[r] # "done"
    BY DEF Past, Ending, Streaming
  <2>3. /\ Level /\ pc[r] \in Past \cup {"copied", "begin"}
    <3>1. CASE pc[r] \in Past
      BY <3>1, <2>2, <1>f, <1>p DEF Past, PastLevel
    <3>2. CASE Copied(r) /\ pc[r] = "copied" /\ GoesOn(r)
      BY <3>2, <1>p DEF CopyLevel, GoesOn, Interrupted
    <3>3. CASE Begin(r) /\ pc[r] = "begin" /\ HasFullSyncEverCompleted(task)
      BY <3>3, <1>p DEF FinishedLevel
    <3> QED
      BY <2>2, <3>1, <3>2, <3>3, EntersPast
  <2>4. ~RestoreP0(r) /\ ~SaveP0(r) /\ ~Prepare(r) /\ \A t \in Tables : ~CopyEnd(r, t)
    BY <2>3, <1>q DEF RestoreP0, SaveP0, Prepare, CopyEnd, Past, Ending, Streaming
  <2> QED
    BY <2>1, <2>3, <2>4, RunPositions DEF Level
<1>3. pc'[r] \in {"catchup", "stream"} => loc'[r].pos = cp'
  <2> SUFFICES ASSUME pc'[r] \in {"catchup", "stream"} PROVE loc'[r].pos = cp'
    OBVIOUS
  <2>1. CASE CatchUpApplies(r) \/ StreamApplies(r)
    BY <2>1, <1>a
  <2>2. CASE CatchUpOpens(r) \/ StreamOpens(r)
    <3>1. pc[r] \in {"catchopen", "open"} /\ UNCHANGED cp
      BY <2>2, <1>q DEF CatchUpOpens, StreamOpens, dataVars
    <3>2. cp # None
      BY <3>1, <1>p DEF PastLevel, Loading, Ending, Streaming
    <3>3. Locals(r, [loc[r] EXCEPT !.pos = StartPosition])
      BY <2>2, <1>g DEF CatchUpOpens, StreamOpens
    <3>4. loc'[r] = [loc[r] EXCEPT !.pos = cp]
      BY <3>2, <3>3, <1>t DEF Locals, StartPosition
    <3> QED
      BY <3>1, <3>4, <1>t DEF Locs
  <2>3. CASE ~(CatchUpApplies(r) \/ StreamApplies(r) \/ CatchUpOpens(r) \/ StreamOpens(r))
    <3>g. \A l : Go(r, l) => l \in {"catchup", "stream"}
      BY <1>g
    <3>f. ~Stopped(r) /\ ~InnerFail(r) /\ ~OuterFail(r) /\ ~Abort(r)
      BY <3>g DEF Stopped, InnerFail, OuterFail, Abort
    <3>1. ~(Begin(r) \/ FullEntry(r) \/ Detect(r) \/ RestoreP0(r) \/ CaptureP0(r) \/ SaveP0(r) \/ MarkStarted(r))
      BY <3>g, <3>f DEF Begin, FullEntry, Detect, RestoreP0, CaptureP0, SaveP0, MarkStarted
    <3>2. ~(AcquireLocks(r) \/ InitManifest(r) \/ Prepare(r))
      BY <3>g, <3>f DEF AcquireLocks, InitManifest, Prepare
    <3>3. \A t \in Tables : ~CopyStart(r, t) /\ ~CopyEnd(r, t)
      BY <3>g DEF CopyStart, CopyEnd, At
    <3>4. ~(EngineFails(r) \/ EngineEndsEarly(r) \/ EngineDone(r) \/ EngineError(r) \/ Copied(r))
      BY <3>g, <3>f DEF EngineFails, EngineEndsEarly, EngineDone, EngineError, Copied
    <3>5. ~(CaptureP1(r) \/ CatchUpFails(r) \/ CaughtUp(r) \/ CatchUpError(r) \/ RestoreIndexes(r) \/ MarkCompleted(r))
      BY <3>g, <3>f DEF CaptureP1, CatchUpFails, CaughtUp, CatchUpError, RestoreIndexes, MarkCompleted
    <3>6. ~(CompleteTask(r) \/ MarkIncremental(r) \/ StreamEnds(r) \/ StreamRollback(r))
      BY <3>g DEF CompleteTask, MarkIncremental, StreamEnds, StreamRollback
    <3>7. ~(MarkFailed(r) \/ FailCheck(r) \/ SetFailed(r))
      BY <3>g, <3>f DEF MarkFailed, FailCheck, SetFailed, AfterFail
    <3> QED
      BY <2>3, <3>1, <3>2, <3>3, <3>4, <3>5, <3>6, <3>7 DEF RunStep, FullStep, StreamStep
  <2> QED
    BY <2>1, <2>2, <2>3
<1> QED
  BY <1>1, <1>2, <1>3 DEF PastLevel

(* A run that is not live has nothing to follow.                           *)
LEMMA IdleFollows ==
  /\ \A r \in Runs : pc[r] \in {"none", "done", "begin"} => LevelAt(r)
  /\ \A r \in Runs : pc'[r] \in {"none", "done", "begin"} => LevelAt(r)'
BY DEF LevelAt, FetchLevel, CopyLevel, PastLevel, Fetching, Loading, Locking, Ending, Streaming

LEMMA FollowedStart == TypeInv /\ Init => Followed
<1> SUFFICES ASSUME TypeInv, Init PROVE Followed
  OBVIOUS
<1>1. PICK b \in Rebuilds, s \in Stagings : task = NewTask(b, s)
  BY DEF Init
<1>2. /\ task.p0 = None /\ task.phase = "INIT" /\ \A t \in Tables : task.manifest[t] = "none"
      /\ cp = None /\ head = 0 /\ \A r \in Runs : loc[r].p0 = None /\ pc[r] = "none"
  BY <1>1 DEF NewTask, Init, NoLoc
<1>3. Behind
  BY <1>2 DEF Behind, None
<1> QED
  BY <1>2, <1>3, IdleFollows DEF Followed, PublishedLevel, FinishedLevel, HasFullSyncEverCompleted

LEMMA RunKeepsFollowed ==
  ASSUME Modes = {"ALL"}, Patient, TypeInv, Serial, Held, Complete, Followed, NEW r \in Runs, RunStep(r)
  PROVE  Followed'
<1>1. \A q \in Runs \ {r} : pc'[q] \in {"none", "done"}
  BY OnlyOneRuns DEF Live
<1>2. LevelAt(r)'
  BY RunKeepsFetchLevel, RunKeepsCopyLevel, RunKeepsPastLevel DEF LevelAt
<1> QED
  BY <1>1, <1>2, IdleFollows, RunKeepsBehind, RunKeepsPublished, RunKeepsFinished DEF Followed

LEMMA UserKeepsFollowed ==
  ASSUME Patient, Undisturbed, TypeInv, Followed,
         UserStep \/ ServiceStep \/ SourceWrites \/ CheckpointLost \/ SchemaLockLost
  PROVE  Followed'
<1>t. /\ cp \in Positions /\ head \in Pos /\ seen \in [Tables -> Positions] /\ task.p0 \in Positions /\ pc \in [Runs -> PCs]
      /\ \A q \in Runs : loc[q].p0 \in Positions
  BY DEF TypeInv, TaskTyped, RunTyped, DataTyped, TaskRecords, Positions, Locs
<1>i. Positions \subseteq Int /\ Pos \subseteq Int /\ \A p \in Positions : p >= None
  BY Constants DEF Positions, Pos, None
<1>1. /\ task'.manifest = task.manifest /\ task'.p0 = task.p0 /\ seen' = seen /\ (cp' = cp \/ CheckpointLost)
      /\ task'.phase = task.phase \/ task'.phase = "FULL_FAILED"
  BY UserKeepsLoad DEF SameLoad
<1>2. head' \in Int /\ head' >= head
  <2>1. head' = head \/ head' = head + 1
    BY UserKeepsLoad DEF SourceWrites
  <2> QED
    BY <2>1, <1>t, <1>i
<1>3. UNCHANGED loc
  BY UserKeepsRuns DEF StartTask
<1>4. CheckpointLost => cp' = None /\ Unfinished(task) /\ \A q \in Runs : pc'[q] \in {"none", "done"}
  BY DEF CheckpointLost, Live, runVars
<1>5. Behind'
  <2>1. cp' <= head
    <3>1. cp <= head
      BY DEF Followed, Behind
    <3>2. None <= head
      BY <1>t, Constants DEF Pos, None
    <3> QED
      BY <1>1, <1>4, <3>1, <3>2
  <2>2. cp' \in Int
    BY <1>1, <1>4, <1>t, <1>i DEF None
  <2>3. \A p \in Int : p <= head => p <= head'
    BY <1>2, <1>t, <1>i
  <2> QED
    BY <1>1, <1>3, <2>1, <2>2, <2>3, <1>t, <1>i DEF Followed, Behind
<1>6. PublishedLevel'
  BY <1>1, <1>4, <1>t, <1>i DEF Followed, PublishedLevel
<1>7. HasFullSyncEverCompleted(task') => HasFullSyncEverCompleted(task)
  BY <1>1 DEF HasFullSyncEverCompleted
<1>8. FinishedLevel'
  <2>1. HasFullSyncEverCompleted(task) => ~CheckpointLost
    BY <1>4 DEF HasFullSyncEverCompleted, Unfinished
  <2> QED
    BY <1>1, <1>7, <2>1 DEF Followed, FinishedLevel, Level
<1>9. ASSUME NEW q \in Runs PROVE LevelAt(q)'
  <2>1. CASE CheckpointLost
    BY <2>1, <1>4, IdleFollows
  <2>2. ASSUME NEW r \in Runs, StartTask(r) PROVE LevelAt(q)'
    <3>1. pc'[q] \in {"none", "done", "begin"}
      BY <2>2, <1>t DEF StartTask, Live
    <3> QED
      BY <3>1, IdleFollows
  <2>3. CASE ~CheckpointLost /\ \A r \in Runs : ~StartTask(r)
    <3>1. UNCHANGED <<pc, loc, cp, seen>>
      BY <2>3, <1>1, UserKeepsRuns
    <3>2. Interrupted => Interrupted'
      BY <2>3, InterruptedStays
    <3>3. Unfinished(task) => Unfinished(task')
      BY <1>1 DEF Unfinished
    <3>4. HasManifest(task') <=> HasManifest(task)
      BY <1>1 DEF HasManifest
    <3>5. LevelAt(q)
      BY DEF Followed
    <3>6. FetchLevel(q)'
      BY <3>1, <3>3, <3>4, <3>5, <1>1, <1>7 DEF LevelAt, FetchLevel
    <3>7. CopyLevel(q)'
      BY <3>1, <3>2, <3>5, <1>1 DEF LevelAt, CopyLevel, Level
    <3>8. PastLevel(q)'
      BY <3>1, <3>5 DEF LevelAt, PastLevel, Level
    <3> QED
      BY <3>6, <3>7, <3>8 DEF LevelAt
  <2> QED
    BY <2>1, <2>2, <2>3
<1> QED
  BY <1>5, <1>6, <1>8, <1>9 DEF Followed

LEMMA FollowedStep ==
  Modes = {"ALL"} /\ Patient /\ Undisturbed /\ FileTrusted /\ LoadInv /\ Followed /\ [Next]_vars => Followed'
<1> SUFFICES ASSUME Modes = {"ALL"}, Patient, Undisturbed, FileTrusted, LoadInv, Followed, [Next]_vars PROVE Followed'
  OBVIOUS
<1> USE DEF LoadInv
<1>1. ASSUME NEW r \in Runs, RunStep(r) PROVE Followed'
  BY <1>1, RunKeepsFollowed
<1>2. CASE UserStep \/ ServiceStep \/ SourceWrites \/ CheckpointLost \/ SchemaLockLost
  BY <1>2, UserKeepsFollowed
<1>3. CASE CrashAndRestart
  <2>1. /\ task' = Recovered(task) /\ UNCHANGED <<dataVars, head>>
        /\ pc' = [r \in Runs |-> IF pc[r] = "none" THEN "none" ELSE "done"] /\ loc' = [r \in Runs |-> NoLoc]
    BY <1>3, CrashKeepsLoad DEF CrashAndRestart
  <2>2. task.mode = "ALL"
    BY DEF TypeInv, TaskTyped, TaskRecords
  <2>3. task' = task
    BY <2>1, <2>2 DEF Recovered
  <2>4. \A r \in Runs : loc'[r].p0 = None /\ pc'[r] \in {"none", "done"}
    BY <2>1 DEF NoLoc
  <2>5. None <= head
    BY Constants DEF TypeInv, DataTyped, Pos, None
  <2> QED
    BY <2>1, <2>3, <2>4, <2>5, IdleFollows DEF Followed, Behind, PublishedLevel, FinishedLevel, Level, dataVars
<1>4. CASE UNCHANGED vars
  BY <1>4 DEF vars, runVars, dataVars, Followed, Behind, PublishedLevel, FinishedLevel, Level, LevelAt, FetchLevel,
     CopyLevel, PastLevel, Interrupted, UserStop
<1> QED
  BY <1>1, <1>2, <1>3, <1>4 DEF Next, EnvStep

(* A task of mode ALL that goes on incrementally has a checkpoint, and no  *)
(* table lacks a change from before it, for any tables, any number of      *)
(* changes on the source, and any starts, pauses, plans, restarts, lost    *)
(* checkpoints and faults of the database and the locks, under the         *)
(* hypotheses of CompletedIsCopied.  A task that may be edited from FULL   *)
(* to INCREMENTAL is not of mode ALL: its load takes no P0.                *)
THEOREM NothingLeftOut ==
  ASSUME Modes = {"ALL"}, Patient, Undisturbed, FileTrusted
  PROVE  Spec => []NoGap
<1>1. Init => LoadInv /\ Followed
  BY LoadStart, FollowedStart DEF LoadInv
<1>2. LoadInv /\ Followed /\ [Next]_vars => LoadInv' /\ Followed'
  BY LoadStep, FollowedStep
<1>3. LoadInv /\ Followed => NoGap
  BY DEF LoadInv, Followed, FinishedLevel, Level, Complete, AllWhole, HasFullSyncEverCompleted, NoGap
<1> QED
  BY <1>1, <1>2, <1>3, PTL DEF Spec
=============================================================================
