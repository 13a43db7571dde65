--------------------------- MODULE TaskLifecycle ---------------------------
(***************************************************************************)
(* One synchronisation task of the TaskService (full load engine V2):      *)
(* its status and phase, the runs (executeSync goroutines) started for it, *)
(* the file it is saved to, its binlog checkpoint, and what its tables on  *)
(* the target hold.                                                        *)
(*                                                                         *)
(* A user's operation holds TaskService.mu and is one step.  A run takes   *)
(* the mutex anew for each change it makes, so that user operations, other *)
(* runs of the same task and a crash fall between any two of its steps.    *)
(* PauseTask cancels the run's context; it does not wait for the run, so a *)
(* quick StartTask makes two runs of one task.                             *)
(*                                                                         *)
(* The source's binlog is a counter: position p is what p changes left.    *)
(* seen[t] = p says that the target's table t reflects the first p changes *)
(* without a hole; replaying a change is harmless (keyed tables).  The     *)
(* pipeline inside a table copy is FullLoadPipeline.  Stopping a binlog     *)
(* subscription is taken to return.                                        *)
(***************************************************************************)
EXTENDS Integers, FiniteSets

CONSTANTS
  Tables,
  Modes,       \* the modes the task may be given, InitMode the first
  InitMode,
  Rebuilds,    \* the values of EnableDropTableBeforeDDL the task may have
  Stagings,    \* of FullLoadEnableStaging: copy to a staging table, then RENAME
  Ops,         \* the user operations of this instance
  Faults,      \* subset of {"crash", "save", "db", "lock", "checkpoint"}
  Patient,     \* the user starts a task only when its earlier run has ended
  MaxStarts, MaxHead, MaxFaults

Pos == 0..MaxHead
None == -1
Runs == 1..MaxStarts

ASSUME LifecycleAssumption ==
  /\ Modes \subseteq {"FULL", "INCREMENTAL", "ALL"} /\ InitMode \in Modes
  /\ Rebuilds \subseteq BOOLEAN /\ Rebuilds # {} /\ Stagings \subseteq BOOLEAN /\ Stagings # {} /\ Patient \in BOOLEAN
  /\ MaxStarts \in Nat /\ MaxHead \in Nat /\ MaxFaults \in Nat

VARIABLES
  task,     \* the live SyncTask
  disk,     \* the SyncTask in the task storage
  runtime,  \* s.runtimes: the run that owns the connections, 0 when none
  closing,  \* runtimes EndTask took from the map and has not closed yet
  setup,    \* second half of ScheduleTaskWithRepeat / ScheduleCronTask
  starts,   \* runs started so far
  pc, dead, loc,  \* per run: its place, its context cancelled, its locals
  lock,     \* the run whose session holds the target schema locks
  lost,     \* runs whose lock session died
  cp,       \* the checkpoint manager's position
  head,     \* the source's binlog position
  base,     \* base copy of a table on the target: "none", "part", "whole"
  seen,     \* see above
  doubled,  \* tables INSERTed into while rows of an earlier copy were there
  faults    \* faults so far

userVars == <<closing, setup, starts>>
runVars == <<pc, dead, loc, lock, lost>>
dataVars == <<cp, base, seen, doubled>>
vars == <<task, disk, runtime, userVars, runVars, dataVars, head, faults>>

NoLoc == [mode |-> InitMode, resume |-> FALSE, p0 |-> None, p1 |-> None, end |-> None,
          pos |-> None, todo |-> {}, from |-> [t \in Tables |-> None], again |-> FALSE]

NewTask(rebuild, staging) ==
           [status |-> "PENDING", phase |-> "INIT", sub |-> "", p0 |-> None, p1 |-> None,
            completedAt |-> FALSE, manifest |-> [t \in Tables |-> "none"], mode |-> InitMode,
            cron |-> FALSE, left |-> 0, from |-> "none",
            rebuild |-> rebuild, staging |-> staging]

Init ==
  /\ task \in {NewTask(b, s) : b \in Rebuilds, s \in Stagings} /\ disk = task
  /\ runtime = 0 /\ closing = {} /\ setup = "none" /\ starts = 0
  /\ pc = [r \in Runs |-> "none"] /\ dead = {} /\ loc = [r \in Runs |-> NoLoc]
  /\ lock = 0 /\ lost = {}
  /\ cp = None /\ head = 0
  /\ base = [t \in Tables |-> "none"] /\ seen = [t \in Tables |-> None] /\ doubled = {}
  /\ faults = 0

-----------------------------------------------------------------------------
(* Predicates of the code *)

HasManifest(k) == \E t \in Tables : k.manifest[t] # "none"
AllPublished(k) == HasManifest(k) /\ \A t \in Tables : k.manifest[t] = "PUBLISHED"
HasFullSyncEverCompleted(k) == k.phase \in {"FULL_COMPLETED", "INCREMENTAL_STARTED"}
Unfinished(k) == k.phase \in {"FULL_STARTED", "FULL_FAILED"}
FullSyncIncomplete(k) == Unfinished(k) /\ ~HasManifest(k)
RestartBlocked(k) == k.mode # "INCREMENTAL" /\ ~k.rebuild /\ FullSyncIncomplete(k)
UserStop == task.status \in {"PAUSED", "STOPPED"}
Resumes(k) == HasManifest(k) /\ Unfinished(k)
DropsDatabase(todo) == IF task.rebuild THEN Tables ELSE {}   \* mutant: a resumed run rebuilds the database
DropsNothing(todo) == {}                                \* mutant: the switch is ignored

(* What a rebuild or the per-table DROP removes before the copy.           *)
DropBeforeCopy(todo) == IF task.rebuild THEN todo ELSE {}

Live(r) == pc[r] \notin {"none", "done"}

Fault(f) == f \in Faults /\ faults < MaxFaults /\ faults' = faults + 1

(* A save whose error is only logged: the file may keep the old state. *)
Save(k) ==
  /\ task' = k
  /\ \/ disk' = k /\ UNCHANGED faults
     \/ Fault("save") /\ UNCHANGED disk

(* Start, Schedule and ClearScheduleConfig of the entity *)
ClearScheduleConfig(k) == [k EXCEPT !.cron = FALSE, !.left = 0, !.from = "none"]
Started(k) ==
  LET s == IF k.status = "SCHEDULED" THEN k ELSE ClearScheduleConfig(k)
  IN [s EXCEPT !.status = "RUNNING", !.from = "none"]
ScheduledTask(k) ==
  [k EXCEPT !.status = "SCHEDULED",
            !.from = IF k.status # "SCHEDULED" THEN k.status
                     ELSE IF k.from = "none" THEN "PENDING" ELSE k.from]

(* completeTask's outcome: a cron or repeating task is planned again.      *)
Completed(k) ==
  IF k.cron THEN [k EXCEPT !.status = "SCHEDULED"]
  ELSE IF k.left > 1 THEN [k EXCEPT !.status = "SCHEDULED", !.left = @ - 1]
  ELSE [ClearScheduleConfig(k) EXCEPT !.status = "COMPLETED"]

MarkFullSyncFailed(k) == [k EXCEPT !.phase = "FULL_FAILED"]
MarkFullSyncStarted(k, pos) ==
  [k EXCEPT !.phase = "FULL_STARTED", !.p0 = pos, !.p1 = None, !.sub = "BASE_SCAN", !.completedAt = FALSE]
MarkFullSyncCompleted(k) ==
  [k EXCEPT !.phase = "FULL_COMPLETED", !.completedAt = TRUE,
            !.sub = IF k.mode = "ALL" THEN "STREAMING" ELSE @]

-----------------------------------------------------------------------------
(* The user's operations, the scheduler, a restart *)

UserOp(op) == op \in Ops /\ UNCHANGED <<dataVars, head, lost>>

(* runtime.Close() of a run: its context is cancelled, its pools close.    *)
Cancel(S) == dead' = dead \cup (S \ {0})

StartBlocked ==
  /\ task.status \notin {"RUNNING", "STOPPED"}
  /\ RestartBlocked(task)
  /\ Save([MarkFullSyncFailed(task) EXCEPT !.status = "FAILED"])
  /\ UNCHANGED <<runtime, userVars, runVars, dataVars, head>>

(* The user's StartTask, or checkScheduledTasks for a task that is due.    *)
StartTask(r) ==
  /\ task.status \notin {"RUNNING", "STOPPED"}
  /\ ~RestartBlocked(task)
  /\ r = starts + 1
  /\ Patient => \A q \in Runs : ~Live(q)
  /\ Save(Started(task))
  /\ starts' = r
  /\ Cancel({runtime})
  /\ runtime' = r
  /\ pc' = [pc EXCEPT ![r] = "begin"]
  /\ UNCHANGED <<closing, setup, loc, lock, lost, dataVars, head>>

PauseTask ==
  /\ UserOp("pause")
  /\ Save([task EXCEPT !.status = "PAUSED"])
  /\ Cancel({runtime})
  /\ runtime' = 0
  /\ UNCHANGED <<userVars, pc, loc, lock>>

EndTask ==
  /\ UserOp("end")
  /\ task.status = "RUNNING" /\ task.mode = "ALL" /\ task.phase = "INCREMENTAL_STARTED"
  /\ Save([ClearScheduleConfig(task) EXCEPT !.status = "STOPPED"])
  /\ closing' = closing \cup ({runtime} \ {0})
  /\ runtime' = 0
  /\ UNCHANGED <<setup, starts, runVars>>

(* After the unlock EndTask stops the subscription and closes the pools.   *)
EndTaskCloses ==
  /\ closing # {}
  /\ Cancel(closing)
  /\ closing' = {}
  /\ UNCHANGED <<task, disk, runtime, setup, starts, pc, loc, lock, lost, dataVars, head, faults>>

(* ScheduleTask; the repeat and cron forms call it and lock again.         *)
Schedule(kind) ==
  /\ UserOp(kind)
  /\ kind \in {"once", "repeat", "cron"}
  /\ setup = "none"
  /\ task.status \in {"PENDING", "PAUSED", "FAILED", "SCHEDULED"}
  /\ Save(ScheduledTask(task))
  /\ setup' = IF kind = "once" \/ disk' # task' THEN "none" ELSE kind
  /\ UNCHANGED <<closing, starts, runtime, pc, dead, loc, lock>>

Configure ==
  /\ setup # "none"
  /\ setup' = "none"
  /\ Save(IF setup = "cron" THEN [task EXCEPT !.cron = TRUE, !.left = 0]
          ELSE [task EXCEPT !.cron = FALSE, !.left = 2])
  /\ UNCHANGED <<closing, starts, runtime, runVars, dataVars, head>>

CancelSchedule ==
  /\ UserOp("cancel")
  /\ task.status = "SCHEDULED"
  /\ Save([ClearScheduleConfig(task) EXCEPT !.status = IF task.from = "none" THEN "PENDING" ELSE task.from])
  /\ UNCHANGED <<userVars, runtime, pc, dead, loc, lock>>

SkipError ==
  /\ UserOp("skip")
  /\ Save([task EXCEPT !.status = "PAUSED"])
  /\ UNCHANGED <<userVars, runtime, pc, dead, loc, lock>>

UpdateTask(m) ==
  /\ UserOp("edit")
  /\ task.status \notin {"RUNNING", "STOPPED"}
  /\ m \in Modes \ {task.mode}
  /\ Save([task EXCEPT !.mode = m])
  /\ UNCHANGED <<userVars, runtime, pc, dead, loc, lock>>

(* loadTasks and recoverFullLoadV2States on what the storage holds.        *)
RecoveredEarly(k) ==   \* mutant: any manifest counts as a finished load
  IF HasManifest(k) /\ k.mode # "ALL" /\ Unfinished(k)
  THEN [k EXCEPT !.phase = "FULL_COMPLETED", !.completedAt = TRUE]
  ELSE k

Recovered(k) ==
  IF AllPublished(k) /\ k.mode # "ALL" /\ Unfinished(k)
  THEN [k EXCEPT !.phase = "FULL_COMPLETED", !.completedAt = TRUE]
  ELSE k

CrashAndRestart ==
  /\ Fault("crash")
  /\ task' = Recovered(disk)
  /\ disk' = task'
  /\ runtime' = 0 /\ closing' = {} /\ setup' = "none"
  /\ pc' = [r \in Runs |-> IF pc[r] = "none" THEN "none" ELSE "done"]
  /\ dead' = {} /\ lost' = {} /\ lock' = 0
  /\ loc' = [r \in Runs |-> NoLoc]
  /\ UNCHANGED <<starts, dataVars, head>>

(* The source keeps changing; an idle, unfinished task's checkpoint may be *)
(* lost; a lock session may die (the heartbeat then cancels with a cause). *)
SourceWrites ==
  /\ head < MaxHead
  /\ head' = head + 1
  /\ UNCHANGED <<task, disk, runtime, userVars, runVars, dataVars, faults>>

CheckpointLost ==
  /\ Unfinished(task) /\ \A r \in Runs : ~Live(r)
  /\ cp # None
  /\ Fault("checkpoint")
  /\ cp' = None
  /\ UNCHANGED <<task, disk, runtime, userVars, runVars, base, seen, doubled, head>>

SchemaLockLost ==
  /\ lock # 0
  /\ Fault("lock")
  /\ lost' = lost \cup {lock}
  /\ lock' = 0
  /\ UNCHANGED <<task, disk, runtime, userVars, pc, dead, loc, dataVars, head>>

-----------------------------------------------------------------------------
(* A run: executeSync, step by step *)

At(r, l) == pc[r] = l
Go(r, l) == pc' = [pc EXCEPT ![r] = l]
Locals(r, l) == loc' = [loc EXCEPT ![r] = l]
Gone(r) == r \in dead \cup lost          \* the context executeFullSync works under is cancelled
DbFails(r) ==
  \/ Gone(r) /\ UNCHANGED faults
  \/ Fault("db")

RunFrame == UNCHANGED <<runtime, userVars, dead, head>>
Untouched == UNCHANGED <<task, disk>>
Quiet == Untouched /\ UNCHANGED faults
KeepLocks == UNCHANGED <<lock, lost>>
KeepsLock(r) == UNCHANGED <<lock, lost>>   \* mutant: no deferred Release
Release(r) == lock' = (IF lock = r THEN 0 ELSE lock) /\ lost' = lost \ {r}
KeepLocals == UNCHANGED loc

(* The ways executeFullSync is left before its end: the user stopped it;   *)
(* an error it has marked itself before returning; an error executeSync    *)
(* marks.  The schema locks are released on return.                        *)
Stopped(r) == Go(r, "done") /\ Release(r) /\ KeepLocals
InnerFail(r) == Go(r, "markfail") /\ Locals(r, [loc[r] EXCEPT !.again = TRUE]) /\ KeepLocks
OuterFail(r) == Go(r, "markfail") /\ Locals(r, [loc[r] EXCEPT !.again = FALSE]) /\ Release(r)

(* abortFullSyncIfCancelled: a lost lock comes before the user's stop.     *)
Abort(r) ==
  /\ Quiet
  /\ \/ r \in lost /\ OuterFail(r)
     \/ r \notin lost /\ UserStop /\ Stopped(r)
GoesOn(r) == r \notin lost /\ ~UserStop

Begin(r) ==
  /\ At(r, "begin")
  /\ Locals(r, [NoLoc EXCEPT !.mode = task.mode])
  /\ Go(r, IF task.mode # "FULL" /\ HasFullSyncEverCompleted(task) THEN "incr"
           ELSE IF task.mode = "INCREMENTAL" THEN "check" ELSE "full")
  /\ Quiet /\ RunFrame /\ KeepLocks /\ UNCHANGED dataVars

(* executeFullSync's early stop check, then resetResumeIfFresh.            *)
FullEntry(r) ==
  /\ At(r, "full")
  /\ IF UserStop THEN Go(r, "done") /\ Quiet
     ELSE /\ Go(r, "detect")
          /\ Save(IF Unfinished(task) THEN task
                  ELSE [task EXCEPT !.manifest = [t \in Tables |-> "none"]])
  /\ RunFrame /\ KeepLocks /\ KeepLocals /\ UNCHANGED dataVars

(* detectFullLoadV2Resume, before any P0 is captured.                      *)
Detect(r) ==
  /\ At(r, "detect")
  /\ LET resume == Resumes(task)
         noP0 == resume /\ task.mode = "ALL" /\ task.p0 = None
     IN /\ Locals(r, [loc[r] EXCEPT !.resume = resume, !.p0 = IF resume THEN task.p0 ELSE None,
                                    !.p1 = IF resume THEN task.p1 ELSE None, !.again = noP0])
        /\ Go(r, IF task.mode # "ALL" THEN "mark"
                 ELSE IF noP0 THEN "markfail" ELSE IF resume THEN "restoreP0" ELSE "capture")
  /\ Quiet /\ RunFrame /\ KeepLocks /\ UNCHANGED dataVars

RestoreNewPosition(r) ==   \* mutant: the source's current position takes its place
  /\ At(r, "restoreP0")
  /\ Go(r, "mark") /\ cp' = (IF cp = None THEN head ELSE cp)
  /\ KeepLocals /\ Quiet /\ RunFrame /\ KeepLocks /\ UNCHANGED <<base, seen, doubled>>

(* A resumed run keeps its checkpoint; when it is lost P0 takes its place. *)
RestoreP0(r) ==
  /\ At(r, "restoreP0")
  /\ \/ Go(r, "mark") /\ cp' = (IF cp = None THEN loc[r].p0 ELSE cp) /\ KeepLocals /\ UNCHANGED faults
     \/ DbFails(r) /\ InnerFail(r) /\ UNCHANGED cp
  /\ Untouched /\ RunFrame /\ KeepLocks /\ UNCHANGED <<base, seen, doubled>>

CaptureP0(r) ==
  /\ At(r, "capture")
  /\ \/ ~Gone(r) /\ Go(r, "saveP0") /\ Locals(r, [loc[r] EXCEPT !.p0 = head]) /\ UNCHANGED faults
     \/ DbFails(r) /\ InnerFail(r)
  /\ Untouched /\ RunFrame /\ KeepLocks /\ UNCHANGED dataVars

SaveP0(r) ==
  /\ At(r, "saveP0")
  /\ \/ Go(r, "mark") /\ cp' = loc[r].p0 /\ KeepLocals /\ UNCHANGED faults
     \/ DbFails(r) /\ InnerFail(r) /\ UNCHANGED cp
  /\ Untouched /\ RunFrame /\ KeepLocks /\ UNCHANGED <<base, seen, doubled>>

MarkStarted(r) ==
  /\ At(r, "mark")
  /\ Save(IF loc[r].resume THEN [task EXCEPT !.phase = "FULL_STARTED"]
          ELSE MarkFullSyncStarted(task, loc[r].p0))
  /\ Go(r, "lock")
  /\ RunFrame /\ KeepLocks /\ KeepLocals /\ UNCHANGED dataVars

AcquireLocks(r) ==
  /\ At(r, "lock")
  /\ \/ lock = 0 /\ ~Gone(r) /\ lock' = r /\ Go(r, "manifest") /\ KeepLocals /\ UNCHANGED <<lost, faults>>
     \/ DbFails(r) /\ InnerFail(r)
     \/ lock # 0 /\ UNCHANGED faults /\ InnerFail(r)   \* GET_LOCK times out
  /\ Untouched /\ RunFrame /\ UNCHANGED dataVars

(* initFullLoadV2Manifest: a save that fails ends the run.                 *)
InitManifest(r) ==
  /\ At(r, "manifest")
  /\ IF loc[r].resume THEN Go(r, "prepare") /\ Quiet /\ KeepLocals
     ELSE /\ task' = [task EXCEPT !.manifest = [t \in Tables |-> "PENDING"]]
          /\ \/ disk' = task' /\ Go(r, "prepare") /\ KeepLocals /\ UNCHANGED faults
             \/ Fault("save") /\ UNCHANGED disk /\ InnerFail(r)
  /\ RunFrame /\ KeepLocks /\ UNCHANGED dataVars

(* syncDatabasePairV2, the table structures (and the rebuild before them): *)
(* the published tables of a resumed run are left alone, the others are    *)
(* dropped when the task says so and otherwise used as they are.           *)
Prepare(r) ==
  /\ At(r, "prepare")
  /\ \/ Abort(r) /\ UNCHANGED dataVars
     \/ /\ GoesOn(r) /\ DbFails(r)
        /\ InnerFail(r) \/ OuterFail(r)
        /\ Untouched /\ UNCHANGED dataVars
     \/ /\ GoesOn(r) /\ ~Gone(r)
        /\ LET todo == {t \in Tables : task.manifest[t] # "PUBLISHED"}
               dropped == DropBeforeCopy(todo)
           IN /\ Locals(r, [loc[r] EXCEPT !.todo = todo])
              /\ base' = [t \in Tables |-> IF t \in dropped THEN "none" ELSE base[t]]
              /\ seen' = [t \in Tables |-> IF t \in dropped THEN None ELSE seen[t]]
        /\ Go(r, "copy") /\ Quiet /\ KeepLocks /\ UNCHANGED <<cp, doubled>>
  /\ RunFrame

(* Engine.Run.  Without staging the rows go into the table itself.         *)
CopyStart(r, t) ==
  /\ At(r, "copy") /\ ~Gone(r)
  /\ t \in loc[r].todo /\ loc[r].from[t] = None
  /\ Locals(r, [loc[r] EXCEPT !.from[t] = head])
  /\ IF task.staging THEN UNCHANGED <<base, doubled>>
     ELSE /\ base' = [base EXCEPT ![t] = "part"]
          /\ doubled' = IF base[t] = "none" THEN doubled ELSE doubled \cup {t}
  /\ Quiet /\ RunFrame /\ KeepLocks /\ UNCHANGED <<pc, cp, seen>>

(* The table is complete; a staged one is renamed and PUBLISHED is saved.  *)
CopyEnd(r, t) ==
  /\ At(r, "copy")
  /\ t \in loc[r].todo /\ loc[r].from[t] # None
  /\ base' = [base EXCEPT ![t] = "whole"]
  /\ seen' = [seen EXCEPT ![t] = loc[r].from[t]]
  /\ Locals(r, [loc[r] EXCEPT !.todo = @ \ {t}])
  /\ IF task.staging
     THEN /\ task' = [task EXCEPT !.manifest[t] = "PUBLISHED"]
          /\ \/ disk' = task' /\ UNCHANGED <<pc, faults>>
             \/ Fault("save") /\ UNCHANGED disk /\ Go(r, "engineerr")
     ELSE Quiet /\ UNCHANGED pc
  /\ RunFrame /\ KeepLocks /\ UNCHANGED <<cp, doubled>>

EngineFails(r) ==
  /\ At(r, "copy") /\ loc[r].todo # {}
  /\ \/ DbFails(r)
     \/ task.status # "RUNNING" /\ UNCHANGED faults      \* the stop watcher
  /\ Go(r, "engineerr")
  /\ Untouched /\ RunFrame /\ KeepLocks /\ KeepLocals /\ UNCHANGED dataVars

(* The readers see the task not RUNNING and end without an error before    *)
(* the watcher's next tick: the engine reports success, tables unfinished. *)
EngineEndsEarly(r) ==
  /\ At(r, "copy") /\ loc[r].todo # {}
  /\ ~task.staging /\ ~Gone(r) /\ task.status # "RUNNING"
  /\ Go(r, "copied")
  /\ Quiet /\ RunFrame /\ KeepLocks /\ KeepLocals /\ UNCHANGED dataVars

EngineDone(r) ==
  /\ At(r, "copy") /\ loc[r].todo = {}
  /\ Go(r, "copied")
  /\ Quiet /\ RunFrame /\ KeepLocks /\ KeepLocals /\ UNCHANGED dataVars

EngineError(r) ==
  /\ At(r, "engineerr")
  /\ \/ Abort(r)
     \/ GoesOn(r) /\ OuterFail(r) /\ Quiet
  /\ RunFrame /\ UNCHANGED dataVars

(* The check after the engine and the collection of deferred indexes.      *)
Copied(r) ==
  /\ At(r, "copied")
  /\ \/ Abort(r)
     \/ /\ GoesOn(r) /\ DbFails(r)
        /\ InnerFail(r) \/ OuterFail(r)
        /\ Untouched
     \/ /\ GoesOn(r)
        /\ Go(r, IF task.mode = "ALL" THEN "p1" ELSE "final")
        /\ Quiet /\ KeepLocks /\ KeepLocals
  /\ RunFrame /\ UNCHANGED dataVars

(* ALL: the end of the base scan, kept when a catch-up was interrupted.    *)
CaptureP1(r) ==
  /\ At(r, "p1")
  /\ LET sub == IF loc[r].resume THEN task.sub ELSE "BASE_SCAN"
         keeps == sub = "CATCH_UP" /\ loc[r].p1 # None
     IN \/ Abort(r)
        \/ /\ GoesOn(r) /\ sub = "RESTORE_INDEX"
           /\ Go(r, "final") /\ Quiet /\ KeepLocks /\ KeepLocals
        \/ /\ GoesOn(r) /\ keeps
           /\ Go(r, "catchopen") /\ Locals(r, [loc[r] EXCEPT !.end = loc[r].p1])
           /\ Quiet /\ KeepLocks
        \/ /\ GoesOn(r) /\ sub # "RESTORE_INDEX" /\ ~keeps
           /\ \/ /\ ~Gone(r)
                 /\ Save([task EXCEPT !.p1 = head, !.sub = "CATCH_UP"])
                 /\ Go(r, "catchopen") /\ Locals(r, [loc[r] EXCEPT !.end = head]) /\ KeepLocks
              \/ DbFails(r) /\ InnerFail(r) /\ Untouched
  /\ RunFrame /\ UNCHANGED dataVars

-----------------------------------------------------------------------------
(* Catch-up to P1 (runBoundedCatchUp) and the incremental stream           *)

Later(p, q) == IF p > q THEN p ELSE q

(* IncrementalSyncService.Start: from the checkpoint, or from the source's *)
(* current position when there is none.                                    *)
StartPosition == IF cp = None THEN head ELSE cp

CatchUpOpens(r) ==
  /\ At(r, "catchopen")
  /\ \/ cp # None /\ cp >= loc[r].end /\ Go(r, "caught") /\ KeepLocals /\ UNCHANGED faults
     \/ /\ cp = None \/ cp < loc[r].end
        /\ ~Gone(r)
        /\ Go(r, "catchup") /\ Locals(r, [loc[r] EXCEPT !.pos = StartPosition]) /\ UNCHANGED faults
     \/ DbFails(r) /\ Go(r, "catcherr") /\ KeepLocals
  /\ Untouched /\ RunFrame /\ KeepLocks /\ UNCHANGED dataVars

(* One change reaches the target; then its position is saved.              *)
ApplyEvent(r, next, failed) ==
  LET p == loc[r].pos IN
  /\ p < head
  /\ seen' = [t \in Tables |-> IF seen[t] >= p THEN Later(seen[t], p + 1) ELSE seen[t]]
  /\ Locals(r, [loc[r] EXCEPT !.pos = p + 1])
  /\ \/ cp' = p + 1 /\ Go(r, next) /\ UNCHANGED faults
     \/ DbFails(r) /\ UNCHANGED cp /\ Go(r, failed)
  /\ Untouched /\ RunFrame /\ KeepLocks /\ UNCHANGED <<base, doubled>>

CatchUpApplies(r) ==
  /\ At(r, "catchup")
  /\ ApplyEvent(r, IF loc[r].pos + 1 >= loc[r].end THEN "caught" ELSE "catchup", "catcherr")

CatchUpFails(r) ==
  /\ At(r, "catchup")
  /\ DbFails(r) /\ Go(r, "catcherr")
  /\ Untouched /\ RunFrame /\ KeepLocks /\ KeepLocals /\ UNCHANGED dataVars

CaughtUp(r) ==
  /\ At(r, "caught")
  /\ IF Gone(r) \/ task.status # "RUNNING" THEN Go(r, "catcherr") /\ Quiet
     ELSE Go(r, "final") /\ Save([task EXCEPT !.sub = "RESTORE_INDEX"])
  /\ RunFrame /\ KeepLocks /\ KeepLocals /\ UNCHANGED dataVars

CatchUpError(r) ==
  /\ At(r, "catcherr")
  /\ \/ Abort(r)
     \/ GoesOn(r) /\ InnerFail(r) /\ Quiet
  /\ RunFrame /\ UNCHANGED dataVars

(* The indexes (external here), then the last check before completion.     *)
RestoreIndexes(r) ==
  /\ At(r, "final")
  /\ \/ Abort(r)
     \/ GoesOn(r) /\ DbFails(r) /\ OuterFail(r) /\ Untouched
     \/ GoesOn(r) /\ Go(r, "complete") /\ Quiet /\ KeepLocks /\ KeepLocals
  /\ RunFrame /\ UNCHANGED dataVars

MarkCompleted(r) ==
  /\ At(r, "complete")
  /\ Save(MarkFullSyncCompleted(task))
  /\ Go(r, IF loc[r].mode = "FULL" THEN "finish" ELSE "incr")
  /\ Release(r)
  /\ RunFrame /\ KeepLocals /\ UNCHANGED dataVars

CompleteTask(r) ==
  /\ At(r, "finish")
  /\ Save(Completed(task))
  /\ Go(r, "done")
  /\ RunFrame /\ KeepLocks /\ KeepLocals /\ UNCHANGED dataVars

MarkIncremental(r) ==
  /\ At(r, "incr")
  /\ Save([task EXCEPT !.phase = "INCREMENTAL_STARTED"])
  /\ Go(r, "open")
  /\ RunFrame /\ KeepLocks /\ KeepLocals /\ UNCHANGED dataVars

StreamOpens(r) ==
  /\ At(r, "open")
  /\ \/ Go(r, "stream") /\ Locals(r, [loc[r] EXCEPT !.pos = StartPosition]) /\ UNCHANGED faults
     \/ DbFails(r) /\ Go(r, "rollback") /\ KeepLocals
  /\ Untouched /\ RunFrame /\ KeepLocks /\ UNCHANGED dataVars

StreamApplies(r) == At(r, "stream") /\ ApplyEvent(r, "stream", "rollback")

(* A cancelled subscription ends cleanly, a broken one with an error.      *)
StreamEnds(r) ==
  /\ At(r, "stream")
  /\ \/ r \in dead /\ Go(r, "done") /\ UNCHANGED faults
     \/ Fault("db") /\ Go(r, "rollback")
  /\ Untouched /\ RunFrame /\ KeepLocks /\ KeepLocals /\ UNCHANGED dataVars

StreamRollback(r) ==
  /\ At(r, "rollback")
  /\ Save([task EXCEPT !.phase = IF task.completedAt THEN "FULL_COMPLETED" ELSE "INIT"])
  /\ Go(r, "check") /\ Locals(r, [loc[r] EXCEPT !.again = FALSE])
  /\ RunFrame /\ KeepLocks /\ UNCHANGED dataVars

(* MarkFullSyncFailed, then failTaskUnlessCancelled: its checks, and after *)
(* them, under another lock, the status.  An error marked before the       *)
(* return of executeFullSync is marked by executeSync once more.           *)
MarkFailed(r) ==
  /\ At(r, "markfail")
  /\ Save(MarkFullSyncFailed(task))
  /\ Go(r, "check")
  /\ RunFrame /\ KeepLocks /\ KeepLocals /\ UNCHANGED dataVars

AfterFail(r) ==
  IF loc[r].again THEN OuterFail(r) ELSE Go(r, "done") /\ KeepLocks /\ KeepLocals

FailCheck(r) ==
  /\ At(r, "check")
  /\ IF UserStop \/ r \in dead \/ (loc[r].again /\ Gone(r)) THEN AfterFail(r)
     ELSE Go(r, "setfail") /\ KeepLocks /\ KeepLocals
  /\ Quiet /\ RunFrame /\ UNCHANGED dataVars

SetFailed(r) ==
  /\ At(r, "setfail")
  /\ Save([task EXCEPT !.status = "FAILED"])
  /\ AfterFail(r)
  /\ RunFrame /\ UNCHANGED dataVars

-----------------------------------------------------------------------------
FullStep(r) ==
  \/ FullEntry(r) \/ Detect(r) \/ RestoreP0(r) \/ CaptureP0(r) \/ SaveP0(r) \/ MarkStarted(r)
  \/ AcquireLocks(r) \/ InitManifest(r) \/ Prepare(r)
  \/ \E t \in Tables : CopyStart(r, t) \/ CopyEnd(r, t)
  \/ EngineFails(r) \/ EngineEndsEarly(r) \/ EngineDone(r) \/ EngineError(r) \/ Copied(r)
  \/ CaptureP1(r) \/ CatchUpOpens(r) \/ CatchUpApplies(r) \/ CatchUpFails(r) \/ CaughtUp(r) \/ CatchUpError(r)
  \/ RestoreIndexes(r) \/ MarkCompleted(r)

StreamStep(r) ==
  \/ MarkIncremental(r) \/ StreamOpens(r) \/ StreamApplies(r) \/ StreamEnds(r) \/ StreamRollback(r)

RunStep(r) ==
  \/ Begin(r) \/ FullStep(r) \/ CompleteTask(r) \/ StreamStep(r)
  \/ MarkFailed(r) \/ FailCheck(r) \/ SetFailed(r)

UserStep ==
  \/ StartBlocked \/ \E r \in Runs : StartTask(r)
  \/ PauseTask \/ EndTask \/ SkipError
  \/ \E kind \in {"once", "repeat", "cron"} : Schedule(kind)
  \/ CancelSchedule \/ \E m \in Modes : UpdateTask(m)

ServiceStep == EndTaskCloses \/ Configure

EnvStep == CrashAndRestart \/ SourceWrites \/ CheckpointLost \/ SchemaLockLost

Next == (\E r \in Runs : RunStep(r)) \/ UserStep \/ ServiceStep \/ EnvStep

Spec == Init /\ [][Next]_vars

-----------------------------------------------------------------------------
(* Properties *)

Statuses == {"PENDING", "SCHEDULED", "RUNNING", "PAUSED", "COMPLETED", "FAILED", "STOPPED"}
Phases == {"INIT", "FULL_STARTED", "FULL_FAILED", "FULL_COMPLETED", "INCREMENTAL_STARTED"}
TaskRecords ==
  [status : Statuses, phase : Phases, sub : {"", "BASE_SCAN", "CATCH_UP", "RESTORE_INDEX", "STREAMING"},
   p0 : Pos \cup {None}, p1 : Pos \cup {None}, completedAt : BOOLEAN,
   manifest : [Tables -> {"none", "PENDING", "PUBLISHED"}], mode : Modes,
   cron : BOOLEAN, left : 0..2,
   rebuild : Rebuilds, staging : Stagings, from : Statuses \cup {"none"}]

(* The variables have their types, and the schema locks belong to a run    *)
(* between AcquireLocks and the return of executeFullSync.                 *)
TypeOK ==
  /\ task \in TaskRecords /\ disk \in TaskRecords
  /\ runtime \in 0..MaxStarts /\ closing \subseteq Runs /\ setup \in {"none", "repeat", "cron"}
  /\ starts \in 0..MaxStarts /\ faults \in 0..MaxFaults
  /\ dead \subseteq Runs /\ lost \subseteq Runs /\ lock \in 0..MaxStarts
  /\ lock # 0 => Live(lock) /\ pc[lock] \notin {"begin", "full", "detect", "lock", "incr", "open", "stream"}
  /\ cp \in Pos \cup {None} /\ head \in Pos
  /\ base \in [Tables -> {"none", "part", "whole"}]
  /\ seen \in [Tables -> Pos \cup {None}] /\ doubled \subseteq Tables

(* A task that has finished its full load and goes on incrementally has a  *)
(* checkpoint, and no table lacks a change from before it: nothing was     *)
(* lost between the base scan, the catch-up and the stream, whatever       *)
(* pauses, restarts, crashes, lost checkpoints or failed saves came before *)
(* (executeFullSync's P0/P1 protocol and the resume of a V2 load).         *)
NoGap ==
  task.mode # "FULL" /\ task.phase = "INCREMENTAL_STARTED"
    => cp # None /\ \A t \in Tables : base[t] = "whole" /\ seen[t] >= cp

(* A table recorded as PUBLISHED, in memory or in the task file, holds a   *)
(* complete copy: what a resumed run skips is there (syncDatabasePairV2).  *)
PublishedIsThere ==
  \A k \in {task, disk} : \A t \in Tables :
    Unfinished(k) /\ k.manifest[t] = "PUBLISHED" => base[t] = "whole"

(* A task whose full load counts as completed has every table copied.      *)
CompletedMeansCopied ==
  task.phase = "FULL_COMPLETED" \/ task.status = "COMPLETED" => \A t \in Tables : base[t] = "whole"

(* No table is copied with INSERT over the rows an earlier run left there: *)
(* the service says such a restart is refused, and drops the tables of a   *)
(* task that asked for it.                                                 *)
NoDoubleCopy == doubled = {}
RebuildNeverDoubles == task.rebuild => NoDoubleCopy

(* A task the user ended never leaves STOPPED ("STOPPED is final").        *)
StoppedIsFinal == [][task.status = "STOPPED" => task'.status = "STOPPED"]_task

(* A paused task is not completed by the run the pause interrupted.        *)
PauseHolds == [][task.status = "PAUSED" => task'.status # "COMPLETED"]_task

(* A run does not mark the full load of a paused task as failed.           *)
PauseKeepsPhase ==
  [][task.status = "PAUSED" /\ task'.status = "PAUSED" /\ task.phase = "FULL_STARTED"
       => task'.phase # "FULL_FAILED"]_task
=============================================================================
