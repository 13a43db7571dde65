---------------------------- MODULE TaskArchive ----------------------------
(***************************************************************************)
(* The archive of one task: the registry in memory (tasks, under s.mu),    *)
(* the copy the task storage keeps, and everyone who writes that copy:     *)
(* the operations on the task, which save while they hold s.mu, the        *)
(* progress reports of the workers, which save a snapshot after releasing  *)
(* it, the row-count comparison that runs in the background, DeleteTask    *)
(* and Close, which give s.mu up in the middle to wait for the comparison, *)
(* the load at the next start, and the switch to another storage.          *)
(*                                                                         *)
(* A section that holds s.mu is one action up to its Save; the Save itself *)
(* takes time and can fail or be cut off by a crash.  io.by = Mu says that *)
(* s.mu is held meanwhile.  Of LastUpdateTime only the comparison with an  *)
(* older one is kept: a snapshot is late once the task has changed, except *)
(* by SkipError, which does not advance it.                                *)
(* What a run does to the databases is in TaskLifecycle; here a run only   *)
(* changes the status and reports progress.                                *)
(***************************************************************************)
EXTENDS Integers, Sequences, FiniteSets

CONSTANTS
  Kinds,      \* a subset of {"file", "mysql"}: the storages tried
  Keyed,      \* security.encrypt_key is set
  Workers,    \* goroutines that report progress
  NTables,    \* tables the comparison counts
  MaxCalls,   \* calls of users, runs and workers (a bound)
  MaxFaults,  \* saves, deletes and queries that fail
  MaxStarts   \* starts of the process

ASSUME ArchiveAssumption ==
  /\ Kinds \in SUBSET {"file", "mysql"} /\ Kinds # {}
  /\ Keyed \in BOOLEAN
  /\ {NTables, MaxCalls, MaxFaults} \subseteq Nat
  /\ MaxStarts \in Nat \ {0}
  /\ {"mu", "nobody"} \cap Workers = {}

Status == {"CREATED", "RUNNING", "COMPLETED", "PAUSED", "FAILED", "STOPPED"}
Final == {"MATCHED", "MISMATCHED", "PARTIAL", "FAILED"}
Task == [st : Status, full : BOOLEAN, rc : Final \cup {"NONE", "CHECKING"}]

Nothing(s) == [st |-> s, full |-> FALSE, rc |-> "NONE"]
Gone == Nothing("GONE")    \* no such task, no such file
Torn == Nothing("TORN")    \* a file cut off while it was written
Mu == "mu"                 \* the writer that holds s.mu
Idle == [by |-> "nobody"]  \* nobody is in Save

VARIABLES
  up, starts, calls, faults,
  task, run,        \* s.tasks; whether goroutines of a run are alive
  kind, disk, io,   \* the storage, its copy, the Save in progress
  left,             \* the copy in the storage of each kind when it was left
  shots,            \* incrementTaskProgress of each worker
  del, waits,       \* DeleteTask; whether Close has a wait group to wait for
  reg, cmp,         \* comparisonCancels; the comparison goroutine
  missed, overtaken \* why the copy may differ from the task

procVars == <<up, starts, calls, faults>>
diskVars == <<kind, disk, io, left>>
callVars == <<del, waits>>
cmpVars == <<reg, cmp>>
causes == <<missed, overtaken>>
vars == <<procVars, task, run, diskVars, shots, callVars, cmpVars, causes>>

NoShot == [pc |-> "idle"]
NoCmp == [pc |-> "none", cancelled |-> FALSE, done |-> <<>>, why |-> "ok"]

Init ==
  /\ up = "up" /\ starts = 1 /\ calls = 0 /\ faults = 0
  /\ task = Gone /\ run = FALSE
  /\ kind \in Kinds /\ disk = Gone /\ io = Idle /\ left = [k \in Kinds |-> Gone]
  /\ shots = [w \in Workers |-> NoShot]
  /\ del = "no" /\ waits = FALSE
  /\ reg = FALSE /\ cmp = NoCmp
  /\ missed = FALSE /\ overtaken = FALSE

-----------------------------------------------------------------------------
(* s.mu, and saving while it is held.                                      *)

(* Mutant: DeleteTask and Close keep s.mu while they wait. *)
KeptLocked == (io = Idle \/ io.by # Mu) /\ del # "wait" /\ up # "closing"

Unlocked == io = Idle \/ io.by # Mu

(* A section needs s.mu and, for its Save, the mutex of the storage. *)
Enters == up # "down" /\ io = Idle /\ Unlocked

Exists == task # Gone

Fault == faults < MaxFaults /\ faults' = faults + 1

(* os.WriteFile truncates the file first; the UPDATE of MySQL is atomic. *)
Opened == IF kind = "file" THEN Torn ELSE disk

(* The task changes: snapshots that are not written yet are late, those    *)
(* that are only taken by their LastUpdateTime.                            *)
Late(pcs) == [w \in Workers |-> IF shots[w].pc \in pcs
                               THEN [shots[w] EXCEPT !.late = TRUE] ELSE shots[w]]
Overtake == shots' = Late({"taken", "checked"})

SaveFails ==
  /\ missed' = TRUE
  /\ \/ kind = "mysql" /\ up = "closed" /\ UNCHANGED faults
     \/ Fault
  /\ UNCHANGED <<diskVars, overtaken>>

SaveBegins(t) ==
  /\ ~(kind = "mysql" /\ up = "closed")
  /\ io' = [by |-> Mu, data |-> t] /\ disk' = Opened
  /\ UNCHANGED <<faults, kind, left, causes>>

(* The task becomes t and is saved before s.mu is released; every caller   *)
(* only logs an error of Save.                                             *)
Becomes(t) == task' = t /\ (SaveBegins(t) \/ SaveFails)

Save(t) == Becomes(t) /\ Overtake

Changed(s, f, r) == [st |-> s, full |-> f, rc |-> r]

SaveEnds ==
  /\ io # Idle /\ io.by = Mu
  /\ disk' = io.data /\ io' = Idle
  /\ missed' = FALSE /\ overtaken' = FALSE
  /\ UNCHANGED <<procVars, task, run, kind, left, shots, callVars, cmpVars>>

-----------------------------------------------------------------------------
(* Operations of users and of the run.                                     *)

Call == calls < MaxCalls /\ calls' = calls + 1

Api == up = "up" /\ Enters /\ Call /\ UNCHANGED <<up, starts, callVars>>

SetStatus(s) == Save(Changed(s, task.full, task.rc))

CreateTask ==
  /\ Api /\ ~Exists /\ disk = Gone /\ calls = 0
  /\ Save(Nothing("CREATED"))
  /\ UNCHANGED <<run, cmpVars>>

StartTask ==
  /\ Api /\ Exists /\ task.st \notin {"RUNNING", "STOPPED"}
  /\ Save(Changed("RUNNING", task.full /\ task.st # "COMPLETED", task.rc))
  /\ run' = TRUE
  /\ UNCHANGED cmpVars

PauseTask ==
  /\ Api /\ Exists
  /\ SetStatus("PAUSED")
  /\ UNCHANGED <<run, cmpVars>>

(* LastUpdateTime is not advanced: a snapshot taken before is not late.    *)
SkipError ==
  /\ Api /\ Exists
  /\ Becomes(Changed("PAUSED", task.full, task.rc)) /\ shots' = Late({"checked"})
  /\ UNCHANGED <<run, cmpVars>>

EndTask ==
  /\ Api /\ Exists /\ task.st = "RUNNING" /\ task.full
  /\ SetStatus("STOPPED")
  /\ UNCHANGED <<run, cmpVars>>

(* The full load of an ALL task has completed and it goes on. *)
FullSyncCompleted ==
  /\ Enters /\ run /\ Exists /\ task.st = "RUNNING" /\ ~task.full
  /\ Save(Changed("RUNNING", TRUE, task.rc))
  /\ UNCHANGED <<up, starts, calls, run, callVars, cmpVars>>

completeTask ==
  /\ Enters /\ run /\ Exists /\ task.st = "RUNNING"
  /\ Save(Changed("COMPLETED", TRUE, task.rc)) /\ run' = FALSE
  /\ UNCHANGED <<up, starts, calls, callVars, cmpVars>>

updateTaskStatus ==
  /\ Enters /\ run /\ Exists /\ task.st = "RUNNING"
  /\ SetStatus("FAILED") /\ run' = FALSE
  /\ UNCHANGED <<up, starts, calls, callVars, cmpVars>>

(* A run that was paused, ended or closed leaves without a word. *)
RunLeaves ==
  /\ up # "down" /\ run /\ (~Exists \/ task.st # "RUNNING")
  /\ run' = FALSE
  /\ UNCHANGED <<procVars, task, diskVars, shots, callVars, cmpVars, causes>>

(* A Save under way is astray: it ends in the storage that was replaced,   *)
(* which is the present one again or elsewhere.                            *)
Astray(same) ==
  [w \in Workers |->
     IF (io # Idle /\ io.by = w) \/ shots[w].pc = "astray"
     THEN [shots[w] EXCEPT !.pc = IF same THEN "astray" ELSE "elsewhere"] ELSE shots[w]]

(* The storage is put in the place of the old one: the same directory or   *)
(* database once more, the one of the other kind that was left before, or  *)
(* a new and empty one.  The tasks are not copied, and a snapshot whose    *)
(* Save is under way is still written where the old storage was.           *)
ReinitStorage ==
  /\ up = "up" /\ Unlocked /\ Call
  /\ \E k \in Kinds, known \in BOOLEAN :
       LET same == known /\ k = kind
       IN /\ kind' = k /\ left' = [left EXCEPT ![kind] = disk]
          /\ disk' = IF same THEN disk ELSE IF known THEN left[k] ELSE Gone
          /\ shots' = Astray(same)
          /\ missed' = (missed \/ ~same \/ io # Idle)
  /\ io' = Idle
  /\ UNCHANGED <<up, starts, faults, task, run, callVars, cmpVars, overtaken>>

CallStep == \/ CreateTask \/ StartTask \/ PauseTask \/ SkipError \/ EndTask
            \/ FullSyncCompleted \/ completeTask \/ updateTaskStatus \/ RunLeaves \/ ReinitStorage

-----------------------------------------------------------------------------
(* incrementTaskProgress: the snapshot is taken under s.mu (not more often *)
(* than once a second, or not at all), looked at again under s.mu's read   *)
(* lock and written when neither lock is held.                             *)

shotFrame == UNCHANGED <<run, callVars, cmpVars>>

incrementTaskProgress(w) ==
  /\ up # "down" /\ Unlocked /\ run /\ Exists /\ shots[w].pc = "idle" /\ Call
  /\ \E persist \in BOOLEAN :
       shots' = [Late({"taken"}) EXCEPT ![w] =
                   IF persist THEN [pc |-> "taken", data |-> task, late |-> FALSE] ELSE @]
  /\ UNCHANGED <<up, starts, faults, task, diskVars, causes>> /\ shotFrame

(* Mutant: only the existence of the task is looked at. *)
AlwaysCurrent(s) == Exists

StillCurrent(s) == Exists /\ task.st = s.data.st /\ ~s.late

shouldPersistAsyncProgressSnapshot(w) ==
  /\ up # "down" /\ Unlocked /\ shots[w].pc = "taken"
  /\ shots' = [shots EXCEPT ![w] =
                 IF StillCurrent(shots[w])
                 THEN [shots[w] EXCEPT !.pc = "checked", !.late = FALSE] ELSE NoShot]
  /\ UNCHANGED <<procVars, task, diskVars, causes>> /\ shotFrame

SnapshotSaved(w) ==
  /\ shots[w].pc = "checked"
  /\ \/ /\ io = Idle /\ ~(kind = "mysql" /\ up = "closed")
        /\ io' = [by |-> w, data |-> shots[w].data] /\ disk' = Opened
        /\ overtaken' = (overtaken \/ shots[w].late)
        /\ UNCHANGED <<shots, faults>>
     \/ /\ io # Idle /\ io.by = w
        /\ disk' = io.data /\ io' = Idle
        /\ shots' = [shots EXCEPT ![w] = NoShot]
        /\ UNCHANGED <<faults, overtaken>>
     \/ /\ io = Idle
        /\ \/ kind = "mysql" /\ up = "closed" /\ UNCHANGED faults
           \/ Fault
        /\ shots' = [shots EXCEPT ![w] = NoShot]
        /\ UNCHANGED <<disk, io, overtaken>>
  /\ UNCHANGED <<up, starts, calls, task, kind, left, missed>> /\ shotFrame

(* The old storage has ended: before, after or amid what the present one   *)
(* has written to the same place.                                          *)
AstrayEnds(w) ==
  /\ shots[w].pc \in {"astray", "elsewhere"} /\ io = Idle
  /\ shots' = [shots EXCEPT ![w] = NoShot]
  /\ IF shots[w].pc = "elsewhere" THEN UNCHANGED <<disk, missed>>
     ELSE /\ disk' \in {disk, shots[w].data} \cup (IF kind = "file" THEN {Torn} ELSE {})
          /\ missed' = TRUE
  /\ UNCHANGED <<procVars, task, kind, io, left, overtaken>> /\ shotFrame

ProgressStep ==
  \E w \in Workers : \/ incrementTaskProgress(w) \/ shouldPersistAsyncProgressSnapshot(w)
                     \/ SnapshotSaved(w) \/ AstrayEnds(w)

-----------------------------------------------------------------------------
(* The row-count comparison.                                               *)

(* Failed counts first, then differing ones; nothing counted is a failure. *)
Verdict(done) ==
  LET counted == {i \in DOMAIN done : done[i] # "error"}
      differ == {i \in DOMAIN done : done[i] = "differs"}
  IN CASE counted = {} -> "FAILED"
       [] counted # {} /\ counted # DOMAIN done -> "PARTIAL"
       [] counted = DOMAIN done /\ counted # {} /\ differ # {} -> "MISMATCHED"
       [] OTHER -> "MATCHED"

cmpFrame == UNCHANGED <<up, starts, calls, run, reg, callVars>>

Goto(l) == cmp' = [cmp EXCEPT !.pc = l]

StartRowCountComparison ==
  /\ up = "up" /\ Unlocked /\ Call
  /\ Exists /\ task.st \in {"COMPLETED", "STOPPED"} /\ task.full
  /\ task.rc # "CHECKING" /\ ~reg
  /\ reg' = TRUE /\ cmp' = [NoCmp EXCEPT !.pc = "registered"]
  /\ UNCHANGED <<up, starts, faults, task, run, diskVars, shots, callVars, causes>>

(* wg.Add comes after both locks are released. *)
GoroutineStarts ==
  /\ cmp.pc = "registered" /\ Goto("connect")
  /\ UNCHANGED <<faults, task, diskVars, shots, causes>> /\ cmpFrame

(* The configuration is shared with the task, whose passwords Save replaces *)
(* by encrypted ones while it writes: connecting with them is refused.     *)
Sealed == Keyed /\ ~Unlocked

resolveComparisonConnections ==
  /\ cmp.pc = "connect"
  /\ \/ Fault /\ cmp' = [cmp EXCEPT !.pc = "giveUp", !.why = "fault"]
     \/ Sealed /\ cmp' = [cmp EXCEPT !.pc = "giveUp", !.why = "sealed"] /\ UNCHANGED faults
     \/ ~Sealed /\ Goto("tables") /\ UNCHANGED faults
  /\ UNCHANGED <<task, diskVars, shots, causes>> /\ cmpFrame

(* A list of tables in the configuration needs no query and sees no cancel. *)
resolveComparisonTables ==
  /\ cmp.pc = "tables"
  /\ \/ Goto("checking") /\ UNCHANGED faults
     \/ Fault /\ cmp' = [cmp EXCEPT !.pc = "giveUp", !.why = "fault"]
     \/ cmp.cancelled /\ cmp' = [cmp EXCEPT !.pc = "giveUp", !.why = "cancelled"] /\ UNCHANGED faults
  /\ UNCHANGED <<task, diskVars, shots, causes>> /\ cmpFrame

(* Every result is written under s.mu, and only if the task still exists.  *)
Books(r) ==
  IF Exists THEN Save(Changed(task.st, task.full, r))
            ELSE UNCHANGED <<faults, task, diskVars, shots, causes>>

CheckingSaved ==
  /\ cmp.pc = "checking" /\ Enters
  /\ Goto(IF Exists THEN "next" ELSE "leave")
  /\ Books("CHECKING") /\ cmpFrame

(* ctx is looked at before each table and after the last. *)
NextTable ==
  /\ Unlocked /\ cmp.pc = "next"
  /\ Goto(IF cmp.cancelled /\ NTables > 0 THEN "leave" ELSE "count")
  /\ UNCHANGED <<faults, task, diskVars, shots, causes>> /\ cmpFrame

(* The counts of both ends run in parallel; either may fail, or end with   *)
(* an error because ctx is cancelled meanwhile.                            *)
countRowsExact ==
  /\ cmp.pc = "count" /\ Len(cmp.done) < NTables
  /\ \E outcome \in {"same", "differs", "error"} :
       /\ cmp' = [cmp EXCEPT !.pc = "counted", !.done = Append(@, outcome)]
       /\ IF outcome = "error" /\ ~cmp.cancelled THEN Fault ELSE UNCHANGED faults
  /\ UNCHANGED <<task, diskVars, shots, causes>> /\ cmpFrame

persistRowCountComparisonProgress ==
  /\ cmp.pc = "counted" /\ Enters
  /\ Goto("next") /\ Books("CHECKING") /\ cmpFrame

finalizeRowCountComparison ==
  /\ Enters
  /\ \/ cmp.pc = "giveUp" /\ Books("FAILED")
     \/ cmp.pc = "count" /\ Len(cmp.done) = NTables /\ Books(Verdict(cmp.done))
  /\ Goto("leave") /\ cmpFrame

(* The deferred functions; the section before must be over. *)
GoroutineLeaves ==
  /\ cmp.pc = "leave" /\ Unlocked
  /\ reg' = FALSE /\ cmp' = NoCmp
  /\ UNCHANGED <<procVars, task, run, diskVars, shots, callVars, causes>>

ComparisonStep ==
  /\ up # "down"
  /\ \/ GoroutineStarts \/ resolveComparisonConnections \/ resolveComparisonTables
     \/ CheckingSaved \/ NextTable \/ countRowsExact
     \/ persistRowCountComparisonProgress \/ finalizeRowCountComparison \/ GoroutineLeaves

-----------------------------------------------------------------------------
(* DeleteTask and Close, which wait for the comparison without s.mu.       *)

Cancelled == IF reg THEN [cmp EXCEPT !.cancelled = TRUE] ELSE cmp

(* wg.Wait returns: the goroutine has left, or has not been counted yet.   *)
WaitReturns == cmp.pc \in {"none", "registered"}

DeleteTask ==
  /\ up = "up" /\ Unlocked /\ Call
  /\ Exists /\ task.st # "RUNNING" /\ del = "no"
  /\ task' = Gone /\ del' = "cancel" /\ Overtake
  /\ UNCHANGED <<up, starts, faults, run, diskVars, waits, cmpVars, causes>>

cancelRowComparisonAndWait ==
  /\ \/ del = "cancel" /\ cmp' = Cancelled /\ del' = (IF reg THEN "wait" ELSE "erase")
     \/ del = "wait" /\ WaitReturns /\ del' = "erase" /\ UNCHANGED cmp
  /\ UNCHANGED <<procVars, task, run, diskVars, shots, waits, reg, causes>>

(* os.Remove, DELETE: an error is only printed. *)
EraseFile ==
  /\ del = "erase" /\ Enters
  /\ del' = "no"
  /\ \/ disk' = Gone /\ missed' = FALSE /\ overtaken' = FALSE /\ UNCHANGED faults
     \/ Fault /\ missed' = TRUE /\ UNCHANGED <<disk, overtaken>>
  /\ UNCHANGED <<up, starts, calls, task, run, kind, io, left, shots, waits, cmpVars>>

Paused == IF Exists /\ task.st = "RUNNING"
          THEN Changed("PAUSED", task.full, task.rc) ELSE task

Close ==
  /\ up = "up" /\ Enters
  /\ up' = "closing" /\ waits' = reg /\ cmp' = Cancelled
  /\ IF Exists THEN Save(Paused) ELSE UNCHANGED <<faults, task, diskVars, shots, causes>>
  /\ UNCHANGED <<starts, calls, run, del, reg>>

(* s.mu is given up after the saves and taken again after the wait. *)
CloseWaits ==
  /\ up = "closing" /\ Unlocked /\ (waits => WaitReturns)
  /\ up' = "closed"
  /\ UNCHANGED <<starts, calls, faults, task, run, diskVars, shots, callVars, cmpVars, causes>>

(* The process is gone: main returns after Close, or it crashes. *)
ProcessEnds ==
  /\ up # "down"
  /\ up = "closed" \/ starts < MaxStarts
  /\ up' = "down" /\ task' = Gone /\ run' = FALSE /\ io' = Idle
  /\ shots' = [w \in Workers |-> NoShot]
  /\ del' = "no" /\ waits' = FALSE /\ reg' = FALSE /\ cmp' = NoCmp
  /\ missed' = FALSE /\ overtaken' = FALSE
  /\ UNCHANGED <<starts, calls, faults, kind, disk, left>>

(* Mutant: it is taken for a task. *)
LoadsAnything == disk

(* A file that cannot be parsed is skipped. *)
Loaded == IF disk \in {Gone, Torn} THEN Gone
          ELSE IF disk.rc = "CHECKING" THEN [disk EXCEPT !.rc = "FAILED"] ELSE disk

(* Start of the process: nothing else runs yet. *)
loadTasks ==
  /\ up = "down" /\ starts < MaxStarts
  /\ up' = "up" /\ starts' = starts + 1
  /\ IF Loaded # Gone /\ Loaded # disk
       THEN Save(Loaded)
       ELSE task' = Loaded /\ UNCHANGED <<faults, diskVars, shots, causes>>
  /\ UNCHANGED <<calls, run, callVars, cmpVars>>

EndStep == \/ cancelRowComparisonAndWait \/ EraseFile \/ Close \/ CloseWaits
           \/ ProcessEnds \/ loadTasks

-----------------------------------------------------------------------------
Next == \/ SaveEnds \/ CallStep \/ ProgressStep
        \/ StartRowCountComparison \/ ComparisonStep \/ DeleteTask \/ EndStep

Spec == Init /\ [][Next]_vars

(* The goroutines run: a Save returns, MySQL answers a count, a snapshot   *)
(* and the steps of a DeleteTask or Close that has begun are carried out.  *)
FairSpec ==
  /\ Spec
  /\ WF_vars(SaveEnds)
  /\ WF_vars(RunLeaves)
  /\ \A w \in Workers : /\ WF_vars(shouldPersistAsyncProgressSnapshot(w))
                       /\ WF_vars(SnapshotSaved(w)) /\ WF_vars(AstrayEnds(w))
  /\ WF_vars(ComparisonStep)
  /\ WF_vars(cancelRowComparisonAndWait) /\ WF_vars(EraseFile)
  /\ WF_vars(CloseWaits)

-----------------------------------------------------------------------------
(* Properties.                                                             *)

(* Every variable has its type. *)
TypeOK ==
  /\ up \in {"up", "closing", "closed", "down"} /\ starts \in 1..MaxStarts
  /\ calls \in 0..MaxCalls /\ faults \in 0..MaxFaults
  /\ task \in Task \cup {Gone} /\ run \in BOOLEAN
  /\ kind \in Kinds /\ disk \in Task \cup {Gone, Torn}
  /\ left \in [Kinds -> Task \cup {Gone, Torn}]
  /\ io # Idle => io.by \in Workers \cup {Mu} /\ io.data \in Task
  /\ \A w \in Workers : shots[w] = NoShot \/ shots[w].data \in Task
  /\ del \in {"no", "cancel", "wait", "erase"} /\ waits \in BOOLEAN
  /\ reg \in BOOLEAN /\ cmp.cancelled \in BOOLEAN
  /\ cmp.pc \in {"none", "registered", "connect", "tables", "checking", "next",
                 "count", "counted", "giveUp", "leave"}
  /\ Len(cmp.done) <= NTables
  /\ missed \in BOOLEAN /\ overtaken \in BOOLEAN

Quiet == up = "up" /\ io = Idle /\ del = "no"

SameTask(d, t) == IF t = Gone THEN d \in {Gone, Torn}
                  ELSE d \in Task /\ d.st = t.st /\ d.rc = t.rc

(* Whenever nobody writes, what a restart would load is the task as it is: *)
(* same status, same comparison, nothing where it was deleted.  The two    *)
(* exceptions last until the next good Save: a Save or Delete that failed  *)
(* or went to the old storage, and a snapshot that was overtaken between   *)
(* shouldPersistAsyncProgressSnapshot and its Save.                        *)
ArchiveIsCurrent == Quiet => SameTask(disk, task) \/ missed \/ overtaken

(* A failed comparison is not left CHECKING, which would refuse every      *)
(* later one; DeleteTask and Close, which wait for it, return.             *)
NobodyHangs ==
  /\ (Exists /\ task.rc = "CHECKING") ~> (~Exists \/ task.rc # "CHECKING" \/ up # "up")
  /\ (del # "no") ~> (del = "no")
  /\ (up = "closing") ~> (up # "closing")

(* The comment above shouldPersistAsyncProgressSnapshot: a snapshot that   *)
(* lags behind does not replace a newer archive.                           *)
NeverOvertaken == Quiet => SameTask(disk, task) \/ missed

(* A comparison gives up only when a database fails or it is cancelled.    *)
GivesUpForAReason == cmp.pc = "giveUp" => cmp.why \in {"fault", "cancelled"}

=============================================================================
