------------------------- MODULE TaskArchiveProofs -------------------------
(***************************************************************************)
(* Theorems of TaskArchive, for any number of workers, tables, calls,      *)
(* faults and starts.                                                      *)
(*                                                                         *)
(* ArchiveIsCurrent speaks of the moments when nobody writes and is not    *)
(* inductive.  DataInv adds                                                *)
(*   - what is being written (Writing): under s.mu the task as it is; a    *)
(*     worker's snapshot is the task as it is, or overtaken, or the task   *)
(*     is just being deleted;                                              *)
(*   - a snapshot that is not late is the task as it is, but for the       *)
(*     status as long as it has not been checked (Fresh);                  *)
(*   - while a DeleteTask has not erased the copy, there is no task, and   *)
(*     none can be created (Deleting);                                     *)
(*   - between two starts nobody writes (Down).                            *)
(***************************************************************************)
EXTENDS TaskArchive, TLAPS

Taken == [pc : {"taken", "checked", "astray", "elsewhere"}, data : Task, late : BOOLEAN]
Shot == {NoShot} \cup Taken
Writer == {Idle} \cup [by : Workers \cup {Mu}, data : Task]
Comparison == [pc : {"none", "registered", "connect", "tables", "checking", "next",
                     "count", "counted", "giveUp", "leave"},
               cancelled : BOOLEAN,
               done : {q \in Seq({"same", "differs", "error"}) : Len(q) <= NTables},
               why : {"ok", "fault", "sealed", "cancelled"}]

StateType ==
  /\ task \in Task \cup {Gone} /\ disk \in Task \cup {Gone, Torn}
  /\ kind \in Kinds /\ io \in Writer /\ left \in [Kinds -> Task \cup {Gone, Torn}]
  /\ shots \in [Workers -> Shot]
  /\ missed \in BOOLEAN /\ overtaken \in BOOLEAN
  /\ faults \in 0..MaxFaults
RestType ==
  /\ up \in {"up", "closing", "closed", "down"} /\ starts \in 1..MaxStarts
  /\ calls \in 0..MaxCalls /\ run \in BOOLEAN
  /\ del \in {"no", "cancel", "wait", "erase"} /\ waits \in BOOLEAN
  /\ reg \in BOOLEAN /\ cmp \in Comparison
TypeInv == StateType /\ RestType

Writing ==
  /\ io # Idle /\ io.by = Mu => io.data = task
  /\ io # Idle /\ io.by # Mu =>
       /\ shots[io.by].pc = "checked" /\ shots[io.by].data = io.data
       /\ io.data = task \/ overtaken \/ del # "no"
Fresh ==
  \A w \in Workers : ~shots[w].late =>
    /\ shots[w].pc = "checked" => shots[w].data = task
    /\ shots[w].pc = "taken" => shots[w].data.full = task.full /\ shots[w].data.rc = task.rc
Deleting == del # "no" => task = Gone /\ calls > 0
Down == up = "down" => io = Idle /\ del = "no" /\ \A w \in Workers : shots[w] = NoShot
Copied ==
  up # "down" /\ io = Idle /\ del = "no" => SameTask(disk, task) \/ missed \/ overtaken

DataInv == Writing /\ Fresh /\ Deleting /\ Down /\ Copied

IInv == TypeInv /\ DataInv

-----------------------------------------------------------------------------
(* Records *)

(* A record that stands for "no task" or "no whole file" is not a task.    *)
LEMMA NotTasks == Gone \notin Task /\ Torn \notin Task /\ Gone # Torn
BY DEF Gone, Torn, Nothing, Task, Status

(* Changed builds a task out of a status, a flag and a comparison status.  *)
LEMMA ChangedTyped ==
  ASSUME NEW s \in Status, NEW f \in BOOLEAN, NEW r \in Final \cup {"NONE", "CHECKING"}
  PROVE  Changed(s, f, r) \in Task
BY DEF Changed, Task

(* The fields of the task that exists.                                     *)
LEMMA FieldsTyped ==
  ASSUME StateType, Exists
  PROVE  /\ task \in Task /\ task.st \in Status /\ task.full \in BOOLEAN
         /\ task.rc \in Final \cup {"NONE", "CHECKING"}
BY DEF StateType, Exists, Task

(* A writer's entry is never the idle one.                                 *)
LEMMA NotIdle ==
  ASSUME NEW b \in Workers \cup {Mu}, NEW t
  PROVE  [by |-> b, data |-> t] # Idle
BY ArchiveAssumption DEF ArchiveAssumption, Idle, Mu

(* Who writes is a worker or holds s.mu, and what he writes is a task.     *)
LEMMA WriterTyped ==
  ASSUME StateType, io # Idle
  PROVE  /\ io.by \in Workers \cup {Mu} /\ io.data \in Task
         /\ io.by # Mu => io.by \in Workers
BY DEF StateType, Writer

(* A snapshot has its fields.                                              *)
LEMMA ShotTyped ==
  ASSUME StateType, NEW w \in Workers
  PROVE  /\ shots[w] \in Shot
         /\ shots[w].pc # "idle" <=> shots[w] # NoShot
         /\ shots[w].pc # "idle" =>
              /\ shots[w] \in Taken
              /\ shots[w].data \in Task /\ shots[w].late \in BOOLEAN
<1>1. shots[w] \in Shot
  BY DEF StateType
<1>2. CASE shots[w] = NoShot
  BY <1>1, <1>2 DEF NoShot
<1>3. CASE shots[w] \in Taken
  BY <1>1, <1>3 DEF NoShot, Taken
<1> QED
  BY <1>1, <1>2, <1>3 DEF Shot

(* Late changes nothing but the field late, and only of those it names.    *)
LEMMA LateTyped ==
  ASSUME StateType, NEW pcs, NEW w \in Workers, "idle" \notin pcs
  PROVE  /\ Late(pcs) \in [Workers -> Shot]
         /\ Late(pcs)[w].pc = shots[w].pc
         /\ shots[w].pc # "idle" => Late(pcs)[w].data = shots[w].data
         /\ shots[w].pc # "idle" /\ shots[w].pc \in pcs => Late(pcs)[w].late
         /\ shots[w].pc # "idle" /\ ~Late(pcs)[w].late => ~shots[w].late
<1>1. ASSUME NEW v \in Workers
      PROVE  /\ Late(pcs)[v] \in Shot /\ Late(pcs)[v].pc = shots[v].pc
             /\ shots[v].pc # "idle" => Late(pcs)[v].data = shots[v].data
             /\ shots[v].pc # "idle" /\ shots[v].pc \in pcs => Late(pcs)[v].late
             /\ shots[v].pc # "idle" /\ ~Late(pcs)[v].late => ~shots[v].late
  <2>1. Late(pcs)[v] = IF shots[v].pc \in pcs
                       THEN [shots[v] EXCEPT !.late = TRUE] ELSE shots[v]
    BY DEF Late
  <2>2. CASE shots[v].pc \in pcs
    <3>1. shots[v] \in Taken
      BY <2>2, ShotTyped
    <3> DEFINE x == [shots[v] EXCEPT !.late = TRUE]
    <3>2. /\ x \in Taken
          /\ x.pc = shots[v].pc /\ x.data = shots[v].data /\ x.late = TRUE
      BY <3>1 DEF Taken
    <3>3. Late(pcs)[v] = x
      BY <2>1, <2>2
    <3> HIDE DEF x
    <3> QED
      BY <2>2, <3>2, <3>3 DEF Shot
  <2>3. CASE shots[v].pc \notin pcs
    BY <2>1, <2>3, ShotTyped
  <2> QED
    BY <2>2, <2>3
<1>2. Late(pcs) = [v \in Workers |-> Late(pcs)[v]]
  BY DEF Late
<1>3. Late(pcs) \in [Workers -> Shot]
  BY <1>1, <1>2
<1> QED
  BY <1>1, <1>3

(* After Overtake every snapshot that is not written yet is late.          *)
LEMMA OvertakeLate ==
  ASSUME StateType, Overtake
  PROVE  /\ shots' \in [Workers -> Shot]
         /\ \A w \in Workers : /\ shots'[w].pc = shots[w].pc
                               /\ shots[w].pc \in {"taken", "checked"} => shots'[w].late
                               /\ shots[w].pc # "idle" => shots'[w].data = shots[w].data
<1> DEFINE pcs == {"taken", "checked"}
<1>1. shots' = Late(pcs) /\ "idle" \notin pcs
  BY DEF Overtake
<1>2. ASSUME NEW w \in Workers
      PROVE  /\ shots' \in [Workers -> Shot] /\ shots'[w].pc = shots[w].pc
             /\ shots[w].pc \in {"taken", "checked"} => shots'[w].late
             /\ shots[w].pc # "idle" => shots'[w].data = shots[w].data
  <2>1. shots[w].pc \in {"taken", "checked"} <=> shots[w].pc \in pcs
    OBVIOUS
  <2> HIDE DEF pcs
  <2> QED
    BY <1>1, <2>1, LateTyped, ShotTyped
<1>3. Workers = {} => shots' \in [Workers -> Shot]
  BY <1>1 DEF Late
<1> QED
  BY <1>2, <1>3

-----------------------------------------------------------------------------
(* Saving under s.mu *)

(* A fault keeps the count within its bound. *)
LEMMA FaultTyped ==
  ASSUME StateType, Fault
  PROVE  faults' \in 0..MaxFaults
BY ArchiveAssumption DEF ArchiveAssumption, StateType, Fault

(* Saving the task leaves the state typed.                                 *)
LEMMA SaveTyped ==
  ASSUME StateType, NEW t \in Task, Becomes(t), shots' \in [Workers -> Shot]
  PROVE  StateType'
<1>1. task' \in Task
  BY DEF Becomes
<1>2. CASE SaveBegins(t)
  <2>1. io' \in Writer /\ disk' \in Task \cup {Gone, Torn}
    BY <1>2 DEF SaveBegins, Opened, StateType, Writer
  <2> QED
    BY <1>1, <1>2, <2>1 DEF SaveBegins, StateType, causes
<1>3. CASE SaveFails
  <2>1. faults' \in 0..MaxFaults
    BY <1>3, FaultTyped DEF SaveFails, StateType
  <2> QED
    BY <1>1, <1>3, <2>1 DEF SaveFails, StateType, diskVars
<1> QED
  BY <1>2, <1>3 DEF Becomes

(* What the parts of DataInv that a Save touches need: after it the task   *)
(* is being written, or the failure is noted.                              *)
LEMMA SaveKeeps ==
  ASSUME NEW t \in Task, Becomes(t), io = Idle
  PROVE  Writing' /\ Copied'
<1>1. CASE SaveBegins(t)
  <2>1. io' = [by |-> Mu, data |-> t] /\ task' = t /\ io' # Idle
    BY <1>1, NotIdle DEF SaveBegins, Becomes
  <2> QED
    BY <2>1 DEF Writing, Copied
<1>2. CASE SaveFails
  BY <1>2 DEF SaveFails, diskVars, Writing, Copied
<1> QED
  BY <1>1, <1>2 DEF Becomes

(* A step that leaves task, copy, snapshots and DeleteTask alone.          *)
LEMMA FrameKeeps ==
  ASSUME StateType, DataInv, UNCHANGED <<task, diskVars, shots, causes, del>>,
         faults' \in 0..MaxFaults, calls' = calls \/ (calls \in Nat /\ calls' = calls + 1),
         up' = "down" <=> up = "down"
  PROVE  StateType' /\ DataInv'
<1>1. StateType'
  BY DEF StateType, diskVars, causes
<1>2. Writing' /\ Fresh' /\ Copied' /\ Down'
  BY DEF DataInv, Writing, Fresh, Copied, Down, SameTask, diskVars, causes
<1>3. Deleting'
  BY DEF DataInv, Deleting
<1> QED
  BY <1>1, <1>2, <1>3 DEF DataInv

(* A step that saves the task while s.mu is held.                          *)
LEMMA BecomesStep ==
  ASSUME StateType, DataInv, NEW t \in Task, Becomes(t), io = Idle, del = "no",
         del' = del, up' # "down", shots' \in [Workers -> Shot], Fresh'
  PROVE  StateType' /\ DataInv'
<1>1. Deleting' /\ Down'
  BY DEF Deleting, Down
<1> QED
  BY <1>1, SaveTyped, SaveKeeps DEF DataInv

LEMMA SaveStep ==
  ASSUME StateType, DataInv, NEW t \in Task, Save(t), io = Idle, del = "no",
         del' = del, up' # "down"
  PROVE  StateType' /\ DataInv'
<1>1. shots' \in [Workers -> Shot] /\ Fresh'
  BY OvertakeLate DEF Save, Fresh
<1> QED
  BY <1>1, BecomesStep DEF Save

(* A snapshot astray is no longer one that will be looked at or saved.     *)
LEMMA AstrayTyped ==
  ASSUME StateType, Writing, NEW same \in BOOLEAN
  PROVE  /\ Astray(same) \in [Workers -> Shot]
         /\ \A w \in Workers : \/ Astray(same)[w] = shots[w]
                                \/ Astray(same)[w].pc \in {"astray", "elsewhere"}
<1>1. ASSUME NEW w \in Workers
      PROVE  /\ Astray(same)[w] \in Shot
             /\ \/ Astray(same)[w] = shots[w]
                \/ Astray(same)[w].pc \in {"astray", "elsewhere"}
  <2> DEFINE pc == IF same THEN "astray" ELSE "elsewhere"
             new == [shots[w] EXCEPT !.pc = pc]
  <2>1. CASE (io # Idle /\ io.by = w) \/ shots[w].pc = "astray"
    <3>1. shots[w].pc \in {"checked", "astray"}
      BY <2>1, ArchiveAssumption DEF Writing, ArchiveAssumption, Mu
    <3>2. shots[w] \in Taken
      BY <3>1, ShotTyped
    <3>3. new \in Taken /\ new.pc \in {"astray", "elsewhere"}
      BY <3>2 DEF Taken
    <3>4. Astray(same)[w] = new
      BY <2>1 DEF Astray
    <3> QED
      BY <3>3, <3>4 DEF Shot
  <2>2. CASE ~((io # Idle /\ io.by = w) \/ shots[w].pc = "astray")
    <3>1. Astray(same)[w] = shots[w]
      BY <2>2 DEF Astray
    <3> QED
      BY <3>1, ShotTyped
  <2> QED
    BY <2>1, <2>2
<1>2. Astray(same) = [w \in Workers |-> Astray(same)[w]]
  BY DEF Astray
<1> QED
  BY <1>1, <1>2

-----------------------------------------------------------------------------
(* Operations *)

(* A call keeps the count within its bound. *)
LEMMA CallTyped ==
  ASSUME TypeInv, Call
  PROVE  calls' \in 0..MaxCalls /\ calls' = calls + 1 /\ calls \in Nat
BY ArchiveAssumption DEF ArchiveAssumption, TypeInv, RestType, Call

(* While a task exists, or none was ever created, no DeleteTask is at work.*)
LEMMA NotDeleting ==
  ASSUME TypeInv, DataInv, Exists \/ calls = 0
  PROVE  del = "no"
BY DEF TypeInv, RestType, DataInv, Deleting, Exists

(* Each of the calls that save the task, and the end of a Save.            *)
LEMMA CallStepKeeps ==
  ASSUME IInv, CallStep
  PROVE  IInv'
<1> USE DEF IInv
<1>0. StateType /\ RestType /\ DataInv
  BY DEF TypeInv
<1>1. CASE CreateTask
  <2>1. Nothing("CREATED") \in Task
    BY DEF Nothing, Task, Status
  <2>2. io = Idle /\ del = "no" /\ del' = del /\ up' # "down"
    BY <1>1, NotDeleting DEF CreateTask, Api, Enters, callVars
  <2>3. RestType'
    BY <1>0, <1>1, CallTyped DEF CreateTask, Api, callVars, cmpVars, RestType
  <2> QED
    BY <1>0, <1>1, <2>1, <2>2, <2>3, SaveStep DEF CreateTask, TypeInv
<1>2. CASE StartTask
  <2> DEFINE t == Changed("RUNNING", task.full /\ task.st # "COMPLETED", task.rc)
  <2>1. t \in Task
    BY <1>0, <1>2, FieldsTyped, ChangedTyped DEF StartTask, Status
  <2>2. io = Idle /\ del = "no" /\ del' = del /\ up' # "down"
    BY <1>2, NotDeleting DEF StartTask, Api, Enters, callVars
  <2>3. RestType'
    BY <1>0, <1>2, CallTyped DEF StartTask, Api, callVars, cmpVars, RestType
  <2> QED
    BY <1>0, <1>2, <2>1, <2>2, <2>3, SaveStep DEF StartTask, TypeInv
<1>3. ASSUME NEW s \in Status, SetStatus(s), Enters, Exists,
             up' = up, starts' = starts, callVars' = callVars, cmpVars' = cmpVars,
             calls' \in 0..MaxCalls, run' \in BOOLEAN
      PROVE  IInv'
  <2>1. Changed(s, task.full, task.rc) \in Task
    BY <1>0, <1>3, FieldsTyped, ChangedTyped
  <2>2. io = Idle /\ del = "no" /\ del' = del /\ up' # "down"
    BY <1>3, NotDeleting DEF Enters, callVars
  <2>3. RestType'
    BY <1>0, <1>3 DEF callVars, cmpVars, RestType
  <2> QED
    BY <1>0, <1>3, <2>1, <2>2, <2>3, SaveStep DEF SetStatus, TypeInv
<1>4. CASE PauseTask
  BY <1>0, <1>3, <1>4, CallTyped DEF PauseTask, Api, Status, RestType
<1>5. CASE EndTask
  BY <1>0, <1>3, <1>5, CallTyped DEF EndTask, Api, Status, RestType
<1>6. CASE updateTaskStatus
  BY <1>0, <1>3, <1>6 DEF updateTaskStatus, Status, RestType, callVars, cmpVars
<1>7. ASSUME NEW s \in Status, Save(Changed(s, TRUE, task.rc)), Enters, Exists,
             up' = up, starts' = starts, callVars' = callVars, cmpVars' = cmpVars,
             calls' = calls, run' \in BOOLEAN
      PROVE  IInv'
  <2>1. Changed(s, TRUE, task.rc) \in Task
    BY <1>0, <1>7, FieldsTyped, ChangedTyped
  <2>2. io = Idle /\ del = "no" /\ del' = del /\ up' # "down"
    BY <1>7, NotDeleting DEF Enters, callVars
  <2>3. RestType'
    BY <1>0, <1>7 DEF callVars, cmpVars, RestType
  <2> QED
    BY <1>0, <1>7, <2>1, <2>2, <2>3, SaveStep DEF TypeInv
<1>8. CASE FullSyncCompleted
  BY <1>0, <1>7, <1>8 DEF FullSyncCompleted, Status, RestType, callVars, cmpVars
<1>9. CASE completeTask
  BY <1>0, <1>7, <1>9 DEF completeTask, Status, RestType, callVars, cmpVars
<1>10. CASE RunLeaves
  <2>1. RestType' /\ calls' = calls /\ faults' = faults
    BY <1>0, <1>10 DEF RunLeaves, procVars, callVars, cmpVars, RestType
  <2> QED
    BY <1>0, <1>10, <2>1, FrameKeeps DEF RunLeaves, procVars, callVars, StateType, TypeInv
<1>11. CASE ReinitStorage
  <2>1. RestType'
    BY <1>0, <1>11, CallTyped DEF ReinitStorage, callVars, cmpVars, RestType
  <2>2. PICK k \in Kinds, known \in BOOLEAN :
          LET same == known /\ k = kind
          IN /\ kind' = k /\ left' = [left EXCEPT ![kind] = disk]
             /\ disk' = IF same THEN disk ELSE IF known THEN left[k] ELSE Gone
             /\ shots' = Astray(same)
             /\ missed' = (missed \/ ~same \/ io # Idle)
    BY <1>11 DEF ReinitStorage
  <2> DEFINE same == known /\ k = kind
  <2>3. /\ kind' = k /\ left' = [left EXCEPT ![kind] = disk]
        /\ disk' = IF same THEN disk ELSE IF known THEN left[k] ELSE Gone
        /\ shots' = Astray(same) /\ same \in BOOLEAN
        /\ missed' = (missed \/ ~same \/ io # Idle)
    BY <2>2
  <2> HIDE DEF same
  <2>4. UNCHANGED <<task, up, del, overtaken, faults>> /\ io' = Idle /\ up = "up"
    BY <1>11 DEF ReinitStorage, callVars
  <2>5. /\ shots' \in [Workers -> Shot]
        /\ \A w \in Workers : shots'[w] = shots[w]
                               \/ shots'[w].pc \in {"astray", "elsewhere"}
    BY <1>0, <2>3, AstrayTyped DEF DataInv
  <2>6. StateType'
    <3>1. missed' \in BOOLEAN
      BY <1>0, <2>3 DEF StateType
    <3> QED
      BY <1>0, <2>3, <2>4, <2>5, <3>1 DEF StateType, Writer
  <2>7. Fresh'
    BY <1>0, <2>4, <2>5 DEF DataInv, Fresh
  <2>8. Writing' /\ Down'
    BY <2>4 DEF Writing, Down
  <2>9. Copied'
    BY <1>0, <2>3, <2>4 DEF DataInv, Copied, SameTask
  <2>10. Deleting'
    BY <1>0, <1>11, <2>4, CallTyped DEF ReinitStorage, DataInv, Deleting, RestType
  <2> QED
    BY <2>1, <2>6, <2>7, <2>8, <2>9, <2>10 DEF DataInv, TypeInv
<1>12. CASE SkipError
  <2> DEFINE t == Changed("PAUSED", task.full, task.rc)
  <2>1. t \in Task /\ t.full = task.full /\ t.rc = task.rc
    BY <1>0, <1>12, FieldsTyped, ChangedTyped DEF SkipError, Status, Changed
  <2>2. io = Idle /\ del = "no" /\ del' = del /\ up' # "down"
    BY <1>12, NotDeleting DEF SkipError, Api, Enters, callVars
  <2>3. RestType'
    BY <1>0, <1>12, CallTyped DEF SkipError, Api, callVars, cmpVars, RestType
  <2>4. Becomes(t) /\ task' = t /\ shots' = Late({"checked"})
    BY <1>12 DEF SkipError, Becomes
  <2> HIDE DEF t
  <2>5. shots' \in [Workers -> Shot] /\ Fresh'
    <3> DEFINE pcs == {"checked"}
    <3>1. shots' = Late(pcs) /\ "idle" \notin pcs /\ "checked" \in pcs
      BY <2>4
    <3> HIDE DEF pcs
    <3>2. ASSUME NEW w \in Workers
          PROVE  /\ shots' \in [Workers -> Shot] /\ shots'[w].pc = shots[w].pc
                 /\ shots[w].pc # "idle" => shots'[w].data = shots[w].data
                 /\ shots[w].pc = "checked" => shots'[w].late
                 /\ shots[w].pc # "idle" /\ ~shots'[w].late => ~shots[w].late
      BY <1>0, <3>1, LateTyped
    <3>3. Workers = {} => shots' \in [Workers -> Shot]
      BY <3>1 DEF Late
    <3> QED
      BY <1>0, <2>1, <2>4, <3>2, <3>3 DEF DataInv, Fresh
  <2> QED
    BY <1>0, <2>1, <2>2, <2>3, <2>4, <2>5, BecomesStep DEF TypeInv
<1> QED
  BY <1>1, <1>2, <1>4, <1>5, <1>6, <1>8, <1>9, <1>10, <1>11, <1>12 DEF CallStep

(* The Save under s.mu writes the task as it is. *)
LEMMA SaveEndsKeeps ==
  ASSUME IInv, SaveEnds
  PROVE  IInv'
<1>1. StateType /\ RestType /\ DataInv
  BY DEF IInv, TypeInv
<1>2. io.data = task /\ io.data \in Task
  BY <1>1, WriterTyped DEF SaveEnds, DataInv, Writing
<1>3. StateType' /\ RestType'
  BY <1>1, <1>2 DEF SaveEnds, StateType, RestType, Writer, procVars, callVars, cmpVars
<1>4. Copied'
  BY <1>2, NotTasks DEF SaveEnds, Copied, SameTask
<1>5. Writing' /\ Fresh' /\ Deleting' /\ Down'
  BY <1>1 DEF SaveEnds, DataInv, Writing, Fresh, Deleting, Down, procVars, callVars
<1> QED
  BY <1>3, <1>4, <1>5 DEF IInv, TypeInv, DataInv

(* The three steps of a progress report.                                   *)
LEMMA ProgressStepKeeps ==
  ASSUME IInv, ProgressStep
  PROVE  IInv'
<1>0. StateType /\ RestType /\ DataInv
  BY DEF IInv, TypeInv
<1> PICK w \in Workers : \/ incrementTaskProgress(w)
                        \/ shouldPersistAsyncProgressSnapshot(w)
                        \/ SnapshotSaved(w) \/ AstrayEnds(w)
  BY DEF ProgressStep
<1>1. CASE incrementTaskProgress(w)
  <2> DEFINE new == [pc |-> "taken", data |-> task, late |-> FALSE]
  <2>1. task \in Task /\ new \in Shot
    BY <1>0, <1>1, FieldsTyped DEF incrementTaskProgress, Shot, Taken
  <2>2. shots' \in [Workers -> Shot] /\ \A v \in Workers :
          shots'[v] = Late({"taken"})[v] \/ (shots[v].pc = "idle" /\ shots'[v] = new)
    BY <1>0, <1>1, <2>1, LateTyped DEF incrementTaskProgress
  <2>3. UNCHANGED <<up, starts, faults, task, kind, disk, io, left, overtaken, run, del, waits,
                    reg, cmp, missed>>
    BY <1>1 DEF incrementTaskProgress, shotFrame, causes, diskVars, callVars, cmpVars
  <2>4. StateType' /\ RestType'
    BY <1>0, <1>1, <2>2, <2>3, CallTyped DEF incrementTaskProgress, StateType, RestType, IInv
  <2>5. Fresh'
    <3> SUFFICES ASSUME NEW v \in Workers, ~shots'[v].late
                 PROVE  /\ shots'[v].pc = "checked" => shots'[v].data = task'
                        /\ shots'[v].pc = "taken" =>
                             /\ shots'[v].data.full = task'.full
                             /\ shots'[v].data.rc = task'.rc
      BY DEF Fresh
    <3>1. CASE shots'[v] = new
      BY <2>3, <3>1
    <3>2. CASE shots'[v] = Late({"taken"})[v]
      <4> DEFINE pcs == {"taken"}
      <4>1. "idle" \notin pcs /\ shots'[v] = Late(pcs)[v]
        BY <3>2
      <4> HIDE DEF pcs
      <4>2. /\ shots'[v].pc = shots[v].pc
            /\ shots[v].pc # "idle" => ~shots[v].late /\ shots'[v].data = shots[v].data
        BY <1>0, <4>1, LateTyped
      <4> QED
        BY <1>0, <2>3, <4>2 DEF DataInv, Fresh
    <3> QED
      BY <2>2, <3>1, <3>2
  <2>6. ASSUME NEW v \in Workers, shots[v].pc = "checked"
        PROVE  shots'[v].pc = "checked" /\ shots'[v].data = shots[v].data
    BY <1>0, <2>2, <2>6, LateTyped
  <2>7. Writing'
    <3>1. CASE io = Idle
      BY <2>3, <3>1 DEF Writing
    <3>2. CASE io # Idle
      BY <1>0, <2>3, <2>6, <3>2, WriterTyped DEF DataInv, Writing
    <3> QED
      BY <3>1, <3>2
  <2>8. Deleting' /\ Down' /\ Copied'
    BY <1>0, <1>1, <2>3 DEF incrementTaskProgress, Exists, DataInv, Deleting, Down, Copied, SameTask
  <2> QED
    BY <2>4, <2>5, <2>7, <2>8 DEF IInv, TypeInv, DataInv
<1>2. CASE shouldPersistAsyncProgressSnapshot(w)
  <2>1. UNCHANGED <<up, starts, calls, faults, task, kind, disk, io, left, overtaken, run, del,
                    waits, reg, cmp, missed>>
    BY <1>2 DEF shouldPersistAsyncProgressSnapshot, shotFrame, causes, procVars,
        diskVars, callVars, cmpVars
  <2>2. shots[w].pc = "taken" /\ ~(up = "down")
        /\ shots[w] \in Taken
    BY <1>0, <1>2, ShotTyped DEF shouldPersistAsyncProgressSnapshot
  <2> DEFINE new == [shots[w] EXCEPT !.pc = "checked", !.late = FALSE]
  <2>3. new \in Shot /\ new.data = shots[w].data /\ new.pc = "checked"
    BY <2>2 DEF Shot, Taken
  <2>4. /\ shots' \in [Workers -> Shot]
        /\ \A v \in Workers : v # w => shots'[v] = shots[v]
        /\ shots'[w] = NoShot \/ (shots'[w] = new /\ StillCurrent(shots[w]))
    <3>1. shots' = [shots EXCEPT ![w] = IF StillCurrent(shots[w]) THEN new ELSE NoShot]
      BY <1>2 DEF shouldPersistAsyncProgressSnapshot
    <3> HIDE DEF new
    <3> QED
      BY <1>0, <2>3, <3>1 DEF StateType, Shot
  <2> HIDE DEF new
  <2>5. StateType' /\ RestType'
    BY <1>0, <2>1, <2>4 DEF StateType, RestType
  <2>6. Fresh'
    <3> SUFFICES ASSUME NEW v \in Workers, ~shots'[v].late
                 PROVE  /\ shots'[v].pc = "checked" => shots'[v].data = task'
                        /\ shots'[v].pc = "taken" =>
                             /\ shots'[v].data.full = task'.full
                             /\ shots'[v].data.rc = task'.rc
      BY DEF Fresh
    <3>1. CASE v # w
      BY <1>0, <2>1, <2>4, <3>1 DEF DataInv, Fresh
    <3>2. CASE v = w
      <4>1. StillCurrent(shots[w]) => shots[w].data = task
        <5> SUFFICES ASSUME StillCurrent(shots[w]) PROVE shots[w].data = task
          OBVIOUS
        <5>1. task \in Task /\ shots[w].data \in Task
          BY <1>0, <2>2 DEF StillCurrent, StateType, Exists, Taken
        <5>2. /\ shots[w].data.st = task.st /\ shots[w].data.full = task.full
              /\ shots[w].data.rc = task.rc
          BY <1>0, <2>2 DEF StillCurrent, DataInv, Fresh
        <5> QED
          BY <5>1, <5>2 DEF Task
      <4> QED
        BY <2>1, <2>3, <2>4, <3>2, <4>1 DEF NoShot
    <3> QED
      BY <3>1, <3>2
  <2>7. Writing'
    <3>1. CASE io = Idle
      BY <2>1, <3>1 DEF Writing
    <3>2. CASE io # Idle
      BY <1>0, <2>1, <2>2, <2>4, <3>2, WriterTyped DEF DataInv, Writing
    <3> QED
      BY <3>1, <3>2
  <2>8. Deleting' /\ Down' /\ Copied'
    BY <1>0, <2>1, <2>2 DEF DataInv, Deleting, Down, Copied, SameTask
  <2> QED
    BY <2>5, <2>6, <2>7, <2>8 DEF IInv, TypeInv, DataInv
<1>3. CASE SnapshotSaved(w)
  <2>0. UNCHANGED <<up, starts, calls, task, kind, left, run, del, waits, reg, cmp, missed>>
    BY <1>3 DEF SnapshotSaved, shotFrame, callVars, cmpVars
  <2>1. shots[w].pc = "checked" /\ shots[w] # NoShot /\ up # "down"
        /\ shots[w].data \in Task /\ shots[w].late \in BOOLEAN /\ w # Mu
    BY <1>0, <1>3, ShotTyped, ArchiveAssumption
    DEF SnapshotSaved, ArchiveAssumption, Mu, DataInv, Down
  <2>2. RestType' /\ Deleting' /\ (io' = Idle \/ up' # "down") /\ up' # "down"
    BY <1>0, <2>0, <2>1 DEF RestType, DataInv, Deleting
  <2>3. Down'
    BY <2>2 DEF Down
  <2>4. CASE /\ io = Idle
             /\ io' = [by |-> w, data |-> shots[w].data] /\ disk' = Opened
             /\ overtaken' = (overtaken \/ shots[w].late)
             /\ UNCHANGED <<shots, faults>>
    <3>1. io' # Idle /\ io'.by = w /\ io'.data = shots[w].data /\ io' \in Writer
      BY <2>1, <2>4, NotIdle DEF Writer
    <3>2. StateType'
      BY <1>0, <2>0, <2>1, <2>4, <3>1 DEF StateType, Opened
    <3>3. Writing' /\ Fresh' /\ Copied'
      BY <1>0, <2>0, <2>1, <2>4, <3>1 DEF DataInv, Writing, Fresh, Copied
    <3> QED
      BY <2>2, <2>3, <3>2, <3>3 DEF IInv, TypeInv, DataInv
  <2>5. /\ [shots EXCEPT ![w] = NoShot] \in [Workers -> Shot]
        /\ \A v \in Workers : [shots EXCEPT ![w] = NoShot][v] = shots[v]
                             \/ [shots EXCEPT ![w] = NoShot][v].pc = "idle"
    BY <1>0 DEF StateType, Shot, NoShot
  <2>6. ASSUME shots' = [shots EXCEPT ![w] = NoShot]
        PROVE  Fresh'
    BY <1>0, <2>0, <2>5, <2>6 DEF DataInv, Fresh
  <2>7. CASE /\ io # Idle /\ io.by = w
             /\ disk' = io.data /\ io' = Idle
             /\ shots' = [shots EXCEPT ![w] = NoShot]
             /\ UNCHANGED <<faults, overtaken>>
    <3>1. io.data \in Task /\ (io.data = task \/ overtaken \/ del # "no")
      BY <1>0, <2>1, <2>7, WriterTyped DEF DataInv, Writing
    <3>2. StateType'
      BY <1>0, <2>0, <2>5, <2>7, <3>1 DEF StateType, Writer
    <3>3. Writing' /\ Copied'
      BY <2>0, <2>7, <3>1, NotTasks DEF Writing, Copied, SameTask
    <3> QED
      BY <2>2, <2>3, <2>6, <2>7, <3>2, <3>3 DEF IInv, TypeInv, DataInv
  <2>8. CASE /\ io = Idle
             /\ \/ kind = "mysql" /\ up = "closed" /\ UNCHANGED faults
                \/ Fault
             /\ shots' = [shots EXCEPT ![w] = NoShot]
             /\ UNCHANGED <<disk, io, overtaken>>
    <3>1. faults' \in 0..MaxFaults
      BY <1>0, <2>8, FaultTyped DEF StateType
    <3>2. StateType'
      BY <1>0, <2>0, <2>5, <2>8, <3>1 DEF StateType
    <3>3. Writing' /\ Copied'
      BY <1>0, <2>0, <2>8 DEF DataInv, Writing, Copied, SameTask
    <3> QED
      BY <2>2, <2>3, <2>6, <2>8, <3>2, <3>3 DEF IInv, TypeInv, DataInv
  <2> QED
    BY <1>3, <2>4, <2>7, <2>8 DEF SnapshotSaved
<1>4. CASE AstrayEnds(w)
  <2>1. /\ UNCHANGED <<up, starts, calls, faults, task, kind, left, io, run, del, waits,
                       reg, cmp, overtaken>>
        /\ io = Idle /\ shots' = [shots EXCEPT ![w] = NoShot]
        /\ shots[w].pc \in {"astray", "elsewhere"}
    BY <1>4 DEF AstrayEnds, shotFrame, procVars, callVars, cmpVars
  <2>2. up # "down" /\ shots[w].data \in Task
    BY <1>0, <2>1, ShotTyped DEF DataInv, Down, NoShot
  <2>3. /\ disk' \in Task \cup {Gone, Torn} /\ missed' \in BOOLEAN
        /\ (disk' = disk /\ missed' = missed) \/ missed'
    BY <1>0, <1>4, <2>2 DEF AstrayEnds, StateType
  <2>4. /\ shots' \in [Workers -> Shot]
        /\ \A v \in Workers : shots'[v] = shots[v] \/ shots'[v].pc = "idle"
    BY <1>0, <2>1 DEF StateType, Shot, NoShot
  <2>5. StateType' /\ RestType'
    BY <1>0, <2>1, <2>3, <2>4 DEF StateType, RestType
  <2>6. Writing' /\ Fresh' /\ Deleting' /\ Down'
    BY <1>0, <2>1, <2>2, <2>4 DEF DataInv, Writing, Fresh, Deleting, Down
  <2>7. Copied'
    BY <1>0, <2>1, <2>3 DEF DataInv, Copied, SameTask
  <2> QED
    BY <2>5, <2>6, <2>7 DEF IInv, TypeInv, DataInv
<1> QED
  BY <1>1, <1>2, <1>3, <1>4

-----------------------------------------------------------------------------
(* The comparison *)

PCs == {"none", "registered", "connect", "tables", "checking", "next", "count",
        "counted", "giveUp", "leave"}

(* The comparison goes from place to place.                                *)
LEMMA GotoTyped ==
  ASSUME RestType, NEW l \in PCs, Goto(l)
  PROVE  cmp' \in Comparison
BY DEF RestType, Goto, Comparison, PCs

(* The verdict is one of the four final ones.                              *)
LEMMA VerdictTyped ==
  ASSUME NEW done
  PROVE  Verdict(done) \in Final
BY DEF Verdict, Final

(* A step of the comparison that saves nothing.                            *)
LEMMA QuietComparison ==
  ASSUME IInv, UNCHANGED <<task, diskVars, shots, causes>>, cmpFrame,
         faults' \in 0..MaxFaults, cmp' \in Comparison
  PROVE  IInv'
<1>1. RestType'
  BY DEF IInv, TypeInv, RestType, cmpFrame, callVars
<1>2. StateType' /\ DataInv'
  BY FrameKeeps DEF IInv, TypeInv, cmpFrame, callVars
<1> QED
  BY <1>1, <1>2 DEF IInv, TypeInv

(* A step of the comparison that books a result.                           *)
LEMMA BookingComparison ==
  ASSUME IInv, NEW r \in Final \cup {"CHECKING"}, Books(r), cmpFrame, Enters,
         cmp' \in Comparison
  PROVE  IInv'
<1>0. StateType /\ RestType /\ DataInv
  BY DEF IInv, TypeInv
<1>1. CASE Exists
  <2>1. Changed(task.st, task.full, r) \in Task
    BY <1>0, <1>1, FieldsTyped, ChangedTyped
  <2>2. Save(Changed(task.st, task.full, r)) /\ io = Idle /\ del = "no"
        /\ del' = del /\ up' # "down"
    BY <1>1, NotDeleting DEF Books, Enters, cmpFrame, callVars, IInv
  <2>3. RestType'
    BY <1>0 DEF RestType, cmpFrame, callVars
  <2> QED
    BY <1>0, <2>1, <2>2, <2>3, SaveStep DEF IInv, TypeInv
<1>2. CASE ~Exists
  BY <1>0, <1>2, QuietComparison DEF Books, StateType
<1> QED
  BY <1>1, <1>2

LEMMA ComparisonStepKeeps ==
  ASSUME IInv, ComparisonStep
  PROVE  IInv'
<1>0. StateType /\ RestType /\ DataInv /\ cmp \in Comparison /\ up # "down"
  BY DEF IInv, TypeInv, RestType, ComparisonStep
<1>00. faults \in 0..MaxFaults
  BY <1>0 DEF StateType
<1>1. CASE GoroutineStarts
  <2>1. cmp' \in Comparison
    BY <1>0, <1>1, GotoTyped DEF GoroutineStarts, PCs
  <2> QED
    BY <1>00, <1>1, <2>1, QuietComparison DEF GoroutineStarts
<1>2. CASE resolveComparisonConnections
  <2>1. cmp' \in Comparison
    BY <1>0, <1>2 DEF resolveComparisonConnections, Goto, Comparison
  <2>2. faults' \in 0..MaxFaults
    BY <1>0, <1>00, <1>2, FaultTyped DEF resolveComparisonConnections
  <2> QED
    BY <1>2, <2>1, <2>2, QuietComparison DEF resolveComparisonConnections
<1>3. CASE resolveComparisonTables
  <2>1. cmp' \in Comparison
    BY <1>0, <1>3 DEF resolveComparisonTables, Goto, Comparison
  <2>2. faults' \in 0..MaxFaults
    BY <1>0, <1>00, <1>3, FaultTyped DEF resolveComparisonTables
  <2> QED
    BY <1>3, <2>1, <2>2, QuietComparison DEF resolveComparisonTables
<1>4. CASE CheckingSaved
  <2>1. cmp' \in Comparison
    BY <1>0, <1>4, GotoTyped DEF CheckingSaved, PCs
  <2> QED
    BY <1>4, <2>1, BookingComparison DEF CheckingSaved
<1>5. CASE countRowsExact
  <2>1. PICK outcome \in {"same", "differs", "error"} :
          /\ cmp' = [cmp EXCEPT !.pc = "counted", !.done = Append(@, outcome)]
          /\ IF outcome = "error" /\ ~cmp.cancelled THEN Fault ELSE UNCHANGED faults
    BY <1>5 DEF countRowsExact
  <2> DEFINE q == Append(cmp.done, outcome)
  <2>2. q \in Seq({"same", "differs", "error"}) /\ Len(q) = Len(cmp.done) + 1
        /\ Len(cmp.done) \in Nat
    BY <1>0 DEF Comparison
  <2>3. Len(q) <= NTables
    BY <1>5, <2>2, ArchiveAssumption DEF countRowsExact, ArchiveAssumption
  <2>4. cmp' = [cmp EXCEPT !.pc = "counted", !.done = q]
    BY <2>1
  <2> HIDE DEF q
  <2>5. cmp' \in Comparison
    BY <1>0, <2>2, <2>3, <2>4 DEF Comparison
  <2>6. faults' \in 0..MaxFaults
    BY <1>0, <1>00, <2>1, FaultTyped
  <2> QED
    BY <1>5, <2>5, <2>6, QuietComparison DEF countRowsExact
<1>6. CASE NextTable
  <2>1. cmp' \in Comparison
    BY <1>0, <1>6, GotoTyped DEF NextTable, PCs
  <2> QED
    BY <1>00, <1>6, <2>1, QuietComparison DEF NextTable
<1>7. CASE persistRowCountComparisonProgress
  <2>1. cmp' \in Comparison
    BY <1>0, <1>7, GotoTyped DEF persistRowCountComparisonProgress, PCs
  <2> QED
    BY <1>7, <2>1, BookingComparison DEF persistRowCountComparisonProgress
<1>8. CASE finalizeRowCountComparison
  <2>1. cmp' \in Comparison
    BY <1>0, <1>8, GotoTyped DEF finalizeRowCountComparison, PCs
  <2>2. \E r \in Final : Books(r)
    BY <1>8, VerdictTyped DEF finalizeRowCountComparison, Final
  <2> QED
    BY <1>8, <2>1, <2>2, BookingComparison DEF finalizeRowCountComparison
<1>9. CASE GoroutineLeaves
  <2>1. NoCmp \in Comparison
    BY ArchiveAssumption DEF ArchiveAssumption, NoCmp, Comparison
  <2>2. RestType' /\ calls' = calls /\ faults' = faults /\ up' = up
    BY <1>0, <1>9, <2>1 DEF GoroutineLeaves, procVars, callVars, RestType
  <2>3. StateType' /\ DataInv'
    BY <1>0, <1>00, <1>9, <2>2, FrameKeeps DEF GoroutineLeaves, callVars
  <2> QED
    BY <2>2, <2>3 DEF IInv, TypeInv
<1> QED
  BY <1>1, <1>2, <1>3, <1>4, <1>5, <1>6, <1>7, <1>8, <1>9 DEF ComparisonStep

LEMMA StartComparisonKeeps ==
  ASSUME IInv, StartRowCountComparison
  PROVE  IInv'
<1>1. StateType /\ RestType /\ DataInv /\ faults \in 0..MaxFaults
  BY DEF IInv, TypeInv, StateType
<1>2. [NoCmp EXCEPT !.pc = "registered"] \in Comparison
  <2>1. NoCmp \in Comparison
    BY ArchiveAssumption DEF ArchiveAssumption, NoCmp, Comparison
  <2> QED
    BY <2>1 DEF Comparison
<1>3. RestType' /\ calls' = calls + 1 /\ calls \in Nat
  BY <1>1, <1>2, CallTyped DEF StartRowCountComparison, RestType, callVars, IInv
<1>4. StateType' /\ DataInv'
  BY <1>1, <1>3, FrameKeeps DEF StartRowCountComparison, callVars
<1> QED
  BY <1>3, <1>4 DEF IInv, TypeInv

-----------------------------------------------------------------------------
(* DeleteTask, Close and the start of the process *)

(* The task leaves the registry; every snapshot is late from then on.      *)
LEMMA DeleteTaskKeeps ==
  ASSUME IInv, DeleteTask
  PROVE  IInv'
<1>0. StateType /\ RestType /\ DataInv
  BY DEF IInv, TypeInv
<1>1. RestType' /\ calls' > 0 /\ up' = "up"
  BY <1>0, CallTyped DEF DeleteTask, RestType, cmpVars, IInv
<1>2. StateType' /\ Fresh'
  BY <1>0, OvertakeLate DEF DeleteTask, StateType, Fresh, diskVars, causes
<1>3. Writing'
  <2>1. CASE io = Idle
    BY <2>1 DEF DeleteTask, diskVars, Writing
  <2>2. CASE io # Idle
    <3>1. io.by # Mu /\ io.by \in Workers
      BY <1>0, <2>2, WriterTyped DEF DeleteTask, Unlocked
    <3> QED
      BY <1>0, <2>2, <3>1, OvertakeLate DEF DeleteTask, diskVars, DataInv, Writing
  <2> QED
    BY <2>1, <2>2
<1>4. Deleting' /\ Down' /\ Copied'
  BY <1>1 DEF DeleteTask, Deleting, Down, Copied
<1> QED
  BY <1>1, <1>2, <1>3, <1>4 DEF IInv, TypeInv, DataInv

LEMMA EndStepKeeps ==
  ASSUME IInv, EndStep
  PROVE  IInv'
<1>0. StateType /\ RestType /\ DataInv /\ cmp \in Comparison /\ Cancelled \in Comparison
  BY DEF IInv, TypeInv, RestType, Cancelled, Comparison
<1>1. CASE cancelRowComparisonAndWait
  <2>1. del # "no" /\ del' # "no" /\ del' \in {"wait", "erase"}
    BY <1>1 DEF cancelRowComparisonAndWait
  <2>2. UNCHANGED <<up, starts, calls, faults, task, kind, disk, io, left, shots, missed,
                    overtaken>>
    BY <1>1 DEF cancelRowComparisonAndWait, procVars, diskVars, causes
  <2>3. RestType' /\ StateType'
    BY <1>0, <1>1, <2>1, <2>2 DEF cancelRowComparisonAndWait, RestType, StateType
  <2>4. DataInv'
    BY <1>0, <2>1, <2>2 DEF DataInv, Writing, Fresh, Deleting, Down, Copied
  <2> QED
    BY <2>3, <2>4 DEF IInv, TypeInv
<1>2. CASE EraseFile
  <2>1. task = Gone /\ io = Idle /\ io' = Idle /\ task' = Gone /\ shots' = shots
        /\ del' = "no" /\ up' = up /\ up # "down"
    BY <1>0, <1>2 DEF EraseFile, Enters, DataInv, Deleting
  <2>2. faults' \in 0..MaxFaults
    BY <1>0, <1>2, FaultTyped DEF EraseFile, StateType
  <2>3. RestType' /\ StateType'
    BY <1>0, <1>2, <2>1, <2>2 DEF EraseFile, RestType, StateType, cmpVars
  <2>4. Copied'
    BY <1>2, <2>1 DEF EraseFile, Copied, SameTask
  <2>5. Writing' /\ Fresh' /\ Deleting' /\ Down'
    BY <1>0, <2>1 DEF DataInv, Writing, Fresh, Deleting, Down
  <2> QED
    BY <2>3, <2>4, <2>5 DEF IInv, TypeInv, DataInv
<1>3. CASE Close
  <2>1. RestType' /\ up' # "down" /\ del' = del /\ calls' = calls /\ io = Idle /\ up # "down"
    BY <1>0, <1>3 DEF Close, Enters, RestType
  <2>2. CASE Exists
    <3>1. Paused \in Task
      BY <1>0, <2>2, FieldsTyped, ChangedTyped DEF Paused, Status
    <3>2. Save(Paused) /\ del = "no"
      BY <1>3, <2>2, NotDeleting DEF Close, IInv
    <3> QED
      BY <1>0, <2>1, <3>1, <3>2, SaveStep DEF IInv, TypeInv
  <2>3. CASE ~Exists
    <3>1. UNCHANGED <<faults, task, diskVars, shots, causes>>
      BY <1>3, <2>3 DEF Close
    <3>2. faults' \in 0..MaxFaults
      BY <1>0, <3>1 DEF StateType
    <3> QED
      BY <1>0, <2>1, <3>1, <3>2, FrameKeeps DEF IInv, TypeInv
  <2> QED
    BY <2>2, <2>3
<1>4. CASE CloseWaits
  <2>1. RestType' /\ up' # "down" /\ up # "down" /\ del' = del /\ calls' = calls
        /\ UNCHANGED <<faults, task, diskVars, shots, causes>>
    BY <1>0, <1>4 DEF CloseWaits, RestType, callVars, cmpVars
  <2>2. faults' \in 0..MaxFaults
    BY <1>0, <2>1 DEF StateType
  <2> QED
    BY <1>0, <2>1, <2>2, FrameKeeps DEF IInv, TypeInv
<1>5. CASE ProcessEnds
  <2>1. NoCmp \in Comparison
    BY ArchiveAssumption DEF ArchiveAssumption, NoCmp, Comparison
  <2>2. RestType' /\ StateType'
    BY <1>0, <1>5, <2>1 DEF ProcessEnds, RestType, StateType, Writer, Shot
  <2>3. DataInv'
    BY <1>5 DEF ProcessEnds, DataInv, Writing, Fresh, Deleting, Down, Copied, NoShot
  <2> QED
    BY <2>2, <2>3 DEF IInv, TypeInv
<1>6. CASE loadTasks
  <2>1. io = Idle /\ del = "no" /\ del' = "no" /\ up' = "up"
        /\ \A w \in Workers : shots[w].pc = "idle"
    BY <1>0, <1>6 DEF loadTasks, DataInv, Down, callVars, NoShot
  <2>2. RestType'
    BY <1>0, <1>6, <2>1, ArchiveAssumption
    DEF loadTasks, RestType, callVars, cmpVars, ArchiveAssumption
  <2>3. Loaded \in Task \cup {Gone} /\ (disk \in {Gone, Torn} => Loaded = Gone)
        /\ (disk \notin {Gone, Torn} => Loaded \in Task)
    BY <1>0 DEF Loaded, StateType, Task, Final
  <2>4. CASE Save(Loaded) /\ Loaded # Gone
    BY <1>0, <2>1, <2>2, <2>3, <2>4, SaveStep DEF IInv, TypeInv
  <2>5. CASE /\ task' = Loaded /\ UNCHANGED <<faults, diskVars, shots, causes>>
             /\ Loaded = Gone \/ Loaded = disk
    <3>1. StateType'
      BY <1>0, <2>3, <2>5 DEF StateType, diskVars, causes
    <3>2. Writing' /\ Fresh' /\ Deleting' /\ Down'
      BY <1>0, <2>1, <2>5 DEF Writing, Fresh, Deleting, Down, diskVars
    <3>3. SameTask(disk', task')
      BY <1>0, <2>3, <2>5, NotTasks DEF SameTask, StateType, diskVars
    <3> QED
      BY <2>2, <3>1, <3>2, <3>3 DEF IInv, TypeInv, DataInv, Copied
  <2> QED
    BY <1>6, <2>4, <2>5 DEF loadTasks
<1> QED
  BY <1>1, <1>2, <1>3, <1>4, <1>5, <1>6 DEF EndStep

-----------------------------------------------------------------------------
(* Theorems *)

LEMMA Start == Init => IInv
<1> SUFFICES ASSUME Init PROVE IInv
  OBVIOUS
<1>1. NoCmp \in Comparison
  BY ArchiveAssumption DEF ArchiveAssumption, NoCmp, Comparison
<1>2. [w \in Workers |-> NoShot] \in [Workers -> Shot]
      /\ \A w \in Workers : [v \in Workers |-> NoShot][w].pc = "idle"
  BY DEF Shot, NoShot
<1>3. TypeInv
  <2>1. 0 \in 0..MaxFaults /\ 0 \in 0..MaxCalls /\ 1 \in 1..MaxStarts
    BY ArchiveAssumption DEF ArchiveAssumption
  <2>2. RestType
    BY <1>1, <2>1 DEF Init, RestType
  <2>3. StateType
    BY <1>2, <2>1 DEF Init, StateType, Writer
  <2> QED
    BY <2>2, <2>3 DEF TypeInv
<1>4. DataInv
  BY <1>2 DEF Init, DataInv, Writing, Fresh, Deleting, Down, Copied, SameTask
<1> QED
  BY <1>3, <1>4 DEF IInv

LEMMA Step == IInv /\ [Next]_vars => IInv'
<1> SUFFICES ASSUME IInv, [Next]_vars PROVE IInv'
  OBVIOUS
<1>1. CASE UNCHANGED vars
  <2>1. StateType /\ RestType /\ DataInv
    BY DEF IInv, TypeInv
  <2>2. UNCHANGED <<procVars, task, run, diskVars, shots, callVars, cmpVars, causes>>
    BY <1>1 DEF vars
  <2>3. RestType' /\ faults' \in 0..MaxFaults /\ calls' = calls /\ up' = up /\ del' = del
    BY <2>1, <2>2 DEF procVars, callVars, cmpVars, RestType, StateType
  <2>4. StateType' /\ DataInv'
    BY <2>1, <2>2, <2>3, FrameKeeps
  <2> QED
    BY <2>3, <2>4 DEF IInv, TypeInv
<1> QED
  BY <1>1, SaveEndsKeeps, CallStepKeeps, ProgressStepKeeps, StartComparisonKeeps,
     ComparisonStepKeeps, DeleteTaskKeeps, EndStepKeeps DEF Next

LEMMA Invariant == Spec => []IInv
BY Start, Step, PTL DEF Spec

(* Every variable of the archive keeps its type, whatever calls, saves,    *)
(* snapshots, comparisons, deletions, crashes and loads come together.     *)
THEOREM TypeCorrect == Spec => []TypeOK
<1>1. IInv => TypeOK
  <2> SUFFICES ASSUME IInv PROVE TypeOK
    OBVIOUS
  <2>1. StateType /\ RestType
    BY DEF IInv, TypeInv
  <2>2. \A w \in Workers : shots[w] = NoShot \/ shots[w].data \in Task
    BY <2>1, ShotTyped
  <2>3. io # Idle => io.by \in Workers \cup {Mu} /\ io.data \in Task
    BY <2>1, WriterTyped
  <2> QED
    BY <2>1, <2>2, <2>3 DEF TypeOK, StateType, RestType, Comparison
<1> QED
  BY <1>1, Invariant, PTL

(* Whenever nobody writes, a restart would load the task as it is, with    *)
(* any number of workers reporting progress and for both storages: apart   *)
(* from a failed or redirected write and the snapshot that was overtaken   *)
(* after its check, no interleaving leaves a stale or resurrected copy.    *)
THEOREM CopyIsCurrent == Spec => []ArchiveIsCurrent
<1>1. IInv => ArchiveIsCurrent
  BY DEF IInv, DataInv, Copied, ArchiveIsCurrent, Quiet
<1> QED
  BY <1>1, Invariant, PTL

=============================================================================
