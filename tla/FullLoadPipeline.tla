-------------------------- MODULE FullLoadPipeline --------------------------
(***************************************************************************)
(* The full-load pipeline (src/internal/sync/fullload): read workers, the  *)
(* bounded batchQueue, the writers, the completion tracker and Engine.Run. *)
(*                                                                         *)
(*   read workers  --Put-->  batchQueue  --GetUntil-->  writers --> target *)
(*        |                                                |               *)
(*        +---------- tableCompletionTracker --------------+               *)
(*                                                                         *)
(* A read worker reads the batches of its chunk in order.  A writer keeps  *)
(* a transaction to one table: while it holds batches of table t it only   *)
(* takes batches of t.  When every table is read the queue is closed; a    *)
(* writer that finds the queue closed and nothing for it commits and ends. *)
(*                                                                         *)
(* q.mu makes Put and GetUntil atomic up to their Wait.  A transaction     *)
(* commits or fails in one step here: WriterTx has its protocol.  Which    *)
(* table an unbound writer takes from is left open here: FairQueue has the *)
(* poll order.  The environment may stop the task, break a read, a write   *)
(* or a commit, as far as Faults allows.                                   *)
(***************************************************************************)
EXTENDS Integers, Sequences, FiniteSets, FiniteSetsExt

CONSTANTS
  Tables, Chunks, Writers,
  TableOf,        \* the table of a chunk
  BatchesOf,      \* how many batches a chunk yields
  Weight,         \* ApproxBytes of the batches of a table
  GlobalMax,      \* BufferBytes
  SoftCap,        \* 32 MiB: what one of several tables may hold at most
  CommitBatches,  \* CommitRows / CommitBytes, counted in batches
  Faults          \* a subset of {"stop", "read", "write", "commit"}

ASSUME PipelineAssumption ==
  /\ IsFiniteSet(Tables) /\ IsFiniteSet(Chunks) /\ Writers # {}
  /\ TableOf \in [Chunks -> Tables]
  /\ BatchesOf \in [Chunks -> Nat]
  /\ Weight \in [Tables -> Nat \ {0}]
  /\ {GlobalMax, SoftCap} \subseteq Nat \ {0}
  /\ CommitBatches \in Nat \ {0}

Batches == UNION {{c} \X (1..BatchesOf[c]) : c \in Chunks}
Tab(b) == TableOf[b[1]]
NoBatch == <<>>

VARIABLES
  \* read workers and readCoordinator
  rpc,        \* where the worker of a chunk is
  pos,        \* batches of the chunk read so far
  marked,     \* chunks the scheduler counts as done
  sub,        \* submitTable of a table: "wait", "done", "error"
  tableErr,   \* tableErrors: "none", "cancel", "real"
  rcancel,    \* the readers' context was cancelled
  rerr,       \* readerErr
  \* batchQueue
  items,      \* the sub-queue of a table
  closed,
  \* tableCompletionTracker
  inflight, readDone, fired,
  \* writers
  wpc, hand, buf, last, wcancel, werr,
  \* the target, the task and Engine.Run
  store, stopped, cancelled, result

readVars == <<rpc, pos, marked, sub, tableErr, rcancel, rerr>>
queueVars == <<items, closed>>
trackVars == <<inflight, readDone, fired>>
writeVars == <<wpc, hand, buf, last, wcancel, werr>>
envVars == <<store, stopped, cancelled, result>>
vars == <<readVars, queueVars, trackVars, writeVars, envVars>>

Init ==
  /\ rpc = [c \in Chunks |-> "read"]
  /\ pos = [c \in Chunks |-> 0]
  /\ marked = {}
  /\ sub = [t \in Tables |-> "wait"]
  /\ tableErr = [t \in Tables |-> "none"]
  /\ rcancel = FALSE
  /\ rerr = "none"
  /\ items = [t \in Tables |-> <<>>]
  /\ closed = FALSE
  /\ inflight = [t \in Tables |-> 0]
  /\ readDone = [t \in Tables |-> FALSE]
  /\ fired = [t \in Tables |-> FALSE]
  /\ wpc = [w \in Writers |-> "top"]
  /\ hand = [w \in Writers |-> NoBatch]
  /\ buf = [w \in Writers |-> {}]
  /\ last = [w \in Writers |-> FALSE]
  /\ wcancel = FALSE
  /\ werr = "none"
  /\ store = [b \in Batches |-> 0]
  /\ stopped = FALSE
  /\ cancelled = FALSE
  /\ result = "running"

ReadCtxDone == rcancel \/ cancelled
WriteStop == wcancel \/ cancelled \/ stopped

-----------------------------------------------------------------------------
(* tableCompletionTracker: maybeFireLocked after every change of a table.   *)

ReadyAtZeroInflight(t) == inflight'[t] = 0
Ready(t) == readDone'[t] /\ inflight'[t] = 0

Track(t) == fired' = [fired EXCEPT ![t] = @ \/ Ready(t)]

(* onBatchesCommitted and, for one batch, onBatchEnqueueAborted. *)
Release(t, n) ==
  /\ inflight' = [inflight EXCEPT ![t] = Max({0, @ - n})]
  /\ UNCHANGED readDone
  /\ Track(t)

-----------------------------------------------------------------------------
(* batchQueue.                                                             *)

BytesOf(t) == Len(items[t]) * Weight[t]
CurBytes == MapThenSumSet(BytesOf, Tables)

(* waitingTableCount and effectiveTableLimit, for a Put of chunk c. *)
WaitingTables(c) ==
  {t \in Tables : \/ items[t] # <<>>
                  \/ t = TableOf[c]
                  \/ \E d \in Chunks : TableOf[d] = t /\ rpc[d] \in {"blocked", "woken"}}
TableLimit(c) ==
  IF Cardinality(WaitingTables(c)) <= 1 THEN GlobalMax
  ELSE Max({1, Min({GlobalMax \div 2, SoftCap})})

GlobalLimitChecksOldSize(c) == CurBytes <= GlobalMax
GlobalOK(c) == CurBytes = 0 \/ CurBytes + Weight[TableOf[c]] <= GlobalMax
TableOK(c) ==
  LET t == TableOf[c]
  IN  items[t] = <<>> \/ BytesOf(t) + Weight[t] <= TableLimit(c)

(* notEmpty.Signal: one waiting writer, if there is one, looks again. *)
Signal ==
  LET waiting == {w \in Writers : wpc[w] = "wait"}
  IN  IF waiting = {} THEN UNCHANGED wpc
      ELSE \E w \in waiting : wpc' = [wpc EXCEPT ![w] = "get"]

(* notEmpty.Broadcast and notFull.Broadcast. *)
Awake(pc) == [w \in Writers |-> IF pc[w] = "wait" THEN "get" ELSE pc[w]]
WakesNobody(pc) == pc
WakeReaders(pc) == [c \in Chunks |-> IF pc[c] = "blocked" THEN "woken" ELSE pc[c]]

-----------------------------------------------------------------------------
(* Read workers: readChunk and the end of workerLoop.                      *)

ReadsOneTooMany(c) == pos[c] <= BatchesOf[c]
MoreToRead(c) == pos[c] < BatchesOf[c]

(* nextBatch returned a batch; the tracker counts it before the Put. *)
ReadBatch(c) ==
  /\ rpc[c] = "read"
  /\ MoreToRead(c)
  /\ pos' = [pos EXCEPT ![c] = @ + 1]
  /\ rpc' = [rpc EXCEPT ![c] = "put"]
  /\ inflight' = [inflight EXCEPT ![TableOf[c]] = @ + 1]
  /\ UNCHANGED <<marked, sub, tableErr, rcancel, rerr, queueVars, readDone, fired, writeVars, envVars>>

ReadLast(c) ==
  /\ rpc[c] = "read"
  /\ ~MoreToRead(c)
  /\ rpc' = [rpc EXCEPT ![c] = "ok"]
  /\ UNCHANGED <<pos, marked, sub, tableErr, rcancel, rerr, queueVars, trackVars, writeVars, envVars>>

(* isStopped: cancel the readers and return nil, as if the chunk were read. *)
ReadStopped(c) ==
  /\ rpc[c] = "read"
  /\ stopped
  /\ rcancel' = TRUE
  /\ rpc' = [rpc EXCEPT ![c] = "ok"]
  /\ UNCHANGED <<pos, marked, sub, tableErr, rerr, queueVars, trackVars, writeVars, envVars>>

ReadCancelled(c) ==
  /\ rpc[c] = "read"
  /\ ReadCtxDone
  /\ rpc' = [rpc EXCEPT ![c] = "cancel"]
  /\ UNCHANGED <<pos, marked, sub, tableErr, rcancel, rerr, queueVars, trackVars, writeVars, envVars>>

ReadFails(c) ==
  /\ rpc[c] = "read"
  /\ "read" \in Faults
  /\ rpc' = [rpc EXCEPT ![c] = "real"]
  /\ UNCHANGED <<pos, marked, sub, tableErr, rcancel, rerr, queueVars, trackVars, writeVars, envVars>>

PutOK(c) ==
  /\ rpc[c] \in {"put", "woken"}
  /\ ~ReadCtxDone
  /\ GlobalOK(c) /\ TableOK(c)
  /\ items' = [items EXCEPT ![TableOf[c]] = Append(@, <<c, pos[c]>>)]
  /\ Signal
  /\ rpc' = [rpc EXCEPT ![c] = "read"]
  /\ UNCHANGED <<pos, marked, sub, tableErr, rcancel, rerr, closed, trackVars,
                 hand, buf, last, wcancel, werr, envVars>>

PutBlocks(c) ==
  /\ rpc[c] \in {"put", "woken"}
  /\ ~ReadCtxDone
  /\ ~(GlobalOK(c) /\ TableOK(c))
  /\ rpc' = [rpc EXCEPT ![c] = "blocked"]
  /\ UNCHANGED <<pos, marked, sub, tableErr, rcancel, rerr, queueVars, trackVars, writeVars, envVars>>

(* The context is done (watchContext wakes a blocked Put): the batch is
   dropped and its count taken back. *)
PutCancelled(c) ==
  /\ rpc[c] \in {"put", "woken", "blocked"}
  /\ ReadCtxDone
  /\ Release(TableOf[c], 1)
  /\ rpc' = [rpc EXCEPT ![c] = "cancel"]
  /\ UNCHANGED <<pos, marked, sub, tableErr, rcancel, rerr, queueVars, writeVars, envVars>>

(* markDone, before the error of the chunk is recorded. *)
MarkDone(c) ==
  /\ rpc[c] \in {"ok", "cancel", "real"}
  /\ marked' = marked \cup {c}
  /\ rpc' = [rpc EXCEPT ![c] = CASE @ = "ok" -> "idle"
                                 [] @ = "cancel" -> "errCancel"
                                 [] @ = "real" -> "errReal"]
  /\ UNCHANGED <<pos, sub, tableErr, rcancel, rerr, queueVars, trackVars, writeVars, envVars>>

(* setTableErr, cancelTableAttempt (the readers' cancel when no retry is
   configured, and nothing once submitTable has returned) and
   markTableFailed, which drops the table's other chunks. *)
SetTableErr(c) ==
  /\ rpc[c] \in {"errCancel", "errReal"}
  /\ tableErr' = [tableErr EXCEPT ![TableOf[c]] =
                    IF rpc[c] = "errReal" \/ @ = "real" THEN "real" ELSE "cancel"]
  /\ rcancel' = (rcancel \/ sub[TableOf[c]] = "wait")
  /\ marked' = marked \cup {d \in Chunks : TableOf[d] = TableOf[c]}
  /\ rpc' = [rpc EXCEPT ![c] = "idle"]
  /\ UNCHANGED <<pos, sub, rerr, queueVars, trackVars, writeVars, envVars>>

-----------------------------------------------------------------------------
(* submitTable, runTableReaders.                                           *)

AllMarked(t) == \A c \in Chunks : TableOf[c] = t => c \in marked

SubmitDone(t) ==
  /\ sub[t] = "wait"
  /\ AllMarked(t)
  /\ sub' = [sub EXCEPT ![t] = "done"]
  /\ readDone' = [readDone EXCEPT ![t] = TRUE]
  /\ UNCHANGED inflight
  /\ Track(t)
  /\ UNCHANGED <<rpc, pos, marked, tableErr, rcancel, rerr, queueVars, writeVars, envVars>>

SubmitFails(t) ==
  /\ sub[t] = "wait"
  /\ tableErr[t] # "none" \/ ReadCtxDone
  /\ sub' = [sub EXCEPT ![t] = "error"]
  /\ rcancel' = TRUE
  /\ UNCHANGED <<rpc, pos, marked, tableErr, rerr, queueVars, trackVars, writeVars, envVars>>

(* Every submitTable returned and every worker ended: coord.finish, q.Close. *)
CloseQueue ==
  /\ ~closed
  /\ \A t \in Tables : sub[t] # "wait"
  /\ \A c \in Chunks : rpc[c] = "idle"
  /\ closed' = TRUE
  /\ rerr' = IF \E t \in Tables : tableErr[t] = "real" THEN "real"
             ELSE IF \E t \in Tables : sub[t] = "error" \/ tableErr[t] # "none" THEN "cancel"
             ELSE "none"
  /\ wpc' = Awake(wpc)
  /\ UNCHANGED <<rpc, pos, marked, sub, tableErr, rcancel, items, trackVars,
                 hand, buf, last, wcancel, werr, envVars>>

(* After Close, a reader error cancels the pipeline. *)
ReadersCancel ==
  /\ closed /\ rerr # "none" /\ ~cancelled
  /\ cancelled' = TRUE
  /\ UNCHANGED <<readVars, queueVars, trackVars, writeVars, store, stopped, result>>

-----------------------------------------------------------------------------
(* Writers: writerLoop.                                                    *)

Bound(w) == buf[w] # {}
BoundTables(w) == {Tab(b) : b \in buf[w]}
Available(w) == {t \in Tables : items[t] # <<>> /\ (Bound(w) => t \in BoundTables(w))}

(* rollback(), and the writer returns. *)
Leave(w) ==
  /\ buf' = [buf EXCEPT ![w] = {}]
  /\ hand' = [hand EXCEPT ![w] = NoBatch]
  /\ wpc' = [wpc EXCEPT ![w] = "out"]

(* The first error cancels the context of the other writers. *)
LeaveWithError(w) ==
  /\ Leave(w)
  /\ werr' = IF werr # "none" THEN werr ELSE IF wcancel \/ cancelled THEN "cancel" ELSE "real"
  /\ wcancel' = TRUE

StopWriter(w) ==
  /\ wpc[w] \in {"top", "get", "wait", "got"}
  /\ WriteStop
  /\ wpc[w] = "wait" => wcancel \/ cancelled
  /\ Leave(w)
  /\ UNCHANGED <<readVars, queueVars, trackVars, last, wcancel, werr, envVars>>

(* Nothing more for this table while another table has batches: commit. *)
SwitchTable(w) ==
  /\ wpc[w] = "top"
  /\ ~WriteStop
  /\ Bound(w) /\ Available(w) = {}
  /\ \E t \in Tables : items[t] # <<>>
  /\ wpc' = [wpc EXCEPT ![w] = "commit"]
  /\ UNCHANGED <<readVars, queueVars, trackVars, hand, buf, last, wcancel, werr, envVars>>

EnterGet(w) ==
  /\ wpc[w] = "top"
  /\ ~WriteStop
  /\ ~(Bound(w) /\ Available(w) = {} /\ \E t \in Tables : items[t] # <<>>)
  /\ wpc' = [wpc EXCEPT ![w] = "get"]
  /\ UNCHANGED <<readVars, queueVars, trackVars, hand, buf, last, wcancel, werr, envVars>>

(* GetUntil delivers; popFromSubQueueLocked wakes the blocked readers. *)
GetBatch(w, t) ==
  /\ wpc[w] = "get"
  /\ t \in Available(w)
  /\ hand' = [hand EXCEPT ![w] = Head(items[t])]
  /\ items' = [items EXCEPT ![t] = Tail(@)]
  /\ wpc' = [wpc EXCEPT ![w] = "got"]
  /\ rpc' = WakeReaders(rpc)
  /\ UNCHANGED <<pos, marked, sub, tableErr, rcancel, rerr, closed, trackVars, buf, last, wcancel, werr, envVars>>

GetWaits(w) ==
  /\ wpc[w] = "get"
  /\ Available(w) = {} /\ ~closed /\ ~(wcancel \/ cancelled)
  /\ wpc' = [wpc EXCEPT ![w] = "wait"]
  /\ UNCHANGED <<readVars, queueVars, trackVars, hand, buf, last, wcancel, werr, envVars>>

(* CommitInterval: the timer broadcasts, or the deadline had passed before. *)
TimerFires(w) ==
  /\ wpc[w] = "wait" /\ Bound(w)
  /\ wpc' = [Awake(wpc) EXCEPT ![w] = "commit"]
  /\ UNCHANGED <<readVars, queueVars, trackVars, hand, buf, last, wcancel, werr, envVars>>

GetTimesOut(w) ==
  /\ wpc[w] = "get" /\ Bound(w) /\ ~WriteStop
  /\ wpc' = [wpc EXCEPT ![w] = "commit"]
  /\ UNCHANGED <<readVars, queueVars, trackVars, hand, buf, last, wcancel, werr, envVars>>

NoDrainCommit(w) == "out"
AfterLoop(w) == IF Bound(w) THEN "commit" ELSE "out"

(* Closed, and nothing this writer may take: leave the loop, commit. *)
QueueDrained(w) ==
  /\ wpc[w] = "get"
  /\ Available(w) = {} /\ closed /\ ~WriteStop
  /\ last' = [last EXCEPT ![w] = TRUE]
  /\ wpc' = [wpc EXCEPT ![w] = AfterLoop(w)]
  /\ UNCHANGED <<readVars, queueVars, trackVars, hand, buf, wcancel, werr, envVars>>

(* beginTx when none is open, writeBatchInTxCached; then the thresholds. *)
WriteBatch(w) ==
  /\ wpc[w] = "got"
  /\ buf' = [buf EXCEPT ![w] = @ \cup {hand[w]}]
  /\ hand' = [hand EXCEPT ![w] = NoBatch]
  /\ \/ wpc' = [wpc EXCEPT ![w] = "commit"]
     \/ Cardinality(buf[w]) + 1 < CommitBatches /\ wpc' = [wpc EXCEPT ![w] = "top"]
  /\ UNCHANGED <<readVars, queueVars, trackVars, last, wcancel, werr, envVars>>

WriteFails(w) ==
  /\ wpc[w] = "got"
  /\ "write" \in Faults \/ wcancel \/ cancelled
  /\ LeaveWithError(w)
  /\ UNCHANGED <<readVars, queueVars, trackVars, last, envVars>>

Commit(w) ==
  /\ wpc[w] = "commit"
  /\ store' = [b \in Batches |-> IF b \in buf[w] THEN store[b] + 1 ELSE store[b]]
  /\ wpc' = [wpc EXCEPT ![w] = "report"]
  /\ UNCHANGED <<readVars, queueVars, trackVars, hand, buf, last, wcancel, werr, stopped, cancelled, result>>

(* The commit fails, is cancelled, or its outcome stays unknown. *)
CommitFails(w) ==
  /\ wpc[w] = "commit"
  /\ "commit" \in Faults \/ wcancel \/ cancelled
  /\ \/ UNCHANGED store
     \/ store' = [b \in Batches |-> IF b \in buf[w] THEN store[b] + 1 ELSE store[b]]
  /\ LeaveWithError(w)
  /\ UNCHANGED <<readVars, queueVars, trackVars, last, stopped, cancelled, result>>

CountsTransactions(w) == 1
CountsBatches(w) == Cardinality(buf[w])

(* reportCommitted. *)
Report(w) ==
  /\ wpc[w] = "report"
  /\ \E t \in BoundTables(w) : Release(t, CountsBatches(w))
  /\ buf' = [buf EXCEPT ![w] = {}]
  /\ wpc' = [wpc EXCEPT ![w] = IF last[w] THEN "out" ELSE "top"]
  /\ UNCHANGED <<readVars, queueVars, hand, last, wcancel, werr, envVars>>

(* runWriters returned an error. *)
WritersCancel ==
  /\ \A w \in Writers : wpc[w] = "out"
  /\ werr # "none" /\ ~cancelled
  /\ cancelled' = TRUE
  /\ UNCHANGED <<readVars, queueVars, trackVars, writeVars, store, stopped, result>>

-----------------------------------------------------------------------------
(* The task and Engine.Run.                                                *)

(* PauseTask, EndTask: isTaskStopped answers TRUE from now on. *)
StopTask ==
  /\ "stop" \in Faults
  /\ ~stopped
  /\ result = "running"
  /\ stopped' = TRUE
  /\ UNCHANGED <<readVars, queueVars, trackVars, writeVars, store, cancelled, result>>

(* The 100 ms watcher or the cancelled parent context. *)
WatchStop ==
  /\ stopped /\ ~cancelled
  /\ cancelled' = TRUE
  /\ UNCHANGED <<readVars, queueVars, trackVars, writeVars, store, stopped, result>>

(* wg.Wait, selectPipelineError, and the caller's check for a stop. *)
Outcome ==
  IF stopped THEN "stopped"
  ELSE IF werr # "none" \/ rerr # "none" \/ cancelled THEN "error"
  ELSE "ok"

Finish ==
  /\ result = "running"
  /\ closed /\ (rerr # "none" => cancelled)
  /\ \A w \in Writers : wpc[w] = "out"
  /\ werr # "none" => cancelled
  /\ result' = Outcome
  /\ UNCHANGED <<readVars, queueVars, trackVars, writeVars, store, stopped, cancelled>>

-----------------------------------------------------------------------------
ReaderStep(c) ==
  \/ ReadBatch(c) \/ ReadLast(c) \/ ReadStopped(c) \/ ReadCancelled(c) \/ ReadFails(c)
  \/ PutOK(c) \/ PutBlocks(c) \/ PutCancelled(c)
  \/ MarkDone(c) \/ SetTableErr(c)

SubmitStep(t) == SubmitDone(t) \/ SubmitFails(t)

WriterStep(w) ==
  \/ StopWriter(w) \/ SwitchTable(w) \/ EnterGet(w)
  \/ \E t \in Tables : GetBatch(w, t)
  \/ GetWaits(w) \/ TimerFires(w) \/ GetTimesOut(w) \/ QueueDrained(w)
  \/ WriteBatch(w) \/ WriteFails(w) \/ Commit(w) \/ CommitFails(w) \/ Report(w)

EngineStep == CloseQueue \/ ReadersCancel \/ WritersCancel \/ WatchStop \/ Finish

Next ==
  \/ \E c \in Chunks : ReaderStep(c)
  \/ \E t \in Tables : SubmitStep(t)
  \/ \E w \in Writers : WriterStep(w)
  \/ EngineStep
  \/ StopTask

Spec == Init /\ [][Next]_vars

(* Every goroutine keeps running; nobody has to stop the task. *)
FairSpec ==
  /\ Spec
  /\ \A c \in Chunks : WF_vars(ReaderStep(c))
  /\ \A t \in Tables : WF_vars(SubmitStep(t))
  /\ \A w \in Writers : WF_vars(WriterStep(w))
  /\ WF_vars(EngineStep)

-----------------------------------------------------------------------------
TypeOK ==
  /\ rpc \in [Chunks -> {"read", "put", "blocked", "woken", "ok", "cancel", "real",
                         "errCancel", "errReal", "idle"}]
  /\ pos \in [Chunks -> Nat] /\ \A c \in Chunks : pos[c] <= BatchesOf[c]
  /\ marked \subseteq Chunks
  /\ sub \in [Tables -> {"wait", "done", "error"}]
  /\ tableErr \in [Tables -> {"none", "cancel", "real"}]
  /\ rcancel \in BOOLEAN
  /\ rerr \in {"none", "cancel", "real"}
  /\ items \in [Tables -> Seq(Batches)]
  /\ closed \in BOOLEAN
  /\ inflight \in [Tables -> Nat]
  /\ readDone \in [Tables -> BOOLEAN]
  /\ fired \in [Tables -> BOOLEAN]
  /\ wpc \in [Writers -> {"top", "get", "wait", "got", "commit", "report", "out"}]
  /\ hand \in [Writers -> Batches \cup {NoBatch}]
  /\ buf \in [Writers -> SUBSET Batches]
  /\ last \in [Writers -> BOOLEAN]
  /\ wcancel \in BOOLEAN
  /\ werr \in {"none", "cancel", "real"}
  /\ store \in [Batches -> Nat]
  /\ stopped \in BOOLEAN
  /\ cancelled \in BOOLEAN
  /\ result \in {"running", "ok", "error", "stopped"}

(* Engine.Run returns nil, and nobody stopped the task, only when every batch
   of every table is on the target, once. *)
NoSilentLoss == result = "ok" => \A b \in Batches : store[b] = 1

(* OnTableDataReady fires only when all data of the table is committed. *)
ReadyIsComplete ==
  \A t \in Tables : fired[t] => \A b \in Batches : Tab(b) = t => store[b] = 1

(* Nothing has failed, was stopped or cancelled. *)
Undisturbed ==
  /\ ~(stopped \/ cancelled \/ rcancel \/ wcancel)
  /\ werr = "none" /\ rerr = "none"
  /\ \A t \in Tables : tableErr[t] = "none"
  /\ \A c \in Chunks : rpc[c] \notin {"cancel", "real", "errCancel", "errReal"}

(* OnTableDataReady keeps that promise as long as no reader or writer has
   failed and nobody stopped the task. *)
ReadyWithoutErrors == Undisturbed => ReadyIsComplete

(* A run that succeeds has announced every table: no count of the completion
   tracker is left behind. *)
OkAnnouncesAll == result = "ok" => \A t \in Tables : fired[t]

(* The buffer respects BufferBytes, but for one batch that is larger. *)
BufferBound ==
  \/ CurBytes <= GlobalMax
  \/ \E t \in Tables : Len(items[t]) = 1 /\ CurBytes = Weight[t]

(* Whatever fails or stops, and whenever, the pipeline ends: no reader is left
   blocked in Put and no writer in GetUntil. *)
Terminates == <>(result # "running")
=============================================================================
