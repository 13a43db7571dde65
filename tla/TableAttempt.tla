---------------------------- MODULE TableAttempt ----------------------------
(***************************************************************************)
(* One table of a full load with staging and read retries: the attempts of *)
(* readTableWithRetry, the in-flight barrier of tableStateTracker, the     *)
(* chunk scheduler and the error book of readCoordinator, the staging      *)
(* tables of staging.go, and the writers as far as they count batches.     *)
(*                                                                         *)
(*  top -> (barrier ->) start -> create -> (prepare ->) plan               *)
(*      -> wait -> drained -> publish -> record -> ok                      *)
(*               \-> failed -> top | giveup -> error                       *)
(*                                                                         *)
(* A chunk reader takes a chunk from the scheduler, looks up the attempt   *)
(* that is registered, and enqueues batches that carry it; it may outlive  *)
(* its attempt.  A writer drops what belongs to an older attempt and       *)
(* writes the rest into the staging table of the attempt it carries.       *)
(* Covered: several readers and writers, read, write, commit and DDL       *)
(* errors, a save that fails, timeouts of the barrier, the failure of      *)
(* another table, a user's stop, a crash and the run after it.  Not        *)
(* covered: the limits of the queue and of the read budget (see            *)
(* FullLoadPipeline), replays and lost answers in a writer (WriterTx).     *)
(***************************************************************************)
EXTENDS Integers, Sequences, FiniteSets, FiniteSetsExt

CONSTANTS
  Chunks,      \* 1..n
  BatchesOf,   \* the batches of a chunk
  Readers, Writers,
  MaxRetries,  \* read_retry_times
  BufferSize,  \* batches in a transaction at most (a bound)
  Faults,      \* a subset of {"read", "plan", "write", "ddl", "save", "other", "stop", "crash"}
  MaxFaults, MaxRuns, FaultyRuns  \* bounds; faults come in the first runs

ASSUME AttemptAssumption ==
  /\ Chunks \in SUBSET (Nat \ {0}) /\ IsFiniteSet(Chunks) /\ Chunks # {}
  /\ BatchesOf \in [Chunks -> Nat \ {0}]
  /\ IsFiniteSet(Readers) /\ IsFiniteSet(Writers)
  /\ {MaxRetries, MaxFaults} \subseteq Nat
  /\ {BufferSize, MaxRuns, FaultyRuns} \subseteq Nat \ {0}

Attempts == 1..(MaxRetries + 1)
Batch == [att : Attempts, c : Chunks, i : Nat]
Row == [c : Chunks, i : Nat]

VARIABLES
  run, faults, stopped, ctxEnded,   \* the task, and the context of the readers
  pc, prev, readErr,                \* readTableWithRetry
  att, inflight, phase, disk,       \* TableLoadState, and its phase as saved
  todo, active,                     \* chunkScheduler, the entry of the table
  regAtt, regCtx, tabErr, ended,    \* readCoordinator; attempts cancelled
  rpc, job,                         \* the chunk readers
  queue, wpc, hand, buf, wCtxEnded, \* the batch queue and the writers
  staging, rows, twice, final,      \* the target; the batches it holds twice
  marred                            \* why the attempt may be incomplete

taskVars == <<run, faults, stopped, ctxEnded>>
mainVars == <<pc, prev, readErr>>
stateVars == <<att, inflight, phase, disk>>
schedVars == <<todo, active>>
coordVars == <<regAtt, regCtx, tabErr, ended>>
readVars == <<rpc, job>>
writeVars == <<wpc, hand, buf, wCtxEnded>>
dbVars == <<staging, rows, twice, final>>
vars == <<taskVars, mainVars, stateVars, schedVars, coordVars, readVars, queue,
          writeVars, dbVars, marred>>

NoJob == [c |-> 0, att |-> 0, ctx |-> 0, i |-> 0, err |-> "none"]
NoBatch == [att |-> 0, c |-> 0, i |-> 0]

Fresh ==
  /\ stopped = FALSE /\ ctxEnded = FALSE /\ wCtxEnded = FALSE
  /\ prev = 0 /\ readErr = "none"
  /\ att = 0 /\ inflight = 0
  /\ todo = {} /\ active = 0
  /\ regAtt = 0 /\ regCtx = 0 /\ tabErr = "none" /\ ended = {}
  /\ rpc = [r \in Readers |-> "idle"] /\ job = [r \in Readers |-> NoJob]
  /\ queue = <<>>
  /\ wpc = [w \in Writers |-> "get"] /\ hand = [w \in Writers |-> NoBatch]
  /\ buf = [w \in Writers |-> <<>>]
  /\ marred = {}

Init ==
  /\ Fresh /\ run = 1 /\ faults = 0
  /\ pc = "top" /\ phase = "PENDING" /\ disk = "PENDING"
  /\ staging = {} /\ rows = [a \in Attempts |-> {}] /\ twice = [a \in Attempts |-> {}]
  /\ final = [rows |-> {}, twice |-> {}, published |-> FALSE, marred |-> {}]

Fault(k) ==
  /\ k \in Faults /\ run <= FaultyRuns
  /\ faults < MaxFaults /\ faults' = faults + 1

-----------------------------------------------------------------------------
(* tableStateTracker.                                                      *)

CtxDone(a) == ctxEnded \/ a \in ended
IsCurrent(a) == att = a
NoFloor(n) == n
Floor0(n) == IF n > 0 THEN n ELSE 0
Release(a, n) == inflight' = IF IsCurrent(a) THEN Floor0(inflight - n) ELSE inflight

(* notifyChange: the callback saves the task, and a save that fails ends   *)
(* the load of the table.                                                  *)
SavedAs(p, next) ==
  /\ phase' = p
  /\ \/ disk' = p /\ pc' = next /\ UNCHANGED <<faults, ctxEnded>>
     \/ Fault("save") /\ pc' = "error" /\ ctxEnded' = TRUE /\ UNCHANGED disk

MainFails == pc' = "error" /\ ctxEnded' = TRUE

-----------------------------------------------------------------------------
(* readTableWithRetry.                                                     *)

OpenOn(a) ==
  \E w \in Writers : wpc[w] # "report" /\ \E k \in 1..Len(buf[w]) : buf[w][k].att = a

Top ==
  /\ pc = "top"
  /\ IF ctxEnded \/ stopped THEN MainFails
     ELSE pc' = (IF prev > 0 THEN "barrier" ELSE "start") /\ UNCHANGED ctxEnded
  /\ UNCHANGED <<run, faults, stopped, prev, readErr, stateVars, schedVars, coordVars,
                 readVars, queue, writeVars, dbVars, marred>>

Emptied(a) == rows' = [rows EXCEPT ![a] = {}] /\ twice' = [twice EXCEPT ![a] = {}]

(* DROP TABLE IF EXISTS; its error is ignored, and it waits for open       *)
(* transactions on the table.                                              *)
DropStaging(a) ==
  \/ ~OpenOn(a) /\ ~ctxEnded /\ UNCHANGED faults
       /\ staging' = staging \ {a} /\ Emptied(a)
  \/ ctxEnded /\ UNCHANGED <<faults, staging, rows, twice>>
  \/ Fault("ddl") /\ UNCHANGED <<staging, rows, twice>>

AlmostDrained == inflight <= 1
Drained == inflight = 0

Barrier ==
  /\ pc = "barrier" /\ Drained
  /\ DropStaging(prev)
  /\ pc' = "start"
  /\ UNCHANGED <<run, stopped, ctxEnded, prev, readErr, stateVars, schedVars, coordVars,
                 readVars, queue, writeVars, final, marred>>

(* waitInflightZero gives up after five minutes. *)
BarrierTimesOut ==
  /\ pc \in {"barrier", "drained"} /\ inflight > 0
  /\ MainFails
  /\ UNCHANGED <<run, faults, stopped, prev, readErr, stateVars, schedVars, coordVars,
                 readVars, queue, writeVars, dbVars, marred>>

(* A chunk nobody has taken, a reader at work, or a batch a writer has     *)
(* taken, outlives its attempt.                                            *)
Outlives ==
  \/ todo # {}
  \/ \E r \in Readers : rpc[r] # "idle"
  \/ \E w \in Writers : wpc[w] = "write" \/ buf[w] # <<>>

StartAttempt ==
  /\ pc = "start"
  /\ att' = att + 1 /\ inflight' = 0
  /\ SavedAs("SNAPSHOT_OPENING", "create")
  /\ marred' = IF Outlives THEN {"outlived"} ELSE {}
  /\ UNCHANGED <<run, stopped, prev, readErr, schedVars, coordVars, readVars,
                 queue, writeVars, dbVars>>

KeepsLeftovers(a) == staging' = staging \cup {a} /\ UNCHANGED <<rows, twice>>

(* CREATE TABLE IF NOT EXISTS ... LIKE, then TRUNCATE; setStagingTable and *)
(* transitionTo save one after the other.                                  *)
CreateStaging(a) == staging' = staging \cup {a} /\ Emptied(a)

Create ==
  /\ pc = "create" /\ ~ctxEnded
  /\ CreateStaging(att)
  /\ SavedAs("COPYING", IF att > 1 THEN "prepare" ELSE "plan")
  /\ UNCHANGED <<run, stopped, prev, readErr, att, inflight, schedVars, coordVars,
                 readVars, queue, writeVars, final, marred>>

CreateFails ==
  /\ pc = "create"
  /\ Fault("ddl") \/ (ctxEnded /\ UNCHANGED faults)
  /\ staging' \in {staging, staging \cup {att}}
  /\ MainFails
  /\ UNCHANGED <<run, stopped, prev, readErr, stateVars, schedVars, coordVars,
                 readVars, queue, writeVars, rows, twice, final, marred>>

(* prepareTableRetry: the scheduler forgets the table, the coordinator its *)
(* error and the context of the old attempt.                               *)
PrepareRetry ==
  /\ pc = "prepare"
  /\ todo' = {} /\ active' = 0
  /\ regCtx' = 0 /\ tabErr' = "none"
  /\ pc' = "plan"
  /\ UNCHANGED <<taskVars, prev, readErr, stateVars, regAtt, ended, readVars, queue,
                 writeVars, dbVars, marred>>

(* submitTable registers the attempt and hands the chunks over.  A chunk   *)
(* of the attempt before it that a reader has picked and not looked up yet *)
(* is then read for this one, besides the reader that picks it again.      *)
Submit ==
  /\ pc = "plan"
  /\ regAtt' = att /\ regCtx' = att
  /\ todo' = Chunks
  /\ marred' = marred \cup IF \E r \in Readers : rpc[r] = "lookup" THEN {"early"} ELSE {}
  /\ pc' = "wait"
  /\ UNCHANGED <<taskVars, prev, readErr, stateVars, active, tabErr, ended, readVars,
                 queue, writeVars, dbVars>>

ReadReturns(e) ==
  /\ readErr' = e
  /\ ended' = ended \cup {att}
  /\ pc' = IF e = "none" THEN "drained" ELSE "failed"

PlanFails ==
  /\ pc = "plan"
  /\ \/ Fault("plan") /\ \E e \in {"retryable", "fatal"} : ReadReturns(e)
     \/ ctxEnded /\ ReadReturns("canceled") /\ UNCHANGED faults
  /\ UNCHANGED <<run, stopped, ctxEnded, prev, stateVars, schedVars, regAtt, regCtx,
                 tabErr, readVars, queue, writeVars, dbVars, marred>>

(* The loop of submitTable: nothing pending, an error in the book, or a    *)
(* context that is done, whichever it sees first.                          *)
Pending == Cardinality(todo) + active
Wait ==
  /\ pc = "wait"
  /\ \/ Pending = 0 /\ ReadReturns("none")
     \/ tabErr # "none" /\ ReadReturns(tabErr)
     \/ CtxDone(att) /\ ReadReturns("canceled")
  /\ regCtx' = 0
  /\ UNCHANGED <<taskVars, prev, stateVars, schedVars, regAtt, tabErr, readVars, queue,
                 writeVars, dbVars, marred>>

DataReady ==
  /\ pc = "drained" /\ Drained
  /\ SavedAs("DATA_READY", "publish")
  /\ UNCHANGED <<run, stopped, prev, readErr, att, inflight, schedVars, coordVars,
                 readVars, queue, writeVars, dbVars, marred>>

(* RENAME TABLE, which waits for open transactions. *)
Publish ==
  /\ pc = "publish" /\ ~ctxEnded /\ ~OpenOn(att)
  /\ final' = [rows |-> rows[att], twice |-> twice[att], published |-> TRUE, marred |-> marred]
  /\ staging' = staging \ {att} /\ Emptied(att)
  /\ pc' = "record"
  /\ UNCHANGED <<taskVars, prev, readErr, stateVars, schedVars, coordVars, readVars,
                 queue, writeVars, marred>>

PublishFails ==
  /\ pc = "publish"
  /\ Fault("ddl") \/ (ctxEnded /\ UNCHANGED faults)
  /\ MainFails
  /\ UNCHANGED <<run, stopped, prev, readErr, stateVars, schedVars, coordVars, readVars,
                 queue, writeVars, dbVars, marred>>

Record ==
  /\ pc = "record"
  /\ SavedAs("PUBLISHED", "ok")
  /\ UNCHANGED <<run, stopped, prev, readErr, att, inflight, schedVars, coordVars,
                 readVars, queue, writeVars, dbVars, marred>>

MayRetry == readErr = "retryable" /\ att <= MaxRetries

(* recordError, then the backoff or the end. *)
Failed ==
  /\ pc = "failed"
  /\ SavedAs("FAILED", IF MayRetry THEN "top" ELSE "giveup")
  /\ prev' = att /\ readErr' = "none"
  /\ UNCHANGED <<run, stopped, att, inflight, schedVars, coordVars,
                 readVars, queue, writeVars, dbVars, marred>>

(* Here a barrier that timed out is only logged. *)
GiveUp ==
  /\ pc = "giveup"
  /\ DropStaging(att)
  /\ MainFails
  /\ UNCHANGED <<run, stopped, prev, readErr, stateVars, schedVars, coordVars,
                 readVars, queue, writeVars, final, marred>>

MainStep ==
  \/ Top \/ Barrier \/ BarrierTimesOut \/ StartAttempt \/ Create \/ CreateFails
  \/ PrepareRetry \/ Submit \/ PlanFails \/ Wait \/ DataReady
  \/ Publish \/ PublishFails \/ Record \/ Failed \/ GiveUp

-----------------------------------------------------------------------------
(* workerLoop and readChunk.                                               *)

ReadFrame == UNCHANGED <<run, mainVars, att, phase, disk, writeVars, dbVars>>
Goes(r, p) == rpc' = [rpc EXCEPT ![r] = p]
Rests(r) == Goes(r, "idle") /\ job' = [job EXCEPT ![r] = NoJob]
EndsWith(r, e) == Goes(r, "mark") /\ job' = [job EXCEPT ![r].err = e]

Pick(r) ==
  /\ rpc[r] = "idle" /\ todo # {} /\ ~ctxEnded
  /\ todo' = todo \ {Min(todo)} /\ active' = active + 1
  /\ job' = [job EXCEPT ![r] = [NoJob EXCEPT !.c = Min(todo), !.i = 1]]
  /\ Goes(r, "lookup")
  /\ ReadFrame /\ UNCHANGED <<faults, stopped, ctxEnded, inflight, coordVars, queue, marred>>

(* The attempt and its context; without one the context of the workers.    *)
(* A context that is done already ends the chunk without an error.         *)
LookUp(r) ==
  /\ rpc[r] = "lookup"
  /\ job' = [job EXCEPT ![r].att = regAtt, ![r].ctx = regCtx]
  /\ Goes(r, IF CtxDone(regCtx) THEN "mark" ELSE "read")
  /\ ReadFrame /\ UNCHANGED <<faults, stopped, ctxEnded, inflight, schedVars, coordVars, queue, marred>>

SeesStop(r) ==
  /\ rpc[r] = "read" /\ stopped
  /\ ctxEnded' = TRUE
  /\ EndsWith(r, "none")
  /\ ReadFrame /\ UNCHANGED <<faults, stopped, inflight, schedVars, coordVars, queue, marred>>

SeesCancel(r) ==
  /\ rpc[r] = "read" /\ ~stopped /\ CtxDone(job[r].ctx)
  /\ EndsWith(r, "canceled")
  /\ ReadFrame /\ UNCHANGED <<faults, stopped, ctxEnded, inflight, schedVars, coordVars, queue, marred>>

(* A reader that had begun its query when the stop came reads on. *)
ChunkRead(r) ==
  /\ rpc[r] = "read" /\ job[r].i > BatchesOf[job[r].c]
  /\ EndsWith(r, "none")
  /\ ReadFrame /\ UNCHANGED <<faults, stopped, ctxEnded, inflight, schedVars, coordVars, queue, marred>>

(* onBatchEnqueued counts the batch before Put; it refuses an old attempt. *)
Read(r) ==
  /\ rpc[r] = "read" /\ job[r].i <= BatchesOf[job[r].c]
  /\ IF IsCurrent(job[r].att)
     THEN inflight' = inflight + 1 /\ Goes(r, "put") /\ UNCHANGED job
     ELSE EndsWith(r, "fatal") /\ UNCHANGED inflight
  /\ ReadFrame /\ UNCHANGED <<faults, stopped, ctxEnded, schedVars, coordVars, queue, marred>>

ReadFails(r) ==
  /\ rpc[r] = "read" /\ Fault("read")
  /\ \E e \in {"retryable", "fatal"} : EndsWith(r, e)
  /\ marred' = IF IsCurrent(job[r].att) THEN marred \cup {"readError"} ELSE marred
  /\ ReadFrame /\ UNCHANGED <<stopped, ctxEnded, inflight, schedVars, coordVars, queue>>

Put(r) ==
  /\ rpc[r] = "put" /\ ~CtxDone(job[r].ctx)
  /\ queue' = Append(queue, [att |-> job[r].att, c |-> job[r].c, i |-> job[r].i])
  /\ job' = [job EXCEPT ![r].i = @ + 1]
  /\ Goes(r, "read")
  /\ ReadFrame /\ UNCHANGED <<faults, stopped, ctxEnded, inflight, schedVars, coordVars, marred>>

PutFails(r) ==
  /\ rpc[r] = "put" /\ CtxDone(job[r].ctx)
  /\ Release(job[r].att, 1)
  /\ EndsWith(r, "canceled")
  /\ ReadFrame /\ UNCHANGED <<faults, stopped, ctxEnded, schedVars, coordVars, queue, marred>>

(* markDone comes before the error is booked, and knows no attempts. *)
MarkDone(r) ==
  /\ rpc[r] = "mark"
  /\ active' = Floor0(active - 1)
  /\ IF job[r].err = "none" THEN Rests(r) ELSE Goes(r, "book") /\ UNCHANGED job
  /\ ReadFrame
  /\ UNCHANGED <<faults, stopped, ctxEnded, inflight, todo, coordVars, queue, marred>>

Prefer(e, f) == IF e = "none" \/ (e = "canceled" /\ f # "canceled") THEN f ELSE e

SetTableErr(r) ==
  /\ rpc[r] = "book"
  /\ IF regAtt # job[r].att THEN Rests(r) /\ UNCHANGED tabErr
     ELSE Goes(r, "cancel") /\ tabErr' = Prefer(tabErr, job[r].err) /\ UNCHANGED job
  /\ ReadFrame
  /\ UNCHANGED <<faults, stopped, ctxEnded, inflight, schedVars, regAtt, regCtx, ended, queue, marred>>

(* cancelTableAttempt, then markTableFailed, which compares the attempts   *)
(* under one lock and empties the scheduler's entry under another.         *)
CancelAttempt(r) ==
  /\ rpc[r] = "cancel"
  /\ IF regAtt = job[r].att THEN Goes(r, "drop") /\ UNCHANGED job ELSE Rests(r)
  /\ ended' = IF regAtt = job[r].att /\ regCtx # 0 THEN ended \cup {regCtx} ELSE ended
  /\ ReadFrame
  /\ UNCHANGED <<faults, stopped, ctxEnded, inflight, schedVars, regAtt, regCtx, tabErr, queue, marred>>

DropChunks(r) ==
  /\ rpc[r] = "drop"
  /\ todo' = {} /\ active' = 0
  /\ Rests(r)
  /\ ReadFrame
  /\ UNCHANGED <<faults, stopped, ctxEnded, inflight, coordVars, queue, marred>>

ReaderStep(r) ==
  \/ Pick(r) \/ LookUp(r) \/ SeesStop(r) \/ SeesCancel(r) \/ ChunkRead(r) \/ Read(r)
  \/ ReadFails(r) \/ Put(r) \/ PutFails(r) \/ MarkDone(r) \/ SetTableErr(r)
  \/ CancelAttempt(r) \/ DropChunks(r)

-----------------------------------------------------------------------------
(* writerLoop, as far as it counts the batches of attempts.                *)

WriteFrame == UNCHANGED <<run, stopped, ctxEnded, mainVars, att, phase, disk, schedVars,
                          coordVars, readVars, wCtxEnded, staging, final>>
Stays == UNCHANGED <<rows, twice>>
Writes(w, p) == wpc' = [wpc EXCEPT ![w] = p]
NewBuf(w, s) == buf' = [buf EXCEPT ![w] = s]

WriterStopped == wCtxEnded \/ stopped

(* A batch of an older attempt is released and dropped. *)
Take(w) ==
  /\ wpc[w] = "get" /\ ~WriterStopped
  /\ queue # <<>> /\ Len(buf[w]) < BufferSize
  /\ queue' = Tail(queue)
  /\ IF IsCurrent(Head(queue).att)
     THEN Writes(w, "write") /\ hand' = [hand EXCEPT ![w] = Head(queue)] /\ UNCHANGED inflight
     ELSE Release(Head(queue).att, 1) /\ UNCHANGED <<wpc, hand>>
  /\ WriteFrame /\ UNCHANGED <<faults, buf, marred>> /\ Stays

Write(w) ==
  /\ wpc[w] = "write" /\ hand[w].att \in staging
  /\ NewBuf(w, Append(buf[w], hand[w]))
  /\ hand' = [hand EXCEPT ![w] = NoBatch]
  /\ Writes(w, "get")
  /\ WriteFrame /\ UNCHANGED <<faults, inflight, queue, marred>> /\ Stays

(* rollback() releases the batches of the transaction, a replay that fails *)
(* and the batch in hand release nothing.                                  *)
WriteFails(w) ==
  /\ wpc[w] = "write"
  /\ Fault("write") \/ (hand[w].att \notin staging /\ UNCHANGED faults)
  /\ inflight' \in {inflight, Floor0(inflight - Len(buf[w]))}
  /\ NewBuf(w, <<>>)
  /\ hand' = [hand EXCEPT ![w] = NoBatch]
  /\ Writes(w, "failed")
  /\ WriteFrame /\ UNCHANGED <<queue, marred>> /\ Stays

RowOf(b) == [c |-> b.c, i |-> b.i]
RowsOf(s, a) == {RowOf(s[k]) : k \in {j \in 1..Len(s) : s[j].att = a}}
Doubled(s, a) ==
  {x \in RowsOf(s, a) :
     \/ x \in rows[a]
     \/ \E j, k \in 1..Len(s) : j # k /\ s[j] = s[k] /\ s[k].att = a /\ x = RowOf(s[k])}

(* Plain INSERTs: what is there already is there twice, unless a unique    *)
(* key of the copy makes the statement fail (WriteFails).                  *)
Inserted(s) ==
  /\ rows' = [a \in Attempts |-> rows[a] \cup RowsOf(s, a)]
  /\ twice' = [a \in Attempts |-> twice[a] \cup Doubled(s, a)]

Commit(w) ==
  /\ wpc[w] = "get" /\ buf[w] # <<>> /\ ~WriterStopped
  /\ Inserted(buf[w])
  /\ Writes(w, "report")
  /\ WriteFrame /\ UNCHANGED <<faults, inflight, queue, hand, buf, marred>>

CommitFails(w) ==
  /\ wpc[w] = "get" /\ buf[w] # <<>> /\ ~WriterStopped /\ Fault("write")
  /\ Stays \/ Inserted(buf[w])
  /\ NewBuf(w, <<>>)
  /\ Writes(w, "failed")
  /\ WriteFrame /\ UNCHANGED <<inflight, queue, hand, marred>>

(* reportCommitted counts all batches under the attempt of the last one.   *)
Report(w) ==
  /\ wpc[w] = "report"
  /\ Release(buf[w][Len(buf[w])].att, Len(buf[w]))
  /\ NewBuf(w, <<>>)
  /\ Writes(w, "get")
  /\ WriteFrame /\ UNCHANGED <<faults, queue, hand, marred>> /\ Stays

WriterLeaves(w) ==
  /\ wpc[w] = "get" /\ WriterStopped
  /\ inflight' = Floor0(inflight - Cardinality({k \in 1..Len(buf[w]) : IsCurrent(buf[w][k].att)}))
  /\ marred' = IF buf[w] = <<>> THEN marred ELSE marred \cup {"rolledBack"}
  /\ NewBuf(w, <<>>)
  /\ Writes(w, "ended")
  /\ WriteFrame /\ UNCHANGED <<faults, queue, hand>> /\ Stays

WriterStep(w) ==
  \/ Take(w) \/ Write(w) \/ WriteFails(w) \/ Commit(w) \/ CommitFails(w)
  \/ Report(w) \/ WriterLeaves(w)

-----------------------------------------------------------------------------
(* The engine stops the writers at the first error, and then the readers;  *)
(* a stop cancels both.  Another table of the run may fail too.            *)

EngineFrame == UNCHANGED <<run, mainVars, stateVars, schedVars, coordVars, readVars,
                           queue, wpc, hand, buf, dbVars, marred>>

EngineStopsWriters ==
  /\ ~wCtxEnded
  /\ stopped \/ ctxEnded \/ \E w \in Writers : wpc[w] = "failed"
  /\ wCtxEnded' = TRUE
  /\ EngineFrame /\ UNCHANGED <<faults, stopped, ctxEnded>>

EngineStopsReaders ==
  /\ wCtxEnded /\ ~ctxEnded
  /\ ctxEnded' = TRUE
  /\ EngineFrame /\ UNCHANGED <<faults, stopped, wCtxEnded>>

OtherTableFails ==
  /\ ~wCtxEnded /\ pc \notin {"ok", "error"} /\ Fault("other")
  /\ wCtxEnded' = TRUE
  /\ EngineFrame /\ UNCHANGED <<stopped, ctxEnded>>

UserStops ==
  /\ ~stopped /\ pc \notin {"ok", "error"} /\ Fault("stop")
  /\ stopped' = TRUE
  /\ EngineFrame /\ UNCHANGED <<ctxEnded, wCtxEnded>>

Settled ==
  /\ \A r \in Readers : rpc[r] = "idle"
  /\ \A w \in Writers : wpc[w] \in {"ended", "failed"}

(* A crash, or the end of a failed run; the next run skips a table that is *)
(* saved as PUBLISHED, and has dropped the staging tables it knows of.     *)
NextRun ==
  /\ run < MaxRuns /\ run' = run + 1
  /\ \/ pc = "error" /\ Settled /\ UNCHANGED faults
     \/ pc \notin {"ok", "error"} /\ Fault("crash")
  /\ stopped' = FALSE /\ ctxEnded' = FALSE /\ wCtxEnded' = FALSE
  /\ prev' = 0 /\ readErr' = "none" /\ att' = 0 /\ inflight' = 0
  /\ todo' = {} /\ active' = 0
  /\ regAtt' = 0 /\ regCtx' = 0 /\ tabErr' = "none" /\ ended' = {}
  /\ rpc' = [r \in Readers |-> "idle"] /\ job' = [r \in Readers |-> NoJob]
  /\ queue' = <<>> /\ marred' = {}
  /\ wpc' = [w \in Writers |-> "get"] /\ hand' = [w \in Writers |-> NoBatch]
  /\ buf' = [w \in Writers |-> <<>>]
  /\ pc' = IF disk = "PUBLISHED" THEN "ok" ELSE "top"
  /\ phase' = IF disk = "PUBLISHED" THEN disk ELSE "PENDING"
  /\ \/ UNCHANGED staging /\ Stays
     \/ staging' = {} /\ rows' = [a \in Attempts |-> {}] /\ twice' = rows'
  /\ UNCHANGED <<disk, final>>

EngineStep == EngineStopsWriters \/ EngineStopsReaders

Next ==
  \/ MainStep \/ EngineStep
  \/ \E r \in Readers : ReaderStep(r)
  \/ \E w \in Writers : WriterStep(w)
  \/ OtherTableFails \/ UserStops \/ NextRun

(* Every goroutine goes on; the engine watches its writers and the task.   *)
Spec ==
  /\ Init /\ [][Next]_vars
  /\ WF_vars(MainStep) /\ WF_vars(EngineStep)
  /\ \A r \in Readers : WF_vars(ReaderStep(r))
  /\ \A w \in Writers : WF_vars(WriterStep(w))

-----------------------------------------------------------------------------
SourceRows == UNION {{[c |-> c, i |-> i] : i \in 1..BatchesOf[c]} : c \in Chunks}

TypeOK ==
  /\ run \in 1..MaxRuns /\ faults \in 0..MaxFaults
  /\ att \in 0..(MaxRetries + 1) /\ prev \in {0, att, att - 1}
  /\ regAtt \in 0..att /\ regCtx \in {0, att}
  /\ todo \subseteq Chunks /\ active \in 0..Cardinality(Readers)
  /\ inflight \in Nat
  /\ \A w \in Writers : \A k \in 1..Len(buf[w]) : buf[w][k] \in Batch
  /\ staging \subseteq Attempts
  /\ \A a \in Attempts : rows[a] \subseteq Row /\ (a \notin staging => rows[a] = {})
  /\ \A a \in Attempts : twice[a] \subseteq rows[a]
  /\ final.rows \subseteq Row

(* No batch is twice in the staging table of the attempt that is          *)
(* registered, nor in the published table: what a crashed run or an        *)
(* earlier attempt left in a staging table of the same name is gone before *)
(* the next rows come, a chunk is read by one reader, and a batch is       *)
(* committed by one writer.  Excepted is an attempt that was submitted     *)
(* while a reader held a chunk it had not looked up the attempt of.        *)
StagedOnce ==
  /\ att > 0 /\ regAtt = att /\ "early" \notin marred => twice[att] = {}
  /\ final.published /\ "early" \notin final.marred => final.twice = {}

(* options.go: retries stage their rows, that nothing is there twice.      *)
(* A chunk picked for the failed attempt and read for the next breaks it.  *)
NothingTwice == final.published => final.twice = {}

(* A published table has every row, whatever failed before: retries,       *)
(* writers, commits, saves, crashes between RENAME and the record of it.   *)
(* Known causes excepted: a read error of this very attempt that the wait  *)
(* did not see, a chunk, a reader or a taken batch that outlived the       *)
(* attempt before it, and a transaction rolled back by a stop or another   *)
(* table's failure.                                                        *)
(* Batches of that attempt still in the queue do no harm.                  *)
PublishedIsComplete ==
  final.published /\ final.marred = {} => final.rows = SourceRows

(* table_state.go: the data are committed and the staging table is ready.  *)
(* An error of the last chunk breaks it.                                   *)
PublishedHasEverything == final.published => final.rows = SourceRows

(* Every load of a table ends, published or with an error. *)
Terminates == <>[](pc \in {"ok", "error"})
=============================================================================
