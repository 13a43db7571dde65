------------------------- MODULE TableAttemptProofs -------------------------
(***************************************************************************)
(* Theorems of TableAttempt, for any number of chunks, batches, readers,   *)
(* writers, retries, faults and runs.                                      *)
(*                                                                         *)
(*  Typed    the types, and where an attempt number can stand              *)
(*  Once     a table the present attempt may write into was emptied before *)
(*           it was registered; from then on, unless a chunk had been      *)
(*           picked early, a batch of it is in one place at most: ahead of *)
(*           one reader, in the queue, with one writer, or in the table    *)
(*  Whole    as long as nothing mars the attempt, its in-flight counter is *)
(*           at least the number of batches on their way, greater when one *)
(*           was lost, and until the data are ready every row is ahead of  *)
(*           a reader, on its way, in the staging table, or kept out of it *)
(*           by a counter that can not get to zero                         *)
(***************************************************************************)
EXTENDS TableAttempt, FiniteSetTheorems, WellFoundedInduction, TLAPS

Errors == {"none", "retryable", "fatal", "canceled"}
Pcs == {"top", "barrier", "start", "create", "prepare", "plan", "wait", "drained",
        "publish", "record", "failed", "giveup", "ok", "error"}
ReaderPcs == {"idle", "lookup", "read", "put", "mark", "book", "cancel", "drop"}
WriterPcs == {"get", "write", "report", "failed", "ended"}
Causes == {"outlived", "early", "readError", "rolledBack"}
Job == [c : Chunks \cup {0}, att : 0..(MaxRetries + 1), ctx : 0..(MaxRetries + 1),
        i : Nat, err : Errors]

Idle(r) == rpc[r] = "idle"
Quiet == todo = {} /\ \A r \in Readers : Idle(r)
Busy == {r \in Readers : rpc[r] \in {"lookup", "read", "put", "mark"}}
Source(c, i) == c \in Chunks /\ i \in 1..BatchesOf[c]

-----------------------------------------------------------------------------
(* The task and its attempt. *)
TaskType ==
  /\ run \in 1..MaxRuns /\ faults \in 0..MaxFaults
  /\ pc \in Pcs /\ readErr \in Errors
  /\ att \in 0..(MaxRetries + 1) /\ prev \in {0, att, att - 1}
  /\ pc \in {"top", "barrier", "start"} => prev = att /\ att <= MaxRetries
  /\ pc \notin {"top", "barrier", "start", "ok", "error"} => att \in Attempts
  /\ inflight \in Nat
  /\ marred \subseteq Causes

(* The scheduler and the coordinator. *)
CoordType ==
  /\ todo \subseteq Chunks
  /\ active \in Nat /\ active <= Cardinality(Busy)
  /\ regAtt \in 0..att
  /\ pc \in {"create", "prepare", "plan"} => regAtt < att /\ att \notin ended
  /\ pc = "wait" => regAtt = att /\ regCtx = att
  /\ regAtt = 0 => Quiet /\ active = 0 /\ tabErr = "none"
  /\ regCtx # 0 => pc = "wait" /\ regCtx = att
  /\ regCtx \in {0, att}
  /\ tabErr \in Errors
  /\ ended \subseteq 1..att

JobType ==
  /\ rpc \in [Readers -> ReaderPcs]
  /\ job \in [Readers -> Job]
  /\ \A r \in Readers :
       /\ rpc[r] \in {"lookup", "read", "put"} => job[r].c \in Chunks /\ job[r].i >= 1
       /\ rpc[r] \notin {"idle", "lookup"} => job[r].att \in 1..regAtt
       /\ rpc[r] = "lookup" => job[r].i = 1 /\ job[r].err = "none"
       /\ rpc[r] = "put" => job[r].i <= BatchesOf[job[r].c]

(* A batch on its way is one of the source, of an attempt that was begun. *)
Real(b) == b \in Batch /\ b.att <= regAtt /\ Source(b.c, b.i)

WriteType ==
  /\ queue \in Seq(Batch) /\ \A k \in 1..Len(queue) : Real(queue[k])
  /\ wpc \in [Writers -> WriterPcs]
  /\ hand \in [Writers -> Batch \cup {NoBatch}]
  /\ buf \in [Writers -> Seq(Batch)]
  /\ \A w \in Writers :
       /\ wpc[w] = "write" => Real(hand[w])
       /\ wpc[w] # "write" => hand[w] = NoBatch
       /\ \A k \in 1..Len(buf[w]) : Real(buf[w][k])
       /\ wpc[w] \in {"failed", "ended"} => buf[w] = <<>>
       /\ wpc[w] = "report" => buf[w] # <<>>

RowsType ==
  /\ staging \subseteq Attempts
  /\ rows \in [Attempts -> SUBSET Row]
  /\ \A a \in Attempts : a \notin staging => rows[a] = {}
  /\ \A a \in Attempts : \A x \in rows[a] : Source(x.c, x.i)
  /\ twice \in [Attempts -> SUBSET Row]
  /\ \A a \in Attempts : twice[a] \subseteq rows[a]
  /\ \A w \in Writers : wpc[w] # "report" =>
       \A k \in 1..Len(buf[w]) : buf[w][k].att \in staging
  /\ final \in [rows : SUBSET Row, twice : SUBSET Row, published : BOOLEAN, marred : SUBSET Causes]
  /\ \A x \in final.rows : Source(x.c, x.i)

Typed == TaskType /\ CoordType /\ JobType /\ WriteType /\ RowsType

-----------------------------------------------------------------------------
(* What a reader has still to enqueue for the present attempt, and what a   *)
(* writer has taken and not committed.                                     *)
Holds(r) == rpc[r] = "lookup" \/ (rpc[r] \in {"read", "put"} /\ job[r].att = att)
ToRead(c, i) ==
  c \in todo \/ \E r \in Readers : Holds(r) /\ job[r].c = c /\ job[r].i <= i
Queued(b) == \E k \in 1..Len(queue) : queue[k] = b
Taken(w, b) ==
  \/ wpc[w] = "write" /\ hand[w] = b
  \/ wpc[w] # "report" /\ \E k \in 1..Len(buf[w]) : buf[w][k] = b
Untaken(b) == \A w \in Writers : ~Taken(w, b)
There(b) == RowOf(b) \in rows[att]
Ours == {b \in Batch : b.att = att}

(* A batch of the present attempt is in one place at most. *)
OneReader ==
  /\ \A r \in Readers : Holds(r) => job[r].c \notin todo
  /\ \A r, q \in Readers : Holds(r) /\ Holds(q) /\ r # q => job[r].c # job[q].c
NotYetRead == \A b \in Ours : ToRead(b.c, b.i) => ~Queued(b) /\ Untaken(b) /\ ~There(b)
OnceQueued ==
  /\ \A b \in Ours : Queued(b) => Untaken(b) /\ ~There(b)
  /\ \A j, k \in 1..Len(queue) : j # k /\ queue[k].att = att => queue[j] # queue[k]
OneWriter ==
  /\ \A b \in Ours : \A w \in Writers :
       Taken(w, b) => ~There(b) /\ \A v \in Writers : v # w => ~Taken(v, b)
  /\ \A w \in Writers : wpc[w] # "report" =>
       /\ \A j, k \in 1..Len(buf[w]) : j # k /\ buf[w][k].att = att => buf[w][j] # buf[w][k]
       /\ \A k \in 1..Len(buf[w]) : wpc[w] = "write" /\ buf[w][k].att = att => buf[w][k] # hand[w]

Alone == OneReader /\ NotYetRead /\ OnceQueued /\ OneWriter /\ twice[att] = {}
Registered == att > 0 /\ regAtt = att

Once ==
  /\ pc \in {"prepare", "plan"} => rows[att] = {}
  /\ pc \in {"wait", "drained", "publish"} => Registered
  /\ Registered /\ "early" \notin marred => Alone
  /\ final.published = TRUE /\ "early" \notin final.marred => final.twice = {}

-----------------------------------------------------------------------------
(* The places where a batch of the present attempt can be. *)
InPut == {r \in Readers : rpc[r] = "put" /\ job[r].att = att}
InQueue == {k \in 1..Len(queue) : queue[k].att = att}
InHand == {w \in Writers : wpc[w] = "write"}
BufOf(w) == {w} \X (1..Len(buf[w]))
InBuf == UNION {BufOf(w) : w \in Writers}

OnTheWay ==
  Cardinality(InPut) + Cardinality(InQueue) + Cardinality(InHand) + Cardinality(InBuf)

Ahead(c, i) ==
  \/ c \in todo
  \/ \E r \in Readers : /\ job[r].c = c
                        /\ rpc[r] \in {"lookup", "read", "put"} /\ job[r].i <= i
Same(b, c, i) == b.att = att /\ b.c = c /\ b.i = i
Carried(c, i) ==
  \/ \E k \in 1..Len(queue) : Same(queue[k], c, i)
  \/ \E w \in Writers : wpc[w] = "write" /\ Same(hand[w], c, i)
  \/ \E w \in Writers : \E k \in 1..Len(buf[w]) : Same(buf[w][k], c, i)
Staged(c, i) == [c |-> c, i |-> i] \in rows[att]

Own ==
  /\ regAtt # att => Quiet
  /\ \A r \in Readers : rpc[r] \notin {"idle", "lookup"} => job[r].att = att
  /\ \A w \in Writers : /\ wpc[w] = "write" => hand[w].att = att
                        /\ \A k \in 1..Len(buf[w]) : buf[w][k].att = att
  /\ pc = "plan" => active = 0 /\ tabErr = "none"

Counted == inflight >= OnTheWay

(* The readers of an attempt that goes well. *)
Smooth ==
  /\ pc = "wait" =>
       /\ att \notin ended /\ tabErr = "none" /\ active = Cardinality(Busy)
       /\ \A r \in Readers :
            /\ rpc[r] \in {"idle", "lookup", "read", "put", "mark"}
            /\ rpc[r] # "idle" => job[r].err = "none"
            /\ rpc[r] \in {"read", "put"} => job[r].ctx = att
  /\ pc \in {"drained", "publish"} => Quiet

NothingForgotten ==
  /\ pc \in {"wait", "drained"} =>
       /\ \A c \in Chunks : \A i \in 1..BatchesOf[c] :
            Ahead(c, i) \/ Carried(c, i) \/ Staged(c, i) \/ inflight > OnTheWay
       /\ \A w \in Writers : wpc[w] = "report" =>
            \A k \in 1..Len(buf[w]) : Staged(buf[w][k].c, buf[w][k].i)
  /\ pc = "publish" => \A c \in Chunks : \A i \in 1..BatchesOf[c] : Staged(c, i)

Whole ==
  /\ marred = {} => /\ Own /\ Counted
                    /\ ~ctxEnded => Smooth /\ NothingForgotten
  /\ PublishedIsComplete

IInv == Typed /\ Once /\ Whole

-----------------------------------------------------------------------------
LEMMA Bounds ==
  /\ MaxRetries \in Nat /\ MaxFaults \in Nat
  /\ MaxRuns \in Nat /\ MaxRuns >= 1 /\ FaultyRuns \in Nat /\ BufferSize \in Nat
  /\ Chunks \subseteq Nat \ {0} /\ IsFiniteSet(Chunks)
  /\ \A c \in Chunks : BatchesOf[c] \in Nat /\ BatchesOf[c] >= 1
  /\ IsFiniteSet(Readers) /\ IsFiniteSet(Writers)
  BY AttemptAssumption DEF AttemptAssumption

LEMMA FaultCounts ==
  ASSUME faults \in 0..MaxFaults, NEW k, Fault(k)
  PROVE  faults' \in 0..MaxFaults
  BY Bounds DEF Fault

LEMMA SaveGoes ==
  ASSUME faults \in 0..MaxFaults, NEW p, NEW next, SavedAs(p, next)
  PROVE  pc' \in {next, "error"} /\ faults' \in 0..MaxFaults
  BY Bounds DEF SavedAs, Fault

(* A set of naturals has a least member. *)
LEMMA LeastNat ==
  ASSUME NEW S \in SUBSET Nat, S # {}
  PROVE  \E m \in S : \A x \in S : m <= x
<1>1. PICK m \in S : \A x \in S : ~ (<<x, m>> \in OpToRel(<, Nat))
  BY NatLessThanWellFounded, WFMin
<1>2. \A x \in S : ~ (x < m)
  BY <1>1 DEF OpToRel
<1> QED BY <1>2

LEMMA LeastChunk ==
  ASSUME todo \subseteq Chunks, todo # {}
  PROVE  Min(todo) \in todo
<1>1. todo \in SUBSET Nat
  BY Bounds
<1>2. \E m \in todo : \A x \in todo : m <= x
  BY <1>1, LeastNat
<1> QED BY <1>2 DEF Min

(* A reader that moves changes the number of those at work by one at most. *)
AtWork == {"lookup", "read", "put", "mark"}

LEMMA BusyMoves ==
  ASSUME JobType, NEW r \in Readers, NEW p \in ReaderPcs, Goes(r, p)
  PROVE  /\ Cardinality(Busy) \in Nat /\ Cardinality(Busy') \in Nat
         /\ (rpc[r] \in AtWork <=> p \in AtWork) => Cardinality(Busy') = Cardinality(Busy)
         /\ rpc[r] \notin AtWork /\ p \in AtWork => Cardinality(Busy') = Cardinality(Busy) + 1
         /\ rpc[r] \in AtWork /\ p \notin AtWork => Cardinality(Busy') = Cardinality(Busy) - 1
         /\ rpc[r] \in AtWork => Cardinality(Busy) >= 1
<1>1. IsFiniteSet(Busy) /\ Cardinality(Busy) \in Nat
  BY Bounds, FS_Subset, FS_CardinalityType DEF Busy
<1>2. Busy' = IF p \in AtWork THEN Busy \cup {r} ELSE Busy \ {r}
  BY DEF Busy, Goes, JobType, AtWork
<1>3. r \in Busy <=> rpc[r] \in AtWork
  BY DEF Busy, AtWork
<1>4. IsFiniteSet(Busy') /\ Cardinality(Busy') \in Nat
  BY <1>1, <1>2, FS_AddElement, FS_RemoveElement, FS_CardinalityType
<1>5. r \in Busy => Cardinality(Busy) >= 1
  BY <1>1, FS_EmptySet
<1>6. r \notin Busy /\ p \in AtWork => Cardinality(Busy') = Cardinality(Busy) + 1
  BY <1>1, <1>2, FS_AddElement
<1>7. r \in Busy /\ p \notin AtWork => Cardinality(Busy') = Cardinality(Busy) - 1
  BY <1>1, <1>2, FS_RemoveElement
<1>8. (r \in Busy <=> p \in AtWork) => Busy' = Busy
  BY <1>2
<1> QED BY <1>1, <1>3, <1>4, <1>5, <1>6, <1>7, <1>8

LEMMA TypedStart == Init => Typed
<1> SUFFICES ASSUME Init PROVE Typed
  OBVIOUS
<1> USE Bounds DEF Init, Fresh
<1>1. TaskType
  BY DEF TaskType, Pcs, Errors, Attempts
<1>2. CoordType
  <2>1. Busy = {}
    BY DEF Busy
  <2>2. Cardinality(Busy) = 0
    BY <2>1, FS_EmptySet
  <2> QED BY <2>2 DEF CoordType, Quiet, Idle, Errors
<1>3. JobType
  BY DEF JobType, Job, NoJob, ReaderPcs, Errors
<1>4. WriteType
  BY DEF WriteType, WriterPcs
<1>5. RowsType
  BY DEF RowsType, Attempts
<1> QED BY <1>1, <1>2, <1>3, <1>4, <1>5 DEF Typed

-----------------------------------------------------------------------------
(* What the steps of one actor leave alone. *)
LEMMA JobKept ==
  ASSUME Typed, UNCHANGED <<rpc, job>>, regAtt' \in Nat, regAtt <= regAtt'
  PROVE  JobType'
  BY DEF Typed, JobType, CoordType

LEMMA WriteKept ==
  ASSUME Typed, UNCHANGED <<queue, wpc, hand, buf>>, regAtt' \in Nat, regAtt <= regAtt'
  PROVE  WriteType'
<1>1. regAtt \in Nat
  BY Bounds DEF Typed, CoordType, TaskType
<1>2. \A b : Real(b) => Real(b)'
  BY <1>1, Bounds DEF Real, Batch, Attempts, Source
<1> QED BY <1>2 DEF Typed, WriteType

LEMMA RowsKept ==
  ASSUME Typed, UNCHANGED <<staging, rows, twice, wpc, buf, final>>
  PROVE  RowsType'
  BY DEF Typed, RowsType, Source

LEMMA CoordKept ==
  ASSUME Typed, UNCHANGED <<todo, active, regAtt, att, regCtx, pc, tabErr, ended, rpc>>
  PROVE  CoordType'
  BY DEF Typed, CoordType, Quiet, Idle, Busy

(* The main goroutine of the table. *)
LEMMA MainTask == ASSUME Typed, MainStep PROVE TaskType'
<1> TaskType
  BY DEF Typed
<1>0. faults' \in 0..MaxFaults
  BY Bounds DEF TaskType, MainStep, Top, Barrier, BarrierTimesOut, StartAttempt, Create, CreateFails,
     PrepareRetry, Submit, PlanFails, Wait, DataReady, Publish, PublishFails, Record, Failed, GiveUp,
     SavedAs, Fault, DropStaging, taskVars
<1>1. CASE Top
  BY <1>0, <1>1, Bounds DEF Top, MainFails, TaskType, Pcs, stateVars
<1>2. CASE Barrier
  BY <1>0, <1>2 DEF Barrier, TaskType, Pcs, stateVars
<1>3. CASE BarrierTimesOut
  BY <1>0, <1>3 DEF BarrierTimesOut, MainFails, TaskType, Pcs, stateVars
<1>4. CASE StartAttempt
  <2>1. pc' \in {"create", "error"}
    BY <1>4, SaveGoes DEF StartAttempt, TaskType
  <2>2. att' = att + 1 /\ att' \in Attempts /\ att = att' - 1 /\ prev' = att /\ inflight' = 0
    BY <1>4, Bounds DEF StartAttempt, TaskType, Attempts
  <2>3. marred' \subseteq Causes /\ run' = run /\ readErr' = readErr
    BY <1>4 DEF StartAttempt, Causes
  <2> QED BY <1>0, <2>1, <2>2, <2>3 DEF TaskType, Pcs, Attempts
<1>5. CASE Create
  <2>1. pc' \in {"prepare", "plan", "error"}
    BY <1>5, SaveGoes DEF Create, TaskType
  <2> QED BY <1>0, <1>5, <2>1 DEF Create, TaskType, Pcs
<1>6. CASE CreateFails
  BY <1>0, <1>6 DEF CreateFails, MainFails, TaskType, Pcs, stateVars
<1>7. CASE PrepareRetry
  BY <1>0, <1>7 DEF PrepareRetry, TaskType, Pcs, stateVars, taskVars
<1>8. CASE Submit
  BY <1>0, <1>8 DEF Submit, TaskType, Pcs, stateVars, taskVars, Causes
<1>9. CASE PlanFails
  BY <1>0, <1>9 DEF PlanFails, ReadReturns, TaskType, Pcs, stateVars, Errors
<1>10. CASE Wait
  BY <1>0, <1>10 DEF Wait, ReadReturns, TaskType, Pcs, stateVars, taskVars, Errors, Typed, CoordType
<1>11. CASE DataReady
  <2>1. pc' \in {"publish", "error"}
    BY <1>11, SaveGoes DEF DataReady, TaskType
  <2> QED BY <1>0, <1>11, <2>1 DEF DataReady, TaskType, Pcs
<1>12. CASE Publish
  BY <1>0, <1>12 DEF Publish, TaskType, Pcs, stateVars, taskVars
<1>13. CASE PublishFails
  BY <1>0, <1>13 DEF PublishFails, MainFails, TaskType, Pcs, stateVars
<1>14. CASE Record
  <2>1. pc' \in {"ok", "error"}
    BY <1>14, SaveGoes DEF Record, TaskType
  <2> QED BY <1>0, <1>14, <2>1 DEF Record, TaskType, Pcs
<1>15. CASE Failed
  <2>1. pc' \in {IF MayRetry THEN "top" ELSE "giveup", "error"}
    BY <1>15, SaveGoes DEF Failed, TaskType
  <2>2. MayRetry => att <= MaxRetries
    BY DEF MayRetry
  <2>3. pc' \in {"top", "giveup", "error"} /\ (pc' = "top" => att <= MaxRetries)
    BY <2>1, <2>2
  <2> QED BY <1>0, <1>15, <2>3 DEF Failed, TaskType, Pcs, Errors
<1>16. CASE GiveUp
  BY <1>0, <1>16 DEF GiveUp, MainFails, TaskType, Pcs, stateVars
<1> QED
  BY <1>1, <1>2, <1>3, <1>4, <1>5, <1>6, <1>7, <1>8, <1>9, <1>10, <1>11, <1>12, <1>13,
     <1>14, <1>15, <1>16 DEF MainStep

LEMMA MainRest ==
  ASSUME Typed, MainStep, TaskType'
  PROVE  CoordType' /\ JobType' /\ WriteType' /\ RowsType'
<1>0. TaskType /\ CoordType /\ att \in Nat /\ regAtt \in Nat
  BY Bounds DEF Typed, TaskType, CoordType
<1>1. UNCHANGED <<rpc, job, queue, wpc, hand, buf>>
  BY DEF MainStep, Top, Barrier, BarrierTimesOut, StartAttempt, Create, CreateFails,
     PrepareRetry, Submit, PlanFails, Wait, DataReady, Publish, PublishFails, Record, Failed, GiveUp,
     readVars, writeVars
<1>2. CoordType'
  <2>0. Busy' = Busy /\ (Quiet' <=> todo' = {} /\ \A r \in Readers : Idle(r))
    BY <1>1 DEF Busy, Quiet, Idle
  <2>1. CASE UNCHANGED <<schedVars, coordVars, att>> /\ pc' \notin {"create", "prepare", "plan", "wait"} /\ pc # "wait"
    BY <1>0, <2>0, <2>1 DEF CoordType, Quiet, schedVars, coordVars
  <2>2. CASE StartAttempt
    <3>1. att' = att + 1 /\ pc = "start" /\ pc' \in {"create", "error"} /\ UNCHANGED <<schedVars, coordVars>>
      BY <1>0, <2>2, SaveGoes DEF StartAttempt, TaskType
    <3> QED BY <1>0, <2>0, <3>1 DEF CoordType, Quiet, schedVars, coordVars
  <2>3. CASE Create
    <3>1. att' = att /\ pc = "create" /\ pc' \in {"prepare", "plan", "error"} /\ UNCHANGED <<schedVars, coordVars>>
      BY <1>0, <2>3, SaveGoes DEF Create, TaskType
    <3> QED BY <1>0, <2>0, <3>1 DEF CoordType, Quiet, schedVars, coordVars
  <2>4. CASE PrepareRetry
    BY <1>0, <2>0, <2>4, FS_CardinalityType, Bounds, FS_Subset DEF PrepareRetry, CoordType, Quiet, stateVars, Errors, Busy
  <2>5. CASE Submit
    BY <1>0, <2>0, <2>5 DEF Submit, CoordType, Quiet, stateVars, TaskType, Attempts
  <2>6. CASE PlanFails
    <3>1. /\ pc = "plan" /\ pc' \in {"drained", "failed"} /\ ended' = ended \cup {att}
          /\ UNCHANGED <<todo, active, regAtt, regCtx, tabErr, att>>
      BY <2>6 DEF PlanFails, ReadReturns, stateVars, schedVars
    <3>2. att \in Attempts
      BY <1>0, <3>1 DEF TaskType
    <3> QED BY <1>0, <2>0, <3>1, <3>2 DEF CoordType, Quiet, Attempts
  <2>7. CASE Wait
    <3>1. /\ pc = "wait" /\ pc' \in {"drained", "failed"} /\ ended' = ended \cup {att}
          /\ regCtx' = 0 /\ UNCHANGED <<todo, active, regAtt, tabErr, att>>
      BY <2>7 DEF Wait, ReadReturns, stateVars, schedVars
    <3>2. att \in Attempts
      BY <1>0, <3>1 DEF TaskType
    <3> QED BY <1>0, <2>0, <3>1, <3>2 DEF CoordType, Quiet, Attempts
  <2>8. MainStep => \/ UNCHANGED <<schedVars, coordVars, att>> /\ pc' \notin {"create", "prepare", "plan", "wait"} /\ pc # "wait"
                    \/ StartAttempt \/ Create \/ PrepareRetry \/ Submit \/ PlanFails \/ Wait
    BY <1>0, SaveGoes DEF MainStep, Top, Barrier, BarrierTimesOut, CreateFails, DataReady, Publish, PublishFails,
       Record, Failed, GiveUp, MainFails, stateVars, TaskType
  <2> QED BY <2>1, <2>2, <2>3, <2>4, <2>5, <2>6, <2>7, <2>8
<1>3. regAtt' \in Nat /\ regAtt <= regAtt'
  BY <1>0 DEF MainStep, Top, Barrier, BarrierTimesOut, StartAttempt, Create, CreateFails,
     PrepareRetry, Submit, PlanFails, Wait, DataReady, Publish, PublishFails, Record, Failed, GiveUp,
     coordVars, CoordType
<1>4. JobType' /\ WriteType'
  BY <1>1, <1>3, JobKept, WriteKept
<1>5. RowsType'
  <2>1. CASE UNCHANGED <<staging, rows, twice, final>>
    BY <1>1, <2>1, RowsKept
  <2>2. ASSUME NEW a, ~OpenOn(a), staging' = staging \ {a}, Emptied(a), UNCHANGED final
        PROVE  RowsType'
    <3>1. \A w \in Writers : wpc[w] # "report" => \A k \in 1..Len(buf[w]) : buf[w][k].att # a
      BY <2>2 DEF OpenOn
    <3> QED BY <1>1, <2>2, <3>1 DEF Typed, RowsType, Source, Emptied
  <2>3. CASE Create
    <3>1. staging' = staging \cup {att} /\ Emptied(att) /\ final' = final /\ att \in Attempts
      BY <1>0, <2>3 DEF Create, CreateStaging, TaskType
    <3> QED BY <1>1, <3>1 DEF Typed, RowsType, Source, Emptied
  <2>4. CASE CreateFails
    <3>1. staging' \in {staging, staging \cup {att}} /\ rows' = rows /\ twice' = twice /\ final' = final /\ att \in Attempts
      BY <1>0, <2>4 DEF CreateFails, TaskType
    <3> QED BY <1>1, <3>1 DEF Typed, RowsType, Source
  <2>5. CASE Publish
    <3>1. /\ ~OpenOn(att) /\ staging' = staging \ {att} /\ Emptied(att)
          /\ final' = [rows |-> rows[att], twice |-> twice[att], published |-> TRUE, marred |-> marred]
          /\ att \in Attempts
      BY <1>0, <2>5 DEF Publish, TaskType
    <3>2. \A w \in Writers : wpc[w] # "report" => \A k \in 1..Len(buf[w]) : buf[w][k].att # att
      BY <3>1 DEF OpenOn
    <3>3. final' \in [rows : SUBSET Row, twice : SUBSET Row, published : BOOLEAN, marred : SUBSET Causes] /\ final'.rows = rows[att]
      BY <1>0, <3>1 DEF Typed, RowsType, TaskType
    <3> QED BY <1>1, <3>1, <3>2, <3>3 DEF Typed, RowsType, Source, Emptied
  <2>6. ASSUME NEW a, DropStaging(a), UNCHANGED final PROVE RowsType'
    BY <2>1, <2>2, <2>6 DEF DropStaging
  <2>7. CASE Barrier
    BY <2>6, <2>7 DEF Barrier
  <2>8. CASE GiveUp
    BY <2>6, <2>8 DEF GiveUp
  <2> QED BY <2>1, <2>3, <2>4, <2>5, <2>7, <2>8 DEF MainStep, Top, BarrierTimesOut, StartAttempt,
     PrepareRetry, Submit, PlanFails, Wait, DataReady, PublishFails, Record, Failed, dbVars
<1> QED BY <1>2, <1>4, <1>5

-----------------------------------------------------------------------------
(* A reader. *)
LEMMA ReaderJob ==
  ASSUME Typed, NEW r \in Readers, ReaderStep(r)
  PROVE  JobType'
<1>0. /\ rpc \in [Readers -> ReaderPcs] /\ job \in [Readers -> Job] /\ JobType
      /\ regAtt \in 0..(MaxRetries + 1) /\ regCtx \in 0..(MaxRetries + 1) /\ regAtt' = regAtt
  <2>1. regAtt' = regAtt
    BY DEF ReaderStep, Pick, LookUp, SeesStop, SeesCancel, ChunkRead, Read, ReadFails, Put,
       PutFails, MarkDone, SetTableErr, CancelAttempt, DropChunks, coordVars
  <2> QED BY <2>1, Bounds DEF Typed, JobType, CoordType, TaskType
<1>1. ASSUME NEW p \in ReaderPcs, NEW j \in Job, Goes(r, p), job' = [job EXCEPT ![r] = j],
             p \in {"lookup", "read", "put"} => j.c \in Chunks /\ j.i >= 1,
             p \notin {"idle", "lookup"} => j.att \in 1..regAtt,
             p = "lookup" => j.i = 1 /\ j.err = "none",
             p = "put" => j.i <= BatchesOf[j.c]
      PROVE  JobType'
  <2>1. rpc' \in [Readers -> ReaderPcs] /\ job' \in [Readers -> Job]
    BY <1>0, <1>1 DEF Goes
  <2>2. rpc'[r] = p /\ job'[r] = j
    BY <1>0, <1>1 DEF Goes
  <2>3. \A q \in Readers : q # r => rpc'[q] = rpc[q] /\ job'[q] = job[q]
    BY <1>0, <1>1 DEF Goes
  <2> HIDE <1>1
  <2>4. ASSUME NEW q \in Readers, q # r
        PROVE  /\ rpc'[q] \in {"lookup", "read", "put"} => job'[q].c \in Chunks /\ job'[q].i >= 1
               /\ rpc'[q] \notin {"idle", "lookup"} => job'[q].att \in 1..regAtt
               /\ rpc'[q] = "lookup" => job'[q].i = 1 /\ job'[q].err = "none"
               /\ rpc'[q] = "put" => job'[q].i <= BatchesOf[job'[q].c]
    BY <1>0, <2>3, <2>4 DEF JobType
  <2> QED BY <1>0, <1>1, <2>1, <2>2, <2>4 DEF JobType
<1>2. /\ job[r] \in Job
      /\ rpc[r] \in {"lookup", "read", "put"} => job[r].c \in Chunks /\ job[r].i >= 1
      /\ rpc[r] \notin {"idle", "lookup"} => job[r].att \in 1..regAtt
      /\ rpc[r] = "lookup" => job[r].i = 1 /\ job[r].err = "none"
      /\ rpc[r] = "put" => job[r].i <= BatchesOf[job[r].c]
  BY <1>0 DEF JobType
<1>3. NoJob \in Job /\ ReaderPcs = {"idle", "lookup", "read", "put", "mark", "book", "cancel", "drop"}
  BY Bounds DEF NoJob, Job, Errors, ReaderPcs
<1>4. ASSUME UNCHANGED job PROVE job' = [job EXCEPT ![r] = job[r]]
  BY <1>0, <1>4
<1>5. ASSUME NEW e \in Errors, rpc[r] \notin {"idle", "lookup"}, EndsWith(r, e) PROVE JobType'
  <2> DEFINE j == [job[r] EXCEPT !.err = e]
  <2>1. j \in Job /\ j.att = job[r].att
    BY <1>2 DEF Job
  <2>2. job' = [job EXCEPT ![r] = j] /\ Goes(r, "mark")
    BY <1>5 DEF EndsWith
  <2> HIDE DEF j
  <2> QED BY <1>1, <1>2, <1>3, <1>5, <2>1, <2>2
<1>6. ASSUME Rests(r) PROVE JobType'
  BY <1>1, <1>3, <1>6 DEF Rests
<1>7. CASE Pick(r)
  <2> DEFINE j == [NoJob EXCEPT !.c = Min(todo), !.i = 1]
  <2>1. Min(todo) \in Chunks
    BY <1>7, LeastChunk DEF Pick, Typed, CoordType
  <2>2. j \in Job /\ j.c \in Chunks /\ j.i = 1 /\ j.i >= 1 /\ j.err = "none"
    <3>1. j.c = Min(todo) /\ j.i = 1 /\ j.err = "none"
      BY DEF NoJob
    <3>2. j \in Job
      BY <1>3, <2>1 DEF Job
    <3> QED BY <2>1, <3>1, <3>2
  <2>3. job' = [job EXCEPT ![r] = j] /\ Goes(r, "lookup")
    BY <1>7 DEF Pick
  <2> HIDE DEF j
  <2>4. "lookup" \in ReaderPcs
    BY DEF ReaderPcs
  <2> QED BY <1>1, <2>2, <2>3, <2>4
<1>8. CASE LookUp(r)
  <2> DEFINE j == [job[r] EXCEPT !.att = regAtt, !.ctx = regCtx]
  <2>1. /\ j \in Job /\ j.att = regAtt /\ j.c = job[r].c /\ j.i = job[r].i
    BY <1>0, <1>2 DEF Job
  <2>2. rpc[r] = "lookup" /\ job' = [job EXCEPT ![r] = j]
    BY <1>8 DEF LookUp
  <2>3. regAtt # 0
    BY <1>8 DEF LookUp, Typed, CoordType, Quiet, Idle
  <2>4. Goes(r, "mark") \/ Goes(r, "read")
    BY <1>8 DEF LookUp
  <2>5. j.c \in Chunks /\ j.i >= 1 /\ j.att \in 1..regAtt
    BY <1>0, <1>2, <2>1, <2>2, <2>3
  <2>6. "mark" \in ReaderPcs /\ "read" \in ReaderPcs
    BY DEF ReaderPcs
  <2> HIDE DEF j
  <2> QED BY <1>1, <2>1, <2>2, <2>4, <2>5, <2>6
<1>9. CASE SeesStop(r) \/ SeesCancel(r) \/ ChunkRead(r) \/ ReadFails(r) \/ PutFails(r)
  <2>1. \E e \in Errors : EndsWith(r, e)
    BY <1>9 DEF SeesStop, SeesCancel, ChunkRead, ReadFails, PutFails, Errors
  <2>2. rpc[r] \notin {"idle", "lookup"}
    BY <1>9 DEF SeesStop, SeesCancel, ChunkRead, ReadFails, PutFails
  <2> QED BY <1>5, <2>1, <2>2
<1>10. CASE Read(r)
  <2>1. rpc[r] = "read" /\ job[r].i <= BatchesOf[job[r].c]
    BY <1>10 DEF Read
  <2>2. CASE EndsWith(r, "fatal")
    BY <1>5, <2>1, <2>2 DEF Errors
  <2>3. CASE Goes(r, "put") /\ UNCHANGED job
    BY <1>1, <1>2, <1>3, <1>4, <2>1, <2>3
  <2> QED BY <1>10, <2>2, <2>3 DEF Read
<1>11. CASE Put(r)
  <2> DEFINE j == [job[r] EXCEPT !.i = @ + 1]
  <2>1. j \in Job /\ j.att = job[r].att /\ j.c = job[r].c /\ j.i = job[r].i + 1 /\ job[r].i \in Nat
    BY <1>2 DEF Job
  <2>2. rpc[r] = "put" /\ job' = [job EXCEPT ![r] = j] /\ Goes(r, "read")
    BY <1>11 DEF Put
  <2>3. j.c \in Chunks /\ j.i >= 1 /\ j.att \in 1..regAtt
    BY <1>2, <2>1, <2>2
  <2>4. "read" \in ReaderPcs
    BY DEF ReaderPcs
  <2> HIDE DEF j
  <2> QED BY <1>1, <2>1, <2>2, <2>3, <2>4
<1>12. ASSUME NEW p \in {"book", "cancel", "drop"}, Goes(r, p), UNCHANGED job, rpc[r] \notin {"idle", "lookup"}
       PROVE  JobType'
  BY <1>1, <1>2, <1>3, <1>4, <1>12
<1>13. CASE MarkDone(r) \/ SetTableErr(r) \/ CancelAttempt(r) \/ DropChunks(r)
  <2>1. rpc[r] \notin {"idle", "lookup"}
    BY <1>13 DEF MarkDone, SetTableErr, CancelAttempt, DropChunks
  <2>2. Rests(r) \/ \E p \in {"book", "cancel", "drop"} : Goes(r, p) /\ UNCHANGED job
    BY <1>13 DEF MarkDone, SetTableErr, CancelAttempt, DropChunks
  <2> QED BY <1>6, <1>12, <2>1, <2>2
<1> QED
  BY <1>7, <1>8, <1>9, <1>10, <1>11, <1>13 DEF ReaderStep

LEMMA ReaderCoord ==
  ASSUME Typed, NEW r \in Readers, ReaderStep(r)
  PROVE  CoordType'
<1>0. /\ CoordType /\ JobType /\ att \in Nat /\ UNCHANGED <<att, pc, regAtt, regCtx>>
  BY DEF Typed, TaskType, ReaderStep, Pick, LookUp, SeesStop, SeesCancel, ChunkRead, Read, ReadFails, Put,
       PutFails, MarkDone, SetTableErr, CancelAttempt, DropChunks, ReadFrame, mainVars, coordVars
<1>1. todo # {} \/ rpc[r] # "idle"
  BY DEF ReaderStep, Pick, LookUp, SeesStop, SeesCancel, ChunkRead, Read, ReadFails, Put,
       PutFails, MarkDone, SetTableErr, CancelAttempt, DropChunks
<1>2. regAtt # 0
  BY <1>0, <1>1 DEF CoordType, Quiet, Idle
<1>3. ASSUME todo' \subseteq Chunks, active' \in Nat, active' <= Cardinality(Busy'),
             tabErr' \in Errors, ended' = ended \/ (regCtx # 0 /\ ended' = ended \cup {regCtx})
      PROVE  CoordType'
  <2>1. ended' \subseteq 1..att /\ (pc \in {"create", "prepare", "plan"} => att \notin ended')
    <3>1. ended \subseteq 1..att /\ (pc \in {"create", "prepare", "plan"} => att \notin ended)
      BY <1>0 DEF CoordType
    <3>2. CASE ended' = ended
      BY <3>1, <3>2
    <3>3. CASE regCtx # 0 /\ ended' = ended \cup {regCtx}
      <4>1. pc = "wait" /\ regCtx = att /\ att \in 1..att
        BY <1>0, <3>3 DEF CoordType
      <4> QED BY <3>1, <3>3, <4>1
    <3> QED BY <1>3, <3>2, <3>3
  <2> QED BY <1>0, <1>2, <1>3, <2>1 DEF CoordType
<1>4. PICK p \in ReaderPcs : Goes(r, p)
  BY DEF ReaderStep, Pick, LookUp, SeesStop, SeesCancel, ChunkRead, Read, ReadFails, Put,
       PutFails, MarkDone, SetTableErr, CancelAttempt, DropChunks, EndsWith, Rests, ReaderPcs
<1>5. /\ rpc'[r] = p /\ Cardinality(Busy) \in Nat /\ Cardinality(Busy') \in Nat
      /\ (rpc[r] \in AtWork <=> p \in AtWork) => Cardinality(Busy') = Cardinality(Busy)
      /\ rpc[r] \notin AtWork /\ p \in AtWork => Cardinality(Busy') = Cardinality(Busy) + 1
      /\ rpc[r] \in AtWork /\ p \notin AtWork => Cardinality(Busy') = Cardinality(Busy) - 1
  BY <1>0, <1>4, BusyMoves DEF Goes, JobType
<1>6. todo \subseteq Chunks /\ active \in Nat /\ active <= Cardinality(Busy) /\ tabErr \in Errors
  BY <1>0 DEF CoordType
<1>7. CASE Pick(r)
  <2>1. p = "lookup" /\ rpc[r] = "idle"
    BY <1>0, <1>5, <1>7 DEF Pick, Goes, JobType
  <2>2. todo' \subseteq todo /\ active' = active + 1 /\ UNCHANGED <<tabErr, ended>>
    BY <1>7 DEF Pick, coordVars
  <2> QED BY <1>3, <1>5, <1>6, <2>1, <2>2 DEF AtWork
<1>8. CASE LookUp(r) \/ SeesStop(r) \/ SeesCancel(r) \/ ChunkRead(r) \/ Read(r) \/ ReadFails(r) \/ Put(r) \/ PutFails(r)
  <2>1. rpc[r] \in AtWork
    BY <1>8 DEF LookUp, SeesStop, SeesCancel, ChunkRead, Read, ReadFails, Put, PutFails, AtWork
  <2>2. \E q \in AtWork : Goes(r, q)
    BY <1>8 DEF LookUp, SeesStop, SeesCancel, ChunkRead, Read, ReadFails, Put, PutFails, AtWork, EndsWith
  <2>3. p \in AtWork
    BY <1>0, <1>4, <2>2 DEF Goes, JobType
  <2>4. UNCHANGED <<todo, active, tabErr, ended>>
    BY <1>8 DEF LookUp, SeesStop, SeesCancel, ChunkRead, Read, ReadFails, Put, PutFails, schedVars, coordVars
  <2> QED BY <1>3, <1>5, <1>6, <2>1, <2>3, <2>4
<1>9. CASE MarkDone(r)
  <2>1. rpc[r] = "mark" /\ (Goes(r, "idle") \/ Goes(r, "book"))
    BY <1>9 DEF MarkDone, Rests
  <2>2. p \notin AtWork
    BY <1>0, <1>4, <2>1 DEF Goes, JobType, AtWork
  <2>3. active' = (IF active - 1 > 0 THEN active - 1 ELSE 0) /\ UNCHANGED <<todo, tabErr, ended>>
    BY <1>9 DEF MarkDone, Floor0, coordVars
  <2> QED BY <1>3, <1>5, <1>6, <2>1, <2>2, <2>3 DEF AtWork
<1>10. ASSUME rpc[r] \in {"book", "cancel", "drop"}, Goes(r, "idle") \/ Goes(r, "cancel") \/ Goes(r, "drop")
       PROVE  Cardinality(Busy') = Cardinality(Busy)
  <2>1. p \notin AtWork
    BY <1>0, <1>4, <1>10 DEF Goes, JobType, AtWork
  <2> QED BY <1>5, <1>10, <2>1 DEF AtWork
<1>11. CASE SetTableErr(r)
  <2>1. UNCHANGED <<todo, active, ended>> /\ rpc[r] = "book" /\ (Goes(r, "idle") \/ Goes(r, "cancel"))
    BY <1>11 DEF SetTableErr, Rests, schedVars
  <2>2. tabErr' \in Errors
    <3>1. job[r].err \in Errors
      BY <1>0 DEF JobType, Job
    <3> QED BY <1>6, <1>11, <3>1 DEF SetTableErr, Prefer
  <2> QED BY <1>3, <1>6, <1>10, <2>1, <2>2
<1>12. CASE CancelAttempt(r)
  <2>1. UNCHANGED <<todo, active, tabErr>> /\ rpc[r] = "cancel" /\ (Goes(r, "idle") \/ Goes(r, "drop"))
    BY <1>12 DEF CancelAttempt, Rests, schedVars
  <2>2. ended' = ended \/ (regCtx # 0 /\ ended' = ended \cup {regCtx})
    BY <1>12 DEF CancelAttempt
  <2> QED BY <1>3, <1>6, <1>10, <2>1, <2>2
<1>13. CASE DropChunks(r)
  BY <1>3, <1>5, <1>6, <1>13 DEF DropChunks, coordVars
<1> QED
  BY <1>7, <1>8, <1>9, <1>11, <1>12, <1>13 DEF ReaderStep

LEMMA ReaderTyped ==
  ASSUME Typed, NEW r \in Readers, ReaderStep(r)
  PROVE  Typed'
<1>0. /\ TaskType /\ JobType /\ regAtt' = regAtt /\ regAtt \in Nat
      /\ UNCHANGED <<run, pc, prev, readErr, att, phase, disk, wpc, hand, buf, wCtxEnded, staging, rows, twice, final>>
  BY Bounds DEF Typed, TaskType, CoordType, ReaderStep, Pick, LookUp, SeesStop, SeesCancel, ChunkRead, Read, ReadFails, Put,
       PutFails, MarkDone, SetTableErr, CancelAttempt, DropChunks, ReadFrame, mainVars, coordVars, writeVars, dbVars
<1>1. TaskType'
  <2>1. faults' \in 0..MaxFaults
    BY <1>0, FaultCounts DEF TaskType, ReaderStep, Pick, LookUp, SeesStop, SeesCancel, ChunkRead, Read, ReadFails, Put,
       PutFails, MarkDone, SetTableErr, CancelAttempt, DropChunks
  <2>2. inflight' \in Nat
    BY <1>0 DEF TaskType, ReaderStep, Pick, LookUp, SeesStop, SeesCancel, ChunkRead, Read, ReadFails, Put,
       PutFails, MarkDone, SetTableErr, CancelAttempt, DropChunks, Release, Floor0
  <2>3. marred' \subseteq Causes
    BY <1>0 DEF TaskType, ReaderStep, Pick, LookUp, SeesStop, SeesCancel, ChunkRead, Read, ReadFails, Put,
       PutFails, MarkDone, SetTableErr, CancelAttempt, DropChunks, Causes
  <2> QED BY <1>0, <2>1, <2>2, <2>3 DEF TaskType
<1>2. CASE UNCHANGED queue
  BY <1>0, <1>1, <1>2, ReaderCoord, ReaderJob, WriteKept, RowsKept DEF Typed
<1>3. CASE Put(r)
  <2> DEFINE b == [att |-> job[r].att, c |-> job[r].c, i |-> job[r].i]
  <2>1. rpc[r] = "put" /\ queue' = Append(queue, b)
    BY <1>3 DEF Put
  <2>2. job[r] \in Job /\ job[r].c \in Chunks /\ job[r].att \in 1..regAtt /\ job[r].i \in 1..BatchesOf[job[r].c]
    BY <1>0, <2>1, Bounds DEF JobType, Job
  <2>3. regAtt \in 0..(MaxRetries + 1)
    BY <1>0, Bounds DEF Typed, CoordType, TaskType
  <2>4. Real(b)
    BY <2>2, <2>3, Bounds DEF Real, Batch, Attempts, Source
  <2>5. queue \in Seq(Batch) /\ \A k \in 1..Len(queue) : Real(queue[k])
    BY DEF Typed, WriteType
  <2> HIDE DEF b
  <2>6. queue' \in Seq(Batch) /\ \A k \in 1..Len(queue') : Real(queue'[k])
    BY <2>1, <2>4, <2>5 DEF Real
  <2>7. \A x : Real(x)' <=> Real(x)
    BY <1>0 DEF Real, Batch, Source
  <2>8. WriteType'
    BY <1>0, <2>6, <2>7 DEF Typed, WriteType
  <2> QED BY <1>0, <1>1, <2>8, ReaderCoord, ReaderJob, RowsKept DEF Typed
<1>4. Put(r) \/ UNCHANGED queue
  BY DEF ReaderStep, Pick, LookUp, SeesStop, SeesCancel, ChunkRead, Read, ReadFails,
       PutFails, MarkDone, SetTableErr, CancelAttempt, DropChunks
<1> QED BY <1>2, <1>3, <1>4

-----------------------------------------------------------------------------
(* A writer. *)
LEMMA WriterType ==
  ASSUME Typed, NEW w \in Writers, WriterStep(w)
  PROVE  WriteType'
<1>0. /\ queue \in Seq(Batch) /\ wpc \in [Writers -> WriterPcs]
      /\ hand \in [Writers -> Batch \cup {NoBatch}] /\ buf \in [Writers -> Seq(Batch)]
      /\ \A k \in 1..Len(queue) : Real(queue[k])
      /\ wpc[w] = "write" => Real(hand[w])
      /\ wpc[w] # "write" => hand[w] = NoBatch
      /\ \A k \in 1..Len(buf[w]) : Real(buf[w][k])
      /\ wpc[w] \in {"failed", "ended"} => buf[w] = <<>>
      /\ wpc[w] = "report" => buf[w] # <<>>
  BY DEF Typed, WriteType
<1>1. \A b : Real(b)' <=> Real(b)
  BY DEF WriterStep, Take, Write, WriteFails, Commit, CommitFails, Report, WriterLeaves, WriteFrame,
     coordVars, Real, Batch, Source
<1>2. ASSUME NEW p \in WriterPcs, NEW h \in Batch \cup {NoBatch}, NEW s \in Seq(Batch),
             wpc' = [wpc EXCEPT ![w] = p], hand' = [hand EXCEPT ![w] = h], buf' = [buf EXCEPT ![w] = s],
             queue' \in Seq(Batch), \A k \in 1..Len(queue') : Real(queue'[k]),
             p = "write" => Real(h), p # "write" => h = NoBatch,
             \A k \in 1..Len(s) : Real(s[k]),
             p \in {"failed", "ended"} => s = <<>>, p = "report" => s # <<>>
      PROVE  WriteType'
  <2>1. /\ wpc' \in [Writers -> WriterPcs] /\ hand' \in [Writers -> Batch \cup {NoBatch}]
        /\ buf' \in [Writers -> Seq(Batch)]
    BY <1>0, <1>2
  <2>2. wpc'[w] = p /\ hand'[w] = h /\ buf'[w] = s
    BY <1>0, <1>2
  <2>3. \A v \in Writers : v # w => wpc'[v] = wpc[v] /\ hand'[v] = hand[v] /\ buf'[v] = buf[v]
    BY <1>0, <1>2
  <2>4. ASSUME NEW v \in Writers
        PROVE  /\ wpc'[v] = "write" => Real(hand'[v])
               /\ wpc'[v] # "write" => hand'[v] = NoBatch
               /\ \A k \in 1..Len(buf'[v]) : Real(buf'[v][k])
               /\ wpc'[v] \in {"failed", "ended"} => buf'[v] = <<>>
               /\ wpc'[v] = "report" => buf'[v] # <<>>
    <3>1. CASE v = w
      BY <1>2, <2>2, <3>1
    <3>2. CASE v # w
      BY <2>3, <3>2 DEF Typed, WriteType
    <3> QED BY <3>1, <3>2
  <2>5. (\A k \in 1..Len(queue) : Real(queue[k]))'
    BY <1>1, <1>2
  <2> QED BY <1>1, <1>2, <2>1, <2>4, <2>5 DEF WriteType
<1>3. /\ UNCHANGED wpc => wpc' = [wpc EXCEPT ![w] = wpc[w]]
      /\ UNCHANGED hand => hand' = [hand EXCEPT ![w] = hand[w]]
      /\ UNCHANGED buf => buf' = [buf EXCEPT ![w] = buf[w]]
      /\ wpc[w] \in WriterPcs /\ hand[w] \in Batch \cup {NoBatch} /\ buf[w] \in Seq(Batch)
  BY <1>0
<1>4. /\ "write" \in WriterPcs /\ "get" \in WriterPcs /\ "report" \in WriterPcs
      /\ "failed" \in WriterPcs /\ "ended" \in WriterPcs
      /\ <<>> \in Seq(Batch)
      /\ \A k \in 1..Len(<<>>) : Real(<<>>[k])
  BY DEF WriterPcs
<1>5. CASE Take(w)
  <2>1. /\ wpc[w] = "get" /\ queue # <<>> /\ queue' = Tail(queue) /\ buf' = buf
    BY <1>5 DEF Take
  <2>2. queue' \in Seq(Batch) /\ \A k \in 1..Len(queue') : Real(queue'[k])
    <3>1. queue' \in Seq(Batch) /\ Len(queue') = Len(queue) - 1 /\ Len(queue) \in Nat
      BY <1>0, <2>1
    <3>2. \A k \in 1..Len(queue') : queue'[k] = queue[k + 1] /\ k + 1 \in 1..Len(queue)
      BY <1>0, <2>1, <3>1
    <3> QED BY <1>0, <3>1, <3>2
  <2>3. Head(queue) \in Batch /\ Real(Head(queue))
    BY <1>0, <2>1
  <2>4. CASE IsCurrent(Head(queue).att)
    <3>1. wpc' = [wpc EXCEPT ![w] = "write"] /\ hand' = [hand EXCEPT ![w] = Head(queue)]
      BY <1>5, <2>4 DEF Take, Writes
    <3> QED BY <1>0, <1>2, <1>3, <1>4, <2>1, <2>2, <2>3, <3>1
  <2>5. CASE ~IsCurrent(Head(queue).att)
    <3>1. UNCHANGED <<wpc, hand>>
      BY <1>5, <2>5 DEF Take
    <3> QED BY <1>0, <1>2, <1>3, <2>1, <2>2, <3>1
  <2> QED BY <2>4, <2>5
<1>6. CASE Write(w)
  <2>1. /\ wpc[w] = "write" /\ wpc' = [wpc EXCEPT ![w] = "get"] /\ hand' = [hand EXCEPT ![w] = NoBatch]
        /\ buf' = [buf EXCEPT ![w] = Append(buf[w], hand[w])] /\ queue' = queue
    BY <1>6 DEF Write, Writes, NewBuf
  <2>2. Real(hand[w]) /\ hand[w] \in Batch
    BY <1>0, <2>1 DEF Real
  <2>3. Append(buf[w], hand[w]) \in Seq(Batch) /\ \A k \in 1..Len(Append(buf[w], hand[w])) : Real(Append(buf[w], hand[w])[k])
    BY <1>0, <1>3, <2>2
  <2> QED BY <1>0, <1>2, <1>3, <1>4, <2>1, <2>3
<1>7. CASE WriteFails(w)
  <2>1. /\ wpc' = [wpc EXCEPT ![w] = "failed"] /\ hand' = [hand EXCEPT ![w] = NoBatch]
        /\ buf' = [buf EXCEPT ![w] = <<>>] /\ queue' = queue
    BY <1>7 DEF WriteFails, Writes, NewBuf
  <2> QED BY <1>0, <1>2, <1>4, <2>1
<1>8. CASE Commit(w)
  <2>1. /\ wpc[w] = "get" /\ buf[w] # <<>> /\ wpc' = [wpc EXCEPT ![w] = "report"] /\ UNCHANGED <<hand, buf, queue>>
    BY <1>8 DEF Commit, Writes
  <2> QED BY <1>0, <1>2, <1>3, <1>4, <2>1
<1>9. CASE CommitFails(w)
  <2>1. /\ wpc[w] = "get" /\ wpc' = [wpc EXCEPT ![w] = "failed"] /\ UNCHANGED <<hand, queue>>
        /\ buf' = [buf EXCEPT ![w] = <<>>]
    BY <1>9 DEF CommitFails, Writes, NewBuf
  <2> QED BY <1>0, <1>2, <1>3, <1>4, <2>1
<1>10. CASE Report(w)
  <2>1. /\ wpc[w] = "report" /\ wpc' = [wpc EXCEPT ![w] = "get"] /\ UNCHANGED <<hand, queue>>
        /\ buf' = [buf EXCEPT ![w] = <<>>]
    BY <1>10 DEF Report, Writes, NewBuf
  <2> QED BY <1>0, <1>2, <1>3, <1>4, <2>1
<1>11. CASE WriterLeaves(w)
  <2>1. /\ wpc[w] = "get" /\ wpc' = [wpc EXCEPT ![w] = "ended"] /\ UNCHANGED <<hand, queue>>
        /\ buf' = [buf EXCEPT ![w] = <<>>]
    BY <1>11 DEF WriterLeaves, Writes, NewBuf
  <2> QED BY <1>0, <1>2, <1>3, <1>4, <2>1
<1> QED
  BY <1>5, <1>6, <1>7, <1>8, <1>9, <1>10, <1>11 DEF WriterStep

(* What a commit adds to the table of attempt a. *)
LEMMA RowsOfBuf ==
  ASSUME Typed, NEW w \in Writers, NEW a \in Attempts
  PROVE  /\ RowsOf(buf[w], a) \subseteq Row /\ Doubled(buf[w], a) \subseteq RowsOf(buf[w], a)
         /\ \A x \in RowsOf(buf[w], a) :
              /\ Source(x.c, x.i)
              /\ \E k \in 1..Len(buf[w]) : buf[w][k].att = a /\ buf[w][k].c = x.c /\ buf[w][k].i = x.i
<1>1. buf[w] \in Seq(Batch) /\ \A k \in 1..Len(buf[w]) : Real(buf[w][k])
  BY DEF Typed, WriteType, TaskType
<1>2. ASSUME NEW x \in RowsOf(buf[w], a)
      PROVE  /\ x \in Row /\ Source(x.c, x.i)
             /\ \E k \in 1..Len(buf[w]) : buf[w][k].att = a /\ buf[w][k].c = x.c /\ buf[w][k].i = x.i
  <2>1. PICK k \in 1..Len(buf[w]) : buf[w][k].att = a /\ x = [c |-> buf[w][k].c, i |-> buf[w][k].i]
    BY <1>2 DEF RowsOf, RowOf
  <2>2. Real(buf[w][k]) /\ buf[w][k] \in Batch
    BY <1>1 DEF Real
  <2> QED BY <1>1, <2>1, <2>2 DEF Real, Batch, Row
<1> QED BY <1>2 DEF Doubled

LEMMA WriterRows ==
  ASSUME Typed, NEW w \in Writers, WriterStep(w)
  PROVE  RowsType'
<1>0. /\ rows \in [Attempts -> SUBSET Row] /\ UNCHANGED <<staging, final>>
      /\ twice \in [Attempts -> SUBSET Row] /\ \A a \in Attempts : twice[a] \subseteq rows[a]
      /\ \A a \in Attempts : a \notin staging => rows[a] = {}
      /\ \A a \in Attempts : \A x \in rows[a] : Source(x.c, x.i)
      /\ buf \in [Writers -> Seq(Batch)] /\ wpc \in [Writers -> WriterPcs]
  BY DEF Typed, RowsType, WriteType, WriterStep, Take, Write, WriteFails, Commit, CommitFails, Report, WriterLeaves,
     WriteFrame
<1>1. /\ rows' \in [Attempts -> SUBSET Row]
      /\ \A a \in Attempts : a \notin staging => rows'[a] = {}
      /\ \A a \in Attempts : \A x \in rows'[a] : Source(x.c, x.i)
      /\ twice' \in [Attempts -> SUBSET Row] /\ \A a \in Attempts : twice'[a] \subseteq rows'[a]
  <2>1. CASE Stays
    BY <1>0, <2>1 DEF Stays
  <2>2. CASE wpc[w] = "get" /\ Inserted(buf[w])
    <3>1. \A a \in Attempts : Doubled(buf[w], a) \subseteq RowsOf(buf[w], a) /\ RowsOf(buf[w], a) \subseteq Row /\ \A x \in RowsOf(buf[w], a) : Source(x.c, x.i)
      BY RowsOfBuf
    <3>2. \A a \in Attempts : a \notin staging => RowsOf(buf[w], a) = {}
      <4>1. \A k \in 1..Len(buf[w]) : buf[w][k].att \in staging
        BY <2>2 DEF Typed, RowsType
      <4> QED BY <4>1, RowsOfBuf
    <3> QED BY <1>0, <2>2, <3>1, <3>2 DEF Inserted
  <2> QED BY <2>1, <2>2 DEF WriterStep, Take, Write, WriteFails, Commit, CommitFails, Report, WriterLeaves
<1>2. ASSUME NEW v \in Writers, wpc'[v] # "report", NEW k \in 1..Len(buf'[v])
      PROVE  buf'[v][k].att \in staging
  <2>1. CASE wpc[v] # "report" /\ buf'[v] = buf[v]
    BY <1>2, <2>1 DEF Typed, RowsType
  <2>2. CASE buf'[v] = <<>>
    BY <1>2, <2>2
  <2>3. CASE v = w /\ Write(w)
    <3>1. buf'[w] = Append(buf[w], hand[w]) /\ hand[w].att \in staging /\ wpc[w] # "report" /\ buf[w] \in Seq(Batch)
      BY <1>0, <2>3 DEF Write, NewBuf
    <3>2. \A j \in 1..Len(buf[w]) : buf[w][j].att \in staging
      BY <3>1 DEF Typed, RowsType
    <3>3. k \in 1..Len(buf[w]) \/ (k = Len(buf[w]) + 1 /\ buf'[w][k] = hand[w])
      BY <1>2, <2>3, <3>1
    <3>4. k \in 1..Len(buf[w]) => buf'[w][k] = buf[w][k]
      BY <3>1
    <3> QED BY <2>3, <3>1, <3>2, <3>3, <3>4
  <2>4. v = w => Write(w) \/ buf'[v] = <<>> \/ (wpc[v] # "report" /\ buf'[v] = buf[v])
    BY <1>0, <1>2 DEF WriterStep, Take, WriteFails, Commit, CommitFails, Report, WriterLeaves, Writes, NewBuf
  <2>5. v # w => wpc'[v] = wpc[v] /\ buf'[v] = buf[v]
    BY <1>0 DEF WriterStep, Take, Write, WriteFails, Commit, CommitFails, Report, WriterLeaves, Writes, NewBuf
  <2> QED BY <1>2, <2>1, <2>2, <2>3, <2>4, <2>5
<1>3. /\ staging \subseteq Attempts
      /\ final \in [rows : SUBSET Row, twice : SUBSET Row, published : BOOLEAN, marred : SUBSET Causes]
      /\ \A x \in final.rows : Source(x.c, x.i)
  BY DEF Typed, RowsType
<1> QED BY <1>0, <1>1, <1>2, <1>3 DEF RowsType, Source

LEMMA WriterTyped ==
  ASSUME Typed, NEW w \in Writers, WriterStep(w)
  PROVE  Typed'
<1>0. /\ TaskType /\ regAtt \in Nat
      /\ UNCHANGED <<run, pc, prev, readErr, att, schedVars, coordVars, readVars>>
  BY Bounds DEF Typed, TaskType, CoordType, WriterStep, Take, Write, WriteFails, Commit, CommitFails, Report, WriterLeaves,
     WriteFrame, mainVars
<1>1. faults' \in 0..MaxFaults
  BY <1>0, FaultCounts DEF TaskType, WriterStep, Take, Write, WriteFails, Commit, CommitFails, Report, WriterLeaves
<1>2. inflight' \in Nat
  <2>1. ASSUME NEW n \in Nat PROVE Floor0(inflight - n) \in Nat
    BY <1>0 DEF TaskType, Floor0
  <2>2. Len(buf[w]) \in Nat /\ Cardinality({k \in 1..Len(buf[w]) : IsCurrent(buf[w][k].att)}) \in Nat
    <3>1. buf[w] \in Seq(Batch)
      BY DEF Typed, WriteType
    <3>2. Len(buf[w]) \in Nat /\ IsFiniteSet(1..Len(buf[w]))
      BY <3>1, FS_Interval
    <3> QED BY <3>2, FS_Subset, FS_CardinalityType
  <2>3. \/ UNCHANGED inflight \/ inflight' = Floor0(inflight - 1) \/ inflight' = Floor0(inflight - Len(buf[w]))
        \/ inflight' = Floor0(inflight - Cardinality({k \in 1..Len(buf[w]) : IsCurrent(buf[w][k].att)}))
    BY DEF WriterStep, Take, Write, WriteFails, Commit, CommitFails, Report, WriterLeaves, Release
  <2> QED BY <1>0, <2>1, <2>2, <2>3 DEF TaskType
<1>3. marred' \subseteq Causes
  BY <1>0 DEF TaskType, WriterStep, Take, Write, WriteFails, Commit, CommitFails, Report, WriterLeaves, Causes
<1>4. TaskType'
  BY <1>0, <1>1, <1>2, <1>3 DEF TaskType
<1>5. CoordType' /\ JobType'
  BY <1>0, CoordKept, JobKept DEF schedVars, coordVars, readVars
<1> QED BY <1>4, <1>5, WriterType, WriterRows DEF Typed

-----------------------------------------------------------------------------
(* The engine, the user and the next run. *)
LEMMA EngineTyped ==
  ASSUME Typed, EngineStep \/ OtherTableFails \/ UserStops
  PROVE  Typed'
<1>0. /\ TaskType /\ regAtt \in Nat
      /\ UNCHANGED <<run, pc, prev, readErr, att, inflight, todo, active, regAtt, regCtx, tabErr, ended, rpc, job,
                     queue, wpc, hand, buf, staging, rows, twice, final, marred>>
  BY Bounds DEF Typed, TaskType, CoordType, EngineStep, EngineStopsWriters, EngineStopsReaders, OtherTableFails, UserStops,
     EngineFrame, mainVars, stateVars, schedVars, coordVars, readVars, dbVars
<1>1. faults' \in 0..MaxFaults
  BY <1>0, FaultCounts DEF TaskType, EngineStep, EngineStopsWriters, EngineStopsReaders, OtherTableFails, UserStops
<1>2. TaskType'
  BY <1>0, <1>1 DEF TaskType
<1> QED BY <1>0, <1>2, CoordKept, JobKept, WriteKept, RowsKept DEF Typed

LEMMA NextRunTyped == ASSUME Typed, NextRun PROVE Typed'
<1>0. /\ run' \in 1..MaxRuns /\ faults' \in 0..MaxFaults
      /\ pc' \in {"ok", "top"} /\ att' = 0 /\ prev' = 0 /\ inflight' = 0 /\ readErr' = "none" /\ marred' = {}
      /\ final' = final
  BY Bounds, FaultCounts DEF NextRun, Typed, TaskType
<1>1. TaskType'
  BY <1>0, Bounds DEF TaskType, Pcs, Errors, Causes
<1>2. CoordType'
  <2>1. Busy' = {}
    BY DEF Busy, NextRun
  <2>2. Cardinality(Busy') = 0
    BY <2>1, FS_EmptySet
  <2>3. /\ todo' = {} /\ active' = 0 /\ regAtt' = 0 /\ regCtx' = 0 /\ tabErr' = "none" /\ ended' = {}
        /\ \A r \in Readers : rpc'[r] = "idle"
    BY DEF NextRun
  <2> QED BY <1>0, <2>2, <2>3 DEF CoordType, Quiet, Idle, Errors
<1>3. JobType'
  BY Bounds DEF NextRun, JobType, Job, NoJob, ReaderPcs, Errors
<1>4. WriteType'
  BY DEF NextRun, WriteType, WriterPcs
<1>5. RowsType'
  <2>1. \A w \in Writers : buf'[w] = <<>>
    BY DEF NextRun
  <2>2. \/ staging' = staging /\ rows' = rows /\ twice' = twice
        \/ staging' = {} /\ rows' = [a \in Attempts |-> {}] /\ twice' = rows'
    BY DEF NextRun, Stays
  <2> QED BY <1>0, <2>1, <2>2 DEF Typed, RowsType, Source
<1> QED BY <1>1, <1>2, <1>3, <1>4, <1>5 DEF Typed

LEMMA TypedStep == Typed /\ [Next]_vars => Typed'
<1> SUFFICES ASSUME Typed, [Next]_vars PROVE Typed'
  OBVIOUS
<1>1. CASE MainStep
  BY <1>1, MainTask, MainRest DEF Typed
<1>2. ASSUME NEW r \in Readers, ReaderStep(r) PROVE Typed'
  BY <1>2, ReaderTyped
<1>3. ASSUME NEW w \in Writers, WriterStep(w) PROVE Typed'
  BY <1>3, WriterTyped
<1>4. CASE EngineStep \/ OtherTableFails \/ UserStops
  BY <1>4, EngineTyped
<1>5. CASE NextRun
  BY <1>5, NextRunTyped
<1>6. CASE UNCHANGED vars
  <2>1. UNCHANGED <<run, faults, pc, prev, readErr, att, inflight, todo, active, regAtt, regCtx, tabErr, ended, rpc, job,
                    queue, wpc, hand, buf, staging, rows, twice, final, marred>>
    BY <1>6 DEF vars, taskVars, mainVars, stateVars, schedVars, coordVars, readVars, writeVars, dbVars
  <2>2. TaskType' /\ regAtt \in Nat
    BY <2>1, Bounds DEF Typed, TaskType, CoordType
  <2> QED BY <2>1, <2>2, CoordKept, JobKept, WriteKept, RowsKept DEF Typed
<1> QED BY <1>1, <1>2, <1>3, <1>4, <1>5, <1>6 DEF Next

LEMMA Runs == Spec => Init /\ [][Next]_vars
  BY PTL DEF Spec

(* Types of the attempt, its readers, its writers and the staging tables; a  *)
(* chunk counter never above the number of readers at work.                  *)
THEOREM TypeCorrect == Spec => []TypeOK
<1>1. Typed => TypeOK
  <2> SUFFICES ASSUME Typed PROVE TypeOK
    OBVIOUS
  <2>1. Cardinality(Busy) <= Cardinality(Readers) /\ Cardinality(Readers) \in Nat /\ Cardinality(Busy) \in Nat
    BY Bounds, FS_Subset, FS_CardinalityType DEF Busy
  <2>2. active \in 0..Cardinality(Readers)
    BY <2>1 DEF Typed, CoordType
  <2>3. \A w \in Writers : \A k \in 1..Len(buf[w]) : buf[w][k] \in Batch
    BY DEF Typed, WriteType, Real
  <2> QED BY <2>2, <2>3 DEF TypeOK, Typed, TaskType, CoordType, RowsType
<1> QED BY <1>1, Runs, TypedStart, TypedStep, PTL

-----------------------------------------------------------------------------
(* A reader that leaves its chunk or moves on in it, rows that go. *)
LEMMA AloneKept ==
  ASSUME Alone, UNCHANGED <<att, queue, wpc, hand, buf>>, todo' \subseteq todo,
         \A r \in Readers : Holds(r)' => Holds(r) /\ job'[r].c = job[r].c /\ job'[r].i = job[r].i,
         rows'[att] \subseteq rows[att], twice'[att] \subseteq twice[att]
  PROVE  Alone'
<1>1. \A c, i : ToRead(c, i)' => ToRead(c, i)
  BY DEF ToRead
<1>2. /\ \A b : Queued(b)' <=> Queued(b)
      /\ \A b : \A w \in Writers : Taken(w, b)' <=> Taken(w, b)
      /\ \A b : Untaken(b)' <=> Untaken(b)
      /\ \A b : There(b)' => There(b)
      /\ Ours' = Ours
  BY DEF Queued, Taken, Untaken, There, Ours, RowOf, Batch
<1>3. OneReader'
  BY DEF Alone, OneReader
<1>4. NotYetRead'
  BY <1>1, <1>2 DEF Alone, NotYetRead
<1>5. OnceQueued'
  <2>1. \A b \in Ours' : Queued(b)' => Untaken(b)' /\ ~There(b)'
    BY <1>2 DEF Alone, OnceQueued
  <2>2. \A j, k \in 1..Len(queue') : j # k /\ queue'[k].att = att' => queue'[j] # queue'[k]
    BY DEF Alone, OnceQueued
  <2> QED BY <2>1, <2>2 DEF OnceQueued
<1>6. OneWriter'
  <2>1. \A b \in Ours' : \A w \in Writers :
          Taken(w, b)' => ~There(b)' /\ \A v \in Writers : v # w => ~Taken(v, b)'
    BY <1>2 DEF Alone, OneWriter
  <2>2. \A w \in Writers : wpc'[w] # "report" =>
          /\ \A j, k \in 1..Len(buf'[w]) : j # k /\ buf'[w][k].att = att' => buf'[w][j] # buf'[w][k]
          /\ \A k \in 1..Len(buf'[w]) : wpc'[w] = "write" /\ buf'[w][k].att = att' => buf'[w][k] # hand'[w]
    BY DEF Alone, OneWriter
  <2> QED BY <2>1, <2>2 DEF OneWriter
<1> QED BY <1>3, <1>4, <1>5, <1>6 DEF Alone

LEMMA AloneReader ==
  ASSUME Typed, Alone, NEW r \in Readers, ReaderStep(r)
  PROVE  Alone'
<1>0. /\ UNCHANGED <<att, regAtt, wpc, hand, buf, rows, twice>>
      /\ rpc \in [Readers -> ReaderPcs] /\ job \in [Readers -> Job]
  BY DEF Typed, JobType, ReaderStep, Pick, LookUp, SeesStop, SeesCancel, ChunkRead, Read, ReadFails, Put,
     PutFails, MarkDone, SetTableErr, CancelAttempt, DropChunks, ReadFrame, writeVars, dbVars, coordVars
<1>1. \A q \in Readers : q # r => rpc'[q] = rpc[q] /\ job'[q] = job[q] /\ (Holds(q)' <=> Holds(q))
  <2>1. \A q \in Readers : q # r => rpc'[q] = rpc[q] /\ job'[q] = job[q]
    BY <1>0 DEF ReaderStep, Pick, LookUp, SeesStop, SeesCancel, ChunkRead, Read, ReadFails, Put,
       PutFails, MarkDone, SetTableErr, CancelAttempt, DropChunks, Goes, Rests, EndsWith
  <2> QED BY <1>0, <2>1 DEF Holds
<1>2. ASSUME Holds(r)' => Holds(r) /\ job'[r].c = job[r].c /\ job'[r].i = job[r].i,
             todo' \subseteq todo, queue' = queue
      PROVE  Alone'
  <2>1. \A q \in Readers : Holds(q)' => Holds(q) /\ job'[q].c = job[q].c /\ job'[q].i = job[q].i
    BY <1>1, <1>2
  <2> QED BY <1>0, <1>2, <2>1, AloneKept
<1>3. ASSUME NEW p \in {"idle", "mark", "book", "cancel", "drop"}, Goes(r, p),
             todo' \subseteq todo, queue' = queue
      PROVE  Alone'
  <2>1. rpc'[r] = p
    BY <1>0, <1>3 DEF Goes
  <2>2. ~Holds(r)'
    BY <1>3, <2>1 DEF Holds
  <2> QED BY <1>2, <1>3, <2>2
<1>4. CASE Pick(r)
  <2> DEFINE m == Min(todo)
  <2>1. m \in todo /\ todo' = todo \ {m} /\ queue' = queue
    BY <1>4, LeastChunk DEF Pick, Typed, CoordType
  <2>2. rpc'[r] = "lookup" /\ job'[r].c = m /\ job'[r].i = 1
    <3>1. job' = [job EXCEPT ![r] = [NoJob EXCEPT !.c = Min(todo), !.i = 1]] /\ Goes(r, "lookup")
      BY <1>4 DEF Pick
    <3> QED BY <1>0, <3>1 DEF Goes, NoJob
  <2> HIDE DEF m
  <2>3. OneReader'
    BY <1>1, <2>1, <2>2 DEF Alone, OneReader
  <2>4. \A c, i : ToRead(c, i)' => ToRead(c, i)
    <3> SUFFICES ASSUME NEW c, NEW i, ToRead(c, i)' PROVE ToRead(c, i)
      OBVIOUS
    <3>1. CASE c \in todo'
      BY <2>1, <3>1 DEF ToRead
    <3>2. CASE \E q \in Readers : Holds(q)' /\ job'[q].c = c /\ job'[q].i <= i
      <4>1. PICK q \in Readers : Holds(q)' /\ job'[q].c = c /\ job'[q].i <= i
        BY <3>2
      <4>2. CASE q = r
        BY <2>1, <2>2, <4>1, <4>2 DEF ToRead
      <4>3. CASE q # r
        BY <1>1, <4>1, <4>3 DEF ToRead
      <4> QED BY <4>2, <4>3
    <3> QED BY <3>1, <3>2 DEF ToRead
  <2>5. /\ \A b : Queued(b)' <=> Queued(b)
        /\ \A b : \A w \in Writers : Taken(w, b)' <=> Taken(w, b)
        /\ \A b : Untaken(b)' <=> Untaken(b)
        /\ \A b : There(b)' <=> There(b)
        /\ Ours' = Ours
    BY <1>0, <2>1 DEF Queued, Taken, Untaken, There, Ours, RowOf, Batch
  <2>6. NotYetRead'
    BY <2>4, <2>5 DEF Alone, NotYetRead
  <2>7. OnceQueued' /\ OneWriter' /\ twice'[att'] = {}
    BY <1>0, <2>1, <2>5 DEF Alone, OnceQueued, OneWriter
  <2> QED BY <2>3, <2>6, <2>7 DEF Alone
<1>5. CASE LookUp(r)
  <2>1. rpc[r] = "lookup" /\ job'[r].c = job[r].c /\ job'[r].i = job[r].i /\ UNCHANGED <<todo, queue>>
    BY <1>0, <1>5 DEF LookUp, schedVars
  <2> QED BY <1>2, <2>1 DEF Holds
<1>6. CASE Read(r)
  <2>1. rpc[r] = "read" /\ UNCHANGED <<todo, queue>>
    BY <1>6 DEF Read, schedVars
  <2>2. CASE Goes(r, "put") /\ UNCHANGED job
    BY <1>0, <1>2, <2>1, <2>2 DEF Holds, Goes
  <2>3. CASE EndsWith(r, "fatal")
    BY <1>3, <2>1, <2>3 DEF EndsWith
  <2> QED BY <1>6, <2>2, <2>3 DEF Read
<1>7. CASE Put(r)
  <2>0. PICK b0 : b0 = [att |-> job[r].att, c |-> job[r].c, i |-> job[r].i]
    OBVIOUS
  <2>1. rpc[r] = "put" /\ queue' = Append(queue, b0) /\ todo' = todo
    BY <1>7, <2>0 DEF Put, schedVars
  <2>2. rpc'[r] = "read" /\ job'[r].att = job[r].att /\ job'[r].c = job[r].c /\ job'[r].i = job[r].i + 1
    BY <1>0, <1>7 DEF Put, Goes
  <2>3. job[r] \in Job /\ job[r].i \in Nat /\ b0.c = job[r].c /\ b0.i = job[r].i /\ b0.att = job[r].att
    BY <1>0, <2>0 DEF Job
  <2>4. queue \in Seq(Batch)
    BY DEF Typed, WriteType
  <2>5. b0 \in Batch
    <3>1. job[r].c \in Chunks /\ job[r].att \in 1..regAtt
      BY <2>1 DEF Typed, JobType
    <3>2. regAtt \in 0..(MaxRetries + 1)
      BY Bounds DEF Typed, CoordType, TaskType
    <3> QED BY <2>0, <2>3, <3>1, <3>2, Bounds DEF Batch, Attempts
  <2>6. /\ Len(queue') = Len(queue) + 1 /\ Len(queue) \in Nat /\ queue'[Len(queue) + 1] = b0
        /\ \A k \in 1..Len(queue) : queue'[k] = queue[k]
    BY <2>1, <2>4, <2>5
  <2>7. \A b : Queued(b)' => Queued(b) \/ b = b0
    BY <2>6 DEF Queued
  <2>8. \A q \in Readers : Holds(q)' <=> Holds(q)
    BY <1>0, <1>1, <2>1, <2>2 DEF Holds
  <2>9. OneReader'
    BY <1>1, <2>1, <2>2, <2>8 DEF Alone, OneReader
  <2>10. \A c : \A i \in Nat : ToRead(c, i)' => ToRead(c, i)
    <3> SUFFICES ASSUME NEW c, NEW i \in Nat, ToRead(c, i)' PROVE ToRead(c, i)
      OBVIOUS
    <3>1. CASE c \in todo'
      BY <2>1, <3>1 DEF ToRead
    <3>2. CASE \E q \in Readers : Holds(q)' /\ job'[q].c = c /\ job'[q].i <= i
      <4>1. PICK q \in Readers : Holds(q)' /\ job'[q].c = c /\ job'[q].i <= i
        BY <3>2
      <4>2. job[q].c = c /\ job[q].i <= i
        BY <1>1, <2>2, <2>3, <4>1
      <4> QED BY <2>8, <4>1, <4>2 DEF ToRead
    <3> QED BY <3>1, <3>2 DEF ToRead
  <2>11. /\ \A b : \A w \in Writers : Taken(w, b)' <=> Taken(w, b)
         /\ \A b : Untaken(b)' <=> Untaken(b)
         /\ \A b : There(b)' <=> There(b)
         /\ Ours' = Ours
    BY <1>0 DEF Taken, Untaken, There, Ours, RowOf, Batch
  <2>12. b0 \in Ours => /\ ToRead(b0.c, b0.i) /\ ~ToRead(b0.c, b0.i)'
                        /\ ~Queued(b0) /\ Untaken(b0) /\ ~There(b0)
    <3> SUFFICES ASSUME b0 \in Ours
                 PROVE  /\ ToRead(b0.c, b0.i) /\ ~ToRead(b0.c, b0.i)'
                        /\ ~Queued(b0) /\ Untaken(b0) /\ ~There(b0)
      OBVIOUS
    <3>1. Holds(r)
      BY <2>1, <2>3 DEF Holds, Ours
    <3>2. ToRead(b0.c, b0.i)
      BY <2>3, <3>1 DEF ToRead
    <3>3. b0.c \notin todo'
      BY <2>1, <2>3, <3>1 DEF Alone, OneReader
    <3>4. ASSUME NEW q \in Readers, Holds(q)', job'[q].c = b0.c PROVE q = r
      BY <2>2, <2>3, <2>8, <2>9, <3>1, <3>4 DEF OneReader
    <3>5. ~(job'[r].i <= b0.i)
      BY <2>2, <2>3
    <3>6. ~ToRead(b0.c, b0.i)'
      BY <3>3, <3>4, <3>5 DEF ToRead
    <3> QED BY <3>2, <3>6 DEF Alone, NotYetRead
  <2>13. NotYetRead'
    <3>1. \A b \in Ours : b.i \in Nat
      BY DEF Ours, Batch
    <3> QED BY <2>7, <2>10, <2>11, <2>12, <3>1 DEF Alone, NotYetRead
  <2>14. OnceQueued'
    <3>1. \A b \in Ours' : Queued(b)' => Untaken(b)' /\ ~There(b)'
      BY <2>7, <2>11, <2>12 DEF Alone, OnceQueued
    <3>2. ASSUME NEW j \in 1..Len(queue'), NEW k \in 1..Len(queue'), j # k, queue'[k].att = att',
                 queue'[j] = queue'[k]
          PROVE  FALSE
      <4>1. CASE j \in 1..Len(queue) /\ k \in 1..Len(queue)
        BY <1>0, <2>6, <3>2, <4>1 DEF Alone, OnceQueued
      <4>2. CASE ~(j \in 1..Len(queue) /\ k \in 1..Len(queue))
        <5>1. queue'[k] = b0
          BY <2>6, <3>2, <4>2
        <5>2. b0 \in Ours
          BY <1>0, <2>5, <3>2, <5>1 DEF Ours
        <5>3. Queued(b0)
          BY <2>6, <3>2, <4>2, <5>1 DEF Queued
        <5> QED BY <2>12, <5>2, <5>3
      <4> QED BY <4>1, <4>2
    <3> QED BY <3>1, <3>2 DEF OnceQueued
  <2>15. OneWriter' /\ twice'[att'] = {}
    BY <1>0, <2>11 DEF Alone, OneWriter
  <2> QED BY <2>9, <2>13, <2>14, <2>15 DEF Alone
<1>8. CASE SeesStop(r) \/ SeesCancel(r) \/ ChunkRead(r) \/ ReadFails(r) \/ PutFails(r)
  <2>1. Goes(r, "mark") /\ UNCHANGED <<todo, queue>>
    BY <1>8 DEF SeesStop, SeesCancel, ChunkRead, ReadFails, PutFails, EndsWith, schedVars
  <2> QED BY <1>3, <2>1
<1>9. CASE MarkDone(r) \/ SetTableErr(r) \/ CancelAttempt(r) \/ DropChunks(r)
  <2>1. \E p \in {"idle", "book", "cancel", "drop"} : Goes(r, p)
    BY <1>9 DEF MarkDone, SetTableErr, CancelAttempt, DropChunks, Rests
  <2>2. todo' \subseteq todo /\ queue' = queue
    BY <1>9 DEF MarkDone, SetTableErr, CancelAttempt, DropChunks, schedVars
  <2> QED BY <1>3, <2>1, <2>2
<1> QED
  BY <1>4, <1>5, <1>6, <1>7, <1>8, <1>9 DEF ReaderStep

(* What a writer takes was queued, what it commits it had taken. *)
LEMMA AloneMoves ==
  ASSUME Alone, NEW w \in Writers, UNCHANGED <<att, todo, rpc, job>>,
         \A v \in Writers : v # w => wpc'[v] = wpc[v] /\ hand'[v] = hand[v] /\ buf'[v] = buf[v],
         \A b \in Ours : Queued(b)' => Queued(b),
         \A b \in Ours : Taken(w, b)' => Taken(w, b) \/ (Queued(b) /\ ~Queued(b)'),
         \A b \in Ours : There(b)' => There(b) \/ (Taken(w, b) /\ ~Taken(w, b)'),
         \A j, k \in 1..Len(queue') : j # k /\ queue'[k].att = att => queue'[j] # queue'[k],
         wpc'[w] # "report" =>
           /\ \A j, k \in 1..Len(buf'[w]) : j # k /\ buf'[w][k].att = att => buf'[w][j] # buf'[w][k]
           /\ \A k \in 1..Len(buf'[w]) : wpc'[w] = "write" /\ buf'[w][k].att = att => buf'[w][k] # hand'[w],
         twice'[att] = {}
  PROVE  Alone'
<1>1. Ours' = Ours /\ (\A c, i : ToRead(c, i)' <=> ToRead(c, i)) /\ OneReader'
  BY DEF Ours, Batch, ToRead, Holds, Alone, OneReader
<1>2. \A v \in Writers : v # w => \A b : Taken(v, b)' <=> Taken(v, b)
  BY DEF Taken
<1>3. \A b \in Ours : ToRead(b.c, b.i) => ~Queued(b) /\ Untaken(b) /\ ~There(b)
  BY DEF Alone, NotYetRead
<1>4. \A b \in Ours : Queued(b) => Untaken(b) /\ ~There(b)
  BY DEF Alone, OnceQueued
<1>5. \A b \in Ours : \A u \in Writers : Taken(u, b) => ~There(b) /\ \A v \in Writers : v # u => ~Taken(v, b)
  BY DEF Alone, OneWriter
<1>6. NotYetRead'
  BY <1>1, <1>2, <1>3 DEF NotYetRead, Untaken
<1>7. OnceQueued'
  <2>1. \A b \in Ours : Queued(b)' => Untaken(b)' /\ ~There(b)'
    BY <1>2, <1>4 DEF Untaken
  <2> QED BY <1>1, <2>1 DEF OnceQueued
<1>8. OneWriter'
  <2>1. ASSUME NEW b \in Ours, NEW u \in Writers, Taken(u, b)'
        PROVE  ~There(b)' /\ \A v \in Writers : v # u => ~Taken(v, b)'
    <3>1. CASE u = w
      BY <1>2, <1>4, <1>5, <2>1, <3>1 DEF Untaken
    <3>2. CASE u # w
      BY <1>2, <1>4, <1>5, <2>1, <3>2 DEF Untaken
    <3> QED BY <3>1, <3>2
  <2>2. ASSUME NEW u \in Writers, wpc'[u] # "report"
        PROVE  /\ \A j, k \in 1..Len(buf'[u]) : j # k /\ buf'[u][k].att = att' => buf'[u][j] # buf'[u][k]
               /\ \A k \in 1..Len(buf'[u]) : wpc'[u] = "write" /\ buf'[u][k].att = att' => buf'[u][k] # hand'[u]
    <3>1. CASE u = w
      BY <2>2, <3>1
    <3>2. CASE u # w
      BY <2>2, <3>2 DEF Alone, OneWriter
    <3> QED BY <3>1, <3>2
  <2> QED BY <1>1, <2>1, <2>2 DEF OneWriter
<1> QED BY <1>1, <1>6, <1>7, <1>8 DEF Alone

(* What is inserted was in the transaction, and not there before. *)
LEMMA InsertedOfBuf ==
  ASSUME Typed, att \in Attempts, NEW w \in Writers, wpc[w] = "get", Inserted(buf[w]), att' = att
  PROVE  /\ \A b \in Ours : There(b)' => There(b) \/ Taken(w, b)
         /\ Alone => twice'[att] = {}
<1>1. buf[w] \in Seq(Batch) /\ rows \in [Attempts -> SUBSET Row] /\ twice \in [Attempts -> SUBSET Row]
  BY DEF Typed, WriteType, RowsType
<1>2. \A k \in 1..Len(buf[w]) : buf[w][k].att = att => buf[w][k] \in Ours /\ Taken(w, buf[w][k])
  BY <1>1 DEF Ours, Taken
<1>3. ASSUME NEW b \in Ours, There(b)' PROVE There(b) \/ Taken(w, b)
  <2>1. rows'[att] = rows[att] \cup RowsOf(buf[w], att)
    BY DEF Inserted
  <2>2. CASE RowOf(b) \in RowsOf(buf[w], att)
    <3>1. PICK k \in 1..Len(buf[w]) : buf[w][k].att = att /\ RowOf(b) = RowOf(buf[w][k])
      BY <2>2 DEF RowsOf
    <3>2. buf[w][k] = b
      <4>1. buf[w][k] \in Batch /\ b \in Batch /\ b.att = att
        BY <1>1 DEF Ours
      <4>2. b.c = buf[w][k].c /\ b.i = buf[w][k].i
        BY <3>1 DEF RowOf
      <4> QED BY <3>1, <4>1, <4>2 DEF Batch
    <3> QED BY <1>2, <3>1, <3>2
  <2> QED BY <1>3, <2>1, <2>2 DEF There, RowOf
<1>4. ASSUME Alone PROVE twice'[att] = {}
  <2>1. twice'[att] = twice[att] \cup Doubled(buf[w], att) /\ twice[att] = {}
    BY <1>4 DEF Inserted, Alone
  <2>2. ASSUME NEW x \in Doubled(buf[w], att) PROVE FALSE
    <3>1. CASE x \in RowsOf(buf[w], att) /\ x \in rows[att]
      <4>1. PICK k \in 1..Len(buf[w]) : buf[w][k].att = att /\ x = RowOf(buf[w][k])
        BY <3>1 DEF RowsOf
      <4>2. There(buf[w][k])
        BY <3>1, <4>1 DEF There
      <4> QED BY <1>2, <1>4, <4>1, <4>2 DEF Alone, OneWriter
    <3>2. CASE \E j, k \in 1..Len(buf[w]) : j # k /\ buf[w][j] = buf[w][k] /\ buf[w][k].att = att
      BY <1>4, <3>2 DEF Alone, OneWriter
    <3> QED BY <2>2, <3>1, <3>2 DEF Doubled
  <2> QED BY <2>1, <2>2
<1> QED BY <1>3, <1>4

LEMMA AloneWriter ==
  ASSUME Typed, Registered, Alone, NEW w \in Writers, WriterStep(w)
  PROVE  Alone'
<1>0. /\ queue \in Seq(Batch) /\ wpc \in [Writers -> WriterPcs] /\ att \in Attempts
      /\ hand \in [Writers -> Batch \cup {NoBatch}] /\ buf \in [Writers -> Seq(Batch)]
      /\ UNCHANGED <<att, todo, rpc, job>> /\ twice[att] = {}
  <2>1. att \in Attempts
    BY Bounds DEF Registered, Typed, TaskType, Attempts
  <2> QED BY <2>1 DEF Typed, WriteType, Alone, WriterStep, Take, Write, WriteFails, Commit, CommitFails, Report, WriterLeaves,
     WriteFrame, schedVars, readVars
<1>1. \A v \in Writers : v # w => wpc'[v] = wpc[v] /\ hand'[v] = hand[v] /\ buf'[v] = buf[v]
  BY <1>0 DEF WriterStep, Take, Write, WriteFails, Commit, CommitFails, Report, WriterLeaves, Writes, NewBuf
<1>2. /\ \A j, k \in 1..Len(queue) : j # k /\ queue[k].att = att => queue[j] # queue[k]
      /\ wpc[w] # "report" =>
           /\ \A j, k \in 1..Len(buf[w]) : j # k /\ buf[w][k].att = att => buf[w][j] # buf[w][k]
           /\ \A k \in 1..Len(buf[w]) : wpc[w] = "write" /\ buf[w][k].att = att => buf[w][k] # hand[w]
  BY DEF Alone, OnceQueued, OneWriter
<1>3. UNCHANGED queue => /\ \A b : Queued(b)' <=> Queued(b)
                         /\ \A j, k \in 1..Len(queue') : j # k /\ queue'[k].att = att => queue'[j] # queue'[k]
  BY <1>2 DEF Queued
<1>4. Stays => twice'[att] = {} /\ \A b : There(b)' => There(b)
  BY <1>0 DEF Stays, There, RowOf
<1>5. ASSUME Stays, queue' = queue, buf'[w] = <<>>, wpc'[w] # "write" PROVE Alone'
  <2>1. \A b : ~Taken(w, b)'
    BY <1>5 DEF Taken
  <2>2. /\ \A j, k \in 1..Len(buf'[w]) : j # k /\ buf'[w][k].att = att => buf'[w][j] # buf'[w][k]
        /\ \A k \in 1..Len(buf'[w]) : wpc'[w] = "write" /\ buf'[w][k].att = att => buf'[w][k] # hand'[w]
    BY <1>5
  <2> QED BY <1>0, <1>1, <1>3, <1>4, <1>5, <2>1, <2>2, AloneMoves
<1>6. CASE Take(w)
  <2>1. queue # <<>> /\ queue' = Tail(queue) /\ buf' = buf /\ Stays /\ wpc[w] = "get"
    BY <1>6 DEF Take
  <2>2. /\ Len(queue') = Len(queue) - 1 /\ Len(queue) \in Nat /\ Len(queue) >= 1 /\ Head(queue) = queue[1]
        /\ \A k \in 1..Len(queue') : queue'[k] = queue[k + 1] /\ k + 1 \in 1..Len(queue)
    BY <1>0, <2>1
  <2>3. \A b : Queued(b)' => Queued(b)
    BY <2>2 DEF Queued
  <2>4. \A j, k \in 1..Len(queue') : j # k /\ queue'[k].att = att => queue'[j] # queue'[k]
    BY <1>2, <2>2
  <2>5. twice'[att] = {} /\ \A b : There(b)' => There(b)
    BY <1>4, <2>1
  <2>6. \A j, k \in 1..Len(buf'[w]) : j # k /\ buf'[w][k].att = att => buf'[w][j] # buf'[w][k]
    BY <1>2, <2>1
  <2>7. CASE IsCurrent(Head(queue).att)
    <3>0. PICK h : h = queue[1]
      OBVIOUS
    <3>1. wpc'[w] = "write" /\ hand'[w] = h
      BY <1>0, <1>6, <2>2, <2>7, <3>0 DEF Take, Writes
    <3>2. h \in Ours
      <4>1. h \in Batch
        BY <1>0, <2>2, <3>0
      <4> QED BY <2>2, <2>7, <3>0, <4>1 DEF Ours, IsCurrent
    <3>3. Queued(h)
      BY <2>2, <3>0 DEF Queued
    <3>4. ~Queued(h)'
      <4> SUFFICES ASSUME NEW k \in 1..Len(queue'), queue'[k] = h PROVE FALSE
        BY DEF Queued
      <4>1. k + 1 \in 1..Len(queue) /\ k + 1 # 1 /\ queue[k + 1] = queue[1] /\ 1 \in 1..Len(queue)
        BY <2>2, <3>0
      <4> QED BY <1>2, <3>0, <3>2, <4>1 DEF Ours
    <3>5. \A b \in Ours : Taken(w, b)' => Taken(w, b) \/ (Queued(b) /\ ~Queued(b)')
      <4> SUFFICES ASSUME NEW b \in Ours, Taken(w, b)' PROVE Taken(w, b) \/ (Queued(b) /\ ~Queued(b)')
        OBVIOUS
      <4>1. CASE b = h
        BY <3>3, <3>4, <4>1
      <4>2. CASE b # h
        BY <2>1, <3>1, <4>2 DEF Taken
      <4> QED BY <4>1, <4>2
    <3>6. ASSUME NEW k \in 1..Len(buf'[w]), buf'[w][k].att = att PROVE buf'[w][k] # hand'[w]
      <4>1. Taken(w, buf[w][k])
        BY <2>1, <3>6 DEF Taken
      <4> QED BY <2>1, <3>1, <3>2, <3>3, <4>1 DEF Alone, OnceQueued, Untaken
    <3>7. \A b \in Ours : Queued(b)' => Queued(b)
      BY <2>3
    <3>8. \A b \in Ours : There(b)' => There(b) \/ (Taken(w, b) /\ ~Taken(w, b)')
      BY <2>5
    <3>9. wpc'[w] # "report" =>
            /\ \A j, k \in 1..Len(buf'[w]) : j # k /\ buf'[w][k].att = att => buf'[w][j] # buf'[w][k]
            /\ \A k \in 1..Len(buf'[w]) : wpc'[w] = "write" /\ buf'[w][k].att = att => buf'[w][k] # hand'[w]
      BY <2>6, <3>6
    <3> QED BY <1>0, <1>1, <2>4, <2>5, <3>5, <3>7, <3>8, <3>9, AloneMoves
  <2>8. CASE ~IsCurrent(Head(queue).att)
    <3>1. UNCHANGED <<wpc, hand>>
      BY <1>6, <2>8 DEF Take
    <3>2. \A b : Taken(w, b)' => Taken(w, b)
      BY <2>1, <3>1 DEF Taken
    <3>3. \A k \in 1..Len(buf'[w]) : wpc'[w] = "write" /\ buf'[w][k].att = att => buf'[w][k] # hand'[w]
      BY <2>1, <3>1
    <3> QED BY <1>0, <1>1, <2>3, <2>4, <2>5, <2>6, <3>2, <3>3, AloneMoves
  <2> QED BY <2>7, <2>8
<1>7. CASE Write(w)
  <2>1. /\ wpc[w] = "write" /\ wpc'[w] = "get" /\ queue' = queue /\ Stays
        /\ buf'[w] = Append(buf[w], hand[w])
    BY <1>0, <1>7 DEF Write, Writes, NewBuf
  <2>2. hand[w] \in Batch
    BY <2>1 DEF Typed, WriteType, Real
  <2>3. /\ Len(buf'[w]) = Len(buf[w]) + 1 /\ Len(buf[w]) \in Nat /\ buf'[w][Len(buf[w]) + 1] = hand[w]
        /\ \A k \in 1..Len(buf[w]) : buf'[w][k] = buf[w][k]
    BY <1>0, <2>1, <2>2
  <2>4. \A b : Taken(w, b)' => Taken(w, b)
    BY <2>1, <2>3 DEF Taken
  <2>5. ASSUME NEW j \in 1..Len(buf'[w]), NEW k \in 1..Len(buf'[w]), j # k, buf'[w][k].att = att,
               buf'[w][j] = buf'[w][k]
        PROVE  FALSE
    <3>1. CASE j \in 1..Len(buf[w]) /\ k \in 1..Len(buf[w])
      BY <1>2, <2>1, <2>3, <2>5, <3>1
    <3>2. CASE j \in 1..Len(buf[w]) /\ k = Len(buf[w]) + 1
      BY <1>2, <2>1, <2>3, <2>5, <3>2
    <3>3. CASE k \in 1..Len(buf[w]) /\ j = Len(buf[w]) + 1
      BY <1>2, <2>1, <2>3, <2>5, <3>3
    <3> QED BY <2>3, <2>5, <3>1, <3>2, <3>3
  <2>6. /\ \A j, k \in 1..Len(buf'[w]) : j # k /\ buf'[w][k].att = att => buf'[w][j] # buf'[w][k]
        /\ \A k \in 1..Len(buf'[w]) : wpc'[w] = "write" /\ buf'[w][k].att = att => buf'[w][k] # hand'[w]
    BY <2>1, <2>5
  <2> QED BY <1>0, <1>1, <1>3, <1>4, <2>1, <2>4, <2>6, AloneMoves
<1>8. CASE WriteFails(w) \/ Report(w) \/ WriterLeaves(w)
  <2>1. Stays /\ queue' = queue /\ buf'[w] = <<>> /\ wpc'[w] # "write"
    BY <1>0, <1>8 DEF WriteFails, Report, WriterLeaves, Writes, NewBuf
  <2> QED BY <1>5, <2>1
<1>9. ASSUME wpc[w] = "get", Inserted(buf[w]), queue' = queue, \A b : ~Taken(w, b)',
             wpc'[w] # "report" => buf'[w] = <<>>
      PROVE  Alone'
  <2>1. (\A b \in Ours : There(b)' => There(b) \/ Taken(w, b)) /\ twice'[att] = {}
    BY <1>0, <1>9, InsertedOfBuf
  <2> QED BY <1>0, <1>1, <1>3, <1>9, <2>1, AloneMoves
<1>10. CASE Commit(w)
  <2>1. wpc[w] = "get" /\ Inserted(buf[w]) /\ queue' = queue /\ wpc'[w] = "report"
    BY <1>0, <1>10 DEF Commit, Writes
  <2>2. \A b : ~Taken(w, b)'
    BY <2>1 DEF Taken
  <2> QED BY <1>9, <2>1, <2>2
<1>11. CASE CommitFails(w)
  <2>1. wpc[w] = "get" /\ queue' = queue /\ wpc'[w] = "failed" /\ buf'[w] = <<>> /\ (Stays \/ Inserted(buf[w]))
    BY <1>0, <1>11 DEF CommitFails, Writes, NewBuf
  <2>2. \A b : ~Taken(w, b)'
    BY <2>1 DEF Taken
  <2> QED BY <1>5, <1>9, <2>1, <2>2
<1> QED BY <1>6, <1>7, <1>8, <1>10, <1>11 DEF WriterStep

LEMMA OnceMain == ASSUME Typed, Once, MainStep PROVE Once'
<1>0. /\ UNCHANGED <<rpc, job, queue, wpc, hand, buf>> /\ att \in Nat /\ regAtt \in 0..att
      /\ rows \in [Attempts -> SUBSET Row] /\ twice \in [Attempts -> SUBSET Row]
      /\ pc \in {"prepare", "plan"} => rows[att] = {}
      /\ pc \in {"wait", "drained", "publish"} => Registered
      /\ Registered /\ "early" \notin marred => Alone
      /\ final.published = TRUE /\ "early" \notin final.marred => final.twice = {}
      /\ Registered => att \in Attempts
  BY Bounds DEF Typed, TaskType, CoordType, RowsType, Once, Registered, Attempts,
     MainStep, Top, Barrier, BarrierTimesOut, StartAttempt, Create, CreateFails,
     PrepareRetry, Submit, PlanFails, Wait, DataReady, Publish, PublishFails, Record, Failed, GiveUp,
     readVars, writeVars
<1>1. CASE StartAttempt
  <2>1. att' = att + 1 /\ regAtt' = regAtt /\ pc' \in {"create", "error"} /\ final' = final
    BY <1>1, SaveGoes DEF StartAttempt, Typed, TaskType, coordVars, dbVars
  <2>2. ~Registered'
    BY <1>0, <2>1 DEF Registered
  <2> QED BY <1>0, <2>1, <2>2 DEF Once
<1>2. CASE Create
  <2>1. /\ att' = att /\ regAtt' = regAtt /\ final' = final /\ regAtt < att /\ att \in Attempts
        /\ pc' \in {"prepare", "plan", "error"}
    BY <1>2, SaveGoes DEF Create, Typed, TaskType, CoordType, coordVars
  <2>2. rows'[att'] = {}
    BY <1>0, <1>2, <2>1 DEF Create, CreateStaging, Emptied
  <2>3. ~Registered'
    BY <1>0, <2>1 DEF Registered
  <2> QED BY <1>0, <2>1, <2>2, <2>3 DEF Once
<1>3. CASE PrepareRetry
  <2>1. /\ att' = att /\ regAtt' = regAtt /\ UNCHANGED <<rows, final>> /\ regAtt < att /\ pc = "prepare" /\ pc' = "plan"
    BY <1>3 DEF PrepareRetry, Typed, CoordType, stateVars, dbVars
  <2>2. ~Registered'
    BY <1>0, <2>1 DEF Registered
  <2> QED BY <1>0, <2>1, <2>2 DEF Once
<1>4. CASE Submit
  <2>1. /\ pc = "plan" /\ pc' = "wait" /\ att' = att /\ regAtt' = att /\ todo' = Chunks /\ regAtt < att
        /\ att \in Attempts /\ UNCHANGED <<rows, twice, final>> /\ rows[att] = {}
    BY <1>0, <1>4 DEF Submit, Typed, CoordType, TaskType, stateVars, dbVars
  <2>2. twice[att] = {}
    BY <2>1 DEF Typed, RowsType
  <2>3. "early" \notin marred' => \A r \in Readers : rpc[r] # "lookup"
    BY <1>4 DEF Submit
  <2>4. \A r \in Readers : rpc[r] \in {"read", "put"} => job[r].att # att
    BY <1>0, <2>1 DEF Typed, JobType
  <2>5. \A b \in Batch : Real(b) => b.att # att
    BY <1>0, <2>1 DEF Real, Batch, Attempts
  <2>6. /\ \A k \in 1..Len(queue) : queue[k].att # att
        /\ \A w \in Writers : wpc[w] = "write" => hand[w].att # att
        /\ \A w \in Writers : \A k \in 1..Len(buf[w]) : buf[w][k].att # att
    BY <2>5 DEF Typed, WriteType, Real
  <2>7. ASSUME "early" \notin marred' PROVE Alone'
    <3>1. \A r \in Readers : ~Holds(r)'
      BY <1>0, <2>1, <2>3, <2>4, <2>7 DEF Holds
    <3>2. OneReader'
      BY <3>1 DEF OneReader
    <3>3. \A b \in Ours' : ~Queued(b)' /\ ~There(b)' /\ \A w \in Writers : ~Taken(w, b)'
      BY <1>0, <2>1, <2>6 DEF Ours, Queued, There, Taken
    <3>4. NotYetRead'
      BY <3>3 DEF NotYetRead, Untaken
    <3>5. OnceQueued'
      BY <1>0, <2>1, <2>6, <3>3 DEF OnceQueued
    <3>6. OneWriter'
      BY <1>0, <2>1, <2>6, <3>3 DEF OneWriter
    <3> QED BY <2>1, <2>2, <3>2, <3>4, <3>5, <3>6 DEF Alone
  <2>8. Registered'
    BY <1>0, <2>1, Bounds DEF Registered, Attempts
  <2> QED BY <1>0, <2>1, <2>7, <2>8 DEF Once
<1>5. CASE ~(StartAttempt \/ Create \/ PrepareRetry \/ Submit)
  <2>1. /\ UNCHANGED <<att, regAtt, todo, marred>> /\ pc' \notin {"prepare", "plan", "wait"}
        /\ pc' \in {"drained", "publish"} => pc \in {"wait", "drained"} \/ (pc = "plan" /\ readErr' = "none" /\ PlanFails)
    BY <1>5, SaveGoes DEF MainStep, Top, Barrier, BarrierTimesOut, CreateFails, MainFails, ReadReturns,
     PlanFails, Wait, DataReady, Publish, PublishFails, Record, Failed, GiveUp, stateVars, coordVars, schedVars, Typed, TaskType
  <2>2. PlanFails => pc' = "failed"
    BY DEF PlanFails, ReadReturns
  <2>3. pc' \in {"drained", "publish"} => Registered
    BY <1>0, <2>1, <2>2
  <2>4. \A a \in Attempts : rows'[a] \subseteq rows[a] /\ twice'[a] \subseteq twice[a]
    <3>1. UNCHANGED <<rows, twice>> \/ \E a : Emptied(a)
      BY <1>5 DEF MainStep, Top, Barrier, BarrierTimesOut, CreateFails,
       PlanFails, Wait, DataReady, Publish, PublishFails, Record, Failed, GiveUp, dbVars, DropStaging
    <3> QED BY <1>0, <3>1 DEF Emptied
  <2>5. \A r \in Readers : Holds(r)' <=> Holds(r)
    BY <1>0, <2>1 DEF Holds
  <2>6. Registered /\ "early" \notin marred => Alone'
    BY <1>0, <2>1, <2>4, <2>5, AloneKept
  <2>7. Registered' <=> Registered
    BY <2>1 DEF Registered
  <2>8. final' = final \/ (pc = "publish" /\ final'.marred = marred /\ final'.twice = twice[att])
    BY <1>5 DEF MainStep, Top, Barrier, BarrierTimesOut, CreateFails,
       PlanFails, Wait, DataReady, Publish, PublishFails, Record, Failed, GiveUp, dbVars
  <2>9. final'.published = TRUE /\ "early" \notin final'.marred => final'.twice = {}
    BY <1>0, <2>8 DEF Alone
  <2> QED BY <2>1, <2>3, <2>6, <2>7, <2>9 DEF Once
<1> QED BY <1>1, <1>2, <1>3, <1>4, <1>5

LEMMA OnceReader ==
  ASSUME Typed, Once, NEW r \in Readers, ReaderStep(r)
  PROVE  Once'
<1>1. UNCHANGED <<pc, att, regAtt, rows, final>> /\ ("early" \notin marred' => "early" \notin marred)
  BY DEF ReaderStep, Pick, LookUp, SeesStop, SeesCancel, ChunkRead, Read, ReadFails, Put,
     PutFails, MarkDone, SetTableErr, CancelAttempt, DropChunks, ReadFrame, mainVars, coordVars, dbVars
<1>2. Registered' <=> Registered
  BY <1>1 DEF Registered
<1>3. Registered' /\ "early" \notin marred' => Alone'
  BY <1>1, <1>2, AloneReader DEF Once
<1> QED BY <1>1, <1>2, <1>3 DEF Once

LEMMA OnceWriter ==
  ASSUME Typed, Once, NEW w \in Writers, WriterStep(w)
  PROVE  Once'
<1>1. UNCHANGED <<pc, att, regAtt, final>> /\ ("early" \notin marred' => "early" \notin marred)
  BY DEF WriterStep, Take, Write, WriteFails, Commit, CommitFails, Report, WriterLeaves, WriteFrame, coordVars, mainVars
<1>2. Registered' <=> Registered
  BY <1>1 DEF Registered
<1>3. Registered' /\ "early" \notin marred' => Alone'
  BY <1>1, <1>2, AloneWriter DEF Once
<1>4. ASSUME pc \in {"prepare", "plan"} PROVE rows'[att] = {}
  <2>1. rows[att] = {} /\ regAtt < att /\ att \in Attempts /\ regAtt \in Nat
    BY <1>4, Bounds DEF Once, Typed, TaskType, CoordType
  <2>2. \A k \in 1..Len(buf[w]) : buf[w][k].att # att
    BY <2>1, Bounds DEF Typed, WriteType, Real, Batch, Attempts
  <2>3. RowsOf(buf[w], att) = {}
    BY <2>2 DEF RowsOf
  <2>4. Stays \/ Inserted(buf[w])
    BY DEF WriterStep, Take, Write, WriteFails, Commit, CommitFails, Report, WriterLeaves
  <2> QED BY <2>1, <2>3, <2>4 DEF Stays, Inserted
<1> QED BY <1>1, <1>2, <1>3, <1>4 DEF Once

LEMMA OnceStep == Typed /\ Once /\ [Next]_vars => Once'
<1> SUFFICES ASSUME Typed, Once, [Next]_vars PROVE Once'
  OBVIOUS
<1>0. ASSUME UNCHANGED <<pc, att, regAtt, marred, todo, rpc, job, queue, wpc, hand, buf, rows, twice, final>> PROVE Once'
  <2>1. Registered' <=> Registered
    BY <1>0 DEF Registered
  <2>2. \A r \in Readers : Holds(r)' <=> Holds(r)
    BY <1>0 DEF Holds
  <2>3. Alone => Alone'
    BY <1>0, <2>2, AloneKept
  <2> QED BY <1>0, <2>1, <2>3 DEF Once
<1>1. CASE MainStep
  BY <1>1, OnceMain
<1>2. ASSUME NEW r \in Readers, ReaderStep(r) PROVE Once'
  BY <1>2, OnceReader
<1>3. ASSUME NEW w \in Writers, WriterStep(w) PROVE Once'
  BY <1>3, OnceWriter
<1>4. CASE EngineStep \/ OtherTableFails \/ UserStops
  BY <1>0, <1>4 DEF EngineStep, EngineStopsWriters, EngineStopsReaders, OtherTableFails, UserStops,
     EngineFrame, mainVars, stateVars, schedVars, coordVars, readVars, dbVars
<1>5. CASE NextRun
  <2>1. att' = 0 /\ final' = final /\ pc' \in {"ok", "top"}
    BY <1>5 DEF NextRun
  <2> QED BY <2>1 DEF Once, Registered
<1>6. CASE UNCHANGED vars
  BY <1>0, <1>6 DEF vars, mainVars, stateVars, schedVars, coordVars, readVars, writeVars, dbVars
<1> QED BY <1>1, <1>2, <1>3, <1>4, <1>5, <1>6 DEF Next

LEMMA OnceStart == Init => Once
  BY DEF Init, Fresh, Once, Registered

(* No batch is twice in the staging table of the registered attempt or in    *)
(* the published one, whatever crashed runs and earlier attempts left there  *)
(* under the same name and however readers and writers interleave, unless a  *)
(* chunk was picked before the attempt was submitted and looked up after.    *)
THEOREM NothingStagedTwice == Spec => []StagedOnce
<1>1. Once => StagedOnce
  BY DEF Once, Alone, Registered, StagedOnce
<1> QED BY <1>1, Runs, TypedStart, TypedStep, OnceStart, OnceStep, PTL

-----------------------------------------------------------------------------
(* Counting the batches on their way. *)
LEMMA CountsAreNumbers ==
  ASSUME Typed
  PROVE  /\ IsFiniteSet(InPut) /\ Cardinality(InPut) \in Nat
         /\ IsFiniteSet(InQueue) /\ Cardinality(InQueue) \in Nat
         /\ IsFiniteSet(InHand) /\ Cardinality(InHand) \in Nat
         /\ IsFiniteSet(InBuf) /\ Cardinality(InBuf) \in Nat
         /\ \A w \in Writers : IsFiniteSet(BufOf(w)) /\ Cardinality(BufOf(w)) = Len(buf[w])
         /\ OnTheWay \in Nat
<1>1. IsFiniteSet(InPut) /\ Cardinality(InPut) \in Nat
  BY Bounds, FS_Subset, FS_CardinalityType DEF InPut
<1>2. IsFiniteSet(InQueue) /\ Cardinality(InQueue) \in Nat
  <2>1. Len(queue) \in Nat
    BY DEF Typed, WriteType
  <2>2. IsFiniteSet(1..Len(queue))
    BY <2>1, FS_Interval
  <2> QED BY <2>2, FS_Subset, FS_CardinalityType DEF InQueue
<1>3. IsFiniteSet(InHand) /\ Cardinality(InHand) \in Nat
  BY Bounds, FS_Subset, FS_CardinalityType DEF InHand
<1>4. ASSUME NEW w \in Writers PROVE IsFiniteSet(BufOf(w)) /\ Cardinality(BufOf(w)) = Len(buf[w])
  <2>1. Len(buf[w]) \in Nat
    BY DEF Typed, WriteType
  <2>2. IsFiniteSet(1..Len(buf[w])) /\ Cardinality(1..Len(buf[w])) = Len(buf[w])
    BY <2>1, FS_Interval
  <2>3. IsFiniteSet({w}) /\ Cardinality({w}) = 1
    BY FS_Singleton
  <2>4. IsFiniteSet(BufOf(w)) /\ Cardinality(BufOf(w)) = 1 * Len(buf[w])
    <3>1. /\ IsFiniteSet({w} \X (1..Len(buf[w])))
          /\ Cardinality({w} \X (1..Len(buf[w]))) = Cardinality({w}) * Cardinality(1..Len(buf[w]))
      BY <2>2, <2>3, FS_Product
    <3> QED BY <2>2, <2>3, <3>1 DEF BufOf
  <2> QED BY <2>1, <2>4
<1>5. IsFiniteSet(InBuf) /\ Cardinality(InBuf) \in Nat
  <2> DEFINE F == {BufOf(w) : w \in Writers}
             f == [w \in Writers |-> BufOf(w)]
  <2>1. f \in Surjection(Writers, F)
    BY DEF Surjection
  <2>2. IsFiniteSet(F)
    BY <2>1, Bounds, FS_Surjection
  <2>3. \A T \in F : IsFiniteSet(T)
    BY <1>4
  <2>4. IsFiniteSet(UNION F)
    BY <2>2, <2>3, FS_UNION
  <2> QED BY <2>4, FS_CardinalityType DEF InBuf
<1> QED BY <1>1, <1>2, <1>3, <1>4, <1>5 DEF OnTheWay

LEMMA OnTheWayIsNumber == Typed => OnTheWay \in Nat /\ inflight \in Nat
  BY CountsAreNumbers DEF Typed, TaskType

LEMMA InBufIs ==
  \A p : p \in InBuf <=> \E w \in Writers : p \in BufOf(w)
  BY DEF InBuf

(* A batch that is carried is counted. *)
LEMMA CarriedCounts ==
  ASSUME Typed, NEW c, NEW i, Carried(c, i)
  PROVE  OnTheWay >= 1
<1>1. InQueue # {} \/ InHand # {} \/ InBuf # {}
  <2>1. CASE \E k \in 1..Len(queue) : Same(queue[k], c, i)
    BY <2>1 DEF InQueue, Same
  <2>2. CASE \E w \in Writers : wpc[w] = "write" /\ Same(hand[w], c, i)
    BY <2>2 DEF InHand
  <2>3. CASE \E w \in Writers : \E k \in 1..Len(buf[w]) : Same(buf[w][k], c, i)
    <3>1. PICK w \in Writers : \E k \in 1..Len(buf[w]) : Same(buf[w][k], c, i)
      BY <2>3
    <3>2. PICK k \in 1..Len(buf[w]) : TRUE
      BY <3>1
    <3>3. <<w, k>> \in BufOf(w)
      BY <3>2 DEF BufOf
    <3> QED BY <3>3, InBufIs
  <2> QED BY <2>1, <2>2, <2>3 DEF Carried
<1>2. \A S : IsFiniteSet(S) /\ S # {} /\ Cardinality(S) \in Nat => Cardinality(S) >= 1
  BY FS_EmptySet
<1> QED BY <1>1, <1>2, CountsAreNumbers DEF OnTheWay

LEMMA BijectionIs ==
  ASSUME NEW S, NEW T, NEW f \in [S -> T],
         \A a, b \in S : f[a] = f[b] => a = b, \A y \in T : \E x \in S : f[x] = y
  PROVE  f \in Bijection(S, T)
  BY DEF Bijection, Injection, IsInjective, Surjection

(* One queue entry less. *)
LEMMA TailCounts ==
  ASSUME Typed, queue # <<>>, queue' = Tail(queue), att' = att
  PROVE  /\ Head(queue).att = att => Cardinality(InQueue') = Cardinality(InQueue) - 1
         /\ Head(queue).att # att => Cardinality(InQueue') = Cardinality(InQueue)
<1>1. queue \in Seq(Batch) /\ Len(queue) \in Nat /\ Len(queue) >= 1
  BY DEF Typed, WriteType
<1>2. /\ Len(queue') = Len(queue) - 1
      /\ \A k \in 1..Len(queue') : queue'[k] = queue[k + 1]
      /\ Head(queue) = queue[1]
  BY <1>1
<1>3. IsFiniteSet(InQueue')
  <2>1. IsFiniteSet(1..Len(queue'))
    BY <1>1, <1>2, FS_Interval
  <2> QED BY <2>1, FS_Subset DEF InQueue
<1> DEFINE R == InQueue \ {1}
           f == [k \in InQueue' |-> k + 1]
<1>4. f \in Bijection(InQueue', R)
  <2>1. \A k \in InQueue' : k \in Int /\ k + 1 \in R
    BY <1>1, <1>2 DEF InQueue
  <2>2. ASSUME NEW k \in R PROVE k - 1 \in InQueue' /\ f[k - 1] = k
    <3>1. k \in 2..Len(queue) /\ queue[k].att = att
      BY <1>1 DEF InQueue
    <3>2. k - 1 \in 1..Len(queue') /\ queue'[k - 1] = queue[k]
      BY <1>1, <1>2, <3>1
    <3> QED BY <3>1, <3>2 DEF InQueue
  <2>3. f \in [InQueue' -> R]
    BY <2>1
  <2>4. \A a, b \in InQueue' : f[a] = f[b] => a = b
    BY <2>1
  <2>5. \A k \in R : \E j \in InQueue' : f[j] = k
    BY <2>2
  <2> HIDE DEF f, R
  <2> QED BY <2>3, <2>4, <2>5, BijectionIs
<1>5. Cardinality(R) = Cardinality(InQueue')
  BY <1>3, <1>4, FS_Bijection DEF ExistsBijection
<1>6. 1 \in InQueue <=> Head(queue).att = att
  BY <1>1, <1>2 DEF InQueue
<1> QED BY <1>5, <1>6, CountsAreNumbers, FS_RemoveElement

(* One writer's transaction less. *)
LEMMA BufDropped ==
  ASSUME Typed, NEW w \in Writers, buf' = [buf EXCEPT ![w] = <<>>]
  PROVE  Cardinality(InBuf') = Cardinality(InBuf) - Len(buf[w])
<1>1. buf \in [Writers -> Seq(Batch)]
  BY DEF Typed, WriteType
<1>2. BufOf(w)' = {} /\ \A v \in Writers : v # w => BufOf(v)' = BufOf(v)
  <2>1. buf'[w] = <<>> /\ \A v \in Writers : v # w => buf'[v] = buf[v]
    BY <1>1
  <2> QED BY <2>1 DEF BufOf
<1>3. \A v \in Writers : v # w => \A p \in BufOf(v) : p \notin BufOf(w)
  BY DEF BufOf
<1>4. InBuf' = InBuf \ BufOf(w)
  <2>1. \A p : p \in InBuf' <=> \E v \in Writers : p \in BufOf(v)'
    BY DEF InBuf
  <2> QED BY <2>1, <1>2, <1>3, InBufIs
<1>5. InBuf \cap BufOf(w) = BufOf(w)
  BY InBufIs
<1>6. Cardinality(InBuf \ BufOf(w)) = Cardinality(InBuf) - Cardinality(InBuf \cap BufOf(w))
  BY CountsAreNumbers, FS_Difference
<1> QED BY <1>4, <1>5, <1>6, CountsAreNumbers

(* One batch more in a transaction. *)
LEMMA BufAdded ==
  ASSUME Typed, NEW w \in Writers, NEW b \in Batch, buf' = [buf EXCEPT ![w] = Append(buf[w], b)]
  PROVE  Cardinality(InBuf') = Cardinality(InBuf) + 1
<1>1. buf \in [Writers -> Seq(Batch)] /\ Len(buf[w]) \in Nat
  BY DEF Typed, WriteType
<1> DEFINE p == <<w, Len(buf[w]) + 1>>
<1>2. BufOf(w)' = BufOf(w) \cup {p} /\ \A v \in Writers : v # w => BufOf(v)' = BufOf(v)
  <2>1. Len(buf'[w]) = Len(buf[w]) + 1 /\ \A v \in Writers : v # w => buf'[v] = buf[v]
    BY <1>1
  <2>2. 1..Len(buf'[w]) = (1..Len(buf[w])) \cup {Len(buf[w]) + 1}
    BY <1>1, <2>1
  <2> QED BY <2>1, <2>2 DEF BufOf
<1>3. \A v \in Writers : p \notin BufOf(v)
  BY <1>1 DEF BufOf
<1>4. InBuf' = InBuf \cup {p}
  <2>1. \A q : q \in InBuf' <=> \E v \in Writers : q \in BufOf(v)'
    BY DEF InBuf
  <2> HIDE DEF p
  <2> QED BY <2>1, <1>2, InBufIs
<1>5. p \notin InBuf
  BY <1>3, InBufIs
<1> HIDE DEF p
<1> QED BY <1>4, <1>5, CountsAreNumbers, FS_AddElement

LEMMA SameBufs == ASSUME UNCHANGED buf PROVE InBuf' = InBuf
  BY DEF InBuf, BufOf

-----------------------------------------------------------------------------
(* A reader and the completeness of its attempt. *)
LEMMA ReaderFrame ==
  ASSUME Typed, NEW r \in Readers, ReaderStep(r)
  PROVE  /\ UNCHANGED <<run, pc, att, regAtt, regCtx, wpc, hand, buf, staging, rows, final>>
         /\ ~Quiet
         /\ marred' = {} => marred = {}
         /\ \E p \in ReaderPcs : Goes(r, p)
         /\ rpc \in [Readers -> ReaderPcs] /\ job \in [Readers -> Job]
         /\ \A q \in Readers : q # r => rpc'[q] = rpc[q] /\ job'[q] = job[q]
<1>1. UNCHANGED <<run, pc, att, regAtt, regCtx, wpc, hand, buf, staging, rows, final>>
  BY DEF ReaderStep, Pick, LookUp, SeesStop, SeesCancel, ChunkRead, Read, ReadFails, Put, PutFails, MarkDone,
     SetTableErr, CancelAttempt, DropChunks, ReadFrame, mainVars, coordVars, writeVars, dbVars
<1>2. ~Quiet
  BY DEF ReaderStep, Pick, LookUp, SeesStop, SeesCancel, ChunkRead, Read, ReadFails, Put,
     PutFails, MarkDone, SetTableErr, CancelAttempt, DropChunks, Quiet, Idle
<1>3. marred' = {} => marred = {}
  BY DEF ReaderStep, Pick, LookUp, SeesStop, SeesCancel, ChunkRead, Read, ReadFails, Put,
     PutFails, MarkDone, SetTableErr, CancelAttempt, DropChunks
<1>4. \E p \in ReaderPcs : Goes(r, p)
  BY DEF ReaderStep, Pick, LookUp, SeesStop, SeesCancel, ChunkRead, Read, ReadFails, Put,
       PutFails, MarkDone, SetTableErr, CancelAttempt, DropChunks, EndsWith, Rests, ReaderPcs
<1>5. \A q \in Readers : q # r => rpc'[q] = rpc[q]
  BY <1>4 DEF Goes, Typed, JobType
<1>6. \A q \in Readers : q # r => job'[q] = job[q]
  <2>1. UNCHANGED job \/ \E j : job' = [job EXCEPT ![r] = j]
    BY DEF ReaderStep, Pick, LookUp, SeesStop, SeesCancel, ChunkRead, Read, ReadFails, Put,
       PutFails, MarkDone, SetTableErr, CancelAttempt, DropChunks, EndsWith, Rests
  <2> QED BY <2>1 DEF Typed, JobType
<1> QED BY <1>1, <1>2, <1>3, <1>4, <1>5, <1>6 DEF Typed, JobType

LEMMA ReaderOwn ==
  ASSUME Typed, Own, NEW r \in Readers, ReaderStep(r)
  PROVE  Own' /\ regAtt = att
<1>1. regAtt = att
  BY ReaderFrame DEF Own
<1>2. pc # "plan"
  BY <1>1 DEF Typed, CoordType, TaskType
<1>3. rpc'[r] \notin {"idle", "lookup"} => job'[r].att = att
  <2>0. rpc \in [Readers -> ReaderPcs] /\ job \in [Readers -> Job] /\ job[r] \in Job
    BY ReaderFrame
  <2>1. CASE Pick(r)
    BY <2>0, <2>1 DEF Pick, Goes
  <2>2. CASE LookUp(r)
    <3>1. job'[r] = [job[r] EXCEPT !.att = regAtt, !.ctx = regCtx]
      BY <2>0, <2>2 DEF LookUp
    <3> QED BY <1>1, <2>0, <3>1 DEF Job
  <2>3. ASSUME rpc[r] \notin {"idle", "lookup"} PROVE job[r].att = att
    BY <2>3 DEF Own
  <2>4. ASSUME NEW e, EndsWith(r, e) PROVE job'[r].att = job[r].att
    BY <2>0, <2>4 DEF EndsWith, Job
  <2>5. CASE Put(r)
    <3>1. job'[r] = [job[r] EXCEPT !.i = @ + 1] /\ rpc[r] = "put"
      BY <2>0, <2>5 DEF Put
    <3> QED BY <2>0, <2>3, <3>1 DEF Job
  <2>6. CASE Rests(r)
    BY <2>0, <2>6 DEF Rests, Goes
  <2>7. \/ Pick(r) \/ LookUp(r) \/ Put(r) \/ Rests(r)
        \/ rpc[r] \notin {"idle", "lookup"} /\ (UNCHANGED job \/ \E e : EndsWith(r, e))
    BY DEF ReaderStep, SeesStop, SeesCancel, ChunkRead, Read, ReadFails, PutFails, MarkDone,
       SetTableErr, CancelAttempt, DropChunks
  <2> QED BY <2>1, <2>2, <2>3, <2>4, <2>5, <2>6, <2>7
<1>4. \A q \in Readers : rpc'[q] \notin {"idle", "lookup"} => job'[q].att = att
  BY <1>3, ReaderFrame DEF Own
<1> QED BY <1>1, <1>2, <1>4, ReaderFrame DEF Own

LEMMA ReaderCounts ==
  ASSUME Typed, Own, Counted, NEW r \in Readers, ReaderStep(r)
  PROVE  Counted' /\ (inflight > OnTheWay => inflight' > OnTheWay')
<1>0. /\ regAtt = att /\ inflight \in Nat /\ Counted /\ OnTheWay \in Nat
      /\ InHand' = InHand /\ InBuf' = InBuf
      /\ UNCHANGED att
  BY ReaderFrame, ReaderOwn, SameBufs, CountsAreNumbers DEF Typed, TaskType, InHand
<1>1. /\ IsFiniteSet(InPut) /\ Cardinality(InPut) \in Nat
      /\ IsFiniteSet(InQueue) /\ Cardinality(InQueue) \in Nat
      /\ Cardinality(InHand) \in Nat /\ Cardinality(InBuf) \in Nat
  BY CountsAreNumbers
<1>2. rpc \in [Readers -> ReaderPcs] /\ \A q \in Readers : q # r => (q \in InPut' <=> q \in InPut)
  BY <1>0, ReaderFrame DEF InPut
<1>3. CASE rpc[r] # "put" /\ rpc'[r] # "put" /\ UNCHANGED <<queue, inflight>>
  <2>1. InPut' = InPut
    BY <1>2, <1>3 DEF InPut
  <2>2. InQueue' = InQueue
    BY <1>0, <1>3 DEF InQueue
  <2> QED BY <1>0, <1>1, <1>3, <2>1, <2>2 DEF OnTheWay, Counted
<1>4. CASE Read(r) /\ inflight' = inflight + 1 /\ Goes(r, "put") /\ UNCHANGED job
  <2>1. rpc[r] = "read" /\ rpc'[r] = "put" /\ job'[r] = job[r] /\ job[r].att = att /\ UNCHANGED queue
    BY <1>2, <1>4 DEF Read, Goes, Own
  <2>2. InPut' = InPut \cup {r} /\ r \notin InPut
    BY <1>0, <1>2, <2>1 DEF InPut
  <2>3. InQueue' = InQueue
    BY <1>0, <2>1 DEF InQueue
  <2>4. Cardinality(InPut') = Cardinality(InPut) + 1
    BY <1>1, <2>2, FS_AddElement
  <2> QED BY <1>0, <1>1, <1>4, <2>3, <2>4 DEF OnTheWay, Counted
<1>5. ASSUME rpc[r] = "put", rpc'[r] # "put" PROVE Cardinality(InPut') = Cardinality(InPut) - 1 /\ Cardinality(InPut) >= 1
  <2>1. job[r].att = att
    BY <1>5 DEF Own
  <2>2. InPut' = InPut \ {r} /\ r \in InPut
    BY <1>0, <1>2, <1>5, <2>1 DEF InPut
  <2> QED BY <1>1, <2>2, FS_RemoveElement, FS_EmptySet
<1>6. CASE Put(r)
  <2> DEFINE b == [att |-> job[r].att, c |-> job[r].c, i |-> job[r].i]
  <2>1. rpc[r] = "put" /\ rpc'[r] # "put" /\ queue' = Append(queue, b) /\ inflight' = inflight
    BY <1>2, <1>6 DEF Put, Goes
  <2>2. b.att = att /\ queue \in Seq(Batch)
    BY <2>1 DEF Own, Typed, WriteType
  <2> HIDE DEF b
  <2>3. InQueue' = InQueue \cup {Len(queue) + 1} /\ Len(queue) + 1 \notin InQueue
    <3>1. Len(queue) \in Nat /\ Len(queue') = Len(queue) + 1 /\ queue'[Len(queue) + 1] = b
      BY <2>1, <2>2
    <3>2. \A k \in 1..Len(queue) : queue'[k] = queue[k]
      BY <2>1, <2>2
    <3> QED BY <1>0, <2>2, <3>1, <3>2 DEF InQueue
  <2>4. Cardinality(InQueue') = Cardinality(InQueue) + 1
    BY <1>1, <2>3, FS_AddElement
  <2> QED BY <1>0, <1>1, <1>5, <2>1, <2>4 DEF OnTheWay, Counted
<1>7. CASE PutFails(r)
  <2>1. rpc[r] = "put" /\ rpc'[r] # "put" /\ UNCHANGED queue /\ job[r].att = att
    BY <1>2, <1>7 DEF PutFails, EndsWith, Goes, Own
  <2>2. inflight' = Floor0(inflight - 1)
    BY <1>7, <2>1 DEF PutFails, Release, IsCurrent
  <2>3. InQueue' = InQueue
    BY <1>0, <2>1 DEF InQueue
  <2>4. OnTheWay >= 1 /\ OnTheWay' = OnTheWay - 1
    BY <1>0, <1>1, <1>5, <2>1, <2>3 DEF OnTheWay, Counted
  <2> QED BY <1>0, <2>2, <2>4, CountsAreNumbers DEF Floor0, Counted
<1>8. CASE Read(r) /\ EndsWith(r, "fatal") /\ UNCHANGED inflight
  BY <1>2, <1>3, <1>8 DEF Read, EndsWith, Goes
<1>9. CASE Pick(r) \/ LookUp(r) \/ SeesStop(r) \/ SeesCancel(r) \/ ChunkRead(r) \/ ReadFails(r) \/ MarkDone(r)
           \/ SetTableErr(r) \/ CancelAttempt(r) \/ DropChunks(r)
  <2>1. rpc[r] # "put" /\ UNCHANGED <<queue, inflight>>
    BY <1>9 DEF Pick, LookUp, SeesStop, SeesCancel, ChunkRead, ReadFails, MarkDone, SetTableErr, CancelAttempt, DropChunks
  <2>2. \E p \in ReaderPcs \ {"put"} : Goes(r, p)
    BY <1>9 DEF Pick, LookUp, SeesStop, SeesCancel, ChunkRead, ReadFails, MarkDone, SetTableErr, CancelAttempt, DropChunks,
       EndsWith, Rests, ReaderPcs
  <2>3. rpc'[r] # "put"
    BY <1>2, <2>2 DEF Goes
  <2> QED BY <1>3, <2>1, <2>3
<1> QED BY <1>4, <1>6, <1>7, <1>8, <1>9 DEF ReaderStep, Read

(* What a reader does in an attempt that goes well. *)
GoesWell(r) ==
  \/ Pick(r)
  \/ LookUp(r) /\ Goes(r, "read")
  \/ ChunkRead(r)
  \/ Read(r) /\ inflight' = inflight + 1 /\ Goes(r, "put") /\ UNCHANGED job
  \/ Put(r)
  \/ MarkDone(r) /\ Rests(r)

LEMMA OnlyWell ==
  ASSUME Typed, Own, Smooth, ~ctxEnded, pc = "wait", NEW r \in Readers, ReaderStep(r),
         ~ctxEnded', marred' = {}
  PROVE  GoesWell(r)
<1>1. /\ att \notin ended /\ regCtx = att /\ regAtt = att
      /\ rpc[r] \in {"idle", "lookup", "read", "put", "mark"} /\ (rpc[r] # "idle" => job[r].err = "none")
      /\ rpc[r] \in {"read", "put"} => job[r].ctx = att /\ job[r].att = att
  BY DEF Smooth, Typed, CoordType, Own
<1>2. ~CtxDone(att)
  BY <1>1 DEF CtxDone
<1>3. ~SeesStop(r)
  BY DEF SeesStop
<1>4. ~SeesCancel(r) /\ ~PutFails(r)
  BY <1>1, <1>2 DEF SeesCancel, PutFails
<1>5. ~ReadFails(r)
  BY <1>1 DEF ReadFails, IsCurrent
<1>6. ~SetTableErr(r) /\ ~CancelAttempt(r) /\ ~DropChunks(r)
  BY <1>1 DEF SetTableErr, CancelAttempt, DropChunks
<1>7. LookUp(r) => Goes(r, "read")
  BY <1>1, <1>2 DEF LookUp
<1>8. Read(r) => inflight' = inflight + 1 /\ Goes(r, "put") /\ UNCHANGED job
  BY <1>1 DEF Read, IsCurrent
<1>9. MarkDone(r) => Rests(r)
  BY <1>1 DEF MarkDone
<1> QED BY <1>3, <1>4, <1>5, <1>6, <1>7, <1>8, <1>9 DEF ReaderStep, GoesWell

LEMMA ReaderSmooth ==
  ASSUME Typed, Own, Smooth, pc = "wait", NEW r \in Readers, ReaderStep(r), GoesWell(r)
  PROVE  Smooth'
<1>0. /\ rpc \in [Readers -> ReaderPcs] /\ job \in [Readers -> Job] /\ job[r] \in Job
      /\ UNCHANGED <<pc, att>> /\ regCtx = att /\ JobType
      /\ att \notin ended /\ tabErr = "none" /\ active = Cardinality(Busy) /\ active \in Nat
      /\ rpc[r] # "idle" => job[r].err = "none"
      /\ rpc[r] \in {"read", "put"} => job[r].ctx = att
  BY ReaderFrame DEF Typed, CoordType, Smooth
<1>1. UNCHANGED <<ended, tabErr>>
  BY DEF GoesWell, Pick, LookUp, ChunkRead, Read, Put, MarkDone, coordVars
<1>2. rpc'[r] \in {"idle", "lookup", "read", "put", "mark"}
  BY <1>0 DEF GoesWell, Pick, ChunkRead, Put, Rests, EndsWith, Goes
<1>3. job'[r].err = "none" /\ (rpc'[r] \in {"read", "put"} => job'[r].ctx = att)
  <2>1. CASE Pick(r)
    <3>1. job'[r] = [NoJob EXCEPT !.c = Min(todo), !.i = 1] /\ rpc'[r] = "lookup"
      BY <1>0, <2>1 DEF Pick, Goes
    <3> QED BY <3>1 DEF NoJob
  <2>2. CASE LookUp(r)
    <3>1. job'[r] = [job[r] EXCEPT !.att = regAtt, !.ctx = regCtx]
      BY <1>0, <2>2 DEF LookUp
    <3> QED BY <1>0, <2>2, <3>1 DEF Job, LookUp
  <2>3. CASE ChunkRead(r)
    <3>1. job'[r] = [job[r] EXCEPT !.err = "none"] /\ rpc'[r] = "mark"
      BY <1>0, <2>3 DEF ChunkRead, EndsWith, Goes
    <3> QED BY <1>0, <3>1 DEF Job
  <2>4. CASE Read(r) /\ UNCHANGED job
    BY <1>0, <2>4 DEF Read
  <2>5. CASE Put(r)
    <3>1. job'[r] = [job[r] EXCEPT !.i = @ + 1] /\ rpc[r] = "put"
      BY <1>0, <2>5 DEF Put
    <3> QED BY <1>0, <3>1 DEF Job
  <2>6. CASE Rests(r)
    <3>1. job'[r] = NoJob /\ rpc'[r] = "idle"
      BY <1>0, <2>6 DEF Rests, Goes
    <3> QED BY <3>1 DEF NoJob
  <2> QED BY <2>1, <2>2, <2>3, <2>4, <2>5, <2>6 DEF GoesWell
<1>4. active' = Cardinality(Busy')
  <2>1. CASE Pick(r)
    <3>1. rpc[r] = "idle" /\ Goes(r, "lookup") /\ active' = active + 1
      BY <2>1 DEF Pick
    <3> QED BY <1>0, <3>1, BusyMoves DEF AtWork, ReaderPcs
  <2>2. CASE MarkDone(r) /\ Rests(r)
    <3>1. rpc[r] = "mark" /\ Goes(r, "idle") /\ active' = Floor0(active - 1)
      BY <2>2 DEF MarkDone, Rests
    <3>2. active >= 1 /\ Cardinality(Busy') = active - 1
      BY <1>0, <3>1, BusyMoves DEF AtWork, ReaderPcs
    <3> QED BY <1>0, <3>1, <3>2 DEF Floor0
  <2>3. CASE LookUp(r) /\ Goes(r, "read")
    BY <1>0, <2>3, BusyMoves DEF AtWork, ReaderPcs, LookUp, schedVars
  <2>4. CASE ChunkRead(r)
    BY <1>0, <2>4, BusyMoves DEF AtWork, ReaderPcs, ChunkRead, EndsWith, schedVars
  <2>5. CASE Read(r) /\ Goes(r, "put")
    BY <1>0, <2>5, BusyMoves DEF AtWork, ReaderPcs, Read, schedVars
  <2>6. CASE Put(r)
    BY <1>0, <2>6, BusyMoves DEF AtWork, ReaderPcs, Put, schedVars
  <2> QED BY <2>1, <2>2, <2>3, <2>4, <2>5, <2>6 DEF GoesWell
<1>5. ASSUME NEW q \in Readers
      PROVE  /\ rpc'[q] \in {"idle", "lookup", "read", "put", "mark"}
             /\ rpc'[q] # "idle" => job'[q].err = "none"
             /\ rpc'[q] \in {"read", "put"} => job'[q].ctx = att
  <2>1. CASE q = r
    BY <1>2, <1>3, <2>1
  <2>2. CASE q # r
    BY <2>2, ReaderFrame DEF Smooth
  <2> QED BY <2>1, <2>2
<1> QED BY <1>0, <1>1, <1>4, <1>5 DEF Smooth

LEMMA ReaderForgetsNothing ==
  ASSUME Typed, Own, Counted, Smooth, NothingForgotten, pc = "wait",
         NEW r \in Readers, ReaderStep(r), GoesWell(r)
  PROVE  NothingForgotten'
<1>0. /\ rpc \in [Readers -> ReaderPcs] /\ job \in [Readers -> Job] /\ job[r] \in Job
      /\ UNCHANGED <<pc, att, run, rows, wpc, hand, buf>>
      /\ queue \in Seq(Batch) /\ Len(queue) \in Nat
      /\ \A q \in Readers : q # r => rpc'[q] = rpc[q] /\ job'[q] = job[q]
  BY ReaderFrame DEF Typed, WriteType
<1>1. inflight > OnTheWay => inflight' > OnTheWay'
  BY ReaderCounts
<1>2. \A c, i : Staged(c, i) => Staged(c, i)'
  BY <1>0 DEF Staged
<1>3. ASSUME NEW c, NEW i, Carried(c, i) PROVE Carried(c, i)'
  <2>1. queue' = queue \/ \E b : queue' = Append(queue, b)
    BY DEF GoesWell, Pick, LookUp, ChunkRead, Read, Put, MarkDone
  <2>2. \A k \in 1..Len(queue) : k \in 1..Len(queue') /\ queue'[k] = queue[k]
    BY <1>0, <2>1
  <2> QED BY <1>0, <1>3, <2>2 DEF Carried, Same
<1>4. ASSUME NEW c \in Chunks, NEW i \in 1..BatchesOf[c], Ahead(c, i)
      PROVE  Ahead(c, i)' \/ Carried(c, i)'
  <2>0. i \in Int /\ i >= 1
    BY Bounds
  <2>1. ASSUME NEW q \in Readers, q # r, job[q].c = c, rpc[q] \in {"lookup", "read", "put"}, job[q].i <= i
        PROVE  Ahead(c, i)'
    BY <1>0, <2>1 DEF Ahead
  <2>2. CASE Pick(r)
    <3>1. /\ todo' = todo \ {Min(todo)} /\ rpc'[r] = "lookup"
          /\ job'[r] = [NoJob EXCEPT !.c = Min(todo), !.i = 1] /\ rpc[r] = "idle"
      BY <1>0, <2>2 DEF Pick, Goes
    <3>2. job'[r].c = Min(todo) /\ job'[r].i = 1
      BY <3>1 DEF NoJob
    <3>3. c = Min(todo) => Ahead(c, i)'
      BY <2>0, <3>1, <3>2 DEF Ahead
    <3>4. c \in todo /\ c # Min(todo) => Ahead(c, i)'
      BY <3>1 DEF Ahead
    <3> QED BY <1>4, <2>1, <3>1, <3>3, <3>4 DEF Ahead
  <2>3. CASE ~Pick(r)
    <3>1. todo' = todo
      BY <2>3 DEF GoesWell, LookUp, ChunkRead, Read, Put, MarkDone, schedVars
    <3>2. CASE c \in todo
      BY <3>1, <3>2 DEF Ahead
    <3>3. CASE job[r].c = c /\ rpc[r] \in {"lookup", "read", "put"} /\ job[r].i <= i
      <4>1. CASE LookUp(r) /\ Goes(r, "read")
        <5>1. job'[r] = [job[r] EXCEPT !.att = regAtt, !.ctx = regCtx] /\ rpc'[r] = "read"
          BY <1>0, <4>1 DEF LookUp, Goes
        <5>2. job'[r].c = job[r].c /\ job'[r].i = job[r].i
          BY <1>0, <5>1 DEF Job
        <5> QED BY <3>3, <5>1, <5>2 DEF Ahead
      <4>2. CASE ChunkRead(r)
        <5>1. job[r].i > BatchesOf[c] /\ job[r].i \in Int /\ BatchesOf[c] \in Int /\ i <= BatchesOf[c]
          BY <1>0, <3>3, <4>2, Bounds DEF ChunkRead, Job
        <5> QED BY <2>0, <3>3, <5>1
      <4>3. CASE Read(r) /\ Goes(r, "put") /\ UNCHANGED job
        <5>1. rpc'[r] = "put" /\ job'[r] = job[r]
          BY <1>0, <4>3 DEF Goes
        <5> QED BY <3>3, <5>1 DEF Ahead
      <4>4. CASE Put(r)
        <5> DEFINE b == [att |-> job[r].att, c |-> job[r].c, i |-> job[r].i]
        <5>1. /\ queue' = Append(queue, b) /\ rpc[r] = "put" /\ rpc'[r] = "read"
              /\ job'[r] = [job[r] EXCEPT !.i = @ + 1]
          BY <1>0, <4>4 DEF Put, Goes
        <5>2. b.att = att /\ b.c = c /\ b.i = job[r].i
          BY <3>3, <5>1 DEF Own
        <5> HIDE DEF b
        <5>3. job'[r].c = c /\ job'[r].i = job[r].i + 1 /\ job[r].i \in Int
          BY <1>0, <3>3, <5>1 DEF Job
        <5>4. CASE job[r].i = i
          <6>1. Len(queue) + 1 \in 1..Len(queue') /\ queue'[Len(queue) + 1] = b
            BY <1>0, <5>1
          <6> QED BY <1>0, <5>2, <5>4, <6>1 DEF Carried, Same
        <5>5. CASE job[r].i # i
          <6>1. job'[r].i <= i
            BY <2>0, <3>3, <5>3, <5>5
          <6> QED BY <5>1, <5>3, <6>1 DEF Ahead
        <5> QED BY <5>4, <5>5
      <4>5. CASE MarkDone(r)
        BY <3>3, <4>5 DEF MarkDone
      <4> QED BY <2>3, <4>1, <4>2, <4>3, <4>4, <4>5 DEF GoesWell
    <3> QED BY <1>4, <2>1, <3>2, <3>3 DEF Ahead
  <2> QED BY <2>2, <2>3
<1>5. \A w \in Writers : wpc'[w] = "report" => \A k \in 1..Len(buf'[w]) : Staged(buf[w][k].c, buf[w][k].i)'
  BY <1>0, <1>2 DEF NothingForgotten
<1>6. ASSUME NEW c \in Chunks, NEW i \in 1..BatchesOf[c]
      PROVE  Ahead(c, i)' \/ Carried(c, i)' \/ Staged(c, i)' \/ inflight' > OnTheWay'
  BY <1>1, <1>2, <1>3, <1>4, <1>6 DEF NothingForgotten
<1> QED BY <1>0, <1>5, <1>6 DEF NothingForgotten

LEMMA WholeReader ==
  ASSUME Typed, Whole, NEW r \in Readers, ReaderStep(r)
  PROVE  Whole'
<1>0. /\ UNCHANGED <<run, pc, att, regAtt, regCtx, wpc, hand, buf, staging, rows, final>>
      /\ ~Quiet
      /\ marred' = {} => marred = {}
  BY ReaderFrame
<1>1. PublishedIsComplete'
  BY <1>0 DEF Whole, PublishedIsComplete, SourceRows
<1>2. ASSUME marred' = {} PROVE Own' /\ Counted'
  <2>1. marred = {} /\ Own /\ Counted
    BY <1>0, <1>2 DEF Whole
  <2> QED BY <2>1, ReaderCounts, ReaderOwn
<1>3. ASSUME marred' = {}, ~ctxEnded' PROVE Smooth' /\ NothingForgotten'
  <2>1. ~ctxEnded
    BY <1>3 DEF ReaderStep, Pick, LookUp, SeesStop, SeesCancel, ChunkRead, Read, ReadFails, Put, PutFails, MarkDone,
       SetTableErr, CancelAttempt, DropChunks
  <2>2. marred = {} /\ Own /\ Counted /\ Smooth /\ NothingForgotten
    BY <1>0, <1>3, <2>1 DEF Whole
  <2>3. pc \notin {"drained", "publish"}
    BY <1>0, <2>2 DEF Smooth
  <2>4. CASE pc = "wait"
    BY <1>3, <2>1, <2>2, <2>4, OnlyWell, ReaderSmooth, ReaderForgetsNothing
  <2>5. CASE pc # "wait"
    BY <1>0, <2>3, <2>5 DEF Smooth, NothingForgotten
  <2> QED BY <2>4, <2>5
<1> QED BY <1>1, <1>2, <1>3 DEF Whole

-----------------------------------------------------------------------------
(* A writer and the completeness of the attempt. *)
LEMMA WriterFrame ==
  ASSUME Typed, NEW w \in Writers, WriterStep(w)
  PROVE  /\ UNCHANGED <<run, pc, att, ctxEnded, regAtt, regCtx, tabErr, ended, todo, active, rpc, job, staging, final>>
         /\ marred' = {} => marred = {}
         /\ wpc \in [Writers -> WriterPcs] /\ hand \in [Writers -> Batch \cup {NoBatch}]
         /\ buf \in [Writers -> Seq(Batch)] /\ queue \in Seq(Batch) /\ rows \in [Attempts -> SUBSET Row]
         /\ \A v \in Writers : v # w => wpc'[v] = wpc[v] /\ hand'[v] = hand[v] /\ buf'[v] = buf[v]
         /\ \A a \in Attempts : rows[a] \subseteq rows'[a]
<1>1. UNCHANGED <<run, pc, att, ctxEnded, regAtt, regCtx, tabErr, ended, todo, active, rpc, job, staging, final>>
  BY DEF WriterStep, Take, Write, WriteFails, Commit, CommitFails, Report, WriterLeaves, WriteFrame,
     mainVars, coordVars, schedVars, readVars
<1>2. marred' = {} => marred = {}
  BY DEF WriterStep, Take, Write, WriteFails, Commit, CommitFails, Report, WriterLeaves
<1>3. /\ wpc \in [Writers -> WriterPcs] /\ hand \in [Writers -> Batch \cup {NoBatch}]
      /\ buf \in [Writers -> Seq(Batch)] /\ queue \in Seq(Batch) /\ rows \in [Attempts -> SUBSET Row]
  BY DEF Typed, WriteType, RowsType
<1>4. \A v \in Writers : v # w => wpc'[v] = wpc[v]
  BY <1>3 DEF WriterStep, Take, Write, WriteFails, Commit, CommitFails, Report, WriterLeaves, Writes
<1>5. \A v \in Writers : v # w => hand'[v] = hand[v]
  BY <1>3 DEF WriterStep, Take, Write, WriteFails, Commit, CommitFails, Report, WriterLeaves
<1>6. \A v \in Writers : v # w => buf'[v] = buf[v]
  BY <1>3 DEF WriterStep, Take, Write, WriteFails, Commit, CommitFails, Report, WriterLeaves, NewBuf
<1>7. \A a \in Attempts : rows[a] \subseteq rows'[a]
  <2>1. UNCHANGED rows \/ rows' = [a \in Attempts |-> rows[a] \cup RowsOf(buf[w], a)]
    BY DEF WriterStep, Take, Write, WriteFails, Commit, CommitFails, Report, WriterLeaves, Stays, Inserted
  <2> QED BY <2>1
<1> QED BY <1>1, <1>2, <1>3, <1>4, <1>5, <1>6, <1>7

LEMMA WriterOwn ==
  ASSUME Typed, Own, NEW w \in Writers, WriterStep(w)
  PROVE  Own'
<1>0. /\ UNCHANGED <<pc, att, regAtt, todo, rpc, job, active, tabErr>>
      /\ (Quiet' <=> Quiet)
  BY WriterFrame DEF Quiet, Idle
<1>1. wpc'[w] = "write" => hand'[w].att = att
  <2>1. wpc'[w] = "write" => Take(w) /\ IsCurrent(Head(queue).att) /\ hand'[w] = Head(queue)
    BY WriterFrame DEF WriterStep, Take, Write, WriteFails, Commit, CommitFails, Report, WriterLeaves, Writes
  <2> QED BY <2>1 DEF IsCurrent
<1>2. \A k \in 1..Len(buf'[w]) : buf'[w][k].att = att
  <2>1. CASE UNCHANGED buf \/ buf'[w] = <<>>
    BY <2>1 DEF Own
  <2>2. CASE Write(w)
    <3>1. buf'[w] = Append(buf[w], hand[w]) /\ wpc[w] = "write" /\ buf[w] \in Seq(Batch)
      BY <2>2, WriterFrame DEF Write, NewBuf
    <3>2. hand[w].att = att /\ \A k \in 1..Len(buf[w]) : buf[w][k].att = att
      BY <3>1 DEF Own
    <3> QED BY <3>1, <3>2
  <2>3. UNCHANGED buf \/ buf'[w] = <<>> \/ Write(w)
    BY WriterFrame DEF WriterStep, Take, WriteFails, Commit, CommitFails, Report, WriterLeaves, NewBuf
  <2> QED BY <2>1, <2>2, <2>3
<1>3. ASSUME NEW v \in Writers
      PROVE  (wpc'[v] = "write" => hand'[v].att = att) /\ \A k \in 1..Len(buf'[v]) : buf'[v][k].att = att
  <2>1. CASE v = w
    BY <1>1, <1>2, <2>1
  <2>2. CASE v # w
    BY <2>2, WriterFrame DEF Own
  <2> QED BY <2>1, <2>2
<1> QED BY <1>0, <1>3 DEF Own

(* A batch that a writer takes, writes, reports or loses. *)
LEMMA FloorIs == \A n, k \in Nat : Floor0(n - k) \in Nat /\ Floor0(n - k) >= n - k
  BY DEF Floor0

LEMMA LossShows ==
  \A n, m, k, a, b \in Nat : n >= m /\ a >= n - k /\ b = m - 1 - k => a > b
  OBVIOUS

LEMMA WriterCounts ==
  ASSUME Typed, Own, Counted, NEW w \in Writers, WriterStep(w), marred' = {}
  PROVE  /\ Counted'
         /\ inflight > OnTheWay => inflight' > OnTheWay'
         /\ WriteFails(w) \/ CommitFails(w) => inflight' > OnTheWay'
<1> DEFINE Keeps == Counted' /\ (inflight > OnTheWay => inflight' > OnTheWay')
<1>0. /\ inflight \in Nat /\ inflight >= OnTheWay /\ OnTheWay \in Nat
      /\ InPut' = InPut
      /\ att' = att /\ UNCHANGED <<rpc, job>>
  BY WriterFrame, CountsAreNumbers DEF Typed, TaskType, InPut, Counted
<1>1. /\ IsFiniteSet(InHand) /\ Cardinality(InHand) \in Nat
      /\ Cardinality(InPut) \in Nat /\ Cardinality(InQueue) \in Nat /\ Cardinality(InBuf) \in Nat
      /\ Len(buf[w]) \in Nat
      /\ \A v \in Writers : v # w => wpc'[v] = wpc[v]
      /\ wpc \in [Writers -> WriterPcs]
  BY CountsAreNumbers, WriterFrame
<1>2. Len(buf[w]) <= Cardinality(InBuf) /\ Len(buf[w]) <= OnTheWay
  <2>1. BufOf(w) \subseteq InBuf
    BY InBufIs
  <2>2. Cardinality(BufOf(w)) <= Cardinality(InBuf)
    BY <2>1, CountsAreNumbers, FS_Subset
  <2>3. Len(buf[w]) <= Cardinality(InBuf)
    BY <2>2, CountsAreNumbers
  <2> QED BY <1>1, <2>3 DEF OnTheWay
<1>3. UNCHANGED queue => InQueue' = InQueue
  BY <1>0 DEF InQueue
<1>4. UNCHANGED buf => InBuf' = InBuf
  BY SameBufs
<1>5. /\ wpc[w] # "write" /\ wpc'[w] # "write" => InHand' = InHand
      /\ wpc[w] # "write" /\ wpc'[w] = "write" => Cardinality(InHand') = Cardinality(InHand) + 1
      /\ wpc[w] = "write" /\ wpc'[w] # "write" => Cardinality(InHand') = Cardinality(InHand) - 1 /\ Cardinality(InHand) >= 1
  <2>1. \A v \in Writers : v # w => (v \in InHand' <=> v \in InHand)
    BY <1>1 DEF InHand
  <2>2. InHand' \subseteq Writers /\ InHand \subseteq Writers
        /\ (w \in InHand' <=> wpc'[w] = "write") /\ (w \in InHand <=> wpc[w] = "write")
    BY DEF InHand
  <2>3. wpc[w] # "write" /\ wpc'[w] # "write" => InHand' = InHand
    BY <2>1, <2>2
  <2>4. wpc[w] # "write" /\ wpc'[w] = "write" => InHand' = InHand \cup {w} /\ w \notin InHand
    BY <2>1, <2>2
  <2>5. wpc[w] = "write" /\ wpc'[w] # "write" => InHand' = InHand \ {w} /\ w \in InHand
    BY <2>1, <2>2
  <2>6. \A S : IsFiniteSet(S) /\ w \in S => Cardinality(S) >= 1 /\ Cardinality(S \ {w}) = Cardinality(S) - 1
    <3> SUFFICES ASSUME NEW S, IsFiniteSet(S), w \in S PROVE Cardinality(S) >= 1 /\ Cardinality(S \ {w}) = Cardinality(S) - 1
      OBVIOUS
    <3>1. Cardinality(S) \in Nat /\ Cardinality(S) # 0
      BY FS_EmptySet, FS_CardinalityType
    <3> QED BY <3>1, FS_RemoveElement
  <2>7. \A S : IsFiniteSet(S) /\ w \notin S => Cardinality(S \cup {w}) = Cardinality(S) + 1
    BY FS_AddElement
  <2> QED BY <1>1, <2>3, <2>4, <2>5, <2>6, <2>7
<1>6. ASSUME Take(w) PROVE Keeps
  <2>1. wpc[w] = "get" /\ queue # <<>> /\ queue' = Tail(queue) /\ UNCHANGED buf
    BY <1>6 DEF Take
  <2>2. CASE IsCurrent(Head(queue).att)
    <3>1. wpc'[w] = "write" /\ inflight' = inflight /\ Head(queue).att = att
      BY <1>1, <1>6, <2>2 DEF Take, Writes, IsCurrent
    <3> QED BY <1>0, <1>1, <1>4, <1>5, <2>1, <3>1, TailCounts DEF OnTheWay, Counted
  <2>3. CASE ~IsCurrent(Head(queue).att)
    <3>1. wpc'[w] = "get" /\ inflight' = inflight /\ Head(queue).att # att
      BY <1>1, <1>6, <2>1, <2>3 DEF Take, Release, IsCurrent
    <3> QED BY <1>0, <1>1, <1>4, <1>5, <2>1, <3>1, TailCounts DEF OnTheWay, Counted
  <2> QED BY <2>2, <2>3
<1>7. ASSUME Write(w) PROVE Keeps
  <2>1. /\ wpc[w] = "write" /\ wpc'[w] = "get" /\ inflight' = inflight /\ UNCHANGED queue
        /\ buf' = [buf EXCEPT ![w] = Append(buf[w], hand[w])] /\ hand[w] \in Batch
    BY <1>1, <1>7 DEF Write, Writes, NewBuf, Typed, WriteType, Real
  <2>2. Cardinality(InBuf') = Cardinality(InBuf) + 1
    BY <2>1, BufAdded
  <2> QED BY <1>0, <1>1, <1>3, <1>5, <2>1, <2>2 DEF OnTheWay, Counted
<1>8. ASSUME WriteFails(w) PROVE Keeps /\ inflight' > OnTheWay'
  <2>1. /\ wpc[w] = "write" /\ wpc'[w] = "failed" /\ UNCHANGED queue /\ buf' = [buf EXCEPT ![w] = <<>>]
        /\ inflight' \in {inflight, Floor0(inflight - Len(buf[w]))}
    BY <1>1, <1>8 DEF WriteFails, Writes, NewBuf
  <2>2. Cardinality(InBuf') = Cardinality(InBuf) - Len(buf[w])
    BY <2>1, BufDropped
  <2>3. OnTheWay' = OnTheWay - 1 - Len(buf[w])
    BY <1>0, <1>1, <1>3, <1>5, <2>1, <2>2 DEF OnTheWay
  <2>4. inflight' >= inflight - Len(buf[w]) /\ inflight' \in Nat
    <3>1. inflight' = inflight \/ inflight' = Floor0(inflight - Len(buf[w]))
      BY <2>1
    <3>2. Floor0(inflight - Len(buf[w])) \in Nat /\ Floor0(inflight - Len(buf[w])) >= inflight - Len(buf[w])
      BY <1>0, <1>1, FloorIs
    <3>3. inflight >= inflight - Len(buf[w])
      BY <1>0, <1>1
    <3> QED BY <1>0, <3>1, <3>2, <3>3
  <2>5. OnTheWay' \in Nat
    <3>1. Cardinality(InBuf') \in Nat /\ Cardinality(InHand') \in Nat
      BY <1>1, <1>2, <1>5, <2>1, <2>2
    <3> QED BY <1>0, <1>1, <1>3, <2>1, <3>1 DEF OnTheWay
  <2>6. inflight' > OnTheWay'
    BY <1>0, <1>1, <2>3, <2>4, <2>5, LossShows
  <2> QED BY <2>4, <2>5, <2>6 DEF Counted
<1>9. ASSUME Commit(w) PROVE Keeps
  <2>1. wpc[w] = "get" /\ wpc'[w] = "report" /\ UNCHANGED <<queue, buf, inflight>>
    BY <1>1, <1>9 DEF Commit, Writes
  <2> QED BY <1>0, <1>1, <1>3, <1>4, <1>5, <2>1 DEF OnTheWay, Counted
<1>10. ASSUME CommitFails(w) PROVE Keeps /\ inflight' > OnTheWay'
  <2>1. /\ wpc[w] = "get" /\ wpc'[w] = "failed" /\ UNCHANGED <<queue, inflight>> /\ buf' = [buf EXCEPT ![w] = <<>>]
        /\ buf[w] # <<>>
    BY <1>1, <1>10 DEF CommitFails, Writes, NewBuf
  <2>2. Cardinality(InBuf') = Cardinality(InBuf) - Len(buf[w])
    BY <2>1, BufDropped
  <2>3. Len(buf[w]) >= 1
    <3>1. buf[w] \in Seq(Batch)
      BY WriterFrame
    <3> QED BY <2>1, <3>1
  <2>4. OnTheWay' = OnTheWay - Len(buf[w])
    BY <1>0, <1>1, <1>3, <1>5, <2>1, <2>2 DEF OnTheWay
  <2> QED BY <1>0, <1>1, <2>1, <2>3, <2>4 DEF Counted
<1>11. ASSUME Report(w) PROVE Keeps
  <2>1. /\ wpc[w] = "report" /\ wpc'[w] = "get" /\ UNCHANGED queue /\ buf' = [buf EXCEPT ![w] = <<>>]
        /\ buf[w] # <<>> /\ buf[w] \in Seq(Batch) /\ Release(buf[w][Len(buf[w])].att, Len(buf[w]))
    BY <1>1, <1>11, WriterFrame DEF Report, Writes, NewBuf, Typed, WriteType
  <2>2. Cardinality(InBuf') = Cardinality(InBuf) - Len(buf[w])
    BY <2>1, BufDropped
  <2>3. Len(buf[w]) \in 1..Len(buf[w])
    BY <2>1
  <2>4. inflight' = Floor0(inflight - Len(buf[w]))
    BY <2>1, <2>3 DEF Own, Release, IsCurrent
  <2>5. OnTheWay' = OnTheWay - Len(buf[w])
    BY <1>0, <1>1, <1>3, <1>5, <2>1, <2>2 DEF OnTheWay
  <2>6. inflight' >= inflight - Len(buf[w]) /\ inflight' \in Nat
    BY <1>0, <1>1, <2>4, FloorIs
  <2> QED BY <1>0, <1>1, <2>5, <2>6 DEF Counted
<1>12. ASSUME WriterLeaves(w) PROVE Keeps
  <2>1. /\ wpc[w] = "get" /\ wpc'[w] = "ended" /\ UNCHANGED queue /\ buf' = [buf EXCEPT ![w] = <<>>]
        /\ inflight' = Floor0(inflight - Cardinality({k \in 1..Len(buf[w]) : IsCurrent(buf[w][k].att)}))
    BY <1>1, <1>12 DEF WriterLeaves, Writes, NewBuf
  <2>2. buf[w] = <<>>
    BY <1>12 DEF WriterLeaves
  <2>3. {k \in 1..Len(buf[w]) : IsCurrent(buf[w][k].att)} = {} /\ Len(buf[w]) = 0
    BY <2>2
  <2>4. inflight' = inflight
    BY <1>0, <2>1, <2>3, FS_EmptySet DEF Floor0
  <2>5. Cardinality(InBuf') = Cardinality(InBuf)
    <3>1. Cardinality(InBuf') = Cardinality(InBuf) - Len(buf[w])
      BY <2>1, BufDropped
    <3> QED BY <1>1, <2>3, <3>1
  <2> QED BY <1>0, <1>1, <1>3, <1>5, <2>1, <2>4, <2>5 DEF OnTheWay, Counted
<1> QED BY <1>6, <1>7, <1>8, <1>9, <1>10, <1>11, <1>12 DEF WriterStep

LEMMA WriterSmooth ==
  ASSUME Typed, Own, Smooth, NEW w \in Writers, WriterStep(w)
  PROVE  Smooth'
<1>1. /\ UNCHANGED <<pc, att, ended, tabErr, active, rpc, job, todo>>
      /\ Busy' = Busy /\ (Quiet' <=> Quiet)
  BY WriterFrame DEF Busy, Quiet, Idle
<1> QED BY <1>1 DEF Smooth

(* What a commit writes is in the table of the attempt. *)
LEMMA CommitStages ==
  ASSUME Typed, Own, NEW w \in Writers, Commit(w), NEW k \in 1..Len(buf[w])
  PROVE  [c |-> buf[w][k].c, i |-> buf[w][k].i] \in rows'[att']
<1>1. buf[w][k].att = att /\ Real(buf[w][k])
  BY DEF Own, Typed, WriteType
<1>2. att \in Attempts /\ att' = att /\ run' = run
  BY <1>1, WriterFrame DEF Real, Batch, WriterStep
<1>3. [c |-> buf[w][k].c, i |-> buf[w][k].i] \in RowsOf(buf[w], att)
  BY <1>1 DEF RowsOf, RowOf
<1>4. rows'[att] = rows[att] \cup RowsOf(buf[w], att)
  BY <1>2 DEF Commit, Inserted
<1> QED BY <1>2, <1>3, <1>4

LEMMA WriterForgetsNothing ==
  ASSUME Typed, Own, Counted, NothingForgotten, NEW w \in Writers, WriterStep(w), marred' = {}
  PROVE  NothingForgotten'
<1>0. /\ UNCHANGED <<run, pc, att, todo, rpc, job>>
      /\ wpc \in [Writers -> WriterPcs] /\ hand \in [Writers -> Batch \cup {NoBatch}]
      /\ buf \in [Writers -> Seq(Batch)] /\ queue \in Seq(Batch)
      /\ \A v \in Writers : v # w => wpc'[v] = wpc[v] /\ hand'[v] = hand[v] /\ buf'[v] = buf[v]
  BY WriterFrame
<1>1. \A c, i : Ahead(c, i) => Ahead(c, i)'
  BY <1>0 DEF Ahead
<1>2. pc \in {"wait", "drained", "publish"} => att \in Attempts
  BY DEF Typed, TaskType
<1>3. ASSUME pc \in {"wait", "drained", "publish"}, NEW c, NEW i, Staged(c, i) PROVE Staged(c, i)'
  BY <1>0, <1>2, <1>3, WriterFrame DEF Staged
<1>4. ASSUME NEW c, NEW i, Same(hand[w], c, i), wpc[w] = "write"
      PROVE  Carried(c, i)' \/ inflight' > OnTheWay'
  <2>1. CASE WriteFails(w)
    BY <2>1, WriterCounts
  <2>2. CASE Write(w)
    <3>1. buf'[w] = Append(buf[w], hand[w]) /\ buf[w] \in Seq(Batch)
      BY <1>0, <2>2 DEF Write, NewBuf
    <3>2. Len(buf'[w]) \in 1..Len(buf'[w]) /\ buf'[w][Len(buf'[w])] = hand[w]
      BY <3>1
    <3> QED BY <1>0, <1>4, <3>2 DEF Carried, Same
  <2> QED BY <1>4, <2>1, <2>2 DEF WriterStep, Take, Commit, CommitFails, Report, WriterLeaves
<1>5. ASSUME pc \in {"wait", "drained"}, NEW c, NEW i, NEW k \in 1..Len(buf[w]), Same(buf[w][k], c, i)
      PROVE  Carried(c, i)' \/ Staged(c, i)' \/ inflight' > OnTheWay'
  <2>1. CASE UNCHANGED buf
    BY <1>0, <1>5, <2>1 DEF Carried, Same
  <2>2. CASE Write(w)
    <3>1. buf'[w] = Append(buf[w], hand[w]) /\ buf[w] \in Seq(Batch)
      BY <1>0, <2>2 DEF Write, NewBuf
    <3>2. k \in 1..Len(buf'[w]) /\ buf'[w][k] = buf[w][k]
      BY <3>1
    <3> QED BY <1>0, <1>5, <3>2 DEF Carried, Same
  <2>3. CASE WriteFails(w) \/ CommitFails(w)
    BY <2>3, WriterCounts
  <2>4. CASE Report(w)
    <3>1. Staged(buf[w][k].c, buf[w][k].i)
      BY <1>5, <2>4 DEF Report, NothingForgotten
    <3> QED BY <1>3, <1>5, <3>1 DEF Same
  <2>5. CASE WriterLeaves(w)
    <3>1. buf[w] = <<>>
      BY <2>5 DEF WriterLeaves
    <3> QED BY <3>1
  <2> QED BY <2>1, <2>2, <2>3, <2>4, <2>5 DEF WriterStep, Take, Commit
<1>6. ASSUME NEW c, NEW i, NEW k \in 1..Len(queue), Same(queue[k], c, i)
      PROVE  Carried(c, i)'
  <2>1. CASE UNCHANGED queue
    BY <1>0, <1>6, <2>1 DEF Carried, Same
  <2>2. CASE Take(w)
    <3>1. queue # <<>> /\ queue' = Tail(queue) /\ wpc[w] = "get"
      BY <2>2 DEF Take
    <3>2. CASE k = 1
      <4>1. IsCurrent(Head(queue).att) /\ Head(queue) = queue[1]
        BY <1>0, <1>6, <3>1, <3>2 DEF Same, IsCurrent
      <4>2. wpc'[w] = "write" /\ hand'[w] = queue[1]
        BY <1>0, <2>2, <4>1 DEF Take, Writes
      <4> QED BY <1>0, <1>6, <3>2, <4>2 DEF Carried, Same
    <3>3. CASE k # 1
      <4>1. k - 1 \in 1..Len(queue') /\ queue'[k - 1] = queue[k]
        BY <1>0, <3>1, <3>3
      <4> QED BY <1>0, <1>6, <4>1 DEF Carried, Same
    <3> QED BY <3>2, <3>3
  <2> QED BY <2>1, <2>2 DEF WriterStep, Write, WriteFails, Commit, CommitFails, Report, WriterLeaves
<1>7. ASSUME pc \in {"wait", "drained"}, NEW c, NEW i, Carried(c, i)
      PROVE  Carried(c, i)' \/ Staged(c, i)' \/ inflight' > OnTheWay'
  <2>1. ASSUME NEW v \in Writers, v # w, wpc[v] = "write", Same(hand[v], c, i) PROVE Carried(c, i)'
    BY <1>0, <2>1 DEF Carried, Same
  <2>2. ASSUME NEW v \in Writers, v # w, NEW k \in 1..Len(buf[v]), Same(buf[v][k], c, i) PROVE Carried(c, i)'
    <3>1. buf'[v] = buf[v]
      BY <1>0, <2>2
    <3> QED BY <1>0, <2>2, <3>1 DEF Carried, Same
  <2> QED BY <1>4, <1>5, <1>6, <1>7, <2>1, <2>2 DEF Carried
<1>8. ASSUME pc \in {"wait", "drained"}, NEW c \in Chunks, NEW i \in 1..BatchesOf[c]
      PROVE  Ahead(c, i)' \/ Carried(c, i)' \/ Staged(c, i)' \/ inflight' > OnTheWay'
  <2>1. inflight > OnTheWay => inflight' > OnTheWay'
    BY WriterCounts
  <2> QED BY <1>1, <1>3, <1>7, <1>8, <2>1 DEF NothingForgotten
<1>9. ASSUME pc \in {"wait", "drained"}, NEW v \in Writers, wpc'[v] = "report", NEW k \in 1..Len(buf'[v])
      PROVE  [c |-> buf'[v][k].c, i |-> buf'[v][k].i] \in rows'[att']
  <2>1. CASE v # w
    <3>1. wpc[v] = "report" /\ buf'[v] = buf[v]
      BY <1>0, <1>9, <2>1
    <3>2. [c |-> buf[v][k].c, i |-> buf[v][k].i] \in rows[att]
      BY <1>9, <3>1 DEF NothingForgotten, Staged
    <3>3. att \in Attempts
      BY <1>2, <1>9
    <3> QED BY <1>0, <3>1, <3>2, <3>3, WriterFrame
  <2>2. CASE v = w
    <3>1. Commit(w) /\ buf' = buf
      BY <1>0, <1>9, <2>2 DEF WriterStep, Take, Write, WriteFails, Commit, CommitFails, Report, WriterLeaves, Writes
    <3>2. k \in 1..Len(buf[w])
      BY <1>9, <2>2, <3>1
    <3> QED BY <2>2, <3>1, <3>2, CommitStages
  <2> QED BY <2>1, <2>2
<1>10. pc = "publish" => \A c \in Chunks : \A i \in 1..BatchesOf[c] : Staged(c, i)'
  BY <1>3 DEF NothingForgotten
<1>11. pc \in {"wait", "drained"} => (\A v \in Writers : wpc[v] = "report" =>
           \A k \in 1..Len(buf[v]) : Staged(buf[v][k].c, buf[v][k].i))'
  BY <1>9 DEF Staged
<1>12. pc \in {"wait", "drained"} => (\A c \in Chunks : \A i \in 1..BatchesOf[c] :
            Ahead(c, i) \/ Carried(c, i) \/ Staged(c, i) \/ inflight > OnTheWay)'
  BY <1>8
<1> QED BY <1>0, <1>10, <1>11, <1>12 DEF NothingForgotten

LEMMA WholeWriter ==
  ASSUME Typed, Whole, NEW w \in Writers, WriterStep(w)
  PROVE  Whole'
<1>0. UNCHANGED <<ctxEnded, final>> /\ (marred' = {} => marred = {})
  BY WriterFrame
<1>1. PublishedIsComplete'
  BY <1>0 DEF Whole, PublishedIsComplete, SourceRows
<1> QED BY <1>0, <1>1, WriterOwn, WriterCounts, WriterSmooth, WriterForgetsNothing DEF Whole

-----------------------------------------------------------------------------
(* The main goroutine and the completeness of the attempt. *)
LEMMA NoneOnTheWay ==
  ASSUME InPut = {}, InQueue = {}, InHand = {}, InBuf = {} PROVE OnTheWay = 0
  BY FS_EmptySet DEF OnTheWay

LEMMA MainFrame ==
  ASSUME Typed, MainStep
  PROVE  /\ UNCHANGED <<run, rpc, job, queue, wpc, hand, buf>>
         /\ StartAttempt \/ (UNCHANGED <<att, inflight>> /\ (marred' = {} => marred = {}))
         /\ Submit \/ UNCHANGED regAtt
         /\ Submit \/ todo' \subseteq todo
         /\ PrepareRetry \/ UNCHANGED <<active, tabErr>>
         /\ Publish \/ UNCHANGED final
         /\ ctxEnded => ctxEnded'
<1>1. TaskType
  BY DEF Typed
<1>2. UNCHANGED <<run, rpc, job, queue, wpc, hand, buf>> /\ (StartAttempt \/ (UNCHANGED <<att, inflight>> /\ (marred' = {} => marred = {})))
  BY DEF MainStep, Top, Barrier, BarrierTimesOut, Create, CreateFails, StartAttempt,
     PrepareRetry, Submit, PlanFails, Wait, DataReady, Publish, PublishFails, Record, Failed, GiveUp,
     taskVars, stateVars, readVars, writeVars
<1>3. /\ Submit \/ UNCHANGED regAtt
      /\ Submit \/ todo' \subseteq todo
      /\ PrepareRetry \/ UNCHANGED <<active, tabErr>>
  BY DEF MainStep, Top, Barrier, BarrierTimesOut, StartAttempt, Create, CreateFails,
     PrepareRetry, Submit, PlanFails, Wait, DataReady, Publish, PublishFails, Record, Failed, GiveUp,
     schedVars, coordVars
<1>5. Publish \/ UNCHANGED final
  BY DEF MainStep, Top, Barrier, BarrierTimesOut, StartAttempt, Create, CreateFails,
     PrepareRetry, Submit, PlanFails, Wait, DataReady, PublishFails, Record, Failed, GiveUp,
     dbVars
<1>4. ctxEnded => ctxEnded'
  <2>1. ASSUME NEW p, NEW next, SavedAs(p, next) PROVE UNCHANGED ctxEnded \/ ctxEnded' = TRUE
    BY <2>1 DEF SavedAs
  <2>2. StartAttempt \/ Create \/ DataReady \/ Record \/ Failed => UNCHANGED ctxEnded \/ ctxEnded' = TRUE
    BY <2>1 DEF StartAttempt, Create, DataReady, Record, Failed
  <2>3. Top \/ BarrierTimesOut \/ CreateFails \/ PublishFails \/ GiveUp => UNCHANGED ctxEnded \/ ctxEnded' = TRUE
    BY DEF Top, BarrierTimesOut, CreateFails, PublishFails, GiveUp, MainFails
  <2>4. Barrier \/ PrepareRetry \/ Submit \/ PlanFails \/ Wait \/ Publish => UNCHANGED ctxEnded
    BY DEF Barrier, PrepareRetry, Submit, PlanFails, Wait, Publish, taskVars
  <2> QED BY <2>2, <2>3, <2>4 DEF MainStep
<1> QED BY <1>2, <1>3, <1>4, <1>5

LEMMA MainGoes ==
  ASSUME Typed, MainStep
  PROVE  /\ pc' = "plan" => (Create /\ att <= 1) \/ PrepareRetry
         /\ pc' = "wait" => Submit
         /\ pc' = "drained" => Wait /\ Pending = 0
         /\ pc' = "publish" => DataReady
<1>1. TaskType /\ tabErr \in Errors
  BY DEF Typed, CoordType
<1>2. CASE ~(StartAttempt \/ Create \/ DataReady \/ Record \/ Failed \/ Wait)
  BY <1>2 DEF MainStep, Top, Barrier, BarrierTimesOut, CreateFails, MainFails,
     PrepareRetry, Submit, PlanFails, Publish, PublishFails, GiveUp, ReadReturns
<1>3. CASE StartAttempt
  BY <1>3 DEF StartAttempt, SavedAs
<1>4. CASE Create
  BY <1>1, <1>4, Bounds DEF Create, SavedAs, TaskType, Attempts
<1>5. CASE DataReady
  BY <1>5 DEF DataReady, SavedAs
<1>6. CASE Record
  BY <1>6 DEF Record, SavedAs
<1>7. CASE Failed
  BY <1>7 DEF Failed, SavedAs
<1>8. CASE Wait
  BY <1>8 DEF Wait, ReadReturns
<1> QED BY <1>2, <1>3, <1>4, <1>5, <1>6, <1>7, <1>8

(* A new attempt that nothing outlived finds nobody at work. *)
LEMMA CleanStart ==
  ASSUME Typed, StartAttempt, marred' = {}
  PROVE  Own' /\ Counted' /\ pc' \in {"create", "error"}
<1>1. /\ todo = {} /\ \A r \in Readers : rpc[r] = "idle"
      /\ \A w \in Writers : wpc[w] # "write" /\ buf[w] = <<>>
  BY DEF StartAttempt, Outlives
<1>2. /\ att' = att + 1 /\ inflight' = 0 /\ pc' \in {"create", "error"}
      /\ UNCHANGED <<todo, rpc, queue, wpc, buf>>
      /\ att \in Nat /\ regAtt \in Nat /\ regAtt <= att
  BY Bounds, SaveGoes DEF StartAttempt, Typed, TaskType, CoordType, schedVars, readVars, writeVars
<1>3. Quiet'
  BY <1>1, <1>2 DEF Quiet, Idle
<1>4. Own'
  BY <1>1, <1>2, <1>3 DEF Own
<1>5. InPut' = {} /\ InHand' = {}
  BY <1>1, <1>2 DEF InPut, InHand
<1>6. InQueue' = {}
  <2>1. \A k \in 1..Len(queue) : queue[k].att <= regAtt /\ queue[k].att \in Nat
    BY Bounds DEF Typed, WriteType, Real, Batch, Attempts
  <2> QED BY <1>2, <2>1 DEF InQueue
<1>7. InBuf' = {}
  BY <1>1, <1>2 DEF InBuf, BufOf
<1>8. OnTheWay' = 0
  BY <1>5, <1>6, <1>7, FS_EmptySet DEF OnTheWay
<1> QED BY <1>2, <1>4, <1>8 DEF Counted

LEMMA MainOwn ==
  ASSUME Typed, Own, Counted, MainStep, ~StartAttempt
  PROVE  Own' /\ Counted' /\ OnTheWay' = OnTheWay
<1>0. /\ UNCHANGED <<run, rpc, job, queue, wpc, hand, buf, att, inflight>>
      /\ att \in Nat /\ regAtt \in Nat
  BY MainFrame, Bounds DEF Typed, TaskType, CoordType
<1>1. OnTheWay' = OnTheWay
  <2>1. InPut' = InPut /\ InQueue' = InQueue /\ InHand' = InHand
    BY <1>0 DEF InPut, InQueue, InHand
  <2> QED BY <1>0, <2>1, SameBufs DEF OnTheWay
<1>2. regAtt' # att' => Quiet'
  <2>1. CASE Submit
    BY <1>0, <2>1 DEF Submit
  <2>2. CASE ~Submit
    BY <1>0, <2>2, MainFrame DEF Own, Quiet, Idle
  <2> QED BY <2>1, <2>2
<1>3. pc' = "plan" => active' = 0 /\ tabErr' = "none"
  <2>1. CASE PrepareRetry
    BY <2>1 DEF PrepareRetry
  <2>2. CASE Create /\ att <= 1
    <3>1. regAtt = 0
      BY <1>0, <2>2 DEF Create, Typed, CoordType
    <3> QED BY <2>2, <3>1 DEF Create, Typed, CoordType, schedVars, coordVars
  <2> QED BY <2>1, <2>2, MainGoes
<1> QED BY <1>0, <1>1, <1>2, <1>3 DEF Own, Counted

LEMMA MainSmooth ==
  ASSUME Typed, Own, Smooth, MainStep, ~StartAttempt
  PROVE  Smooth'
<1>0. /\ UNCHANGED <<rpc, job, att>>
      /\ Busy' = Busy
  BY MainFrame DEF Busy
<1>1. CASE Submit
  <2>1. /\ pc = "plan" /\ pc' = "wait" /\ UNCHANGED <<active, tabErr, ended>> /\ regAtt < att /\ att \notin ended
        /\ att \in Nat /\ regAtt \in Nat
    BY <1>1, Bounds DEF Submit, Typed, TaskType, CoordType
  <2>2. Quiet /\ active = 0 /\ tabErr = "none"
    BY <2>1 DEF Own
  <2>3. Busy = {}
    BY <2>2 DEF Quiet, Idle, Busy
  <2>4. active = Cardinality(Busy)
    BY <2>2, <2>3, FS_EmptySet
  <2> QED BY <1>0, <2>1, <2>2, <2>4 DEF Smooth, Quiet, Idle
<1>2. CASE Wait /\ Pending = 0
  <2>1. active = Cardinality(Busy) /\ active \in Nat /\ todo \subseteq Chunks
    BY <1>2 DEF Wait, Smooth, Typed, CoordType
  <2>2. IsFiniteSet(todo) /\ Cardinality(todo) \in Nat /\ IsFiniteSet(Busy)
    BY <2>1, Bounds, FS_Subset, FS_CardinalityType DEF Busy
  <2>3. Cardinality(todo) = 0 /\ Cardinality(Busy) = 0
    BY <1>2, <2>1, <2>2 DEF Pending
  <2>4. todo = {} /\ Busy = {}
    BY <2>2, <2>3, FS_EmptySet
  <2>5. \A r \in Readers : rpc[r] = "idle"
    BY <1>2, <2>4 DEF Wait, Smooth, Busy
  <2>6. Quiet' /\ pc' # "wait"
    BY <1>0, <1>2, <2>4, <2>5 DEF Quiet, Idle, Wait, ReadReturns, schedVars
  <2> QED BY <2>6 DEF Smooth
<1>3. CASE DataReady
  BY <1>0, <1>3 DEF DataReady, SavedAs, Smooth, Quiet, Idle, schedVars
<1>4. CASE pc' \notin {"wait", "drained", "publish"}
  BY <1>4 DEF Smooth
<1> QED BY <1>1, <1>2, <1>3, <1>4, MainGoes

LEMMA MainForgetsNothing ==
  ASSUME Typed, Own, Counted, Smooth, NothingForgotten, MainStep, ~StartAttempt
  PROVE  NothingForgotten'
<1>0. /\ UNCHANGED <<run, rpc, job, queue, wpc, hand, buf, att, inflight>>
      /\ OnTheWay' = OnTheWay
  BY MainFrame, MainOwn
<1>1. CASE Submit
  <2>1. pc = "plan" /\ pc' = "wait" /\ todo' = Chunks /\ regAtt < att /\ att \in Nat /\ regAtt \in Nat
    BY <1>1, Bounds DEF Submit, Typed, TaskType, CoordType
  <2>2. \A c \in Chunks : \A i : Ahead(c, i)'
    BY <2>1 DEF Ahead
  <2>3. ASSUME NEW w \in Writers PROVE buf[w] = <<>>
    <3>1. buf[w] \in Seq(Batch) /\ \A k \in 1..Len(buf[w]) : buf[w][k].att = att /\ Real(buf[w][k])
      BY DEF Own, Typed, WriteType
    <3>2. Len(buf[w]) = 0
      <4> SUFFICES ASSUME Len(buf[w]) # 0 PROVE FALSE
        OBVIOUS
      <4>1. 1 \in 1..Len(buf[w])
        BY <3>1
      <4> QED BY <2>1, <3>1, <4>1 DEF Real
    <3> QED BY <3>1, <3>2
  <2>4. \A w \in Writers : wpc'[w] # "report"
    BY <1>0, <2>3 DEF Typed, WriteType
  <2> QED BY <2>1, <2>2, <2>4 DEF NothingForgotten
<1>2. CASE Wait /\ Pending = 0
  <2>1. pc = "wait" /\ pc' \in {"drained", "failed"} /\ UNCHANGED <<todo, rows>>
    BY <1>2 DEF Wait, ReadReturns, schedVars, dbVars
  <2> QED BY <1>0, <2>1 DEF NothingForgotten, Ahead, Carried, Same, Staged
<1>3. CASE DataReady
  <2>1. pc = "drained" /\ inflight = 0 /\ pc' \in {"publish", "error"} /\ UNCHANGED rows /\ Quiet
    BY <1>3 DEF DataReady, Drained, SavedAs, dbVars, Smooth
  <2>2. OnTheWay = 0
    BY <2>1, CountsAreNumbers DEF Counted
  <2>3. \A c, i : ~Carried(c, i)
    BY <2>2, CarriedCounts
  <2>4. \A c, i : ~Ahead(c, i)
    BY <2>1 DEF Ahead, Quiet, Idle
  <2>5. \A c \in Chunks : \A i \in 1..BatchesOf[c] : Staged(c, i)
    BY <2>1, <2>2, <2>3, <2>4 DEF NothingForgotten
  <2> QED BY <1>0, <2>1, <2>5 DEF NothingForgotten, Staged
<1>4. CASE pc' \notin {"wait", "drained", "publish"}
  BY <1>4 DEF NothingForgotten
<1> QED BY <1>1, <1>2, <1>3, <1>4, MainGoes

(* The table that is published by an attempt that went well. *)
LEMMA PublishComplete ==
  ASSUME Typed, Whole, Publish
  PROVE  PublishedIsComplete'
<1>1. /\ pc = "publish" /\ ~ctxEnded /\ att \in Attempts
      /\ final' = [rows |-> rows[att], twice |-> twice[att], published |-> TRUE, marred |-> marred]
  BY DEF Publish, Typed, TaskType
<1>2. CASE marred # {}
  BY <1>1, <1>2 DEF PublishedIsComplete
<1>3. CASE marred = {}
  <2>1. \A c \in Chunks : \A i \in 1..BatchesOf[c] : [c |-> c, i |-> i] \in rows[att]
    BY <1>1, <1>3 DEF Whole, NothingForgotten, Staged
  <2>2. \A x \in rows[att] : x \in Row /\ x.c \in Chunks /\ x.i \in 1..BatchesOf[x.c]
    BY <1>1 DEF Typed, RowsType, Source
  <2>3. SourceRows \subseteq rows[att]
    <3> SUFFICES ASSUME NEW x \in SourceRows PROVE x \in rows[att]
      OBVIOUS
    <3>1. PICK c \in Chunks : x \in {[c |-> c, i |-> i] : i \in 1..BatchesOf[c]}
      BY DEF SourceRows
    <3> QED BY <2>1, <3>1
  <2>4. rows[att] \subseteq SourceRows
    <3> SUFFICES ASSUME NEW x \in rows[att] PROVE x \in SourceRows
      OBVIOUS
    <3>1. x = [c |-> x.c, i |-> x.i]
      BY <2>2 DEF Row
    <3>2. x \in {[c |-> x.c, i |-> i] : i \in 1..BatchesOf[x.c]}
      BY <2>2, <3>1
    <3> QED BY <2>2, <3>2 DEF SourceRows
  <2>6. rows[att] = SourceRows
    BY <2>3, <2>4
  <2>7. final'.rows = rows[att]
    BY <1>1
  <2> QED BY <2>6, <2>7 DEF PublishedIsComplete, SourceRows
<1> QED BY <1>2, <1>3

LEMMA WholeMain == ASSUME Typed, Whole, MainStep PROVE Whole'
<1>1. PublishedIsComplete'
  <2>1. CASE UNCHANGED final
    BY <2>1 DEF Whole, PublishedIsComplete, SourceRows
  <2> QED BY <2>1, PublishComplete, MainFrame
<1>2. CASE StartAttempt
  BY <1>1, <1>2, CleanStart DEF Whole, Smooth, NothingForgotten
<1>3. CASE ~StartAttempt
  BY <1>1, <1>3, MainFrame, MainOwn, MainSmooth, MainForgetsNothing DEF Whole
<1> QED BY <1>2, <1>3

-----------------------------------------------------------------------------
LEMMA WholeStep == Typed /\ Whole /\ [Next]_vars => Whole'
<1> SUFFICES ASSUME Typed, Whole, [Next]_vars PROVE Whole'
  OBVIOUS
<1>1. CASE MainStep
  BY <1>1, WholeMain
<1>2. ASSUME NEW r \in Readers, ReaderStep(r) PROVE Whole'
  BY <1>2, WholeReader
<1>3. ASSUME NEW w \in Writers, WriterStep(w) PROVE Whole'
  BY <1>3, WholeWriter
<1>4. ASSUME UNCHANGED <<run, pc, att, inflight, todo, active, regAtt, regCtx, tabErr, ended, rpc, job, queue,
                          wpc, hand, buf, rows, final, marred>>, ctxEnded => ctxEnded'
      PROVE  Whole'
  <2>1. PublishedIsComplete'
    BY <1>4 DEF Whole, PublishedIsComplete, SourceRows
  <2>2. /\ InPut' = InPut /\ InQueue' = InQueue /\ InHand' = InHand /\ InBuf' = InBuf
        /\ Busy' = Busy /\ (Quiet' <=> Quiet)
    BY <1>4, SameBufs DEF InPut, InQueue, InHand, Busy, Quiet, Idle
  <2>3. OnTheWay' = OnTheWay
    BY <2>2 DEF OnTheWay
  <2>4. (Own => Own') /\ (Counted => Counted')
    BY <1>4, <2>2, <2>3 DEF Own, Counted
  <2>5. Smooth => Smooth'
    BY <1>4, <2>2 DEF Smooth
  <2>6. NothingForgotten => NothingForgotten'
    BY <1>4, <2>3 DEF NothingForgotten, Ahead, Carried, Same, Staged
  <2> QED BY <1>4, <2>1, <2>4, <2>5, <2>6 DEF Whole
<1>5. CASE EngineStep \/ OtherTableFails \/ UserStops
  BY <1>4, <1>5 DEF EngineStep, EngineStopsWriters, EngineStopsReaders, OtherTableFails, UserStops,
     EngineFrame, mainVars, stateVars, schedVars, coordVars, readVars, dbVars
<1>6. CASE NextRun
  <2>1. PublishedIsComplete'
    BY <1>6 DEF NextRun, Whole, PublishedIsComplete, SourceRows
  <2>2. /\ inflight' = 0 /\ todo' = {} /\ \A r \in Readers : rpc'[r] = "idle"
        /\ queue' = <<>> /\ \A w \in Writers : wpc'[w] = "get" /\ buf'[w] = <<>>
        /\ pc' \in {"ok", "top"}
    BY <1>6 DEF NextRun
  <2>3. InPut' = {} /\ InQueue' = {} /\ InHand' = {} /\ InBuf' = {}
    BY <2>2 DEF InPut, InQueue, InHand, InBuf, BufOf
  <2>4. OnTheWay' = 0
    BY <2>3, FS_EmptySet DEF OnTheWay
  <2>5. Own' /\ Counted' /\ Smooth' /\ NothingForgotten'
    BY <2>2, <2>4 DEF Own, Counted, Smooth, NothingForgotten, Quiet, Idle
  <2> QED BY <2>1, <2>5 DEF Whole
<1>7. CASE UNCHANGED vars
  BY <1>4, <1>7 DEF vars, taskVars, mainVars, stateVars, schedVars, coordVars, readVars, writeVars, dbVars
<1> QED BY <1>1, <1>2, <1>3, <1>5, <1>6, <1>7 DEF Next

LEMMA WholeStart == Init => Whole
<1> SUFFICES ASSUME Init PROVE Whole
  OBVIOUS
<1>1. InPut = {} /\ InQueue = {} /\ InHand = {} /\ InBuf = {}
  BY DEF Init, Fresh, InPut, InQueue, InHand, InBuf, BufOf
<1>2. OnTheWay = 0
  BY <1>1, NoneOnTheWay
<1>3. Own /\ Counted /\ Smooth /\ NothingForgotten
  BY <1>2 DEF Init, Fresh, Own, Counted, Smooth, NothingForgotten, Quiet, Idle
<1>4. PublishedIsComplete
  BY DEF Init, PublishedIsComplete
<1> QED BY <1>3, <1>4 DEF Whole

(* A table that an unmarred attempt published has every row of the source,   *)
(* whatever failed before and whoever was at work.                           *)
THEOREM PublishedWhole == Spec => []PublishedIsComplete
<1>1. Whole => PublishedIsComplete
  BY DEF Whole
<1> QED BY <1>1, Runs, TypedStart, TypedStep, WholeStart, WholeStep, PTL

=============================================================================
