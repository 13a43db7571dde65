------------------------ MODULE FullLoadPipelineProofs ------------------------
(***************************************************************************)
(* Theorems of FullLoadPipeline, for any tables, chunks, batches, writers  *)
(* and faults.                                                             *)
(*                                                                         *)
(*  Typed    the types, and what a writer holds at each place of its loop  *)
(*  Ends     what the contexts, the errors and the end of the run say of   *)
(*           each other                                                    *)
(*  Placed   a batch that was read is in one place: with its reader, in    *)
(*           the queue, with one writer, or out of the pipeline            *)
(*  Good     as long as nothing is disturbed: a batch that left the        *)
(*           pipeline is on the target, the tracker counts exactly those   *)
(*           that are on their way, and it announces a table when there    *)
(*           are none                                                      *)
(***************************************************************************)
EXTENDS FullLoadPipeline, FiniteSetTheorems, WellFoundedInduction, TLAPS

ReaderPcs == {"read", "put", "blocked", "woken", "ok", "cancel", "real", "errCancel", "errReal", "idle"}
WriterPcs == {"top", "get", "wait", "got", "commit", "report", "out"}
Putting == {"put", "blocked", "woken"}

Typed ==
  /\ TypeOK
  /\ \A c \in Chunks : rpc[c] \in Putting => pos[c] >= 1
  /\ \A t \in Tables : \A k \in 1..Len(items[t]) : Tab(items[t][k]) = t
  /\ \A w \in Writers :
       /\ wpc[w] = "got" => hand[w] \in Batches /\ \A b \in buf[w] : Tab(b) = Tab(hand[w])
       /\ wpc[w] \in {"commit", "report"} => buf[w] # {}
       /\ wpc[w] = "out" => buf[w] = {}
       /\ \A a, b \in buf[w] : Tab(a) = Tab(b)

Ends ==
  /\ wcancel => werr # "none"
  /\ rerr # "none" => closed
  /\ rcancel => stopped \/ \E t \in Tables : tableErr[t] # "none" \/ sub[t] = "error"
  /\ closed => /\ \A c \in Chunks : rpc[c] = "idle"
               /\ \A t \in Tables : sub[t] # "wait"
               /\ rerr = "none" => \A t \in Tables : tableErr[t] = "none" /\ sub[t] # "error"
  /\ result = "ok" => /\ ~stopped /\ ~cancelled /\ werr = "none" /\ rerr = "none"
                      /\ closed /\ \A w \in Writers : wpc[w] = "out"

-----------------------------------------------------------------------------
(* Where a batch is. *)
WasRead(b) == b[2] <= pos[b[1]]
InPut(b) == rpc[b[1]] \in Putting /\ b[2] = pos[b[1]]
InQueue(b) == \E k \in 1..Len(items[Tab(b)]) : items[Tab(b)][k] = b
Held(w) == buf[w] \cup {b \in {hand[w]} : wpc[w] = "got"}
OnTheWay(b) == InPut(b) \/ InQueue(b) \/ \E w \in Writers : b \in Held(w)
Flight(t) == {b \in Batches : Tab(b) = t /\ OnTheWay(b)}

Chunkwise ==
  /\ \A c \in Chunks : /\ rpc[c] \in {"ok", "idle"} => pos[c] = BatchesOf[c]
                       /\ c \in marked => rpc[c] = "idle"
  /\ \A t \in Tables : /\ sub[t] # "error"
                       /\ readDone[t] <=> sub[t] = "done"
                       /\ sub[t] = "done" => AllMarked(t)

Here(b) ==
  /\ InQueue(b) => WasRead(b) /\ ~InPut(b) /\ store[b] = 0
  /\ \A w \in Writers : b \in Held(w) =>
       /\ WasRead(b) /\ ~InPut(b) /\ ~InQueue(b)
       /\ \A v \in Writers : b \in Held(v) => v = w
       /\ store[b] = IF wpc[w] = "report" THEN 1 ELSE 0
  /\ ~WasRead(b) \/ InPut(b) => store[b] = 0
  /\ store[b] <= 1

Placed ==
  /\ \A b \in Batches : Here(b)
  /\ \A w \in Writers : wpc[w] = "got" => hand[w] \notin buf[w]
  /\ \A t \in Tables : \A j, k \in 1..Len(items[t]) : items[t][j] = items[t][k] => j = k

Delivered == \A b \in Batches : WasRead(b) /\ ~OnTheWay(b) => store[b] = 1

Counted ==
  \A t \in Tables :
    /\ inflight[t] = Cardinality(Flight(t))
    /\ fired[t] <=> readDone[t] /\ inflight[t] = 0

Good == Undisturbed => Chunkwise /\ Delivered /\ Counted

(* With one table a writer that leaves has left nothing in the queue. *)
Drained ==
  Undisturbed => \A w \in Writers : last[w] \/ wpc[w] = "out" =>
                   closed /\ \A t \in Tables : items[t] = <<>>

-----------------------------------------------------------------------------
LEMMA Bounds ==
  /\ IsFiniteSet(Tables) /\ IsFiniteSet(Chunks) /\ Writers # {}
  /\ \A c \in Chunks : TableOf[c] \in Tables /\ BatchesOf[c] \in Nat
  /\ \A t \in Tables : Weight[t] \in Nat /\ Weight[t] >= 1
  /\ GlobalMax \in Nat /\ GlobalMax >= 1
  BY PipelineAssumption DEF PipelineAssumption

LEMMA BatchesAre ==
  /\ \A c \in Chunks : \A i \in 1..BatchesOf[c] : <<c, i>> \in Batches
  /\ \A b \in Batches : /\ b[1] \in Chunks /\ b[2] \in 1..BatchesOf[b[1]]
                        /\ b = <<b[1], b[2]>> /\ Tab(b) \in Tables
<1>1. \A c \in Chunks : \A i \in 1..BatchesOf[c] : <<c, i>> \in Batches
  BY DEF Batches
<1>2. ASSUME NEW b \in Batches
      PROVE  b[1] \in Chunks /\ b[2] \in 1..BatchesOf[b[1]] /\ b = <<b[1], b[2]>>
  <2>1. PICK c \in Chunks : b \in {c} \X (1..BatchesOf[c])
    BY DEF Batches
  <2> QED BY <2>1
<1> QED BY <1>1, <1>2, Bounds DEF Tab

LEMMA BatchesFinite == IsFiniteSet(Batches)
<1> DEFINE Of(c) == {c} \X (1..BatchesOf[c])
           All == {Of(c) : c \in Chunks}
<1>1. IsFiniteSet(All)
  <2> DEFINE f == [c \in Chunks |-> Of(c)]
  <2>1. f \in Surjection(Chunks, All)
    BY DEF Surjection
  <2> QED BY <2>1, Bounds, FS_Surjection
<1>2. \A s \in All : IsFiniteSet(s)
  <2> SUFFICES ASSUME NEW c \in Chunks PROVE IsFiniteSet(Of(c))
    OBVIOUS
  <2>1. IsFiniteSet({c}) /\ IsFiniteSet(1..BatchesOf[c])
    <3>1. BatchesOf[c] \in Int /\ 1 \in Int
      BY Bounds
    <3>2. IsFiniteSet(1..BatchesOf[c])
      BY <3>1, FS_Interval
    <3> QED BY <3>2, FS_Singleton
  <2> QED BY <2>1, FS_Product
<1>3. IsFiniteSet(UNION All)
  BY <1>1, <1>2, FS_UNION
<1> QED BY <1>3 DEF Batches

LEMMA FloorIs ==
  ASSUME NEW n \in Int
  PROVE  Max({0, n}) = IF n >= 0 THEN n ELSE 0
<1>1. \A m : m \in {0, n} /\ (\A y \in {0, n} : m >= y) <=> m = IF n >= 0 THEN n ELSE 0
  OBVIOUS
<1> QED BY <1>1 DEF Max

-----------------------------------------------------------------------------
LEMMA TypedStart == Init => Typed
<1> SUFFICES ASSUME Init PROVE Typed
  OBVIOUS
<1>1. TypeOK
  <2>1. /\ rpc \in [Chunks -> {"read", "put", "blocked", "woken", "ok", "cancel", "real",
                               "errCancel", "errReal", "idle"}]
        /\ pos \in [Chunks -> Nat] /\ \A c \in Chunks : pos[c] <= BatchesOf[c]
        /\ marked \subseteq Chunks
    BY Bounds DEF Init
  <2>2. /\ items \in [Tables -> Seq(Batches)] /\ inflight \in [Tables -> Nat]
        /\ readDone \in [Tables -> BOOLEAN] /\ fired \in [Tables -> BOOLEAN]
        /\ sub \in [Tables -> {"wait", "done", "error"}]
        /\ tableErr \in [Tables -> {"none", "cancel", "real"}]
    BY DEF Init
  <2>3. /\ wpc \in [Writers -> {"top", "get", "wait", "got", "commit", "report", "out"}]
        /\ hand \in [Writers -> Batches \cup {NoBatch}] /\ buf \in [Writers -> SUBSET Batches]
        /\ last \in [Writers -> BOOLEAN] /\ store \in [Batches -> Nat]
    BY DEF Init
  <2> QED BY <2>1, <2>2, <2>3 DEF Init, TypeOK
<1> QED BY <1>1 DEF Init, Typed, Putting

LEMMA Tracked ==
  ASSUME fired \in [Tables -> BOOLEAN], NEW t \in Tables, Track(t)
  PROVE  fired' \in [Tables -> BOOLEAN]
  BY DEF Track, Ready

LEMMA Released ==
  ASSUME TypeOK, NEW t \in Tables, NEW n \in Nat, Release(t, n)
  PROVE  /\ inflight' \in [Tables -> Nat] /\ readDone' = readDone /\ fired' \in [Tables -> BOOLEAN]
<1>1. inflight[t] \in Nat /\ fired \in [Tables -> BOOLEAN] /\ inflight \in [Tables -> Nat]
  BY DEF TypeOK
<1>2. Max({0, inflight[t] - n}) \in Nat
  BY <1>1, FloorIs
<1> QED BY <1>1, <1>2, Tracked DEF Release

(* The steps of a reader. *)
LEMMA ReaderTyped ==
  ASSUME Typed, NEW c \in Chunks, ReaderStep(c)
  PROVE  Typed'
<1> USE DEF Putting
<1>0. /\ TypeOK /\ TableOf[c] \in Tables /\ BatchesOf[c] \in Nat /\ pos \in [Chunks -> Nat]
      /\ \A d \in Chunks : pos[d] <= BatchesOf[d]
  BY Bounds DEF Typed, TypeOK
<1>1. CASE ReadBatch(c)
  <2>1. pos' = [pos EXCEPT ![c] = pos[c] + 1] /\ rpc' = [rpc EXCEPT ![c] = "put"] /\ pos[c] < BatchesOf[c]
    BY <1>1 DEF ReadBatch, MoreToRead
  <2>2. pos' \in [Chunks -> Nat] /\ \A d \in Chunks : pos'[d] <= BatchesOf[d]
    BY <1>0, <2>1
  <2>3. inflight' \in [Tables -> Nat]
    BY <1>0, <1>1 DEF ReadBatch, TypeOK
  <2>4. TypeOK'
    BY <1>0, <1>1, <2>2, <2>3 DEF ReadBatch, TypeOK, queueVars, writeVars, envVars
  <2>5. \A d \in Chunks : rpc'[d] \in Putting => pos'[d] >= 1
    BY <1>0, <2>1 DEF Typed, TypeOK
  <2> QED BY <1>1, <2>4, <2>5 DEF ReadBatch, Typed, queueVars, writeVars
<1>2. CASE ReadLast(c) \/ ReadStopped(c) \/ ReadCancelled(c) \/ ReadFails(c) \/ PutBlocks(c)
  <2>1. /\ rpc' \in [Chunks -> ReaderPcs] /\ rcancel' \in BOOLEAN
        /\ UNCHANGED <<pos, marked, sub, tableErr, rerr, queueVars, trackVars, writeVars, envVars>>
    BY <1>0, <1>2 DEF ReadLast, ReadStopped, ReadCancelled, ReadFails, PutBlocks, TypeOK, ReaderPcs
  <2>2. TypeOK'
    BY <1>0, <2>1 DEF TypeOK, ReaderPcs, queueVars, trackVars, writeVars, envVars
  <2>3. \A d \in Chunks : rpc'[d] \in Putting => pos'[d] >= 1
    BY <1>0, <1>2, <2>1 DEF ReadLast, ReadStopped, ReadCancelled, ReadFails, PutBlocks, Typed, TypeOK
  <2> QED BY <2>1, <2>2, <2>3 DEF Typed, queueVars, writeVars
<1>3. CASE PutOK(c)
  <2>1. wpc' \in [Writers -> WriterPcs] /\ \A w \in Writers : wpc'[w] = wpc[w] \/ wpc'[w] = "get"
    BY <1>0, <1>3 DEF PutOK, Signal, TypeOK, WriterPcs
  <2>2. <<c, pos[c]>> \in Batches /\ Tab(<<c, pos[c]>>) = TableOf[c]
    BY <1>0, <1>3, BatchesAre DEF PutOK, Typed, Tab
  <2>3. items' \in [Tables -> Seq(Batches)]
    BY <1>0, <1>3, <2>2 DEF PutOK, TypeOK
  <2>4. TypeOK'
    BY <1>0, <1>3, <2>1, <2>3 DEF PutOK, TypeOK, WriterPcs, trackVars, envVars
  <2>5. ASSUME NEW t \in Tables, NEW k \in 1..Len(items'[t]) PROVE Tab(items'[t][k]) = t
    <3>1. items[t] \in Seq(Batches) /\ items \in [Tables -> Seq(Batches)]
      BY <1>0 DEF TypeOK
    <3>2. CASE t = TableOf[c]
      <4>1. items'[t] = Append(items[t], <<c, pos[c]>>)
        BY <1>3, <3>1, <3>2 DEF PutOK
      <4> QED BY <2>2, <2>5, <3>1, <3>2, <4>1 DEF Typed
    <3>3. CASE t # TableOf[c]
      BY <1>3, <2>5, <3>1, <3>3 DEF PutOK, Typed
    <3> QED BY <3>2, <3>3
  <2>6. \A d \in Chunks : rpc'[d] \in Putting => pos'[d] >= 1
    BY <1>0, <1>3 DEF PutOK, Typed, TypeOK
  <2>7. UNCHANGED <<hand, buf>>
    BY <1>3 DEF PutOK
  <2>8. \A t \in Tables : \A k \in 1..Len(items'[t]) : Tab(items'[t][k]) = t
    BY <2>5
  <2> QED BY <2>1, <2>4, <2>6, <2>7, <2>8 DEF Typed
<1>4. CASE PutCancelled(c)
  <2>1. /\ inflight' \in [Tables -> Nat] /\ readDone' = readDone /\ fired' \in [Tables -> BOOLEAN]
    BY <1>0, <1>4, Released DEF PutCancelled
  <2>2. TypeOK'
    BY <1>0, <1>4, <2>1 DEF PutCancelled, TypeOK, queueVars, writeVars, envVars
  <2>3. \A d \in Chunks : rpc'[d] \in Putting => pos'[d] >= 1
    BY <1>0, <1>4 DEF PutCancelled, Typed, TypeOK
  <2> QED BY <1>4, <2>2, <2>3 DEF PutCancelled, Typed, queueVars, writeVars
<1>5. CASE MarkDone(c) \/ SetTableErr(c)
  <2>1. /\ rpc' \in [Chunks -> ReaderPcs] /\ rcancel' \in BOOLEAN /\ marked' \subseteq Chunks
        /\ tableErr' \in [Tables -> {"none", "cancel", "real"}]
        /\ UNCHANGED <<pos, sub, rerr, queueVars, trackVars, writeVars, envVars>>
    <3>1. CASE MarkDone(c)
      <4>1. rpc' \in [Chunks -> ReaderPcs]
        BY <1>0, <3>1 DEF MarkDone, TypeOK, ReaderPcs
      <4> QED BY <1>0, <3>1, <4>1 DEF MarkDone, TypeOK
    <3>2. CASE SetTableErr(c)
      <4>1. rpc' \in [Chunks -> ReaderPcs]
        BY <1>0, <3>2 DEF SetTableErr, TypeOK, ReaderPcs
      <4>2. tableErr' \in [Tables -> {"none", "cancel", "real"}]
        BY <1>0, <3>2 DEF SetTableErr, TypeOK
      <4> QED BY <1>0, <3>2, <4>1, <4>2 DEF SetTableErr, TypeOK
    <3> QED BY <1>5, <3>1, <3>2
  <2>2. TypeOK'
    BY <1>0, <2>1 DEF TypeOK, ReaderPcs, queueVars, trackVars, writeVars, envVars
  <2>3. \A d \in Chunks : rpc'[d] \in Putting => pos'[d] >= 1
    BY <1>0, <1>5, <2>1 DEF MarkDone, SetTableErr, Typed, TypeOK
  <2> QED BY <2>1, <2>2, <2>3 DEF Typed, queueVars, writeVars
<1> QED BY <1>1, <1>2, <1>3, <1>4, <1>5 DEF ReaderStep

LEMMA SubmitTyped ==
  ASSUME Typed, NEW t \in Tables, SubmitStep(t)
  PROVE  Typed'
<1>1. fired' \in [Tables -> BOOLEAN]
  BY Tracked DEF Typed, TypeOK, SubmitStep, SubmitDone, SubmitFails, trackVars
<1>2. TypeOK'
  <2>1. /\ sub' \in [Tables -> {"wait", "done", "error"}] /\ rcancel' \in BOOLEAN
        /\ inflight' = inflight /\ readDone' \in [Tables -> BOOLEAN]
    BY DEF Typed, TypeOK, SubmitStep, SubmitDone, SubmitFails, trackVars
  <2>2. UNCHANGED <<rpc, pos, marked, tableErr, rerr, queueVars, writeVars, envVars>>
    BY DEF SubmitStep, SubmitDone, SubmitFails
  <2> QED BY <1>1, <2>1, <2>2 DEF Typed, TypeOK, queueVars, writeVars, envVars
<1> QED BY <1>2 DEF Typed, SubmitStep, SubmitDone, SubmitFails, queueVars, writeVars

(* The steps of a writer. *)
LEMMA WriterTyped ==
  ASSUME Typed, NEW w \in Writers, WriterStep(w)
  PROVE  Typed'
<1>0. /\ TypeOK /\ wpc \in [Writers -> WriterPcs] /\ hand \in [Writers -> Batches \cup {NoBatch}]
      /\ buf \in [Writers -> SUBSET Batches] /\ items \in [Tables -> Seq(Batches)]
  BY DEF Typed, TypeOK, WriterPcs
<1>1. CASE SwitchTable(w) \/ EnterGet(w) \/ GetWaits(w) \/ TimerFires(w) \/ GetTimesOut(w) \/ QueueDrained(w)
  <2>1. /\ wpc' \in [Writers -> WriterPcs] /\ last' \in [Writers -> BOOLEAN]
        /\ UNCHANGED <<readVars, queueVars, trackVars, hand, buf, wcancel, werr, envVars>>
    BY <1>0, <1>1 DEF SwitchTable, EnterGet, GetWaits, TimerFires, GetTimesOut, QueueDrained, AfterLoop, Awake,
       WriterPcs, TypeOK
  <2>2. TypeOK'
    BY <1>0, <2>1 DEF TypeOK, WriterPcs, readVars, queueVars, trackVars, envVars
  <2>3. \A v \in Writers : /\ wpc'[v] \in {"got", "report"} => wpc'[v] = wpc[v]
                           /\ wpc'[v] = "commit" => wpc[v] = "commit" \/ buf[v] # {}
                           /\ wpc'[v] = "out" => wpc[v] = "out" \/ buf[v] = {}
    BY <1>0, <1>1 DEF SwitchTable, EnterGet, GetWaits, TimerFires, GetTimesOut, QueueDrained, AfterLoop, Awake, Bound, WriterPcs
  <2> QED BY <2>1, <2>2, <2>3 DEF Typed, readVars, queueVars
<1>2. CASE \E t \in Tables : GetBatch(w, t)
  <2> PICK t \in Tables : GetBatch(w, t)
    BY <1>2
  <2>1. /\ t \in Available(w) /\ items[t] # <<>> /\ items[t] \in Seq(Batches)
        /\ hand' = [hand EXCEPT ![w] = Head(items[t])] /\ items' = [items EXCEPT ![t] = Tail(items[t])]
        /\ wpc' = [wpc EXCEPT ![w] = "got"] /\ rpc' = WakeReaders(rpc)
        /\ UNCHANGED <<pos, marked, sub, tableErr, rcancel, rerr, closed, trackVars, buf, last, wcancel, werr, envVars>>
    BY <1>0 DEF GetBatch, Available
  <2>2. /\ Head(items[t]) \in Batches /\ Head(items[t]) = items[t][1] /\ 1 \in 1..Len(items[t])
        /\ Tail(items[t]) \in Seq(Batches) /\ Len(Tail(items[t])) = Len(items[t]) - 1
        /\ \A k \in 1..Len(Tail(items[t])) : Tail(items[t])[k] = items[t][k + 1] /\ k + 1 \in 1..Len(items[t])
    BY <2>1
  <2>3. rpc' \in [Chunks -> ReaderPcs] /\ \A c \in Chunks : rpc'[c] \in Putting <=> rpc[c] \in Putting
    BY <1>0, <2>1 DEF TypeOK, WakeReaders, ReaderPcs, Putting
  <2>4. items' \in [Tables -> Seq(Batches)]
    BY <1>0, <2>1, <2>2
  <2>5. TypeOK'
    BY <1>0, <2>1, <2>2, <2>3, <2>4 DEF TypeOK, WriterPcs, ReaderPcs, trackVars, envVars
  <2>6. \A u \in Tables : \A k \in 1..Len(items'[u]) : Tab(items'[u][k]) = u
    <3> SUFFICES ASSUME NEW u \in Tables, NEW k \in 1..Len(items'[u]) PROVE Tab(items'[u][k]) = u
      OBVIOUS
    <3>1. CASE u = t
      <4>1. items'[u] = Tail(items[t])
        BY <1>0, <2>1, <3>1
      <4>2. k \in 1..Len(Tail(items[t]))
        BY <4>1
      <4> QED BY <2>2, <3>1, <4>1, <4>2 DEF Typed
    <3>2. CASE u # t
      BY <1>0, <2>1, <3>2 DEF Typed
    <3> QED BY <3>1, <3>2
  <2>7. Tab(Head(items[t])) = t
    BY <2>2 DEF Typed
  <2>8. \A b \in buf[w] : Tab(b) = t
    BY <2>1 DEF Available, Bound, BoundTables, Typed
  <2>9. \A v \in Writers :
          /\ wpc'[v] = "got" => hand'[v] \in Batches /\ \A b \in buf'[v] : Tab(b) = Tab(hand'[v])
          /\ wpc'[v] \in {"commit", "report"} => buf'[v] # {}
          /\ wpc'[v] = "out" => buf'[v] = {}
          /\ \A a, b \in buf'[v] : Tab(a) = Tab(b)
    <3> SUFFICES ASSUME NEW v \in Writers PROVE
          /\ wpc'[v] = "got" => hand'[v] \in Batches /\ \A b \in buf'[v] : Tab(b) = Tab(hand'[v])
          /\ wpc'[v] \in {"commit", "report"} => buf'[v] # {}
          /\ wpc'[v] = "out" => buf'[v] = {}
          /\ \A a, b \in buf'[v] : Tab(a) = Tab(b)
      OBVIOUS
    <3>1. buf' = buf
      BY <2>1
    <3>2. CASE v = w
      BY <1>0, <2>1, <2>2, <2>7, <2>8, <3>1, <3>2 DEF Typed
    <3>3. CASE v # w
      BY <1>0, <2>1, <3>1, <3>3 DEF Typed
    <3> QED BY <3>2, <3>3
  <2> QED BY <2>1, <2>3, <2>5, <2>6, <2>9 DEF Typed
<1>3. CASE WriteBatch(w)
  <2>1. /\ wpc[w] = "got" /\ hand[w] \in Batches /\ \A b \in buf[w] : Tab(b) = Tab(hand[w])
    BY <1>3 DEF WriteBatch, Typed
  <2>2. /\ buf' = [buf EXCEPT ![w] = buf[w] \cup {hand[w]}] /\ hand' = [hand EXCEPT ![w] = NoBatch]
        /\ \E p \in {"commit", "top"} : wpc' = [wpc EXCEPT ![w] = p]
        /\ UNCHANGED <<readVars, queueVars, trackVars, last, wcancel, werr, envVars>>
    BY <1>3 DEF WriteBatch
  <2>3. buf' \in [Writers -> SUBSET Batches] /\ hand' \in [Writers -> Batches \cup {NoBatch}] /\ wpc' \in [Writers -> WriterPcs]
    BY <1>0, <2>1, <2>2 DEF WriterPcs
  <2>4. TypeOK'
    BY <1>0, <2>2, <2>3 DEF TypeOK, WriterPcs, readVars, queueVars, trackVars, envVars
  <2>5. ASSUME NEW v \in Writers PROVE
          /\ wpc'[v] = "got" => hand'[v] \in Batches /\ \A b \in buf'[v] : Tab(b) = Tab(hand'[v])
          /\ wpc'[v] \in {"commit", "report"} => buf'[v] # {}
          /\ wpc'[v] = "out" => buf'[v] = {}
          /\ \A a, b \in buf'[v] : Tab(a) = Tab(b)
    <3>1. CASE v = w
      BY <1>0, <2>1, <2>2, <3>1 DEF Typed
    <3>2. CASE v # w
      BY <1>0, <2>2, <3>2 DEF Typed
    <3> QED BY <3>1, <3>2
  <2> QED BY <2>2, <2>4, <2>5 DEF Typed, readVars, queueVars
<1>4. CASE StopWriter(w) \/ WriteFails(w) \/ CommitFails(w)
  <2>1. /\ Leave(w) /\ wcancel' \in BOOLEAN /\ werr' \in {"none", "cancel", "real"}
        /\ UNCHANGED <<readVars, queueVars, trackVars, last, stopped, cancelled, result>>
    BY <1>0, <1>4 DEF StopWriter, WriteFails, CommitFails, LeaveWithError, TypeOK, envVars
  <2>2. store' \in [Batches -> Nat]
    <3>1. store \in [Batches -> Nat]
      BY <1>0 DEF TypeOK
    <3>2. store' = store \/ store' = [b \in Batches |-> IF b \in buf[w] THEN store[b] + 1 ELSE store[b]]
      BY <1>4 DEF StopWriter, WriteFails, CommitFails, envVars
    <3> QED BY <3>1, <3>2
  <2>3. buf' \in [Writers -> SUBSET Batches] /\ hand' \in [Writers -> Batches \cup {NoBatch}] /\ wpc' \in [Writers -> WriterPcs]
    BY <1>0, <2>1 DEF Leave, WriterPcs
  <2>4. TypeOK'
    BY <1>0, <2>1, <2>2, <2>3 DEF TypeOK, WriterPcs, readVars, queueVars, trackVars
  <2> QED BY <1>0, <2>1, <2>4 DEF Typed, Leave, readVars, queueVars
<1>5. CASE Commit(w)
  <2>1. store' \in [Batches -> Nat]
    <3>1. store \in [Batches -> Nat]
      BY <1>0 DEF TypeOK
    <3>2. store' = [b \in Batches |-> IF b \in buf[w] THEN store[b] + 1 ELSE store[b]]
      BY <1>5 DEF Commit
    <3> QED BY <3>1, <3>2
  <2>2. wpc[w] = "commit" /\ wpc' = [wpc EXCEPT ![w] = "report"]
        /\ UNCHANGED <<readVars, queueVars, trackVars, hand, buf, last, wcancel, werr, stopped, cancelled, result>>
    BY <1>5 DEF Commit
  <2>3. TypeOK'
    BY <1>0, <2>1, <2>2 DEF TypeOK, WriterPcs, readVars, queueVars, trackVars
  <2> QED BY <1>0, <2>2, <2>3 DEF Typed, readVars, queueVars
<1>6. CASE Report(w)
  <2>1. PICK t \in BoundTables(w) : Release(t, CountsBatches(w))
    BY <1>6 DEF Report
  <2>2. t \in Tables
    BY <1>0, BatchesAre DEF BoundTables
  <2>3. CountsBatches(w) \in Nat
    BY <1>0, BatchesFinite, FS_Subset, FS_CardinalityType DEF CountsBatches
  <2>4. inflight' \in [Tables -> Nat] /\ readDone' = readDone /\ fired' \in [Tables -> BOOLEAN]
    BY <1>0, <2>1, <2>2, <2>3, Released
  <2>5. /\ buf' = [buf EXCEPT ![w] = {}] /\ \E p \in {"out", "top"} : wpc' = [wpc EXCEPT ![w] = p]
        /\ UNCHANGED <<readVars, queueVars, hand, last, wcancel, werr, envVars>>
    BY <1>6 DEF Report
  <2>6. TypeOK'
    BY <1>0, <2>4, <2>5 DEF TypeOK, WriterPcs, readVars, queueVars, envVars
  <2> QED BY <1>0, <2>5, <2>6 DEF Typed, readVars, queueVars
<1> QED BY <1>1, <1>2, <1>3, <1>4, <1>5, <1>6 DEF WriterStep

LEMMA EngineTyped ==
  ASSUME Typed, EngineStep \/ StopTask
  PROVE  Typed'
<1>1. CASE CloseQueue
  <2>1. wpc' \in [Writers -> WriterPcs] /\ \A w \in Writers : wpc'[w] = wpc[w] \/ wpc'[w] = "get"
    BY <1>1 DEF CloseQueue, Awake, Typed, TypeOK, WriterPcs
  <2>2. TypeOK'
    BY <1>1, <2>1 DEF CloseQueue, Typed, TypeOK, WriterPcs, trackVars, envVars
  <2> QED BY <1>1, <2>1, <2>2 DEF CloseQueue, Typed
<1>2. CASE ReadersCancel \/ WritersCancel \/ WatchStop \/ Finish \/ StopTask
  <2>1. TypeOK'
    <3>1. /\ stopped' \in BOOLEAN /\ cancelled' \in BOOLEAN /\ result' \in {"running", "ok", "error", "stopped"}
          /\ UNCHANGED <<readVars, queueVars, trackVars, writeVars, store>>
      BY <1>2 DEF ReadersCancel, WritersCancel, WatchStop, Finish, StopTask, Outcome, Typed, TypeOK
    <3> QED BY <3>1 DEF Typed, TypeOK, readVars, queueVars, trackVars, writeVars
  <2> QED BY <1>2, <2>1 DEF ReadersCancel, WritersCancel, WatchStop, Finish, StopTask, Typed,
       readVars, queueVars, writeVars
<1> QED BY <1>1, <1>2 DEF EngineStep

LEMMA TypedStep == Typed /\ [Next]_vars => Typed'
<1> SUFFICES ASSUME Typed, [Next]_vars PROVE Typed'
  OBVIOUS
<1>1. CASE UNCHANGED vars
  <2>1. TypeOK'
    BY <1>1 DEF vars, readVars, queueVars, trackVars, writeVars, envVars, Typed, TypeOK
  <2> QED BY <1>1, <2>1 DEF vars, readVars, queueVars, trackVars, writeVars, envVars, Typed
<1> QED BY <1>1, ReaderTyped, SubmitTyped, WriterTyped, EngineTyped DEF Next

(* The queue, the counters, the places of readers and writers and what a writer
   holds keep their types, and no chunk yields more batches than it has. *)
THEOREM TypeCorrect == Spec => []TypeOK
<1>1. Typed => TypeOK
  BY DEF Typed
<1> QED BY <1>1, TypedStart, TypedStep, PTL DEF Spec

-----------------------------------------------------------------------------
(* The sum of a function over a finite set is the number of its units. *)
Units(f, S) == UNION {{x} \X (1..f[x]) : x \in S}
Pick(S) == CHOOSE x \in S : TRUE
Sums(g, f, S) ==
  g = [s \in SUBSET S |-> IF s = {} THEN 0 ELSE f[Pick(s)] + g[s \ {Pick(s)}]]

LEMMA UnitsAre ==
  ASSUME NEW S, NEW f \in [S -> Nat], NEW s \in SUBSET S, IsFiniteSet(S)
  PROVE  /\ IsFiniteSet(Units(f, s)) /\ Cardinality(Units(f, s)) \in Nat
         /\ Cardinality(Units(f, {})) = 0
         /\ \A x \in s : Cardinality(Units(f, s)) = f[x] + Cardinality(Units(f, s \ {x}))
<1> DEFINE Of(x) == {x} \X (1..f[x])
<1>1. ASSUME NEW x \in S
      PROVE  IsFiniteSet(Of(x)) /\ Cardinality(Of(x)) = f[x]
  <2>1. f[x] \in Nat /\ 1 \in Int /\ f[x] \in Int
    OBVIOUS
  <2>2. IsFiniteSet(1..f[x]) /\ Cardinality(1..f[x]) = IF 1 > f[x] THEN 0 ELSE f[x] - 1 + 1
    BY <2>1, FS_Interval
  <2>3. Cardinality(1..f[x]) = f[x]
    BY <2>1, <2>2
  <2>4. IsFiniteSet({x}) /\ Cardinality({x}) = 1
    BY FS_Singleton
  <2>5. IsFiniteSet(Of(x)) /\ Cardinality(Of(x)) = 1 * f[x]
    BY <2>2, <2>3, <2>4, FS_Product
  <2> QED BY <2>1, <2>5
<1>2. ASSUME NEW r \in SUBSET S
      PROVE  IsFiniteSet(Units(f, r)) /\ Cardinality(Units(f, r)) \in Nat
  <2> DEFINE all == {Of(x) : x \in r}
             h == [x \in r |-> Of(x)]
  <2>1. IsFiniteSet(r)
    BY FS_Subset
  <2>2. h \in Surjection(r, all)
    BY DEF Surjection
  <2>3. IsFiniteSet(all)
    BY <2>1, <2>2, FS_Surjection
  <2>4. \A u \in all : IsFiniteSet(u)
    BY <1>1
  <2>5. IsFiniteSet(UNION all)
    BY <2>3, <2>4, FS_UNION
  <2> QED BY <2>5, FS_CardinalityType DEF Units
<1>3. Cardinality(Units(f, {})) = 0
  BY FS_EmptySet DEF Units
<1>4. ASSUME NEW x \in s
      PROVE  Cardinality(Units(f, s)) = f[x] + Cardinality(Units(f, s \ {x}))
  <2>1. Units(f, s) = Of(x) \cup Units(f, s \ {x})
    BY DEF Units
  <2>2. Of(x) \cap Units(f, s \ {x}) = {}
    BY DEF Units
  <2>3. IsFiniteSet(Units(f, s \ {x})) /\ Cardinality(Units(f, s \ {x})) \in Nat
    BY <1>2
  <2>4. Cardinality(Units(f, s)) =
          Cardinality(Of(x)) + Cardinality(Units(f, s \ {x})) - Cardinality({})
    <3> DEFINE rest == Units(f, s \ {x})
               own == Of(x)
    <3>1. IsFiniteSet(own) /\ IsFiniteSet(rest) /\ own \cap rest = {} /\ Units(f, s) = own \cup rest
      BY <1>1, <2>1, <2>2, <2>3
    <3> HIDE DEF own, rest
    <3>2. Cardinality(own \cup rest) = Cardinality(own) + Cardinality(rest) - Cardinality(own \cap rest)
      BY <3>1, FS_Union
    <3> QED BY <3>1, <3>2 DEF own, rest
  <2>5. f[x] \in Nat /\ Cardinality({}) = 0 /\ Cardinality(Of(x)) = f[x]
    BY <1>1, FS_EmptySet
  <2> QED BY <2>3, <2>4, <2>5
<1> QED BY <1>2, <1>3, <1>4

LEMMA SumsAgree ==
  ASSUME NEW S, NEW f, NEW g, NEW h, Sums(g, f, S), Sums(h, f, S), IsFiniteSet(S)
  PROVE  g[S] = h[S]
<1> DEFINE bad == {s \in SUBSET S : g[s] # h[s]}
<1> SUFFICES ASSUME bad # {} PROVE FALSE
  OBVIOUS
<1>1. bad \subseteq FiniteSubsetsOf(S) /\ bad \in (SUBSET FiniteSubsetsOf(S)) \ {{}}
  BY FS_Subset DEF FiniteSubsetsOf
<1>2. PICK m \in bad : \A s \in bad : ~ (<<s, m>> \in StrictSubsetOrdering(S))
  BY <1>1, FS_StrictSubsetOrderingWellFounded, WFMin
<1>3. m \in SUBSET S /\ g[m] # h[m]
  OBVIOUS
<1>4. \A s \in SUBSET S : /\ g[s] = IF s = {} THEN 0 ELSE f[Pick(s)] + g[s \ {Pick(s)}]
                          /\ h[s] = IF s = {} THEN 0 ELSE f[Pick(s)] + h[s \ {Pick(s)}]
  BY DEF Sums
<1>5. m # {}
  BY <1>3, <1>4
<1>6. Pick(m) \in m
  BY <1>5 DEF Pick
<1>7. m \ {Pick(m)} \in SUBSET S /\ <<m \ {Pick(m)}, m>> \in StrictSubsetOrdering(S)
  BY <1>3, <1>6 DEF StrictSubsetOrdering
<1>8. g[m \ {Pick(m)}] = h[m \ {Pick(m)}]
  BY <1>2, <1>7
<1> QED BY <1>3, <1>4, <1>5, <1>8

LEMMA UnitsSum ==
  ASSUME NEW S, NEW f \in [S -> Nat], IsFiniteSet(S)
  PROVE  Sums([s \in SUBSET S |-> Cardinality(Units(f, s))], f, S)
<1> DEFINE g == [s \in SUBSET S |-> Cardinality(Units(f, s))]
<1>1. ASSUME NEW s \in SUBSET S
      PROVE  g[s] = IF s = {} THEN 0 ELSE f[Pick(s)] + g[s \ {Pick(s)}]
  <2>1. s # {} => Pick(s) \in s
    BY DEF Pick
  <2>2. s \ {Pick(s)} \in SUBSET S
    OBVIOUS
  <2> QED BY <2>1, <2>2, UnitsAre
<1>2. g = [s \in SUBSET S |-> IF s = {} THEN 0 ELSE f[Pick(s)] + g[s \ {Pick(s)}]]
  BY <1>1
<1> QED BY <1>2 DEF Sums

-----------------------------------------------------------------------------
(* CurBytes: the bytes of every sub-queue. *)
BytesIn == [t \in Tables |-> BytesOf(t)]
IsSum(g) == g = [s \in SUBSET Tables |->
  IF s = {} THEN 0 ELSE LET x == CHOOSE x \in s : TRUE IN BytesOf(x) + g[s \ {x}]]
TheSum == CHOOSE g : IsSum(g)

LEMMA Times ==
  ASSUME NEW n \in Nat, NEW k \in Nat, k >= 1
  PROVE  /\ n * k \in Nat /\ 0 * k = 0 /\ 1 * k = k
         /\ (n + 1) * k = n * k + k
         /\ n >= 1 => n * k >= 1 /\ (n - 1) * k = n * k - k /\ n * k >= k
  OBVIOUS

LEMMA BytesInType == TypeOK => BytesIn \in [Tables -> Nat]
<1> SUFFICES ASSUME TypeOK, NEW t \in Tables PROVE BytesOf(t) \in Nat
  BY DEF BytesIn
<1>1. Len(items[t]) \in Nat /\ Weight[t] \in Nat /\ Weight[t] >= 1
  BY Bounds DEF TypeOK
<1> QED BY <1>1, Times DEF BytesOf

LEMMA CurBytesIs == TypeOK => CurBytes = Cardinality(Units(BytesIn, Tables))
<1> SUFFICES ASSUME TypeOK PROVE CurBytes = Cardinality(Units(BytesIn, Tables))
  OBVIOUS
<1>1. CurBytes = TheSum[Tables]
  BY DEF CurBytes, MapThenSumSet, MapThenFoldSet, TheSum, IsSum
<1>2. ASSUME NEW g PROVE Sums(g, BytesIn, Tables) <=> IsSum(g)
  <2>1. \A s \in SUBSET Tables : s # {} => Pick(s) \in s /\ BytesIn[Pick(s)] = BytesOf(Pick(s))
    BY DEF Pick, BytesIn
  <2>2. [s \in SUBSET Tables |-> IF s = {} THEN 0 ELSE BytesIn[Pick(s)] + g[s \ {Pick(s)}]] =
         [s \in SUBSET Tables |-> IF s = {} THEN 0 ELSE BytesOf(Pick(s)) + g[s \ {Pick(s)}]]
    BY <2>1
  <2> QED BY <2>2 DEF Sums, IsSum, Pick
<1> DEFINE u == [s \in SUBSET Tables |-> Cardinality(Units(BytesIn, s))]
<1>3. Sums(u, BytesIn, Tables)
  BY BytesInType, Bounds, UnitsSum
<1>4. IsSum(u)
  BY <1>2, <1>3
<1>5. IsSum(TheSum)
  <2> HIDE DEF u
  <2> QED BY <1>4 DEF TheSum
<1>6. Sums(TheSum, BytesIn, Tables)
  BY <1>2, <1>5
<1>7. TheSum[Tables] = u[Tables]
  <2> HIDE DEF u
  <2> QED BY <1>3, <1>6, Bounds, SumsAgree
<1>8. u[Tables] = Cardinality(Units(BytesIn, Tables))
  OBVIOUS
<1> QED BY <1>1, <1>7, <1>8

(* The bytes of one table, and those of the others. *)
Others(t) == Cardinality(Units(BytesIn, Tables \ {t}))

LEMMA CurBytesSplit ==
  TypeOK => \A t \in Tables : /\ CurBytes = BytesOf(t) + Others(t)
                              /\ BytesOf(t) \in Nat /\ Others(t) \in Nat
                              /\ \A u \in Tables \ {t} : Others(t) >= BytesOf(u)
<1> SUFFICES ASSUME TypeOK, NEW t \in Tables
             PROVE  /\ CurBytes = BytesOf(t) + Others(t)
                    /\ BytesOf(t) \in Nat /\ Others(t) \in Nat
                    /\ \A u \in Tables \ {t} : Others(t) >= BytesOf(u)
  OBVIOUS
<1>1. BytesIn \in [Tables -> Nat] /\ IsFiniteSet(Tables)
  BY BytesInType, Bounds
<1>2. \A u \in Tables : BytesIn[u] = BytesOf(u) /\ BytesOf(u) \in Nat
  BY <1>1 DEF BytesIn
<1>3. Cardinality(Units(BytesIn, Tables)) = BytesIn[t] + Others(t)
  BY <1>1, UnitsAre DEF Others
<1>4. Others(t) \in Nat
  BY <1>1, UnitsAre DEF Others
<1>5. ASSUME NEW u \in Tables \ {t} PROVE Others(t) >= BytesOf(u)
  <2> DEFINE s == Tables \ {t}
  <2>1. s \in SUBSET Tables /\ s \ {u} \in SUBSET Tables /\ u \in s
    OBVIOUS
  <2> HIDE DEF s
  <2>2. Cardinality(Units(BytesIn, s)) = BytesIn[u] + Cardinality(Units(BytesIn, s \ {u}))
    BY <1>1, <2>1, UnitsAre
  <2>3. Cardinality(Units(BytesIn, s \ {u})) \in Nat
    BY <1>1, <2>1, UnitsAre
  <2>4. Others(t) = Cardinality(Units(BytesIn, s))
    BY DEF Others, s
  <2> QED BY <1>2, <2>2, <2>3, <2>4
<1> QED BY <1>2, <1>3, <1>4, <1>5, CurBytesIs

LEMMA CurBytesIsPrimed == (TypeOK => CurBytes = Cardinality(Units(BytesIn, Tables)))'
  BY CurBytesIs, PTL

LEMMA CurBytesSplitPrimed ==
  (TypeOK => \A t \in Tables : /\ CurBytes = BytesOf(t) + Others(t)
                               /\ BytesOf(t) \in Nat /\ Others(t) \in Nat
                               /\ \A u \in Tables \ {t} : Others(t) >= BytesOf(u))'
  BY CurBytesSplit, PTL

(* A step on the sub-queue of one table leaves the bytes of the others. *)
LEMMA OthersKept ==
  ASSUME TypeOK, NEW t \in Tables, NEW q, items' = [items EXCEPT ![t] = q]
  PROVE  Others(t)' = Others(t)
<1> DEFINE s == Tables \ {t}
<1>1. \A u \in s : BytesIn'[u] = BytesIn[u]
  BY DEF BytesIn, BytesOf, TypeOK
<1>2. Units(BytesIn', s) = Units(BytesIn, s)
  BY <1>1 DEF Units
<1> QED BY <1>2 DEF Others

LEMMA BufferStill ==
  ASSUME TypeOK, TypeOK', BufferBound, UNCHANGED items
  PROVE  BufferBound'
<1>1. BytesIn' = BytesIn
  BY DEF BytesIn, BytesOf
<1>2. CurBytes' = Cardinality(Units(BytesIn', Tables))
  BY CurBytesIsPrimed
<1>3. CurBytes' = CurBytes
  BY <1>1, <1>2, CurBytesIs
<1> QED BY <1>3 DEF BufferBound

LEMMA BufferPut ==
  ASSUME TypeOK, TypeOK', BufferBound, NEW c \in Chunks, PutOK(c)
  PROVE  BufferBound'
<1> DEFINE t == TableOf[c]
<1>1. t \in Tables /\ items[t] \in Seq(Batches) /\ items \in [Tables -> Seq(Batches)]
      /\ Weight[t] \in Nat /\ Weight[t] >= 1 /\ GlobalMax \in Nat
  BY Bounds DEF TypeOK
<1>2. items' = [items EXCEPT ![t] = Append(items[t], <<c, pos[c]>>)]
  BY DEF PutOK
<1>3. Others(t)' = Others(t)
  BY <1>1, <1>2, OthersKept
<1>5. CurBytes' = BytesOf(t)' + Others(t)' /\ CurBytes = BytesOf(t) + Others(t)
      /\ BytesOf(t) \in Nat /\ Others(t) \in Nat
  BY <1>1, CurBytesSplit, CurBytesSplitPrimed
<1>6. Len(items'[t]) = Len(items[t]) + 1 /\ Len(items[t]) \in Nat
  BY <1>1, <1>2
<1>7. BytesOf(t) = Len(items[t]) * Weight[t] /\ BytesOf(t)' = Len(items'[t]) * Weight[t]
  BY DEF BytesOf
<1>8. BytesOf(t)' = BytesOf(t) + Weight[t]
  <2>1. (Len(items[t]) + 1) * Weight[t] = Len(items[t]) * Weight[t] + Weight[t]
    BY <1>1, <1>6, Times
  <2> QED BY <1>6, <1>7, <2>1
<1>9. CurBytes' = CurBytes + Weight[t]
  BY <1>1, <1>3, <1>5, <1>8
<1>10. CASE CurBytes + Weight[t] <= GlobalMax
  BY <1>9, <1>10 DEF BufferBound
<1>11. CASE CurBytes = 0
  <2>1. BytesOf(t) = 0
    BY <1>5, <1>11
  <2>2. Len(items[t]) = 0
    BY <1>1, <1>6, <1>7, <2>1, Times
  <2> QED BY <1>1, <1>6, <1>9, <1>11, <2>2 DEF BufferBound
<1> QED BY <1>10, <1>11 DEF PutOK, GlobalOK

LEMMA BufferGet ==
  ASSUME TypeOK, TypeOK', BufferBound, NEW w \in Writers, NEW t \in Tables, GetBatch(w, t)
  PROVE  BufferBound'
<1>1. items[t] \in Seq(Batches) /\ items \in [Tables -> Seq(Batches)] /\ items[t] # <<>>
      /\ Weight[t] \in Nat /\ Weight[t] >= 1 /\ GlobalMax \in Nat
  BY Bounds DEF TypeOK, GetBatch, Available
<1>2. items' = [items EXCEPT ![t] = Tail(items[t])]
  BY DEF GetBatch
<1>3. Others(t)' = Others(t)
  BY <1>1, <1>2, OthersKept
<1>5. CurBytes' = BytesOf(t)' + Others(t)' /\ CurBytes = BytesOf(t) + Others(t)
      /\ BytesOf(t) \in Nat /\ Others(t) \in Nat
  BY CurBytesSplit, CurBytesSplitPrimed
<1>6. Len(items'[t]) = Len(items[t]) - 1 /\ Len(items[t]) \in Nat /\ Len(items[t]) >= 1
  BY <1>1, <1>2
<1>7. BytesOf(t) = Len(items[t]) * Weight[t] /\ BytesOf(t)' = Len(items'[t]) * Weight[t]
  BY DEF BytesOf
<1>8. BytesOf(t)' = BytesOf(t) - Weight[t] /\ BytesOf(t) >= 1
  BY <1>1, <1>6, <1>7, Times
<1>9. CurBytes' = CurBytes - Weight[t] /\ CurBytes \in Nat
  BY <1>1, <1>3, <1>5, <1>8
<1>10. CASE CurBytes <= GlobalMax
  BY <1>1, <1>9, <1>10 DEF BufferBound
<1>11. ASSUME NEW u \in Tables, Len(items[u]) = 1, CurBytes = Weight[u]
       PROVE  BufferBound'
  <2>1. u = t
    <3> SUFFICES ASSUME u # t PROVE FALSE
      OBVIOUS
    <3>1. CurBytes = BytesOf(u) + Others(u) /\ Others(u) >= BytesOf(t)
      BY CurBytesSplit
    <3>2. Weight[u] \in Nat /\ Weight[u] >= 1 /\ 1 * Weight[u] = Weight[u]
      BY Bounds, Times
    <3>3. BytesOf(u) = Weight[u]
      BY <1>11, <3>2 DEF BytesOf
    <3>4. Others(u) \in Nat
      BY CurBytesSplit
    <3> QED BY <1>5, <1>8, <1>11, <3>1, <3>2, <3>3, <3>4
  <2> QED BY <1>1, <1>9, <1>11, <2>1 DEF BufferBound
<1> QED BY <1>10, <1>11 DEF BufferBound

LEMMA BufferStart == Init => BufferBound
<1> SUFFICES ASSUME Init PROVE BufferBound
  OBVIOUS
<1>1. TypeOK
  BY TypedStart DEF Typed
<1>2. BytesIn = [t \in Tables |-> 0]
  <2>1. \A t \in Tables : BytesOf(t) = 0
    <3> SUFFICES ASSUME NEW t \in Tables PROVE BytesOf(t) = 0
      OBVIOUS
    <3>1. Len(items[t]) = 0 /\ Weight[t] \in Nat
      BY Bounds DEF Init
    <3> QED BY <3>1 DEF BytesOf
  <2> QED BY <2>1 DEF BytesIn
<1>3. Units(BytesIn, Tables) = {}
  BY <1>2 DEF Units
<1>4. CurBytes = 0
  BY <1>1, <1>3, CurBytesIs, FS_EmptySet
<1> QED BY <1>4, Bounds DEF BufferBound

LEMMA BufferStep == Typed /\ Typed' /\ BufferBound /\ [Next]_vars => BufferBound'
<1> SUFFICES ASSUME Typed, Typed', BufferBound, [Next]_vars PROVE BufferBound'
  OBVIOUS
<1>1. TypeOK /\ TypeOK'
  BY DEF Typed
<1>2. UNCHANGED items \/ (\E c \in Chunks : PutOK(c)) \/ \E w \in Writers : \E t \in Tables : GetBatch(w, t)
  <2>1. ASSUME NEW c \in Chunks, ReaderStep(c) PROVE UNCHANGED items \/ PutOK(c)
    BY <2>1 DEF ReaderStep, ReadBatch, ReadLast, ReadStopped, ReadCancelled, ReadFails, PutBlocks, PutCancelled,
       MarkDone, SetTableErr, queueVars
  <2>2. ASSUME NEW t \in Tables, SubmitStep(t) PROVE UNCHANGED items
    BY <2>2 DEF SubmitStep, SubmitDone, SubmitFails, queueVars
  <2>3. ASSUME NEW w \in Writers, WriterStep(w) PROVE UNCHANGED items \/ \E t \in Tables : GetBatch(w, t)
    BY <2>3 DEF WriterStep, StopWriter, SwitchTable, EnterGet, GetWaits, TimerFires, GetTimesOut, QueueDrained,
       WriteBatch, WriteFails, Commit, CommitFails, Report, queueVars
  <2>4. ASSUME EngineStep \/ StopTask PROVE UNCHANGED items
    BY <2>4 DEF EngineStep, CloseQueue, ReadersCancel, WritersCancel, WatchStop, Finish, StopTask, queueVars
  <2>5. UNCHANGED vars => UNCHANGED items
    BY DEF vars, queueVars
  <2> QED BY <2>1, <2>2, <2>3, <2>4, <2>5 DEF Next
<1> QED BY <1>1, <1>2, BufferStill, BufferPut, BufferGet

(* The bytes counted in the queue never exceed BufferBytes, but for a single
   batch that is larger than it: Put checks the sum it would reach, and lets
   any batch into an empty queue. *)
THEOREM BufferIsBounded == Spec => []BufferBound
<1>1. Typed /\ BufferBound /\ [Next]_vars => Typed' /\ BufferBound'
  BY TypedStep, BufferStep
<1> QED BY <1>1, TypedStart, BufferStart, PTL DEF Spec

-----------------------------------------------------------------------------
(* The contexts, the errors and the end of the run. *)
LEMMA EndsStart == Init => Ends
  BY DEF Init, Ends

LEMMA EndsStep == Typed /\ Ends /\ [Next]_vars => Ends'
<1> SUFFICES ASSUME Typed, Ends, [Next]_vars PROVE Ends'
  OBVIOUS
<1>0. /\ rpc \in [Chunks -> ReaderPcs] /\ sub \in [Tables -> {"wait", "done", "error"}]
      /\ tableErr \in [Tables -> {"none", "cancel", "real"}] /\ wpc \in [Writers -> WriterPcs]
      /\ rcancel \in BOOLEAN /\ wcancel \in BOOLEAN /\ stopped \in BOOLEAN /\ cancelled \in BOOLEAN /\ closed \in BOOLEAN
  BY DEF Typed, TypeOK, ReaderPcs, WriterPcs
<1>1. CASE UNCHANGED vars
  BY <1>1 DEF vars, readVars, queueVars, trackVars, writeVars, envVars, Ends
<1>2. ASSUME NEW c \in Chunks, ReaderStep(c) PROVE Ends'
  <2>1. ~closed
    BY <1>0, <1>2 DEF Ends, ReaderStep, ReadBatch, ReadLast, ReadStopped, ReadCancelled, ReadFails, PutOK, PutBlocks,
       PutCancelled, MarkDone, SetTableErr
  <2>2. closed' = closed /\ rerr' = rerr /\ wcancel' = wcancel /\ werr' = werr /\ sub' = sub /\ UNCHANGED envVars
    BY <1>2 DEF ReaderStep, ReadBatch, ReadLast, ReadStopped, ReadCancelled, ReadFails, PutOK, PutBlocks,
       PutCancelled, MarkDone, SetTableErr, queueVars, writeVars
  <2>3. rcancel' => stopped \/ \E t \in Tables : tableErr'[t] # "none" \/ sub'[t] = "error"
    <3>1. CASE SetTableErr(c)
      <4>1. TableOf[c] \in Tables /\ tableErr'[TableOf[c]] # "none"
        BY <1>0, <3>1, Bounds DEF SetTableErr
      <4> QED BY <4>1
    <3>2. CASE ReadStopped(c)
      BY <3>2 DEF ReadStopped
    <3>3. CASE UNCHANGED <<rcancel, tableErr, sub>>
      BY <3>3 DEF Ends
    <3> QED BY <1>2, <3>1, <3>2, <3>3 DEF ReaderStep, ReadBatch, ReadLast, ReadCancelled, ReadFails, PutOK, PutBlocks,
       PutCancelled, MarkDone
  <2>4. stopped' = stopped
    BY <2>2 DEF envVars
  <2> QED BY <2>1, <2>2, <2>3, <2>4 DEF Ends, envVars
<1>3. ASSUME NEW t \in Tables, SubmitStep(t) PROVE Ends'
  <2>1. ~closed
    BY <1>3 DEF Ends, SubmitStep, SubmitDone, SubmitFails
  <2>2. closed' = closed /\ rerr' = rerr /\ wcancel' = wcancel /\ werr' = werr /\ tableErr' = tableErr /\ UNCHANGED envVars
    BY <1>3 DEF SubmitStep, SubmitDone, SubmitFails, queueVars, writeVars
  <2>3. rcancel' => stopped \/ \E u \in Tables : tableErr'[u] # "none" \/ sub'[u] = "error"
    <3>1. CASE SubmitFails(t)
      BY <1>0, <3>1 DEF SubmitFails
    <3>2. CASE SubmitDone(t)
      BY <1>0, <3>2 DEF SubmitDone, Ends
    <3> QED BY <1>3, <3>1, <3>2 DEF SubmitStep
  <2> QED BY <2>1, <2>2, <2>3 DEF Ends, envVars
<1>4. ASSUME NEW w \in Writers, WriterStep(w) PROVE Ends'
  <2>1. wpc[w] # "out"
    BY <1>0, <1>4 DEF WriterStep, StopWriter, SwitchTable, EnterGet, GetBatch, GetWaits, TimerFires, GetTimesOut, QueueDrained,
       WriteBatch, WriteFails, Commit, CommitFails, Report
  <2>2. result # "ok"
    BY <2>1 DEF Ends
  <2>3. result' = result /\ stopped' = stopped
    BY <1>4 DEF WriterStep, StopWriter, SwitchTable, EnterGet, GetBatch, GetWaits, TimerFires, GetTimesOut, QueueDrained,
       WriteBatch, WriteFails, Commit, CommitFails, Report, envVars
  <2>4. /\ UNCHANGED <<sub, tableErr, rcancel, rerr, closed>>
        /\ \A c \in Chunks : rpc[c] = "idle" => rpc'[c] = "idle"
    <3>1. CASE \E t \in Tables : GetBatch(w, t)
      BY <1>0, <3>1 DEF GetBatch, WakeReaders
    <3>2. CASE UNCHANGED <<readVars, queueVars>>
      BY <3>2 DEF readVars, queueVars
    <3> QED BY <1>4, <3>1, <3>2 DEF WriterStep, StopWriter, SwitchTable, EnterGet, GetWaits, TimerFires, GetTimesOut, QueueDrained,
       WriteBatch, WriteFails, Commit, CommitFails, Report
  <2>5. wcancel' => werr' # "none"
    BY <1>4 DEF WriterStep, StopWriter, SwitchTable, EnterGet, GetBatch, GetWaits, TimerFires, GetTimesOut, QueueDrained,
       WriteBatch, WriteFails, Commit, CommitFails, Report, LeaveWithError, Ends
  <2> QED BY <2>2, <2>3, <2>4, <2>5 DEF Ends
<1>5. CASE CloseQueue
  <2>1. result # "ok"
    BY <1>5 DEF CloseQueue, Ends
  <2>2. /\ \A t \in Tables : sub[t] # "wait"
        /\ \A c \in Chunks : rpc[c] = "idle"
        /\ closed' /\ UNCHANGED <<rpc, sub, tableErr, rcancel, wcancel, werr, stopped, cancelled, result>>
        /\ rerr' = IF \E t \in Tables : tableErr[t] = "real" THEN "real"
                   ELSE IF \E t \in Tables : sub[t] = "error" \/ tableErr[t] # "none" THEN "cancel"
                   ELSE "none"
    BY <1>5 DEF CloseQueue, envVars
  <2>3. rerr' = "none" => \A t \in Tables : tableErr[t] = "none" /\ sub[t] # "error"
    BY <2>2
  <2> QED BY <2>1, <2>2, <2>3 DEF Ends
<1>6. CASE ReadersCancel \/ WritersCancel \/ WatchStop
  BY <1>6 DEF ReadersCancel, WritersCancel, WatchStop, readVars, queueVars, trackVars, writeVars, Ends
<1>7. CASE Finish
  <2>1. /\ result = "running" /\ closed /\ (rerr # "none" => cancelled) /\ \A w \in Writers : wpc[w] = "out"
        /\ werr # "none" => cancelled
        /\ UNCHANGED <<rpc, sub, tableErr, rcancel, rerr, closed, wpc, wcancel, werr, stopped, cancelled>>
        /\ result' = "ok" => ~stopped /\ werr = "none" /\ rerr = "none" /\ ~cancelled
    BY <1>7 DEF Finish, Outcome, readVars, queueVars, writeVars
  <2> QED BY <2>1 DEF Ends
<1>8. CASE StopTask
  BY <1>8 DEF StopTask, readVars, queueVars, writeVars, Ends
<1> QED BY <1>1, <1>2, <1>3, <1>4, <1>5, <1>6, <1>7, <1>8 DEF Next, EngineStep

(* A run that ended well was not disturbed. *)
LEMMA OkUndisturbed ==
  Typed /\ Ends /\ result = "ok" =>
    /\ Undisturbed /\ closed
    /\ \A c \in Chunks : rpc[c] = "idle"
    /\ \A t \in Tables : sub[t] = "done"
    /\ \A w \in Writers : wpc[w] = "out" /\ buf[w] = {}
<1> SUFFICES ASSUME Typed, Ends, result = "ok"
             PROVE  /\ Undisturbed /\ closed
                    /\ \A c \in Chunks : rpc[c] = "idle"
                    /\ \A t \in Tables : sub[t] = "done"
                    /\ \A w \in Writers : wpc[w] = "out" /\ buf[w] = {}
  OBVIOUS
<1>1. /\ closed /\ ~stopped /\ ~cancelled /\ werr = "none" /\ rerr = "none"
      /\ \A w \in Writers : wpc[w] = "out"
  BY DEF Ends
<1>2. /\ \A c \in Chunks : rpc[c] = "idle"
      /\ \A t \in Tables : sub[t] # "wait" /\ tableErr[t] = "none" /\ sub[t] # "error"
  BY <1>1 DEF Ends
<1>3. \A t \in Tables : sub[t] = "done"
  BY <1>2 DEF Typed, TypeOK
<1>4. ~wcancel /\ ~rcancel
  BY <1>1, <1>2 DEF Ends
<1>5. \A w \in Writers : buf[w] = {}
  BY <1>1 DEF Typed
<1> QED BY <1>1, <1>2, <1>3, <1>4, <1>5 DEF Undisturbed

-----------------------------------------------------------------------------
(* Nothing that was disturbed recovers, and these are the steps that leave it
   undisturbed. *)
WellReader(c) ==
  \/ ReadBatch(c) \/ ReadLast(c) \/ PutOK(c) \/ PutBlocks(c)
  \/ MarkDone(c) /\ rpc[c] = "ok"
WellWriter(w) ==
  \/ SwitchTable(w) \/ EnterGet(w) \/ \E t \in Tables : GetBatch(w, t)
  \/ GetWaits(w) \/ TimerFires(w) \/ GetTimesOut(w) \/ QueueDrained(w)
  \/ WriteBatch(w) \/ Commit(w) \/ Report(w)
WellStep ==
  \/ \E c \in Chunks : WellReader(c)
  \/ \E t \in Tables : SubmitDone(t)
  \/ \E w \in Writers : WellWriter(w)
  \/ CloseQueue \/ Finish \/ UNCHANGED vars

LEMMA OnlyWell ==
  ASSUME Typed, Ends, [Next]_vars, Undisturbed'
  PROVE  Undisturbed /\ WellStep
<1>0. /\ rpc \in [Chunks -> ReaderPcs] /\ tableErr \in [Tables -> {"none", "cancel", "real"}]
      /\ wpc \in [Writers -> WriterPcs]
      /\ rcancel \in BOOLEAN /\ wcancel \in BOOLEAN /\ stopped \in BOOLEAN /\ cancelled \in BOOLEAN
  BY DEF Typed, TypeOK, ReaderPcs, WriterPcs
<1>1. CASE UNCHANGED vars
  BY <1>1 DEF vars, readVars, writeVars, envVars, Undisturbed, WellStep
<1>2. ASSUME NEW c \in Chunks, ReaderStep(c) PROVE Undisturbed /\ WellReader(c)
  <2>1. /\ ~SetTableErr(c)
    <3> SUFFICES ASSUME SetTableErr(c) PROVE FALSE
      OBVIOUS
    <3>1. TableOf[c] \in Tables
      BY PipelineAssumption DEF PipelineAssumption
    <3>2. tableErr'[TableOf[c]] # "none"
      BY <1>0, <3>1 DEF SetTableErr
    <3> QED
      BY <3>1, <3>2 DEF Undisturbed
  <2>2. ~ReadStopped(c)
    BY DEF ReadStopped, Undisturbed
  <2>3. rpc'[c] \notin {"cancel", "real", "errCancel", "errReal"}
    BY DEF Undisturbed
  <2>4. ~ReadCancelled(c) /\ ~ReadFails(c) /\ ~PutCancelled(c)
    BY <1>0, <2>3 DEF ReadCancelled, ReadFails, PutCancelled
  <2>5. MarkDone(c) => rpc[c] = "ok"
    BY <1>0, <2>3 DEF MarkDone
  <2>6. WellReader(c)
    BY <1>2, <2>1, <2>2, <2>4, <2>5 DEF ReaderStep, WellReader
  <2>7. /\ UNCHANGED <<stopped, cancelled, rcancel, wcancel, werr, rerr, tableErr>>
        /\ rpc[c] \notin {"cancel", "real", "errCancel", "errReal"}
        /\ \A d \in Chunks : d # c => rpc'[d] = rpc[d]
    BY <1>0, <2>6 DEF WellReader, ReadBatch, ReadLast, PutOK, PutBlocks, MarkDone, writeVars, envVars
  <2> QED BY <2>6, <2>7 DEF Undisturbed
<1>3. ASSUME NEW t \in Tables, SubmitStep(t) PROVE Undisturbed /\ SubmitDone(t)
  <2>1. ~SubmitFails(t)
    BY DEF SubmitFails, Undisturbed
  <2> QED BY <1>3, <2>1 DEF SubmitStep, SubmitDone, writeVars, envVars, Undisturbed
<1>4. ASSUME NEW w \in Writers, WriterStep(w) PROVE Undisturbed /\ WellWriter(w)
  <2>1. ~WriteFails(w) /\ ~CommitFails(w)
    BY DEF WriteFails, CommitFails, LeaveWithError, Undisturbed
  <2>2. ~StopWriter(w)
    BY DEF StopWriter, WriteStop, Undisturbed, envVars
  <2>3. WellWriter(w)
    BY <1>4, <2>1, <2>2 DEF WriterStep, WellWriter
  <2>4. UNCHANGED <<stopped, cancelled, rcancel, wcancel, werr, rerr, tableErr>>
    BY <2>3 DEF WellWriter, SwitchTable, EnterGet, GetBatch, GetWaits, TimerFires, GetTimesOut, QueueDrained,
       WriteBatch, Commit, Report, readVars, envVars
  <2>5. \A c \in Chunks : rpc'[c] \in {"cancel", "real", "errCancel", "errReal"} <=> rpc[c] \in {"cancel", "real", "errCancel", "errReal"}
    <3>1. CASE \E t \in Tables : GetBatch(w, t)
      BY <1>0, <3>1 DEF GetBatch, WakeReaders
    <3>2. CASE UNCHANGED rpc
      BY <3>2
    <3> QED BY <2>3, <3>1, <3>2 DEF WellWriter, SwitchTable, EnterGet, GetWaits, TimerFires, GetTimesOut, QueueDrained,
       WriteBatch, Commit, Report, readVars
  <2> QED BY <2>3, <2>4, <2>5 DEF Undisturbed
<1>5. ASSUME EngineStep \/ StopTask PROVE Undisturbed /\ (CloseQueue \/ Finish)
  <2>1. ~ReadersCancel /\ ~WritersCancel /\ ~WatchStop /\ ~StopTask
    BY DEF ReadersCancel, WritersCancel, WatchStop, StopTask, Undisturbed
  <2>2. CASE CloseQueue
    <3>1. UNCHANGED <<rpc, tableErr, rcancel, wcancel, werr, stopped, cancelled>>
      BY <2>2 DEF CloseQueue, envVars
    <3>2. rerr = "none"
      BY <2>2 DEF CloseQueue, Ends
    <3> QED BY <2>2, <3>1, <3>2 DEF Undisturbed
  <2>3. CASE Finish
    BY <2>3 DEF Finish, readVars, writeVars, Undisturbed
  <2> QED BY <1>5, <2>1, <2>2, <2>3 DEF EngineStep
<1> QED BY <1>1, <1>2, <1>3, <1>4, <1>5 DEF Next, WellStep

-----------------------------------------------------------------------------
(* Where the batches go.  A step that moves no batch: *)
Reporting(w) == wpc[w] = "report"
Unmoved ==
  /\ pos' = pos /\ items' = items /\ store' = store
  /\ \A c \in Chunks : rpc'[c] \in Putting <=> rpc[c] \in Putting
  /\ \A w \in Writers : /\ Held(w)' = Held(w)
                        /\ Reporting(w)' <=> Reporting(w)
                        /\ wpc'[w] = "got" => wpc[w] = "got" /\ hand'[w] = hand[w] /\ buf'[w] = buf[w]

LEMMA OnTheWayIs ==
  \A b : OnTheWay(b) <=> InPut(b) \/ InQueue(b) \/ \E w \in Writers : b \in Held(w)
  BY DEF OnTheWay

LEMMA UnmovedPlaces ==
  ASSUME Unmoved, NEW b \in Batches
  PROVE  /\ WasRead(b)' <=> WasRead(b)
         /\ InPut(b)' <=> InPut(b)
         /\ InQueue(b)' <=> InQueue(b)
         /\ OnTheWay(b)' <=> OnTheWay(b)
<1>1. WasRead(b)' <=> WasRead(b)
  BY DEF Unmoved, WasRead
<1>2. InPut(b)' <=> InPut(b)
  BY BatchesAre DEF Unmoved, InPut
<1>3. InQueue(b)' <=> InQueue(b)
  BY DEF Unmoved, InQueue, Tab
<1> QED BY <1>1, <1>2, <1>3 DEF OnTheWay, Unmoved

LEMMA UnmovedStill ==
  ASSUME Placed, Unmoved
  PROVE  /\ Placed' /\ \A t \in Tables : Flight(t)' = Flight(t)
         /\ Delivered => Delivered'
<1>1. \A b \in Batches : Here(b)'
  <2> SUFFICES ASSUME NEW b \in Batches PROVE Here(b)'
    OBVIOUS
  <2>1. Here(b)
    BY DEF Placed
  <2>2. store'[b] = store[b] /\ \A w \in Writers : Held(w)' = Held(w) /\ (wpc'[w] = "report" <=> wpc[w] = "report")
    BY DEF Unmoved, Reporting
  <2> QED BY <2>1, <2>2, UnmovedPlaces DEF Here
<1>2. \A w \in Writers : wpc'[w] = "got" => hand'[w] \notin buf'[w]
  BY DEF Placed, Unmoved
<1>3. \A t \in Tables : Flight(t)' = Flight(t)
  <2> SUFFICES ASSUME NEW t \in Tables PROVE Flight(t)' = Flight(t)
    OBVIOUS
  <2>1. \A b \in Batches : OnTheWay(b)' <=> OnTheWay(b)
    BY UnmovedPlaces
  <2> QED BY <2>1 DEF Flight, Tab
<1>4. Delivered => Delivered'
  BY UnmovedPlaces DEF Delivered, Unmoved
<1> QED BY <1>1, <1>2, <1>3, <1>4 DEF Placed, Unmoved

(* nextBatch returned a batch. *)
LEMMA ReadPlaces ==
  ASSUME Typed, Placed, NEW c \in Chunks, ReadBatch(c)
  PROVE  /\ Placed' /\ (Delivered => Delivered')
         /\ <<c, pos[c] + 1>> \in Batches /\ ~OnTheWay(<<c, pos[c] + 1>>)
         /\ \A b \in Batches : OnTheWay(b)' <=> OnTheWay(b) \/ b = <<c, pos[c] + 1>>
<1> DEFINE x == <<c, pos[c] + 1>>
<1>0. /\ pos \in [Chunks -> Nat] /\ rpc \in [Chunks -> ReaderPcs] /\ pos[c] + 1 \in 1..BatchesOf[c]
      /\ rpc[c] = "read" /\ pos' = [pos EXCEPT ![c] = pos[c] + 1] /\ rpc' = [rpc EXCEPT ![c] = "put"]
      /\ UNCHANGED <<items, wpc, hand, buf, store>>
  BY Bounds DEF ReadBatch, MoreToRead, Typed, TypeOK, ReaderPcs, queueVars, writeVars, envVars
<1>1. x \in Batches /\ x[1] = c /\ x[2] = pos[c] + 1
  BY <1>0, BatchesAre
<1>2. ASSUME NEW b \in Batches
      PROVE  /\ WasRead(b)' <=> WasRead(b) \/ b = x
             /\ InPut(b)' <=> InPut(b) \/ b = x
             /\ InQueue(b)' <=> InQueue(b)
             /\ ~WasRead(x)
  <2>0. b[1] \in Chunks /\ b[2] \in Nat /\ b = <<b[1], b[2]>> /\ pos[b[1]] \in Nat
    BY <1>0, Bounds, BatchesAre
  <2>1. b = x <=> b[1] = c /\ b[2] = pos[c] + 1
    BY <1>1, <2>0
  <2>2. WasRead(b)' <=> WasRead(b) \/ b = x
    BY <1>0, <2>0, <2>1 DEF WasRead
  <2>3. InPut(b)' <=> InPut(b) \/ b = x
    BY <1>0, <2>0, <2>1 DEF InPut, Putting
  <2>4. InQueue(b)' <=> InQueue(b)
    BY <1>0 DEF InQueue, Tab
  <2>5. ~WasRead(x)
    BY <1>0, <1>1 DEF WasRead
  <2> QED BY <2>2, <2>3, <2>4, <2>5
<1>3. \A w \in Writers : Held(w)' = Held(w) /\ wpc'[w] = wpc[w]
  BY <1>0 DEF Held
<1>4. /\ ~WasRead(x) /\ ~InPut(x) /\ ~InQueue(x) /\ store[x] = 0 /\ \A w \in Writers : x \notin Held(w)
  <2>1. Here(x) /\ ~WasRead(x)
    BY <1>1, <1>2 DEF Placed
  <2>2. ~InPut(x)
    BY <1>0, <1>1 DEF InPut, Putting
  <2> QED BY <2>1, <2>2 DEF Here
<1> HIDE DEF x
<1>5. \A b \in Batches : Here(b)'
  <2> SUFFICES ASSUME NEW b \in Batches PROVE Here(b)'
    OBVIOUS
  <2>1. Here(b) /\ store'[b] = store[b]
    BY <1>0 DEF Placed
  <2>2. CASE b = x
    BY <1>2, <1>3, <1>4, <2>1, <2>2 DEF Here
  <2>3. CASE b # x
    BY <1>2, <1>3, <2>1, <2>3 DEF Here
  <2> QED BY <2>2, <2>3
<1>6. \A b \in Batches : OnTheWay(b)' <=> OnTheWay(b) \/ b = x
  BY <1>2, <1>3 DEF OnTheWay
<1>7. Delivered => Delivered'
  BY <1>0, <1>2, <1>6 DEF Delivered
<1>8. Placed'
  BY <1>0, <1>5 DEF Placed
<1> QED BY <1>1, <1>4, <1>6, <1>7, <1>8 DEF x, OnTheWay

(* Put appends the batch. *)
LEMMA PutPlaces ==
  ASSUME Typed, Placed, NEW c \in Chunks, PutOK(c)
  PROVE  /\ Placed' /\ (Delivered => Delivered')
         /\ \A b \in Batches : OnTheWay(b)' <=> OnTheWay(b)
<1> DEFINE x == <<c, pos[c]>>
           t == TableOf[c]
<1>0. /\ pos \in [Chunks -> Nat] /\ rpc \in [Chunks -> ReaderPcs] /\ items \in [Tables -> Seq(Batches)] /\ t \in Tables
      /\ rpc[c] \in Putting /\ rpc' = [rpc EXCEPT ![c] = "read"]
      /\ items' = [items EXCEPT ![t] = Append(items[t], x)]
      /\ UNCHANGED <<pos, hand, buf, store>>
      /\ \A w \in Writers : wpc'[w] = wpc[w] \/ (wpc[w] = "wait" /\ wpc'[w] = "get")
  BY Bounds DEF PutOK, Signal, Typed, TypeOK, ReaderPcs, Putting, envVars
<1>1. x \in Batches /\ x[1] = c /\ x[2] = pos[c] /\ Tab(x) = t
  <2>1. pos[c] >= 1 /\ pos[c] <= BatchesOf[c] /\ pos[c] \in Nat /\ BatchesOf[c] \in Nat
    BY <1>0, Bounds DEF Typed, TypeOK
  <2>2. pos[c] \in 1..BatchesOf[c]
    BY <2>1
  <2> QED BY <2>2, BatchesAre DEF Tab
<1>2. /\ Len(items'[t]) = Len(items[t]) + 1 /\ Len(items[t]) \in Nat
      /\ \A k \in 1..Len(items[t]) : items'[t][k] = items[t][k]
      /\ items'[t][Len(items[t]) + 1] = x
      /\ \A u \in Tables : u # t => items'[u] = items[u]
  BY <1>0
<1>3. ASSUME NEW b \in Batches
      PROVE  /\ WasRead(b)' <=> WasRead(b)
             /\ InPut(b)' <=> InPut(b) /\ b # x
             /\ InQueue(b)' <=> InQueue(b) \/ b = x
  <2>0. b[1] \in Chunks /\ b[2] \in Nat /\ b = <<b[1], b[2]>> /\ pos[b[1]] \in Nat /\ Tab(b) \in Tables
    BY <1>0, Bounds, BatchesAre
  <2>1. b = x <=> b[1] = c /\ b[2] = pos[c]
    BY <1>1, <2>0
  <2>2. WasRead(b)' <=> WasRead(b)
    BY <1>0 DEF WasRead
  <2>3. InPut(b)' <=> InPut(b) /\ b # x
    BY <1>0, <2>0, <2>1 DEF InPut, Putting
  <2>4. InQueue(b)' <=> InQueue(b) \/ b = x
    <3>1. CASE Tab(b) # t
      BY <1>1, <1>2, <2>0, <3>1 DEF InQueue, Tab
    <3>2. CASE Tab(b) = t
      <4> HIDE DEF x, t
      <4>1. InQueue(b)' <=> \E k \in 1..Len(items'[t]) : items'[t][k] = b
        BY <3>2 DEF InQueue, Tab
      <4>2. InQueue(b) <=> \E k \in 1..Len(items[t]) : items[t][k] = b
        BY <3>2 DEF InQueue
      <4>3. 1..Len(items'[t]) = 1..Len(items[t]) \cup {Len(items[t]) + 1}
        BY <1>2
      <4> QED BY <1>2, <4>1, <4>2, <4>3
    <3> QED BY <3>1, <3>2
  <2> QED BY <2>2, <2>3, <2>4
<1>4. \A w \in Writers : Held(w)' = Held(w) /\ (wpc'[w] = "report" <=> wpc[w] = "report")
                         /\ (wpc'[w] = "got" <=> wpc[w] = "got")
  BY <1>0 DEF Held
<1>5. /\ WasRead(x) /\ InPut(x) /\ ~InQueue(x) /\ store[x] = 0 /\ \A w \in Writers : x \notin Held(w)
  <2>1. Here(x) /\ WasRead(x) /\ InPut(x)
    BY <1>0, <1>1 DEF Placed, InPut, WasRead
  <2> QED BY <2>1 DEF Here
<1>6. \A u \in Tables : \A j, k \in 1..Len(items'[u]) : items'[u][j] = items'[u][k] => j = k
  <2> SUFFICES ASSUME NEW u \in Tables, NEW j \in 1..Len(items'[u]), NEW k \in 1..Len(items'[u]),
                      items'[u][j] = items'[u][k]
               PROVE  j = k
    OBVIOUS
  <2>1. CASE u # t
    BY <1>2, <2>1 DEF Placed
  <2>2. CASE u = t
    <3>1. \A i \in 1..Len(items[t]) : items[t][i] # x
      BY <1>1, <1>5 DEF InQueue
    <3>2. \A i \in 1..Len(items'[t]) : i \in 1..Len(items[t]) \/ i = Len(items[t]) + 1
      BY <1>2
    <3>3. \A i, l \in 1..Len(items[t]) : items[t][i] = items[t][l] => i = l
      BY <1>0 DEF Placed
    <3> HIDE DEF x, t
    <3> QED BY <1>2, <2>2, <3>1, <3>2, <3>3
  <2> QED BY <2>1, <2>2
<1> HIDE DEF x
<1>7. \A b \in Batches : Here(b)'
  <2> SUFFICES ASSUME NEW b \in Batches PROVE Here(b)'
    OBVIOUS
  <2>1. Here(b) /\ store'[b] = store[b]
    BY <1>0 DEF Placed
  <2>2. CASE b = x
    BY <1>3, <1>4, <1>5, <2>1, <2>2 DEF Here
  <2>3. CASE b # x
    BY <1>3, <1>4, <2>1, <2>3 DEF Here
  <2> QED BY <2>2, <2>3
<1>8. \A b \in Batches : OnTheWay(b)' <=> OnTheWay(b)
  BY <1>3, <1>4, <1>5 DEF OnTheWay
<1>9. Delivered => Delivered'
  BY <1>0, <1>3, <1>8 DEF Delivered
<1>10. Placed'
  BY <1>0, <1>4, <1>6, <1>7 DEF Placed
<1> QED BY <1>8, <1>9, <1>10

(* Put gave up: the batch is dropped. *)
LEMMA DropPlaces ==
  ASSUME Typed, Placed, NEW c \in Chunks, PutCancelled(c)
  PROVE  Placed'
<1>0. /\ rpc \in [Chunks -> ReaderPcs] /\ rpc' = [rpc EXCEPT ![c] = "cancel"]
      /\ UNCHANGED <<pos, items, wpc, hand, buf, store>>
  BY DEF PutCancelled, Typed, TypeOK, ReaderPcs, queueVars, writeVars, envVars
<1>1. \A w \in Writers : Held(w)' = Held(w) /\ wpc'[w] = wpc[w]
  BY <1>0 DEF Held
<1>2. \A b \in Batches : Here(b)'
  <2> SUFFICES ASSUME NEW b \in Batches PROVE Here(b)'
    OBVIOUS
  <2>1. Here(b) /\ store'[b] = store[b]
    BY <1>0 DEF Placed
  <2>2. /\ WasRead(b)' <=> WasRead(b)
        /\ InPut(b)' => InPut(b)
        /\ InQueue(b)' <=> InQueue(b)
    BY <1>0, BatchesAre DEF WasRead, InPut, InQueue, Tab, Putting
  <2> QED BY <1>1, <2>1, <2>2 DEF Here
<1> QED BY <1>0, <1>2 DEF Placed

(* GetUntil delivers a batch. *)
LEMMA GetPlaces ==
  ASSUME Typed, Placed, NEW w \in Writers, NEW t \in Tables, GetBatch(w, t)
  PROVE  /\ Placed' /\ (Delivered => Delivered')
         /\ \A b \in Batches : OnTheWay(b)' <=> OnTheWay(b)
<1> DEFINE x == Head(items[t])
<1>0. /\ rpc \in [Chunks -> ReaderPcs] /\ items \in [Tables -> Seq(Batches)] /\ items[t] # <<>>
      /\ wpc \in [Writers -> WriterPcs] /\ hand \in [Writers -> Batches \cup {NoBatch}]
      /\ wpc[w] = "get" /\ wpc' = [wpc EXCEPT ![w] = "got"] /\ hand' = [hand EXCEPT ![w] = x]
      /\ items' = [items EXCEPT ![t] = Tail(items[t])] /\ rpc' = WakeReaders(rpc)
      /\ UNCHANGED <<pos, buf, store>>
  BY DEF GetBatch, Available, Typed, TypeOK, ReaderPcs, WriterPcs, envVars
<1>1. /\ x \in Batches /\ x = items[t][1] /\ 1 \in 1..Len(items[t])
      /\ Len(items'[t]) = Len(items[t]) - 1 /\ Len(items[t]) \in Nat
      /\ \A k \in 1..Len(items'[t]) : items'[t][k] = items[t][k + 1] /\ k + 1 \in 1..Len(items[t])
      /\ \A u \in Tables : u # t => items'[u] = items[u]
  BY <1>0
<1>2. Tab(x) = t /\ \A k \in 1..Len(items[t]) : Tab(items[t][k]) = t
  BY <1>1 DEF Typed
<1>3. \A j, k \in 1..Len(items[t]) : items[t][j] = items[t][k] => j = k
  BY DEF Placed
<1>4. ASSUME NEW b \in Batches
      PROVE  /\ WasRead(b)' <=> WasRead(b)
             /\ InPut(b)' <=> InPut(b)
             /\ InQueue(b)' <=> InQueue(b) /\ b # x
  <2>1. WasRead(b)' <=> WasRead(b)
    BY <1>0 DEF WasRead
  <2>2. InPut(b)' <=> InPut(b)
    BY <1>0, BatchesAre DEF InPut, WakeReaders, Putting
  <2>3. InQueue(b)' <=> InQueue(b) /\ b # x
    <3>0. Tab(b) \in Tables
      BY BatchesAre
    <3>1. CASE Tab(b) # t
      BY <1>1, <1>2, <3>0, <3>1 DEF InQueue, Tab
    <3>2. CASE Tab(b) = t
      <4> HIDE DEF x
      <4>1. InQueue(b)' <=> \E k \in 1..Len(items'[t]) : items'[t][k] = b
        BY <3>2 DEF InQueue, Tab
      <4>2. InQueue(b) <=> \E k \in 1..Len(items[t]) : items[t][k] = b
        BY <3>2 DEF InQueue
      <4>3. ASSUME InQueue(b)' PROVE InQueue(b) /\ b # x
        <5>1. PICK k \in 1..Len(items'[t]) : items'[t][k] = b
          BY <4>1, <4>3
        <5>2. items[t][k + 1] = b /\ k + 1 \in 1..Len(items[t]) /\ k + 1 # 1
          BY <1>1, <5>1
        <5> QED BY <1>1, <1>3, <4>2, <5>2
      <4>4. ASSUME InQueue(b), b # x PROVE InQueue(b)'
        <5>1. PICK k \in 1..Len(items[t]) : items[t][k] = b
          BY <4>2, <4>4
        <5>2. k # 1
          BY <1>1, <4>4, <5>1
        <5>3. k - 1 \in 1..Len(items'[t]) /\ (k - 1) + 1 = k
          BY <1>1, <5>2
        <5>4. items'[t][k - 1] = b
          BY <1>1, <5>1, <5>3
        <5> QED BY <4>1, <5>3, <5>4
      <4> QED BY <4>3, <4>4
    <3> QED BY <3>1, <3>2
  <2> QED BY <2>1, <2>2, <2>3
<1>5. InQueue(x)
  BY <1>1, <1>2 DEF InQueue
<1>6. /\ WasRead(x) /\ ~InPut(x) /\ store[x] = 0 /\ \A v \in Writers : x \notin Held(v)
  BY <1>1, <1>5 DEF Placed, Here
<1>7. /\ \A v \in Writers : \A b : b \in Held(v)' <=> b \in Held(v) \/ (v = w /\ b = x)
      /\ \A v \in Writers : wpc'[v] = "report" <=> wpc[v] = "report"
      /\ \A v \in Writers : wpc'[v] = "got" => v = w \/ wpc[v] = "got"
  BY <1>0 DEF Held
<1>8. \A v \in Writers : wpc'[v] = "got" => hand'[v] \notin buf'[v]
  <2> SUFFICES ASSUME NEW v \in Writers, wpc'[v] = "got" PROVE hand'[v] \notin buf'[v]
    OBVIOUS
  <2>1. CASE v = w
    <3>1. hand'[w] = x /\ buf'[w] = buf[w] /\ x \notin buf[w]
      BY <1>0, <1>6 DEF Held
    <3> QED BY <2>1, <3>1
  <2>2. CASE v # w
    BY <1>0, <2>2 DEF Placed
  <2> QED BY <2>1, <2>2
<1>9. \A u \in Tables : \A j, k \in 1..Len(items'[u]) : items'[u][j] = items'[u][k] => j = k
  <2> SUFFICES ASSUME NEW u \in Tables, NEW j \in 1..Len(items'[u]), NEW k \in 1..Len(items'[u]),
                      items'[u][j] = items'[u][k]
               PROVE  j = k
    OBVIOUS
  <2>1. CASE u # t
    BY <1>1, <2>1 DEF Placed
  <2>2. CASE u = t
    <3>1. items[t][j + 1] = items[t][k + 1] /\ j + 1 \in 1..Len(items[t]) /\ k + 1 \in 1..Len(items[t])
      BY <1>1, <2>2
    <3>2. j + 1 = k + 1
      BY <1>3, <3>1
    <3> QED BY <3>2
  <2> QED BY <2>1, <2>2
<1> HIDE DEF x
<1>10. \A b \in Batches : Here(b)'
  <2> SUFFICES ASSUME NEW b \in Batches PROVE Here(b)'
    OBVIOUS
  <2>1. Here(b) /\ store'[b] = store[b]
    BY <1>0 DEF Placed
  <2>2. CASE b = x
    <3>1. /\ WasRead(b)' /\ ~InPut(b)' /\ ~InQueue(b)' /\ store'[b] = 0
      BY <1>4, <1>6, <2>1, <2>2
    <3>2. \A v \in Writers : b \in Held(v)' <=> v = w
      BY <1>6, <1>7, <2>2
    <3>3. wpc'[w] # "report"
      BY <1>0
    <3> QED BY <3>1, <3>2, <3>3 DEF Here
  <2>3. CASE b # x
    BY <1>4, <1>7, <2>1, <2>3 DEF Here
  <2> QED BY <2>2, <2>3
<1>11. \A b \in Batches : OnTheWay(b)' <=> OnTheWay(b)
  <2> SUFFICES ASSUME NEW b \in Batches PROVE OnTheWay(b)' <=> OnTheWay(b)
    OBVIOUS
  <2>1. OnTheWay(b)' <=> InPut(b)' \/ InQueue(b)' \/ \E v \in Writers : b \in Held(v)'
    BY DEF OnTheWay
  <2> QED BY <1>4, <1>5, <1>7, <2>1 DEF OnTheWay
<1>12. Delivered => Delivered'
  BY <1>0, <1>4, <1>11 DEF Delivered
<1>13. Placed'
  BY <1>0, <1>8, <1>9, <1>10 DEF Placed
<1> QED BY <1>11, <1>12, <1>13

(* What a writer keeps when the others move on. *)
LEMMA CommitPlaces ==
  ASSUME Typed, Placed, NEW w \in Writers, Commit(w)
  PROVE  /\ Placed' /\ (Delivered => Delivered')
         /\ \A b \in Batches : OnTheWay(b)' <=> OnTheWay(b)
<1>0. /\ store \in [Batches -> Nat] /\ wpc \in [Writers -> WriterPcs]
      /\ wpc[w] = "commit" /\ wpc' = [wpc EXCEPT ![w] = "report"]
      /\ \A b \in Batches : store'[b] = IF b \in buf[w] THEN store[b] + 1 ELSE store[b]
      /\ UNCHANGED <<rpc, pos, items, hand, buf>>
  BY DEF Commit, Typed, TypeOK, WriterPcs, readVars, queueVars
<1>1. \A b \in Batches : /\ WasRead(b)' <=> WasRead(b)
                         /\ InPut(b)' <=> InPut(b)
                         /\ InQueue(b)' <=> InQueue(b)
  BY <1>0 DEF WasRead, InPut, InQueue, Tab
<1>2. \A v \in Writers : Held(v)' = Held(v) /\ (wpc'[v] = "report" <=> v = w \/ wpc[v] = "report")
                         /\ (wpc'[v] = "got" <=> wpc[v] = "got")
  BY <1>0 DEF Held
<1>3. Held(w) = buf[w]
  BY <1>0 DEF Held
<1>4. \A b \in Batches : Here(b)'
  <2> SUFFICES ASSUME NEW b \in Batches PROVE Here(b)'
    OBVIOUS
  <2>1. Here(b) /\ store[b] \in Nat /\ store'[b] = IF b \in buf[w] THEN store[b] + 1 ELSE store[b]
    BY <1>0 DEF Placed
  <2>2. CASE b \in buf[w]
    <3>1. /\ WasRead(b) /\ ~InPut(b) /\ ~InQueue(b) /\ store[b] = 0 /\ \A v \in Writers : b \in Held(v) => v = w
      BY <1>0, <1>3, <2>1, <2>2 DEF Here
    <3>2. store'[b] = 1
      BY <2>1, <2>2, <3>1
    <3> QED BY <1>0, <1>1, <1>2, <3>1, <3>2 DEF Here
  <2>3. CASE b \notin buf[w]
    <3>1. store'[b] = store[b] /\ b \notin Held(w)
      BY <1>3, <2>1, <2>3
    <3> QED BY <1>1, <1>2, <2>1, <3>1 DEF Here
  <2> QED BY <2>2, <2>3
<1>5. \A b \in Batches : OnTheWay(b)' <=> OnTheWay(b)
  BY <1>1, <1>2 DEF OnTheWay
<1>6. Delivered => Delivered'
  <2> SUFFICES ASSUME Delivered, NEW b \in Batches, WasRead(b)', ~OnTheWay(b)' PROVE store'[b] = 1
    BY DEF Delivered
  <2>1. store[b] = 1 /\ ~OnTheWay(b)
    BY <1>1, <1>5 DEF Delivered
  <2>2. b \notin buf[w]
    BY <1>3, <2>1 DEF OnTheWay
  <2> QED BY <1>0, <2>1, <2>2
<1>7. Placed'
  BY <1>0, <1>2, <1>4 DEF Placed
<1> QED BY <1>5, <1>6, <1>7

(* A writer lets go of what it holds: it reported it, or it gives up. *)
LEMMA LetGoPlaces ==
  ASSUME Typed, Placed, NEW w \in Writers, UNCHANGED <<rpc, pos, items>>,
         buf' = [buf EXCEPT ![w] = {}], NEW p \in WriterPcs \ {"got"}, wpc' = [wpc EXCEPT ![w] = p],
         \A v \in Writers : v # w => hand'[v] = hand[v],
         \/ store' = store
         \/ wpc[w] = "commit" /\ store' = [b \in Batches |-> IF b \in buf[w] THEN store[b] + 1 ELSE store[b]]
  PROVE  /\ Placed'
         /\ \A b \in Batches : OnTheWay(b)' <=> OnTheWay(b) /\ b \notin Held(w)
<1>0. /\ store \in [Batches -> Nat] /\ wpc \in [Writers -> WriterPcs] /\ buf \in [Writers -> SUBSET Batches]
      /\ wpc'[w] = p /\ buf'[w] = {} /\ \A v \in Writers : v # w => wpc'[v] = wpc[v] /\ buf'[v] = buf[v]
      /\ p # "got"
  BY DEF Typed, TypeOK, WriterPcs
<1>1. \A b \in Batches : /\ WasRead(b)' <=> WasRead(b)
                         /\ InPut(b)' <=> InPut(b)
                         /\ InQueue(b)' <=> InQueue(b)
  BY DEF WasRead, InPut, InQueue, Tab
<1>2. Held(w)' = {} /\ \A v \in Writers : v # w => Held(v)' = Held(v)
  BY <1>0 DEF Held
<1>3. \A b \in Batches : Here(b)'
  <2> SUFFICES ASSUME NEW b \in Batches PROVE Here(b)'
    OBVIOUS
  <2>1. Here(b) /\ store[b] \in Nat
    BY <1>0 DEF Placed
  <2>2. CASE store'[b] = store[b]
    BY <1>0, <1>1, <1>2, <2>1, <2>2 DEF Here
  <2>3. CASE wpc[w] = "commit" /\ b \in buf[w] /\ store'[b] = store[b] + 1
    <3>1. b \in Held(w)
      BY <2>3 DEF Held
    <3>2. /\ WasRead(b) /\ ~InPut(b) /\ ~InQueue(b) /\ store[b] = 0 /\ \A v \in Writers : b \in Held(v) => v = w
      BY <2>1, <2>3, <3>1 DEF Here
    <3>3. store'[b] = 1
      BY <2>3, <3>2
    <3> QED BY <1>0, <1>1, <1>2, <3>2, <3>3 DEF Here
  <2> QED BY <2>2, <2>3
<1>4. \A b \in Batches : OnTheWay(b)' <=> OnTheWay(b) /\ b \notin Held(w)
  <2> SUFFICES ASSUME NEW b \in Batches PROVE OnTheWay(b)' <=> OnTheWay(b) /\ b \notin Held(w)
    OBVIOUS
  <2>1. OnTheWay(b)' <=> InPut(b)' \/ InQueue(b)' \/ \E v \in Writers : b \in Held(v)'
    BY DEF OnTheWay
  <2>2. Here(b)
    BY DEF Placed
  <2> QED BY <1>1, <1>2, <2>1, <2>2 DEF OnTheWay, Here
<1>5. Placed'
  BY <1>0, <1>3 DEF Placed
<1> QED BY <1>4, <1>5

-----------------------------------------------------------------------------
(* Placed is inductive, whatever fails. *)
StillReader(c) ==
  \/ ReadLast(c) \/ ReadStopped(c) \/ ReadCancelled(c) \/ ReadFails(c) \/ PutBlocks(c)
  \/ MarkDone(c) \/ SetTableErr(c)
StillWriter(w) ==
  \/ SwitchTable(w) \/ EnterGet(w) \/ GetWaits(w) \/ TimerFires(w) \/ GetTimesOut(w) \/ QueueDrained(w)
  \/ WriteBatch(w)
StillStep ==
  \/ \E c \in Chunks : StillReader(c)
  \/ \E t \in Tables : SubmitStep(t)
  \/ \E w \in Writers : StillWriter(w)
  \/ EngineStep \/ StopTask \/ UNCHANGED vars

LEMMA StillUnmoved ==
  ASSUME Typed, StillStep
  PROVE  Unmoved
<1>0. /\ rpc \in [Chunks -> ReaderPcs] /\ wpc \in [Writers -> WriterPcs]
      /\ buf \in [Writers -> SUBSET Batches] /\ hand \in [Writers -> Batches \cup {NoBatch}]
  BY DEF Typed, TypeOK, ReaderPcs, WriterPcs
<1>1. ASSUME UNCHANGED <<pos, items, store, hand, buf>>,
             \A c \in Chunks : rpc'[c] \in Putting <=> rpc[c] \in Putting,
             \A w \in Writers : /\ wpc'[w] = "got" <=> wpc[w] = "got"
                                /\ wpc'[w] = "report" <=> wpc[w] = "report"
      PROVE  Unmoved
  BY <1>1 DEF Unmoved, Held, Reporting
<1>2. ASSUME NEW c \in Chunks, StillReader(c) PROVE Unmoved
  <2>1. UNCHANGED <<pos, items, store, hand, buf, wpc>>
    BY <1>2 DEF StillReader, ReadLast, ReadStopped, ReadCancelled, ReadFails, PutBlocks, MarkDone, SetTableErr,
       queueVars, writeVars, envVars
  <2>2. \A d \in Chunks : rpc'[d] \in Putting <=> rpc[d] \in Putting
    BY <1>0, <1>2 DEF StillReader, ReadLast, ReadStopped, ReadCancelled, ReadFails, PutBlocks, MarkDone, SetTableErr,
       Putting
  <2> QED BY <1>1, <2>1, <2>2
<1>3. ASSUME NEW t \in Tables, SubmitStep(t) PROVE Unmoved
  <2>1. UNCHANGED <<pos, items, store, hand, buf, wpc, rpc>>
    BY <1>3 DEF SubmitStep, SubmitDone, SubmitFails, queueVars, writeVars, envVars
  <2> QED BY <1>1, <2>1
<1>4. ASSUME NEW w \in Writers, StillWriter(w) PROVE Unmoved
  <2>1. CASE WriteBatch(w)
    <3>1. /\ wpc[w] = "got" /\ wpc'[w] \in {"commit", "top"} /\ buf'[w] = buf[w] \cup {hand[w]}
          /\ \A v \in Writers : v # w => wpc'[v] = wpc[v] /\ buf'[v] = buf[v] /\ hand'[v] = hand[v]
          /\ UNCHANGED <<pos, items, store, rpc>>
      BY <1>0, <2>1 DEF WriteBatch, readVars, queueVars, envVars
    <3>2. Held(w)' = Held(w)
      BY <3>1 DEF Held
    <3>3. \A v \in Writers : v # w => Held(v)' = Held(v)
      BY <3>1 DEF Held
    <3> QED BY <3>1, <3>2, <3>3 DEF Unmoved, Reporting
  <2>2. CASE ~WriteBatch(w)
    <3>1. UNCHANGED <<pos, items, store, hand, buf, rpc>>
      BY <1>4, <2>2 DEF StillWriter, SwitchTable, EnterGet, GetWaits, TimerFires, GetTimesOut, QueueDrained,
         readVars, queueVars, envVars
    <3>2. \A v \in Writers : /\ wpc'[v] = "got" <=> wpc[v] = "got"
                             /\ wpc'[v] = "report" <=> wpc[v] = "report"
      BY <1>0, <1>4, <2>2 DEF StillWriter, SwitchTable, EnterGet, GetWaits, TimerFires, GetTimesOut, QueueDrained,
         AfterLoop, Awake
    <3> QED BY <1>1, <3>1, <3>2
  <2> QED BY <2>1, <2>2
<1>5. ASSUME EngineStep \/ StopTask \/ UNCHANGED vars PROVE Unmoved
  <2>1. UNCHANGED <<pos, items, store, hand, buf, rpc>>
    BY <1>5 DEF EngineStep, StopTask, CloseQueue, ReadersCancel, WritersCancel, WatchStop, Finish, vars,
       readVars, queueVars, trackVars, writeVars, envVars
  <2>2. \A v \in Writers : /\ wpc'[v] = "got" <=> wpc[v] = "got"
                           /\ wpc'[v] = "report" <=> wpc[v] = "report"
    <3>1. CASE CloseQueue
      BY <1>0, <3>1 DEF CloseQueue, Awake
    <3>2. CASE UNCHANGED wpc
      BY <3>2
    <3> QED BY <1>5, <3>1, <3>2 DEF EngineStep, StopTask, ReadersCancel, WritersCancel, WatchStop, Finish, vars, writeVars
  <2> QED BY <1>1, <2>1, <2>2
<1> QED BY <1>2, <1>3, <1>4, <1>5 DEF StillStep

LEMMA PlacedStart == Init => Placed /\ \A b \in Batches : ~OnTheWay(b)
<1> SUFFICES ASSUME Init PROVE Placed /\ \A b \in Batches : ~OnTheWay(b)
  OBVIOUS
<1>1. ASSUME NEW b \in Batches
      PROVE  ~WasRead(b) /\ ~InPut(b) /\ ~InQueue(b) /\ store[b] = 0 /\ \A w \in Writers : b \notin Held(w)
  <2>1. b[1] \in Chunks /\ b[2] >= 1 /\ Tab(b) \in Tables /\ b[2] \in Nat
    BY BatchesAre, Bounds
  <2>2. pos[b[1]] = 0 /\ rpc[b[1]] = "read" /\ items[Tab(b)] = <<>>
    BY <2>1 DEF Init
  <2>3. ~WasRead(b) /\ ~InPut(b)
    BY <2>1, <2>2 DEF WasRead, InPut, Putting
  <2>4. ~InQueue(b)
    BY <2>2 DEF InQueue
  <2> QED BY <2>3, <2>4 DEF Init, Held
<1>2. \A b \in Batches : Here(b)
  BY <1>1 DEF Here
<1>3. \A t \in Tables : items[t] = <<>>
  BY DEF Init
<1>4. \A w \in Writers : wpc[w] # "got"
  BY DEF Init
<1> QED BY <1>1, <1>2, <1>3, <1>4 DEF Placed, OnTheWay

LEMMA PlacedStep == Typed /\ Placed /\ [Next]_vars => Placed'
<1> SUFFICES ASSUME Typed, Placed, [Next]_vars PROVE Placed'
  OBVIOUS
<1>1. ASSUME NEW c \in Chunks, ReaderStep(c) PROVE Placed'
  BY <1>1, ReadPlaces, PutPlaces, DropPlaces, StillUnmoved, UnmovedStill DEF ReaderStep, StillStep, StillReader
<1>2. ASSUME NEW w \in Writers, WriterStep(w) PROVE Placed'
  <2>0. "out" \in WriterPcs \ {"got"} /\ "top" \in WriterPcs \ {"got"}
        /\ wpc \in [Writers -> WriterPcs] /\ buf \in [Writers -> SUBSET Batches]
        /\ hand \in [Writers -> Batches \cup {NoBatch}]
    BY DEF WriterPcs, Typed, TypeOK
  <2>1. CASE StopWriter(w) \/ WriteFails(w) \/ CommitFails(w)
    <3>1. /\ UNCHANGED <<rpc, pos, items>> /\ Leave(w)
          /\ \/ store' = store
             \/ wpc[w] = "commit" /\ store' = [b \in Batches |-> IF b \in buf[w] THEN store[b] + 1 ELSE store[b]]
      BY <2>1 DEF StopWriter, WriteFails, CommitFails, LeaveWithError, readVars, queueVars, envVars
    <3>2. /\ buf' = [buf EXCEPT ![w] = {}] /\ wpc' = [wpc EXCEPT ![w] = "out"]
          /\ \A v \in Writers : v # w => hand'[v] = hand[v]
      BY <2>0, <3>1 DEF Leave
    <3> QED BY <2>0, <3>1, <3>2, LetGoPlaces
  <2>2. CASE Report(w)
    <3>1. /\ UNCHANGED <<rpc, pos, items, hand, store>> /\ buf' = [buf EXCEPT ![w] = {}]
          /\ \E p \in {"out", "top"} : wpc' = [wpc EXCEPT ![w] = p]
      BY <2>2 DEF Report, readVars, queueVars, envVars
    <3> QED BY <2>0, <3>1, LetGoPlaces
  <2>3. CASE \E t \in Tables : GetBatch(w, t)
    BY <2>3, GetPlaces
  <2>4. CASE Commit(w)
    BY <2>4, CommitPlaces
  <2> QED BY <1>2, <2>1, <2>2, <2>3, <2>4, StillUnmoved, UnmovedStill DEF WriterStep, StillStep, StillWriter
<1> QED BY <1>1, <1>2, StillUnmoved, UnmovedStill DEF Next, StillStep

(* No batch is on the target twice, whoever fails, stops or is cancelled: a
   batch has one place, and a writer that committed it, or cannot tell whether
   it did, lets go of it. *)
StoredAtMostOnce == \A b \in Batches : store[b] <= 1

(* No batch is on the target twice, in every state of every run. *)
THEOREM NothingStoredTwice == Spec => []StoredAtMostOnce
<1>1. Placed => StoredAtMostOnce
  BY DEF Placed, Here, StoredAtMostOnce
<1>2. Init => Typed /\ Placed
  BY TypedStart, PlacedStart
<1>3. Typed /\ Placed /\ [Next]_vars => Typed' /\ Placed'
  BY TypedStep, PlacedStep
<1> QED BY <1>1, <1>2, <1>3, PTL DEF Spec

-----------------------------------------------------------------------------
(* While nothing is disturbed. *)
LEMMA FlightFinite ==
  \A t : IsFiniteSet(Flight(t)) /\ Cardinality(Flight(t)) \in Nat
<1> SUFFICES ASSUME NEW t PROVE IsFiniteSet(Flight(t)) /\ Cardinality(Flight(t)) \in Nat
  OBVIOUS
<1>1. Flight(t) \in SUBSET Batches
  BY DEF Flight
<1>2. IsFiniteSet(Flight(t))
  BY <1>1, BatchesFinite, FS_Subset
<1> QED BY <1>2, FS_CardinalityType

LEMMA SameFlight ==
  ASSUME \A b \in Batches : OnTheWay(b)' <=> OnTheWay(b)
  PROVE  \A t \in Tables : Flight(t)' = Flight(t)
  BY DEF Flight, Tab

LEMMA StillCounted ==
  ASSUME Counted, \A t \in Tables : Flight(t)' = Flight(t), UNCHANGED trackVars
  PROVE  Counted'
  BY DEF Counted, trackVars

LEMMA GoodStart == Init => Good
<1> SUFFICES ASSUME Init PROVE Good
  OBVIOUS
<1>1. \A t \in Tables : Cardinality(Flight(t)) = 0
  <2> SUFFICES ASSUME NEW t \in Tables PROVE Cardinality(Flight(t)) = 0
    OBVIOUS
  <2>1. Flight(t) = {}
    BY PlacedStart DEF Flight
  <2> QED BY <2>1, FS_EmptySet
<1>2. Counted
  BY <1>1 DEF Init, Counted
<1>3. Delivered
  <2> SUFFICES ASSUME NEW b \in Batches PROVE ~WasRead(b)
    BY DEF Delivered
  <2>1. b[1] \in Chunks /\ b[2] >= 1 /\ b[2] \in Nat
    BY BatchesAre, Bounds
  <2> QED BY <2>1 DEF Init, WasRead
<1>4. Chunkwise
  BY DEF Init, Chunkwise
<1> QED BY <1>2, <1>3, <1>4 DEF Good

(* The chunks and the tables. *)
LEMMA ChunkwiseStep ==
  ASSUME Typed, Chunkwise, WellStep
  PROVE  Chunkwise'
<1>0. /\ rpc \in [Chunks -> ReaderPcs] /\ pos \in [Chunks -> Nat] /\ marked \subseteq Chunks
      /\ sub \in [Tables -> {"wait", "done", "error"}] /\ readDone \in [Tables -> BOOLEAN]
      /\ \A c \in Chunks : pos[c] <= BatchesOf[c] /\ BatchesOf[c] \in Nat
  BY Bounds DEF Typed, TypeOK, ReaderPcs
<1>1. ASSUME NEW c \in Chunks, WellReader(c) PROVE Chunkwise'
  <2>1. /\ sub' = sub /\ readDone' = readDone /\ marked \subseteq marked'
    BY <1>1 DEF WellReader, ReadBatch, ReadLast, PutOK, PutBlocks, MarkDone, trackVars
  <2>2. \A d \in Chunks : d # c => rpc'[d] = rpc[d] /\ pos'[d] = pos[d] /\ (d \in marked' => d \in marked)
    BY <1>0, <1>1 DEF WellReader, ReadBatch, ReadLast, PutOK, PutBlocks, MarkDone
  <2>3. /\ rpc'[c] \in {"ok", "idle"} => pos'[c] = BatchesOf[c]
        /\ c \in marked' => rpc'[c] = "idle"
    <3>1. CASE ReadBatch(c)
      BY <1>0, <3>1 DEF ReadBatch, Chunkwise
    <3>2. CASE ReadLast(c)
      BY <1>0, <3>2 DEF ReadLast, MoreToRead, Chunkwise
    <3>3. CASE PutOK(c)
      BY <1>0, <3>3 DEF PutOK, Chunkwise
    <3>4. CASE PutBlocks(c)
      BY <1>0, <3>4 DEF PutBlocks, Chunkwise
    <3>5. CASE MarkDone(c) /\ rpc[c] = "ok"
      BY <1>0, <3>5 DEF MarkDone, Chunkwise
    <3> QED BY <1>1, <3>1, <3>2, <3>3, <3>4, <3>5 DEF WellReader
  <2> QED BY <2>1, <2>2, <2>3 DEF Chunkwise, AllMarked
<1>2. ASSUME NEW t \in Tables, SubmitDone(t) PROVE Chunkwise'
  <2>1. /\ UNCHANGED <<rpc, pos, marked>> /\ AllMarked(t)
        /\ sub' = [sub EXCEPT ![t] = "done"] /\ readDone' = [readDone EXCEPT ![t] = TRUE]
    BY <1>2 DEF SubmitDone
  <2>2. \A u \in Tables : AllMarked(u)' <=> AllMarked(u)
    BY <2>1 DEF AllMarked
  <2>3. ASSUME NEW u \in Tables
        PROVE  sub'[u] # "error" /\ (readDone'[u] <=> sub'[u] = "done") /\ (sub'[u] = "done" => AllMarked(u)')
    <3>1. CASE u = t
      BY <1>0, <2>1, <2>2, <3>1
    <3>2. CASE u # t
      BY <1>0, <2>1, <2>2, <3>2 DEF Chunkwise
    <3> QED BY <3>1, <3>2
  <2>4. \A c \in Chunks : /\ rpc'[c] \in {"ok", "idle"} => pos'[c] = BatchesOf[c]
                          /\ c \in marked' => rpc'[c] = "idle"
    BY <2>1 DEF Chunkwise
  <2> QED BY <2>3, <2>4 DEF Chunkwise
<1>3. ASSUME NEW w \in Writers, WellWriter(w) PROVE Chunkwise'
  <2>1. UNCHANGED <<pos, marked, sub, readDone>>
    BY <1>3 DEF WellWriter, SwitchTable, EnterGet, GetBatch, GetWaits, TimerFires, GetTimesOut, QueueDrained,
       WriteBatch, Commit, Report, Release, readVars, trackVars
  <2>2. \A c \in Chunks : rpc'[c] = rpc[c] \/ (rpc[c] = "blocked" /\ rpc'[c] = "woken")
    <3>1. CASE \E t \in Tables : GetBatch(w, t)
      BY <1>0, <3>1 DEF GetBatch, WakeReaders
    <3>2. CASE UNCHANGED rpc
      BY <3>2
    <3> QED BY <1>3, <3>1, <3>2 DEF WellWriter, SwitchTable, EnterGet, GetWaits, TimerFires, GetTimesOut, QueueDrained,
       WriteBatch, Commit, Report, readVars
  <2>3. \A c \in Chunks : /\ rpc'[c] \in {"ok", "idle"} => pos'[c] = BatchesOf[c]
                          /\ c \in marked' => rpc'[c] = "idle"
    BY <2>1, <2>2 DEF Chunkwise
  <2> QED BY <2>1, <2>3 DEF Chunkwise, AllMarked
<1>4. ASSUME CloseQueue \/ Finish \/ UNCHANGED vars PROVE Chunkwise'
  BY <1>4 DEF CloseQueue, Finish, vars, readVars, trackVars, Chunkwise, AllMarked
<1> QED BY <1>1, <1>2, <1>3, <1>4 DEF WellStep

(* A chunk that is being read keeps its table open. *)
LEMMA StillOpen ==
  ASSUME Typed, Chunkwise, NEW c \in Chunks, rpc[c] # "idle"
  PROVE  TableOf[c] \in Tables /\ ~readDone[TableOf[c]]
  BY Bounds DEF Chunkwise, AllMarked

LEMMA ReadCounted ==
  ASSUME Typed, Placed, Chunkwise, Delivered, Counted, NEW c \in Chunks, ReadBatch(c)
  PROVE  Delivered' /\ Counted'
<1> DEFINE x == <<c, pos[c] + 1>>
           t == TableOf[c]
<1>1. /\ Delivered' /\ x \in Batches /\ ~OnTheWay(x)
      /\ \A b \in Batches : OnTheWay(b)' <=> OnTheWay(b) \/ b = x
  BY ReadPlaces
<1>2. t \in Tables /\ ~readDone[t] /\ Tab(x) = t
  BY StillOpen DEF ReadBatch, Tab
<1>3. /\ inflight' = [inflight EXCEPT ![t] = inflight[t] + 1] /\ UNCHANGED <<readDone, fired>>
      /\ inflight \in [Tables -> Nat]
  BY DEF ReadBatch, Typed, TypeOK
<1> HIDE DEF x, t
<1>4. x \notin Flight(t) /\ Flight(t)' = Flight(t) \cup {x}
  BY <1>1, <1>2 DEF Flight, Tab
<1>5. \A u \in Tables : u # t => Flight(u)' = Flight(u)
  BY <1>1, <1>2 DEF Flight, Tab
<1>6. Cardinality(Flight(t)') = Cardinality(Flight(t)) + 1
  BY <1>4, FlightFinite, FS_AddElement
<1>7. \A u \in Tables : /\ inflight'[u] = Cardinality(Flight(u)')
                        /\ fired'[u] <=> readDone'[u] /\ inflight'[u] = 0
  BY <1>2, <1>3, <1>5, <1>6 DEF Counted
<1> QED BY <1>1, <1>7 DEF Counted

LEMMA SubmitCounted ==
  ASSUME Typed, Chunkwise, Counted, NEW t \in Tables, SubmitDone(t), \A u \in Tables : Flight(u)' = Flight(u)
  PROVE  Counted'
<1>1. /\ sub[t] = "wait" /\ inflight' = inflight /\ readDone' = [readDone EXCEPT ![t] = TRUE]
      /\ fired' = [fired EXCEPT ![t] = fired[t] \/ (readDone'[t] /\ inflight'[t] = 0)]
      /\ fired \in [Tables -> BOOLEAN] /\ readDone \in [Tables -> BOOLEAN]
  BY DEF SubmitDone, Track, Ready, Typed, TypeOK
<1>2. ~readDone[t] /\ ~fired[t]
  BY <1>1 DEF Chunkwise, Counted
<1>3. fired'[t] <=> readDone'[t] /\ inflight'[t] = 0
  BY <1>1, <1>2
<1>4. \A u \in Tables : u # t => (fired'[u] <=> fired[u]) /\ (readDone'[u] <=> readDone[u])
  BY <1>1
<1> QED BY <1>1, <1>3, <1>4 DEF Counted

(* reportCommitted takes the batches of the transaction off the counter. *)
LEMMA ReportCounted ==
  ASSUME Typed, Placed, Delivered, Counted, NEW w \in Writers, Report(w)
  PROVE  Delivered' /\ Counted'
<1>0. /\ wpc \in [Writers -> WriterPcs] /\ buf \in [Writers -> SUBSET Batches] /\ inflight \in [Tables -> Nat]
      /\ fired \in [Tables -> BOOLEAN] /\ wpc[w] = "report" /\ buf[w] # {}
      /\ "out" \in WriterPcs \ {"got"} /\ "top" \in WriterPcs \ {"got"}
  BY DEF Report, Typed, TypeOK, WriterPcs
<1>1. Held(w) = buf[w]
  BY <1>0 DEF Held
<1>2. \A b \in Batches : OnTheWay(b)' <=> OnTheWay(b) /\ b \notin buf[w]
  <2>1. /\ UNCHANGED <<rpc, pos, items, hand, store>> /\ buf' = [buf EXCEPT ![w] = {}]
        /\ \E p \in {"out", "top"} : wpc' = [wpc EXCEPT ![w] = p]
    BY DEF Report, readVars, queueVars, envVars
  <2> QED BY <1>0, <1>1, <2>1, LetGoPlaces
<1>3. PICK t \in BoundTables(w) : Release(t, CountsBatches(w))
  BY DEF Report
<1>4. t \in Tables /\ \A b \in buf[w] : b \in Batches /\ Tab(b) = t
  BY <1>0, BatchesAre DEF BoundTables, Typed
<1> DEFINE n == Cardinality(buf[w])
<1>5. IsFiniteSet(buf[w]) /\ n \in Nat /\ n >= 1
  <2>1. IsFiniteSet(buf[w])
    BY <1>0, BatchesFinite, FS_Subset
  <2>2. n \in Nat /\ n # 0
    BY <1>0, <2>1, FS_CardinalityType, FS_EmptySet
  <2> QED BY <2>1, <2>2
<1>6. /\ buf[w] \subseteq Flight(t) /\ Flight(t)' = Flight(t) \ buf[w]
      /\ \A u \in Tables : u # t => Flight(u)' = Flight(u)
  <2>1. \A b \in buf[w] : OnTheWay(b)
    BY <1>1 DEF OnTheWay
  <2> QED BY <1>2, <1>4, <2>1 DEF Flight, Tab
<1>7. Cardinality(Flight(t)') = Cardinality(Flight(t)) - n /\ Cardinality(Flight(t)) >= n
  <2>1. Flight(t) \cap buf[w] = buf[w]
    BY <1>6
  <2>2. Cardinality(Flight(t) \ buf[w]) = Cardinality(Flight(t)) - Cardinality(Flight(t) \cap buf[w])
    BY FlightFinite, FS_Difference
  <2>3. Cardinality(buf[w]) <= Cardinality(Flight(t))
    BY <1>6, FlightFinite, FS_Subset
  <2>4. Cardinality(Flight(t)) \in Nat
    BY FlightFinite
  <2> QED BY <1>5, <1>6, <2>1, <2>2, <2>3, <2>4
<1>8. /\ inflight' = [inflight EXCEPT ![t] = Max({0, inflight[t] - n})] /\ readDone' = readDone
      /\ fired' = [fired EXCEPT ![t] = fired[t] \/ (readDone'[t] /\ inflight'[t] = 0)]
  BY <1>3 DEF Release, Track, Ready, CountsBatches
<1>9. inflight[t] = Cardinality(Flight(t)) /\ inflight[t] \in Nat
  BY <1>0, <1>4 DEF Counted
<1> HIDE DEF n
<1>10. inflight[t] - n \in Int /\ inflight[t] - n >= 0
  BY <1>5, <1>7, <1>9
<1>11. Max({0, inflight[t] - n}) = inflight[t] - n
  BY <1>10, FloorIs
<1>12. inflight'[t] = Cardinality(Flight(t)')
  BY <1>0, <1>4, <1>7, <1>8, <1>9, <1>11
<1>13. ~fired[t]
  <2>1. inflight[t] # 0
    BY <1>5, <1>7, <1>9
  <2> QED BY <1>4, <2>1 DEF Counted
<1>14. fired'[t] <=> readDone'[t] /\ inflight'[t] = 0
  BY <1>0, <1>4, <1>8, <1>13
<1>15. \A u \in Tables : u # t => inflight'[u] = inflight[u] /\ (fired'[u] <=> fired[u])
  BY <1>0, <1>8
<1>16. Counted'
  <2> SUFFICES ASSUME NEW u \in Tables
               PROVE  inflight'[u] = Cardinality(Flight(u)') /\ (fired'[u] <=> readDone'[u] /\ inflight'[u] = 0)
    BY DEF Counted
  <2>1. CASE u = t
    BY <1>12, <1>14, <2>1
  <2>2. CASE u # t
    BY <1>6, <1>8, <1>15, <2>2 DEF Counted
  <2> QED BY <2>1, <2>2
<1>17. Delivered'
  <2> SUFFICES ASSUME NEW b \in Batches, WasRead(b)', ~OnTheWay(b)' PROVE store'[b] = 1
    BY DEF Delivered
  <2>1. WasRead(b) /\ store'[b] = store[b]
    BY DEF Report, WasRead, readVars, envVars
  <2>2. CASE b \in buf[w]
    BY <1>0, <1>1, <2>1, <2>2 DEF Placed, Here
  <2>3. CASE b \notin buf[w]
    BY <1>2, <2>1, <2>3 DEF Delivered
  <2> QED BY <2>2, <2>3
<1> QED BY <1>16, <1>17

LEMMA GoodStep == Typed /\ Ends /\ Placed /\ Good /\ [Next]_vars => Good'
<1> SUFFICES ASSUME Typed, Ends, Placed, Good, [Next]_vars, Undisturbed'
             PROVE  Chunkwise' /\ Delivered' /\ Counted'
  BY DEF Good
<1>1. WellStep /\ Chunkwise /\ Delivered /\ Counted
  BY OnlyWell DEF Good
<1>2. Chunkwise'
  BY <1>1, ChunkwiseStep
<1>3. ASSUME StillStep, UNCHANGED trackVars PROVE Delivered' /\ Counted'
  BY <1>1, <1>3, StillUnmoved, UnmovedStill, StillCounted
<1>4. ASSUME NEW c \in Chunks, WellReader(c) PROVE Delivered' /\ Counted'
  <2>1. CASE ReadBatch(c)
    BY <1>1, <2>1, ReadCounted
  <2>2. CASE PutOK(c)
    <3>1. UNCHANGED trackVars
      BY <2>2 DEF PutOK
    <3> QED BY <1>1, <2>2, <3>1, PutPlaces, SameFlight, StillCounted
  <2>3. CASE ReadLast(c) \/ PutBlocks(c) \/ MarkDone(c)
    <3>1. UNCHANGED trackVars
      BY <2>3 DEF ReadLast, PutBlocks, MarkDone
    <3> QED BY <1>3, <2>3, <3>1 DEF StillStep, StillReader
  <2> QED BY <1>4, <2>1, <2>2, <2>3 DEF WellReader
<1>5. ASSUME NEW t \in Tables, SubmitDone(t) PROVE Delivered' /\ Counted'
  <2>1. StillStep
    BY <1>5 DEF StillStep, SubmitStep
  <2>2. Delivered' /\ \A u \in Tables : Flight(u)' = Flight(u)
    BY <1>1, <2>1, StillUnmoved, UnmovedStill
  <2> QED BY <1>1, <1>5, <2>2, SubmitCounted
<1>6. ASSUME NEW w \in Writers, WellWriter(w) PROVE Delivered' /\ Counted'
  <2>1. CASE \E t \in Tables : GetBatch(w, t)
    <3> PICK t \in Tables : GetBatch(w, t)
      BY <2>1
    <3>1. UNCHANGED trackVars
      BY DEF GetBatch
    <3> QED BY <1>1, <3>1, GetPlaces, SameFlight, StillCounted
  <2>2. CASE Commit(w)
    <3>1. UNCHANGED trackVars
      BY <2>2 DEF Commit
    <3> QED BY <1>1, <2>2, <3>1, CommitPlaces, SameFlight, StillCounted
  <2>3. CASE Report(w)
    BY <1>1, <2>3, ReportCounted
  <2>4. CASE StillWriter(w)
    <3>1. UNCHANGED trackVars
      BY <2>4 DEF StillWriter, SwitchTable, EnterGet, GetWaits, TimerFires, GetTimesOut, QueueDrained, WriteBatch
    <3> QED BY <1>3, <2>4, <3>1 DEF StillStep
  <2> QED BY <1>6, <2>1, <2>2, <2>3, <2>4 DEF WellWriter, StillWriter
<1>7. ASSUME CloseQueue \/ Finish \/ UNCHANGED vars PROVE Delivered' /\ Counted'
  <2>1. UNCHANGED trackVars
    BY <1>7 DEF CloseQueue, Finish, vars
  <2> QED BY <1>3, <1>7, <2>1 DEF StillStep, EngineStep
<1> QED BY <1>1, <1>2, <1>4, <1>5, <1>6, <1>7 DEF WellStep

-----------------------------------------------------------------------------
IInv == Typed /\ Ends /\ Placed /\ Good

LEMMA Start == Init => IInv
  BY TypedStart, EndsStart, PlacedStart, GoodStart DEF IInv

LEMMA Step == IInv /\ [Next]_vars => IInv'
  BY TypedStep, EndsStep, PlacedStep, GoodStep DEF IInv

(* As long as no reader or writer has failed and nobody stopped the task,
   OnTableDataReady fires for a table only when all its batches are on the
   target: the tracker counts a batch from the moment it was read. *)
THEOREM ReadyTablesAreComplete == Spec => []ReadyWithoutErrors
<1>1. IInv => ReadyWithoutErrors
  <2> SUFFICES ASSUME IInv, Undisturbed, NEW t \in Tables, fired[t], NEW b \in Batches, Tab(b) = t
               PROVE  store[b] = 1
    BY DEF ReadyWithoutErrors, ReadyIsComplete
  <2>1. Chunkwise /\ Delivered /\ Counted
    BY DEF IInv, Good
  <2>2. readDone[t] /\ Cardinality(Flight(t)) = 0
    BY <2>1 DEF Counted
  <2>3. Flight(t) = {}
    BY <2>2, FlightFinite, FS_EmptySet
  <2>4. ~OnTheWay(b)
    BY <2>3 DEF Flight
  <2>5. b[1] \in Chunks /\ TableOf[b[1]] = t /\ b[2] \in 1..BatchesOf[b[1]]
    BY BatchesAre DEF Tab
  <2>6. pos[b[1]] = BatchesOf[b[1]]
    BY <2>1, <2>2, <2>5 DEF Chunkwise, AllMarked
  <2>7. WasRead(b)
    BY <2>5, <2>6 DEF WasRead
  <2> QED BY <2>1, <2>4, <2>7 DEF Delivered
<1> QED BY <1>1, Start, Step, PTL DEF Spec

(* A run that succeeds loses what is still in the queue, and nothing else:
   every other batch is on the target, once, and the tables it has announced
   are those with an empty sub-queue. *)
LosesOnlyTheQueue ==
  result = "ok" =>
    /\ \A b \in Batches : store[b] = IF InQueue(b) THEN 0 ELSE 1
    /\ \A t \in Tables : fired[t] <=> items[t] = <<>>

LEMMA OkQueue == IInv => LosesOnlyTheQueue
<1> SUFFICES ASSUME IInv, result = "ok"
             PROVE  /\ \A b \in Batches : store[b] = IF InQueue(b) THEN 0 ELSE 1
                    /\ \A t \in Tables : fired[t] <=> items[t] = <<>>
  BY DEF LosesOnlyTheQueue
<1>0. /\ Undisturbed /\ \A c \in Chunks : rpc[c] = "idle"
      /\ \A t \in Tables : sub[t] = "done"
      /\ \A w \in Writers : wpc[w] = "out" /\ buf[w] = {}
  BY OkUndisturbed DEF IInv
<1>1. Chunkwise /\ Delivered /\ Counted /\ Placed /\ Typed
  BY <1>0 DEF IInv, Good
<1>2. \A w \in Writers : Held(w) = {}
  BY <1>0 DEF Held
<1>3. \A b \in Batches : WasRead(b) /\ (OnTheWay(b) <=> InQueue(b))
  <2> SUFFICES ASSUME NEW b \in Batches PROVE WasRead(b) /\ (OnTheWay(b) <=> InQueue(b))
    OBVIOUS
  <2>1. b[1] \in Chunks /\ b[2] \in 1..BatchesOf[b[1]] /\ rpc[b[1]] = "idle"
    BY <1>0, BatchesAre
  <2>2. pos[b[1]] = BatchesOf[b[1]]
    BY <1>1, <2>1 DEF Chunkwise
  <2>3. WasRead(b) /\ ~InPut(b)
    BY <2>1, <2>2 DEF WasRead, InPut, Putting
  <2> QED BY <1>2, <2>3 DEF OnTheWay
<1>4. \A b \in Batches : store[b] = IF InQueue(b) THEN 0 ELSE 1
  BY <1>1, <1>3 DEF Placed, Here, Delivered
<1>5. ASSUME NEW t \in Tables PROVE fired[t] <=> items[t] = <<>>
  <2>1. readDone[t]
    BY <1>0, <1>1 DEF Chunkwise
  <2>2. fired[t] <=> Cardinality(Flight(t)) = 0
    BY <1>1, <2>1 DEF Counted
  <2>3. Cardinality(Flight(t)) = 0 <=> Flight(t) = {}
    BY FlightFinite, FS_EmptySet
  <2>4. items[t] \in Seq(Batches)
    BY <1>1 DEF Typed, TypeOK
  <2>5. ASSUME items[t] # <<>> PROVE Flight(t) # {}
    <3>1. 1 \in 1..Len(items[t]) /\ items[t][1] \in Batches
      BY <2>4, <2>5
    <3>2. Tab(items[t][1]) = t
      BY <1>1, <3>1 DEF Typed
    <3>3. InQueue(items[t][1])
      BY <3>1, <3>2 DEF InQueue
    <3> QED BY <1>3, <3>1, <3>2, <3>3 DEF Flight
  <2>6. ASSUME items[t] = <<>> PROVE Flight(t) = {}
    <3>1. Len(items[t]) = 0
      BY <2>6
    <3>2. \A b \in Batches : Tab(b) = t => ~InQueue(b)
      BY <3>1 DEF InQueue
    <3> QED BY <1>3, <3>2 DEF Flight
  <2> QED BY <2>2, <2>3, <2>5, <2>6
<1> QED BY <1>4, <1>5

(* A run that succeeds has lost at most what still lies in the queue
   (LosesOnlyTheQueue): Engine.Run sees no other way to end well. *)
THEOREM OnlyTheQueueIsLost == Spec => []LosesOnlyTheQueue
  BY Start, Step, OkQueue, PTL DEF Spec

-----------------------------------------------------------------------------
(* One table. *)
LEMMA DrainedStep ==
  ASSUME NEW t, Tables = {t}, IInv, Drained, [Next]_vars
  PROVE  Drained'
<1> SUFFICES ASSUME Undisturbed', NEW w \in Writers, last'[w] \/ wpc'[w] = "out"
             PROVE  closed' /\ items'[t] = <<>>
  BY DEF Drained
<1>0. /\ rpc \in [Chunks -> ReaderPcs] /\ wpc \in [Writers -> WriterPcs]
      /\ last \in [Writers -> BOOLEAN] /\ buf \in [Writers -> SUBSET Batches] /\ Typed /\ Ends
  BY DEF IInv, Typed, TypeOK, ReaderPcs, WriterPcs
<1>1. Undisturbed /\ WellStep
  BY <1>0, OnlyWell
<1>2. \A v \in Writers : last[v] \/ wpc[v] = "out" => closed /\ items[t] = <<>>
  BY <1>1 DEF Drained
<1>3. closed /\ items[t] = <<>> => closed' /\ items'[t] = <<>>
  <2> SUFFICES ASSUME closed, items[t] = <<>> PROVE closed' /\ items'[t] = <<>>
    OBVIOUS
  <2>1. ASSUME NEW c \in Chunks, WellReader(c) PROVE FALSE
    <3>1. rpc[c] = "idle"
      BY <1>0 DEF Ends
    <3> QED BY <2>1, <3>1 DEF WellReader, ReadBatch, ReadLast, PutOK, PutBlocks, MarkDone
  <2>2. ASSUME NEW v \in Writers, WellWriter(v) PROVE UNCHANGED <<closed, items>>
    BY <2>2 DEF WellWriter, SwitchTable, EnterGet, GetBatch, Available, GetWaits, TimerFires, GetTimesOut, QueueDrained,
       WriteBatch, Commit, Report, queueVars
  <2>3. ASSUME NEW u \in Tables, SubmitDone(u) PROVE UNCHANGED <<closed, items>>
    BY <2>3 DEF SubmitDone, queueVars
  <2>4. ASSUME CloseQueue \/ Finish \/ UNCHANGED vars PROVE closed' /\ UNCHANGED items
    BY <2>4 DEF CloseQueue, Finish, queueVars, vars
  <2> QED BY <1>1, <2>1, <2>2, <2>3, <2>4 DEF WellStep
<1>4. CASE \E v \in Writers : QueueDrained(v)
  <2> PICK v \in Writers : QueueDrained(v)
    BY <1>4
  <2>1. Available(v) = {} /\ closed /\ UNCHANGED <<items, closed>>
    BY DEF QueueDrained, queueVars
  <2>2. Bound(v) => t \in BoundTables(v)
    BY <1>0, BatchesAre DEF Bound, BoundTables
  <2>3. items[t] = <<>>
    BY <2>1, <2>2 DEF Available
  <2> QED BY <2>1, <2>3
<1>5. CASE ~\E v \in Writers : QueueDrained(v)
  <2>1. last[w] \/ wpc[w] = "out"
    <3>1. ASSUME NEW v \in Writers, WellWriter(v) PROVE last[w] \/ wpc[w] = "out"
      <4>1. last' = last
        BY <1>5, <3>1 DEF WellWriter, SwitchTable, EnterGet, GetBatch, GetWaits, TimerFires, GetTimesOut,
           WriteBatch, Commit, Report
      <4>2. wpc'[w] = "out" => wpc[w] = "out" \/ last[w]
        BY <1>0, <1>5, <3>1 DEF WellWriter, SwitchTable, EnterGet, GetBatch, GetWaits, TimerFires, GetTimesOut,
           WriteBatch, Commit, Report, Awake
      <4> QED BY <4>1, <4>2
    <3>2. ASSUME NEW c \in Chunks, WellReader(c) PROVE last[w] \/ wpc[w] = "out"
      BY <1>0, <3>2 DEF WellReader, ReadBatch, ReadLast, PutOK, PutBlocks, MarkDone, Signal, writeVars
    <3>3. ASSUME NEW u \in Tables, SubmitDone(u) PROVE last[w] \/ wpc[w] = "out"
      BY <3>3 DEF SubmitDone, writeVars
    <3>4. ASSUME CloseQueue \/ Finish \/ UNCHANGED vars PROVE last[w] \/ wpc[w] = "out"
      BY <1>0, <3>4 DEF CloseQueue, Finish, Awake, writeVars, vars
    <3> QED BY <1>1, <3>1, <3>2, <3>3, <3>4 DEF WellStep
  <2> QED BY <1>2, <1>3, <2>1
<1> QED BY <1>4, <1>5

LEMMA DrainedStart == Init => Drained
  BY DEF Init, Drained

LEMMA DrainedAlways ==
  ASSUME NEW t, Tables = {t}
  PROVE  Spec => [](IInv /\ Drained)
<1>1. IInv /\ Drained /\ [Next]_vars => (IInv /\ Drained)'
  BY Step, DrainedStep
<1> QED BY <1>1, Start, DrainedStart, PTL DEF Spec

(* With one table the writers end only when the queue is empty. *)
LEMMA OneTableQueue ==
  ASSUME NEW t, Tables = {t}, IInv, Drained, result = "ok"
  PROVE  /\ \A b \in Batches : ~InQueue(b)
         /\ items[t] = <<>>
<1>1. Undisturbed /\ \A w \in Writers : wpc[w] = "out"
  BY OkUndisturbed DEF IInv
<1>2. \A u \in Tables : items[u] = <<>>
  BY <1>1, Bounds DEF Drained
<1>3. \A b \in Batches : items[Tab(b)] = <<>>
  BY <1>2, BatchesAre
<1>4. ASSUME NEW b \in Batches PROVE ~InQueue(b)
  <2>1. Len(items[Tab(b)]) = 0
    BY <1>3
  <2> QED BY <2>1 DEF InQueue
<1> QED BY <1>2, <1>4

(* With one table, a run that succeeds has put every batch on the target, once.
   With several it need not: see LosesOnlyTheQueue. *)
THEOREM OneTableNothingLost ==
  ASSUME NEW t, Tables = {t}
  PROVE  Spec => []NoSilentLoss
<1>1. IInv /\ Drained => NoSilentLoss
  BY OkQueue, OneTableQueue DEF LosesOnlyTheQueue, NoSilentLoss
<1> QED BY <1>1, DrainedAlways, PTL

(* With one table, a run that succeeds has announced it. *)
THEOREM OneTableAnnounced ==
  ASSUME NEW t, Tables = {t}
  PROVE  Spec => []OkAnnouncesAll
<1>1. IInv /\ Drained => OkAnnouncesAll
  BY OkQueue, OneTableQueue DEF LosesOnlyTheQueue, OkAnnouncesAll
<1> QED BY <1>1, DrainedAlways, PTL
=============================================================================
