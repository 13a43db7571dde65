---------------------------- MODULE ChunkedRead ----------------------------
(***************************************************************************)
(* How one table with a single-column key is read while the application    *)
(* keeps changing it (src/internal/sync/fullload/chunk.go, reader.go).     *)
(*                                                                         *)
(* The planner cuts the key space at some boundaries into chunks           *)
(*      (-oo, b1], (b1, b2], ..., (bn, +oo)                                *)
(* by arithmetic on MIN and MAX, or by stepping over the keys one query at *)
(* a time.  A chunk is read by short queries: the rows above the cursor in *)
(* key order, at most BatchRows of them, fewer when the batch is full of   *)
(* bytes; the cursor moves to the last row read.  There is no snapshot     *)
(* over the queries.  In two-phase mode a probe reads the keys and a       *)
(* second query fetches the rows that are still there.                     *)
(***************************************************************************)
EXTENDS Integers, Sequences, FiniteSets

CONSTANTS
  Keys,          \* the keys the table may hold
  TargetChunks,  \* GlobalReadBudget * ChunkOvershoot
  MinStep,       \* defaultBatchRows, the least distance of sampled boundaries
  BatchRows,     \* batch_size
  TwoPhases,     \* the values of full_load_two_phase_read, as a table's reader may take it
  MaxChanges,    \* bound: how often the application changes the table
  NoCursor

ASSUME ChunkedReadAssumption ==
  /\ Keys \subseteq Int
  /\ TargetChunks \in Nat \ {0}
  /\ MinStep \in Nat \ {0}
  /\ BatchRows \in Nat \ {0}
  /\ TwoPhases \subseteq BOOLEAN
  /\ MaxChanges \in Nat
  /\ NoCursor \notin Int

VARIABLES
  twoPhase, \* shouldUseTwoPhaseRead of this table
  source,   \* the keys in the table now
  stable,   \* the keys that were there from the start and all the time since
  changes,
  phase,    \* "plan", "read"
  bounds,   \* the boundaries, in order
  cursor,   \* the cursor of a chunk
  probed,   \* two-phase: the keys of the probe whose payload is not fetched yet
  tail,     \* two-phase: the probe returned fewer than BatchRows keys
  done,     \* chunks the reader has finished
  emitted   \* how many times the row of a key went into a batch

planVars == <<phase, bounds>>
readVars == <<cursor, probed, tail, done, emitted>>
vars == <<twoPhase, source, stable, changes, planVars, readVars>>

Chunks == 1..(Len(bounds) + 1)

Init ==
  /\ twoPhase \in TwoPhases
  /\ source \in SUBSET Keys
  /\ stable = source
  /\ changes = 0
  /\ phase = "plan"
  /\ bounds = <<>>
  /\ cursor = <<>>
  /\ probed = <<>>
  /\ tail = <<>>
  /\ done = {}
  /\ emitted = [k \in Keys |-> 0]

-----------------------------------------------------------------------------
(* The application. *)

Change ==
  /\ changes < MaxChanges
  /\ changes' = changes + 1
  /\ UNCHANGED <<twoPhase, planVars, readVars>>

Delete(k) ==
  /\ k \in source
  /\ source' = source \ {k}
  /\ stable' = stable \ {k}
  /\ Change

Insert(k) ==
  /\ k \notin source
  /\ source' = source \cup {k}
  /\ UNCHANGED stable
  /\ Change

-----------------------------------------------------------------------------
(* The planner. *)

(* Every chunk starts with no cursor. *)
StartReading(n) ==
  /\ phase' = "read"
  /\ cursor' = [i \in 1..n |-> NoCursor]
  /\ probed' = [i \in 1..n |-> {}]
  /\ tail' = [i \in 1..n |-> FALSE]
  /\ UNCHANGED <<twoPhase, source, stable, changes, done, emitted>>

(* inclusiveEnd = min + floor(span * i / n) - 1. *)
Boundary(min, span, n, i) == min + ((span * i) \div n) - 1

AlwaysTargetChunks(span) == TargetChunks
RangeChunks(span) == IF span < TargetChunks THEN span ELSE TargetChunks

(* planIntegerRange: n chunks of equal width over MIN..MAX. *)
PlanRange(min, max) ==
  /\ phase = "plan" /\ bounds = <<>>
  /\ min \in source /\ max \in source
  /\ \A k \in source : min <= k /\ k <= max
  /\ LET span == max - min + 1
         n == RangeChunks(span)
     IN  /\ bounds' = [i \in 1..(n - 1) |-> Boundary(min, span, n, i)]
         /\ StartReading(n)

MayPlan == Len(bounds) < TargetChunks * 4

(* planKeysetBoundaries: the step-th key above the last boundary.  The step
   follows from the row estimate, which may be anything; here it may even
   change from boundary to boundary. *)
Beyond == {k \in source : bounds = <<>> \/ k > bounds[Len(bounds)]}

PlanStep(k) ==
  /\ phase = "plan"
  /\ TargetChunks > 1 /\ MayPlan
  /\ k \in Beyond
  /\ Cardinality({j \in Beyond : j <= k}) >= MinStep
  /\ bounds' = Append(bounds, k)
  /\ UNCHANGED <<twoPhase, source, stable, changes, phase, readVars>>

(* No row at the offset, too many boundaries, or few rows: one chunk more. *)
PlanEnd ==
  /\ phase = "plan"
  /\ UNCHANGED bounds
  /\ StartReading(Len(bounds) + 1)

-----------------------------------------------------------------------------
(* chunkReader. *)

StartIncluded(i, k) == i = 1 \/ k >= bounds[i - 1]
AfterStart(i, k) == i = 1 \/ k > bounds[i - 1]
UpToEnd(i, k) == i = Len(bounds) + 1 \/ k <= bounds[i]

(* buildWhere: the cursor, or Start when there is none; and End. *)
InWindow(i, k) ==
  /\ IF cursor[i] = NoCursor THEN AfterStart(i, k) ELSE k > cursor[i]
  /\ UpToEnd(i, k)

Window(i) == {k \in source : InWindow(i, k)}
UpTo(S, x) == {k \in S : k <= x}

CursorAtLastQueried(S, x) == CHOOSE k \in S : \A j \in S : j <= k
CursorAtLastRead(S, x) == x

Emit(S) == emitted' = [k \in Keys |-> IF k \in S THEN emitted[k] + 1 ELSE emitted[k]]

Reading(i) == phase = "read" /\ i \in Chunks \ done /\ probed[i] = {}

(* nextKeysetBatch: the rows up to x.  Only a scan that met the end of the
   rows, with neither limit reached, ends the chunk at once. *)
ReadBatch(i, x) ==
  /\ Reading(i) /\ ~twoPhase
  /\ x \in Window(i)
  /\ Cardinality(UpTo(Window(i), x)) <= BatchRows
  /\ Emit(UpTo(Window(i), x))
  /\ cursor' = [cursor EXCEPT ![i] = CursorAtLastRead(Window(i), x)]
  /\ \/ UNCHANGED done
     \/ /\ UpTo(Window(i), x) = Window(i) /\ Cardinality(Window(i)) < BatchRows
        /\ done' = done \cup {i}
  /\ UNCHANGED <<twoPhase, source, stable, changes, planVars, probed, tail>>

ReadNothing(i) ==
  /\ Reading(i)
  /\ Window(i) = {}
  /\ done' = done \cup {i}
  /\ UNCHANGED <<twoPhase, source, stable, changes, planVars, cursor, probed, tail, emitted>>

(* nextTwoPhaseKeysetBatch, phase 1: the keys, limited by BatchRows only. *)
Probe(i, x) ==
  /\ Reading(i) /\ twoPhase
  /\ x \in Window(i)
  /\ LET S == UpTo(Window(i), x)
     IN  /\ Cardinality(S) = BatchRows \/ (S = Window(i) /\ Cardinality(S) < BatchRows)
         /\ probed' = [probed EXCEPT ![i] = S]
         /\ tail' = [tail EXCEPT ![i] = Cardinality(S) < BatchRows]
  /\ UNCHANGED <<twoPhase, source, stable, changes, planVars, cursor, done, emitted>>

(* Phase 2: of the probed rows those still there, up to x. *)
Fetch(i, x) ==
  /\ phase = "read" /\ i \in Chunks \ done
  /\ x \in probed[i] \cap source
  /\ LET rows == probed[i] \cap source
     IN  /\ Emit(UpTo(rows, x))
         /\ \/ UNCHANGED done
            \/ UpTo(rows, x) = rows /\ tail[i] /\ done' = done \cup {i}
  /\ cursor' = [cursor EXCEPT ![i] = x]
  /\ probed' = [probed EXCEPT ![i] = {}]
  /\ UNCHANGED <<twoPhase, source, stable, changes, planVars, tail>>

(* None is there any more: the cursor moves past the probe and no batch is
   returned, which readChunk takes for the end of the chunk. *)
FetchNothing(i, x) ==
  /\ phase = "read" /\ i \in Chunks \ done
  /\ x \in probed[i] /\ UpTo(probed[i], x) = probed[i]
  /\ probed[i] \cap source = {}
  /\ cursor' = [cursor EXCEPT ![i] = x]
  /\ probed' = [probed EXCEPT ![i] = {}]
  /\ done' = done \cup {i}
  /\ UNCHANGED <<twoPhase, source, stable, changes, planVars, tail, emitted>>

-----------------------------------------------------------------------------
Next ==
  \/ \E k \in Keys : Delete(k) \/ Insert(k)
  \/ \E min, max \in Keys : PlanRange(min, max)
  \/ \E k \in Keys : PlanStep(k)
  \/ PlanEnd
  \/ \E i \in Chunks : ReadNothing(i)
  \/ \E i \in Chunks, x \in Keys : ReadBatch(i, x)
  \/ \E i \in Chunks, x \in Keys : Probe(i, x)
  \/ \E i \in Chunks, x \in Keys : Fetch(i, x)
  \/ \E i \in Chunks, x \in Keys : FetchNothing(i, x)

Spec == Init /\ [][Next]_vars

-----------------------------------------------------------------------------
(* Types.  The boundaries increase strictly: no chunk is empty by its limits,
   and two chunks share no key. *)
TypeOK ==
  /\ twoPhase \in TwoPhases
  /\ source \subseteq Keys
  /\ stable \subseteq source
  /\ changes \in 0..MaxChanges
  /\ phase \in {"plan", "read"}
  /\ bounds \in Seq(Int) /\ Len(bounds) <= TargetChunks * 4
  /\ \A i, j \in 1..Len(bounds) : i < j => bounds[i] < bounds[j]
  /\ phase = "read" => /\ cursor \in [Chunks -> Keys \cup {NoCursor}]
                       /\ probed \in [Chunks -> SUBSET Keys]
                       /\ tail \in [Chunks -> BOOLEAN]
  /\ done \subseteq Chunks
  /\ emitted \in [Keys -> Nat]

(* No row is read twice, in one chunk or in two, whatever the application
   inserts and deletes meanwhile: rows are written with a plain INSERT. *)
KeyOnce == \A k \in Keys : emitted[k] <= 1

AllRead == phase = "read" /\ done = Chunks

(* A row that is in the table all the time is read. *)
StableRowsRead == AllRead => \A k \in stable : emitted[k] = 1

(* The same for a table that is read in one query per batch. *)
PlainReadsStable == ~twoPhase => StableRowsRead
=============================================================================
