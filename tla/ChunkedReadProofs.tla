------------------------- MODULE ChunkedReadProofs -------------------------
(***************************************************************************)
(* Theorems of ChunkedRead, for any set of integer keys, any plan the two  *)
(* planners may produce and any changes by the application.                *)
(*                                                                         *)
(* KeyOnce needs three facts: the boundaries increase, so that the chunks  *)
(* share no key (Disjoint); a cursor stays inside its chunk (CursorInv);   *)
(* and a key that was emitted is behind the cursor of its chunk (EmitInv), *)
(* while a probed key is ahead of it (ProbeInv).                           *)
(*                                                                         *)
(* PlainReadsStable needs the converse (PlainInv): without two phases, a   *)
(* row that never left the table and is behind the cursor of its chunk was *)
(* emitted, and a finished chunk has all of its lasting rows behind its    *)
(* cursor; and every key is in some chunk (Covered).                       *)
(***************************************************************************)
EXTENDS ChunkedRead, WellFoundedInduction, TLAPS

Increasing == \A i, j \in 1..Len(bounds) : i < j => bounds[i] < bounds[j]

-----------------------------------------------------------------------------
(* Integer division keeps a distance of n strict. *)
LEMMA DivStrict ==
  ASSUME NEW a \in Int, NEW b \in Int, NEW n \in Nat \ {0}, a + n <= b
  PROVE  a \div n < b \div n
<1> DEFINE q == a \div n
           p == b \div n
<1>1. q \in Int /\ p \in Int
  OBVIOUS
<1>2. n * q <= a /\ a < n * q + n
  OBVIOUS
<1>3. n * p <= b /\ b < n * p + n
  OBVIOUS
<1>4. n * q < n * p
  BY <1>1, <1>2, <1>3
<1> HIDE DEF q, p
<1>5. q < p
  BY <1>1, <1>4
<1> QED
  BY <1>5 DEF q, p

(* The boundaries of planIntegerRange increase as long as there are at least
   as many values as chunks. *)
LEMMA BoundariesIncrease ==
  ASSUME NEW min \in Int, NEW span \in Int, NEW n \in Nat \ {0}, n <= span,
         NEW i \in Nat, NEW j \in Nat, i < j
  PROVE  Boundary(min, span, n, i) < Boundary(min, span, n, j)
<1>1. span * j >= span * (i + 1)
  OBVIOUS
<1>2. span * (i + 1) = span * i + span
  OBVIOUS
<1>3. span * i + n <= span * j
  BY <1>1, <1>2
<1>4. (span * i) \div n < (span * j) \div n
  BY <1>3, DivStrict
<1>5. (span * i) \div n \in Int /\ (span * j) \div n \in Int
  OBVIOUS
<1> QED
  BY <1>4, <1>5 DEF Boundary

-----------------------------------------------------------------------------
LEMMA TypeInit == Init => TypeOK
  BY ChunkedReadAssumption DEF ChunkedReadAssumption, Init, TypeOK, Chunks

LEMMA StartReadingTypes ==
  ASSUME NEW n \in Nat, StartReading(n), n = Len(bounds') + 1
  PROVE  /\ phase' = "read"
         /\ cursor' \in [Chunks' -> Keys \cup {NoCursor}]
         /\ probed' \in [Chunks' -> SUBSET Keys]
         /\ tail' \in [Chunks' -> BOOLEAN]
  BY DEF StartReading, Chunks

(* The plan of PlanRange has n - 1 increasing boundaries. *)
LEMMA PlanRangeBounds ==
  ASSUME TypeOK, NEW min \in Keys, NEW max \in Keys, PlanRange(min, max)
  PROVE  LET n == RangeChunks(max - min + 1)
         IN  /\ n \in Nat /\ n >= 1 /\ n <= TargetChunks
             /\ bounds' \in Seq(Int) /\ Len(bounds') = n - 1
             /\ Increasing'
<1> DEFINE span == max - min + 1
           n == RangeChunks(span)
<1>1. min \in Int /\ max \in Int /\ TargetChunks \in Nat \ {0}
  BY ChunkedReadAssumption DEF ChunkedReadAssumption
<1>2. min <= max
  BY <1>1 DEF PlanRange
<1>3. span \in Int /\ n \in Nat \ {0} /\ n <= span /\ n <= TargetChunks
  BY <1>1, <1>2 DEF RangeChunks
<1>4. bounds' = [i \in 1..(n - 1) |-> Boundary(min, span, n, i)]
  BY DEF PlanRange
<1> HIDE DEF span, n
<1>5. \A i \in 1..(n - 1) : Boundary(min, span, n, i) \in Int
  BY <1>1, <1>3 DEF Boundary
<1>6. bounds' \in Seq(Int) /\ Len(bounds') = n - 1
  BY <1>3, <1>4, <1>5
<1>7. ASSUME NEW i \in 1..(n - 1), NEW j \in 1..(n - 1), i < j
      PROVE  bounds'[i] < bounds'[j]
  <2>1. bounds'[i] = Boundary(min, span, n, i) /\ bounds'[j] = Boundary(min, span, n, j)
    BY <1>4
  <2> QED BY <1>1, <1>3, <1>7, <2>1, BoundariesIncrease
<1>8. Increasing'
  BY <1>6, <1>7 DEF Increasing
<1> QED
  BY <1>3, <1>6, <1>8 DEF n, span

LEMMA TypeStep == TypeOK /\ [Next]_vars => TypeOK'
<1> SUFFICES ASSUME TypeOK, [Next]_vars PROVE TypeOK'
  OBVIOUS
<1> USE ChunkedReadAssumption DEF ChunkedReadAssumption
<1>1. ASSUME NEW k \in Keys, Delete(k) PROVE TypeOK'
  BY <1>1 DEF Delete, Change, TypeOK, Chunks, planVars, readVars
<1>2. ASSUME NEW k \in Keys, Insert(k) PROVE TypeOK'
  BY <1>2 DEF Insert, Change, TypeOK, Chunks, planVars, readVars
<1>3. ASSUME NEW min \in Keys, NEW max \in Keys, PlanRange(min, max) PROVE TypeOK'
  <2> DEFINE n == RangeChunks(max - min + 1)
  <2>1. /\ n \in Nat /\ n >= 1 /\ n <= TargetChunks
        /\ bounds' \in Seq(Int) /\ Len(bounds') = n - 1 /\ Increasing'
    BY <1>3, PlanRangeBounds
  <2>2. StartReading(n)
    BY <1>3 DEF PlanRange
  <2> HIDE DEF n
  <2>3. /\ phase' = "read"
        /\ cursor' \in [Chunks' -> Keys \cup {NoCursor}]
        /\ probed' \in [Chunks' -> SUBSET Keys]
        /\ tail' \in [Chunks' -> BOOLEAN]
    BY <2>1, <2>2, StartReadingTypes
  <2>4. UNCHANGED <<twoPhase, source, stable, changes, done, emitted>>
    BY <2>2 DEF StartReading
  <2>5. done' \subseteq Chunks'
    <3>1. done \subseteq 1..1
      BY <1>3 DEF TypeOK, PlanRange, Chunks
    <3> QED BY <2>1, <2>4, <3>1 DEF Chunks
  <2> QED BY <2>1, <2>3, <2>4, <2>5 DEF TypeOK, Increasing
<1>4. ASSUME NEW k \in Keys, PlanStep(k) PROVE TypeOK'
  <2>1. bounds' \in Seq(Int) /\ Len(bounds') = Len(bounds) + 1 /\ Len(bounds') <= TargetChunks * 4
    BY <1>4 DEF PlanStep, MayPlan, TypeOK
  <2>2. \A i \in 1..Len(bounds) : bounds'[i] = bounds[i]
    BY <1>4 DEF PlanStep, TypeOK
  <2>3. bounds'[Len(bounds')] = k
    BY <1>4, <2>1 DEF PlanStep, TypeOK
  <2>4. ASSUME NEW i \in 1..Len(bounds) PROVE bounds[i] < k
    <3>1. bounds # <<>> /\ Len(bounds) \in Nat /\ Len(bounds) \in 1..Len(bounds)
      BY DEF TypeOK
    <3>2. k > bounds[Len(bounds)]
      BY <1>4, <3>1 DEF PlanStep, Beyond
    <3>3. i = Len(bounds) \/ bounds[i] < bounds[Len(bounds)]
      BY <3>1 DEF TypeOK
    <3>4. bounds[i] \in Int /\ bounds[Len(bounds)] \in Int /\ k \in Int
      BY <3>1 DEF TypeOK
    <3> QED BY <3>2, <3>3, <3>4
  <2>5. \A i, j \in 1..Len(bounds') : i < j => bounds'[i] < bounds'[j]
    <3> SUFFICES ASSUME NEW i \in 1..Len(bounds'), NEW j \in 1..Len(bounds'), i < j
                 PROVE  bounds'[i] < bounds'[j]
      OBVIOUS
    <3>0. Len(bounds) \in Nat
      BY DEF TypeOK
    <3>1. i \in 1..Len(bounds) /\ (j \in 1..Len(bounds) \/ j = Len(bounds'))
      <4>1. Len(bounds') = Len(bounds) + 1
        BY <2>1
      <4> QED BY <3>0, <4>1
    <3>2. CASE j \in 1..Len(bounds)
      BY <2>2, <3>1, <3>2 DEF TypeOK
    <3>3. CASE j = Len(bounds')
      BY <2>2, <2>3, <2>4, <3>1, <3>3
    <3> QED BY <3>1, <3>2, <3>3
  <2>6. done' \subseteq Chunks'
    BY <1>4, <2>1 DEF PlanStep, Chunks, TypeOK, readVars
  <2> QED BY <1>4, <2>1, <2>5, <2>6 DEF PlanStep, TypeOK, readVars
<1>5. CASE PlanEnd
  <2>1. Len(bounds) + 1 \in Nat /\ bounds' = bounds
    BY <1>5 DEF PlanEnd, TypeOK
  <2>2. /\ phase' = "read"
        /\ cursor' \in [Chunks' -> Keys \cup {NoCursor}]
        /\ probed' \in [Chunks' -> SUBSET Keys]
        /\ tail' \in [Chunks' -> BOOLEAN]
    BY <1>5, <2>1, StartReadingTypes DEF PlanEnd
  <2> QED BY <1>5, <2>1, <2>2 DEF PlanEnd, StartReading, TypeOK, Chunks
<1>6. ASSUME NEW i \in Chunks, ReadNothing(i) PROVE TypeOK'
  BY <1>6 DEF ReadNothing, Reading, TypeOK, Chunks, planVars
<1>7. ASSUME NEW i \in Chunks, NEW x \in Keys, ReadBatch(i, x) PROVE TypeOK'
  <2>1. /\ UNCHANGED <<twoPhase, source, stable, changes, phase, bounds, probed, tail>>
        /\ phase = "read"
    BY <1>7 DEF ReadBatch, Reading, planVars
  <2>2. emitted' \in [Keys -> Nat]
    BY <1>7 DEF ReadBatch, Emit, TypeOK
  <2>3. cursor' \in [Chunks -> Keys \cup {NoCursor}]
    BY <1>7, <2>1 DEF ReadBatch, CursorAtLastRead, TypeOK
  <2>4. done' \subseteq Chunks
    BY <1>7 DEF ReadBatch, TypeOK
  <2> QED BY <2>1, <2>2, <2>3, <2>4 DEF TypeOK, Chunks
<1>8. ASSUME NEW i \in Chunks, NEW x \in Keys, Probe(i, x) PROVE TypeOK'
  <2>1. /\ UNCHANGED <<twoPhase, source, stable, changes, phase, bounds, cursor, done, emitted>>
        /\ phase = "read"
    BY <1>8 DEF Probe, Reading, planVars
  <2>2. UpTo(Window(i), x) \subseteq Keys
    BY DEF UpTo, Window, TypeOK
  <2>3. probed' \in [Chunks -> SUBSET Keys]
    BY <1>8, <2>1, <2>2 DEF Probe, TypeOK
  <2>4. tail' \in [Chunks -> BOOLEAN]
    <3>1. tail \in [Chunks -> BOOLEAN]
      BY <2>1 DEF TypeOK
    <3>2. (Cardinality(UpTo(Window(i), x)) < BatchRows) \in BOOLEAN
      OBVIOUS
    <3>3. PICK v \in BOOLEAN : tail' = [tail EXCEPT ![i] = v]
      BY <1>8, <3>2, Zenon DEF Probe
    <3> QED BY <3>1, <3>3, Zenon
  <2> QED BY <2>1, <2>3, <2>4 DEF TypeOK, Chunks
<1>9. ASSUME NEW i \in Chunks, NEW x \in Keys, Fetch(i, x) PROVE TypeOK'
  <2>1. /\ UNCHANGED <<twoPhase, source, stable, changes, phase, bounds, tail>>
        /\ phase = "read"
    BY <1>9 DEF Fetch, planVars
  <2>2. emitted' \in [Keys -> Nat]
    BY <1>9 DEF Fetch, Emit, TypeOK
  <2>3. cursor' \in [Chunks -> Keys \cup {NoCursor}] /\ probed' \in [Chunks -> SUBSET Keys]
    BY <1>9, <2>1 DEF Fetch, TypeOK
  <2>4. done' \subseteq Chunks
    BY <1>9 DEF Fetch, TypeOK
  <2> QED BY <2>1, <2>2, <2>3, <2>4 DEF TypeOK, Chunks
<1>10. ASSUME NEW i \in Chunks, NEW x \in Keys, FetchNothing(i, x) PROVE TypeOK'
  BY <1>10 DEF FetchNothing, TypeOK, Chunks, planVars
<1>11. CASE UNCHANGED vars
  BY <1>11 DEF vars, planVars, readVars, TypeOK, Chunks
<1> QED
  BY <1>1, <1>2, <1>3, <1>4, <1>5, <1>6, <1>7, <1>8, <1>9, <1>10, <1>11 DEF Next

(* Types, and boundaries that increase strictly whichever planner made them. *)
THEOREM TypeCorrect == Spec => []TypeOK
  BY TypeInit, TypeStep, PTL DEF Spec

-----------------------------------------------------------------------------
(* The chunk a key belongs to, and whether its cursor has reached the key. *)
Covers(i, k) == AfterStart(i, k) /\ UpToEnd(i, k)
Passed(i, k) == cursor[i] # NoCursor /\ k <= cursor[i]

EmitInv ==
  \A k \in Keys :
    /\ emitted[k] \in {0, 1}
    /\ emitted[k] # 0 =>
         phase = "read" /\ \E i \in Chunks : Covers(i, k) /\ Passed(i, k)

CursorInv ==
  phase = "read" => \A i \in Chunks : cursor[i] # NoCursor => AfterStart(i, cursor[i])

ProbeInv ==
  phase = "read" =>
    \A i \in Chunks : \A k \in probed[i] : Covers(i, k) /\ ~Passed(i, k)

ReadInv == EmitInv /\ CursorInv /\ ProbeInv

(* Two chunks share no key. *)
LEMMA Disjoint ==
  ASSUME TypeOK, NEW i \in Chunks, NEW j \in Chunks, NEW k \in Keys,
         Covers(i, k), Covers(j, k)
  PROVE  i = j
<1> USE ChunkedReadAssumption DEF ChunkedReadAssumption
<1>1. ASSUME NEW a \in Chunks, NEW b \in Chunks, a < b, Covers(a, k), Covers(b, k)
      PROVE  FALSE
  <2>1. Len(bounds) \in Nat /\ a \in 1..Len(bounds) /\ b - 1 \in 1..Len(bounds) /\ a <= b - 1
    BY <1>1 DEF Chunks, TypeOK
  <2>2. k <= bounds[a]
    BY <1>1, <2>1 DEF Covers, UpToEnd
  <2>3. bounds[b - 1] < k
    BY <1>1, <2>1 DEF Covers, AfterStart
  <2>4. a = b - 1 \/ bounds[a] < bounds[b - 1]
    BY <2>1 DEF TypeOK
  <2>5. bounds[a] \in Int /\ bounds[b - 1] \in Int /\ k \in Int
    BY <2>1 DEF TypeOK
  <2> QED BY <2>2, <2>3, <2>4, <2>5
<1>2. i \in Int /\ j \in Int
  BY DEF Chunks, TypeOK
<1> QED BY <1>1, <1>2

(* The window of a chunk: keys of the chunk its cursor has not reached. *)
LEMMA WindowAhead ==
  ASSUME TypeOK, CursorInv, phase = "read", NEW i \in Chunks, NEW k \in Window(i)
  PROVE  k \in Keys /\ Covers(i, k) /\ ~Passed(i, k)
<1> USE ChunkedReadAssumption DEF ChunkedReadAssumption
<1>1. k \in Keys /\ k \in Int /\ UpToEnd(i, k)
  BY DEF Window, InWindow, TypeOK
<1>2. CASE cursor[i] = NoCursor
  BY <1>1, <1>2 DEF Window, InWindow, Covers, Passed
<1>3. CASE cursor[i] # NoCursor
  <2>1. k > cursor[i] /\ AfterStart(i, cursor[i]) /\ cursor[i] \in Int
    BY <1>3 DEF Window, InWindow, CursorInv, TypeOK
  <2>2. i # 1 => bounds[i - 1] \in Int
    BY DEF Chunks, TypeOK
  <2>3. AfterStart(i, k)
    BY <1>1, <2>1, <2>2 DEF AfterStart
  <2> QED BY <1>1, <2>1, <2>3 DEF Covers, Passed
<1> QED BY <1>2, <1>3

(* Emitting keys of one chunk that its cursor has not reached, and moving the
   cursor to or past all of them, keeps EmitInv. *)
LEMMA EmitAhead ==
  ASSUME TypeOK, EmitInv, NEW i \in Chunks, NEW x \in Keys, NEW S \in SUBSET Keys,
         phase = "read", phase' = "read", bounds' = bounds,
         \A k \in S : Covers(i, k) /\ ~Passed(i, k) /\ k <= x,
         cursor' = [cursor EXCEPT ![i] = x], cursor[i] = NoCursor \/ cursor[i] <= x,
         Emit(S)
  PROVE  EmitInv'
<1> USE ChunkedReadAssumption DEF ChunkedReadAssumption
<1>1. cursor \in [Chunks -> Keys \cup {NoCursor}] /\ emitted \in [Keys -> Nat] /\ Chunks' = Chunks
  BY DEF TypeOK, Chunks
<1>2. \A j \in Chunks, k \in Keys : Covers(j, k)' <=> Covers(j, k)
  BY DEF Covers, AfterStart, UpToEnd
<1>3. \A j \in Chunks, k \in Keys : Passed(j, k) => Passed(j, k)'
  <2> SUFFICES ASSUME NEW j \in Chunks, NEW k \in Keys, Passed(j, k) PROVE Passed(j, k)'
    OBVIOUS
  <2>1. k \in Int /\ x \in Int /\ x # NoCursor /\ cursor[j] \in Int
    BY <1>1 DEF Passed
  <2> QED BY <1>1, <2>1 DEF Passed
<1>4. \A k \in S : Passed(i, k)'
  BY <1>1 DEF Passed
<1>5. ASSUME NEW k \in S PROVE emitted[k] = 0
  <2>1. SUFFICES ASSUME emitted[k] # 0 PROVE FALSE
    OBVIOUS
  <2>2. PICK j \in Chunks : Covers(j, k) /\ Passed(j, k)
    BY <2>1 DEF EmitInv
  <2>3. j = i
    BY <2>2, Disjoint
  <2> QED BY <2>2, <2>3
<1>6. ASSUME NEW k \in Keys
      PROVE  /\ emitted'[k] \in {0, 1}
             /\ emitted'[k] # 0 => \E j \in Chunks' : Covers(j, k)' /\ Passed(j, k)'
  <2>1. CASE k \in S
    <3>1. emitted'[k] = 1
      BY <1>5, <2>1 DEF Emit
    <3>2. Covers(i, k)' /\ Passed(i, k)'
      BY <1>2, <1>4, <2>1
    <3> QED BY <1>1, <3>1, <3>2
  <2>2. CASE k \notin S
    <3>1. emitted'[k] = emitted[k]
      BY <2>2 DEF Emit
    <3> QED BY <1>1, <1>2, <1>3, <3>1 DEF EmitInv
  <2> QED BY <2>1, <2>2
<1> QED BY <1>6 DEF EmitInv

(* Moving a cursor to a key of its chunk keeps CursorInv. *)
LEMMA CursorMoves ==
  ASSUME TypeOK, CursorInv, NEW i \in Chunks, NEW x \in Keys, AfterStart(i, x),
         phase = "read", bounds' = bounds, cursor' = [cursor EXCEPT ![i] = x]
  PROVE  CursorInv'
  BY DEF CursorInv, AfterStart, TypeOK, Chunks

(* With the probe of its chunk taken back, so does ProbeInv. *)
LEMMA ProbeTaken ==
  ASSUME TypeOK, ProbeInv, NEW i \in Chunks, NEW x \in Keys,
         phase = "read", bounds' = bounds, cursor' = [cursor EXCEPT ![i] = x],
         probed' = [probed EXCEPT ![i] = {}]
  PROVE  ProbeInv'
  BY DEF ProbeInv, Covers, Passed, AfterStart, UpToEnd, TypeOK, Chunks

LEMMA ReadInit == Init => ReadInv
  BY DEF Init, ReadInv, EmitInv, CursorInv, ProbeInv

LEMMA ReadStep == TypeOK /\ ReadInv /\ [Next]_vars => ReadInv'
<1> SUFFICES ASSUME TypeOK, ReadInv, [Next]_vars PROVE ReadInv'
  OBVIOUS
<1> USE ChunkedReadAssumption DEF ChunkedReadAssumption
<1>0. ASSUME UNCHANGED <<phase, bounds, cursor, probed, emitted>> PROVE ReadInv'
  BY <1>0 DEF ReadInv, EmitInv, CursorInv, ProbeInv, Covers, Passed, AfterStart, UpToEnd, Chunks
<1>a. ASSUME phase = "plan" PROVE \A k \in Keys : emitted[k] = 0
  BY <1>a DEF ReadInv, EmitInv
<1>b. ASSUME NEW n \in Nat, StartReading(n), n = Len(bounds') + 1, phase = "plan" PROVE ReadInv'
  <2>1. Chunks' = 1..n /\ cursor' = [i \in 1..n |-> NoCursor] /\ probed' = [i \in 1..n |-> {}]
    BY <1>b DEF StartReading, Chunks
  <2>2. emitted' = emitted
    BY <1>b DEF StartReading
  <2> QED BY <1>a, <1>b, <2>1, <2>2 DEF ReadInv, EmitInv, CursorInv, ProbeInv
<1>1. ASSUME NEW k \in Keys, Delete(k) PROVE ReadInv'
  BY <1>0, <1>1 DEF Delete, Change, planVars, readVars
<1>2. ASSUME NEW k \in Keys, Insert(k) PROVE ReadInv'
  BY <1>0, <1>2 DEF Insert, Change, planVars, readVars
<1>3. ASSUME NEW min \in Keys, NEW max \in Keys, PlanRange(min, max) PROVE ReadInv'
  <2> DEFINE n == RangeChunks(max - min + 1)
  <2>1. n \in Nat /\ n >= 1 /\ Len(bounds') = n - 1
    BY <1>3, PlanRangeBounds
  <2>2. StartReading(n) /\ phase = "plan"
    BY <1>3 DEF PlanRange
  <2> HIDE DEF n
  <2> QED BY <1>b, <2>1, <2>2
<1>4. ASSUME NEW k \in Keys, PlanStep(k) PROVE ReadInv'
  <2>1. phase = "plan" /\ phase' = "plan" /\ emitted' = emitted
    BY <1>4 DEF PlanStep, readVars
  <2> QED BY <1>a, <2>1 DEF ReadInv, EmitInv, CursorInv, ProbeInv
<1>5. CASE PlanEnd
  <2>1. Len(bounds) + 1 \in Nat /\ bounds' = bounds /\ phase = "plan" /\ StartReading(Len(bounds) + 1)
    BY <1>5 DEF PlanEnd, TypeOK
  <2> QED BY <1>b, <2>1
<1>6. ASSUME NEW i \in Chunks, ReadNothing(i) PROVE ReadInv'
  BY <1>0, <1>6 DEF ReadNothing, planVars
<1>7. ASSUME NEW i \in Chunks, NEW x \in Keys, ReadBatch(i, x) PROVE ReadInv'
  <2> DEFINE S == UpTo(Window(i), x)
  <2>1. /\ phase = "read" /\ probed[i] = {} /\ x \in Window(i) /\ Emit(S)
        /\ cursor' = [cursor EXCEPT ![i] = x]
        /\ UNCHANGED <<phase, bounds, probed>>
    BY <1>7 DEF ReadBatch, Reading, CursorAtLastRead, planVars
  <2>2. \A k \in Window(i) : k \in Keys /\ Covers(i, k) /\ ~Passed(i, k)
    BY <2>1, WindowAhead DEF ReadInv
  <2>3. S \in SUBSET Keys /\ \A k \in S : Covers(i, k) /\ ~Passed(i, k) /\ k <= x
    BY <2>2 DEF UpTo
  <2>4. AfterStart(i, x) /\ (cursor[i] = NoCursor \/ cursor[i] <= x)
    <3>1. cursor[i] \in Keys \cup {NoCursor}
      BY <2>1 DEF TypeOK
    <3>2. Covers(i, x) /\ ~Passed(i, x)
      BY <2>1, <2>2
    <3>3. AfterStart(i, x)
      BY <3>2 DEF Covers
    <3>4. cursor[i] = NoCursor \/ ~(x <= cursor[i])
      BY <3>2 DEF Passed
    <3>5. x \in Int /\ (cursor[i] = NoCursor \/ cursor[i] \in Int)
      BY <3>1
    <3> QED BY <3>3, <3>4, <3>5
  <2> HIDE DEF S
  <2>5. EmitInv'
    BY <2>1, <2>3, <2>4, EmitAhead DEF ReadInv
  <2>6. CursorInv'
    BY <2>1, <2>4, CursorMoves DEF ReadInv
  <2>7. probed' = [probed EXCEPT ![i] = {}]
    BY <2>1 DEF TypeOK
  <2>8. ProbeInv'
    BY <2>1, <2>7, ProbeTaken DEF ReadInv
  <2> QED BY <2>5, <2>6, <2>8 DEF ReadInv
<1>8. ASSUME NEW i \in Chunks, NEW x \in Keys, Probe(i, x) PROVE ReadInv'
  <2>1. /\ phase = "read" /\ probed' = [probed EXCEPT ![i] = UpTo(Window(i), x)]
        /\ UNCHANGED <<phase, bounds, cursor, emitted>>
    BY <1>8 DEF Probe, Reading, planVars
  <2>2. \A k \in UpTo(Window(i), x) : Covers(i, k) /\ ~Passed(i, k)
    BY <2>1, WindowAhead DEF ReadInv, UpTo
  <2>3. EmitInv' /\ CursorInv'
    BY <2>1 DEF ReadInv, EmitInv, CursorInv, Covers, Passed, AfterStart, UpToEnd, Chunks
  <2>4. ProbeInv'
    BY <2>1, <2>2 DEF ReadInv, ProbeInv, Covers, Passed, AfterStart, UpToEnd, Chunks, TypeOK
  <2> QED BY <2>3, <2>4 DEF ReadInv
<1>9. ASSUME NEW i \in Chunks, NEW x \in Keys, Fetch(i, x) PROVE ReadInv'
  <2> DEFINE S == UpTo(probed[i] \cap source, x)
  <2>1. /\ phase = "read" /\ x \in probed[i] /\ Emit(S)
        /\ cursor' = [cursor EXCEPT ![i] = x]
        /\ probed' = [probed EXCEPT ![i] = {}]
        /\ UNCHANGED <<phase, bounds>>
    BY <1>9 DEF Fetch, planVars
  <2>2. \A k \in probed[i] : k \in Keys /\ Covers(i, k) /\ ~Passed(i, k)
    BY <2>1 DEF ReadInv, ProbeInv, TypeOK
  <2>3. S \in SUBSET Keys /\ \A k \in S : Covers(i, k) /\ ~Passed(i, k) /\ k <= x
    BY <2>2 DEF UpTo
  <2>4. AfterStart(i, x) /\ (cursor[i] = NoCursor \/ cursor[i] <= x)
    <3>1. cursor[i] \in Keys \cup {NoCursor}
      BY <2>1 DEF TypeOK
    <3>2. Covers(i, x) /\ ~Passed(i, x)
      BY <2>1, <2>2
    <3>3. AfterStart(i, x)
      BY <3>2 DEF Covers
    <3>4. cursor[i] = NoCursor \/ ~(x <= cursor[i])
      BY <3>2 DEF Passed
    <3>5. x \in Int /\ (cursor[i] = NoCursor \/ cursor[i] \in Int)
      BY <3>1
    <3> QED BY <3>3, <3>4, <3>5
  <2> HIDE DEF S
  <2>5. EmitInv'
    BY <2>1, <2>3, <2>4, EmitAhead DEF ReadInv
  <2>6. CursorInv'
    BY <2>1, <2>4, CursorMoves DEF ReadInv
  <2>7. ProbeInv'
    BY <2>1, ProbeTaken DEF ReadInv
  <2> QED BY <2>5, <2>6, <2>7 DEF ReadInv
<1>10. ASSUME NEW i \in Chunks, NEW x \in Keys, FetchNothing(i, x) PROVE ReadInv'
  <2>1. /\ phase = "read" /\ x \in probed[i]
        /\ cursor' = [cursor EXCEPT ![i] = x]
        /\ probed' = [probed EXCEPT ![i] = {}]
        /\ UNCHANGED <<phase, bounds, emitted>>
    BY <1>10 DEF FetchNothing, planVars
  <2>2. Covers(i, x) /\ ~Passed(i, x)
    BY <2>1 DEF ReadInv, ProbeInv
  <2>3. AfterStart(i, x) /\ (cursor[i] = NoCursor \/ cursor[i] <= x)
    <3>1. cursor[i] \in Keys \cup {NoCursor}
      BY <2>1 DEF TypeOK
    <3>2. Covers(i, x) /\ ~Passed(i, x)
      BY <2>1, <2>2
    <3>3. AfterStart(i, x)
      BY <3>2 DEF Covers
    <3>4. cursor[i] = NoCursor \/ ~(x <= cursor[i])
      BY <3>2 DEF Passed
    <3>5. x \in Int /\ (cursor[i] = NoCursor \/ cursor[i] \in Int)
      BY <3>1
    <3> QED BY <3>3, <3>4, <3>5
  <2>4. Emit({})
    BY <2>1 DEF Emit, TypeOK
  <2>5. EmitInv'
    BY <2>1, <2>3, <2>4, EmitAhead DEF ReadInv
  <2>6. CursorInv'
    BY <2>1, <2>3, CursorMoves DEF ReadInv
  <2>7. ProbeInv'
    BY <2>1, ProbeTaken DEF ReadInv
  <2> QED BY <2>5, <2>6, <2>7 DEF ReadInv
<1>11. CASE UNCHANGED vars
  BY <1>0, <1>11 DEF vars, planVars, readVars
<1> QED
  BY <1>1, <1>2, <1>3, <1>4, <1>5, <1>6, <1>7, <1>8, <1>9, <1>10, <1>11 DEF Next

(* No row is read twice, whatever the plan and whatever the application
   inserts and deletes between the queries. *)
THEOREM NoKeyTwice == Spec => []KeyOnce
<1>1. ReadInv => KeyOnce
  BY DEF ReadInv, EmitInv, KeyOnce
<1> QED
  BY <1>1, TypeInit, TypeStep, ReadInit, ReadStep, PTL DEF Spec

-----------------------------------------------------------------------------
(* A set of naturals has a least member. *)
LEMMA LeastNat ==
  ASSUME NEW S \in SUBSET Nat, S # {}
  PROVE  \E m \in S : \A x \in S : m <= x
<1>1. PICK m \in S : \A x \in S : ~ (<<x, m>> \in OpToRel(<, Nat))
  BY NatLessThanWellFounded, WFMin
<1>2. \A x \in S : ~ (x < m)
  BY <1>1 DEF OpToRel
<1> QED BY <1>2

(* The chunks leave no gap. *)
LEMMA Covered ==
  ASSUME TypeOK, NEW k \in Keys
  PROVE  \E i \in Chunks : Covers(i, k)
<1> USE ChunkedReadAssumption DEF ChunkedReadAssumption
<1> DEFINE E == {i \in Chunks : UpToEnd(i, k)}
<1>1. Len(bounds) \in Nat /\ Len(bounds) + 1 \in E /\ E \subseteq Nat
  BY DEF TypeOK, Chunks, UpToEnd
<1>2. PICK i \in E : \A j \in E : i <= j
  BY <1>1, LeastNat
<1>3. AfterStart(i, k)
  <2>1. CASE i = 1
    BY <2>1 DEF AfterStart
  <2>2. CASE i # 1
    <3>1. i - 1 \in 1..Len(bounds) /\ i - 1 \in Chunks /\ i - 1 \notin E
      BY <1>1, <1>2, <2>2 DEF Chunks
    <3>2. ~ (k <= bounds[i - 1])
      BY <3>1 DEF UpToEnd
    <3>3. k \in Int /\ bounds[i - 1] \in Int
      BY <3>1 DEF TypeOK
    <3> QED BY <3>2, <3>3 DEF AfterStart
  <2> QED BY <2>1, <2>2
<1> QED BY <1>3 DEF Covers

(* What the plain queries have behind them, of the rows that stayed. *)
PlainInv ==
  /\ phase = "plan" => done = {}
  /\ ~twoPhase /\ phase = "read" =>
       /\ \A i \in Chunks : probed[i] = {}
       /\ \A i \in Chunks, k \in stable :
            Covers(i, k) => /\ Passed(i, k) => emitted[k] # 0
                            /\ i \in done => Passed(i, k)

(* A chunk whose window is empty has passed all of its rows. *)
LEMMA NothingAhead ==
  ASSUME TypeOK, phase = "read", NEW i \in Chunks, Window(i) = {},
         NEW k \in source, Covers(i, k)
  PROVE  Passed(i, k)
<1> USE ChunkedReadAssumption DEF ChunkedReadAssumption
<1>1. ~InWindow(i, k) /\ AfterStart(i, k) /\ UpToEnd(i, k)
  BY DEF Window, Covers
<1>2. cursor[i] # NoCursor /\ ~ (k > cursor[i])
  BY <1>1 DEF InWindow
<1>3. k \in Int /\ cursor[i] \in Int
  BY <1>2 DEF TypeOK
<1> QED BY <1>2, <1>3 DEF Passed

(* A batch takes every row of the chunk between the old cursor and the new. *)
LEMMA PlainBatch ==
  ASSUME TypeOK, ReadInv, PlainInv, ~twoPhase,
         NEW i \in Chunks, NEW x \in Keys, ReadBatch(i, x)
  PROVE  PlainInv'
<1> USE ChunkedReadAssumption DEF ChunkedReadAssumption
<1> DEFINE S == UpTo(Window(i), x)
<1>1. /\ phase = "read" /\ x \in Window(i) /\ Emit(S)
      /\ cursor' = [cursor EXCEPT ![i] = x]
      /\ done' = done \/ (S = Window(i) /\ done' = done \cup {i})
      /\ i \notin done
      /\ UNCHANGED <<phase, bounds, stable, probed, twoPhase>>
  BY DEF ReadBatch, Reading, CursorAtLastRead, planVars
<1>2. /\ cursor \in [Chunks -> Keys \cup {NoCursor}] /\ emitted \in [Keys -> Nat]
      /\ Chunks' = Chunks /\ stable \subseteq Keys /\ stable \subseteq source
  BY <1>1 DEF TypeOK, Chunks
<1>3. \A j \in Chunks, k \in Keys : Covers(j, k)' <=> Covers(j, k)
  BY <1>1 DEF Covers, AfterStart, UpToEnd
<1>4. \A k \in Keys : emitted[k] # 0 => emitted'[k] # 0
  BY <1>1, <1>2 DEF Emit
<1>5. ASSUME NEW k \in stable, Covers(i, k)
      PROVE  /\ Passed(i, k)' => emitted'[k] # 0
             /\ i \in done' => Passed(i, k)'
  <2>1. k \in Int /\ x \in Int /\ x # NoCursor /\ cursor'[i] = x
    BY <1>1, <1>2
  <2>2. CASE Passed(i, k)
    <3>1. emitted[k] # 0
      BY <1>1, <1>5, <2>2 DEF PlainInv
    <3>2. ~Passed(i, x)
      BY <1>1, WindowAhead DEF ReadInv
    <3>3. k <= x
      <4>1. cursor[i] # NoCursor /\ k <= cursor[i] /\ ~(x <= cursor[i])
        BY <2>2, <3>2 DEF Passed
      <4>2. cursor[i] \in Int
        BY <4>1, <1>2
      <4> QED BY <2>1, <4>1, <4>2
    <3> QED BY <1>4, <1>2, <2>1, <3>1, <3>3 DEF Passed
  <2>3. CASE ~Passed(i, k)
    <3>1. k \in Window(i)
      <4>1. AfterStart(i, k) /\ UpToEnd(i, k)
        BY <1>5 DEF Covers
      <4>2. cursor[i] = NoCursor \/ (cursor[i] \in Int /\ ~ (k <= cursor[i]))
        BY <1>2, <2>3 DEF Passed
      <4>3. cursor[i] = NoCursor \/ k > cursor[i]
        BY <2>1, <4>2
      <4> QED BY <1>2, <4>1, <4>3 DEF Window, InWindow
    <3>2. k <= x => emitted'[k] = emitted[k] + 1
      BY <1>1, <1>2, <3>1 DEF Emit, UpTo
    <3>3. k <= x => emitted'[k] # 0
      BY <1>2, <3>2
    <3>4. S = Window(i) => k <= x
      BY <3>1 DEF UpTo
    <3>5. i \in done' => k <= x
      BY <1>1, <3>4
    <3> QED BY <2>1, <3>3, <3>5 DEF Passed
  <2> QED BY <2>2, <2>3
<1>6. ASSUME NEW j \in Chunks, NEW k \in stable, Covers(j, k)
      PROVE  /\ Passed(j, k)' => emitted'[k] # 0
             /\ j \in done' => Passed(j, k)'
  <2>1. CASE j = i
    BY <1>5, <1>6, <2>1
  <2>2. CASE j # i
    <3>1. cursor'[j] = cursor[j] /\ (j \in done' => j \in done)
      BY <1>1, <1>2, <2>2
    <3>2. Passed(j, k)' <=> Passed(j, k)
      BY <3>1 DEF Passed
    <3>3. /\ Passed(j, k) => emitted[k] # 0
          /\ j \in done => Passed(j, k)
      BY <1>1, <1>6 DEF PlainInv
    <3> QED BY <1>2, <1>4, <3>1, <3>2, <3>3
  <2> QED BY <2>1, <2>2
<1>7. stable' = stable /\ phase' = "read" /\ \A j \in Chunks : probed'[j] = {}
  BY <1>1 DEF PlainInv
<1> HIDE DEF S
<1> QED BY <1>2, <1>3, <1>6, <1>7 DEF PlainInv

LEMMA PlainInit == Init => PlainInv
  BY DEF Init, PlainInv

LEMMA PlainStep == TypeOK /\ ReadInv /\ PlainInv /\ [Next]_vars => PlainInv'
<1> SUFFICES ASSUME TypeOK, ReadInv, PlainInv, [Next]_vars PROVE PlainInv'
  OBVIOUS
<1> USE ChunkedReadAssumption DEF ChunkedReadAssumption
<1>0. ASSUME UNCHANGED <<twoPhase, phase, bounds, cursor, probed, done, emitted>>, stable' \subseteq stable
      PROVE  PlainInv'
  BY <1>0 DEF PlainInv, Covers, Passed, AfterStart, UpToEnd, Chunks
<1>a. ASSUME NEW n \in Nat, StartReading(n), n = Len(bounds') + 1, phase = "plan" PROVE PlainInv'
  <2>1. /\ Chunks' = 1..n /\ cursor' = [i \in 1..n |-> NoCursor] /\ probed' = [i \in 1..n |-> {}]
        /\ done' = {} /\ phase' = "read"
    BY <1>a DEF StartReading, Chunks, PlainInv
  <2> QED BY <2>1 DEF PlainInv, Passed
<1>b. ASSUME twoPhase, UNCHANGED twoPhase, phase' = "read" PROVE PlainInv'
  BY <1>b DEF PlainInv
<1>1. ASSUME NEW k \in Keys, Delete(k) PROVE PlainInv'
  BY <1>0, <1>1 DEF Delete, Change, planVars, readVars
<1>2. ASSUME NEW k \in Keys, Insert(k) PROVE PlainInv'
  BY <1>0, <1>2 DEF Insert, Change, planVars, readVars
<1>3. ASSUME NEW min \in Keys, NEW max \in Keys, PlanRange(min, max) PROVE PlainInv'
  <2> DEFINE n == RangeChunks(max - min + 1)
  <2>1. n \in Nat /\ n >= 1 /\ Len(bounds') = n - 1
    BY <1>3, PlanRangeBounds
  <2>2. StartReading(n) /\ phase = "plan"
    BY <1>3 DEF PlanRange
  <2> HIDE DEF n
  <2> QED BY <1>a, <2>1, <2>2
<1>4. ASSUME NEW k \in Keys, PlanStep(k) PROVE PlainInv'
  <2>1. phase = "plan" /\ phase' = "plan" /\ done' = done
    BY <1>4 DEF PlanStep, readVars
  <2> QED BY <2>1 DEF PlainInv
<1>5. CASE PlanEnd
  <2>1. Len(bounds) + 1 \in Nat /\ bounds' = bounds /\ phase = "plan" /\ StartReading(Len(bounds) + 1)
    BY <1>5 DEF PlanEnd, TypeOK
  <2> QED BY <1>a, <2>1
<1>6. ASSUME NEW i \in Chunks, ReadNothing(i) PROVE PlainInv'
  <2>1. /\ phase = "read" /\ Window(i) = {} /\ done' = done \cup {i}
        /\ UNCHANGED <<twoPhase, phase, bounds, cursor, probed, emitted, stable, source>>
    BY <1>6 DEF ReadNothing, Reading, planVars
  <2>2. \A k \in stable : Covers(i, k) => Passed(i, k)
    BY <2>1, NothingAhead DEF TypeOK
  <2> QED BY <2>1, <2>2 DEF PlainInv, Covers, Passed, AfterStart, UpToEnd, Chunks
<1>7. ASSUME NEW i \in Chunks, NEW x \in Keys, ReadBatch(i, x) PROVE PlainInv'
  BY <1>7, PlainBatch DEF ReadBatch
<1>8. ASSUME NEW i \in Chunks, NEW x \in Keys, Probe(i, x) PROVE PlainInv'
  BY <1>b, <1>8 DEF Probe, Reading, planVars
<1>9. ASSUME NEW i \in Chunks, NEW x \in Keys, Fetch(i, x) PROVE PlainInv'
  BY <1>b, <1>9 DEF Fetch, PlainInv, planVars
<1>10. ASSUME NEW i \in Chunks, NEW x \in Keys, FetchNothing(i, x) PROVE PlainInv'
  BY <1>b, <1>10 DEF FetchNothing, PlainInv, planVars
<1>11. CASE UNCHANGED vars
  BY <1>0, <1>11 DEF vars, planVars, readVars
<1> QED
  BY <1>1, <1>2, <1>3, <1>4, <1>5, <1>6, <1>7, <1>8, <1>9, <1>10, <1>11 DEF Next

(* A table that is read in one query per batch loses no row that stays in it
   from the first query to the last, and reads none of them twice. *)
THEOREM PlainKeepsStable == Spec => []PlainReadsStable
<1>1. TypeOK /\ ReadInv /\ PlainInv => PlainReadsStable
  <2> SUFFICES ASSUME TypeOK, ReadInv, PlainInv, ~twoPhase, AllRead, NEW k \in stable
               PROVE  emitted[k] = 1
    BY DEF PlainReadsStable, StableRowsRead
  <2>1. k \in Keys
    BY DEF TypeOK
  <2>2. PICK i \in Chunks : Covers(i, k)
    BY <2>1, Covered
  <2>3. emitted[k] # 0
    BY <2>2 DEF PlainInv, AllRead
  <2> QED BY <2>1, <2>3 DEF ReadInv, EmitInv
<1> QED
  BY <1>1, TypeInit, TypeStep, ReadInit, ReadStep, PlainInit, PlainStep, PTL DEF Spec
=============================================================================
