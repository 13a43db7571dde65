------------------------ MODULE LegacyFullLoadProofs ------------------------
(***************************************************************************)
(* Theorems of LegacyFullLoad and of the frame DeferredIndexes puts around *)
(* it, for any number of tables, indexes, rows and workers.                *)
(*                                                                         *)
(* The frame.  An index that the run took away, or that the source has and *)
(* the run left out, is always in one of three places: on the target, in   *)
(* the list saved for its table, or in what the restore still has to do    *)
(* (Remembered).  A table is "passed" when the loop of phase 1 is beyond   *)
(* it; what holds of the tables is said of the passed ones (UniqueOff).    *)
(*                                                                         *)
(* The copy.  The boundaries between the workers never decrease            *)
(* (CutsOrdered), so each row belongs to the part of exactly one worker    *)
(* (PartsDisjoint, PartsCover).  Of its part a worker has dealt with the   *)
(* rows up to its cursor and with no other (Tidy): each is committed, in   *)
(* the open transaction, or was rolled back, and in one of these only      *)
(* (Covered).  A worker that ends while the task runs has nothing left     *)
(* above its cursor.                                                       *)
(***************************************************************************)
EXTENDS LegacyFullLoad, FiniteSetTheorems, TLAPS

Stages == {"ddl", "drop", "copy", "collect", "catchup", "restore", "final"}

FrameType ==
  /\ phase \in Stages \cup Ended
  /\ status \in {"RUNNING", "PAUSED", "FAILED"}
  /\ cancelled \in BOOLEAN /\ rcancel \in BOOLEAN
  /\ conf \in Configs
  /\ cur \in Tables
  /\ exists \subseteq Tables
  /\ idx \in [Tables -> SUBSET Indexes]
  /\ saved \in [Tables -> SUBSET Indexes]
  /\ removed \in [Tables -> SUBSET Indexes]
  /\ todo \in [Tables -> SUBSET Indexes]
  /\ rpc \in [Tables -> {"off", "queued", "waits", "check", "alter", "done", "skipped", "error"}]
  /\ tries \in [Tables -> 0..ConnRetries]

Passed(t) == phase \notin {"ddl", "drop"} \/ t < cur
Created(t) == t \notin Existing \/ DropFirst

UniqueOff ==
  AllMode /\ phase \in {"ddl", "drop", "copy", "collect", "catchup"}
    => \A t \in Tables : Passed(t) => idx[t] \cap Unique \subseteq MayBeUnique(t)

Wanted(t) ==
  removed[t] \cup (IF Deferral THEN SelectDeferred(SourceIndexes[t]) ELSE {})
             \cup (IF Created(t) THEN SourceIndexes[t] ELSE {})

Remembered ==
  \A t \in Tables :
    /\ phase \in {"ddl", "drop", "copy", "collect"} =>
         /\ removed[t] \subseteq saved[t] \cup idx[t]
         /\ Created(t) /\ (Passed(t) \/ (t = cur /\ phase = "drop"))
              => SourceIndexes[t] \subseteq saved[t] \cup idx[t]
    /\ phase \in {"ddl", "drop"} /\ t \in exists
         => t \in Existing \/ t < cur \/ (t = cur /\ phase = "drop")
    /\ phase \in {"ddl", "drop"} /\ t \in Existing => t \in exists
    /\ phase \in {"catchup", "restore"} => Wanted(t) \subseteq todo[t] \cup idx[t]
    /\ phase \in {"final", "completed"} => Wanted(t) \subseteq idx[t]

RestoreKnows ==
  \A t \in Tables :
    /\ rpc[t] # "off" => phase = "restore"
    /\ rpc[t] = "done" => todo[t] = {}
    /\ rpc[t] \in {"skipped", "error"} => rcancel \/ cancelled

FrameInv == FrameType /\ UniqueOff /\ Remembered /\ RestoreKnows

-----------------------------------------------------------------------------
Low(t, w) == IF w = 0 THEN Open ELSE cut[t][w]
InPart(t, w, k) == k > Low(t, w) /\ UpToEnd(t, w, k)
Working == {"read", "write", "commit", "last"}
Quiet == {"off", "ended", "error"}

CopyType ==
  /\ tpc \in [Tables -> {"queued", "plan", "copy", "done", "skipped", "error"}]
  /\ cut \in [Tables -> Seq(Int)]
  /\ wpc \in [Tables -> [Workers -> Working \cup Quiet]]
  /\ cursor \in [Tables -> [Workers -> Int]]
  /\ hand \in [Tables -> [Workers -> SUBSET Int]]
  /\ tx \in [Tables -> [Workers -> SUBSET Int]]
  /\ txN \in [Tables -> [Workers -> Nat]]
  /\ attempt \in [Tables -> [Workers -> 0..LockRetries]]
  /\ target \in [Tables -> SUBSET Int]
  /\ rolled \in [Tables -> SUBSET Int]
  /\ \A t \in Tables : /\ target[t] \cup rolled[t] \subseteq Keys[t]
                       /\ \A w \in Workers : tx[t][w] \cup hand[t][w] \subseteq Keys[t]

Increasing(c) ==
  c \in Seq(Int) /\ \A i, j \in 1..Len(c) : i <= j => c[i] <= c[j]

CutsOrdered ==
  \A t \in Tables : Increasing(cut[t]) /\ Len(cut[t]) < IntraWorkers

(* A table: nothing is copied before its plan, and "done" is said of a     *)
(* table only when every row of it is committed or was rolled back.        *)
TableInv(t) ==
  /\ phase \in {"ddl", "drop"} => tpc[t] = "queued"
  /\ phase \notin {"ddl", "drop", "copy"} => tpc[t] \notin {"plan", "copy"}
  /\ phase \in {"collect", "catchup", "restore", "final", "completed"}
       => tpc[t] \in {"done", "skipped", "error"}
  /\ tpc[t] \in {"queued", "plan"} => target[t] = {} /\ rolled[t] = {}
  /\ tpc[t] \in {"skipped", "error"} => status # "RUNNING"
  /\ tpc[t] = "done" /\ status = "RUNNING" => target[t] = Keys[t] \ rolled[t]
  /\ target[t] \cap rolled[t] = {}

Stage(t, w) ==
  /\ tpc[t] \in {"queued", "plan"} => wpc[t][w] = "off" /\ txN[t][w] = 0
  /\ tpc[t] # "copy" => wpc[t][w] \in Quiet
  /\ tpc[t] = "copy" => (wpc[t][w] = "off" <=> w > Last(t))
  /\ wpc[t][w] # "off" => w <= Last(t)
  /\ wpc[t][w] \in Quiet => tx[t][w] = {}
  /\ wpc[t][w] # "write" => hand[t][w] = {}
  /\ wpc[t][w] = "write" => hand[t][w] = NextBatch(t, w) /\ hand[t][w] # {}
  /\ wpc[t][w] = "last" => Rest(t, w) = {}
  /\ wpc[t][w] = "ended" /\ status = "RUNNING" => Rest(t, w) = {}
  /\ txN[t][w] <= CommitAfter(t)
  /\ wpc[t][w] \in {"read", "write", "last"} => txN[t][w] < CommitAfter(t)

Tidy(t, w) ==
  w <= Last(t) =>
    /\ cursor[t][w] >= Low(t, w)
    /\ \A k \in tx[t][w] : InPart(t, w, k) /\ k <= cursor[t][w]
    /\ \A k \in target[t] \cup rolled[t] :
         InPart(t, w, k) => k <= cursor[t][w] /\ k \notin tx[t][w]

Covered(t, w) ==
  wpc[t][w] \in Working \/ (wpc[t][w] = "ended" /\ status = "RUNNING")
    => \A k \in Keys[t] : InPart(t, w, k) /\ k <= cursor[t][w]
         => k \in target[t] \cup tx[t][w] \cup rolled[t]

WorkerInv(t, w) == Stage(t, w) /\ Tidy(t, w) /\ Covered(t, w)

CopyInv ==
  /\ CopyType /\ CutsOrdered
  /\ cancelled => status # "RUNNING"
  /\ \A t \in Tables : TableInv(t) /\ \A w \in Workers : WorkerInv(t, w)

IInv == FrameInv /\ CopyInv

-----------------------------------------------------------------------------
(* Finite sets of integers.                                                *)

(* A finite set of integers that is not empty has a greatest and a least   *)
(* member: an element with the fewest elements above (below) it.           *)
LEMMA GreatestExists ==
  ASSUME NEW S \in SUBSET Int, IsFiniteSet(S), S # {}
  PROVE  \E m \in S : \A x \in S : m >= x
<1> DEFINE Above(x) == {y \in S : y > x}
           Family == {Above(x) : x \in S}
<1>1. Family \subseteq FiniteSubsetsOf(S) /\ Family # {}
  <2>1. \A T \in SUBSET S : T \in FiniteSubsetsOf(S)
    BY FS_Subset DEF FiniteSubsetsOf
  <2>2. QED
    BY <2>1
<1>2. PICK U \in Family : \A V \in Family : ~ (<<V, U>> \in StrictSubsetOrdering(S))
  BY <1>1, FS_StrictSubsetOrderingWellFounded, WFMin
<1>3. PICK m \in S : U = Above(m)
  OBVIOUS
<1>4. ASSUME NEW x \in S, x > m PROVE FALSE
  <2>1. Above(x) \in Family
    OBVIOUS
  <2> x \in Int /\ m \in Int /\ S \subseteq Int
    OBVIOUS
  <2>2. Above(x) \subseteq Above(m) /\ x \in Above(m) /\ x \notin Above(x)
    <3>1. \A y \in S : y > x => y > m
      BY <1>4
    <3>2. ~ (x > x) /\ x > m
      BY <1>4
    <3>3. QED
      BY <3>1, <3>2
  <2>3. <<Above(x), U>> \in StrictSubsetOrdering(S)
    BY <2>2, <1>3 DEF StrictSubsetOrdering
  <2>4. QED
    BY <1>2, <2>1, <2>3
<1>5. QED
  BY <1>4

LEMMA LeastExists ==
  ASSUME NEW S \in SUBSET Int, IsFiniteSet(S), S # {}
  PROVE  \E m \in S : \A x \in S : m <= x
<1> DEFINE Below(x) == {y \in S : y < x}
           Family == {Below(x) : x \in S}
<1>1. Family \subseteq FiniteSubsetsOf(S) /\ Family # {}
  <2>1. \A T \in SUBSET S : T \in FiniteSubsetsOf(S)
    BY FS_Subset DEF FiniteSubsetsOf
  <2>2. QED
    BY <2>1
<1>2. PICK U \in Family : \A V \in Family : ~ (<<V, U>> \in StrictSubsetOrdering(S))
  BY <1>1, FS_StrictSubsetOrderingWellFounded, WFMin
<1>3. PICK m \in S : U = Below(m)
  OBVIOUS
<1>4. ASSUME NEW x \in S, x < m PROVE FALSE
  <2>1. Below(x) \in Family
    OBVIOUS
  <2> x \in Int /\ m \in Int /\ S \subseteq Int
    OBVIOUS
  <2>2. Below(x) \subseteq Below(m) /\ x \in Below(m) /\ x \notin Below(x)
    <3>1. \A y \in S : y < x => y < m
      BY <1>4
    <3>2. ~ (x < x) /\ x < m
      BY <1>4
    <3>3. QED
      BY <3>1, <3>2
  <2>3. <<Below(x), U>> \in StrictSubsetOrdering(S)
    BY <2>2, <1>3 DEF StrictSubsetOrdering
  <2>4. QED
    BY <1>2, <2>1, <2>3
<1>5. QED
  BY <1>4

LEMMA MaxIsGreatest ==
  ASSUME NEW S \in SUBSET Int, IsFiniteSet(S), S # {}
  PROVE  Max(S) \in S /\ \A x \in S : Max(S) >= x
BY GreatestExists DEF Max

LEMMA MinIsLeast ==
  ASSUME NEW S \in SUBSET Int, IsFiniteSet(S), S # {}
  PROVE  Min(S) \in S /\ \A x \in S : Min(S) <= x
BY LeastExists DEF Min

(* The rank of a member: how many members are not above it.                *)
Rank(S, x) == Cardinality({y \in S : y <= x})

LEMMA RankIsMonotone ==
  ASSUME NEW S \in SUBSET Int, IsFiniteSet(S), NEW x \in S, NEW y \in S, x < y
  PROVE  Rank(S, x) \in Nat /\ Rank(S, y) \in Nat /\ Rank(S, x) < Rank(S, y)
<1> DEFINE A == {z \in S : z <= x}
           B == {z \in S : z <= y}
<1>1. IsFiniteSet(B) /\ Cardinality(B) \in Nat
  BY FS_Subset, FS_CardinalityType
<1>2. A \in SUBSET B /\ y \in B /\ y \notin A
  <2> x \in Int /\ y \in Int /\ S \subseteq Int
    OBVIOUS
  <2>1. \A z \in S : z <= x => z <= y
    OBVIOUS
  <2>2. y <= y /\ ~ (y <= x)
    OBVIOUS
  <2>3. QED
    BY <2>1, <2>2
<1>3. IsFiniteSet(A) /\ Cardinality(A) <= Cardinality(B) /\ Cardinality(A) # Cardinality(B)
  BY <1>1, <1>2, FS_Subset
<1>4. Cardinality(A) \in Nat
  BY <1>3, FS_CardinalityType
<1>5. QED
  BY <1>1, <1>3, <1>4 DEF Rank

(* Every rank up to the size of the set is somebody's.                     *)
LEMMA EveryRank ==
  ASSUME NEW S \in SUBSET Int, IsFiniteSet(S), NEW k \in 1..Cardinality(S)
  PROVE  \E x \in S : Rank(S, x) = k
<1>0. Cardinality(S) \in Nat /\ S # {}
  BY FS_CardinalityType, FS_EmptySet
<1> DEFINE T == {x \in S : Rank(S, x) >= k}
<1>1. T # {}
  <2>1. PICK m \in S : \A x \in S : m >= x
    BY <1>0, GreatestExists
  <2>2. {y \in S : y <= m} = S
    BY <2>1
  <2>3. QED
    BY <2>2, <1>0 DEF Rank
<1>2. IsFiniteSet(T) /\ T \in SUBSET Int
  BY FS_Subset
<1>3. PICK m \in T : \A x \in T : m <= x
  BY <1>1, <1>2, LeastExists
<1> DEFINE B == {y \in S : y < m}
<1>4. IsFiniteSet(B) /\ B \in SUBSET Int
  BY FS_Subset
<1>5. Rank(S, m) = Cardinality(B) + 1
  <2>1. {y \in S : y <= m} = B \cup {m}
    <3>1. m \in S /\ \A y \in S : y <= m <=> (y < m \/ y = m)
      OBVIOUS
    <3>2. QED
      BY <3>1
  <2>2. m \notin B
    OBVIOUS
  <2>3. QED
    BY <1>4, <2>1, <2>2, FS_AddElement DEF Rank
<1>6. Cardinality(B) < k /\ Cardinality(B) \in Nat
  <2>1. Cardinality(B) \in Nat
    BY <1>4, FS_CardinalityType
  <2>2. CASE B = {}
    BY <2>1, <2>2, FS_EmptySet
  <2>3. CASE B # {}
    <3>1. PICK p \in B : \A x \in B : p >= x
      BY <1>4, <2>3, GreatestExists
    <3>2. {y \in S : y <= p} = B
      <4>1. \A y \in S : y <= p <=> y < m
        BY <3>1
      <4>2. QED
        BY <4>1
    <3>3. p \notin T
      BY <1>3
    <3>4. QED
      BY <2>1, <3>2, <3>3 DEF Rank
  <2>4. QED
    BY <2>2, <2>3
<1>7. QED
  BY <1>3, <1>5, <1>6

LEMMA KthAboveIs ==
  ASSUME NEW S \in SUBSET Int, IsFiniteSet(S), NEW k \in 1..Cardinality(S)
  PROVE  KthAbove(S, k) \in S /\ Rank(S, KthAbove(S, k)) = k
BY EveryRank DEF KthAbove, Rank

-----------------------------------------------------------------------------
(* The plan of a table.                                                    *)

LEMMA DivIsNat ==
  ASSUME NEW a \in Nat, NEW b \in Nat \ {0}
  PROVE  a \div b \in Nat
OBVIOUS

LEMMA TimesIsMonotone ==
  ASSUME NEW s \in Nat, NEW i \in Nat, NEW j \in Nat, i <= j
  PROVE  i * s \in Nat /\ j * s \in Nat /\ i * s <= j * s
<1>1. j * s = i * s + (j - i) * s /\ (j - i) * s \in Nat /\ i * s \in Nat
  OBVIOUS
<1>2. QED
  BY <1>1

LEMMA RangeCutsIncrease ==
  ASSUME NEW lo \in Int, NEW hi \in Int, lo <= hi, NEW n \in Nat \ {0}
  PROVE  Increasing(RangeCuts(lo, hi, n)) /\ Len(RangeCuts(lo, hi, n)) < n
<1> DEFINE span == hi - lo + 1
           m == IF span < n THEN span ELSE n
           size == CeilDiv(span, m)
<1>1. m \in Nat \ {0} /\ m <= n /\ span \in Nat \ {0}
  OBVIOUS
<1>2. size \in Nat
  <2>1. span + m - 1 \in Nat
    BY <1>1
  <2>2. QED
    BY <2>1, <1>1, DivIsNat DEF CeilDiv
<1> HIDE DEF size, m
<1> DEFINE c == [i \in 1..(m - 1) |-> lo + i * size]
<1>3. \A i, j \in 1..(m - 1) : i <= j => c[i] <= c[j]
  BY <1>1, <1>2, TimesIsMonotone
<1>4. \A i \in 1..(m - 1) : c[i] \in Int
  BY <1>1, <1>2
<1>5. c \in Seq(Int) /\ Len(c) = m - 1
  BY <1>1, <1>4
<1>6. RangeCuts(lo, hi, n) = c
  BY DEF RangeCuts, m, size
<1>7. QED
  BY <1>1, <1>3, <1>5, <1>6 DEF Increasing

LEMMA SampleCutsIncrease ==
  ASSUME NEW S \in SUBSET Int, IsFiniteSet(S),
         NEW n \in Nat \ {0}, NEW estimate \in Nat, estimate >= 2 * n
  PROVE  Increasing(SampleCuts(S, estimate, n)) /\ Len(SampleCuts(S, estimate, n)) < n
<1> DEFINE step == estimate \div n
           few == Cardinality(S) \div step
           usable == Min({n - 1, few})
<1>1. step \in Nat \ {0}
  <2>1. step \in Nat
    BY DivIsNat
  <2>2. estimate < (step + 1) * n
    OBVIOUS
  <2>3. step # 0
    BY <2>1, <2>2
  <2>4. QED
    BY <2>1, <2>3
<1>2. Cardinality(S) \in Nat
  BY FS_CardinalityType
<1> HIDE DEF step
<1>3. few \in Nat /\ few * step <= Cardinality(S)
  BY <1>1, <1>2
<1> HIDE DEF few
<1>4. usable \in Nat /\ usable <= n - 1 /\ usable <= few
  <2>1. {n - 1, few} \in SUBSET Int /\ IsFiniteSet({n - 1, few}) /\ {n - 1, few} # {}
    <3>1. IsFiniteSet({n - 1} \cup {few})
      BY FS_Singleton, FS_Union
    <3>2. {n - 1, few} = {n - 1} \cup {few}
      OBVIOUS
    <3>3. QED
      BY <3>1, <3>2, <1>3
  <2>2. usable \in {n - 1, few} /\ \A x \in {n - 1, few} : usable <= x
    BY <2>1, MinIsLeast
  <2>3. QED
    BY <2>2, <1>3
<1> HIDE DEF usable
<1>5. \A i \in 1..usable : i * step \in 1..Cardinality(S)
  <2> TAKE i \in 1..usable
  <2>1. i * step <= few * step
    BY <1>1, <1>3, <1>4, TimesIsMonotone
  <2>2. 1 * step <= i * step
    BY <1>1, <1>4, TimesIsMonotone
  <2>3. QED
    BY <2>1, <2>2, <1>1, <1>2, <1>3, <1>4
<1> DEFINE c == [i \in 1..usable |-> KthAbove(S, i * step)]
<1>6. \A i \in 1..usable : c[i] \in S /\ c[i] \in Int /\ Rank(S, c[i]) = i * step
  BY <1>5, KthAboveIs
<1>7. \A i, j \in 1..usable : i <= j => c[i] <= c[j]
  <2> SUFFICES ASSUME NEW i \in 1..usable, NEW j \in 1..usable, i <= j, c[j] < c[i]
               PROVE  FALSE
    <3> HIDE DEF c
    <3> QED
      BY <1>6
  <2>1. Rank(S, c[j]) < Rank(S, c[i])
    BY <1>6, RankIsMonotone
  <2>2. i * step <= j * step
    BY <1>1, <1>4, TimesIsMonotone
  <2>3. QED
    BY <2>1, <2>2, <1>5, <1>6
<1>8. c \in Seq(Int) /\ Len(c) = usable
  <2>1. c \in [1..usable -> Int]
    BY <1>6
  <2>2. QED
    BY <2>1, <1>4
<1>9. SampleCuts(S, estimate, n) = c
  BY DEF SampleCuts, usable, few, step
<1>10. QED
  BY <1>4, <1>7, <1>8, <1>9 DEF Increasing

(* The boundaries never decrease and leave a part for every worker.        *)
LEMMA PlanIncreases ==
  ASSUME NEW t \in Tables, NEW c \in Cuts(t)
  PROVE  Increasing(c) /\ Len(c) < IntraWorkers
<1>1. Keys[t] \in SUBSET Int /\ IsFiniteSet(Keys[t]) /\ Estimate[t] \in Nat
      /\ IntraWorkers \in Nat \ {0}
  BY LoadAssumption
<1>2. Increasing(<<>>) /\ Len(<<>>) < IntraWorkers
  BY <1>1 DEF Increasing
<1>3. CASE Ranged(t) /\ c = RangeCuts(Min(Keys[t]), Max(Keys[t]), IntraWorkers)
  <2>1. Min(Keys[t]) \in Int /\ Max(Keys[t]) \in Int /\ Min(Keys[t]) <= Max(Keys[t])
    BY <1>1, <1>3, MinIsLeast, MaxIsGreatest DEF Ranged
  <2>2. QED
    BY <2>1, <1>1, <1>3, RangeCutsIncrease
<1>4. CASE Sampled(t) /\ c = SampleCuts(Keys[t], Estimate[t], IntraWorkers)
  BY <1>1, <1>4, SampleCutsIncrease DEF Sampled
<1>5. QED
  BY <1>2, <1>3, <1>4 DEF Cuts, Simpler

LEMMA RowsAreFinite ==
  \A t \in Tables : Keys[t] \in SUBSET Int /\ IsFiniteSet(Keys[t])
BY LoadAssumption

LEMMA OpenIsBelow == Open \in Int /\ \A t \in Tables : \A k \in Keys[t] : Open < k
<1> DEFINE f == [t \in Tables |-> Keys[t]]
           R == {Keys[t] : t \in Tables}
<1>1. f \in Surjection(Tables, R)
  BY DEF Surjection
<1>2. IsFiniteSet(R)
  BY <1>1, FS_Surjection, IndexAssumption
<1>3. IsFiniteSet(UNION R)
  BY <1>2, FS_UNION, RowsAreFinite
<1>4. IsFiniteSet(AllKeys)
  <2>1. IsFiniteSet({0})
    BY FS_Singleton
  <2> DEFINE U == UNION R
  <2>2. AllKeys = U \cup {0}
    BY DEF AllKeys
  <2> HIDE DEF U
  <2>3. IsFiniteSet(U \cup {0})
    BY <1>3, <2>1, FS_Union DEF U
  <2>4. QED
    BY <2>2, <2>3
<1>5. AllKeys \in SUBSET Int /\ AllKeys # {}
  <2>1. \A k \in AllKeys : k \in Int
    <3>1. \A k \in AllKeys : k = 0 \/ \E t \in Tables : k \in Keys[t]
      BY DEF AllKeys
    <3>2. QED
      BY <3>1, RowsAreFinite
  <2>2. 0 \in AllKeys
    BY DEF AllKeys
  <2>3. QED
    BY <2>1, <2>2
<1>6. Min(AllKeys) \in Int /\ \A k \in AllKeys : Min(AllKeys) <= k
  BY <1>4, <1>5, MinIsLeast
<1>7. \A t \in Tables : Keys[t] \subseteq AllKeys
  BY DEF AllKeys
<1>8. QED
  BY <1>6, <1>7, RowsAreFinite DEF Open

CutsAt(t) == t \in Tables /\ Increasing(cut[t]) /\ Len(cut[t]) < IntraWorkers

LEMMA CutFacts ==
  ASSUME NEW t, CutsAt(t)
  PROVE  /\ Last(t) \in Workers /\ Last(t) \in Nat
         /\ \A w \in Workers : w \in Int /\ w >= 0
         /\ \A w \in Workers : w <= Last(t) => Low(t, w) \in Int
         /\ \A w \in Workers : w < Last(t) => cut[t][w + 1] \in Int
BY LoadAssumption, OpenIsBelow DEF CutsAt, Increasing, Last, Workers, Low

(* A row belongs to the part of one worker only ...                        *)
LEMMA PartsDisjoint ==
  ASSUME NEW t, CutsAt(t), NEW v \in Workers, NEW w \in Workers,
         v <= Last(t), w <= Last(t), v # w, NEW k \in Int
  PROVE  ~ (InPart(t, v, k) /\ InPart(t, w, k))
<1>1. ASSUME NEW a \in Workers, NEW b \in Workers, a < b, b <= Last(t),
             InPart(t, a, k), InPart(t, b, k)
      PROVE  FALSE
  <2> a \in Int /\ b \in Int /\ a >= 0 /\ Last(t) \in Nat
    BY CutFacts
  <2>1. k <= cut[t][a + 1] /\ k > cut[t][b]
    BY <1>1 DEF InPart, UpToEnd, Low
  <2>2. cut[t][a + 1] <= cut[t][b] /\ cut[t][a + 1] \in Int /\ cut[t][b] \in Int
    <3>1. a + 1 \in 1..Len(cut[t]) /\ b \in 1..Len(cut[t]) /\ a + 1 <= b
      BY <1>1 DEF Last
    <3>2. QED
      BY <3>1 DEF CutsAt, Increasing
  <2>3. QED
    BY <2>1, <2>2
<1>2. v \in Int /\ w \in Int
  BY CutFacts
<1>3. QED
  BY <1>1, <1>2

(* ... and to one at least: the first whose upper boundary is not below it.*)
LEMMA PartsCover ==
  ASSUME NEW t, CutsAt(t), NEW k \in Keys[t]
  PROVE  \E w \in Workers : w <= Last(t) /\ InPart(t, w, k)
<1>0. k \in Int /\ Open < k /\ t \in Tables
  BY RowsAreFinite, OpenIsBelow DEF CutsAt
<1> DEFINE Candidates == {w \in 0..Last(t) : UpToEnd(t, w, k)}
<1>1. Last(t) \in Nat
  BY CutFacts
<1>2. Candidates \in SUBSET Int /\ IsFiniteSet(Candidates) /\ Candidates # {}
  <2>1. IsFiniteSet(0..Last(t))
    BY <1>1, FS_Interval
  <2>2. Last(t) \in Candidates
    BY <1>1 DEF UpToEnd
  <2>3. QED
    BY <2>1, <2>2, FS_Subset
<1>3. PICK w \in Candidates : \A x \in Candidates : w <= x
  BY <1>2, LeastExists
<1>4. w \in Workers /\ w <= Last(t) /\ w \in Nat
  BY <1>1, <1>3, LoadAssumption DEF Workers, CutsAt, Last
<1>5. k > Low(t, w)
  <2>1. CASE w = 0
    BY <2>1, <1>0 DEF Low
  <2>2. CASE w # 0
    <3>1. w - 1 \notin Candidates /\ w - 1 \in 0..Last(t)
      BY <2>2, <1>1, <1>3, <1>4
    <3>2. ~ (k <= cut[t][w])
      BY <3>1 DEF UpToEnd
    <3>3. cut[t][w] \in Int
      BY <2>2, <1>4 DEF CutsAt, Increasing, Last
    <3>4. QED
      BY <2>2, <3>2, <3>3, <1>0 DEF Low
  <2>3. QED
    BY <2>1, <2>2
<1>6. QED
  BY <1>3, <1>4, <1>5 DEF InPart

(* A batch is a prefix of what is left of the part, and not empty before   *)
(* the part is.                                                            *)
LEMMA BatchFacts ==
  ASSUME NEW t \in Tables, NEW w \in Workers, cursor[t][w] \in Int
  PROVE  /\ NextBatch(t, w) \subseteq Rest(t, w)
         /\ Rest(t, w) \subseteq Keys[t]
         /\ IsFiniteSet(NextBatch(t, w)) /\ NextBatch(t, w) \in SUBSET Int
         /\ NextBatch(t, w) = {} => Rest(t, w) = {}
         /\ \A m \in NextBatch(t, w), k \in Rest(t, w) : k <= m => k \in NextBatch(t, w)
<1> DEFINE R == Rest(t, w)
           Under(k) == {j \in R : j < k}
<1>1. R \subseteq Keys[t] /\ IsFiniteSet(R) /\ R \in SUBSET Int
  <2>1. R \in SUBSET Keys[t]
    BY DEF Rest
  <2>2. QED
    BY <2>1, RowsAreFinite, FS_Subset
<1>2. \A k \in R : IsFiniteSet(Under(k)) /\ Cardinality(Under(k)) \in Nat
  <2>1. \A k \in R : Under(k) \in SUBSET R
    OBVIOUS
  <2>2. QED
    BY <1>1, <2>1, FS_Subset, FS_CardinalityType
<1>3. NextBatch(t, w) = {k \in R : Cardinality(Under(k)) < BatchSize}
  BY DEF NextBatch
<1>4. BatchSize \in Nat \ {0}
  BY LoadAssumption
<1>5. NextBatch(t, w) \in SUBSET R
  BY <1>3
<1>6. ASSUME R # {}
      PROVE  NextBatch(t, w) # {}
  <2>1. PICK m \in R : \A x \in R : m <= x
    BY <1>1, <1>6, LeastExists
  <2>2. Under(m) = {}
    BY <1>1, <2>1
  <2>3. Cardinality(Under(m)) = 0
    BY <2>2, FS_EmptySet
  <2>4. m \in NextBatch(t, w)
    BY <1>3, <1>4, <2>3
  <2>5. QED
    BY <2>4
<1>7. ASSUME NEW m \in NextBatch(t, w), NEW k \in R, k <= m
      PROVE  k \in NextBatch(t, w)
  <2>1. m \in R /\ Cardinality(Under(m)) < BatchSize
    BY <1>3
  <2>2. Under(k) \in SUBSET Under(m)
    <3>1. \A j \in R : j < k => j < m
      BY <1>1, <1>7, <2>1
    <3>2. QED
      BY <3>1
  <2>3. Cardinality(Under(k)) <= Cardinality(Under(m))
    BY <1>2, <2>1, <2>2, FS_Subset
  <2>4. Cardinality(Under(k)) < BatchSize
    BY <1>2, <1>4, <2>1, <2>3
  <2>5. QED
    BY <1>3, <2>4
<1>8. IsFiniteSet(NextBatch(t, w))
  BY <1>1, <1>5, FS_Subset
<1> HIDE DEF R
<1>9. QED
  BY <1>1, <1>5, <1>6, <1>7, <1>8 DEF R

-----------------------------------------------------------------------------
(* The frame: types, where the indexes are, what the restore knows.        *)

LEMMA FrameStarts == Init => FrameInv
<1> SUFFICES ASSUME Init PROVE FrameInv
  OBVIOUS
<1> USE DEF Init, IndexInit
<1>0. 1 \in Tables /\ \A t \in Tables : ~ (t < 1)
  BY IndexAssumption, FS_CardinalityType, FS_EmptySet
<1>1. FrameType
  <2>1. idx \in [Tables -> SUBSET Indexes]
    BY IndexAssumption
  <2>2. tries \in [Tables -> 0..ConnRetries]
    BY IndexAssumption
  <2>3. QED
    BY <1>0, <2>1, <2>2, IndexAssumption DEF FrameType, Stages
<1>2. UniqueOff
  BY <1>0 DEF UniqueOff, Passed
<1>3. Remembered
  BY <1>0 DEF Remembered, Passed, Created, Ended
<1>4. RestoreKnows
  BY DEF RestoreKnows
<1>5. QED
  BY <1>1, <1>2, <1>3, <1>4 DEF FrameInv

(* Tables are numbered from 1: after the last one every table is passed.   *)
LEMMA TableNumbers ==
  /\ Tables \subseteq Int
  /\ \A t \in Tables : t + 1 \notin Tables => \A u \in Tables : u <= t
BY IndexAssumption, FS_CardinalityType

(* What SelectDeferred chooses depends on the configuration only.          *)
LEMMA ConfIsFixed ==
  ASSUME UNCHANGED conf
  PROVE  /\ AllMode' = AllMode /\ DropFirst' = DropFirst /\ Deferral' = Deferral
         /\ \A S : SelectDeferred(S)' = SelectDeferred(S)
         /\ \A t : Created(t)' = Created(t) /\ MayBeUnique(t)' = MayBeUnique(t)
BY DEF MayBeUnique, AllMode, DropFirst, Deferral, OptimizeIndex, SelectDeferred, ShouldDefer, Created

(* The loop of phase 1 moves to the next table, or to the copy.            *)
LEMMA LoopMoves ==
  ASSUME FrameType, phase \in {"ddl", "drop"}, NextTable
  PROVE  /\ cur' \in Tables
         /\ (phase' = "ddl" /\ cur' = cur + 1) \/ (phase' = "copy" /\ cur' = cur)
         /\ \A t \in Tables : t = cur => Passed(t)'
         /\ \A t \in Tables : Passed(t)' => t < cur \/ t = cur
         /\ \A t \in Tables : Passed(t) => Passed(t)'
BY TableNumbers DEF FrameType, NextTable, Passed

LEMMA EnsureTableKeeps ==
  ASSUME FrameInv, EnsureTable, UNCHANGED conf
  PROVE  FrameInv'
<1> USE ConfIsFixed DEF FrameInv
<1>1. CASE KeepExisting
  <2>1. UNCHANGED <<exists, idx, saved, removed, rpc, todo, tries, rcancel, status, cancelled>>
        /\ phase = "ddl" /\ cur \in exists /\ ~DropFirst
    BY <1>1 DEF EnsureTable, KeepExisting, schemaVars, restoreVars
  <2>2. CASE Deferral /\ phase' = "drop" /\ cur' = cur
    <3>1. FrameType'
      BY <2>1, <2>2 DEF FrameType, Stages
    <3>2. UniqueOff'
      BY <2>1, <2>2 DEF UniqueOff, Passed
    <3>3. Remembered'
      BY <2>1, <2>2 DEF Remembered, Passed, Created, FrameType
    <3>4. RestoreKnows'
      BY <2>1, <2>2 DEF RestoreKnows
    <3>5. QED
      BY <3>1, <3>2, <3>3, <3>4
  <2>3. CASE ~Deferral /\ NextTable
    <3>0. phase' \in {"ddl", "copy"} /\ cur' \in Tables
      BY <2>1, <2>3, LoopMoves
    <3>1. FrameType'
      BY <2>1, <3>0 DEF FrameType, Stages
    <3>2. UniqueOff'
      BY <2>3 DEF UniqueOff, Deferral
    <3>3. Remembered'
      <4> SUFFICES ASSUME NEW t \in Tables
                   PROVE  /\ t \in Existing => t \in exists
                          /\ removed[t] \subseteq saved[t] \cup idx[t]
                          /\ Created(t) /\ Passed(t)' => SourceIndexes[t] \subseteq saved[t] \cup idx[t]
                          /\ phase' = "ddl" /\ t \in exists => t \in Existing \/ t < cur'
        BY <2>1, <2>3, <3>0, LoopMoves DEF Remembered
      <4>1. cur \in Int /\ t \in Int
        BY <2>1, TableNumbers DEF FrameType
      <4>2. t = cur => ~Created(t)
        BY <2>1, <4>1 DEF Remembered, Created
      <4>3. Passed(t)' => t < cur \/ t = cur
        BY <2>1, <2>3, LoopMoves
      <4>4. phase' = "ddl" => cur' = cur + 1
        BY <2>1, <2>3, LoopMoves
      <4>5. QED
        BY <2>1, <4>1, <4>2, <4>3, <4>4 DEF Remembered, Passed
    <3>4. RestoreKnows'
      BY <2>1, <3>0 DEF RestoreKnows
    <3>5. QED
      BY <3>1, <3>2, <3>3, <3>4
  <2>4. QED
    BY <1>1, <2>2, <2>3 DEF KeepExisting, AfterEnsure
<1>2. CASE CreateTable
  <2> DEFINE d == IF Deferral THEN SelectDeferred(SourceIndexes[cur] \ AutoInc) ELSE {}
  <2>1. /\ UNCHANGED <<rpc, todo, tries, rcancel, status, cancelled>>
        /\ phase = "ddl" /\ cur \in Tables
        /\ exists' = exists \cup {cur}
        /\ idx' = [idx EXCEPT ![cur] = SourceIndexes[cur] \ d]
        /\ saved' = [saved EXCEPT ![cur] = d]
        /\ removed' = [removed EXCEPT ![cur] = d]
        /\ AfterEnsure(d)
    BY <1>2 DEF EnsureTable, CreateTable, restoreVars, FrameType
  <2>2. d \subseteq SourceIndexes[cur] /\ SourceIndexes[cur] \subseteq Indexes
    BY <2>1, IndexAssumption DEF SelectDeferred
  <2>3. AllMode /\ d # {} => (SourceIndexes[cur] \ d) \cap Unique \subseteq Identity \cup AutoInc
    BY DEF SelectDeferred, ShouldDefer, Deferral
  <2>4. AllMode /\ d = {} => Deferral
    BY DEF Deferral
  <2> HIDE DEF d
  <2>5. (phase' = "drop" /\ cur' = cur) \/ NextTable
    BY <2>1 DEF AfterEnsure
  <2>6. phase' \in {"ddl", "drop", "copy"} /\ cur' \in Tables
    BY <2>1, <2>5, LoopMoves
  <2>7. \A t \in Tables : t # cur =>
          idx'[t] = idx[t] /\ saved'[t] = saved[t] /\ removed'[t] = removed[t]
    BY <2>1 DEF FrameType
  <2>8. idx'[cur] = SourceIndexes[cur] \ d /\ saved'[cur] = d /\ removed'[cur] = d
    BY <2>1 DEF FrameType
  <2>9. FrameType'
    BY <2>1, <2>2, <2>6 DEF FrameType, Stages
  <2>9a. Created(cur)
    BY <1>2, <2>1 DEF CreateTable, Created, Remembered
  <2>10. UniqueOff'
    <3> SUFFICES ASSUME AllMode, NEW t \in Tables, Passed(t)'
                 PROVE  idx'[t] \cap Unique \subseteq MayBeUnique(t)
      BY DEF UniqueOff
    <3>1. CASE t # cur
      <4>1. Passed(t)
        BY <2>1, <2>5, <3>1, LoopMoves DEF Passed
      <4>2. QED
        BY <2>1, <2>7, <3>1, <4>1 DEF UniqueOff
    <3>2. CASE t = cur
      <4>1. d # {}
        BY <2>1, <2>4, <3>2, TableNumbers DEF AfterEnsure, Passed
      <4>2. QED
        BY <2>3, <2>8, <3>2, <4>1, <2>9a DEF MayBeUnique, Created
    <3>3. QED
      BY <3>1, <3>2
  <2>11. Remembered'
    <3> SUFFICES ASSUME NEW t \in Tables
                 PROVE  /\ phase' \in {"ddl", "drop"} /\ t \in Existing => t \in exists'
                        /\ removed'[t] \subseteq saved'[t] \cup idx'[t]
                        /\ Created(t) /\ (Passed(t)' \/ t = cur)
                              => SourceIndexes[t] \subseteq saved'[t] \cup idx'[t]
                        /\ phase' \in {"ddl", "drop"} /\ t \in exists'
                             => t \in Existing \/ t < cur' \/ (t = cur' /\ phase' = "drop")
      BY <2>1, <2>5, <2>6, LoopMoves DEF Remembered, Passed
    <3>1. CASE t # cur
      <4>1. cur \in Int /\ t \in Int
        BY <2>1, TableNumbers
      <4>2. Passed(t)' => t < cur
        BY <2>1, <2>5, <3>1, <4>1, LoopMoves DEF Passed
      <4>3. (phase' = "ddl" /\ cur' = cur + 1) \/ (phase' = "drop" /\ cur' = cur) \/ phase' = "copy"
        BY <2>1, <2>5, LoopMoves
      <4>4. QED
        BY <2>1, <2>7, <3>1, <4>1, <4>2, <4>3 DEF Remembered, Passed
    <3>2. CASE t = cur
      BY <2>1, <2>2, <2>5, <2>8, <3>2, TableNumbers DEF NextTable
    <3>3. QED
      BY <3>1, <3>2
  <2>12. RestoreKnows'
    BY <2>1 DEF RestoreKnows
  <2>13. QED
    BY <2>9, <2>10, <2>11, <2>12
<1>3. QED
  BY <1>1, <1>2 DEF EnsureTable

(* A run that is over has nothing left to remember.                        *)
LEMMA OverKeeps ==
  ASSUME FrameType', phase' \in {"failed", "stopped"}, \A t \in Tables : rpc'[t] = "off"
  PROVE  FrameInv'
BY DEF FrameInv, UniqueOff, Remembered, RestoreKnows

LEMMA FailRunMoves ==
  ASSUME FrameType, FailRun
  PROVE  phase' \in {"failed", "stopped"} /\ status' \in {"RUNNING", "PAUSED", "FAILED"}
BY DEF FrameType, FailRun

LEMMA DropKeeps ==
  ASSUME FrameInv, UNCHANGED conf,
         EnsureFails \/ DdlStopped \/ DropIndexFails \/ DropsDone \/ \E i \in Indexes : DropIndex(i)
  PROVE  FrameInv'
<1> USE ConfIsFixed DEF FrameInv
<1>1. CASE EnsureFails
  <2>1. phase' \in {"failed", "stopped"} /\ FrameType'
    BY <1>1, FailRunMoves DEF EnsureFails, FrameType, restoreVars, Stages, Ended
  <2>2. \A t \in Tables : rpc'[t] = "off"
    BY <1>1 DEF EnsureFails, restoreVars, RestoreKnows
  <2>3. QED
    BY <2>1, <2>2, OverKeeps
<1>2. CASE DdlStopped
  <2>1. phase' \in {"failed", "stopped"} /\ FrameType'
    BY <1>2 DEF DdlStopped, FrameType, restoreVars, schemaVars, Stages, Ended
  <2>2. \A t \in Tables : rpc'[t] = "off"
    BY <1>2 DEF DdlStopped, restoreVars, RestoreKnows
  <2>3. QED
    BY <2>1, <2>2, OverKeeps
<1>3. CASE DropIndexFails
  <2>1. phase' \in {"failed", "stopped"} /\ FrameType'
    BY <1>3, FailRunMoves DEF DropIndexFails, RollbackDropped, FrameType, restoreVars, Stages, Ended
  <2>2. \A t \in Tables : rpc'[t] = "off"
    BY <1>3 DEF DropIndexFails, restoreVars, RestoreKnows
  <2>3. QED
    BY <2>1, <2>2, OverKeeps
<1>4. CASE DropsDone
  <2>1. /\ UNCHANGED <<exists, idx, saved, removed, rpc, todo, tries, rcancel, status, cancelled>>
        /\ phase = "drop" /\ SelectDeferred(idx[cur]) = {} /\ NextTable
    BY <1>4 DEF DropsDone, schemaVars, restoreVars
  <2>2. phase' \in {"ddl", "copy"} /\ cur' \in Tables /\ cur \in Tables
    BY <2>1, LoopMoves DEF FrameType
  <2>3. FrameType'
    BY <2>1, <2>2 DEF FrameType, Stages
  <2>4. \A t \in Tables : Passed(t)' => Passed(t) \/ t = cur
    BY <2>1, LoopMoves DEF Passed
  <2>5. AllMode => idx[cur] \cap Unique \subseteq MayBeUnique(cur)
    BY <2>1 DEF SelectDeferred, ShouldDefer, MayBeUnique
  <2>6. UniqueOff'
    BY <2>1, <2>4, <2>5 DEF UniqueOff
  <2>7. Remembered'
    <3>1. phase' = "ddl" => cur' = cur + 1
      BY <2>1, LoopMoves
    <3>2. \A t \in Tables : phase' = "ddl" /\ t \in exists => t \in Existing \/ t < cur'
      <4> SUFFICES ASSUME NEW t \in Tables, phase' = "ddl", t \in exists, t \notin Existing
                   PROVE  t < cur'
        OBVIOUS
      <4>1. t \in Int /\ cur \in Int
        BY <2>2, TableNumbers
      <4>2. QED
        BY <2>1, <4>1, <3>1 DEF Remembered
    <3>3. QED
      BY <2>1, <2>2, <2>4, <3>2 DEF Remembered
  <2>8. RestoreKnows'
    BY <2>1 DEF RestoreKnows
  <2>9. QED
    BY <2>3, <2>6, <2>7, <2>8
<1>5. CASE \E i \in Indexes : DropIndex(i)
  <2>1. PICK i \in Indexes : DropIndex(i)
    BY <1>5
  <2>2. /\ UNCHANGED <<phase, cur, status, cancelled, exists, rpc, todo, tries, rcancel>>
        /\ phase = "drop" /\ cur \in Tables /\ cur \in Int /\ i \in idx[cur]
        /\ idx' = [idx EXCEPT ![cur] = @ \ {i}]
        /\ saved' = [saved EXCEPT ![cur] = @ \cup {i}]
        /\ removed' = [removed EXCEPT ![cur] = @ \cup {i}]
    BY <2>1, TableNumbers DEF DropIndex, runVars, restoreVars, FrameType, SelectDeferred
  <2>3. FrameType'
    BY <2>2 DEF FrameType
  <2>4. \A t \in Tables : Passed(t)' <=> Passed(t)
    BY <2>2 DEF Passed
  <2>5. \A t \in Tables : t # cur =>
          idx'[t] = idx[t] /\ saved'[t] = saved[t] /\ removed'[t] = removed[t]
    BY <2>2 DEF FrameType
  <2>6. /\ idx'[cur] = idx[cur] \ {i}
        /\ saved'[cur] = saved[cur] \cup {i} /\ removed'[cur] = removed[cur] \cup {i}
    BY <2>2 DEF FrameType
  <2>7. UniqueOff'
    <3> SUFFICES ASSUME AllMode, NEW t \in Tables, Passed(t)
                 PROVE  idx'[t] \cap Unique \subseteq MayBeUnique(t)
      BY <2>2, <2>4 DEF UniqueOff
    <3>1. idx[t] \cap Unique \subseteq MayBeUnique(t) /\ idx'[t] \subseteq idx[t]
      BY <2>2, <2>5, <2>6 DEF UniqueOff
    <3>2. QED
      BY <3>1
  <2>8. Remembered'
    <3> SUFFICES ASSUME NEW t \in Tables
                 PROVE  /\ removed'[t] \subseteq saved'[t] \cup idx'[t]
                        /\ Created(t) /\ (Passed(t) \/ t = cur)
                              => SourceIndexes[t] \subseteq saved'[t] \cup idx'[t]
      BY <2>2, <2>4 DEF Remembered
    <3>1. CASE t # cur
      BY <2>2, <2>5, <3>1 DEF Remembered
    <3>2. CASE t = cur
      <4>1. removed[t] \subseteq saved[t] \cup idx[t]
            /\ (Created(t) => SourceIndexes[t] \subseteq saved[t] \cup idx[t])
        BY <2>2, <3>2 DEF Remembered
      <4>2. QED
        BY <2>6, <3>2, <4>1
    <3>3. QED
      BY <3>1, <3>2
  <2>9. RestoreKnows'
    BY <2>2 DEF RestoreKnows
  <2>10. QED
    BY <2>3, <2>7, <2>8, <2>9
<1>6. QED
  BY <1>1, <1>2, <1>3, <1>4, <1>5

(* The steps between the copy and the end that touch no index.             *)
LEMMA FrameStepKeeps ==
  ASSUME FrameInv, UNCHANGED conf, FrameStep
  PROVE  FrameInv'
<1> USE ConfIsFixed DEF FrameInv
<1>1. CASE Collect
  <2>1. /\ UNCHANGED <<cur, status, cancelled, exists, idx, saved, removed, rpc, tries, rcancel>>
        /\ phase = "collect" /\ phase' \in {"catchup", "restore"}
        /\ AllMode => phase' = "catchup"
        /\ todo' = [t \in Tables |-> Pending(t)]
    BY <1>1 DEF Collect, schemaVars
  <2>2. \A t \in Tables : Pending(t) \subseteq Indexes
    BY IndexAssumption DEF Pending, Missing, SelectDeferred, FrameType
  <2>3. FrameType'
    BY <2>1, <2>2 DEF FrameType, Stages
  <2>4. UniqueOff'
    BY <2>1 DEF UniqueOff, Passed
  <2>5. Remembered'
    <3> SUFFICES ASSUME NEW t \in Tables
                 PROVE  Wanted(t)' \subseteq Pending(t) \cup idx[t]
      BY <2>1 DEF Remembered
    <3>1. removed[t] \subseteq saved[t] \cup idx[t]
          /\ (Created(t) => SourceIndexes[t] \subseteq saved[t] \cup idx[t])
      BY <2>1 DEF Remembered, Passed
    <3>2. QED
      BY <2>1, <3>1 DEF Wanted, Pending, Missing
  <2>6. RestoreKnows'
    BY <2>1 DEF RestoreKnows
  <2>7. QED
    BY <2>3, <2>4, <2>5, <2>6
<1>3. CASE CollectFails \/ CatchUpStopped \/ AbortSeen
  <2>1. phase' \in {"failed", "stopped"} /\ FrameType'
    BY <1>3, FailRunMoves DEF CollectFails, CatchUpStopped, AbortSeen, FrameType, schemaVars, restoreVars, Stages, Ended
  <2>2. \A t \in Tables : rpc'[t] = "off"
    BY <1>3 DEF CollectFails, CatchUpStopped, AbortSeen, restoreVars, RestoreKnows
  <2>3. QED
    BY <2>1, <2>2, OverKeeps
<1>4. CASE MarkCompleted
  <2>1. /\ UNCHANGED <<cur, status, cancelled, exists, idx, saved, removed, rpc, todo, tries, rcancel>>
        /\ phase = "final" /\ phase' = "completed"
    BY <1>4 DEF MarkCompleted, schemaVars, restoreVars
  <2>2. FrameType' /\ RestoreKnows' /\ UniqueOff'
    BY <2>1 DEF FrameType, Ended, RestoreKnows, UniqueOff
  <2>3. Remembered'
    BY <2>1 DEF Remembered, Wanted
  <2>4. QED
    BY <2>2, <2>3
<1>5. QED
  BY <1>1, <1>3, <1>4 DEF FrameStep

(* The end of the catch-up. *)
LEMMA SourceStepKeeps ==
  ASSUME FrameInv, SourceStep
  PROVE  FrameInv'
<1> USE ConfIsFixed DEF FrameInv, SourceStep
<1>1. CASE CatchUp /\ ~TaskStopped
  <2>1. /\ UNCHANGED <<cur, status, cancelled, exists, idx, saved, removed, rpc, todo, tries, rcancel>>
        /\ phase = "catchup" /\ phase' = "restore"
    BY <1>1 DEF CatchUp, schemaVars, restoreVars
  <2>2. FrameType' /\ RestoreKnows'
    BY <2>1 DEF FrameType, Stages, RestoreKnows
  <2>3. UniqueOff'
    BY <2>1 DEF UniqueOff
  <2>4. Remembered'
    BY <2>1 DEF Remembered, Wanted
  <2>5. QED
    BY <2>2, <2>3, <2>4
<1>2. CASE CatchUpFails \/ (CatchUp /\ TaskStopped)
  <2>1. phase' \in {"failed", "stopped"} /\ FrameType'
    BY <1>2, FailRunMoves DEF CatchUpFails, CatchUp, FrameType, schemaVars, restoreVars, Stages, Ended
  <2>2. \A t \in Tables : rpc'[t] = "off"
    BY <1>2 DEF CatchUpFails, CatchUp, restoreVars, RestoreKnows
  <2>3. QED
    BY <2>1, <2>2, OverKeeps
<1>3. QED
  BY <1>1, <1>2

LEMMA UserStepKeeps ==
  ASSUME FrameInv, UserStep
  PROVE  FrameInv'
<1>1. /\ UNCHANGED <<phase, cur, exists, idx, saved, removed, rpc, todo, tries, rcancel, conf>>
      /\ status' = "PAUSED" /\ cancelled' \in BOOLEAN /\ (cancelled => cancelled')
  BY DEF UserStep, PauseTask, SkipError, schemaVars, restoreVars, FrameInv, FrameType
<1> USE ConfIsFixed DEF FrameInv
<1>2. FrameType' /\ RestoreKnows'
  BY <1>1 DEF FrameType, RestoreKnows
<1>3. UniqueOff'
  BY <1>1 DEF UniqueOff, Passed
<1>4. Remembered'
  BY <1>1 DEF Remembered, Wanted, Passed
<1>5. QED
  BY <1>2, <1>3, <1>4

(* The restore.  What is added on the target may be taken off the list; an *)
(* unknown answer leaves the list as it is.                                *)
LEMMA RestoreTypes ==
  ASSUME FrameType, RestoreStep, UNCHANGED conf
  PROVE  FrameType'
<1> USE DEF FrameType, runVars, schemaVars
<1>1. CASE RestoreBegin \/ RestoreBreak
  BY <1>1 DEF RestoreBegin, RestoreBreak, LoopAtStop
<1>2. CASE RestoreEnd
  BY <1>2, FailRunMoves DEF RestoreEnd, Stages, Ended
<1>3. ASSUME NEW t \in Tables, RestoreNext(t) \/ RestoreStart(t) \/ CheckExisting(t) \/ RestoreFails(t)
      PROVE  FrameType'
  <2>1. CASE RestoreNext(t) \/ RestoreStart(t)
    BY <2>1 DEF RestoreNext, RestoreStart
  <2>2. CASE CheckExisting(t)
    <3>1. todo' \in [Tables -> SUBSET Indexes]
      BY <2>2 DEF CheckExisting
    <3>2. rpc' \in [Tables -> {"off", "queued", "waits", "check", "alter", "done", "skipped", "error"}]
      BY <2>2 DEF CheckExisting
    <3>3. QED
      BY <2>2, <3>1, <3>2 DEF CheckExisting
  <2>3. CASE RestoreFails(t)
    BY <2>3 DEF RestoreFails, RestoreError
  <2>4. QED
    BY <1>3, <2>1, <2>2, <2>3
<1>4. ASSUME NEW t \in Tables, AlterAdds(t) \/ AlterConnLost(t) \/ AlterRefused(t)
      PROVE  FrameType'
  <2>1. Batch(t) \subseteq Indexes
    BY DEF Batch
  <2>2. ConnRetries \in Nat
    BY IndexAssumption
  <2>3. CASE AlterAdds(t) \/ AlterRefused(t)
    BY <2>1, <2>2, <2>3 DEF AlterAdds, AlterRefused, VerifyApplied, BatchDone
  <2>4. CASE AlterConnLost(t)
    BY <2>1, <2>2, <2>4 DEF AlterConnLost
  <2>5. QED
    BY <1>4, <2>3, <2>4
<1>5. QED
  BY <1>1, <1>2, <1>3, <1>4 DEF RestoreStep

(* A step of the restore of one table: the list loses only what is there.  *)
RestoresOne(t) ==
  /\ UNCHANGED <<phase, cur, status, cancelled, exists, saved, removed>>
  /\ phase = "restore" /\ (rcancel => rcancel')
  /\ \A u \in Tables :
       /\ u # t => rpc'[u] = rpc[u]
       /\ idx[u] \subseteq idx'[u] /\ todo[u] \cup idx[u] \subseteq todo'[u] \cup idx'[u]
       /\ todo'[u] \subseteq todo[u]
  /\ rpc'[t] = "done" => todo'[t] = {}
  /\ rpc'[t] \in {"skipped", "error"} => rcancel' \/ cancelled

LEMMA RestoresOneKeeps ==
  ASSUME FrameInv, FrameType', UNCHANGED conf, NEW t \in Tables, RestoresOne(t)
  PROVE  FrameInv'
<1> USE ConfIsFixed DEF FrameInv, RestoresOne
<1>1. UniqueOff'
  BY DEF UniqueOff
<1>2. Remembered'
  <2>1. \A u \in Tables : Wanted(u)' = Wanted(u) /\ Wanted(u) \subseteq todo[u] \cup idx[u]
    BY DEF Remembered, Wanted
  <2>2. QED
    BY <2>1 DEF Remembered
<1>3. RestoreKnows'
  <2> SUFFICES ASSUME NEW u \in Tables
               PROVE  /\ rpc'[u] = "done" => todo'[u] = {}
                      /\ rpc'[u] \in {"skipped", "error"} => rcancel' \/ cancelled
    BY DEF RestoreKnows
  <2>1. CASE u = t
    BY <2>1
  <2>2. CASE u # t
    BY <2>2 DEF RestoreKnows
  <2>3. QED
    BY <2>1, <2>2
<1>4. QED
  BY <1>1, <1>2, <1>3

LEMMA RestoreStepKeeps ==
  ASSUME FrameInv, RestoreStep, UNCHANGED conf
  PROVE  FrameInv'
<1>1. FrameType /\ FrameType'
  BY RestoreTypes DEF FrameInv
<1>2. \A t \in Tables : rpc[t] # "off" => phase = "restore"
  BY DEF FrameInv, RestoreKnows
<1>3. ASSUME NEW t \in Tables,
             \/ RestoreNext(t) \/ RestoreStart(t) \/ CheckExisting(t) \/ AlterAdds(t)
             \/ AlterConnLost(t) \/ AlterRefused(t) \/ RestoreFails(t)
      PROVE  FrameInv'
  <2> USE DEF FrameType, runVars, schemaVars
  <2>1. CASE RestoreNext(t) \/ RestoreStart(t) \/ RestoreFails(t)
    <3>1. RestoresOne(t)
      BY <2>1, <1>1, <1>2 DEF RestoresOne, RestoreNext, RestoreStart, RestoreStopped, RestoreFails, RestoreError
    <3>2. QED
      BY <1>1, <3>1, RestoresOneKeeps
  <2>2. CASE CheckExisting(t)
    <3>1. RestoresOne(t)
      BY <2>2, <1>1, <1>2 DEF RestoresOne, CheckExisting
    <3>2. QED
      BY <1>1, <3>1, RestoresOneKeeps
  <2>3. CASE AlterAdds(t)
    <3>1. RestoresOne(t)
      BY <2>3, <1>1, <1>2 DEF RestoresOne, AlterAdds, BatchDone
    <3>2. QED
      BY <1>1, <3>1, RestoresOneKeeps
  <2>4. CASE AlterConnLost(t)
    <3>1. RestoresOne(t)
      BY <2>4, <1>1, <1>2 DEF RestoresOne, AlterConnLost
    <3>2. QED
      BY <1>1, <3>1, RestoresOneKeeps
  <2>5. CASE AlterRefused(t)
    <3>1. RestoresOne(t)
      BY <2>5, <1>1, <1>2 DEF RestoresOne, AlterRefused, VerifyApplied, Applied, BatchDone
    <3>2. QED
      BY <1>1, <3>1, RestoresOneKeeps
  <2>6. QED
    BY <1>3, <2>1, <2>2, <2>3, <2>4, <2>5
<1> USE ConfIsFixed DEF FrameInv
<1>4. CASE RestoreBegin \/ RestoreBreak
  <2>1. /\ UNCHANGED <<phase, cur, status, cancelled, exists, idx, saved, removed, todo>>
        /\ phase = "restore"
    BY <1>2, <1>4 DEF RestoreBegin, RestoreBreak, LoopAtStop, runVars, schemaVars
  <2>2. UniqueOff' /\ Remembered'
    BY <2>1 DEF UniqueOff, Remembered, Wanted
  <2>3. RestoreKnows'
    <3>1. CASE RestoreBegin
      BY <2>1, <3>1 DEF RestoreKnows, RestoreBegin
    <3>2. CASE RestoreBreak
      BY <2>1, <3>2, <1>1 DEF RestoreKnows, RestoreBreak, LoopAtStop, RestoreStopped, FrameType
    <3>3. QED
      BY <1>4, <3>1, <3>2
  <2>4. QED
    BY <1>1, <2>2, <2>3
<1>5. CASE RestoreEnd
  <2>1. \A t \in Tables : rpc'[t] = "off"
    BY <1>5 DEF RestoreEnd
  <2>2. CASE TaskStopped \/ RestoreStopped
    <3>1. phase' \in {"failed", "stopped"}
      BY <1>1, <1>5, <2>2, FailRunMoves DEF RestoreEnd
    <3>2. QED
      BY <1>1, <2>1, <3>1, OverKeeps
  <2>3. CASE ~ (TaskStopped \/ RestoreStopped)
    <3>1. /\ UNCHANGED <<cur, cancelled, exists, idx, saved, removed, todo>>
          /\ phase = "restore" /\ phase' = "final"
          /\ \A t \in Tables : rpc[t] = "done"
      BY <1>5, <2>3 DEF RestoreEnd, schemaVars, RestoreStopped, RestoreKnows
    <3>2. \A t \in Tables : todo[t] = {}
      BY <3>1 DEF RestoreKnows
    <3>3. Remembered'
      BY <3>1, <3>2 DEF Remembered, Wanted
    <3>4. UniqueOff' /\ RestoreKnows'
      BY <2>1, <3>1, <3>2 DEF UniqueOff, RestoreKnows
    <3>5. QED
      BY <1>1, <3>3, <3>4
  <2>4. QED
    BY <2>2, <2>3
<1>6. QED
  BY <1>3, <1>4, <1>5 DEF RestoreStep

(* The copy touches no index; it may end the run or begin the last phase.  *)
LEMMA CopyStepKeepsFrame ==
  ASSUME FrameInv, CopyStep
  PROVE  FrameInv'
<1> USE DEF FrameInv
<1>1. CASE UNCHANGED indexVars
  <2>1. UNCHANGED <<phase, cur, status, cancelled, exists, idx, saved, removed, rpc, todo, tries,
                    rcancel, conf>>
    BY <1>1 DEF indexVars, runVars, schemaVars, restoreVars
  <2>2. FrameType' /\ RestoreKnows'
    BY <2>1 DEF FrameType, RestoreKnows
  <2>3. UniqueOff' /\ Remembered'
    BY <2>1, ConfIsFixed DEF UniqueOff, Remembered, Wanted, Passed
  <2>4. QED
    BY <2>2, <2>3
<1>2. ASSUME NEW t \in Tables, TableFails(t) PROVE FrameInv'
  <2>1. UNCHANGED <<phase, cur, cancelled, exists, idx, saved, removed, rpc, todo, tries, rcancel, conf>>
        /\ status' \in {status, "FAILED"}
    BY <1>2 DEF TableFails, schemaVars, restoreVars
  <2>2. FrameType' /\ RestoreKnows'
    BY <2>1 DEF FrameType, RestoreKnows
  <2>3. UniqueOff' /\ Remembered'
    BY <2>1, ConfIsFixed DEF UniqueOff, Remembered, Wanted, Passed
  <2>4. QED
    BY <2>2, <2>3
<1>3. CASE CopyEnds
  <2>1. UNCHANGED <<cur, cancelled, exists, idx, saved, removed, rpc, todo, tries, rcancel, conf>>
        /\ phase = "copy"
    BY <1>3 DEF CopyEnds, schemaVars, restoreVars
  <2>2. CASE \E t \in Tables : tpc[t] = "error"
    <3>1. phase' \in {"failed", "stopped"} /\ FrameType'
      BY <1>3, <2>1, <2>2, FailRunMoves DEF CopyEnds, FrameType, Ended
    <3>2. \A t \in Tables : rpc'[t] = "off"
      BY <2>1 DEF RestoreKnows
    <3>3. QED
      BY <3>1, <3>2, OverKeeps
  <2>3. CASE ~ \E t \in Tables : tpc[t] = "error"
    <3>1. phase' = "collect" /\ UNCHANGED status
      BY <1>3, <2>3 DEF CopyEnds
    <3>2. FrameType' /\ RestoreKnows'
      BY <2>1, <3>1 DEF FrameType, RestoreKnows, Stages
    <3>3. UniqueOff' /\ Remembered'
      BY <2>1, <3>1, ConfIsFixed DEF UniqueOff, Remembered, Passed
    <3>4. QED
      BY <3>2, <3>3
  <2>4. QED
    BY <2>2, <2>3
<1>4. CASE WorkerStep
  BY <1>1, <1>4 DEF WorkerStep, SeesStop, Read, ReadFails, Write, LockRetry, WriteFails, CommitTx,
    CommitFails, NothingToCommit
<1>5. CASE TableStep
  BY <1>1, <1>2, <1>5 DEF TableStep, TakeTable, PlanTable, TableEnds
<1>6. QED
  BY <1>3, <1>4, <1>5 DEF CopyStep

LEMMA FrameKeeps == FrameInv /\ [Next]_vars => FrameInv'
<1> SUFFICES ASSUME FrameInv, [Next]_vars PROVE FrameInv'
  OBVIOUS
<1>1. CASE IndexStep
  BY <1>1, EnsureTableKeeps, DropKeeps, RestoreStepKeeps, FrameStepKeeps DEF IndexStep, DdlStep
<1>2. CASE UserStep
  BY <1>2, UserStepKeeps
<1>6. CASE SourceStep
  BY <1>6, SourceStepKeeps
<1>3. CASE CopyStep
  BY <1>3, CopyStepKeepsFrame
<1>4. CASE UNCHANGED vars
  <2>1. UNCHANGED <<phase, cur, status, cancelled, exists, idx, saved, removed, rpc, todo, tries,
                    rcancel, conf>>
    BY <1>4 DEF vars, indexVars, runVars, schemaVars, restoreVars
  <2>2. QED
    BY <2>1, ConfIsFixed DEF FrameInv, FrameType, RestoreKnows, UniqueOff, MayBeUnique, Remembered, Wanted, Passed
<1>5. QED
  BY <1>1, <1>2, <1>3, <1>4, <1>6 DEF Next, ProgramStep

(* The frame's part of the inductive invariant holds in every state.       *)
THEOREM FrameSafe == Spec => []FrameInv
BY FrameStarts, FrameKeeps, PTL DEF Spec

(* A completed run has every index back that it left out or dropped.       *)
THEOREM IndexesAreBack == Spec => []IndexesBack
<1>1. FrameInv => IndexesBack
  BY DEF FrameInv, Remembered, Wanted, Created, IndexesBack
<1>2. QED
  BY <1>1, FrameSafe, PTL

(* While rows are copied and caught up in mode ALL, an existing table has  *)
(* no unique index but the one that identifies its rows, and a table that  *)
(* the run created has at most those with an AUTO_INCREMENT column more.   *)
THEOREM UniqueIsOff == Spec => []UniqueOffButAutoInc
<1>1. FrameInv => UniqueOffButAutoInc
  BY DEF FrameInv, UniqueOff, Passed, UniqueOffButAutoInc
<1>2. QED
  BY <1>1, FrameSafe, PTL

-----------------------------------------------------------------------------
(* The copy.                                                               *)

LEMMA Settings ==
  /\ BatchSize \in Nat \ {0} /\ CommitEvery \in Nat \ {0} /\ CommitAlone \in Nat \ {0}
  /\ IntraWorkers \in Nat \ {0} /\ LockRetries \in Nat
  /\ \A t : CommitAfter(t) \in Nat \ {0}
BY LoadAssumption DEF CommitAfter

LEMMA CopyStarts == Init => CopyInv
<1> SUFFICES ASSUME Init PROVE CopyInv
  OBVIOUS
<1> USE DEF Init, IndexInit, PerWorker
<1>1. CopyType
  BY OpenIsBelow, Settings DEF CopyType, Quiet
<1>2. CutsOrdered
  BY Settings DEF CutsOrdered, Increasing
<1>3. \A t \in Tables : TableInv(t)
  BY DEF TableInv
<1>4. ASSUME NEW t \in Tables, NEW w \in Workers PROVE WorkerInv(t, w)
  <2>1. cut[t] = <<>> /\ wpc[t][w] = "off" /\ tx[t][w] = {} /\ hand[t][w] = {}
        /\ txN[t][w] = 0 /\ tpc[t] = "queued" /\ target[t] = {} /\ rolled[t] = {}
        /\ cursor[t][w] = Open
    OBVIOUS
  <2>2. Stage(t, w)
    BY <2>1, Settings DEF Stage, Quiet
  <2>3. Tidy(t, w)
    <3>1. w <= Last(t) => w = 0
      BY <2>1, Settings DEF Last, Workers
    <3>2. QED
      BY <2>1, <3>1, OpenIsBelow DEF Tidy, Low
  <2>4. Covered(t, w)
    BY <2>1 DEF Covered, Working
  <2>5. QED
    BY <2>2, <2>3, <2>4 DEF WorkerInv
<1>5. QED
  BY <1>1, <1>2, <1>3, <1>4 DEF CopyInv

(* Nobody makes a task run again: "RUNNING" is only ever left.             *)
StatusFalls ==
  /\ status' = "RUNNING" => status = "RUNNING"
  /\ cancelled' => status' # "RUNNING"

SameWorker(t, w) ==
  /\ wpc'[t][w] = wpc[t][w] /\ cursor'[t][w] = cursor[t][w] /\ hand'[t][w] = hand[t][w]
  /\ tx'[t][w] = tx[t][w] /\ txN'[t][w] = txN[t][w]

LEMMA SamePart ==
  ASSUME NEW t \in Tables, NEW w, cut'[t] = cut[t]
  PROVE  /\ Last(t)' = Last(t) /\ CommitAfter(t)' = CommitAfter(t)
         /\ Low(t, w)' = Low(t, w) /\ \A k : InPart(t, w, k)' <=> InPart(t, w, k)
         /\ cursor'[t][w] = cursor[t][w] => Rest(t, w)' = Rest(t, w)
                                            /\ NextBatch(t, w)' = NextBatch(t, w)
BY DEF Last, CommitAfter, Alone, Low, InPart, UpToEnd, Rest, NextBatch

LEMMA SameWorkerKeeps ==
  ASSUME NEW t \in Tables, NEW w \in Workers, WorkerInv(t, w),
         SameWorker(t, w), cut'[t] = cut[t], tpc'[t] = tpc[t], StatusFalls,
         target'[t] = target[t], rolled'[t] = rolled[t]
  PROVE  WorkerInv(t, w)'
<1>1. Stage(t, w)'
  BY SamePart DEF WorkerInv, Stage, SameWorker, StatusFalls
<1>2. Tidy(t, w)'
  BY SamePart DEF WorkerInv, Tidy, SameWorker
<1>3. Covered(t, w)'
  BY SamePart DEF WorkerInv, Covered, SameWorker, StatusFalls
<1>4. QED
  BY <1>1, <1>2, <1>3 DEF WorkerInv

(* The steps of the frame and of the user leave the copy alone.            *)
PhaseMoves ==
  \/ phase' = phase
  \/ phase \in {"ddl", "drop"} /\ phase' \in {"ddl", "drop", "copy", "failed", "stopped"}
  \/ /\ phase \in {"collect", "catchup", "restore", "final"}
     /\ phase' \in {"catchup", "restore", "final", "completed", "failed", "stopped"}

LEMMA IndexStepMoves ==
  ASSUME FrameInv, cancelled => status # "RUNNING", IndexStep \/ SourceStep \/ UserStep
  PROVE  PhaseMoves /\ StatusFalls
<1> USE DEF FrameInv, PhaseMoves, StatusFalls
<1>0. \A t \in Tables : rpc[t] # "off" => phase = "restore"
  BY DEF RestoreKnows
<1>1. CASE DdlStep
  <2>1. CASE EnsureTable \/ DropsDone
    BY <2>1, LoopMoves DEF EnsureTable, DropsDone, KeepExisting, CreateTable, AfterEnsure
  <2>2. CASE EnsureFails \/ DropIndexFails
    BY <2>2, FailRunMoves DEF EnsureFails, DropIndexFails, FailRun
  <2>3. CASE DdlStopped \/ \E i \in Indexes : DropIndex(i)
    BY <2>3 DEF DdlStopped, DropIndex, runVars
  <2>4. QED
    BY <1>1, <2>1, <2>2, <2>3 DEF DdlStep
<1>2. CASE RestoreStep
  BY <1>2, FailRunMoves DEF RestoreStep, RestoreBegin, RestoreBreak, LoopAtStop, RestoreEnd, FailRun, RestoreNext, RestoreStart,
    CheckExisting, AlterAdds, AlterConnLost, AlterRefused, RestoreFails, runVars
<1>3. CASE FrameStep
  BY <1>3, FailRunMoves DEF FrameStep, Collect, CollectFails, CatchUpStopped, AbortSeen, MarkCompleted, FailRun
<1>4. CASE UserStep
  BY <1>4 DEF UserStep, PauseTask, SkipError
<1>6. CASE SourceStep
  BY <1>6, FailRunMoves DEF SourceStep, CatchUp, CatchUpFails, FailRun
<1>5. QED
  BY <1>1, <1>2, <1>3, <1>4, <1>6 DEF IndexStep

LEMMA OutsideKeepsCopy ==
  ASSUME CopyInv, PhaseMoves, StatusFalls, UNCHANGED copyVars
  PROVE  CopyInv'
<1>1. UNCHANGED <<tpc, cut, wpc, cursor, hand, tx, txN, attempt, target, rolled>>
  BY DEF copyVars
<1>2. CopyType' /\ CutsOrdered'
  BY <1>1 DEF CopyInv, CopyType, CutsOrdered
<1>3. \A t \in Tables : TableInv(t)'
  BY <1>1 DEF CopyInv, TableInv, PhaseMoves, StatusFalls
<1>4. \A t \in Tables, w \in Workers : WorkerInv(t, w)'
  BY <1>1, SameWorkerKeeps DEF CopyInv, SameWorker
<1>5. QED
  BY <1>2, <1>3, <1>4 DEF CopyInv, StatusFalls

(* A step of one worker: what it leaves alone, and what it may add to the  *)
(* rows that are committed or rolled back: those of its own transaction.   *)
StepOf(t, w) ==
  /\ UNCHANGED <<phase, status, cancelled, tpc, cut>>
  /\ wpc[t][w] \in Working
  /\ \A u \in Tables, v \in Workers : u # t \/ v # w => SameWorker(u, v)
  /\ \A u \in Tables : u # t => target'[u] = target[u] /\ rolled'[u] = rolled[u]
  /\ target'[t] \in {target[t], target[t] \cup tx[t][w]}
  /\ rolled'[t] \in {rolled[t], rolled[t] \cup tx[t][w]}
  /\ target'[t] = target[t] \/ rolled'[t] = rolled[t]

LEMMA StepOfKeeps ==
  ASSUME CopyInv, CopyType', NEW t \in Tables, NEW w \in Workers,
         StepOf(t, w), WorkerInv(t, w)'
  PROVE  CopyInv'
<1>1. CutsOrdered' /\ (cancelled' => status' # "RUNNING") /\ StatusFalls
  BY DEF CopyInv, CutsOrdered, StepOf, StatusFalls
<1>2. CutsAt(t) /\ tx[t][w] \in SUBSET Int /\ w \in Int /\ w <= Last(t)
  <2>1. CutsAt(t) /\ tx[t][w] \in SUBSET Int
    BY DEF CopyInv, CutsOrdered, CutsAt, CopyType
  <2>2. wpc[t][w] # "off"
    BY DEF StepOf, Working
  <2>3. w \in Int /\ w <= Last(t)
    BY <2>1, <2>2, CutFacts DEF CopyInv, WorkerInv, Stage
  <2>4. QED
    BY <2>1, <2>3
<1>3. tpc[t] = "copy" /\ phase = "copy"
  BY DEF CopyInv, TableInv, StepOf, WorkerInv, Stage, Working, Quiet
<1>4. \A k \in tx[t][w] : k \in Int /\ InPart(t, w, k) /\ k \notin target[t] \cup rolled[t]
  BY <1>2 DEF CopyInv, WorkerInv, Tidy
<1>5. ASSUME NEW u \in Tables PROVE TableInv(u)'
  <2>1. CASE u = t
    BY <1>3, <1>4, <2>1 DEF CopyInv, TableInv, StepOf
  <2>2. CASE u # t
    BY <2>2 DEF CopyInv, TableInv, StepOf
  <2>3. QED
    BY <2>1, <2>2
<1>6. ASSUME NEW u \in Tables, NEW v \in Workers PROVE WorkerInv(u, v)'
  <2>1. CASE u # t
    BY <1>1, <2>1, SameWorkerKeeps DEF CopyInv, StepOf
  <2>2. CASE u = t /\ v = w
    BY <2>2
  <2>3. CASE u = t /\ v # w
    <3>1. SameWorker(t, v) /\ cut'[t] = cut[t] /\ tpc'[t] = tpc[t] /\ status' = status /\ WorkerInv(t, v)
      BY <2>3 DEF CopyInv, StepOf
    <3>2. Stage(t, v)'
      BY <3>1, SamePart DEF WorkerInv, Stage, SameWorker
    <3>3. \A k \in tx[t][w] : v <= Last(t) => ~ InPart(t, v, k)
      BY <1>2, <1>4, <2>3, PartsDisjoint
    <3>4. Tidy(t, v)'
      BY <3>1, <3>3, SamePart DEF WorkerInv, Tidy, SameWorker, StepOf
    <3>5. Covered(t, v)'
      BY <3>1, SamePart DEF WorkerInv, Covered, SameWorker, StepOf
    <3>6. QED
      BY <2>3, <3>2, <3>4, <3>5 DEF WorkerInv
  <2>4. QED
    BY <2>1, <2>2, <2>3
<1>7. QED
  BY <1>1, <1>5, <1>6 DEF CopyInv

(* A worker that leaves: its transaction is rolled back, or was committed. *)
LEMMA LeavesKeeps ==
  ASSUME CopyInv, NEW t \in Tables, NEW w \in Workers, NEW pc \in {"ended", "error"},
         wpc[t][w] \in Working, Leaves(t, w, pc),
         UNCHANGED <<phase, status, cancelled>>,
         pc = "ended" => status # "RUNNING",
         \/ UNCHANGED target
         \/ target' = [target EXCEPT ![t] = @ \cup tx[t][w]]
  PROVE  CopyInv'
<1>1. /\ UNCHANGED <<cursor, txN, attempt, tpc, cut, rolled>>
      /\ wpc' = [wpc EXCEPT ![t][w] = pc]
      /\ tx' = [tx EXCEPT ![t][w] = {}]
      /\ hand' = [hand EXCEPT ![t][w] = {}]
  BY DEF Leaves, Goes
<1>2. CopyType'
  <2>0. /\ tx' \in [Tables -> [Workers -> SUBSET Int]] /\ hand' \in [Tables -> [Workers -> SUBSET Int]]
        /\ \A u \in Tables, v \in Workers : tx'[u][v] \subseteq tx[u][v] /\ hand'[u][v] \subseteq hand[u][v]
    BY <1>1 DEF CopyInv, CopyType
  <2>1. CASE UNCHANGED target
    BY <1>1, <2>0, <2>1 DEF CopyInv, CopyType, Quiet
  <2>2. CASE target' = [target EXCEPT ![t] = @ \cup tx[t][w]]
    <3>1. target' \in [Tables -> SUBSET Int] /\ \A u \in Tables : target'[u] \subseteq Keys[u]
      BY <2>2 DEF CopyInv, CopyType
    <3>2. QED
      BY <1>1, <2>0, <3>1 DEF CopyInv, CopyType, Quiet
  <2>3. QED
    BY <2>1, <2>2
<1>3. StepOf(t, w)
  BY <1>1 DEF CopyInv, CopyType, StepOf, SameWorker
<1>4. wpc'[t][w] = pc /\ tx'[t][w] = {} /\ hand'[t][w] = {} /\ cursor'[t][w] = cursor[t][w]
      /\ txN'[t][w] = txN[t][w]
  BY <1>1 DEF CopyInv, CopyType
<1>5. Stage(t, w)'
  BY <1>1, <1>4, SamePart DEF CopyInv, WorkerInv, Stage, Working, Quiet
<1>6. Tidy(t, w)'
  BY <1>1, <1>3, <1>4, SamePart DEF CopyInv, WorkerInv, Tidy, StepOf
<1>7. Covered(t, w)'
  BY <1>4 DEF Covered, Working
<1>8. QED
  BY <1>2, <1>3, <1>5, <1>6, <1>7, StepOfKeeps DEF WorkerInv

LEMMA ReadKeeps ==
  ASSUME CopyInv, NEW t \in Tables, NEW w \in Workers, Read(t, w)
  PROVE  CopyInv'
<1> DEFINE pc == IF NextBatch(t, w) = {} THEN "last" ELSE "write"
<1>1. /\ UNCHANGED <<cursor, tx, txN, attempt, tpc, cut, target, rolled, phase, status, cancelled>>
      /\ wpc[t][w] = "read"
      /\ wpc' = [wpc EXCEPT ![t][w] = pc]
      /\ hand' = [hand EXCEPT ![t][w] = NextBatch(t, w)]
  BY DEF Read, Goes, indexVars, runVars
<1>2. /\ NextBatch(t, w) \subseteq Keys[t] /\ NextBatch(t, w) \in SUBSET Int
      /\ NextBatch(t, w) = {} => Rest(t, w) = {}
  <2>1. cursor[t][w] \in Int
    BY DEF CopyInv, CopyType
  <2>2. QED
    BY <2>1, BatchFacts
<1>3. CopyType'
  <2>1. wpc' \in [Tables -> [Workers -> Working \cup Quiet]]
    BY <1>1 DEF CopyInv, CopyType, Working
  <2>2. hand' \in [Tables -> [Workers -> SUBSET Int]]
    BY <1>1, <1>2 DEF CopyInv, CopyType
  <2>3. \A u \in Tables, v \in Workers : hand'[u][v] \subseteq Keys[u]
    BY <1>1, <1>2 DEF CopyInv, CopyType
  <2>4. QED
    BY <1>1, <2>1, <2>2, <2>3 DEF CopyInv, CopyType
<1>4. StepOf(t, w)
  BY <1>1 DEF CopyInv, CopyType, StepOf, SameWorker, Working
<1>5. wpc'[t][w] = pc /\ hand'[t][w] = NextBatch(t, w)
  BY <1>1 DEF CopyInv, CopyType
<1>6. Stage(t, w)'
  BY <1>1, <1>2, <1>5, SamePart DEF CopyInv, WorkerInv, Stage, Quiet
<1>7. Tidy(t, w)' /\ Covered(t, w)'
  BY <1>1, <1>5, SamePart DEF CopyInv, WorkerInv, Tidy, Covered, Working
<1>8. QED
  BY <1>3, <1>4, <1>6, <1>7, StepOfKeeps DEF WorkerInv

LEMMA WriteKeeps ==
  ASSUME CopyInv, NEW t \in Tables, NEW w \in Workers, Write(t, w)
  PROVE  CopyInv'
<1> DEFINE pc == IF txN[t][w] + 1 >= CommitAfter(t) THEN "commit" ELSE "read"
           new == hand[t][w]
<1>1. /\ UNCHANGED <<tpc, cut, target, rolled, phase, status, cancelled>>
      /\ wpc[t][w] = "write"
      /\ wpc' = [wpc EXCEPT ![t][w] = pc]
      /\ tx' = [tx EXCEPT ![t][w] = @ \cup new]
      /\ txN' = [txN EXCEPT ![t][w] = @ + 1]
      /\ cursor' = [cursor EXCEPT ![t][w] = Max(new)]
      /\ hand' = [hand EXCEPT ![t][w] = {}]
      /\ attempt' = [attempt EXCEPT ![t][w] = 0]
  BY DEF Write, Goes, indexVars, runVars
<1>2. new = NextBatch(t, w) /\ new # {} /\ w <= Last(t) /\ txN[t][w] < CommitAfter(t)
      /\ tpc[t] = "copy"
  BY <1>1 DEF CopyInv, WorkerInv, Stage, Quiet
<1>3. /\ new \subseteq Rest(t, w) /\ new \subseteq Keys[t] /\ new \in SUBSET Int
      /\ cursor[t][w] \in Int
      /\ Max(new) \in new /\ Max(new) \in Int
      /\ \A k \in new : k <= Max(new)
      /\ \A k \in Rest(t, w) : k <= Max(new) => k \in new
  <2>1. cursor[t][w] \in Int
    BY DEF CopyInv, CopyType
  <2>2. IsFiniteSet(new) /\ new \in SUBSET Int
    BY <1>2, <2>1, BatchFacts
  <2>3. Max(new) \in new /\ \A k \in new : Max(new) >= k
    BY <1>2, <2>2, MaxIsGreatest
  <2> HIDE DEF new
  <2>4. Max(new) \in Int /\ \A k \in new : k <= Max(new)
    BY <2>2, <2>3
  <2>5. QED
    BY <1>2, <2>1, <2>2, <2>3, <2>4, BatchFacts
<1>4. CopyType'
  <2>1. 0 \in 0..LockRetries /\ CopyType /\ pc \in Working
    BY Settings DEF CopyInv, Working
  <2> HIDE DEF pc, new
  <2>2. wpc' \in [Tables -> [Workers -> Working \cup Quiet]]
    BY <1>1, <2>1 DEF CopyType
  <2>3. tx' \in [Tables -> [Workers -> SUBSET Int]] /\ hand' \in [Tables -> [Workers -> SUBSET Int]]
    <3>1. tx[t][w] \cup new \in SUBSET Int
      <4>1. tx[t][w] \in SUBSET Int
        BY <2>1 DEF CopyType
      <4>2. QED
        BY <1>3, <4>1
    <3>2. tx' = [tx EXCEPT ![t] = [tx[t] EXCEPT ![w] = tx[t][w] \cup new]]
      BY <1>1
    <3>3. tx' \in [Tables -> [Workers -> SUBSET Int]]
      BY <2>1, <3>1, <3>2 DEF CopyType
    <3>4. hand' \in [Tables -> [Workers -> SUBSET Int]]
      BY <1>1, <2>1 DEF CopyType
    <3>5. QED
      BY <3>3, <3>4
  <2>4. cursor' \in [Tables -> [Workers -> Int]]
    BY <1>1, <1>3, <2>1 DEF CopyType
  <2>5. txN' \in [Tables -> [Workers -> Nat]]
    BY <1>1, <2>1 DEF CopyType
  <2>6. attempt' \in [Tables -> [Workers -> 0..LockRetries]]
    BY <1>1, <2>1 DEF CopyType
  <2>7. ASSUME NEW u \in Tables, NEW v \in Workers
        PROVE  tx'[u][v] \cup hand'[u][v] \subseteq Keys[u]
    <3>1. tx[u][v] \cup hand[u][v] \subseteq Keys[u]
      BY <2>1 DEF CopyType
    <3>2. CASE u = t /\ v = w
      <4>1. tx'[u][v] = tx[u][v] \cup new /\ hand'[u][v] = {}
        BY <1>1, <2>1, <3>2 DEF CopyType
      <4>2. QED
        BY <1>3, <3>1, <3>2, <4>1
    <3>3. CASE ~ (u = t /\ v = w)
      <4>1. tx'[u][v] = tx[u][v] /\ hand'[u][v] = hand[u][v]
        BY <1>1, <2>1, <3>3 DEF CopyType
      <4>2. QED
        BY <3>1, <4>1
    <3>4. QED
      BY <3>2, <3>3
  <2>8. QED
    BY <1>1, <2>1, <2>2, <2>3, <2>4, <2>5, <2>6, <2>7 DEF CopyType
<1>5. StepOf(t, w)
  BY <1>1 DEF CopyInv, CopyType, StepOf, SameWorker, Working
<1>6. /\ wpc'[t][w] = pc /\ tx'[t][w] = tx[t][w] \cup new /\ txN'[t][w] = txN[t][w] + 1
      /\ cursor'[t][w] = Max(new) /\ hand'[t][w] = {}
      /\ txN[t][w] \in Nat
  BY <1>1 DEF CopyInv, CopyType
<1>7. Stage(t, w)'
  BY <1>1, <1>2, <1>6, Settings, SamePart DEF CopyInv, WorkerInv, Stage, Quiet
<1>8. \A k \in new : k \in Int /\ k > cursor[t][w] /\ InPart(t, w, k)
  <2>1. Low(t, w) \in Int /\ cursor[t][w] >= Low(t, w)
    BY <1>2, CutFacts DEF CopyInv, WorkerInv, Tidy, CutsOrdered, CutsAt
  <2>2. \A k \in new : k \in Int /\ k > cursor[t][w] /\ UpToEnd(t, w, k)
    BY <1>3 DEF Rest
  <2>3. QED
    BY <1>3, <2>1, <2>2 DEF InPart
<1>9. \A k \in target[t] \cup rolled[t] : InPart(t, w, k)
          => k \in Int /\ k <= cursor[t][w] /\ k \notin tx[t][w] /\ k \notin new
  BY <1>2, <1>3, <1>8 DEF CopyInv, CopyType, WorkerInv, Tidy
<1>10. \A k \in tx[t][w] : k \in Int /\ InPart(t, w, k) /\ k <= cursor[t][w]
  BY <1>2 DEF CopyInv, CopyType, WorkerInv, Tidy
<1>11. cursor[t][w] < Max(new) /\ Low(t, w) <= Max(new)
  <2>1. Low(t, w) \in Int /\ cursor[t][w] >= Low(t, w)
    BY <1>2, CutFacts DEF CopyInv, WorkerInv, Tidy, CutsOrdered, CutsAt
  <2>2. QED
    BY <1>3, <1>8, <2>1
<1> HIDE DEF new, pc
<1>12. Tidy(t, w)'
  <2>1. cursor'[t][w] >= Low(t, w)
    BY <1>6, <1>11, <1>2, <1>3, CutFacts DEF CopyInv, CutsOrdered, CutsAt
  <2>2. \A k \in tx'[t][w] : InPart(t, w, k) /\ k <= cursor'[t][w]
    BY <1>3, <1>6, <1>8, <1>10, <1>11
  <2>3. \A k \in target'[t] \cup rolled'[t] :
          InPart(t, w, k) => k <= cursor'[t][w] /\ k \notin tx'[t][w]
    BY <1>1, <1>3, <1>6, <1>9, <1>11
  <2>4. QED
    BY <1>1, <2>1, <2>2, <2>3, SamePart DEF Tidy
<1>13. Covered(t, w)'
  <2>1. ASSUME NEW k \in Keys[t], InPart(t, w, k), k <= Max(new)
        PROVE  k \in target[t] \cup tx[t][w] \cup rolled[t] \cup new
    <3>1. k \in Int
      BY RowsAreFinite
    <3>2. CASE k <= cursor[t][w]
      BY <1>1, <2>1, <3>2 DEF CopyInv, WorkerInv, Covered, Working
    <3>3. CASE ~ (k <= cursor[t][w])
      <4>1. k \in Rest(t, w)
        BY <1>3, <2>1, <3>1, <3>3 DEF Rest, InPart
      <4>2. QED
        BY <1>3, <2>1, <4>1
    <3>4. QED
      BY <3>2, <3>3
  <2>2. QED
    BY <1>1, <1>6, <2>1, SamePart DEF Covered
<1>14. QED
  BY <1>4, <1>5, <1>7, <1>12, <1>13, StepOfKeeps DEF WorkerInv

LEMMA LockRetryKeeps ==
  ASSUME CopyInv, NEW t \in Tables, NEW w \in Workers, LockRetry(t, w)
  PROVE  CopyInv'
<1>1. /\ UNCHANGED <<wpc, cursor, hand, tpc, cut, target, phase, status, cancelled>>
      /\ wpc[t][w] = "write" /\ attempt[t][w] < LockRetries
      /\ rolled' = [rolled EXCEPT ![t] = @ \cup tx[t][w]]
      /\ tx' = [tx EXCEPT ![t][w] = {}]
      /\ txN' = [txN EXCEPT ![t][w] = 0]
      /\ attempt' = [attempt EXCEPT ![t][w] = @ + 1]
  BY DEF LockRetry, indexVars, runVars
<1>2. CopyType'
  <2>1. attempt[t][w] + 1 \in 0..LockRetries
    BY <1>1, Settings DEF CopyInv, CopyType
  <2>2. \A u \in Tables : rolled'[u] \subseteq Keys[u] /\ rolled'[u] \in SUBSET Int
    BY <1>1 DEF CopyInv, CopyType
  <2>3. rolled' \in [Tables -> SUBSET Int]
    BY <1>1 DEF CopyInv, CopyType
  <2>4. tx' \in [Tables -> [Workers -> SUBSET Int]]
    BY <1>1 DEF CopyInv, CopyType
  <2>5. txN' \in [Tables -> [Workers -> Nat]]
    BY <1>1 DEF CopyInv, CopyType
  <2>6. attempt' \in [Tables -> [Workers -> 0..LockRetries]]
    BY <1>1, <2>1 DEF CopyInv, CopyType
  <2>7. \A u \in Tables, v \in Workers : tx'[u][v] \subseteq tx[u][v]
    BY <1>1 DEF CopyInv, CopyType
  <2>8. QED
    BY <1>1, <2>2, <2>3, <2>4, <2>5, <2>6, <2>7 DEF CopyInv, CopyType
<1>3. StepOf(t, w)
  BY <1>1 DEF CopyInv, CopyType, StepOf, SameWorker, Working
<1>4. tx'[t][w] = {} /\ txN'[t][w] = 0 /\ rolled'[t] = rolled[t] \cup tx[t][w]
  BY <1>1 DEF CopyInv, CopyType
<1>5. Stage(t, w)'
  BY <1>1, <1>4, Settings, SamePart DEF CopyInv, WorkerInv, Stage
<1>6. Tidy(t, w)'
  BY <1>1, <1>4, SamePart DEF CopyInv, WorkerInv, Tidy
<1>7. Covered(t, w)'
  BY <1>1, <1>4, SamePart DEF CopyInv, WorkerInv, Covered
<1>8. QED
  BY <1>2, <1>3, <1>5, <1>6, <1>7, StepOfKeeps DEF WorkerInv

LEMMA CommitKeeps ==
  ASSUME CopyInv, NEW t \in Tables, NEW w \in Workers, CommitTx(t, w)
  PROVE  CopyInv'
<1> DEFINE pc == IF wpc[t][w] = "last" THEN "ended" ELSE "read"
<1>1. /\ UNCHANGED <<cursor, hand, attempt, tpc, cut, rolled, phase, status, cancelled>>
      /\ wpc[t][w] \in {"commit", "last"}
      /\ wpc' = [wpc EXCEPT ![t][w] = pc]
      /\ target' = [target EXCEPT ![t] = @ \cup tx[t][w]]
      /\ tx' = [tx EXCEPT ![t][w] = {}]
      /\ txN' = [txN EXCEPT ![t][w] = 0]
  BY DEF CommitTx, Goes, indexVars, runVars
<1>2. CopyType'
  BY <1>1 DEF CopyInv, CopyType, Working, Quiet
<1>3. StepOf(t, w)
  BY <1>1 DEF CopyInv, CopyType, StepOf, SameWorker, Working
<1>4. wpc'[t][w] = pc /\ tx'[t][w] = {} /\ txN'[t][w] = 0 /\ target'[t] = target[t] \cup tx[t][w]
  BY <1>1 DEF CopyInv, CopyType
<1>5. Stage(t, w)'
  <2>1. Stage(t, w) /\ tpc[t] = "copy"
    BY <1>1 DEF CopyInv, WorkerInv, Stage, Quiet
  <2>2. CASE wpc[t][w] = "last"
    BY <1>1, <1>4, <2>1, <2>2, Settings, SamePart DEF Stage, Quiet
  <2>3. CASE wpc[t][w] = "commit"
    BY <1>1, <1>4, <2>1, <2>3, Settings, SamePart DEF Stage, Quiet
  <2>4. QED
    BY <1>1, <2>2, <2>3
<1>6. Tidy(t, w)'
  BY <1>1, <1>4, SamePart DEF CopyInv, WorkerInv, Tidy
<1>7. Covered(t, w)'
  BY <1>1, <1>4, SamePart DEF CopyInv, WorkerInv, Covered, Working
<1>8. QED
  BY <1>2, <1>3, <1>5, <1>6, <1>7, StepOfKeeps DEF WorkerInv

(* A step that changes the stage of one table and none of its rows.        *)
LEMMA RestageKeeps ==
  ASSUME CopyInv, NEW t \in Tables, StatusFalls, UNCHANGED phase, phase = "copy",
         UNCHANGED <<cut, workerVars, target, rolled>>,
         NEW pc \in {"plan", "done", "skipped", "error"}, tpc' = [tpc EXCEPT ![t] = pc],
         pc = "plan" => tpc[t] = "queued",
         pc # "plan" => \A w \in Workers : wpc[t][w] \in Quiet,
         pc \in {"skipped", "error"} => status' # "RUNNING",
         pc = "done" /\ status' = "RUNNING" => target[t] = Keys[t] \ rolled[t]
  PROVE  CopyInv'
<1>1. UNCHANGED <<cut, wpc, cursor, hand, tx, txN, attempt, target, rolled>>
  BY DEF workerVars
<1>2. tpc'[t] = pc /\ \A u \in Tables : u # t => tpc'[u] = tpc[u]
  BY DEF CopyInv, CopyType
<1>3. CopyType' /\ CutsOrdered'
  BY <1>1 DEF CopyInv, CopyType, CutsOrdered
<1>4. ASSUME NEW u \in Tables PROVE TableInv(u)'
  <2>1. CASE u # t
    BY <1>1, <1>2, <2>1 DEF CopyInv, TableInv, StatusFalls
  <2>2. CASE u = t
    BY <1>1, <1>2, <2>2 DEF CopyInv, TableInv
  <2>3. QED
    BY <2>1, <2>2
<1>5. ASSUME NEW u \in Tables, NEW w \in Workers PROVE WorkerInv(u, w)'
  <2>1. CASE u # t
    BY <1>1, <1>2, <2>1, SameWorkerKeeps DEF CopyInv, SameWorker
  <2>2. CASE u = t
    <3>1. WorkerInv(t, w) /\ SameWorker(t, w)
      BY <1>1 DEF CopyInv, SameWorker
    <3>2. Stage(t, w)'
      BY <1>1, <1>2, <3>1, SamePart DEF WorkerInv, Stage, StatusFalls
    <3>3. Tidy(t, w)' /\ Covered(t, w)'
      BY <1>1, <3>1, SamePart DEF WorkerInv, Tidy, Covered, StatusFalls
    <3>4. QED
      BY <2>2, <3>2, <3>3 DEF WorkerInv
  <2>3. QED
    BY <2>1, <2>2
<1>6. QED
  BY <1>3, <1>4, <1>5 DEF CopyInv, StatusFalls

LEMMA PlanKeeps ==
  ASSUME CopyInv, NEW t \in Tables, PlanTable(t)
  PROVE  CopyInv'
<1>1. PICK c \in Cuts(t) :
        /\ cut' = [cut EXCEPT ![t] = c]
        /\ wpc' = [wpc EXCEPT ![t] = [w \in Workers |-> IF w <= Len(c) THEN "read" ELSE "off"]]
        /\ cursor' = [cursor EXCEPT ![t] =
                        [w \in Workers |-> IF w \in 1..Len(c) THEN c[w] ELSE Open]]
  BY DEF PlanTable
<1>2. /\ UNCHANGED <<hand, tx, txN, attempt, target, rolled, phase, status, cancelled>>
      /\ tpc[t] = "plan" /\ tpc' = [tpc EXCEPT ![t] = "copy"]
  BY DEF PlanTable, indexVars, runVars
<1>3. Increasing(c) /\ Len(c) < IntraWorkers /\ c \in Seq(Int) /\ Len(c) \in Nat
      /\ \A i \in 1..Len(c) : c[i] \in Int
  BY PlanIncreases DEF Increasing
<1>4. \A w \in Workers : w \in Int /\ w >= 0
  BY Settings DEF Workers
<1>5. /\ tpc'[t] = "copy" /\ cut'[t] = c
      /\ \A w \in Workers : wpc'[t][w] = IF w <= Len(c) THEN "read" ELSE "off"
      /\ \A w \in Workers : cursor'[t][w] = IF w \in 1..Len(c) THEN c[w] ELSE Open
      /\ \A u \in Tables : u # t => tpc'[u] = tpc[u] /\ cut'[u] = cut[u] /\ wpc'[u] = wpc[u]
                                    /\ cursor'[u] = cursor[u]
  BY <1>1, <1>2 DEF CopyInv, CopyType
<1>6. CopyType'
  <2>1. [w \in Workers |-> IF w \in 1..Len(c) THEN c[w] ELSE Open] \in [Workers -> Int]
    BY <1>3, OpenIsBelow
  <2>2. [w \in Workers |-> IF w <= Len(c) THEN "read" ELSE "off"] \in [Workers -> Working \cup Quiet]
    BY DEF Working, Quiet
  <2>3. cursor' \in [Tables -> [Workers -> Int]] /\ wpc' \in [Tables -> [Workers -> Working \cup Quiet]]
    BY <1>1, <2>1, <2>2 DEF CopyInv, CopyType
  <2>4. cut' \in [Tables -> Seq(Int)]
    BY <1>1, <1>3 DEF CopyInv, CopyType
  <2>5. QED
    BY <1>2, <2>3, <2>4 DEF CopyInv, CopyType
<1>7. CutsOrdered'
  BY <1>3, <1>5 DEF CopyInv, CutsOrdered
<1>8. StatusFalls
  BY <1>2 DEF StatusFalls, CopyInv
<1>9. phase = "copy" /\ target[t] = {} /\ rolled[t] = {}
  BY <1>2 DEF CopyInv, TableInv
<1>10. ASSUME NEW u \in Tables PROVE TableInv(u)'
  <2>1. CASE u # t
    BY <1>2, <1>5, <2>1 DEF CopyInv, TableInv
  <2>2. CASE u = t
    BY <1>2, <1>5, <1>9, <2>2 DEF TableInv
  <2>3. QED
    BY <2>1, <2>2
<1>11. ASSUME NEW u \in Tables, NEW w \in Workers PROVE WorkerInv(u, w)'
  <2>1. CASE u # t
    BY <1>2, <1>5, <1>8, <2>1, SameWorkerKeeps DEF CopyInv, SameWorker
  <2>2. CASE u = t
    <3>1. tx'[t][w] = {} /\ hand'[t][w] = {} /\ txN'[t][w] = 0 /\ target'[t] = {} /\ rolled'[t] = {}
      BY <1>2, <1>9 DEF CopyInv, WorkerInv, Stage, Quiet
    <3>2. Last(t)' = Len(c) /\ CommitAfter(t)' \in Nat \ {0}
      BY <1>5, Settings DEF Last, CommitAfter
    <3>3. Stage(t, w)'
      BY <1>3, <1>4, <1>5, <3>1, <3>2 DEF Stage, Quiet
    <3>4. w <= Len(c) => cursor'[t][w] = Low(t, w)' /\ Low(t, w)' \in Int
      <4>1. CASE w = 0
        BY <1>5, <4>1, OpenIsBelow DEF Low
      <4>2. CASE w # 0
        BY <1>3, <1>4, <1>5, <4>2 DEF Low
      <4>3. QED
        BY <4>1, <4>2
    <3>5. Tidy(t, w)'
      BY <3>1, <3>2, <3>4 DEF Tidy
    <3>6. Covered(t, w)'
      <4>1. w <= Len(c) => \A k \in Keys[t] : ~ (k > Low(t, w)' /\ k <= cursor'[t][w])
        BY <3>4, RowsAreFinite
      <4>2. wpc'[t][w] \in Working \cup {"ended"} => w <= Len(c)
        BY <1>5 DEF Working
      <4>3. QED
        BY <4>1, <4>2 DEF Covered, InPart
    <3>7. QED
      BY <2>2, <3>3, <3>5, <3>6 DEF WorkerInv
  <2>3. QED
    BY <2>1, <2>2
<1>12. QED
  BY <1>6, <1>7, <1>8, <1>10, <1>11 DEF CopyInv, StatusFalls

(* When the workers of a table have ended while the task runs, their parts *)
(* together are the table.                                                 *)
LEMMA EndedIsCopied ==
  ASSUME CopyInv, NEW t \in Tables, tpc[t] = "copy", AllEnded(t), ~AnyFailed(t),
         status = "RUNNING"
  PROVE  target[t] = Keys[t] \ rolled[t]
<1>1. CutsAt(t) /\ target[t] \subseteq Keys[t] /\ rolled[t] \subseteq Keys[t]
      /\ target[t] \cap rolled[t] = {}
  BY DEF CopyInv, CutsOrdered, CutsAt, CopyType, TableInv
<1>2. ASSUME NEW k \in Keys[t] PROVE k \in target[t] \cup rolled[t]
  <2>1. PICK w \in Workers : w <= Last(t) /\ InPart(t, w, k)
    BY <1>1, PartsCover
  <2>2. WorkerInv(t, w) /\ cursor[t][w] \in Int /\ k \in Int
    BY RowsAreFinite DEF CopyInv, CopyType
  <2>3. w \in Int /\ Last(t) \in Int
    BY <1>1, CutFacts
  <2>4. wpc[t][w] = "ended"
    BY <2>1, <2>2, <2>3 DEF AllEnded, AnyFailed, WorkerInv, Stage
  <2>5. Rest(t, w) = {} /\ tx[t][w] = {}
    BY <2>2, <2>4 DEF WorkerInv, Stage, Quiet
  <2>6. k <= cursor[t][w]
    BY <2>1, <2>2, <2>5 DEF Rest, InPart
  <2>7. QED
    BY <2>1, <2>2, <2>4, <2>5, <2>6 DEF WorkerInv, Covered
<1>3. QED
  BY <1>1, <1>2

LEMMA CopyStepKeeps ==
  ASSUME FrameInv, CopyInv, CopyStep
  PROVE  CopyInv'
<1>0. cancelled => status # "RUNNING"
  BY DEF CopyInv
<1>1. ASSUME NEW t \in Tables, NEW w \in Workers,
             \/ SeesStop(t, w) \/ Read(t, w) \/ ReadFails(t, w)
             \/ Write(t, w) \/ LockRetry(t, w) \/ WriteFails(t, w)
             \/ CommitTx(t, w) \/ CommitFails(t, w) \/ NothingToCommit(t, w)
      PROVE  CopyInv'
  <2>1. CASE SeesStop(t, w)
    BY <2>1, LeavesKeeps DEF SeesStop, TaskStopped, Working, indexVars, runVars
  <2>2. CASE ReadFails(t, w) \/ WriteFails(t, w)
    BY <2>2, LeavesKeeps DEF ReadFails, WriteFails, Working, indexVars, runVars
  <2>3. CASE CommitFails(t, w)
    BY <2>3, LeavesKeeps DEF CommitFails, Working, indexVars, runVars
  <2>4. CASE NothingToCommit(t, w)
    BY <1>0, <2>4, LeavesKeeps DEF NothingToCommit, Working, indexVars, runVars
  <2>5. QED
    BY <1>1, <2>1, <2>2, <2>3, <2>4, ReadKeeps, WriteKeeps, LockRetryKeeps, CommitKeeps
<1>2. ASSUME NEW t \in Tables, TakeTable(t) PROVE CopyInv'
  <2>1. /\ phase = "copy" /\ tpc[t] = "queued"
        /\ UNCHANGED <<phase, status, cancelled, cut, workerVars, target, rolled>>
        /\ tpc' = [tpc EXCEPT ![t] = IF TaskStopped THEN "skipped" ELSE "plan"]
    BY <1>2 DEF TakeTable, indexVars, runVars
  <2>2. StatusFalls
    BY <1>0, <2>1 DEF StatusFalls
  <2>3. \A w \in Workers : wpc[t][w] \in Quiet
    BY <2>1 DEF CopyInv, WorkerInv, Stage
  <2>4. CASE TaskStopped
    <3>1. tpc' = [tpc EXCEPT ![t] = "skipped"] /\ status' # "RUNNING"
      BY <2>1, <2>4 DEF TaskStopped
    <3>2. QED
      BY <2>1, <2>2, <2>3, <3>1, RestageKeeps
  <2>5. CASE ~TaskStopped
    <3>1. tpc' = [tpc EXCEPT ![t] = "plan"]
      BY <2>1, <2>5
    <3>2. QED
      BY <2>1, <2>2, <2>3, <3>1, RestageKeeps
  <2>6. QED
    BY <2>4, <2>5
<1>3. ASSUME NEW t \in Tables, TableFails(t) PROVE CopyInv'
  <2>1. /\ tpc[t] = "copy" /\ AllEnded(t)
        /\ UNCHANGED <<phase, cancelled, cut, workerVars, target, rolled>>
        /\ tpc' = [tpc EXCEPT ![t] = "error"]
        /\ status' = IF cancelled \/ UserStop THEN status ELSE "FAILED"
    BY <1>3 DEF TableFails
  <2>2. status' # "RUNNING"
    BY <1>0, <2>1 DEF UserStop
  <2>3. phase = "copy" /\ \A w \in Workers : wpc[t][w] \in Quiet
    BY <2>1 DEF CopyInv, TableInv, AllEnded, Quiet
  <2>4. StatusFalls
    BY <1>0, <2>1, <2>2 DEF StatusFalls
  <2>5. QED
    BY <2>1, <2>2, <2>3, <2>4, RestageKeeps
<1>4. ASSUME NEW t \in Tables, TableEnds(t) PROVE CopyInv'
  <2>1. /\ tpc[t] = "copy" /\ AllEnded(t) /\ ~AnyFailed(t)
        /\ UNCHANGED <<phase, status, cancelled, cut, workerVars, target, rolled>>
        /\ tpc' = [tpc EXCEPT ![t] = IF TaskStopped THEN "skipped" ELSE "done"]
    BY <1>4 DEF TableEnds, indexVars, runVars
  <2>2. phase = "copy" /\ \A w \in Workers : wpc[t][w] \in Quiet
    BY <2>1 DEF CopyInv, TableInv, AllEnded, Quiet
  <2>3. StatusFalls
    BY <1>0, <2>1 DEF StatusFalls
  <2>4. CASE TaskStopped
    <3>1. tpc' = [tpc EXCEPT ![t] = "skipped"] /\ status' # "RUNNING"
      BY <2>1, <2>4 DEF TaskStopped
    <3>2. QED
      BY <2>1, <2>2, <2>3, <3>1, RestageKeeps
  <2>5. CASE ~TaskStopped
    <3>1. tpc' = [tpc EXCEPT ![t] = "done"] /\ target[t] = Keys[t] \ rolled[t]
      BY <2>1, <2>5, EndedIsCopied DEF TaskStopped
    <3>2. QED
      BY <2>1, <2>2, <2>3, <3>1, RestageKeeps
  <2>6. QED
    BY <2>4, <2>5
<1>5. CASE CopyEnds
  <2>1. /\ phase = "copy" /\ UNCHANGED <<cancelled, copyVars>>
        /\ \A t \in Tables : tpc[t] \in {"done", "skipped", "error"}
        /\ phase' \in {"collect", "failed", "stopped"} /\ status' \in {status, "FAILED"}
    BY <1>5 DEF CopyEnds, FailRun
  <2>2. UNCHANGED <<tpc, cut, wpc, cursor, hand, tx, txN, attempt, target, rolled>>
    BY <2>1 DEF copyVars
  <2>3. StatusFalls
    BY <1>0, <2>1 DEF StatusFalls
  <2>4. CopyType' /\ CutsOrdered'
    BY <2>2 DEF CopyInv, CopyType, CutsOrdered
  <2>5. \A t \in Tables : TableInv(t)'
    BY <2>1, <2>2 DEF CopyInv, TableInv
  <2>6. \A t \in Tables, w \in Workers : WorkerInv(t, w)'
    BY <2>2, <2>3, SameWorkerKeeps DEF CopyInv, SameWorker
  <2>7. QED
    BY <2>3, <2>4, <2>5, <2>6 DEF CopyInv, StatusFalls
<1>6. QED
  BY <1>1, <1>2, <1>3, <1>4, <1>5, PlanKeeps DEF CopyStep, WorkerStep, TableStep

LEMMA CopyKeeps == FrameInv /\ CopyInv /\ [Next]_vars => CopyInv'
<1> SUFFICES ASSUME FrameInv, CopyInv, [Next]_vars PROVE CopyInv'
  OBVIOUS
<1>0. cancelled => status # "RUNNING"
  BY DEF CopyInv
<1>1. CASE (IndexStep \/ SourceStep \/ UserStep) /\ UNCHANGED copyVars
  BY <1>0, <1>1, IndexStepMoves, OutsideKeepsCopy
<1>2. CASE CopyStep
  BY <1>2, CopyStepKeeps
<1>3. CASE UNCHANGED vars
  <2>1. PhaseMoves /\ StatusFalls /\ UNCHANGED copyVars
    BY <1>0, <1>3 DEF vars, indexVars, runVars, PhaseMoves, StatusFalls
  <2>2. QED
    BY <2>1, OutsideKeepsCopy
<1>4. QED
  BY <1>1, <1>2, <1>3 DEF Next, ProgramStep

(* Both parts of the invariant hold in every state of every run.           *)
LEMMA Inductive == Spec => []IInv
<1>1. Init => IInv
  BY FrameStarts, CopyStarts DEF IInv
<1>2. IInv /\ [Next]_vars => IInv'
  BY FrameKeeps, CopyKeeps DEF IInv
<1>3. QED
  BY <1>1, <1>2, PTL DEF Spec

(* Every variable keeps its type: the counters of retries and of batches   *)
(* stay within their limits, and the rows of a transaction are rows of its *)
(* own table.                                                              *)
THEOREM TypeCorrect == Spec => []TypeOK
<1>1. IInv => TypeOK
  <2> SUFFICES ASSUME IInv PROVE TypeOK
    OBVIOUS
  <2>1. CommitAlone <= Max({CommitAlone, CommitEvery}) /\ CommitEvery <= Max({CommitAlone, CommitEvery})
        /\ Max({CommitAlone, CommitEvery}) \in Int
    <3>1. IsFiniteSet({CommitAlone}) /\ IsFiniteSet({CommitEvery})
      BY FS_Singleton
    <3>2. IsFiniteSet({CommitAlone} \cup {CommitEvery})
      BY <3>1, FS_Union
    <3>3. {CommitAlone, CommitEvery} = {CommitAlone} \cup {CommitEvery}
      OBVIOUS
    <3>4. \A x \in {CommitAlone, CommitEvery} : Max({CommitAlone, CommitEvery}) >= x
      BY <3>2, <3>3, Settings, MaxIsGreatest
    <3>5. Max({CommitAlone, CommitEvery}) \in Int
      BY <3>2, <3>3, Settings, MaxIsGreatest
    <3>6. QED
      BY <3>4, <3>5, Settings
  <2>2. ASSUME NEW t \in Tables, NEW w \in Workers
        PROVE  txN[t][w] \in 0..Max({CommitAlone, CommitEvery})
    <3>1. txN[t][w] \in Nat /\ txN[t][w] <= CommitAfter(t)
      BY DEF IInv, CopyInv, CopyType, WorkerInv, Stage
    <3>2. CommitAfter(t) \in {CommitAlone, CommitEvery}
      BY DEF CommitAfter
    <3>3. QED
      BY <2>1, <3>1, <3>2, Settings
  <2>3. \A t \in Tables, w \in Workers : wpc[t][w] # "off" => w <= Last(t)
    BY DEF IInv, CopyInv, WorkerInv, Stage
  <2>4. ASSUME NEW t \in Tables
        PROVE  /\ idx[t] \cup saved[t] \cup removed[t] \cup todo[t] \subseteq Indexes
               /\ target[t] \cup rolled[t] \subseteq Keys[t]
               /\ tries[t] \in 0..ConnRetries
    BY DEF IInv, FrameInv, FrameType, CopyInv, CopyType
  <2>5. ASSUME NEW t \in Tables, NEW w \in Workers
        PROVE  tx[t][w] \cup hand[t][w] \subseteq Keys[t] /\ attempt[t][w] \in 0..LockRetries
    BY DEF IInv, CopyInv, CopyType
  <2>6. QED
    BY <2>2, <2>3, <2>4, <2>5 DEF IInv, FrameInv, FrameType, TypeOK, Stages
<1>2. QED
  BY <1>1, Inductive, PTL

(* The parts of the workers do not overlap: no row is in two transactions, *)
(* and none that is committed is inserted again.                           *)
THEOREM EachRowOnce == Spec => []WrittenOnce
<1>1. IInv => WrittenOnce
  <2> SUFFICES ASSUME IInv, NEW t \in Tables
               PROVE  /\ \A w \in Workers : (tx[t][w] \cup hand[t][w]) \cap target[t] = {}
                      /\ \A v, w \in Workers : v # w =>
                           (tx[t][v] \cup hand[t][v]) \cap (tx[t][w] \cup hand[t][w]) = {}
    BY DEF WrittenOnce
  <2>0. CutsAt(t)
    BY DEF IInv, CopyInv, CutsOrdered, CutsAt
  <2>1. ASSUME NEW w \in Workers, NEW k \in tx[t][w] \cup hand[t][w]
        PROVE  k \in Int /\ w <= Last(t) /\ InPart(t, w, k) /\ k \notin target[t]
    <3>1. WorkerInv(t, w) /\ cursor[t][w] \in Int /\ tx[t][w] \in SUBSET Int /\ hand[t][w] \in SUBSET Int
          /\ target[t] \in SUBSET Int
      BY DEF IInv, CopyInv, CopyType
    <3>2. w <= Last(t)
      BY <3>1 DEF WorkerInv, Stage, Quiet
    <3>3. Low(t, w) \in Int /\ cursor[t][w] >= Low(t, w)
      BY <2>0, <3>1, <3>2, CutFacts DEF WorkerInv, Tidy
    <3>4. CASE k \in tx[t][w]
      BY <3>1, <3>2, <3>4 DEF WorkerInv, Tidy
    <3>5. CASE k \in hand[t][w]
      <4>1. k \in Rest(t, w)
        BY <3>1, <3>5, BatchFacts DEF WorkerInv, Stage
      <4>2. k > cursor[t][w] /\ UpToEnd(t, w, k) /\ k \in Int
        BY <3>1, <3>5, <4>1 DEF Rest
      <4>3. InPart(t, w, k)
        BY <3>1, <3>3, <4>2 DEF InPart
      <4>4. ~ (k <= cursor[t][w])
        BY <3>1, <4>2
      <4>5. QED
        BY <3>1, <3>2, <4>2, <4>3, <4>4 DEF WorkerInv, Tidy
    <3>6. QED
      BY <3>4, <3>5
  <2>2. ASSUME NEW v \in Workers, NEW w \in Workers, v # w,
               NEW k \in (tx[t][v] \cup hand[t][v]) \cap (tx[t][w] \cup hand[t][w])
        PROVE  FALSE
    BY <2>0, <2>1, <2>2, PartsDisjoint
  <2>3. QED
    BY <2>1, <2>2
<1>2. QED
  BY <1>1, Inductive, PTL

(* Past the copy, with the task running, every row is committed or was     *)
(* rolled back by a lock retry: no table is passed off as copied because   *)
(* it failed, was never taken or its workers left early.                   *)
THEOREM CopyIsComplete == Spec => []CopiedOrRolledBack
<1>1. IInv => CopiedOrRolledBack
  BY DEF IInv, CopyInv, TableInv, CopiedOrRolledBack
<1>2. QED
  BY <1>1, Inductive, PTL
=============================================================================
