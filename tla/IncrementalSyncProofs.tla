----------------------- MODULE IncrementalSyncProofs -----------------------
(***************************************************************************)
(* Theorems of IncrementalSync, for any sinks, any transactions, any       *)
(* number of faults and any target schemas.                                *)
(*                                                                         *)
(* NothingSkipped speaks of the checkpoint only and is not inductive.      *)
(* DataInv says what each place of a transaction knows:                    *)
(*   - the stream stands where the checkpoint is (AtCheckpoint);           *)
(*   - what a mark covers every sink has, the durable one included         *)
(*     (MarkCovered), so a skipped sink has the transaction (Skipping);    *)
(*   - an open sink transaction holds exactly the events dispatched so     *)
(*     far (Writing), and once all are, a sink either still holds them     *)
(*     all or has them (Committed);                                        *)
(*   - before the checkpoint is saved every sink has them (Saving).        *)
(* A sink `has' a transaction also when a stop overtook its commit there;  *)
(* of a durable sink that was closed nothing is said while it is open.     *)
(***************************************************************************)
EXTENDS IncrementalSync, FiniteSetTheorems, TLAPS

InTxn == pc \in {"write", "commit", "marked", "save"}

(* The types, and what the handler and the sinks keep open when.           *)
OpenInv ==
  /\ InTxn => at < head
  /\ active \cap sinkSkipApply = {}
  /\ \A s \in Sinks \ active : pend[s] = <<>>
  /\ ~txnOpen => active = {} /\ sinkSkipApply = {} /\ ~txnHasWrites
  /\ pc = "save" => active = {}
  /\ pc = "write" => ev < Size[n]

TypeInv == TypeOK /\ OpenInv

Has(s, t) == Overtaken(s, t) \/ ToSet(EventsOf(t)) \subseteq Delivered(s)
Live == active \ (Durable \cap closed)

AtCheckpoint == ~gap /\ pc # "down" => at = cp
Covered == ~gap => \A t \in 1..cp, s \in Sinks : Has(s, t)
MarkCovered ==
  ~gap => \A d \in Durable, m \in Schemas : \A t \in 1..mark[d][m], s \in Sinks : Has(s, t)

Skipping ==
  /\ txnOpen /\ ~txnHasWrites => sinkSkipApply = Sinks
  /\ ~gap /\ pc \in {"write", "commit", "marked"} => \A s \in sinkSkipApply : Has(s, n)

Writing ==
  pc = "write" =>
    /\ ~txnOpen => ev = 0
    /\ txnOpen => active = Sinks \ sinkSkipApply
    /\ \A s \in Live : pend[s] = [i \in 1..ev |-> <<n, i>>]

Committed ==
  pc \in {"commit", "marked"} =>
    /\ ~txnOpen => Size[n] = 0
    /\ \A s \in Live : pend[s] = EventsOf(n)
    /\ ~gap /\ txnOpen => \A s \in Sinks \ active : Has(s, n)

Saving == ~gap /\ pc = "save" => \A s \in Sinks : Has(s, n)

DataInv ==
  /\ AtCheckpoint /\ Covered /\ MarkCovered
  /\ Skipping /\ Writing /\ Committed /\ Saving

IInv == TypeInv /\ DataInv

-----------------------------------------------------------------------------
(* Sequences of events *)

(* What a sequence holds after another one was appended.                   *)
LEMMA ConcatHolds ==
  ASSUME NEW S, NEW a \in Seq(S), NEW b \in Seq(S)
  PROVE  /\ a \o b \in Seq(S)
         /\ ToSet(a) \subseteq ToSet(a \o b)
         /\ ToSet(b) \subseteq ToSet(a \o b)
<1>1. a \o b \in Seq(S) /\ Len(a \o b) = Len(a) + Len(b)
  OBVIOUS
<1>2. ASSUME NEW i \in 1..Len(a) PROVE (a \o b)[i] = a[i]
  BY <1>2
<1>3. ASSUME NEW i \in 1..Len(b) PROVE (a \o b)[Len(a) + i] = b[i]
  BY <1>3
<1>4. ASSUME NEW i \in 1..Len(b) PROVE Len(a) + i \in 1..Len(a \o b)
  BY <1>1, <1>4
<1>5. ASSUME NEW i \in 1..Len(a) PROVE i \in 1..Len(a \o b)
  BY <1>1, <1>5
<1>6. ToSet(a) \subseteq ToSet(a \o b)
  BY <1>2, <1>5 DEF ToSet
<1>7. ToSet(b) \subseteq ToSet(a \o b)
  <2>1. ASSUME NEW e \in ToSet(b) PROVE e \in ToSet(a \o b)
    <3>1. PICK i \in 1..Len(b) : e = b[i]
      BY DEF ToSet
    <3>2. e = (a \o b)[Len(a) + i] /\ Len(a) + i \in 1..Len(a \o b)
      BY <1>3, <1>4, <3>1
    <3> QED
      BY <3>2 DEF ToSet
  <2> QED
    BY <2>1
<1> QED
  BY <1>1, <1>6, <1>7

(* A part of a sequence is a sequence of its elements.                     *)
LEMMA PartIsSequence ==
  ASSUME NEW S, NEW q \in Seq(S), NEW part \in Parts(q)
  PROVE  part \in Seq(S)
<1>1. PICK k \in 0..Len(q) : \E f \in [1..k -> 1..Len(q)] : part = [i \in 1..k |-> q[f[i]]]
  BY DEF Parts
<1>2. PICK f \in [1..k -> 1..Len(q)] : part = [i \in 1..k |-> q[f[i]]]
  BY <1>1
<1>3. k \in Nat /\ \A i \in 1..k : q[f[i]] \in S
  BY <1>1, <1>2
<1> QED
  BY <1>2, <1>3

(* The events of a transaction are a sequence of events.                   *)
LEMMA EventsTyped ==
  ASSUME NEW t \in Transactions
  PROVE  /\ Size[t] \in Nat
         /\ EventsOf(t) \in Seq(EventSet) /\ Len(EventsOf(t)) = Size[t]
         /\ \A i \in 1..Size[t] : <<t, i>> \in EventSet /\ EventsOf(t)[i] = <<t, i>>
<1>1. Size[t] \in Nat
  BY IncrementalAssumption DEF IncrementalAssumption
<1>2. \A i \in 1..Size[t] : <<t, i>> \in EventSet
  BY DEF EventSet
<1> QED
  BY <1>1, <1>2 DEF EventsOf
-----------------------------------------------------------------------------
(* Types *)

USE DEF Transactions, Plain

LEMMA InTransaction ==
  ASSUME TypeInv, InTxn
  PROVE  n \in Transactions
BY IncrementalAssumption DEF IncrementalAssumption, TypeInv, TypeOK, OpenInv, n

LEMMA FaultsTyped ==
  ASSUME TypeOK, NEW f, Fault(f) \/ Breaks(f)
  PROVE  faults' \in 0..MaxFaults
BY IncrementalAssumption DEF IncrementalAssumption, TypeOK, Fault, Breaks

LEMMA TypeInit == Init => TypeInv
<1> SUFFICES ASSUME Init PROVE TypeInv
  OBVIOUS
<1>1. [s \in Sinks |-> <<>>] \in [Sinks -> Seq(EventSet)]
  OBVIOUS
<1>2. [s \in Durable |-> [m \in Schemas |-> 0]] \in [Durable -> [Schemas -> 0..MaxHead]]
  BY IncrementalAssumption DEF IncrementalAssumption
<1>3. 0 \in 0..MaxFaults /\ 0 \in 0..MaxHead /\ Until \in 0..MaxHead
  BY IncrementalAssumption DEF IncrementalAssumption
<1>4. pend \in [Sinks -> Seq(EventSet)] /\ out \in [Sinks -> Seq(EventSet)]
  BY <1>1 DEF Init
<1>5. TypeOK
  BY <1>2, <1>3, <1>4 DEF Init, TypeOK
<1>6. OpenInv
  BY DEF Init, OpenInv, InTxn
<1> QED
  BY <1>5, <1>6 DEF TypeInv

(* Every way a subscription ends keeps the types.                          *)
LEMMA TypeEnds ==
  ASSUME TypeInv, pc' = "down", until' \in {0, Until}, resetTxnState, DropOpen,
         cancelled' = FALSE, closing' = FALSE, catchUpDone' = FALSE, ev' = 0, at' = 0,
         closed' = {}, overtaken' = overtaken, strayed' \subseteq EventSet,
         UNCHANGED <<head, cp, meta, gap>>, faults' \in 0..MaxFaults,
         mark' \in [Durable -> [Schemas -> 0..MaxHead]], out' \in [Sinks -> Seq(EventSet)]
  PROVE  TypeInv'
<1>1. pend' \in [Sinks -> Seq(EventSet)] /\ \A s \in Sinks : pend'[s] = <<>>
  BY DEF DropOpen
<1>2. cp' \in 0..MaxHead /\ head' \in 0..MaxHead /\ at' \in 0..MaxHead /\ meta' \in [Durable -> Schemas]
  BY IncrementalAssumption DEF IncrementalAssumption, TypeInv, TypeOK
<1>3. TypeOK'
  BY <1>1, <1>2 DEF TypeInv, TypeOK, resetTxnState, DropOpen
<1>4. OpenInv'
  BY <1>1 DEF OpenInv, InTxn, resetTxnState, DropOpen
<1> QED
  BY <1>3, <1>4 DEF TypeInv

(* A commit keeps the types of what the target holds.                      *)
LEMMA TypeCommits ==
  ASSUME TypeInv, NEW s \in Sinks, Committing(s), Commits(s)
  PROVE  /\ out' \in [Sinks -> Seq(EventSet)]
         /\ mark' \in [Durable -> [Schemas -> 0..MaxHead]]
<1>1. n \in 0..MaxHead
  BY InTransaction, IncrementalAssumption DEF IncrementalAssumption, Committing, InTxn
<1>2. out[s] \o pend[s] \in Seq(EventSet)
  BY ConcatHolds DEF TypeInv, TypeOK
<1>3. out' \in [Sinks -> Seq(EventSet)]
  BY <1>2 DEF Commits, TypeInv, TypeOK
<1>4. mark' \in [Durable -> [Schemas -> 0..MaxHead]]
  BY <1>1 DEF Commits, TypeInv, TypeOK
<1> QED
  BY <1>3, <1>4
LEMMA TypeStep == TypeInv /\ [Next]_vars => TypeInv'
<1> SUFFICES ASSUME TypeInv, [Next]_vars PROVE TypeInv'
  OBVIOUS
<1> USE DEF TypeInv
<1>h. MaxHead \in Nat /\ Until \in 0..MaxHead /\ MaxFaults \in Nat /\ Durable \subseteq Sinks
  BY IncrementalAssumption DEF IncrementalAssumption
<1>u. ASSUME Ends PROVE until' \in {0, Until}
  BY <1>u DEF Ends, TypeOK
<1>1. CASE UNCHANGED vars
  <2>1. TypeOK'
    BY <1>1 DEF TypeOK, vars, streamVars, handlerVars, openVars, targetVars, closeVars
  <2>2. OpenInv'
    BY <1>1 DEF OpenInv, InTxn, n, vars, streamVars, handlerVars, openVars, targetVars
  <2> QED
    BY <2>1, <2>2
<1>2. CASE SourceCommits
  <2>1. TypeOK'
    BY <1>2, <1>h DEF SourceCommits, TypeOK, streamVars, handlerVars, openVars, targetVars, closeVars
  <2>2. OpenInv'
    BY <1>2, <1>h DEF SourceCommits, OpenInv, InTxn, n, TypeOK, streamVars, handlerVars, openVars, targetVars
  <2> QED
    BY <2>1, <2>2
<1>3. CASE Stop
  <2>1. faults' \in 0..MaxFaults
    BY <1>3, FaultsTyped DEF Stop
  <2>2. TypeOK'
    BY <1>3, <2>1 DEF Stop, TypeOK, handlerVars, openVars, targetVars, closeVars
  <2>3. OpenInv'
    BY <1>3 DEF Stop, OpenInv, InTxn, n, handlerVars, openVars
  <2> QED
    BY <2>2, <2>3
<1>4. CASE Crash
  <2>1. faults' \in 0..MaxFaults
    BY <1>4, FaultsTyped DEF Crash
  <2>2. /\ until' \in {0, Until} /\ strayed' \subseteq EventSet
        /\ mark' \in [Durable -> [Schemas -> 0..MaxHead]] /\ out' \in [Sinks -> Seq(EventSet)]
    BY <1>4 DEF Crash, TypeOK, targetVars
  <2> QED
    BY <1>4, <2>1, <2>2, TypeEnds DEF Crash
<1>e. ASSUME pc = "write" PROVE EventsOf(n)[ev + 1] \in EventSet
  <2>1. n \in Transactions /\ ev \in Nat /\ ev < Size[n]
    BY <1>e, InTransaction DEF InTxn, TypeOK, OpenInv
  <2>2. Size[n] \in Nat /\ ev + 1 \in 1..Size[n]
    BY <2>1, EventsTyped
  <2> QED
    BY <2>1, <2>2, EventsTyped
<1>5. CASE StreamEnds \/ OnEventFails \/ FlushOrMarkFails \/ SaveFails
  <2>1. faults' \in 0..MaxFaults
    BY <1>5, FaultsTyped DEF StreamEnds, OnEventFails, FlushOrMarkFails, SaveFails, TypeOK
  <2>2. Ends /\ UNCHANGED <<head, cp, meta, gap, overtaken>> /\ UNCHANGED targetVars
    BY <1>5 DEF StreamEnds, OnEventFails, FlushOrMarkFails, SaveFails
  <2>3. mark' \in [Durable -> [Schemas -> 0..MaxHead]] /\ out' \in [Sinks -> Seq(EventSet)]
    BY <2>2 DEF TypeOK, targetVars
  <2>4. strayed' \subseteq EventSet
    BY <1>5, <1>e DEF StreamEnds, OnEventFails, Strays, FlushOrMarkFails, SaveFails, TypeOK
  <2> QED
    BY <1>u, <2>1, <2>2, <2>3, <2>4, TypeEnds DEF Ends
<1>6. CASE Start
  <2>1. faults' \in 0..MaxFaults
    BY <1>6, FaultsTyped DEF Start, TypeOK
  <2>2. at' \in 0..MaxHead /\ gap' \in BOOLEAN /\ pc' = "boundary" /\ pc = "down"
    BY <1>6 DEF Start, TypeOK
  <2>3. TypeOK'
    BY <1>6, <2>1, <2>2 DEF Start, PrepareTables, TypeOK, handlerVars, openVars, targetVars, closeVars
  <2>4. OpenInv'
    BY <1>6 DEF Start, OpenInv, InTxn, handlerVars, openVars
  <2> QED
    BY <2>3, <2>4
<1>7. CASE AlreadySatisfied
  <2>1. TypeOK'
    BY <1>7 DEF AlreadySatisfied, TypeOK, streamVars, handlerVars, openVars, targetVars, closeVars
  <2>2. OpenInv'
    BY <1>7 DEF AlreadySatisfied, OpenInv, InTxn, n, streamVars, handlerVars, openVars, targetVars
  <2> QED
    BY <2>1, <2>2
<1>8. CASE OnXID
  <2>1. n \in Transactions /\ at \in Nat
    BY <1>8, <1>h DEF OnXID, TypeOK, n
  <2>2. Size[n] \in Nat
    BY <2>1, EventsTyped
  <2>3. TypeOK'
    BY <1>8 DEF OnXID, TypeOK, handlerVars, openVars, targetVars, closeVars
  <2>4. OpenInv'
    BY <1>8, <2>2 DEF OnXID, OpenInv, InTxn, n, TypeOK, handlerVars, openVars
  <2> QED
    BY <2>3, <2>4
<1>9. CASE OnEvent
  <2>1. n \in Transactions /\ ev \in Nat
    BY <1>9, InTransaction DEF OnEvent, InTxn, TypeOK
  <2>2. Size[n] \in Nat /\ EventsOf(n)[ev + 1] \in EventSet
    BY <1>9, <2>1, EventsTyped DEF OnEvent
  <2>3. Skipped \subseteq Durable
    BY DEF Skipped, TypeOK
  <2>4. pend' \in [Sinks -> Seq(EventSet)]
    BY <1>9, <2>2 DEF OnEvent, TypeOK
  <2>5. \A s \in Sinks \ active' : pend'[s] = <<>>
    <3> SUFFICES ASSUME NEW s \in Sinks, s \notin active' PROVE pend'[s] = <<>>
      OBVIOUS
    <3>1. s \in Skipped /\ pend'[s] = pend[s]
      BY <1>9 DEF OnEvent
    <3>2. CASE txnOpen
      BY <3>1, <3>2, <1>9 DEF Skipped, OpenInv
    <3>3. CASE ~txnOpen
      BY <3>1, <3>3 DEF OpenInv
    <3> QED
      BY <3>2, <3>3
  <2>6. pc' \in {"write", "commit"} /\ (pc' = "write" => ev' < Size[n])
    <3>1. ev + 1 # Size[n] => ev + 1 < Size[n]
      BY <1>9, <2>1, <2>2 DEF OnEvent
    <3> QED
      BY <1>9, <3>1 DEF OnEvent
  <2>7. TypeOK'
    BY <1>9, <1>e, <2>1, <2>3, <2>4, <2>6 DEF OnEvent, Strays, TypeOK, targetVars
  <2>8. OpenInv'
    BY <1>9, <2>5, <2>6 DEF OnEvent, OpenInv, InTxn, n
  <2> QED
    BY <2>7, <2>8
<1>10. CASE NothingToCommit
  <2>1. pend' \in [Sinks -> Seq(EventSet)] /\ \A s \in Sinks : pend'[s] = <<>>
    BY <1>10 DEF NothingToCommit, DropOpen
  <2>2. TypeOK'
    BY <1>10, <2>1 DEF NothingToCommit, DropOpen, TypeOK, handlerVars, targetVars, closeVars
  <2>3. OpenInv'
    BY <1>10, <2>1 DEF NothingToCommit, DropOpen, OpenInv, InTxn, n, handlerVars
  <2> QED
    BY <2>2, <2>3
<1>a. ASSUME NEW s \in Sinks, Committing(s), Advances(s), UNCHANGED <<head, cp, until, cancelled, closing, catchUpDone, at, ev, handlerVars, meta, closed, gap, faults>>,
            out' \in [Sinks -> Seq(EventSet)], mark' \in [Durable -> [Schemas -> 0..MaxHead]],
            overtaken' \subseteq Transactions, strayed' = strayed
      PROVE TypeInv'
  <2>1. pend' \in [Sinks -> Seq(EventSet)] /\ \A r \in Sinks : pend'[r] = IF r = s THEN <<>> ELSE pend[r]
    BY <1>a DEF Advances, TypeOK
  <2>2. pc = "marked" /\ s \in active /\ pc' \in {"marked", "save"} /\ txnOpen /\ active' = active \ {s}
    BY <1>a DEF Advances, Committing, OpenInv
  <2>3. TypeOK'
    BY <1>a, <2>1, <2>2 DEF TypeOK, handlerVars
  <2>4. OpenInv'
    <3>1. pc' = "save" => active' = {}
      BY <1>a, <2>2 DEF Advances
    <3> QED
      BY <1>a, <2>1, <2>2, <3>1 DEF OpenInv, InTxn, n, handlerVars
  <2> QED
    BY <2>3, <2>4
<1>11. ASSUME NEW s \in Sinks, CommitTransaction(s) PROVE TypeInv'
  <2>1. out' \in [Sinks -> Seq(EventSet)] /\ mark' \in [Durable -> [Schemas -> 0..MaxHead]]
    BY <1>11, TypeCommits DEF CommitTransaction
  <2>2. overtaken' \subseteq Transactions /\ closed' = closed /\ strayed' = strayed
    BY <1>11 DEF CommitTransaction, closeVars, TypeOK
  <2> QED
    BY <1>11, <1>a, <2>1, <2>2 DEF CommitTransaction
<1>14. ASSUME NEW s \in Sinks, CommitsNothing(s) PROVE TypeInv'
  <2>1. n \in Transactions
    BY <1>14, InTransaction DEF CommitsNothing, Committing, InTxn
  <2>2. out' \in [Sinks -> Seq(EventSet)] /\ mark' \in [Durable -> [Schemas -> 0..MaxHead]]
    BY <1>14 DEF CommitsNothing, TypeOK, targetVars
  <2>3. overtaken' \subseteq Transactions
    BY <1>14, <2>1 DEF CommitsNothing, TypeOK
  <2> QED
    BY <1>14, <1>a, <2>2, <2>3 DEF CommitsNothing
<1>15. CASE FlushAndMark
  <2>1. TypeOK'
    BY <1>15 DEF FlushAndMark, TypeOK, handlerVars, openVars, targetVars, closeVars
  <2>2. OpenInv'
    BY <1>15 DEF FlushAndMark, OpenInv, InTxn, n, handlerVars, openVars
  <2> QED
    BY <2>1, <2>2
<1>16. ASSUME NEW s \in Sinks, CloseSink(s) PROVE TypeInv'
  <2>1. pend' \in [Sinks -> Seq(EventSet)] /\ \A r \in Sinks : pend'[r] = pend[r] \/ pend'[r] = <<>>
    BY <1>16 DEF CloseSink, TypeOK
  <2>2. TypeOK'
    BY <1>16, <2>1 DEF CloseSink, TypeOK, streamVars, handlerVars, targetVars
  <2>3. OpenInv'
    BY <1>16, <2>1 DEF CloseSink, OpenInv, InTxn, n, streamVars, handlerVars
  <2> QED
    BY <2>2, <2>3
<1>12. ASSUME NEW s \in Sinks, CommitFails(s) PROVE TypeInv'
  <2>1. faults' \in 0..MaxFaults
    BY <1>12, FaultsTyped DEF CommitFails
  <2>5. strayed' \subseteq EventSet
    BY <1>12 DEF CommitFails, TypeOK
  <2>2. CASE UNCHANGED targetVars
    <3>1. mark' \in [Durable -> [Schemas -> 0..MaxHead]] /\ out' \in [Sinks -> Seq(EventSet)]
      BY <2>2 DEF TypeOK, targetVars
    <3> QED
      BY <1>12, <1>u, <2>1, <2>5, <3>1, TypeEnds DEF CommitFails, Ends
  <2>3. CASE Commits(s)
    <3>1. mark' \in [Durable -> [Schemas -> 0..MaxHead]] /\ out' \in [Sinks -> Seq(EventSet)]
      BY <1>12, <2>3, TypeCommits DEF CommitFails
    <3> QED
      BY <1>12, <1>u, <2>1, <2>5, <3>1, TypeEnds DEF CommitFails, Ends
  <2>4. ASSUME UNCHANGED mark, NEW part \in Parts(pend[s]), out' = [out EXCEPT ![s] = @ \o part]
        PROVE  TypeInv'
    <3>1. pend[s] \in Seq(EventSet) /\ out[s] \in Seq(EventSet)
      BY DEF TypeOK
    <3>2. out[s] \o part \in Seq(EventSet)
      BY <3>1, PartIsSequence, ConcatHolds
    <3>3. mark' \in [Durable -> [Schemas -> 0..MaxHead]] /\ out' \in [Sinks -> Seq(EventSet)]
      BY <2>4, <3>2 DEF TypeOK
    <3> QED
      BY <1>12, <1>u, <2>1, <2>5, <3>3, TypeEnds DEF CommitFails, Ends
  <2> QED
    BY <1>12, <2>2, <2>3, <2>4 DEF CommitFails
<1>13. CASE SaveCheckpoint
  <2>1. n \in 0..MaxHead
    BY <1>13, <1>h, InTransaction DEF SaveCheckpoint, InTxn
  <2>2. catchUpDone' \in BOOLEAN /\ cancelled' \in BOOLEAN
    BY <1>13 DEF SaveCheckpoint, maybeFinishCatchUp, NoFinish, TypeOK
  <2>3. \A s \in Sinks : pend[s] = <<>>
    BY <1>13 DEF SaveCheckpoint, OpenInv
  <2>4. TypeOK'
    BY <1>13, <2>1, <2>2, <2>3 DEF SaveCheckpoint, resetTxnState, TypeOK, OpenInv, openVars, targetVars, closeVars
  <2>5. OpenInv'
    BY <1>13, <2>3 DEF SaveCheckpoint, resetTxnState, OpenInv, InTxn, openVars
  <2> QED
    BY <2>4, <2>5
<1> QED
  BY <1>1, <1>2, <1>3, <1>4, <1>5, <1>6, <1>7, <1>8, <1>9, <1>10, <1>11, <1>12, <1>13,
     <1>14, <1>15, <1>16
  DEF Next, ServiceStep

(* The types, and that between two source transactions no sink transaction *)
(* is open and no sink is still skipped.                                   *)
THEOREM TypeCorrect == Spec => []TypeOK
<1>1. TypeInv => TypeOK
  BY DEF TypeInv
<1> QED
  BY <1>1, TypeInit, TypeStep, PTL DEF Spec
-----------------------------------------------------------------------------
(* What has been delivered *)

Grows == overtaken \subseteq overtaken' /\ \A s \in Sinks : Delivered(s) \subseteq Delivered(s)'

LEMMA AppendGrows ==
  ASSUME TypeInv, NEW r \in Sinks, NEW b \in Seq(EventSet), out' = [out EXCEPT ![r] = @ \o b],
         overtaken' = overtaken
  PROVE  Grows /\ ToSet(b) \subseteq Delivered(r)'
<1>1. out[r] \in Seq(EventSet) /\ out \in [Sinks -> Seq(EventSet)]
  BY DEF TypeInv, TypeOK
<1>2. ToSet(out[r]) \subseteq ToSet(out[r] \o b) /\ ToSet(b) \subseteq ToSet(out[r] \o b)
  BY <1>1, ConcatHolds
<1>3. \A s \in Sinks : out'[s] = IF s = r THEN out[r] \o b ELSE out[s]
  BY <1>1
<1> QED
  BY <1>2, <1>3 DEF Grows, Delivered

LEMMA HasGrows ==
  ASSUME Grows, NEW s \in Sinks, NEW t, Has(s, t)
  PROVE  Has(s, t)'
BY DEF Grows, Has, Overtaken

(* A commit delivers the transaction the sink had open.                    *)
LEMMA CommitDelivers ==
  ASSUME TypeInv, DataInv, NEW s \in Live, Committing(s), Commits(s), overtaken' = overtaken
  PROVE  Grows /\ ToSet(EventsOf(n)) \subseteq Delivered(s)'
<1>1. n \in Transactions
  BY InTransaction DEF Committing, InTxn
<1>2. pend[s] = EventsOf(n) /\ s \in Sinks
  BY DEF DataInv, Committed, Committing, Live, TypeInv, TypeOK
<1>3. EventsOf(n) \in Seq(EventSet)
  BY <1>1, EventsTyped
<1> QED
  BY <1>2, <1>3, AppendGrows DEF Commits

(* The durable sink commits last: the mark it leaves covers what every     *)
(* sink has.                                                               *)
LEMMA CommitMark ==
  ASSUME TypeInv, DataInv, NEW s \in Live, Committing(s), Commits(s), UNCHANGED <<gap, overtaken>>
  PROVE  MarkCovered'
<1> SUFFICES ASSUME ~gap, NEW d \in Durable, NEW m \in Schemas, NEW u \in 1..mark'[d][m], NEW r \in Sinks
             PROVE  Has(r, u)'
  BY DEF MarkCovered
<1>1. n \in Transactions /\ at \in Nat /\ at = cp
  BY InTransaction DEF Committing, InTxn, TypeInv, TypeOK, DataInv, AtCheckpoint
<1>2. mark \in [Durable -> [Schemas -> 0..MaxHead]] /\ meta \in [Durable -> Schemas]
  BY DEF TypeInv, TypeOK
<1>3. Grows /\ ToSet(EventsOf(n)) \subseteq Delivered(s)'
  BY CommitDelivers
<1>4. CASE s \in Durable /\ d = s /\ m = meta[s]
  <2>1. mark'[d][m] = n
    BY <1>2, <1>4 DEF Commits
  <2>2. CASE u = n /\ r = s
    BY <1>3, <2>2 DEF Has
  <2>3. CASE u = n /\ r # s
    <3>1. r \in Plain
      BY <1>4, <2>3, IncrementalAssumption DEF IncrementalAssumption
    <3>2. r \notin active /\ txnOpen
      BY <1>4, <3>1 DEF Committing, MayCommit, TypeInv, OpenInv
    <3>3. Has(r, u)
      BY <2>3, <3>2 DEF Committing, DataInv, Committed
    <3> QED
      BY <1>3, <3>3, HasGrows
  <2>4. CASE u # n
    <3>1. u \in 1..cp
      BY <1>1, <2>1, <2>4 DEF n
    <3>2. Has(r, u)
      BY <3>1 DEF DataInv, Covered
    <3> QED
      BY <1>3, <3>2, HasGrows
  <2> QED
    BY <2>2, <2>3, <2>4
<1>5. CASE ~(s \in Durable /\ d = s /\ m = meta[s])
  <2>1. mark'[d][m] = mark[d][m]
    BY <1>2, <1>5 DEF Commits
  <2>2. Has(r, u)
    BY <2>1 DEF DataInv, MarkCovered
  <2> QED
    BY <1>3, <2>2, HasGrows
<1> QED
  BY <1>4, <1>5

-----------------------------------------------------------------------------
(* Nothing is skipped *)

LEMMA DataInit == Init => DataInv
<1> SUFFICES ASSUME Init PROVE DataInv
  OBVIOUS
<1>1. MarkCovered
  BY DEF Init, MarkCovered
<1>2. Covered
  BY DEF Init, Covered
<1> QED
  BY <1>1, <1>2 DEF Init, DataInv, AtCheckpoint, Skipping, Writing, Committed, Saving

(* Between transactions only the checkpoint and the marks speak.           *)
LEMMA DataBetween ==
  ASSUME pc' \in {"down", "boundary"}, resetTxnState, AtCheckpoint', Covered', MarkCovered'
  PROVE  DataInv'
BY DEF DataInv, resetTxnState, Skipping, Writing, Committed, Saving

(* A step that leaves the stream's place and the sinks as they are.        *)
LEMMA DataSame ==
  ASSUME TypeInv, DataInv, UNCHANGED <<cp, pc, at, ev, gap, handlerVars, active, targetVars, overtaken>>,
         closed \subseteq closed', \A s \in Sinks : s \in Durable \cap closed' \/ pend'[s] = pend[s]
  PROVE  DataInv'
<1> USE DEF DataInv, handlerVars, targetVars
<1>1. n' = n /\ \A s \in Sinks : Delivered(s)' = Delivered(s)
  BY DEF n, Delivered
<1>0. ASSUME NEW s \in Live' PROVE s \in Live /\ pend'[s] = pend[s]
  BY <1>0 DEF Live, TypeInv, TypeOK
<1>2. \A s \in Sinks : \A t : Has(s, t)' = Has(s, t)
  BY <1>1 DEF Has, Overtaken
<1>3. AtCheckpoint' /\ Covered' /\ MarkCovered'
  BY <1>2 DEF AtCheckpoint, Covered, MarkCovered
<1>4. Skipping'
  <2>1. sinkSkipApply \subseteq Sinks
    BY IncrementalAssumption DEF IncrementalAssumption, TypeInv, TypeOK
  <2> QED
    BY <1>1, <1>2, <2>1 DEF Skipping
<1>5. Writing'
  BY <1>0, <1>1 DEF Writing
<1>6. Committed'
  BY <1>0, <1>1, <1>2 DEF Committed
<1>7. Saving'
  BY <1>1, <1>2 DEF Saving
<1> QED
  BY <1>3, <1>4, <1>5, <1>6, <1>7

(* The end of a subscription loses what was open, and only that.           *)
LEMMA DataEnds ==
  ASSUME DataInv, pc' = "down", resetTxnState, UNCHANGED <<cp, gap>>, Grows, MarkCovered'
  PROVE  DataInv'
<1>1. Covered'
  BY HasGrows DEF DataInv, Covered
<1> QED
  BY <1>1, DataBetween DEF AtCheckpoint
LEMMA OnEventKeepsData ==
  ASSUME TypeInv, DataInv, OnEvent
  PROVE  DataInv'
<1> DEFINE done == Skipped
<1>1. n \in Transactions /\ n' = n /\ ev \in Nat /\ ev < Size[n] /\ pc = "write" /\ pc' \in {"write", "commit"}
  BY InTransaction DEF OnEvent, InTxn, TypeInv, TypeOK, n
<1>2. Size[n] \in Nat /\ EventsOf(n)[ev + 1] = <<n, ev + 1>>
  <2>1. Size[n] \in Nat
    BY <1>1, EventsTyped
  <2>2. ev + 1 \in 1..Size[n]
    BY <1>1, <2>1
  <2> QED
    BY <2>1, <2>2 DEF EventsOf
<1>3. \A s \in Sinks : Delivered(s)' = Delivered(s) /\ \A t : Has(s, t)' = Has(s, t)
  BY DEF OnEvent, targetVars, Delivered, Has, Overtaken
<1>4. done \subseteq Durable /\ Durable \subseteq Sinks
  BY IncrementalAssumption DEF IncrementalAssumption, Skipped, TypeInv, TypeOK
<1>5. AtCheckpoint' /\ Covered' /\ MarkCovered'
  BY <1>1, <1>3 DEF OnEvent, targetVars, DataInv, AtCheckpoint, Covered, MarkCovered
<1>6. ASSUME ~gap, NEW s \in done PROVE Has(s, n)
  <2>1. CASE txnOpen
    BY <1>1, <1>6, <2>1 DEF Skipped, DataInv, Skipping
  <2>2. CASE ~txnOpen
    <3>1. s \in Durable /\ mark[s][meta[s]] >= n
      BY <1>6, <2>2 DEF Skipped, HasAppliedTxn, TypeInv, OpenInv
    <3>2. meta[s] \in Schemas /\ mark[s][meta[s]] \in 0..MaxHead
      BY <3>1 DEF TypeInv, TypeOK
    <3>3. n \in 1..mark[s][meta[s]]
      BY <1>1, <3>1, <3>2
    <3> QED
      BY <1>4, <1>6, <3>1, <3>2, <3>3 DEF DataInv, MarkCovered
  <2> QED
    BY <2>1, <2>2
<1>7. Skipping'
  BY <1>1, <1>3, <1>4, <1>6 DEF OnEvent, Skipping
<1>8. ASSUME NEW s \in Live' PROVE pend'[s] = [i \in 1..(ev + 1) |-> <<n, i>>]
  <2>1. s \in Sinks /\ s \notin done /\ s \notin closed
    BY <1>8 DEF OnEvent, Live
  <2>2. pend'[s] = Append(pend[s], <<n, ev + 1>>)
    BY <1>2, <2>1 DEF OnEvent
  <2>3. pend[s] = [i \in 1..ev |-> <<n, i>>]
    <3>1. CASE txnOpen
      BY <1>1, <2>1, <3>1 DEF Skipped, DataInv, Writing, Live
    <3>2. CASE ~txnOpen
      <4>1. pend[s] = <<>> /\ ev = 0
        BY <1>1, <2>1, <3>2 DEF TypeInv, OpenInv, DataInv, Writing
      <4> QED
        BY <4>1
    <3> QED
      BY <3>1, <3>2
  <2> QED
    BY <1>1, <2>2, <2>3
<1>9. Writing'
  BY <1>1, <1>8 DEF OnEvent, Writing
<1>10. Committed'
  <2> SUFFICES ASSUME pc' = "commit" PROVE Committed'
    BY <1>1 DEF Committed
  <2>1. ev + 1 = Size[n] /\ txnOpen' /\ active' = Sinks \ done
    BY DEF OnEvent
  <2>2. \A s \in Live' : pend'[s] = EventsOf(n)
    BY <1>8, <2>1 DEF EventsOf
  <2>3. ASSUME ~gap, NEW s \in Sinks \ active' PROVE Has(s, n)'
    BY <1>1, <1>3, <1>6, <2>1, <2>3
  <2> QED
    BY <1>1, <2>1, <2>2, <2>3 DEF Committed, OnEvent
<1>11. Saving'
  BY <1>1 DEF Saving
<1> QED
  BY <1>5, <1>7, <1>9, <1>10, <1>11 DEF DataInv

(* A sink that is done with the transaction, by a commit or without one.   *)
LEMMA AdvanceKeepsData ==
  ASSUME TypeInv, DataInv, NEW s \in Sinks, Committing(s), Advances(s),
         UNCHANGED <<gap, cp, at, ev, handlerVars, closed>>,
         Grows, Has(s, n)', MarkCovered'
  PROVE  DataInv'
<1>1. /\ pc = "marked" /\ pc' = (IF active = {s} THEN "save" ELSE "marked")
      /\ s \in active /\ active' = active \ {s} /\ txnOpen /\ n' = n
  BY DEF Committing, Advances, TypeInv, OpenInv, n
<1>4. Covered'
  BY HasGrows DEF DataInv, Covered
<1>5. ASSUME ~gap, NEW r \in Sinks, r \notin active' PROVE Has(r, n)'
  <2>1. CASE r = s
    BY <2>1
  <2>2. CASE r # s
    <3>1. Has(r, n)
      BY <1>1, <1>5, <2>2 DEF DataInv, Committed
    <3>2. (\A u : Has(r, u) => Has(r, u)') /\ n' = n
      BY <1>1, HasGrows
    <3> QED
      BY <3>1, <3>2 DEF Has, Grows, Overtaken
  <2> QED
    BY <2>1, <2>2
<1>6. AtCheckpoint'
  BY <1>1 DEF DataInv, AtCheckpoint
<1>7. Skipping'
  <2>1. ASSUME ~gap, NEW r \in sinkSkipApply PROVE Has(r, n)'
    <3>1. r \in Sinks /\ r \notin active'
      BY <1>1, <2>1, IncrementalAssumption DEF IncrementalAssumption, TypeInv, TypeOK, OpenInv
    <3> QED
      BY <1>5, <2>1, <3>1
  <2> QED
    BY <1>1, <2>1 DEF DataInv, Skipping, handlerVars
<1>8. Writing'
  BY <1>1 DEF Writing
<1>9. Committed'
  <2>1. ASSUME NEW r \in Live' PROVE pend'[r] = EventsOf(n)
    <3>1. r \in Live /\ r # s /\ r \in Sinks
      BY <1>1, <2>1 DEF Live, TypeInv, TypeOK
    <3>2. pend'[r] = pend[r]
      BY <3>1 DEF Advances, TypeInv, TypeOK
    <3> QED
      BY <1>1, <3>1, <3>2 DEF DataInv, Committed
  <2> QED
    BY <1>1, <1>5, <2>1 DEF Committed, handlerVars
<1>10. Saving'
  BY <1>1, <1>5 DEF Saving
<1> QED
  BY <1>4, <1>6, <1>7, <1>8, <1>9, <1>10 DEF DataInv

LEMMA CommitKeepsData ==
  ASSUME TypeInv, DataInv, NEW s \in Sinks, CommitTransaction(s)
  PROVE  DataInv'
<1>1. /\ s \in Live /\ Committing(s) /\ Commits(s) /\ Advances(s)
      /\ UNCHANGED <<gap, cp, at, ev, handlerVars, closed, overtaken>>
  BY DEF CommitTransaction, Committing, Live, closeVars
<1>2. Grows /\ ToSet(EventsOf(n)) \subseteq Delivered(s)'
  BY <1>1, CommitDelivers
<1>3. MarkCovered'
  BY <1>1, CommitMark
<1>4. Has(s, n)'
  BY <1>1, <1>2 DEF Has, n
<1> QED
  BY <1>1, <1>2, <1>3, <1>4, AdvanceKeepsData

(* A sink whose commit the stop overtook counts as having the transaction. *)
LEMMA CommitsNothingKeepsData ==
  ASSUME TypeInv, DataInv, NEW s \in Sinks, CommitsNothing(s)
  PROVE  DataInv'
<1>1. /\ Committing(s) /\ Advances(s) /\ s \in Durable /\ overtaken' = overtaken \cup {n}
      /\ UNCHANGED <<gap, cp, at, ev, handlerVars, closed, targetVars>>
  BY DEF CommitsNothing
<1>2. Grows
  BY <1>1 DEF Grows, Delivered, targetVars
<1>3. MarkCovered'
  BY <1>1, <1>2, HasGrows DEF targetVars, DataInv, MarkCovered
<1>4. Has(s, n)'
  BY <1>1 DEF Has, Overtaken, n
<1> QED
  BY <1>1, <1>2, <1>3, <1>4, AdvanceKeepsData

LEMMA DataStep == TypeInv /\ DataInv /\ [Next]_vars => DataInv'
<1> SUFFICES ASSUME TypeInv, DataInv, [Next]_vars PROVE DataInv'
  OBVIOUS
<1>h. at \in Nat /\ cp \in Nat
  BY DEF TypeInv, TypeOK
<1>1. CASE UNCHANGED vars
  BY <1>1, DataSame DEF vars, streamVars, openVars, closeVars
<1>2. CASE SourceCommits \/ Stop \/ AlreadySatisfied
  BY <1>2, DataSame DEF SourceCommits, Stop, AlreadySatisfied, streamVars, openVars, closeVars
<1>11. ASSUME NEW s \in Sinks, CloseSink(s) PROVE DataInv'
  <2>1. \A r \in Sinks : r \in Durable \cap closed' \/ pend'[r] = pend[r]
    BY <1>11 DEF CloseSink, TypeInv, TypeOK
  <2>2. closed \subseteq closed'
    BY <1>11 DEF CloseSink
  <2> QED
    BY <1>11, <2>1, <2>2, DataSame DEF CloseSink, streamVars
<1>12. CASE FlushAndMark
  <2>1. /\ pc = "commit" /\ pc' = "marked" /\ n' = n
        /\ UNCHANGED <<cp, at, gap, handlerVars, openVars, targetVars, overtaken, closed>>
    BY <1>12 DEF FlushAndMark, n, closeVars
  <2>2. Grows
    BY <2>1 DEF Grows, Delivered, targetVars
  <2>3. Covered' /\ MarkCovered' /\ AtCheckpoint'
    BY <2>1, <2>2, HasGrows DEF targetVars, DataInv, Covered, MarkCovered, AtCheckpoint
  <2>4. \A s \in Sinks : Has(s, n)' = Has(s, n)
    BY <2>1 DEF Has, Overtaken, Delivered, targetVars, n
  <2>5. Live' = Live /\ sinkSkipApply \subseteq Sinks
    BY <2>1, IncrementalAssumption DEF IncrementalAssumption, Live, openVars, TypeInv, TypeOK
  <2>6. Skipping' /\ Writing' /\ Saving'
    BY <2>1, <2>4, <2>5 DEF DataInv, Skipping, Writing, Saving, handlerVars
  <2>7. Committed'
    BY <2>1, <2>4, <2>5 DEF DataInv, Committed, handlerVars, openVars
  <2> QED
    BY <2>3, <2>6, <2>7 DEF DataInv
<1>13. ASSUME NEW s \in Sinks, CommitsNothing(s) PROVE DataInv'
  BY <1>13, CommitsNothingKeepsData
<1>3. CASE Crash \/ StreamEnds \/ OnEventFails \/ FlushOrMarkFails \/ SaveFails
  <2>1. pc' = "down" /\ resetTxnState /\ UNCHANGED <<cp, gap, overtaken>> /\ UNCHANGED targetVars
    BY <1>3 DEF Crash, StreamEnds, OnEventFails, FlushOrMarkFails, SaveFails, Ends
  <2>2. Grows
    BY <2>1 DEF Grows, Delivered, targetVars
  <2>3. MarkCovered'
    BY <2>1, <2>2, HasGrows DEF targetVars, DataInv, MarkCovered
  <2> QED
    BY <2>1, <2>2, <2>3, DataEnds
<1>4. CASE Start
  <2>1. pc = "down" /\ pc' = "boundary" /\ UNCHANGED <<cp, handlerVars, targetVars, overtaken>>
    BY <1>4 DEF Start, closeVars
  <2>2. ~gap' => ~gap /\ at' = cp
    BY <1>4 DEF Start
  <2>3. Grows
    BY <2>1 DEF Grows, Delivered, targetVars
  <2>4. Covered' /\ MarkCovered' /\ AtCheckpoint'
    BY <2>1, <2>2, <2>3, HasGrows DEF targetVars, DataInv, Covered, MarkCovered, AtCheckpoint
  <2>5. resetTxnState
    BY <2>1 DEF resetTxnState, handlerVars, TypeInv, TypeOK
  <2> QED
    BY <2>1, <2>4, <2>5, DataBetween
<1>5. CASE OnXID
  <2>1. /\ pc = "boundary" /\ pc' = (IF Size[n] = 0 THEN "commit" ELSE "write") /\ ev' = 0 /\ n' = n
        /\ UNCHANGED <<cp, at, gap, handlerVars, openVars, targetVars, overtaken>>
    BY <1>5 DEF OnXID, n, closeVars
  <2>2. ~txnOpen /\ ~txnHasWrites /\ sinkSkipApply = {} /\ active = {}
    BY <2>1 DEF TypeInv, TypeOK
  <2>3. Grows
    BY <2>1 DEF Grows, Delivered, targetVars
  <2>4. Covered' /\ MarkCovered' /\ AtCheckpoint'
    BY <2>1, <2>3, HasGrows DEF targetVars, DataInv, Covered, MarkCovered, AtCheckpoint
  <2>5. Skipping' /\ Writing' /\ Committed' /\ Saving'
    BY <2>1, <2>2 DEF handlerVars, openVars, Skipping, Writing, Committed, Saving, Live
  <2> QED
    BY <2>4, <2>5 DEF DataInv
<1>6. CASE OnEvent
  BY <1>6, OnEventKeepsData
<1>7. CASE NothingToCommit
  <2>1. /\ pc = "commit" /\ pc' = "save" /\ n' = n /\ n \in Transactions
        /\ UNCHANGED <<cp, at, gap, handlerVars, targetVars, overtaken>>
        /\ ~txnHasWrites \/ sinkSkipApply = Sinks
    BY <1>7, InTransaction DEF NothingToCommit, n, InTxn, closeVars
  <2>2. Grows
    BY <2>1 DEF Grows, Delivered, targetVars
  <2>3. Covered' /\ MarkCovered' /\ AtCheckpoint'
    BY <2>1, <2>2, HasGrows DEF targetVars, DataInv, Covered, MarkCovered, AtCheckpoint
  <2>4. ASSUME ~gap, NEW s \in Sinks PROVE Has(s, n)
    <3>1. CASE txnOpen
      BY <2>1, <2>4, <3>1 DEF DataInv, Skipping
    <3>2. CASE ~txnOpen
      <4>1. Size[n] = 0
        BY <2>1, <3>2 DEF DataInv, Committed
      <4>2. Len(EventsOf(n)) = 0
        BY <2>1, <4>1, EventsTyped
      <4> QED
        BY <4>2 DEF Has, ToSet
    <3> QED
      BY <3>1, <3>2
  <2>5. Saving'
    BY <2>1, <2>2, <2>4 DEF Saving, Has, Grows, Overtaken
  <2>6. Skipping' /\ Writing' /\ Committed'
    BY <2>1 DEF DataInv, Skipping, Writing, Committed, handlerVars
  <2> QED
    BY <2>3, <2>5, <2>6 DEF DataInv
<1>8. ASSUME NEW s \in Sinks, CommitTransaction(s) PROVE DataInv'
  BY <1>8, CommitKeepsData
<1>9. ASSUME NEW s \in Sinks, CommitFails(s) PROVE DataInv'
  <2>1. /\ pc' = "down" /\ resetTxnState /\ UNCHANGED <<cp, gap, overtaken>>
        /\ Committing(s) /\ s \in Live
    BY <1>9 DEF CommitFails, Ends, Committing, Live
  <2>2. CASE UNCHANGED targetVars
    <3>1. Grows
      BY <2>1, <2>2 DEF Grows, Delivered, targetVars
    <3>2. MarkCovered'
      BY <2>1, <2>2, <3>1, HasGrows DEF targetVars, DataInv, MarkCovered
    <3> QED
      BY <2>1, <3>1, <3>2, DataEnds
  <2>3. CASE Commits(s)
    BY <2>1, <2>3, CommitDelivers, CommitMark, DataEnds
  <2>4. ASSUME UNCHANGED mark, NEW part \in Parts(pend[s]), out' = [out EXCEPT ![s] = @ \o part]
        PROVE  DataInv'
    <3>1. part \in Seq(EventSet)
      BY PartIsSequence DEF TypeInv, TypeOK
    <3>2. Grows
      BY <2>1, <2>4, <3>1, AppendGrows
    <3>3. MarkCovered'
      BY <2>1, <2>4, <3>2, HasGrows DEF DataInv, MarkCovered
    <3> QED
      BY <2>1, <3>2, <3>3, DataEnds
  <2> QED
    BY <1>9, <2>2, <2>3, <2>4 DEF CommitFails
<1>10. CASE SaveCheckpoint
  <2>1. /\ pc = "save" /\ pc' = "boundary" /\ resetTxnState /\ cp' = n /\ at' = n
        /\ UNCHANGED <<gap, targetVars, overtaken>>
    BY <1>10 DEF SaveCheckpoint, closeVars
  <2>2. Grows
    BY <2>1 DEF Grows, Delivered, targetVars
  <2>3. MarkCovered'
    BY <2>1, <2>2, HasGrows DEF targetVars, DataInv, MarkCovered
  <2>4. ASSUME ~gap, NEW t \in 1..n, NEW s \in Sinks PROVE Has(s, t)
    <3>1. at = cp
      BY <2>1, <2>4 DEF DataInv, AtCheckpoint
    <3>2. t = n \/ t \in 1..cp
      BY <1>h, <2>4, <3>1 DEF n
    <3> QED
      BY <2>1, <2>4, <3>2 DEF DataInv, Covered, Saving
  <2>5. Covered'
    BY <2>1, <2>2, <2>4, HasGrows DEF Covered
  <2>6. AtCheckpoint'
    BY <2>1 DEF AtCheckpoint
  <2> QED
    BY <2>1, <2>3, <2>5, <2>6, DataBetween
<1> QED
  BY <1>1, <1>2, <1>3, <1>4, <1>5, <1>6, <1>7, <1>8, <1>9, <1>10, <1>11, <1>12, <1>13 DEF Next, ServiceStep

LEMMA Invariance == Spec => []IInv
<1>1. Init => IInv
  BY TypeInit, DataInit DEF IInv
<1>2. IInv /\ [Next]_vars => IInv'
  BY TypeStep, DataStep DEF IInv
<1> QED
  BY <1>1, <1>2, PTL DEF Spec

(* Every event up to the checkpoint has reached every sink, unless a       *)
(* subscription was started without its checkpoint, or the durable sink    *)
(* had been closed by a stop when its commit was called and so committed   *)
(* nothing: OnTransactionCommit saves the checkpoint only after every      *)
(* other commit has happened, whatever fails, crashes or is sent again.    *)
THEOREM NothingIsSkipped == Spec => []NothingSkipped
<1>1. IInv => NothingSkipped
  BY DEF IInv, DataInv, Covered, Has, NothingSkipped
<1> QED
  BY <1>1, Invariance, PTL

(* What the mark in the target database covers, Kafka and the webhook have *)
(* got: the sink that keeps the mark commits after the others              *)
(* (commitSinkTransaction), so a replay it skips leaves nothing out.       *)
THEOREM MarksAreDelivered == Spec => []MarkMeansDelivered
<1>1. IInv => MarkMeansDelivered
  BY IncrementalAssumption DEF IncrementalAssumption, IInv, DataInv, MarkCovered, Has, Overtaken, MarkMeansDelivered
<1> QED
  BY <1>1, Invariance, PTL
-----------------------------------------------------------------------------
(* The end of a catch-up *)

FinishInv == catchUpDone => cancelled /\ ~txnOpen

LEMMA FinishStep ==
  ASSUME Durable # {}, TypeInv, FinishInv, [Next]_vars
  PROVE  FinishInv' /\ (catchUpDone => out' = out)
<1> USE DEF FinishInv
<1>0. ~txnOpen => active = {}
  BY DEF TypeInv, OpenInv
<1>1. CASE UNCHANGED vars
  BY <1>1 DEF vars, streamVars, handlerVars, targetVars
<1>2. CASE SourceCommits \/ Stop \/ AlreadySatisfied
  BY <1>2 DEF SourceCommits, Stop, AlreadySatisfied, streamVars, handlerVars, targetVars
<1>3. CASE Crash \/ StreamEnds \/ OnEventFails \/ FlushOrMarkFails \/ SaveFails
  BY <1>3 DEF Crash, StreamEnds, OnEventFails, FlushOrMarkFails, SaveFails, Ends, targetVars
<1>4. CASE Start \/ OnXID \/ FlushAndMark
  BY <1>4 DEF Start, OnXID, FlushAndMark, handlerVars, targetVars
<1>5. CASE OnEvent
  BY <1>5 DEF OnEvent, targetVars
<1>6. CASE NothingToCommit
  BY <1>6 DEF NothingToCommit, handlerVars, targetVars
<1>7. ASSUME NEW s \in Sinks, CommitTransaction(s) \/ CommitsNothing(s) PROVE FinishInv' /\ (catchUpDone => out' = out)
  BY <1>0, <1>7 DEF CommitTransaction, CommitsNothing, Committing, handlerVars, targetVars
<1>8. ASSUME NEW s \in Sinks, CommitFails(s) PROVE FinishInv' /\ (catchUpDone => out' = out)
  BY <1>0, <1>8 DEF CommitFails, Committing, Ends
<1>9. CASE SaveCheckpoint
  <2>1. txnOpen' = FALSE /\ out' = out
    BY <1>9 DEF SaveCheckpoint, resetTxnState, targetVars
  <2>2. catchUpDone' => cancelled'
    BY <1>9 DEF SaveCheckpoint, maybeFinishCatchUp, NoFinish
  <2> QED
    BY <2>1, <2>2
<1>10. ASSUME NEW s \in Sinks, CloseSink(s) PROVE FinishInv' /\ (catchUpDone => out' = out)
  BY <1>10 DEF CloseSink, streamVars, handlerVars, targetVars
<1> QED
  BY <1>1, <1>2, <1>3, <1>4, <1>5, <1>6, <1>7, <1>8, <1>9, <1>10 DEF Next, ServiceStep

(* After the catch-up has passed its position it delivers nothing more, as *)
(* long as a sink that works under the service's context is among them:    *)
(* maybeFinishCatchUp cancels that context.                                *)
THEOREM CatchUpDeliversNoMore ==
  ASSUME Durable # {}
  PROVE  Spec => CatchUpStops
<1>1. Init => FinishInv
  BY DEF Init, FinishInv
<1>2. TypeInv /\ FinishInv /\ [Next]_vars => FinishInv'
  BY FinishStep
<1>3. TypeInv /\ FinishInv /\ [Next]_vars => [catchUpDone => out' = out]_vars
  BY FinishStep
<1> QED
  BY <1>1, <1>2, <1>3, TypeInit, TypeStep, PTL DEF Spec, CatchUpStops
-----------------------------------------------------------------------------
(* The order at the sinks *)

InOrder(q, M) ==
  \A k \in 1..Len(q) : \A t \in 1..(q[k][1] - 1) : t \in M \/ ToSet(EventsOf(t)) \subseteq {q[j] : j \in 1..(k - 1)}

Missed(s) == IF s \in Durable THEN overtaken ELSE {}
Ordered == ~gap => \A s \in Sinks : InOrder(out[s], Missed(s))

(* More that was missed breaks no order.                                   *)
LEMMA OrderWeakens ==
  ASSUME NEW q, NEW M, NEW N, M \subseteq N, InOrder(q, M)
  PROVE  InOrder(q, N)
BY DEF InOrder

(* Events of one transaction may follow once all earlier ones are there.   *)
LEMMA AppendInOrder ==
  ASSUME NEW q \in Seq(EventSet), NEW b \in Seq(EventSet), NEW t, NEW M, InOrder(q, M),
         \A i \in 1..Len(b) : b[i][1] = t,
         \A u \in 1..(t - 1) : u \in M \/ ToSet(EventsOf(u)) \subseteq ToSet(q)
  PROVE  InOrder(q \o b, M)
<1> DEFINE l == q \o b
<1>1. l \in Seq(EventSet) /\ Len(l) = Len(q) + Len(b) /\ Len(q) \in Nat /\ Len(b) \in Nat
  OBVIOUS
<1>2. \A i \in 1..Len(q) : l[i] = q[i]
  OBVIOUS
<1>3. \A i \in 1..Len(b) : l[Len(q) + i] = b[i]
  OBVIOUS
<1> HIDE DEF l
<1> SUFFICES ASSUME NEW k \in 1..Len(l), NEW u \in 1..(l[k][1] - 1), u \notin M, NEW e \in ToSet(EventsOf(u))
             PROVE  \E j \in 1..(k - 1) : l[j] = e
  BY DEF InOrder, l
<1>4. CASE k \in 1..Len(q)
  <2>1. u \in 1..(q[k][1] - 1)
    BY <1>2, <1>4
  <2>2. PICK j \in 1..(k - 1) : q[j] = e
    BY <1>4, <2>1 DEF InOrder
  <2>3. j \in 1..Len(q)
    BY <1>1, <1>4, <2>2
  <2> QED
    BY <1>2, <2>2, <2>3
<1>5. CASE k \notin 1..Len(q)
  <2>1. k - Len(q) \in 1..Len(b) /\ k = Len(q) + (k - Len(q))
    BY <1>1, <1>5
  <2>2. l[k][1] = t
    <3>1. l[Len(q) + (k - Len(q))] = b[k - Len(q)]
      BY <1>3, <2>1
    <3>2. b[k - Len(q)][1] = t
      BY <2>1
    <3> QED
      BY <2>1, <3>1, <3>2
  <2>3. e \in ToSet(q)
    BY <2>2
  <2>4. PICK j \in 1..Len(q) : q[j] = e
    BY <2>3 DEF ToSet
  <2>5. j \in 1..(k - 1)
    BY <1>1, <1>5, <2>4
  <2> QED
    BY <1>2, <2>4, <2>5
<1> QED
  BY <1>4, <1>5

(* What a sink may be given of the transaction that is being committed.    *)
LEMMA OrderKept ==
  ASSUME TypeInv, DataInv, Ordered, ~gap, NEW s \in Sinks, Committing(s), overtaken' = overtaken,
         NEW b \in Seq(EventSet), \A i \in 1..Len(b) : b[i][1] = n, out' = [out EXCEPT ![s] = @ \o b]
  PROVE  \A r \in Sinks : InOrder(out'[r], Missed(r)')
<1>1. at = cp /\ at \in Nat /\ out[s] \in Seq(EventSet) /\ InOrder(out[s], Missed(s))
  BY DEF Committing, DataInv, AtCheckpoint, TypeInv, TypeOK, Ordered
<1>2. \A u \in 1..(n - 1) : u \in Missed(s) \/ ToSet(EventsOf(u)) \subseteq ToSet(out[s])
  BY <1>1 DEF n, DataInv, Covered, Has, Overtaken, Missed, Delivered
<1>3. InOrder(out[s] \o b, Missed(s))
  BY <1>1, <1>2, AppendInOrder
<1>4. \A r \in Sinks : out'[r] = IF r = s THEN out[s] \o b ELSE out[r]
  BY DEF TypeInv, TypeOK
<1>5. \A r \in Sinks : Missed(r)' = Missed(r)
  BY DEF Missed
<1> QED
  BY <1>3, <1>4, <1>5 DEF Ordered

(* The events of a part are events of the whole.                           *)
LEMMA PartElements ==
  ASSUME NEW q, Len(q) \in Nat, NEW part \in Parts(q), NEW i \in 1..Len(part)
  PROVE  \E j \in 1..Len(q) : part[i] = q[j]
<1>1. PICK k \in 0..Len(q) : \E f \in [1..k -> 1..Len(q)] : part = [h \in 1..k |-> q[f[h]]]
  BY DEF Parts
<1>2. PICK f \in [1..k -> 1..Len(q)] : part = [h \in 1..k |-> q[f[h]]]
  BY <1>1
<1>3. Len(part) = k
  BY <1>1, <1>2
<1> QED
  BY <1>2, <1>3

LEMMA OrderStep == TypeInv /\ DataInv /\ Ordered /\ [Next]_vars => Ordered'
<1> SUFFICES ASSUME TypeInv, DataInv, Ordered, [Next]_vars, ~gap' PROVE \A r \in Sinks : InOrder(out'[r], Missed(r)')
  BY DEF Ordered
<1>n. ASSUME NEW s \in Live, Committing(s)
      PROVE  /\ pend[s] \in Seq(EventSet) /\ Len(pend[s]) \in Nat
             /\ \A i \in 1..Len(pend[s]) : pend[s][i][1] = n
  <2>1. n \in Transactions /\ pend[s] = EventsOf(n)
    BY <1>n, InTransaction DEF Committing, InTxn, DataInv, Committed, Live
  <2>2. Size[n] \in Nat /\ EventsOf(n) \in Seq(EventSet) /\ Len(EventsOf(n)) = Size[n]
    BY <2>1, EventsTyped
  <2>3. \A i \in 1..Size[n] : EventsOf(n)[i] = <<n, i>>
    BY <2>1, EventsTyped
  <2> QED
    BY <2>1, <2>2, <2>3
<1>1. ASSUME out' = out, gap' = gap, overtaken \subseteq overtaken' PROVE \A r \in Sinks : InOrder(out'[r], Missed(r)')
  <2>1. \A r \in Sinks : Missed(r) \subseteq Missed(r)'
    BY <1>1 DEF Missed
  <2> QED
    BY <1>1, <2>1, OrderWeakens DEF Ordered
<1>2. ASSUME NEW s \in Sinks, CommitTransaction(s) PROVE \A r \in Sinks : InOrder(out'[r], Missed(r)')
  <2>1. Committing(s) /\ Commits(s) /\ ~gap /\ overtaken' = overtaken /\ s \in Live
    BY <1>2 DEF CommitTransaction, Committing, Live, closeVars
  <2> QED
    BY <2>1, <1>n, OrderKept DEF Commits
<1>3. ASSUME NEW s \in Sinks, CommitFails(s) PROVE \A r \in Sinks : InOrder(out'[r], Missed(r)')
  <2>1. Committing(s) /\ ~gap /\ overtaken' = overtaken /\ s \in Live
    BY <1>3 DEF CommitFails, Committing, Live
  <2>2. CASE UNCHANGED targetVars
    BY <1>1, <1>3, <2>1, <2>2 DEF CommitFails, targetVars
  <2>3. CASE Commits(s)
    BY <2>1, <2>3, <1>n, OrderKept DEF Commits
  <2>4. ASSUME NEW part \in Parts(pend[s]), out' = [out EXCEPT ![s] = @ \o part]
        PROVE  \A r \in Sinks : InOrder(out'[r], Missed(r)')
    <3>1. part \in Seq(EventSet)
      BY <2>1, <1>n, PartIsSequence
    <3>2. \A i \in 1..Len(part) : part[i][1] = n
      <4>1. Len(pend[s]) \in Nat /\ \A j \in 1..Len(pend[s]) : pend[s][j][1] = n
        BY <2>1, <1>n
      <4> TAKE i \in 1..Len(part)
      <4>2. PICK j \in 1..Len(pend[s]) : part[i] = pend[s][j]
        BY <4>1, PartElements
      <4> QED
        BY <4>1, <4>2
    <3> QED
      BY <2>1, <2>4, <3>1, <3>2, OrderKept
  <2> QED
    BY <1>3, <2>2, <2>3, <2>4 DEF CommitFails
<1>4. CASE Start
  <2>1. out' = out /\ overtaken' = overtaken /\ gap' = gap
    BY <1>4, ~gap' DEF Start, targetVars, closeVars
  <2> QED
    BY <1>1, <2>1
<1>5. CASE UNCHANGED vars
  BY <1>5, <1>1 DEF vars, targetVars, closeVars
<1>6. CASE SourceCommits \/ Stop \/ AlreadySatisfied \/ OnXID \/ OnEvent \/ NothingToCommit \/ FlushAndMark \/ SaveCheckpoint
  BY <1>6, <1>1 DEF SourceCommits, Stop, AlreadySatisfied, OnXID, OnEvent, NothingToCommit, FlushAndMark, SaveCheckpoint,
                    targetVars, closeVars
<1>7. CASE Crash \/ StreamEnds \/ OnEventFails \/ FlushOrMarkFails \/ SaveFails
  BY <1>7, <1>1 DEF Crash, StreamEnds, OnEventFails, FlushOrMarkFails, SaveFails, targetVars
<1>8. ASSUME NEW s \in Sinks, CloseSink(s) \/ CommitsNothing(s) PROVE \A r \in Sinks : InOrder(out'[r], Missed(r)')
  BY <1>8, <1>1 DEF CloseSink, CommitsNothing, targetVars
<1> QED
  BY <1>2, <1>3, <1>4, <1>5, <1>6, <1>7, <1>8 DEF Next, ServiceStep

(* A sink that has committed an event of a transaction had every event of  *)
(* the earlier ones before it, also when a transaction is sent again after *)
(* an error, or reached Kafka or the webhook only in part: the checkpoint  *)
(* moves on only when all sinks are done, and the stream starts there.     *)
(* Only a commit that a stop overtook at the durable sink leaves a hole.   *)
THEOREM OrderIsKept == Spec => []TransactionsInOrder
<1>1. Init => Ordered
  BY DEF Init, Ordered, InOrder
<1>2. Ordered => TransactionsInOrder
  BY DEF Ordered, InOrder, Missed, Overtaken, TransactionsInOrder
<1> QED
  BY <1>1, <1>2, OrderStep, Invariance, PTL DEF Spec, IInv
-----------------------------------------------------------------------------
(* Exactly once at the sink that keeps the position                        *)
(*                                                                         *)
(* With one target schema the mark is where HasAppliedTxn looks for it.    *)
(* What the sink holds is covered by its mark (Marked), and an open sink   *)
(* transaction is past the mark and not empty (Fresh).                     *)

Mark(d) == mark[d][meta[d]]

Marked == \A d \in Durable : \A k \in 1..Len(out[d]) : out[d][k][1] <= Mark(d)
Fresh ==
  pc \in {"write", "commit", "marked"} =>
    /\ txnOpen => Size[n] > 0
    /\ \A d \in active \cap Durable : Mark(d) < n

LogInv == Marked /\ Fresh

LEMMA MarkTyped ==
  ASSUME TypeInv, NEW d \in Durable
  PROVE  /\ Mark(d) \in 0..MaxHead
         /\ out[d] \in Seq(EventSet)
BY IncrementalAssumption DEF IncrementalAssumption, TypeInv, TypeOK, Mark

(* With one schema PrepareTables chooses what it chose before.             *)
LEMMA SchemaKept ==
  ASSUME NEW m, Schemas = {m}, TypeInv, meta' \in [Durable -> Schemas]
  PROVE  meta' = meta
<1>1. meta \in [Durable -> Schemas]
  BY DEF TypeInv, TypeOK
<1>2. \A d \in Durable : meta[d] = m /\ meta'[d] = m
  BY <1>1
<1> QED
  BY <1>1, <1>2

(* The mark moves to the transaction the sink takes, and past nothing else. *)
LEMMA CommitMarks ==
  ASSUME TypeInv, DataInv, LogInv, NEW s \in Live, Committing(s), Commits(s), meta' = meta
  PROVE  /\ Marked'
         /\ \A d \in Durable : Mark(d)' = IF d = s THEN n ELSE Mark(d)
<1>1. n \in Transactions /\ pend[s] = EventsOf(n) /\ out[s] \in Seq(EventSet)
  BY InTransaction DEF Committing, InTxn, DataInv, Committed, TypeInv, TypeOK, Live
<1>2. mark \in [Durable -> [Schemas -> 0..MaxHead]] /\ meta \in [Durable -> Schemas]
  BY DEF TypeInv, TypeOK
<1>3. \A d \in Durable : Mark(d)' = IF d = s THEN n ELSE Mark(d)
  BY <1>2 DEF Commits, Mark
<1>4. ASSUME NEW d \in Durable, NEW k \in 1..Len(out'[d]) PROVE out'[d][k][1] <= Mark(d)'
  <2>1. CASE d # s
    <3>1. out'[d] = out[d]
      BY <2>1, IncrementalAssumption DEF IncrementalAssumption, Commits, TypeInv, TypeOK
    <3> QED
      BY <1>3, <1>4, <2>1, <3>1 DEF LogInv, Marked
  <2>2. CASE d = s
    <3>1. out'[d] = out[s] \o EventsOf(n) /\ Mark(d)' = n /\ Mark(s) < n /\ n \in Int
      BY <1>1, <1>3, <2>2 DEF Commits, TypeInv, TypeOK, LogInv, Fresh, Committing
    <3>2. EventsOf(n) \in Seq(EventSet) /\ Size[n] \in Nat /\ Len(EventsOf(n)) = Size[n] /\ Len(out[s]) \in Nat
      BY <1>1, EventsTyped
    <3>3. CASE k <= Len(out[s])
      <4>1. k \in 1..Len(out[s]) /\ out'[d][k] = out[s][k]
        BY <1>1, <1>4, <3>1, <3>2, <3>3
      <4>2. out[s][k] \in EventSet
        BY <1>1, <4>1
      <4>3. out[s][k][1] \in Int
        BY <4>2, IncrementalAssumption DEF IncrementalAssumption, EventSet
      <4>4. out[s][k][1] <= Mark(s) /\ Mark(s) \in 0..MaxHead
        BY <2>2, <4>1, MarkTyped DEF LogInv, Marked
      <4> QED
        BY <3>1, <4>1, <4>3, <4>4
    <3>4. CASE ~(k <= Len(out[s]))
      <4>1. k - Len(out[s]) \in 1..Size[n] /\ out'[d][k] = EventsOf(n)[k - Len(out[s])]
        BY <1>1, <1>4, <3>1, <3>2, <3>4
      <4>2. EventsOf(n)[k - Len(out[s])] = <<n, k - Len(out[s])>>
        BY <1>1, <4>1, EventsTyped
      <4> QED
        BY <3>1, <4>1, <4>2
    <3> QED
      BY <3>3, <3>4, <1>4
  <2> QED
    BY <2>1, <2>2
<1> QED
  BY <1>3, <1>4 DEF Marked

LEMMA LogInit == Init => LogInv
<1> SUFFICES ASSUME Init PROVE LogInv
  OBVIOUS
<1>1. \A d \in Durable : out[d] = <<>>
  BY IncrementalAssumption DEF IncrementalAssumption, Init
<1> QED
  BY <1>1 DEF Init, LogInv, Marked, Fresh

LEMMA LogStep ==
  ASSUME NEW m, Schemas = {m}, TypeInv, DataInv, LogInv, [Next]_vars
  PROVE  LogInv'
<1> USE DEF LogInv
<1>b. ASSUME pc' \in {"down", "boundary", "save"} PROVE Fresh'
  BY <1>b DEF Fresh
<1>m. ASSUME UNCHANGED <<out, mark>>, meta' \in [Durable -> Schemas] PROVE Marked' /\ \A d \in Durable : Mark(d)' = Mark(d)
  <2>1. meta' = meta
    BY <1>m, SchemaKept
  <2> QED
    BY <1>m, <2>1 DEF Marked, Mark
<1>t. meta \in [Durable -> Schemas] /\ at \in Nat
  BY DEF TypeInv, TypeOK
<1>s. ASSUME UNCHANGED <<out, mark, meta, pc, at, txnOpen, active>> PROVE LogInv'
  <2>1. Marked' /\ \A d \in Durable : Mark(d)' = Mark(d)
    BY <1>m, <1>s, <1>t
  <2> QED
    BY <1>s, <2>1 DEF Fresh, n
<1>1. CASE UNCHANGED vars \/ SourceCommits \/ Stop \/ AlreadySatisfied
  BY <1>1, <1>s DEF vars, SourceCommits, Stop, AlreadySatisfied, streamVars, handlerVars, openVars, targetVars
<1>8. ASSUME NEW s \in Sinks, CloseSink(s) PROVE LogInv'
  BY <1>8, <1>s DEF CloseSink, streamVars, handlerVars, targetVars
<1>9. CASE FlushAndMark
  <2>1. UNCHANGED <<out, mark, meta, txnOpen, active>> /\ n' = n /\ pc = "commit"
    BY <1>9 DEF FlushAndMark, handlerVars, openVars, targetVars, n
  <2> QED
    BY <2>1, <1>m, <1>t DEF Fresh
<1>10. ASSUME NEW s \in Sinks, CommitsNothing(s) PROVE LogInv'
  <2>1. UNCHANGED <<out, mark, meta, txnOpen>> /\ n' = n /\ pc = "marked" /\ active' \subseteq active
    BY <1>10 DEF CommitsNothing, Committing, Advances, handlerVars, targetVars, n
  <2> QED
    BY <2>1, <1>m, <1>t DEF Fresh
<1>2. CASE Crash \/ StreamEnds \/ OnEventFails \/ FlushOrMarkFails \/ SaveFails \/ NothingToCommit \/ SaveCheckpoint
  <2>1. UNCHANGED <<out, mark, meta>> /\ pc' \in {"down", "boundary", "save"}
    BY <1>2 DEF Crash, StreamEnds, OnEventFails, FlushOrMarkFails, SaveFails, NothingToCommit, SaveCheckpoint, Ends, targetVars
  <2> QED
    BY <2>1, <1>b, <1>m, <1>t
<1>3. CASE Start
  <2>1. UNCHANGED <<out, mark>> /\ pc' = "boundary" /\ meta' \in [Durable -> Schemas]
    BY <1>3 DEF Start, PrepareTables, targetVars
  <2> QED
    BY <2>1, <1>b, <1>m
<1>4. CASE OnXID
  <2>1. UNCHANGED <<out, mark, meta, txnOpen, active>> /\ pc = "boundary"
    BY <1>4 DEF OnXID, handlerVars, openVars, targetVars
  <2>2. ~txnOpen /\ active = {}
    BY <2>1 DEF TypeInv, TypeOK
  <2> QED
    BY <2>1, <2>2, <1>m, <1>t DEF Fresh
<1>5. CASE OnEvent
  <2>1. UNCHANGED <<out, mark, meta, at>> /\ pc = "write" /\ ev \in Nat /\ ev < Size[n] /\ n' = n
    BY <1>5 DEF OnEvent, targetVars, TypeInv, TypeOK, n
  <2>2. Marked' /\ \A d \in Durable : Mark(d)' = Mark(d)
    BY <2>1, <1>m, <1>t
  <2>3. n \in Transactions /\ Size[n] \in Nat
    BY <2>1, InTransaction, EventsTyped DEF InTxn
  <2>4. ASSUME NEW d \in active' \cap Durable PROVE Mark(d) < n
    <3>1. d \in Sinks \ Skipped
      BY <1>5, <2>4 DEF OnEvent
    <3>2. CASE txnOpen
      <4>1. d \in active
        BY <2>1, <3>1, <3>2 DEF Skipped, DataInv, Writing
      <4> QED
        BY <2>1, <2>4, <4>1 DEF Fresh
    <3>3. CASE ~txnOpen
      <4>1. ~(Mark(d) >= n)
        BY <2>4, <3>1, <3>3 DEF Skipped, HasAppliedTxn, Mark
      <4> QED
        BY <2>3, <2>4, <4>1, MarkTyped, IncrementalAssumption DEF IncrementalAssumption
    <3> QED
      BY <3>2, <3>3
  <2>5. Fresh'
    BY <2>1, <2>2, <2>3, <2>4 DEF Fresh
  <2> QED
    BY <2>2, <2>5
<1>6. ASSUME NEW s \in Sinks, CommitTransaction(s) PROVE LogInv'
  <2>1. /\ s \in Live /\ Committing(s) /\ Commits(s) /\ meta' = meta
        /\ active' = active \ {s} /\ n' = n /\ pc = "marked" /\ txnOpen' = txnOpen
    BY <1>6 DEF CommitTransaction, Committing, Advances, Live, n, handlerVars
  <2>2. Marked' /\ \A d \in Durable : Mark(d)' = IF d = s THEN n ELSE Mark(d)
    BY <2>1, CommitMarks
  <2>3. \A d \in active' \cap Durable : Mark(d)' < n
    BY <2>1, <2>2 DEF Fresh
  <2>4. Fresh'
    BY <2>1, <2>3 DEF Fresh
  <2> QED
    BY <2>2, <2>4
<1>7. ASSUME NEW s \in Sinks, CommitFails(s) PROVE LogInv'
  <2>1. Committing(s) /\ s \in Live /\ meta' = meta /\ Fresh'
    BY <1>7, <1>b DEF CommitFails, Ends, Committing, Live
  <2>2. CASE UNCHANGED targetVars
    BY <2>1, <2>2, <1>m, <1>t DEF targetVars
  <2>3. CASE Commits(s)
    BY <2>1, <2>3, CommitMarks
  <2>4. ASSUME s \in Plain, UNCHANGED mark, NEW part, out' = [out EXCEPT ![s] = @ \o part]
        PROVE  LogInv'
    <3>1. \A d \in Durable : out'[d] = out[d] /\ Mark(d)' = Mark(d)
      BY <2>1, <2>4, IncrementalAssumption DEF IncrementalAssumption, TypeInv, TypeOK, Mark
    <3> QED
      BY <2>1, <3>1 DEF Marked
  <2> QED
    BY <1>7, <2>2, <2>3, <2>4 DEF CommitFails
<1> QED
  BY <1>1, <1>2, <1>3, <1>4, <1>5, <1>6, <1>7, <1>8, <1>9, <1>10 DEF Next, ServiceStep
(* With one schema LastMark, the abstract log's `applied', is the mark.    *)
LEMMA LastMarkIs ==
  ASSUME NEW m, Schemas = {m}, NEW s \in Durable
  PROVE  TypeInv => LastMark(s) = Mark(s)
<1> SUFFICES ASSUME TypeInv PROVE LastMark(s) = Mark(s)
  OBVIOUS
<1>1. Mark(s) \in 0..MaxHead /\ Mark(s) = mark[s][m]
  BY MarkTyped DEF Mark, TypeInv, TypeOK
<1>2. \A t \in 0..MaxHead : ((\E c \in Schemas : mark[s][c] = t) /\ \A c \in Schemas : mark[s][c] <= t) <=> t = Mark(s)
  BY <1>1
<1> QED
  BY <1>1, <1>2 DEF LastMark

LEMMA LastMarkNext ==
  ASSUME NEW m, Schemas = {m}, NEW s \in Durable
  PROVE  (TypeInv => LastMark(s) = Mark(s))'
BY LastMarkIs, PTL

(* What the sink takes is the next transaction of the abstract log: the    *)
(* ones between its mark and the stream's place have no events, since what *)
(* the sink has up to the checkpoint its mark covers, or were missed.      *)
LEMMA NoneLeftOut ==
  ASSUME TypeInv, DataInv, LogInv, ~gap, NEW s \in Durable, Committing(s), NEW u \in (Mark(s) + 1)..at
  PROVE  Size[u] = 0 \/ u \in overtaken
<1>1. at = cp /\ at \in Nat /\ u \in 1..cp /\ Mark(s) \in 0..MaxHead /\ s \in Sinks
  BY MarkTyped, IncrementalAssumption
     DEF IncrementalAssumption, Committing, DataInv, AtCheckpoint, TypeInv, TypeOK
<1>2. u \in Transactions /\ u \in Int /\ MaxHead \in Nat
  BY <1>1, IncrementalAssumption DEF IncrementalAssumption, TypeInv, TypeOK
<1>3. Size[u] \in Nat /\ Len(EventsOf(u)) = Size[u] /\ EventsOf(u) \in Seq(EventSet)
      /\ \A i \in 1..Size[u] : EventsOf(u)[i] = <<u, i>>
  BY <1>2, EventsTyped
<1>4. SUFFICES ASSUME Size[u] > 0, u \notin overtaken PROVE FALSE
  BY <1>3
<1>5. 1 \in 1..Size[u]
  BY <1>3, <1>4
<1>6. <<u, 1>> \in ToSet(EventsOf(u))
  <2>1. 1 \in DOMAIN EventsOf(u) /\ EventsOf(u)[1] = <<u, 1>>
    BY <1>3, <1>5
  <2> QED
    BY <2>1 DEF ToSet
<1>7. <<u, 1>> \in ToSet(out[s])
  BY <1>1, <1>4, <1>6 DEF DataInv, Covered, Has, Overtaken, Delivered
<1>8. out[s] \in Seq(EventSet)
  BY MarkTyped
<1>9. PICK k \in 1..Len(out[s]) : out[s][k] = <<u, 1>>
  BY <1>7, <1>8 DEF ToSet
<1>10. u <= Mark(s)
  BY <1>9 DEF LogInv, Marked
<1> QED
  BY <1>1, <1>2, <1>10

LEMMA CommitIsDeliver ==
  ASSUME NEW m, Schemas = {m}, TypeInv, TypeInv', DataInv, LogInv, NEW s \in Durable, s \in Live,
         Committing(s), Commits(s), UNCHANGED <<meta, gap, overtaken>>
  PROVE  Log!Next
<1>1. s \in Sinks /\ n \in Transactions /\ txnOpen /\ pend[s] = EventsOf(n) /\ n = at + 1 /\ pc = "marked" /\ s \in active
  BY InTransaction, IncrementalAssumption
     DEF IncrementalAssumption, Committing, InTxn, DataInv, Committed, TypeInv, OpenInv, n
<1>2. Size[n] > 0 /\ Mark(s) < n
  BY <1>1 DEF LogInv, Fresh
<1>3. \A d \in Durable : LastMark(d) = Mark(d) /\ LastMark(d)' = Mark(d)'
  BY LastMarkIs, LastMarkNext
<1>4. \A d \in Durable : Mark(d)' = IF d = s THEN n ELSE Mark(d)
  BY <1>1, CommitMarks
<1>5. \A d \in Durable : LastMark(d)' = IF d = s THEN n ELSE LastMark(d)
  BY <1>3, <1>4
<1>6. \A d \in Durable : out'[d] = IF d = s THEN out[s] \o EventsOf(n) ELSE out[d]
  BY <1>1, IncrementalAssumption DEF IncrementalAssumption, Commits, TypeInv, TypeOK
<1>7. gap \/ \A u \in (Mark(s) + 1)..(n - 1) : Size[u] = 0 \/ u \in overtaken
  <2>1. n - 1 = at
    BY <1>1 DEF TypeInv, TypeOK
  <2> QED
    BY <2>1, NoneLeftOut
<1>8. [d \in Durable |-> LastMark(d)]' = [[d \in Durable |-> LastMark(d)] EXCEPT ![s] = n]
  BY <1>5
<1>9. [d \in Durable |-> out[d]]' = [[d \in Durable |-> out[d]] EXCEPT ![s] = @ \o EventsOf(n)]
  BY <1>6
<1>10. Mark(s) \in 0..MaxHead
  BY MarkTyped
<1>11. [d \in Durable |-> LastMark(d)][s] = Mark(s)
  BY <1>3
<1>12. n > Mark(s)
  BY <1>1, <1>2, <1>10
<1>13. PICK t \in 1..MaxHead : t = n
  BY <1>1
<1>14. Log!EventsOf(t) = EventsOf(n)
  BY <1>13 DEF Log!EventsOf, EventsOf
<1>15. Log!Deliver(s, t)
  BY <1>2, <1>7, <1>8, <1>9, <1>11, <1>12, <1>13, <1>14 DEF Log!Deliver
<1> QED
  BY <1>15 DEF Log!Next

(* An overtaken commit is a transaction the abstract log misses.           *)
LEMMA OvertakenIsMiss ==
  ASSUME NEW m, Schemas = {m}, TypeInv, DataInv, LogInv, NEW s \in Sinks, CommitsNothing(s)
  PROVE  Log!Next
<1>1. s \in Durable /\ s \in active /\ pc = "marked" /\ txnOpen /\ n \in Transactions /\ overtaken' = overtaken \cup {n}
      /\ UNCHANGED <<out, mark, gap>>
  BY InTransaction DEF CommitsNothing, Committing, InTxn, TypeInv, OpenInv, targetVars
<1>2. Size[n] > 0 /\ Mark(s) < n
  BY <1>1 DEF LogInv, Fresh
<1>3. \A d \in Durable : LastMark(d) = Mark(d) /\ d = s
  BY <1>1, LastMarkIs, IncrementalAssumption DEF IncrementalAssumption
<1>4. \A d \in Durable : LastMark(d)' = LastMark(d)
  BY <1>1 DEF LastMark
<1>5. \A d \in Durable : [e \in Durable |-> LastMark(e)][d] < n
  BY <1>2, <1>3
<1>6. PICK t \in 1..MaxHead : t = n
  BY <1>1
<1>7. Log!Miss(t)
  BY <1>1, <1>2, <1>4, <1>5, <1>6 DEF Log!Miss
<1> QED
  BY <1>7 DEF Log!Next

LEMMA LogFollows ==
  ASSUME NEW m, Schemas = {m}, TypeInv, TypeInv', DataInv, LogInv, [Next]_vars
  PROVE  Log!Next \/ UNCHANGED Log!vars
<1>s. ASSUME \A d \in Durable : out'[d] = out[d], mark' = mark, gap' = gap, overtaken' = overtaken PROVE UNCHANGED Log!vars
  <2>1. \A d \in Durable : LastMark(d)' = LastMark(d)
    BY <1>s DEF LastMark
  <2> QED
    BY <1>s, <2>1 DEF Log!vars
<1>1. CASE UNCHANGED <<out, mark, gap, overtaken>>
  BY <1>1, <1>s
<1>2. CASE UNCHANGED vars
  BY <1>1, <1>2 DEF vars, targetVars, closeVars
<1>3. CASE Start
  <2>1. UNCHANGED <<out, mark, overtaken>>
    BY <1>3 DEF Start, targetVars, closeVars
  <2>2. CASE gap' = gap
    BY <1>1, <2>1, <2>2
  <2>3. CASE gap' = TRUE /\ ~gap
    <3>1. \A d \in Durable : LastMark(d)' = LastMark(d)
      BY <2>1 DEF LastMark
    <3>2. Log!LosePosition
      BY <2>1, <2>3, <3>1 DEF Log!LosePosition
    <3> QED
      BY <3>2 DEF Log!Next
  <2> QED
    BY <1>3, <2>2, <2>3 DEF Start, TypeInv, TypeOK
<1>4. ASSUME NEW s \in Live, s \in Sinks, Committing(s), Commits(s), UNCHANGED <<meta, gap, overtaken>>
      PROVE  Log!Next \/ UNCHANGED Log!vars
  <2>1. CASE s \in Durable
    BY <1>4, <2>1, CommitIsDeliver
  <2>2. CASE s \notin Durable
    BY <1>4, <2>2, <1>s, IncrementalAssumption DEF IncrementalAssumption, Commits, TypeInv, TypeOK
  <2> QED
    BY <2>1, <2>2
<1>5. ASSUME NEW s \in Sinks, CommitTransaction(s) PROVE Log!Next \/ UNCHANGED Log!vars
  BY <1>4, <1>5 DEF CommitTransaction, Committing, Live, closeVars
<1>6. ASSUME NEW s \in Sinks, CommitFails(s) PROVE Log!Next \/ UNCHANGED Log!vars
  <2>1. CASE UNCHANGED targetVars
    BY <1>1, <1>6, <2>1 DEF CommitFails, targetVars
  <2>2. CASE Commits(s)
    BY <1>4, <1>6, <2>2 DEF CommitFails, Committing, Live
  <2>3. ASSUME s \in Plain, UNCHANGED mark, NEW part, out' = [out EXCEPT ![s] = @ \o part]
        PROVE  Log!Next \/ UNCHANGED Log!vars
    BY <1>6, <2>3, <1>s, IncrementalAssumption DEF IncrementalAssumption, CommitFails, TypeInv, TypeOK
  <2> QED
    BY <1>6, <2>1, <2>2, <2>3 DEF CommitFails
<1>7. CASE Crash \/ StreamEnds \/ OnEventFails \/ FlushOrMarkFails \/ SaveFails
  BY <1>1, <1>7 DEF Crash, StreamEnds, OnEventFails, FlushOrMarkFails, SaveFails, targetVars
<1>8. CASE SourceCommits \/ Stop \/ AlreadySatisfied \/ OnXID \/ OnEvent \/ NothingToCommit \/ FlushAndMark \/ SaveCheckpoint
  BY <1>1, <1>8 DEF SourceCommits, Stop, AlreadySatisfied, OnXID, OnEvent, NothingToCommit, FlushAndMark, SaveCheckpoint,
                    targetVars, closeVars
<1>9. ASSUME NEW s \in Sinks, CloseSink(s) PROVE Log!Next \/ UNCHANGED Log!vars
  BY <1>1, <1>9 DEF CloseSink, targetVars
<1>10. ASSUME NEW s \in Sinks, CommitsNothing(s) PROVE Log!Next \/ UNCHANGED Log!vars
  BY <1>10, OvertakenIsMiss
<1> QED
  BY <1>2, <1>3, <1>5, <1>6, <1>7, <1>8, <1>9, <1>10 DEF Next, ServiceStep

LEMMA LogStart ==
  ASSUME NEW m, Schemas = {m}
  PROVE  Init => Log!Init
<1> SUFFICES ASSUME Init PROVE Log!Init
  OBVIOUS
<1>1. \A d \in Durable : LastMark(d) = 0
  <2> TAKE d \in Durable
  <2>1. Mark(d) = 0
    BY DEF Init, Mark
  <2> QED
    BY <2>1, TypeInit, LastMarkIs
<1>2. \A d \in Durable : out[d] = <<>>
  BY IncrementalAssumption DEF IncrementalAssumption, Init
<1> QED
  BY <1>1, <1>2 DEF Init, Log!Init

LEMMA LogInvariance ==
  ASSUME NEW m, Schemas = {m}
  PROVE  Spec => [](IInv /\ LogInv)
<1>1. IInv /\ LogInv /\ [Next]_vars => LogInv'
  BY LogStep DEF IInv
<1> QED
  BY <1>1, LogInit, Invariance, PTL DEF Spec

(* The sink that keeps its position in the target database follows the     *)
(* abstract log in what it commits: whole transactions, in the source's    *)
(* order, none twice, and none left out, while the position was not lost,  *)
(* but one whose commit a stop overtook.  The hypothesis is one target     *)
(* schema: with two, PrepareTables may choose another one at a restart and *)
(* a transaction is applied again.                                         *)
THEOREM FollowsTheLog ==
  ASSUME NEW m, Schemas = {m}
  PROVE  Spec => ExactlyOnce
<1>1. (IInv /\ LogInv) /\ (IInv /\ LogInv)' /\ [Next]_vars => [Log!Next]_(Log!vars)
  BY LogFollows DEF IInv
<1>2. Spec => [](IInv /\ LogInv)
  BY LogInvariance
<1>3. Init => Log!Init
  BY LogStart
<1> QED
  BY <1>1, <1>2, <1>3, PTL DEF Spec, ExactlyOnce, Log!Spec

LEMMA ConcatLength ==
  ASSUME NEW S, NEW a \in Seq(S), NEW b \in Seq(S)
  PROVE  Len(a \o b) = Len(a) + Len(b)
OBVIOUS

Once == \A d \in Durable : \A i, j \in 1..Len(out[d]) : out[d][i] = out[d][j] => i = j

LEMMA CommitOnce ==
  ASSUME TypeInv, DataInv, LogInv, Once, NEW s \in Live, Committing(s), Commits(s)
  PROVE  Once'
<1> SUFFICES ASSUME NEW d \in Durable, NEW i \in 1..Len(out'[d]), NEW j \in 1..Len(out'[d]),
                    out'[d][i] = out'[d][j]
             PROVE  i = j
  BY DEF Once
<1>1. CASE d # s
  <2>1. out'[d] = out[d]
    BY <1>1, IncrementalAssumption DEF IncrementalAssumption, Commits, TypeInv, TypeOK
  <2> QED
    BY <2>1 DEF Once
<1>2. CASE d = s
  <2>1. n \in Transactions /\ pend[s] = EventsOf(n) /\ s \in Sinks /\ out[s] \in Seq(EventSet) /\ Mark(s) < n /\ n \in Int
    BY <1>2, InTransaction
       DEF Committing, InTxn, DataInv, Committed, TypeInv, TypeOK, LogInv, Fresh, Live
  <2>2. EventsOf(n) \in Seq(EventSet) /\ Size[n] \in Nat /\ Len(EventsOf(n)) = Size[n] /\ Len(out[s]) \in Nat
    BY <2>1, EventsTyped
  <2>3. out'[s] = out[s] \o EventsOf(n)
    BY <2>1 DEF Commits, TypeInv, TypeOK
  <2>4. ASSUME NEW k \in 1..Len(out'[s]), k <= Len(out[s])
        PROVE  k \in 1..Len(out[s]) /\ out'[s][k] = out[s][k] /\ out[s][k][1] # n
    <3>1. k \in 1..Len(out[s]) /\ out'[s][k] = out[s][k]
      BY <2>1, <2>2, <2>3, <2>4
    <3>2. out[s][k] \in EventSet
      BY <2>1, <3>1
    <3>3. out[s][k][1] \in Int
      <4>1. PICK t \in Transactions : out[s][k] \in {<<t, h>> : h \in 1..Size[t]}
        BY <3>2 DEF EventSet
      <4> QED
        BY <4>1, IncrementalAssumption DEF IncrementalAssumption
    <3>4. out[s][k][1] <= Mark(s) /\ Mark(s) \in 0..MaxHead
      BY <1>2, <3>1, MarkTyped DEF LogInv, Marked
    <3> QED
      BY <2>1, <3>1, <3>3, <3>4
  <2>5. ASSUME NEW k \in 1..Len(out'[s]), ~(k <= Len(out[s]))
        PROVE  k - Len(out[s]) \in 1..Size[n] /\ out'[s][k] = <<n, k - Len(out[s])>>
    <3>1. Len(out'[s]) = Len(out[s]) + Size[n]
      <4>1. Len(out[s] \o EventsOf(n)) = Len(out[s]) + Len(EventsOf(n))
        BY <2>1, <2>2, ConcatLength
      <4> QED
        BY <2>2, <2>3, <4>1
    <3>2. k - Len(out[s]) \in 1..Size[n] /\ k \notin 1..Len(out[s])
      BY <2>2, <2>5, <3>1
    <3>3. out'[s][k] = EventsOf(n)[k - Len(out[s])]
      BY <2>1, <2>2, <2>3, <3>1, <3>2
    <3> QED
      BY <2>1, <3>2, <3>3, EventsTyped
  <2>6. CASE i <= Len(out[s]) /\ j <= Len(out[s])
    BY <1>2, <2>4, <2>6 DEF Once
  <2>7. CASE ~(i <= Len(out[s])) /\ ~(j <= Len(out[s]))
    <3>1. i - Len(out[s]) = j - Len(out[s])
      BY <1>2, <2>5, <2>7
    <3> QED
      BY <2>2, <3>1, <1>2, <2>7
  <2>8. CASE i <= Len(out[s]) /\ ~(j <= Len(out[s]))
    BY <1>2, <2>4, <2>5, <2>8
  <2>9. CASE ~(i <= Len(out[s])) /\ j <= Len(out[s])
    BY <1>2, <2>4, <2>5, <2>9
  <2> QED
    BY <2>6, <2>7, <2>8, <2>9
<1> QED
  BY <1>1, <1>2

LEMMA OnceStep == TypeInv /\ DataInv /\ LogInv /\ Once /\ [Next]_vars => Once'
<1> SUFFICES ASSUME TypeInv, DataInv, LogInv, Once, [Next]_vars PROVE Once'
  OBVIOUS
<1>1. CASE out' = out
  BY <1>1 DEF Once
<1>2. ASSUME NEW s \in Sinks, CommitTransaction(s) PROVE Once'
  BY <1>2, CommitOnce DEF CommitTransaction, Committing, Live
<1>3. ASSUME NEW s \in Sinks, CommitFails(s) PROVE Once'
  <2>1. CASE UNCHANGED targetVars
    BY <1>1, <2>1 DEF targetVars
  <2>2. CASE Commits(s)
    BY <1>3, <2>2, CommitOnce DEF CommitFails, Committing, Live
  <2>3. ASSUME s \in Plain, NEW part, out' = [out EXCEPT ![s] = @ \o part]
        PROVE  Once'
    <3>1. \A d \in Durable : out'[d] = out[d]
      BY <2>3, IncrementalAssumption DEF IncrementalAssumption, TypeInv, TypeOK
    <3> QED
      BY <3>1 DEF Once
  <2> QED
    BY <1>3, <2>1, <2>2, <2>3 DEF CommitFails
<1>4. CASE ~(\E s \in Sinks : CommitTransaction(s) \/ CommitFails(s))
  BY <1>1, <1>4 DEF Next, ServiceStep, Start, SourceCommits, Stop, AlreadySatisfied, OnXID, OnEvent, NothingToCommit,
     FlushAndMark, CommitsNothing, CloseSink, SaveCheckpoint, Crash, StreamEnds, OnEventFails, FlushOrMarkFails, SaveFails, targetVars, vars
<1> QED
  BY <1>2, <1>3, <1>4

(* A sequence without repetitions has as many elements as it is long.      *)
LEMMA NoRepetition ==
  ASSUME NEW S, NEW q \in Seq(S), \A i, j \in 1..Len(q) : q[i] = q[j] => i = j
  PROVE  Cardinality(ToSet(q)) = Len(q)
<1>1. q \in Bijection(1..Len(q), ToSet(q))
  <2>1. q \in [1..Len(q) -> ToSet(q)]
    BY DEF ToSet
  <2>2. \A e \in ToSet(q) : \E i \in 1..Len(q) : q[i] = e
    BY DEF ToSet
  <2>3. q \in Surjection(1..Len(q), ToSet(q)) /\ q \in Injection(1..Len(q), ToSet(q))
    BY <2>1, <2>2 DEF Surjection, Injection, IsInjective
  <2> QED
    BY <2>3 DEF Bijection
<1>2. IsFiniteSet(1..Len(q)) /\ Cardinality(1..Len(q)) = Len(q)
  <2>1. Len(q) \in Nat /\ Len(q) \in Int /\ 1 \in Int
    OBVIOUS
  <2>2. IsFiniteSet(1..Len(q)) /\ Cardinality(1..Len(q)) = IF 1 > Len(q) THEN 0 ELSE Len(q) - 1 + 1
    BY <2>1, FS_Interval
  <2> QED
    BY <2>1, <2>2
<1>3. ExistsBijection(1..Len(q), ToSet(q))
  BY <1>1 DEF ExistsBijection
<1> QED
  BY <1>2, <1>3, FS_Bijection

(* With one target schema no event is committed twice at the sink that     *)
(* keeps the mark, whatever fails, however a stop closes it, and also      *)
(* after the position was lost: the mark is committed with the transaction *)
(* and read before it is opened again.                                     *)
THEOREM NoEventTwice ==
  ASSUME NEW m, Schemas = {m}
  PROVE  Spec => []NoDuplicate
<1>1. Init => Once
  BY IncrementalAssumption DEF IncrementalAssumption, Init, Once
<1>2. TypeInv /\ Once => NoDuplicate
  <2> SUFFICES ASSUME TypeInv, Once, NEW s \in Durable PROVE Cardinality(Delivered(s)) = Len(out[s])
    BY DEF NoDuplicate
  <2>1. out[s] \in Seq(EventSet)
    BY MarkTyped
  <2> QED
    BY <2>1, NoRepetition DEF Once, Delivered
<1>3. Spec => [](IInv /\ LogInv)
  BY LogInvariance
<1> QED
  BY <1>1, <1>2, <1>3, OnceStep, PTL DEF Spec, IInv
=============================================================================
