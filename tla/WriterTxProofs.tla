--------------------------- MODULE WriterTxProofs ---------------------------
(***************************************************************************)
(* Theorems of WriterTx, for any set of batches and any retry bound.       *)
(*                                                                         *)
(* NeverTwice and AckedIsDurable are not inductive: they need to know what *)
(* each point of commit() knows about the target.  IInv says it:           *)
(*   - until COMMIT is sent, nothing of the transaction is on the target   *)
(*     and its marker id was never committed (Fresh);                      *)
(*   - between an unknown COMMIT and its verification, either the server   *)
(*     still holds exactly this transaction (Doubt), or it has decided,    *)
(*     and then the marker row tells which way (Decided);                  *)
(*   - a batch not written yet is not on the target (Disjoint);            *)
(*   - no batch is lost between the queue and progress (Conserved).        *)
(* With it every step is a step of AtomicApply (AbstractStep).             *)
(***************************************************************************)
EXTENDS WriterTx, TLAPS

(* TypeOK alone is not inductive: WriteOK adds the batch in hand to buf. *)
TypeInv == TypeOK /\ (pc \in {"begin", "write"} => cur \in Batches)

OnTarget(S) == \A b \in S : store[b] = 1
OffTarget(S) == \A b \in S : store[b] = 0

Disjoint ==
  /\ todo \cap (buf \cup acked) = {}
  /\ buf \cap acked = {}
  /\ cur \notin todo \cup buf \cup acked
  /\ OffTarget(todo)
  /\ cur # NoBatch => store[cur] = 0
  /\ OnTarget(acked)

Holding ==
  /\ pc \in {"reconnect", "verify", "report"} => ~open
  /\ pc \notin {"begin", "write", "failed"} => cur = NoBatch

Fresh ==
  pc \in {"loop", "begin", "write", "replay", "mark", "commit"} =>
    /\ OffTarget(buf)
    /\ open => sess = buf
    /\ open => marker \notin markers
    /\ pc \in {"write", "mark", "commit"} => open
    /\ pc \in {"begin", "replay"} => ~open
    /\ pc = "replay" => marker \notin markers
    /\ (pc \in {"loop", "begin"} /\ ~open) => buf = {}

Ids ==
  /\ markers \subseteq 0..(nextId - 1)
  /\ marker < nextId
  /\ nextId > 0

Doubt ==
  doubt.pending =>
    /\ pc \in {"reconnect", "verify", "failed"}
    /\ doubt.rows = buf
    /\ OffTarget(buf)
    /\ pc \in {"reconnect", "verify"} => doubt.id = marker
    /\ doubt.id \notin markers
    /\ doubt.id < nextId

Decided ==
  pc \in {"reconnect", "verify"} /\ ~doubt.pending =>
    IF marker \in markers THEN OnTarget(buf) ELSE OffTarget(buf)

Reported == pc = "report" => OnTarget(buf)

(* No batch is lost between the queue and progress. *)
Conserved ==
  /\ pc \notin {"failed", "stopped"} => Batches \subseteq todo \cup buf \cup acked \cup {cur}
  /\ pc = "stopped" => OffTarget(Batches \ acked)
  /\ pc = "done" => todo = {} /\ buf = {}

IInv ==
  /\ TypeInv
  /\ NeverTwice
  /\ Disjoint
  /\ Holding
  /\ Fresh
  /\ Ids
  /\ Doubt
  /\ Decided
  /\ Reported
  /\ Conserved

-----------------------------------------------------------------------------
LEMMA TypeInvInit == Init => TypeInv
<1> SUFFICES ASSUME Init PROVE TypeInv
  OBVIOUS
<1>1. doubt \in [pending : BOOLEAN, rows : SUBSET Batches, id : Nat]
  BY DEF Init, NoDoubt
<1>2. store \in [Batches -> Nat] /\ markers \subseteq Nat
  BY DEF Init
<1>3. open \in BOOLEAN /\ recommit \in BOOLEAN
  BY Zenon DEF Init
<1>4. recoveries \in 0..MaxConnRetries /\ attempt \in 0..MaxConnRetries
  BY WriterTxAssumption DEF WriterTxAssumption, Init
<1>5. marker \in Nat /\ nextId \in Nat
  BY DEF Init
<1> QED
  BY <1>1, <1>2, <1>3, <1>4, <1>5 DEF Init, TypeInv, TypeOK, PCs

(* Each action keeps the types, one step per action. *)
LEMMA TypeInvStep == TypeInv /\ [Next]_vars => TypeInv'
<1> SUFFICES ASSUME TypeInv, [Next]_vars PROVE TypeInv'
  OBVIOUS
<1> USE WriterTxAssumption DEF WriterTxAssumption, TypeInv, TypeOK, PCs,
         MayRecover, LockedRead, MarkerFound, StopSeen, NothingOpen
<1>1. ASSUME NEW b \in Batches, TakeBatch(b) PROVE TypeInv'
  BY <1>1 DEF TakeBatch, serverVars
<1>2. CASE BeginOK
  BY <1>2 DEF BeginOK
<1>3. CASE BeginRetry
  BY <1>3 DEF BeginRetry, serverVars
<1>4. CASE WriteOK
  BY <1>4 DEF WriteOK
<1>5. CASE WriteRetryable
  <2>1. buf' \subseteq Batches
    BY <1>5 DEF WriteRetryable
  <2>2. attempt' \in 0..MaxConnRetries
    BY <1>5 DEF WriteRetryable
  <2>3. open' \in BOOLEAN /\ recommit' \in BOOLEAN
    BY <1>5, Zenon DEF WriteRetryable
  <2> QED BY <1>5, <2>1, <2>2, <2>3 DEF WriteRetryable
<1>6. CASE ReplayOK
  BY <1>6 DEF ReplayOK
<1>7. CASE ReplayRetry
  BY <1>7 DEF ReplayRetry, serverVars
<1>8. CASE CommitDue
  BY <1>8 DEF CommitDue, serverVars
<1>9. CASE MarkOK
  BY <1>9 DEF MarkOK, serverVars
<1>10. CASE CommitOK
  <2>1. store' \in [Batches -> Nat] /\ markers' \subseteq Nat
    BY <1>10 DEF CommitOK, Visible
  <2> QED BY <1>10, <2>1 DEF CommitOK
<1>11. CASE CommitUnknown
  <2>1. doubt' \in [pending : BOOLEAN, rows : SUBSET Batches, id : Nat]
    BY <1>11 DEF CommitUnknown
  <2>2. recoveries' \in 0..MaxConnRetries /\ pc' \in {"reconnect", "failed"}
    BY <1>11 DEF CommitUnknown
  <2> QED BY <1>11, <2>1, <2>2 DEF CommitUnknown
<1>12. CASE ReconnectOK
  BY <1>12 DEF ReconnectOK, serverVars
<1>13. CASE VerifyApplied
  BY <1>13 DEF VerifyApplied, serverVars
<1>14. CASE VerifyRolledBack
  BY <1>14 DEF VerifyRolledBack, serverVars
<1>15. CASE Report
  BY <1>15 DEF Report, serverVars
<1>16. CASE ReportFail
  BY <1>16 DEF ReportFail, serverVars
<1>17. CASE Fail
  BY <1>17 DEF Fail
<1>18. CASE Stop
  BY <1>18 DEF Stop
<1>19. CASE Drained
  BY <1>19 DEF Drained, serverVars
<1>20. CASE ServerCommits
  <2>1. doubt.rows \subseteq Batches /\ doubt.id \in Nat
    OBVIOUS
  <2>2a. store' \in [Batches -> Nat]
    BY <1>20, <2>1 DEF ServerCommits, Visible
  <2>2b. markers' = markers \cup {doubt.id}
    BY <1>20 DEF ServerCommits, Visible
  <2>2. store' \in [Batches -> Nat] /\ markers' \subseteq Nat
    BY <2>1, <2>2a, <2>2b
  <2>3. doubt' \in [pending : BOOLEAN, rows : SUBSET Batches, id : Nat]
    BY <1>20 DEF ServerCommits, NoDoubt
  <2> QED BY <1>20, <2>2, <2>3 DEF ServerCommits, writerVars
<1>21. CASE ServerRollsBack
  BY <1>21 DEF ServerRollsBack, NoDoubt, writerVars
<1>22. CASE UNCHANGED vars
  BY <1>22 DEF vars, writerVars, serverVars
<1> QED
  BY <1>1, <1>2, <1>3, <1>4, <1>5, <1>6, <1>7, <1>8, <1>9, <1>10, <1>11, <1>12, <1>13, <1>14, <1>15, <1>16, <1>17, <1>18, <1>19, <1>20, <1>21, <1>22 DEF Next, Writer, Server

(* Every variable keeps its type, and both retry counters stay within
   writeConnMaxRetries. *)
THEOREM TypeCorrect == Spec => []TypeOK
<1>1. TypeInv => TypeOK
  BY DEF TypeInv
<1> QED
  BY <1>1, TypeInvInit, TypeInvStep, PTL DEF Spec

-----------------------------------------------------------------------------
LEMMA IInvInit == Init => IInv
<1> SUFFICES ASSUME Init PROVE IInv
  OBVIOUS
<1>1. TypeInv
  BY TypeInvInit
<1>2. NeverTwice /\ Disjoint /\ Holding /\ Fresh /\ Ids
  BY WriterTxAssumption DEF WriterTxAssumption, Init, NeverTwice, Disjoint, Holding, Fresh, Ids, OnTarget, OffTarget
<1>3. Doubt /\ Decided /\ Reported /\ Conserved
  BY DEF Init, NoDoubt, Doubt, Decided, Reported, Conserved
<1> QED
  BY <1>1, <1>2, <1>3 DEF IInv

(* Every step keeps the invariant; one lemma step per action, and under it
   one per part of IInv where the action needs them apart. *)
LEMMA IInvStep == IInv /\ [Next]_vars => IInv'
<1> SUFFICES ASSUME IInv, [Next]_vars PROVE IInv'
  OBVIOUS
<1>0. TypeInv /\ TypeInv'
  BY TypeInvStep DEF IInv
<1> USE <1>0, WriterTxAssumption DEF WriterTxAssumption, IInv, TypeInv, TypeOK, NeverTwice, OnTarget, OffTarget,
         Disjoint, Holding, Fresh, Ids, Doubt, Decided, Reported, Conserved,
         MayRecover, LockedRead, MarkerFound, StopSeen, NothingOpen
<1>1. ASSUME NEW b \in Batches, TakeBatch(b) PROVE IInv'
  BY <1>1 DEF TakeBatch, serverVars
<1>2. CASE BeginOK
  BY <1>2 DEF BeginOK
<1>3. CASE BeginRetry
  BY <1>3 DEF BeginRetry, serverVars
<1>4. CASE WriteOK
  BY <1>4 DEF WriteOK
<1>5. CASE WriteRetryable
  BY <1>5 DEF WriteRetryable
<1>6. CASE ReplayOK
  <2>1. /\ UNCHANGED <<todo, cur, buf, acked, store, markers, doubt>>
        /\ pc = "replay" /\ pc' \in {"loop", "mark"}
        /\ sess' = buf /\ open'
        /\ \/ marker' = nextId /\ nextId' = nextId + 1
           \/ UNCHANGED <<marker, nextId>>
    BY <1>6 DEF ReplayOK
  <2>2. CASE marker' = nextId /\ nextId' = nextId + 1
    <3>1. Ids' /\ marker' \notin markers'
      BY <2>1, <2>2
    <3> QED BY <2>1, <3>1
  <2>3. CASE UNCHANGED <<marker, nextId>>
    <3>1. Ids' /\ marker' \notin markers'
      BY <2>1, <2>3
    <3> QED BY <2>1, <3>1
  <2> QED BY <2>1, <2>2, <2>3
<1>7. CASE ReplayRetry
  BY <1>7 DEF ReplayRetry, serverVars
<1>8. CASE CommitDue
  BY <1>8 DEF CommitDue, serverVars
<1>9. CASE MarkOK
  BY <1>9 DEF MarkOK, serverVars
<1>10. CASE CommitOK
  BY <1>10 DEF CommitOK, Visible
<1>11. CASE CommitUnknown
  BY <1>11 DEF CommitUnknown
<1>12. CASE ReconnectOK
  BY <1>12 DEF ReconnectOK, serverVars
<1>13. CASE VerifyApplied
  BY <1>13 DEF VerifyApplied, serverVars
<1>14. CASE VerifyRolledBack
  BY <1>14 DEF VerifyRolledBack, serverVars
<1>15. CASE Report
  BY <1>15 DEF Report, serverVars
<1>16. CASE ReportFail
  BY <1>16 DEF ReportFail, serverVars
<1>17. CASE Fail
  BY <1>17 DEF Fail
<1>18. CASE Stop
  BY <1>18 DEF Stop
<1>19. CASE Drained
  BY <1>19 DEF Drained, serverVars
<1>20. CASE ServerCommits
  <2>1. /\ doubt.pending /\ ~doubt'.pending
        /\ UNCHANGED <<pc, todo, cur, buf, open, marker, acked, nextId, sess>>
        /\ \A b \in Batches : store'[b] = IF b \in doubt.rows THEN store[b] + 1 ELSE store[b]
        /\ markers' = markers \cup {doubt.id}
    BY <1>20 DEF ServerCommits, Visible, NoDoubt, writerVars
  <2>2. \A b \in doubt.rows : store'[b] = 1
    BY <2>1
  <2>3. \A b \in Batches \ doubt.rows : store'[b] = store[b]
    BY <2>1
  <2>4. NeverTwice' /\ Disjoint'
    BY <2>1, <2>2, <2>3
  <2> QED BY <2>1, <2>2, <2>3, <2>4
<1>21. CASE ServerRollsBack
  BY <1>21 DEF ServerRollsBack, NoDoubt, writerVars
<1>22. CASE UNCHANGED vars
  BY <1>22 DEF vars, writerVars, serverVars
<1> QED
  BY <1>1, <1>2, <1>3, <1>4, <1>5, <1>6, <1>7, <1>8, <1>9, <1>10, <1>11, <1>12, <1>13, <1>14, <1>15, <1>16, <1>17, <1>18, <1>19, <1>20, <1>21, <1>22 DEF Next, Writer, Server

(* The invariant holds in every reachable state. *)
LEMMA Invariant == Spec => []IInv
  BY IInvInit, IInvStep, PTL DEF Spec

-----------------------------------------------------------------------------
(* No batch is on the target twice, for any number of batches and broken
   connections: the commit protocol of writer.go never replays a transaction
   that the server committed. *)
THEOREM NoDuplicate == Spec => []NeverTwice
<1>1. IInv => NeverTwice
  BY DEF IInv
<1> QED
  BY <1>1, Invariant, PTL

(* Whatever reportCommitted has counted is on the target. *)
THEOREM ProgressIsDurable == Spec => []AckedIsDurable
<1>1. IInv => AckedIsDurable
  BY DEF IInv, Disjoint, OnTarget, AckedIsDurable
<1> QED
  BY <1>1, Invariant, PTL

(* A writer that returns nil with the queue drained has written everything. *)
THEOREM DoneMeansComplete == Spec => []DoneIsComplete
<1>1. IInv => DoneIsComplete
  <2> SUFFICES ASSUME IInv, pc = "done" PROVE acked = Batches /\ \A b \in Batches : store[b] = 1
    BY DEF DoneIsComplete
  <2>1. cur = NoBatch /\ NoBatch \notin Batches
    BY WriterTxAssumption DEF WriterTxAssumption, IInv, Holding
  <2>2. acked = Batches
    BY <2>1 DEF IInv, TypeInv, TypeOK, Conserved
  <2> QED BY <2>2 DEF IInv, Disjoint, OnTarget
<1> QED
  BY <1>1, Invariant, PTL

(* A stopped writer has counted exactly what is on the target. *)
THEOREM StopIsExact == Spec => []StopIsClean
<1>1. IInv => StopIsClean
  <2> SUFFICES ASSUME IInv, pc = "stopped", NEW b \in Batches PROVE store[b] = 1 <=> b \in acked
    BY DEF StopIsClean
  <2>1. CASE b \in acked
    BY <2>1 DEF IInv, Disjoint, OnTarget
  <2>2. CASE b \notin acked
    <3>1. store[b] = 0
      BY <2>2 DEF IInv, Conserved, OffTarget
    <3> QED BY <2>2, <3>1
  <2> QED BY <2>1, <2>2
<1> QED
  BY <1>1, Invariant, PTL

-----------------------------------------------------------------------------
(* Every step of the protocol is a step of the abstract write side or leaves
   its variables alone. *)
LEMMA AbstractStep == IInv /\ [Next]_vars => [Abstract!Next]_(Abstract!vars)
<1> SUFFICES ASSUME IInv, [Next]_vars
             PROVE  Abstract!Next \/ UNCHANGED <<store, acked>>
  BY DEF Abstract!vars
<1> USE DEF IInv, TypeInv, TypeOK, Disjoint, OnTarget, OffTarget, Abstract!Absent
<1>1. ASSUME NEW S \in SUBSET Batches, OffTarget(S), NEW id, Visible(S, id), UNCHANGED acked
      PROVE  Abstract!Next \/ UNCHANGED <<store, acked>>
  <2>1. CASE S = {}
    BY <1>1, <2>1 DEF Visible
  <2>2. CASE S # {}
    BY <1>1, <2>2 DEF Visible, Abstract!Next, Abstract!Apply
  <2> QED BY <2>1, <2>2
<1>2. ASSUME pc = "report", acked' = acked \cup buf, UNCHANGED store
      PROVE  Abstract!Next \/ UNCHANGED <<store, acked>>
  <2>1. CASE buf = {}
    BY <1>2, <2>1
  <2>2. CASE buf # {}
    <3>1. buf \cap (Abstract!Absent \cup acked) = {}
      BY <1>2 DEF Reported
    <3> QED BY <1>2, <2>2, <3>1 DEF Abstract!Next, Abstract!Ack
  <2> QED BY <2>1, <2>2
<1>3. CASE CommitOK
  <2>1. sess \in SUBSET Batches /\ OffTarget(sess)
    BY <1>3 DEF CommitOK, Fresh
  <2> QED BY <1>1, <1>3, <2>1 DEF CommitOK
<1>4. CASE ServerCommits
  <2>1. doubt.rows \in SUBSET Batches /\ OffTarget(doubt.rows)
    BY <1>4 DEF ServerCommits, Doubt
  <2> QED BY <1>1, <1>4, <2>1 DEF ServerCommits, writerVars
<1>5. CASE Report
  BY <1>2, <1>5 DEF Report, serverVars
<1>6. CASE ReportFail
  BY <1>2, <1>6 DEF ReportFail, serverVars
<1>7. CASE ~(CommitOK \/ ServerCommits \/ Report \/ ReportFail)
  BY <1>7 DEF Next, Writer, Server, TakeBatch, BeginOK, BeginRetry, WriteOK,
     WriteRetryable, ReplayOK, ReplayRetry, CommitDue, MarkOK, CommitUnknown,
     ReconnectOK, VerifyApplied, VerifyRolledBack, Fail, Stop, Drained,
     ServerRollsBack, serverVars, writerVars, vars
<1> QED
  BY <1>3, <1>4, <1>5, <1>6, <1>7

(* The protocol, with its reconnects, markers and replays, implements the
   atomic write side: groups of batches appear at once and never twice, and
   only batches that are there are counted. *)
THEOREM Refinement == Spec => ImplementsAtomicApply
<1>1. Init => Abstract!Init
  BY DEF Init, Abstract!Init
<1> QED
  BY <1>1, AbstractStep, Invariant, PTL DEF Spec, ImplementsAtomicApply, Abstract!Spec
=============================================================================
