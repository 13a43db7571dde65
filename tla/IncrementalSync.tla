-------------------------- MODULE IncrementalSync --------------------------
(***************************************************************************)
(* One task's binlog stream: the subscriber, which hands over a source     *)
(* transaction as a whole (src/pkg/binlog), IncrementalSyncService with    *)
(* its syncEventHandler (src/internal/sync/application), the sinks, and    *)
(* the checkpoint.  The stream is either a bounded catch-up to the         *)
(* position `until' or runs on; after a catch-up the task runs on.         *)
(*                                                                         *)
(* The source's transactions are 1..head; transaction t has Size[t] events *)
(* of the task's tables, and position t is the one after its commit.  A    *)
(* sink buffers the events of a source transaction until it commits.  A    *)
(* durable sink (MySQL) commits the position with them, in a table of one  *)
(* of its target schemas; the others (Kafka, webhook) cannot.              *)
(*                                                                         *)
(* Every error ends the subscription, and the task starts a new one.  A    *)
(* stop closes the sinks while the handler may still be at work.  That     *)
(* closing the canal lets RunFrom return is taken from the library.        *)
(***************************************************************************)
EXTENDS Integers, Sequences, FiniteSets, SequencesExt

CONSTANTS
  Sinks, Durable,  \* the sinks, and those that keep the position themselves
  Schemas,         \* the target schemas of the task
  Size,            \* events of a source transaction
  Until,           \* P1 of the catch-up, 0 when the task has none
  Faults,          \* subset of {"stop", "crash", "read", "cpread", "sink", "commit", "save"}
  MaxHead, MaxFaults

Transactions == 1..MaxHead
Plain == Sinks \ Durable

ASSUME IncrementalAssumption ==
  /\ Durable \subseteq Sinks /\ Sinks # {} /\ Schemas # {}
  /\ \A c, d \in Durable : c = d      \* the task has one target database
  /\ MaxHead \in Nat /\ MaxFaults \in Nat
  /\ Size \in [Transactions -> Nat]
  /\ Until \in 0..MaxHead

VARIABLES
  head,       \* transactions the source has committed
  cp,         \* the checkpoint manager's position
  until,      \* untilPosition, 0 when there is none
  pc,         \* "down", "boundary", "write", "commit", "marked", "save"
  cancelled,  \* the service's context is cancelled
  closing,    \* the canal is being closed
  catchUpDone,
  at,         \* the stream's position
  ev,         \* events of the transaction dispatched so far
  \* syncEventHandler
  txnOpen, sinkSkipApply, txnHasWrites,
  \* the sinks: meta schema, open transactions, committed events, positions
  meta, pend, active, out, mark,
  closed,     \* sinks the stop has closed while Start has not returned
  gap,        \* a subscription started at the source's position, not at cp
  \* history: transactions whose commit a close overtook, events a closed
  \* sink has written outside of a transaction
  overtaken, strayed,
  faults

streamVars == <<pc, cancelled, closing, catchUpDone, at, ev>>
handlerVars == <<txnOpen, sinkSkipApply, txnHasWrites>>
openVars == <<pend, active>>
targetVars == <<out, mark>>
closeVars == <<closed, overtaken, strayed>>
vars == <<head, cp, until, streamVars, handlerVars, meta, openVars, targetVars, closeVars, gap, faults>>

EventsOf(t) == [i \in 1..Size[t] |-> <<t, i>>]

Init ==
  /\ head = Until /\ cp = 0 /\ until = Until
  /\ pc = "down" /\ cancelled = FALSE /\ closing = FALSE /\ catchUpDone = FALSE
  /\ at = 0 /\ ev = 0
  /\ txnOpen = FALSE /\ sinkSkipApply = {} /\ txnHasWrites = FALSE
  /\ meta \in [Durable -> Schemas]
  /\ pend = [s \in Sinks |-> <<>>] /\ active = {}
  /\ out = [s \in Sinks |-> <<>>]
  /\ mark = [s \in Durable |-> [m \in Schemas |-> 0]]
  /\ closed = {} /\ overtaken = {} /\ strayed = {}
  /\ gap = FALSE /\ faults = 0

Fault(f) == f \in Faults /\ faults < MaxFaults /\ faults' = faults + 1

(* What a call under the service's context meets: an error of its own, or  *)
(* the cancelled context.                                                  *)
Breaks(f) == (cancelled /\ UNCHANGED faults) \/ Fault(f)

-----------------------------------------------------------------------------
(* The source and the user *)

SourceCommits ==
  /\ head < MaxHead
  /\ head' = head + 1
  /\ UNCHANGED <<cp, until, streamVars, handlerVars, meta, openVars, targetVars, closeVars, gap, faults>>

(* The runtime's context is cancelled, then the subscription stopped.  A   *)
(* stop counts with the faults: every restart may send events again.       *)
Stop ==
  /\ pc # "down" /\ ~closing
  /\ Fault("stop")
  /\ cancelled' = TRUE /\ closing' = TRUE
  /\ UNCHANGED <<head, cp, until, pc, catchUpDone, at, ev, handlerVars, meta, openVars, targetVars, closeVars, gap>>

(* The stop goes on in its own goroutine: it closes the sinks (in the      *)
(* order of the task; here in any).  A durable sink rolls its transaction  *)
(* back and forgets it.                                                    *)
CloseSink(s) ==
  /\ pc # "down" /\ closing /\ s \notin closed
  /\ closed' = closed \cup {s}
  /\ pend' = IF s \in Durable THEN [pend EXCEPT ![s] = <<>>] ELSE pend
  /\ UNCHANGED <<head, cp, until, streamVars, handlerVars, meta, active, targetVars, overtaken, strayed, gap, faults>>

-----------------------------------------------------------------------------
(* Ends of a subscription *)

KeepsSkips == txnOpen' = FALSE /\ txnHasWrites' = FALSE /\ UNCHANGED sinkSkipApply   \* mutant
resetTxnState == txnOpen' = FALSE /\ sinkSkipApply' = {} /\ txnHasWrites' = FALSE

(* abortSinkTransaction *)
DropOpen == active' = {} /\ pend' = [s \in Sinks |-> <<>>]

(* Start returns; a task whose catch-up is done goes on without a bound.   *)
Ends ==
  /\ pc' = "down"
  /\ until' = (IF catchUpDone /\ ~closing THEN 0 ELSE until)
  /\ cancelled' = FALSE /\ closing' = FALSE /\ catchUpDone' = FALSE
  /\ ev' = 0 /\ at' = 0 /\ closed' = {}
  /\ resetTxnState /\ DropOpen

Crash ==
  /\ pc # "down"
  /\ Fault("crash")
  /\ pc' = "down"
  /\ cancelled' = FALSE /\ closing' = FALSE /\ catchUpDone' = FALSE
  /\ ev' = 0 /\ at' = 0 /\ closed' = {}
  /\ resetTxnState /\ DropOpen
  /\ UNCHANGED <<head, cp, until, meta, targetVars, overtaken, strayed, gap>>

(* RunFrom returns: the canal was closed, or the connection broke.         *)
StreamEnds ==
  /\ pc = "boundary"
  /\ \/ closing /\ UNCHANGED faults
     \/ Fault("read")
  /\ Ends
  /\ UNCHANGED <<head, cp, meta, targetVars, overtaken, strayed, gap>>

-----------------------------------------------------------------------------
(* IncrementalSyncService.Start *)

Reached(p) == until # 0 /\ p >= until

(* PrepareTables is called for one source database after the other, in the *)
(* order of a Go map; the first call fixes the schema of the mark table.   *)
PrepareTables == meta' \in [Durable -> Schemas]

(* A checkpoint that cannot be read is only logged; the subscriber then    *)
(* starts at the source's current position.                                *)
Start ==
  /\ pc = "down" /\ ~Reached(cp)
  /\ PrepareTables
  /\ \/ at' = cp /\ UNCHANGED <<gap, faults>>
     \/ Fault("cpread") /\ at' = head /\ gap' = TRUE
  /\ pc' = "boundary"
  /\ UNCHANGED <<head, cp, until, cancelled, closing, catchUpDone, ev, handlerVars, openVars, targetVars, closeVars>>

AlreadySatisfied ==
  /\ pc = "down" /\ Reached(cp)
  /\ until' = 0
  /\ UNCHANGED <<head, cp, streamVars, handlerVars, meta, openVars, targetVars, closeVars, gap, faults>>

-----------------------------------------------------------------------------
(* A source transaction: its events, then its commit *)

n == at + 1   \* the transaction the stream is at

(* The rows are buffered up to the commit event; only then they are        *)
(* dispatched.                                                             *)
OnXID ==
  /\ pc = "boundary" /\ at < head
  /\ pc' = IF Size[n] = 0 THEN "commit" ELSE "write"
  /\ ev' = 0
  /\ UNCHANGED <<head, cp, until, cancelled, closing, catchUpDone, at, handlerVars, meta, openVars, targetVars, closeVars, gap, faults>>

NeverApplied(s) == FALSE                      \* mutant: the mark is not read
AppliedOffByOne(s) == mark[s][meta[s]] >= n - 1   \* mutant
HasAppliedTxn(s) == mark[s][meta[s]] >= n

(* ensureSinkTransaction: which sinks have the transaction already, and a  *)
(* transaction in each of the others.                                      *)
Skipped ==
  IF txnOpen THEN sinkSkipApply ELSE sinkSkipApply \cup {s \in Durable : HasAppliedTxn(s)}

(* An insert does not look at the context; a closed durable sink takes it  *)
(* while its connection lasts, outside of a transaction, and writes it at  *)
(* its next flush or never.                                                *)
Strays(e) == strayed' \in {strayed, strayed \cup {e}}

OnEvent ==
  /\ pc = "write" /\ ev < Size[n]
  /\ ~cancelled \/ txnOpen \/ Durable = {}
  /\ closed \subseteq Skipped \cup Durable
  /\ sinkSkipApply' = Skipped
  /\ active' = Sinks \ Skipped
  /\ txnOpen' = TRUE
  /\ pend' = [s \in Sinks |-> IF s \in Skipped \cup closed THEN pend[s] ELSE Append(pend[s], EventsOf(n)[ev + 1])]
  /\ IF closed \subseteq Skipped THEN UNCHANGED strayed ELSE Strays(EventsOf(n)[ev + 1])
  /\ txnHasWrites' = (txnHasWrites \/ Skipped # Sinks)
  /\ ev' = ev + 1
  /\ pc' = IF ev + 1 = Size[n] THEN "commit" ELSE "write"
  /\ UNCHANGED <<head, cp, until, cancelled, closing, catchUpDone, at, meta, targetVars, closed, overtaken, gap, faults>>

OnEventFails ==
  /\ pc = "write"
  /\ Breaks("sink")
  /\ IF closed \subseteq Skipped THEN UNCHANGED strayed ELSE Strays(EventsOf(n)[ev + 1])
  /\ Ends
  /\ UNCHANGED <<head, cp, meta, targetVars, overtaken, gap>>

EmptyIsIgnored ==   \* mutant: a transaction without events is only passed over
  /\ pc = "commit" /\ (~txnHasWrites \/ sinkSkipApply = Sinks)
  /\ DropOpen /\ resetTxnState
  /\ pc' = "boundary" /\ at' = n
  /\ UNCHANGED <<head, cp, until, cancelled, closing, catchUpDone, ev, meta, targetVars, closeVars, gap, faults>>

(* OnTransactionCommit without anything to commit.                         *)
NothingToCommit ==
  /\ pc = "commit" /\ (~txnHasWrites \/ sinkSkipApply = Sinks)
  /\ DropOpen
  /\ pc' = "save"
  /\ UNCHANGED <<head, cp, until, cancelled, closing, catchUpDone, at, ev, handlerVars, meta, targetVars, closeVars, gap, faults>>

(* Every sink flushes; a durable one then puts the position into its open  *)
(* transaction, which needs that transaction and a context that is alive.  *)
FlushAndMark ==
  /\ pc = "commit" /\ txnHasWrites /\ sinkSkipApply # Sinks
  /\ active \cap Durable # {} => ~cancelled /\ active \cap Durable \cap closed = {}
  /\ pc' = "marked"
  /\ UNCHANGED <<head, cp, until, cancelled, closing, catchUpDone, at, ev, handlerVars, meta, openVars, targetVars, closeVars, gap, faults>>

AnyOrder(s) == TRUE     \* mutant
MayCommit(s) == s \in Durable => active \cap Plain = {}

Committing(s) == pc = "marked" /\ s \in active /\ MayCommit(s)

Advances(s) ==
  /\ active' = active \ {s}
  /\ pend' = [pend EXCEPT ![s] = <<>>]
  /\ pc' = IF active = {s} THEN "save" ELSE "marked"

(* What a committed transaction leaves at a sink.                          *)
Commits(s) ==
  /\ out' = [out EXCEPT ![s] = @ \o pend[s]]
  /\ mark' = IF s \in Durable THEN [mark EXCEPT ![s][meta[s]] = n] ELSE mark

CommitTransaction(s) ==
  /\ Committing(s) /\ ~cancelled /\ s \notin closed
  /\ Commits(s)
  /\ Advances(s)
  /\ UNCHANGED <<head, cp, until, cancelled, closing, catchUpDone, at, ev, handlerVars, meta, closeVars, gap, faults>>

(* A durable sink that was closed has no transaction left, and reports     *)
(* none to commit as a success.                                            *)
CommitsNothing(s) ==
  /\ Committing(s) /\ s \in Durable \cap closed
  /\ overtaken' = overtaken \cup {n}
  /\ Advances(s)
  /\ UNCHANGED <<head, cp, until, cancelled, closing, catchUpDone, at, ev, handlerVars, meta, targetVars, closed, strayed, gap, faults>>

SwallowsError(s) ==    \* mutant: the error is logged and the loop goes on
  /\ Committing(s) /\ Fault("commit")
  /\ Advances(s)
  /\ UNCHANGED <<head, cp, until, cancelled, closing, catchUpDone, at, ev, handlerVars, meta, out, mark, closeVars, gap>>

(* The subsequences of q.                                                  *)
Parts(q) ==
  UNION {{[i \in 1..k |-> q[f[i]]] : f \in {g \in [1..k -> 1..Len(q)] : \A i, j \in 1..k : i < j => g[i] < g[j]}}
           : k \in 0..Len(q)}

(* A commit that fails may have happened; Kafka and a webhook may have got *)
(* some of the events.  One of those that was closed has no client left,   *)
(* and takes the process with it.                                          *)
CommitFails(s) ==
  /\ Committing(s) /\ Breaks("commit") /\ s \notin Durable \cap closed
  /\ \/ UNCHANGED targetVars
     \/ s \in Durable /\ Commits(s)
     \/ /\ s \in Plain /\ UNCHANGED mark
        /\ \E part \in Parts(pend[s]) : out' = [out EXCEPT ![s] = @ \o part]
  /\ Ends
  /\ UNCHANGED <<head, cp, meta, overtaken, strayed, gap>>

FlushOrMarkFails ==
  /\ pc = "commit" /\ txnHasWrites /\ sinkSkipApply # Sinks
  /\ Breaks("sink")
  /\ Ends
  /\ UNCHANGED <<head, cp, meta, targetVars, overtaken, strayed, gap>>

NoFinish == UNCHANGED <<cancelled, catchUpDone>>
DoneButNotCancelled ==   \* mutant
  IF Reached(n) THEN catchUpDone' = TRUE /\ UNCHANGED cancelled ELSE NoFinish
maybeFinishCatchUp ==
  IF Reached(n) THEN catchUpDone' = TRUE /\ cancelled' = TRUE ELSE NoFinish

SaveCheckpoint ==
  /\ pc = "save"
  /\ cp' = n /\ at' = n
  /\ maybeFinishCatchUp
  /\ resetTxnState
  /\ pc' = "boundary"
  /\ UNCHANGED <<head, until, closing, ev, meta, openVars, targetVars, closeVars, gap, faults>>

SaveFails ==
  /\ pc = "save"
  /\ Fault("save")
  /\ Ends
  /\ UNCHANGED <<head, cp, meta, targetVars, overtaken, strayed, gap>>

-----------------------------------------------------------------------------
ServiceStep ==
  \/ OnXID \/ OnEvent \/ OnEventFails
  \/ NothingToCommit \/ FlushAndMark \/ FlushOrMarkFails \/ SaveCheckpoint \/ SaveFails
  \/ \E s \in Sinks : CommitTransaction(s) \/ CommitsNothing(s) \/ CommitFails(s)
  \/ StreamEnds

Next ==
  \/ ServiceStep \/ Start \/ AlreadySatisfied
  \/ Stop \/ \E s \in Sinks : CloseSink(s)
  \/ Crash \/ SourceCommits

Spec == Init /\ [][Next]_vars

(* The goroutine in Start keeps running, and the task is started.          *)
FairSpec == Spec /\ WF_vars(ServiceStep) /\ WF_vars(Start \/ AlreadySatisfied)

-----------------------------------------------------------------------------
(* Properties *)

EventSet == UNION {{<<t, i>> : i \in 1..Size[t]} : t \in Transactions}
Delivered(s) == ToSet(out[s])

(* Types.  Between two transactions nothing of the last one is left over:  *)
(* no open sink transaction and no sink still skipped.                     *)
TypeOK ==
  /\ head \in 0..MaxHead /\ cp \in 0..MaxHead /\ until \in {0, Until} /\ at \in 0..MaxHead
  /\ pc \in {"down", "boundary", "write", "commit", "marked", "save"}
  /\ cancelled \in BOOLEAN /\ closing \in BOOLEAN /\ catchUpDone \in BOOLEAN /\ gap \in BOOLEAN
  /\ ev \in Nat /\ faults \in 0..MaxFaults
  /\ txnOpen \in BOOLEAN /\ txnHasWrites \in BOOLEAN /\ sinkSkipApply \subseteq Durable
  /\ meta \in [Durable -> Schemas] /\ mark \in [Durable -> [Schemas -> 0..MaxHead]]
  /\ pend \in [Sinks -> Seq(EventSet)] /\ out \in [Sinks -> Seq(EventSet)] /\ active \subseteq Sinks
  /\ closed \subseteq Sinks /\ overtaken \subseteq Transactions /\ strayed \subseteq EventSet
  /\ pc \in {"down", "boundary"} =>
       ~txnOpen /\ ~txnHasWrites /\ sinkSkipApply = {} /\ active = {} /\ \A s \in Sinks : pend[s] = <<>>

(* A durable sink lacks a transaction that a stop rolled back under the    *)
(* handler's commit of it.                                                 *)
Overtaken(s, t) == s \in Durable /\ t \in overtaken

(* Every event up to the checkpoint has reached every sink, at least once, *)
(* through errors at any point, crashes and restarts (OnTransactionCommit  *)
(* commits, then saves).  Excepted: a subscription that could not read its *)
(* checkpoint, and a commit that a stop overtook at a durable sink; see    *)
(* CommittedBeforeSaved.                                                   *)
NothingSkipped ==
  gap \/ \A t \in 1..cp, s \in Sinks : Overtaken(s, t) \/ ToSet(EventsOf(t)) \subseteq Delivered(s)

(* sync_service.go: the target's transaction is committed before the       *)
(* checkpoint moves, or data are lost.  A stop may close the sink between  *)
(* MarkAppliedTxn and the commit, which then commits nothing.              *)
CommittedBeforeSaved ==
  gap \/ \A t \in 1..cp, s \in Sinks : ToSet(EventsOf(t)) \subseteq Delivered(s)

(* sync_service.go: HasAppliedTxn keeps the replay from inserting twice.   *)
(* What a closed sink wrote outside of a transaction no mark covers.       *)
InsertedOnce == \A s \in Durable : strayed \cap Delivered(s) = {}

(* A durable sink commits last: what its mark covers the other sinks have. *)
MarkMeansDelivered ==
  gap \/ \A d \in Durable, m \in Schemas, s \in Plain :
           \A t \in 1..mark[d][m] : ToSet(EventsOf(t)) \subseteq Delivered(s)

(* A sink that has committed an event of a transaction has committed every *)
(* event of the earlier ones before it, whatever was sent again, but those *)
(* whose commit a stop overtook there.                                     *)
TransactionsInOrder ==
  gap \/ \A s \in Sinks : \A k \in 1..Len(out[s]) : \A t \in 1..(out[s][k][1] - 1) :
           Overtaken(s, t) \/ ToSet(EventsOf(t)) \subseteq {out[s][j] : j \in 1..(k - 1)}

(* Once the catch-up has reached its position nothing more is delivered by *)
(* it (maybeFinishCatchUp cancels the context the sinks work under).       *)
CatchUpStops == [][catchUpDone => out' = out]_vars

(* No event is committed twice at a durable sink: the mark that is         *)
(* committed with a transaction keeps its replay out (HasAppliedTxn).      *)
NoDuplicate == \A s \in Durable : Cardinality(Delivered(s)) = Len(out[s])

(* What the durable sinks commit follows the abstract log: whole           *)
(* transactions, in order, once, none left out but an overtaken one.       *)
LastMark(s) == CHOOSE t \in 0..MaxHead : (\E m \in Schemas : mark[s][m] = t) /\ \A m \in Schemas : mark[s][m] <= t
Log == INSTANCE TransactionLog WITH
         Targets <- Durable, log <- [s \in Durable |-> out[s]], applied <- [s \in Durable |-> LastMark(s)],
         missed <- overtaken
ExactlyOnce == Log!Spec

(* Every commit of the source is in the end covered by the checkpoint, as  *)
(* long as an ended subscription is started again and none was started     *)
(* without its checkpoint: no error leaves the stream stuck.               *)
StreamDrains == <>[](cp = head \/ gap)

(* "stops normally once the commit position reaches or exceeds the bound"  *)
(* (UntilPosition of SyncConfig).                                          *)
CatchUpEnds == catchUpDone ~> pc = "down"
=============================================================================
