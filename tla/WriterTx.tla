------------------------------ MODULE WriterTx ------------------------------
(***************************************************************************)
(* One writer goroutine of the full-load engine and the target server it   *)
(* talks to (src/internal/sync/fullload/writer.go, tx_marker.go).          *)
(*                                                                         *)
(* The writer takes batches from the queue, writes several of them in one  *)
(* transaction and commits.  Rows are written with a plain INSERT, so a    *)
(* batch that is written twice is duplicated (or fails on the key).  The   *)
(* connection may break at any point:                                      *)
(*   - before COMMIT was sent, the server rolls the transaction back and   *)
(*     the writer writes every batch of it again on a new connection;      *)
(*   - while COMMIT is in flight the outcome is unknown.  The transaction  *)
(*     then holds, besides its rows, a marker row with an id of its own;   *)
(*     the writer reads that row FOR UPDATE on a new connection, which     *)
(*     waits until the server has decided, and reports or replays.         *)
(*                                                                         *)
(* Retries inside replayInFreshTx leave every variable as it was (the      *)
(* attempt is rolled back), so they are stuttering steps here.             *)
(***************************************************************************)
EXTENDS Integers

CONSTANTS
  Batches,         \* the batches that reach this writer
  NoBatch,         \* "no batch in hand"
  MaxConnRetries   \* writeConnMaxRetries (5 in the code)

ASSUME WriterTxAssumption ==
  /\ NoBatch \notin Batches
  /\ MaxConnRetries \in Nat

VARIABLES
  \* the writer
  pc,          \* where writerLoop / commit() is
  todo,        \* batches the queue will still deliver
  cur,         \* the batch taken from the queue and not yet written
  buf,         \* batches of the current transaction (buf, or pending in commit())
  open,        \* tx # nil
  marker,      \* txMarkerID of the current transaction
  recoveries,  \* commitRecoveries: unknown commits in a row
  attempt,     \* reconnects of the running retry loop
  recommit,    \* the replay was started by commit(), which commits again
  acked,       \* batches reported by reportCommitted
  nextId,      \* newTxMarkerID never returns an id twice
  \* the target server
  sess,        \* rows of the transaction open on the writer's session
  doubt,       \* a transaction whose COMMIT was sent on a connection that broke
  store,       \* store[b]: how many times the rows of b are on the target
  markers      \* ids of the committed marker rows

writerVars == <<pc, todo, cur, buf, open, marker, recoveries, attempt, recommit, acked, nextId>>
serverVars == <<sess, doubt, store, markers>>
vars == <<writerVars, serverVars>>

NoDoubt == [pending |-> FALSE, rows |-> {}, id |-> 0]

(* The server makes the rows of S and the marker row visible in one step. *)
Visible(S, id) ==
  /\ store' = [b \in Batches |-> IF b \in S THEN store[b] + 1 ELSE store[b]]
  /\ markers' = markers \cup {id}

Init ==
  /\ pc = "loop"
  /\ todo = Batches
  /\ cur = NoBatch
  /\ buf = {}
  /\ open = FALSE
  /\ marker = 0
  /\ recoveries = 0
  /\ attempt = 0
  /\ recommit = FALSE
  /\ acked = {}
  /\ nextId = 1
  /\ sess = {}
  /\ doubt = NoDoubt
  /\ store = [b \in Batches |-> 0]
  /\ markers = {}

-----------------------------------------------------------------------------
(* The loop: take a batch, open a transaction when there is none, write.   *)

(* GetUntil delivers a batch. *)
TakeBatch(b) ==
  /\ pc = "loop"
  /\ b \in todo
  /\ todo' = todo \ {b}
  /\ cur' = b
  /\ attempt' = 0
  /\ pc' = IF open THEN "write" ELSE "begin"
  /\ UNCHANGED <<buf, open, marker, recoveries, recommit, acked, nextId, serverVars>>

(* beginTx: every attempt allocates a fresh marker id. *)
BeginOK ==
  /\ pc = "begin"
  /\ open' = TRUE
  /\ marker' = nextId
  /\ nextId' = nextId + 1
  /\ sess' = {}
  /\ pc' = "write"
  /\ UNCHANGED <<todo, cur, buf, recoveries, attempt, recommit, acked, doubt, store, markers>>

BeginRetry ==
  /\ pc = "begin"
  /\ attempt < MaxConnRetries
  /\ attempt' = attempt + 1
  /\ nextId' = nextId + 1
  /\ UNCHANGED <<pc, todo, cur, buf, open, marker, recoveries, recommit, acked, serverVars>>

WriteOK ==
  /\ pc = "write"
  /\ buf' = buf \cup {cur}
  /\ sess' = sess \cup {cur}
  /\ cur' = NoBatch
  /\ pc' = "loop"
  /\ UNCHANGED <<todo, open, marker, recoveries, attempt, recommit, acked, nextId, doubt, store, markers>>

RequeueBatch ==
  /\ pc = "write"
  /\ todo' = todo \cup {cur}
  /\ cur' = NoBatch
  /\ open' = FALSE
  /\ sess' = {}
  /\ attempt' = 0
  /\ recommit' = FALSE
  /\ pc' = "replay"
  /\ UNCHANGED <<buf, marker, recoveries, acked, nextId, doubt, store, markers>>

(* A lock conflict or a broken connection: roll back, and replay buf and the
   batch in hand.  The marker id is kept, its row was never inserted. *)
WriteRetryable ==
  /\ pc = "write"
  /\ buf' = buf \cup {cur}
  /\ cur' = NoBatch
  /\ open' = FALSE
  /\ sess' = {}
  /\ attempt' = 0
  /\ recommit' = FALSE
  /\ pc' = "replay"
  /\ UNCHANGED <<todo, marker, recoveries, acked, nextId, doubt, store, markers>>

(* replayAfterFailure / replayInFreshTx write every batch in a fresh
   transaction.  Started by commit(), it takes a new marker id and commits. *)
ReplayOK ==
  /\ pc = "replay"
  /\ open' = TRUE
  /\ sess' = buf
  /\ IF recommit
       THEN marker' = nextId /\ nextId' = nextId + 1 /\ pc' = "mark"
       ELSE UNCHANGED <<marker, nextId>> /\ pc' = "loop"
  /\ UNCHANGED <<todo, cur, buf, recoveries, attempt, recommit, acked, doubt, store, markers>>

ReplayRetry ==
  /\ pc = "replay"
  /\ attempt < MaxConnRetries
  /\ attempt' = attempt + 1
  /\ UNCHANGED <<pc, todo, cur, buf, open, marker, recoveries, recommit, acked, nextId, serverVars>>

-----------------------------------------------------------------------------
(* commit(). *)

(* An unknown commit is verified and replayed at most writeConnMaxRetries
   times in a row. *)
RecoveryBoundOffByOne == recoveries <= MaxConnRetries
MayRecover == recoveries < MaxConnRetries

(* The verification reads FOR UPDATE: the undecided transaction holds the lock
   on its marker row, so the read returns only when the server has decided. *)
PlainRead == TRUE
LockedRead == ~doubt.pending

AssumeApplied == TRUE
MarkerFound == marker \in markers

(* CommitRows, CommitBytes or CommitInterval reached, another table waits,
   or the queue is closed and empty. *)
CommitDue ==
  /\ pc = "loop"
  /\ open
  /\ pc' = "mark"
  /\ UNCHANGED <<todo, cur, buf, open, marker, recoveries, attempt, recommit, acked, nextId, serverVars>>

(* insertTxMarker inside the transaction, before COMMIT. *)
MarkOK ==
  /\ pc = "mark"
  /\ pc' = "commit"
  /\ UNCHANGED <<todo, cur, buf, open, marker, recoveries, attempt, recommit, acked, nextId, serverVars>>

CommitOK ==
  /\ pc = "commit"
  /\ Visible(sess, marker)
  /\ sess' = {}
  /\ open' = FALSE
  /\ pc' = "report"
  /\ UNCHANGED <<todo, cur, buf, marker, recoveries, attempt, recommit, acked, nextId, doubt>>

(* The connection broke under COMMIT.  The session's transaction is now the
   server's alone to decide.  With the recoveries used up, give up. *)
CommitUnknown ==
  /\ pc = "commit"
  /\ doubt' = [pending |-> TRUE, rows |-> sess, id |-> marker]
  /\ sess' = {}
  /\ open' = FALSE
  /\ IF MayRecover
       THEN recoveries' = recoveries + 1 /\ pc' = "reconnect"
       ELSE UNCHANGED recoveries /\ pc' = "failed"
  /\ UNCHANGED <<todo, cur, buf, marker, attempt, recommit, acked, nextId, store, markers>>

ReconnectOK ==
  /\ pc = "reconnect"
  /\ pc' = "verify"
  /\ UNCHANGED <<todo, cur, buf, open, marker, recoveries, attempt, recommit, acked, nextId, serverVars>>

(* txMarkerApplied. *)
VerifyApplied ==
  /\ pc = "verify"
  /\ LockedRead
  /\ MarkerFound
  /\ recoveries' = 0
  /\ pc' = "report"
  /\ UNCHANGED <<todo, cur, buf, open, marker, attempt, recommit, acked, nextId, serverVars>>

VerifyRolledBack ==
  /\ pc = "verify"
  /\ LockedRead
  /\ ~MarkerFound
  /\ attempt' = 0
  /\ recommit' = TRUE
  /\ pc' = "replay"
  /\ UNCHANGED <<todo, cur, buf, open, marker, recoveries, acked, nextId, serverVars>>

(* reportCommitted: progress, completion tracker, attempt tracker. *)
Report ==
  /\ pc = "report"
  /\ acked' = acked \cup buf
  /\ buf' = {}
  /\ recoveries' = 0
  /\ pc' = "loop"
  /\ UNCHANGED <<todo, cur, open, marker, attempt, recommit, nextId, serverVars>>

-----------------------------------------------------------------------------
(* Ends. *)

(* Any error that is not retried: the open transaction, if there is one, is
   rolled back and the writer returns the error.  At "reconnect" and "verify"
   this is the fail-closed exit of an unknown commit. *)
Fail ==
  /\ pc \in {"begin", "write", "replay", "mark", "commit", "reconnect", "verify"}
  /\ open' = FALSE
  /\ sess' = {}
  /\ pc' = "failed"
  /\ UNCHANGED <<todo, cur, buf, marker, recoveries, attempt, recommit, acked, nextId, doubt, store, markers>>

(* The callback of reportCommitted fails after the rows were counted. *)
ReportFail ==
  /\ pc = "report"
  /\ acked' = acked \cup buf
  /\ buf' = {}
  /\ pc' = "failed"
  /\ UNCHANGED <<todo, cur, open, marker, recoveries, attempt, recommit, nextId, serverVars>>

StopAfterCommit == pc \in {"loop", "report"}
StopSeen == pc = "loop"

(* Pause, stop or cancellation, seen at the top of the loop or after
   GetUntil: rollback(), nothing of the transaction is counted. *)
Stop ==
  /\ StopSeen
  /\ open' = FALSE
  /\ sess' = {}
  /\ buf' = {}
  /\ pc' = "stopped"
  /\ UNCHANGED <<todo, cur, marker, recoveries, attempt, recommit, acked, nextId, doubt, store, markers>>

NoDrainCommit == TRUE
NothingOpen == ~open

(* The queue is closed and drained and nothing is left to commit. *)
Drained ==
  /\ pc = "loop"
  /\ todo = {}
  /\ NothingOpen
  /\ pc' = "done"
  /\ UNCHANGED <<todo, cur, buf, open, marker, recoveries, attempt, recommit, acked, nextId, serverVars>>

-----------------------------------------------------------------------------
(* The server decides the transaction in doubt, at any time. *)

ServerCommits ==
  /\ doubt.pending
  /\ Visible(doubt.rows, doubt.id)
  /\ doubt' = NoDoubt
  /\ UNCHANGED <<writerVars, sess>>

ServerRollsBack ==
  /\ doubt.pending
  /\ doubt' = NoDoubt
  /\ UNCHANGED <<writerVars, sess, store, markers>>

-----------------------------------------------------------------------------
Writer ==
  \/ \E b \in Batches : TakeBatch(b)
  \/ BeginOK \/ BeginRetry
  \/ WriteOK \/ WriteRetryable
  \/ ReplayOK \/ ReplayRetry
  \/ CommitDue \/ MarkOK
  \/ CommitOK \/ CommitUnknown
  \/ ReconnectOK \/ VerifyApplied \/ VerifyRolledBack
  \/ Report \/ ReportFail
  \/ Fail \/ Stop \/ Drained

Server == ServerCommits \/ ServerRollsBack

Next == Writer \/ Server

Spec == Init /\ [][Next]_vars

(* The goroutine keeps running, the queue delivers or is closed, and the
   server decides a transaction whose client is gone. *)
FairSpec == Spec /\ WF_vars(Writer) /\ WF_vars(Server)

-----------------------------------------------------------------------------
PCs == {"loop", "begin", "write", "replay", "mark", "commit", "reconnect",
        "verify", "report", "failed", "stopped", "done"}

(* Types of the variables, with the bounds of the two retry counters: a writer
   never exceeds writeConnMaxRetries reconnects or commit recoveries. *)
TypeOK ==
  /\ pc \in PCs
  /\ todo \subseteq Batches
  /\ cur \in Batches \cup {NoBatch}
  /\ buf \subseteq Batches
  /\ open \in BOOLEAN
  /\ marker \in Nat
  /\ recoveries \in 0..MaxConnRetries
  /\ attempt \in 0..MaxConnRetries
  /\ recommit \in BOOLEAN
  /\ acked \subseteq Batches
  /\ nextId \in Nat
  /\ sess \subseteq Batches
  /\ doubt \in [pending : BOOLEAN, rows : SUBSET Batches, id : Nat]
  /\ store \in [Batches -> Nat]
  /\ markers \subseteq Nat

(* However often the connection breaks, and whatever the server decides about
   a commit in flight and when, no batch is on the target twice. *)
NeverTwice == \A b \in Batches : store[b] <= 1

(* Progress only counts rows that are on the target (commit first, then
   onCommit / OnTableDataReady). *)
AckedIsDurable == \A b \in acked : store[b] = 1

(* A writer that returns without an error after the queue is drained has put
   every batch it was given on the target, and counted it. *)
DoneIsComplete == pc = "done" => acked = Batches /\ \A b \in Batches : store[b] = 1

(* A stopped writer leaves nothing behind that is on the target but not
   counted: pausing between transactions loses no progress. *)
StopIsClean == pc = "stopped" => \A b \in Batches : store[b] = 1 <=> b \in acked

(* Every run of a writer ends: retries are bounded and an unknown commit never
   leaves it waiting for ever. *)
WriterEnds == <>(pc \in {"done", "failed", "stopped"})

Abstract == INSTANCE AtomicApply
ImplementsAtomicApply == Abstract!Spec
=============================================================================
