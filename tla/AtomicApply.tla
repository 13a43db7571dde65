---------------------------- MODULE AtomicApply ----------------------------
(***************************************************************************)
(* What the write side of a full load promises to the rest of the system:  *)
(* a group of batches becomes visible on the target in one step, no batch  *)
(* becomes visible twice, and progress (the onCommit callback, the table   *)
(* completion tracker) is advanced for a batch only when it is visible.    *)
(* Nothing here speaks of connections, transactions or markers: WriterTx   *)
(* is the protocol that implements this.                                   *)
(***************************************************************************)
EXTENDS Integers

CONSTANT Batches   \* the row batches of one full load

VARIABLES
  store,   \* store[b]: how many times the rows of b are on the target
  acked    \* the batches counted in the task's progress

vars == <<store, acked>>

Absent == {b \in Batches : store[b] = 0}

Init ==
  /\ store = [b \in Batches |-> 0]
  /\ acked = {}

(* A transaction: some batches that were not there appear together. *)
Apply(S) ==
  /\ S # {}
  /\ S \subseteq Absent
  /\ store' = [b \in Batches |-> IF b \in S THEN store[b] + 1 ELSE store[b]]
  /\ UNCHANGED acked

(* Progress is counted for batches that are there, once each. *)
Ack(S) ==
  /\ S # {}
  /\ S \cap (Absent \cup acked) = {}
  /\ acked' = acked \cup S
  /\ UNCHANGED store

Next == \E S \in SUBSET Batches : Apply(S) \/ Ack(S)

Spec == Init /\ [][Next]_vars
=============================================================================
