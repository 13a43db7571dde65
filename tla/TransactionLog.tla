-------------------------- MODULE TransactionLog --------------------------
(***************************************************************************)
(* What an incremental stream promises about the targets that keep their   *)
(* position: the source's transactions arrive whole, in the source's       *)
(* order, none twice and none left out.  Two things may leave some out: a  *)
(* stream that lost its position (gap), and a commit that did not happen   *)
(* and was not noticed (missed), before anything later has arrived.        *)
(***************************************************************************)
EXTENDS Integers, Sequences

CONSTANTS
  Targets,
  MaxHead,  \* the source's transactions are 1..MaxHead
  Size      \* how many events of the task's tables a transaction has

VARIABLES
  log,      \* the events a target has taken, in order
  applied,  \* the last transaction among them
  missed,   \* transactions that were taken for delivered
  gap

vars == <<log, applied, missed, gap>>

EventsOf(t) == [i \in 1..Size[t] |-> <<t, i>>]

Init ==
  /\ log = [d \in Targets |-> <<>>]
  /\ applied = [d \in Targets |-> 0]
  /\ missed = {} /\ gap = FALSE

Deliver(d, t) ==
  /\ t > applied[d] /\ Size[t] > 0
  /\ gap \/ \A u \in (applied[d] + 1)..(t - 1) : Size[u] = 0 \/ u \in missed
  /\ log' = [log EXCEPT ![d] = @ \o EventsOf(t)]
  /\ applied' = [applied EXCEPT ![d] = t]
  /\ UNCHANGED <<missed, gap>>

Miss(t) ==
  /\ Size[t] > 0 /\ \A d \in Targets : applied[d] < t
  /\ missed' = missed \cup {t}
  /\ UNCHANGED <<log, applied, gap>>

LosePosition == ~gap /\ gap' = TRUE /\ UNCHANGED <<log, applied, missed>>

Next ==
  \/ LosePosition \/ \E t \in 1..MaxHead : Miss(t)
  \/ \E d \in Targets, t \in 1..MaxHead : Deliver(d, t)

Spec == Init /\ [][Next]_vars
=============================================================================
