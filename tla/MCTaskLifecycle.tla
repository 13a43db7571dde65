-------------------------- MODULE MCTaskLifecycle --------------------------
(* TaskLifecycle on one or two tables and a few starts; see the .cfg files. *)
EXTENDS TaskLifecycle, TLC

TableSymmetry == Permutations(Tables)
=============================================================================
