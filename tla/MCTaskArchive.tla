--------------------------- MODULE MCTaskArchive ----------------------------
(* TaskArchive: one task, a worker that reports progress and a comparison. *)
EXTENDS TaskArchive

CONSTANTS w1
=============================================================================
