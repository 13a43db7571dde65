--------------------------- MODULE MCChunkedRead ---------------------------
(* ChunkedRead on a handful of keys; see the .cfg files. *)
EXTENDS ChunkedRead, TLC
============================================================================
