------------------------- MODULE MCIncrementalSync -------------------------
(* IncrementalSync with MySQL, Kafka and a webhook as sinks; see the .cfg files. *)
EXTENDS IncrementalSync, TLC

CONSTANTS mysql, kafka, webhook

Sizes == (1 :> 2) @@ (2 :> 0) @@ (3 :> 1) @@ (4 :> 1)
SizesOf2 == (1 :> 1) @@ (2 :> 1)
=============================================================================
