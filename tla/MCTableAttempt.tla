--------------------------- MODULE MCTableAttempt ---------------------------
(* TableAttempt on a table of two chunks, read by two readers.             *)
EXTENDS TableAttempt, TLC

CONSTANTS r1, r2, w1

OneBatchEach == (1 :> 1) @@ (2 :> 1)
TwoAndOne == (1 :> 2) @@ (2 :> 1)
Symmetric == Permutations(Readers)
=============================================================================
