------------------------ MODULE MCFullLoadPipeline ------------------------
(* FullLoadPipeline on one and two tables; see the .cfg files. *)
EXTENDS FullLoadPipeline, TLC

CONSTANTS ta, tb, c1, c2

OneTable == (c1 :> ta) @@ (c2 :> ta)
TwoTables == (c1 :> ta) @@ (c2 :> tb)
TwoEach == (c1 :> 2) @@ (c2 :> 2)
TwoAndOne == (c1 :> 2) @@ (c2 :> 1)
LightA == ta :> 1
LightAB == (ta :> 1) @@ (tb :> 1)
HeavyB == (ta :> 1) @@ (tb :> 3)
============================================================================
