-------------------------- MODULE MCLegacyFullLoad --------------------------
(* LegacyFullLoad on two tables: one that several workers read by ranges   *)
(* or samples, one without a key that a single worker streams.             *)
EXTENDS LegacyFullLoad, TLC

CONSTANTS ui, pk2, ix, au

(* Table 1 is created by the run; table 2 exists, with an index of its own.*)
Source == (1 :> {ui, pk2, ix, au}) @@ (2 :> {ui})
Own == (1 :> {}) @@ (2 :> {ui, ix, au})
Types == (ui :> 1) @@ (pk2 :> 1) @@ (ix :> 2) @@ (au :> 1)
RowsOf == (1 :> {1, 2, 4, 5}) @@ (2 :> {1, 2})
KeyOf == (1 :> "numeric") @@ (2 :> "none")
Rows4 == (1 :> 5) @@ (2 :> 2)

Conf(a, o, d) == [all |-> a, optimize |-> o, drop |-> d]
FourConfigs == {Conf(TRUE, FALSE, FALSE), Conf(TRUE, TRUE, TRUE),
                Conf(FALSE, TRUE, FALSE), Conf(FALSE, FALSE, TRUE)}
PlainFull == {Conf(FALSE, FALSE, TRUE)}
=============================================================================
