------------------------------- MODULE MCHarbor -------------------------------
(* Harbor with two transactions: one of two sends, and one without any. *)
EXTENDS Harbor

CONSTANTS t1, t2, s1

MCTxSends == {<<t1, 1>>, <<t1, 2>>}
=============================================================================
