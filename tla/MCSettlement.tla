---------------------------- MODULE MCSettlement ----------------------------
(***************************************************************************)
(* Instances of Settlement for TLC: several payments for one order, as     *)
(* retries are, beside a payment for another.                              *)
(***************************************************************************)
EXTENDS Settlement

CONSTANTS o1, o2, t1, t2, t3

RetriedOrder == [t \in Payments |-> IF t = t3 THEN o2 ELSE o1]
=============================================================================
