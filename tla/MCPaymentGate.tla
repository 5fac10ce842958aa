--------------------------- MODULE MCPaymentGate ----------------------------
(***************************************************************************)
(* An instance of PaymentGate for TLC: two requests of one user and total, *)
(* and four calls, one more than a challenge has attempts.                 *)
(***************************************************************************)
EXTENDS PaymentGate, TLC

CONSTANTS k1, r1, r2, v1, v2, v3, v4

OneKey == [r \in Requests |-> k1]

Symmetry == Permutations(Calls)
=============================================================================
