--------------------------- MODULE MCCheckoutPage ---------------------------
(***************************************************************************)
(* Instances of CheckoutPage for TLC: one customer, one price.             *)
(***************************************************************************)
EXTENDS CheckoutPage, TLC

CONSTANTS an, p1, p2, r1, r2, t1, t2, c1

OneSender == [r \in Requests |-> an]
Browser == {[device |-> "known", ip |-> "plain"]}

(* One customer sends all requests. *)
Symmetry == Permutations(Requests)
=============================================================================
