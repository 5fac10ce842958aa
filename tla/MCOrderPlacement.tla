-------------------------- MODULE MCOrderPlacement -------------------------
(***************************************************************************)
(* Instances of OrderPlacement for TLC.  Each configuration picks the sets *)
(* that make its question interesting and keeps the others at one element. *)
(***************************************************************************)
EXTENDS OrderPlacement

CONSTANTS an, bo, p1, p2, p3, r1, r2, r3

(* All requests come from one customer, who double-clicks or retries. *)
OneSender == [r \in Requests |-> an]

(* The last request comes from another customer. *)
TwoSenders == [r \in Requests |-> IF r = r1 THEN an ELSE bo]

Browser == {[device |-> "known", ip |-> "plain"]}
AnyOrigin == {[device |-> "known", ip |-> "plain"], [device |-> "none", ip |-> "suspicious"]}
=============================================================================
