---------------------------- MODULE RiskScoring ----------------------------
(***************************************************************************)
(* The scoring of an order by shared-security's TransactionSecurityService *)
(* (validateTransaction, its six checks, calculateOverallRiskScore and     *)
(* makeSecurityDecision) and the part of PaymentSecurityGateway that turns *)
(* the action into "approved or not".                                      *)
(*                                                                         *)
(* What the six checks read is abstracted to a record of evidence:         *)
(*   device    the User-Agent: "known", "unknown" (empty or curl), "none"  *)
(*   ip        the address: "plain", "suspicious" (two private prefixes),  *)
(*             "none"                                                      *)
(*   hashBad   how many order items fail the product-hash comparison       *)
(*   priceBad  how many order items fail the price comparison              *)
(*   totalOff  the recomputed total differs from the order's by more than  *)
(*             the tolerance                                               *)
(*   high      the order's total exceeds HIGH_VALUE_THRESHOLD              *)
(* The user id and the session id are never null when the controller calls *)
(* the gate, and isDuplicateTransaction, getRecentFailedAttempts and       *)
(* getRecentOrderCount are stubs with constant answers.                    *)
(***************************************************************************)
EXTENDS Integers

Evidence ==
    [device : {"known", "unknown", "none"}, ip : {"plain", "suspicious", "none"},
     hashBad : Nat, priceBad : Nat, totalOff : BOOLEAN, high : BOOLEAN]

Penalty(condition, points) == IF condition THEN points ELSE 0

AtLeastZero(score) == IF score < 0 THEN 0 ELSE score

(* The stubs of the service. *)
RecentFailedAttempts == 0
RecentOrderCount == 1
DuplicateTransaction == FALSE

UserScore(e) ==
    AtLeastZero(100 - Penalty(e.device # "known", 20)
                    - Penalty(e.ip = "suspicious", 25)
                    - Penalty(RecentFailedAttempts > 3, 30))

SessionScore(e) ==
    AtLeastZero(100 - Penalty(e.ip = "none" \/ e.device = "none", 40))

(* Mutant of ProductScore: the penalty is taken once, not for each item. *)
ProductScoreOnce(e) == AtLeastZero(100 - Penalty(e.hashBad > 0, 40))

ProductScore(e) == AtLeastZero(100 - 40 * e.hashBad)

(* Unlike the others this score is not clamped at zero. *)
PriceScore(e) == IF e.totalOff THEN 0 ELSE 100 - 40 * e.priceBad

StatusScore(e) == AtLeastZero(100 - Penalty(DuplicateTransaction, 40))

FraudScore(e) ==
    AtLeastZero(100 - Penalty(e.high, 15) - Penalty(RecentOrderCount > 5, 30))

(***************************************************************************)
(* Math.round of the weighted sum: round half up, which \div (floor        *)
(* division) of the sum in hundredths plus one half computes exactly. The  *)
(* reachable sums never end in .50, so the double arithmetic of the source *)
(* cannot round differently.                                               *)
(***************************************************************************)
OverallScore(e) ==
    (25 * UserScore(e) + 15 * SessionScore(e) + 20 * ProductScore(e)
       + 25 * PriceScore(e) + 10 * StatusScore(e) + 5 * FraudScore(e) + 50) \div 100

BandAction(score) ==
    CASE score >= 80                -> "APPROVE"
      [] score >= 60 /\ score < 80  -> "APPROVE_WITH_MONITORING"
      [] score >= 40 /\ score < 60  -> "REQUIRE_ADDITIONAL_AUTH"
      [] score >= 20 /\ score < 40  -> "FLAG_FOR_REVIEW"
      [] score < 20                 -> "BLOCK"

(* Mutant of SecurityDecision: large totals are decided by the band alone. *)
SecurityDecisionByBand(e) == BandAction(OverallScore(e))

(* makeSecurityDecision: the band's action, overridden for large totals. *)
SecurityDecision(e) ==
    LET score == OverallScore(e)
    IN  IF e.high /\ score < 90 THEN "REQUIRE_ADDITIONAL_AUTH" ELSE BandAction(score)

(* processSecurityDecision: the actions that let the order through. *)
GateApproves(action) == action \in {"APPROVE", "APPROVE_WITH_MONITORING"}
=============================================================================
