-------------------------- MODULE OrderGateProofs --------------------------
(***************************************************************************)
(* What the gate stands for: no large order past it at a price that had    *)
(* changed, no order past it with more findings than the weights allow,    *)
(* and no cart emptied for a request it refused.  None of these depends on *)
(* the size of the connection pool.  First, what the weights and the       *)
(* thresholds of RiskScoring add up to, for every number of items.         *)
(***************************************************************************)
EXTENDS OrderPlacementProofs

(* Every check but the price check scores at most 100 points. *)
LEMMA ScoresBounded ==
  ASSUME NEW e \in Evidence
  PROVE  /\ UserScore(e) \in 0..100 /\ SessionScore(e) \in 0..100
         /\ ProductScore(e) \in 0..100 /\ StatusScore(e) \in 0..100
         /\ FraudScore(e) \in 0..100
         /\ e.high => FraudScore(e) <= 85
<1>1. UserScore(e) \in 0..100
  BY DEF UserScore, AtLeastZero, Penalty, RecentFailedAttempts
<1>2. SessionScore(e) \in 0..100
  BY DEF SessionScore, AtLeastZero, Penalty
<1>3. ProductScore(e) \in 0..100
  BY DEF ProductScore, AtLeastZero, Evidence
<1>4. StatusScore(e) \in 0..100
  BY DEF StatusScore, AtLeastZero, Penalty, DuplicateTransaction
<1>5. FraudScore(e) \in 0..100 /\ (e.high => FraudScore(e) <= 85)
  BY DEF FraudScore, AtLeastZero, Penalty, RecentOrderCount
<1> QED
  BY <1>1, <1>2, <1>3, <1>4, <1>5

(* One changed price costs a large order the ninety points it needs: the best
   it can reach is a weighted sum of 8925 hundredths, which rounds to 89. *)
LEMMA ChangedPriceStopsLargeOrder ==
  ASSUME NEW e \in Evidence, e.priceBad > 0, e.high
  PROVE  ~ GateApproves(SecurityDecision(e))
<1> DEFINE sum == 25 * UserScore(e) + 15 * SessionScore(e) + 20 * ProductScore(e)
                    + 25 * PriceScore(e) + 10 * StatusScore(e) + 5 * FraudScore(e) + 50
<1>1. PriceScore(e) \in Int /\ PriceScore(e) <= 60
  BY DEF PriceScore, Evidence
<1>2. sum \in Int /\ sum <= 8975
  <2>1. /\ UserScore(e) \in Int /\ UserScore(e) <= 100
        /\ SessionScore(e) \in Int /\ SessionScore(e) <= 100
        /\ ProductScore(e) \in Int /\ ProductScore(e) <= 100
        /\ StatusScore(e) \in Int /\ StatusScore(e) <= 100
        /\ FraudScore(e) \in Int /\ FraudScore(e) <= 85
    BY ScoresBounded
  <2> QED
    BY <1>1, <2>1
<1>3. OverallScore(e) = sum \div 100
  BY DEF OverallScore
<1>4. OverallScore(e) \in Int /\ OverallScore(e) < 90
  <2> HIDE DEF sum
  <2> QED
    BY <1>2, <1>3
<1>5. SecurityDecision(e) = "REQUIRE_ADDITIONAL_AUTH"
  BY <1>4 DEF SecurityDecision
<1> QED
  BY <1>5 DEF GateApproves

(* What an approved order can have against it at most: a total that is off costs 25
   points, an item with another hash 8 of the 15 that are left, and without that a
   differing price 10 of the 40 that may be lost. *)
LEMMA ApprovalTolerates ==
  ASSUME NEW e \in Evidence, GateApproves(SecurityDecision(e))
  PROVE  IF e.totalOff THEN e.hashBad <= 1 ELSE e.priceBad <= 4
<1> DEFINE sum == 25 * UserScore(e) + 15 * SessionScore(e) + 20 * ProductScore(e)
                    + 25 * PriceScore(e) + 10 * StatusScore(e) + 5 * FraudScore(e) + 50
<1>1. OverallScore(e) = sum \div 100
  BY DEF OverallScore
<1>2. /\ UserScore(e) \in Int /\ UserScore(e) <= 100
      /\ SessionScore(e) \in Int /\ SessionScore(e) <= 100
      /\ ProductScore(e) \in Int /\ ProductScore(e) <= 100
      /\ StatusScore(e) \in Int /\ StatusScore(e) <= 100
      /\ FraudScore(e) \in Int /\ FraudScore(e) <= 100
  BY ScoresBounded
<1>3. PriceScore(e) \in Int
  BY DEF PriceScore, Evidence
<1>4. sum >= 6000
  <2>1. sum \in Int
    BY <1>2, <1>3
  <2> HIDE DEF sum
  <2>2. OverallScore(e) \in Int
    BY <1>1, <2>1
  <2>3. OverallScore(e) >= 60
    BY <2>2 DEF GateApproves, SecurityDecision, BandAction
  <2> QED
    BY <1>1, <2>1, <2>3
<1>5. CASE e.totalOff
  <2>1. PriceScore(e) = 0
    BY <1>5 DEF PriceScore
  <2>2. ProductScore(e) >= 23
    BY <1>2, <1>4, <2>1
  <2>3. e.hashBad \in Nat /\ ProductScore(e) = IF 100 - 40 * e.hashBad < 0
                                                THEN 0 ELSE 100 - 40 * e.hashBad
    BY DEF Evidence, ProductScore, AtLeastZero
  <2> QED
    BY <1>5, <2>2, <2>3
<1>6. CASE ~ e.totalOff
  <2>1. e.priceBad \in Nat /\ PriceScore(e) = 100 - 40 * e.priceBad
    BY <1>6 DEF Evidence, PriceScore
  <2>2. 25 * PriceScore(e) >= -1550
    BY <1>2, <1>3, <1>4
  <2> QED
    BY <1>6, <2>1, <2>2
<1> QED
  BY <1>5, <1>6

-----------------------------------------------------------------------------
BeforeGateReads == {"new", "waiting", "getCart", "fetch", "gate"}
PastGate == {"save", "clearing", "cleared", "ok"}

(* Before its reads the gate has seen nothing of a request: an approval taken
   from the cache finds the evidence of no item. *)
NothingSeenYet ==
  \A r \in Requests :
    pc[r] \in BeforeGateReads => seen[r].priceBad = 0 /\ seen[r].hashBad = 0

(* A clear is on its way only for a request that waits for it or has failed. *)
ClearsArePastGate == \A r \in clears : pc[r] \in {"clearing", "failed"}

GateInv ==
  /\ TypeOK
  /\ NothingSeenYet
  /\ HighValueOrdersAtLivePrice
  /\ ApprovedOrdersAreTolerable
  /\ ClearsArePastGate

(* Initially no request has come to the gate. *)
LEMMA InitGateInv == Init => GateInv
<1> SUFFICES ASSUME Init PROVE GateInv
  OBVIOUS
<1>1. \A r \in Requests : pc[r] = "new" /\ seen[r] = NothingSeen
  BY DEF Init
<1>2. NothingSeenYet
  BY <1>1 DEF NothingSeenYet, NothingSeen
<1>3. HighValueOrdersAtLivePrice
  BY <1>1 DEF HighValueOrdersAtLivePrice
<1>4. ClearsArePastGate
  BY DEF Init, ClearsArePastGate
<1>5. ApprovedOrdersAreTolerable
  BY <1>1 DEF ApprovedOrdersAreTolerable
<1> QED
  BY <1>2, <1>3, <1>4, <1>5, InitTypeOK DEF GateInv

(* The evidence of a typed state is evidence. *)
LEMMA EvidenceTyped ==
  ASSUME TypeOK, NEW r \in Requests
  PROVE  /\ EvidenceOf(r) \in Evidence
         /\ EvidenceOf(r).priceBad = seen[r].priceBad
         /\ EvidenceOf(r).hashBad = seen[r].hashBad
         /\ EvidenceOf(r).high = (total[r] > HighValue)
         /\ EvidenceOf(r).totalOff = (Difference(seen[r].live, total[r]) > Tolerance)
<1>1. seen[r] \in [hashBad : Nat, priceBad : Nat, live : Nat]
  BY DEF TypeOK
<1>2. origin[r].device \in {"known", "unknown", "none"}
      /\ origin[r].ip \in {"plain", "suspicious", "none"}
  <2>1. origin[r] \in Origins
    BY DEF TypeOK
  <2> QED
    BY <2>1, OriginsTyped
<1> DEFINE off == Difference(seen[r].live, total[r]) > Tolerance
           large == total[r] > HighValue
<1>3. off \in BOOLEAN /\ large \in BOOLEAN
  OBVIOUS
<1> HIDE DEF off, large
<1>4. EvidenceOf(r) = [device |-> origin[r].device, ip |-> origin[r].ip,
                       hashBad |-> seen[r].hashBad, priceBad |-> seen[r].priceBad,
                       totalOff |-> off, high |-> large]
  BY DEF EvidenceOf, off, large
<1>5. EvidenceOf(r) \in Evidence
  BY <1>1, <1>2, <1>3, <1>4 DEF Evidence
<1>6. /\ EvidenceOf(r).priceBad = seen[r].priceBad /\ EvidenceOf(r).high = large
      /\ EvidenceOf(r).hashBad = seen[r].hashBad /\ EvidenceOf(r).totalOff = off
  BY <1>4
<1> QED
  BY <1>5, <1>6 DEF large, off

(* A step after which every request is where it was or has not come past the
   gate, and which leaves the evidence alone. *)
LEMMA GateQuietStep ==
  ASSUME GateInv, TypeOK', UNCHANGED <<total, seen>>,
         \A r \in Requests : \/ pc'[r] = pc[r]
                             \/ pc'[r] = "waiting" /\ pc[r] = "new"
                             \/ pc'[r] = "getCart" /\ pc[r] = "waiting"
                             \/ pc'[r] = "fetch" /\ pc[r] = "getCart"
                             \/ pc'[r] = "hash" /\ pc[r] = "gate"
                             \/ pc'[r] = "save" /\ pc[r] = "gate"
                             \/ pc'[r] = "clearing" /\ pc[r] = "save"
                             \/ pc'[r] = "cleared" /\ pc[r] = "clearing"
                             \/ pc'[r] = "ok" /\ pc[r] = "cleared"
                             \/ pc'[r] \in {"refused", "failed"},
         \A r \in clears' : \/ r \in clears /\ pc'[r] \in {pc[r], "failed"}
                            \/ pc'[r] = "clearing"
  PROVE  GateInv'
<1>1. NothingSeenYet'
  BY DEF GateInv, NothingSeenYet, BeforeGateReads
<1>2. HighValueOrdersAtLivePrice'
  BY DEF GateInv, HighValueOrdersAtLivePrice, NothingSeenYet, BeforeGateReads
<1>3. ClearsArePastGate'
  BY DEF GateInv, ClearsArePastGate
<1>4. ApprovedOrdersAreTolerable'
  <2> SUFFICES ASSUME NEW r \in Requests, pc'[r] \in PastGate
               PROVE  IF Difference(seen[r].live, total[r]) > Tolerance
                        THEN seen[r].hashBad <= 1 ELSE seen[r].priceBad <= 4
    BY DEF ApprovedOrdersAreTolerable, PastGate
  <2>1. CASE pc[r] \in PastGate
    BY <2>1 DEF GateInv, ApprovedOrdersAreTolerable, PastGate
  <2>2. CASE pc[r] \notin PastGate
    <3>1. pc[r] = "gate"
      BY <2>2 DEF PastGate
    <3> QED
      BY <3>1 DEF GateInv, NothingSeenYet, BeforeGateReads
  <2> QED
    BY <2>1, <2>2
<1> QED
  BY <1>1, <1>2, <1>3, <1>4 DEF GateInv

(* One request moves one step on, and sends no clear. *)
LEMMA GateQuietMove ==
  ASSUME GateInv, TypeOK', UNCHANGED <<total, seen, clears>>,
         NEW r \in Requests, NEW from, NEW to, Move(r, from, to),
         from \notin {"clearing", "failed"},
         \/ from = "new" /\ to = "waiting"
         \/ from = "waiting" /\ to = "getCart"
         \/ from = "getCart" /\ to = "fetch"
         \/ from = "gate" /\ to \in {"hash", "save"}
         \/ from = "cleared" /\ to = "ok"
         \/ to \in {"refused", "failed"}
  PROVE  GateInv'
<1>1. pc[r] = from /\ \A s \in Requests : pc'[s] = IF s = r THEN to ELSE pc[s]
  BY DEF Move, GateInv, TypeOK
<1>2. r \notin clears /\ \A s \in clears : s \in Requests
  BY <1>1 DEF GateInv, ClearsArePastGate, TypeOK
<1> QED
  BY <1>1, <1>2, GateQuietStep

(* The gate's reads: a request that is still being validated. *)
LEMMA GateReadStep ==
  ASSUME GateInv, TypeOK', NEW r \in Requests, NEW p \in Products, NEW here, NEW next,
         ForItem(r, p, here, next), UNCHANGED clears,
         here \in {"fetch", "hash", "price"}, next \in {"gate", "price", "decide"},
         \A s \in Requests : s # r => seen'[s] = seen[s] /\ total'[s] = total[s],
         here = "fetch" => seen'[r] = seen[r],
         next = "gate" => here = "fetch"
  PROVE  GateInv'
<1>1. pc[r] = here /\ \A s \in Requests : s # r => pc'[s] = pc[s]
  BY DEF ForItem, Move, GateInv, TypeOK
<1>2. pc'[r] \in {here, next}
  BY DEF ForItem, Move, GateInv, TypeOK
<1>3. NothingSeenYet'
  BY <1>1, <1>2 DEF GateInv, NothingSeenYet, BeforeGateReads
<1>4. HighValueOrdersAtLivePrice'
  BY <1>1, <1>2 DEF GateInv, HighValueOrdersAtLivePrice
<1>5. ClearsArePastGate'
  BY <1>1 DEF GateInv, ClearsArePastGate, TypeOK
<1>6. ApprovedOrdersAreTolerable'
  BY <1>1, <1>2 DEF GateInv, ApprovedOrdersAreTolerable
<1> QED
  BY <1>3, <1>4, <1>5, <1>6 DEF GateInv

(* The decision: neither a large total with a changed price nor too many findings
   are approved. *)
LEMMA ApproveKeepsGateInv ==
  ASSUME GateInv, TypeOK', NEW r \in Requests, Approve(r)
  PROVE  GateInv'
<1>1. pc[r] = "decide" /\ \A s \in Requests : pc'[s] = IF s = r THEN "save" ELSE pc[s]
  BY DEF Approve, Move, GateInv, TypeOK
<1>2. UNCHANGED <<total, seen, clears>>
  BY DEF Approve, locals
<1>3. total[r] > HighValue => seen[r].priceBad = 0
  <2>1. seen[r].priceBad \in Nat
    BY DEF GateInv, TypeOK
  <2>2. ASSUME total[r] > HighValue, seen[r].priceBad > 0 PROVE FALSE
    BY <2>2, EvidenceTyped, ChangedPriceStopsLargeOrder DEF Approve, GateInv
  <2> QED
    BY <2>1, <2>2
<1>4. NothingSeenYet'
  BY <1>1, <1>2 DEF GateInv, NothingSeenYet, BeforeGateReads
<1>5. HighValueOrdersAtLivePrice'
  BY <1>1, <1>2, <1>3 DEF GateInv, HighValueOrdersAtLivePrice
<1>6. ClearsArePastGate'
  BY <1>1, <1>2 DEF GateInv, ClearsArePastGate, TypeOK
<1>7. ApprovedOrdersAreTolerable'
  <2>1. IF Difference(seen[r].live, total[r]) > Tolerance
          THEN seen[r].hashBad <= 1 ELSE seen[r].priceBad <= 4
    BY EvidenceTyped, ApprovalTolerates DEF Approve, GateInv
  <2> QED
    BY <1>1, <1>2, <2>1 DEF GateInv, ApprovedOrdersAreTolerable
<1> QED
  BY <1>4, <1>5, <1>6, <1>7 DEF GateInv

(* Every step of order placement keeps the gate's invariant. *)
LEMMA NextGateInv == GateInv /\ [Next]_vars => GateInv'
<1> SUFFICES ASSUME GateInv, [Next]_vars PROVE GateInv'
  OBVIOUS
<1>0. TypeOK' /\ \A r \in clears : r \in Requests
  BY NextTypeOK DEF GateInv, TypeOK
<1>1. ASSUME UNCHANGED <<pc, total, seen>>, clears' \subseteq clears PROVE GateInv'
  BY <1>0, <1>1, GateQuietStep
<1>2. ASSUME \/ \E u \in Users, p \in Products, n \in 1..MaxUnits : AddItem(u, p, n)
             \/ \E u \in Users, p \in Products, n \in 0..MaxUnits : SetQuantity(u, p, n)
             \/ \E u \in Users : EmptyOwnCart(u)
             \/ \E p \in Products, x \in Prices : SetPrice(p, x)
             \/ \E k \in approved : ExpireApproval(k)
             \/ \E r \in Requests : LoseClear(r)
      PROVE  GateInv'
  <2>1. UNCHANGED <<pc, total, seen>> /\ clears' \subseteq clears
    BY <1>2 DEF AddItem, SetQuantity, EmptyOwnCart, SetPrice, ExpireApproval,
                LoseClear, locals
  <2> QED
    BY <1>1, <2>1
<1>3. ASSUME NEW R \in SUBSET Requests, RollBack(R), UNCHANGED <<clears, locals>>
      PROVE  GateInv'
  <2>1. \A s \in Requests : pc'[s] \in {pc[s], "failed"}
    BY <1>3 DEF RollBack
  <2> QED
    BY <1>0, <1>3, <2>1, GateQuietStep DEF locals
<1>4. CASE Crash
  BY <1>3, <1>4 DEF Crash
<1>5. ASSUME NEW r \in Requests, Fail(r) PROVE GateInv'
  BY <1>3, <1>5 DEF Fail, services
<1>6. ASSUME NEW r \in Requests,
             \/ Submit(r) \/ RejectSignature(r) \/ Begin(r) \/ PoolTimeout(r)
             \/ GetCart(r) \/ EmptyCart(r) \/ GateCacheHit(r) \/ GateCacheMiss(r)
             \/ Refuse(r) \/ Commit(r)
      PROVE  GateInv'
  <2>1. UNCHANGED <<total, seen, clears>>
    BY <1>6 DEF Submit, RejectSignature, Begin, PoolTimeout, GetCart, EmptyCart,
                GateCacheHit, GateCacheMiss, Refuse, Commit, services, locals
  <2>2. \/ Move(r, "new", "waiting") \/ Move(r, "new", "refused")
        \/ Move(r, "waiting", "getCart") \/ Move(r, "waiting", "failed")
        \/ Move(r, "getCart", "fetch") \/ Move(r, "getCart", "refused")
        \/ Move(r, "gate", "save") \/ Move(r, "gate", "hash")
        \/ Move(r, "decide", "refused") \/ Move(r, "cleared", "ok")
    BY <1>6 DEF Submit, RejectSignature, Begin, PoolTimeout, GetCart, EmptyCart,
                GateCacheHit, GateCacheMiss, Refuse, Commit
  <2> QED
    BY <1>0, <2>1, <2>2, GateQuietMove
<1>7. ASSUME NEW r \in Requests, NEW p \in Products, FetchProduct(r, p) PROVE GateInv'
  <2>1. \A s \in Requests : s # r => total'[s] = total[s]
    BY <1>7 DEF FetchProduct, GateInv, TypeOK
  <2> QED
    BY <1>0, <1>7, <2>1, GateReadStep DEF FetchProduct, services
<1>8. ASSUME NEW r \in Requests, NEW p \in Products, NEW ok \in BOOLEAN,
             CheckHash(r, p, ok)
      PROVE  GateInv'
  <2>1. \A s \in Requests : s # r => seen'[s] = seen[s]
    BY <1>8 DEF CheckHash, GateInv, TypeOK
  <2> QED
    BY <1>0, <1>8, <2>1, GateReadStep DEF CheckHash, services
<1>9. ASSUME NEW r \in Requests, NEW p \in Products, NEW ok \in BOOLEAN,
             CheckPrice(r, p, ok)
      PROVE  GateInv'
  <2>1. \A s \in Requests : s # r => seen'[s] = seen[s]
    BY <1>9 DEF CheckPrice, GateInv, TypeOK
  <2> QED
    BY <1>0, <1>9, <2>1, GateReadStep DEF CheckPrice, services
<1>10. ASSUME NEW r \in Requests, Approve(r) PROVE GateInv'
  BY <1>0, <1>10, ApproveKeepsGateInv
<1>11. ASSUME NEW r \in Requests, SaveAndSendClear(r) PROVE GateInv'
  <2>1. /\ \A s \in Requests : pc'[s] = IF s = r THEN "clearing" ELSE pc[s]
        /\ pc[r] = "save" /\ clears' = clears \cup {r}
        /\ UNCHANGED <<total, seen>>
    BY <1>11 DEF SaveAndSendClear, Move, locals, GateInv, TypeOK
  <2> QED
    BY <1>0, <2>1, GateQuietStep
<1>12. ASSUME NEW r \in Requests, ExecuteClear(r) PROVE GateInv'
  <2>1. /\ \A s \in Requests : pc'[s] = IF s = r /\ pc[r] = "clearing" THEN "cleared"
                                                                       ELSE pc[s]
        /\ clears' = clears \ {r}
        /\ UNCHANGED <<total, seen>>
    BY <1>12 DEF ExecuteClear, locals, GateInv, TypeOK
  <2> QED
    BY <1>0, <2>1, GateQuietStep
<1>13. CASE UNCHANGED vars
  BY <1>1, <1>13 DEF vars
<1> QED
  BY <1>2, <1>4, <1>5, <1>6, <1>7, <1>8, <1>9, <1>10, <1>11, <1>12, <1>13, NextCases

(* A large order never gets past the gate at a price the gate saw changed. *)
THEOREM LargeOrdersAtLivePrice == Spec => []HighValueOrdersAtLivePrice
<1>1. GateInv => HighValueOrdersAtLivePrice
  BY DEF GateInv
<1> QED
  BY <1>1, InitGateInv, NextGateInv, PTL DEF Spec

(* No order gets past the gate with more against it than the weights allow, for
   any number of items, prices, thresholds of the total and tolerances. *)
THEOREM FindingsAreLimited == Spec => []ApprovedOrdersAreTolerable
<1>1. GateInv => ApprovedOrdersAreTolerable
  BY DEF GateInv
<1> QED
  BY <1>1, InitGateInv, NextGateInv, PTL DEF Spec

(* A request that the controller or the gate refused never empties a cart. *)
LEMMA OnlyClearsShrinkCarts ==
  ASSUME GateInv, [Next]_vars, NEW u \in Users, NEW p \in Products,
         cart'[u][p] < cart[u][p], removed' = removed
  PROVE  \E r \in clears : UserOf[r] = u /\ pc[r] \in {"clearing", "failed"}
<1>1. /\ \A v \in Users, q \in Products : cart[v][q] \in Nat /\ removed[v][q] \in Nat
      /\ cart[u][p] # cart'[u][p]
  BY DEF GateInv, TypeOK
<1>2. ASSUME cart' = cart PROVE FALSE
  BY <1>1, <1>2
<1>3. ASSUME NEW v \in Users, NEW q \in Products, NEW n \in 1..MaxUnits,
             AddItem(v, q, n)
      PROVE  FALSE
  <2>1. cart'[u][p] \in {cart[u][p], cart[u][p] + n}
    BY <1>3 DEF AddItem, GateInv, TypeOK
  <2> QED
    BY <1>1, <2>1
<1>4. ASSUME NEW v \in Users, NEW q \in Products, NEW n \in 0..MaxUnits,
             SetQuantity(v, q, n)
      PROVE  FALSE
  <2>1. cart'[u][p] = IF v = u /\ q = p THEN n ELSE cart[u][p]
    BY <1>4 DEF SetQuantity, GateInv, TypeOK
  <2>2. v = u /\ q = p /\ n < cart[u][p]
    BY <1>1, <2>1
  <2>3. removed'[u][p] = removed[u][p] + (cart[u][p] - n)
    BY <1>4, <2>2 DEF SetQuantity, GateInv, TypeOK
  <2> QED
    BY <1>1, <2>2, <2>3, SizesNatural
<1>5. ASSUME NEW v \in Users, EmptyOwnCart(v) PROVE FALSE
  <2>1. cart'[u][p] = IF v = u THEN 0 ELSE cart[u][p]
    BY <1>5 DEF EmptyOwnCart, NoUnits, GateInv, TypeOK
  <2>2. v = u
    BY <1>1, <2>1
  <2>3. removed'[u][p] = removed[u][p] + cart[u][p]
    BY <1>5, <2>2 DEF EmptyOwnCart, GateInv, TypeOK
  <2>4. cart[u][p] > 0
    BY <1>1, <2>1, <2>2
  <2> QED
    BY <1>1, <2>3, <2>4
<1>6. ASSUME NEW r \in Requests, ExecuteClear(r)
      PROVE  \E s \in clears : UserOf[s] = u /\ pc[s] \in {"clearing", "failed"}
  <2>1. UserOf[r] = u
    BY <1>1, <1>6 DEF ExecuteClear, GateInv, TypeOK
  <2> QED
    BY <1>6, <2>1 DEF ExecuteClear, GateInv, ClearsArePastGate
<1>7. ASSUME \/ \E q \in Products, x \in Prices : SetPrice(q, x)
             \/ \E k \in approved : ExpireApproval(k)
             \/ Crash
             \/ UNCHANGED vars
      PROVE  cart' = cart
  BY <1>7 DEF SetPrice, ExpireApproval, Crash, vars
<1>8. ASSUME NEW r \in Requests,
             \/ Submit(r) \/ RejectSignature(r) \/ Begin(r) \/ PoolTimeout(r)
             \/ GetCart(r) \/ EmptyCart(r) \/ GateCacheHit(r) \/ GateCacheMiss(r)
             \/ Approve(r) \/ Refuse(r) \/ SaveAndSendClear(r)
             \/ LoseClear(r) \/ Commit(r) \/ Fail(r)
      PROVE  cart' = cart
  BY <1>8 DEF Submit, RejectSignature, Begin, PoolTimeout, GetCart, EmptyCart,
              GateCacheHit, GateCacheMiss, Approve, Refuse, SaveAndSendClear,
              LoseClear, Commit, Fail, services
<1>9. ASSUME NEW r \in Requests, NEW q \in Products, NEW ok \in BOOLEAN,
             FetchProduct(r, q) \/ CheckHash(r, q, ok) \/ CheckPrice(r, q, ok)
      PROVE  cart' = cart
  BY <1>9 DEF FetchProduct, CheckHash, CheckPrice, services
<1> QED
  BY <1>2, <1>3, <1>4, <1>5, <1>6, <1>7, <1>8, <1>9, NextCases

(* A cart shrinks behind its owner's back only through a clear sent by a request
   of hers that had passed the gate. *)
THEOREM RefusedKeepsCart == Spec => RefusedRequestKeepsCart
<1>1. GateInv /\ [Next]_vars =>
        [\A u \in Users :
           (\E p \in Products : cart'[u][p] < cart[u][p]) /\ removed' = removed
             => \E r \in clears : UserOf[r] = u /\ pc[r] \in {"clearing", "failed"}]_vars
  BY OnlyClearsShrinkCarts
<1> QED
  BY <1>1, InitGateInv, NextGateInv, PTL DEF Spec, RefusedRequestKeepsCart
=============================================================================
