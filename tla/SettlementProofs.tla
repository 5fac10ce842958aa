-------------------------- MODULE SettlementProofs -------------------------
(***************************************************************************)
(* Proofs about Settlement, for every set of orders and payments and every *)
(* size of the connection pool.                                            *)
(***************************************************************************)
EXTENDS Settlement, TLAPS

(* Two payments of one order never both have rows. *)
OneInserted ==
  \A s, t \in Payments :
    pc[s] \in {"put", "commit"} /\ pc[t] \in {"put", "commit"} /\ OrderOf[s] = OrderOf[t]
      => s = t

(* An update is under way only for a payment that waits for it or has failed. *)
PutsAreAwaited == \A t \in puts : pc[t] \in {"put", "failed"}

(* A payment that goes on to its commit has had its order set to PAID. *)
CommitsAreReported ==
  \A t \in Payments : pc[t] = "commit" => status[OrderOf[t]] \in {"PAID", "SUCCESS"}

SettlementInv ==
  /\ TypeOK
  /\ OneInserted
  /\ PutsAreAwaited
  /\ CommitsAreReported
  /\ ChargedOnce
  /\ PaidIsAccountedFor
  /\ ChargedOrderIsNotPending

(* The initial state is well typed. *)
LEMMA InitTypeOK == Init => TypeOK
  BY DEF Init, TypeOK, Statuses

(* Every step keeps the state well typed. *)
LEMMA NextTypeOK == TypeOK /\ [Next]_vars => TypeOK'
<1> SUFFICES ASSUME TypeOK, [Next]_vars PROVE TypeOK'
  OBVIOUS
<1>1. ASSUME NEW t \in Payments,
             \/ Submit(t) \/ RejectSignature(t) \/ Begin(t) \/ PoolTimeout(t)
             \/ GetOrder(t) \/ DuplicateOrder(t)
      PROVE  TypeOK'
  BY <1>1 DEF TypeOK, Submit, RejectSignature, Begin, PoolTimeout, GetOrder,
              DuplicateOrder, Move, Working, Answered
<1>2. ASSUME NEW t \in Payments, Insert(t) PROVE TypeOK'
  BY <1>2 DEF TypeOK, Insert, Move, Working
<1>3. ASSUME NEW t \in Payments, ExecutePut(t) PROVE TypeOK'
  BY <1>3, OrdersOfPayments DEF TypeOK, ExecutePut, Working, Statuses
<1>4. ASSUME NEW t \in Payments, LosePut(t) PROVE TypeOK'
  BY <1>4 DEF TypeOK, LosePut
<1>5. ASSUME NEW t \in Payments, Commit(t) PROVE TypeOK'
  BY <1>5 DEF TypeOK, Commit, Move, Answered
<1>6. ASSUME NEW t \in Payments, Fail(t) PROVE TypeOK'
  BY <1>6 DEF TypeOK, Fail, Answered
<1>7. ASSUME NEW o \in Orders, PlaceOrder(o) PROVE TypeOK'
  BY <1>7 DEF TypeOK, PlaceOrder, Statuses
<1>8. ASSUME NEW o \in Orders, VerifyOrder(o) PROVE TypeOK'
  BY <1>8 DEF TypeOK, VerifyOrder, Statuses
<1>9. CASE LoadList
  BY <1>9 DEF TypeOK, LoadList
<1>10. CASE Crash
  BY <1>10 DEF TypeOK, Crash, Answered
<1>11. CASE UNCHANGED vars
  BY <1>11 DEF TypeOK, vars
<1> QED
  BY <1>1, <1>2, <1>3, <1>4, <1>5, <1>6, <1>7, <1>8, <1>9, <1>10, <1>11 DEF Next

(* Initially nothing is placed, inserted or under way. *)
LEMMA InitSettlementInv == Init => SettlementInv
<1> SUFFICES ASSUME Init PROVE SettlementInv
  OBVIOUS
<1>1. /\ \A t \in Payments : pc[t] = "new"
      /\ \A o \in Orders : status[o] = "none"
      /\ transactions = {} /\ puts = {} /\ Charged = {}
  BY DEF Init, Charged
<1> QED
  BY <1>1, InitTypeOK
  DEF SettlementInv, OneInserted, PutsAreAwaited, CommitsAreReported,
      ChargedOnce, PaidIsAccountedFor, ChargedOrderIsNotPending

(* A step of payments that inserts, reports and commits nothing: payments may
   only fail or come closer to their insert. *)
LEMMA QuietStep ==
  ASSUME SettlementInv, TypeOK', UNCHANGED <<status, transactions, list>>,
         puts' \subseteq puts,
         \A t \in Payments : \/ pc'[t] = pc[t]
                             \/ pc'[t] = "failed"
                             \/ /\ pc[t] \in {"new", "waiting", "getOrder"}
                                /\ pc'[t] \in {"waiting", "getOrder", "insert", "refused"}
  PROVE  SettlementInv'
<1>0. Charged' = Charged /\ \A t \in puts : t \in Payments
  BY DEF Charged, SettlementInv, TypeOK
<1>1. OneInserted'
  BY DEF SettlementInv, OneInserted
<1>2. PutsAreAwaited'
  BY <1>0 DEF SettlementInv, PutsAreAwaited
<1>3. CommitsAreReported'
  BY DEF SettlementInv, CommitsAreReported
<1>4. ChargedOnce'
  BY <1>0 DEF SettlementInv, ChargedOnce
<1>5. PaidIsAccountedFor'
  BY <1>0 DEF SettlementInv, PaidIsAccountedFor
<1>6. ChargedOrderIsNotPending'
  BY <1>0 DEF SettlementInv, ChargedOrderIsNotPending
<1> QED
  BY <1>1, <1>2, <1>3, <1>4, <1>5, <1>6 DEF SettlementInv

(* The insert goes through only for an order without rows. *)
LEMMA InsertStep ==
  ASSUME SettlementInv, TypeOK', NEW t \in Payments, Insert(t)
  PROVE  SettlementInv'
<1>1. /\ pc[t] = "insert" /\ puts' = puts \cup {t}
      /\ UNCHANGED <<status, transactions, list>>
      /\ \A s \in Payments : pc'[s] = IF s = t THEN "put" ELSE pc[s]
      /\ OrderOf[t] \notin Charged
      /\ \A s \in Payments : pc[s] \in {"put", "commit"} => OrderOf[s] # OrderOf[t]
      /\ \A s \in puts : s \in Payments
  BY DEF Insert, Inserted, Move, SettlementInv, TypeOK
<1>2. Charged' = Charged
  BY <1>1 DEF Charged
<1>3. OneInserted'
  BY <1>1 DEF SettlementInv, OneInserted
<1>4. PutsAreAwaited'
  BY <1>1 DEF SettlementInv, PutsAreAwaited
<1>5. CommitsAreReported'
  BY <1>1 DEF SettlementInv, CommitsAreReported
<1>6. ChargedOnce'
  BY <1>1, <1>2 DEF SettlementInv, ChargedOnce
<1>7. PaidIsAccountedFor' /\ ChargedOrderIsNotPending'
  BY <1>1, <1>2 DEF SettlementInv, PaidIsAccountedFor, ChargedOrderIsNotPending
<1> QED
  BY <1>3, <1>4, <1>5, <1>6, <1>7 DEF SettlementInv

(* An executed update belongs to a payment that can now commit, or has failed. *)
LEMMA ExecutePutStep ==
  ASSUME SettlementInv, TypeOK', NEW t \in Payments, ExecutePut(t)
  PROVE  SettlementInv'
<1>1. /\ t \in puts /\ puts' = puts \ {t}
      /\ UNCHANGED <<transactions, list>>
      /\ pc[t] \in {"put", "failed"}
      /\ \A s \in Payments : pc'[s] = IF s = t /\ pc[t] = "put" THEN "commit" ELSE pc[s]
      /\ \A o \in Orders : status'[o] = IF o = OrderOf[t] THEN "PAID" ELSE status[o]
      /\ \A s \in Payments : OrderOf[s] \in Orders
      /\ \A s \in puts : s \in Payments
      /\ transactions \subseteq Payments
  BY OrdersOfPayments DEF ExecutePut, SettlementInv, TypeOK, PutsAreAwaited
<1>2. Charged' = Charged /\ Charged \subseteq Orders
  BY <1>1 DEF Charged
<1>3. OneInserted' /\ PutsAreAwaited'
  BY <1>1 DEF SettlementInv, OneInserted, PutsAreAwaited
<1>4. CommitsAreReported'
  BY <1>1 DEF SettlementInv, CommitsAreReported
<1>5. ChargedOnce'
  BY <1>1, <1>2 DEF SettlementInv, ChargedOnce
<1>6. PaidIsAccountedFor'
  BY <1>1, <1>2 DEF SettlementInv, PaidIsAccountedFor
<1>7. ChargedOrderIsNotPending'
  BY <1>1, <1>2 DEF SettlementInv, ChargedOrderIsNotPending
<1> QED
  BY <1>3, <1>4, <1>5, <1>6, <1>7 DEF SettlementInv

(* A commit charges an order that was reported and has no other payment. *)
LEMMA CommitStep ==
  ASSUME SettlementInv, TypeOK', NEW t \in Payments, Commit(t)
  PROVE  SettlementInv'
<1>1. /\ pc[t] = "commit" /\ transactions' = transactions \cup {t}
      /\ UNCHANGED <<status, puts, list>>
      /\ \A s \in Payments : pc'[s] = IF s = t THEN "ok" ELSE pc[s]
      /\ \A s \in puts : s \in Payments
      /\ transactions \subseteq Payments
  BY DEF Commit, Move, SettlementInv, TypeOK
<1>2. Charged' = Charged \cup {OrderOf[t]}
  BY <1>1 DEF Charged
<1>3. OneInserted' /\ PutsAreAwaited' /\ CommitsAreReported'
  BY <1>1 DEF SettlementInv, OneInserted, PutsAreAwaited, CommitsAreReported
<1>4. ChargedOnce'
  <2>1. OrderOf[t] \notin Charged /\ \A s \in transactions : OrderOf[s] \in Charged
    BY <1>1 DEF SettlementInv, ChargedOnce, Charged
  <2>2. \A r, s \in transactions' : OrderOf[r] = OrderOf[s] => r = s
    BY <1>1, <2>1 DEF SettlementInv, ChargedOnce
  <2>3. \A s \in Payments : pc'[s] \in {"put", "commit"} => OrderOf[s] \notin Charged'
    BY <1>1, <1>2 DEF SettlementInv, ChargedOnce, OneInserted
  <2> QED
    BY <2>2, <2>3 DEF ChargedOnce
<1>5. PaidIsAccountedFor'
  BY <1>1, <1>2 DEF SettlementInv, PaidIsAccountedFor
<1>6. ChargedOrderIsNotPending'
  BY <1>1, <1>2 DEF SettlementInv, ChargedOrderIsNotPending, CommitsAreReported
<1> QED
  BY <1>3, <1>4, <1>5, <1>6 DEF SettlementInv

(* Placing and verifying orders, and loading the list, leave payments alone. *)
LEMMA OrderStep ==
  ASSUME SettlementInv, TypeOK', UNCHANGED <<transactions, puts, pc>>,
         \A o \in Orders : \/ status'[o] = status[o]
                           \/ status'[o] = "SUCCESS"
                           \/ status[o] = "none" /\ status'[o] = "PENDING_PAYMENT"
  PROVE  SettlementInv'
<1>1. Charged' = Charged /\ Charged \subseteq Orders
      /\ \A t \in Payments : OrderOf[t] \in Orders
  BY OrdersOfPayments DEF Charged, SettlementInv, TypeOK
<1>2. OneInserted' /\ PutsAreAwaited'
  BY DEF SettlementInv, OneInserted, PutsAreAwaited
<1>3. CommitsAreReported'
  BY <1>1 DEF SettlementInv, CommitsAreReported
<1>4. ChargedOnce' /\ PaidIsAccountedFor' /\ ChargedOrderIsNotPending'
  BY <1>1 DEF SettlementInv, ChargedOnce, PaidIsAccountedFor, ChargedOrderIsNotPending
<1> QED
  BY <1>2, <1>3, <1>4 DEF SettlementInv

(* Every step of settlement keeps the invariant. *)
LEMMA NextSettlementInv == SettlementInv /\ [Next]_vars => SettlementInv'
<1> SUFFICES ASSUME SettlementInv, [Next]_vars PROVE SettlementInv'
  OBVIOUS
<1>0. TypeOK'
  BY NextTypeOK DEF SettlementInv
<1>1. ASSUME NEW t \in Payments,
             \/ Submit(t) \/ RejectSignature(t) \/ Begin(t) \/ PoolTimeout(t)
             \/ GetOrder(t) \/ DuplicateOrder(t) \/ LosePut(t) \/ Fail(t)
      PROVE  SettlementInv'
  <2>1. /\ UNCHANGED <<status, transactions, list>> /\ puts' \subseteq puts
        /\ \/ pc' = pc
           \/ pc' = [pc EXCEPT ![t] = "failed"]
           \/ /\ pc[t] \in {"new", "waiting", "getOrder"}
              /\ \E to \in {"waiting", "getOrder", "insert", "refused"} :
                    pc' = [pc EXCEPT ![t] = to]
    BY <1>1 DEF Submit, RejectSignature, Begin, PoolTimeout, GetOrder,
                DuplicateOrder, LosePut, Fail, Move
  <2>2. \A s \in Payments : \/ pc'[s] = pc[s]
                            \/ pc'[s] = "failed"
                            \/ /\ pc[s] \in {"new", "waiting", "getOrder"}
                               /\ pc'[s] \in {"waiting", "getOrder", "insert", "refused"}
    BY <2>1 DEF SettlementInv, TypeOK
  <2> QED
    BY <1>0, <2>1, <2>2, QuietStep
<1>2. ASSUME NEW t \in Payments, Insert(t) \/ ExecutePut(t) \/ Commit(t)
      PROVE  SettlementInv'
  BY <1>0, <1>2, InsertStep, ExecutePutStep, CommitStep
<1>3. ASSUME NEW o \in Orders, PlaceOrder(o) \/ VerifyOrder(o) PROVE SettlementInv'
  <2>1. \A p \in Orders : \/ status'[p] = status[p]
                          \/ status'[p] = "SUCCESS"
                          \/ status[p] = "none" /\ status'[p] = "PENDING_PAYMENT"
    BY <1>3 DEF PlaceOrder, VerifyOrder, SettlementInv, TypeOK
  <2> QED
    BY <1>0, <1>3, <2>1, OrderStep DEF PlaceOrder, VerifyOrder
<1>4. CASE LoadList
  BY <1>0, <1>4, OrderStep DEF LoadList
<1>5. CASE Crash
  BY <1>0, <1>5, QuietStep DEF Crash
<1>6. CASE UNCHANGED vars
  BY <1>0, <1>6, QuietStep DEF vars
<1> QED
  BY <1>1, <1>2, <1>3, <1>4, <1>5, <1>6 DEF Next

(* Statuses and payments are well typed in every reachable state. *)
THEOREM TypeCorrect == Spec => []TypeOK
  BY InitTypeOK, NextTypeOK, PTL DEF Spec

(* No retry, duplicate, failure or crash charges an order twice. *)
THEOREM NeverChargedTwice == Spec => []ChargedOnce
<1>1. SettlementInv => ChargedOnce
  BY DEF SettlementInv
<1> QED
  BY <1>1, InitSettlementInv, NextSettlementInv, PTL DEF Spec

(* Charge and status agree as far as two databases can: a charged order has
   been reported, a PAID one has a payment to show for it. *)
THEOREM StatusFollowsPayments == Spec => [](PaidIsAccountedFor /\ ChargedOrderIsNotPending)
<1>1. SettlementInv => PaidIsAccountedFor /\ ChargedOrderIsNotPending
  BY DEF SettlementInv
<1> QED
  BY <1>1, InitSettlementInv, NextSettlementInv, PTL DEF Spec

(* A charged order has been reported to the order-service before. *)
THEOREM ChargedNotPending == Spec => []ChargedOrderIsNotPending
  BY StatusFollowsPayments, PTL

(* No step takes a settled order back. *)
LEMMA SettledStep ==
  ASSUME SettlementInv, [Next]_vars, NEW o \in Orders, Settled(o)
  PROVE  Settled(o)'
<1>1. ASSUME status'[o] = status[o], transactions \subseteq transactions',
             \A t \in puts' : t \in puts \/ OrderOf[t] # o
      PROVE  Settled(o)'
  BY <1>1 DEF Settled, Charged
<1>2. ASSUME NEW t \in Payments,
             \/ Submit(t) \/ RejectSignature(t) \/ Begin(t) \/ PoolTimeout(t)
             \/ GetOrder(t) \/ DuplicateOrder(t) \/ LosePut(t) \/ Fail(t) \/ Commit(t)
      PROVE  Settled(o)'
  BY <1>1, <1>2 DEF Submit, RejectSignature, Begin, PoolTimeout, GetOrder,
                    DuplicateOrder, LosePut, Fail, Commit
<1>3. ASSUME NEW t \in Payments, Insert(t) PROVE Settled(o)'
  BY <1>1, <1>3 DEF Insert, Settled
<1>4. ASSUME NEW t \in Payments, ExecutePut(t) PROVE Settled(o)'
  <2>1. OrderOf[t] # o
    BY <1>4 DEF ExecutePut, Settled
  <2> QED
    BY <1>1, <1>4, <2>1 DEF ExecutePut, SettlementInv, TypeOK
<1>5. ASSUME NEW p \in Orders, PlaceOrder(p) \/ VerifyOrder(p) PROVE Settled(o)'
  <2>1. status'[o] = "SUCCESS"
    BY <1>5 DEF PlaceOrder, VerifyOrder, Settled, SettlementInv, TypeOK
  <2> QED
    BY <1>5, <2>1 DEF PlaceOrder, VerifyOrder, Settled, Charged
<1>6. CASE LoadList \/ Crash \/ UNCHANGED vars
  BY <1>1, <1>6 DEF LoadList, Crash, vars
<1> QED
  BY <1>2, <1>3, <1>4, <1>5, <1>6 DEF Next

(* A charged and verified order without an update under way stays verified. *)
THEOREM SettledStays == Spec => SettledOrderStaysSettled
<1>1. SettlementInv /\ [Next]_vars => [\A o \in Orders : Settled(o) => Settled(o)']_vars
  BY SettledStep
<1> QED
  BY <1>1, InitSettlementInv, NextSettlementInv, PTL DEF Spec, SettledOrderStaysSettled
=============================================================================
