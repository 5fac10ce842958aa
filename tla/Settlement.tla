---------------------------- MODULE Settlement -----------------------------
(***************************************************************************)
(* Settlement of an order: POST /api/payments of the payment-service, the  *)
(* status update of the order-service it ends with, and the admin page     *)
(* that marks orders verified by hand.                                     *)
(*                                                                         *)
(* PaymentService.processPayment is one database transaction.  It reads    *)
(* the order from the order-service, inserts the payment transaction and   *)
(* its audit row, asks the order-service to set the order to PAID and      *)
(* commits when the reply is in.  The order-service commits the status on  *)
(* its own, so that a payment which fails late leaves a PAID order behind. *)
(*                                                                         *)
(* What a payment writes besides (amount, token, encrypted log) is copied  *)
(* from the request and from the order, whose total never changes; the     *)
(* encryption falls back to a local key and does not fail.                 *)
(***************************************************************************)
EXTENDS Naturals, FiniteSets

CONSTANTS
  Orders,     \* orders that may be placed
  Payments,   \* POST /api/payments requests
  OrderOf,    \* the order a payment is for
  PoolSize    \* hikari.maximum-pool-size of the payment-service

ASSUME OrdersOfPayments == OrderOf \in [Payments -> Orders]
ASSUME PaymentsFinite == IsFiniteSet(Payments)
ASSUME PoolNatural == PoolSize \in Nat

VARIABLES
  status,        \* order-service database: the status of an order
  transactions,  \* payment-service database: payments whose rows are committed
  puts,          \* payments whose status update travels to the order-service
  pc,            \* how far a payment is
  list           \* the order list the admin page has loaded

vars == <<status, transactions, puts, pc, list>>

Statuses == {"none", "PENDING_PAYMENT", "PAID", "SUCCESS"}
Working == {"getOrder", "insert", "put", "commit"}
Answered == {"ok", "refused", "failed"}

TypeOK ==
  /\ status \in [Orders -> Statuses]
  /\ transactions \subseteq Payments
  /\ puts \subseteq Payments
  /\ pc \in [Payments -> {"new", "waiting"} \cup Working \cup Answered]
  /\ list \in [Orders -> Statuses]

Init ==
  /\ status = [o \in Orders |-> "none"]
  /\ transactions = {}
  /\ puts = {}
  /\ pc = [t \in Payments |-> "new"]
  /\ list = [o \in Orders |-> "none"]

Move(t, from, to) ==
  /\ pc[t] = from
  /\ pc' = [pc EXCEPT ![t] = to]

Holders == {t \in Payments : pc[t] \in Working}

(* Orders with a committed payment, and the payments an order has had rows
   inserted for, committed or not: transactions.order_id is unique, and a
   second insert waits for the transaction that made the first. *)
Charged == {OrderOf[t] : t \in transactions}
Inserted(o) == {t \in Payments : OrderOf[t] = o /\ pc[t] \in {"put", "commit"}}

-----------------------------------------------------------------------------
(* Mutant of PlaceOrder: the order is stored without a status. *)
PlaceOrderWithoutStatus(o) ==
  /\ status[o] = "none"
  /\ status' = [status EXCEPT ![o] = "NULL"]
  /\ UNCHANGED <<transactions, puts, pc, list>>

(* createOrder commits. *)
PlaceOrder(o) ==
  /\ status[o] = "none"
  /\ status' = [status EXCEPT ![o] = "PENDING_PAYMENT"]
  /\ UNCHANGED <<transactions, puts, pc, list>>

(* The request passes the HMAC filter and asks the pool for a connection. *)
Submit(t) ==
  /\ Move(t, "new", "waiting")
  /\ UNCHANGED <<status, transactions, puts, list>>

(* The signature or its timestamp is missing, wrong or old: 401 or 403. *)
RejectSignature(t) ==
  /\ Move(t, "new", "refused")
  /\ UNCHANGED <<status, transactions, puts, list>>

Begin(t) ==
  /\ Cardinality(Holders) < PoolSize
  /\ Move(t, "waiting", "getOrder")
  /\ UNCHANGED <<status, transactions, puts, list>>

PoolTimeout(t) ==
  /\ Move(t, "waiting", "failed")
  /\ UNCHANGED <<status, transactions, puts, list>>

(* GET /api/orders/{id}; whatever the order's status is, it will do. *)
GetOrder(t) ==
  /\ status[OrderOf[t]] # "none"
  /\ Move(t, "getOrder", "insert")
  /\ UNCHANGED <<status, transactions, puts, list>>

(* Mutant of Insert: the order's row is not looked at (no unique order_id). *)
InsertAnyway(t) ==
  /\ Move(t, "insert", "put")
  /\ puts' = puts \cup {t}
  /\ UNCHANGED <<status, transactions, list>>

(* Mutant of Insert: the update is sent after the commit, not before. *)
InsertAndCommit(t) ==
  /\ OrderOf[t] \notin Charged
  /\ Inserted(OrderOf[t]) = {}
  /\ Move(t, "insert", "commit")
  /\ puts' = puts \cup {t}
  /\ UNCHANGED <<status, transactions, list>>

(* The payment's rows are inserted, uncommitted, and the update is sent. *)
Insert(t) ==
  /\ OrderOf[t] \notin Charged
  /\ Inserted(OrderOf[t]) = {}
  /\ Move(t, "insert", "put")
  /\ puts' = puts \cup {t}
  /\ UNCHANGED <<status, transactions, list>>

(* Mutant of DuplicateOrder: a duplicate reports its order once more. *)
DuplicateReported(t) ==
  /\ OrderOf[t] \in Charged
  /\ Move(t, "insert", "failed")
  /\ puts' = puts \cup {t}
  /\ UNCHANGED <<status, transactions, list>>

(* The order has a committed payment: the insert violates the constraint. *)
DuplicateOrder(t) ==
  /\ OrderOf[t] \in Charged
  /\ Move(t, "insert", "failed")
  /\ UNCHANGED <<status, transactions, puts, list>>

(* updateOrderStatus executes the update, for a payment that waits for the
   reply or, late, for one that has failed. *)
ExecutePut(t) ==
  /\ t \in puts
  /\ puts' = puts \ {t}
  /\ status' = [status EXCEPT ![OrderOf[t]] = "PAID"]
  /\ pc' = [pc EXCEPT ![t] = IF @ = "put" THEN "commit" ELSE @]
  /\ UNCHANGED <<transactions, list>>

LosePut(t) ==
  /\ t \in puts
  /\ puts' = puts \ {t}
  /\ UNCHANGED <<status, transactions, pc, list>>

(* Mutant of Commit: the transaction is lost and the answer says success. *)
CommitNothing(t) ==
  /\ Move(t, "commit", "ok")
  /\ UNCHANGED <<status, transactions, puts, list>>

(* The reply is in and the payment's transaction commits. *)
Commit(t) ==
  /\ Move(t, "commit", "ok")
  /\ transactions' = transactions \cup {t}
  /\ UNCHANGED <<status, puts, list>>

(* A call to the order-service fails, its order is missing or another
   customer's, or the database refuses: the transaction rolls back, 500. *)
Fail(t) ==
  /\ pc[t] \in Working
  /\ pc' = [pc EXCEPT ![t] = "failed"]
  /\ UNCHANGED <<status, transactions, puts, list>>

(* The payment-service stops and is started again. *)
Crash ==
  /\ pc' = [t \in Payments |-> IF pc[t] \in Working \cup {"waiting"} THEN "failed" ELSE pc[t]]
  /\ UNCHANGED <<status, transactions, puts, list>>

(* The admin page loads the order list when it is opened, *)
LoadList ==
  /\ list' = status
  /\ UNCHANGED <<status, transactions, puts, pc>>

(* and verifies an order by its place in that list, however old the list is. *)
VerifyOrder(o) ==
  /\ list[o] = "PENDING_PAYMENT"
  /\ status' = [status EXCEPT ![o] = "SUCCESS"]
  /\ list' = [list EXCEPT ![o] = "SUCCESS"]
  /\ UNCHANGED <<transactions, puts, pc>>

Next ==
  \/ \E t \in Payments :
        \/ Submit(t) \/ RejectSignature(t) \/ Begin(t) \/ PoolTimeout(t)
        \/ GetOrder(t) \/ Insert(t) \/ DuplicateOrder(t)
        \/ ExecutePut(t) \/ LosePut(t) \/ Commit(t) \/ Fail(t)
  \/ \E o \in Orders : PlaceOrder(o) \/ VerifyOrder(o)
  \/ LoadList
  \/ Crash

Spec == Init /\ [][Next]_vars
-----------------------------------------------------------------------------
(* However often a payment is retried, an order is charged at most once: the
   insert of a duplicate fails before anything is reported or committed. *)
ChargedOnce ==
  /\ \A s, t \in transactions : OrderOf[s] = OrderOf[t] => s = t
  /\ \A t \in Payments : pc[t] \in {"put", "commit"} => OrderOf[t] \notin Charged

(* An order is PAID through a payment that is committed, still has to commit, or
   failed after its update was sent; the update is never the work of a payment
   that was refused, or one that answered and has no row. *)
PaidIsAccountedFor ==
  \A o \in Orders : status[o] = "PAID" =>
    \/ o \in Charged
    \/ \E t \in Payments : OrderOf[t] = o /\ pc[t] \in {"commit", "failed"}

(* The order of a committed payment was reported before: it never waits at
   PENDING_PAYMENT for an update that is not coming. *)
ChargedOrderIsNotPending ==
  \A o \in Charged : status[o] \in {"PAID", "SUCCESS"}

(* The admin's verification of a charged order is final once no update of an
   earlier, failed payment is under way: no retry takes it back to PAID. *)
Settled(o) ==
  /\ o \in Charged
  /\ status[o] = "SUCCESS"
  /\ \A t \in puts : OrderOf[t] # o
SettledOrderStaysSettled == [][\A o \in Orders : Settled(o) => Settled(o)']_vars

(* Only a pending order is charged: a payment that reads an order in another
   state, verified by hand for one, goes no further. *)
OnlyPendingOrdersAreCharged ==
  [][ \A t \in Payments :
        pc[t] = "getOrder" /\ pc'[t] = "insert"
          => status[OrderOf[t]] = "PENDING_PAYMENT" ]_vars
=============================================================================
