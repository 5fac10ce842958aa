-------------------------- MODULE OrderPlacement ---------------------------
(***************************************************************************)
(* Order placement: POST /api/orders of the order-service together with    *)
(* the cart-service and the catalog-service it calls and the security gate *)
(* it passes.                                                              *)
(*                                                                         *)
(* OrderService.createOrder is one database transaction that makes remote  *)
(* calls: it reads the cart, then the products one by one, then lets the   *)
(* gate read every product twice more, inserts the order, asks the         *)
(* cart-service to clear the cart and commits when the reply is in.  Every *)
(* remote call is a step of its own here, so that customers, admins and    *)
(* other requests can act in between, a call can fail or be late, and the  *)
(* service can crash.                                                      *)
(*                                                                         *)
(* A request holds one connection of the service's pool from the start of  *)
(* the transaction to its end.  The cart-service and the catalog-service   *)
(* run their operations on pools of one connection as well, so each of     *)
(* their operations is one atomic step.                                    *)
(***************************************************************************)
EXTENDS Integers, FiniteSets, FiniteSetsExt, RiskScoring

CONSTANTS
  Users,       \* customers (JWT subjects)
  Products,    \* catalog products
  Requests,    \* POST /api/orders requests
  UserOf,      \* the customer who sends a request
  Origins,     \* the device and ip a request may carry
  Prices,      \* prices an admin may set
  PoolSize,    \* hikari.maximum-pool-size of the order-service
  HighValue,   \* HIGH_VALUE_THRESHOLD
  Tolerance,   \* tolerated difference of the recomputed total
  MaxUnits     \* bound: units of a product a customer adds in a behaviour

ASSUME RequestsFinite == IsFiniteSet(Requests)
ASSUME ProductsFinite == IsFiniteSet(Products)
ASSUME UsersOfRequests == UserOf \in [Requests -> Users]
ASSUME OriginsTyped ==
  Origins \subseteq [device : {"known", "unknown", "none"},
                     ip : {"plain", "suspicious", "none"}]
ASSUME PricesPositive == Prices \subseteq Nat \ {0}
ASSUME SizesNatural == PoolSize \in Nat /\ MaxUnits \in Nat
                         /\ HighValue \in Nat /\ Tolerance \in Nat

VARIABLES
  cart,         \* cart-service: cart[u][p] units of p in u's cart, 0 if no item
  price,        \* catalog-service: current price of a product
  orders,       \* order-service database: committed orders with their items
  approved,     \* order-service memory: cached gate approvals, <<user, total>>
  pendingAuth,  \* order-service memory: requests with a pending authentication
  clears,       \* requests whose clear command travels to the cart-service
  pc,           \* how far a request is
  origin,       \* device and ip of a request
  todo,         \* items a request still has to fetch or check
  units,        \* quantities the request read from the cart
  quote,        \* prices the request read from the catalog
  total,        \* totalAmount of the request
  seen,         \* what the gate found so far for the request
  added,        \* history: units put into the cart
  removed,      \* history: units taken out of the cart by the customer
  sold,         \* history: units in committed orders
  calm          \* history: no edit during, and no failure after, a clear

services == <<cart, price, orders, approved, pendingAuth, clears>>
locals == <<origin, todo, units, quote, total, seen>>
history == <<added, removed, sold, calm>>
vars == <<cart, price, orders, approved, pendingAuth, clears, pc, origin, todo,
          units, quote, total, seen, added, removed, sold, calm>>

NoUnits == [p \in Products |-> 0]
NothingSeen == [hashBad |-> 0, priceBad |-> 0, live |-> 0]

Working == {"getCart", "fetch", "gate", "hash", "price", "decide", "save",
            "clearing", "cleared"}
Answered == {"ok", "refused", "failed"}

(* The requests that hold a connection of the pool. *)
Holders == {r \in Requests : pc[r] \in Working}

InCart(u) == {p \in Products : cart[u][p] > 0}
Ordered(r) == {p \in Products : units[r][p] > 0}
OrderRow ==
  [id : Requests, user : Users, units : [Products -> Nat],
   price : [Products -> Nat], total : Nat]

TypeOK ==
  /\ cart \in [Users -> [Products -> Nat]]
  /\ price \in [Products -> Prices]
  /\ orders \subseteq OrderRow
  /\ approved \subseteq Users \X Nat
  /\ pendingAuth \subseteq Requests
  /\ clears \subseteq Requests
  /\ pc \in [Requests -> {"new", "waiting"} \cup Working \cup Answered]
  /\ origin \in [Requests -> Origins]
  /\ todo \in [Requests -> SUBSET Products]
  /\ units \in [Requests -> [Products -> Nat]]
  /\ quote \in [Requests -> [Products -> Nat]]
  /\ total \in [Requests -> Nat]
  /\ seen \in [Requests -> [hashBad : Nat, priceBad : Nat, live : Nat]]
  /\ added \in [Users -> [Products -> Nat]]
  /\ removed \in [Users -> [Products -> Nat]]
  /\ sold \in [Users -> [Products -> Nat]]
  /\ calm \in [Users -> BOOLEAN]

Init ==
  /\ cart = [u \in Users |-> NoUnits]
  /\ price \in [Products -> Prices]
  /\ orders = {}
  /\ approved = {}
  /\ pendingAuth = {}
  /\ clears = {}
  /\ pc = [r \in Requests |-> "new"]
  /\ origin \in [Requests -> Origins]
  /\ todo = [r \in Requests |-> {}]
  /\ units = [r \in Requests |-> NoUnits]
  /\ quote = [r \in Requests |-> NoUnits]
  /\ total = [r \in Requests |-> 0]
  /\ seen = [r \in Requests |-> NothingSeen]
  /\ added = [u \in Users |-> NoUnits]
  /\ removed = [u \in Users |-> NoUnits]
  /\ sold = [u \in Users |-> NoUnits]
  /\ calm = [u \in Users |-> TRUE]

Move(r, from, to) ==
  /\ pc[r] = from
  /\ pc' = [pc EXCEPT ![r] = to]

-----------------------------------------------------------------------------
(***************************************************************************)
(* The customer's cart and the admin's catalog                             *)
(***************************************************************************)

(* u has a request that has read the cart and is not answered yet. *)
InCheckout(u) ==
  \E r \in Requests : UserOf[r] = u /\ pc[r] \in Working \ {"getCart"}

Disturb(u) == calm' = [calm EXCEPT ![u] = @ /\ ~InCheckout(u)]

(* addItemToCart: n units more, in a new item or in the one there is *)
AddItem(u, p, n) ==
  /\ added[u][p] + n <= MaxUnits
  /\ cart' = [cart EXCEPT ![u][p] = @ + n]
  /\ added' = [added EXCEPT ![u][p] = @ + n]
  /\ Disturb(u)
  /\ UNCHANGED <<price, orders, approved, pendingAuth, clears, pc, locals,
                 removed, sold>>

(* Mutant of SetQuantity: the quantity is taken off what the cart holds. *)
SetQuantityRelative(u, p, n) ==
  /\ cart[u][p] > 0
  /\ cart' = [cart EXCEPT ![u][p] = @ - n]
  /\ removed' = [removed EXCEPT ![u][p] = @ + n]
  /\ Disturb(u)
  /\ UNCHANGED <<price, orders, approved, pendingAuth, clears, pc, locals,
                 added, sold>>

(* updateItemQuantity, where n = 0 stands for every quantity that removes the
   item, as removeItemFromCart does; the item has to be in the cart. *)
SetQuantity(u, p, n) ==
  LET more == IF n > cart[u][p] THEN n - cart[u][p] ELSE 0
      less == IF n < cart[u][p] THEN cart[u][p] - n ELSE 0
  IN  /\ cart[u][p] > 0
      /\ added[u][p] + more <= MaxUnits
      /\ cart' = [cart EXCEPT ![u][p] = n]
      /\ added' = [added EXCEPT ![u][p] = @ + more]
      /\ removed' = [removed EXCEPT ![u][p] = @ + less]
      /\ Disturb(u)
      /\ UNCHANGED <<price, orders, approved, pendingAuth, clears, pc, locals, sold>>

(* CartService.clearCart, called by the customer *)
EmptyOwnCart(u) ==
  /\ InCart(u) # {}
  /\ cart' = [cart EXCEPT ![u] = NoUnits]
  /\ removed' = [removed EXCEPT ![u] = [p \in Products |-> removed[u][p] + cart[u][p]]]
  /\ Disturb(u)
  /\ UNCHANGED <<price, orders, approved, pendingAuth, clears, pc, locals, added, sold>>

(* ProductController.updateProduct, as far as the price goes *)
SetPrice(p, x) ==
  /\ price[p] # x
  /\ price' = [price EXCEPT ![p] = x]
  /\ UNCHANGED <<cart, orders, approved, pendingAuth, clears, pc, locals, history>>

-----------------------------------------------------------------------------
(***************************************************************************)
(* createOrder, step by step                                               *)
(***************************************************************************)

(* The controller verifies the order signature and calls the service, which
   asks the pool for a connection. *)
Submit(r) ==
  /\ Move(r, "new", "waiting")
  /\ UNCHANGED <<services, locals, history>>

(* The signature is missing or wrong: 403. *)
RejectSignature(r) ==
  /\ Move(r, "new", "refused")
  /\ UNCHANGED <<services, locals, history>>

(* Mutant of Begin: a pool large enough for every request. *)
BeginUnpooled(r) ==
  /\ Move(r, "waiting", "getCart")
  /\ UNCHANGED <<services, locals, history>>

(* The transaction starts on a free connection. *)
Begin(r) ==
  /\ Cardinality(Holders) < PoolSize
  /\ Move(r, "waiting", "getCart")
  /\ UNCHANGED <<services, locals, history>>

(* Mutant of PoolTimeout: the wait for a connection ends with a connection only. *)
PoolTimeoutOfFreePool(r) ==
  /\ Cardinality(Holders) < PoolSize
  /\ Move(r, "waiting", "failed")
  /\ UNCHANGED <<services, locals, history>>

(* No connection became free within the pool's connection timeout: 500. *)
PoolTimeout(r) ==
  /\ Move(r, "waiting", "failed")
  /\ UNCHANGED <<services, locals, history>>

(* Mutant of GetCart: every item of the cart is ordered once. *)
GetCartWithoutQuantities(r) ==
  LET u == UserOf[r]
  IN  /\ InCart(u) # {}
      /\ Move(r, "getCart", "fetch")
      /\ units' = [units EXCEPT ![r] = [p \in Products |-> IF cart[u][p] > 0 THEN 1 ELSE 0]]
      /\ todo' = [todo EXCEPT ![r] = InCart(u)]
      /\ UNCHANGED <<services, origin, quote, total, seen, history>>

(* cartFeignClient.getCart *)
GetCart(r) ==
  LET u == UserOf[r]
  IN  /\ InCart(u) # {}
      /\ Move(r, "getCart", "fetch")
      /\ units' = [units EXCEPT ![r] = cart[u]]
      /\ todo' = [todo EXCEPT ![r] = InCart(u)]
      /\ UNCHANGED <<services, origin, quote, total, seen, history>>

(* The cart is empty: 404. *)
EmptyCart(r) ==
  /\ InCart(UserOf[r]) = {}
  /\ Move(r, "getCart", "refused")
  /\ UNCHANGED <<services, locals, history>>

(* A step over one of the remaining items; after the last one comes next. *)
ForItem(r, p, here, next) ==
  /\ p \in todo[r]
  /\ IF todo[r] = {p}
       THEN /\ Move(r, here, next)
            /\ todo' = [todo EXCEPT ![r] = Ordered(r)]
       ELSE /\ pc[r] = here
            /\ todo' = [todo EXCEPT ![r] = @ \ {p}]
            /\ UNCHANGED pc

(* Mutant of FetchProduct: the quantity is left out of the total. *)
FetchProductUnitPrice(r, p) ==
  /\ ForItem(r, p, "fetch", "gate")
  /\ quote' = [quote EXCEPT ![r][p] = price[p]]
  /\ total' = [total EXCEPT ![r] = @ + price[p]]
  /\ UNCHANGED <<services, origin, units, seen, history>>

(* catalogFeignClient.getProduct for one item of the cart *)
FetchProduct(r, p) ==
  /\ ForItem(r, p, "fetch", "gate")
  /\ quote' = [quote EXCEPT ![r][p] = price[p]]
  /\ total' = [total EXCEPT ![r] = @ + price[p] * units[r][p]]
  /\ UNCHANGED <<services, origin, units, seen, history>>

(* generateTransactionKey; the order id is not set yet *)
Key(r) == <<UserOf[r], total[r]>>

(* The gate knows an unexpired approval for the user and the total. *)
GateCacheHit(r) ==
  /\ Key(r) \in approved
  /\ Move(r, "gate", "save")
  /\ UNCHANGED <<services, locals, history>>

(* Mutant of GateCacheMiss: the cart is cleared before the validation. *)
GateCacheMissClearsFirst(r) ==
  /\ Key(r) \notin approved
  /\ Move(r, "gate", "hash")
  /\ clears' = clears \cup {r}
  /\ UNCHANGED <<cart, price, orders, approved, pendingAuth, locals, history>>

(* It does not, and starts the validation. *)
GateCacheMiss(r) ==
  /\ Key(r) \notin approved
  /\ Move(r, "gate", "hash")
  /\ UNCHANGED <<services, locals, history>>

(* validateProductIntegrity for one item.  The hash covers id, name and price;
   ok = FALSE stands for a failed read and for a change of the name. *)
CheckHash(r, p, ok) ==
  LET bad == Penalty(~ok \/ price[p] # quote[r][p], 1)
  IN  /\ ForItem(r, p, "hash", "price")
      /\ seen' = [seen EXCEPT ![r].hashBad = @ + bad]
      /\ UNCHANGED <<services, origin, units, quote, total, history>>

(* validatePriceAccuracy for one item; a failed read counts as a price of 0 *)
CheckPrice(r, p, ok) ==
  LET live == IF ok THEN price[p] ELSE 0
  IN  /\ ForItem(r, p, "price", "decide")
      /\ seen' = [seen EXCEPT ![r] =
                    [hashBad |-> @.hashBad,
                     priceBad |-> @.priceBad + Penalty(live # quote[r][p], 1),
                     live |-> @.live + live * units[r][p]]]
      /\ UNCHANGED <<services, origin, units, quote, total, history>>

Difference(a, b) == IF a > b THEN a - b ELSE b - a

EvidenceOf(r) ==
  [device |-> origin[r].device, ip |-> origin[r].ip,
   hashBad |-> seen[r].hashBad, priceBad |-> seen[r].priceBad,
   totalOff |-> Difference(seen[r].live, total[r]) > Tolerance,
   high |-> total[r] > HighValue]

(* makeSecurityDecision approves; the gate caches the approval. *)
Approve(r) ==
  /\ GateApproves(SecurityDecision(EvidenceOf(r)))
  /\ Move(r, "decide", "save")
  /\ approved' = approved \cup {Key(r)}
  /\ UNCHANGED <<cart, price, orders, pendingAuth, clears, locals, history>>

(* It does not: SecurityException, 403; the gate may keep a pending
   authentication. *)
Refuse(r) ==
  LET action == SecurityDecision(EvidenceOf(r))
  IN  /\ ~GateApproves(action)
      /\ Move(r, "decide", "refused")
      /\ pendingAuth' = IF action = "REQUIRE_ADDITIONAL_AUTH"
                          THEN pendingAuth \cup {r} ELSE pendingAuth
      /\ UNCHANGED <<cart, price, orders, approved, clears, locals, history>>

(* Mutant of SaveAndSendClear: the commit does not wait for the reply. *)
SaveAndForgetClear(r) ==
  /\ Move(r, "save", "cleared")
  /\ clears' = clears \cup {r}
  /\ UNCHANGED <<cart, price, orders, approved, pendingAuth, locals, history>>

(* The order, its items and the shipping data are inserted, uncommitted, and
   the clear command is sent to the cart-service. *)
SaveAndSendClear(r) ==
  /\ Move(r, "save", "clearing")
  /\ clears' = clears \cup {r}
  /\ UNCHANGED <<cart, price, orders, approved, pendingAuth, locals, history>>

(* CartService.clearCart executes the command, for a request that still waits
   for the reply or, late, for one that has given up. *)
ExecuteClear(r) ==
  /\ r \in clears
  /\ clears' = clears \ {r}
  /\ cart' = [cart EXCEPT ![UserOf[r]] = NoUnits]
  /\ pc' = [pc EXCEPT ![r] = IF @ = "clearing" THEN "cleared" ELSE @]
  /\ UNCHANGED <<price, orders, approved, pendingAuth, locals, history>>

(* The command is lost. *)
LoseClear(r) ==
  /\ r \in clears
  /\ clears' = clears \ {r}
  /\ UNCHANGED <<cart, price, orders, approved, pendingAuth, pc, locals, history>>

(* The reply is in and the transaction commits. *)
Commit(r) ==
  LET u == UserOf[r]
  IN  /\ Move(r, "cleared", "ok")
      /\ orders' = orders \cup {[id |-> r, user |-> u, units |-> units[r],
                                  price |-> quote[r], total |-> total[r]]}
      /\ sold' = [sold EXCEPT ![u] = [p \in Products |-> sold[u][p] + units[r][p]]]
      /\ UNCHANGED <<cart, price, approved, pendingAuth, clears, locals,
                     added, removed, calm>>

(* The transactions of R roll back.  A clear that one of them has sent is not
   taken back: it stays, or will stay, without an order. *)
RollBack(R) ==
  /\ pc' = [r \in Requests |-> IF r \in R THEN "failed" ELSE pc[r]]
  /\ calm' = [u \in Users |->
                calm[u] /\ ~ \E r \in R : UserOf[r] = u /\ pc[r] \in {"clearing", "cleared"}]

(* A Feign call fails or times out, or the database refuses an insert or the
   commit: the exception rolls the transaction back, 500. *)
Fail(r) ==
  /\ pc[r] \in {"getCart", "fetch", "save", "clearing", "cleared"}
  /\ RollBack({r})
  /\ UNCHANGED <<services, locals, added, removed, sold>>

(***************************************************************************)
(* The rest of the order-service                                           *)
(***************************************************************************)

(* isApprovalStillValid: an approval expires 15 minutes after it was cached. *)
ExpireApproval(k) ==
  /\ approved' = approved \ {k}
  /\ UNCHANGED <<cart, price, orders, pendingAuth, clears, pc, locals, history>>

(* The process stops and is started again: every request it was working on is
   gone, and so is what the gate kept in memory. *)
Crash ==
  /\ RollBack({r \in Requests : pc[r] \in Working \cup {"waiting"}})
  /\ approved' = {}
  /\ pendingAuth' = {}
  /\ UNCHANGED <<cart, price, orders, clears, locals, added, removed, sold>>

-----------------------------------------------------------------------------
GateReads(r) ==
  \E p \in Products, ok \in BOOLEAN : CheckHash(r, p, ok) \/ CheckPrice(r, p, ok)

(* Steps that a request takes by itself: computation, and giving up the wait for a
   connection. *)
OwnStep(r) == PoolTimeout(r) \/ GateCacheHit(r) \/ GateCacheMiss(r) \/ Approve(r)

(* Steps that wait for another program.  The calls of the cart-service and of the
   catalog-service end with a timeout at least, but then a rollback follows, and the
   database, where transactions begin and end, has none; nor have GateReads. *)
AwaitingStep(r) ==
  \/ Begin(r)
  \/ GetCart(r)
  \/ EmptyCart(r)
  \/ \E p \in Products : FetchProduct(r, p)
  \/ GateReads(r)
  \/ Refuse(r)
  \/ SaveAndSendClear(r)
  \/ Commit(r)
  \/ Fail(r)

Step(r) == OwnStep(r) \/ AwaitingStep(r)

Environment ==
  \/ \E u \in Users, p \in Products, n \in 1..MaxUnits : AddItem(u, p, n)
  \/ \E u \in Users, p \in Products, n \in 0..MaxUnits : SetQuantity(u, p, n)
  \/ \E u \in Users : EmptyOwnCart(u)
  \/ \E p \in Products, x \in Prices : SetPrice(p, x)
  \/ \E k \in approved : ExpireApproval(k)
  \/ Crash

Next ==
  \/ Environment
  \/ \E r \in Requests :
        \/ Submit(r)
        \/ RejectSignature(r)
        \/ Step(r)
        \/ ExecuteClear(r)
        \/ LoseClear(r)

Spec == Init /\ [][Next]_vars

(* Nothing is assumed of a step that waits for another program. *)
FairSpec == Spec /\ \A r \in Requests : WF_vars(OwnStep(r))
-----------------------------------------------------------------------------
(***************************************************************************)
(* Properties                                                              *)
(***************************************************************************)

(* A unit the customer put into the cart is ordered at most once, however many
   checkout requests run, fail, are retried or are cleared late: createOrder
   reads the cart long before it clears it, and only the pool of one connection
   keeps a second createOrder from reading in between. *)
OrderedAtMostOnce ==
  \A u \in Users, p \in Products : sold[u][p] <= added[u][p]

(* If the customer leaves the cart alone during a checkout and no checkout of
   hers failed after it had sent its clear, then no unit is lost or made up by
   reading, ordering and clearing: what she added is in the cart, in an order,
   or was taken out by her. *)
CalmCheckoutConservesUnits ==
  \A u \in Users :
    calm[u] /\ (\A r \in Requests : UserOf[r] = u => pc[r] # "cleared")
      => \A p \in Products :
           cart[u][p] + sold[u][p] + removed[u][p] = added[u][p]

(* The total of a stored order is the sum over its stored items, each of which
   was priced: the total is accumulated item by item while prices change. *)
StoredTotalIsSumOfItems ==
  \A o \in orders :
    /\ o.total = MapThenSumSet(LAMBDA p : o.units[p] * o.price[p], Products)
    /\ \A p \in Products : o.units[p] > 0 => o.price[p] > 0

(* Past the gate, a request above the high-value threshold has no item whose
   live price differed when the gate validated it.  The override at a score of
   90 does it, by one point: a single differing price leaves a score of 89.
   (A cached approval skips the gate's reads and is not part of this claim.) *)
HighValueOrdersAtLivePrice ==
  \A r \in Requests :
    pc[r] \in {"save", "clearing", "cleared", "ok"} /\ total[r] > HighValue
      => seen[r].priceBad = 0

(* What the gate puts up with: the total of a request past it may differ from the
   live prices by more than the tolerance only if at most one of its items failed
   the hash comparison - with two the score is 59, one below what is approved -,
   and up to four prices may differ that make up for each other: as the score of
   the prices is not clamped at zero, a fifth one is too many whatever else was
   found.  (A cached approval skips the reads, which then have found nothing.) *)
ApprovedOrdersAreTolerable ==
  \A r \in Requests :
    pc[r] \in {"save", "clearing", "cleared", "ok"}
      => IF Difference(seen[r].live, total[r]) > Tolerance
           THEN seen[r].hashBad <= 1
           ELSE seen[r].priceBad <= 4

(* Units disappear from a cart behind the customer's back only through the clear
   of a request of hers that had passed the gate; a request that the gate or
   the controller refused never costs her the cart. *)
RefusedRequestKeepsCart ==
  [][ \A u \in Users :
        (\E p \in Products : cart'[u][p] < cart[u][p]) /\ removed' = removed
          => \E r \in clears : UserOf[r] = u /\ pc[r] \in {"clearing", "failed"}
    ]_vars

(* Order placement implements the ledger: an order takes units that were added
   and not sold before, once per request. *)
Ledger == INSTANCE OrderLedger WITH
            placed <- {o.id : o \in orders}, Units <- 0..MaxUnits
LedgerSpec == Ledger!Spec

(* A request whose own calls and database operations come to an end, with a result or
   an error, is answered, though other requests hang in theirs for ever and one of
   them with the only connection: no request waits without a limit for another one,
   nor for a clear that was lost. *)
HangsHoldUpNobodyElse ==
  \A r \in Requests :
    WF_vars(AwaitingStep(r))
      => (pc[r] \in {"waiting"} \cup Working ~> pc[r] \in Answered)

(* An order whose total differs from the one recomputed at live prices is
   refused: the price check as BoSung.md and the README describe it.  (A live
   total of 0 means that the gate could not read the catalog.) *)
DifferingTotalIsRefused ==
  \A r \in Requests :
    pc[r] = "ok" /\ seen[r].live > 0
      => Difference(seen[r].live, total[r]) <= Tolerance
=============================================================================
