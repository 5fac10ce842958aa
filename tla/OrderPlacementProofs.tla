----------------------- MODULE OrderPlacementProofs ------------------------
(***************************************************************************)
(* Proofs about OrderPlacement, for every set of customers, products,      *)
(* requests and prices.                                                    *)
(***************************************************************************)
EXTENDS OrderPlacement, TLAPS, FiniteSetTheorems

(* The initial state is well typed. *)
LEMMA InitTypeOK == Init => TypeOK
  BY RequestsFinite, PricesPositive
  DEF Init, TypeOK, NoUnits, NothingSeen, Working, Answered

(* What a request computes with are natural numbers. *)
LEMMA NumbersTyped ==
  ASSUME TypeOK, NEW r \in Requests, NEW p \in Products
  PROVE  /\ price[p] \in Nat
         /\ units[r][p] \in Nat
         /\ total[r] \in Nat
         /\ seen[r] \in [hashBad : Nat, priceBad : Nat, live : Nat]
<1>1. price \in [Products -> Prices]
  BY DEF TypeOK
<1>2. price[p] \in Nat
  BY <1>1, PricesPositive
<1>3. units \in [Requests -> [Products -> Nat]] /\ total \in [Requests -> Nat]
  BY DEF TypeOK
<1>4. seen \in [Requests -> [hashBad : Nat, priceBad : Nat, live : Nat]]
  BY DEF TypeOK
<1> QED
  BY <1>2, <1>3, <1>4

(* A step over the items of a request changes nothing but how far the request
   is and what it still has to do. *)
LEMMA ForItemTyped ==
  ASSUME TypeOK, NEW r \in Requests, NEW p \in Products,
         NEW here, NEW next \in Working, ForItem(r, p, here, next)
  PROVE  /\ pc' \in [Requests -> {"new", "waiting"} \cup Working \cup Answered]
         /\ todo' \in [Requests -> SUBSET Products]
<1>1. /\ pc \in [Requests -> {"new", "waiting"} \cup Working \cup Answered]
      /\ todo \in [Requests -> SUBSET Products]
  BY DEF TypeOK
<1>2. Ordered(r) \in SUBSET Products /\ todo[r] \ {p} \in SUBSET Products
  BY <1>1 DEF Ordered
<1>3. pc' = pc \/ pc' = [pc EXCEPT ![r] = next]
  BY DEF ForItem, Move
<1>4. \/ todo' = [todo EXCEPT ![r] = Ordered(r)]
      \/ todo' = [todo EXCEPT ![r] = todo[r] \ {p}]
  BY DEF ForItem
<1>5. pc' \in [Requests -> {"new", "waiting"} \cup Working \cup Answered]
  BY <1>1, <1>3
<1>6. todo' \in [Requests -> SUBSET Products]
  BY <1>1, <1>2, <1>4
<1> QED
  BY <1>5, <1>6

(* Next, one disjunct per operation: the shape of every invariance proof. *)
LEMMA NextCases ==
  ASSUME Next
  PROVE  \/ \E u \in Users, p \in Products, n \in 1..MaxUnits : AddItem(u, p, n)
         \/ \E u \in Users, p \in Products, n \in 0..MaxUnits : SetQuantity(u, p, n)
         \/ \E u \in Users : EmptyOwnCart(u)
         \/ \E p \in Products, x \in Prices : SetPrice(p, x)
         \/ \E k \in approved : ExpireApproval(k)
         \/ Crash
         \/ \E r \in Requests : Submit(r) \/ RejectSignature(r)
         \/ \E r \in Requests : Begin(r)
         \/ \E r \in Requests : PoolTimeout(r)
         \/ \E r \in Requests : GetCart(r)
         \/ \E r \in Requests : EmptyCart(r)
         \/ \E r \in Requests, p \in Products : FetchProduct(r, p)
         \/ \E r \in Requests : GateCacheHit(r) \/ GateCacheMiss(r)
         \/ \E r \in Requests, p \in Products, ok \in BOOLEAN : CheckHash(r, p, ok)
         \/ \E r \in Requests, p \in Products, ok \in BOOLEAN : CheckPrice(r, p, ok)
         \/ \E r \in Requests : Approve(r)
         \/ \E r \in Requests : Refuse(r)
         \/ \E r \in Requests : SaveAndSendClear(r)
         \/ \E r \in Requests : ExecuteClear(r)
         \/ \E r \in Requests : LoseClear(r)
         \/ \E r \in Requests : Commit(r)
         \/ \E r \in Requests : Fail(r)
<1>1. CASE Environment
  BY <1>1 DEF Environment
<1>2. ASSUME NEW r \in Requests, Step(r)
      PROVE  \/ Begin(r) \/ PoolTimeout(r) \/ GetCart(r) \/ EmptyCart(r)
             \/ \E p \in Products : FetchProduct(r, p)
             \/ \E p \in Products, ok \in BOOLEAN : CheckHash(r, p, ok) \/ CheckPrice(r, p, ok)
             \/ GateCacheHit(r) \/ GateCacheMiss(r) \/ Approve(r) \/ Refuse(r)
             \/ SaveAndSendClear(r) \/ Commit(r) \/ Fail(r)
  BY <1>2 DEF Step, OwnStep, AwaitingStep, GateReads
<1>3. CASE \E r \in Requests : Step(r)
  BY <1>2, <1>3
<1>4. CASE \E r \in Requests : Submit(r) \/ RejectSignature(r) \/ ExecuteClear(r) \/ LoseClear(r)
  BY <1>4
<1> QED
  BY <1>1, <1>3, <1>4 DEF Next

(* Every step keeps the state well typed. *)
LEMMA NextTypeOK == TypeOK /\ [Next]_vars => TypeOK'
<1> SUFFICES ASSUME TypeOK, [Next]_vars PROVE TypeOK'
  OBVIOUS
<1>1. ASSUME NEW u \in Users, NEW p \in Products, NEW n \in 1..MaxUnits,
             AddItem(u, p, n)
      PROVE  TypeOK'
  BY <1>1 DEF TypeOK, AddItem, Disturb, locals
<1>2. ASSUME NEW u \in Users, NEW p \in Products, NEW n \in 0..MaxUnits,
             SetQuantity(u, p, n)
      PROVE  TypeOK'
  BY <1>2, SizesNatural DEF TypeOK, SetQuantity, Disturb, locals
<1>3. ASSUME NEW u \in Users, EmptyOwnCart(u) PROVE TypeOK'
  BY <1>3 DEF TypeOK, EmptyOwnCart, NoUnits, Disturb, locals
<1>4. ASSUME NEW p \in Products, NEW x \in Prices, SetPrice(p, x) PROVE TypeOK'
  BY <1>4 DEF TypeOK, SetPrice, locals, history
<1>5. ASSUME NEW k \in approved, ExpireApproval(k) PROVE TypeOK'
  BY <1>5 DEF TypeOK, ExpireApproval, locals, history
<1>6. CASE Crash
  BY <1>6 DEF TypeOK, Crash, RollBack, locals, Answered
<1>7. ASSUME NEW r \in Requests,
             \/ Submit(r) \/ RejectSignature(r) \/ Begin(r) \/ PoolTimeout(r)
             \/ EmptyCart(r) \/ GateCacheHit(r) \/ GateCacheMiss(r)
      PROVE  TypeOK'
  <2>1. /\ pc' \in [Requests -> {"new", "waiting"} \cup Working \cup Answered]
        /\ UNCHANGED <<services, locals, history>>
    BY <1>7 DEF TypeOK, Submit, RejectSignature, Begin, PoolTimeout, EmptyCart,
                GateCacheHit, GateCacheMiss, Move, Working, Answered
  <2> QED
    BY <2>1 DEF TypeOK, services, locals, history
<1>8. ASSUME NEW r \in Requests, GetCart(r) PROVE TypeOK'
  <2>1. UserOf[r] \in Users /\ InCart(UserOf[r]) \subseteq Products
    BY UsersOfRequests DEF InCart
  <2> QED
    BY <1>8, <2>1 DEF TypeOK, GetCart, Move, services, history, Working
<1>9. ASSUME NEW r \in Requests, NEW p \in Products, FetchProduct(r, p) PROVE TypeOK'
  <2>1. ForItem(r, p, "fetch", "gate") /\ "gate" \in Working
    BY <1>9 DEF FetchProduct, Working
  <2>2. price[p] \in Nat /\ units[r][p] \in Nat
    BY NumbersTyped
  <2>3. price[p] * units[r][p] \in Nat
    BY <2>2
  <2>4. quote' \in [Requests -> [Products -> Nat]]
    BY <1>9, <2>2 DEF TypeOK, FetchProduct
  <2>5. total' \in [Requests -> Nat]
    <3>1. total \in [Requests -> Nat]
      BY DEF TypeOK
    <3>2. PICK amount \in Nat : total' = [total EXCEPT ![r] = @ + amount]
      BY <1>9, <2>3 DEF FetchProduct
    <3> QED
      BY <3>1, <3>2
  <2> QED
    BY <1>9, <2>1, <2>4, <2>5, ForItemTyped DEF TypeOK, FetchProduct, services, history
<1>10. ASSUME NEW r \in Requests, NEW p \in Products, NEW ok \in BOOLEAN,
              CheckHash(r, p, ok)
       PROVE  TypeOK'
  <2>1. ForItem(r, p, "hash", "price") /\ "price" \in Working
    BY <1>10 DEF CheckHash, Working
  <2>2. PICK bad \in Nat : seen' = [seen EXCEPT ![r].hashBad = @ + bad]
    BY <1>10 DEF CheckHash, Penalty
  <2>3. seen' \in [Requests -> [hashBad : Nat, priceBad : Nat, live : Nat]]
    <3>1. seen \in [Requests -> [hashBad : Nat, priceBad : Nat, live : Nat]]
      BY DEF TypeOK
    <3> QED
      BY <2>2, <3>1
  <2> QED
    BY <1>10, <2>1, <2>3, ForItemTyped DEF TypeOK, CheckHash, services, history
<1>11. ASSUME NEW r \in Requests, NEW p \in Products, NEW ok \in BOOLEAN,
              CheckPrice(r, p, ok)
       PROVE  TypeOK'
  <2>1. ForItem(r, p, "price", "decide") /\ "decide" \in Working
    BY <1>11 DEF CheckPrice, Working
  <2>2. PICK bad \in Nat, live \in Nat :
           seen' = [seen EXCEPT ![r] = [hashBad |-> @.hashBad,
                                        priceBad |-> @.priceBad + bad,
                                        live |-> @.live + live]]
    <3> DEFINE live == IF ok THEN price[p] ELSE 0
    <3>1. live \in Nat /\ units[r][p] \in Nat
      BY NumbersTyped
    <3>2. Penalty(live # quote[r][p], 1) \in Nat
      BY DEF Penalty
    <3>3. live * units[r][p] \in Nat
      BY <3>1
    <3> QED
      BY <1>11, <3>2, <3>3 DEF CheckPrice
  <2>3. seen' \in [Requests -> [hashBad : Nat, priceBad : Nat, live : Nat]]
    <3>1. seen \in [Requests -> [hashBad : Nat, priceBad : Nat, live : Nat]]
      BY DEF TypeOK
    <3>2. [hashBad |-> seen[r].hashBad, priceBad |-> seen[r].priceBad + bad,
           live |-> seen[r].live + live] \in [hashBad : Nat, priceBad : Nat, live : Nat]
      BY NumbersTyped
    <3> QED
      BY <2>2, <3>1, <3>2
  <2> QED
    BY <1>11, <2>1, <2>3, ForItemTyped DEF TypeOK, CheckPrice, services, history
<1>12. ASSUME NEW r \in Requests, Approve(r) PROVE TypeOK'
  <2>1. Key(r) \in Users \X Nat
    BY UsersOfRequests DEF Key, TypeOK
  <2> QED
    BY <1>12, <2>1 DEF TypeOK, Approve, Move, locals, history, Working
<1>13. ASSUME NEW r \in Requests, Refuse(r) PROVE TypeOK'
  BY <1>13 DEF TypeOK, Refuse, Move, locals, history, Answered
<1>14. ASSUME NEW r \in Requests, SaveAndSendClear(r) PROVE TypeOK'
  BY <1>14 DEF TypeOK, SaveAndSendClear, Move, locals, history, Working
<1>15. ASSUME NEW r \in Requests, ExecuteClear(r) PROVE TypeOK'
  <2>1. NoUnits \in [Products -> Nat]
    BY DEF NoUnits
  <2>2. /\ cart' \in [Users -> [Products -> Nat]]
        /\ pc' \in [Requests -> {"new", "waiting"} \cup Working \cup Answered]
        /\ clears' \subseteq Requests
    BY <1>15, <2>1 DEF TypeOK, ExecuteClear, Working
  <2> QED
    BY <1>15, <2>2 DEF TypeOK, ExecuteClear, locals, history
<1>16. ASSUME NEW r \in Requests, LoseClear(r) PROVE TypeOK'
  <2>1. clears' \subseteq Requests
    BY <1>16 DEF TypeOK, LoseClear
  <2>2. UNCHANGED <<cart, price, orders, approved, pendingAuth, pc, locals, history>>
    BY <1>16 DEF LoseClear
  <2> QED
    BY <2>1, <2>2 DEF TypeOK, locals, history
<1>17. ASSUME NEW r \in Requests, Commit(r) PROVE TypeOK'
  <2>1. UserOf[r] \in Users
    BY UsersOfRequests
  <2>2. /\ units[r] \in [Products -> Nat] /\ quote[r] \in [Products -> Nat]
        /\ total[r] \in Nat
    BY DEF TypeOK
  <2>3. orders' \subseteq OrderRow
    <3>1. orders \subseteq OrderRow
      BY DEF TypeOK
    <3> QED
      BY <1>17, <2>1, <2>2, <3>1 DEF Commit, OrderRow
  <2>4. sold' \in [Users -> [Products -> Nat]]
    <3>1. sold \in [Users -> [Products -> Nat]]
      BY DEF TypeOK
    <3> QED
      BY <1>17, <2>1, <2>2, <3>1 DEF Commit
  <2>5. pc' \in [Requests -> {"new", "waiting"} \cup Working \cup Answered]
    BY <1>17 DEF TypeOK, Commit, Move, Answered
  <2>6. UNCHANGED <<cart, price, approved, pendingAuth, clears, locals,
                    added, removed, calm>>
    BY <1>17 DEF Commit
  <2> QED
    BY <2>3, <2>4, <2>5, <2>6 DEF TypeOK, locals
<1>18. ASSUME NEW r \in Requests, Fail(r) PROVE TypeOK'
  BY <1>18 DEF TypeOK, Fail, RollBack, services, locals, Answered
<1>19. CASE UNCHANGED vars
  BY <1>19 DEF TypeOK, vars
<1> QED
  BY <1>1, <1>2, <1>3, <1>4, <1>5, <1>6, <1>7, <1>8, <1>9, <1>10, <1>11, <1>12,
     <1>13, <1>14, <1>15, <1>16, <1>17, <1>18, <1>19, NextCases

(* The state of carts, catalog, orders, gate and requests is well typed in
   every reachable state. *)
THEOREM TypeCorrect == Spec => []TypeOK
  BY InitTypeOK, NextTypeOK, PTL DEF Spec
-----------------------------------------------------------------------------
(***************************************************************************)
(* A unit is ordered at most once if the checkouts of each customer follow *)
(* one another, as the pool of one connection makes them.  That sold units *)
(* were added is not inductive: a request orders what it read from the     *)
(* cart several steps earlier.  The invariant follows the units on that    *)
(* way.                                                                    *)
(***************************************************************************)

(* Requests that have read the cart: before, and after their clear. *)
ReadCart == {"fetch", "gate", "hash", "price", "decide", "save", "clearing"}

(* No two checkouts of one customer overlap.  The pool of one connection sees to
   it; with a larger pool it would be up to the customers. *)
OneAtATime == \A r, s \in Holders : UserOf[r] = UserOf[s] => r = s

CartIsUnsold ==
  \A u \in Users, p \in Products : sold[u][p] + cart[u][p] <= added[u][p]

ReadUnitsAreUnsold ==
  \A r \in Requests : pc[r] \in ReadCart =>
    \A p \in Products : sold[UserOf[r]][p] + units[r][p] <= added[UserOf[r]][p]

ClearedUnitsAreGone ==
  \A r \in Requests : pc[r] = "cleared" =>
    \A p \in Products :
      sold[UserOf[r]][p] + units[r][p] + cart[UserOf[r]][p] <= added[UserOf[r]][p]

OrdersAreAnswered == \A o \in orders : pc[o.id] = "ok"

SomethingOrdered ==
  \A r \in Requests : pc[r] \in ReadCart \cup {"cleared"} => Ordered(r) # {}

UnitsBounded == \A u \in Users, p \in Products : added[u][p] <= MaxUnits

OrderInv ==
  /\ TypeOK
  /\ OneAtATime
  /\ CartIsUnsold
  /\ ReadUnitsAreUnsold
  /\ ClearedUnitsAreGone
  /\ OrdersAreAnswered
  /\ SomethingOrdered
  /\ UnitsBounded

(* Initially there are no units anywhere. *)
LEMMA InitOrderInv == Init => OrderInv
<1> SUFFICES ASSUME Init PROVE OrderInv
  OBVIOUS
<1>1. TypeOK
  BY InitTypeOK
<1>2. \A r \in Requests : pc[r] = "new"
  BY DEF Init
<1>3. Holders = {}
  BY <1>2 DEF Holders, Working
<1>4. OneAtATime
  BY <1>3 DEF OneAtATime
<1>5. CartIsUnsold /\ UnitsBounded
  BY SizesNatural DEF Init, NoUnits, CartIsUnsold, UnitsBounded
<1>6. ReadUnitsAreUnsold /\ ClearedUnitsAreGone /\ SomethingOrdered
  BY <1>2 DEF ReadUnitsAreUnsold, ClearedUnitsAreGone, SomethingOrdered, ReadCart
<1>7. OrdersAreAnswered
  BY DEF Init, OrdersAreAnswered
<1> QED
  BY <1>1, <1>4, <1>5, <1>6, <1>7 DEF OrderInv

(* A step in which no unit moves and no request comes closer to its commit
   than it already was. *)
LEMMA QuietStep ==
  ASSUME OrderInv, TypeOK', UNCHANGED <<cart, added, sold, orders, units>>,
         OneAtATime',
         \A r \in Requests : /\ pc'[r] \in ReadCart => pc[r] \in ReadCart
                             /\ pc'[r] = "cleared" => pc[r] = "cleared"
                             /\ pc[r] = "ok" => pc'[r] = "ok"
  PROVE  OrderInv'
<1>1. CartIsUnsold' /\ UnitsBounded'
  BY DEF OrderInv, CartIsUnsold, UnitsBounded
<1>2. ReadUnitsAreUnsold'
  BY DEF OrderInv, ReadUnitsAreUnsold
<1>3. ClearedUnitsAreGone'
  BY DEF OrderInv, ClearedUnitsAreGone
<1>4. OrdersAreAnswered'
  <2>1. \A o \in orders : o.id \in Requests
    BY DEF OrderInv, TypeOK, OrderRow
  <2> QED
    BY <2>1 DEF OrderInv, OrdersAreAnswered
<1>5. SomethingOrdered'
  BY DEF OrderInv, SomethingOrdered, Ordered
<1> QED
  BY <1>1, <1>2, <1>3, <1>4, <1>5 DEF OrderInv

(* No request starts working: still at most one of each customer does. *)
LEMMA NoNewHolder ==
  ASSUME OrderInv,
         \A r \in Requests : pc'[r] \in Working => pc[r] \in Working
  PROVE  OneAtATime'
  BY DEF OrderInv, OneAtATime, Holders

(* One request moves on, from and to the given sets of places. *)
LEMMA MoveQuietly ==
  ASSUME OrderInv, TypeOK', UNCHANGED <<cart, added, sold, orders, units>>,
         NEW r \in Requests, NEW to, pc[r] # "ok",
         to \in Working => pc[r] \in Working,
         to \in ReadCart => pc[r] \in ReadCart,
         to # "cleared",
         pc' = [pc EXCEPT ![r] = to]
  PROVE  OrderInv'
<1>1. \A s \in Requests : pc'[s] = IF s = r THEN to ELSE pc[s]
  BY DEF OrderInv, TypeOK
<1>2. OneAtATime'
  BY <1>1, NoNewHolder
<1> QED
  BY <1>1, <1>2, QuietStep

(* The customer edits the cart: what enters it is counted as added. *)
LEMMA CartEdit ==
  ASSUME OrderInv, TypeOK', UNCHANGED <<pc, sold, orders, units>>, UnitsBounded',
         \A u \in Users, p \in Products :
            /\ added[u][p] <= added'[u][p]
            /\ cart'[u][p] - cart[u][p] <= added'[u][p] - added[u][p]
  PROVE  OrderInv'
<1>1. /\ \A u \in Users, p \in Products :
            /\ cart[u][p] \in Nat /\ cart'[u][p] \in Nat
            /\ added[u][p] \in Nat /\ added'[u][p] \in Nat
            /\ sold[u][p] \in Nat
      /\ \A r \in Requests, p \in Products : units[r][p] \in Nat
      /\ \A r \in Requests : UserOf[r] \in Users
  BY UsersOfRequests DEF OrderInv, TypeOK
<1>2. OneAtATime'
  BY NoNewHolder
<1>3. CartIsUnsold'
  BY <1>1 DEF OrderInv, CartIsUnsold
<1>4. ReadUnitsAreUnsold'
  BY <1>1 DEF OrderInv, ReadUnitsAreUnsold
<1>5. ClearedUnitsAreGone'
  BY <1>1 DEF OrderInv, ClearedUnitsAreGone
<1>6. OrdersAreAnswered' /\ SomethingOrdered'
  BY DEF OrderInv, OrdersAreAnswered, SomethingOrdered, Ordered
<1> QED
  BY <1>2, <1>3, <1>4, <1>5, <1>6 DEF OrderInv

(* The pool of one lets a transaction start only when none holds the connection. *)
LEMMA BeginIsAlone ==
  ASSUME PoolSize = 1, TypeOK, NEW r \in Requests, Begin(r)
  PROVE  OneAtATime'
<1>1. Holders = {}
  <2>1. IsFiniteSet(Holders)
    BY RequestsFinite, FS_Subset DEF Holders
  <2>2. Cardinality(Holders) \in Nat /\ Cardinality(Holders) < 1
    BY <2>1, FS_CardinalityType DEF Begin
  <2> QED
    BY <2>1, <2>2, FS_EmptySet
<1>2. \A s \in Requests : pc'[s] = IF s = r THEN "getCart" ELSE pc[s]
  BY DEF Begin, Move, TypeOK
<1> QED
  BY <1>1, <1>2 DEF OneAtATime, Holders

(* A request that starts working has read nothing yet. *)
LEMMA BeginKeepsOrderInv ==
  ASSUME OrderInv, TypeOK', OneAtATime', NEW r \in Requests, Begin(r)
  PROVE  OrderInv'
<1>1. \A s \in Requests : pc'[s] = IF s = r THEN "getCart" ELSE pc[s]
  BY DEF Begin, Move, OrderInv, TypeOK
<1>2. pc[r] = "waiting" /\ UNCHANGED <<cart, added, sold, orders, units>>
  BY DEF Begin, Move, services, locals, history
<1> QED
  BY <1>1, <1>2, QuietStep DEF ReadCart

(* What the cart holds when it is read has not been sold. *)
LEMMA GetCartKeepsOrderInv ==
  ASSUME OrderInv, TypeOK', NEW r \in Requests, GetCart(r)
  PROVE  OrderInv'
<1> DEFINE u == UserOf[r]
<1>1. u \in Users
  BY UsersOfRequests
<1>2. \A s \in Requests : /\ pc'[s] = IF s = r THEN "fetch" ELSE pc[s]
                          /\ units'[s] = IF s = r THEN cart[u] ELSE units[s]
  BY DEF GetCart, Move, OrderInv, TypeOK
<1>3. pc[r] = "getCart" /\ UNCHANGED <<cart, added, sold, orders>>
  BY DEF GetCart, Move, services, history
<1>4. OneAtATime'
  BY <1>2, <1>3, NoNewHolder DEF Working
<1>5. CartIsUnsold' /\ UnitsBounded'
  BY <1>3 DEF OrderInv, CartIsUnsold, UnitsBounded
<1>6. ReadUnitsAreUnsold'
  BY <1>1, <1>2, <1>3 DEF OrderInv, ReadUnitsAreUnsold, CartIsUnsold
<1>7. ClearedUnitsAreGone'
  BY <1>2, <1>3 DEF OrderInv, ClearedUnitsAreGone
<1>8. OrdersAreAnswered'
  BY <1>2, <1>3 DEF OrderInv, OrdersAreAnswered, TypeOK, OrderRow
<1>9. SomethingOrdered'
  <2>1. Ordered(r)' # {}
    BY <1>2 DEF GetCart, InCart, Ordered
  <2>2. \A s \in Requests : s # r => Ordered(s)' = Ordered(s) /\ pc'[s] = pc[s]
    BY <1>2 DEF Ordered
  <2> QED
    BY <2>1, <2>2 DEF OrderInv, SomethingOrdered, Ordered
<1> QED
  BY <1>4, <1>5, <1>6, <1>7, <1>8, <1>9 DEF OrderInv

(* An executed clear empties the cart of its customer; the request that waited
   for it now holds the only claim on the units it read. *)
LEMMA ExecuteClearKeepsOrderInv ==
  ASSUME OrderInv, TypeOK', NEW r \in Requests, ExecuteClear(r)
  PROVE  OrderInv'
<1> DEFINE u == UserOf[r]
<1>1. /\ u \in Users
      /\ \A v \in Users, p \in Products :
            cart[v][p] \in Nat /\ added[v][p] \in Nat /\ sold[v][p] \in Nat
      /\ \A s \in Requests, p \in Products : units[s][p] \in Nat
      /\ \A s \in Requests : UserOf[s] \in Users
  BY UsersOfRequests DEF OrderInv, TypeOK
<1>2. /\ UNCHANGED <<added, sold, orders, units>>
      /\ \A v \in Users, p \in Products :
            cart'[v][p] = IF v = u THEN 0 ELSE cart[v][p]
      /\ \A s \in Requests : pc'[s] = IF s = r /\ pc[r] = "clearing" THEN "cleared" ELSE pc[s]
  BY <1>1 DEF ExecuteClear, NoUnits, locals, history, OrderInv, TypeOK
<1>3. OneAtATime'
  BY <1>2, NoNewHolder DEF Working
<1>4. CartIsUnsold' /\ UnitsBounded'
  BY <1>1, <1>2 DEF OrderInv, CartIsUnsold, UnitsBounded
<1>5. ReadUnitsAreUnsold'
  BY <1>2 DEF OrderInv, ReadUnitsAreUnsold, ReadCart
<1>6. ClearedUnitsAreGone'
  <2> SUFFICES ASSUME NEW s \in Requests, pc'[s] = "cleared", NEW p \in Products
               PROVE  sold[UserOf[s]][p] + units[s][p] + cart'[UserOf[s]][p]
                        <= added[UserOf[s]][p]
    BY <1>2 DEF ClearedUnitsAreGone
  <2>1. CASE pc[s] = "cleared"
    BY <1>1, <1>2, <2>1 DEF OrderInv, ClearedUnitsAreGone
  <2>2. CASE pc[s] # "cleared"
    <3>1. s = r /\ pc[r] = "clearing"
      BY <1>2, <2>2
    <3> QED
      BY <1>1, <1>2, <3>1 DEF OrderInv, ReadUnitsAreUnsold, ReadCart
  <2> QED
    BY <2>1, <2>2
<1>7. OrdersAreAnswered'
  BY <1>2 DEF OrderInv, OrdersAreAnswered, TypeOK, OrderRow
<1>8. SomethingOrdered'
  BY <1>2 DEF OrderInv, SomethingOrdered, Ordered, ReadCart
<1> QED
  BY <1>3, <1>4, <1>5, <1>6, <1>7, <1>8 DEF OrderInv

(* A commit sells the units of the one request of its customer that works. *)
LEMMA CommitKeepsOrderInv ==
  ASSUME OrderInv, TypeOK', NEW r \in Requests, Commit(r)
  PROVE  OrderInv'
<1> DEFINE u == UserOf[r]
<1>1. /\ u \in Users
      /\ \A v \in Users, p \in Products :
            cart[v][p] \in Nat /\ added[v][p] \in Nat /\ sold[v][p] \in Nat
      /\ \A s \in Requests, p \in Products : units[s][p] \in Nat
      /\ \A s \in Requests : UserOf[s] \in Users
  BY UsersOfRequests DEF OrderInv, TypeOK
<1>2. /\ pc[r] = "cleared"
      /\ \A s \in Requests : pc'[s] = IF s = r THEN "ok" ELSE pc[s]
      /\ UNCHANGED <<cart, added, units>>
      /\ \A v \in Users, p \in Products :
            sold'[v][p] = IF v = u THEN sold[u][p] + units[r][p] ELSE sold[v][p]
  BY <1>1 DEF Commit, Move, locals, OrderInv, TypeOK
<1>3. \A s \in Requests : pc'[s] \in Working => pc[s] = pc'[s] /\ UserOf[s] # u
  BY <1>2 DEF OrderInv, OneAtATime, Holders, Working
<1>4. OneAtATime'
  BY <1>3, NoNewHolder
<1>5. CartIsUnsold' /\ UnitsBounded'
  BY <1>1, <1>2 DEF OrderInv, CartIsUnsold, UnitsBounded, ClearedUnitsAreGone
<1>6. ReadUnitsAreUnsold' /\ ClearedUnitsAreGone' /\ SomethingOrdered'
  BY <1>1, <1>2, <1>3 DEF OrderInv, ReadUnitsAreUnsold, ClearedUnitsAreGone,
                          SomethingOrdered, Ordered, ReadCart, Working
<1>7. OrdersAreAnswered'
  <2>1. \A o \in orders' : o \in orders \/ o.id = r
    BY DEF Commit
  <2>2. \A o \in orders : o.id \in Requests
    BY DEF OrderInv, TypeOK, OrderRow
  <2> QED
    BY <1>2, <2>1, <2>2 DEF OrderInv, OrdersAreAnswered
<1> QED
  BY <1>4, <1>5, <1>6, <1>7 DEF OrderInv

(* Every step of order placement keeps the invariant, if no checkout begins
   beside another one of the same customer. *)
LEMMA NextOrderInv ==
  ASSUME OrderInv, [Next]_vars, (\E r \in Requests : Begin(r)) => OneAtATime'
  PROVE  OrderInv'
<1>0. TypeOK'
  BY NextTypeOK DEF OrderInv
<1>1. ASSUME NEW u \in Users, NEW p \in Products, NEW n \in 1..MaxUnits,
             AddItem(u, p, n)
      PROVE  OrderInv'
  <2>1. /\ UNCHANGED <<pc, sold, orders, units>>
        /\ \A v \in Users, q \in Products :
              IF v = u /\ q = p
                THEN /\ cart'[v][q] = cart[v][q] + n
                     /\ added'[v][q] = added[v][q] + n
                     /\ added[v][q] + n <= MaxUnits
                ELSE cart'[v][q] = cart[v][q] /\ added'[v][q] = added[v][q]
        /\ \A v \in Users, q \in Products : cart[v][q] \in Nat /\ added[v][q] \in Nat
    BY <1>1 DEF AddItem, locals, OrderInv, TypeOK
  <2>2. UnitsBounded'
    BY <2>1, SizesNatural DEF OrderInv, UnitsBounded
  <2> QED
    BY <1>0, <2>1, <2>2, CartEdit
<1>2. ASSUME NEW u \in Users, NEW p \in Products, NEW n \in 0..MaxUnits,
             SetQuantity(u, p, n)
      PROVE  OrderInv'
  <2> DEFINE more == IF n > cart[u][p] THEN n - cart[u][p] ELSE 0
  <2>1. /\ UNCHANGED <<pc, sold, orders, units>>
        /\ \A v \in Users, q \in Products :
              IF v = u /\ q = p
                THEN /\ cart'[v][q] = n
                     /\ added'[v][q] = added[v][q] + more
                     /\ added[v][q] + more <= MaxUnits
                ELSE cart'[v][q] = cart[v][q] /\ added'[v][q] = added[v][q]
        /\ \A v \in Users, q \in Products : cart[v][q] \in Nat /\ added[v][q] \in Nat
    BY <1>2 DEF SetQuantity, locals, OrderInv, TypeOK
  <2>2. more \in Nat /\ n - cart[u][p] <= more
    BY <2>1, SizesNatural
  <2>3. UnitsBounded'
    BY <2>1, <2>2, SizesNatural DEF OrderInv, UnitsBounded
  <2> HIDE DEF more
  <2> QED
    BY <1>0, <2>1, <2>2, <2>3, CartEdit
<1>3. ASSUME NEW u \in Users, EmptyOwnCart(u) PROVE OrderInv'
  <2>1. /\ UNCHANGED <<pc, sold, orders, units, added>>
        /\ \A v \in Users, q \in Products :
              cart'[v][q] = IF v = u THEN 0 ELSE cart[v][q]
        /\ \A v \in Users, q \in Products : cart[v][q] \in Nat /\ added[v][q] \in Nat
    BY <1>3 DEF EmptyOwnCart, NoUnits, locals, OrderInv, TypeOK
  <2>2. UnitsBounded'
    BY <2>1 DEF OrderInv, UnitsBounded
  <2> QED
    BY <1>0, <2>1, <2>2, CartEdit
<1>4. ASSUME NEW p \in Products, NEW x \in Prices, SetPrice(p, x) PROVE OrderInv'
  <2>1. UNCHANGED <<cart, added, sold, orders, units, pc>>
    BY <1>4 DEF SetPrice, locals, history
  <2> QED
    BY <1>0, <2>1, NoNewHolder, QuietStep
<1>5. ASSUME NEW k \in approved, ExpireApproval(k) PROVE OrderInv'
  <2>1. UNCHANGED <<cart, added, sold, orders, units, pc>>
    BY <1>5 DEF ExpireApproval, locals, history
  <2> QED
    BY <1>0, <2>1, NoNewHolder, QuietStep
<1>6. CASE Crash
  <2>1. /\ UNCHANGED <<cart, added, sold, orders, units>>
        /\ \A s \in Requests :
              \/ pc'[s] = pc[s]
              \/ pc'[s] = "failed" /\ pc[s] \in Working \cup {"waiting"}
    BY <1>6 DEF Crash, RollBack, locals
  <2>2. OneAtATime'
    BY <2>1, NoNewHolder DEF Working
  <2> QED
    BY <1>0, <2>1, <2>2, QuietStep DEF Working, ReadCart
<1>7. ASSUME NEW r \in Requests,
             \/ Submit(r) \/ RejectSignature(r) \/ PoolTimeout(r) \/ EmptyCart(r)
             \/ GateCacheHit(r) \/ GateCacheMiss(r) \/ Approve(r) \/ Refuse(r)
             \/ SaveAndSendClear(r)
      PROVE  OrderInv'
  <2>1. UNCHANGED <<cart, added, sold, orders, units>>
    BY <1>7 DEF Submit, RejectSignature, PoolTimeout, EmptyCart, GateCacheHit,
                GateCacheMiss, Approve, Refuse, SaveAndSendClear,
                services, locals, history
  <2>2. \/ /\ pc[r] \in {"new", "waiting", "getCart"}
           /\ \E to \in {"waiting", "refused", "failed"} : Move(r, pc[r], to)
        \/ /\ pc[r] \in {"gate", "decide", "save"}
           /\ \E to \in {"save", "hash", "refused", "clearing"} : Move(r, pc[r], to)
    BY <1>7 DEF Submit, RejectSignature, PoolTimeout, EmptyCart, GateCacheHit,
                GateCacheMiss, Approve, Refuse, SaveAndSendClear, Move
  <2>3. PICK to \in {"waiting", "refused", "failed", "save", "hash", "clearing"} :
           /\ pc' = [pc EXCEPT ![r] = to]
           /\ pc[r] # "ok"
           /\ to \in Working => pc[r] \in Working
           /\ to \in ReadCart => pc[r] \in ReadCart
    BY <2>2 DEF Move, Working, ReadCart
  <2> QED
    BY <1>0, <2>1, <2>3, MoveQuietly
<1>8. ASSUME NEW r \in Requests, Begin(r) PROVE OrderInv'
  BY <1>0, <1>8, BeginKeepsOrderInv
<1>9. ASSUME NEW r \in Requests, GetCart(r) PROVE OrderInv'
  BY <1>0, <1>9, GetCartKeepsOrderInv
<1>10. ASSUME NEW r \in Requests, NEW p \in Products,
              NEW here \in {"fetch", "hash", "price"},
              NEW next \in {"gate", "price", "decide"},
              ForItem(r, p, here, next),
              UNCHANGED <<cart, added, sold, orders, units>>
       PROVE  OrderInv'
  <2>1. CASE UNCHANGED pc
    BY <1>0, <1>10, <2>1, NoNewHolder, QuietStep
  <2>2. CASE Move(r, here, next)
    BY <1>0, <1>10, <2>2, MoveQuietly DEF Move, Working, ReadCart
  <2> QED
    BY <1>10, <2>1, <2>2 DEF ForItem
<1>11. ASSUME NEW r \in Requests, NEW p \in Products, FetchProduct(r, p) PROVE OrderInv'
  BY <1>10, <1>11 DEF FetchProduct, services, history
<1>12. ASSUME NEW r \in Requests, NEW p \in Products, NEW ok \in BOOLEAN,
              CheckHash(r, p, ok)
       PROVE  OrderInv'
  BY <1>10, <1>12 DEF CheckHash, services, history
<1>13. ASSUME NEW r \in Requests, NEW p \in Products, NEW ok \in BOOLEAN,
              CheckPrice(r, p, ok)
       PROVE  OrderInv'
  BY <1>10, <1>13 DEF CheckPrice, services, history
<1>14. ASSUME NEW r \in Requests, ExecuteClear(r) PROVE OrderInv'
  BY <1>0, <1>14, ExecuteClearKeepsOrderInv
<1>15. ASSUME NEW r \in Requests, LoseClear(r) PROVE OrderInv'
  <2>1. UNCHANGED <<cart, added, sold, orders, units, pc>>
    BY <1>15 DEF LoseClear, locals, history
  <2> QED
    BY <1>0, <2>1, NoNewHolder, QuietStep
<1>16. ASSUME NEW r \in Requests, Commit(r) PROVE OrderInv'
  BY <1>0, <1>16, CommitKeepsOrderInv
<1>17. ASSUME NEW r \in Requests, Fail(r) PROVE OrderInv'
  <2>1. /\ UNCHANGED <<cart, added, sold, orders, units>>
        /\ \A s \in Requests :
              \/ pc'[s] = pc[s]
              \/ pc'[s] = "failed" /\ pc[s] \in Working
    BY <1>17 DEF Fail, RollBack, services, locals, Working
  <2>2. OneAtATime'
    BY <2>1, NoNewHolder DEF Working
  <2> QED
    BY <1>0, <2>1, <2>2, QuietStep DEF Working, ReadCart
<1>18. CASE UNCHANGED vars
  <2>1. UNCHANGED <<cart, added, sold, orders, units, pc>>
    BY <1>18 DEF vars
  <2> QED
    BY <1>0, <2>1, NoNewHolder, QuietStep
<1> QED
  BY <1>1, <1>2, <1>3, <1>4, <1>5, <1>6, <1>7, <1>8, <1>9, <1>11, <1>12, <1>13,
     <1>14, <1>15, <1>16, <1>17, <1>18, NextCases

(* The pool of one connection, as application.yml sets it, keeps the checkouts of
   every customer apart. *)
THEOREM PoolOfOneSerializes == ASSUME PoolSize = 1 PROVE Spec => []OneAtATime
<1>1. OrderInv /\ [Next]_vars => OrderInv'
  BY NextOrderInv, BeginIsAlone DEF OrderInv
<1>2. OrderInv => OneAtATime
  BY DEF OrderInv
<1> QED
  BY <1>1, <1>2, InitOrderInv, PTL DEF Spec

(* Checkouts that do not overlap, however it comes about, keep the invariant. *)
LEMMA SerialOrderInv == Spec /\ []OneAtATime => []OrderInv
<1>1. OrderInv /\ OneAtATime' /\ [Next]_vars => OrderInv'
  BY NextOrderInv
<1> QED
  BY <1>1, InitOrderInv, PTL DEF Spec

(* No unit is ever ordered twice as long as the checkouts of each customer do not
   overlap, for any size of the pool and any number of customers at once: that is
   all that the pool of one is needed for. *)
THEOREM SerialAtMostOnce == Spec /\ []OneAtATime => []OrderedAtMostOnce
<1>1. OrderInv => OrderedAtMostOnce
  <2> SUFFICES ASSUME OrderInv, NEW u \in Users, NEW p \in Products
               PROVE  sold[u][p] <= added[u][p]
    BY DEF OrderedAtMostOnce
  <2>1. cart[u][p] \in Nat /\ sold[u][p] \in Nat /\ added[u][p] \in Nat
    BY DEF OrderInv, TypeOK
  <2> QED
    BY <2>1 DEF OrderInv, CartIsUnsold
<1> QED
  BY <1>1, SerialOrderInv, PTL

(* With a pool of one connection, as application.yml sets it, no unit is ever
   ordered twice, for any number of customers, requests and products. *)
THEOREM AtMostOnce == ASSUME PoolSize = 1 PROVE Spec => []OrderedAtMostOnce
  BY PoolOfOneSerializes, SerialAtMostOnce, PTL

(* A commit places an order of the ledger. *)
LEMMA CommitPlaces ==
  ASSUME OrderInv, NEW r \in Requests, Commit(r)
  PROVE  Ledger!Place(r)
<1> DEFINE u == UserOf[r]
           bag == units[r]
<1>1. /\ u \in Users
      /\ \A p \in Products : /\ cart[u][p] \in Nat /\ added[u][p] \in Nat
                             /\ sold[u][p] \in Nat /\ bag[p] \in Nat
      /\ bag \in [Products -> Nat]
  BY UsersOfRequests DEF OrderInv, TypeOK
<1>2. pc[r] = "cleared" /\ added' = added
  BY DEF Commit, Move
<1>3. r \notin {o.id : o \in orders}
  <2>1. \A o \in orders : pc[o.id] = "ok"
    BY DEF OrderInv, OrdersAreAnswered
  <2> QED
    BY <1>2, <2>1
<1>4. {o.id : o \in orders'} = {o.id : o \in orders} \cup {r}
  <2>1. PICK row : row.id = r /\ orders' = orders \cup {row}
    BY DEF Commit
  <2> QED
    BY <2>1
<1>5. \A p \in Products : sold[u][p] + bag[p] <= added[u][p]
  BY <1>1, <1>2 DEF OrderInv, ClearedUnitsAreGone
<1>6. bag \in [Products -> 0..MaxUnits]
  BY <1>1, <1>5, SizesNatural DEF OrderInv, UnitsBounded
<1>7. \E p \in Products : bag[p] # 0
  <2>1. Ordered(r) # {}
    BY <1>2 DEF OrderInv, SomethingOrdered
  <2> QED
    BY <1>1, <2>1 DEF Ordered
<1>8. sold' = [sold EXCEPT ![u] = [p \in Products |-> sold[u][p] + bag[p]]]
  BY DEF Commit
<1> HIDE DEF bag
<1> QED
  BY <1>2, <1>3, <1>4, <1>5, <1>6, <1>7, <1>8 DEF Ledger!Place

(* Adding to the cart adds to the ledger, a commit places an order, and every
   other step leaves the ledger alone. *)
LEMMA StepImplementsLedger ==
  OrderInv /\ [Next]_vars => [Ledger!Next]_Ledger!vars
<1> SUFFICES ASSUME OrderInv, [Next]_vars PROVE [Ledger!Next]_Ledger!vars
  OBVIOUS
<1>1. ASSUME UNCHANGED <<orders, added, sold>> PROVE UNCHANGED Ledger!vars
  BY <1>1 DEF Ledger!vars
<1>2. ASSUME NEW u \in Users, NEW p \in Products, NEW n \in 1..MaxUnits,
             AddItem(u, p, n)
      PROVE  Ledger!Add(u, p)
  <2>1. n \in 0..MaxUnits
    BY SizesNatural
  <2> QED
    BY <1>2, <2>1 DEF AddItem, Ledger!Add
<1>3. ASSUME NEW u \in Users, NEW p \in Products, NEW n \in 0..MaxUnits,
             SetQuantity(u, p, n)
      PROVE  Ledger!Add(u, p)
  <2> DEFINE more == IF n > cart[u][p] THEN n - cart[u][p] ELSE 0
  <2>1. cart[u][p] \in Nat /\ added[u][p] \in Nat
    BY DEF OrderInv, TypeOK
  <2>2. more \in 0..MaxUnits
    BY <2>1, SizesNatural
  <2>3. added' = [added EXCEPT ![u][p] = @ + more] /\ UNCHANGED <<sold, orders>>
    BY <1>3 DEF SetQuantity
  <2> HIDE DEF more
  <2> QED
    BY <2>2, <2>3 DEF Ledger!Add
<1>4. ASSUME NEW r \in Requests, Commit(r) PROVE Ledger!Place(r)
  BY <1>4, CommitPlaces
<1>5. ASSUME \/ \E u \in Users : EmptyOwnCart(u)
             \/ \E p \in Products, x \in Prices : SetPrice(p, x)
             \/ \E k \in approved : ExpireApproval(k)
             \/ Crash
      PROVE  UNCHANGED Ledger!vars
  BY <1>1, <1>5 DEF EmptyOwnCart, SetPrice, ExpireApproval, Crash, locals, history
<1>6. ASSUME NEW r \in Requests,
             \/ Submit(r) \/ RejectSignature(r) \/ Begin(r) \/ PoolTimeout(r)
             \/ GetCart(r) \/ EmptyCart(r) \/ GateCacheHit(r) \/ GateCacheMiss(r)
             \/ Approve(r) \/ Refuse(r) \/ SaveAndSendClear(r)
             \/ ExecuteClear(r) \/ LoseClear(r) \/ Fail(r)
      PROVE  UNCHANGED Ledger!vars
  BY <1>1, <1>6 DEF Submit, RejectSignature, Begin, PoolTimeout, GetCart, EmptyCart,
                    GateCacheHit, GateCacheMiss, Approve, Refuse, SaveAndSendClear,
                    ExecuteClear, LoseClear, Fail, services, locals, history
<1>7. ASSUME NEW r \in Requests, NEW p \in Products, NEW ok \in BOOLEAN,
             FetchProduct(r, p) \/ CheckHash(r, p, ok) \/ CheckPrice(r, p, ok)
      PROVE  UNCHANGED Ledger!vars
  BY <1>1, <1>7 DEF FetchProduct, CheckHash, CheckPrice, services, history
<1>8. CASE UNCHANGED vars
  BY <1>1, <1>8 DEF vars
<1>9. CASE Next
  <2>1. (\E u \in Users, p \in Products : Ledger!Add(u, p))
          \/ (\E r \in Requests : Ledger!Place(r)) \/ UNCHANGED Ledger!vars
    BY <1>2, <1>3, <1>4, <1>5, <1>6, <1>7, <1>9, NextCases
  <2> QED
    BY <2>1 DEF Ledger!Next
<1> QED
  BY <1>8, <1>9

(* The whole of order placement implements the ledger of units as long as the
   checkouts of each customer do not overlap: what createOrder does over many
   remote calls amounts to taking, in one step and once per request, units that
   were added before. *)
THEOREM SerialImplementsLedger == Spec /\ []OneAtATime => LedgerSpec
<1>1. Init => Ledger!Init
  BY DEF Init, NoUnits, Ledger!Init, Ledger!Empty
<1> QED
  BY <1>1, SerialOrderInv, StepImplementsLedger, PTL DEF Spec, LedgerSpec, Ledger!Spec

(* With a pool of one connection it always does. *)
THEOREM ImplementsLedger == ASSUME PoolSize = 1 PROVE Spec => LedgerSpec
  BY PoolOfOneSerializes, SerialImplementsLedger, PTL
-----------------------------------------------------------------------------
(***************************************************************************)
(* An undisturbed checkout conserves units, if no other one overlaps it.   *)
(* As long as a customer is calm, her request orders what her cart holds   *)
(* until the cart is cleared, and the clear finds that request waiting.    *)
(***************************************************************************)

CalmClearIsAwaited == \A r \in clears : calm[UserOf[r]] => pc[r] = "clearing"

ReadUnitsAreInCart ==
  \A r \in Requests : calm[UserOf[r]] /\ pc[r] \in ReadCart =>
    \A p \in Products : units[r][p] = cart[UserOf[r]][p]

ClearedUnitsAreAllThereIs ==
  \A r \in Requests : calm[UserOf[r]] /\ pc[r] = "cleared" =>
    \A p \in Products :
      /\ cart[UserOf[r]][p] = 0
      /\ sold[UserOf[r]][p] + removed[UserOf[r]][p] + units[r][p] = added[UserOf[r]][p]

CalmInv ==
  /\ CalmClearIsAwaited
  /\ ReadUnitsAreInCart
  /\ ClearedUnitsAreAllThereIs
  /\ CalmCheckoutConservesUnits

(* Initially nothing is anywhere. *)
LEMMA InitCalmInv == Init => CalmInv
<1> SUFFICES ASSUME Init PROVE CalmInv
  OBVIOUS
<1>1. clears = {} /\ \A r \in Requests : pc[r] = "new"
  BY DEF Init
<1>2. \A u \in Users, p \in Products :
         cart[u][p] = 0 /\ sold[u][p] = 0 /\ removed[u][p] = 0 /\ added[u][p] = 0
  BY DEF Init, NoUnits
<1> QED
  BY <1>1, <1>2 DEF CalmInv, CalmClearIsAwaited, ReadUnitsAreInCart,
                    ClearedUnitsAreAllThereIs, CalmCheckoutConservesUnits, ReadCart

(* A step that moves no units: a request that stays calm keeps its cleared
   cart until the commit, and nobody sends or drops a clear unawaited. *)
LEMMA CalmQuietStep ==
  ASSUME OrderInv, CalmInv, UNCHANGED <<cart, added, removed, sold>>,
         \A u \in Users : calm'[u] => calm[u],
         \A r \in clears' : calm'[UserOf[r]] => pc'[r] = "clearing",
         \A r \in Requests :
           /\ pc'[r] \in ReadCart => pc[r] \in ReadCart /\ units'[r] = units[r]
           /\ pc'[r] = "cleared" => pc[r] = "cleared" /\ units'[r] = units[r]
           /\ calm'[UserOf[r]] /\ pc[r] = "cleared" => pc'[r] = "cleared"
  PROVE  CalmInv'
<1>0. \A r \in Requests : UserOf[r] \in Users
  BY UsersOfRequests
<1>1. CalmClearIsAwaited'
  BY DEF CalmClearIsAwaited
<1>2. ReadUnitsAreInCart'
  BY <1>0 DEF CalmInv, ReadUnitsAreInCart
<1>3. ClearedUnitsAreAllThereIs'
  BY <1>0 DEF CalmInv, ClearedUnitsAreAllThereIs
<1>4. CalmCheckoutConservesUnits'
  BY <1>0 DEF CalmInv, CalmCheckoutConservesUnits
<1> QED
  BY <1>1, <1>2, <1>3, <1>4 DEF CalmInv

(* The customer edits her cart: what she adds and takes out is accounted for,
   and she stays calm only if no request of hers has read the cart. *)
LEMMA CalmEdit ==
  ASSUME OrderInv, CalmInv, NEW u \in Users, Disturb(u),
         UNCHANGED <<pc, clears, units, sold>>,
         \A v \in Users, p \in Products :
           IF v = u
             THEN cart'[v][p] + removed'[v][p] - added'[v][p]
                    = cart[v][p] + removed[v][p] - added[v][p]
             ELSE /\ cart'[v][p] = cart[v][p] /\ removed'[v][p] = removed[v][p]
                  /\ added'[v][p] = added[v][p],
         \A p \in Products : /\ cart'[u][p] \in Nat /\ removed'[u][p] \in Nat
                             /\ added'[u][p] \in Nat
  PROVE  CalmInv'
<1>0. /\ \A r \in Requests : UserOf[r] \in Users
      /\ clears \subseteq Requests
      /\ \A v \in Users, p \in Products :
            /\ cart[v][p] \in Nat /\ added[v][p] \in Nat
            /\ sold[v][p] \in Nat /\ removed[v][p] \in Nat
  BY UsersOfRequests DEF OrderInv, TypeOK
<1>1. \A v \in Users : calm'[v] => calm[v] /\ (v = u => ~InCheckout(u))
  BY DEF Disturb, OrderInv, TypeOK
<1>2. \A r \in Requests :
         calm'[UserOf[r]] /\ UserOf[r] = u => pc[r] \notin ReadCart \cup {"cleared"}
  BY <1>1 DEF InCheckout, ReadCart, Working
<1>3. CalmClearIsAwaited'
  BY <1>0, <1>1 DEF CalmInv, CalmClearIsAwaited
<1>4. ReadUnitsAreInCart'
  BY <1>0, <1>1, <1>2 DEF CalmInv, ReadUnitsAreInCart
<1>5. ClearedUnitsAreAllThereIs'
  <2> SUFFICES ASSUME NEW r \in Requests, calm'[UserOf[r]], pc[r] = "cleared",
                      NEW p \in Products
               PROVE  /\ cart'[UserOf[r]][p] = 0
                      /\ sold[UserOf[r]][p] + removed'[UserOf[r]][p] + units[r][p]
                           = added'[UserOf[r]][p]
    BY DEF ClearedUnitsAreAllThereIs
  <2>1. UserOf[r] # u /\ UserOf[r] \in Users /\ calm[UserOf[r]]
    BY <1>0, <1>1, <1>2
  <2> QED
    BY <2>1 DEF CalmInv, ClearedUnitsAreAllThereIs
<1>6. CalmCheckoutConservesUnits'
  <2> SUFFICES ASSUME NEW v \in Users, calm'[v],
                      \A r \in Requests : UserOf[r] = v => pc[r] # "cleared",
                      NEW p \in Products
               PROVE  cart'[v][p] + sold[v][p] + removed'[v][p] = added'[v][p]
    BY DEF CalmCheckoutConservesUnits
  <2>1. cart[v][p] + sold[v][p] + removed[v][p] = added[v][p]
    BY <1>1 DEF CalmInv, CalmCheckoutConservesUnits
  <2>2. CASE v = u
    BY <1>0, <2>1, <2>2
  <2>3. CASE v # u
    BY <2>1, <2>3
  <2> QED
    BY <2>2, <2>3
<1> QED
  BY <1>3, <1>4, <1>5, <1>6 DEF CalmInv

(* A request reads the cart: its units are the ones in the cart. *)
LEMMA GetCartStaysCalm ==
  ASSUME OrderInv, CalmInv, NEW r \in Requests, GetCart(r)
  PROVE  CalmInv'
<1>1. /\ pc[r] = "getCart"
      /\ \A s \in Requests : pc'[s] = IF s = r THEN "fetch" ELSE pc[s]
      /\ \A s \in Requests : units'[s] = IF s = r THEN cart[UserOf[r]] ELSE units[s]
      /\ UNCHANGED <<cart, clears, added, removed, sold, calm>>
  BY DEF GetCart, Move, services, history, OrderInv, TypeOK
<1>2. CalmClearIsAwaited'
  BY <1>1 DEF CalmInv, CalmClearIsAwaited, OrderInv, TypeOK
<1>3. ReadUnitsAreInCart'
  BY <1>1 DEF CalmInv, ReadUnitsAreInCart
<1>4. ClearedUnitsAreAllThereIs'
  BY <1>1 DEF CalmInv, ClearedUnitsAreAllThereIs
<1>5. CalmCheckoutConservesUnits'
  BY <1>1 DEF CalmInv, CalmCheckoutConservesUnits
<1> QED
  BY <1>2, <1>3, <1>4, <1>5 DEF CalmInv

(* A clear of a calm customer finds its request waiting, and takes out of the
   cart what that request has read. *)
LEMMA ExecuteClearStaysCalm ==
  ASSUME OrderInv, CalmInv, NEW r \in Requests, ExecuteClear(r)
  PROVE  CalmInv'
<1> DEFINE u == UserOf[r]
<1>1. /\ u \in Users
      /\ \A s \in Requests : UserOf[s] \in Users
      /\ \A v \in Users, p \in Products :
            /\ cart[v][p] \in Nat /\ added[v][p] \in Nat
            /\ sold[v][p] \in Nat /\ removed[v][p] \in Nat
  BY UsersOfRequests DEF OrderInv, TypeOK
<1>2. /\ r \in clears /\ clears' = clears \ {r} /\ clears \subseteq Requests
      /\ UNCHANGED <<units, added, removed, sold, calm>>
      /\ \A v \in Users, p \in Products :
            cart'[v][p] = IF v = u THEN 0 ELSE cart[v][p]
      /\ \A s \in Requests : pc'[s] = IF s = r /\ pc[r] = "clearing" THEN "cleared" ELSE pc[s]
  BY <1>1 DEF ExecuteClear, NoUnits, locals, history, OrderInv, TypeOK
<1>3. calm[u] => pc[r] = "clearing"
  BY <1>2 DEF CalmInv, CalmClearIsAwaited
<1>4. calm[u] => \A s \in Requests :
        s # r /\ UserOf[s] = u => pc[s] \notin ReadCart \cup {"cleared"}
  BY <1>3 DEF OrderInv, OneAtATime, Holders, Working, ReadCart
<1>5. CalmClearIsAwaited'
  BY <1>2 DEF CalmInv, CalmClearIsAwaited
<1>6. ReadUnitsAreInCart'
  <2> SUFFICES ASSUME NEW s \in Requests, calm[UserOf[s]], pc'[s] \in ReadCart,
                      NEW p \in Products
               PROVE  units[s][p] = cart'[UserOf[s]][p]
    BY <1>2 DEF ReadUnitsAreInCart
  <2>1. pc[s] \in ReadCart
    BY <1>2 DEF ReadCart
  <2>2. UserOf[s] # u
    BY <1>2, <1>3, <1>4, <2>1 DEF ReadCart
  <2> QED
    BY <1>1, <1>2, <2>1, <2>2 DEF CalmInv, ReadUnitsAreInCart
<1>7. ClearedUnitsAreAllThereIs'
  <2> SUFFICES ASSUME NEW s \in Requests, calm[UserOf[s]], pc'[s] = "cleared",
                      NEW p \in Products
               PROVE  /\ cart'[UserOf[s]][p] = 0
                      /\ sold[UserOf[s]][p] + removed[UserOf[s]][p] + units[s][p]
                           = added[UserOf[s]][p]
    BY <1>2 DEF ClearedUnitsAreAllThereIs
  <2>1. CASE pc[s] = "cleared"
    <3>1. UserOf[s] # u
      BY <1>3, <1>4, <2>1
    <3> QED
      BY <1>1, <1>2, <2>1, <3>1 DEF CalmInv, ClearedUnitsAreAllThereIs
  <2>2. CASE pc[s] # "cleared"
    <3>1. s = r /\ pc[r] = "clearing"
      BY <1>2, <2>2
    <3>2. cart[u][p] + sold[u][p] + removed[u][p] = added[u][p]
      BY <1>1, <1>4, <3>1 DEF CalmInv, CalmCheckoutConservesUnits
    <3>3. units[r][p] = cart[u][p]
      BY <3>1 DEF CalmInv, ReadUnitsAreInCart, ReadCart
    <3> QED
      BY <1>1, <1>2, <3>1, <3>2, <3>3
  <2> QED
    BY <2>1, <2>2
<1>8. CalmCheckoutConservesUnits'
  <2> SUFFICES ASSUME NEW v \in Users, calm[v],
                      \A s \in Requests : UserOf[s] = v => pc'[s] # "cleared",
                      NEW p \in Products
               PROVE  cart'[v][p] + sold[v][p] + removed[v][p] = added[v][p]
    BY <1>2 DEF CalmCheckoutConservesUnits
  <2>1. v # u
    BY <1>2, <1>3
  <2>2. \A s \in Requests : UserOf[s] = v => pc[s] # "cleared"
    BY <1>2
  <2> QED
    BY <1>2, <2>1, <2>2 DEF CalmInv, CalmCheckoutConservesUnits
<1> QED
  BY <1>5, <1>6, <1>7, <1>8 DEF CalmInv

(* A commit sells what was read, the cart of a calm customer being empty. *)
LEMMA CommitStaysCalm ==
  ASSUME OrderInv, CalmInv, NEW r \in Requests, Commit(r)
  PROVE  CalmInv'
<1> DEFINE u == UserOf[r]
<1>1. /\ u \in Users
      /\ \A v \in Users, p \in Products :
            /\ cart[v][p] \in Nat /\ added[v][p] \in Nat
            /\ sold[v][p] \in Nat /\ removed[v][p] \in Nat
      /\ \A s \in Requests, p \in Products : units[s][p] \in Nat
      /\ \A s \in Requests : UserOf[s] \in Users
  BY UsersOfRequests DEF OrderInv, TypeOK
<1>2. /\ pc[r] = "cleared" /\ clears \subseteq Requests
      /\ \A s \in Requests : pc'[s] = IF s = r THEN "ok" ELSE pc[s]
      /\ UNCHANGED <<cart, clears, added, removed, units, calm>>
      /\ \A v \in Users, p \in Products :
            sold'[v][p] = IF v = u THEN sold[u][p] + units[r][p] ELSE sold[v][p]
  BY <1>1 DEF Commit, Move, locals, OrderInv, TypeOK
<1>3. \A s \in Requests : pc'[s] \in Working => pc[s] = pc'[s] /\ UserOf[s] # u
  BY <1>2 DEF OrderInv, OneAtATime, Holders, Working
<1>4. CalmClearIsAwaited'
  BY <1>2 DEF CalmInv, CalmClearIsAwaited
<1>5. ReadUnitsAreInCart' /\ ClearedUnitsAreAllThereIs'
  BY <1>1, <1>2, <1>3 DEF CalmInv, ReadUnitsAreInCart, ClearedUnitsAreAllThereIs,
                          ReadCart, Working
<1>6. CalmCheckoutConservesUnits'
  <2> SUFFICES ASSUME NEW v \in Users, calm[v],
                      \A s \in Requests : UserOf[s] = v => pc'[s] # "cleared",
                      NEW p \in Products
               PROVE  cart[v][p] + sold'[v][p] + removed[v][p] = added[v][p]
    BY <1>2 DEF CalmCheckoutConservesUnits
  <2>1. CASE v = u
    BY <1>1, <1>2, <2>1 DEF CalmInv, ClearedUnitsAreAllThereIs
  <2>2. CASE v # u
    <3>1. \A s \in Requests : UserOf[s] = v => pc[s] # "cleared"
      BY <1>2, <2>2
    <3> QED
      BY <1>2, <2>2, <3>1 DEF CalmInv, CalmCheckoutConservesUnits
  <2> QED
    BY <2>1, <2>2
<1> QED
  BY <1>4, <1>5, <1>6 DEF CalmInv

(* A roll-back takes away the calm of whoever had sent a clear. *)
LEMMA RollBackStaysCalm ==
  ASSUME OrderInv, CalmInv, NEW R \in SUBSET Requests, RollBack(R),
         UNCHANGED <<cart, added, removed, sold, units, clears>>
  PROVE  CalmInv'
<1>1. /\ \A r \in Requests : UserOf[r] \in Users
      /\ clears \subseteq Requests
  BY UsersOfRequests DEF OrderInv, TypeOK
<1>2. \A u \in Users :
         calm'[u] => /\ calm[u]
                     /\ \A r \in R : UserOf[r] = u => pc[r] \notin {"clearing", "cleared"}
  BY DEF RollBack
<1>3. \A r \in Requests : pc'[r] = IF r \in R THEN "failed" ELSE pc[r]
  BY DEF RollBack
<1>4. \A r \in clears' : calm'[UserOf[r]] => pc'[r] = "clearing"
  BY <1>1, <1>2, <1>3 DEF CalmInv, CalmClearIsAwaited
<1>5. \A r \in Requests : calm'[UserOf[r]] /\ pc[r] = "cleared" => pc'[r] = "cleared"
  BY <1>1, <1>2, <1>3
<1> QED
  BY <1>2, <1>3, <1>4, <1>5, CalmQuietStep DEF ReadCart

(* One request moves on without sending a clear. *)
LEMMA MoveCalmly ==
  ASSUME OrderInv, CalmInv, UNCHANGED <<cart, added, removed, sold, calm, clears, units>>,
         NEW r \in Requests, NEW to, pc[r] \notin {"clearing", "cleared"}, to # "cleared",
         to \in ReadCart => pc[r] \in ReadCart,
         pc' = [pc EXCEPT ![r] = to]
  PROVE  CalmInv'
<1>1. \A s \in Requests : pc'[s] = IF s = r THEN to ELSE pc[s]
  BY DEF OrderInv, TypeOK
<1>2. \A s \in clears' : calm'[UserOf[s]] => pc'[s] = "clearing"
  BY <1>1 DEF CalmInv, CalmClearIsAwaited, OrderInv, TypeOK
<1> QED
  BY <1>1, <1>2, CalmQuietStep

(* Every step keeps the units of calm customers together. *)
LEMMA NextCalmInv == OrderInv /\ CalmInv /\ [Next]_vars => CalmInv'
<1> SUFFICES ASSUME OrderInv, CalmInv, [Next]_vars PROVE CalmInv'
  OBVIOUS
<1>a. \A v \in Users, q \in Products :
         cart[v][q] \in Nat /\ added[v][q] \in Nat /\ removed[v][q] \in Nat
  BY DEF OrderInv, TypeOK
<1>b. ASSUME UNCHANGED <<cart, added, removed, sold, calm, pc, units>>, clears' \subseteq clears
      PROVE  CalmInv'
  BY <1>b, CalmQuietStep DEF CalmInv, CalmClearIsAwaited
<1>1. ASSUME NEW u \in Users, NEW p \in Products, NEW n \in 1..MaxUnits,
             AddItem(u, p, n)
      PROVE  CalmInv'
  <2>1. /\ UNCHANGED <<pc, clears, units, sold, removed>> /\ Disturb(u)
        /\ \A v \in Users, q \in Products :
              IF v = u /\ q = p
                THEN /\ cart'[v][q] = cart[v][q] + n
                     /\ added'[v][q] = added[v][q] + n
                ELSE cart'[v][q] = cart[v][q] /\ added'[v][q] = added[v][q]
    BY <1>1 DEF AddItem, locals, OrderInv, TypeOK
  <2>2. n \in Nat
    BY SizesNatural
  <2> QED
    BY <1>a, <2>1, <2>2, CalmEdit
<1>2. ASSUME NEW u \in Users, NEW p \in Products, NEW n \in 0..MaxUnits,
             SetQuantity(u, p, n)
      PROVE  CalmInv'
  <2> DEFINE more == IF n > cart[u][p] THEN n - cart[u][p] ELSE 0
             less == IF n < cart[u][p] THEN cart[u][p] - n ELSE 0
  <2>1. /\ UNCHANGED <<pc, clears, units, sold>> /\ Disturb(u)
        /\ \A v \in Users, q \in Products :
              IF v = u /\ q = p
                THEN /\ cart'[v][q] = n
                     /\ added'[v][q] = added[v][q] + more
                     /\ removed'[v][q] = removed[v][q] + less
                ELSE /\ cart'[v][q] = cart[v][q] /\ added'[v][q] = added[v][q]
                     /\ removed'[v][q] = removed[v][q]
    BY <1>2 DEF SetQuantity, locals, OrderInv, TypeOK
  <2>2. n \in Nat /\ more \in Nat /\ less \in Nat /\ n + less = cart[u][p] + more
    BY <1>a, SizesNatural
  <2> HIDE DEF more, less
  <2>3. \A v \in Users, q \in Products :
           IF v = u
             THEN cart'[v][q] + removed'[v][q] - added'[v][q]
                    = cart[v][q] + removed[v][q] - added[v][q]
             ELSE /\ cart'[v][q] = cart[v][q] /\ removed'[v][q] = removed[v][q]
                  /\ added'[v][q] = added[v][q]
    <3> SUFFICES ASSUME NEW v \in Users, NEW q \in Products
                 PROVE  IF v = u
                          THEN cart'[v][q] + removed'[v][q] - added'[v][q]
                                 = cart[v][q] + removed[v][q] - added[v][q]
                          ELSE /\ cart'[v][q] = cart[v][q] /\ removed'[v][q] = removed[v][q]
                               /\ added'[v][q] = added[v][q]
      OBVIOUS
    <3>1. CASE v = u /\ q = p
      BY <1>a, <2>1, <2>2, <3>1
    <3>2. CASE ~ (v = u /\ q = p)
      BY <2>1, <3>2
    <3> QED
      BY <3>1, <3>2
  <2>4. \A q \in Products : /\ cart'[u][q] \in Nat /\ removed'[u][q] \in Nat
                            /\ added'[u][q] \in Nat
    BY <1>a, <2>1, <2>2
  <2> QED
    BY <2>1, <2>3, <2>4, CalmEdit
<1>3. ASSUME NEW u \in Users, EmptyOwnCart(u) PROVE CalmInv'
  <2>1. /\ UNCHANGED <<pc, clears, units, sold, added>> /\ Disturb(u)
        /\ \A v \in Users, q \in Products :
              IF v = u
                THEN cart'[v][q] = 0 /\ removed'[v][q] = removed[v][q] + cart[v][q]
                ELSE cart'[v][q] = cart[v][q] /\ removed'[v][q] = removed[v][q]
    BY <1>3 DEF EmptyOwnCart, NoUnits, locals, OrderInv, TypeOK
  <2> QED
    BY <1>a, <2>1, CalmEdit
<1>4. ASSUME \/ \E p \in Products, x \in Prices : SetPrice(p, x)
             \/ \E k \in approved : ExpireApproval(k)
             \/ \E r \in Requests : LoseClear(r)
             \/ UNCHANGED vars
      PROVE  CalmInv'
  BY <1>b, <1>4 DEF SetPrice, ExpireApproval, LoseClear, locals, history, vars
<1>5. CASE Crash
  <2>1. {r \in Requests : pc[r] \in Working \cup {"waiting"}} \in SUBSET Requests
    OBVIOUS
  <2> QED
    BY <1>5, <2>1, RollBackStaysCalm DEF Crash, locals
<1>6. ASSUME NEW r \in Requests, Fail(r) PROVE CalmInv'
  BY <1>6, RollBackStaysCalm DEF Fail, services, locals
<1>7. ASSUME NEW r \in Requests,
             \/ Submit(r) \/ RejectSignature(r) \/ Begin(r) \/ PoolTimeout(r)
             \/ EmptyCart(r) \/ GateCacheHit(r) \/ GateCacheMiss(r) \/ Approve(r) \/ Refuse(r)
      PROVE  CalmInv'
  <2>1. UNCHANGED <<cart, added, removed, sold, calm, clears, units>>
    BY <1>7 DEF Submit, RejectSignature, Begin, PoolTimeout, EmptyCart, GateCacheHit,
                GateCacheMiss, Approve, Refuse, services, locals, history
  <2>2. PICK to \in {"waiting", "refused", "getCart", "failed", "save", "hash"} :
           /\ pc' = [pc EXCEPT ![r] = to]
           /\ pc[r] \in {"new", "waiting", "getCart", "gate", "decide"}
           /\ to \in {"save", "hash"} => pc[r] \in {"gate", "decide"}
    BY <1>7 DEF Submit, RejectSignature, Begin, PoolTimeout, EmptyCart, GateCacheHit,
                GateCacheMiss, Approve, Refuse, Move
  <2> QED
    BY <2>1, <2>2, MoveCalmly DEF ReadCart
<1>8. ASSUME NEW r \in Requests, NEW p \in Products,
             NEW here \in {"fetch", "hash", "price"},
             NEW next \in {"gate", "price", "decide"},
             ForItem(r, p, here, next),
             UNCHANGED <<cart, added, removed, sold, calm, clears, units>>
      PROVE  CalmInv'
  <2>1. CASE UNCHANGED pc
    BY <1>b, <1>8, <2>1
  <2>2. CASE Move(r, here, next)
    BY <1>8, <2>2, MoveCalmly DEF Move, ReadCart
  <2> QED
    BY <1>8, <2>1, <2>2 DEF ForItem
<1>9. ASSUME NEW r \in Requests, NEW p \in Products, NEW ok \in BOOLEAN,
             FetchProduct(r, p) \/ CheckHash(r, p, ok) \/ CheckPrice(r, p, ok)
      PROVE  CalmInv'
  BY <1>8, <1>9 DEF FetchProduct, CheckHash, CheckPrice, services, history
<1>10. ASSUME NEW r \in Requests, SaveAndSendClear(r) PROVE CalmInv'
  <2>1. /\ UNCHANGED <<cart, added, removed, sold, calm, units>>
        /\ clears' = clears \cup {r} /\ pc[r] = "save" /\ clears \subseteq Requests
        /\ \A s \in Requests : pc'[s] = IF s = r THEN "clearing" ELSE pc[s]
    BY <1>10 DEF SaveAndSendClear, Move, locals, history, OrderInv, TypeOK
  <2>2. \A s \in clears' : calm'[UserOf[s]] => pc'[s] = "clearing"
    BY <2>1 DEF CalmInv, CalmClearIsAwaited
  <2> QED
    BY <2>1, <2>2, CalmQuietStep DEF ReadCart
<1>11. ASSUME NEW r \in Requests, GetCart(r) \/ ExecuteClear(r) \/ Commit(r) PROVE CalmInv'
  BY <1>11, GetCartStaysCalm, ExecuteClearStaysCalm, CommitStaysCalm
<1> QED
  BY <1>1, <1>2, <1>3, <1>4, <1>5, <1>6, <1>7, <1>9, <1>10, <1>11, NextCases

(* No unit of a customer who leaves her cart alone during her checkouts is lost or
   made up, as long as these do not overlap and none fails after it has sent its
   clear. *)
THEOREM SerialCalmConserves == Spec /\ []OneAtATime => []CalmCheckoutConservesUnits
<1>1. CalmInv => CalmCheckoutConservesUnits
  BY DEF CalmInv
<1> QED
  BY <1>1, SerialOrderInv, InitCalmInv, NextCalmInv, PTL DEF Spec

(* With a pool of one connection they never overlap. *)
THEOREM CalmConserves == ASSUME PoolSize = 1 PROVE Spec => []CalmCheckoutConservesUnits
  BY PoolOfOneSerializes, SerialCalmConserves, PTL
=============================================================================
