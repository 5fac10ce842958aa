------------------------- MODULE CheckoutPageProofs ------------------------
(***************************************************************************)
(* Proofs about CheckoutPage: the pages drive order placement through its  *)
(* own operations only, so that what is proved of OrderPlacement holds of  *)
(* the composition as well; a page that reports success has an order; and  *)
(* without a hitch the customer gets what she asked for.                   *)
(***************************************************************************)
EXTENDS CheckoutPage, OrderGateProofs, OrderTotalsProofs

(* A page posts only items it shows, and only before it sends the order. *)
UnsentIsShown ==
  \A t \in CheckoutTabs :
    unsent[t] \subseteq Items(shown[t]) /\ (page[t] # "syncing" => unsent[t] = {})

HasOrder(r) == \E o \in orders : o.id = r /\ \E p \in Products : o.units[p] > 0

(* A request that was answered "ok" has its order. *)
AcceptedIsStored == \A r \in Requests : pc[r] = "ok" => HasOrder(r)

(* A page that asks for the payment, or is done, has had its order accepted. *)
PaidForAccepted ==
  \A t \in CheckoutTabs :
    page[t] \in {"paying", "success"} => \E r \in attempt[t] : pc[r] = "ok"

PageInv ==
  /\ PageTypeOK
  /\ UnsentIsShown
  /\ SomethingOrdered
  /\ AcceptedIsStored
  /\ PaidForAccepted

LEMMA InitPageInv == PageInit => PageInv
<1> SUFFICES ASSUME PageInit PROVE PageInv
  OBVIOUS
<1>1. TypeOK
  BY InitTypeOK DEF PageInit
<1>2. PageTypeOK
  BY <1>1 DEF PageInit, PageTypeOK, NoUnits, InFlight
<1>3. \A r \in Requests : pc[r] = "new"
  BY DEF PageInit, Init
<1>4. SomethingOrdered /\ AcceptedIsStored
  BY <1>3 DEF SomethingOrdered, AcceptedIsStored, ReadCart
<1>5. UnsentIsShown /\ PaidForAccepted
  BY DEF PageInit, UnsentIsShown, PaidForAccepted
<1> QED
  BY <1>2, <1>4, <1>5 DEF PageInv

(* The post of an item adds it to the cart of the cart-service. *)
LEMMA PostIsAddItem ==
  ASSUME PageInv, NEW t \in CheckoutTabs, NEW p \in Products, p \in unsent[t],
         AddItem(Customer, p, shown[t][p])
  PROVE  Next
<1>1. shown[t][p] \in Nat /\ shown[t][p] > 0
  BY DEF PageInv, PageTypeOK, UnsentIsShown, Items
<1>2. added[Customer][p] \in Nat /\ added[Customer][p] + shown[t][p] <= MaxUnits
  BY CustomerIsUser DEF PageInv, PageTypeOK, TypeOK, AddItem
<1>3. shown[t][p] \in 1..MaxUnits
  BY <1>1, <1>2, SizesNatural
<1> QED
  BY <1>3, CustomerIsUser DEF Next, Environment

(* Every step of the composition is a step of order placement or leaves it
   alone. *)
LEMMA PageStepIsStep == ASSUME PageInv, [PageNext]_pageVars PROVE [Next]_vars
<1>1. ASSUME NEW t \in CheckoutTabs, NEW p \in Products, PostItem(t, p) PROVE [Next]_vars
  BY <1>1, PostIsAddItem DEF PostItem
<1>2. ASSUME NEW t \in CheckoutTabs, NEW p \in Products, PostItemThrows(t, p)
      PROVE  [Next]_vars
  BY <1>2, PostIsAddItem DEF PostItemThrows
<1>3. ASSUME NEW t \in CheckoutTabs, NEW r \in Requests, SendOrder(t, r) PROVE [Next]_vars
  BY <1>3 DEF SendOrder, Next
<1>4. ASSUME PageStep,
             ~ \E t \in CheckoutTabs, p \in Products : PostItem(t, p) \/ PostItemThrows(t, p),
             ~ \E t \in CheckoutTabs, r \in Requests : SendOrder(t, r)
      PROVE  UNCHANGED vars
  BY <1>4 DEF PageStep, AddToCart, OpenCart, EditCart, OpenCheckout, Confirm,
              PostItemRefused, SendOrderThrows, OrderAccepted, OrderRefused,
              OrderAnswerLost, PaymentAnswered, PaymentThrows
<1>5. CASE ServiceStep
  BY <1>5 DEF ServiceStep, Next, Environment
<1>6. CASE UNCHANGED pageVars
  BY <1>6 DEF pageVars
<1> QED
  BY <1>1, <1>2, <1>3, <1>4, <1>5, <1>6 DEF PageNext

(* Every step keeps the pages well typed. *)
LEMMA NextPageTypeOK == ASSUME PageInv, [PageNext]_pageVars PROVE PageTypeOK'
<1>0. TypeOK'
  BY PageStepIsStep, NextTypeOK DEF PageInv, PageTypeOK
<1> USE <1>0, MaxAskedNatural DEF PageInv, PageTypeOK
<1>1. ASSUME NEW p \in Products, NEW n \in 1..MaxAsked, AddToCart(p, n) PROVE PageTypeOK'
  BY <1>1 DEF AddToCart
<1>2. ASSUME NEW c \in CartTabs, OpenCart(c) PROVE PageTypeOK'
  BY <1>2 DEF OpenCart
<1>3. ASSUME NEW c \in CartTabs, NEW p \in Products, NEW n \in 0..MaxAsked, EditCart(c, p, n)
      PROVE  PageTypeOK'
  <2> DEFINE new == [copy[c] EXCEPT ![p] = n]
             less == asked[p] + n - copy[c][p]
  <2>1. new \in [Products -> Nat]
    OBVIOUS
  <2>2. less \in Nat
    BY <1>3 DEF EditCart
  <2>3. /\ copy' = [copy EXCEPT ![c] = new] /\ local' = new
        /\ asked' = [asked EXCEPT ![p] = less]
        /\ serene' \in BOOLEAN
        /\ UNCHANGED <<page, shown, unsent, attempt, charged>>
    BY <1>3 DEF EditCart, SereneIf
  <2> HIDE DEF new, less
  <2> QED
    BY <2>1, <2>2, <2>3
<1>4. ASSUME NEW t \in CheckoutTabs, OpenCheckout(t) \/ Confirm(t) PROVE PageTypeOK'
  <2>1. CASE OpenCheckout(t)
    <3>1. serene' \in BOOLEAN
      BY <2>1 DEF OpenCheckout, SereneIf
    <3> QED
      BY <2>1, <3>1 DEF OpenCheckout
  <2>2. CASE Confirm(t)
    <3>1. serene' \in BOOLEAN
      BY <2>2 DEF Confirm, SereneIf
    <3>2. page' \in [CheckoutTabs -> {"open", "success"} \cup InFlight]
      BY <2>2 DEF Confirm, Turn, InFlight
    <3>3. unsent' \in [CheckoutTabs -> SUBSET Products]
      BY <2>2 DEF Confirm, Items
    <3> QED
      BY <2>2, <3>1, <3>2, <3>3 DEF Confirm
  <2> QED
    BY <1>4, <2>1, <2>2
<1>5. ASSUME NEW t \in CheckoutTabs, NEW p \in Products,
             PostItem(t, p) \/ PostItemRefused(t, p) \/ PostItemThrows(t, p)
      PROVE  PageTypeOK'
  <2>1. /\ UNCHANGED <<local, shown, attempt, copy, charged, asked>>
        /\ page' = page \/ page' = [page EXCEPT ![t] = "open"]
    BY <1>5 DEF PostItem, PostItemRefused, PostItemThrows, Turn
  <2>2. \E new \in SUBSET Products : unsent' = [unsent EXCEPT ![t] = new]
    BY <1>5 DEF PostItem, PostItemRefused, PostItemThrows
  <2>3. serene' \in BOOLEAN
    BY <1>5 DEF PostItem, PostItemRefused, PostItemThrows, SereneIf
  <2>4. page' \in [CheckoutTabs -> {"open", "success"} \cup InFlight]
    BY <2>1
  <2>5. unsent' \in [CheckoutTabs -> SUBSET Products]
    BY <2>2
  <2> QED
    BY <2>1, <2>3, <2>4, <2>5
<1>6. ASSUME NEW t \in CheckoutTabs, NEW r \in Requests, SendOrder(t, r) PROVE PageTypeOK'
  BY <1>6 DEF SendOrder, Turn, InFlight
<1>7. ASSUME NEW t \in CheckoutTabs,
             \/ SendOrderThrows(t) \/ OrderAccepted(t) \/ OrderRefused(t)
             \/ OrderAnswerLost(t) \/ PaymentThrows(t)
      PROVE  PageTypeOK'
  BY <1>7 DEF SendOrderThrows, OrderAccepted, OrderRefused, OrderAnswerLost,
              PaymentThrows, Turn, SereneIf, InFlight
<1>8. ASSUME NEW t \in CheckoutTabs, PaymentAnswered(t) PROVE PageTypeOK'
  BY <1>8 DEF PaymentAnswered, Turn, SereneIf, NoUnits
<1>9. CASE ServiceStep \/ UNCHANGED pageVars
  BY <1>9 DEF ServiceStep, browser, pageVars
<1> QED
  BY <1>1, <1>2, <1>3, <1>4, <1>5, <1>6, <1>7, <1>8, <1>9 DEF PageNext, PageStep

(* Every step keeps the items to be posted among those shown. *)
LEMMA NextUnsentIsShown == ASSUME PageInv, [PageNext]_pageVars PROVE UnsentIsShown'
<1> USE DEF PageInv, PageTypeOK, UnsentIsShown, Items
<1>1. CASE UNCHANGED <<shown, unsent, page>>
  BY <1>1
<1>2. ASSUME NEW t \in CheckoutTabs, OpenCheckout(t) \/ Confirm(t) PROVE UnsentIsShown'
  <2>1. CASE OpenCheckout(t)
    BY <2>1 DEF OpenCheckout
  <2>2. CASE Confirm(t)
    BY <2>2 DEF Confirm, Turn
  <2> QED
    BY <1>2, <2>1, <2>2
<1>3. ASSUME NEW t \in CheckoutTabs, NEW p \in Products,
             PostItem(t, p) \/ PostItemRefused(t, p) \/ PostItemThrows(t, p)
      PROVE  UnsentIsShown'
  <2>1. CASE PostItem(t, p) \/ PostItemRefused(t, p)
    <3>1. UNCHANGED <<page, shown>> /\ unsent' = [unsent EXCEPT ![t] = unsent[t] \ {p}]
      BY <2>1 DEF PostItem, PostItemRefused
    <3> QED
      BY <3>1
  <2>2. CASE PostItemThrows(t, p)
    BY <2>2 DEF PostItemThrows, Turn
  <2> QED
    BY <1>3, <2>1, <2>2
<1>4. ASSUME NEW t \in CheckoutTabs, PaymentAnswered(t) PROVE UnsentIsShown'
  BY <1>4 DEF PaymentAnswered, Turn
<1>5. ASSUME NEW t \in CheckoutTabs,
             \/ SendOrderThrows(t) \/ OrderAccepted(t) \/ OrderRefused(t)
             \/ OrderAnswerLost(t) \/ PaymentThrows(t)
             \/ \E r \in Requests : SendOrder(t, r)
      PROVE  UnsentIsShown'
  <2>1. UNCHANGED <<shown, unsent>> /\ unsent[t] = {} /\ page' = [page EXCEPT ![t] = page'[t]]
    BY <1>5 DEF SendOrder, SendOrderThrows, OrderAccepted, OrderRefused, OrderAnswerLost,
                PaymentThrows, Turn
  <2> QED
    BY <2>1
<1> QED
  BY <1>1, <1>2, <1>3, <1>4, <1>5
  DEF PageNext, PageStep, ServiceStep, browser, pageVars, AddToCart, OpenCart, EditCart

-----------------------------------------------------------------------------

(* A step of order placement other than the reading of a cart and a commit
   brings no request closer to its order. *)
Idle ==
  /\ UNCHANGED <<units, orders>>
  /\ \A r \in Requests : /\ pc'[r] \in ReadCart \cup {"cleared"}
                               => pc[r] \in ReadCart \cup {"cleared"}
                         /\ pc'[r] = "ok" <=> pc[r] = "ok"

LEMMA IdleStep ==
  ASSUME TypeOK, [Next]_vars, ~ \E r \in Requests : GetCart(r) \/ Commit(r)
  PROVE  Idle
<1>1. ASSUME UNCHANGED <<units, orders, pc>> PROVE Idle
  BY <1>1 DEF Idle
<1>2. ASSUME UNCHANGED <<units, orders>>, NEW r \in Requests, NEW to,
             pc' = [pc EXCEPT ![r] = to], pc[r] # "ok", to # "ok",
             to \in ReadCart \cup {"cleared"} => pc[r] \in ReadCart \cup {"cleared"}
      PROVE  Idle
  BY <1>2 DEF Idle, TypeOK
<1>3. ASSUME UNCHANGED <<units, orders>>,
             \A r \in Requests : pc'[r] = pc[r] \/ (pc'[r] = "failed" /\ pc[r] # "ok")
      PROVE  Idle
  BY <1>3 DEF Idle, ReadCart
<1>4. ASSUME NEW u \in Users, NEW p \in Products, NEW n, AddItem(u, p, n) \/ SetQuantity(u, p, n)
      PROVE  Idle
  BY <1>1, <1>4 DEF AddItem, SetQuantity, locals
<1>5. ASSUME NEW u \in Users, EmptyOwnCart(u) PROVE Idle
  BY <1>1, <1>5 DEF EmptyOwnCart, locals
<1>6. ASSUME NEW p \in Products, NEW x \in Prices, SetPrice(p, x) PROVE Idle
  BY <1>1, <1>6 DEF SetPrice, locals
<1>7. ASSUME NEW k, ExpireApproval(k) PROVE Idle
  BY <1>1, <1>7 DEF ExpireApproval, locals
<1>8. CASE Crash
  <2>1. UNCHANGED <<units, orders>>
    BY <1>8 DEF Crash, locals
  <2>2. \A r \in Requests : pc'[r] = pc[r] \/ (pc'[r] = "failed" /\ pc[r] # "ok")
    BY <1>8 DEF Crash, RollBack, Working
  <2> QED
    BY <1>3, <2>1, <2>2
<1>9. ASSUME NEW r \in Requests,
             \/ Submit(r) \/ RejectSignature(r) \/ Begin(r) \/ PoolTimeout(r)
             \/ EmptyCart(r) \/ GateCacheHit(r) \/ GateCacheMiss(r) \/ Approve(r)
             \/ Refuse(r) \/ SaveAndSendClear(r)
      PROVE  Idle
  <2>1. UNCHANGED <<units, orders>>
    BY <1>9 DEF Submit, RejectSignature, Begin, PoolTimeout, EmptyCart, GateCacheHit,
                GateCacheMiss, Approve, Refuse, SaveAndSendClear, services, locals
  <2>2. PICK to \in {"waiting", "refused", "failed", "getCart", "save", "hash", "clearing"} :
           /\ pc' = [pc EXCEPT ![r] = to]
           /\ pc[r] # "ok"
           /\ to \in ReadCart \cup {"cleared"} => pc[r] \in ReadCart \cup {"cleared"}
    BY <1>9 DEF Submit, RejectSignature, Begin, PoolTimeout, EmptyCart, GateCacheHit,
                GateCacheMiss, Approve, Refuse, SaveAndSendClear, Move, ReadCart
  <2> QED
    BY <1>2, <2>1, <2>2
<1>10. ASSUME NEW r \in Requests, NEW p \in Products,
              NEW here \in {"fetch", "hash", "price"},
              NEW next \in {"gate", "price", "decide"},
              ForItem(r, p, here, next), UNCHANGED <<units, orders>>
       PROVE  Idle
  <2>1. CASE UNCHANGED pc
    BY <1>1, <1>10, <2>1
  <2>2. CASE Move(r, here, next)
    BY <1>2, <1>10, <2>2 DEF Move, ReadCart
  <2> QED
    BY <1>10, <2>1, <2>2 DEF ForItem
<1>11. ASSUME NEW r \in Requests, NEW p \in Products, FetchProduct(r, p) PROVE Idle
  BY <1>10, <1>11 DEF FetchProduct, services
<1>12. ASSUME NEW r \in Requests, NEW p \in Products, NEW ok \in BOOLEAN,
              CheckHash(r, p, ok) \/ CheckPrice(r, p, ok)
       PROVE  Idle
  BY <1>10, <1>12 DEF CheckHash, CheckPrice, services
<1>13. ASSUME NEW r \in Requests, ExecuteClear(r) PROVE Idle
  BY <1>13 DEF ExecuteClear, locals, Idle, ReadCart, TypeOK
<1>14. ASSUME NEW r \in Requests, LoseClear(r) PROVE Idle
  BY <1>1, <1>14 DEF LoseClear, locals
<1>15. ASSUME NEW r \in Requests, Fail(r) PROVE Idle
  <2>1. UNCHANGED <<units, orders>>
    BY <1>15 DEF Fail, services, locals
  <2>2. \A s \in Requests : pc'[s] = pc[s] \/ (pc'[s] = "failed" /\ pc[s] # "ok")
    BY <1>15 DEF Fail, RollBack
  <2> QED
    BY <1>3, <2>1, <2>2
<1>16. CASE UNCHANGED vars
  BY <1>1, <1>16 DEF vars
<1> QED
  BY <1>4, <1>5, <1>6, <1>7, <1>8, <1>9, <1>11, <1>12, <1>13, <1>14, <1>15, <1>16, NextCases

(* Every step of order placement orders something, stores what it accepts and
   takes no acceptance back. *)
LEMMA AcceptedStays ==
  ASSUME TypeOK, SomethingOrdered, AcceptedIsStored, [Next]_vars
  PROVE  /\ SomethingOrdered' /\ AcceptedIsStored'
         /\ \A r \in Requests : pc[r] = "ok" => pc'[r] = "ok"
<1>1. CASE Idle
  BY <1>1 DEF Idle, SomethingOrdered, Ordered, AcceptedIsStored, HasOrder
<1>2. ASSUME NEW r \in Requests, GetCart(r)
      PROVE  /\ SomethingOrdered' /\ AcceptedIsStored'
             /\ \A s \in Requests : pc[s] = "ok" => pc'[s] = "ok"
  <2>1. /\ units' = [units EXCEPT ![r] = cart[UserOf[r]]]
        /\ pc[r] = "getCart" /\ pc' = [pc EXCEPT ![r] = "fetch"]
        /\ orders' = orders /\ InCart(UserOf[r]) # {}
    BY <1>2 DEF GetCart, Move, services
  <2>2. Ordered(r)' # {}
    BY <2>1 DEF Ordered, InCart, TypeOK
  <2>3. \A s \in Requests \ {r} : pc'[s] = pc[s] /\ Ordered(s)' = Ordered(s)
    BY <2>1 DEF Ordered, TypeOK
  <2>4. pc'[r] = "fetch"
    BY <2>1 DEF TypeOK
  <2>5. SomethingOrdered'
    BY <2>2, <2>3 DEF SomethingOrdered
  <2>6. AcceptedIsStored'
    BY <2>1, <2>3, <2>4 DEF AcceptedIsStored, HasOrder
  <2> QED
    BY <2>1, <2>3, <2>5, <2>6
<1>3. ASSUME NEW r \in Requests, Commit(r)
      PROVE  /\ SomethingOrdered' /\ AcceptedIsStored'
             /\ \A s \in Requests : pc[s] = "ok" => pc'[s] = "ok"
  <2> DEFINE row == [id |-> r, user |-> UserOf[r], units |-> units[r],
                     price |-> quote[r], total |-> total[r]]
  <2>1. /\ pc[r] = "cleared" /\ pc' = [pc EXCEPT ![r] = "ok"]
        /\ orders' = orders \cup {row} /\ units' = units
    BY <1>3 DEF Commit, Move, locals
  <2>2. row.id = r /\ \E p \in Products : row.units[p] > 0
    BY <2>1 DEF SomethingOrdered, Ordered
  <2> HIDE DEF row
  <2>3. \A s \in Requests \ {r} : pc'[s] = pc[s]
    BY <2>1 DEF TypeOK
  <2>4. pc'[r] = "ok"
    BY <2>1 DEF TypeOK
  <2>5. SomethingOrdered'
    BY <2>1, <2>3, <2>4 DEF SomethingOrdered, Ordered, ReadCart
  <2>6. AcceptedIsStored'
    BY <2>1, <2>2, <2>3 DEF AcceptedIsStored, HasOrder
  <2> QED
    BY <2>3, <2>4, <2>5, <2>6
<1> QED
  BY <1>1, <1>2, <1>3, IdleStep

(* Every step keeps an accepted order behind the pages that go on. *)
LEMMA NextPaidForAccepted == ASSUME PageInv, [PageNext]_pageVars PROVE PaidForAccepted'
<1>0. \A r \in Requests : pc[r] = "ok" => pc'[r] = "ok"
  BY PageStepIsStep, AcceptedStays DEF PageInv, PageTypeOK
<1> USE <1>0 DEF PageInv, PageTypeOK, PaidForAccepted
<1>1. CASE UNCHANGED <<page, attempt>>
  BY <1>1
<1>2. ASSUME NEW t \in CheckoutTabs, NEW r \in Requests, SendOrder(t, r) PROVE PaidForAccepted'
  BY <1>2 DEF SendOrder, Turn
<1>3. ASSUME NEW t \in CheckoutTabs, OrderAccepted(t) PROVE PaidForAccepted'
  BY <1>3 DEF OrderAccepted, Turn
<1>4. ASSUME NEW t \in CheckoutTabs, PaymentAnswered(t) PROVE PaidForAccepted'
  BY <1>4 DEF PaymentAnswered, Turn
<1>5. ASSUME NEW t \in CheckoutTabs,
             \/ OpenCheckout(t) \/ Confirm(t) \/ SendOrderThrows(t) \/ OrderRefused(t)
             \/ OrderAnswerLost(t) \/ PaymentThrows(t)
             \/ \E p \in Products : PostItemThrows(t, p)
      PROVE  PaidForAccepted'
  <2>1. /\ \E to \in {"open", "syncing"} : page' = [page EXCEPT ![t] = to]
        /\ attempt' = attempt \/ attempt' = [attempt EXCEPT ![t] = {}]
    BY <1>5 DEF OpenCheckout, Confirm, SendOrderThrows, OrderRefused, OrderAnswerLost,
                PaymentThrows, PostItemThrows, Turn
  <2> QED
    BY <2>1
<1>6. ASSUME NEW t \in CheckoutTabs, NEW p \in Products, PostItem(t, p) \/ PostItemRefused(t, p)
      PROVE  PaidForAccepted'
  BY <1>1, <1>6 DEF PostItem, PostItemRefused
<1> QED
  BY <1>1, <1>2, <1>3, <1>4, <1>5, <1>6
  DEF PageNext, PageStep, ServiceStep, browser, pageVars, AddToCart, OpenCart, EditCart

LEMMA PageInvariant == PageSpec => []PageInv
<1>1. PageInv /\ [PageNext]_pageVars => PageInv'
  <2> SUFFICES ASSUME PageInv, [PageNext]_pageVars PROVE PageInv'
    OBVIOUS
  <2>1. SomethingOrdered' /\ AcceptedIsStored'
    BY PageStepIsStep, AcceptedStays DEF PageInv, PageTypeOK
  <2> QED
    BY <2>1, NextPageTypeOK, NextUnsentIsShown, NextPaidForAccepted DEF PageInv
<1> QED
  BY <1>1, InitPageInv, PTL DEF PageSpec

(* PageTypeOK holds for every number of tabs, products and requests. *)
THEOREM PagesTypeCorrect == PageSpec => []PageTypeOK
  BY PageInvariant, PTL DEF PageInv

(* The composition implements order placement: whatever the pages of the browser
   do, they drive the services through the operations of OrderPlacement. *)
THEOREM PagesDrivePlacement == PageSpec => Spec
<1>1. PageInit => Init
  BY DEF PageInit
<1>2. PageInv /\ [PageNext]_pageVars => [Next]_vars
  BY PageStepIsStep
<1> QED
  BY <1>1, <1>2, PageInvariant, PTL DEF PageSpec, Spec

(* Hence no unit a page has posted is ordered twice, however often the customer
   confirms, reloads or opens another tab. *)
THEOREM PagesOrderAtMostOnce == ASSUME PoolSize = 1 PROVE PageSpec => []OrderedAtMostOnce
  BY PagesDrivePlacement, AtMostOnce, PTL

(* and what the browser and the services do together is what the ledger promises. *)
THEOREM PagesImplementLedger == ASSUME PoolSize = 1 PROVE PageSpec => LedgerSpec
  BY PagesDrivePlacement, ImplementsLedger, PTL

(* For any size of the pool: what a page's order costs adds up, and the gate lets no
   order of a page past with more findings than it allows. *)
THEOREM PagesOrderAtCheckedPrices ==
  PageSpec => [](StoredTotalIsSumOfItems /\ HighValueOrdersAtLivePrice
                   /\ ApprovedOrdersAreTolerable)
  BY PagesDrivePlacement, TotalsAddUp, LargeOrdersAtLivePrice, FindingsAreLimited, PTL

(* SuccessHasOrder holds for every size: behind "success" there is a committed
   order of at least one unit. *)
THEOREM SuccessIsOrdered == PageSpec => []SuccessHasOrder
<1>1. PageInv => SuccessHasOrder
  BY DEF PageInv, PageTypeOK, PaidForAccepted, AcceptedIsStored, HasOrder, SuccessHasOrder
<1> QED
  BY <1>1, PageInvariant, PTL
-----------------------------------------------------------------------------
(***************************************************************************)
(* As long as there was no hitch, the customer gets what she asked for.    *)
(***************************************************************************)

(* One page is at work at most. *)
OnePageAtWork ==
  \A t, w \in CheckoutTabs : page[t] \in InFlight /\ page[w] \in InFlight => t = w

(* An order of the customer that goes on is the one a page waits for. *)
OrdersAreAwaited ==
  \A r \in Requests : UserOf[r] = Customer /\ pc[r] \in {"waiting"} \cup Working =>
    \E t \in CheckoutTabs : page[t] = "ordering" /\ r \in attempt[t]

(* A page that has sent its order waits for one order of the customer. *)
OneAttempt ==
  \A t \in CheckoutTabs : page[t] \in {"ordering", "paying"} =>
    \E r \in Requests : attempt[t] = {r} /\ UserOf[r] = Customer /\ pc[r] # "new"

(* A clear of the customer's is on its way for no other order. *)
ClearsAreAwaited ==
  \A r \in clears, t \in CheckoutTabs : UserOf[r] = Customer =>
    page[t] # "syncing" /\ (page[t] = "ordering" => r \in attempt[t])

(* The cart of the cart-service holds what the page has posted. *)
CartIsPosted ==
  \A t \in CheckoutTabs, p \in Products : page[t] = "syncing" =>
    cart[Customer][p] = IF p \in unsent[t] THEN 0 ELSE shown[t][p]

(* Until the order has read the cart, the cart holds what the page shows, and from
   then on the order does. *)
OrderIsShown ==
  \A t \in CheckoutTabs, p \in Products : page[t] = "ordering" =>
    \A r \in attempt[t] :
      /\ pc[r] \in {"waiting", "getCart"} => cart[Customer][p] = shown[t][p]
      /\ pc[r] \in ReadCart \cup {"cleared"} => units[r][p] = shown[t][p]

(* The page has an order in the database that it may not know of. *)
Learning(t) ==
  page[t] \in {"ordering", "paying"} /\ \E r \in attempt[t] : pc[r] = "ok"

(* What was asked for is in the stored cart or ordered; what a page shows is in
   both as long as it has not learnt of its order. *)
AskedIsAccountedFor ==
  /\ (\A t \in CheckoutTabs : ~Learning(t)) =>
       \A p \in Products : asked[p] = local[p] + sold[Customer][p]
  /\ \A t \in CheckoutTabs : Learning(t) =>
       \A p \in Products : asked[p] + shown[t][p] = local[p] + sold[Customer][p]

Serenity ==
  /\ OnePageAtWork
  /\ OrdersAreAwaited
  /\ OneAttempt
  /\ ClearsAreAwaited
  /\ CartIsPosted
  /\ OrderIsShown
  /\ AskedIsAccountedFor

SereneInv == PageInv /\ GateInv /\ (serene => Serenity)

LEMMA InitSereneInv == PageInit => SereneInv
<1> SUFFICES ASSUME PageInit PROVE SereneInv
  OBVIOUS
<1>1. /\ \A t \in CheckoutTabs : page[t] = "open"
      /\ \A r \in Requests : pc[r] = "new"
      /\ clears = {}
      /\ \A p \in Products : asked[p] = 0 /\ local[p] = 0 /\ sold[Customer][p] = 0
  BY CustomerIsUser DEF PageInit, Init, NoUnits
<1>2. Serenity
  BY <1>1 DEF Serenity, OnePageAtWork, OrdersAreAwaited, OneAttempt, ClearsAreAwaited,
              CartIsPosted, OrderIsShown, AskedIsAccountedFor, Learning, InFlight, Working
<1>3. GateInv
  BY InitGateInv DEF PageInit
<1> QED
  BY <1>2, <1>3, InitPageInv DEF SereneInv

(* While a page is at work, no other page is, and only its order goes on. *)
LEMMA AtWork ==
  ASSUME SereneInv, serene, NEW t \in CheckoutTabs, page[t] \in InFlight
  PROVE  /\ \A w \in CheckoutTabs : w # t => page[w] \notin InFlight
         /\ \A r \in Requests : UserOf[r] = Customer /\ pc[r] \in {"waiting"} \cup Working
              => page[t] = "ordering" /\ r \in attempt[t]
         /\ \A w \in CheckoutTabs : w # t => ~Learning(w)
BY DEF SereneInv, Serenity, OnePageAtWork, OrdersAreAwaited, InFlight, Learning

(* The numbers of the customer are natural numbers. *)
LEMMA PageNumbers ==
  ASSUME PageInv, NEW p \in Products
  PROVE  /\ asked[p] \in Nat /\ local[p] \in Nat
         /\ cart[Customer][p] \in Nat /\ sold[Customer][p] \in Nat
         /\ \A t \in CheckoutTabs : shown[t][p] \in Nat
         /\ \A c \in CartTabs : copy[c][p] \in Nat
BY CustomerIsUser DEF PageInv, PageTypeOK, TypeOK

-----------------------------------------------------------------------------

(* A step of the services that the pages do not notice: no cart, no order and
   nothing that was read changes, and no order is accepted. *)
Unnoticed ==
  /\ UNCHANGED <<cart, sold, units>>
  /\ \A r \in clears' : r \in clears \/ (r \in Requests /\ pc[r] = "save")
  /\ \A r \in Requests : \/ pc'[r] = pc[r]
                         \/ pc'[r] \in {"refused", "failed"} /\ pc[r] # "ok"
                         \/ pc'[r] = "getCart" /\ pc[r] = "waiting"
                         \/ /\ pc[r] \in ReadCart \cup {"cleared"}
                            /\ pc'[r] \in ReadCart \cup {"cleared"}

LEMMA UnnoticedStep ==
  ASSUME TypeOK, ServiceStep, ~ \E r \in Requests : GetCart(r) \/ ExecuteClear(r) \/ Commit(r)
  PROVE  Unnoticed
<1>1. ASSUME UNCHANGED <<cart, sold, units, pc>>, clears' \subseteq clears PROVE Unnoticed
  BY <1>1 DEF Unnoticed
<1>2. ASSUME UNCHANGED <<cart, sold, units, clears>>, NEW r \in Requests, NEW to,
             pc' = [pc EXCEPT ![r] = to],
             \/ to \in {"refused", "failed"} /\ pc[r] # "ok"
             \/ to = "getCart" /\ pc[r] = "waiting"
             \/ pc[r] \in ReadCart /\ to \in ReadCart
      PROVE  Unnoticed
  BY <1>2 DEF Unnoticed, TypeOK
<1>3. ASSUME \/ \E p \in Products, x \in Prices : SetPrice(p, x)
             \/ \E k \in approved : ExpireApproval(k)
             \/ \E r \in Requests : LoseClear(r)
      PROVE  Unnoticed
  BY <1>1, <1>3 DEF SetPrice, ExpireApproval, LoseClear, locals, history
<1>4. ASSUME UNCHANGED <<cart, sold, units, clears>>, NEW R, RollBack(R),
             \A r \in R : pc[r] # "ok"
      PROVE  Unnoticed
  BY <1>4 DEF Unnoticed, RollBack
<1>5. CASE Crash
  BY <1>4, <1>5 DEF Crash, locals, Working
<1>6. ASSUME NEW r \in Requests, Fail(r) PROVE Unnoticed
  BY <1>4, <1>6 DEF Fail, services, locals
<1>7. ASSUME NEW r \in Requests,
             \/ Begin(r) \/ PoolTimeout(r) \/ EmptyCart(r) \/ GateCacheHit(r)
             \/ GateCacheMiss(r) \/ Approve(r) \/ Refuse(r)
      PROVE  Unnoticed
  <2>1. UNCHANGED <<cart, sold, units, clears>>
    BY <1>7 DEF Begin, PoolTimeout, EmptyCart, GateCacheHit, GateCacheMiss, Approve, Refuse,
                services, locals, history
  <2>2. PICK to \in {"refused", "failed", "getCart", "save", "hash"} :
           /\ pc' = [pc EXCEPT ![r] = to]
           /\ \/ to \in {"refused", "failed"} /\ pc[r] # "ok"
              \/ to = "getCart" /\ pc[r] = "waiting"
              \/ pc[r] \in ReadCart /\ to \in ReadCart
    BY <1>7 DEF Begin, PoolTimeout, EmptyCart, GateCacheHit, GateCacheMiss, Approve, Refuse,
                Move, ReadCart
  <2> QED
    BY <1>2, <2>1, <2>2
<1>8. ASSUME NEW r \in Requests, SaveAndSendClear(r) PROVE Unnoticed
  BY <1>8 DEF SaveAndSendClear, Move, locals, history, Unnoticed, ReadCart, TypeOK
<1>9. ASSUME NEW r \in Requests, NEW p \in Products,
             NEW here \in {"fetch", "hash", "price"}, NEW next \in {"gate", "price", "decide"},
             ForItem(r, p, here, next), UNCHANGED <<cart, sold, units, clears>>
      PROVE  Unnoticed
  <2>1. CASE UNCHANGED pc
    BY <1>1, <1>9, <2>1
  <2>2. CASE Move(r, here, next)
    BY <1>2, <1>9, <2>2 DEF Move, ReadCart
  <2> QED
    BY <1>9, <2>1, <2>2 DEF ForItem
<1>10. ASSUME NEW r \in Requests, NEW p \in Products, NEW ok \in BOOLEAN,
              FetchProduct(r, p) \/ CheckHash(r, p, ok) \/ CheckPrice(r, p, ok)
       PROVE  Unnoticed
  BY <1>9, <1>10 DEF FetchProduct, CheckHash, CheckPrice, services, history
<1>11. ASSUME NEW r \in Requests, Step(r) PROVE Unnoticed
  <2>1. \/ Begin(r) \/ PoolTimeout(r) \/ EmptyCart(r) \/ GateCacheHit(r)
        \/ GateCacheMiss(r) \/ Approve(r) \/ Refuse(r) \/ SaveAndSendClear(r) \/ Fail(r)
        \/ \E p \in Products : FetchProduct(r, p)
        \/ \E p \in Products, ok \in BOOLEAN : CheckHash(r, p, ok) \/ CheckPrice(r, p, ok)
    BY <1>11 DEF Step, OwnStep, AwaitingStep, GateReads
  <2> QED
    BY <1>6, <1>7, <1>8, <1>10, <2>1
<1> QED
  BY <1>3, <1>5, <1>11 DEF ServiceStep

LEMMA UnnoticedStaysSerene ==
  ASSUME SereneInv, serene, UNCHANGED browser, Unnoticed
  PROVE  Serenity'
<1> USE DEF SereneInv, Serenity, Unnoticed, browser
<1>1. OnePageAtWork'
  BY DEF OnePageAtWork
<1>2. OrdersAreAwaited'
  BY DEF OrdersAreAwaited, Working, ReadCart
<1>3. OneAttempt'
  BY DEF OneAttempt, ReadCart
<1>4. ClearsAreAwaited'
  <2> SUFFICES ASSUME NEW r \in clears', NEW t \in CheckoutTabs, UserOf[r] = Customer
               PROVE  page[t] # "syncing" /\ (page[t] = "ordering" => r \in attempt[t])
    BY DEF ClearsAreAwaited
  <2>1. CASE r \in clears
    BY <2>1 DEF ClearsAreAwaited
  <2>2. CASE r \in Requests /\ pc[r] = "save"
    BY <2>2, AtWork DEF InFlight, Working
  <2> QED
    BY <2>1, <2>2
<1>5. CartIsPosted'
  BY DEF CartIsPosted
<1>6. OrderIsShown'
  <2> SUFFICES ASSUME NEW t \in CheckoutTabs, NEW p \in Products, page[t] = "ordering",
                      NEW r \in attempt[t]
               PROVE  /\ pc'[r] \in {"waiting", "getCart"} => cart[Customer][p] = shown[t][p]
                      /\ pc'[r] \in ReadCart \cup {"cleared"} => units[r][p] = shown[t][p]
    BY DEF OrderIsShown
  <2>1. r \in Requests
    BY DEF PageInv, PageTypeOK
  <2> QED
    BY <2>1 DEF OrderIsShown, ReadCart
<1>7. AskedIsAccountedFor'
  <2>1. \A t \in CheckoutTabs : \A r \in attempt[t] : pc'[r] = "ok" <=> pc[r] = "ok"
    BY DEF PageInv, PageTypeOK, ReadCart
  <2> QED
    BY <2>1 DEF AskedIsAccountedFor, Learning
<1> QED
  BY <1>1, <1>2, <1>3, <1>4, <1>5, <1>6, <1>7

(* An order reads the cart: the one that is awaited finds what its page posted. *)
LEMMA GetCartStaysSerene ==
  ASSUME SereneInv, serene, UNCHANGED browser, NEW r \in Requests, GetCart(r)
  PROVE  Serenity'
<1>1. /\ pc[r] = "getCart"
      /\ \A s \in Requests : pc'[s] = IF s = r THEN "fetch" ELSE pc[s]
      /\ \A s \in Requests : units'[s] = IF s = r THEN cart[UserOf[r]] ELSE units[s]
      /\ UNCHANGED <<cart, clears, sold>>
  BY DEF GetCart, Move, services, history, SereneInv, PageInv, PageTypeOK, TypeOK
<1>2. \A t \in CheckoutTabs : attempt[t] \subseteq Requests
  BY DEF SereneInv, PageInv, PageTypeOK
<1> USE <1>1, <1>2 DEF SereneInv, Serenity, browser
<1>3. OnePageAtWork' /\ ClearsAreAwaited' /\ CartIsPosted'
  BY DEF OnePageAtWork, ClearsAreAwaited, CartIsPosted
<1>4. OrdersAreAwaited' /\ OneAttempt'
  BY DEF OrdersAreAwaited, OneAttempt, Working
<1>5. OrderIsShown'
  <2> SUFFICES ASSUME NEW t \in CheckoutTabs, NEW p \in Products, page[t] = "ordering",
                      NEW s \in attempt[t]
               PROVE  /\ pc'[s] \in {"waiting", "getCart"} => cart[Customer][p] = shown[t][p]
                      /\ pc'[s] \in ReadCart \cup {"cleared"} => units'[s][p] = shown[t][p]
    BY DEF OrderIsShown
  <2>1. UserOf[s] = Customer
    BY DEF OneAttempt
  <2> QED
    BY <2>1 DEF OrderIsShown, ReadCart
<1>6. AskedIsAccountedFor'
  BY DEF AskedIsAccountedFor, Learning
<1> QED
  BY <1>3, <1>4, <1>5, <1>6

(* A clear empties the customer's cart only for the order that is awaited, which
   has read it. *)
LEMMA ClearStaysSerene ==
  ASSUME SereneInv, serene, UNCHANGED browser, NEW r \in Requests, ExecuteClear(r)
  PROVE  Serenity'
<1>1. /\ r \in clears /\ clears' = clears \ {r} /\ pc[r] \in {"clearing", "failed"}
      /\ \A s \in Requests : pc'[s] = IF s = r /\ pc[r] = "clearing" THEN "cleared" ELSE pc[s]
      /\ UserOf[r] # Customer => cart'[Customer] = cart[Customer]
      /\ UNCHANGED <<units, sold>>
  BY UsersOfRequests, CustomerIsUser
  DEF ExecuteClear, locals, history, SereneInv, GateInv, ClearsArePastGate, TypeOK
<1>2. \A t \in CheckoutTabs : attempt[t] \subseteq Requests
  BY DEF SereneInv, PageInv, PageTypeOK
<1> USE <1>1, <1>2 DEF SereneInv, Serenity, browser
<1>3. OnePageAtWork' /\ ClearsAreAwaited'
  BY DEF OnePageAtWork, ClearsAreAwaited
<1>4. OrdersAreAwaited' /\ OneAttempt'
  BY DEF OrdersAreAwaited, OneAttempt, Working
<1>5. CartIsPosted'
  BY DEF CartIsPosted, ClearsAreAwaited
<1>6. OrderIsShown'
  <2> SUFFICES ASSUME NEW t \in CheckoutTabs, NEW p \in Products, page[t] = "ordering",
                      NEW s \in attempt[t]
               PROVE  /\ pc'[s] \in {"waiting", "getCart"} => cart'[Customer][p] = shown[t][p]
                      /\ pc'[s] \in ReadCart \cup {"cleared"} => units[s][p] = shown[t][p]
    BY DEF OrderIsShown
  <2>1. CASE UserOf[r] = Customer
    <3>1. s = r
      BY <2>1 DEF ClearsAreAwaited, OneAttempt
    <3> QED
      BY <3>1 DEF OrderIsShown, ReadCart
  <2>2. CASE UserOf[r] # Customer
    BY <2>2 DEF OrderIsShown, ReadCart
  <2> QED
    BY <2>1, <2>2
<1>7. AskedIsAccountedFor'
  BY DEF AskedIsAccountedFor, Learning
<1> QED
  BY <1>3, <1>4, <1>5, <1>6, <1>7

(* A commit sells what the page that waits for it shows. *)
LEMMA SaleStaysSerene ==
  ASSUME SereneInv, serene, UNCHANGED browser, NEW r \in Requests, Commit(r)
  PROVE  Serenity'
<1>1. /\ pc[r] = "cleared"
      /\ \A s \in Requests : pc'[s] = IF s = r THEN "ok" ELSE pc[s]
      /\ UNCHANGED <<cart, clears, units>>
      /\ \A p \in Products :
            sold'[Customer][p] = IF UserOf[r] = Customer THEN sold[Customer][p] + units[r][p]
                                                         ELSE sold[Customer][p]
  BY UsersOfRequests, CustomerIsUser
  DEF Commit, Move, locals, SereneInv, PageInv, PageTypeOK, TypeOK
<1>2. \A t \in CheckoutTabs : attempt[t] \subseteq Requests
  BY DEF SereneInv, PageInv, PageTypeOK
<1> USE <1>1, <1>2 DEF SereneInv, Serenity, browser
<1>3. OnePageAtWork' /\ ClearsAreAwaited' /\ CartIsPosted'
  BY DEF OnePageAtWork, ClearsAreAwaited, CartIsPosted
<1>4. OrdersAreAwaited' /\ OneAttempt' /\ OrderIsShown'
  BY DEF OrdersAreAwaited, OneAttempt, OrderIsShown, Working, ReadCart
<1>5. AskedIsAccountedFor'
  <2>1. CASE UserOf[r] = Customer
    <3>1. PICK t \in CheckoutTabs : page[t] = "ordering" /\ r \in attempt[t]
      BY <2>1 DEF OrdersAreAwaited, Working
    <3>2. \A w \in CheckoutTabs : w # t => ~Learning(w)'
      BY <3>1, AtWork DEF InFlight, Learning
    <3>3. ~Learning(t) /\ Learning(t)'
      BY <3>1 DEF Learning, OneAttempt
    <3>4. \A w \in CheckoutTabs : ~Learning(w)
      BY <3>1, <3>3, AtWork DEF InFlight
    <3>5. ASSUME NEW p \in Products
          PROVE  asked[p] + shown[t][p] = local[p] + sold'[Customer][p]
      <4>1. asked[p] = local[p] + sold[Customer][p]
        BY <3>4 DEF AskedIsAccountedFor
      <4>2. units[r][p] = shown[t][p]
        BY <3>1 DEF OrderIsShown
      <4> QED
        BY <2>1, <4>1, <4>2, PageNumbers
    <3> QED
      BY <3>2, <3>3, <3>5 DEF AskedIsAccountedFor
  <2>2. CASE UserOf[r] # Customer
    <3>1. \A t \in CheckoutTabs : Learning(t)' <=> Learning(t)
      BY <2>2 DEF Learning, OneAttempt
    <3> QED
      BY <2>2, <3>1 DEF AskedIsAccountedFor
  <2> QED
    BY <2>1, <2>2
<1> QED
  BY <1>3, <1>4, <1>5

-----------------------------------------------------------------------------

(* The stored cart is edited from a copy that is up to date, if at all. *)
LEMMA StoredCartStaysSerene ==
  ASSUME SereneInv, serene, serene',
         \/ \E p \in Products, n \in 1..MaxAsked : AddToCart(p, n)
         \/ \E c \in CartTabs : OpenCart(c)
         \/ \E c \in CartTabs, p \in Products, n \in 0..MaxAsked : EditCart(c, p, n)
  PROVE  Serenity'
<1>0. UNCHANGED <<vars, page, shown, unsent, attempt>>
  BY DEF AddToCart, OpenCart, EditCart
<1>1. \A p \in Products : asked'[p] - local'[p] = asked[p] - local[p]
  <2>1. ASSUME NEW p \in Products, NEW n \in 1..MaxAsked, AddToCart(p, n)
        PROVE  \A q \in Products : asked'[q] - local'[q] = asked[q] - local[q]
    <3>1. \A q \in Products : /\ asked'[q] = IF q = p THEN asked[q] + n ELSE asked[q]
                              /\ local'[q] = IF q = p THEN local[q] + n ELSE local[q]
      BY <2>1 DEF AddToCart, SereneInv, PageInv, PageTypeOK
    <3>2. n \in Nat
      BY MaxAskedNatural
    <3> QED
      BY <3>1, <3>2, PageNumbers DEF SereneInv
  <2>2. ASSUME NEW c \in CartTabs, NEW p \in Products, NEW n \in 0..MaxAsked, EditCart(c, p, n)
        PROVE  \A q \in Products : asked'[q] - local'[q] = asked[q] - local[q]
    <3>1. copy[c] = local
      BY <2>2 DEF EditCart, SereneIf
    <3>2. \A q \in Products :
            /\ asked'[q] = IF q = p THEN asked[q] + n - local[q] ELSE asked[q]
            /\ local'[q] = IF q = p THEN n ELSE local[q]
      BY <2>2, <3>1 DEF EditCart, SereneInv, PageInv, PageTypeOK
    <3>3. n \in Nat
      BY MaxAskedNatural
    <3> QED
      BY <3>2, <3>3, PageNumbers DEF SereneInv
  <2>3. ASSUME NEW c \in CartTabs, OpenCart(c)
        PROVE  \A q \in Products : asked'[q] - local'[q] = asked[q] - local[q]
    BY <2>3 DEF OpenCart
  <2> QED
    BY <2>1, <2>2, <2>3
<1>2. \A p \in Products : asked'[p] \in Nat /\ local'[p] \in Nat
  BY NextPageTypeOK DEF PageTypeOK, PageNext, PageStep, SereneInv
<1>3. \A p \in Products : /\ asked[p] \in Nat /\ local[p] \in Nat /\ sold[Customer][p] \in Nat
                          /\ \A t \in CheckoutTabs : shown[t][p] \in Nat
  BY PageNumbers DEF SereneInv
<1>4. AskedIsAccountedFor'
  <2>1. \A t \in CheckoutTabs : Learning(t)' <=> Learning(t)
    BY <1>0 DEF Learning, vars
  <2>2. ASSUME NEW p \in Products, asked[p] = local[p] + sold[Customer][p]
        PROVE  asked'[p] = local'[p] + sold[Customer][p]
    BY <1>1, <1>2, <1>3, <2>2
  <2>3. ASSUME NEW t \in CheckoutTabs, NEW p \in Products,
               asked[p] + shown[t][p] = local[p] + sold[Customer][p]
        PROVE  asked'[p] + shown[t][p] = local'[p] + sold[Customer][p]
    BY <1>1, <1>2, <1>3, <2>3
  <2> QED
    BY <1>0, <2>1, <2>2, <2>3 DEF AskedIsAccountedFor, SereneInv, Serenity, vars
<1> QED
  BY <1>0, <1>4
  DEF SereneInv, Serenity, OnePageAtWork, OrdersAreAwaited, OneAttempt, ClearsAreAwaited,
      CartIsPosted, OrderIsShown, vars

(* A page is opened or reloaded while it is not at work. *)
LEMMA OpenStaysSerene ==
  ASSUME SereneInv, serene, serene', NEW t \in CheckoutTabs, OpenCheckout(t)
  PROVE  Serenity'
<1>1. /\ page[t] \notin InFlight
      /\ \A w \in CheckoutTabs : page'[w] = IF w = t THEN "open" ELSE page[w]
      /\ \A w \in CheckoutTabs : w # t =>
            shown'[w] = shown[w] /\ unsent'[w] = unsent[w] /\ attempt'[w] = attempt[w]
      /\ UNCHANGED <<vars, local, asked>>
  BY DEF OpenCheckout, SereneIf, SereneInv, PageInv, PageTypeOK
<1> USE <1>1 DEF SereneInv, Serenity, InFlight, vars
<1>2. OnePageAtWork' /\ OrdersAreAwaited' /\ OneAttempt' /\ ClearsAreAwaited'
  BY DEF OnePageAtWork, OrdersAreAwaited, OneAttempt, ClearsAreAwaited
<1>3. CartIsPosted' /\ OrderIsShown'
  BY DEF CartIsPosted, OrderIsShown
<1>4. AskedIsAccountedFor'
  <2>1. ~Learning(t) /\ ~Learning(t)'
    BY DEF Learning
  <2>2. \A w \in CheckoutTabs : w # t => (Learning(w)' <=> Learning(w))
    BY DEF Learning
  <2> QED
    BY <2>1, <2>2 DEF AskedIsAccountedFor
<1> QED
  BY <1>2, <1>3, <1>4

(* A page starts to post, into an empty cart and alone. *)
LEMMA ConfirmStaysSerene ==
  ASSUME SereneInv, serene, serene', NEW t \in CheckoutTabs, Confirm(t)
  PROVE  Serenity'
<1>1. /\ InCart(Customer) = {}
      /\ \A r \in Requests : ~Unfinished(r)
      /\ \A w \in CheckoutTabs : page[w] \notin InFlight
  BY DEF Confirm, SereneIf
<1>2. /\ \A w \in CheckoutTabs : page'[w] = IF w = t THEN "syncing" ELSE page[w]
      /\ unsent'[t] = Items(shown[t])
      /\ UNCHANGED <<vars, local, shown, attempt, asked>>
  BY DEF Confirm, Turn, SereneInv, PageInv, PageTypeOK
<1>3. OnePageAtWork' /\ OrdersAreAwaited' /\ OneAttempt'
  BY <1>1, <1>2 DEF OnePageAtWork, OrdersAreAwaited, OneAttempt, Unfinished, InFlight, vars
<1>4. ClearsAreAwaited'
  BY <1>1, <1>2 DEF ClearsAreAwaited, Unfinished, vars, SereneInv, GateInv, TypeOK
<1>5. CartIsPosted'
  <2>1. \A p \in Products : /\ cart[Customer][p] = 0
                            /\ p \notin Items(shown[t]) => shown[t][p] = 0
    BY <1>1, PageNumbers DEF InCart, Items, SereneInv
  <2> QED
    BY <1>1, <1>2, <2>1 DEF CartIsPosted, InFlight, vars
<1>6. OrderIsShown'
  BY <1>1, <1>2 DEF OrderIsShown, InFlight
<1>7. AskedIsAccountedFor'
  BY <1>1, <1>2 DEF AskedIsAccountedFor, Learning, InFlight, vars, SereneInv, Serenity
<1> QED
  BY <1>3, <1>4, <1>5, <1>6, <1>7 DEF Serenity

(* An item is posted. *)
LEMMA PostStaysSerene ==
  ASSUME SereneInv, serene, NEW t \in CheckoutTabs, NEW p \in Products, PostItem(t, p)
  PROVE  Serenity'
<1>1. /\ page[t] = "syncing" /\ p \in unsent[t]
      /\ \A q \in Products : cart'[Customer][q] =
            IF q = p THEN cart[Customer][q] + shown[t][q] ELSE cart[Customer][q]
      /\ \A w \in CheckoutTabs : unsent'[w] = IF w = t THEN unsent[t] \ {p} ELSE unsent[w]
      /\ UNCHANGED <<page, shown, attempt, local, asked, pc, clears, units, sold>>
  BY CustomerIsUser DEF PostItem, AddItem, locals, SereneInv, PageInv, PageTypeOK, TypeOK
<1>2. \A w \in CheckoutTabs : w # t => page[w] \notin InFlight
  BY <1>1, AtWork DEF InFlight
<1> USE DEF SereneInv, Serenity
<1>3. OnePageAtWork' /\ OrdersAreAwaited' /\ OneAttempt' /\ ClearsAreAwaited'
  BY <1>1 DEF OnePageAtWork, OrdersAreAwaited, OneAttempt, ClearsAreAwaited
<1>4. CartIsPosted'
  <2> SUFFICES ASSUME NEW q \in Products
               PROVE  cart'[Customer][q] = IF q \in unsent'[t] THEN 0 ELSE shown[t][q]
    BY <1>1, <1>2 DEF CartIsPosted, InFlight
  <2>1. cart[Customer][q] = IF q \in unsent[t] THEN 0 ELSE shown[t][q]
    BY <1>1 DEF CartIsPosted
  <2>2. shown[t][q] \in Nat
    BY PageNumbers
  <2> QED
    BY <1>1, <2>1, <2>2
<1>5. OrderIsShown'
  BY <1>1, <1>2 DEF OrderIsShown, InFlight
<1>6. AskedIsAccountedFor'
  BY <1>1 DEF AskedIsAccountedFor, Learning
<1> QED
  BY <1>3, <1>4, <1>5, <1>6

(* The order is sent when everything is posted. *)
LEMMA SendStaysSerene ==
  ASSUME SereneInv, serene, NEW t \in CheckoutTabs, NEW r \in Requests, SendOrder(t, r)
  PROVE  Serenity'
<1>1. /\ page[t] = "syncing" /\ unsent[t] = {} /\ UserOf[r] = Customer
      /\ \A s \in Requests : pc'[s] = IF s = r THEN "waiting" ELSE pc[s]
      /\ \A w \in CheckoutTabs : page'[w] = IF w = t THEN "ordering" ELSE page[w]
      /\ \A w \in CheckoutTabs : attempt'[w] = IF w = t THEN {r} ELSE attempt[w]
      /\ UNCHANGED <<shown, unsent, local, asked, cart, clears, units, sold>>
  BY DEF SendOrder, Turn, Submit, Move, services, locals, history,
         SereneInv, PageInv, PageTypeOK, TypeOK
<1>2. /\ \A w \in CheckoutTabs : w # t => page[w] \notin InFlight
      /\ \A s \in Requests : UserOf[s] = Customer => pc[s] \notin {"waiting"} \cup Working
  BY <1>1, AtWork DEF InFlight
<1> USE DEF SereneInv, Serenity
<1>3. OnePageAtWork' /\ OrdersAreAwaited' /\ OneAttempt'
  BY <1>1, <1>2 DEF OnePageAtWork, OrdersAreAwaited, OneAttempt, InFlight, Working
<1>4. ClearsAreAwaited'
  BY <1>1 DEF ClearsAreAwaited
<1>5. CartIsPosted'
  BY <1>1, <1>2 DEF CartIsPosted, InFlight
<1>6. OrderIsShown'
  BY <1>1, <1>2 DEF OrderIsShown, CartIsPosted, InFlight, ReadCart
<1>7. AskedIsAccountedFor'
  BY <1>1, <1>2 DEF AskedIsAccountedFor, Learning, InFlight
<1> QED
  BY <1>3, <1>4, <1>5, <1>6, <1>7

(* The page gives up, its order having failed or not been sent. *)
LEMMA GiveUpStaysSerene ==
  ASSUME SereneInv, serene, serene', NEW t \in CheckoutTabs,
         SendOrderThrows(t) \/ OrderRefused(t) \/ OrderAnswerLost(t)
  PROVE  Serenity'
<1>1. /\ page[t] \in {"syncing", "ordering"}
      /\ page[t] = "ordering" => \A r \in attempt[t] : pc[r] \in {"refused", "failed"}
      /\ \A w \in CheckoutTabs : page'[w] = IF w = t THEN "open" ELSE page[w]
      /\ \A w \in CheckoutTabs : w # t => attempt'[w] = attempt[w]
      /\ UNCHANGED <<vars, shown, unsent, local, asked>>
  <2> USE DEF SereneInv, PageInv, PageTypeOK, Turn
  <2>1. CASE SendOrderThrows(t)
    BY <2>1 DEF SendOrderThrows
  <2>2. CASE OrderRefused(t)
    <3>1. page[t] = "ordering" /\ \E r \in attempt[t] : pc[r] \in {"refused", "failed"}
      BY <2>2 DEF OrderRefused
    <3>2. \A r \in attempt[t] : pc[r] \in {"refused", "failed"}
      BY <3>1 DEF Serenity, OneAttempt
    <3> QED
      BY <2>2, <3>2 DEF OrderRefused
  <2>3. CASE OrderAnswerLost(t)
    BY <2>3 DEF OrderAnswerLost, SereneIf
  <2> QED
    BY <2>1, <2>2, <2>3
<1>2. /\ \A w \in CheckoutTabs : w # t => page[w] \notin InFlight
      /\ \A s \in Requests : UserOf[s] = Customer => pc[s] \notin {"waiting"} \cup Working
  <2>1. page[t] \in InFlight
    BY <1>1 DEF InFlight
  <2> QED
    BY <1>1, <2>1, AtWork DEF Working
<1>3. \A w \in CheckoutTabs : page'[w] \notin InFlight
  BY <1>1, <1>2 DEF InFlight
<1>4. /\ OnePageAtWork' /\ OrdersAreAwaited' /\ OneAttempt' /\ ClearsAreAwaited'
      /\ CartIsPosted' /\ OrderIsShown'
  BY <1>1, <1>2, <1>3
  DEF OnePageAtWork, OrdersAreAwaited, OneAttempt, ClearsAreAwaited, CartIsPosted,
      OrderIsShown, InFlight, vars
<1>5. AskedIsAccountedFor'
  <2>1. \A w \in CheckoutTabs : ~Learning(w) /\ ~Learning(w)'
    BY <1>1, <1>2, <1>3 DEF Learning, InFlight
  <2> QED
    BY <1>1, <2>1 DEF AskedIsAccountedFor, vars, SereneInv, Serenity
<1> QED
  BY <1>4, <1>5 DEF Serenity

(* The page learns that its order is there. *)
LEMMA AcceptStaysSerene ==
  ASSUME SereneInv, serene, NEW t \in CheckoutTabs, OrderAccepted(t)
  PROVE  Serenity'
<1>1. /\ page[t] = "ordering" /\ \E r \in attempt[t] : pc[r] = "ok"
      /\ \A w \in CheckoutTabs : page'[w] = IF w = t THEN "paying" ELSE page[w]
      /\ UNCHANGED <<vars, attempt, shown, unsent, local, asked>>
  BY DEF OrderAccepted, Turn, SereneInv, PageInv, PageTypeOK
<1>2. /\ \A w \in CheckoutTabs : w # t => page[w] \notin InFlight
      /\ \A s \in Requests : UserOf[s] = Customer => pc[s] \notin {"waiting"} \cup Working
  <2>1. page[t] \in InFlight
    BY <1>1 DEF InFlight
  <2>2. \A r \in attempt[t] : pc[r] = "ok"
    BY <1>1 DEF SereneInv, Serenity, OneAttempt
  <2> QED
    BY <2>1, <2>2, AtWork DEF Working
<1> USE DEF SereneInv, Serenity
<1>3. OnePageAtWork' /\ OrdersAreAwaited' /\ OneAttempt' /\ ClearsAreAwaited'
  BY <1>1, <1>2 DEF OnePageAtWork, OrdersAreAwaited, OneAttempt, ClearsAreAwaited,
                    InFlight, vars
<1>4. CartIsPosted' /\ OrderIsShown'
  BY <1>1, <1>2 DEF CartIsPosted, OrderIsShown, InFlight
<1>5. AskedIsAccountedFor'
  <2>1. \A w \in CheckoutTabs : Learning(w)' <=> Learning(w)
    BY <1>1, <1>2 DEF Learning, InFlight, vars
  <2> QED
    BY <1>1, <2>1 DEF AskedIsAccountedFor, vars
<1> QED
  BY <1>3, <1>4, <1>5

(* The page drops the stored cart, which is what it shows and was ordered. *)
LEMMA SuccessStaysSerene ==
  ASSUME SereneInv, serene, serene', NEW t \in CheckoutTabs, PaymentAnswered(t)
  PROVE  Serenity'
<1>1. /\ page[t] = "paying" /\ local = shown[t] /\ local' = NoUnits
      /\ \A w \in CheckoutTabs : page'[w] = IF w = t THEN "success" ELSE page[w]
      /\ \A w \in CheckoutTabs : w # t => shown'[w] = shown[w]
      /\ UNCHANGED <<vars, attempt, unsent, asked>>
  BY DEF PaymentAnswered, Turn, SereneIf, SereneInv, PageInv, PageTypeOK
<1>2. /\ \A w \in CheckoutTabs : w # t => page[w] \notin InFlight
      /\ \A s \in Requests : UserOf[s] = Customer => pc[s] \notin {"waiting"} \cup Working
  BY <1>1, AtWork DEF InFlight
<1>3. Learning(t)
  BY <1>1 DEF Learning, SereneInv, PageInv, PaidForAccepted
<1>4. \A w \in CheckoutTabs : page'[w] \notin InFlight
  BY <1>1, <1>2 DEF InFlight
<1>5. /\ OnePageAtWork' /\ OrdersAreAwaited' /\ OneAttempt' /\ ClearsAreAwaited'
      /\ CartIsPosted' /\ OrderIsShown'
  BY <1>1, <1>2, <1>4
  DEF OnePageAtWork, OrdersAreAwaited, OneAttempt, ClearsAreAwaited, CartIsPosted,
      OrderIsShown, InFlight, vars
<1>6. AskedIsAccountedFor'
  <2>1. \A w \in CheckoutTabs : ~Learning(w)'
    BY <1>4 DEF Learning, InFlight
  <2>2. ASSUME NEW p \in Products PROVE asked[p] = local'[p] + sold[Customer][p]
    <3>1. asked[p] + shown[t][p] = local[p] + sold[Customer][p]
      BY <1>3 DEF AskedIsAccountedFor, SereneInv, Serenity
    <3>2. shown[t][p] = local[p] /\ local'[p] = 0
      BY <1>1 DEF NoUnits
    <3> QED
      BY <3>1, <3>2, PageNumbers DEF SereneInv
  <2> QED
    BY <1>1, <2>1, <2>2 DEF AskedIsAccountedFor, vars
<1> QED
  BY <1>5, <1>6 DEF Serenity

(* Every step without a hitch keeps the serenity. *)
LEMMA NextSereneInv == SereneInv /\ [PageNext]_pageVars => SereneInv'
<1> SUFFICES ASSUME SereneInv, [PageNext]_pageVars PROVE SereneInv'
  OBVIOUS
<1>1. GateInv'
  BY PageStepIsStep, NextGateInv DEF SereneInv
<1>2. PageInv'
  <2>1. SomethingOrdered' /\ AcceptedIsStored'
    BY PageStepIsStep, AcceptedStays DEF SereneInv, PageInv, PageTypeOK
  <2> QED
    BY <2>1, NextPageTypeOK, NextUnsentIsShown, NextPaidForAccepted DEF PageInv, SereneInv
<1>3. ASSUME serene' PROVE Serenity'
  <2>1. serene
    BY <1>3 DEF PageNext, PageStep, ServiceStep, browser, pageVars, SereneIf, AddToCart, OpenCart,
                EditCart, OpenCheckout, Confirm, PostItem, PostItemRefused, PostItemThrows,
                SendOrder, SendOrderThrows, OrderAccepted, OrderRefused, OrderAnswerLost,
                PaymentAnswered, PaymentThrows
  <2>2. CASE ServiceStep
    <3>1. UNCHANGED browser /\ TypeOK
      BY <2>2 DEF ServiceStep, SereneInv, GateInv
    <3>2. CASE \E r \in Requests : GetCart(r) \/ ExecuteClear(r) \/ Commit(r)
      BY <2>1, <3>1, <3>2, GetCartStaysSerene, ClearStaysSerene, SaleStaysSerene
    <3>3. CASE ~ \E r \in Requests : GetCart(r) \/ ExecuteClear(r) \/ Commit(r)
      BY <2>1, <2>2, <3>1, <3>3, UnnoticedStep, UnnoticedStaysSerene
    <3> QED
      BY <3>2, <3>3
  <2>3. CASE UNCHANGED pageVars
    <3>1. UNCHANGED browser /\ Unnoticed
      BY <2>3 DEF pageVars, vars, browser, Unnoticed
    <3> QED
      BY <2>1, <3>1, UnnoticedStaysSerene
  <2>4. CASE \/ \E p \in Products, n \in 1..MaxAsked : AddToCart(p, n)
             \/ \E c \in CartTabs : OpenCart(c)
             \/ \E c \in CartTabs, p \in Products, n \in 0..MaxAsked : EditCart(c, p, n)
    BY <1>3, <2>1, <2>4, StoredCartStaysSerene
  <2>5. ASSUME NEW t \in CheckoutTabs,
               \/ OpenCheckout(t) \/ Confirm(t)
               \/ \E p \in Products : PostItem(t, p)
               \/ \E r \in Requests : SendOrder(t, r)
               \/ SendOrderThrows(t) \/ OrderAccepted(t) \/ OrderRefused(t)
               \/ OrderAnswerLost(t) \/ PaymentAnswered(t)
        PROVE  Serenity'
    BY <1>3, <2>1, <2>5, OpenStaysSerene, ConfirmStaysSerene, PostStaysSerene, SendStaysSerene,
       GiveUpStaysSerene, AcceptStaysSerene, SuccessStaysSerene
  <2>6. ASSUME NEW t \in CheckoutTabs,
               \/ PaymentThrows(t)
               \/ \E p \in Products : PostItemRefused(t, p) \/ PostItemThrows(t, p)
        PROVE  FALSE
    BY <1>3, <2>6 DEF PaymentThrows, PostItemRefused, PostItemThrows, SereneIf
  <2> QED
    BY <2>2, <2>3, <2>4, <2>5, <2>6 DEF PageNext, PageStep
<1> QED
  BY <1>1, <1>2, <1>3 DEF SereneInv

(* Without a hitch, every unit the customer asked for is still in her stored cart
   or in exactly one order, for any number of tabs, products and requests and any
   size of the pool. *)
THEOREM SereneCustomersAreServed == PageSpec => []SereneCustomerGetsWhatSheAsked
<1>1. SereneInv => SereneCustomerGetsWhatSheAsked
  BY DEF SereneInv, Serenity, AskedIsAccountedFor, Learning, SereneCustomerGetsWhatSheAsked
<1> QED
  BY <1>1, InitSereneInv, NextSereneInv, PTL DEF PageSpec
=============================================================================
