---------------------------- MODULE CheckoutPage ----------------------------
(***************************************************************************)
(* The pages of the shop in one customer's browser, composed with the      *)
(* order placement they drive: the catalog pages that add to the cart in   *)
(* localStorage, cart pages that edit it, and checkout pages that copy it  *)
(* to the cart-service, place the order and ask for the payment.           *)
(*                                                                         *)
(* Pages live in tabs.  A cart or checkout page loads the stored cart when *)
(* it is opened and works on that copy; a catalog page reads, changes and  *)
(* writes the stored cart at once.  confirmPayment is a chain of awaited   *)
(* requests, and each answer is a step of its own: the rest of the browser *)
(* and the services go on in between.  A request may be answered with an   *)
(* error status, or not at all, in which case fetch throws and the page is *)
(* idle again.  The form and the QR code before the confirmation change    *)
(* nothing but the view; the customer is logged in.                        *)
(*                                                                         *)
(* Only these pages call the cart-service, so that every change of the     *)
(* customer's cart there is made by one of the actions below or by a clear *)
(* command of an order.                                                    *)
(***************************************************************************)
EXTENDS OrderPlacement

CONSTANTS
  Customer,      \* the user of the browser
  CheckoutTabs,  \* tabs that may show a checkout page
  CartTabs,      \* tabs that may show a cart page
  MaxAsked       \* bound: units of a product the customer asks for

ASSUME CustomerIsUser == Customer \in Users
ASSUME MaxAskedNatural == MaxAsked \in Nat

VARIABLES
  local,    \* "vault_cart" in localStorage: units of a product, 0 if no item
  page,     \* how far a checkout page is
  shown,    \* cartItems of a checkout page
  unsent,   \* items its loop has not posted yet
  attempt,  \* the POST /api/orders it works on, a set of at most one
  copy,     \* cartItems of a cart page
  charged,  \* payment-service: orders with a transaction
  asked,    \* history: units the customer put into the stored cart, less those
            \*   she took out
  serene    \* history: no hitch so far (see the conjuncts that falsify it)

browser == <<local, page, shown, unsent, attempt, copy, charged, asked, serene>>
pageVars == <<vars, browser>>

InFlight == {"syncing", "ordering", "paying"}

PageTypeOK ==
  /\ TypeOK
  /\ local \in [Products -> Nat]
  /\ page \in [CheckoutTabs -> {"open", "success"} \cup InFlight]
  /\ shown \in [CheckoutTabs -> [Products -> Nat]]
  /\ unsent \in [CheckoutTabs -> SUBSET Products]
  /\ attempt \in [CheckoutTabs -> SUBSET Requests]
  /\ copy \in [CartTabs -> [Products -> Nat]]
  /\ charged \subseteq Requests
  /\ asked \in [Products -> Nat]
  /\ serene \in BOOLEAN

PageInit ==
  /\ Init
  /\ local = NoUnits
  /\ page = [t \in CheckoutTabs |-> "open"]
  /\ shown = [t \in CheckoutTabs |-> NoUnits]
  /\ unsent = [t \in CheckoutTabs |-> {}]
  /\ attempt = [t \in CheckoutTabs |-> {}]
  /\ copy = [c \in CartTabs |-> NoUnits]
  /\ charged = {}
  /\ asked = NoUnits
  /\ serene = TRUE

Items(bag) == {p \in Products : bag[p] > 0}

Turn(t, from, to) ==
  /\ page[t] = from
  /\ page' = [page EXCEPT ![t] = to]

(* The history goes on being serene if nothing is amiss. *)
SereneIf(fine) == serene' = (serene /\ fine)

-----------------------------------------------------------------------------
(***************************************************************************)
(* The stored cart                                                         *)
(***************************************************************************)

(* addToCart of the catalog and of the product page *)
AddToCart(p, n) ==
  /\ asked[p] + n <= MaxAsked
  /\ local' = [local EXCEPT ![p] = @ + n]
  /\ asked' = [asked EXCEPT ![p] = @ + n]
  /\ UNCHANGED <<vars, page, shown, unsent, attempt, copy, charged, serene>>

OpenCart(c) ==
  /\ copy[c] # local
  /\ copy' = [copy EXCEPT ![c] = local]
  /\ UNCHANGED <<vars, local, page, shown, unsent, attempt, charged, asked, serene>>

(* updateQuantity, and removeItem with n = 0.  The page stores its own copy,
   edited; a hitch if another page has changed the stored cart since. *)
EditCart(c, p, n) ==
  LET new == [copy[c] EXCEPT ![p] = n]
  IN  /\ p \in Items(copy[c])
      /\ n # copy[c][p]
      /\ asked[p] + n - copy[c][p] \in 0..MaxAsked
      /\ copy' = [copy EXCEPT ![c] = new]
      /\ local' = new
      /\ asked' = [asked EXCEPT ![p] = @ + n - copy[c][p]]
      /\ SereneIf(copy[c] = local)
      /\ UNCHANGED <<vars, page, shown, unsent, attempt, charged>>

-----------------------------------------------------------------------------
(***************************************************************************)
(* The checkout page                                                       *)
(***************************************************************************)

(* An order of the customer that may still act on her cart. *)
Unfinished(r) ==
  UserOf[r] = Customer /\ (pc[r] \in {"waiting"} \cup Working \/ r \in clears)

(* The page is opened or reloaded; a hitch if it was in the middle. *)
OpenCheckout(t) ==
  /\ page[t] # "open" \/ shown[t] # local
  /\ page' = [page EXCEPT ![t] = "open"]
  /\ shown' = [shown EXCEPT ![t] = local]
  /\ unsent' = [unsent EXCEPT ![t] = {}]
  /\ attempt' = [attempt EXCEPT ![t] = {}]
  /\ SereneIf(page[t] \notin InFlight)
  /\ UNCHANGED <<vars, local, copy, charged, asked>>

(* confirmPayment is called, with an empty page too; a hitch if an earlier
   attempt has left units in the cart of the cart-service, may still change it,
   or another page is at work. *)
Confirm(t) ==
  /\ Turn(t, "open", "syncing")
  /\ unsent' = [unsent EXCEPT ![t] = Items(shown[t])]
  /\ SereneIf(/\ InCart(Customer) = {}
              /\ ~ \E r \in Requests : Unfinished(r)
              /\ ~ \E w \in CheckoutTabs : page[w] \in InFlight)
  /\ UNCHANGED <<vars, local, shown, attempt, copy, charged, asked>>

(* Mutant of PostItem: the quantity is left out of the body. *)
PostItemOnce(t, p) ==
  /\ page[t] = "syncing" /\ p \in unsent[t]
  /\ AddItem(Customer, p, 1)
  /\ unsent' = [unsent EXCEPT ![t] = @ \ {p}]
  /\ UNCHANGED <<local, page, shown, attempt, copy, charged, asked, serene>>

(* POST /api/cart/items, executed and answered *)
PostItem(t, p) ==
  /\ page[t] = "syncing" /\ p \in unsent[t]
  /\ AddItem(Customer, p, shown[t][p])
  /\ unsent' = [unsent EXCEPT ![t] = @ \ {p}]
  /\ UNCHANGED <<local, page, shown, attempt, copy, charged, asked, serene>>

(* It is answered with an error; the loop does not look.  A hitch. *)
PostItemRefused(t, p) ==
  /\ page[t] = "syncing" /\ p \in unsent[t]
  /\ unsent' = [unsent EXCEPT ![t] = @ \ {p}]
  /\ SereneIf(FALSE)
  /\ UNCHANGED <<vars, local, page, shown, attempt, copy, charged, asked>>

(* No answer, whether it was executed or not: fetch throws.  A hitch, not least
   because the service may execute it later, which no step here stands for. *)
PostItemThrows(t, p) ==
  /\ Turn(t, "syncing", "open") /\ p \in unsent[t]
  /\ AddItem(Customer, p, shown[t][p]) \/ UNCHANGED vars
  /\ unsent' = [unsent EXCEPT ![t] = {}]
  /\ SereneIf(FALSE)
  /\ UNCHANGED <<local, shown, attempt, copy, charged, asked>>

(* POST /api/orders, with a signature the controller accepts *)
SendOrder(t, r) ==
  /\ unsent[t] = {}
  /\ UserOf[r] = Customer
  /\ Submit(r)
  /\ Turn(t, "syncing", "ordering")
  /\ attempt' = [attempt EXCEPT ![t] = {r}]
  /\ UNCHANGED <<local, shown, unsent, copy, charged, asked, serene>>

(* The order request does not reach the order-service: fetch throws. *)
SendOrderThrows(t) ==
  /\ unsent[t] = {}
  /\ Turn(t, "syncing", "open")
  /\ UNCHANGED <<vars, local, shown, unsent, attempt, copy, charged, asked, serene>>

(* Mutant of OrderAccepted: res.ok is not looked at. *)
OrderAnswered(t) ==
  /\ \E r \in attempt[t] : pc[r] \in Answered
  /\ Turn(t, "ordering", "paying")
  /\ UNCHANGED <<vars, local, shown, unsent, attempt, copy, charged, asked, serene>>

(* res.ok *)
OrderAccepted(t) ==
  /\ \E r \in attempt[t] : pc[r] = "ok"
  /\ Turn(t, "ordering", "paying")
  /\ UNCHANGED <<vars, local, shown, unsent, attempt, copy, charged, asked, serene>>

(* Mutant of OrderRefused: a status the page does not know. *)
OrderRefusedWithError(t) ==
  /\ \E r \in attempt[t] : pc[r] \in {"refused", "failed"}
  /\ Turn(t, "ordering", "error")
  /\ attempt' = [attempt EXCEPT ![t] = {}]
  /\ UNCHANGED <<vars, local, shown, unsent, copy, charged, asked, serene>>

(* An error status: the page is idle, its items and the stored cart as before. *)
OrderRefused(t) ==
  /\ \E r \in attempt[t] : pc[r] \in {"refused", "failed"}
  /\ Turn(t, "ordering", "open")
  /\ attempt' = [attempt EXCEPT ![t] = {}]
  /\ UNCHANGED <<vars, local, shown, unsent, copy, charged, asked, serene>>

(* The answer is lost, or comes from a proxy that does not wait any longer.  The
   order may go on, or be there already, and the page does not know.  A hitch
   unless the order has failed. *)
OrderAnswerLost(t) ==
  /\ Turn(t, "ordering", "open")
  /\ SereneIf(\A r \in attempt[t] : pc[r] \in {"refused", "failed"})
  /\ attempt' = [attempt EXCEPT ![t] = {}]
  /\ UNCHANGED <<vars, local, shown, unsent, copy, charged, asked>>

(* What HmacVerificationFilter asks of POST /api/payments, X-Signature and
   X-Timestamp, and what the page sends: neither. *)
Headers == {"Content-Type", "Authorization"}
PassesHmacFilter == {"X-Signature", "X-Timestamp"} \subseteq Headers

(* Mutant of PaymentAnswered: the stored cart is left as it is. *)
PaymentAnsweredCartKept(t) ==
  /\ Turn(t, "paying", "success")
  /\ charged' = IF PassesHmacFilter THEN charged \cup attempt[t] ELSE charged
  /\ shown' = [shown EXCEPT ![t] = NoUnits]
  /\ UNCHANGED <<vars, local, unsent, attempt, copy, asked, serene>>

(* POST /api/payments is answered, however: the stored cart is removed and the
   page reports success.  A hitch if the stored cart is not what it shows. *)
PaymentAnswered(t) ==
  /\ Turn(t, "paying", "success")
  /\ charged' = IF PassesHmacFilter THEN charged \cup attempt[t] ELSE charged
  /\ local' = NoUnits
  /\ shown' = [shown EXCEPT ![t] = NoUnits]
  /\ SereneIf(local = shown[t])
  /\ UNCHANGED <<vars, unsent, attempt, copy, asked>>

(* It is not answered: the order is there, but the page is idle.  A hitch. *)
PaymentThrows(t) ==
  /\ Turn(t, "paying", "open")
  /\ attempt' = [attempt EXCEPT ![t] = {}]
  /\ SereneIf(FALSE)
  /\ UNCHANGED <<vars, local, shown, unsent, copy, charged, asked>>

-----------------------------------------------------------------------------
PageStep ==
  \/ \E p \in Products, n \in 1..MaxAsked : AddToCart(p, n)
  \/ \E c \in CartTabs :
        OpenCart(c) \/ \E p \in Products, n \in 0..MaxAsked : EditCart(c, p, n)
  \/ \E t \in CheckoutTabs :
        \/ OpenCheckout(t) \/ Confirm(t)
        \/ \E p \in Products : PostItem(t, p) \/ PostItemRefused(t, p) \/ PostItemThrows(t, p)
        \/ \E r \in Requests : SendOrder(t, r)
        \/ SendOrderThrows(t)
        \/ OrderAccepted(t) \/ OrderRefused(t) \/ OrderAnswerLost(t)
        \/ PaymentAnswered(t) \/ PaymentThrows(t)

(* What the services do on their own. *)
ServiceStep ==
  /\ \/ \E p \in Products, x \in Prices : SetPrice(p, x)
     \/ \E k \in approved : ExpireApproval(k)
     \/ Crash
     \/ \E r \in Requests : Step(r) \/ ExecuteClear(r) \/ LoseClear(r)
  /\ UNCHANGED browser

PageNext == PageStep \/ ServiceStep

PageSpec == PageInit /\ [][PageNext]_pageVars
-----------------------------------------------------------------------------
(***************************************************************************)
(* Properties                                                              *)
(***************************************************************************)

(* From the catalog page to the order: as long as there was no hitch, every unit
   the customer asked for is either still in the stored cart or in exactly one
   order, whatever prices, refusals, failed orders and retries there were.  The
   stored cart, the pages' copies, the cart of the cart-service and the orders
   are four places for the same units and nothing spans them.  (While a page has
   not yet learnt that its order is there, the units are in both places.) *)
SereneCustomerGetsWhatSheAsked ==
  LET learning(t) == /\ page[t] \in {"ordering", "paying"}
                     /\ \E r \in attempt[t] : pc[r] = "ok"
  IN  serene /\ (\A t \in CheckoutTabs : ~learning(t))
        => \A p \in Products : asked[p] = local[p] + sold[Customer][p]

(* A page that reports success, and has removed the stored cart, has an order in
   the database behind it, of at least one unit. *)
SuccessHasOrder ==
  \A t \in CheckoutTabs :
    page[t] = "success" =>
      \E r \in attempt[t], o \in orders :
        o.id = r /\ \E p \in Products : o.units[p] > 0

(* A page that reports success has created the payment transaction, as step 3 of
   confirmPayment says. *)
SuccessHasPayment ==
  \A t \in CheckoutTabs : page[t] = "success" => attempt[t] \subseteq charged
=============================================================================
