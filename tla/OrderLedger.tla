---------------------------- MODULE OrderLedger ----------------------------
(***************************************************************************)
(* What order placement promises a customer, whatever happens in between:  *)
(* an order is made of units the customer put into the cart, every unit    *)
(* goes into at most one order, and every checkout request creates at most *)
(* one order.  Nothing is said of how carts are read and cleared, of the   *)
(* gate, or of failures: these are steps that leave the ledger alone.      *)
(***************************************************************************)
EXTENDS Integers

CONSTANTS
  Users,      \* customers
  Products,   \* catalog products
  Requests,   \* POST /api/orders requests
  UserOf,     \* the customer who sends a request
  Units       \* quantities, a set of naturals

VARIABLES
  added,      \* added[u][p]: units of p that u has put into the cart so far
  sold,       \* sold[u][p]: units of p in u's orders
  placed      \* the requests that created an order

vars == <<added, sold, placed>>

Empty == [u \in Users |-> [p \in Products |-> 0]]

Init ==
  /\ added = Empty
  /\ sold = Empty
  /\ placed = {}

Add(u, p) ==
  /\ \E n \in Units : added' = [added EXCEPT ![u][p] = @ + n]
  /\ UNCHANGED <<sold, placed>>

Place(r) ==
  LET u == UserOf[r]
  IN  /\ r \notin placed
      /\ placed' = placed \cup {r}
      /\ \E bag \in [Products -> Units] :
            /\ \E p \in Products : bag[p] # 0
            /\ \A p \in Products : sold[u][p] + bag[p] <= added[u][p]
            /\ sold' = [sold EXCEPT ![u] = [p \in Products |-> sold[u][p] + bag[p]]]
      /\ UNCHANGED added

Next ==
  \/ \E u \in Users, p \in Products : Add(u, p)
  \/ \E r \in Requests : Place(r)

Spec == Init /\ [][Next]_vars
=============================================================================
