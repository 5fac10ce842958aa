--------------------------- MODULE ApprovalLease ----------------------------
(***************************************************************************)
(* What the payment security gate promises: a request gets past it either  *)
(* because it was validated itself, or on the strength of a clearance      *)
(* given to the same user and total less than LeaseTime ago; and a         *)
(* clearance comes from a validation or from a challenge that was issued.  *)
(* Nothing is said of caches, tokens, attempts, races or restarts.         *)
(***************************************************************************)
EXTENDS Integers

CONSTANTS
  Requests,   \* requests that come to the gate
  Keys,       \* pairs of a user and a total
  KeyOf,      \* the pair of a request
  LeaseTime   \* for how long a clearance is good

VARIABLES
  now,         \* the time, starting at 1
  cleared,     \* cleared[k]: when k was cleared last, 0 if never
  challenged,  \* requests that were answered with a challenge
  admitted     \* requests that got past the gate

vars == <<now, cleared, challenged, admitted>>

Init ==
  /\ now = 1
  /\ cleared = [k \in Keys |-> 0]
  /\ challenged = {}
  /\ admitted = {}

InLease(k) == cleared[k] # 0 /\ now - cleared[k] < LeaseTime

Clear(k) == cleared' = [cleared EXCEPT ![k] = now]

Unanswered(r) == r \notin admitted \cup challenged

Pass ==
  /\ now' = now + 1
  /\ UNCHANGED <<cleared, challenged, admitted>>

(* r was validated, or its pair holds a lease. *)
Admit(r) ==
  /\ Unanswered(r)
  /\ admitted' = admitted \cup {r}
  /\ Clear(KeyOf[r]) \/ (InLease(KeyOf[r]) /\ UNCHANGED cleared)
  /\ UNCHANGED <<now, challenged>>

Challenge(r) ==
  /\ Unanswered(r)
  /\ challenged' = challenged \cup {r}
  /\ UNCHANGED <<now, cleared, admitted>>

(* The challenge of r was met.  r itself stays refused: its customer has to
   send another request. *)
Redeem(r) ==
  /\ r \in challenged
  /\ Clear(KeyOf[r])
  /\ UNCHANGED <<now, challenged, admitted>>

Next ==
  \/ Pass
  \/ \E r \in Requests : Admit(r) \/ Challenge(r) \/ Redeem(r)

Spec == Init /\ [][Next]_vars
=============================================================================
