---------------------------- MODULE PaymentGate -----------------------------
(***************************************************************************)
(* The payment security gate of the order-service as an object shared by   *)
(* the threads of the service: two concurrent maps, one of approvals and   *)
(* one of pending authentications, and three operations on them.           *)
(*                                                                         *)
(* OrderPlacement models the gate inside createOrder, with the checks      *)
(* behind a decision; here the decision is any, and what is modelled is    *)
(* what follows from it: approvals and challenges that live for a time,    *)
(* calls of verifyAdditionalAuthentication that overlap, three strikes, a  *)
(* counter that is a plain int, and restarts that forget everything.       *)
(* No caller of verifyAdditionalAuthentication exists yet, so that any     *)
(* thread may call it for any challenge.                                   *)
(*                                                                         *)
(* A challenge is named by its request.  Its token is made of the time in  *)
(* milliseconds and the user; two requests of one user do not reach this   *)
(* point in one millisecond, since createOrder runs one at a time (the     *)
(* pool of one connection) and a validation makes remote calls.            *)
(***************************************************************************)
EXTENDS Integers, FiniteSets

CONSTANTS
  Requests,      \* requests that reach the gate
  Calls,         \* calls of verifyAdditionalAuthentication
  Keys,          \* transaction keys: user and total, the order id being null
  KeyOf,         \* the key of a request
  ApprovalLife,  \* 900 seconds
  PendingLife,   \* 300 seconds
  MaxTime        \* bound: the clock stops here

ASSUME KeysOfRequests == KeyOf \in [Requests -> Keys]
ASSUME LivesPositive == ApprovalLife \in Nat \ {0} /\ PendingLife \in Nat /\ MaxTime \in Nat

VARIABLES
  clock,      \* the time, starting at 1
  approvals,  \* approvedTransactions: when the entry of a key expires, 0 if none
  pending,    \* pendingAuthentications: the challenges in the map
  deadline,   \* expiresAt of a challenge
  failures,   \* failedAttempts of a challenge
  rpc,        \* how far a request is
  vpc,        \* how far a call is
  on,         \* the challenge a call is about
  read,       \* failedAttempts as the call read it
  earned,     \* history: when the gate cleared a key last, 0 if never
  wrong,      \* history: wrong codes that were judged, by challenge
  crowded,    \* history: challenges two calls worked on at the same time
  settled,    \* history: challenges of which a call has ended approved or blocked
  late        \* history: calls about a challenge settled before they began

maps == <<approvals, pending, deadline, failures>>
history == <<earned, wrong, crowded, settled, late>>
vars == <<clock, approvals, pending, deadline, failures, rpc, vpc, on, read,
          earned, wrong, crowded, settled, late>>

MaxFailures == 3

(* Where a call is while it holds the challenge it found. *)
Verifying == {"check", "increment", "judge", "cache"}
Answers == {"approved", "blocked", "auth_failed", "error", "died"}

TypeOK ==
  /\ clock \in Nat \ {0}
  /\ approvals \in [Keys -> Nat]
  /\ pending \subseteq Requests
  /\ deadline \in [Requests -> Nat]
  /\ failures \in [Requests -> Nat]
  /\ rpc \in [Requests -> {"new", "validating", "admitted", "challenged", "refused", "died"}]
  /\ vpc \in [Calls -> {"idle"} \cup Verifying \cup Answers]
  /\ on \in [Calls -> Requests]
  /\ read \in [Calls -> Nat]
  /\ earned \in [Keys -> Nat]
  /\ wrong \in [Requests -> Nat]
  /\ crowded \subseteq Requests
  /\ settled \subseteq Requests
  /\ late \subseteq Calls

Init ==
  /\ clock = 1
  /\ approvals = [k \in Keys |-> 0]
  /\ pending = {}
  /\ deadline = [r \in Requests |-> 0]
  /\ failures = [r \in Requests |-> 0]
  /\ rpc = [r \in Requests |-> "new"]
  /\ vpc = [v \in Calls |-> "idle"]
  /\ on \in [Calls -> Requests]
  /\ read = [v \in Calls |-> 0]
  /\ earned = [k \in Keys |-> 0]
  /\ wrong = [r \in Requests |-> 0]
  /\ crowded = {}
  /\ settled = {}
  /\ late = {}

Tick ==
  /\ clock < MaxTime
  /\ clock' = clock + 1
  /\ UNCHANGED <<maps, rpc, vpc, on, read, history>>

Answer(r, from, to) ==
  /\ rpc[r] = from
  /\ rpc' = [rpc EXCEPT ![r] = to]

Move(v, from, to) ==
  /\ vpc[v] = from
  /\ vpc' = [vpc EXCEPT ![v] = to]

(* isApprovalStillValid of the cached entry, if there is one *)
Approved(k) == clock < approvals[k]

(* cacheApprovedTransaction *)
CacheApproval(k) ==
  /\ approvals' = [approvals EXCEPT ![k] = clock + ApprovalLife]
  /\ earned' = [earned EXCEPT ![k] = clock]

-----------------------------------------------------------------------------
(***************************************************************************)
(* validatePaymentTransition                                               *)
(***************************************************************************)

(* Mutant of CacheHit: an entry counts however old it is. *)
CacheHitForEver(r) ==
  /\ approvals[KeyOf[r]] # 0
  /\ Answer(r, "new", "admitted")
  /\ UNCHANGED <<clock, maps, vpc, on, read, history>>

CacheHit(r) ==
  /\ Approved(KeyOf[r])
  /\ Answer(r, "new", "admitted")
  /\ UNCHANGED <<clock, maps, vpc, on, read, history>>

StartValidation(r) ==
  /\ ~Approved(KeyOf[r])
  /\ Answer(r, "new", "validating")
  /\ UNCHANGED <<clock, maps, vpc, on, read, history>>

(* APPROVE and APPROVE_WITH_MONITORING *)
Approve(r) ==
  /\ Answer(r, "validating", "admitted")
  /\ CacheApproval(KeyOf[r])
  /\ UNCHANGED <<clock, pending, deadline, failures, vpc, on, read,
                 wrong, crowded, settled, late>>

(* handleAdditionalAuthRequired *)
RequireAuthentication(r) ==
  /\ Answer(r, "validating", "challenged")
  /\ pending' = pending \cup {r}
  /\ deadline' = [deadline EXCEPT ![r] = clock + PendingLife]
  /\ UNCHANGED <<clock, approvals, failures, vpc, on, read, history>>

(* FLAG_FOR_REVIEW and BLOCK *)
Refuse(r) ==
  /\ Answer(r, "validating", "refused")
  /\ UNCHANGED <<clock, maps, vpc, on, read, history>>

-----------------------------------------------------------------------------
(***************************************************************************)
(* verifyAdditionalAuthentication                                          *)
(***************************************************************************)

(* The call begins: it is late if its challenge is settled already, and it
   crowds the challenge if another call works on it. *)
Note(v) ==
  /\ late' = IF on[v] \in settled THEN late \cup {v} ELSE late
  /\ crowded' =
       IF \E w \in Calls : on[w] = on[v] /\ vpc[w] \in Verifying
         THEN crowded \cup {on[v]} ELSE crowded

(* The token is in the map. *)
Find(v) ==
  /\ on[v] \in pending
  /\ Move(v, "idle", "check")
  /\ Note(v)
  /\ UNCHANGED <<clock, maps, rpc, on, read, earned, wrong, settled>>

(* It is not: "Invalid or expired authentication token". *)
FindNothing(v) ==
  /\ on[v] \notin pending
  /\ Move(v, "idle", "error")
  /\ Note(v)
  /\ UNCHANGED <<clock, maps, rpc, on, read, earned, wrong, settled>>

(* The challenge is past its time: it is removed. *)
FindExpired(v) ==
  /\ clock > deadline[on[v]]
  /\ Move(v, "check", "error")
  /\ pending' = pending \ {on[v]}
  /\ UNCHANGED <<clock, approvals, deadline, failures, rpc, on, read, history>>

(* Mutant of RightCode: the challenge stays in the map. *)
RightCodeKeeps(v) ==
  /\ clock <= deadline[on[v]]
  /\ Move(v, "check", "cache")
  /\ UNCHANGED <<clock, maps, rpc, on, read, history>>

(* The code is the right one: the challenge is removed. *)
RightCode(v) ==
  /\ clock <= deadline[on[v]]
  /\ Move(v, "check", "cache")
  /\ pending' = pending \ {on[v]}
  /\ UNCHANGED <<clock, approvals, deadline, failures, rpc, on, read, history>>

(* ... and the approval is cached: APPROVED. *)
CacheVerified(v) ==
  /\ Move(v, "cache", "approved")
  /\ CacheApproval(KeyOf[on[v]])
  /\ settled' = settled \cup {on[v]}
  /\ UNCHANGED <<clock, pending, deadline, failures, rpc, on, read, wrong,
                 crowded, late>>

(* The code is wrong, and failedAttempts is read to be incremented. *)
WrongCode(v) ==
  /\ clock <= deadline[on[v]]
  /\ Move(v, "check", "increment")
  /\ read' = [read EXCEPT ![v] = failures[on[v]]]
  /\ wrong' = [wrong EXCEPT ![on[v]] = @ + 1]
  /\ UNCHANGED <<clock, maps, rpc, on, earned, crowded, settled, late>>

(* Mutant of Increment: the attempts are counted down from zero. *)
CountDown(v) ==
  /\ Move(v, "increment", "judge")
  /\ failures' = [failures EXCEPT ![on[v]] = read[v] - 1]
  /\ UNCHANGED <<clock, approvals, pending, deadline, rpc, on, read, history>>

(* setFailedAttempts: what another call has written since is lost. *)
Increment(v) ==
  /\ Move(v, "increment", "judge")
  /\ failures' = [failures EXCEPT ![on[v]] = read[v] + 1]
  /\ UNCHANGED <<clock, approvals, pending, deadline, rpc, on, read, history>>

(* Mutant of Struck: four strikes. *)
FourStrikes(v) == failures[on[v]] > MaxFailures

Struck(v) == failures[on[v]] >= MaxFailures

(* Mutant of Blocked: the token stays valid after BLOCKED. *)
BlockedKeeps(v) ==
  /\ Struck(v)
  /\ Move(v, "judge", "blocked")
  /\ settled' = settled \cup {on[v]}
  /\ UNCHANGED <<clock, maps, rpc, on, read, earned, wrong, crowded, late>>

(* The third strike: the challenge is removed, BLOCKED. *)
Blocked(v) ==
  /\ Struck(v)
  /\ Move(v, "judge", "blocked")
  /\ pending' = pending \ {on[v]}
  /\ settled' = settled \cup {on[v]}
  /\ UNCHANGED <<clock, approvals, deadline, failures, rpc, on, read,
                 earned, wrong, crowded, late>>

(* AUTH_FAILED, and the challenge stays. *)
AuthFailed(v) ==
  /\ ~Struck(v)
  /\ Move(v, "judge", "auth_failed")
  /\ UNCHANGED <<clock, maps, rpc, on, read, history>>

-----------------------------------------------------------------------------
(* The process stops and starts again: both maps are empty, and the requests
   and calls it was working on are gone. *)
Crash ==
  /\ approvals' = [k \in Keys |-> 0]
  /\ pending' = {}
  /\ rpc' = [r \in Requests |-> IF rpc[r] = "validating" THEN "died" ELSE rpc[r]]
  /\ vpc' = [v \in Calls |-> IF vpc[v] \in Verifying THEN "died" ELSE vpc[v]]
  /\ UNCHANGED <<clock, deadline, failures, on, read, history>>

Next ==
  \/ Tick
  \/ Crash
  \/ \E r \in Requests :
        CacheHit(r) \/ StartValidation(r) \/ Approve(r) \/ RequireAuthentication(r) \/ Refuse(r)
  \/ \E v \in Calls :
        \/ Find(v) \/ FindNothing(v) \/ FindExpired(v)
        \/ RightCode(v) \/ CacheVerified(v)
        \/ WrongCode(v) \/ Increment(v) \/ Blocked(v) \/ AuthFailed(v)

Spec == Init /\ [][Next]_vars
-----------------------------------------------------------------------------
(***************************************************************************)
(* Properties                                                              *)
(***************************************************************************)

(* The gate implements the lease: no request gets past it on an approval of
   another user or total, on one that has expired, or on one that no validation
   and no challenge has earned, whatever overlaps, expires or restarts. *)
Lease == INSTANCE ApprovalLease WITH
           now <- clock, cleared <- earned, LeaseTime <- ApprovalLife,
           challenged <- {r \in Requests : rpc[r] = "challenged"},
           admitted <- {r \in Requests : rpc[r] = "admitted"}
LeaseSpec == Lease!Spec

(* A challenge that was met or blocked is settled: a call that begins later
   finds no token, so that a code is good once and nothing unblocks a challenge.
   Calls that looked the token up before may still go on and approve. *)
SettledForGood == \A v \in late : vpc[v] = "error"

(* Three strikes: as long as no two calls worked on a challenge side by side, at
   most three wrong codes are judged for it, also across expiry and restart, and
   every one of them was counted.  Overlapping calls may lose counts. *)
ThreeStrikes ==
  \A r \in Requests \ crowded :
    /\ wrong[r] <= MaxFailures
    /\ (\A v \in Calls : on[v] = r => vpc[v] \notin {"increment", "died"})
         => failures[r] = wrong[r]
=============================================================================
