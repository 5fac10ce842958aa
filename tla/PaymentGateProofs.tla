------------------------- MODULE PaymentGateProofs -------------------------
(***************************************************************************)
(* Proofs about PaymentGate, for every set of requests, calls and keys and *)
(* for lives of any length.                                                *)
(***************************************************************************)
EXTENDS PaymentGate, TLAPS

(* Where a challenge stands: what is in the map or settled was answered with a
   challenge, what is settled is in the map no more, and a call that goes on to
   approve, or died, has no token left behind. *)
Standing ==
  /\ \A r \in pending : rpc[r] = "challenged"
  /\ \A r \in settled : rpc[r] = "challenged" /\ r \notin pending
  /\ \A v \in Calls : vpc[v] \in Verifying \cup {"died"} => rpc[on[v]] = "challenged"
  /\ \A v \in Calls : vpc[v] \in {"cache", "died"} => on[v] \notin pending

(* An approval in the map lives for ApprovalLife from the last time its key was
   cleared. *)
ApprovalsAreEarned ==
  \A k \in Keys :
    approvals[k] # 0 => earned[k] # 0 /\ approvals[k] = earned[k] + ApprovalLife

(* What has been counted for r while a call works on it, and what may still
   come while its token is in the map. *)
CountedSoFar(r) ==
  /\ \A v, w \in Calls :
       on[v] = r /\ on[w] = r /\ vpc[v] \in Verifying /\ vpc[w] \in Verifying => v = w
  /\ \A v \in Calls : on[v] = r /\ vpc[v] = "check" =>
       failures[r] = wrong[r] /\ wrong[r] < MaxFailures
  /\ \A v \in Calls : on[v] = r /\ vpc[v] = "increment" =>
       read[v] = failures[r] /\ wrong[r] = failures[r] + 1
  /\ \A v \in Calls : on[v] = r /\ vpc[v] = "judge" => failures[r] = wrong[r]
  /\ r \in pending /\ (\A v \in Calls : on[v] = r => vpc[v] \notin {"increment", "judge"})
       => wrong[r] < MaxFailures
  /\ rpc[r] # "challenged" => wrong[r] = 0
  /\ wrong[r] <= MaxFailures
  /\ (\A v \in Calls : on[v] = r => vpc[v] \notin {"increment", "died"})
       => failures[r] = wrong[r]

GateInv == TypeOK /\ Standing /\ ApprovalsAreEarned /\ SettledForGood
StrikesInv == GateInv /\ \A r \in Requests \ crowded : CountedSoFar(r)

(* The initial state is well typed. *)
LEMMA InitTypeOK == Init => TypeOK
  BY DEF Init, TypeOK

(* Every step keeps the state well typed. *)
LEMMA NextTypeOK == TypeOK /\ [Next]_vars => TypeOK'
<1> SUFFICES ASSUME TypeOK, [Next]_vars PROVE TypeOK'
  OBVIOUS
<1> USE KeysOfRequests, LivesPositive DEF TypeOK, maps, history
<1>1. CASE Tick
  BY <1>1 DEF Tick
<1>2. CASE Crash
  BY <1>2 DEF Crash, Verifying, Answers
<1>3. ASSUME NEW r \in Requests, CacheHit(r) \/ StartValidation(r) \/ Refuse(r)
      PROVE  TypeOK'
  BY <1>3 DEF CacheHit, StartValidation, Refuse, Answer
<1>4. ASSUME NEW r \in Requests, Approve(r) PROVE TypeOK'
  BY <1>4 DEF Approve, CacheApproval, Answer
<1>5. ASSUME NEW r \in Requests, RequireAuthentication(r) PROVE TypeOK'
  BY <1>5 DEF RequireAuthentication, Answer
<1>6. ASSUME NEW v \in Calls, Find(v) \/ FindNothing(v) PROVE TypeOK'
  BY <1>6 DEF Find, FindNothing, Note, Move, Verifying, Answers
<1>7. ASSUME NEW v \in Calls, FindExpired(v) \/ RightCode(v) \/ AuthFailed(v) PROVE TypeOK'
  BY <1>7 DEF FindExpired, RightCode, AuthFailed, Move, Verifying, Answers
<1>8. ASSUME NEW v \in Calls, CacheVerified(v) PROVE TypeOK'
  BY <1>8 DEF CacheVerified, CacheApproval, Move, Verifying, Answers
<1>9. ASSUME NEW v \in Calls, WrongCode(v) PROVE TypeOK'
  BY <1>9 DEF WrongCode, Move, Verifying, Answers
<1>10. ASSUME NEW v \in Calls, Increment(v) PROVE TypeOK'
  BY <1>10 DEF Increment, Move, Verifying, Answers
<1>11. ASSUME NEW v \in Calls, Blocked(v) PROVE TypeOK'
  BY <1>11 DEF Blocked, Move, Verifying, Answers
<1>12. CASE UNCHANGED vars
  BY <1>12 DEF vars
<1> QED
  BY <1>1, <1>2, <1>3, <1>4, <1>5, <1>6, <1>7, <1>8, <1>9, <1>10, <1>11, <1>12 DEF Next

(* TypeOK holds for every size: the maps, counters and histories of
   PaymentSecurityGateway keep their shape. *)
THEOREM TypeCorrect == Spec => []TypeOK
  BY InitTypeOK, NextTypeOK, PTL DEF Spec

-----------------------------------------------------------------------------

(* Initially there are no approvals, challenges or calls. *)
LEMMA InitGateInv == Init => GateInv
<1> SUFFICES ASSUME Init PROVE GateInv
  OBVIOUS
<1>1. /\ pending = {} /\ settled = {} /\ late = {}
      /\ \A v \in Calls : vpc[v] = "idle"
      /\ \A k \in Keys : approvals[k] = 0
  BY DEF Init
<1> QED
  BY <1>1, InitTypeOK DEF GateInv, Standing, ApprovalsAreEarned, SettledForGood, Verifying

(* Every step keeps where the challenges stand. *)
LEMMA NextStanding == TypeOK /\ Standing /\ [Next]_vars => Standing'
<1> SUFFICES ASSUME TypeOK, Standing, [Next]_vars PROVE Standing'
  OBVIOUS
<1> USE DEF TypeOK, Standing, Verifying, maps, history
<1>1. CASE Tick
  BY <1>1 DEF Tick
<1>2. CASE Crash
  BY <1>2 DEF Crash
<1>3. ASSUME NEW r \in Requests, CacheHit(r) \/ StartValidation(r) \/ Refuse(r)
      PROVE  Standing'
  BY <1>3 DEF CacheHit, StartValidation, Refuse, Answer
<1>4. ASSUME NEW r \in Requests, Approve(r) PROVE Standing'
  BY <1>4 DEF Approve, CacheApproval, Answer
<1>5. ASSUME NEW r \in Requests, RequireAuthentication(r) PROVE Standing'
  BY <1>5 DEF RequireAuthentication, Answer
<1>6. ASSUME NEW v \in Calls, Find(v) \/ FindNothing(v) PROVE Standing'
  BY <1>6 DEF Find, FindNothing, Move
<1>7. ASSUME NEW v \in Calls, FindExpired(v) \/ RightCode(v) \/ AuthFailed(v) PROVE Standing'
  BY <1>7 DEF FindExpired, RightCode, AuthFailed, Move
<1>8. ASSUME NEW v \in Calls, CacheVerified(v) PROVE Standing'
  BY <1>8 DEF CacheVerified, CacheApproval, Move
<1>9. ASSUME NEW v \in Calls, WrongCode(v) PROVE Standing'
  BY <1>9 DEF WrongCode, Move
<1>10. ASSUME NEW v \in Calls, Increment(v) PROVE Standing'
  BY <1>10 DEF Increment, Move
<1>11. ASSUME NEW v \in Calls, Blocked(v) PROVE Standing'
  BY <1>11 DEF Blocked, Move
<1>12. CASE UNCHANGED vars
  BY <1>12 DEF vars
<1> QED
  BY <1>1, <1>2, <1>3, <1>4, <1>5, <1>6, <1>7, <1>8, <1>9, <1>10, <1>11, <1>12 DEF Next

(* Every step keeps the approvals earned. *)
LEMMA NextApprovalsAreEarned ==
  TypeOK /\ ApprovalsAreEarned /\ [Next]_vars => ApprovalsAreEarned'
<1> SUFFICES ASSUME TypeOK, ApprovalsAreEarned, [Next]_vars,
                    NEW k \in Keys, approvals'[k] # 0
             PROVE  earned'[k] # 0 /\ approvals'[k] = earned'[k] + ApprovalLife
  BY DEF ApprovalsAreEarned
<1>1. CASE UNCHANGED <<approvals, earned>>
  BY <1>1 DEF ApprovalsAreEarned
<1>2. ASSUME NEW j \in Keys, CacheApproval(j)
      PROVE  earned'[k] # 0 /\ approvals'[k] = earned'[k] + ApprovalLife
  BY <1>2 DEF CacheApproval, ApprovalsAreEarned, TypeOK
<1>3. CASE Crash
  BY <1>3 DEF Crash
<1> QED
  BY <1>1, <1>2, <1>3, KeysOfRequests
  DEF Next, vars, maps, history, TypeOK, Tick, CacheHit, StartValidation, Approve,
      RequireAuthentication, Refuse, Find, FindNothing, FindExpired, RightCode,
      CacheVerified, WrongCode, Increment, Blocked, AuthFailed

(* A late call has found nothing, and no other call begins to be late: it would
   find its token only while its challenge is unsettled. *)
LEMMA NextSettledForGood ==
  TypeOK /\ Standing /\ SettledForGood /\ [Next]_vars => SettledForGood'
<1> SUFFICES ASSUME TypeOK, Standing, SettledForGood, [Next]_vars,
                    NEW v \in late'
             PROVE  vpc'[v] = "error"
  BY DEF SettledForGood
<1> USE DEF TypeOK, SettledForGood
<1>1. CASE UNCHANGED <<vpc, late>>
  BY <1>1
<1>2. ASSUME NEW w \in Calls, Find(w) \/ FindNothing(w) PROVE vpc'[v] = "error"
  BY <1>2 DEF Find, FindNothing, Note, Move, Standing
<1>3. ASSUME NEW w \in Calls, UNCHANGED late, vpc[w] \in Verifying,
             vpc' = [vpc EXCEPT ![w] = vpc'[w]]
      PROVE  vpc'[v] = "error"
  BY <1>3 DEF Verifying
<1>4. CASE Crash
  BY <1>4 DEF Crash, history, Verifying
<1>5. ASSUME NEW w \in Calls,
             \/ FindExpired(w) \/ RightCode(w) \/ CacheVerified(w) \/ WrongCode(w)
             \/ Increment(w) \/ Blocked(w) \/ AuthFailed(w)
      PROVE  vpc'[v] = "error"
  <2>1. UNCHANGED late /\ vpc[w] \in Verifying
    BY <1>5 DEF FindExpired, RightCode, CacheVerified, WrongCode, Increment, Blocked,
                AuthFailed, Move, Verifying, history
  <2>2. vpc' = [vpc EXCEPT ![w] = vpc'[w]]
    BY <1>5 DEF FindExpired, RightCode, CacheVerified, WrongCode, Increment, Blocked,
                AuthFailed, Move
  <2> QED
    BY <1>3, <2>1, <2>2
<1> QED
  BY <1>1, <1>2, <1>4, <1>5
  DEF Next, vars, history, Tick, CacheHit, StartValidation, Approve,
      RequireAuthentication, Refuse

LEMMA NextGateInv == GateInv /\ [Next]_vars => GateInv'
  BY NextTypeOK, NextStanding, NextApprovalsAreEarned, NextSettledForGood DEF GateInv

LEMMA GateInvariant == Spec => []GateInv
  BY InitGateInv, NextGateInv, PTL DEF Spec

(* SettledForGood holds for every size: a challenge that was met or blocked is
   never met, blocked or counted against again by a call that begins later. *)
THEOREM SettledOnce == Spec => []SettledForGood
  BY GateInvariant, PTL DEF GateInv

-----------------------------------------------------------------------------

(* The initial state is one of the lease. *)
LEMMA InitLease == Init => Lease!Init
  BY DEF Init, Lease!Init

(* Every step of the gate is a step of the lease or leaves it alone. *)
LEMMA NextLease == GateInv /\ [Next]_vars => [Lease!Next]_Lease!vars
<1> DEFINE Challenged == {r \in Requests : rpc[r] = "challenged"}
           Admitted == {r \in Requests : rpc[r] = "admitted"}
           Same == UNCHANGED <<clock, earned, Challenged, Admitted>>
<1> SUFFICES ASSUME GateInv, [Next]_vars PROVE [Lease!Next]_Lease!vars
  OBVIOUS
<1> USE KeysOfRequests, LivesPositive DEF GateInv, TypeOK
<1>1. CASE Same
  BY <1>1 DEF Lease!vars
<1>2. CASE Tick
  BY <1>2 DEF Tick, history, Lease!Next, Lease!Pass
<1>3. CASE Crash
  <2>1. \A r \in Requests : rpc'[r] \in {"challenged", "admitted"} \/ rpc[r] \in {"challenged", "admitted"}
          => rpc'[r] = rpc[r]
    BY <1>3 DEF Crash
  <2>2. Challenged' = Challenged /\ Admitted' = Admitted
    BY <2>1
  <2> QED
    BY <1>1, <1>3, <2>2 DEF Crash, history
<1>4. ASSUME NEW r \in Requests, CacheHit(r) \/ Approve(r) PROVE [Lease!Next]_Lease!vars
  <2>1. r \notin Challenged /\ r \notin Admitted
    BY <1>4 DEF CacheHit, Approve, Answer
  <2>2. Challenged' = Challenged /\ Admitted' = Admitted \cup {r}
    BY <1>4 DEF CacheHit, Approve, Answer
  <2>3. clock' = clock
    BY <1>4 DEF CacheHit, Approve
  <2>4. CASE CacheHit(r)
    <3>1. earned[KeyOf[r]] # 0 /\ clock - earned[KeyOf[r]] < ApprovalLife /\ earned' = earned
      BY <2>4 DEF CacheHit, Approved, ApprovalsAreEarned, history
    <3> QED
      BY <2>1, <2>2, <2>3, <3>1 DEF Lease!Next, Lease!Admit, Lease!Unanswered, Lease!InLease
  <2>5. CASE Approve(r)
    <3>1. Lease!Clear(KeyOf[r])
      BY <2>5 DEF Approve, CacheApproval, Lease!Clear
    <3> QED
      BY <2>1, <2>2, <2>3, <3>1 DEF Lease!Next, Lease!Admit, Lease!Unanswered
  <2> QED
    BY <1>4, <2>4, <2>5
<1>5. ASSUME NEW r \in Requests, RequireAuthentication(r) PROVE [Lease!Next]_Lease!vars
  <2>1. r \notin Challenged /\ r \notin Admitted
    BY <1>5 DEF RequireAuthentication, Answer
  <2>2. Challenged' = Challenged \cup {r} /\ Admitted' = Admitted
    BY <1>5 DEF RequireAuthentication, Answer
  <2> QED
    BY <1>5, <2>1, <2>2
    DEF RequireAuthentication, history, Lease!Next, Lease!Challenge, Lease!Unanswered
<1>6. ASSUME NEW r \in Requests, StartValidation(r) \/ Refuse(r) PROVE [Lease!Next]_Lease!vars
  <2>1. Challenged' = Challenged /\ Admitted' = Admitted
    BY <1>6 DEF StartValidation, Refuse, Answer
  <2> QED
    BY <1>1, <1>6, <2>1 DEF StartValidation, Refuse, history
<1>7. ASSUME NEW v \in Calls, CacheVerified(v) PROVE [Lease!Next]_Lease!vars
  <2>1. on[v] \in Challenged
    BY <1>7 DEF CacheVerified, Move, Standing, Verifying
  <2>2. Lease!Clear(KeyOf[on[v]])
    BY <1>7 DEF CacheVerified, CacheApproval, Lease!Clear
  <2>3. Challenged' = Challenged /\ Admitted' = Admitted /\ clock' = clock
    BY <1>7 DEF CacheVerified
  <2> QED
    BY <2>1, <2>2, <2>3 DEF Lease!Next, Lease!Redeem
<1>8. ASSUME NEW v \in Calls,
             \/ Find(v) \/ FindNothing(v) \/ FindExpired(v) \/ RightCode(v)
             \/ WrongCode(v) \/ Increment(v) \/ Blocked(v) \/ AuthFailed(v)
      PROVE  [Lease!Next]_Lease!vars
  BY <1>1, <1>8 DEF Find, FindNothing, FindExpired, RightCode, WrongCode, Increment,
                    Blocked, AuthFailed, history
<1>9. CASE UNCHANGED vars
  BY <1>1, <1>9 DEF vars
<1> QED
  BY <1>2, <1>3, <1>4, <1>5, <1>6, <1>7, <1>8, <1>9 DEF Next

(* The gate implements the lease for every size: whatever overlaps, expires or
   restarts, a request gets past it only on a validation of its own or on a
   clearance of its user and total that is younger than ApprovalLife. *)
THEOREM GateImplementsLease == Spec => LeaseSpec
<1>1. GateInv /\ [Next]_vars => [Lease!Next]_Lease!vars
  BY NextLease
<1> QED
  BY <1>1, InitLease, GateInvariant, PTL DEF Spec, LeaseSpec, Lease!Spec

-----------------------------------------------------------------------------

LEMMA InitStrikesInv == Init => StrikesInv
<1> SUFFICES ASSUME Init PROVE StrikesInv
  OBVIOUS
<1>1. /\ pending = {}
      /\ \A v \in Calls : vpc[v] = "idle"
      /\ \A r \in Requests : wrong[r] = 0 /\ failures[r] = 0
  BY DEF Init
<1> QED
  BY <1>1, InitGateInv DEF StrikesInv, CountedSoFar, Verifying, MaxFailures

(* A step keeps the count of a challenge that is not crowded after it. *)
LEMMA NextCountedSoFar ==
  ASSUME StrikesInv, [Next]_vars, NEW r \in Requests \ crowded'
  PROVE  CountedSoFar(r)'
<1> USE DEF StrikesInv, GateInv, TypeOK, Verifying, MaxFailures
<1>1. r \notin crowded
  BY DEF Next, vars, history, Tick, Crash, CacheHit, StartValidation, Approve,
         RequireAuthentication, Refuse, Find, FindNothing, Note, FindExpired, RightCode,
         CacheVerified, WrongCode, Increment, Blocked, AuthFailed
<1>2. CountedSoFar(r)
  BY <1>1
<1>3. ASSUME UNCHANGED <<vpc, on, failures, wrong, read, pending>>,
             rpc[r] = "challenged" => rpc'[r] = "challenged"
      PROVE  CountedSoFar(r)'
  BY <1>2, <1>3 DEF CountedSoFar
<1>4. CASE Tick
  BY <1>3, <1>4 DEF Tick, maps, history
<1>5. CASE Crash
  BY <1>2, <1>5 DEF Crash, history, CountedSoFar
<1>6. ASSUME NEW q \in Requests,
             CacheHit(q) \/ StartValidation(q) \/ Approve(q) \/ Refuse(q)
      PROVE  CountedSoFar(r)'
  BY <1>3, <1>6 DEF CacheHit, StartValidation, Approve, Refuse, Answer, maps, history
<1>7. ASSUME NEW q \in Requests, RequireAuthentication(q) PROVE CountedSoFar(r)'
  <2>1. r = q => wrong[r] = 0
    BY <1>2, <1>7 DEF RequireAuthentication, Answer, CountedSoFar
  <2> QED
    BY <1>2, <1>7, <2>1 DEF RequireAuthentication, Answer, history, CountedSoFar
<1>8. ASSUME NEW v \in Calls, Find(v) PROVE CountedSoFar(r)'
  <2>1. CASE on[v] # r
    BY <1>2, <1>8, <2>1 DEF Find, Note, Move, maps, CountedSoFar
  <2>2. CASE on[v] = r
    <3>1. \A w \in Calls : on[w] = r => vpc[w] \notin Verifying \cup {"died"}
      BY <1>8, <2>2 DEF Find, Note, Move, Standing
    <3>2. failures[r] = wrong[r] /\ wrong[r] < MaxFailures
      BY <1>2, <1>8, <2>2, <3>1 DEF Find, CountedSoFar
    <3> QED
      BY <1>2, <1>8, <2>2, <3>1, <3>2 DEF Find, Note, Move, maps, CountedSoFar
  <2> QED
    BY <2>1, <2>2
<1>9. ASSUME NEW v \in Calls, FindNothing(v) PROVE CountedSoFar(r)'
  BY <1>2, <1>9 DEF FindNothing, Move, maps, CountedSoFar
<1>10. ASSUME NEW v \in Calls, FindExpired(v) \/ RightCode(v) PROVE CountedSoFar(r)'
  BY <1>2, <1>10 DEF FindExpired, RightCode, Move, history, CountedSoFar
<1>11. ASSUME NEW v \in Calls, CacheVerified(v) PROVE CountedSoFar(r)'
  BY <1>2, <1>11 DEF CacheVerified, CacheApproval, Move, Standing, CountedSoFar
<1>12. ASSUME NEW v \in Calls, WrongCode(v) PROVE CountedSoFar(r)'
  BY <1>2, <1>12 DEF WrongCode, Move, maps, Standing, CountedSoFar
<1>13. ASSUME NEW v \in Calls, Increment(v) PROVE CountedSoFar(r)'
  BY <1>2, <1>13 DEF Increment, Move, history, CountedSoFar
<1>14. ASSUME NEW v \in Calls, Blocked(v) PROVE CountedSoFar(r)'
  BY <1>2, <1>14 DEF Blocked, Move, CountedSoFar
<1>15. ASSUME NEW v \in Calls, AuthFailed(v) PROVE CountedSoFar(r)'
  BY <1>2, <1>15 DEF AuthFailed, Struck, Move, maps, history, CountedSoFar
<1>16. CASE UNCHANGED vars
  BY <1>3, <1>16 DEF vars
<1> QED
  BY <1>4, <1>5, <1>6, <1>7, <1>8, <1>9, <1>10, <1>11, <1>12, <1>13, <1>14, <1>15, <1>16
  DEF Next

LEMMA StrikesInvariant == Spec => []StrikesInv
<1>1. StrikesInv /\ [Next]_vars => StrikesInv'
  BY NextGateInv, NextCountedSoFar DEF StrikesInv
<1> QED
  BY <1>1, InitStrikesInv, PTL DEF Spec

(* ThreeStrikes holds for every size: a challenge that no two calls worked on
   side by side judges at most three wrong codes and has counted them all. *)
THEOREM StrikesAreCounted == Spec => []ThreeStrikes
<1>1. StrikesInv => ThreeStrikes
  BY DEF StrikesInv, CountedSoFar, ThreeStrikes
<1> QED
  BY <1>1, StrikesInvariant, PTL
=============================================================================
