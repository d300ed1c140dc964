------------------------- MODULE EligibilityProofs -------------------------
(***************************************************************************)
(* Proofs that the eligibility gauge of a provider, for any number of      *)
(* requests, shows exactly one reason whenever no labels are being written *)
(* once it has been refreshed, and the current one when no request is      *)
(* about to refresh it.                                                    *)
(***************************************************************************)
EXTENDS Eligibility, TLAPS

Updating == {"locked", "writing", "written"}

(* The value the update of request q gives a label. *)
Value(q, r) == IF r = reason[q] THEN 1 ELSE 0

(* Somebody is about to resolve the reason afresh, or the open state has   *)
(* lapsed, which nobody has to refresh the gauge for.                      *)
Pending ==
  \/ breaker.state = "half_open"
  \/ \E q \in Requests : pc[q] \in {"refresh", "locked"}

(* Updates exclude one another. *)
Exclusive == \A q \in Requests : pc[q] \in Updating <=> mu = q

(* The labels an update has passed are as it wants them. *)
WrittenSoFar ==
  \A q \in Requests :
    /\ pc[q] = "writing" =>
         /\ next[q] \in 1 .. Len(Labels)
         /\ \A i \in 1 .. next[q] - 1 : gauge[Labels[i]] = Value(q, Labels[i])
    /\ pc[q] = "written" => \A r \in Reasons : gauge[r] = Value(q, r)

(* The reason an update writes is current, unless a newer one is pending. *)
Fresh ==
  \A q \in Requests :
    pc[q] \in {"writing", "written"} => reason[q] = Resolved \/ Pending

AtRest == refreshed /\ mu = NoOne => Shown = {Resolved} \/ Pending

EligibilityInv ==
  /\ TypeOK /\ Exclusive /\ WrittenSoFar /\ Fresh /\ AtRest /\ OneHotAtRest

-----------------------------------------------------------------------------
LEMMA LabelFacts ==
  /\ Len(Labels) = 7
  /\ \A i \in 1 .. 7 : Labels[i] \in Reasons
  /\ \A r \in Reasons : \E i \in 1 .. 7 : r = Labels[i]
BY DEF Labels, Reasons

LEMMA ReasonFacts ==
  /\ {"eligible", "missing_key", "breaker_open"} \subseteq Reasons
  /\ Structural \subseteq Reasons
<1>1. /\ Labels[1] = "eligible" /\ Labels[3] = "missing_key"
      /\ Labels[5] = "breaker_open" /\ Labels[6] = "quota_exhausted"
      /\ Labels[7] = "credentials_rejected"
  BY DEF Labels
<1>. QED
  BY <1>1, LabelFacts DEF Structural

LEMMA ResolvedIsReason == TypeOK => Resolved \in Reasons
BY ReasonFacts DEF Resolved, TypeOK

LEMMA InitInv == Init => EligibilityInv
<1>. SUFFICES ASSUME Init PROVE EligibilityInv
  OBVIOUS
<1>1. TypeOK
  <2>1. /\ gauge \in [Reasons -> {0, 1}]
        /\ reason \in [Requests -> Reasons]
        /\ next \in [Requests -> 1 .. Len(Labels) + 1]
    BY LabelFacts, ReasonFacts DEF Init
  <2>. QED
    BY <2>1 DEF Init, TypeOK
<1>2. ~refreshed
  BY DEF Init
<1>3. Exclusive /\ WrittenSoFar /\ Fresh
  BY RequestsAssumption
  DEF Init, Exclusive, Updating, WrittenSoFar, Fresh
<1>. QED
  BY <1>1, <1>2, <1>3 DEF EligibilityInv, AtRest, OneHotAtRest

(* The breaker moves, and if anything but a lapse moved it, somebody is to *)
(* refresh the gauge.                                                      *)
LEMMA BreakerInv ==
  ASSUME EligibilityInv,
         Lapse \/ \E q \in Requests : CallOrSkip(q)
  PROVE  EligibilityInv'
<1>. USE DEF EligibilityInv
<1>1. UNCHANGED <<usable, gauge, mu, reason, next, refreshed>>
  BY DEF Lapse, CallOrSkip
<1>2. /\ \A q \in Requests : pc'[q] \in Updating <=> pc[q] \in Updating
      /\ \A q \in Requests : pc'[q] \in {"writing", "written"} => pc'[q] = pc[q]
      /\ pc' \in [Requests ->
                    {"idle", "refresh", "locked", "writing", "written"}]
  BY DEF Lapse, CallOrSkip, TypeOK, Updating
<1>3. Pending'
  <2>1. CASE Lapse
    BY <2>1 DEF Lapse, HalfOpen, Pending
  <2>2. ASSUME NEW q \in Requests, CallOrSkip(q) PROVE Pending'
    BY <2>2 DEF CallOrSkip, Pending, TypeOK
  <2>. QED
    BY <2>1, <2>2
<1>4. breaker' \in {Closed, HalfOpen} \cup {Open(r) : r \in TripReasons}
  BY DEF TypeOK, Lapse, CallOrSkip, Transitions
<1>5. TypeOK'
  BY <1>1, <1>2, <1>4 DEF TypeOK, Exclusive, Updating
<1>6. Exclusive' /\ WrittenSoFar'
  BY <1>1, <1>2 DEF Exclusive, WrittenSoFar, Value
<1>7. Fresh' /\ AtRest'
  BY <1>3 DEF Fresh, AtRest
<1>8. OneHotAtRest'
  <2>1. \A q \in Requests : pc[q] = "writing" => pc'[q] = "writing"
    BY DEF Lapse, CallOrSkip, TypeOK
  <2>2. Shown' = Shown
    BY <1>1 DEF Shown
  <2>. QED
    BY <1>1, <2>1, <2>2 DEF OneHotAtRest
<1>. QED
  BY <1>5, <1>6, <1>7, <1>8

LEMMA LockInv ==
  ASSUME EligibilityInv, NEW q \in Requests, Lock(q)
  PROVE  EligibilityInv'
<1>. USE DEF EligibilityInv
<1>1. /\ mu = NoOne /\ mu' = q /\ q # NoOne
      /\ pc' = [pc EXCEPT ![q] = "locked"]
      /\ UNCHANGED <<usable, breaker, gauge, reason, next, refreshed>>
  BY RequestsAssumption DEF Lock
<1>2. /\ pc'[q] = "locked"
      /\ \A p \in Requests \ {q} : pc'[p] = pc[p] /\ pc[p] \notin Updating
  BY <1>1, RequestsAssumption DEF TypeOK, Exclusive
<1>3. TypeOK'
  BY <1>1, <1>2 DEF TypeOK, Updating
<1>4. Exclusive'
  BY <1>1, <1>2 DEF Exclusive, Updating
<1>5. WrittenSoFar' /\ Fresh'
  BY <1>2 DEF WrittenSoFar, Fresh, Updating
<1>6. AtRest'
  BY <1>1, RequestsAssumption DEF AtRest
<1>7. (\A p \in Requests : pc[p] # "writing") /\ Shown' = Shown
  BY <1>1, <1>2 DEF Updating, Shown, Lock
<1>8. OneHotAtRest'
  BY <1>1, <1>7 DEF OneHotAtRest
<1>. QED
  BY <1>3, <1>4, <1>5, <1>6, <1>8

LEMMA ResolveInv ==
  ASSUME EligibilityInv, NEW q \in Requests, Resolve(q)
  PROVE  EligibilityInv'
<1>. USE DEF EligibilityInv
<1>1. /\ reason' = [reason EXCEPT ![q] = Resolved]
      /\ next' = [next EXCEPT ![q] = 1]
      /\ pc' = [pc EXCEPT ![q] = "writing"]
      /\ UNCHANGED <<usable, breaker, gauge, mu, refreshed>>
  BY DEF Resolve
<1>2. mu = q /\ \A p \in Requests \ {q} : pc[p] \notin Updating
  BY DEF Resolve, Exclusive, Updating
<1>3. /\ pc'[q] = "writing" /\ next'[q] = 1 /\ reason'[q] = Resolved
      /\ \A p \in Requests \ {q} : pc'[p] = pc[p]
  BY <1>1 DEF TypeOK
<1>4. Resolved' = Resolved
  BY <1>1 DEF Resolved
<1>5. TypeOK'
  BY <1>1, <1>2, <1>3, ResolvedIsReason, LabelFacts DEF TypeOK, Updating
<1>6. Exclusive'
  BY <1>1, <1>2, <1>3 DEF Exclusive, Updating
<1>7. WrittenSoFar'
  BY <1>2, <1>3, LabelFacts DEF WrittenSoFar, Updating
<1>8. Fresh'
  BY <1>2, <1>3, <1>4 DEF Fresh, Updating
<1>9. AtRest' /\ OneHotAtRest'
  BY <1>1, <1>2, <1>3, RequestsAssumption DEF AtRest, OneHotAtRest
<1>. QED
  BY <1>5, <1>6, <1>7, <1>8, <1>9

LEMMA WriteLabelInv ==
  ASSUME EligibilityInv, NEW q \in Requests, WriteLabel(q)
  PROVE  EligibilityInv'
<1>. USE DEF EligibilityInv
<1>. DEFINE n == next[q]
<1>1. /\ pc[q] = "writing" /\ n \in 1 .. 7
      /\ gauge' = [gauge EXCEPT ![Labels[n]] = Value(q, Labels[n])]
      /\ next' = [next EXCEPT ![q] = n + 1]
      /\ pc' = [pc EXCEPT ![q] = IF n = 7 THEN "written" ELSE "writing"]
      /\ UNCHANGED <<usable, breaker, mu, reason, refreshed>>
  BY LabelFacts DEF WriteLabel, WrittenSoFar, Value
<1>2. mu = q /\ \A p \in Requests \ {q} : pc[p] \notin Updating
  BY <1>1 DEF Exclusive, Updating
<1>3. /\ pc'[q] = (IF n = 7 THEN "written" ELSE "writing")
      /\ next'[q] = n + 1
      /\ \A p \in Requests \ {q} : pc'[p] = pc[p]
  BY <1>1 DEF TypeOK
<1>4. Labels[n] \in Reasons /\ Value(q, Labels[n]) \in {0, 1}
  BY <1>1, LabelFacts DEF Value
<1>5. TypeOK'
  BY <1>1, <1>2, <1>3, <1>4, LabelFacts DEF TypeOK, Updating
<1>6. Exclusive'
  BY <1>1, <1>2, <1>3 DEF Exclusive, Updating
<1>7. \A i \in 1 .. n : gauge'[Labels[i]] = Value(q, Labels[i])
  <2>. SUFFICES ASSUME NEW i \in 1 .. n
                PROVE  gauge'[Labels[i]] = Value(q, Labels[i])
    OBVIOUS
  <2>1. Labels[i] \in Reasons /\ (i = n \/ i \in 1 .. n - 1)
    BY <1>1, LabelFacts
  <2>2. i \in 1 .. n - 1 => gauge[Labels[i]] = Value(q, Labels[i])
    BY <1>1 DEF WrittenSoFar
  <2>. QED
    BY <1>1, <1>4, <2>1, <2>2 DEF TypeOK
<1>8. WrittenSoFar'
  <2>1. CASE n = 7
    <3>1. \A r \in Reasons : gauge'[r] = Value(q, r)
      BY <1>7, <2>1, LabelFacts
    <3>. QED
      BY <1>1, <1>2, <1>3, <2>1, <3>1 DEF WrittenSoFar, Updating, Value
  <2>2. CASE n # 7
    BY <1>1, <1>2, <1>3, <1>7, <2>2, LabelFacts
    DEF WrittenSoFar, Updating, Value
  <2>. QED
    BY <2>1, <2>2
<1>9. Fresh'
  BY <1>1, <1>2, <1>3 DEF Fresh, Updating, Pending, Resolved
<1>10. AtRest'
  BY <1>1, <1>2, RequestsAssumption DEF AtRest
<1>11. OneHotAtRest'
  <2>1. CASE n = 7
    <3>1. \A r \in Reasons : gauge'[r] = Value(q, r)
      BY <1>7, <2>1, LabelFacts
    <3>2. reason[q] \in Reasons /\ Shown' = {reason[q]}
      BY <3>1 DEF TypeOK, Shown, Value
    <3>. QED
      BY <3>2 DEF OneHotAtRest
  <2>2. CASE n # 7
    BY <1>3, <2>2 DEF OneHotAtRest
  <2>. QED
    BY <2>1, <2>2
<1>. QED
  BY <1>5, <1>6, <1>8, <1>9, <1>10, <1>11

LEMMA UnlockInv ==
  ASSUME EligibilityInv, NEW q \in Requests, Unlock(q)
  PROVE  EligibilityInv'
<1>. USE DEF EligibilityInv
<1>1. /\ pc[q] = "written" /\ mu' = NoOne
      /\ pc' = [pc EXCEPT ![q] = "idle"]
      /\ UNCHANGED <<usable, breaker, gauge, reason, next>>
      /\ refreshed' = TRUE
  BY DEF Unlock
<1>2. mu = q /\ \A p \in Requests \ {q} : pc[p] \notin Updating
  BY <1>1 DEF Exclusive, Updating
<1>3. pc'[q] = "idle" /\ \A p \in Requests \ {q} : pc'[p] = pc[p]
  BY <1>1 DEF TypeOK
<1>4. TypeOK'
  BY <1>1, <1>2, <1>3 DEF TypeOK, Updating
<1>5. Exclusive'
  BY <1>1, <1>2, <1>3, RequestsAssumption DEF Exclusive, Updating
<1>6. WrittenSoFar' /\ Fresh'
  BY <1>2, <1>3 DEF WrittenSoFar, Fresh, Updating
<1>7. reason[q] \in Reasons /\ Shown = {reason[q]}
  BY <1>1 DEF Shown, WrittenSoFar, Value, TypeOK
<1>8. Shown' = Shown /\ Resolved' = Resolved
  BY <1>1 DEF Shown, Resolved
<1>9. Pending => Pending'
  BY <1>1, <1>3 DEF Pending
<1>10. reason[q] = Resolved \/ Pending
  BY <1>1 DEF Fresh
<1>. QED
  BY <1>4, <1>5, <1>6, <1>7, <1>8, <1>9, <1>10 DEF AtRest, OneHotAtRest

LEMMA StepInv == EligibilityInv /\ [Next]_vars => EligibilityInv'
<1>. SUFFICES ASSUME EligibilityInv, [Next]_vars PROVE EligibilityInv'
  OBVIOUS
<1>1. CASE Next
  BY <1>1, BreakerInv, LockInv, ResolveInv, WriteLabelInv, UnlockInv
  DEF Next, Refresh
<1>2. CASE UNCHANGED vars
  BY <1>2 DEF vars, EligibilityInv, TypeOK, Exclusive, Updating, WrittenSoFar,
     Value, Fresh, AtRest, OneHotAtRest, Shown, Resolved, Pending
<1>. QED
  BY <1>1, <1>2

-----------------------------------------------------------------------------
(* Updates exclude one another, and what they have written so far, what    *)
(* they are to write and what the gauge shows at rest agree with the       *)
(* breaker (metrics.go:256-274).                                           *)
THEOREM EligibilityInvariant == Spec => []EligibilityInv
BY InitInv, StepInv, PTL DEF Spec

(* Every variable keeps its type; who updates the gauge has the mutex. *)
THEOREM TypeCorrect == Spec => []TypeOK
<1>1. EligibilityInv => TypeOK
  BY DEF EligibilityInv
<1>. QED
  BY <1>1, EligibilityInvariant, PTL

(* Once an update has finished exactly one reason is shown whenever nobody *)
(* is writing labels (metrics.go:62).                                      *)
THEOREM OneHot == Spec => []OneHotAtRest
<1>1. EligibilityInv => OneHotAtRest
  BY DEF EligibilityInv
<1>. QED
  BY <1>1, EligibilityInvariant, PTL

(* No delayed writer leaves a stale reason behind (metrics.go:252-255). *)
THEOREM GaugeIsCurrent == Spec => []RestingGaugeIsCurrent
<1>1. EligibilityInv => RestingGaugeIsCurrent
  <2>. SUFFICES ASSUME EligibilityInv,
                       \A q \in Requests : pc[q] = "idle",
                       refreshed, breaker.state # "half_open"
                PROVE  Shown = {Resolved}
    BY DEF RestingGaugeIsCurrent
  <2>1. mu = NoOne
    BY DEF EligibilityInv, TypeOK, Exclusive, Updating
  <2>2. ~Pending
    BY DEF Pending
  <2>. QED
    BY <2>1, <2>2 DEF EligibilityInv, AtRest
<1>. QED
  BY <1>1, EligibilityInvariant, PTL
=============================================================================
