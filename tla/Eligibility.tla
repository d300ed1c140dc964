---------------------------- MODULE Eligibility ----------------------------
(***************************************************************************)
(* The provider_eligibility gauge of one provider: concurrent requests     *)
(* refresh it (internal/proxy/proxy.go) through SetProviderEligibility     *)
(* (internal/metrics/metrics.go), one label at a time, while the           *)
(* provider's breaker moves under them.                                    *)
(*                                                                         *)
(* The breaker is what Breaker's Snapshot tells of it: its state and, when *)
(* open, the reason of that epoch's trip, read at one moment.              *)
(***************************************************************************)
EXTENDS Naturals, Sequences

CONSTANT Requests \* requests that see, call or skip this provider

NoOne == "nobody"
ASSUME RequestsAssumption == NoOne \notin Requests

(* ProviderEligibilityReasons, in the order the gauge is written. *)
Labels == <<"eligible", "disabled", "missing_key", "invalid_config",
            "breaker_open", "quota_exhausted", "credentials_rejected">>

Reasons     == {Labels[i] : i \in 1 .. Len(Labels)}
Structural  == {"quota_exhausted", "credentials_rejected"}
TripReasons == Structural \cup {"network"}

VARIABLES
  usable,  \* the provider's IsAvailable(), fixed at start-up
  breaker, \* state, and trip reason while open
  gauge,   \* the value of every label
  mu,      \* holder of providerEligibilityMu
  pc,      \* what each request does
  reason,  \* the reason each request resolved
  next,    \* the label each request writes next
  refreshed \* history: an update of the gauge has finished

vars == <<usable, breaker, gauge, mu, pc, reason, next, refreshed>>

Closed   == [state |-> "closed", reason |-> ""]
HalfOpen == [state |-> "half_open", reason |-> ""]
Open(r)  == [state |-> "open", reason |-> r]

(* providerEligibilityReason. *)
Resolved ==
  CASE ~usable -> "missing_key"
    [] usable /\ breaker.state # "open" -> "eligible"
    [] usable /\ breaker.reason \in Structural -> breaker.reason
    [] OTHER -> "breaker_open"

Init ==
  /\ usable \in BOOLEAN
  /\ breaker = Closed
  /\ gauge = [r \in Reasons |-> 0]
  /\ mu = NoOne
  /\ pc = [q \in Requests |-> "idle"]
  /\ reason = [q \in Requests |-> "eligible"]
  /\ next = [q \in Requests |-> 1]
  /\ refreshed = FALSE

(* The open breaker's timeout passes: nobody refreshes the gauge for it. *)
Lapse ==
  /\ breaker.state = "open"
  /\ breaker' = HalfOpen
  /\ UNCHANGED <<usable, gauge, mu, pc, reason, next, refreshed>>

(* What one call's outcome can do to the breaker. *)
Transitions ==
  LET opened == {Open(r) : r \in TripReasons} IN
  CASE ~usable \/ breaker.state = "open" -> {breaker}
    [] usable /\ breaker.state = "closed" -> {Closed} \cup opened
    [] OTHER -> {HalfOpen, Closed} \cup opened

(* A request starts, skips the provider, or ends a call to it, which may   *)
(* have ended the breaker's epoch: it will refresh the gauge.              *)
CallOrSkip(q) ==
  /\ pc[q] = "idle"
  /\ breaker' \in Transitions
  /\ pc' = [pc EXCEPT ![q] = "refresh"]
  /\ UNCHANGED <<usable, gauge, mu, reason, next, refreshed>>

(* Defect: updates are not serialized. *)
LockSkipped(q) ==
  /\ pc[q] = "refresh"
  /\ pc' = [pc EXCEPT ![q] = "locked"]
  /\ UNCHANGED <<usable, breaker, gauge, mu, reason, next, refreshed>>

Lock(q) ==
  /\ pc[q] = "refresh"
  /\ mu = NoOne
  /\ mu' = q
  /\ pc' = [pc EXCEPT ![q] = "locked"]
  /\ UNCHANGED <<usable, breaker, gauge, reason, next, refreshed>>

Resolve(q) ==
  /\ pc[q] = "locked"
  /\ reason' = [reason EXCEPT ![q] = Resolved]
  /\ next' = [next EXCEPT ![q] = 1]
  /\ pc' = [pc EXCEPT ![q] = "writing"]
  /\ UNCHANGED <<usable, breaker, gauge, mu, refreshed>>

(* Defect: the loop stops at the label it was looking for. *)
WriteUpToReason(q) ==
  LET r == Labels[next[q]] IN
  /\ pc[q] = "writing"
  /\ gauge' = [gauge EXCEPT ![r] = IF r = reason[q] THEN 1 ELSE 0]
  /\ next' = [next EXCEPT ![q] = @ + 1]
  /\ pc' = [pc EXCEPT ![q] = IF r = reason[q] THEN "written" ELSE @]
  /\ UNCHANGED <<usable, breaker, mu, reason, refreshed>>

WriteLabel(q) ==
  LET r == Labels[next[q]] IN
  /\ pc[q] = "writing"
  /\ gauge' = [gauge EXCEPT ![r] = IF r = reason[q] THEN 1 ELSE 0]
  /\ next' = [next EXCEPT ![q] = @ + 1]
  /\ pc' = [pc EXCEPT ![q] = IF next[q] = Len(Labels) THEN "written" ELSE @]
  /\ UNCHANGED <<usable, breaker, mu, reason, refreshed>>

Unlock(q) ==
  /\ pc[q] = "written"
  /\ mu' = NoOne
  /\ pc' = [pc EXCEPT ![q] = "idle"]
  /\ refreshed' = TRUE
  /\ UNCHANGED <<usable, breaker, gauge, reason, next>>

(* Defect: the reason is resolved first and handed to the serialized part. *)
ResolveFirst(q) ==
  /\ pc[q] = "refresh"
  /\ reason' = [reason EXCEPT ![q] = Resolved]
  /\ pc' = [pc EXCEPT ![q] = "locked"]
  /\ UNCHANGED <<usable, breaker, gauge, mu, next, refreshed>>

LockLate(q) ==
  /\ pc[q] = "locked"
  /\ mu = NoOne
  /\ mu' = q
  /\ next' = [next EXCEPT ![q] = 1]
  /\ pc' = [pc EXCEPT ![q] = "writing"]
  /\ UNCHANGED <<usable, breaker, gauge, reason, refreshed>>

RefreshEagerly(q) ==
  ResolveFirst(q) \/ LockLate(q) \/ WriteLabel(q) \/ Unlock(q)

(* SetProviderEligibility. *)
Refresh(q) == Lock(q) \/ Resolve(q) \/ WriteLabel(q) \/ Unlock(q)

Next == Lapse \/ \E q \in Requests : CallOrSkip(q) \/ Refresh(q)

Spec == Init /\ [][Next]_vars

-----------------------------------------------------------------------------
(* Every variable keeps its type, and who updates the gauge has the mutex. *)
TypeOK ==
  /\ usable \in BOOLEAN
  /\ breaker \in {Closed, HalfOpen} \cup {Open(r) : r \in TripReasons}
  /\ gauge \in [Reasons -> {0, 1}]
  /\ mu \in Requests \cup {NoOne}
  /\ pc \in [Requests -> {"idle", "refresh", "locked", "writing", "written"}]
  /\ reason \in [Requests -> Reasons]
  /\ next \in [Requests -> 1 .. Len(Labels) + 1]
  /\ refreshed \in BOOLEAN
  /\ \A q \in Requests : pc[q] \in {"writing", "written"} => mu = q

Shown == {r \in Reasons : gauge[r] = 1}

(* metrics.go:62: once an update has finished, exactly one reason per      *)
(* provider is 1 whenever nobody is writing labels (in the middle of which *)
(* a scrape may see none, or two): no two updates ever mix.                *)
OneHotAtRest ==
  refreshed /\ (\A q \in Requests : pc[q] # "writing")
    => \E r \in Reasons : Shown = {r}

(* metrics.go:252-255: no delayed writer leaves a stale reason behind a    *)
(* newer breaker transition.  Once every request is done refreshing, the   *)
(* gauge shows what the breaker says; only a lapsed timeout goes unshown.  *)
RestingGaugeIsCurrent ==
  /\ refreshed
  /\ \A q \in Requests : pc[q] = "idle"
  /\ breaker.state # "half_open"
  => Shown = {Resolved}
=============================================================================
