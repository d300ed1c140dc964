------------------------------ MODULE Breaker ------------------------------
(***************************************************************************)
(* One breakerEntry of internal/breaker/breaker.go: the gobreaker two-step *)
(* circuit breaker it wraps, the entry's mutex and trip provenance, the    *)
(* metrics its callback writes, and the goroutines that use it.            *)
(*                                                                         *)
(* Time is one bit of the breaker, `expired`: the expiry of the current    *)
(* generation has passed.  gobreaker acts on it lazily, when some call     *)
(* computes the current state, so the bit may flip between any two calls,  *)
(* also between two calls made under one hold of the entry's mutex.        *)
(*                                                                         *)
(* gobreaker numbers its generations and compares the numbers only for     *)
(* equality; `live` is the set of admissions in flight whose generation is *)
(* the current one, and needs no number.                                   *)
(***************************************************************************)
EXTENDS Naturals, FiniteSets

CONSTANTS
  Callers,      \* goroutines that call Allow and, once admitted, done
  Observers,    \* goroutines that call RecordEngineSeen, State or Snapshot
  Reasons,      \* the reasons a failure is reported with
  MaxRequests   \* EngineSettings.MaxRequests

ASSUME CallersAssumption == IsFiniteSet(Callers)
ASSUME MaxRequestsAssumption == MaxRequests \in Nat \ {0}

NoOne    == "nobody"       \* the mutex is free
NoReason == ""             \* also the verdict of a success
Contention == "contention" \* ReasonContention
NotRead  == "not_read"

ASSUME NamesAssumption ==
  /\ NoOne \notin Callers
  /\ NoReason \notin Reasons
  /\ Contention \notin Reasons

States == {"closed", "half_open", "open"}

(* ReadyToTrip: counts.ConsecutiveFailures >= 2. *)
TripAfter == 2

Verdicts == Reasons \cup {NoReason}

VARIABLES
  cb,               \* the gobreaker
  mu,               \* breakerEntry.mu: its holder, or NoOne
  tripReason,       \* breakerEntry.tripReason
  accountingReason, \* breakerEntry.accountingReason
  triggeredReason,  \* reason label of the last breakerTriggeredAt/TripsTotal
  gauge,            \* breakerState gauge
  pc,               \* where each caller is
  verdict,          \* what each caller reports to done
  before,           \* the local of done: state before the accounting
  answer,           \* Reason of the snapshot each caller's last Allow returned
  seen              \* the state an observer read and has not yet published

entryVars  == <<mu, tripReason, accountingReason>>
metricVars == <<triggeredReason, gauge>>
vars == <<cb, mu, tripReason, accountingReason, triggeredReason, gauge,
          pc, verdict, before, answer, seen>>

-----------------------------------------------------------------------------
(* gobreaker.                                                              *)

(* toNewGeneration: counts cleared, a new expiry, older admissions dead. *)
NewGeneration(s) ==
  [state |-> s, expired |-> FALSE,
   requests |-> 0, successes |-> 0, failures |-> 0, live |-> {}]

(* currentState: the lazy transitions.  A half-open breaker has no expiry. *)
CurrentState(b) ==
  IF ~b.expired THEN b
  ELSE IF b.state = "open" THEN NewGeneration("half_open")
  ELSE NewGeneration(b.state)

(* Defect: one probe more than MaxRequests. *)
AdmissionOneTooMany(b) ==
  IF b.state = "open" THEN "err_open"
  ELSE IF b.state = "half_open" /\ b.requests > MaxRequests
    THEN "err_too_many"
  ELSE "admitted"

(* beforeRequest: what an admission meets in state b. *)
Admission(b) ==
  IF b.state = "open" THEN "err_open"
  ELSE IF b.state = "half_open" /\ b.requests >= MaxRequests
    THEN "err_too_many"
  ELSE "admitted"

(* counts.onRequest; Requests is read, and so counted, only half-open. *)
OnRequest(b, c) ==
  [b EXCEPT !.live = @ \cup {c},
            !.requests = IF b.state = "half_open" THEN @ + 1 ELSE @]

(* Defect: the last probe's success does not close the breaker. *)
OnSuccessNeverCloses(b, c) ==
  IF b.state = "half_open"
    THEN [b EXCEPT !.live = @ \ {c}, !.successes = @ + 1]
    ELSE [b EXCEPT !.live = @ \ {c}, !.failures = 0]

(* ConsecutiveSuccesses is read, and so counted, only half-open. *)
OnSuccess(b, c) ==
  IF b.state = "half_open"
    THEN IF b.successes + 1 >= MaxRequests
           THEN NewGeneration("closed")
           ELSE [b EXCEPT !.live = @ \ {c}, !.successes = @ + 1]
    ELSE [b EXCEPT !.live = @ \ {c}, !.failures = 0]

(* Defect: the breaker trips one fault late. *)
OnFailureOneLate(b, c) ==
  IF b.state = "closed" /\ b.failures + 1 <= TripAfter
    THEN [b EXCEPT !.live = @ \ {c}, !.failures = @ + 1]
    ELSE NewGeneration("open")

OnFailure(b, c) ==
  IF b.state = "closed" /\ b.failures + 1 < TripAfter
    THEN [b EXCEPT !.live = @ \ {c}, !.failures = @ + 1]
    ELSE NewGeneration("open")

(* Defect: outcomes of older generations count. *)
AfterRequestAnyGeneration(b, c, v) ==
  IF v = NoReason THEN OnSuccess(b, c) ELSE OnFailure(b, c)

(* afterRequest: an outcome of an older generation is ignored. *)
AfterRequest(b, c, v) ==
  IF c \notin b.live THEN b
  ELSE IF v = NoReason THEN OnSuccess(b, c) ELSE OnFailure(b, c)

(* The breaker becomes b; OnStateChange runs if that changes the state. *)
Becomes(b) ==
  /\ cb' = b
  /\ gauge' = IF b.state = cb.state THEN gauge ELSE b.state
  /\ triggeredReason' = IF b.state = "open" /\ cb.state # "open"
                          THEN accountingReason ELSE triggeredReason

-----------------------------------------------------------------------------
Init ==
  /\ cb = NewGeneration("closed")
  /\ mu = NoOne
  /\ tripReason = NoReason
  /\ accountingReason = NoReason
  /\ triggeredReason = NoReason
  /\ gauge = "closed"
  /\ pc = [c \in Callers |-> "idle"]
  /\ verdict = [c \in Callers |-> NoReason]
  /\ before = [c \in Callers |-> "closed"]
  /\ answer = [c \in Callers |-> NoReason]
  /\ seen = [o \in Observers |-> NotRead]

(* The interval (closed) or the timeout (open) of the generation passes. *)
Expire ==
  /\ cb.state # "half_open"
  /\ ~cb.expired
  /\ cb' = [cb EXCEPT !.expired = TRUE]
  /\ UNCHANGED <<entryVars, metricVars, pc, verdict, before, answer, seen>>

(* allow: lock, entry.cb.Allow(). *)
AllowAdmit(c) ==
  /\ pc[c] = "idle"
  /\ mu = NoOne
  /\ mu' = c
  /\ LET b == CurrentState(cb) IN
       /\ Becomes(IF Admission(b) = "admitted" THEN OnRequest(b, c) ELSE b)
       /\ pc' = [pc EXCEPT ![c] = Admission(b)]
  /\ answer' = [answer EXCEPT ![c] = NoReason]
  /\ UNCHANGED <<tripReason, accountingReason, verdict, before, seen>>

(* Defect: the trip reason is reported whatever the state read after. *)
RejectionUnchecked(err, s) ==
  IF err = "err_too_many" THEN Contention ELSE tripReason

(* What a rejected admission reports, given the state read after it. *)
Rejection(err, s) ==
  IF err = "err_too_many" THEN Contention
  ELSE IF s = "open" THEN tripReason ELSE NoReason

(* allow: entry.cb.State(), the snapshot, unlock. *)
AllowObserve(c) ==
  /\ pc[c] \in {"admitted", "err_open", "err_too_many"}
  /\ Becomes(CurrentState(cb))
  /\ mu' = NoOne
  /\ pc' = [pc EXCEPT ![c] = IF @ = "admitted" THEN "calling" ELSE "idle"]
  /\ answer' = [answer EXCEPT ![c] =
                  IF pc[c] = "admitted" THEN NoReason
                  ELSE Rejection(pc[c], CurrentState(cb).state)]
  /\ UNCHANGED <<tripReason, accountingReason, verdict, before, seen>>

(* Defect: a panicking call unwinds without calling done. *)
ReportUnlessPanic(c, v) ==
  /\ pc[c] = "calling"
  /\ pc' = [pc EXCEPT ![c] = IF v = "panic" THEN "idle" ELSE "reporting"]
  /\ verdict' = [verdict EXCEPT ![c] = v]
  /\ UNCHANGED <<cb, entryVars, metricVars, before, answer, seen>>

(* The admitted work ends with verdict v and done(v) is about to be called. *)
Report(c, v) ==
  /\ pc[c] = "calling"
  /\ pc' = [pc EXCEPT ![c] = "reporting"]
  /\ verdict' = [verdict EXCEPT ![c] = v]
  /\ UNCHANGED <<cb, entryVars, metricVars, before, answer, seen>>

(* A premium call returns, fails, is abandoned or panics. *)
ProviderReturns(c, v) == Report(c, v)

(* SearXNG engine breakers: the verdict is known before the admission, and *)
(* is reported right after it; a premium call's comes at any later time.   *)
RecordClientError(c, r) == Report(c, r)
RecordSuccess(c) == Report(c, NoReason)

(* done: lock, before := State(), accountingReason = reason. *)
DoneBefore(c) ==
  /\ pc[c] = "reporting"
  /\ mu = NoOne
  /\ mu' = c
  /\ Becomes(CurrentState(cb))
  /\ before' = [before EXCEPT ![c] = CurrentState(cb).state]
  /\ accountingReason' = verdict[c]
  /\ pc' = [pc EXCEPT ![c] = "accounting"]
  /\ UNCHANGED <<tripReason, verdict, answer, seen>>

(* done: done(success), accountingReason = "". *)
DoneAccount(c) ==
  /\ pc[c] = "accounting"
  /\ Becomes(AfterRequest(CurrentState(cb), c, verdict[c]))
  /\ accountingReason' = NoReason
  /\ pc' = [pc EXCEPT ![c] = "finishing"]
  /\ UNCHANGED <<mu, tripReason, verdict, before, answer, seen>>

(* Defect: the reason is frozen only when a closed breaker trips. *)
DoneAfterClosedOnly(c) ==
  /\ pc[c] = "finishing"
  /\ Becomes(CurrentState(cb))
  /\ tripReason' =
       IF before[c] = "closed" /\ CurrentState(cb).state = "open"
         THEN verdict[c] ELSE tripReason
  /\ mu' = NoOne
  /\ pc' = [pc EXCEPT ![c] = "idle"]
  /\ verdict' = [verdict EXCEPT ![c] = NoReason]
  /\ before' = [before EXCEPT ![c] = "closed"]
  /\ UNCHANGED <<accountingReason, answer, seen>>

(* done: after := State(), freeze the reason of a trip, unlock. *)
DoneAfter(c) ==
  /\ pc[c] = "finishing"
  /\ Becomes(CurrentState(cb))
  /\ tripReason' =
       IF before[c] # "open" /\ CurrentState(cb).state = "open"
         THEN verdict[c] ELSE tripReason
  /\ mu' = NoOne
  /\ pc' = [pc EXCEPT ![c] = "idle"]
  /\ verdict' = [verdict EXCEPT ![c] = NoReason]  \* locals die
  /\ before' = [before EXCEPT ![c] = "closed"]
  /\ UNCHANGED <<accountingReason, answer, seen>>

(* State and IsOpen: a read that performs the lazy transition, no mutex. *)
ReadState(o) ==
  /\ Becomes(CurrentState(cb))
  /\ UNCHANGED <<entryVars, pc, verdict, before, answer, seen>>

(* What Snapshot returns, at a moment the mutex is free. *)
SnapshotValue ==
  LET s == CurrentState(cb).state
  IN  [state |-> s, reason |-> IF s = "open" THEN tripReason ELSE NoReason]

Snapshot(o) ==
  /\ mu = NoOne
  /\ Becomes(CurrentState(cb))
  /\ UNCHANGED <<entryVars, pc, verdict, before, answer, seen>>

(* RecordEngineSeen evaluates m.State(engine), then sets the gauge. *)
SeenRead(o) ==
  /\ seen[o] = NotRead
  /\ Becomes(CurrentState(cb))
  /\ seen' = [seen EXCEPT ![o] = CurrentState(cb).state]
  /\ UNCHANGED <<entryVars, pc, verdict, before, answer>>

SeenSet(o) ==
  /\ seen[o] # NotRead
  /\ gauge' = seen[o]
  /\ seen' = [seen EXCEPT ![o] = NotRead]
  /\ UNCHANGED <<cb, entryVars, triggeredReason, pc, verdict, before, answer>>

CallerStep(c) ==
  \/ AllowObserve(c)
  \/ \E v \in Verdicts : ProviderReturns(c, v)
  \/ \E r \in Reasons : RecordClientError(c, r)
  \/ RecordSuccess(c)
  \/ DoneBefore(c)
  \/ DoneAccount(c)
  \/ DoneAfter(c)

Next ==
  \/ Expire
  \/ \E c \in Callers : AllowAdmit(c) \/ CallerStep(c)
  \/ \E o \in Observers :
       ReadState(o) \/ Snapshot(o) \/ SeenRead(o) \/ SeenSet(o)

Spec == Init /\ [][Next]_vars

(* An admitted goroutine keeps running, its provider call is bounded by the *)
(* request deadline, and a sync.Mutex is granted to each waiter (its        *)
(* starvation mode), which takes strong fairness of the acquiring step.     *)
(* Nothing obliges a new request to arrive or the clock to pass an expiry.  *)
Fairness ==
  \A c \in Callers : WF_vars(CallerStep(c)) /\ SF_vars(DoneBefore(c))

FairSpec == Spec /\ Fairness

-----------------------------------------------------------------------------
(* Properties.                                                             *)

BreakerType ==
  [state: States, expired: BOOLEAN, requests: 0..MaxRequests,
   successes: 0..(MaxRequests - 1), failures: 0..(TripAfter - 1),
   live: SUBSET Callers]

(* Every variable keeps its type; the streak of failures never reaches the *)
(* threshold and the half-open counts never exceed MaxRequests, because    *)
(* reaching either limit starts a new generation (breaker.go:284-287).     *)
TypeOK ==
  /\ cb \in BreakerType
  /\ mu \in Callers \cup {NoOne}
  /\ tripReason \in Verdicts
  /\ accountingReason \in Verdicts
  /\ triggeredReason \in Verdicts
  /\ gauge \in States
  /\ pc \in [Callers -> {"idle", "admitted", "err_open", "err_too_many",
                         "calling", "reporting", "accounting", "finishing"}]
  /\ verdict \in [Callers -> Verdicts]
  /\ before \in [Callers -> States]
  /\ answer \in [Callers -> Verdicts \cup {Contention}]
  /\ seen \in [Observers -> States \cup {NotRead}]

(* The frozen trip reason a Snapshot hands out while the breaker is open   *)
(* is the reason the trip itself was counted under (trips_total label): no *)
(* late completion and no gap between the trip and its bookkeeping shows   *)
(* another one (breaker.go:160-171, 198-212).                              *)
SnapshotNamesTrip ==
  (mu = NoOne /\ SnapshotValue.state = "open")
    => SnapshotValue.reason = triggeredReason

(* The calls in flight that were admitted in a half-open generation never  *)
(* exceed MaxRequests: a recovering provider gets exactly the probes it is *)
(* promised (README.md:112, breaker.go:59-72).                             *)
ProbesBounded ==
  cb.state = "half_open" => Cardinality(cb.live) <= MaxRequests

(* A half-open breaker that refuses further probes has one in flight that  *)
(* will still report: a probe slot is never lost (proxy.go:797-814).       *)
ProbeSlotHeld ==
  (cb.state = "half_open" /\ cb.requests >= MaxRequests)
    => \E c \in cb.live :
         pc[c] \in {"admitted", "calling", "reporting", "accounting"}

(* The callers that hold the entry's mutex. *)
InSection(c) ==
  pc[c] \in {"admitted", "err_open", "err_too_many", "accounting", "finishing"}

(* A breaker's counts agree with its admissions in flight. *)
Consistent(b) ==
  /\ b \in BreakerType
  /\ b.state = "half_open" =>
       ~b.expired /\ b.requests = Cardinality(b.live) + b.successes
  /\ b.state # "half_open" => b.requests = 0 /\ b.successes = 0
  /\ b.state = "open" => b.live = {}

(* The inductive invariant under SnapshotNamesTrip, ProbesBounded and      *)
(* ProbeSlotHeld: who holds the mutex, which admissions are in flight, and *)
(* how far the bookkeeping of a trip has come (breaker.go:146-172).        *)
BreakerInv ==
  /\ TypeOK
  /\ Consistent(cb)
  /\ \A c \in Callers : InSection(c) <=> mu = c
  /\ \A c \in cb.live :
       pc[c] \in {"admitted", "calling", "reporting", "accounting"}
  /\ \A c \in Callers : pc[c] = "accounting" =>
       /\ accountingReason = verdict[c]
       /\ before[c] = "open" => c \notin cb.live
       /\ before[c] # "open" => cb.state # "open"
  /\ cb.state = "open" =>
       \/ tripReason = triggeredReason
       \/ \E c \in Callers : pc[c] = "finishing" /\ before[c] # "open"
  /\ \A c \in Callers :
       pc[c] = "finishing" /\ before[c] # "open" /\ cb.state = "open"
         => verdict[c] = triggeredReason

(* Allow blames a trip reason for a rejection only if the breaker is open  *)
(* at that moment, and then the reason is that of the trip that opened     *)
(* this very epoch (breaker.go:132-158).                                   *)
RejectionNamesTrip ==
  [][\A c \in Callers :
       answer'[c] # answer[c] /\ answer'[c] \in Reasons
         => cb'.state = "open" /\ answer'[c] = triggeredReason']_vars

(* The circuit closes only on the success of a probe admitted half-open,   *)
(* and leaves open only for half-open after its timeout: the late success  *)
(* of a call admitted before the trip closes nothing (README.md:112).      *)
RecoveryNeedsProbe ==
  [][/\ (cb.state # "closed" /\ cb'.state = "closed")
           => /\ cb.state = "half_open"
              /\ \E c \in cb.live : pc[c] = "accounting" /\ verdict[c] = NoReason
     /\ (cb.state = "open" /\ cb'.state # "open")
           => cb.expired /\ cb'.state = "half_open" /\ cb'.live \subseteq
                {c \in Callers : pc[c] = "idle"}]_vars

(* The circuit opens only on a fault of a call admitted in the generation  *)
(* it ends: the second fault in a row when closed, a probe's when          *)
(* half-open (docs/architecture.md:84).                                    *)
TripNeedsFault ==
  [][(cb.state # "open" /\ cb'.state = "open")
       => /\ \E c \in cb.live : pc[c] = "accounting" /\ verdict[c] \in Reasons
          /\ cb.state = "closed" => cb.failures + 1 = TripAfter]_vars

(* A taken half-open probe slot is always given back: the breaker leaves   *)
(* that half-open generation (proxy.go:797-814, 840).                      *)
ProbeSlotFreed ==
  (cb.state = "half_open" /\ cb.requests >= MaxRequests)
    ~> (cb.state # "half_open")

(* A comment says of RecordEngineSeen that it can never reset the gauge of *)
(* an already-open breaker to zero (breaker.go:229-231, 241-242).          *)
SeenNeverResetsOpen ==
  [][(cb.state = "open" /\ cb'.state = "open" /\ gauge = "open")
       => gauge' # "closed"]_vars
=============================================================================
