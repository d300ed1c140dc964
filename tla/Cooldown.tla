------------------------------ MODULE Cooldown ------------------------------
(***************************************************************************)
(* The SearXNG cooldown of internal/proxy/proxy.go: the failure streak,    *)
(* the cooldown it starts, and the requests that read and update them.     *)
(* The two variables are atomics written only under Proxy.mu; inCooldown   *)
(* reads the cooldown first without the mutex and takes it only to clear   *)
(* an expired one.                                                         *)
(*                                                                         *)
(* A point in time is the time left until it: Tick brings every stored     *)
(* deadline closer by one, 0 is a deadline that has passed.                *)
(***************************************************************************)
EXTENDS Integers, FiniteSets

CONSTANTS
  Requests,   \* concurrent uncached requests
  Threshold,  \* SEARXNG_FAIL_THRESHOLD
  Length      \* SEARXNG_FAIL_COOLDOWN_SECONDS, in ticks

(* config.Validate refuses a smaller threshold or a shorter cooldown. *)
ASSUME ThresholdAssumption == Threshold \in Nat \ {0}
ASSUME LengthAssumption == Length \in Nat \ {0}
ASSUME RequestsAssumption == IsFiniteSet(Requests)

NoCooldown == -1    \* sxCooldownTil = 0
Deadlines == {NoCooldown} \cup 0..Length

Errors == {"deadline", "other"}

VARIABLES
  fails,  \* sxFails
  until,  \* sxCooldownTil
  pc,     \* where each request is
  read,   \* the local `until` of inCooldown
  capped, \* budgetCapped of the request's stage
  alive,  \* the request's own context has not ended
  cut     \* history: what ended the stage's context first, if anything did

vars == <<fails, until, pc, read, capped, alive, cut>>

Expired(t) == t = 0

Init ==
  /\ fails = 0
  /\ until = NoCooldown
  /\ pc = [r \in Requests |-> "idle"]
  /\ read = [r \in Requests |-> NoCooldown]
  /\ capped = [r \in Requests |-> FALSE]
  /\ alive = [r \in Requests |-> TRUE]
  /\ cut = [r \in Requests |-> "none"]

Sooner(t) == IF t > 0 THEN t - 1 ELSE t

(* Time passes; nothing is due for it unless some deadline is ahead. *)
Tick ==
  /\ until > 0 \/ \E r \in Requests : read[r] > 0
  /\ until' = Sooner(until)
  /\ read' = [r \in Requests |-> Sooner(read[r])]
  /\ UNCHANGED <<fails, pc, capped, alive, cut>>

(* inCooldown: the first read, without the mutex; no cooldown, run. *)
Load(r) ==
  /\ pc[r] = "idle"
  /\ read' = [read EXCEPT ![r] = until]
  /\ pc' = [pc EXCEPT ![r] = IF until = NoCooldown THEN "run" ELSE "loaded"]
  /\ UNCHANGED <<fails, until, capped, alive, cut>>

(* inCooldown: the clock against the value read. *)
StillCooling(r) ==
  /\ pc[r] = "loaded"
  /\ ~Expired(read[r])
  /\ pc' = [pc EXCEPT ![r] = "skip"]
  /\ read' = [read EXCEPT ![r] = NoCooldown]
  /\ UNCHANGED <<fails, until, capped, alive, cut>>

SeemsExpired(r) ==
  /\ pc[r] = "loaded"
  /\ Expired(read[r])
  /\ pc' = [pc EXCEPT ![r] = "recheck"]
  /\ read' = [read EXCEPT ![r] = NoCooldown]
  /\ UNCHANGED <<fails, until, capped, alive, cut>>

(* Defect: an expired cooldown is cleared without reading it again. *)
RecheckTrusting(r) ==
  /\ pc[r] = "recheck"
  /\ until' = NoCooldown
  /\ fails' = 0
  /\ pc' = [pc EXCEPT ![r] = "run"]
  /\ UNCHANGED <<read, capped, alive, cut>>

(* Defect: an expired cooldown is never cleared. *)
RecheckNeverClears(r) ==
  /\ pc[r] = "recheck"
  /\ pc' = [pc EXCEPT ![r] = IF until = NoCooldown THEN "run" ELSE "skip"]
  /\ UNCHANGED <<fails, until, read, capped, alive, cut>>

(* Defect: whoever rechecks runs, also into a cooldown restarted since. *)
RecheckRuns(r) ==
  /\ pc[r] = "recheck"
  /\ until' = IF Expired(until) THEN NoCooldown ELSE until
  /\ fails' = IF Expired(until) THEN 0 ELSE fails
  /\ pc' = [pc EXCEPT ![r] = "run"]
  /\ UNCHANGED <<read, capped, alive, cut>>

(* inCooldown under the mutex: read again, clear it only if expired. *)
Recheck(r) ==
  /\ pc[r] = "recheck"
  /\ IF until = NoCooldown \/ Expired(until)
       THEN /\ until' = NoCooldown
            /\ fails' = IF until = NoCooldown THEN fails ELSE 0
            /\ pc' = [pc EXCEPT ![r] = "run"]
       ELSE /\ pc' = [pc EXCEPT ![r] = "skip"]
            /\ UNCHANGED <<fails, until>>
  /\ UNCHANGED <<read, capped, alive, cut>>

(* What stops a stage whose context has not ended yet. *)
Cut(r, by) ==
  cut' = [cut EXCEPT ![r] = IF pc[r] = "stage" /\ @ = "none" THEN by ELSE @]

(* The request's own context ends, and its stage's with it: parent         *)
(* deadline or caller gone.                                                *)
ContextEnds(r) ==
  /\ pc[r] \in {"loaded", "recheck", "run", "stage"}
  /\ alive[r]
  /\ alive' = [alive EXCEPT ![r] = FALSE]
  /\ Cut(r, "request")
  /\ UNCHANGED <<fails, until, pc, read, capped>>

(* The stage has had the whole SearXNG timeout: sxCtx's own deadline. *)
StageExpires(r) ==
  /\ pc[r] = "stage"
  /\ ~capped[r]
  /\ cut[r] = "none"
  /\ Cut(r, "own")
  /\ UNCHANGED <<fails, until, pc, read, capped, alive>>

(* runSearxng: the stage starts while the request lives; its budget is the *)
(* SearXNG timeout unless less is left of the request's own.               *)
StartStage(r, isCapped) ==
  /\ pc[r] = "run"
  /\ alive[r]
  /\ pc' = [pc EXCEPT ![r] = "stage"]
  /\ capped' = [capped EXCEPT ![r] = isCapped]
  /\ UNCHANGED <<fails, until, read, alive, cut>>

(* The request is over, as far as the cooldown is concerned. *)
Leave(r) ==
  /\ pc' = [pc EXCEPT ![r] = "idle"]
  /\ capped' = [capped EXCEPT ![r] = FALSE]
  /\ alive' = [alive EXCEPT ![r] = TRUE]
  /\ cut' = [cut EXCEPT ![r] = "none"]

NoStage(r) ==
  /\ pc[r] = "skip" \/ (pc[r] = "run" /\ ~alive[r])
  /\ Leave(r)
  /\ UNCHANGED <<fails, until, read>>

(* Defect: a success resets the streak and leaves the cooldown. *)
StageSucceedsCooling(r) ==
  /\ pc[r] = "stage"
  /\ fails' = 0
  /\ Leave(r)
  /\ UNCHANGED <<until, read>>

(* recordSearxngSuccess. *)
StageSucceeds(r) ==
  /\ pc[r] = "stage"
  /\ fails' = 0
  /\ until' = NoCooldown
  /\ Leave(r)
  /\ UNCHANGED read

(* Defect: every failed stage counts, whoever's deadline ended it. *)
FailureCountsAlways(r, err) == TRUE

(* Defect: only a capped budget excuses, not a caller who went away. *)
FailureCountsAbandoned(r, err) == ~capped[r]

(* Defect: a caller who goes away late excuses the timeout before it. *)
FailureCountsAlive(r, err) == alive[r]

(* failureCounts: an expiry counts unless it is the request's own; any     *)
(* other error counts unless the request has ended.                        *)
FailureCounts(r, err) ==
  IF err = "deadline" THEN ~capped[r] ELSE alive[r]

(* recordSearxngFailure. *)
RecordFailure ==
  /\ fails' = fails + 1
  /\ until' = IF fails' >= Threshold THEN Length ELSE until

(* The stage fails.  Its error is a deadline's only if one has passed that *)
(* ended its context: the request's if the budget was capped, which then   *)
(* ends with it, its own if not.  Any other error is SearXNG's, of an      *)
(* attempt before the end or of one that the caller's leaving aborted.     *)
StageFails(r, err) ==
  /\ pc[r] = "stage"
  /\ err = "deadline" => cut[r] = IF capped[r] THEN "request" ELSE "own"
  /\ IF FailureCounts(r, err) THEN RecordFailure ELSE UNCHANGED <<fails, until>>
  /\ Leave(r)
  /\ UNCHANGED read

RequestStep(r) ==
  \/ StillCooling(r) \/ SeemsExpired(r) \/ Recheck(r)
  \/ \E c \in BOOLEAN : StartStage(r, c)
  \/ NoStage(r) \/ StageSucceeds(r)
  \/ \E e \in Errors : StageFails(r, e)

Next ==
  \/ Tick
  \/ \E r \in Requests :
       Load(r) \/ ContextEnds(r) \/ StageExpires(r) \/ RequestStep(r)

Spec == Init /\ [][Next]_vars

(* Time passes, a request that has started proceeds (its stage is bounded  *)
(* by a deadline), and requests keep coming from one client at least.      *)
Fairness ==
  /\ WF_vars(Tick)
  /\ \A r \in Requests : WF_vars(RequestStep(r)) /\ WF_vars(Load(r))

FairSpec == Spec /\ Fairness

-----------------------------------------------------------------------------
(* Properties.                                                             *)

(* Every variable keeps its type. *)
TypeOK ==
  /\ fails \in Nat
  /\ until \in Deadlines
  /\ pc \in [Requests ->
               {"idle", "loaded", "recheck", "run", "skip", "stage"}]
  /\ read \in [Requests -> Deadlines]
  /\ capped \in [Requests -> BOOLEAN]
  /\ alive \in [Requests -> BOOLEAN]
  /\ cut \in [Requests -> {"none", "own", "request"}]

(* A cooldown is recorded exactly while the streak of consecutive failures *)
(* stands at the threshold or above: none starts early, none outlives its  *)
(* streak, and no reset of one leaves the other (proxy.go:845-895).        *)
CooldownIffStreak == until # NoCooldown <=> fails >= Threshold

(* The requests that can still report a stage failure. *)
MayFail == {r \in Requests : pc[r] \in {"run", "stage"}}

(* The streak never runs away: during a cooldown it can only grow by the   *)
(* stages that were let through before it (proxy.go:152-154, 856-866).     *)
StreakBounded ==
  until # NoCooldown =>
    fails + Cardinality(MayFail) < Threshold + Cardinality(Requests)

(* A cooldown ends, and a streak is forgotten, only by a SearXNG success   *)
(* or when that very cooldown has expired: a request that saw an older     *)
(* cooldown expire never cancels one restarted since (proxy.go:875-892).   *)
CooldownNotCancelled ==
  [][(until # NoCooldown /\ until' = NoCooldown)
       => Expired(until) \/ \E r \in Requests : StageSucceeds(r)]_vars

(* Whom a failed stage is blamed on is what really ended it, however late  *)
(* the code looks: a stage that its own request's end cut short leaves     *)
(* streak and cooldown alone; one whose request still waits counts, and so *)
(* does one that used up SearXNG's whole timeout, whoever has left since   *)
(* (proxy.go:275-283, docs/architecture.md:78).                            *)
FailureBlamedDuly ==
  [][\A r \in Requests, e \in Errors :
       StageFails(r, e) =>
         /\ cut[r] = "request" => UNCHANGED <<fails, until>>
         /\ alive[r] \/ (cut[r] = "own" /\ e = "deadline")
              => fails' = fails + 1]_vars

(* While requests come, a cooldown does not last for ever, however often   *)
(* the late failures of stages begun before it extend it (proxy.go:870-895)*)
CooldownEnds ==
  (until # NoCooldown) ~> (until = NoCooldown)
=============================================================================
