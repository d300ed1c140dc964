------------------------------- MODULE Search -------------------------------
(***************************************************************************)
(* One request through Proxy.Search (internal/proxy/proxy.go): the cache,  *)
(* the SearXNG stage, the first premium call on a goroutine of its own,    *)
(* the join, the serial top-up, and the outcome, while the request's       *)
(* context may expire or be cancelled between any two steps.               *)
(*                                                                         *)
(* The stage is StageContract, which SearxngStage implements.  A breaker   *)
(* is what it answers at a provider's door, which Breaker decides: it is   *)
(* shared with other requests, so any answer may come at any time.         *)
(***************************************************************************)
EXTENDS Naturals, FiniteSets

CONSTANTS
  Providers,  \* the registered premium backends
  Configured, \* those whose IsAvailable() holds: a key, or Exa's MCP mode
  NoProvider, \* a thread that has selected none
  URLs,       \* the URLs results may have
  Target      \* targetResults(): SufficientMinResults, at least 1

ASSUME ProvidersAssumption ==
  /\ IsFiniteSet(Providers)
  /\ Configured \subseteq Providers
  /\ NoProvider \notin Providers
ASSUME URLsAssumption == IsFiniteSet(URLs)
ASSUME TargetAssumption == Target \in Nat \ {0}

Threads    == {"first", "main"} \* startFirstPremium's goroutine, Search's own
Structural == {"quota_exhausted", "credentials_rejected"}
Reasons    == Structural \cup {"network", ""}

(* What a provider call comes back with, but for the results of a success. *)
(* "network" stands for every fault that is neither a refusal of the       *)
(* account nor an end of the context.                                      *)
Refusals ==
  {<<"auth", "credentials_rejected">>, <<"quota", "quota_exhausted">>,
   <<"auth", "">>, <<"quota", "">>, <<"not_configured", "">>}
Faults  == Refusals \cup {<<"network", "">>, <<"panic", "">>}
Aborted == <<"cancelled", "">>

VARIABLES
  parent, due, label, effect, \* the context and the stage: StageContract
  pc,       \* where Search is
  cache,    \* the entry under this query, a set of URLs, if there is one
  sx,       \* sxResults
  seen,     \* seenURLs of each thread
  premium,  \* premiumResults of each thread
  used,     \* usedPremiums
  admitted, \* admittedCalls of each thread
  lp,       \* where each thread's premiumLoop is
  cur,      \* the provider each thread has selected
  events,   \* requestDiagnostics.providerEvents
  reply,    \* the outcome and the URLs returned to the caller
  fate      \* what really became of each provider in this request

stageVars == <<parent, due, label, effect>>
loopVars  == <<seen, premium, used, admitted, lp, cur, events, fate>>
vars == <<stageVars, pc, cache, sx, reply, loopVars>>

Stage == INSTANCE StageContract

NoReply == [outcome |-> "none", urls |-> {}]

(* The fate of a provider no call of which has returned. *)
AtDoor(door, reason) ==
  [door |-> door, outcome |-> "", reason |-> reason, urls |-> {}]
Untouched == AtDoor("unasked", "")

Init ==
  /\ Stage!Init
  /\ pc = "cache"
  /\ cache \in {{}} \cup {{us} : us \in (SUBSET URLs) \ {{}}}
  /\ sx = {}
  /\ seen = [t \in Threads |-> {}]
  /\ premium = [t \in Threads |-> {}]
  /\ used = {}
  /\ admitted = [t \in Threads |-> 0]
  /\ lp = [t \in Threads |-> "idle"]
  /\ cur = [t \in Threads |-> NoProvider]
  /\ events = {}
  /\ reply = NoReply
  /\ fate = [p \in Providers |-> Untouched]

-----------------------------------------------------------------------------
(* The request's context.                                                  *)

ContextStep ==
  /\ Stage!DeadlinePasses \/ Stage!ContextEnds
  /\ UNCHANGED <<pc, cache, sx, reply, loopVars>>

-----------------------------------------------------------------------------
(* Diagnostics.                                                            *)

Skipped(p, why, reason) ==
  [provider |-> p, skip |-> why, outcome |-> "", results |-> FALSE,
   reason |-> reason]

Called(p, outcome, us, reason) ==
  [provider |-> p, skip |-> "", outcome |-> outcome, results |-> us # {},
   reason |-> reason]

Acceptable(e) ==
  \/ e.skip = "missing_key" /\ e.reason = ""
  \/ e.skip = "breaker_open" /\ e.reason \in Structural
  \/ e.skip = "" /\ e.outcome = "empty" /\ e.reason = "" /\ ~e.results
  \/ /\ e.skip = ""
     /\ e.outcome \in {"auth", "quota", "not_configured"}
     /\ e.reason \in Structural
     /\ ~e.results

(* Defect: a bare refusal is taken for an exhausted account. *)
CleanEmptyTrusting(es) ==
  \A e \in es : Acceptable(e) \/ e.outcome \in {"auth", "quota"}

CleanEmpty(es) == \A e \in es : Acceptable(e)

(* The providers no event speaks of are added as not attempted. *)
Completed(es) ==
  es \cup {Skipped(p, "not_attempted", "") :
             p \in Providers \ {e.provider : e \in es}}

-----------------------------------------------------------------------------
(* premiumLoop, on thread t.                                               *)

Limit(t) == IF t = "first" THEN 1 ELSE 0 \* minAdmitted and maxAdmitted

(* Defect: the target is counted on the top-up's own results only. *)
WantsMoreOwn(t) ==
  Cardinality(premium[t]) < Target \/ admitted[t] < Limit(t)

(* Defect: results found twice are counted twice. *)
WantsMoreTwice(t) ==
  \/ Cardinality(sx) + Cardinality(premium[t]) < Target
  \/ admitted[t] < Limit(t)

WantsMore(t) ==
  Cardinality(seen[t]) < Target \/ admitted[t] < Limit(t)

(* NextAvailable; which candidate depends on an index other requests move. *)
Candidates == Configured \ used

(* Defect: the first call's goroutine runs on like the top-up. *)
MayGoOnUncapped(t) ==
  WantsMore(t) /\ parent = "live" /\ Candidates # {}

MayGoOn(t) ==
  /\ WantsMore(t)
  /\ parent = "live"
  /\ Limit(t) > 0 => admitted[t] < Limit(t)
  /\ Candidates # {}

LoopEnds(t) ==
  /\ lp[t] = "head"
  /\ ~MayGoOn(t)
  /\ lp' = [lp EXCEPT ![t] = "finished"]
  /\ UNCHANGED <<stageVars, pc, cache, sx, reply, seen, premium, used,
                 admitted, cur, events, fate>>

(* Defect: the selected provider is not remembered as used. *)
SelectForgetful(t, p) ==
  /\ lp[t] = "head"
  /\ MayGoOn(t)
  /\ p \in Candidates
  /\ cur' = [cur EXCEPT ![t] = p]
  /\ lp' = [lp EXCEPT ![t] = "selected"]
  /\ UNCHANGED <<stageVars, pc, cache, sx, reply, seen, premium, used,
                 admitted, events, fate>>

Select(t, p) ==
  /\ lp[t] = "head"
  /\ MayGoOn(t)
  /\ p \in Candidates
  /\ used' = used \cup {p}
  /\ cur' = [cur EXCEPT ![t] = p]
  /\ lp' = [lp EXCEPT ![t] = "selected"]
  /\ UNCHANGED <<stageVars, pc, cache, sx, reply, seen, premium, admitted,
                 events, fate>>

(* The second look at the context, between selection and admission. *)
Recheck(t) ==
  /\ lp[t] = "selected"
  /\ lp' = [lp EXCEPT ![t] = IF parent = "live" THEN "door" ELSE "finished"]
  /\ UNCHANGED <<stageVars, pc, cache, sx, reply, seen, premium, used,
                 admitted, cur, events, fate>>

(* Defect: a refusal counts as the guaranteed call. *)
RefusedCounting(t, door, reason) ==
  /\ lp[t] = "door"
  /\ fate' = [fate EXCEPT ![cur[t]] = AtDoor(door, reason)]
  /\ events' = events \cup
       {Skipped(cur[t], IF door = "open" THEN "breaker_open"
                                         ELSE "breaker_contention", reason)}
  /\ admitted' = [admitted EXCEPT ![t] = @ + 1]
  /\ lp' = [lp EXCEPT ![t] = "head"]
  /\ UNCHANGED <<stageVars, pc, cache, sx, reply, seen, premium, used, cur>>

(* The breaker refuses: open, with the reason of its trip if the snapshot  *)
(* still found it open, or half-open with its probes out.                  *)
Refused(t, door, reason) ==
  /\ lp[t] = "door"
  /\ fate' = [fate EXCEPT ![cur[t]] = AtDoor(door, reason)]
  /\ events' = events \cup
       {Skipped(cur[t], IF door = "open" THEN "breaker_open"
                                         ELSE "breaker_contention", reason)}
  /\ lp' = [lp EXCEPT ![t] = "head"]
  /\ UNCHANGED <<stageVars, pc, cache, sx, reply, seen, premium, used,
                 admitted, cur>>

Admit(t) ==
  /\ lp[t] = "door"
  /\ fate' = [fate EXCEPT ![cur[t]] = AtDoor("admitted", "")]
  /\ lp' = [lp EXCEPT ![t] = "calling"]
  /\ UNCHANGED <<stageVars, pc, cache, sx, reply, seen, premium, used,
                 admitted, cur, events>>

(* The call of t ends: its diagnostic, and its results if it has any. *)
CallEnds(t, outcome, reason, us) ==
  /\ lp[t] = "calling"
  /\ fate' = [fate EXCEPT ![cur[t]] =
                [door |-> "admitted", outcome |-> outcome,
                 reason |-> reason, urls |-> us]]
  /\ events' = events \cup {Called(cur[t], outcome, us, reason)}
  /\ admitted' = [admitted EXCEPT ![t] = @ + 1]
  /\ premium' = [premium EXCEPT ![t] = @ \cup us]
  /\ seen' = [seen EXCEPT ![t] = @ \cup us]
  /\ lp' = [lp EXCEPT ![t] = "head"]
  /\ UNCHANGED <<stageVars, pc, cache, sx, reply, used, cur>>

CallSucceeds(t) == \E us \in (SUBSET URLs) \ {{}} : CallEnds(t, "success", "", us)
CallIsEmpty(t)  == CallEnds(t, "empty", "", {})
CallFaults(t)   == \E f \in Faults : CallEnds(t, f[1], f[2], {})

(* Defect: a backend does not hand the context to its HTTP client. *)
CallHangs(t) == FALSE /\ CallEnds(t, "cancelled", "", {})

CallAborted(t)  == parent # "live" /\ CallEnds(t, "cancelled", "", {})

Refusal(t) ==
  \/ \E r \in Reasons : Refused(t, "open", r)
  \/ Refused(t, "busy", "")

LoopStep(t) ==
  \/ LoopEnds(t) \/ Recheck(t) \/ Refusal(t) \/ Admit(t)
  \/ \E p \in Providers : Select(t, p)

CallReturns(t) ==
  CallSucceeds(t) \/ CallIsEmpty(t) \/ CallFaults(t) \/ CallAborted(t)

-----------------------------------------------------------------------------
(* Search, on the request's own goroutine.                                 *)

CacheHit ==
  /\ pc = "cache"
  /\ \E us \in cache : reply' = [outcome |-> "cache_hit", urls |-> us]
  /\ pc' = "done"
  /\ UNCHANGED <<stageVars, cache, sx, loopVars>>

(* Defect: unconfigured providers are left out of the diagnostics. *)
BeginSilent ==
  /\ pc = "cache"
  /\ cache = {}
  /\ lp' = [lp EXCEPT !["first"] = IF parent = "live" THEN "head" ELSE "idle"]
  /\ pc' = "stage"
  /\ UNCHANGED <<stageVars, cache, sx, reply, seen, premium, used, admitted,
                 cur, events, fate>>

(* Unconfigured providers are accounted for, and the first premium call is *)
(* started if there is still a request to serve.                           *)
Begin ==
  /\ pc = "cache"
  /\ cache = {}
  /\ events' = {Skipped(p, "missing_key", "") : p \in Providers \ Configured}
  /\ lp' = [lp EXCEPT !["first"] = IF parent = "live" THEN "head" ELSE "idle"]
  /\ pc' = "stage"
  /\ UNCHANGED <<stageVars, cache, sx, reply, seen, premium, used, admitted,
                 cur, fate>>

(* The SearXNG stage ends, in whichever way its contract allows. *)
StageSucceeds ==
  /\ pc = "stage"
  /\ Stage!Succeed
  /\ sx' \in SUBSET URLs
  /\ seen' = [seen EXCEPT !["main"] = @ \cup sx']
  /\ pc' = "join"
  /\ UNCHANGED <<cache, reply, premium, used, admitted, lp, cur, events, fate>>

StageYieldsNothing ==
  /\ pc = "stage"
  /\ \/ \E l \in Stage!Skips : Stage!Skip(l)
     \/ \E l \in Stage!Failures, c \in BOOLEAN : Stage!Fail(l, c)
  /\ pc' = "join"
  /\ UNCHANGED <<cache, sx, reply, loopVars>>

(* Defect: the first call's results are merged without waiting for it. *)
JoinEarly ==
  /\ pc = "join"
  /\ seen' = [seen EXCEPT !["main"] = @ \cup seen["first"]]
  /\ premium' = [premium EXCEPT !["main"] = premium["first"]]
  /\ lp' = [lp EXCEPT !["main"] =
              IF lp["first"] # "idle" /\ parent = "live" THEN "head" ELSE @]
  /\ pc' = IF lp'["main"] = "head" THEN "topup" ELSE "finish"
  /\ UNCHANGED <<stageVars, cache, sx, reply, used, admitted, cur, events,
                 fate>>

(* Defect: the first call's URLs count, but its results are dropped. *)
JoinDropping ==
  /\ pc = "join"
  /\ lp["first"] \in {"idle", "finished"}
  /\ seen' = [seen EXCEPT !["main"] = @ \cup seen["first"]]
  /\ lp' = [lp EXCEPT !["main"] =
              IF lp["first"] = "finished" /\ parent = "live" THEN "head" ELSE @]
  /\ pc' = IF lp'["main"] = "head" THEN "topup" ELSE "finish"
  /\ UNCHANGED <<stageVars, cache, sx, reply, premium, used, admitted, cur,
                 events, fate>>

(* first.wait(), the merge, and the start of the top-up. *)
Join ==
  /\ pc = "join"
  /\ lp["first"] \in {"idle", "finished"}
  /\ seen' = [seen EXCEPT !["main"] = @ \cup seen["first"]]
  /\ premium' = [premium EXCEPT !["main"] = premium["first"]]
  /\ lp' = [lp EXCEPT !["main"] =
              IF lp["first"] = "finished" /\ parent = "live" THEN "head" ELSE @]
  /\ pc' = IF lp'["main"] = "head" THEN "topup" ELSE "finish"
  /\ UNCHANGED <<stageVars, cache, sx, reply, used, admitted, cur, events,
                 fate>>

TopUpEnds ==
  /\ pc = "topup"
  /\ lp["main"] = "finished"
  /\ pc' = "finish"
  /\ UNCHANGED <<stageVars, cache, sx, reply, loopVars>>

(* Premium owns the URLs both stages returned. *)
PremiumPart == premium["main"]
SearxngPart == sx \ PremiumPart

(* Defect: an overlap counts for both stages. *)
SuccessOutcomeOverlap ==
  CASE PremiumPart = {} -> "searxng_ok"
    [] PremiumPart # {} /\ sx = {} -> "premium_ok"
    [] OTHER -> "searxng_plus_premium_ok"

SuccessOutcome ==
  CASE PremiumPart = {} -> "searxng_ok"
    [] PremiumPart # {} /\ SearxngPart = {} -> "premium_ok"
    [] OTHER -> "searxng_plus_premium_ok"

ZeroOutcome(es) ==
  CASE parent = "deadline" -> "timeout"
    [] /\ parent = "live"
       /\ label = "success"
       /\ admitted["first"] + admitted["main"] > 0
       /\ CleanEmpty(es) -> "no_results"
    [] OTHER -> "fallback_fail"

(* Defect: an empty answer is cached like any other. *)
FinishEmptyCaching ==
  /\ pc = "finish"
  /\ PremiumPart \cup sx = {}
  /\ events' = Completed(events)
  /\ reply' = [outcome |-> ZeroOutcome(Completed(events)), urls |-> {}]
  /\ cache' = IF reply'.outcome = "no_results" THEN {{}} ELSE cache
  /\ pc' = "done"
  /\ UNCHANGED <<stageVars, sx, seen, premium, used, admitted, lp, cur, fate>>

FinishEmpty ==
  /\ pc = "finish"
  /\ PremiumPart \cup sx = {}
  /\ events' = Completed(events)
  /\ reply' = [outcome |-> ZeroOutcome(Completed(events)), urls |-> {}]
  /\ pc' = "done"
  /\ UNCHANGED <<stageVars, cache, sx, seen, premium, used, admitted, lp, cur,
                 fate>>

FinishWithResults ==
  /\ pc = "finish"
  /\ PremiumPart \cup sx # {}
  /\ reply' = [outcome |-> SuccessOutcome, urls |-> PremiumPart \cup SearxngPart]
  /\ cache' = {PremiumPart \cup SearxngPart}
  /\ pc' = "done"
  /\ UNCHANGED <<stageVars, sx, loopVars>>

StageStep == StageSucceeds \/ StageYieldsNothing

MainStep ==
  CacheHit \/ Begin \/ Join \/ TopUpEnds \/ FinishEmpty \/ FinishWithResults

-----------------------------------------------------------------------------
Next ==
  \/ ContextStep
  \/ MainStep
  \/ StageStep
  \/ \E t \in Threads : LoopStep(t) \/ CallReturns(t)

(* Goroutines run, the deadline comes, the stage ends by its contract, and *)
(* a provider call ends at the latest with the request's context, which    *)
(* every backend hands to its HTTP client.                                 *)
Fairness ==
  /\ WF_vars(Stage!DeadlinePasses /\ ContextStep)
  /\ WF_vars(due /\ Stage!ContextEnds /\ ContextStep)
  /\ WF_vars(MainStep)
  /\ WF_vars(StageStep)
  /\ \A t \in Threads : WF_vars(LoopStep(t)) /\ WF_vars(CallAborted(t))

Spec == Init /\ [][Next]_vars /\ Fairness

-----------------------------------------------------------------------------
(* Every variable keeps its type. *)
TypeOK ==
  /\ parent \in {"live"} \cup Stage!Ends
  /\ due \in BOOLEAN
  /\ label \in {"not_yet", "success"} \cup Stage!Skips \cup Stage!Failures
  /\ effect \in {"none", "reset", "counted"}
  /\ pc \in {"cache", "stage", "join", "topup", "finish", "done"}
  /\ cache \subseteq SUBSET URLs
  /\ sx \subseteq URLs
  /\ seen \in [Threads -> SUBSET URLs]
  /\ premium \in [Threads -> SUBSET URLs]
  /\ used \subseteq Configured
  /\ admitted \in [Threads -> Nat]
  /\ admitted["first"] <= 1
  /\ lp \in [Threads -> {"idle", "head", "selected", "door", "calling",
                         "finished"}]
  /\ cur \in [Threads -> Configured \cup {NoProvider}]
  /\ reply.outcome \in {"none", "cache_hit", "searxng_ok", "premium_ok",
       "searxng_plus_premium_ok", "no_results", "fallback_fail", "timeout"}
  /\ reply.urls \subseteq URLs

Asked(p) == fate[p].door = "admitted"

Exhausted(p) ==
  \/ p \notin Configured
  \/ Asked(p) /\ fate[p].outcome = "empty"
  \/ fate[p].door \in {"open", "admitted"} /\ fate[p].reason \in Structural

(* Nothing was found, and there is nobody left to ask. *)
Exhaustion ==
  /\ label = "success" /\ sx = {}
  /\ \E p \in Providers : Asked(p)
  /\ \A p \in Providers : Exhausted(p)

(* "no_results" is a claim about the world, not about the diagnostics:     *)
(* SearXNG answered, some provider was called, and every one either found  *)
(* nothing or has an account that really is refused.                       *)
NoResultsIsExhaustion == reply.outcome = "no_results" => Exhaustion

(* And it is made whenever it is true: a request still live is failed only *)
(* over a fault, or over coverage it could not get.                        *)
FailureHasCause ==
  reply.outcome = "fallback_fail" /\ parent = "live" =>
    ~Exhaustion

(* An outcome tells apart who contributed: an answer that some URL of is   *)
(* only SearXNG's, only premium's.                                         *)
PremiumURLs == UNION {fate[p].urls : p \in Providers}

OutcomeTellsSources ==
  /\ reply.outcome = "searxng_ok" => PremiumURLs = {} /\ sx # {}
  /\ reply.outcome = "premium_ok" => PremiumURLs # {} /\ sx \subseteq PremiumURLs
  /\ reply.outcome = "searxng_plus_premium_ok" =>
       PremiumURLs # {} /\ ~(sx \subseteq PremiumURLs)

(* The distinct URLs of both stages. *)
Gathered == sx \cup PremiumURLs

(* A request is not short of results for want of trying: unless its        *)
(* context ended, it called a provider or was refused by every configured  *)
(* one, and it either reached its target or went to them all               *)
(* (proxy.go:464-544, 671-698).                                            *)
GuaranteedCall ==
  pc = "done" /\ reply.outcome # "cache_hit" /\ parent = "live" =>
    /\ \/ \E p \in Providers : Asked(p)
       \/ \A p \in Configured : fate[p].door \in {"open", "busy"}
    /\ \/ Cardinality(Gathered) >= Target
       \/ \A p \in Configured : fate[p].door # "unasked"

(* Premium calls cost money: beyond the guaranteed one, a provider is only *)
(* called while the distinct URLs of both stages are below the target.     *)
NoNeedlessCall ==
  [][\A p \in Providers :
       ~Asked(p) /\ Asked(p)' =>
         \/ \A q \in Providers : ~Asked(q)
         \/ Cardinality(Gathered) < Target]_vars

(* Only what was answered, and never an empty answer, enters the cache. *)
CacheHoldsAnswers ==
  [][cache' # cache => cache' = {reply'.urls} /\ reply'.urls # {}]_vars

(* The request keeps the promise of RequestContract: no provider twice, no *)
(* two calls at once, nothing gathered is lost, and it always ends.        *)
Contract == INSTANCE RequestContract WITH
  asked    <- {p \in Providers : Asked(p)},
  inFlight <- {p \in Providers : Asked(p) /\ fate[p].outcome = ""},
  gathered <- (UNION cache) \cup Gathered,
  reply    <- [kind |-> CASE reply.outcome = "none" -> "pending"
                          [] reply.outcome \in {"timeout", "fallback_fail"} ->
                               "failed"
                          [] OTHER -> "answer",
               urls |-> reply.urls]

ImplementsContract == Contract!Spec
=============================================================================
