---------------------------- MODULE ProviderCall ----------------------------
(***************************************************************************)
(* One admitted premium call, from the backend's HTTP exchanges            *)
(* (backends/*.go) to the terminal outcome and the verdict given to the    *)
(* breaker (admitPremiumCall, classifyPremiumOutcome and premiumTrips in   *)
(* internal/proxy/proxy.go), while the request's context may end.          *)
(*                                                                         *)
(* An error is what classifyPremiumOutcome can see of it: the code of its  *)
(* outermost BackendError, the context error errors.Is finds in its chain, *)
(* and its unavailability reason.                                          *)
(***************************************************************************)
EXTENDS Naturals, Sequences

CONSTANT Backends \* the backends, Exa once per mode, a call may be made to

(* Exa in mode "auto" has an API key only, an MCP URL only, or both; with  *)
(* a URL only it does what mode "mcp" does.                                *)
AllBackends == {"brave", "tavily", "serper", "parallel",
                "exa_api", "exa_mcp", "exa_auto", "exa_both"}
ASSUME BackendsAssumption == Backends \subseteq AllBackends

Unavailable     == 0
Network         == 1
Auth            == 2
RateLimit       == 3
InvalidResponse == 4
Degraded        == 5
NotABackendError == 6 \* the error admitPremiumCall makes of a panic

(* HTTP statuses other than 200 that the code or its comments single out. *)
Statuses == {400, 401, 402, 403, 404, 422, 429, 432, 433, 503}

Causes == {"cancelled", "deadline", "other"}

VARIABLES
  parent,  \* the request's context
  backend, \* the backend called
  pc,      \* what the call does next
  leg,     \* the exchange under way: REST API, or one of MCP's two calls
  err,     \* the error Search returned
  results, \* what Search returned beside it
  outcome, \* the terminal outcome
  dones,   \* the calls of the breaker's done: what each one reported
  completed, \* admitPremiumCall's local: done has been called
  blame    \* whose doing the last exchange's end really was

reportVars == <<dones, completed>>
vars == <<parent, backend, pc, leg, err, results, outcome, dones, completed,
          blame>>

NoError == [code |-> Unavailable, cause |-> "none", reason |-> "none"]
Error(code, cause) == [code |-> code, cause |-> cause, reason |-> "none"]

Init ==
  /\ parent = "live"
  /\ backend \in Backends
  /\ pc = "do"
  /\ leg = IF backend = "exa_mcp" THEN "init" ELSE "api"
  /\ err = NoError
  /\ results = "none"
  /\ outcome = "none"
  /\ dones = <<>>
  /\ completed = FALSE
  /\ blame = "nobody"

ContextEnds ==
  /\ parent = "live"
  /\ parent' \in {"deadline", "cancelled"}
  /\ UNCHANGED <<backend, pc, leg, err, results, outcome, reportVars, blame>>

-----------------------------------------------------------------------------
(* What each backend makes of a failed exchange: `stage` is "do" when      *)
(* client.Do fails and "read" when reading the body does.                  *)

TransportCode(stage) == IF stage = "do" THEN Network ELSE InvalidResponse

(* Brave and Tavily format the cause with %v: errors.Is no longer sees it. *)
BraveFailure(stage, cause)  == Error(TransportCode(stage), "other")
TavilyFailure(stage, cause) == Error(TransportCode(stage), "other")

SerperFailure(stage, cause)   == Error(TransportCode(stage), cause)
ParallelFailure(stage, cause) == Error(TransportCode(stage), cause)
ExaFailure(stage, cause)      == Error(TransportCode(stage), cause)

(* searchMCP: whatever goes wrong with the tool call is a network error. *)
MCPFailure(cause) == Error(Network, cause)

Failure(stage, cause) ==
  CASE backend = "brave"    -> BraveFailure(stage, cause)
    [] backend = "tavily"   -> TavilyFailure(stage, cause)
    [] backend = "serper"   -> SerperFailure(stage, cause)
    [] backend = "parallel" -> ParallelFailure(stage, cause)
    [] leg = "tool"         -> MCPFailure(cause)
    [] OTHER                -> ExaFailure(stage, cause)

(* A status that is not 200. *)
CommonCode(st) ==
  CASE st \in {401, 403} -> Auth
    [] st = 429 -> RateLimit
    [] OTHER -> st

CommonStatus(st) == Error(CommonCode(st), "other")

(* Defect: any refused authentication is taken for rejected credentials. *)
TavilyStatusGenerous(st) ==
  [code |-> CommonCode(st), cause |-> "other",
   reason |-> CASE st \in {401, 403} -> "credentials_rejected"
                [] st \in {432, 433} -> "quota_exhausted"
                [] OTHER -> "none"]

TavilyStatus(st) ==
  [code |-> CommonCode(st), cause |-> "other",
   reason |-> CASE st = 401 -> "credentials_rejected"
                [] st \in {432, 433} -> "quota_exhausted"
                [] OTHER -> "none"]

StatusError(st) ==
  CASE backend = "tavily" -> TavilyStatus(st)
    [] leg = "tool"       -> MCPFailure("other")
    [] OTHER              -> CommonStatus(st)

-----------------------------------------------------------------------------
(* Exa with no MCP URL to go on to wraps the API's error. *)
Unconfigured(e) ==
  [code |-> Unavailable, cause |-> e.cause, reason |-> e.reason]

(* An exchange has failed with e.  Exa alone goes on: in mode "auto" from  *)
(* the API to MCP, where initialize is best effort, or, with no MCP URL,   *)
(* it wraps the API's error as if it were not configured.                  *)
ExchangeFails(e, who) ==
  /\ blame' = who
  /\ \/ /\ leg = "api" /\ backend = "exa_both"
        /\ leg' = "init" /\ pc' = "do" /\ UNCHANGED err
     \/ /\ leg = "init"
        /\ leg' = "tool" /\ pc' = "do" /\ UNCHANGED err
     \/ /\ leg = "tool" \/ (leg = "api" /\ backend # "exa_both")
        /\ err' = IF backend = "exa_auto" THEN Unconfigured(e) ELSE e
        /\ pc' = "classify" /\ UNCHANGED leg
  /\ UNCHANGED <<parent, backend, results, outcome, reportVars>>

(* The transport fails: the request's context ended, or the provider hung  *)
(* past the client's own timeout, or the connection broke.                 *)
AbortedByContext ==
  /\ pc \in {"do", "read"}
  /\ parent # "live"
  /\ ExchangeFails(Failure(pc, parent), "caller")

ProviderHangs ==
  /\ pc \in {"do", "read"}
  /\ parent = "live"
  /\ ExchangeFails(Failure(pc, "deadline"), "provider")

ConnectionBreaks ==
  /\ pc \in {"do", "read"}
  /\ ExchangeFails(Failure(pc, "other"), "provider")

HeadersArrive ==
  /\ pc = "do"
  /\ pc' = "read"
  /\ UNCHANGED <<parent, backend, leg, err, results, outcome, reportVars, blame>>

(* Whom a status speaks of: 400 and 422 of the query, 401 and Tavily's 432 *)
(* and 433 of the account; a 403 may be a block, and a 429 passes.         *)
Speaks(st) ==
  CASE st \in {400, 422} -> "query"
    [] st \in {401, 432, 433} -> "account"
    [] OTHER -> "provider"

StatusRefused ==
  /\ pc = "read"
  /\ \E st \in Statuses :
       ExchangeFails(StatusError(st),
                     IF leg = "api" THEN Speaks(st) ELSE "provider")

BodyMalformed ==
  /\ pc = "read"
  /\ \/ ExchangeFails(Error(InvalidResponse, "other"), "provider")
     \/ leg = "tool" /\ ExchangeFails(MCPFailure("other"), "provider")

SearchReturns(rs) ==
  /\ results' = rs
  /\ pc' = "classify"
  /\ blame' = "nobody"
  /\ UNCHANGED <<parent, backend, leg, err, outcome, reportVars>>

(* Defect: an MCP result with nothing to parse is no error, and no result. *)
BodyParsedSilently ==
  /\ pc = "read"
  /\ \/ leg = "api" /\ \E rs \in {"empty", "some"} : SearchReturns(rs)
     \/ leg = "tool" /\ \E rs \in {"none", "some"} : SearchReturns(rs)
     \/ /\ leg = "init"
        /\ leg' = "tool" /\ pc' = "do"
        /\ UNCHANGED <<parent, backend, err, results, outcome, reportVars, blame>>

BodyParsed ==
  /\ pc = "read"
  /\ \/ leg = "api" /\ \E rs \in {"empty", "some"} : SearchReturns(rs)
     \/ leg = "tool" /\ SearchReturns("some")
     (* An MCP result with nothing in it to parse is an error. *)
     \/ leg = "tool" /\ ExchangeFails(Error(InvalidResponse, "other"), "nobody")
     \/ /\ leg = "init"
        /\ leg' = "tool" /\ pc' = "do"
        /\ UNCHANGED <<parent, backend, err, results, outcome, reportVars, blame>>

-----------------------------------------------------------------------------
(* classifyPremiumOutcome: context errors first, then the code.  No       *)
(* backend puts a response's text in its error, so a 400 or 422 never     *)
(* speaks of a quota.                                                     *)
OutcomeOfCode(code) ==
  CASE code = Unavailable          -> "not_configured"
    [] code = Degraded             -> "degraded"
    [] code \in {Auth, 401, 403}   -> "auth"
    [] code \in {RateLimit, 429}   -> "rate_limit"
    [] code = Network              -> "network"
    [] code = InvalidResponse      -> "invalid_response"
    [] code \in {400, 422}         -> "request_error"
    [] code \in 500 .. 599         -> "http_5xx"
    [] code \in (402 .. 499) \ {403, 422, 429} -> "quota"
    [] OTHER                       -> "other_error"

(* Defect: the code is looked at before the context. *)
OutcomeCodeFirst ==
  CASE results = "some"          -> "success"
    [] results = "empty"         -> "empty"
    [] OTHER                     -> OutcomeOfCode(err.code)

Outcome ==
  CASE results = "some"          -> "success"
    [] results = "empty"         -> "empty"
    [] err.cause = "cancelled"   -> "cancelled"
    [] err.cause = "deadline"    -> IF parent # "live" THEN "cancelled"
                                                       ELSE "timeout"
    [] OTHER                     -> OutcomeOfCode(err.code)

(* Defect: a provider that throttles is left in the pool. *)
TripsUnlessThrottled ==
  {"auth", "quota", "network", "timeout", "http_5xx", "degraded",
   "invalid_response", "panic", "other_error"}

Trips ==
  {"auth", "quota", "rate_limit", "network", "timeout", "http_5xx",
   "degraded", "invalid_response", "panic", "other_error"}

(* done(success, reason): the breaker hears of this call. *)
Done(fault) == dones' = Append(dones, IF fault THEN "fault" ELSE "ok")

Classify ==
  /\ pc = "classify"
  /\ outcome' = Outcome
  /\ Done(Outcome \in Trips)
  /\ completed' = TRUE
  /\ pc' = "return"
  /\ UNCHANGED <<parent, backend, leg, err, results, blame>>

(* Search, which runs inside admitPremiumCall, may panic at any point; only *)
(* the deferred functions run then, the recovering one first.               *)
ProviderPanics ==
  /\ pc \in {"do", "read"}
  /\ pc' = "recover"
  /\ blame' = "provider"
  /\ UNCHANGED <<parent, backend, leg, err, results, outcome, reportVars>>

(* Defect: the recovering function leaves the report to the outer one too. *)
RecoverIncomplete ==
  /\ pc = "recover"
  /\ outcome' = "panic"
  /\ err' = Error(NotABackendError, "other")
  /\ Done(TRUE)
  /\ pc' = "return"
  /\ UNCHANGED <<parent, backend, leg, results, completed, blame>>

Recover ==
  /\ pc = "recover"
  /\ outcome' = "panic"
  /\ err' = Error(NotABackendError, "other")
  /\ Done(TRUE)
  /\ completed' = TRUE
  /\ pc' = "return"
  /\ UNCHANGED <<parent, backend, leg, results, blame>>

(* The outermost deferred function reports what nobody has reported. *)
Return ==
  /\ pc = "return"
  /\ IF completed THEN UNCHANGED dones ELSE Done(TRUE)
  /\ pc' = "done"
  /\ UNCHANGED <<parent, backend, leg, err, results, outcome, completed, blame>>

-----------------------------------------------------------------------------
(* Defect: initialize is sent without the request's context. *)
AbortedUnlessInit == leg # "init" /\ AbortedByContext

Aborts == AbortedByContext

Exchange ==
  \/ Aborts \/ ProviderHangs \/ ConnectionBreaks
  \/ HeadersArrive \/ StatusRefused \/ BodyMalformed \/ BodyParsed

Terminal == Classify \/ Recover \/ Return

Next == ContextEnds \/ Exchange \/ ProviderPanics \/ Terminal

(* The request's deadline comes, an exchange ends with its context, and    *)
(* the goroutine runs; the provider need not answer.                       *)
Fairness == WF_vars(ContextEnds) /\ WF_vars(Aborts) /\ WF_vars(Terminal)

Spec == Init /\ [][Next]_vars /\ Fairness

-----------------------------------------------------------------------------
(* Every variable keeps its type, and an error goes with no results. *)
TypeOK ==
  /\ parent \in {"live", "deadline", "cancelled"}
  /\ backend \in Backends
  /\ pc \in {"do", "read", "classify", "recover", "return", "done"}
  /\ leg \in {"api", "init", "tool"}
  /\ err.cause \in Causes \cup {"none"}
  /\ err.reason \in {"none", "credentials_rejected", "quota_exhausted"}
  /\ results \in {"none", "empty", "some"}
  /\ \A i \in DOMAIN dones : dones[i] \in {"ok", "fault"}
  /\ completed \in BOOLEAN
  /\ blame \in {"nobody", "caller", "query", "account", "provider"}
  /\ pc \in {"classify", "return", "done"} => (err = NoError <=> results # "none")

(* The breaker has been told of a fault. *)
Tripped == \E i \in DOMAIN dones : dones[i] = "fault"

(* The breaker hears of an admitted call exactly once, however it ends, a  *)
(* panic included: twice would count one fault as two in a row, which is   *)
(* what a trip takes (proxy.go:796-842).                                   *)
ReportedOnce == Len(dones) = IF pc \in {"return", "done"} THEN 1 ELSE 0

(* docs/architecture.md:84, breaker.go:5-9: the end of the request's own   *)
(* context never trips a breaker.  True of the backends that keep the      *)
(* cause of a transport failure in the error's chain.                      *)
CallerNeverTrips == Tripped => blame # "caller"

CallerNeverTripsWrapped ==
  backend \notin {"brave", "tavily"} => CallerNeverTrips

(* And a genuine fault always does, if the request still lives to see it;  *)
(* except where Exa, with an API key only, wraps the fault.                *)
FaultTrips ==
  pc = "done" /\ parent = "live" /\ blame \in {"provider", "account"} => Tripped

FaultTripsUnwrapped == backend # "exa_auto" => FaultTrips

(* A structural reason, on which "no_results" may rest, is only given when *)
(* the provider said so of the account: never of a 403 or a 429.           *)
ReasonIsEvidence == err.reason # "none" => blame = "account"

(* Search assumes of every backend that a call ends with its context.      *)
CallEnds == <>(pc = "done")
=============================================================================
