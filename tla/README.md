# searxng-gateway: a TLA+ verification project

The gateway (`src/`, Go) answers a search request from SearXNG and from a pool
of paid ("premium") providers. Its difficulty is not in the searching but in the
state many concurrent requests share: one circuit breaker per provider and per
SearXNG engine and the registry that creates them, a round-robin index, a
cooldown for SearXNG as a whole, an eligibility gauge, a cache, and contexts
that can end between any two steps. These modules model that state and the steps
of the code on it; TLC checks them on small instances. TLAPS proves every safety
property the runs check, and the steps of all three refinements, for every value of
the constants; liveness is TLC's.

`PROJECT.json` says which lines of the source each definition stands for, which
mutation of the code each property would catch, and where each hazard is.

## 1. The system

| Component | State | Operations | Talks to | What makes it correct |
|---|---|---|---|---|
| Search request (`internal/proxy/proxy.go`, `Search`, `premiumLoop`, `startFirstPremium`) | per request: URLs seen, results of both stages, providers used, diagnostics | cache lookup; SearXNG stage beside the first premium call; join; serial top-up; assembly; outcome; cache store | every other component | no provider twice, no two calls at once, nothing gathered is lost; `no_results` only when everything is exhausted; no needless paid call; always answered |
| SearXNG stage (`Search` 183-291, `retryWithBackoff`, `searxng/client.go`) | the stage's context, attempts made | run or skip, up to three attempts, classification of the end | cooldown; engine breakers | retries only after network errors; the deadline that ran out is named; SearXNG is not blamed for the request's own end |
| SearXNG cooldown (`inCooldown`, `recordSearxng*`) | failure streak, deadline; written under `Proxy.mu`, read first without it | read, clear when expired, count, start, reset | all requests | on exactly when the streak is at the threshold; a newer cooldown is never cancelled; the streak is bounded; it ends |
| Circuit breaker (`internal/breaker/breaker.go` over `sony/gobreaker`) | gobreaker's state, generation and counts; trip reason and accounting reason under a mutex; gauges | `Allow`, `done`, `RecordSuccess`, `RecordClientError`, `RecordEngineSeen`, `Snapshot` | all requests | trips on faults of its own generation, recovers by a probe, at most `MaxRequests` probes, no lost probe slot, the reason shown is the trip's |
| Premium call (`admitPremiumCall`, `classifyPremiumOutcome`, `premiumTrips`) | none of its own | call a backend, classify, report to the breaker; recover from a panic | breaker, backends | the end of the caller's context never trips, a fault always does; every admitted call reports exactly once, a panicking one too |
| Provider backends (`backends/*.go`) | none | one exchange; Exa: API, MCP `initialize`, MCP tool call | the providers | errors keep what the classification needs; every call ends with its context |
| Registries and round robin (`backends/manager.go`, `factory.go`; `getBreaker` in `breaker.go`) | one atomic index; the map from names to breakers, under a read-write lock | `NextAvailable`, `getBreaker` | Search, breakers | one breaker per name, even when two requests create it; first choices even but for what second choices take |
| Eligibility gauge (`metrics.SetProviderEligibility`, `providerEligibilityReason`) | one series per reason, a mutex | refresh | breaker | one-hot and current at rest |
| Result cache (`internal/cache`) | LRU of timestamped entries | `Get` (removes what expired), `Set` | Search | serves only answers, none older than the TTL; entries are lost or replaced for cause; a reply is nobody else's to change |
| Process (`cmd/gateway/main.go`) | requests in flight, the phase of the shutdown | `/search` handler; stop, `Shutdown`, trace flush, exit | Search, `net/http` | a shutdown always ends and cuts off no work that was sure to fit its grace |
| Brave rate-limit gauges, other metrics, tracing, configuration | gauges and counters; nothing read back | | | no decision depends on them |

The hard behaviours are: steps of several goroutines between two critical
sections (breaker, cooldown, eligibility), outcomes reported under an epoch that
has ended, contexts noticed late or read after the fact, two timeouts that must
not be mistaken for one another, a panic inside an admitted call, objects the cache
shares between replies, a shutdown shorter than the requests it waits for, and
conclusions drawn from partial failures. `PROJECT.json` "hazards" lists them by line.

## 2. The modules

### Breaker (`Breaker.tla`, `BreakerProofs.tla`, run through `MCBreaker.tla`)

One `breakerEntry`: the gobreaker in `cb`, the entry's mutex `mu`, the trip
reason and the accounting reason, the two metrics its callback writes, and the
goroutines that use it. Each critical section of the code is one or more actions:
`AllowAdmit` and `AllowObserve` are the two library calls `allow` makes under the
mutex, `Report` is where `admitPremiumCall` decides what to tell `done`, and
`DoneBefore`, `DoneAccount`, `DoneAfter` are the three steps of `done`.
`RecordEngineSeen` reads and sets in two actions because the code holds no lock
between them. Callers choose each time between a premium call and an engine's
synthetic report, whose steps on the entry are the same.

Time is one bit, `expired`: the current generation's expiry has passed. gobreaker
acts on it lazily, so the bit may flip between any two calls. Generations are
compared only for equality in the library, so `live`, the admissions that belong
to the current one, replaces the number. gobreaker itself is external and modelled
from its documented two-step behaviour and its use here.

### Cooldown (`Cooldown.tla`, `CooldownProofs.tla`)

`fails` and `until`, and requests that are anywhere in `inCooldown` or in a stage.
`Load` is the read without the lock, `Recheck` the second look under it. A deadline
is the time left until it; `Tick` brings them closer. `StageFails` contains the
whole counting rule of `Search` 274-290, which sees an error, `budgetCapped` and
whether the request is over. The history variable `cut` records what the rule is
about and cannot see: whether the request's end (`ContextEnds`) or the stage's own
timeout (`StageExpires`) stopped the stage first, or neither. `FailureBlamedDuly`
compares what is counted with it.

### SearXNG stage (`SearxngStage.tla`, `SearxngStageProofs.tla`, abstract: `StageContract.tla`)

Control from the gate to the recorded outcome. A moment when the request's deadline
passes (`due`) is distinct from the moment its context notices (`parent`); a stage
with a budget of its own ends before the request does, a capped one ends with it.
`StageContract` is what a request may assume of the stage: one label, one effect
on the streak, and an error counted exactly when the request was still waiting.

### Search (`Search.tla`, `SearchProofs.tla`, abstract: `RequestContract.tla`)

Two threads, `first` (the goroutine of `startFirstPremium`) and `main` (top-up),
run the same `premiumLoop` actions; `events` is `requestDiagnostics`, while the
history variable `fate` records what really became of each provider, so the
properties compare what is claimed with what happened. The stage is
`StageContract`, which `SearxngStage` is shown to implement. A breaker answers
arbitrarily at the door, because other requests move it: `Breaker` shows what it
may answer. `NextAvailable` returns any candidate left.
`RequestContract` is the promise to the caller.

### ProviderCall (`ProviderCall.tla`, `ProviderCallProofs.tla`)

One admitted call of any backend, Exa in each of its modes, from the exchange
to the breaker's verdict. An error is what `classifyPremiumOutcome` can see of
it: the outermost code, the context error in its chain, the unavailability
reason. The history variable `blame` records whose doing the end of the last
exchange was. A provider may panic at any exchange: the deferred `Recover` then
reports a fault, and `Return`, the outermost deferred function, reports only if
`completed` says that nobody has; `dones` collects what reached `done`.

### Eligibility (`Eligibility.tla`, `EligibilityProofs.tla`)

Requests that refresh one provider's gauge, label by label, under
`providerEligibilityMu`, while its breaker moves. The history variable `refreshed` says
that an update has finished: before the first one the gauge has no series at all, from
then on it must show exactly one reason whenever nobody is writing.

### Selection (`Selection.tla`, `SelectionProofs.tla`, run through `MCSelection.tla`)

Concurrent premium loops: `NextAvailable` takes the shared index and advances it
in one atomic step, `Lookup` and `Create` are the two halves of `getBreaker`
(under the read lock, then looked up again under the write lock), and `Admitted`
and `Reported` say which entry an admission and its report are counted in.
`Pool` is the configured providers in `PremiumPoolOrder`. `Search` takes any
candidate and its own breaker's answer; this module is where those come from.

### Gateway (`Gateway.tla`, `Cache.tla`, `GatewayProofs.tla`, abstract: `SearchService.tla`, run through `MCGateway.tla`)

`Cache` is `internal/cache`: the LRU as a sequence, least recently used first, and
`Get` as the two calls it makes of it, because another request's calls can come
between them: `Touch` with its `Verdict`, and `Discard`, which removes whatever is
under the key by then. `Gateway` runs concurrent `/search` requests over it, from
arrival to the written reply, and `main` from the stop to the end of the process.
Responses are objects named by the request that made them: `Stores` puts the very
object into the cache that is then encoded for the caller, `Hit` makes a copy, and
what a caller is told is read off the object while it is being written. A search
is whatever happens within its budget; `Search` has its inside.

`SearchService` is what callers are promised, without cache keys being looked up,
LRU order, expiry steps or phases. It keeps the open question of each caller
(`asked`): `Ask` opens it, the one reply closes it, and results come under the very
text that was asked, found for a query of the same key, by the request itself or stored
at most `Life` ago; a reply then stays as given. `Gateway` implements it under the
mapping of the LRU to a set of kept answers, of a request's query to its question from
its arrival to its reply, and of the objects to what they tell.

## 3. What the runs check

| Run | Bounds | What it shows |
|---|---|---|
| `breaker` | 2 callers, 1 observer, 1 probe, one structural reason and `panic` | provenance of trips and rejections, probes, recovery, with `RecordEngineSeen` and `Snapshot` beside; `ProbeSlotFreed` under fairness |
| `breaker_seen_resets` | as above | *violated*: "can never reset an already-open breaker" (breaker.go:229-231); a stale read can |
| `cooldown` | 3 requests, threshold 2, length 2 | the cooldown agrees with the streak, is not cancelled, and ends; who is blamed for a failed stage |
| `searxng_stage` | the code's 3 attempts | retries, deadline attribution, `StageContract` with its liveness |
| `searxng_stage_own_expiry` | same | *violated*: "timeout" when the stage's own budget expired (architecture.md:148); during a back-off it is `error` |
| `search` | 2 configured providers and 1 without a key, 2 URLs, target 2 | outcomes, calls owed and needless calls, cache, `RequestContract` with its liveness |
| `provider_call` | all 8 backends and modes, one call | blame, evidence for structural reasons, one report per call whether or not the provider panics, termination |
| `provider_call_cancel` | Brave, Tavily | *violated*: cancellation does not trip (architecture.md:84); `%v` loses the cause |
| `provider_call_exa` | Exa, auto, key only | *violated*: faults trip (architecture.md:84); they become `not_configured` |
| `eligibility` | 3 requests, every reason of a trip | once refreshed, one-hot and current whenever at rest |
| `selection` | 2 requests, 3 providers, 7 selections | one breaker per provider; how even first choices are |
| `gateway` | 3 requests, 3 queries of 2 keys, cache of 1, TTL 1, budget 2, grace 1, clock to 4 | `SearchService`: each caller's own question answered once; what the cache loses and replaces; that a shutdown ends, and what it may cut off |

Why these bounds suffice for what they show:

* **Breaker**: with two callers one can be in the critical section or hold a
  half-open probe while the other carries an admission from an older generation, and
  the two failures in a row that a trip takes can come from both. Expiries are unbounded;
  counts are bounded by the trip limit and `MaxRequests`. The proofs remove the
  bounds on callers, observers, reasons and `MaxRequests`.
* **Cooldown**: two failures start it, so a third request's late failure can
  extend it and a stale reader can meet the extension. `fails` is bounded by the
  requests in flight (`StreakBounded`), so no cap is needed.
* **Search**: target 2 with 2 URLs lets each stage alone, both together, or
  neither reach it, with and without overlap. Two configured providers are enough for a
  first call and a top-up in every combination of answers; the one without a key
  is what `missing_key` is about.
* **Selection**: two requests race for an entry, three providers make the modulus
  change with what a loop has used, and seven selections go twice round the pool and
  one further. The proofs hold for every value of `MaxIndex`, the model's only bound.
* **Gateway**: the race of `Get` needs two readers of an expired entry, of which one
  stores a new one before the other discards: three requests, of which the first
  stored the old one. With a capacity of 1 the second key evicts the first. `Budget` is larger
  than `Grace` as 8 s is than 5 s, so that a shutdown can meet a search it cannot
  wait for and one it can; `LastStop` leaves room for both, and `MaxTime` for the
  whole shutdown after it. The spellings share a key, so that a hit can be another
  text's. There is no symmetry reduction where liveness is checked.
* **Eligibility**: two writers can conflict and a third transition can fall between.

`SearxngStage` and `ProviderCall` need no bound: attempts and exchanges are finite.
Deadlock is checked except in the three modules of a single request, stage or call,
which stop when done, and in `gateway`, whose process ends. The types of `Cooldown`,
`SearxngStage`, `Eligibility` and `Selection` are proved, and not checked in the runs
as well.

### Fairness

* `Breaker`: every goroutine past `Allow` keeps running, `WF` per caller step, and
  gets the mutex in the end, `SF` of `DoneBefore`: `sync.Mutex` hands over to a waiter
  that has starved for 1 ms. The provider's return is included because a
  call ends with its context (`CallEnds`).
* `Cooldown`: the clock advances, a started request proceeds, and requests keep
  coming. `CooldownEnds` is false without the last: only a request clears it.
* `SearxngStage`: the deadline and its timers fire, the goroutine runs, and an HTTP
  call ends when its context has; a call never has to return earlier.
* `Search`: the goroutines run and a call whose context has ended comes back.
* `ProviderCall`: the request's deadline comes (`WithTimeout`, proxy.go:142) and an exchange ends with
  the context it was made with. Providers need never answer.
* `Gateway`: the clock advances, the steps of each handler up to its reply and those of
  `main` are taken. Goroutines' steps take no time: the clock waits for a handler that is not
  searching, for a search at the end of its budget (which `CallEnds` and `Search`'s
  liveness justify), for `Shutdown` at its deadline and for the trace exporter at its
  own (tracing.go:78-82). Nothing is assumed of clients: none need send, read or
  close, and the server sets no `WriteTimeout`.

## 4. What is proved

`BreakerProofs` (any finite set of callers, any observers, reasons, and
`MaxRequests >= 1`):

* `BreakerInvariant`: `BreakerInv` is inductive. `SnapshotNamesTrip` is not
  inductive on its own: at the moment of the trip the reason is still in
  `accountingReason`, held by whoever is in `done`. So the invariant says who
  holds the mutex, that only that caller can be between the steps of `done`, and
  how far its bookkeeping has come when the breaker is open. For the probes it
  says that in a half-open generation every admission counted is either in flight
  (`live`) or was a success, and that admissions in flight are at a step that
  still reports.
* From it: `TypeCorrect`, `SnapshotProvenance`, `ProbeBound`, `ProbeSlot` and the
  action property `RejectionProvenance`.
* The lemmas on `CurrentState`, `OnRequest`, `OnSuccess`, `OnFailure` and
  `AfterRequest` state what the library's steps do to a consistent breaker;
  `LazyStep` covers every read that may first move it to the next generation.
* `TripCause` and `RecoveryCause`, the action properties `TripNeedsFault` and
  `RecoveryNeedsProbe`, from the lemma `ChangeOfState`: the state changes only by a
  lazy step, which never opens or closes the breaker, or where `done` accounts an
  admission of the current generation.

`CooldownProofs` (any finite set of requests, any threshold and length >= 1, which
`config.Validate` enforces):

* `CooldownInvariant`: the streak is at the threshold exactly while a cooldown is
  recorded, and together with the stages still in flight it stays below threshold
  plus requests. The second part is what makes the bound inductive: each late
  failure uses up a request that could fail.
* From it: `TypeCorrect`, `CooldownMatchesStreak`, `StreakStaysBounded`, and the
  action properties `CooldownEndsDuly` (no cooldown is cancelled by a stale reader)
  and `FailuresBlamedDuly`, whose invariant (`BlameInvariant`) says what `cut` and the
  request's context tell of each other: a stage its request's end cut short is not
  counted, one whose request still waits or that used up its own timeout is.

`SearxngStageProofs` (any number of attempts >= 1):

* `StageInvariant`: `StageInv` adds three parts to the type. `Progress` ties the
  replies received to the step the stage is at, `Contexts` says which of the three
  ends (the deadline, the request, the stage) imply one another, and `Labels` says
  what a finished stage may have been labelled. A label names the right deadline only
  because a stage with a budget of its own cannot outlive the request.
* From it: `TypeCorrect`, `RetriesDuly`, `DeadlinesTold`, and `ContractSafety`: the
  stage starts as `StageContract` does, and every step is a step of it or a stutter.
  The contract's liveness stays with TLC.

`EligibilityProofs` (any set of requests):

* `EligibilityInvariant`: updates exclude one another (`Exclusive`), the labels an
  update has passed are as it wants them (`WrittenSoFar`), and what it writes is
  current unless a newer refresh is pending (`Fresh`). The last is what the mutex
  with the resolver called inside it is for: a reason resolved before the lock could
  be written after a newer one.
* From it: `TypeCorrect`, `OneHot`, `GaugeIsCurrent`, both of them from the first finished
  update on.

`SelectionProofs` (any requests, any non-empty pool without repetitions):

* `RegistryInvariant`: an entry is registered under its own name, entries once registered
  stay, and whatever a request holds past `getBreaker`, and whatever has counted an
  admission, is the registered one. `OneBreakerPerName` is a part of it and needs the
  rest: what a request took from the map before another's creation is what that
  creation found.
* `TurnsInvariant`: of the indexes taken so far, those that fall on the i-th provider of
  the whole pool (`Turns`) are at least its first choices and at most these plus the
  other selections. Turns of two providers differ by one at most, whence
  `EvenFirstChoices`. The lemmas `NextIndex` and `NextTurn` have the arithmetic of the
  modulus.

`SearchProofs` (any finite sets of providers and URLs, any target):

* `SearchInvariant`: `SearchInv` relates what the request knows to what happened. The
  five properties of outcomes compare `reply` with `fate`, the history of each provider;
  none of them is inductive, because the code decides from `events`, the URLs it kept and
  where its threads are. So the invariant says of each provider that what the diagnostics
  record is what became of it, of each thread which provider it is busy with and that no
  other thread has it, of the first loop and the top-up what their ends imply, of the
  stage's URLs that none is dropped before the join, and of `reply` that what was true when
  it was given stays true (`Claims`).
* From it: `TypeCorrect`, `NoResultsHonest`, `FailureJustified`, `SourcesTold`,
  `CallGuaranteed`, and the action properties `NoNeedless` and `CacheHonest`. `NoNeedless`
  is not obvious because the first call runs beside the stage: a call is beyond the
  guaranteed one only in the top-up, which has seen the results of both. The second half of
  `CallGuaranteed`, that a live request below its target has gone to every configured
  provider, takes an invariant of its own on top (`Persevering`).
* `ContractSafety`: the initial states are the contract's, and each step is a step of
  `RequestContract` or a stutter. `ContractSteps` states what the contract allows in terms
  of the four things the mapping exposes (providers asked, calls in flight, URLs held,
  the reply); then each action needs only its effect on those four.

`ProviderCallProofs` (any set of the modelled backends):

* `CallInvariant`: the verdict rests on the error, and the error on the exchange that ended.
  `Progress` says what the variables hold at each point (nothing is reported before
  `classify`, one report stands after it), `Evident` what an error must show of the one
  whose doing it is, from the moment it is made until it is classified, and `Verdicts` what
  was therefore reported. `Evidence` is the heart: where the caller is to blame, the chain
  has a context error and the request is over; where the provider is, it has a deadline the
  request outlived, or a code that trips.
* From it: `TypeCorrect`, `ReportOnce`, `CallerNoFault`, `FaultReported`, `ReasonsEvident`.
  The lemmas `FailureKeeps` and `StatusSays` say what the backends' conversions of failures
  and statuses keep; Brave and Tavily, and Exa without an MCP URL, are excepted exactly where
  the two runs with a violation show the code at odds with its documentation.

`GatewayProofs` (any number of requests, any queries and key function, any capacity >= 1, any
times; `MaxTime >= LastStop + Grace + TraceGrace`):

* The lemmas `OneRemoved`, `OneAppended` and `FirstDropped` are about sequences of entries
  with distinct keys; `TouchSays`, `DiscardSays` and `SetSays` lift them to the set of what
  the cache holds (`Held`), which is all that the rest of the proof sees of the LRU.
* `GatewayInvariant`: `Kept` says that an entry's value is an object its maker has already
  replied with, `Own` that a request replies once, with its own object. Together they
  make a reply immutable while it is written, cached or not: nobody writes to an
  object that is in the cache. `Seen` says that what an expired lookup met is still
  expired if it is still there, `Recent` that whatever is under a searching request's key
  came during its search and that the search is within its budget, `Clock` that after an
  early return of `Shutdown` nobody is, or comes, in flight. `Bystanders` shows once for all
  request steps that they leave the other requests' parts alone.
* From it: `TypeCorrect` (the cache's size and its keys included), and the action
  properties `NoWantonLoss`, `ReplacementConcurrent` and `FittingNotCut`.
* `ServiceImplemented`: the whole refinement of `SearchService`, which has no liveness. An
  arrival is `Ask`, a lookup that reorders the LRU is a stutter, the removal of an entry is
  `Forget`; a hit, a stored answer, an empty one and a refusal are the four kinds of reply.
  `ToldOnce` shows of all of them that they close the caller's own question and nobody
  else's.

Assumed are only the constants' assumptions in the modules: finite, non-empty or positive
where the code's configuration checks or the language make them so.

Only model-checked: all liveness (`ProbeSlotFreed`, `CooldownEnds`, `CallEnds`,
`ShutdownEnds`, the liveness of `StageContract` and `RequestContract`), which is out of the
prover's reach. No module declares a recursive operator. Two definitions are written for
the prover as much as for the reader: `Without` in `Cache` removes the one entry of its key
with `RemoveAt`, and records are built as literals where a field is replaced.

## 5. Where the code and its documentation disagree

Four runs end in a counterexample, each against a sentence of the repository
(`PROJECT.json` "findings" quotes them). Further observations without a run:

* `RecordClientError` says it forces one failure to trip, "threshold=1"
  (breaker.go:221), but the breaker trips on the second in a row (breaker.go:284-287).
* The index "distributes load evenly" (manager.go:84-85) only as far as no request
  tries a second provider: with three providers of which the second always answers
  empty, requests in sequence never choose the third first, and an open breaker has
  the same effect, for as long as it lasts: the unevenness has no bound of its own.
  `FirstChoicesEven` only bounds it by the number of second choices made.
* A cancelled half-open probe is reported as a success and closes the breaker
  (proxy.go:829-832), although the provider did not answer.
* An MCP answer without parsable results counts against Exa (exa.go:285), although
  empty results are said not to trip.
* A stage skipped because the caller cancelled is labelled `budget_capped`
  (proxy.go:188-189), not `error`.
* `searxng: status 503` matches none of `classifyError`'s 5xx patterns.
* During an update of the eligibility gauge a scrape can see two reasons, or none, and
  concurrent Brave answers can leave a mixture in the three rate-limit gauges.
* An engine that one answer lists both with results and as unresponsive has its
  success reported first, which resets the count its failure is added to
  (proxy.go:229-262).
* Queries that differ in an operator's case ("OR", "or") share a cache entry although the
  operators are case-sensitive upstream (proxy.go:118-121, 1063); this is intended.
* The cache-size gauge is set before the entry is stored (proxy.go:412-413) and not
  when one expires, so it lags.
* A second signal during the shutdown has no effect, since `signal.Notify` stays in
  place (main.go:80); and the spans of requests that end after the trace flush began
  are lost (main.go:93-98).

## 6. Not modelled, and why

Counters, histograms and tracing's spans, and Brave's rate-limit gauges, which
nothing reads back: no property of the service depends on them. Configuration, read
once before anything runs concurrently; its ranges are assumptions of the modules.
Of the HTTP server: connections that never send a request, `/healthz`, `/metrics` and the exit
status. Parsing and building of requests and responses, which the models reduce to
malformed, empty or with results. Test data, examples, scripts and the build.

## 7. Plan

Done, in this order: Breaker, Cooldown, and SearxngStage under StageContract, each
with its proofs; Search on StageContract and under RequestContract; ProviderCall,
with panics; Eligibility with its proofs; Selection (round robin and registry) with its
proofs; Cache and Gateway under SearchService; the proofs of Search, ProviderCall and
Gateway, with their refinements.

Next:

1. A contract of one admitted call, between Search and Breaker, that ProviderCall
   implements, so that Search's arbitrary door becomes the breaker's own.
2. Consequences of the contracts alone, proved in the abstract modules: what a caller may
   conclude from RequestContract or SearchService without knowing what implements them.
3. One exchange of a backend against a provider that answers twice or late (MCP's session),
   if the backends come to keep sessions.
