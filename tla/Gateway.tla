------------------------------ MODULE Gateway ------------------------------
(***************************************************************************)
(* The process (cmd/gateway/main.go): concurrent /search requests over the *)
(* shared cache, from their arrival to the written reply, and the          *)
(* shutdown that a signal or a failing listener starts.  The search itself *)
(* (Search) is what happens between `searching` and its end, which         *)
(* comes within the request's budget.                                      *)
(*                                                                         *)
(* Steps of goroutines take no time: the clock waits for those under way.  *)
(* A search, a client and the trace exporter take what time they like, up  *)
(* to the timeouts the code gives them; a client that reads its reply has  *)
(* none (http.Server.WriteTimeout is not set).                             *)
(***************************************************************************)
EXTENDS Cache

CONSTANTS
  MaxRequests,\* bound: the requests of a run
  Queries,    \* texts of q that are searched for
  KeyOf,      \* normalize: the cache key of each text
  Budget,     \* FALLBACK_TIMEOUT_SECONDS
  Grace,      \* how long Shutdown waits for requests
  TraceGrace, \* how long the trace exporter may then take
  LastStop,   \* bound: the last moment a shutdown begins
  MaxTime     \* bound: the clock stops here

ASSUME TimesAssumption ==
  /\ {Budget, Grace, TraceGrace, LastStop, MaxTime} \subseteq Nat
  /\ MaxTime >= LastStop + Grace + TraceGrace
ASSUME RequestsAssumption == MaxRequests \in Nat

(* Requests are numbered in the order of their arrival. *)
Requests == 1 .. MaxRequests

(* normalize(q) of a missing or blank q is never computed. *)
Blank == "blank"
Nothing == 0

Status(kind) == [kind |-> kind, ref |-> Nothing]
Results(ref) == [kind |-> "results", ref |-> ref]

VARIABLES
  phase,     \* of main: serving, draining (Shutdown), flushing, exited
  stopAt,    \* when Shutdown was called
  flushAt,   \* when traceShutdown was called
  pc,        \* where each request is
  query,     \* its q, as it came, until its reply is decided
  since,     \* when its search began
  saw,       \* the expired entry's value its lookup met
  responses, \* *searxng.Response objects, by the request that made them
  reply      \* what is written: a status, or the object that is encoded

requestVars == <<pc, query, since, saw, responses, reply>>
mainVars == <<phase, stopAt, flushAt>>
vars == <<now, lru, mainVars, requestVars>>

NoResponse == [query |-> Blank, by |-> Nothing]

Init ==
  /\ now = 0
  /\ CacheInit
  /\ phase = "serving"
  /\ stopAt = 0
  /\ flushAt = 0
  /\ pc = [r \in Requests |-> "absent"]
  /\ query = [r \in Requests |-> Blank]
  /\ since = [r \in Requests |-> 0]
  /\ saw = [r \in Requests |-> Nothing]
  /\ responses = [r \in Requests |-> NoResponse]
  /\ reply = [r \in Requests |-> Status("none")]

Key(r) == KeyOf[query[r]]

Goes(r, where) == pc' = [pc EXCEPT ![r] = where]

-----------------------------------------------------------------------------
(* A request.                                                              *)

(* Shutdown closes the listener and the idle connections; a connection     *)
(* that was accepted before and has not sent its request yet stays open,   *)
(* and keeps Shutdown waiting up to its deadline.                          *)
Connected ==
  \/ phase \in {"serving", "draining"}
  \/ phase = "flushing" /\ flushAt - stopAt >= Grace

Arrives(r) ==
  /\ Connected
  /\ pc[r] = "absent"
  /\ \A s \in Requests : s < r => pc[s] # "absent"
  /\ \E q \in Queries \cup {Blank} : query' = [query EXCEPT ![r] = q]
  /\ Goes(r, "handling")
  /\ UNCHANGED <<now, lru, mainVars, since, saw, responses, reply>>

(* The reply is decided, the handler's locals die; writing is up to the    *)
(* client.                                                                 *)
Writes(r, what) ==
  /\ reply' = [reply EXCEPT ![r] = what]
  /\ Goes(r, "writing")
  /\ query' = [query EXCEPT ![r] = Blank]
  /\ since' = [since EXCEPT ![r] = 0]

BadRequest(r) ==
  /\ pc[r] = "handling"
  /\ query[r] = Blank
  /\ Writes(r, Status("bad_request"))
  /\ UNCHANGED <<now, lru, mainVars, saw, responses>>

(* Defect: the cached object itself is given the caller's query. *)
HitShared(r) ==
  /\ pc[r] = "handling"
  /\ query[r] # Blank
  /\ Verdict(Key(r)) = "hit"
  /\ Touch(Key(r))
  /\ responses' = [responses EXCEPT ![At(Key(r)).val].query = query[r]]
  /\ Writes(r, Results(At(Key(r)).val))
  /\ UNCHANGED <<now, mainVars, saw>>

(* Defect: the copy keeps the query of whoever searched first. *)
HitUnnamed(r) ==
  /\ pc[r] = "handling"
  /\ query[r] # Blank
  /\ Verdict(Key(r)) = "hit"
  /\ Touch(Key(r))
  /\ responses' = [responses EXCEPT ![r] = responses[At(Key(r)).val]]
  /\ Writes(r, Results(r))
  /\ UNCHANGED <<now, mainVars, saw>>

(* A copy of the cached response, under the caller's query. *)
Hit(r) ==
  /\ pc[r] = "handling"
  /\ query[r] # Blank
  /\ Verdict(Key(r)) = "hit"
  /\ Touch(Key(r))
  /\ responses' = [responses EXCEPT
                     ![r] = [query |-> query[r],
                             by |-> responses[At(Key(r)).val].by]]
  /\ Writes(r, Results(r))
  /\ UNCHANGED <<now, mainVars, saw>>

StartSearch(r) ==
  /\ Goes(r, "searching")
  /\ saw' = [saw EXCEPT ![r] = Nothing]
  /\ since' = [since EXCEPT ![r] = now]

Miss(r) ==
  /\ pc[r] = "handling"
  /\ query[r] # Blank
  /\ Verdict(Key(r)) = "miss"
  /\ StartSearch(r)
  /\ UNCHANGED <<now, lru, mainVars, query, responses, reply>>

MeetsExpired(r) ==
  /\ pc[r] = "handling"
  /\ query[r] # Blank
  /\ Verdict(Key(r)) = "expired"
  /\ Touch(Key(r))
  /\ saw' = [saw EXCEPT ![r] = At(Key(r)).val]
  /\ Goes(r, "discarding")
  /\ UNCHANGED <<now, mainVars, query, since, responses, reply>>

Discards(r) ==
  /\ pc[r] = "discarding"
  /\ Discard(Key(r))
  /\ StartSearch(r)
  /\ UNCHANGED <<now, mainVars, query, responses, reply>>

(* Search returns without results: a failure, 502, or an honest empty      *)
(* answer, 200; which of them is Search's affair.                          *)
FindsNothing(r) ==
  /\ pc[r] = "searching"
  /\ Writes(r, Status("nothing_found"))
  /\ UNCHANGED <<now, lru, mainVars, saw, responses>>

(* Search assembles its response, stores it and returns the same object. *)
Stores(r) ==
  /\ pc[r] = "searching"
  /\ Set(Key(r), r)
  /\ responses' = [responses EXCEPT ![r] = [query |-> query[r], by |-> r]]
  /\ Writes(r, Results(r))
  /\ UNCHANGED <<now, mainVars, saw>>

(* The client has read its reply, or gone. *)
Written(r) ==
  /\ pc[r] = "writing"
  /\ Goes(r, "answered")
  /\ UNCHANGED <<now, lru, mainVars, query, since, saw, responses, reply>>

Handles(r) ==
  \/ BadRequest(r) \/ Hit(r) \/ Miss(r) \/ MeetsExpired(r) \/ Discards(r)
  \/ FindsNothing(r) \/ Stores(r)

-----------------------------------------------------------------------------
(* main.                                                                   *)

InFlight(r) == pc[r] \notin {"absent", "answered", "cut"}

(* A signal, or ListenAndServe returns; later ones change nothing. *)
Stop ==
  /\ phase = "serving"
  /\ now <= LastStop
  /\ phase' = "draining"
  /\ stopAt' = now
  /\ UNCHANGED <<now, lru, flushAt, requestVars>>

(* Defect: Shutdown is given no deadline. *)
ShutdownUnbounded ==
  /\ phase = "draining"
  /\ \A r \in Requests : ~InFlight(r)
  /\ phase' = "flushing"
  /\ flushAt' = now
  /\ UNCHANGED <<now, lru, stopAt, requestVars>>

(* Defect: Shutdown does not wait. *)
ShutdownAtOnce ==
  /\ phase = "draining"
  /\ phase' = "flushing"
  /\ flushAt' = now
  /\ UNCHANGED <<now, lru, stopAt, requestVars>>

(* srv.Shutdown returns: nobody is in flight, or its deadline has come. *)
ShutdownReturns ==
  /\ phase = "draining"
  /\ (\A r \in Requests : ~InFlight(r)) \/ now - stopAt >= Grace
  /\ phase' = "flushing"
  /\ flushAt' = now
  /\ UNCHANGED <<now, lru, stopAt, requestVars>>

(* traceShutdown returns and main with it; what is in flight is cut off. *)
Exit ==
  /\ phase = "flushing"
  /\ phase' = "exited"
  /\ pc' = [r \in Requests |-> IF InFlight(r) THEN "cut" ELSE pc[r]]
  /\ UNCHANGED <<now, lru, stopAt, flushAt, query, since, saw, responses, reply>>

(* Somebody must move before the clock does. *)
Due ==
  \/ \E r \in Requests :
       \/ pc[r] \in {"handling", "discarding"}
       \/ pc[r] = "searching" /\ now - since[r] >= Budget
  \/ phase = "draining" /\ now - stopAt >= Grace
  \/ phase = "flushing" /\ now - flushAt >= TraceGrace

Tick ==
  /\ now < MaxTime
  /\ phase # "exited"
  /\ ~Due
  /\ now' = now + 1
  /\ UNCHANGED <<lru, mainVars, requestVars>>

RequestStep(r) == Arrives(r) \/ Handles(r) \/ Written(r)

Next ==
  \/ \E r \in Requests : RequestStep(r)
  \/ Stop \/ ShutdownReturns \/ Exit
  \/ Tick

(* Time passes, goroutines run, and a timeout that has come is acted on;   *)
(* no client need send, read or close anything.                            *)
Fairness ==
  /\ WF_vars(Tick) /\ WF_vars(ShutdownReturns) /\ WF_vars(Exit)
  /\ \A r \in Requests : WF_vars(Handles(r))

Spec == Init /\ [][Next]_vars /\ Fairness

-----------------------------------------------------------------------------
(* Properties.                                                             *)

(* The cache never holds more than its size nor two entries of one key,    *)
(* and every variable has its type.                                        *)
TypeOK ==
  /\ now \in 0 .. MaxTime
  /\ Len(lru) <= Capacity
  /\ \A i, j \in DOMAIN lru : lru[i].key = lru[j].key => i = j
  /\ phase \in {"serving", "draining", "flushing", "exited"}
  /\ stopAt \in 0 .. LastStop
  /\ pc \in [Requests -> {"absent", "handling", "discarding", "searching",
                         "writing", "answered", "cut"}]
  /\ query \in [Requests -> Queries \cup {Blank}]
  /\ since \in [Requests -> 0 .. MaxTime]
  /\ saw \in [Requests -> Requests \cup {Nothing}]
  /\ responses \in [Requests -> [query : Queries \cup {Blank},
                                 by : Requests \cup {Nothing}]]
  /\ reply \in [Requests ->
       [kind : {"none", "bad_request", "nothing_found", "results"},
        ref : Requests \cup {Nothing}]]

(* The question of each caller, from its arrival to the reply. *)
Asked(r) ==
  CASE pc[r] = "absent" -> "not_asked"
    [] reply[r].kind # "none" -> "answered"
    [] OTHER -> query[r]

(* What each caller is told, read off the object that is being encoded. *)
Told(r) ==
  IF reply[r].kind # "results" THEN [kind |-> reply[r].kind]
  ELSE LET object == responses[reply[r].ref]
       IN  [kind |-> "results", query |-> object.query, by |-> object.by]

Service == INSTANCE SearchService WITH
  Life   <- TTL,
  stored <- {[by |-> lru[i].val, key |-> lru[i].key, at |-> lru[i].ts] :
               i \in DOMAIN lru},
  asked  <- [r \in Requests |-> Asked(r)],
  reply  <- [r \in Requests |-> Told(r)]

(* Callers get what SearchService promises: a reply to what they asked,    *)
(* under their own text of it, that no other request changes while it is   *)
(* written, with results found for that query up to case and spacing and   *)
(* stored at most the TTL ago, hits prolonging nothing (proxy.go:122-133,  *)
(* cache.go:27-41).                                                        *)
ImplementsService == Service!Spec

Keys == {KeyOf[q] : q \in Queries}

(* An entry that has not expired is lost only to make room in a full cache *)
(* or to a reader that had met its expired predecessor and removes what it *)
(* finds under the key by then (cache.go:27-41).                           *)
LossHasCause ==
  [][\A k \in Keys :
       Holds(k) /\ ~Expired(At(k)) /\ ~Holds(k)'
         => \/ Len(lru) = Capacity /\ Len(lru') = Capacity
            \/ \E r \in Requests :
                 /\ pc[r] = "discarding"
                 /\ Key(r) = k
                 /\ saw[r] # At(k).val]_vars

(* Of two searches for one key the later to end replaces what the other    *)
(* stored, and nothing else: what a request replaces was stored while it   *)
(* was searching (proxy.go:126-134, 413).                                  *)
ReplacesOnlyConcurrent ==
  [][\A r \in Requests :
       pc[r] = "searching" /\ reply'[r] = Results(r) /\ Holds(Key(r))
         => At(Key(r)).ts >= since[r]]_vars

(* The end of a request's work at the latest. *)
EndsBy(r) == (IF pc[r] = "searching" THEN since[r] ELSE now) + Budget

(* The shutdown cuts off no request that could be sure to end within the   *)
(* grace: of those it does, only the ones that began late enough, or whose *)
(* client has not taken its reply (main.go:91-93, 8 s against 5).          *)
FittingRequestsEnd ==
  [][\A r \in Requests :
       pc[r] \in {"handling", "discarding", "searching"} /\ pc'[r] = "cut"
         => EndsBy(r) >= stopAt + Grace]_vars

(* The process ends, whatever its clients do (main.go:91-98). *)
ShutdownEnds == (phase = "draining") ~> (phase = "exited")
=============================================================================
