---------------------------- MODULE SearchProofs ----------------------------
(***************************************************************************)
(* Proofs about Search, for any providers, any URLs and any target: what   *)
(* its outcomes claim is true, the guaranteed call is made and no needless *)
(* one, and the request keeps the safety part of RequestContract.          *)
(***************************************************************************)
EXTENDS Search, FiniteSetTheorems, TLAPS

Outcomes == {"", "success", "empty", "cancelled", "auth", "quota",
             "not_configured", "network", "panic"}

Fates == [door : {"unasked", "open", "busy", "admitted"}, outcome : Outcomes,
          reason : Reasons, urls : SUBSET URLs]

Typed ==
  /\ TypeOK
  /\ fate \in [Providers -> Fates]

(* Who is where: the top-up begins when the first call's goroutine has     *)
(* finished, and nobody is left running at the end.                        *)
Control ==
  /\ pc = "cache" => lp["first"] = "idle" /\ sx = {} /\ premium["main"] = {}
  /\ pc = "stage" => sx = {}
  /\ pc = "topup" => lp["main"] # "idle"
  /\ lp["main"] # "idle" =>
       pc \in {"topup", "finish", "done"} /\ lp["first"] = "finished"
  /\ pc \in {"finish", "done"} =>
       \A t \in Threads : lp[t] \in {"idle", "finished"}
  /\ reply.outcome = "none" <=> pc # "done"
  /\ reply.outcome = "none" => reply.urls = {}
  /\ parent = "live" /\ pc # "cache" /\ reply.outcome # "cache_hit" =>
       lp["first"] # "idle"
  /\ pc = "cache" => \A us, vs \in cache : us = vs
  /\ pc \notin {"cache", "done"} => cache = {}

Waiting == AtDoor("admitted", "")

(* A provider's fate is decided by the thread that has selected it, once.  *)
Doors ==
  /\ \A t \in Threads : lp[t] \in {"selected", "door"} =>
       cur[t] \in used /\ fate[cur[t]] = Untouched
  /\ \A t \in Threads : lp[t] = "calling" =>
       cur[t] \in used /\ fate[cur[t]] = Waiting
  /\ \A p \in Providers \ used : fate[p] = Untouched
  /\ pc = "cache" => used = {}
  /\ \A p \in used : fate[p].door = "unasked" =>
       \/ parent # "live"
       \/ \E t \in Threads : lp[t] \in {"selected", "door"} /\ cur[t] = p
  /\ \A p \in Providers : Asked(p) /\ fate[p].outcome = "" =>
       \E t \in Threads : lp[t] = "calling" /\ cur[t] = p

(* The parts of a provider's fate agree with one another. *)
Coherent(f) ==
  /\ f.outcome # "" => f.door = "admitted"
  /\ f.urls # {} <=> f.outcome = "success"
  /\ f.door = "unasked" => f.reason = ""
  /\ f.door = "admitted" /\ f.reason \in Structural =>
       f.outcome \in {"auth", "quota"}
  /\ f.outcome = "empty" => f.reason = ""

Fated == \A p \in Providers : Coherent(fate[p])

(* The diagnostics say of each provider what became of it. *)
Known(p) ==
  \/ p \notin Configured
  \/ fate[p].door \in {"open", "busy"}
  \/ Asked(p) /\ fate[p].outcome # ""

EventOf(p) ==
  IF p \notin Configured THEN Skipped(p, "missing_key", "")
  ELSE IF fate[p].door = "open" THEN Skipped(p, "breaker_open", fate[p].reason)
  ELSE IF fate[p].door = "busy"
    THEN Skipped(p, "breaker_contention", fate[p].reason)
  ELSE Called(p, fate[p].outcome, fate[p].urls, fate[p].reason)

Diagnostics == {EventOf(p) : p \in {q \in Providers : Known(q)}}

Diagnosed ==
  /\ pc = "cache" => events = {}
  /\ pc \notin {"cache", "done"} => events = Diagnostics

(* The admitted calls that have returned are counted, by the thread that   *)
(* made them; the first thread makes one.                                  *)
Returned(p) == Asked(p) /\ fate[p].outcome # ""

Counted ==
  /\ lp["first"] \in {"idle", "selected", "door", "calling"} =>
       admitted["first"] = 0
  /\ lp["main"] = "idle" => admitted["main"] = 0
  /\ (\E p \in Providers : Returned(p)) <=>
       admitted["first"] > 0 \/ admitted["main"] > 0

(* The first thread's results are in its own sets until the join, and in   *)
(* the request's from then on.                                             *)
Kept ==
  /\ pc \in {"cache", "stage", "join"} =>
       /\ premium["first"] = PremiumURLs
       /\ seen["first"] = PremiumURLs
       /\ seen["main"] = sx
  /\ pc \in {"topup", "finish", "done"} =>
       /\ premium["main"] = PremiumURLs
       /\ seen["main"] = Gathered

(* Whoever is on the way to a provider's door had a reason to go there. *)
Wanted ==
  lp["main"] \in {"selected", "door"} => Cardinality(Gathered) < Target

(* The first thread gives up a live request only when it has called a      *)
(* provider or was refused by all.                                         *)
Guaranteed ==
  lp["first"] = "finished" /\ parent = "live" =>
    \/ \E p \in Providers : Asked(p)
    \/ \A p \in Configured : fate[p].door \in {"open", "busy"}

Claims == NoResultsIsExhaustion /\ FailureHasCause /\ OutcomeTellsSources

SearchInv ==
  /\ Typed /\ Control /\ Doors /\ Fated /\ Diagnosed
  /\ Counted /\ Kept /\ Wanted /\ Guaranteed /\ Claims

-----------------------------------------------------------------------------
(* Lemmas about the state.                                                 *)

(* A running loop belongs to the one thread whose turn it is. *)
LEMMA Running ==
  ASSUME Typed, Control, NEW t \in Threads,
         lp[t] \in {"head", "selected", "door", "calling"}
  PROVE  /\ t = "first" => pc \in {"stage", "join"} /\ lp["main"] = "idle"
         /\ t = "main" => pc = "topup" /\ lp["first"] = "finished"
         /\ \A u \in Threads \ {t} : lp[u] \in {"idle", "finished"}
         /\ pc \in {"stage", "join", "topup"}
BY DEF Typed, TypeOK, Control, Threads

(* Whoever has selected a provider has selected a configured one. *)
LEMMA Selected ==
  ASSUME Typed, Doors, NEW t \in Threads,
         lp[t] \in {"selected", "door", "calling"}
  PROVE  cur[t] \in used /\ cur[t] \in Configured /\ cur[t] \in Providers
BY ProvidersAssumption DEF Typed, TypeOK, Doors

LEMMA Parts ==
  /\ Untouched.door = "unasked" /\ Untouched.outcome = ""
  /\ Untouched.reason = "" /\ Untouched.urls = {}
  /\ Waiting.door = "admitted" /\ Waiting.outcome = ""
  /\ Waiting.reason = "" /\ Waiting.urls = {}
BY DEF Untouched, Waiting, AtDoor

(* What premium has gathered changes with the providers' URLs only. *)
LEMMA UrlsKept ==
  ASSUME \A p \in Providers : fate'[p].urls = fate[p].urls
  PROVE  PremiumURLs' = PremiumURLs /\ (sx' = sx => Gathered' = Gathered)
BY DEF PremiumURLs, Gathered

LEMMA UrlsAdded ==
  ASSUME NEW q \in Providers, NEW us, fate[q].urls = {}, fate'[q].urls = us,
         \A p \in Providers \ {q} : fate'[p].urls = fate[p].urls
  PROVE  /\ PremiumURLs' = PremiumURLs \cup us
         /\ sx' = sx => Gathered' = Gathered \cup us
<1>1. PremiumURLs' \subseteq PremiumURLs \cup us
  <2>. SUFFICES ASSUME NEW p \in Providers, NEW u \in fate'[p].urls
                PROVE  u \in PremiumURLs \cup us
    BY DEF PremiumURLs
  <2>. QED
    BY DEF PremiumURLs
<1>2. PremiumURLs \cup us \subseteq PremiumURLs'
  BY DEF PremiumURLs
<1>. QED
  BY <1>1, <1>2 DEF Gathered

LEMMA UrlsTyped ==
  ASSUME Typed
  PROVE  PremiumURLs \subseteq URLs /\ Gathered \subseteq URLs
<1>1. \A p \in Providers : fate[p].urls \subseteq URLs
  BY DEF Typed, Fates
<1>. QED
  BY <1>1 DEF PremiumURLs, Gathered, Typed, TypeOK

-----------------------------------------------------------------------------
LEMMA InitInv == Init => SearchInv
<1>. SUFFICES ASSUME Init PROVE SearchInv
  OBVIOUS
<1>. USE DEF Stage!Init, Stage!NotYet
<1>1. /\ \A p \in Providers : fate[p] = Untouched
      /\ PremiumURLs = {}
  BY DEF Init, PremiumURLs, Untouched, AtDoor
<1>2. Untouched \in Fates
  BY DEF Untouched, AtDoor, Fates, Outcomes, Reasons
<1>3. Typed
  <2>1. /\ seen \in [Threads -> SUBSET URLs]
        /\ premium \in [Threads -> SUBSET URLs]
        /\ admitted \in [Threads -> Nat] /\ admitted["first"] = 0
        /\ cur \in [Threads -> Configured \cup {NoProvider}]
        /\ lp \in [Threads -> {"idle", "head", "selected", "door", "calling",
                              "finished"}]
        /\ fate \in [Providers -> Fates]
    BY <1>2 DEF Init, Threads
  <2>2. cache \subseteq SUBSET URLs
    BY DEF Init
  <2>3. /\ parent = "live" /\ due \in BOOLEAN /\ label = "not_yet"
        /\ effect = "none" /\ pc = "cache" /\ sx = {} /\ used = {}
        /\ reply.outcome = "none" /\ reply.urls = {}
    BY DEF Init, NoReply
  <2>. QED
    BY <2>1, <2>2, <2>3 DEF Typed, TypeOK
<1>4. Control
  BY DEF Init, Control, NoReply, Threads
<1>5. Doors /\ Fated
  BY <1>1 DEF Init, Doors, Threads, Fated, Coherent, Untouched,
     AtDoor, Asked, Structural
<1>6. Diagnosed /\ Wanted /\ Guaranteed
  BY DEF Init, Diagnosed, Wanted, Guaranteed, Threads
<1>7. Counted
  <2>1. ~\E p \in Providers : Returned(p)
    <3>1. \A p \in Providers : fate[p].outcome = ""
      BY <1>1 DEF Untouched, AtDoor, Init
    <3>. QED
      BY <3>1 DEF Returned
  <2>2. admitted["first"] = 0 /\ admitted["main"] = 0
    BY DEF Init, Threads
  <2>. QED
    BY <2>1, <2>2 DEF Counted
<1>8. Kept
  BY <1>1 DEF Init, Kept, Threads
<1>9. Claims
  BY DEF Init, Claims, NoReply, NoResultsIsExhaustion, FailureHasCause,
     OutcomeTellsSources
<1>. QED
  BY <1>3, <1>4, <1>5, <1>6, <1>7, <1>8, <1>9 DEF SearchInv

(* The context may end at any time; what is claimed of a live request is   *)
(* then claimed no more.                                                   *)
LEMMA ContextInv == SearchInv /\ ContextStep => SearchInv'
<1>. SUFFICES ASSUME SearchInv, ContextStep PROVE SearchInv'
  OBVIOUS
<1>1. /\ UNCHANGED <<label, effect, pc, cache, sx, reply, seen, premium, used,
                     admitted, lp, cur, events, fate>>
      /\ parent' \in {"live"} \cup Stage!Ends /\ due' \in BOOLEAN
      /\ parent' = "live" => parent = "live"
  BY DEF ContextStep, Stage!DeadlinePasses, Stage!ContextEnds, loopVars,
     SearchInv, Typed, TypeOK
<1>2. Typed'
  BY <1>1 DEF SearchInv, Typed, TypeOK
<1>3. Control' /\ Guaranteed'
  BY <1>1 DEF SearchInv, Control, Guaranteed, Asked
<1>4. Doors'
  BY <1>1 DEF SearchInv, Doors, Asked
<1>5. Fated' /\ Wanted' /\ Counted' /\ Kept'
  <2>1. PremiumURLs' = PremiumURLs /\ Gathered' = Gathered
    BY <1>1, UrlsKept
  <2>2. \A p \in Providers : Returned(p)' <=> Returned(p)
    BY <1>1 DEF Returned, Asked
  <2>3. Fated' /\ Wanted' /\ Kept'
    BY <1>1, <2>1 DEF SearchInv, Fated, Wanted, Kept, Coherent
  <2>4. Counted'
    BY <1>1, <2>2 DEF SearchInv, Counted
  <2>. QED
    BY <2>3, <2>4
<1>6. Diagnosed'
  BY <1>1 DEF SearchInv, Diagnosed, Diagnostics, Known, EventOf, Skipped,
     Called, Asked
<1>7. Claims'
  BY <1>1 DEF SearchInv, Claims, NoResultsIsExhaustion, FailureHasCause,
     OutcomeTellsSources, Exhaustion, Exhausted, Asked, PremiumURLs
<1>. QED
  BY <1>2, <1>3, <1>4, <1>5, <1>6, <1>7 DEF SearchInv

LEMMA StutterInv == SearchInv /\ UNCHANGED vars => SearchInv'
<1>. SUFFICES ASSUME SearchInv, UNCHANGED vars PROVE SearchInv'
  OBVIOUS
<1>. USE DEF vars, stageVars, loopVars
<1>1. PremiumURLs' = PremiumURLs /\ Gathered' = Gathered
  BY UrlsKept
<1>2. Typed' /\ Control' /\ Guaranteed'
  BY DEF SearchInv, Typed, TypeOK, Control, Guaranteed, Asked
<1>3. Doors'
  BY DEF SearchInv, Doors, Asked
<1>4. Fated' /\ Wanted' /\ Kept'
  BY <1>1 DEF SearchInv, Fated, Wanted, Kept, Coherent
<1>5. Counted' /\ Diagnosed'
  BY DEF SearchInv, Counted, Diagnosed, Diagnostics, Returned, Asked, Known, EventOf,
     Skipped, Called
<1>6. Claims'
  BY <1>1 DEF SearchInv, Claims, NoResultsIsExhaustion, FailureHasCause,
     OutcomeTellsSources, Exhaustion, Exhausted, Asked
<1>. QED
  BY <1>2, <1>3, <1>4, <1>5, <1>6 DEF SearchInv

-----------------------------------------------------------------------------
(* premiumLoop.                                                            *)

(* With no candidate left and nobody at a door, everybody has answered. *)
LEMMA NobodyLeft ==
  ASSUME SearchInv, Candidates = {}, parent = "live",
         \A t \in Threads : lp[t] \notin {"selected", "door"}
  PROVE  /\ \A p \in Configured : fate[p].door # "unasked"
         /\ \/ \E p \in Providers : Asked(p)
            \/ \A p \in Configured : fate[p].door \in {"open", "busy"}
<1>1. \A p \in Configured : p \in used /\ p \in Providers
  BY ProvidersAssumption DEF Candidates
<1>2. \A p \in Configured : fate[p].door # "unasked"
  BY <1>1 DEF SearchInv, Doors
<1>3. \A p \in Configured :
        fate[p].door \in {"unasked", "open", "busy", "admitted"}
  BY <1>1 DEF SearchInv, Typed, Fates
<1>. QED
  BY <1>1, <1>2, <1>3 DEF Asked

LEMMA LoopEndsInv ==
  ASSUME SearchInv, NEW t \in Threads, LoopEnds(t)
  PROVE  SearchInv'
<1>1. /\ lp[t] = "head" /\ lp' = [lp EXCEPT ![t] = "finished"]
      /\ UNCHANGED <<parent, due, label, effect, pc, cache, sx, reply, seen,
                     premium, used, admitted, cur, events, fate>>
  BY DEF LoopEnds, stageVars
<1>2. /\ t = "first" => pc \in {"stage", "join"} /\ lp["main"] = "idle"
      /\ t = "main" => pc = "topup" /\ lp["first"] = "finished"
      /\ \A u \in Threads \ {t} : lp[u] \in {"idle", "finished"}
  BY <1>1, Running DEF SearchInv
<1>3. /\ lp'[t] = "finished" /\ \A u \in Threads \ {t} : lp'[u] = lp[u]
      /\ lp' \in [Threads -> {"idle", "head", "selected", "door", "calling",
                             "finished"}]
  BY <1>1 DEF SearchInv, Typed, TypeOK
<1>4. PremiumURLs' = PremiumURLs /\ Gathered' = Gathered
  BY <1>1, UrlsKept
<1>5. Typed'
  BY <1>1, <1>3 DEF SearchInv, Typed, TypeOK
<1>6. Control'
  BY <1>1, <1>2, <1>3 DEF SearchInv, Control, Threads
<1>7. Doors'
  BY <1>1, <1>3 DEF SearchInv, Doors, Asked
<1>8. Fated' /\ Kept' /\ Wanted'
  BY <1>1, <1>3, <1>4 DEF SearchInv, Fated, Kept, Wanted, Coherent, Threads
<1>9. Diagnosed' /\ Counted'
  <2>1. Diagnosed'
    BY <1>1 DEF SearchInv, Diagnosed, Diagnostics, Asked, Known, EventOf,
       Skipped, Called
  <2>2. \A p \in Providers : Returned(p)' <=> Returned(p)
    BY <1>1 DEF Returned, Asked
  <2>3. Counted'
    BY <1>1, <1>2, <1>3, <2>2 DEF SearchInv, Counted, Threads
  <2>. QED
    BY <2>1, <2>3
<1>10. Guaranteed'
  <2>1. CASE t = "main"
    BY <1>1, <1>2, <2>1 DEF SearchInv, Guaranteed, Asked
  <2>2. CASE t = "first" /\ parent = "live"
    <3>1. \/ admitted["first"] > 0
          \/ Candidates = {}
      BY <1>1, <2>2 DEF LoopEnds, MayGoOn, WantsMore, Limit, SearchInv, Typed,
         TypeOK, Threads
    <3>2. CASE admitted["first"] > 0
      BY <1>1, <3>2 DEF SearchInv, Counted, Returned, Guaranteed, Asked
    <3>3. CASE Candidates = {}
      <4>1. \A u \in Threads : lp[u] \notin {"selected", "door"}
        BY <1>1, <1>2
      <4>. QED
        BY <1>1, <2>2, <3>3, <4>1, NobodyLeft DEF Guaranteed, Asked
    <3>. QED
      BY <3>1, <3>2, <3>3
  <2>. QED
    BY <1>1, <2>1, <2>2 DEF Guaranteed, Threads
<1>11. Claims'
  BY <1>1, <1>4 DEF SearchInv, Claims, NoResultsIsExhaustion, FailureHasCause,
     OutcomeTellsSources, Exhaustion, Exhausted, Asked
<1>. QED
  BY <1>5, <1>6, <1>7, <1>8, <1>9, <1>10, <1>11 DEF SearchInv

LEMMA SelectInv ==
  ASSUME SearchInv, NEW t \in Threads, NEW p \in Providers, Select(t, p)
  PROVE  SearchInv'
<1>1. /\ lp[t] = "head" /\ lp' = [lp EXCEPT ![t] = "selected"]
      /\ cur' = [cur EXCEPT ![t] = p] /\ used' = used \cup {p}
      /\ p \in Configured /\ p \notin used /\ MayGoOn(t)
      /\ UNCHANGED <<parent, due, label, effect, pc, cache, sx, reply, seen,
                     premium, admitted, events, fate>>
  BY DEF Select, stageVars, Candidates
<1>2. /\ t = "first" => pc \in {"stage", "join"} /\ lp["main"] = "idle"
      /\ t = "main" => pc = "topup" /\ lp["first"] = "finished"
      /\ \A u \in Threads \ {t} : lp[u] \in {"idle", "finished"}
  BY <1>1, Running DEF SearchInv
<1>3. /\ lp'[t] = "selected" /\ \A u \in Threads \ {t} : lp'[u] = lp[u]
      /\ cur'[t] = p /\ \A u \in Threads \ {t} : cur'[u] = cur[u]
      /\ lp' \in [Threads -> {"idle", "head", "selected", "door", "calling",
                             "finished"}]
      /\ cur' \in [Threads -> Configured \cup {NoProvider}]
      /\ used' \subseteq Configured
  BY <1>1 DEF SearchInv, Typed, TypeOK
<1>4. PremiumURLs' = PremiumURLs /\ Gathered' = Gathered
  BY <1>1, UrlsKept
<1>5. Typed'
  BY <1>1, <1>3 DEF SearchInv, Typed, TypeOK
<1>6. Control'
  BY <1>1, <1>2, <1>3 DEF SearchInv, Control, Threads
<1>7. Doors'
  <2>1. fate[p] = Untouched
    BY <1>1 DEF SearchInv, Doors
  <2>2. \A u \in Threads : lp'[u] \in {"selected", "door", "calling"} => u = t
    BY <1>2, <1>3
  <2>3. \A q \in used' : q = p \/ q \in used
    BY <1>1
  <2>4. \A u \in Threads : lp[u] \notin {"selected", "door", "calling"}
    BY <1>1, <1>2
  <2>5. \A u \in Threads :
          /\ lp'[u] \in {"selected", "door"} =>
               cur'[u] \in used' /\ fate'[cur'[u]] = Untouched
          /\ lp'[u] = "calling" =>
               cur'[u] \in used' /\ fate'[cur'[u]] = Waiting
    BY <1>1, <1>3, <2>1, <2>2
  <2>6. \A q \in Providers \ used' : fate'[q] = Untouched
    BY <1>1 DEF SearchInv, Doors
  <2>7. pc' # "cache"
    BY <1>1, <1>2 DEF Threads
  <2>8. \A q \in used' : fate'[q].door = "unasked" =>
          \/ parent' # "live"
          \/ \E u \in Threads : lp'[u] \in {"selected", "door"} /\ cur'[u] = q
    BY <1>1, <1>3, <2>3, <2>4 DEF SearchInv, Doors
  <2>9. \A q \in Providers : Asked(q)' /\ fate'[q].outcome = "" =>
          \E u \in Threads : lp'[u] = "calling" /\ cur'[u] = q
    BY <1>1, <2>4 DEF SearchInv, Doors, Asked
  <2>. QED
    BY <2>5, <2>6, <2>7, <2>8, <2>9 DEF Doors
<1>8. Fated' /\ Kept'
  BY <1>1, <1>4 DEF SearchInv, Fated, Kept, Coherent
<1>9. Wanted'
  <2>1. CASE t = "main"
    <3>1. Cardinality(seen["main"]) < Target
      BY <1>1, <2>1 DEF MayGoOn, WantsMore, Limit, SearchInv, Typed, TypeOK,
         Threads
    <3>2. seen["main"] = Gathered
      BY <1>2, <2>1 DEF SearchInv, Kept
    <3>. QED
      BY <1>4, <3>1, <3>2 DEF Wanted
  <2>2. CASE t = "first"
    BY <1>2, <1>3, <2>2 DEF Wanted, Threads
  <2>. QED
    BY <2>1, <2>2 DEF Threads
<1>10. Diagnosed'
  BY <1>1, <1>2 DEF SearchInv, Diagnosed, Diagnostics, Asked, Known, EventOf,
     Skipped, Called
<1>11. Counted'
  <2>1. t = "first" => admitted["first"] = 0
    BY <1>1 DEF MayGoOn, Limit, SearchInv, Typed, TypeOK, Threads
  <2>. QED
    BY <1>1, <1>2, <1>3, <2>1 DEF SearchInv, Counted, Threads, Returned, Asked
<1>12. Guaranteed'
  BY <1>1, <1>3 DEF SearchInv, Guaranteed, Asked, Threads
<1>13. Claims'
  BY <1>1, <1>4 DEF SearchInv, Claims, NoResultsIsExhaustion, FailureHasCause,
     OutcomeTellsSources, Exhaustion, Exhausted, Asked
<1>. QED
  BY <1>5, <1>6, <1>7, <1>8, <1>9, <1>10, <1>11, <1>12, <1>13 DEF SearchInv

LEMMA RecheckInv ==
  ASSUME SearchInv, NEW t \in Threads, Recheck(t)
  PROVE  SearchInv'
<1>1. /\ lp[t] = "selected"
      /\ lp' = [lp EXCEPT ![t] = IF parent = "live" THEN "door" ELSE "finished"]
      /\ UNCHANGED <<parent, due, label, effect, pc, cache, sx, reply, seen,
                     premium, used, admitted, cur, events, fate>>
  BY DEF Recheck, stageVars
<1>2. /\ t = "first" => pc \in {"stage", "join"} /\ lp["main"] = "idle"
      /\ t = "main" => pc = "topup" /\ lp["first"] = "finished"
      /\ \A u \in Threads \ {t} : lp[u] \in {"idle", "finished"}
  BY <1>1, Running DEF SearchInv
<1>3. /\ parent = "live" => lp'[t] = "door"
      /\ parent # "live" => lp'[t] = "finished"
      /\ \A u \in Threads \ {t} : lp'[u] = lp[u]
      /\ lp' \in [Threads -> {"idle", "head", "selected", "door", "calling",
                             "finished"}]
  BY <1>1 DEF SearchInv, Typed, TypeOK
<1>4. PremiumURLs' = PremiumURLs /\ Gathered' = Gathered
  BY <1>1, UrlsKept
<1>5. Typed'
  BY <1>1, <1>3 DEF SearchInv, Typed, TypeOK
<1>6. Control'
  BY <1>1, <1>2, <1>3 DEF SearchInv, Control, Threads
<1>7. Doors'
  <2>1. CASE parent = "live"
    <3>1. \A u \in Threads :
            lp'[u] \in {"selected", "door"} <=> lp[u] \in {"selected", "door"}
      BY <1>1, <1>3, <2>1
    <3>2. \A u \in Threads : lp'[u] = "calling" <=> lp[u] = "calling"
      BY <1>1, <1>3, <2>1
    <3>3. \A u \in Threads :
            /\ lp'[u] \in {"selected", "door"} =>
                 cur'[u] \in used' /\ fate'[cur'[u]] = Untouched
            /\ lp'[u] = "calling" =>
                 cur'[u] \in used' /\ fate'[cur'[u]] = Waiting
      BY <1>1, <3>1, <3>2 DEF SearchInv, Doors
    <3>4. \A p \in Providers \ used' : fate'[p] = Untouched
      BY <1>1 DEF SearchInv, Doors
    <3>5. pc' = "cache" => used' = {}
      BY <1>1 DEF SearchInv, Doors
    <3>6. \A p \in used' : fate'[p].door = "unasked" =>
            \E u \in Threads : lp'[u] \in {"selected", "door"} /\ cur'[u] = p
      <4>1. SUFFICES ASSUME NEW p \in used, fate[p].door = "unasked"
                     PROVE  \E u \in Threads : /\ lp'[u] \in {"selected", "door"}
                                               /\ cur'[u] = p
        BY <1>1
      <4>2. PICK u \in Threads : lp[u] \in {"selected", "door"} /\ cur[u] = p
        BY <2>1, <4>1 DEF SearchInv, Doors
      <4>. QED
        BY <1>1, <3>1, <4>2
    <3>7. \A p \in Providers : Asked(p)' /\ fate'[p].outcome = "" =>
            \E u \in Threads : lp'[u] = "calling" /\ cur'[u] = p
      BY <1>1, <3>2 DEF SearchInv, Doors, Asked
    <3>. QED
      BY <3>3, <3>4, <3>5, <3>6, <3>7 DEF Doors
  <2>2. CASE parent # "live"
    BY <1>1, <1>3, <2>2 DEF SearchInv, Doors, Asked
  <2>. QED
    BY <2>1, <2>2
<1>8. Fated' /\ Kept' /\ Wanted'
  BY <1>1, <1>2, <1>3, <1>4 DEF SearchInv, Fated, Kept, Wanted, Coherent,
     Threads
<1>9. Diagnosed' /\ Counted'
  <2>1. Diagnosed'
    BY <1>1 DEF SearchInv, Diagnosed, Diagnostics, Asked, Known, EventOf,
       Skipped, Called
  <2>2. \A p \in Providers : Returned(p)' <=> Returned(p)
    BY <1>1 DEF Returned, Asked
  <2>3. Counted'
    BY <1>1, <1>2, <1>3, <2>2 DEF SearchInv, Counted, Threads
  <2>. QED
    BY <2>1, <2>3
<1>10. Guaranteed'
  BY <1>1, <1>3 DEF SearchInv, Guaranteed, Asked, Threads
<1>11. Claims'
  BY <1>1, <1>4 DEF SearchInv, Claims, NoResultsIsExhaustion, FailureHasCause,
     OutcomeTellsSources, Exhaustion, Exhausted, Asked
<1>. QED
  BY <1>5, <1>6, <1>7, <1>8, <1>9, <1>10, <1>11 DEF SearchInv

(* A provider's fate is settled, or its call begins: nothing else about    *)
(* who is where, and nobody else's fate, changes.                          *)
LEMMA FateSet ==
  ASSUME SearchInv, NEW t \in Threads, lp[t] \in {"door", "calling"},
         NEW f \in Fates, f.door # "unasked",
         NEW l \in {"head", "calling"}, l = "calling" => f = Waiting,
         l = "head" => f.door # "admitted" \/ f.outcome # "",
         fate' = [fate EXCEPT ![cur[t]] = f], lp' = [lp EXCEPT ![t] = l],
         UNCHANGED <<parent, pc, cache, sx, reply, used, cur>>
  PROVE  /\ cur[t] \in Configured /\ cur[t] \in Providers
         /\ fate' \in [Providers -> Fates] /\ fate'[cur[t]] = f
         /\ \A p \in Providers \ {cur[t]} : fate'[p] = fate[p]
         /\ lp' \in [Threads -> {"idle", "head", "selected", "door", "calling",
                                "finished"}]
         /\ lp'[t] = l /\ \A u \in Threads \ {t} : lp'[u] = lp[u]
         /\ pc \in {"stage", "join", "topup"}
         /\ t = "first" => pc \in {"stage", "join"} /\ lp["main"] = "idle"
         /\ t = "main" => pc = "topup" /\ lp["first"] = "finished"
         /\ Control' /\ Doors'
<1>. DEFINE c == cur[t]
<1>1. c \in used /\ c \in Configured /\ c \in Providers
  BY Selected DEF SearchInv
<1>2. /\ fate' \in [Providers -> Fates] /\ fate'[c] = f
      /\ \A p \in Providers \ {c} : fate'[p] = fate[p]
  BY <1>1 DEF SearchInv, Typed
<1>3. /\ lp'[t] = l /\ \A u \in Threads \ {t} : lp'[u] = lp[u]
      /\ lp' \in [Threads -> {"idle", "head", "selected", "door", "calling",
                             "finished"}]
  BY DEF SearchInv, Typed, TypeOK
<1>4. /\ t = "first" => pc \in {"stage", "join"} /\ lp["main"] = "idle"
      /\ t = "main" => pc = "topup" /\ lp["first"] = "finished"
      /\ \A u \in Threads \ {t} : lp[u] \in {"idle", "finished"}
      /\ pc \in {"stage", "join", "topup"}
  BY Running DEF SearchInv
<1>5. Control'
  BY <1>3, <1>4 DEF SearchInv, Control, Threads
<1>6. Doors'
  <2>1. \A u \in Threads \ {t} : lp'[u] \in {"idle", "finished"}
    BY <1>3, <1>4
  <2>2. \A u \in Threads :
          /\ lp'[u] \in {"selected", "door"} =>
               cur'[u] \in used' /\ fate'[cur'[u]] = Untouched
          /\ lp'[u] = "calling" =>
               cur'[u] \in used' /\ fate'[cur'[u]] = Waiting
    BY <1>1, <1>2, <1>3, <2>1
  <2>3. \A p \in Providers \ used' : fate'[p] = Untouched
    BY <1>1, <1>2 DEF SearchInv, Doors
  <2>4. pc' = "cache" => used' = {}
    BY <1>4
  <2>5. \A p \in used' : fate'[p].door = "unasked" => parent' # "live"
    <3>1. SUFFICES ASSUME NEW p \in used, fate'[p].door = "unasked",
                          parent = "live"
                   PROVE  FALSE
      OBVIOUS
    <3>2. p # c /\ p \in Providers
      BY <1>2, <3>1, ProvidersAssumption DEF SearchInv, Typed, TypeOK
    <3>3. fate[p].door = "unasked"
      BY <1>2, <3>1, <3>2
    <3>4. PICK u \in Threads : lp[u] \in {"selected", "door"} /\ cur[u] = p
      BY <3>1, <3>3 DEF SearchInv, Doors
    <3>5. u = t
      BY <1>4, <3>4
    <3>. QED
      BY <3>2, <3>4, <3>5
  <2>6. \A p \in Providers : Asked(p)' /\ fate'[p].outcome = "" =>
          \E u \in Threads : lp'[u] = "calling" /\ cur'[u] = p
    <3>1. SUFFICES ASSUME NEW p \in Providers, fate'[p].door = "admitted",
                          fate'[p].outcome = ""
                   PROVE  \E u \in Threads : lp'[u] = "calling" /\ cur'[u] = p
      BY DEF Asked
    <3>2. CASE p = c
      <4>1. l = "calling"
        BY <1>2, <3>1, <3>2
      <4>. QED
        BY <1>3, <3>2, <4>1
    <3>3. CASE p # c
      <4>1. fate[p].door = "admitted" /\ fate[p].outcome = ""
        BY <1>2, <3>1, <3>3
      <4>2. PICK u \in Threads : lp[u] = "calling" /\ cur[u] = p
        BY <4>1 DEF SearchInv, Doors, Asked
      <4>3. u # t
        BY <3>3, <4>2
      <4>. QED
        BY <1>4, <4>2, <4>3
    <3>. QED
      BY <3>2, <3>3
  <2>. QED
    BY <2>2, <2>3, <2>4, <2>5, <2>6 DEF Doors
<1>. QED
  BY <1>1, <1>2, <1>3, <1>4, <1>5, <1>6

(* A provider that becomes known is added to the diagnostics. *)
LEMMA EventAdded ==
  ASSUME NEW c \in Providers, Diagnosed, pc' = pc, pc \notin {"cache", "done"},
         \A p \in Providers \ {c} : fate'[p] = fate[p],
         Known(c)', ~Known(c), events' = events \cup {EventOf(c)'}
  PROVE  Diagnosed'
<1>1. \A p \in Providers \ {c} :
        (Known(p)' <=> Known(p)) /\ EventOf(p)' = EventOf(p)
  BY DEF Known, EventOf, Asked, Skipped, Called
<1>2. events = {EventOf(p) : p \in {q \in Providers : Known(q)}}
  BY DEF Diagnosed, Diagnostics
<1>. DEFINE S == {EventOf(p)' : p \in {q \in Providers : Known(q)'}}
<1>3. events' \subseteq S
  BY <1>1, <1>2
<1>4. S \subseteq events'
  <2>1. SUFFICES ASSUME NEW p \in Providers, Known(p)' PROVE EventOf(p)' \in events'
    OBVIOUS
  <2>2. CASE p = c
    BY <2>2
  <2>3. CASE p # c
    BY <1>1, <1>2, <2>1, <2>3
  <2>. QED
    BY <2>2, <2>3
<1>5. events' = S
  BY <1>3, <1>4
<1>. QED
  BY <1>5 DEF Diagnosed, Diagnostics

(* While the request is pending, it has claimed nothing. *)
LEMMA NothingClaimed ==
  ASSUME reply.outcome = "none"
  PROVE  Claims
BY DEF Claims, NoResultsIsExhaustion, FailureHasCause, OutcomeTellsSources

LEMMA RefusedInv ==
  ASSUME SearchInv, NEW t \in Threads, NEW d \in {"open", "busy"},
         NEW r \in Reasons, Refused(t, d, r)
  PROVE  SearchInv'
<1>. DEFINE f == AtDoor(d, r)
            why == IF d = "open" THEN "breaker_open" ELSE "breaker_contention"
<1>1. /\ lp[t] = "door" /\ lp' = [lp EXCEPT ![t] = "head"]
      /\ events' = events \cup {Skipped(cur[t], why, r)}
      /\ UNCHANGED <<parent, due, label, effect, pc, cache, sx, reply, seen,
                     premium, used, admitted, cur>>
  BY DEF Refused, stageVars
<1>2. cur[t] \in Configured /\ cur[t] \in Providers /\ fate[cur[t]] = Untouched
  BY <1>1, Selected DEF SearchInv, Doors
<1>3. PICK c \in Providers : c = cur[t]
  BY <1>2
<1>4. /\ f \in Fates /\ f.door = d /\ f.outcome = "" /\ f.reason = r
      /\ f.urls = {}
  BY DEF AtDoor, Fates, Outcomes
<1>5. fate' = [fate EXCEPT ![cur[t]] = f]
  BY DEF Refused
<1>6. /\ fate' \in [Providers -> Fates] /\ fate'[c] = f
      /\ \A p \in Providers \ {c} : fate'[p] = fate[p]
      /\ lp' \in [Threads -> {"idle", "head", "selected", "door", "calling",
                             "finished"}]
      /\ lp'[t] = "head" /\ \A u \in Threads \ {t} : lp'[u] = lp[u]
      /\ pc \in {"stage", "join", "topup"}
      /\ t = "first" => pc \in {"stage", "join"} /\ lp["main"] = "idle"
      /\ t = "main" => pc = "topup" /\ lp["first"] = "finished"
      /\ Control' /\ Doors'
  <2>1. f.door # "unasked" /\ f.door # "admitted"
    BY <1>4
  <2>. QED
    BY <1>1, <1>3, <1>4, <1>5, <2>1, FateSet
<1>7. fate[c].urls = {} /\ fate[c].outcome = "" /\ fate[c].door = "unasked"
  BY <1>2, <1>3, Parts
<1>8. PremiumURLs' = PremiumURLs /\ Gathered' = Gathered
  <2>1. \A p \in Providers : fate'[p].urls = fate[p].urls
    BY <1>4, <1>6, <1>7
  <2>. QED
    BY <1>1, <2>1, UrlsKept
<1>9. Typed'
  BY <1>1, <1>6 DEF SearchInv, Typed, TypeOK
<1>10. Fated'
  <2>1. Coherent(f)
    BY <1>4 DEF Coherent
  <2>2. \A p \in Providers : Coherent(fate'[p])
    BY <1>6, <2>1 DEF SearchInv, Fated
  <2>. QED
    BY <2>2 DEF Fated
<1>11. Diagnosed'
  <2>1. Known(c)' /\ ~Known(c)
    BY <1>2, <1>3, <1>4, <1>6, <1>7 DEF Known, Asked
  <2>2. EventOf(c)' = Skipped(c, why, r)
    BY <1>2, <1>3, <1>4, <1>6 DEF EventOf, Skipped
  <2>3. events' = events \cup {EventOf(c)'}
    BY <1>1, <1>3, <2>2
  <2>. QED
    BY <1>1, <1>6, <2>1, <2>3, EventAdded DEF SearchInv
<1>12. Counted'
  <2>1. \A p \in Providers : Returned(p)' <=> Returned(p)
    BY <1>4, <1>6, <1>7 DEF Returned, Asked
  <2>. QED
    BY <1>1, <1>6, <2>1 DEF SearchInv, Counted, Threads
<1>13. Kept' /\ Wanted'
  BY <1>1, <1>6, <1>8 DEF SearchInv, Kept, Wanted, Threads
<1>14. Guaranteed'
  <2>1. \A p \in Providers : Asked(p) => Asked(p)'
    BY <1>6, <1>7 DEF Asked
  <2>2. \A p \in Configured : fate[p].door \in {"open", "busy"} =>
          fate'[p].door \in {"open", "busy"}
    BY <1>4, <1>6, ProvidersAssumption
  <2>. QED
    BY <1>1, <1>6, <2>1, <2>2 DEF SearchInv, Guaranteed, Threads
<1>15. Claims'
  BY <1>6, NothingClaimed DEF Control, SearchInv, Claims,
     NoResultsIsExhaustion, FailureHasCause, OutcomeTellsSources
<1>. QED
  BY <1>6, <1>9, <1>10, <1>11, <1>12, <1>13, <1>14, <1>15 DEF SearchInv

LEMMA AdmitInv ==
  ASSUME SearchInv, NEW t \in Threads, Admit(t)
  PROVE  SearchInv'
<1>1. /\ lp[t] = "door" /\ lp' = [lp EXCEPT ![t] = "calling"]
      /\ UNCHANGED <<parent, due, label, effect, pc, cache, sx, reply, seen,
                     premium, used, admitted, cur, events>>
  BY DEF Admit, stageVars
<1>2. cur[t] \in Configured /\ cur[t] \in Providers /\ fate[cur[t]] = Untouched
  BY <1>1, Selected DEF SearchInv, Doors
<1>3. PICK c \in Providers : c = cur[t]
  BY <1>2
<1>4. Waiting \in Fates
  BY DEF Waiting, AtDoor, Fates, Outcomes, Reasons
<1>5. fate' = [fate EXCEPT ![cur[t]] = Waiting]
  BY DEF Admit, Waiting
<1>6. /\ fate' \in [Providers -> Fates] /\ fate'[c] = Waiting
      /\ \A p \in Providers \ {c} : fate'[p] = fate[p]
      /\ lp' \in [Threads -> {"idle", "head", "selected", "door", "calling",
                             "finished"}]
      /\ lp'[t] = "calling" /\ \A u \in Threads \ {t} : lp'[u] = lp[u]
      /\ pc \in {"stage", "join", "topup"}
      /\ t = "first" => pc \in {"stage", "join"} /\ lp["main"] = "idle"
      /\ t = "main" => pc = "topup" /\ lp["first"] = "finished"
      /\ Control' /\ Doors'
  <2>1. Waiting.door # "unasked"
    BY DEF Waiting, AtDoor
  <2>. QED
    BY <1>1, <1>3, <1>4, <1>5, <2>1, FateSet
<1>7. /\ fate[c].urls = {} /\ fate[c].outcome = "" /\ fate[c].door = "unasked"
      /\ fate'[c].urls = {} /\ fate'[c].outcome = ""
      /\ fate'[c].door = "admitted"
  BY <1>2, <1>3, <1>6, Parts
<1>8. PremiumURLs' = PremiumURLs /\ Gathered' = Gathered
  <2>1. \A p \in Providers : fate'[p].urls = fate[p].urls
    BY <1>4, <1>6, <1>7
  <2>. QED
    BY <1>1, <2>1, UrlsKept
<1>9. Typed'
  BY <1>1, <1>6 DEF SearchInv, Typed, TypeOK
<1>10. Fated'
  <2>1. Coherent(Waiting)
    BY DEF Coherent, Waiting, AtDoor, Structural
  <2>2. \A p \in Providers : Coherent(fate'[p])
    BY <1>6, <2>1 DEF SearchInv, Fated
  <2>. QED
    BY <2>2 DEF Fated
<1>11. Diagnosed'
  <2>1. ~Known(c) /\ ~Known(c)'
    BY <1>2, <1>3, <1>7 DEF Known, Asked
  <2>2. \A p \in Providers \ {c} :
          (Known(p)' <=> Known(p)) /\ EventOf(p)' = EventOf(p)
    BY <1>6 DEF Known, EventOf, Asked, Skipped, Called
  <2>3. {EventOf(p)' : p \in {q \in Providers : Known(q)'}}
          = {EventOf(p) : p \in {q \in Providers : Known(q)}}
    BY <2>1, <2>2
  <2>. QED
    BY <1>1, <2>3 DEF SearchInv, Diagnosed, Diagnostics
<1>12. Counted'
  <2>1. \A p \in Providers : Returned(p)' <=> Returned(p)
    BY <1>4, <1>6, <1>7 DEF Returned, Asked
  <2>. QED
    BY <1>1, <1>6, <2>1 DEF SearchInv, Counted, Threads
<1>13. Kept' /\ Wanted'
  BY <1>1, <1>6, <1>8 DEF SearchInv, Kept, Wanted, Threads
<1>14. Guaranteed'
  BY <1>7 DEF Guaranteed, Asked
<1>15. Claims'
  BY <1>6, NothingClaimed DEF Control, SearchInv, Claims,
     NoResultsIsExhaustion, FailureHasCause, OutcomeTellsSources
<1>. QED
  BY <1>6, <1>9, <1>10, <1>11, <1>12, <1>13, <1>14, <1>15 DEF SearchInv

(* What a call can come back with. *)
Sound(o, r, us) ==
  /\ o \in Outcomes \ {""} /\ r \in Reasons /\ us \subseteq URLs
  /\ us # {} <=> o = "success"
  /\ r \in Structural => o \in {"auth", "quota"}
  /\ o = "empty" => r = ""

LEMMA CallEndsInv ==
  ASSUME SearchInv, NEW t \in Threads, NEW o, NEW r, NEW us, Sound(o, r, us),
         CallEnds(t, o, r, us)
  PROVE  SearchInv'
<1>. DEFINE f == [door |-> "admitted", outcome |-> o, reason |-> r, urls |-> us]
<1>1. /\ lp[t] = "calling" /\ lp' = [lp EXCEPT ![t] = "head"]
      /\ events' = events \cup {Called(cur[t], o, us, r)}
      /\ admitted' = [admitted EXCEPT ![t] = @ + 1]
      /\ premium' = [premium EXCEPT ![t] = @ \cup us]
      /\ seen' = [seen EXCEPT ![t] = @ \cup us]
      /\ UNCHANGED <<parent, due, label, effect, pc, cache, sx, reply, used,
                     cur>>
  BY DEF CallEnds, stageVars
<1>2. cur[t] \in Configured /\ cur[t] \in Providers /\ fate[cur[t]] = Waiting
  BY <1>1, Selected DEF SearchInv, Doors
<1>3. PICK c \in Providers : c = cur[t]
  BY <1>2
<1>4. /\ f.door = "admitted" /\ f.outcome = o /\ f.reason = r /\ f.urls = us
      /\ f \in Fates /\ Coherent(f) /\ us \subseteq URLs
  BY DEF Fates, Coherent, Sound
<1>5. fate' = [fate EXCEPT ![cur[t]] = f]
  BY DEF CallEnds
<1>6. /\ fate' \in [Providers -> Fates] /\ fate'[c] = f
      /\ \A p \in Providers \ {c} : fate'[p] = fate[p]
      /\ lp' \in [Threads -> {"idle", "head", "selected", "door", "calling",
                             "finished"}]
      /\ lp'[t] = "head" /\ \A u \in Threads \ {t} : lp'[u] = lp[u]
      /\ pc \in {"stage", "join", "topup"}
      /\ t = "first" => pc \in {"stage", "join"} /\ lp["main"] = "idle"
      /\ t = "main" => pc = "topup" /\ lp["first"] = "finished"
      /\ Control' /\ Doors'
  <2>1. o # "" /\ f.door # "unasked"
    BY <1>4 DEF Sound
  <2>. QED
    BY <1>1, <1>3, <1>4, <1>5, <2>1, FateSet
<1>7. /\ fate[c].urls = {} /\ fate[c].outcome = "" /\ fate[c].door = "admitted"
      /\ fate'[c].urls = us /\ fate'[c].outcome = o /\ fate'[c].reason = r
      /\ fate'[c].door = "admitted"
  BY <1>2, <1>3, <1>4, <1>6, Parts
<1>8. PremiumURLs' = PremiumURLs \cup us /\ Gathered' = Gathered \cup us
  BY <1>1, <1>6, <1>7, UrlsAdded
<1>9. /\ admitted' \in [Threads -> Nat] /\ admitted'[t] = admitted[t] + 1
      /\ \A u \in Threads \ {t} : admitted'[u] = admitted[u]
      /\ t = "first" => admitted["first"] = 0
      /\ premium' \in [Threads -> SUBSET URLs]
      /\ premium'[t] = premium[t] \cup us
      /\ \A u \in Threads \ {t} : premium'[u] = premium[u]
      /\ seen' \in [Threads -> SUBSET URLs]
      /\ seen'[t] = seen[t] \cup us
      /\ \A u \in Threads \ {t} : seen'[u] = seen[u]
  <2>1. /\ admitted \in [Threads -> Nat] /\ premium \in [Threads -> SUBSET URLs]
        /\ seen \in [Threads -> SUBSET URLs]
    BY DEF SearchInv, Typed, TypeOK
  <2>2. t = "first" => admitted["first"] = 0
    BY <1>1 DEF SearchInv, Counted
  <2>3. /\ admitted' \in [Threads -> Nat] /\ admitted'[t] = admitted[t] + 1
        /\ \A u \in Threads \ {t} : admitted'[u] = admitted[u]
    <3>1. PICK n \in Nat : n = admitted[t]
      BY <2>1
    <3>2. n + 1 \in Nat /\ admitted' = [admitted EXCEPT ![t] = n + 1]
      BY <1>1, <3>1
    <3>. QED
      BY <2>1, <3>1, <3>2
  <2>4. /\ premium' \in [Threads -> SUBSET URLs]
        /\ premium'[t] = premium[t] \cup us
        /\ \A u \in Threads \ {t} : premium'[u] = premium[u]
    BY <1>1, <1>4, <2>1
  <2>5. /\ seen' \in [Threads -> SUBSET URLs] /\ seen'[t] = seen[t] \cup us
        /\ \A u \in Threads \ {t} : seen'[u] = seen[u]
    BY <1>1, <1>4, <2>1
  <2>. QED
    BY <2>2, <2>3, <2>4, <2>5
<1>10. Typed'
  <2>1. admitted'["first"] <= 1
    <3>1. admitted["first"] \in Nat /\ admitted["first"] <= 1
      BY DEF SearchInv, Typed, TypeOK, Threads
    <3>2. CASE t = "first"
      <4>1. admitted'["first"] = 0 + 1
        BY <1>9, <3>2
      <4>. QED
        BY <4>1
    <3>3. CASE t # "first"
      BY <1>9, <3>1, <3>3 DEF Threads
    <3>. QED
      BY <3>2, <3>3
  <2>. QED
    BY <1>1, <1>6, <1>9, <2>1 DEF SearchInv, Typed, TypeOK
<1>11. Fated'
  <2>1. \A p \in Providers : Coherent(fate'[p])
    <3>1. Coherent(fate'[c]) /\ \A p \in Providers : Coherent(fate[p])
      BY <1>4, <1>6 DEF SearchInv, Fated
    <3>. QED
      BY <1>6, <3>1
  <2>. QED
    BY <2>1 DEF Fated
<1>12. Diagnosed'
  <2>1. Known(c)' /\ ~Known(c)
    BY <1>2, <1>3, <1>7 DEF Known, Asked, Sound
  <2>2. EventOf(c)' = Called(c, o, us, r)
    BY <1>2, <1>3, <1>7 DEF EventOf, Called
  <2>3. events' = events \cup {EventOf(c)'}
    BY <1>1, <1>3, <2>2
  <2>. QED
    BY <1>1, <1>6, <2>1, <2>3, EventAdded DEF SearchInv
<1>13. Counted'
  <2>1. \E p \in Providers : Returned(p)'
    BY <1>7 DEF Returned, Asked, Sound
  <2>2. admitted'["first"] > 0 \/ admitted'["main"] > 0
    <3>1. admitted[t] \in Nat
      BY DEF SearchInv, Typed, TypeOK
    <3>2. PICK n \in Nat : n = admitted[t]
      BY <3>1
    <3>3. admitted'[t] = n + 1 /\ n + 1 > 0
      BY <1>9, <3>2
    <3>. QED
      BY <3>3 DEF Threads
  <2>. QED
    BY <1>1, <1>6, <1>9, <2>1, <2>2 DEF SearchInv, Counted, Threads
<1>14. Kept'
  BY <1>1, <1>6, <1>8, <1>9 DEF SearchInv, Kept, Threads
<1>15. Wanted'
  BY <1>6 DEF Wanted, Threads
<1>16. Guaranteed'
  BY <1>7 DEF Guaranteed, Asked
<1>17. Claims'
  BY <1>6, NothingClaimed DEF Control, SearchInv, Claims,
     NoResultsIsExhaustion, FailureHasCause, OutcomeTellsSources
<1>. QED
  BY <1>6, <1>10, <1>11, <1>12, <1>13, <1>14, <1>15, <1>16, <1>17
  DEF SearchInv

LEMMA ReturnIsSound ==
  ASSUME NEW t \in Threads, CallReturns(t)
  PROVE  \E o, r, us : Sound(o, r, us) /\ CallEnds(t, o, r, us)
<1>. USE DEF Outcomes, Reasons, Structural
<1>1. CASE CallSucceeds(t)
  <2>1. PICK us : us \in (SUBSET URLs) \ {{}} /\ CallEnds(t, "success", "", us)
    BY <1>1 DEF CallSucceeds
  <2>2. us \subseteq URLs /\ us # {}
    BY <2>1
  <2>3. Sound("success", "", us)
    BY <2>2 DEF Sound
  <2>. QED
    BY <2>1, <2>3
<1>2. CASE CallIsEmpty(t) \/ CallAborted(t)
  <2>1. PICK o \in {"empty", "cancelled"} : CallEnds(t, o, "", {})
    BY <1>2 DEF CallIsEmpty, CallAborted
  <2>2. Sound(o, "", {})
    BY DEF Sound
  <2>. QED
    BY <2>1, <2>2
<1>3. CASE CallFaults(t)
  <2>1. PICK x \in Faults : CallEnds(t, x[1], x[2], {})
    BY <1>3 DEF CallFaults
  <2>2. /\ x[1] \in {"auth", "quota", "not_configured", "network", "panic"}
        /\ x[2] \in Reasons
        /\ x[2] \in Structural => x[1] \in {"auth", "quota"}
    <3>1. \/ x = <<"auth", "credentials_rejected">>
          \/ x = <<"quota", "quota_exhausted">>
          \/ x = <<"auth", "">> \/ x = <<"quota", "">>
          \/ x = <<"not_configured", "">>
          \/ x = <<"network", "">> \/ x = <<"panic", "">>
      BY DEF Faults, Refusals
    <3>2. PICK a, b : x = <<a, b>>
      BY <3>1
    <3>3. x[1] = a /\ x[2] = b
      BY <3>2
    <3>4. \/ a = "auth" /\ b = "credentials_rejected"
          \/ a = "quota" /\ b = "quota_exhausted"
          \/ a \in {"auth", "quota", "not_configured", "network", "panic"} /\ b = ""
      BY <3>1, <3>2
    <3>. QED
      BY <3>3, <3>4
  <2>3. Sound(x[1], x[2], {})
    BY <2>2 DEF Sound
  <2>. QED
    BY <2>1, <2>3
<1>. QED
  BY <1>1, <1>2, <1>3 DEF CallReturns

LEMMA CallReturnsInv ==
  ASSUME SearchInv, NEW t \in Threads, CallReturns(t)
  PROVE  SearchInv'
BY ReturnIsSound, CallEndsInv

LEMMA LoopInv ==
  ASSUME SearchInv, NEW t \in Threads, LoopStep(t) \/ CallReturns(t)
  PROVE  SearchInv'
BY LoopEndsInv, SelectInv, RecheckInv, RefusedInv, AdmitInv, CallReturnsInv
DEF LoopStep, Refusal, Reasons

-----------------------------------------------------------------------------
(* Search.                                                                 *)

(* Steps of Search's own goroutine that decide no provider's fate.         *)
LEMMA FatesKept ==
  ASSUME SearchInv, UNCHANGED <<fate, used, cur>>, parent' = parent,
         \A t \in Threads :
           \/ /\ lp[t] \notin {"selected", "door", "calling"}
              /\ lp'[t] \notin {"selected", "door", "calling"}
           \/ lp'[t] = lp[t],
         pc' # "cache"
  PROVE  /\ Doors' /\ Fated' /\ PremiumURLs' = PremiumURLs
         /\ (\E p \in Providers : Returned(p))' <=>
              \E p \in Providers : Returned(p)
         /\ Diagnostics' = Diagnostics
<1>1. \A t \in Threads :
        /\ lp'[t] \in {"selected", "door"} <=> lp[t] \in {"selected", "door"}
        /\ lp'[t] = "calling" <=> lp[t] = "calling"
  OBVIOUS
<1>2. Fated' /\ PremiumURLs' = PremiumURLs
  BY UrlsKept DEF SearchInv, Fated, Coherent
<1>3. /\ (\E p \in Providers : Returned(p))' <=> \E p \in Providers : Returned(p)
      /\ Diagnostics' = Diagnostics
  BY DEF Diagnostics, Returned, Known, EventOf, Asked, Skipped, Called
<1>4. Doors'
  <2>1. \A u \in Threads :
          /\ lp'[u] \in {"selected", "door"} =>
               cur'[u] \in used' /\ fate'[cur'[u]] = Untouched
          /\ lp'[u] = "calling" =>
               cur'[u] \in used' /\ fate'[cur'[u]] = Waiting
    BY <1>1 DEF SearchInv, Doors
  <2>2. \A p \in Providers \ used' : fate'[p] = Untouched
    BY DEF SearchInv, Doors
  <2>3. ASSUME NEW p \in used', fate'[p].door = "unasked", parent' = "live"
        PROVE  \E u \in Threads : lp'[u] \in {"selected", "door"} /\ cur'[u] = p
    <3>1. PICK u \in Threads : lp[u] \in {"selected", "door"} /\ cur[u] = p
      BY <2>3 DEF SearchInv, Doors
    <3>. QED
      BY <1>1, <3>1
  <2>4. ASSUME NEW p \in Providers, Asked(p)', fate'[p].outcome = ""
        PROVE  \E u \in Threads : lp'[u] = "calling" /\ cur'[u] = p
    <3>1. PICK u \in Threads : lp[u] = "calling" /\ cur[u] = p
      BY <2>4 DEF SearchInv, Doors, Asked
    <3>. QED
      BY <1>1, <3>1
  <2>. QED
    BY <2>1, <2>2, <2>3, <2>4 DEF Doors
<1>. QED
  BY <1>2, <1>3, <1>4

(* Before the request has begun nobody has been asked for anything. *)
LEMMA AtCache ==
  ASSUME SearchInv, pc = "cache"
  PROVE  /\ \A p \in Providers : fate[p] = Untouched
         /\ PremiumURLs = {} /\ sx = {} /\ premium["main"] = {}
         /\ seen["main"] = {} /\ \A t \in Threads : lp[t] = "idle"
<1>1. \A p \in Providers : fate[p] = Untouched
  BY DEF SearchInv, Doors
<1>2. \A p \in Providers : fate[p].urls = {}
  BY <1>1, Parts
<1>3. PremiumURLs = {}
  BY <1>2 DEF PremiumURLs
<1>. QED
  BY <1>1, <1>3 DEF SearchInv, Control, Kept, Threads

LEMMA CacheHitInv == SearchInv /\ CacheHit => SearchInv'
<1>. SUFFICES ASSUME SearchInv, CacheHit PROVE SearchInv'
  OBVIOUS
<1>1. /\ pc = "cache" /\ pc' = "done"
      /\ UNCHANGED <<parent, due, label, effect, cache, sx, seen, premium, used,
                     admitted, lp, cur, events, fate>>
  BY DEF CacheHit, stageVars, loopVars
<1>2. reply'.outcome = "cache_hit" /\ reply'.urls \subseteq URLs
  BY DEF CacheHit, SearchInv, Typed, TypeOK
<1>3. /\ Doors' /\ Fated' /\ PremiumURLs' = PremiumURLs
      /\ (\E p \in Providers : Returned(p))' <=> \E p \in Providers : Returned(p)
      /\ Diagnostics' = Diagnostics
  BY <1>1, FatesKept
<1>4. Typed'
  BY <1>1, <1>2 DEF SearchInv, Typed, TypeOK
<1>5. Control'
  BY <1>1, <1>2, AtCache DEF SearchInv, Control, Threads
<1>6. Counted' /\ Diagnosed' /\ Wanted' /\ Guaranteed'
  BY <1>1, <1>3, AtCache DEF SearchInv, Counted, Diagnosed, Wanted, Guaranteed,
     Threads
<1>7. Kept'
  BY <1>1, <1>3, AtCache DEF Kept, Gathered
<1>8. Claims'
  BY <1>2 DEF Claims, NoResultsIsExhaustion, FailureHasCause,
     OutcomeTellsSources
<1>. QED
  BY <1>3, <1>4, <1>5, <1>6, <1>7, <1>8 DEF SearchInv

LEMMA BeginInv == SearchInv /\ Begin => SearchInv'
<1>. SUFFICES ASSUME SearchInv, Begin PROVE SearchInv'
  OBVIOUS
<1>1. /\ pc = "cache" /\ pc' = "stage" /\ cache = {}
      /\ lp' = [lp EXCEPT !["first"] = IF parent = "live" THEN "head" ELSE "idle"]
      /\ events' = {Skipped(p, "missing_key", "") : p \in Providers \ Configured}
      /\ UNCHANGED <<parent, due, label, effect, cache, sx, reply, seen, premium,
                     used, admitted, cur, fate>>
  BY DEF Begin, stageVars
<1>2. /\ lp' \in [Threads -> {"idle", "head", "selected", "door", "calling",
                             "finished"}]
      /\ parent = "live" => lp'["first"] = "head"
      /\ parent # "live" => lp'["first"] = "idle"
      /\ lp["first"] = "idle" /\ lp["main"] = "idle" /\ lp'["main"] = "idle"
  BY <1>1, AtCache DEF SearchInv, Typed, TypeOK, Threads
<1>3. /\ Doors' /\ Fated' /\ PremiumURLs' = PremiumURLs
      /\ (\E p \in Providers : Returned(p))' <=> \E p \in Providers : Returned(p)
      /\ Diagnostics' = Diagnostics
  BY <1>1, <1>2, FatesKept DEF Threads
<1>4. Typed'
  BY <1>1, <1>2 DEF SearchInv, Typed, TypeOK
<1>5. Control'
  BY <1>1, <1>2, AtCache DEF SearchInv, Control, Threads
<1>6. Diagnosed'
  <2>1. \A p \in Providers : Known(p)' <=> p \notin Configured
    BY <1>1, AtCache, Parts DEF Known, Asked
  <2>2. \A p \in Providers \ Configured :
          EventOf(p)' = Skipped(p, "missing_key", "")
    BY DEF EventOf, Skipped
  <2>3. events' = {EventOf(p)' : p \in {q \in Providers : Known(q)'}}
    BY <1>1, <2>1, <2>2
  <2>. QED
    BY <1>1, <2>3 DEF Diagnosed, Diagnostics
<1>7. Counted' /\ Wanted' /\ Guaranteed'
  BY <1>1, <1>2, <1>3 DEF SearchInv, Counted, Wanted, Guaranteed
<1>8. Kept'
  BY <1>1, <1>3 DEF SearchInv, Kept
<1>9. Claims'
  BY <1>1 DEF SearchInv, Control, Claims, NoResultsIsExhaustion,
     FailureHasCause, OutcomeTellsSources
<1>. QED
  BY <1>3, <1>4, <1>5, <1>6, <1>7, <1>8, <1>9 DEF SearchInv

LEMMA StageStepInv == SearchInv /\ StageStep => SearchInv'
<1>. SUFFICES ASSUME SearchInv, StageStep PROVE SearchInv'
  OBVIOUS
<1>1. /\ pc = "stage" /\ pc' = "join" /\ sx = {}
      /\ UNCHANGED <<parent, due, cache, reply, premium, used, admitted, lp, cur,
                     events, fate>>
  BY DEF StageStep, StageSucceeds, StageYieldsNothing, loopVars, Stage!Succeed,
     Stage!Skip, Stage!Fail, SearchInv, Control
<1>2. /\ label' \in {"not_yet", "success"} \cup Stage!Skips \cup Stage!Failures
      /\ effect' \in {"none", "reset", "counted"}
  BY DEF StageStep, StageSucceeds, StageYieldsNothing, Stage!Succeed,
     Stage!Skip, Stage!Fail, SearchInv, Typed, TypeOK
<1>3. /\ sx' \subseteq URLs /\ seen' \in [Threads -> SUBSET URLs]
      /\ seen'["main"] = sx' /\ seen'["first"] = seen["first"]
  <2>1. seen \in [Threads -> SUBSET URLs] /\ seen["main"] = {}
    BY <1>1 DEF SearchInv, Typed, TypeOK, Kept
  <2>2. CASE StageSucceeds
    BY <2>1, <2>2 DEF StageSucceeds, Threads
  <2>3. CASE StageYieldsNothing
    BY <1>1, <2>1, <2>3 DEF StageYieldsNothing, loopVars
  <2>. QED
    BY <2>2, <2>3 DEF StageStep
<1>4. /\ Doors' /\ Fated' /\ PremiumURLs' = PremiumURLs
      /\ (\E p \in Providers : Returned(p))' <=> \E p \in Providers : Returned(p)
      /\ Diagnostics' = Diagnostics
  BY <1>1, FatesKept
<1>5. Typed'
  BY <1>1, <1>2, <1>3 DEF SearchInv, Typed, TypeOK
<1>6. Control'
  BY <1>1 DEF SearchInv, Control, Threads
<1>7. Diagnosed'
  BY <1>1, <1>4 DEF SearchInv, Diagnosed
<1>8. Counted'
  BY <1>1, <1>4 DEF SearchInv, Counted
<1>9. Kept'
  BY <1>1, <1>3, <1>4 DEF SearchInv, Kept
<1>10. Wanted'
  BY <1>1 DEF SearchInv, Control, Wanted
<1>11. Guaranteed'
  BY <1>1 DEF SearchInv, Guaranteed, Asked
<1>12. Claims'
  BY <1>1 DEF SearchInv, Control, Claims, NoResultsIsExhaustion,
     FailureHasCause, OutcomeTellsSources
<1>. QED
  BY <1>4, <1>5, <1>6, <1>7, <1>8, <1>9, <1>10, <1>11, <1>12 DEF SearchInv

LEMMA JoinInv == SearchInv /\ Join => SearchInv'
<1>. SUFFICES ASSUME SearchInv, Join PROVE SearchInv'
  OBVIOUS
<1>1. /\ pc = "join" /\ lp["first"] \in {"idle", "finished"}
      /\ seen' = [seen EXCEPT !["main"] = @ \cup seen["first"]]
      /\ premium' = [premium EXCEPT !["main"] = premium["first"]]
      /\ lp' = [lp EXCEPT !["main"] =
                  IF lp["first"] = "finished" /\ parent = "live" THEN "head"
                  ELSE @]
      /\ pc' = IF lp'["main"] = "head" THEN "topup" ELSE "finish"
      /\ UNCHANGED <<parent, due, label, effect, cache, sx, reply, used, admitted,
                     cur, events, fate>>
  BY DEF Join, stageVars
<1>2. /\ lp \in [Threads -> {"idle", "head", "selected", "door", "calling",
                             "finished"}]
      /\ seen \in [Threads -> SUBSET URLs] /\ premium \in [Threads -> SUBSET URLs]
      /\ lp["main"] = "idle"
      /\ premium["first"] = PremiumURLs /\ seen["first"] = PremiumURLs
      /\ seen["main"] = sx
  BY <1>1 DEF SearchInv, Typed, TypeOK, Control, Kept
<1>3. /\ seen' \in [Threads -> SUBSET URLs] /\ premium' \in [Threads -> SUBSET URLs]
      /\ seen'["main"] = Gathered /\ premium'["main"] = PremiumURLs
  BY <1>1, <1>2 DEF Threads, Gathered
<1>4. /\ lp' \in [Threads -> {"idle", "head", "selected", "door", "calling",
                             "finished"}]
      /\ lp'["first"] = lp["first"]
      /\ \/ lp'["main"] = "head" /\ pc' = "topup" /\ lp["first"] = "finished"
         \/ lp'["main"] = "idle" /\ pc' = "finish"
  BY <1>1, <1>2 DEF Threads
<1>5. /\ Doors' /\ Fated' /\ PremiumURLs' = PremiumURLs
      /\ (\E p \in Providers : Returned(p))' <=> \E p \in Providers : Returned(p)
      /\ Diagnostics' = Diagnostics
  BY <1>1, <1>2, <1>4, FatesKept DEF Threads
<1>6. Typed'
  BY <1>1, <1>3, <1>4 DEF SearchInv, Typed, TypeOK
<1>7. Control'
  BY <1>1, <1>4 DEF SearchInv, Control, Threads
<1>8. Diagnosed'
  BY <1>1, <1>4, <1>5 DEF SearchInv, Diagnosed
<1>9. Counted'
  BY <1>1, <1>2, <1>4, <1>5 DEF SearchInv, Counted
<1>10. Kept'
  BY <1>1, <1>3, <1>4, <1>5 DEF Kept, Gathered
<1>11. Wanted'
  BY <1>4 DEF Wanted
<1>12. Guaranteed'
  BY <1>1, <1>4 DEF SearchInv, Guaranteed, Asked
<1>13. Claims'
  BY <1>1 DEF SearchInv, Control, Claims, NoResultsIsExhaustion,
     FailureHasCause, OutcomeTellsSources
<1>. QED
  BY <1>5, <1>6, <1>7, <1>8, <1>9, <1>10, <1>11, <1>12, <1>13 DEF SearchInv

LEMMA TopUpEndsInv == SearchInv /\ TopUpEnds => SearchInv'
<1>. SUFFICES ASSUME SearchInv, TopUpEnds PROVE SearchInv'
  OBVIOUS
<1>1. /\ pc = "topup" /\ pc' = "finish" /\ lp["main"] = "finished"
      /\ UNCHANGED <<parent, due, label, effect, cache, sx, reply, seen, premium,
                     used, admitted, lp, cur, events, fate>>
  BY DEF TopUpEnds, stageVars, loopVars
<1>2. /\ Doors' /\ Fated' /\ PremiumURLs' = PremiumURLs
      /\ (\E p \in Providers : Returned(p))' <=> \E p \in Providers : Returned(p)
      /\ Diagnostics' = Diagnostics
  BY <1>1, FatesKept
<1>3. Typed'
  BY <1>1 DEF SearchInv, Typed, TypeOK
<1>4. Control'
  BY <1>1 DEF SearchInv, Control, Threads
<1>5. Diagnosed'
  BY <1>1, <1>2 DEF SearchInv, Diagnosed
<1>6. Counted'
  BY <1>1, <1>2 DEF SearchInv, Counted
<1>7. Kept' /\ Wanted'
  BY <1>1, <1>2 DEF SearchInv, Kept, Wanted, Gathered
<1>8. Guaranteed'
  BY <1>1 DEF SearchInv, Guaranteed, Asked
<1>9. Claims'
  BY <1>1 DEF SearchInv, Control, Claims, NoResultsIsExhaustion,
     FailureHasCause, OutcomeTellsSources
<1>. QED
  BY <1>2, <1>3, <1>4, <1>5, <1>6, <1>7, <1>8, <1>9 DEF SearchInv

(* At the end nobody is left running: every call has returned, and what    *)
(* has been gathered is in the request's own sets.                         *)
LEMMA AtFinish ==
  ASSUME SearchInv, pc = "finish"
  PROVE  /\ \A p \in Providers : Asked(p) <=> Returned(p)
         /\ PremiumPart = PremiumURLs /\ cache = {}
<1>1. \A t \in Threads : lp[t] # "calling"
  BY DEF SearchInv, Control
<1>2. \A p \in Providers : Asked(p) => fate[p].outcome # ""
  BY <1>1 DEF SearchInv, Doors
<1>. QED
  BY <1>2 DEF Returned, PremiumPart, SearchInv, Kept, Control

(* The diagnostics are clean exactly when everybody is exhausted. *)
LEMMA CleanIsExhausted ==
  ASSUME SearchInv, pc = "finish"
  PROVE  CleanEmpty(Completed(events)) <=> \A p \in Providers : Exhausted(p)
<1>1. events = Diagnostics
  BY DEF SearchInv, Diagnosed
<1>2. \A p \in Providers : EventOf(p).provider = p
  BY DEF EventOf, Skipped, Called
<1>3. \A p \in Providers : Known(p) => (Acceptable(EventOf(p)) <=> Exhausted(p))
  <2>1. SUFFICES ASSUME NEW p \in Providers, Known(p)
                 PROVE  Acceptable(EventOf(p)) <=> Exhausted(p)
    OBVIOUS
  <2>2. Coherent(fate[p])
    BY DEF SearchInv, Fated
  <2>. DEFINE e == EventOf(p)
  <2>3. CASE p \notin Configured
    <3>1. e.skip = "missing_key" /\ e.reason = ""
      BY <2>3 DEF EventOf, Skipped
    <3>. QED
      BY <2>3, <3>1 DEF Acceptable, Exhausted
  <2>4. CASE p \in Configured /\ fate[p].door = "open"
    <3>1. e.skip = "breaker_open" /\ e.reason = fate[p].reason
      BY <2>4 DEF EventOf, Skipped
    <3>. QED
      BY <2>4, <3>1 DEF Acceptable, Exhausted, Asked
  <2>5. CASE p \in Configured /\ fate[p].door = "busy"
    <3>1. e.skip = "breaker_contention"
      BY <2>5 DEF EventOf, Skipped
    <3>. QED
      BY <2>5, <3>1 DEF Acceptable, Exhausted, Asked
  <2>6. CASE p \in Configured /\ fate[p].door = "admitted"
    <3>1. /\ e.skip = "" /\ e.outcome = fate[p].outcome
          /\ e.results <=> fate[p].urls # {}
          /\ e.reason = fate[p].reason
      BY <2>6 DEF EventOf, Called
    <3>. QED
      BY <2>2, <2>6, <3>1 DEF Acceptable, Exhausted, Asked, Coherent
  <2>. QED
    BY <2>1, <2>3, <2>4, <2>5, <2>6 DEF Known, Asked
<1>4. \A p \in Providers : ~Known(p) => ~Exhausted(p)
  <2>1. SUFFICES ASSUME NEW p \in Providers, ~Known(p) PROVE ~Exhausted(p)
    OBVIOUS
  <2>2. Coherent(fate[p])
    BY DEF SearchInv, Fated
  <2>. QED
    BY <2>1, <2>2 DEF Known, Exhausted, Asked, Coherent
<1>5. \A p \in Providers : ~Acceptable(Skipped(p, "not_attempted", ""))
  BY DEF Acceptable, Skipped
<1>6. {e.provider : e \in events} = {p \in Providers : Known(p)}
  BY <1>1, <1>2 DEF Diagnostics
<1>7. Completed(events) =
        Diagnostics \cup {Skipped(p, "not_attempted", "") :
                            p \in {q \in Providers : ~Known(q)}}
  <2>1. Providers \ {e.provider : e \in events}
          = {q \in Providers : ~Known(q)}
    BY <1>6
  <2>. QED
    BY <1>1, <2>1 DEF Completed
<1>8. CleanEmpty(Completed(events)) <=>
        \A p \in Providers : Known(p) /\ Acceptable(EventOf(p))
  BY <1>5, <1>7 DEF CleanEmpty, Diagnostics
<1>. QED
  BY <1>3, <1>4, <1>8

LEMMA FinishEmptyInv == SearchInv /\ FinishEmpty => SearchInv'
<1>. SUFFICES ASSUME SearchInv, FinishEmpty PROVE SearchInv'
  OBVIOUS
<1>1. /\ pc = "finish" /\ pc' = "done" /\ PremiumPart \cup sx = {}
      /\ reply' = [outcome |-> ZeroOutcome(Completed(events)), urls |-> {}]
      /\ UNCHANGED <<parent, due, label, effect, cache, sx, seen, premium, used,
                     admitted, lp, cur, fate>>
  BY DEF FinishEmpty, stageVars
<1>2. /\ reply'.outcome = ZeroOutcome(Completed(events)) /\ reply'.urls = {}
      /\ reply'.outcome \in {"timeout", "no_results", "fallback_fail"}
  BY <1>1 DEF ZeroOutcome
<1>3. /\ Doors' /\ Fated' /\ PremiumURLs' = PremiumURLs
      /\ (\E p \in Providers : Returned(p))' <=> \E p \in Providers : Returned(p)
  BY <1>1, FatesKept
<1>4. Typed'
  BY <1>1, <1>2 DEF SearchInv, Typed, TypeOK
<1>5. Control'
  BY <1>1, <1>2 DEF SearchInv, Control, Threads
<1>6. Diagnosed' /\ Wanted'
  BY <1>1, <1>3 DEF SearchInv, Diagnosed, Wanted, Gathered
<1>7. Counted'
  BY <1>1, <1>3 DEF SearchInv, Counted
<1>8. Kept'
  BY <1>1, <1>3 DEF SearchInv, Kept, Gathered
<1>9. Guaranteed'
  BY <1>1 DEF SearchInv, Guaranteed, Asked
<1>10. Exhaustion' <=> Exhaustion
  BY <1>1 DEF Exhaustion, Exhausted, Asked
<1>11. reply'.outcome = "no_results" <=>
         /\ parent = "live" /\ label = "success"
         /\ \E p \in Providers : Asked(p)
         /\ \A p \in Providers : Exhausted(p)
  <2>1. admitted["first"] + admitted["main"] > 0 <=>
          \E p \in Providers : Asked(p)
    <3>1. admitted["first"] \in Nat /\ admitted["main"] \in Nat
      BY DEF SearchInv, Typed, TypeOK, Threads
    <3>2. admitted["first"] + admitted["main"] > 0 <=>
            admitted["first"] > 0 \/ admitted["main"] > 0
      BY <3>1
    <3>3. (\E p \in Providers : Asked(p)) <=> \E p \in Providers : Returned(p)
      BY <1>1, AtFinish
    <3>. QED
      BY <3>2, <3>3 DEF SearchInv, Counted
  <2>2. CleanEmpty(Completed(events)) <=> \A p \in Providers : Exhausted(p)
    BY <1>1, CleanIsExhausted
  <2>. QED
    BY <1>2, <2>1, <2>2 DEF ZeroOutcome
<1>12. Claims'
  <2>1. sx = {}
    BY <1>1
  <2>2. NoResultsIsExhaustion'
    BY <1>10, <1>11, <2>1 DEF NoResultsIsExhaustion, Exhaustion
  <2>3. FailureHasCause'
    <3>1. SUFFICES ASSUME reply'.outcome = "fallback_fail", parent = "live",
                          Exhaustion
                   PROVE  FALSE
      BY <1>1, <1>10 DEF FailureHasCause
    <3>. QED
      BY <1>11, <3>1 DEF Exhaustion
  <2>4. OutcomeTellsSources'
    BY <1>2 DEF OutcomeTellsSources
  <2>. QED
    BY <2>2, <2>3, <2>4 DEF Claims
<1>. QED
  BY <1>3, <1>4, <1>5, <1>6, <1>7, <1>8, <1>9, <1>12 DEF SearchInv

LEMMA FinishWithResultsInv == SearchInv /\ FinishWithResults => SearchInv'
<1>. SUFFICES ASSUME SearchInv, FinishWithResults PROVE SearchInv'
  OBVIOUS
<1>1. /\ pc = "finish" /\ pc' = "done" /\ PremiumPart \cup sx # {}
      /\ reply' = [outcome |-> SuccessOutcome,
                   urls |-> PremiumPart \cup SearxngPart]
      /\ cache' = {PremiumPart \cup SearxngPart}
      /\ UNCHANGED <<parent, due, label, effect, sx, seen, premium, used,
                     admitted, lp, cur, events, fate>>
  BY DEF FinishWithResults, stageVars, loopVars
<1>2. PremiumPart = PremiumURLs /\ SearxngPart = sx \ PremiumURLs
  BY <1>1, AtFinish DEF SearxngPart
<1>3. /\ reply'.outcome = SuccessOutcome
      /\ reply'.urls = PremiumPart \cup SearxngPart
      /\ reply'.outcome \in {"searxng_ok", "premium_ok",
                             "searxng_plus_premium_ok"}
  BY <1>1 DEF SuccessOutcome
<1>4. /\ Doors' /\ Fated' /\ PremiumURLs' = PremiumURLs
      /\ (\E p \in Providers : Returned(p))' <=> \E p \in Providers : Returned(p)
  BY <1>1, FatesKept
<1>5. PremiumPart \cup SearxngPart \subseteq URLs
  BY <1>2, UrlsTyped DEF SearchInv, Typed, TypeOK
<1>6. Typed'
  BY <1>1, <1>3, <1>5 DEF SearchInv, Typed, TypeOK
<1>7. Control'
  BY <1>1, <1>3 DEF SearchInv, Control, Threads
<1>8. Diagnosed' /\ Wanted'
  BY <1>1, <1>4 DEF SearchInv, Diagnosed, Wanted, Gathered
<1>9. Counted'
  BY <1>1, <1>4 DEF SearchInv, Counted
<1>10. Kept'
  BY <1>1, <1>4 DEF SearchInv, Kept, Gathered
<1>11. Guaranteed'
  BY <1>1 DEF SearchInv, Guaranteed, Asked
<1>12. Claims'
  <2>1. OutcomeTellsSources'
    BY <1>1, <1>2, <1>3, <1>4 DEF OutcomeTellsSources, SuccessOutcome
  <2>. QED
    BY <1>3, <2>1 DEF Claims, NoResultsIsExhaustion, FailureHasCause
<1>. QED
  BY <1>4, <1>6, <1>7, <1>8, <1>9, <1>10, <1>11, <1>12 DEF SearchInv

LEMMA StepInv == SearchInv /\ [Next]_vars => SearchInv'
BY ContextInv, StutterInv, LoopInv, CacheHitInv, BeginInv, StageStepInv,
   JoinInv, TopUpEndsInv, FinishEmptyInv, FinishWithResultsInv
DEF Next, MainStep

-----------------------------------------------------------------------------
(* A live request tops up until it has enough or nobody is left to go to.  *)

Persevering ==
  /\ pc \in {"finish", "done"} /\ reply.outcome # "cache_hit"
       /\ parent = "live" => lp["main"] = "finished"
  /\ lp["main"] = "finished" /\ parent = "live" =>
       \/ Cardinality(Gathered) >= Target
       \/ \A p \in Configured : fate[p].door # "unasked"

(* A step after which the top-up has not ended cannot have ended it early. *)
LEMMA NotYetOver ==
  ASSUME lp'["main"] # "finished",
         pc' \notin {"finish", "done"} \/ reply'.outcome = "cache_hit"
                                      \/ parent' # "live"
  PROVE  Persevering'
BY DEF Persevering

(* Nor can one that leaves the top-up and what was gathered alone. *)
LEMMA LeftAlone ==
  ASSUME Persevering, UNCHANGED <<sx, fate>>, lp'["main"] = lp["main"],
         parent' = "live" => parent = "live",
         pc' \in {"finish", "done"} /\ reply'.outcome # "cache_hit" =>
           \/ lp["main"] = "finished"
           \/ pc \in {"finish", "done"} /\ reply.outcome # "cache_hit"
  PROVE  Persevering'
<1>1. Gathered' = Gathered
  BY UrlsKept
<1>. QED
  BY <1>1 DEF Persevering

LEMMA PerseveringTopUp ==
  ASSUME SearchInv, NEW t \in Threads, LoopStep(t) \/ CallReturns(t)
  PROVE  Persevering'
<1>1. /\ lp[t] \in {"head", "selected", "door", "calling"}
      /\ UNCHANGED <<pc, sx, parent>>
      /\ \E l : lp' = [lp EXCEPT ![t] = l]
  BY DEF LoopStep, LoopEnds, Select, Recheck, Refusal, Refused, Admit,
     CallReturns, CallSucceeds, CallIsEmpty, CallFaults, CallAborted,
     CallEnds, stageVars
<1>2. /\ t = "first" => pc \in {"stage", "join"} /\ lp["main"] = "idle"
      /\ t = "main" => pc = "topup" /\ lp["first"] = "finished"
      /\ \A u \in Threads \ {t} : lp[u] \in {"idle", "finished"}
  BY <1>1, Running DEF SearchInv
<1>3. pc' \notin {"finish", "done"}
  BY <1>1, <1>2 DEF Threads
<1>4. CASE t = "first"
  <2>1. lp'["main"] # "finished"
    BY <1>1, <1>2, <1>4 DEF SearchInv, Typed, TypeOK, Threads
  <2>. QED
    BY <1>3, <2>1, NotYetOver
<1>5. CASE t = "main" /\ LoopEnds(t)
  <2>1. UNCHANGED <<sx, fate, parent>> /\ ~MayGoOn("main")
    BY <1>5 DEF LoopEnds, stageVars
  <2>2. Gathered' = Gathered /\ seen["main"] = Gathered
    BY <1>2, <1>5, <2>1, UrlsKept DEF SearchInv, Kept
  <2>3. SUFFICES ASSUME parent = "live", Candidates # {}
                 PROVE  Cardinality(Gathered) >= Target
    <3>1. \A u \in Threads : lp[u] \notin {"selected", "door"}
      BY <1>2, <1>5 DEF LoopEnds
    <3>2. parent = "live" /\ Candidates = {} =>
            \A p \in Configured : fate[p].door # "unasked"
      BY <3>1, NobodyLeft
    <3>. QED
      BY <1>3, <2>1, <2>2, <3>2 DEF Persevering
  <2>4. ~(Cardinality(Gathered) < Target)
    BY <2>1, <2>2, <2>3 DEF MayGoOn, WantsMore, Limit
  <2>5. Cardinality(Gathered) \in Nat
    BY URLsAssumption, UrlsTyped, FS_Subset, FS_CardinalityType DEF SearchInv
  <2>. QED
    BY <2>4, <2>5, TargetAssumption
<1>6. CASE t = "main" /\ Recheck(t)
  <2>1. parent = "live" => lp'["main"] = "door"
    BY <1>6 DEF Recheck, SearchInv, Typed, TypeOK
  <2>. QED
    BY <1>1, <1>3, <2>1 DEF Persevering
<1>7. CASE t = "main" /\ ~LoopEnds(t) /\ ~Recheck(t)
  <2>1. \E l \in {"head", "selected", "calling"} : lp' = [lp EXCEPT ![t] = l]
    BY <1>7 DEF LoopStep, Select, Refusal, Refused, Admit, CallReturns,
       CallSucceeds, CallIsEmpty, CallFaults, CallAborted, CallEnds
  <2>2. lp'["main"] # "finished"
    BY <1>7, <2>1 DEF SearchInv, Typed, TypeOK
  <2>. QED
    BY <1>3, <2>2, NotYetOver
<1>. QED
  BY <1>4, <1>5, <1>6, <1>7 DEF Threads

LEMMA PerseveringJoin == SearchInv /\ Join => Persevering'
<1>. SUFFICES ASSUME SearchInv, Join PROVE Persevering'
  OBVIOUS
<1>1. /\ pc = "join" /\ lp["first"] \in {"idle", "finished"}
      /\ lp' = [lp EXCEPT !["main"] =
                  IF lp["first"] = "finished" /\ parent = "live" THEN "head"
                  ELSE @]
      /\ pc' = IF lp'["main"] = "head" THEN "topup" ELSE "finish"
      /\ UNCHANGED <<parent, reply>>
  BY DEF Join, stageVars
<1>2. lp["main"] = "idle" /\ reply.outcome = "none"
  BY <1>1 DEF SearchInv, Control
<1>3. parent = "live" => lp["first"] = "finished"
  BY <1>1, <1>2 DEF SearchInv, Control
<1>4. /\ lp'["main"] \in {"head", "idle"}
      /\ parent = "live" => lp'["main"] = "head"
  BY <1>1, <1>2, <1>3 DEF SearchInv, Typed, TypeOK, Threads
<1>. QED
  BY <1>1, <1>4, NotYetOver

LEMMA PerseveringStep ==
  SearchInv /\ Persevering /\ [Next]_vars => Persevering'
<1>. SUFFICES ASSUME SearchInv, Persevering, [Next]_vars
              PROVE  Persevering'
  OBVIOUS
<1>1. CASE ContextStep
  BY <1>1, LeftAlone
     DEF ContextStep, Stage!DeadlinePasses, Stage!ContextEnds, loopVars
<1>2. CASE CacheHit
  <2>1. reply'.outcome = "cache_hit" /\ lp'["main"] # "finished"
    BY <1>2, AtCache DEF CacheHit, loopVars, Threads
  <2>. QED
    BY <2>1, NotYetOver
<1>3. CASE Begin \/ StageStep
  <2>1. pc \in {"cache", "stage"} /\ pc' \in {"stage", "join"}
    BY <1>3 DEF Begin, StageStep, StageSucceeds, StageYieldsNothing
  <2>2. lp["main"] = "idle"
    BY <2>1 DEF SearchInv, Control
  <2>3. UNCHANGED lp \/ \E l : lp' = [lp EXCEPT !["first"] = l]
    BY <1>3 DEF Begin, StageStep, StageSucceeds, StageYieldsNothing, loopVars
  <2>4. lp'["main"] # "finished"
    BY <2>2, <2>3 DEF SearchInv, Typed, TypeOK, Threads
  <2>. QED
    BY <2>1, <2>4, NotYetOver
<1>4. CASE TopUpEnds \/ FinishEmpty \/ FinishWithResults
  <2>1. /\ UNCHANGED <<parent, sx, fate, lp>>
        /\ \/ lp["main"] = "finished"
           \/ pc = "finish" /\ reply.outcome = "none"
    BY <1>4 DEF TopUpEnds, FinishEmpty, FinishWithResults, stageVars,
       loopVars, SearchInv, Control
  <2>. QED
    BY <2>1, LeftAlone
<1>5. CASE UNCHANGED vars
  BY <1>5, LeftAlone DEF vars, stageVars, loopVars
<1>6. ASSUME NEW t \in Threads, LoopStep(t) \/ CallReturns(t)
      PROVE  Persevering'
  BY <1>6, PerseveringTopUp
<1>. QED
  BY <1>1, <1>2, <1>3, <1>4, <1>5, <1>6, PerseveringJoin DEF Next, MainStep

LEMMA PerseveringInit == Init => Persevering
<1>. SUFFICES ASSUME Init PROVE Persevering
  OBVIOUS
<1>1. pc = "cache" /\ lp["main"] = "idle"
  BY DEF Init, Threads
<1>. QED
  BY <1>1 DEF Persevering

-----------------------------------------------------------------------------
(* What the outcomes, the diagnostics, the counters and the providers'     *)
(* fates say agrees at every step (proxy.go:113-415, 447-560).             *)
THEOREM SearchInvariant == Spec => []SearchInv
BY InitInv, StepInv, PTL DEF Spec

(* Every variable keeps its type; the first thread's loop makes one call   *)
(* at most.                                                                *)
THEOREM TypeCorrect == Spec => []TypeOK
<1>1. SearchInv => TypeOK
  BY DEF SearchInv, Typed
<1>. QED
  BY <1>1, SearchInvariant, PTL

(* "no_results" is only said when SearXNG answered with nothing and every  *)
(* provider found nothing or has no account to ask with (proxy.go:354-366, *)
(* 578-611).                                                               *)
THEOREM NoResultsHonest == Spec => []NoResultsIsExhaustion
<1>1. SearchInv => NoResultsIsExhaustion
  BY DEF SearchInv, Claims
<1>. QED
  BY <1>1, SearchInvariant, PTL

(* A live request that fails does so over a fault, never over an honest    *)
(* lack of results (proxy.go:341-392).                                     *)
THEOREM FailureJustified == Spec => []FailureHasCause
<1>1. SearchInv => FailureHasCause
  BY DEF SearchInv, Claims
<1>. QED
  BY <1>1, SearchInvariant, PTL

(* The outcome names the stages that contributed (proxy.go:325-338,        *)
(* 401-406).                                                               *)
THEOREM SourcesTold == Spec => []OutcomeTellsSources
<1>1. SearchInv => OutcomeTellsSources
  BY DEF SearchInv, Claims
<1>. QED
  BY <1>1, SearchInvariant, PTL

(* A live request that is over has called a provider, or every configured  *)
(* one has refused it, and it has as many URLs as it wants, or has gone to *)
(* every configured provider (proxy.go:464-544, 671-698).                  *)
THEOREM CallGuaranteed == Spec => []GuaranteedCall
<1>1. Spec => []Persevering
  BY PerseveringInit, PerseveringStep, SearchInvariant, PTL DEF Spec
<1>2. SearchInv /\ Persevering => GuaranteedCall
  <2>. SUFFICES ASSUME SearchInv, Persevering, pc = "done",
                       reply.outcome # "cache_hit", parent = "live"
                PROVE  /\ \/ \E p \in Providers : Asked(p)
                          \/ \A p \in Configured :
                               fate[p].door \in {"open", "busy"}
                       /\ \/ Cardinality(Gathered) >= Target
                          \/ \A p \in Configured : fate[p].door # "unasked"
    BY DEF GuaranteedCall
  <2>1. lp["first"] = "finished"
    BY DEF SearchInv, Control, Threads
  <2>. QED
    BY <2>1 DEF SearchInv, Guaranteed, Persevering
<1>. QED
  BY <1>1, <1>2, SearchInvariant, PTL

-----------------------------------------------------------------------------
(* What a step does to the providers' fates.                               *)

(* The step decides no provider's fate. *)
Quiet ==
  \/ ContextStep \/ Begin \/ StageYieldsNothing \/ Join \/ TopUpEnds
  \/ \E t \in Threads : LoopEnds(t) \/ Recheck(t)
  \/ \E t \in Threads, p \in Providers : Select(t, p)
  \/ UNCHANGED vars

LEMMA QuietKeeps == Quiet => UNCHANGED <<fate, cache, sx, reply>>
BY DEF Quiet, ContextStep, Begin, StageYieldsNothing, Join, TopUpEnds, LoopEnds,
   Recheck, Select, vars, loopVars

LEMMA StepCases ==
  ASSUME [Next]_vars
  PROVE  \/ Quiet
         \/ CacheHit \/ StageSucceeds \/ FinishEmpty \/ FinishWithResults
         \/ \E t \in Threads : Refusal(t) \/ Admit(t) \/ CallReturns(t)
BY DEF Next, MainStep, StageStep, LoopStep, Quiet

(* A refusal leaves a provider unasked, which it was. *)
LEMMA RefusalKeeps ==
  ASSUME SearchInv, NEW t \in Threads, Refusal(t)
  PROVE  /\ \A p \in Providers : /\ Asked(p)' <=> Asked(p)
                                /\ fate'[p].outcome = fate[p].outcome
         /\ Gathered' = Gathered /\ UNCHANGED <<cache, sx, reply>>
<1>0. PICK d \in {"open", "busy"} : \E r : Refused(t, d, r)
  BY DEF Refusal
<1>1. PICK r : Refused(t, d, r)
  BY <1>0
<1>2. PICK c \in Providers : c = cur[t] /\ fate[c] = Untouched
  <2>1. cur[t] \in Providers /\ fate[cur[t]] = Untouched
    BY <1>1, Selected DEF Refused, SearchInv, Doors
  <2>. QED
    BY <2>1
<1>3. fate' = [fate EXCEPT ![c] = AtDoor(d, r)]
  BY <1>1, <1>2 DEF Refused
<1>4. /\ AtDoor(d, r).door = d /\ AtDoor(d, r).outcome = ""
      /\ AtDoor(d, r).urls = {}
  BY DEF AtDoor
<1>5. /\ fate'[c].door = d /\ fate'[c].outcome = "" /\ fate'[c].urls = {}
      /\ \A p \in Providers \ {c} : fate'[p] = fate[p]
  BY <1>3, <1>4 DEF SearchInv, Typed
<1>6. fate[c].door = "unasked" /\ fate[c].outcome = "" /\ fate[c].urls = {}
  BY <1>2, Parts
<1>7. UNCHANGED <<cache, sx, reply>>
  BY <1>1 DEF Refused
<1>8. \A p \in Providers : fate'[p].urls = fate[p].urls
  BY <1>5, <1>6
<1>. QED
  BY <1>5, <1>6, <1>7, <1>8, UrlsKept DEF Asked

(* An admission asks one provider, when nobody's call is out. *)
LEMMA AdmitAsks ==
  ASSUME SearchInv, NEW t \in Threads, Admit(t)
  PROVE  \E c \in Providers :
           /\ ~Asked(c) /\ Asked(c)' /\ fate'[c].outcome = ""
           /\ \A p \in Providers \ {c} : fate'[p] = fate[p]
           /\ \A p \in Providers : Asked(p) => fate[p].outcome # ""
           /\ Gathered' = Gathered /\ UNCHANGED <<cache, sx, reply>>
           /\ reply.outcome = "none"
<1>1. lp[t] = "door" /\ UNCHANGED <<cache, sx, reply>>
  BY DEF Admit
<1>2. PICK c \in Providers : c = cur[t] /\ fate[c] = Untouched
  <2>1. cur[t] \in Providers /\ fate[cur[t]] = Untouched
    BY <1>1, Selected DEF SearchInv, Doors
  <2>. QED
    BY <2>1
<1>3. fate' = [fate EXCEPT ![c] = Waiting]
  BY <1>2 DEF Admit, Waiting
<1>4. /\ fate'[c] = Waiting
      /\ \A p \in Providers \ {c} : fate'[p] = fate[p]
  BY <1>3 DEF SearchInv, Typed
<1>5. /\ fate'[c].door = "admitted" /\ fate'[c].outcome = ""
      /\ fate'[c].urls = {}
      /\ fate[c].door = "unasked" /\ fate[c].outcome = "" /\ fate[c].urls = {}
  BY <1>2, <1>4, Parts
<1>6. \A p \in Providers : fate'[p].urls = fate[p].urls
  BY <1>4, <1>5
<1>7. /\ \A u \in Threads : lp[u] # "calling"
      /\ reply.outcome = "none"
  BY <1>1, Running DEF SearchInv, Control
<1>8. \A p \in Providers : Asked(p) => fate[p].outcome # ""
  BY <1>7 DEF SearchInv, Doors
<1>. QED
  BY <1>1, <1>4, <1>5, <1>6, <1>7, <1>8, UrlsKept DEF Asked

(* A call that returns was out, and adds what it found. *)
LEMMA ReturnAdds ==
  ASSUME SearchInv, NEW t \in Threads, CallReturns(t)
  PROVE  \E c \in Providers, us \in SUBSET URLs :
           /\ Asked(c) /\ fate[c].outcome = ""
           /\ Asked(c)' /\ fate'[c].outcome # ""
           /\ \A p \in Providers \ {c} : fate'[p] = fate[p]
           /\ Gathered' = Gathered \cup us /\ UNCHANGED <<cache, sx, reply>>
<1>1. PICK o, r, us : Sound(o, r, us) /\ CallEnds(t, o, r, us)
  BY ReturnIsSound
<1>2. PICK c \in Providers : c = cur[t] /\ fate[c] = Waiting
  <2>1. cur[t] \in Providers /\ fate[cur[t]] = Waiting
    BY <1>1, Selected DEF CallEnds, SearchInv, Doors
  <2>. QED
    BY <2>1
<1>. DEFINE f == [door |-> "admitted", outcome |-> o, reason |-> r, urls |-> us]
<1>3. fate' = [fate EXCEPT ![c] = f] /\ UNCHANGED <<cache, sx, reply>>
  BY <1>1, <1>2 DEF CallEnds
<1>4. fate'[c] = f /\ \A p \in Providers \ {c} : fate'[p] = fate[p]
  BY <1>3 DEF SearchInv, Typed
<1>5. /\ fate'[c].door = "admitted" /\ fate'[c].outcome = o
      /\ fate'[c].urls = us
      /\ fate[c].door = "admitted" /\ fate[c].outcome = "" /\ fate[c].urls = {}
  <2>1. f.door = "admitted" /\ f.outcome = o /\ f.urls = us
    OBVIOUS
  <2>. QED
    BY <1>2, <1>4, <2>1, Parts
<1>6. Gathered' = Gathered \cup us
  BY <1>3, <1>4, <1>5, UrlsAdded
<1>7. us \in SUBSET URLs /\ o # ""
  BY <1>1 DEF Sound
<1>. QED
  BY <1>3, <1>4, <1>5, <1>6, <1>7 DEF Asked

(* Only the answer of a finished request enters the cache. *)
LEMMA CacheStep ==
  ASSUME SearchInv, [Next]_vars, cache' # cache
  PROVE  FinishWithResults
<1>1. CASE Quiet
  BY <1>1, QuietKeeps
<1>2. CASE CacheHit \/ StageSucceeds \/ FinishEmpty
  BY <1>2 DEF CacheHit, StageSucceeds, FinishEmpty
<1>3. CASE \E t \in Threads : Refusal(t) \/ Admit(t) \/ CallReturns(t)
  BY <1>3, RefusalKeeps, AdmitAsks, ReturnAdds
<1>. QED
  BY <1>1, <1>2, <1>3, StepCases

(* The first call needs no reason; any other is made for want of results.  *)
LEMMA AdmitWanted ==
  ASSUME SearchInv, NEW t \in Threads, Admit(t)
  PROVE  \/ \A q \in Providers : ~Asked(q)
         \/ Cardinality(Gathered) < Target
<1>1. lp[t] = "door"
  BY DEF Admit
<1>2. CASE t = "main"
  BY <1>1, <1>2 DEF SearchInv, Wanted
<1>3. CASE t = "first"
  <2>1. ~\E q \in Providers : Returned(q)
    <3>1. admitted["first"] = 0 /\ admitted["main"] = 0
      BY <1>1, <1>3, Running DEF SearchInv, Counted
    <3>. QED
      BY <3>1 DEF SearchInv, Counted
  <2>2. \A q \in Providers : Asked(q) => fate[q].outcome # ""
    BY AdmitAsks
  <2>. QED
    BY <2>1, <2>2 DEF Returned
<1>. QED
  BY <1>2, <1>3 DEF Threads

(* Beyond the guaranteed call, a provider is only called while the URLs of *)
(* both stages are below the target (proxy.go:313-320, 464-476).           *)
THEOREM NoNeedless == Spec => NoNeedlessCall
<1>1. SearchInv /\ [Next]_vars =>
        [\A p \in Providers :
           ~Asked(p) /\ Asked(p)' =>
             \/ \A q \in Providers : ~Asked(q)
             \/ Cardinality(Gathered) < Target]_vars
  <2>. SUFFICES ASSUME SearchInv, [Next]_vars, NEW p \in Providers,
                       ~Asked(p), Asked(p)'
                PROVE  \/ \A q \in Providers : ~Asked(q)
                       \/ Cardinality(Gathered) < Target
    OBVIOUS
  <2>1. CASE Quiet
    BY <2>1, QuietKeeps DEF Asked
  <2>2. CASE CacheHit \/ StageSucceeds \/ FinishEmpty \/ FinishWithResults
    BY <2>2 DEF CacheHit, StageSucceeds, FinishEmpty, FinishWithResults,
       loopVars, Asked
  <2>3. CASE \E t \in Threads : Refusal(t)
    BY <2>3, RefusalKeeps
  <2>4. CASE \E t \in Threads : Admit(t)
    BY <2>4, AdmitWanted
  <2>5. CASE \E t \in Threads : CallReturns(t)
    BY <2>5, ReturnAdds DEF Asked
  <2>. QED
    BY <2>1, <2>2, <2>3, <2>4, <2>5, StepCases
<1>. QED
  BY <1>1, SearchInvariant, PTL DEF Spec, NoNeedlessCall

(* Only what was answered, and never an empty answer, enters the cache     *)
(* (proxy.go:393-415).                                                     *)
THEOREM CacheHonest == Spec => CacheHoldsAnswers
<1>1. SearchInv /\ [Next]_vars =>
        [cache' # cache => cache' = {reply'.urls} /\ reply'.urls # {}]_vars
  <2>. SUFFICES ASSUME SearchInv, [Next]_vars, cache' # cache
                PROVE  cache' = {reply'.urls} /\ reply'.urls # {}
    OBVIOUS
  <2>1. FinishWithResults
    BY CacheStep
  <2>2. reply'.urls = PremiumPart \cup SearxngPart
    BY <2>1 DEF FinishWithResults
  <2>. QED
    BY <2>1, <2>2 DEF FinishWithResults, SearxngPart
<1>. QED
  BY <1>1, SearchInvariant, PTL DEF Spec, CacheHoldsAnswers

-----------------------------------------------------------------------------
(* RequestContract.                                                        *)

AskedSet == {p \in Providers : Asked(p)}
InFlight == {p \in Providers : Asked(p) /\ fate[p].outcome = ""}
Held     == (UNION cache) \cup Gathered
Told ==
  [kind |-> CASE reply.outcome = "none" -> "pending"
              [] reply.outcome \in {"timeout", "fallback_fail"} -> "failed"
              [] OTHER -> "answer",
   urls |-> reply.urls]

(* The contract's steps, in Search's own terms. *)
LEMMA ContractSteps ==
  /\ AskedSet = {} /\ InFlight = {} /\ Held \in SUBSET URLs
       /\ Told = Contract!Pending => Contract!Init
  /\ UNCHANGED <<AskedSet, InFlight, Held, Told>> => UNCHANGED Contract!vars
  /\ \A p \in Providers :
       /\ Told = Contract!Pending /\ p \notin AskedSet /\ InFlight = {}
       /\ AskedSet' = AskedSet \cup {p} /\ InFlight' = {p}
       /\ UNCHANGED <<Held, Told>>
       => Contract!Next
  /\ \A p \in Providers, us \in SUBSET URLs :
       /\ p \in InFlight /\ InFlight' = InFlight \ {p}
       /\ Held' = Held \cup us /\ UNCHANGED <<AskedSet, Told>>
       => Contract!Next
  /\ \A us \in SUBSET URLs :
       /\ Told = Contract!Pending /\ Held' = Held \cup us
       /\ UNCHANGED <<AskedSet, InFlight, Told>>
       => Contract!Next
  /\ /\ Told = Contract!Pending /\ InFlight = {}
     /\ \/ Told' = Contract!Answer(Held)
        \/ Held = {} /\ Told' = Contract!Failed
     /\ UNCHANGED <<AskedSet, InFlight, Held>>
     => Contract!Next
BY DEF AskedSet, InFlight, Held, Told, Contract!Init, Contract!vars,
   Contract!Next, Contract!Ask, Contract!ProviderReturns,
   Contract!SearxngReturns, Contract!Reply, Contract!Pending, Contract!Answer,
   Contract!Failed

LEMMA ToldPending ==
  ASSUME SearchInv, reply.outcome = "none"
  PROVE  Told = Contract!Pending
BY DEF SearchInv, Control, Told, Contract!Pending

LEMMA InitContract == Init => Contract!Init
<1>. SUFFICES ASSUME Init PROVE Contract!Init
  OBVIOUS
<1>1. SearchInv /\ pc = "cache" /\ reply.outcome = "none"
  BY InitInv DEF Init, NoReply
<1>2. \A p \in Providers : ~Asked(p)
  BY <1>1, AtCache, Parts DEF Asked
<1>3. AskedSet = {} /\ InFlight = {}
  BY <1>2 DEF AskedSet, InFlight
<1>4. Held \in SUBSET URLs
  BY <1>1, UrlsTyped DEF Held, SearchInv, Typed, TypeOK
<1>. QED
  BY <1>1, <1>3, <1>4, ToldPending, ContractSteps

LEMMA StepContract ==
  ASSUME SearchInv, [Next]_vars
  PROVE  Contract!Next \/ UNCHANGED Contract!vars
<1>1. CASE Quiet
  <2>1. UNCHANGED <<AskedSet, InFlight, Held, Told>>
    <3>1. UNCHANGED <<fate, cache, sx, reply>>
      BY <1>1, QuietKeeps
    <3>2. Gathered' = Gathered
      BY <3>1, UrlsKept
    <3>. QED
      BY <3>1, <3>2 DEF AskedSet, InFlight, Held, Told, Asked
  <2>. QED
    BY <2>1, ContractSteps
<1>2. CASE \E t \in Threads : Refusal(t)
  <2>1. /\ \A p \in Providers : /\ Asked(p)' <=> Asked(p)
                               /\ fate'[p].outcome = fate[p].outcome
        /\ Gathered' = Gathered /\ UNCHANGED <<cache, sx, reply>>
    BY <1>2, RefusalKeeps
  <2>2. UNCHANGED <<AskedSet, InFlight>>
    BY <2>1 DEF AskedSet, InFlight
  <2>3. UNCHANGED <<Held, Told>>
    BY <2>1 DEF Held, Told
  <2>. QED
    BY <2>2, <2>3, ContractSteps
<1>3. CASE \E t \in Threads : Admit(t)
  <2>1. PICK c \in Providers :
          /\ ~Asked(c) /\ Asked(c)' /\ fate'[c].outcome = ""
          /\ \A p \in Providers \ {c} : fate'[p] = fate[p]
          /\ \A p \in Providers : Asked(p) => fate[p].outcome # ""
          /\ Gathered' = Gathered /\ UNCHANGED <<cache, sx, reply>>
          /\ reply.outcome = "none"
    BY <1>3, AdmitAsks
  <2>2. \A p \in Providers \ {c} : Asked(p)' <=> Asked(p)
    BY <2>1 DEF Asked
  <2>3. c \notin AskedSet /\ InFlight = {} /\ AskedSet' = AskedSet \cup {c}
    BY <2>1, <2>2 DEF AskedSet, InFlight
  <2>4. InFlight' = {c}
    <3>1. \A p \in Providers \ {c} : Asked(p)' => fate'[p].outcome # ""
      BY <2>1, <2>2
    <3>. QED
      BY <2>1, <3>1 DEF InFlight
  <2>5. UNCHANGED <<Held, Told>>
    BY <2>1 DEF Held, Told
  <2>. QED
    BY <2>1, <2>3, <2>4, <2>5, ToldPending, ContractSteps
<1>4. CASE \E t \in Threads : CallReturns(t)
  <2>1. PICK c \in Providers, us \in SUBSET URLs :
          /\ Asked(c) /\ fate[c].outcome = ""
          /\ Asked(c)' /\ fate'[c].outcome # ""
          /\ \A p \in Providers \ {c} : fate'[p] = fate[p]
          /\ Gathered' = Gathered \cup us /\ UNCHANGED <<cache, sx, reply>>
    BY <1>4, ReturnAdds
  <2>2. \A p \in Providers \ {c} : Asked(p)' <=> Asked(p)
    BY <2>1 DEF Asked
  <2>3. AskedSet' = AskedSet /\ c \in InFlight
    BY <2>1, <2>2 DEF AskedSet, InFlight
  <2>4. InFlight' = InFlight \ {c}
    BY <2>1, <2>2 DEF InFlight
  <2>5. Held' = Held \cup us /\ Told' = Told
    BY <2>1 DEF Held, Told
  <2>. QED
    BY <2>3, <2>4, <2>5, ContractSteps
<1>5. CASE StageSucceeds
  <2>1. /\ UNCHANGED <<fate, cache, reply>> /\ sx' \in SUBSET URLs
        /\ pc = "stage" /\ sx = {} /\ reply.outcome = "none"
    BY <1>5 DEF StageSucceeds, SearchInv, Control
  <2>2. PremiumURLs' = PremiumURLs
    BY <2>1, UrlsKept
  <2>3. Held' = Held \cup sx' /\ Told' = Told
    BY <2>1, <2>2 DEF Held, Gathered, Told
  <2>4. UNCHANGED <<AskedSet, InFlight>>
    BY <2>1 DEF AskedSet, InFlight, Asked
  <2>5. PICK us \in SUBSET URLs : us = sx'
    BY <2>1
  <2>. QED
    BY <2>1, <2>3, <2>4, <2>5, ToldPending, ContractSteps
<1>6. CASE CacheHit
  <2>1. /\ UNCHANGED <<fate, cache, sx>> /\ pc = "cache"
        /\ reply.outcome = "none"
    BY <1>6 DEF CacheHit, loopVars, SearchInv, Control
  <2>2. PICK us \in cache : reply' = [outcome |-> "cache_hit", urls |-> us]
    BY <1>6 DEF CacheHit
  <2>3. UNION cache = us
    BY <2>1, <2>2 DEF SearchInv, Control
  <2>4. Gathered = {} /\ Gathered' = Gathered
    BY <2>1, AtCache, UrlsKept DEF Gathered
  <2>5. Held = us /\ Held' = Held
    BY <2>1, <2>3, <2>4 DEF Held
  <2>6. InFlight = {} /\ UNCHANGED <<AskedSet, InFlight>>
    BY <2>1, AtCache, Parts DEF AskedSet, InFlight, Asked
  <2>7. Told' = Contract!Answer(Held)
    BY <2>2, <2>5 DEF Told, Contract!Answer
  <2>. QED
    BY <2>1, <2>5, <2>6, <2>7, ToldPending, ContractSteps
<1>7. CASE FinishEmpty \/ FinishWithResults
  <2>1. /\ UNCHANGED <<fate, sx>> /\ pc = "finish" /\ reply.outcome = "none"
    BY <1>7 DEF FinishEmpty, FinishWithResults, loopVars, SearchInv, Control
  <2>2. /\ \A p \in Providers : Asked(p) => fate[p].outcome # ""
        /\ PremiumPart = PremiumURLs /\ cache = {}
    BY <2>1, AtFinish DEF Returned
  <2>3. Held = Gathered /\ Gathered' = Gathered
    BY <2>1, <2>2, UrlsKept DEF Held
  <2>4. InFlight = {} /\ UNCHANGED <<AskedSet, InFlight>>
    BY <2>1, <2>2 DEF AskedSet, InFlight, Asked
  <2>5. CASE FinishEmpty
    <3>1. Gathered = {} /\ cache' = cache
      BY <2>2, <2>5 DEF FinishEmpty, Gathered
    <3>2. /\ reply'.urls = {}
          /\ reply'.outcome \in {"timeout", "no_results", "fallback_fail"}
      BY <2>5 DEF FinishEmpty, ZeroOutcome
    <3>3. \/ Told' = Contract!Answer(Held)
          \/ Held = {} /\ Told' = Contract!Failed
      BY <2>3, <3>1, <3>2 DEF Told, Contract!Answer, Contract!Failed
    <3>4. Held' = Held
      BY <2>3, <3>1 DEF Held
    <3>. QED
      BY <2>1, <2>4, <3>3, <3>4, ToldPending, ContractSteps
  <2>6. CASE FinishWithResults
    <3>1. PremiumPart \cup SearxngPart = Gathered
      BY <2>2 DEF SearxngPart, Gathered
    <3>2. /\ reply'.urls = Gathered /\ cache' = {Gathered}
          /\ reply'.outcome \in {"searxng_ok", "premium_ok",
                                 "searxng_plus_premium_ok"}
      BY <2>6, <3>1 DEF FinishWithResults, SuccessOutcome
    <3>3. Told' = Contract!Answer(Held)
      BY <2>3, <3>2 DEF Told, Contract!Answer
    <3>4. Held' = Held
      BY <2>3, <3>2 DEF Held
    <3>. QED
      BY <2>1, <2>4, <3>3, <3>4, ToldPending, ContractSteps
  <2>. QED
    BY <1>7, <2>5, <2>6
<1>. QED
  BY <1>1, <1>2, <1>3, <1>4, <1>5, <1>6, <1>7, StepCases

(* The request keeps the safety part of RequestContract: no provider       *)
(* twice, no two calls at once, and nothing gathered is lost               *)
(* (proxy.go:113-415, 447-544).                                            *)
THEOREM ContractSafety ==
  Spec => Contract!Init /\ [][Contract!Next]_(Contract!vars)
<1>1. SearchInv /\ [Next]_vars => [Contract!Next]_(Contract!vars)
  BY StepContract
<1>. QED
  BY <1>1, InitContract, SearchInvariant, PTL DEF Spec
=============================================================================
