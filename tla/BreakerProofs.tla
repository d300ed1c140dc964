--------------------------- MODULE BreakerProofs ---------------------------
(***************************************************************************)
(* Proofs that every breaker of internal/breaker, for any number of        *)
(* callers, observers, reasons and probes, keeps BreakerInv, and with it   *)
(* the provenance of its trips and its half-open probe slots.              *)
(***************************************************************************)
EXTENDS Breaker, FiniteSetTheorems, TLAPS

-----------------------------------------------------------------------------
(* Lemmas about gobreaker's functions.                                     *)

(* A new generation is consistent and has no admissions. *)
LEMMA NewGenerationFacts ==
  ASSUME NEW s \in States
  PROVE  /\ Consistent(NewGeneration(s))
         /\ NewGeneration(s).state = s
         /\ NewGeneration(s).live = {}
         /\ ~NewGeneration(s).expired
<1>. DEFINE g == NewGeneration(s)
<1>1. /\ g.state = s /\ g.expired = FALSE /\ g.requests = 0
      /\ g.successes = 0 /\ g.failures = 0 /\ g.live = {}
  BY DEF NewGeneration
<1>2. g \in BreakerType
  BY MaxRequestsAssumption DEF NewGeneration, BreakerType, States, TripAfter
<1>3. Cardinality({}) = 0
  BY FS_EmptySet
<1>. QED
  BY <1>1, <1>2, <1>3 DEF Consistent

(* currentState keeps a breaker consistent, never opens it, and can only   *)
(* forget admissions.                                                      *)
LEMMA CurrentStateFacts ==
  ASSUME NEW b, Consistent(b)
  PROVE  /\ Consistent(CurrentState(b))
         /\ CurrentState(b).state = "open" => CurrentState(b) = b
         /\ CurrentState(b).live \subseteq b.live
         /\ b.state # "open" => CurrentState(b).state = b.state
<1>1. b \in BreakerType /\ b.state \in States
  BY DEF Consistent, BreakerType
<1>2. CASE ~b.expired
  BY <1>2 DEF CurrentState
<1>3. CASE b.expired /\ b.state = "open"
  <2>1. CurrentState(b) = NewGeneration("half_open")
    BY <1>3 DEF CurrentState
  <2>2. "half_open" \in States /\ "half_open" # "open"
    BY DEF States
  <2>. QED
    BY <2>1, <2>2, <1>3, NewGenerationFacts
<1>4. CASE b.expired /\ b.state # "open"
  <2>1. CurrentState(b) = NewGeneration(b.state)
    BY <1>4 DEF CurrentState
  <2>. QED
    BY <2>1, <1>1, <1>4, NewGenerationFacts
<1>. QED
  BY <1>2, <1>3, <1>4

(* The admissions in flight are finitely many. *)
LEMMA LiveFinite ==
  ASSUME NEW b \in BreakerType
  PROVE  IsFiniteSet(b.live) /\ Cardinality(b.live) \in Nat
BY CallersAssumption, FS_Subset, FS_CardinalityType DEF BreakerType

(* An admitted request of a caller without an admission in flight is       *)
(* counted exactly once.                                                   *)
LEMMA OnRequestFacts ==
  ASSUME NEW b, NEW c \in Callers, Consistent(b), c \notin b.live,
         Admission(b) = "admitted"
  PROVE  /\ Consistent(OnRequest(b, c))
         /\ OnRequest(b, c).state = b.state
         /\ OnRequest(b, c).live = b.live \cup {c}
<1>. DEFINE r == OnRequest(b, c)
<1>1. b \in BreakerType
  BY DEF Consistent
<1>2. b.state # "open"
  BY DEF Admission
<1>3. r = [b EXCEPT !.live = b.live \cup {c},
                    !.requests = IF b.state = "half_open"
                                   THEN b.requests + 1 ELSE b.requests]
  BY DEF OnRequest
<1>4. /\ r.state = b.state /\ r.expired = b.expired
      /\ r.successes = b.successes /\ r.failures = b.failures
      /\ r.live = b.live \cup {c}
      /\ r.requests = IF b.state = "half_open" THEN b.requests + 1
                                               ELSE b.requests
  BY <1>1, <1>3 DEF BreakerType
<1>5. r.requests \in 0..MaxRequests
  BY <1>1, <1>4, MaxRequestsAssumption DEF Admission, BreakerType
<1>6. r \in BreakerType
  BY <1>1, <1>3, <1>4, <1>5 DEF BreakerType
<1>7. Cardinality(r.live) = Cardinality(b.live) + 1
  BY <1>1, <1>4, LiveFinite, FS_AddElement
<1>8. b.successes \in Nat /\ b.requests \in Nat /\ Cardinality(b.live) \in Nat
  BY <1>1, LiveFinite, MaxRequestsAssumption DEF BreakerType
<1>. QED
  BY <1>2, <1>4, <1>6, <1>7, <1>8 DEF Consistent

(* A success keeps the counts, and opens nothing. *)
LEMMA OnSuccessFacts ==
  ASSUME NEW b, NEW c \in Callers, Consistent(b), c \in b.live
  PROVE  /\ Consistent(OnSuccess(b, c))
         /\ OnSuccess(b, c).state # "open"
         /\ OnSuccess(b, c).live \subseteq b.live \ {c}
<1>. DEFINE r == OnSuccess(b, c)
<1>1. b \in BreakerType /\ b.state # "open"
  BY DEF Consistent
<1>2. /\ Cardinality(b.live \ {c}) = Cardinality(b.live) - 1
      /\ Cardinality(b.live) \in Nat
  BY <1>1, LiveFinite, FS_RemoveElement
<1>3. CASE b.state = "half_open" /\ b.successes + 1 >= MaxRequests
  <2>1. r = NewGeneration("closed")
    BY <1>3 DEF OnSuccess
  <2>2. "closed" \in States /\ "closed" # "open"
    BY DEF States
  <2>. QED
    BY <2>1, <2>2, NewGenerationFacts
<1>4. CASE b.state = "half_open" /\ ~(b.successes + 1 >= MaxRequests)
  <2>1. r = [b EXCEPT !.live = b.live \ {c}, !.successes = b.successes + 1]
    BY <1>4 DEF OnSuccess
  <2>2. /\ r.state = b.state /\ r.expired = b.expired
        /\ r.requests = b.requests /\ r.failures = b.failures
        /\ r.live = b.live \ {c} /\ r.successes = b.successes + 1
    BY <1>1, <2>1 DEF BreakerType
  <2>3. b.successes + 1 \in 0..(MaxRequests - 1) /\ b.successes \in Nat
    BY <1>1, <1>4, MaxRequestsAssumption DEF BreakerType
  <2>4. r \in BreakerType
    BY <1>1, <2>1, <2>2, <2>3 DEF BreakerType
  <2>. QED
    BY <1>1, <1>2, <1>4, <2>2, <2>3, <2>4 DEF Consistent
<1>5. CASE b.state # "half_open"
  <2>1. r = [b EXCEPT !.live = b.live \ {c}, !.failures = 0]
    BY <1>5 DEF OnSuccess
  <2>2. /\ r.state = b.state /\ r.expired = b.expired
        /\ r.requests = b.requests /\ r.successes = b.successes
        /\ r.live = b.live \ {c} /\ r.failures = 0
    BY <1>1, <2>1 DEF BreakerType
  <2>3. 0 \in 0..(TripAfter - 1)
    BY DEF TripAfter
  <2>4. r \in BreakerType
    BY <1>1, <2>1, <2>2, <2>3 DEF BreakerType
  <2>. QED
    BY <1>1, <1>5, <2>2, <2>4 DEF Consistent
<1>. QED
  BY <1>3, <1>4, <1>5

(* A failure keeps the counts. *)
LEMMA OnFailureFacts ==
  ASSUME NEW b, NEW c \in Callers, Consistent(b), c \in b.live
  PROVE  /\ Consistent(OnFailure(b, c))
         /\ OnFailure(b, c).live \subseteq b.live \ {c}
<1>. DEFINE r == OnFailure(b, c)
<1>1. b \in BreakerType
  BY DEF Consistent
<1>2. CASE b.state = "closed" /\ b.failures + 1 < TripAfter
  <2>1. r = [b EXCEPT !.live = b.live \ {c}, !.failures = b.failures + 1]
    BY <1>2 DEF OnFailure
  <2>2. /\ r.state = b.state /\ r.expired = b.expired
        /\ r.requests = b.requests /\ r.successes = b.successes
        /\ r.live = b.live \ {c} /\ r.failures = b.failures + 1
    BY <1>1, <2>1 DEF BreakerType
  <2>3. b.failures + 1 \in 0..(TripAfter - 1)
    BY <1>1, <1>2 DEF BreakerType, TripAfter
  <2>4. r \in BreakerType
    BY <1>1, <2>1, <2>2, <2>3 DEF BreakerType
  <2>. QED
    BY <1>1, <1>2, <2>2, <2>4 DEF Consistent
<1>3. CASE ~(b.state = "closed" /\ b.failures + 1 < TripAfter)
  <2>1. r = NewGeneration("open")
    BY <1>3 DEF OnFailure
  <2>2. "open" \in States
    BY DEF States
  <2>. QED
    BY <2>1, <2>2, NewGenerationFacts
<1>. QED
  BY <1>2, <1>3

(* afterRequest: the caller's admission is spent, and a breaker that this  *)
(* opens was opened by a fault of a current admission.                     *)
LEMMA AfterRequestFacts ==
  ASSUME NEW b, NEW c \in Callers, NEW v, Consistent(b)
  PROVE  /\ Consistent(AfterRequest(b, c, v))
         /\ AfterRequest(b, c, v).live \subseteq b.live \ {c}
         /\ (AfterRequest(b, c, v).state = "open" /\ b.state # "open")
              => c \in b.live
         /\ c \notin b.live => AfterRequest(b, c, v) = b
<1>1. CASE c \notin b.live
  BY <1>1 DEF AfterRequest
<1>2. CASE c \in b.live /\ v = NoReason
  BY <1>2, OnSuccessFacts DEF AfterRequest
<1>3. CASE c \in b.live /\ v # NoReason
  BY <1>3, OnFailureFacts DEF AfterRequest
<1>. QED
  BY <1>1, <1>2, <1>3

-----------------------------------------------------------------------------
(* The steps of the specification.                                         *)

(* What a change of the breaker does to the metrics of its callback. *)
LEMMA BecomesFacts ==
  ASSUME TypeOK, NEW b, Consistent(b), Becomes(b)
  PROVE  /\ cb' = b
         /\ gauge' \in States
         /\ triggeredReason' \in Verdicts
         /\ (b.state = "open" /\ cb.state # "open")
              => triggeredReason' = accountingReason
         /\ ~(b.state = "open" /\ cb.state # "open")
              => triggeredReason' = triggeredReason
<1>1. b.state \in States
  BY DEF Consistent, BreakerType
<1>. QED
  BY <1>1 DEF Becomes, TypeOK

(* A lazy transition outside the mutex's sections: the callers keep their  *)
(* places, and nothing that the invariant says of a trip is disturbed.     *)
LEMMA LazyStep ==
  ASSUME BreakerInv, Becomes(CurrentState(cb)),
         UNCHANGED <<entryVars, pc, verdict, before, answer>>,
         seen' \in [Observers -> States \cup {NotRead}]
  PROVE  BreakerInv'
<1>1. Consistent(cb) /\ TypeOK
  BY DEF BreakerInv
<1>2. /\ Consistent(CurrentState(cb))
      /\ CurrentState(cb).state = "open" => CurrentState(cb) = cb
      /\ CurrentState(cb).live \subseteq cb.live
      /\ cb.state # "open" => CurrentState(cb).state = cb.state
  BY <1>1, CurrentStateFacts
<1>3. /\ cb' = CurrentState(cb) /\ gauge' \in States
      /\ triggeredReason' \in Verdicts
      /\ triggeredReason' = triggeredReason
  BY <1>1, <1>2, BecomesFacts
<1>4. TypeOK'
  BY <1>1, <1>2, <1>3 DEF TypeOK, Consistent, entryVars
<1>5. Consistent(cb)'
  BY <1>2, <1>3 DEF Consistent
<1>6. \A c \in Callers : InSection(c)' <=> mu' = c
  BY DEF BreakerInv, InSection, entryVars
<1>7. \A c \in cb'.live :
        pc'[c] \in {"admitted", "calling", "reporting", "accounting"}
  BY <1>2, <1>3 DEF BreakerInv
<1>8. \A c \in Callers : pc'[c] = "accounting" =>
        /\ accountingReason' = verdict'[c]
        /\ before'[c] = "open" => c \notin cb'.live
        /\ before'[c] # "open" => cb'.state # "open"
  BY <1>2, <1>3 DEF BreakerInv, entryVars
<1>9. cb'.state = "open" =>
        \/ tripReason' = triggeredReason'
        \/ \E c \in Callers : pc'[c] = "finishing" /\ before'[c] # "open"
  BY <1>2, <1>3 DEF BreakerInv, entryVars
<1>10. \A c \in Callers :
         pc'[c] = "finishing" /\ before'[c] # "open" /\ cb'.state = "open"
           => verdict'[c] = triggeredReason'
  BY <1>2, <1>3 DEF BreakerInv
<1>. QED
  BY <1>4, <1>5, <1>6, <1>7, <1>8, <1>9, <1>10 DEF BreakerInv

LEMMA InitInv == Init => BreakerInv
<1>. SUFFICES ASSUME Init PROVE BreakerInv
  OBVIOUS
<1>1. "closed" \in States /\ "closed" # "open"
  BY DEF States
<1>2. /\ Consistent(cb) /\ cb.live = {} /\ cb.state # "open"
  BY <1>1, NewGenerationFacts DEF Init
<1>3. TypeOK
  BY <1>1, <1>2 DEF Init, TypeOK, Verdicts, Consistent
<1>4. \A c \in Callers : InSection(c) <=> mu = c
  BY NamesAssumption DEF Init, InSection
<1>. QED
  BY <1>2, <1>3, <1>4 DEF Init, BreakerInv

LEMMA ExpireInv == BreakerInv /\ Expire => BreakerInv'
<1>. SUFFICES ASSUME BreakerInv, Expire PROVE BreakerInv'
  OBVIOUS
<1>1. cb \in BreakerType /\ Consistent(cb) /\ cb.state # "half_open"
  BY DEF BreakerInv, Expire, Consistent
<1>2. /\ cb' = [cb EXCEPT !.expired = TRUE]
      /\ cb'.state = cb.state /\ cb'.live = cb.live
      /\ cb'.requests = cb.requests /\ cb'.successes = cb.successes
  BY <1>1 DEF Expire, BreakerType
<1>3. cb' \in BreakerType
  BY <1>1, <1>2 DEF BreakerType
<1>4. Consistent(cb)'
  BY <1>1, <1>2, <1>3 DEF Consistent
<1>5. TypeOK'
  BY <1>3 DEF BreakerInv, TypeOK, Expire, entryVars, metricVars
<1>. QED
  BY <1>2, <1>4, <1>5
  DEF BreakerInv, Expire, InSection, entryVars, metricVars

LEMMA AllowAdmitInv ==
  ASSUME BreakerInv, NEW c \in Callers, AllowAdmit(c)
  PROVE  BreakerInv'
<1>. DEFINE b == CurrentState(cb)
            n == IF Admission(b) = "admitted" THEN OnRequest(b, c) ELSE b
<1>1. Consistent(cb) /\ TypeOK /\ pc[c] = "idle" /\ mu = NoOne
  BY DEF BreakerInv, AllowAdmit
<1>2. /\ Consistent(b)
      /\ b.state = "open" => b = cb
      /\ b.live \subseteq cb.live
      /\ cb.state # "open" => b.state = cb.state
  BY <1>1, CurrentStateFacts
<1>3. c \notin b.live
  BY <1>1, <1>2 DEF BreakerInv
<1>4. /\ Consistent(n) /\ n.state = b.state
      /\ n.live \subseteq b.live \cup {c}
      /\ c \in n.live => Admission(b) = "admitted"
  BY <1>2, <1>3, OnRequestFacts
<1>5. /\ cb' = n /\ gauge' \in States /\ triggeredReason' \in Verdicts
      /\ triggeredReason' = triggeredReason
  <2>1. Becomes(n)
    BY DEF AllowAdmit
  <2>. QED
    BY <1>1, <1>2, <1>4, <2>1, BecomesFacts
<1>6. /\ pc' = [pc EXCEPT ![c] = Admission(b)]
      /\ Admission(b) \in {"admitted", "err_open", "err_too_many"}
      /\ mu' = c
      /\ UNCHANGED <<tripReason, accountingReason, verdict, before, seen>>
      /\ answer' \in [Callers -> Verdicts \cup {Contention}]
  BY <1>1 DEF AllowAdmit, Admission, TypeOK, Verdicts
<1>7. /\ pc'[c] = Admission(b)
      /\ \A d \in Callers \ {c} : pc'[d] = pc[d]
      /\ pc' \in [Callers -> {"idle", "admitted", "err_open", "err_too_many",
                 "calling", "reporting", "accounting", "finishing"}]
  BY <1>1, <1>6 DEF TypeOK
<1>8. TypeOK'
  BY <1>1, <1>4, <1>5, <1>6, <1>7 DEF TypeOK, Consistent
<1>9. \A d \in Callers : ~InSection(d)
  BY <1>1, NamesAssumption DEF BreakerInv
<1>10. \A d \in Callers : InSection(d)' <=> mu' = d
  BY <1>6, <1>7, <1>9 DEF InSection
<1>11. \A d \in cb'.live :
         pc'[d] \in {"admitted", "calling", "reporting", "accounting"}
  <2>. SUFFICES ASSUME NEW d \in cb'.live
                PROVE pc'[d] \in {"admitted", "calling", "reporting", "accounting"}
    OBVIOUS
  <2>1. d \in Callers /\ (d = c \/ d \in cb.live)
    BY <1>2, <1>4, <1>5 DEF Consistent, BreakerType
  <2>. QED
    BY <2>1, <1>4, <1>5, <1>7 DEF BreakerInv
<1>12. \A d \in Callers : pc'[d] \notin {"accounting", "finishing"}
  BY <1>6, <1>7, <1>9 DEF InSection
<1>13. cb'.state = "open" => tripReason' = triggeredReason'
  BY <1>2, <1>4, <1>5, <1>6, <1>9 DEF BreakerInv, InSection
<1>14. Consistent(cb)'
  BY <1>4, <1>5 DEF Consistent
<1>. QED
  BY <1>8, <1>10, <1>11, <1>12, <1>13, <1>14 DEF BreakerInv

LEMMA AllowObserveInv ==
  ASSUME BreakerInv, NEW c \in Callers, AllowObserve(c)
  PROVE  BreakerInv'
<1>. DEFINE b == CurrentState(cb)
<1>1. /\ Consistent(cb) /\ TypeOK /\ mu = c
      /\ pc[c] \in {"admitted", "err_open", "err_too_many"}
      /\ InSection(c)
  BY DEF BreakerInv, AllowObserve, InSection
<1>2. /\ Consistent(b)
      /\ b.state = "open" => b = cb
      /\ b.live \subseteq cb.live
      /\ cb.state # "open" => b.state = cb.state
  BY <1>1, CurrentStateFacts
<1>3. Becomes(b)
  BY DEF AllowObserve
<1>4. /\ cb' = b /\ gauge' \in States /\ triggeredReason' \in Verdicts
      /\ triggeredReason' = triggeredReason
  BY <1>1, <1>2, <1>3, BecomesFacts
<1>5. /\ pc' = [pc EXCEPT ![c] = IF pc[c] = "admitted" THEN "calling" ELSE "idle"]
      /\ mu' = NoOne
      /\ UNCHANGED <<tripReason, accountingReason, verdict, before, seen>>
  BY DEF AllowObserve
<1>6. answer' \in [Callers -> Verdicts \cup {Contention}]
  BY <1>1 DEF AllowObserve, Rejection, TypeOK, Verdicts
<1>7. /\ pc'[c] = IF pc[c] = "admitted" THEN "calling" ELSE "idle"
      /\ \A d \in Callers \ {c} : pc'[d] = pc[d]
      /\ pc' \in [Callers -> {"idle", "admitted", "err_open", "err_too_many",
                 "calling", "reporting", "accounting", "finishing"}]
  BY <1>1, <1>5 DEF TypeOK
<1>8. TypeOK'
  BY <1>1, <1>2, <1>4, <1>5, <1>6, <1>7 DEF TypeOK, Consistent
<1>9. \A d \in Callers \ {c} : ~InSection(d)
  BY <1>1 DEF BreakerInv
<1>10. \A d \in Callers : ~InSection(d)'
  BY <1>7, <1>9 DEF InSection
<1>11. \A d \in Callers : InSection(d)' <=> mu' = d
  BY <1>5, <1>10, NamesAssumption
<1>12. \A d \in cb'.live :
         pc'[d] \in {"admitted", "calling", "reporting", "accounting"}
  <2>. SUFFICES ASSUME NEW d \in cb'.live
                PROVE pc'[d] \in {"admitted", "calling", "reporting", "accounting"}
    OBVIOUS
  <2>1. d \in Callers /\ d \in cb.live
    BY <1>1, <1>2, <1>4 DEF Consistent, BreakerType
  <2>2. pc[d] \in {"admitted", "calling", "reporting", "accounting"}
    BY <2>1 DEF BreakerInv
  <2>. QED
    BY <1>1, <1>7, <2>1, <2>2
<1>13. \A d \in Callers : pc'[d] \notin {"accounting", "finishing"}
  BY <1>10 DEF InSection
<1>14. \A d \in Callers : pc[d] # "finishing"
  BY <1>1, <1>9 DEF InSection
<1>15. cb'.state = "open" => tripReason' = triggeredReason'
  BY <1>2, <1>4, <1>5, <1>14 DEF BreakerInv
<1>16. Consistent(cb)'
  BY <1>2, <1>4 DEF Consistent
<1>. QED
  BY <1>8, <1>11, <1>12, <1>13, <1>15, <1>16 DEF BreakerInv

LEMMA ReportInv ==
  ASSUME BreakerInv, NEW c \in Callers, NEW v \in Verdicts, Report(c, v)
  PROVE  BreakerInv'
<1>1. /\ TypeOK /\ pc[c] = "calling" /\ ~InSection(c)
      /\ pc' = [pc EXCEPT ![c] = "reporting"]
      /\ verdict' = [verdict EXCEPT ![c] = v]
      /\ UNCHANGED <<cb, entryVars, metricVars, before, answer, seen>>
  BY DEF BreakerInv, Report, InSection
<1>2. /\ pc'[c] = "reporting"
      /\ \A d \in Callers \ {c} : pc'[d] = pc[d] /\ verdict'[d] = verdict[d]
  BY <1>1 DEF TypeOK
<1>3. TypeOK'
  BY <1>1 DEF TypeOK, entryVars, metricVars
<1>4. \A d \in Callers : InSection(d)' <=> mu' = d
  <2>1. mu' = mu /\ ~InSection(c)'
    BY <1>1, <1>2 DEF InSection, entryVars
  <2>2. \A d \in Callers \ {c} : InSection(d)' <=> InSection(d)
    BY <1>2 DEF InSection
  <2>. QED
    BY <1>1, <2>1, <2>2 DEF BreakerInv
<1>5. \A d \in cb'.live :
        pc'[d] \in {"admitted", "calling", "reporting", "accounting"}
  <2>1. cb' = cb /\ cb.live \subseteq Callers
    BY <1>1 DEF TypeOK, BreakerType
  <2>. QED
    BY <1>2, <2>1 DEF BreakerInv
<1>6. /\ Consistent(cb)'
      /\ \A d \in Callers : pc'[d] = "accounting" =>
           /\ accountingReason' = verdict'[d]
           /\ before'[d] = "open" => d \notin cb'.live
           /\ before'[d] # "open" => cb'.state # "open"
  BY <1>1, <1>2 DEF BreakerInv, entryVars, Consistent
<1>7. cb'.state = "open" =>
        \/ tripReason' = triggeredReason'
        \/ \E d \in Callers : pc'[d] = "finishing" /\ before'[d] # "open"
  BY <1>1, <1>2 DEF BreakerInv, entryVars, metricVars
<1>8. \A d \in Callers :
        pc'[d] = "finishing" /\ before'[d] # "open" /\ cb'.state = "open"
          => verdict'[d] = triggeredReason'
  BY <1>1, <1>2 DEF BreakerInv, metricVars
<1>. QED
  BY <1>3, <1>4, <1>5, <1>6, <1>7, <1>8 DEF BreakerInv

LEMMA DoneBeforeInv ==
  ASSUME BreakerInv, NEW c \in Callers, DoneBefore(c)
  PROVE  BreakerInv'
<1>. DEFINE b == CurrentState(cb)
<1>1. /\ Consistent(cb) /\ TypeOK /\ mu = NoOne /\ pc[c] = "reporting"
  BY DEF BreakerInv, DoneBefore
<1>2. /\ Consistent(b)
      /\ b.state = "open" => b = cb
      /\ b.live \subseteq cb.live
      /\ cb.state # "open" => b.state = cb.state
  BY <1>1, CurrentStateFacts
<1>3. /\ cb' = b /\ gauge' \in States /\ triggeredReason' \in Verdicts
      /\ triggeredReason' = triggeredReason
  <2>1. Becomes(b)
    BY DEF DoneBefore
  <2>. QED
    BY <1>1, <1>2, <2>1, BecomesFacts
<1>4. /\ pc' = [pc EXCEPT ![c] = "accounting"]
      /\ before' = [before EXCEPT ![c] = b.state]
      /\ accountingReason' = verdict[c]
      /\ mu' = c
      /\ UNCHANGED <<tripReason, verdict, answer, seen>>
  BY DEF DoneBefore
<1>5. /\ pc'[c] = "accounting" /\ before'[c] = b.state
      /\ \A d \in Callers \ {c} : pc'[d] = pc[d] /\ before'[d] = before[d]
      /\ b.state \in States
  BY <1>1, <1>2, <1>4 DEF TypeOK, Consistent, BreakerType
<1>6. TypeOK'
  BY <1>1, <1>2, <1>3, <1>4, <1>5 DEF TypeOK, Consistent
<1>7. \A d \in Callers : ~InSection(d)
  BY <1>1, NamesAssumption DEF BreakerInv
<1>8. \A d \in Callers : InSection(d)' <=> mu' = d
  BY <1>4, <1>5, <1>7 DEF InSection
<1>9. \A d \in Callers \ {c} : pc'[d] \notin {"accounting", "finishing"}
  BY <1>5, <1>7 DEF InSection
<1>10. \A d \in cb'.live :
         pc'[d] \in {"admitted", "calling", "reporting", "accounting"}
  <2>1. cb'.live \subseteq cb.live /\ cb.live \subseteq Callers
    BY <1>1, <1>2, <1>3 DEF Consistent, BreakerType
  <2>. QED
    BY <1>5, <2>1 DEF BreakerInv
<1>11. b.state = "open" => c \notin b.live
  BY <1>2 DEF Consistent
<1>12. cb'.state = "open" => tripReason' = triggeredReason'
  BY <1>2, <1>3, <1>4, <1>7 DEF BreakerInv, InSection
<1>13. Consistent(cb)'
  BY <1>2, <1>3 DEF Consistent
<1>14. \A d \in Callers : pc'[d] = "accounting" =>
        /\ accountingReason' = verdict'[d]
        /\ before'[d] = "open" => d \notin cb'.live
        /\ before'[d] # "open" => cb'.state # "open"
  BY <1>3, <1>4, <1>5, <1>9, <1>11
<1>15. \A d \in Callers : pc'[d] # "finishing"
  BY <1>5, <1>9
<1>. QED
  BY <1>6, <1>8, <1>10, <1>12, <1>13, <1>14, <1>15 DEF BreakerInv

LEMMA DoneAccountInv ==
  ASSUME BreakerInv, NEW c \in Callers, DoneAccount(c)
  PROVE  BreakerInv'
<1>. DEFINE b == CurrentState(cb)
            n == AfterRequest(b, c, verdict[c])
<1>1. /\ Consistent(cb) /\ TypeOK /\ pc[c] = "accounting" /\ mu = c
      /\ accountingReason = verdict[c]
      /\ before[c] = "open" => c \notin cb.live
      /\ before[c] # "open" => cb.state # "open"
  BY DEF BreakerInv, DoneAccount, InSection
<1>2. /\ Consistent(b)
      /\ b.state = "open" => b = cb
      /\ b.live \subseteq cb.live
      /\ cb.state # "open" => b.state = cb.state
  BY <1>1, CurrentStateFacts
<1>3. /\ Consistent(n) /\ n.live \subseteq b.live \ {c}
      /\ n.state = "open" /\ b.state # "open" => c \in b.live
      /\ c \notin b.live => n = b
  BY <1>2, AfterRequestFacts
<1>4. /\ cb' = n /\ gauge' \in States /\ triggeredReason' \in Verdicts
      /\ n.state = "open" /\ cb.state # "open"
           => triggeredReason' = accountingReason
      /\ ~(n.state = "open" /\ cb.state # "open")
           => triggeredReason' = triggeredReason
  <2>1. Becomes(n)
    BY DEF DoneAccount
  <2>. QED
    BY <1>1, <1>3, <2>1, BecomesFacts
<1>5. /\ pc' = [pc EXCEPT ![c] = "finishing"]
      /\ accountingReason' = NoReason
      /\ UNCHANGED <<mu, tripReason, verdict, before, answer, seen>>
  BY DEF DoneAccount
<1>6. /\ pc'[c] = "finishing"
      /\ \A d \in Callers \ {c} : pc'[d] = pc[d]
  BY <1>1, <1>5 DEF TypeOK
<1>7. TypeOK'
  BY <1>1, <1>3, <1>4, <1>5, <1>6 DEF TypeOK, Consistent, Verdicts
<1>8. \A d \in Callers \ {c} : ~InSection(d)
  BY <1>1 DEF BreakerInv
<1>9. \A d \in Callers : InSection(d)' <=> mu' = d
  BY <1>1, <1>5, <1>6, <1>8 DEF InSection
<1>10. \A d \in Callers \ {c} : pc'[d] \notin {"accounting", "finishing"}
  BY <1>6, <1>8 DEF InSection
<1>11. \A d \in cb'.live :
         pc'[d] \in {"admitted", "calling", "reporting", "accounting"}
  <2>1. cb'.live \subseteq cb.live \ {c} /\ cb.live \subseteq Callers
    BY <1>1, <1>2, <1>3, <1>4 DEF Consistent, BreakerType
  <2>. QED
    BY <1>6, <2>1 DEF BreakerInv
<1>12. CASE before[c] = "open"
  \* The admission died with the trip that was seen before: nothing counts.
  <2>1. c \notin b.live /\ n = b
    BY <1>1, <1>2, <1>3, <1>12
  <2>2. cb'.state = "open" => cb.state = "open" /\ triggeredReason' = triggeredReason
    BY <1>2, <1>4, <2>1
  <2>3. \A d \in Callers : pc[d] # "finishing"
    BY <1>1, <1>8 DEF InSection
  <2>4. cb'.state = "open" => tripReason' = triggeredReason'
    BY <1>5, <2>2, <2>3 DEF BreakerInv
  <2>5. Consistent(cb)'
    BY <1>3, <1>4 DEF Consistent
  <2>6. \A d \in Callers : pc'[d] = "finishing" => before'[d] = "open"
    BY <1>5, <1>10, <1>12
  <2>7. \A d \in Callers : pc'[d] # "accounting"
    BY <1>6, <1>10
  <2>. QED
    BY <1>7, <1>9, <1>11, <2>4, <2>5, <2>6, <2>7 DEF BreakerInv
<1>13. CASE before[c] # "open"
  \* If the breaker is open now, this very outcome has tripped it.
  <2>1. cb'.state = "open" => triggeredReason' = verdict'[c]
    BY <1>1, <1>4, <1>5, <1>13
  <2>2. \E d \in Callers : pc'[d] = "finishing" /\ before'[d] # "open"
    BY <1>5, <1>6, <1>13
  <2>3. Consistent(cb)'
    BY <1>3, <1>4 DEF Consistent
  <2>4. \A d \in Callers : pc'[d] # "accounting"
    BY <1>6, <1>10
  <2>5. \A d \in Callers :
          pc'[d] = "finishing" /\ before'[d] # "open" /\ cb'.state = "open"
            => verdict'[d] = triggeredReason'
    BY <1>10, <2>1
  <2>. QED
    BY <1>7, <1>9, <1>11, <2>2, <2>3, <2>4, <2>5 DEF BreakerInv
<1>. QED
  BY <1>12, <1>13

LEMMA DoneAfterInv ==
  ASSUME BreakerInv, NEW c \in Callers, DoneAfter(c)
  PROVE  BreakerInv'
<1>. DEFINE b == CurrentState(cb)
<1>1. /\ Consistent(cb) /\ TypeOK /\ pc[c] = "finishing" /\ mu = c
  BY DEF BreakerInv, DoneAfter, InSection
<1>2. /\ Consistent(b)
      /\ b.state = "open" => b = cb
      /\ b.live \subseteq cb.live
      /\ cb.state # "open" => b.state = cb.state
  BY <1>1, CurrentStateFacts
<1>3. /\ cb' = b /\ gauge' \in States /\ triggeredReason' \in Verdicts
      /\ triggeredReason' = triggeredReason
  <2>1. Becomes(b)
    BY DEF DoneAfter
  <2>. QED
    BY <1>1, <1>2, <2>1, BecomesFacts
<1>4. /\ pc' = [pc EXCEPT ![c] = "idle"]
      /\ mu' = NoOne
      /\ tripReason' = IF before[c] # "open" /\ b.state = "open"
                         THEN verdict[c] ELSE tripReason
      /\ verdict' = [verdict EXCEPT ![c] = NoReason]
      /\ before' = [before EXCEPT ![c] = "closed"]
      /\ UNCHANGED <<accountingReason, answer, seen>>
  BY DEF DoneAfter
<1>5. /\ pc'[c] = "idle"
      /\ \A d \in Callers \ {c} : pc'[d] = pc[d]
      /\ "closed" \in States /\ NoReason \in Verdicts
  BY <1>1, <1>4 DEF TypeOK, States, Verdicts
<1>6. TypeOK'
  BY <1>1, <1>2, <1>3, <1>4, <1>5 DEF TypeOK, Consistent
<1>7. \A d \in Callers \ {c} : ~InSection(d)
  BY <1>1 DEF BreakerInv
<1>8. \A d \in Callers : ~InSection(d)'
  BY <1>5, <1>7 DEF InSection
<1>9. \A d \in Callers : InSection(d)' <=> mu' = d
  BY <1>4, <1>8, NamesAssumption
<1>10. \A d \in cb'.live :
         pc'[d] \in {"admitted", "calling", "reporting", "accounting"}
  <2>1. /\ cb'.live \subseteq cb.live /\ cb.live \subseteq Callers
        /\ c \notin cb.live
    BY <1>1, <1>2, <1>3 DEF Consistent, BreakerType, BreakerInv
  <2>. QED
    BY <1>5, <2>1 DEF BreakerInv
<1>11. cb'.state = "open" => tripReason' = triggeredReason'
  <2>. SUFFICES ASSUME cb'.state = "open"
                PROVE  tripReason' = triggeredReason
    BY <1>3
  <2>1. cb.state = "open" /\ b.state = "open"
    BY <1>2, <1>3
  <2>2. CASE before[c] # "open"
    BY <1>1, <1>4, <2>1, <2>2 DEF BreakerInv
  <2>3. CASE before[c] = "open"
    <3>1. \A d \in Callers : pc[d] = "finishing" => before[d] = "open"
      BY <1>7, <2>3 DEF InSection
    <3>. QED
      BY <1>4, <2>1, <2>3, <3>1 DEF BreakerInv
  <2>. QED
    BY <2>2, <2>3
<1>12. \A d \in Callers : pc'[d] \notin {"accounting", "finishing"}
  BY <1>8 DEF InSection
<1>13. Consistent(cb)'
  BY <1>2, <1>3 DEF Consistent
<1>. QED
  BY <1>6, <1>9, <1>10, <1>11, <1>12, <1>13 DEF BreakerInv

LEMMA SeenSetInv ==
  ASSUME BreakerInv, NEW o \in Observers, SeenSet(o)
  PROVE  BreakerInv'
<1>1. /\ TypeOK
      /\ gauge' = seen[o] /\ seen[o] # NotRead
      /\ seen' = [seen EXCEPT ![o] = NotRead]
      /\ UNCHANGED <<cb, entryVars, triggeredReason, pc, verdict, before, answer>>
  BY DEF BreakerInv, SeenSet
<1>2. TypeOK'
  BY <1>1 DEF TypeOK, entryVars
<1>. QED
  BY <1>1, <1>2 DEF BreakerInv, InSection, Consistent, entryVars

LEMMA LazyStepsInv ==
  ASSUME BreakerInv, NEW o \in Observers,
         ReadState(o) \/ Snapshot(o) \/ SeenRead(o)
  PROVE  BreakerInv'
<1>1. TypeOK /\ Consistent(cb)
  BY DEF BreakerInv
<1>2. CurrentState(cb).state \in States
  BY <1>1, CurrentStateFacts DEF Consistent, BreakerType
<1>3. seen' \in [Observers -> States \cup {NotRead}]
  BY <1>1, <1>2 DEF TypeOK, ReadState, Snapshot, SeenRead
<1>4. /\ Becomes(CurrentState(cb))
      /\ UNCHANGED <<entryVars, pc, verdict, before, answer>>
  BY DEF ReadState, Snapshot, SeenRead
<1>. QED
  BY <1>3, <1>4, LazyStep

-----------------------------------------------------------------------------
(* The theorems.                                                           *)

(* Every step of the breaker and its users preserves BreakerInv: the       *)
(* mutex, the admissions in flight and the bookkeeping of a trip stay      *)
(* consistent (breaker.go:146-172).                                        *)
THEOREM BreakerInvariant == Spec => []BreakerInv
<1>1. Init => BreakerInv
  BY InitInv
<1>2. BreakerInv /\ [Next]_vars => BreakerInv'
  <2>. SUFFICES ASSUME BreakerInv, [Next]_vars PROVE BreakerInv'
    OBVIOUS
  <2>1. CASE Expire
    BY <2>1, ExpireInv
  <2>2. ASSUME NEW c \in Callers, AllowAdmit(c) PROVE BreakerInv'
    BY <2>2, AllowAdmitInv
  <2>3. ASSUME NEW c \in Callers, CallerStep(c) PROVE BreakerInv'
    <3>1. CASE AllowObserve(c)
      BY <3>1, AllowObserveInv
    <3>2. ASSUME NEW v \in Verdicts, Report(c, v) PROVE BreakerInv'
      BY <3>2, ReportInv
    <3>3. CASE DoneBefore(c)
      BY <3>3, DoneBeforeInv
    <3>4. CASE DoneAccount(c)
      BY <3>4, DoneAccountInv
    <3>5. CASE DoneAfter(c)
      BY <3>5, DoneAfterInv
    <3>. QED
      BY <2>3, <3>1, <3>2, <3>3, <3>4, <3>5
      DEF CallerStep, ProviderReturns, RecordClientError, RecordSuccess, Verdicts
  <2>4. ASSUME NEW o \in Observers,
               ReadState(o) \/ Snapshot(o) \/ SeenRead(o) \/ SeenSet(o)
        PROVE  BreakerInv'
    BY <2>4, LazyStepsInv, SeenSetInv
  <2>5. CASE UNCHANGED vars
    BY <2>5 DEF vars, BreakerInv, TypeOK, Consistent, InSection
  <2>. QED
    BY <2>1, <2>2, <2>3, <2>4, <2>5 DEF Next
<1>. QED
  BY <1>1, <1>2, PTL DEF Spec

(* Every variable keeps its type. *)
THEOREM TypeCorrect == Spec => []TypeOK
<1>1. BreakerInv => TypeOK
  BY DEF BreakerInv
<1>. QED
  BY <1>1, BreakerInvariant, PTL

(* The reason Snapshot gives for an open breaker is always that of the     *)
(* trip that opened it (breaker.go:160-171, 198-212).                      *)
THEOREM SnapshotProvenance == Spec => []SnapshotNamesTrip
<1>1. BreakerInv => SnapshotNamesTrip
  <2>. SUFFICES ASSUME BreakerInv, mu = NoOne, SnapshotValue.state = "open"
                PROVE  SnapshotValue.reason = triggeredReason
    BY DEF SnapshotNamesTrip
  <2>1. CurrentState(cb).state = "open" /\ SnapshotValue.reason = tripReason
    BY DEF SnapshotValue
  <2>2. cb.state = "open"
    BY <2>1, CurrentStateFacts DEF BreakerInv
  <2>3. \A c \in Callers : pc[c] # "finishing"
    BY NamesAssumption DEF BreakerInv, InSection
  <2>. QED
    BY <2>1, <2>2, <2>3 DEF BreakerInv
<1>. QED
  BY <1>1, BreakerInvariant, PTL

(* At most MaxRequests probes of a half-open generation are in flight. *)
THEOREM ProbeBound == Spec => []ProbesBounded
<1>1. BreakerInv => ProbesBounded
  <2>. SUFFICES ASSUME BreakerInv, cb.state = "half_open"
                PROVE  Cardinality(cb.live) <= MaxRequests
    BY DEF ProbesBounded
  <2>1. /\ cb \in BreakerType
        /\ cb.requests = Cardinality(cb.live) + cb.successes
    BY DEF BreakerInv, Consistent
  <2>2. /\ Cardinality(cb.live) \in Nat /\ cb.requests \in 0..MaxRequests
        /\ cb.successes \in 0..(MaxRequests - 1)
    BY <2>1, LiveFinite DEF BreakerType
  <2>. QED
    BY <2>1, <2>2, MaxRequestsAssumption
<1>. QED
  BY <1>1, BreakerInvariant, PTL

(* A half-open breaker that refuses probes has one in flight that reports. *)
THEOREM ProbeSlot == Spec => []ProbeSlotHeld
<1>1. BreakerInv => ProbeSlotHeld
  <2>. SUFFICES ASSUME BreakerInv, cb.state = "half_open",
                       cb.requests >= MaxRequests
                PROVE  \E c \in cb.live : pc[c] \in
                         {"admitted", "calling", "reporting", "accounting"}
    BY DEF ProbeSlotHeld
  <2>1. /\ cb \in BreakerType
        /\ cb.requests = Cardinality(cb.live) + cb.successes
    BY DEF BreakerInv, Consistent
  <2>2. /\ Cardinality(cb.live) \in Nat /\ cb.requests \in 0..MaxRequests
        /\ cb.successes \in 0..(MaxRequests - 1)
    BY <2>1, LiveFinite DEF BreakerType
  <2>3. Cardinality(cb.live) # 0
    BY <2>1, <2>2, MaxRequestsAssumption
  <2>4. cb.live # {}
    BY <2>3, FS_EmptySet
  <2>. QED
    BY <2>4 DEF BreakerInv
<1>. QED
  BY <1>1, BreakerInvariant, PTL

(* A rejected Allow names a trip reason only while the breaker is open,    *)
(* and then the one of the trip that opened it (breaker.go:146-159).       *)
THEOREM RejectionProvenance == Spec => RejectionNamesTrip
<1>. DEFINE Named == \A c \in Callers :
              answer'[c] # answer[c] /\ answer'[c] \in Reasons
                => cb'.state = "open" /\ answer'[c] = triggeredReason'
<1>1. BreakerInv /\ [Next]_vars => [Named]_vars
  <2>. SUFFICES ASSUME BreakerInv, [Next]_vars,
                       NEW c \in Callers,
                       answer'[c] # answer[c], answer'[c] \in Reasons
                PROVE  cb'.state = "open" /\ answer'[c] = triggeredReason'
    OBVIOUS
  <2>1. TypeOK /\ Consistent(cb)
    BY DEF BreakerInv
  <2>2. ASSUME NEW d \in Callers, AllowAdmit(d) PROVE FALSE
    BY <2>1, <2>2, NamesAssumption DEF AllowAdmit, TypeOK
  <2>3. ASSUME NEW d \in Callers, AllowObserve(d)
        PROVE  cb'.state = "open" /\ answer'[c] = triggeredReason'
    <3>. DEFINE b == CurrentState(cb)
    <3>1. d = c
      BY <2>1, <2>3 DEF AllowObserve, TypeOK
    <3>2. /\ b.state = "open" /\ answer'[c] = tripReason
      BY <2>1, <2>3, <3>1, NamesAssumption DEF AllowObserve, Rejection, TypeOK
    <3>3. cb.state = "open" /\ b = cb
      BY <2>1, <3>2, CurrentStateFacts
    <3>4. cb' = cb /\ triggeredReason' = triggeredReason
      BY <2>3, <3>3 DEF AllowObserve, Becomes
    <3>5. \A e \in Callers : pc[e] # "finishing"
      <4>1. InSection(c) /\ pc[c] # "finishing"
        BY <2>3, <3>1 DEF AllowObserve, InSection
      <4>2. \A e \in Callers : InSection(e) => e = c
        BY <4>1 DEF BreakerInv
      <4>. QED
        BY <4>1, <4>2 DEF InSection
    <3>. QED
      BY <3>2, <3>3, <3>4, <3>5 DEF BreakerInv
  <2>4. UNCHANGED answer => FALSE
    OBVIOUS
  <2>. QED
    BY <2>2, <2>3, <2>4 DEF Next, CallerStep, Expire, ProviderReturns,
       RecordClientError, RecordSuccess, Report, DoneBefore, DoneAccount,
       DoneAfter, ReadState, Snapshot, SeenRead, SeenSet, vars
<1>. QED
  BY <1>1, BreakerInvariant, PTL DEF Spec, RejectionNamesTrip

-----------------------------------------------------------------------------
(* What may move the breaker from one state to another.                    *)

(* Read lazily, a breaker changes state only by leaving open, expired, for *)
(* a half-open generation without admissions.                              *)
LEMMA LazyChange ==
  ASSUME NEW b, Consistent(b), CurrentState(b).state # b.state
  PROVE  /\ b.state = "open" /\ b.expired
         /\ CurrentState(b).state = "half_open"
         /\ CurrentState(b).live = {}
<1>1. b.expired /\ b.state = "open"
  BY CurrentStateFacts, NewGenerationFacts DEF CurrentState, NewGeneration
<1>2. CurrentState(b) = NewGeneration("half_open")
  BY <1>1 DEF CurrentState
<1>. QED
  BY <1>1, <1>2 DEF NewGeneration

(* Counting an outcome changes the state only if it is that of a current   *)
(* admission of an unexpired breaker: a fault opens, a success closes.     *)
LEMMA AccountedChange ==
  ASSUME NEW b, NEW c \in Callers, NEW v, Consistent(b),
         AfterRequest(CurrentState(b), c, v).state # CurrentState(b).state
  PROVE  /\ CurrentState(b) = b /\ c \in b.live
         /\ v = NoReason =>
              b.state = "half_open" /\ OnSuccess(b, c).state = "closed"
         /\ v # NoReason =>
              /\ OnFailure(b, c).state = "open"
              /\ b.state = "closed" => b.failures + 1 = TripAfter
<1>. DEFINE d == CurrentState(b)
<1>1. b \in BreakerType /\ Consistent(d)
  BY CurrentStateFacts DEF Consistent
<1>2. c \in d.live
  BY DEF AfterRequest
<1>3. d = b
  <2>1. d.live # {}
    BY <1>2
  <2>. QED
    BY <2>1 DEF CurrentState, NewGeneration
<1>4. AfterRequest(b, c, v) = IF v = NoReason THEN OnSuccess(b, c)
                                              ELSE OnFailure(b, c)
  BY <1>2, <1>3 DEF AfterRequest
<1>5. ASSUME v = NoReason
      PROVE  b.state = "half_open" /\ OnSuccess(b, c).state = "closed"
  <2>1. OnSuccess(b, c).state # b.state
    BY <1>3, <1>4, <1>5
  <2>2. b.state = "half_open" /\ b.successes + 1 >= MaxRequests
    BY <1>1, <2>1 DEF OnSuccess, BreakerType
  <2>. QED
    BY <2>2 DEF OnSuccess, NewGeneration
<1>6. ASSUME v # NoReason
      PROVE  /\ OnFailure(b, c).state = "open"
             /\ b.state = "closed" => b.failures + 1 = TripAfter
  <2>1. OnFailure(b, c).state # b.state
    BY <1>3, <1>4, <1>6
  <2>2. ~(b.state = "closed" /\ b.failures + 1 < TripAfter)
    BY <1>1, <2>1 DEF OnFailure, BreakerType
  <2>3. b.failures \in 0..(TripAfter - 1)
    BY <1>1 DEF BreakerType
  <2>. QED
    BY <2>2, <2>3 DEF OnFailure, NewGeneration, TripAfter
<1>. QED
  BY <1>2, <1>3, <1>5, <1>6

(* A step that changes the state of the breaker is a lazy one, perhaps     *)
(* with an admission, or counts the outcome of a current admission.        *)
LEMMA ChangeOfState ==
  ASSUME BreakerInv, [Next]_vars, cb'.state # cb.state
  PROVE  \/ /\ cb.state = "open" /\ cb.expired /\ cb'.state = "half_open"
            /\ cb'.live \subseteq {c \in Callers : pc[c] = "idle"}
         \/ \E c \in cb.live :
              /\ pc[c] = "accounting"
              /\ \/ /\ verdict[c] = NoReason
                    /\ cb.state = "half_open" /\ cb'.state = "closed"
                 \/ /\ verdict[c] \in Reasons /\ cb'.state = "open"
                    /\ cb.state = "closed" => cb.failures + 1 = TripAfter
<1>. DEFINE d == CurrentState(cb)
            Lazily == /\ cb.state = "open" /\ cb.expired
                      /\ cb'.state = "half_open"
                      /\ cb'.live \subseteq {c \in Callers : pc[c] = "idle"}
<1>1. TypeOK /\ Consistent(cb) /\ cb \in BreakerType
  BY DEF BreakerInv, Consistent
<1>2. CASE cb' = d
  BY <1>1, <1>2, LazyChange
<1>3. ASSUME NEW c \in Callers, AllowAdmit(c)
      PROVE  Lazily
  <2>1. pc[c] = "idle" /\ cb' \in {d, OnRequest(d, c)}
    BY <1>3 DEF AllowAdmit, Becomes
  <2>2. d \in BreakerType
    BY <1>1, CurrentStateFacts DEF Consistent
  <2>3. /\ OnRequest(d, c).state = d.state
        /\ OnRequest(d, c).live = d.live \cup {c}
    BY <2>2 DEF OnRequest, BreakerType
  <2>4. cb'.state = d.state /\ cb'.live \subseteq d.live \cup {c}
    BY <2>1, <2>3
  <2>5. /\ cb.state = "open" /\ cb.expired
        /\ d.state = "half_open" /\ d.live = {}
    BY <1>1, <2>4, LazyChange
  <2>. QED
    BY <2>1, <2>4, <2>5
<1>4. ASSUME NEW c \in Callers, DoneAccount(c), cb' # d
      PROVE  \E e \in cb.live :
               /\ pc[e] = "accounting"
               /\ \/ /\ verdict[e] = NoReason
                     /\ cb.state = "half_open" /\ cb'.state = "closed"
                  \/ /\ verdict[e] \in Reasons /\ cb'.state = "open"
                     /\ cb.state = "closed" => cb.failures + 1 = TripAfter
  <2>. DEFINE v == verdict[c]
  <2>1. pc[c] = "accounting" /\ cb' = AfterRequest(d, c, v)
    BY <1>4 DEF DoneAccount, Becomes
  <2>2. c \in d.live
    BY <1>4, <2>1 DEF AfterRequest
  <2>3. d = cb
    BY <2>2 DEF CurrentState, NewGeneration
  <2>4. /\ c \in cb.live
        /\ v = NoReason =>
             cb.state = "half_open" /\ OnSuccess(cb, c).state = "closed"
        /\ v # NoReason =>
             /\ OnFailure(cb, c).state = "open"
             /\ cb.state = "closed" => cb.failures + 1 = TripAfter
    BY <1>1, <2>1, <2>3, AccountedChange
  <2>5. cb' = IF v = NoReason THEN OnSuccess(cb, c) ELSE OnFailure(cb, c)
    BY <2>1, <2>3, <2>4 DEF AfterRequest
  <2>6. v = NoReason \/ v \in Reasons
    BY <1>1 DEF TypeOK, Verdicts
  <2>. QED
    BY <2>1, <2>4, <2>5, <2>6
<1>5. CASE Expire
  BY <1>1, <1>5 DEF Expire, BreakerType
<1>6. \/ cb' = d \/ cb' = cb \/ Expire
      \/ \E c \in Callers : AllowAdmit(c) \/ DoneAccount(c)
  BY DEF Next, CallerStep, ProviderReturns, RecordClientError, RecordSuccess,
     Report, AllowObserve, DoneBefore, DoneAfter, ReadState, Snapshot,
     SeenRead, SeenSet, Becomes, vars
<1>. QED
  BY <1>2, <1>3, <1>4, <1>5, <1>6

(* The circuit opens only on a fault of a call admitted in the generation  *)
(* it ends, the second in a row when it was closed (breaker.go:284-287).   *)
THEOREM TripCause == Spec => TripNeedsFault
<1>. DEFINE Caused == (cb.state # "open" /\ cb'.state = "open")
       => /\ \E c \in cb.live : pc[c] = "accounting" /\ verdict[c] \in Reasons
          /\ cb.state = "closed" => cb.failures + 1 = TripAfter
<1>1. BreakerInv /\ [Next]_vars => [Caused]_vars
  <2>. SUFFICES ASSUME BreakerInv, [Next]_vars,
                       cb.state # "open", cb'.state = "open"
                PROVE  Caused
    OBVIOUS
  <2>. QED
    BY ChangeOfState
<1>. QED
  BY <1>1, BreakerInvariant, PTL DEF Spec, TripNeedsFault

(* The circuit closes only on the success of a probe of its half-open      *)
(* generation, and leaves open only by its timeout (breaker.go:59-72).     *)
THEOREM RecoveryCause == Spec => RecoveryNeedsProbe
<1>. DEFINE Caused ==
       /\ (cb.state # "closed" /\ cb'.state = "closed")
            => /\ cb.state = "half_open"
               /\ \E c \in cb.live : pc[c] = "accounting" /\ verdict[c] = NoReason
       /\ (cb.state = "open" /\ cb'.state # "open")
            => cb.expired /\ cb'.state = "half_open" /\ cb'.live \subseteq
                 {c \in Callers : pc[c] = "idle"}
<1>1. BreakerInv /\ [Next]_vars => [Caused]_vars
  <2>. SUFFICES ASSUME BreakerInv, [Next]_vars, cb'.state # cb.state
                PROVE  Caused
    OBVIOUS
  <2>1. CASE cb.state = "open"
    <3>1. cb.live = {}
      BY <2>1 DEF BreakerInv, Consistent
    <3>. QED
      BY <2>1, <3>1, ChangeOfState
  <2>2. CASE cb.state # "open"
    BY <2>2, ChangeOfState
  <2>. QED
    BY <2>1, <2>2
<1>. QED
  BY <1>1, BreakerInvariant, PTL DEF Spec, RecoveryNeedsProbe
=============================================================================
