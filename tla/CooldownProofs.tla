--------------------------- MODULE CooldownProofs ---------------------------
(***************************************************************************)
(* Proofs about the SearXNG cooldown, for any number of requests, any      *)
(* threshold and any length: the streak and the cooldown agree, the streak *)
(* is bounded, and only an expiry or a success ends a cooldown.            *)
(***************************************************************************)
EXTENDS Cooldown, FiniteSetTheorems, TLAPS

(* The inductive invariant: the safety properties themselves, and that a   *)
(* request which may still fail keeps the streak it adds to within bounds. *)
CooldownInv == TypeOK /\ CooldownIffStreak /\ StreakBounded

(* The requests that may fail are finitely many, and no more than all. *)
LEMMA MayFailFinite ==
  /\ IsFiniteSet(MayFail) /\ Cardinality(MayFail) \in Nat
  /\ Cardinality(MayFail) <= Cardinality(Requests)
  /\ Cardinality(Requests) \in Nat
<1>1. MayFail \in SUBSET Requests
  BY DEF MayFail
<1>. QED
  BY <1>1, RequestsAssumption, FS_Subset, FS_CardinalityType

(* A set of requests that may fail after a step which lets none in. *)
LEMMA MayFailShrinks ==
  ASSUME MayFail' \subseteq MayFail
  PROVE  /\ Cardinality(MayFail') \in Nat
         /\ Cardinality(MayFail') <= Cardinality(MayFail)
BY MayFailFinite, FS_Subset, FS_CardinalityType

(* A request that reports leaves the requests that may fail. *)
LEMMA MayFailLeaves ==
  ASSUME NEW r \in MayFail, MayFail' = MayFail \ {r}
  PROVE  Cardinality(MayFail') = Cardinality(MayFail) - 1
BY MayFailFinite, FS_RemoveElement

LEMMA InitInv == Init => CooldownInv
<1>. SUFFICES ASSUME Init PROVE CooldownInv
  OBVIOUS
<1>1. TypeOK
  BY DEF Init, TypeOK, Deadlines
<1>2. until = NoCooldown /\ fails = 0 /\ ~(0 >= Threshold)
  BY ThresholdAssumption DEF Init
<1>. QED
  BY <1>1, <1>2 DEF CooldownInv, CooldownIffStreak, StreakBounded

(* A step that leaves streak and cooldown alone, and lets no request into  *)
(* the stage during a cooldown, preserves the invariant.                   *)
LEMMA QuietStep ==
  ASSUME CooldownInv, TypeOK', fails' = fails,
         until = NoCooldown <=> until' = NoCooldown,
         until # NoCooldown => MayFail' \subseteq MayFail
  PROVE  CooldownInv'
<1>1. CooldownIffStreak'
  BY DEF CooldownInv, CooldownIffStreak
<1>2. StreakBounded'
  <2>. SUFFICES ASSUME until' # NoCooldown
                PROVE  fails' + Cardinality(MayFail')
                         < Threshold + Cardinality(Requests)
    BY DEF StreakBounded
  <2>1. /\ Cardinality(MayFail') \in Nat
        /\ Cardinality(MayFail') <= Cardinality(MayFail)
    BY MayFailShrinks
  <2>2. fails + Cardinality(MayFail) < Threshold + Cardinality(Requests)
    BY DEF CooldownInv, StreakBounded
  <2>3. fails \in Nat
    BY DEF CooldownInv, TypeOK
  <2>. QED
    BY <2>1, <2>2, <2>3, MayFailFinite, ThresholdAssumption
<1>. QED
  BY <1>1, <1>2 DEF CooldownInv

(* A step that ends the streak and the cooldown together. *)
LEMMA ResetStep ==
  ASSUME TypeOK', fails' = 0, until' = NoCooldown
  PROVE  CooldownInv'
BY ThresholdAssumption DEF CooldownInv, CooldownIffStreak, StreakBounded

(* A counted failure of a request in its stage. *)
LEMMA FailureStep ==
  ASSUME CooldownInv, TypeOK', NEW r \in MayFail, MayFail' = MayFail \ {r},
         RecordFailure
  PROVE  CooldownInv'
<1>1. /\ fails' = fails + 1 /\ fails \in Nat
      /\ until' = IF fails + 1 >= Threshold THEN Length ELSE until
  BY DEF RecordFailure, CooldownInv, TypeOK
<1>2. Length # NoCooldown
  BY LengthAssumption DEF NoCooldown
<1>3. CooldownIffStreak'
  BY <1>1, <1>2, ThresholdAssumption DEF CooldownInv, CooldownIffStreak
<1>4. StreakBounded'
  <2>1. Cardinality(MayFail') = Cardinality(MayFail) - 1
    BY MayFailLeaves
  <2>2. CASE until # NoCooldown
    BY <1>1, <2>1, <2>2, MayFailFinite, ThresholdAssumption
    DEF CooldownInv, StreakBounded
  <2>3. CASE until = NoCooldown
    BY <1>1, <2>1, <2>3, MayFailFinite, ThresholdAssumption
    DEF CooldownInv, CooldownIffStreak, StreakBounded
  <2>. QED
    BY <2>2, <2>3
<1>. QED
  BY <1>3, <1>4 DEF CooldownInv

-----------------------------------------------------------------------------
(* The steps.                                                              *)

LEMMA TickInv == CooldownInv /\ Tick => CooldownInv'
<1>. SUFFICES ASSUME CooldownInv, Tick PROVE CooldownInv'
  OBVIOUS
<1>1. \A t \in Deadlines : /\ Sooner(t) \in Deadlines
                           /\ Sooner(t) = NoCooldown <=> t = NoCooldown
  BY LengthAssumption DEF Sooner, Deadlines, NoCooldown
<1>2. TypeOK'
  BY <1>1 DEF CooldownInv, TypeOK, Tick
<1>3. until = NoCooldown <=> until' = NoCooldown
  BY <1>1 DEF CooldownInv, TypeOK, Tick
<1>4. MayFail' = MayFail /\ fails' = fails
  BY DEF Tick, MayFail
<1>. QED
  BY <1>2, <1>3, <1>4, QuietStep

LEMMA RequestInv ==
  ASSUME CooldownInv, NEW r \in Requests,
         Load(r) \/ ContextEnds(r) \/ StageExpires(r) \/ RequestStep(r)
  PROVE  CooldownInv'
<1>. TypeOK
  BY DEF CooldownInv
<1>1. CASE Load(r)
  <2>1. TypeOK'
    BY <1>1 DEF TypeOK, Load, Deadlines
  <2>2. until # NoCooldown => MayFail' \subseteq MayFail
    BY <1>1 DEF TypeOK, Load, MayFail
  <2>. QED
    BY <1>1, <2>1, <2>2, QuietStep DEF Load
<1>2. CASE StillCooling(r)
  <2>1. TypeOK' /\ MayFail' \subseteq MayFail
    BY <1>2 DEF TypeOK, StillCooling, Deadlines, MayFail
  <2>. QED
    BY <1>2, <2>1, QuietStep DEF StillCooling
<1>3. CASE SeemsExpired(r)
  <2>1. TypeOK' /\ MayFail' \subseteq MayFail
    BY <1>3 DEF TypeOK, SeemsExpired, Deadlines, MayFail
  <2>. QED
    BY <1>3, <2>1, QuietStep DEF SeemsExpired
<1>4. CASE Recheck(r)
  <2>1. TypeOK'
    BY <1>4 DEF TypeOK, Recheck, Deadlines
  <2>2. CASE until = NoCooldown
    BY <1>4, <2>1, <2>2, QuietStep DEF Recheck
  <2>3. CASE until # NoCooldown /\ Expired(until)
    BY <1>4, <2>1, <2>3, ResetStep DEF Recheck
  <2>4. CASE until # NoCooldown /\ ~Expired(until)
    <3>1. MayFail' \subseteq MayFail
      BY <1>4, <2>4 DEF TypeOK, Recheck, MayFail
    <3>. QED
      BY <1>4, <2>1, <2>4, <3>1, QuietStep DEF Recheck
  <2>. QED
    BY <2>2, <2>3, <2>4
<1>5. CASE ContextEnds(r)
  <2>1. TypeOK' /\ MayFail' = MayFail
    BY <1>5 DEF TypeOK, ContextEnds, Cut, MayFail
  <2>. QED
    BY <1>5, <2>1, QuietStep DEF ContextEnds
<1>10. CASE StageExpires(r)
  <2>1. TypeOK' /\ MayFail' = MayFail
    BY <1>10 DEF TypeOK, StageExpires, Cut, MayFail
  <2>. QED
    BY <1>10, <2>1, QuietStep DEF StageExpires
<1>6. ASSUME NEW c \in BOOLEAN, StartStage(r, c) PROVE CooldownInv'
  <2>1. TypeOK' /\ MayFail' = MayFail
    BY <1>6 DEF TypeOK, StartStage, MayFail
  <2>. QED
    BY <1>6, <2>1, QuietStep DEF StartStage
<1>7. CASE NoStage(r)
  <2>1. TypeOK' /\ MayFail' \subseteq MayFail
    BY <1>7 DEF TypeOK, NoStage, Leave, MayFail
  <2>. QED
    BY <1>7, <2>1, QuietStep DEF NoStage
<1>8. CASE StageSucceeds(r)
  <2>1. TypeOK'
    BY <1>8 DEF TypeOK, StageSucceeds, Leave, Deadlines
  <2>. QED
    BY <1>8, <2>1, ResetStep DEF StageSucceeds
<1>9. ASSUME NEW e \in Errors, StageFails(r, e) PROVE CooldownInv'
  <2>1. /\ r \in MayFail /\ MayFail' = MayFail \ {r}
    BY <1>9 DEF TypeOK, StageFails, Leave, MayFail
  <2>2. TypeOK'
    BY <1>9, LengthAssumption
    DEF TypeOK, StageFails, Leave, RecordFailure, Deadlines
  <2>3. CASE FailureCounts(r, e)
    BY <1>9, <2>1, <2>2, <2>3, FailureStep DEF StageFails
  <2>4. CASE ~FailureCounts(r, e)
    BY <1>9, <2>1, <2>2, <2>4, QuietStep DEF StageFails
  <2>. QED
    BY <2>3, <2>4
<1>. QED
  BY <1>1, <1>2, <1>3, <1>4, <1>5, <1>6, <1>7, <1>8, <1>9, <1>10 DEF RequestStep

-----------------------------------------------------------------------------
(* What ended a stage.                                                     *)

(* A stage cut short by its request's end belongs to a request that has    *)
(* ended; only a stage with a budget of its own can use it up.             *)
BlameInv ==
  /\ TypeOK
  /\ \A r \in Requests :
       /\ cut[r] # "none" => pc[r] = "stage"
       /\ cut[r] = "request" => ~alive[r]
       /\ cut[r] = "own" => ~capped[r]

LEMMA BlameStep == BlameInv /\ TypeOK' /\ [Next]_vars => BlameInv'
<1>. SUFFICES ASSUME BlameInv, TypeOK', [Next]_vars, NEW r \in Requests
              PROVE  /\ cut'[r] # "none" => pc'[r] = "stage"
                     /\ cut'[r] = "request" => ~alive'[r]
                     /\ cut'[r] = "own" => ~capped'[r]
  BY DEF BlameInv
<1>. USE DEF BlameInv, TypeOK
<1>1. CASE Tick
  BY <1>1 DEF Tick
<1>2. ASSUME NEW q \in Requests, Load(q) \/ StillCooling(q) \/ SeemsExpired(q)
      PROVE  /\ cut' = cut /\ alive' = alive /\ capped' = capped
             /\ pc[q] # "stage" /\ \A p \in Requests \ {q} : pc'[p] = pc[p]
  BY <1>2 DEF Load, StillCooling, SeemsExpired
<1>3. ASSUME NEW q \in Requests, Recheck(q)
      PROVE  /\ cut' = cut /\ alive' = alive /\ capped' = capped
             /\ pc[q] # "stage" /\ \A p \in Requests \ {q} : pc'[p] = pc[p]
  BY <1>3 DEF Recheck
<1>4. ASSUME NEW q \in Requests, ContextEnds(q) \/ StageExpires(q)
      PROVE  /\ cut'[r] # "none" => pc'[r] = "stage"
             /\ cut'[r] = "request" => ~alive'[r]
             /\ cut'[r] = "own" => ~capped'[r]
  BY <1>4 DEF ContextEnds, StageExpires, Cut
<1>5. ASSUME NEW q \in Requests, NEW c \in BOOLEAN, StartStage(q, c)
      PROVE  /\ cut'[r] # "none" => pc'[r] = "stage"
             /\ cut'[r] = "request" => ~alive'[r]
             /\ cut'[r] = "own" => ~capped'[r]
  BY <1>5 DEF StartStage
<1>6. ASSUME NEW q \in Requests, Leave(q)
      PROVE  /\ cut'[r] # "none" => pc'[r] = "stage"
             /\ cut'[r] = "request" => ~alive'[r]
             /\ cut'[r] = "own" => ~capped'[r]
  BY <1>6 DEF Leave
<1>. QED
  BY <1>1, <1>2, <1>3, <1>4, <1>5, <1>6
  DEF Next, RequestStep, NoStage, StageSucceeds, StageFails, vars

-----------------------------------------------------------------------------
(* The theorems.                                                           *)

LEMMA StepInv == CooldownInv /\ [Next]_vars => CooldownInv'
<1>. SUFFICES ASSUME CooldownInv, [Next]_vars PROVE CooldownInv'
  OBVIOUS
<1>1. CASE Next
  BY <1>1, TickInv, RequestInv DEF Next
<1>2. CASE UNCHANGED vars
  BY <1>2 DEF vars, CooldownInv, TypeOK, CooldownIffStreak, StreakBounded, MayFail
<1>. QED
  BY <1>1, <1>2

(* Streak, cooldown and the stages in flight agree in every state. *)
THEOREM CooldownInvariant == Spec => []CooldownInv
BY InitInv, StepInv, PTL DEF Spec

(* A stage's recorded end agrees with its request and its budget.          *)
THEOREM BlameInvariant == Spec => []BlameInv
<1>1. Init => BlameInv
  BY DEF Init, BlameInv, TypeOK, Deadlines
<1>2. CooldownInv /\ CooldownInv' /\ BlameInv /\ [Next]_vars => BlameInv'
  BY BlameStep DEF CooldownInv
<1>. QED
  BY <1>1, <1>2, CooldownInvariant, PTL DEF Spec

(* Every variable keeps its type. *)
THEOREM TypeCorrect == Spec => []TypeOK
<1>1. CooldownInv => TypeOK
  BY DEF CooldownInv
<1>. QED
  BY <1>1, CooldownInvariant, PTL

(* A cooldown is recorded exactly while the streak is at the threshold. *)
THEOREM CooldownMatchesStreak == Spec => []CooldownIffStreak
<1>1. CooldownInv => CooldownIffStreak
  BY DEF CooldownInv
<1>. QED
  BY <1>1, CooldownInvariant, PTL

(* During a cooldown the streak grows only by the stages let through. *)
THEOREM StreakStaysBounded == Spec => []StreakBounded
<1>1. CooldownInv => StreakBounded
  BY DEF CooldownInv
<1>. QED
  BY <1>1, CooldownInvariant, PTL

(* Only its own expiry or a SearXNG success ends a cooldown; the request   *)
(* that saw an older one expire does not (proxy.go:875-892).               *)
THEOREM CooldownEndsDuly == Spec => CooldownNotCancelled
<1>1. CooldownInv /\ [Next]_vars =>
        [(until # NoCooldown /\ until' = NoCooldown)
           => Expired(until) \/ \E r \in Requests : StageSucceeds(r)]_vars
  <2>. SUFFICES ASSUME CooldownInv, [Next]_vars,
                       until # NoCooldown, until' = NoCooldown
                PROVE  Expired(until) \/ \E r \in Requests : StageSucceeds(r)
    OBVIOUS
  <2>1. CASE Tick
    BY <2>1 DEF Tick, Sooner, CooldownInv, TypeOK, Deadlines, NoCooldown
  <2>2. ASSUME NEW r \in Requests, Recheck(r) PROVE Expired(until)
    BY <2>2 DEF Recheck
  <2>3. ASSUME NEW r \in Requests, NEW e \in Errors, StageFails(r, e) PROVE FALSE
    BY <2>3, LengthAssumption DEF StageFails, RecordFailure, NoCooldown
  <2>. QED
    BY <2>1, <2>2, <2>3 DEF Next, RequestStep, Load, ContextEnds,
       StageExpires, StillCooling, SeemsExpired, StartStage, NoStage, vars
<1>. QED
  BY <1>1, CooldownInvariant, PTL DEF Spec, CooldownNotCancelled

(* A stage that its request's end cut short is not counted; one whose      *)
(* request still waits, or that used up its whole timeout, is              *)
(* (proxy.go:274-290, docs/architecture.md:78).                            *)
THEOREM FailuresBlamedDuly == Spec => FailureBlamedDuly
<1>. DEFINE Duly == \A r \in Requests, e \in Errors :
       StageFails(r, e) =>
         /\ cut[r] = "request" => UNCHANGED <<fails, until>>
         /\ alive[r] \/ (cut[r] = "own" /\ e = "deadline")
              => fails' = fails + 1
<1>1. BlameInv /\ [Next]_vars => [Duly]_vars
  <2>. SUFFICES ASSUME BlameInv, NEW r \in Requests, NEW e \in Errors,
                       StageFails(r, e)
                PROVE  /\ cut[r] = "request" => UNCHANGED <<fails, until>>
                       /\ alive[r] \/ (cut[r] = "own" /\ e = "deadline")
                            => fails' = fails + 1
    OBVIOUS
  <2>1. cut[r] = "request" => ~alive[r]
    BY DEF BlameInv
  <2>2. cut[r] = "own" => ~capped[r]
    BY DEF BlameInv, StageFails
  <2>3. e = "deadline" => cut[r] = IF capped[r] THEN "request" ELSE "own"
    BY DEF StageFails
  <2>4. ASSUME cut[r] = "request" PROVE ~FailureCounts(r, e)
    BY <2>1, <2>3, <2>4 DEF FailureCounts
  <2>5. ASSUME alive[r] \/ (cut[r] = "own" /\ e = "deadline")
        PROVE  FailureCounts(r, e)
    BY <2>1, <2>2, <2>3, <2>5 DEF FailureCounts
  <2>. QED
    BY <2>4, <2>5 DEF StageFails, RecordFailure
<1>. QED
  BY <1>1, BlameInvariant, PTL DEF Spec, FailureBlamedDuly
=============================================================================
