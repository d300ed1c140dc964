------------------------ MODULE SearxngStageProofs ------------------------
(***************************************************************************)
(* Proofs that the SearXNG stage, whatever the number of attempts it is    *)
(* allowed, retries only with reason, names the deadline that ran out, and *)
(* takes no step that StageContract does not allow.                        *)
(***************************************************************************)
EXTENDS SearxngStage, SequenceTheorems, TLAPS

Answers == {"success", "network", "other"} \cup Ends

(* How far retryWithBackoff has come: while it runs, every attempt so far  *)
(* failed in the network and one more is allowed.                          *)
Progress ==
  /\ \A i \in 1 .. Len(replies) - 1 : replies[i] = "network"
  /\ pc \in {"gate", "budget"} => replies = <<>> /\ child = Unset
  /\ pc \notin {"settle", "done"} =>
       /\ ~exhausted
       /\ Len(replies) < MaxAttempts
       /\ \A i \in 1 .. Len(replies) : replies[i] = "network"
  /\ pc \in {"settle", "done"} =>
       (exhausted <=> /\ Len(replies) = MaxAttempts
                      /\ replies[MaxAttempts] = "network")

(* What is known of the two contexts: the stage's ends with the request's, *)
(* or by its own budget; an attempt that the context ended says so.        *)
Contexts ==
  /\ child = "live" => parent = "live"
  /\ child \in Ends => parent = child \/ (child = "deadline" /\ ~capped)
  /\ \A i \in 1 .. Len(replies) : replies[i] \in Ends => child = replies[i]

(* What the emitted outcome says of them. *)
Labels ==
  /\ pc # "done" => label = NotYet /\ effect = "none"
  /\ label = "timeout" => ~capped /\ child = "deadline"
  /\ label = "budget_capped" /\ replies # <<>> => parent = "deadline"

StageInv == TypeOK /\ Progress /\ Contexts /\ Labels

-----------------------------------------------------------------------------
LEMMA InitInv == Init => StageInv
<1>. SUFFICES ASSUME Init PROVE StageInv
  OBVIOUS
<1>1. replies = <<>> /\ Len(replies) = 0 /\ replies \in Seq(Answers)
  BY EmptySeq DEF Init
<1>2. TypeOK
  <2>1. replies \in Seq({"success", "network", "other"} \cup Ends)
    BY <1>1 DEF Answers
  <2>2. Len(replies) <= MaxAttempts
    BY <1>1, MaxAttemptsAssumption
  <2>3. /\ parent = "live" /\ due \in BOOLEAN /\ child = Unset
        /\ capped \in BOOLEAN /\ pc = "gate" /\ exhausted \in BOOLEAN
        /\ label = NotYet /\ effect = "none"
    BY DEF Init
  <2>. QED
    BY <2>1, <2>2, <2>3 DEF TypeOK
<1>3. Progress
  BY <1>1, MaxAttemptsAssumption DEF Init, Progress
<1>. QED
  BY <1>1, <1>2, <1>3
  DEF Init, StageInv, Contexts, Labels, Ends, NotYet, Unset

(* Nothing but the two contexts moves. *)
LEMMA EnvironmentInv == StageInv /\ Environment => StageInv'
<1>. SUFFICES ASSUME StageInv, Environment PROVE StageInv'
  OBVIOUS
<1>. USE DEF Ends, Unset, NotYet, Running
<1>1. UNCHANGED <<capped, pc, replies, exhausted, label, effect>>
  BY DEF Environment, DeadlinePasses, CallerCancels, ContextExpires,
         ParentEnds, StageExpires
<1>2. /\ due' \in BOOLEAN /\ parent' \in {"live"} \cup Ends
      /\ child' \in {"live", Unset} \cup Ends
      /\ child' # child => child = "live" /\ child' \in Ends
      /\ parent' # parent => parent = "live"
      /\ child' = "live" => parent' = "live"
      /\ child' \in Ends =>
           parent' = child' \/ (child' = "deadline" /\ ~capped)
  BY DEF StageInv, TypeOK, Contexts, Environment, DeadlinePasses,
         CallerCancels, ContextExpires, ParentEnds, StageExpires
<1>3. TypeOK'
  BY <1>1, <1>2 DEF StageInv, TypeOK
<1>4. Progress'
  BY <1>1, <1>2 DEF StageInv, Progress
<1>5. Contexts'
  BY <1>1, <1>2 DEF StageInv, Contexts
<1>6. Labels'
  BY <1>1, <1>2 DEF StageInv, Labels
<1>. QED
  BY <1>3, <1>4, <1>5, <1>6 DEF StageInv

(* Deciding to run, and moving about in retryWithBackoff. *)
LEMMA ControlInv ==
  ASSUME StageInv,
         \/ SkipCooling \/ SkipTooLate \/ RunStage \/ SetBudget
         \/ StopAtHead \/ StartAttempt \/ StopInBackoff \/ BackoffOver
  PROVE  StageInv'
<1>. USE DEF Ends, Unset, NotYet, Running
<1>1. UNCHANGED <<parent, due, replies, exhausted, effect>>
  BY DEF SkipCooling, SkipTooLate, SkipStage, RunStage, SetBudget, StopAtHead,
         StartAttempt, StopInBackoff, BackoffOver, MoveTo, ctxVars
<1>2. CASE SkipCooling \/ SkipTooLate
  BY <1>1, <1>2, MaxAttemptsAssumption
  DEF SkipCooling, SkipTooLate, SkipStage, ctxVars,
      StageInv, TypeOK, Progress, Contexts, Labels
<1>3. CASE RunStage
  BY <1>1, <1>3 DEF RunStage, ctxVars,
      StageInv, TypeOK, Progress, Contexts, Labels
<1>4. CASE SetBudget
  BY <1>1, <1>4 DEF SetBudget, StageInv, TypeOK, Progress, Contexts, Labels
<1>5. CASE StopAtHead \/ StartAttempt \/ StopInBackoff \/ BackoffOver
  BY <1>1, <1>5 DEF StopAtHead, StartAttempt, StopInBackoff, BackoffOver,
      MoveTo, ctxVars, StageInv, TypeOK, Progress, Contexts, Labels
<1>. QED
  BY <1>2, <1>3, <1>4, <1>5

(* An attempt returns. *)
LEMMA AttemptInv == StageInv /\ (Retry \/ LastAttempt) => StageInv'
<1>. SUFFICES ASSUME StageInv, Retry \/ LastAttempt PROVE StageInv'
  OBVIOUS
<1>. USE DEF Ends, Unset, NotYet, Running
<1>1. PICK r \in Answers :
        /\ pc = "call" /\ replies' = Append(replies, r)
        /\ r \in Ends => child = r
        /\ UNCHANGED <<ctxVars, capped, label, effect>>
        /\ \/ /\ r = "network" /\ pc' = "top" /\ exhausted' = exhausted
              /\ Len(replies) + 1 < MaxAttempts
           \/ /\ r = "network" => Len(replies) + 1 >= MaxAttempts
              /\ pc' = "settle" /\ exhausted' = (r = "network")
  BY DEF Retry, LastAttempt, Returned, Answers
<1>2. /\ replies \in Seq(Answers) /\ Len(replies) \in Nat
      /\ Len(replies) < MaxAttempts /\ ~exhausted
      /\ \A i \in 1 .. Len(replies) : replies[i] = "network"
  BY <1>1, LenProperties DEF StageInv, TypeOK, Progress, Answers
<1>3. /\ replies' \in Seq(Answers) /\ Len(replies') = Len(replies) + 1
      /\ \A i \in 1 .. Len(replies) : replies'[i] = replies[i]
      /\ replies'[Len(replies) + 1] = r
  BY <1>1, <1>2, AppendProperties
<1>4. \A i \in 1 .. Len(replies') - 1 : replies'[i] = "network"
  BY <1>2, <1>3
<1>5. TypeOK'
  <2>1. /\ replies' \in Seq({"success", "network", "other"} \cup Ends)
        /\ Len(replies') <= MaxAttempts
    BY <1>2, <1>3, MaxAttemptsAssumption DEF Answers
  <2>2. pc' \in {"top", "settle"} /\ exhausted' \in BOOLEAN
    <3>1. exhausted \in BOOLEAN /\ (r = "network") \in BOOLEAN
      BY DEF StageInv, TypeOK
    <3>2. exhausted' = exhausted \/ exhausted' = (r = "network")
      BY <1>1
    <3>. QED
      BY <1>1, <3>1, <3>2
  <2>. QED
    BY <1>1, <2>1, <2>2 DEF StageInv, TypeOK, ctxVars
<1>6. Progress'
  <2>1. CASE pc' = "top"
    <3>1. r = "network" /\ exhausted' = exhausted
          /\ Len(replies) + 1 < MaxAttempts
      BY <1>1, <2>1
    <3>2. \A i \in 1 .. Len(replies') : replies'[i] = "network"
      BY <1>2, <1>3, <3>1
    <3>. QED
      BY <1>2, <1>3, <1>4, <2>1, <3>1, <3>2 DEF Progress
  <2>2. CASE pc' = "settle"
    <3>1. /\ exhausted' = (r = "network")
          /\ r = "network" => Len(replies) + 1 >= MaxAttempts
      BY <1>1, <2>2
    <3>2. exhausted' <=> /\ Len(replies') = MaxAttempts
                         /\ replies'[MaxAttempts] = "network"
      <4>1. CASE r = "network"
        <5>1. exhausted'
          BY <3>1, <4>1
        <5>2. Len(replies) + 1 = MaxAttempts
          BY <1>2, <3>1, <4>1, MaxAttemptsAssumption
        <5>. QED
          BY <1>3, <4>1, <5>1, <5>2
      <4>2. CASE r # "network"
        BY <1>3, <3>1, <4>2
      <4>. QED
        BY <4>1, <4>2
    <3>. QED
      BY <1>4, <2>2, <3>2 DEF Progress
  <2>. QED
    BY <1>1, <2>1, <2>2
<1>7. \A i \in 1 .. Len(replies') : replies'[i] \in Ends => child' = replies'[i]
  BY <1>1, <1>2, <1>3, <1>4 DEF ctxVars
<1>8. Contexts'
  BY <1>1, <1>7 DEF StageInv, Contexts, ctxVars
<1>9. Labels'
  BY <1>1 DEF StageInv, Labels, ctxVars
<1>. QED
  BY <1>5, <1>6, <1>8, <1>9 DEF StageInv

(* What retryWithBackoff returned is the context's error only if it ended. *)
LEMMA ErrFacts ==
  ASSUME StageInv
  PROVE  /\ Err = "deadline" => child = "deadline"
         /\ Err = "deadline" /\ capped => parent = "deadline"
<1>1. replies # <<>> => Len(replies) \in 1 .. Len(replies)
  BY EmptySeq, LenProperties DEF StageInv, TypeOK
<1>2. Err = "deadline" => child = "deadline"
  BY <1>1 DEF Err, StageInv, Contexts, Ends
<1>. QED
  BY <1>2 DEF StageInv, Contexts, Ends

LEMMA SettleInv == StageInv /\ Settle => StageInv'
<1>. SUFFICES ASSUME StageInv, Settle PROVE StageInv'
  OBVIOUS
<1>. USE DEF Ends, Unset, NotYet, Running
<1>1. /\ UNCHANGED <<parent, due, child, capped, replies, exhausted>>
      /\ pc = "settle" /\ pc' = "done" /\ label' = StageOutcome
      /\ effect' \in {"none", "reset", "counted"}
  BY DEF Settle, ctxVars
<1>2. /\ StageOutcome \in {"success", "timeout", "budget_capped", "error"}
      /\ StageOutcome = "timeout" => Err = "deadline" /\ ~capped
      /\ StageOutcome = "budget_capped" => Err = "deadline" /\ capped
  BY DEF StageOutcome
<1>3. TypeOK'
  BY <1>1, <1>2 DEF StageInv, TypeOK
<1>4. Progress' /\ Contexts'
  BY <1>1 DEF StageInv, Progress, Contexts
<1>5. Labels'
  BY <1>1, <1>2, ErrFacts DEF Labels
<1>. QED
  BY <1>3, <1>4, <1>5 DEF StageInv

LEMMA StepInv == StageInv /\ [Next]_vars => StageInv'
<1>. SUFFICES ASSUME StageInv, [Next]_vars PROVE StageInv'
  OBVIOUS
<1>1. CASE Environment
  BY <1>1, EnvironmentInv
<1>2. CASE Stage
  BY <1>2, ControlInv, AttemptInv, SettleInv DEF Stage
<1>3. CASE UNCHANGED vars
  BY <1>3 DEF vars, ctxVars, StageInv, TypeOK, Progress, Contexts, Labels
<1>. QED
  BY <1>1, <1>2, <1>3 DEF Next

-----------------------------------------------------------------------------
(* The stage's progress, its contexts and its outcome agree at every step  *)
(* (proxy.go:183-291, 922-990).                                            *)
THEOREM StageInvariant == Spec => []StageInv
BY InitInv, StepInv, PTL DEF Spec

(* Every variable keeps its type. *)
THEOREM TypeCorrect == Spec => []TypeOK
<1>1. StageInv => TypeOK
  BY DEF StageInv
<1>. QED
  BY <1>1, StageInvariant, PTL

(* An attempt follows only a network failure, and exhaustion is reported   *)
(* exactly when every attempt allowed failed that way (proxy.go:957-990).  *)
THEOREM RetriesDuly == Spec => []RetriesJustified
<1>1. StageInv => RetriesJustified
  BY DEF StageInv, Progress, RetriesJustified
<1>. QED
  BY <1>1, StageInvariant, PTL

(* The outcome names the deadline that ran out, the stage's own or the     *)
(* request's (proxy.go:212-222).                                           *)
THEOREM DeadlinesTold == Spec => []DeadlineAttributed
<1>1. StageInv => DeadlineAttributed
  BY DEF StageInv, Contexts, Labels, DeadlineAttributed, Ends
<1>. QED
  BY <1>1, StageInvariant, PTL

(* The stage starts as StageContract does and takes only its steps: one    *)
(* outcome, one effect on the streak, and no blame for the request's own   *)
(* end (proxy.go:206-290).                                                 *)
THEOREM ContractSafety ==
  Spec => Contract!Init /\ [][Contract!Next]_(Contract!vars)
<1>. USE DEF Ends, NotYet, Contract!Ends, Contract!NotYet
<1>1. Init => Contract!Init
  BY DEF Init, Contract!Init
<1>2. StageInv /\ [Next]_vars => [Contract!Next]_(Contract!vars)
  <2>. SUFFICES ASSUME StageInv, [Next]_vars
                PROVE  Contract!Next \/ UNCHANGED Contract!vars
    OBVIOUS
  <2>1. CASE Environment
    BY <2>1 DEF Environment, DeadlinePasses, CallerCancels, ContextExpires,
       ParentEnds, StageExpires, Contract!Next, Contract!DeadlinePasses,
       Contract!ContextEnds, Contract!vars
  <2>2. CASE SkipCooling \/ SkipTooLate
    <3>1. PICK l \in Contract!Skips :
            /\ label = NotYet /\ label' = l
            /\ l = "budget_capped" => due \/ parent # "live"
            /\ UNCHANGED <<parent, due, effect>>
      BY <2>2 DEF SkipCooling, SkipTooLate, SkipStage, ctxVars, StageInv,
         Labels, Contract!Skips
    <3>2. Contract!Skip(l)
      BY <3>1 DEF Contract!Skip
    <3>. QED
      BY <3>2 DEF Contract!Next, Contract!StageStep
  <2>3. CASE Settle
    <3>1. /\ label = NotYet /\ label' = StageOutcome
          /\ UNCHANGED <<parent, due>>
      BY <2>3 DEF Settle, ctxVars, StageInv, Labels
    <3>2. CASE Err = "success"
      <4>1. label' = "success" /\ effect' = "reset"
        BY <2>3, <3>1, <3>2 DEF Settle, StageOutcome
      <4>. QED
        BY <3>1, <4>1 DEF Contract!Next, Contract!StageStep, Contract!Succeed
    <3>3. CASE Err # "success"
      <4>. DEFINE l == StageOutcome
                  n == FailureCounts
      <4>1. l \in Contract!Failures /\ n \in BOOLEAN
        BY <3>3 DEF StageOutcome, FailureCounts, Contract!Failures, StageInv,
           TypeOK
      <4>2. /\ l = "timeout" => n
            /\ l = "error" => (n <=> parent = "live")
            /\ l = "budget_capped" => ~n /\ parent = "deadline"
        BY <3>3, ErrFacts DEF StageOutcome, FailureCounts
      <4>3. effect' = IF n THEN "counted" ELSE "none"
        BY <2>3, <3>3 DEF Settle
      <4>4. Contract!Fail(l, n)
        BY <3>1, <4>1, <4>2, <4>3 DEF Contract!Fail
      <4>. QED
        BY <4>1, <4>4 DEF Contract!Next, Contract!StageStep
    <3>. QED
      BY <3>2, <3>3
  <2>4. CASE \/ RunStage \/ SetBudget \/ StopAtHead \/ StartAttempt
             \/ StopInBackoff \/ BackoffOver \/ Retry \/ LastAttempt
    BY <2>4 DEF RunStage, SetBudget, StopAtHead, StartAttempt, StopInBackoff,
       BackoffOver, MoveTo, Retry, LastAttempt, Returned, ctxVars,
       Contract!vars
  <2>5. CASE UNCHANGED vars
    BY <2>5 DEF vars, ctxVars, Contract!vars
  <2>. QED
    BY <2>1, <2>2, <2>3, <2>4, <2>5 DEF Next, Stage
<1>. QED
  BY <1>1, <1>2, StageInvariant, PTL DEF Spec
=============================================================================
