---------------------------- MODULE SearxngStage ----------------------------
(***************************************************************************)
(* The SearXNG stage of one uncached request (internal/proxy/proxy.go):    *)
(* the decision to run it, its budget, retryWithBackoff around the HTTP    *)
(* client, the stage outcome and what the stage does to the failure        *)
(* streak.  The request's context may end at any moment.                   *)
(*                                                                         *)
(* Clock readings are events.  `due` is the request's deadline having      *)
(* passed; its context notices a moment later.  A stage budget of its own  *)
(* is shorter than what the request has left, so its timer fires first; a  *)
(* capped budget is what the request has left, and ends with it.           *)
(***************************************************************************)
EXTENDS Naturals, Sequences

CONSTANT MaxAttempts \* maxAttempts of retryWithBackoff: 3

ASSUME MaxAttemptsAssumption == MaxAttempts \in Nat \ {0}

Ends   == {"deadline", "cancelled"}
NotYet == "not_yet"
Unset  == "unset"

VARIABLES
  parent,   \* timeoutCtx
  due,      \* timeoutCtx's deadline has passed
  child,    \* sxCtx
  capped,   \* budgetCapped
  pc,       \* where the stage is
  replies,  \* what the attempts made so far returned
  exhausted,\* RetryExhaustedTotal was incremented
  label,    \* stageOutcome, once emitted
  effect    \* recordSearxngSuccess / recordSearxngFailure called

ctxVars == <<parent, due, child>>
vars == <<parent, due, child, capped, pc, replies, exhausted, label, effect>>

Running == {"top", "backoff", "call"} \* inside retryWithBackoff

Init ==
  /\ parent = "live"
  /\ due = FALSE
  /\ child = Unset
  /\ capped = FALSE
  /\ pc = "gate"
  /\ replies = <<>>
  /\ exhausted = FALSE
  /\ label = NotYet
  /\ effect = "none"

-----------------------------------------------------------------------------
(* The contexts.                                                           *)

DeadlinePasses ==
  /\ ~due
  /\ pc \in Running /\ ~capped => child # "live"
  /\ due' = TRUE
  /\ UNCHANGED <<parent, child, capped, pc, replies, exhausted, label, effect>>

(* The end of the request's context is the end of every live child. *)
ParentEnds(e) ==
  /\ parent = "live"
  /\ parent' = e
  /\ child' = IF child = "live" THEN e ELSE child
  /\ UNCHANGED <<due, capped, pc, replies, exhausted, label, effect>>

CallerCancels  == ParentEnds("cancelled")
ContextExpires == due /\ ParentEnds("deadline")

(* The stage's own SearxngTimeout expires. *)
StageExpires ==
  /\ pc \in Running
  /\ ~capped
  /\ child = "live"
  /\ child' = "deadline"
  /\ UNCHANGED <<parent, due, capped, pc, replies, exhausted, label, effect>>

-----------------------------------------------------------------------------
(* Search: whether to run the stage, and for how long.                     *)

SkipStage(l) ==
  /\ pc = "gate"
  /\ label' = l
  /\ pc' = "done"
  /\ UNCHANGED <<ctxVars, capped, replies, exhausted, effect>>

SkipCooling == SkipStage("skipped_cooldown")

SkipTooLate == (parent # "live" \/ due) /\ SkipStage("budget_capped")

RunStage ==
  /\ pc = "gate"
  /\ parent = "live"
  /\ ~due
  /\ pc' = "budget"
  /\ UNCHANGED <<ctxVars, capped, replies, exhausted, label, effect>>

(* Defect: the stage runs on the request's context, with no budget. *)
SetBudgetUnbounded ==
  /\ pc = "budget"
  /\ capped' = TRUE
  /\ child' = "live"
  /\ pc' = "top"
  /\ UNCHANGED <<parent, due, replies, exhausted, label, effect>>

SetBudget ==
  /\ pc = "budget"
  /\ capped' \in BOOLEAN
  /\ due => capped'
  /\ child' = parent
  /\ pc' = "top"
  /\ UNCHANGED <<parent, due, replies, exhausted, label, effect>>

-----------------------------------------------------------------------------
(* retryWithBackoff.                                                       *)

MoveTo(p) ==
  /\ pc' = p
  /\ UNCHANGED <<ctxVars, capped, replies, exhausted, label, effect>>

(* ctx.Err() at the head of the loop. *)
StopAtHead == pc = "top" /\ child # "live" /\ MoveTo("settle")

StartAttempt ==
  /\ pc = "top"
  /\ child = "live"
  /\ MoveTo(IF replies = <<>> THEN "call" ELSE "backoff")

(* The select: when both are ready, either is taken. *)
StopInBackoff == pc = "backoff" /\ child # "live" /\ MoveTo("settle")

BackoffOver == pc = "backoff" /\ MoveTo("call")

(* The attempt returns r: an error of the context only if that ended. *)
Returned(r) ==
  /\ pc = "call"
  /\ r \in Ends => child = r
  /\ replies' = Append(replies, r)
  /\ UNCHANGED <<ctxVars, capped, label, effect>>

(* Defect: whatever failed is tried again. *)
RetryAnything ==
  /\ Len(replies) + 1 < MaxAttempts
  /\ \E r \in {"network", "other"} : Returned(r)
  /\ pc' = "top"
  /\ UNCHANGED exhausted

(* Defect: one attempt more than maxAttempts. *)
RetryOnceMore ==
  /\ Len(replies) < MaxAttempts
  /\ Returned("network")
  /\ pc' = "top"
  /\ UNCHANGED exhausted

(* Only network failures are retried. *)
Retry ==
  /\ Len(replies) + 1 < MaxAttempts
  /\ Returned("network")
  /\ pc' = "top"
  /\ UNCHANGED exhausted

LastAttempt ==
  /\ \E r \in {"success", "other", "network"} \cup Ends :
       /\ r = "network" => Len(replies) + 1 >= MaxAttempts
       /\ Returned(r)
       /\ exhausted' = (r = "network")
  /\ pc' = "settle"

-----------------------------------------------------------------------------
(* What retryWithBackoff returned: the last attempt's result, or, before   *)
(* the first one, the context's error.                                     *)
Err == IF replies = <<>> THEN child ELSE replies[Len(replies)]

(* Defect: every deadline is taken for the stage's own. *)
StageOutcomeIgnoringCap ==
  CASE Err = "success"  -> "success"
    [] Err = "deadline" -> "timeout"
    [] OTHER            -> "error"

StageOutcome ==
  CASE Err = "success"             -> "success"
    [] Err = "deadline" /\ capped  -> "budget_capped"
    [] Err = "deadline" /\ ~capped -> "timeout"
    [] OTHER                       -> "error"

(* Defect: a capped stage counts. *)
FailureCountsCapped ==
  IF Err = "deadline" THEN TRUE ELSE parent = "live"

(* Defect: only a capped budget excuses, not a caller who went away. *)
FailureCountsAbandoned ==
  IF Err = "deadline" THEN ~capped ELSE TRUE

FailureCounts ==
  IF Err = "deadline" THEN ~capped ELSE parent = "live"

(* The stage outcome and the streak.  The engines of a successful response *)
(* are reported to their breakers here; Breaker.tla models those reports.  *)
Settle ==
  /\ pc = "settle"
  /\ label' = StageOutcome
  /\ effect' = CASE Err = "success" -> "reset"
                 [] Err # "success" /\ FailureCounts -> "counted"
                 [] OTHER -> "none"
  /\ pc' = "done"
  /\ UNCHANGED <<ctxVars, capped, replies, exhausted>>

-----------------------------------------------------------------------------
(* A call whose context has ended comes back. *)
CallAborted == child # "live" /\ LastAttempt

Environment ==
  DeadlinePasses \/ CallerCancels \/ ContextExpires \/ StageExpires

Stage ==
  \/ SkipCooling \/ SkipTooLate \/ RunStage \/ SetBudget
  \/ StopAtHead \/ StartAttempt \/ StopInBackoff \/ BackoffOver
  \/ Retry \/ LastAttempt
  \/ Settle

Next == Environment \/ Stage

(* Timers fire, the goroutine runs, and a call ends with its context; when *)
(* else a call returns is up to SearXNG.                                   *)
Fairness ==
  /\ WF_vars(DeadlinePasses) /\ WF_vars(ContextExpires)
  /\ WF_vars(StageExpires)
  /\ WF_vars(Stage /\ pc # "call")
  /\ WF_vars(CallAborted)

Spec == Init /\ [][Next]_vars /\ Fairness

-----------------------------------------------------------------------------
(* Every variable keeps its type. *)
TypeOK ==
  /\ parent \in {"live"} \cup Ends
  /\ due \in BOOLEAN
  /\ child \in {"live", Unset} \cup Ends
  /\ capped \in BOOLEAN
  /\ pc \in {"gate", "budget", "settle", "done"} \cup Running
  /\ replies \in Seq({"success", "network", "other"} \cup Ends)
  /\ Len(replies) <= MaxAttempts
  /\ exhausted \in BOOLEAN
  /\ label \in {NotYet, "success", "timeout", "budget_capped", "error",
                "skipped_cooldown"}
  /\ effect \in {"none", "reset", "counted"}

(* retryWithBackoff asks again only after a network failure, and reports   *)
(* exhaustion exactly when every allowed attempt failed that way.          *)
RetriesJustified ==
  /\ \A i \in 1 .. Len(replies) - 1 : replies[i] = "network"
  /\ pc \in {"settle", "done"} =>
       (exhausted <=> /\ Len(replies) = MaxAttempts
                      /\ replies[MaxAttempts] = "network")

(* The two deadlines are never mistaken for one another: a stage ended by  *)
(* a deadline it shares with the request sees the request's context ended  *)
(* by it, so "timeout" really is SearxngTimeout's own expiry.              *)
DeadlineAttributed ==
  /\ capped /\ child = "deadline" => parent = "deadline"
  /\ label = "timeout" => ~capped /\ child = "deadline"
  /\ label = "budget_capped" /\ replies # <<>> => parent = "deadline"

(* The stage keeps the promise Search is built on, and it always ends.     *)
Contract == INSTANCE StageContract
ImplementsContract == Contract!Spec

(* docs/architecture.md:148: the outcome is "timeout" when the stage's own *)
(* SEARXNG_TIMEOUT_SECONDS expired with the parent alive.  Here: when the  *)
(* stage gave up waiting for its next attempt because of that expiry.      *)
GaveUp ==
  /\ pc = "done"
  /\ replies # <<>>
  /\ Len(replies) < MaxAttempts
  /\ Err = "network"

OwnExpiryIsTimeout ==
  GaveUp /\ child = "deadline" /\ parent = "live" => label = "timeout"
=============================================================================
