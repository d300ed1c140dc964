--------------------------- MODULE StageContract ---------------------------
(***************************************************************************)
(* What one SearXNG stage promises the request it serves: exactly one      *)
(* stage outcome, and one effect on the failure streak that blames SearXNG *)
(* for what happened while the request could still wait, and for nothing   *)
(* else.  SearxngStage implements it; Search is built on it.               *)
(***************************************************************************)

VARIABLES
  parent, \* the request's context: live, or what ended it
  due,    \* the request's deadline has passed, seen by the context or not
  label,  \* searxng_stage_total{outcome}, NotYet until the stage is over
  effect  \* what the stage did to the failure streak

Ends     == {"deadline", "cancelled"}
NotYet   == "not_yet"
Failures == {"timeout", "budget_capped", "error"}
Skips    == {"skipped_cooldown", "budget_capped"}

vars == <<parent, due, label, effect>>

Init ==
  /\ parent = "live"
  /\ due = FALSE
  /\ label = NotYet
  /\ effect = "none"

(* The request's deadline passes; a moment later its context says so. *)
DeadlinePasses == ~due /\ due' = TRUE /\ UNCHANGED <<parent, label, effect>>

ContextEnds ==
  /\ parent = "live"
  /\ parent' \in Ends
  /\ parent' = "deadline" => due
  /\ UNCHANGED <<due, label, effect>>

(* The stage is not run: in cooldown, or too late for it. *)
Skip(l) ==
  /\ label = NotYet
  /\ l \in Skips
  /\ l = "budget_capped" => due \/ parent # "live"
  /\ label' = l
  /\ UNCHANGED <<parent, due, effect>>

Succeed ==
  /\ label = NotYet
  /\ label' = "success"
  /\ effect' = "reset"
  /\ UNCHANGED <<parent, due>>

(* A stage that gives up while the request lives counts, and so does one   *)
(* that used up its own timeout; one that ran out of the request's budget, *)
(* or whose request has ended meanwhile, does not.                         *)
Fail(l, counts) ==
  /\ label = NotYet
  /\ l \in Failures
  /\ l = "timeout" => counts
  /\ l = "error" => (counts <=> parent = "live")
  /\ l = "budget_capped" => ~counts /\ parent = "deadline"
  /\ label' = l
  /\ effect' = IF counts THEN "counted" ELSE "none"
  /\ UNCHANGED <<parent, due>>

StageStep ==
  \/ \E l \in Skips : Skip(l)
  \/ Succeed
  \/ \E l \in Failures, counts \in BOOLEAN : Fail(l, counts)

Next == DeadlinePasses \/ ContextEnds \/ StageStep

Spec == Init /\ [][Next]_vars /\ WF_vars(StageStep)
=============================================================================
