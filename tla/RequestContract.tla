-------------------------- MODULE RequestContract --------------------------
(***************************************************************************)
(* What the gateway promises for one search request: providers are paid    *)
(* for at most once each and never two at a time, every URL any stage      *)
(* returned is in the answer, and a request ends exactly once -- with all  *)
(* that was gathered, or, only when nothing was, with a failure or an      *)
(* honest empty answer.  Search implements it.                             *)
(***************************************************************************)
EXTENDS FiniteSets

CONSTANTS Providers, URLs

VARIABLES
  asked,    \* providers called so far
  inFlight, \* the provider calls that have not returned
  gathered, \* URLs returned by SearXNG or a provider
  reply     \* what the caller got

Pending == [kind |-> "pending", urls |-> {}]
Failed  == [kind |-> "failed", urls |-> {}]
Answer(us) == [kind |-> "answer", urls |-> us]

vars == <<asked, inFlight, gathered, reply>>

(* A cache hit is answered with what an earlier request gathered. *)
Init ==
  /\ asked = {}
  /\ inFlight = {}
  /\ gathered \in SUBSET URLs
  /\ reply = Pending

Ask(p) ==
  /\ reply = Pending
  /\ p \notin asked
  /\ inFlight = {}
  /\ asked' = asked \cup {p}
  /\ inFlight' = {p}
  /\ UNCHANGED <<gathered, reply>>

ProviderReturns(p, us) ==
  /\ p \in inFlight
  /\ inFlight' = inFlight \ {p}
  /\ gathered' = gathered \cup us
  /\ UNCHANGED <<asked, reply>>

SearxngReturns(us) ==
  /\ reply = Pending
  /\ gathered' = gathered \cup us
  /\ UNCHANGED <<asked, inFlight, reply>>

Reply ==
  /\ reply = Pending
  /\ inFlight = {}
  /\ \/ reply' = Answer(gathered)
     \/ gathered = {} /\ reply' = Failed
  /\ UNCHANGED <<asked, inFlight, gathered>>

Next ==
  \/ \E p \in Providers : Ask(p)
  \/ \E p \in Providers, us \in SUBSET URLs : ProviderReturns(p, us)
  \/ \E us \in SUBSET URLs : SearxngReturns(us)
  \/ Reply

Spec == Init /\ [][Next]_vars /\ <>(reply # Pending)
=============================================================================
