--------------------------- MODULE SearchService ---------------------------
(***************************************************************************)
(* What GET /search promises its callers, whoever shares the cache with    *)
(* them and whenever the process stops: one reply to what the caller asked,*)
(* which stays as it is; results come under the caller's own query, found  *)
(* by the request itself or by one whose query differs in letter case or   *)
(* spacing only, stored at most Life ago.  Gateway implements it.          *)
(***************************************************************************)
EXTENDS Naturals

CONSTANTS
  Requests,
  Queries, \* texts of q that are searched for
  Blank,   \* a q that is missing or only spaces
  KeyOf,   \* the folded text of each query
  Life     \* how long a stored answer may be handed out; 0: for ever

VARIABLES
  now,    \* the clock
  stored, \* answers kept: whose search found them, for what key, since when
  asked,  \* the question each caller has open
  reply   \* what each caller was told

vars == <<now, stored, asked, reply>>

NotAsked     == "not_asked"
Answered     == "answered"
NoReply      == [kind |-> "none"]
Refused      == [kind |-> "bad_request"]
NothingFound == [kind |-> "nothing_found"]
Found(q, r) == [kind |-> "results", query |-> q, by |-> r]

Init ==
  /\ now = 0
  /\ stored = {}
  /\ asked = [r \in Requests |-> NotAsked]
  /\ reply = [r \in Requests |-> NoReply]

(* An answer is kept; any answer may be forgotten at any time. *)
Keep(r, k) ==
  stored' \subseteq stored \cup {[by |-> r, key |-> k, at |-> now]}

Ask(r) ==
  /\ asked[r] = NotAsked
  /\ \E q \in Queries \cup {Blank} : asked' = [asked EXCEPT ![r] = q]
  /\ UNCHANGED <<now, stored, reply>>

(* The open question is closed by the only reply it gets. *)
Reply(r, what) ==
  /\ reply[r] = NoReply
  /\ reply' = [reply EXCEPT ![r] = what]
  /\ asked' = [asked EXCEPT ![r] = Answered]
  /\ UNCHANGED now

Fresh(a) == Life = 0 \/ now - a.at <= Life

Refuse(r) ==
  /\ asked[r] = Blank
  /\ Reply(r, Refused)
  /\ UNCHANGED stored

AnswerFresh(r) ==
  /\ asked[r] \in Queries
  /\ Reply(r, Found(asked[r], r))
  /\ Keep(r, KeyOf[asked[r]])

AnswerKept(r) ==
  /\ asked[r] \in Queries
  /\ \E a \in stored :
       /\ a.key = KeyOf[asked[r]]
       /\ Fresh(a)
       /\ Reply(r, Found(asked[r], a.by))
  /\ UNCHANGED stored

AnswerNothing(r) ==
  /\ asked[r] \in Queries
  /\ Reply(r, NothingFound)
  /\ UNCHANGED stored

Forget ==
  /\ stored' \subseteq stored
  /\ UNCHANGED <<now, asked, reply>>

Tick ==
  /\ now' > now
  /\ UNCHANGED <<stored, asked, reply>>

Next ==
  \/ Forget
  \/ Tick
  \/ \E r \in Requests :
       \/ Ask(r) \/ Refuse(r)
       \/ AnswerFresh(r) \/ AnswerKept(r) \/ AnswerNothing(r)

Spec == Init /\ [][Next]_vars
=============================================================================
