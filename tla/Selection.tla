----------------------------- MODULE Selection -----------------------------
(***************************************************************************)
(* How concurrent requests come by a provider and its breaker: the round-  *)
(* robin of Manager.NextAvailable (backends/manager.go), whose only shared *)
(* state is an atomic index, and the registry of breakers, whose entries   *)
(* getBreaker creates on first use (internal/breaker/breaker.go).  Each    *)
(* request is a premiumLoop; what a breaker answers is Breaker's affair.   *)
(***************************************************************************)
EXTENDS Integers, Sequences, FiniteSets

CONSTANTS
  Requests, \* requests that may run at once
  Pool,     \* the configured providers, in PremiumPoolOrder
  MaxIndex  \* bound: the selections made

ASSUME PoolAssumption ==
  /\ Pool \in Seq(STRING)
  /\ Len(Pool) > 0
  /\ \A i, j \in DOMAIN Pool : Pool[i] = Pool[j] => i = j

Providers == {Pool[i] : i \in DOMAIN Pool}

NoEntry == [name |-> "none"]

(* A breakerEntry, told apart by the request that made it. *)
Entries == [name: Providers, by: Requests]

VARIABLES
  rrIdx,    \* Manager.rrIdx
  registry, \* Manager.breakers: provider name -> entry
  pc,       \* where each request is in its premium loop
  used,     \* usedPremiums of each request
  at,       \* the provider a request has selected
  entry,    \* the entry a request has got from getBreaker
  counted,  \* the entries that have counted an admission
  full,     \* selections of each provider made from the whole pool
  partial   \* selections made from a part of it

loopVars == <<pc, used, at, entry>>
tally == <<full, partial>>
vars == <<rrIdx, registry, loopVars, counted, tally>>

Init ==
  /\ rrIdx = 0
  /\ registry = [p \in Providers |-> NoEntry]
  /\ pc = [r \in Requests |-> "loop"]
  /\ used = [r \in Requests |-> {}]
  /\ at = [r \in Requests |-> Pool[1]]
  /\ entry = [r \in Requests |-> NoEntry]
  /\ counted = {}
  /\ full = [p \in Providers |-> 0]
  /\ partial = 0

(* The candidates of a request, as positions in the pool's order. *)
Available(r) == {i \in DOMAIN Pool : Pool[i] \notin used[r]}

(* p is the candidate at the index, modulo the number of candidates. *)
AtIndex(r, p) ==
  \E i \in Available(r) :
    /\ p = Pool[i]
    /\ Cardinality({j \in Available(r) : j < i})
         = rrIdx % Cardinality(Available(r))

Tally(p, whole) ==
  /\ full' = IF whole THEN [full EXCEPT ![p] = @ + 1] ELSE full
  /\ partial' = IF whole THEN partial ELSE partial + 1

Chosen(r, p) ==
  /\ used' = [used EXCEPT ![r] = @ \cup {p}]
  /\ at' = [at EXCEPT ![r] = p]
  /\ pc' = [pc EXCEPT ![r] = "lookup"]
  /\ Tally(p, used[r] = {})
  /\ UNCHANGED <<registry, entry, counted>>

(* Defect: the index is read and not advanced. *)
NextAvailableStuck(r) ==
  /\ pc[r] = "loop"
  /\ rrIdx < MaxIndex
  /\ \E p \in Providers : AtIndex(r, p) /\ Chosen(r, p)
  /\ UNCHANGED rrIdx

(* NextAvailable: rrIdx.Add(1)-1, modulo the candidates this request has   *)
(* left; the loop notes the provider as used.                              *)
NextAvailable(r) ==
  /\ pc[r] = "loop"
  /\ rrIdx < MaxIndex
  /\ rrIdx' = rrIdx + 1
  /\ \E p \in Providers : AtIndex(r, p) /\ Chosen(r, p)

(* getBreaker, under the read lock. *)
Lookup(r) ==
  /\ pc[r] = "lookup"
  /\ entry' = [entry EXCEPT ![r] = registry[at[r]]]
  /\ pc' = [pc EXCEPT ![r] =
              IF registry[at[r]] = NoEntry THEN "create" ELSE "door"]
  /\ UNCHANGED <<rrIdx, registry, used, at, counted, tally>>

(* Defect: the entry is not looked up again under the write lock. *)
CreateUnchecked(r) ==
  /\ pc[r] = "create"
  /\ LET mine == [name |-> at[r], by |-> r] IN
       /\ registry' = [registry EXCEPT ![at[r]] = mine]
       /\ entry' = [entry EXCEPT ![r] = mine]
  /\ pc' = [pc EXCEPT ![r] = "door"]
  /\ UNCHANGED <<rrIdx, used, at, counted, tally>>

(* getBreaker, under the write lock. *)
Create(r) ==
  /\ pc[r] = "create"
  /\ LET found == registry[at[r]]
         mine  == IF found = NoEntry THEN [name |-> at[r], by |-> r] ELSE found
     IN  /\ registry' = [registry EXCEPT ![at[r]] = mine]
         /\ entry' = [entry EXCEPT ![r] = mine]
  /\ pc' = [pc EXCEPT ![r] = "door"]
  /\ UNCHANGED <<rrIdx, used, at, counted, tally>>

(* The breaker refuses: the loop goes on to the next provider. *)
Refused(r) ==
  /\ pc[r] = "door"
  /\ pc' = [pc EXCEPT ![r] = "loop"]
  /\ entry' = [entry EXCEPT ![r] = NoEntry]
  /\ UNCHANGED <<rrIdx, registry, used, at, counted, tally>>

Admitted(r) ==
  /\ pc[r] = "door"
  /\ pc' = [pc EXCEPT ![r] = "calling"]
  /\ counted' = counted \cup {entry[r]}
  /\ UNCHANGED <<rrIdx, registry, used, at, entry, tally>>

(* done: the closure reports to the entry that admitted the call. *)
Reported(r) ==
  /\ pc[r] = "calling"
  /\ pc' = [pc EXCEPT ![r] = "loop"]
  /\ entry' = [entry EXCEPT ![r] = NoEntry]
  /\ UNCHANGED <<rrIdx, registry, used, at, counted, tally>>

(* The loop ends (target reached, no candidate left, context over), or     *)
(* never begins, and the next request starts with nothing excluded.        *)
LoopEnds(r) ==
  /\ pc[r] = "loop"
  /\ used' = [used EXCEPT ![r] = {}]
  /\ UNCHANGED <<rrIdx, registry, pc, at, entry, counted, tally>>

Step(r) ==
  \/ NextAvailable(r) \/ Lookup(r) \/ Create(r)
  \/ Refused(r) \/ Admitted(r) \/ Reported(r) \/ LoopEnds(r)

Next == \E r \in Requests : Step(r)

Spec == Init /\ [][Next]_vars

-----------------------------------------------------------------------------
TypeOK ==
  /\ rrIdx \in Nat
  /\ registry \in [Providers -> Entries \cup {NoEntry}]
  /\ pc \in [Requests -> {"loop", "lookup", "create", "door", "calling"}]
  /\ used \in [Requests -> SUBSET Providers]
  /\ at \in [Requests -> Providers]
  /\ entry \in [Requests -> Entries \cup {NoEntry}]
  /\ counted \in SUBSET (Entries \cup {NoEntry})
  /\ full \in [Providers -> Nat]
  /\ partial \in Nat

(* However many requests ask for an unknown provider's breaker at once,    *)
(* all of them are admitted by, and report to, the one that stays          *)
(* registered: no admission or fault is counted where nobody will look     *)
(* (getBreaker's double-checked creation, breaker.go:258-307).             *)
OneBreakerPerName ==
  /\ \A e \in counted : registry[e.name] = e
  /\ \A r \in Requests : pc[r] \in {"door", "calling"} =>
       entry[r] # NoEntry /\ registry[at[r]] = entry[r]

(* First choices are even up to one, plus one for every selection made by  *)
(* a loop that had already tried a provider: it takes an index from the    *)
(* others.  manager.go:84-85 promises an even load without that term.      *)
FirstChoicesEven ==
  \A p, q \in Providers : full[p] <= full[q] + 1 + partial
=============================================================================
