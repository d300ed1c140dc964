-------------------------- MODULE SelectionProofs --------------------------
(***************************************************************************)
(* Proofs about Selection, for any number of requests and any pool: the    *)
(* registry hands out one breaker per provider, and first choices stay as  *)
(* even as the other selections let them.                                  *)
(***************************************************************************)
EXTENDS Selection, FiniteSetTheorems, TLAPS

(* What OneBreakerPerName rests on: entries are registered under their own *)
(* names, and whatever is held or counted is registered.                   *)
RegistryInv ==
  /\ TypeOK
  /\ \A p \in Providers : registry[p] # NoEntry => registry[p].name = p
  /\ NoEntry \notin counted
  /\ OneBreakerPerName

(* An entry is told from no entry by its maker. *)
LEMMA EntryIsSome ==
  ASSUME NEW p, NEW r
  PROVE  [name |-> p, by |-> r] # NoEntry
<1> SUFFICES ASSUME [name |-> p, by |-> r] = NoEntry PROVE FALSE
  OBVIOUS
<1>1. DOMAIN [name |-> p, by |-> r] = {"name", "by"}
  OBVIOUS
<1>2. DOMAIN NoEntry = {"name"}
  BY DEF NoEntry
<1> QED
  BY <1>1, <1>2

LEMMA FirstProvider == Pool[1] \in Providers
  BY PoolAssumption DEF Providers

LEMMA InitRegistry == Init => RegistryInv
<1> SUFFICES ASSUME Init PROVE RegistryInv
  OBVIOUS
<1>1. TypeOK
  BY FirstProvider DEF Init, TypeOK
<1> QED
  BY <1>1 DEF Init, RegistryInv, OneBreakerPerName

LEMMA SelectKeeps ==
  ASSUME RegistryInv, NEW r \in Requests, NextAvailable(r)
  PROVE  RegistryInv'
<1> PICK p \in Providers : Chosen(r, p)
  BY DEF NextAvailable
<1>1. TypeOK'
  BY DEF RegistryInv, TypeOK, NextAvailable, Chosen, Tally
<1>2. OneBreakerPerName'
  BY DEF RegistryInv, OneBreakerPerName, TypeOK, Chosen
<1> QED
  BY <1>1, <1>2 DEF RegistryInv, Chosen

LEMMA LookupKeeps ==
  ASSUME RegistryInv, NEW r \in Requests, Lookup(r)
  PROVE  RegistryInv'
<1>1. TypeOK'
  BY DEF RegistryInv, TypeOK, Lookup, tally
<1>2. OneBreakerPerName'
  BY DEF RegistryInv, OneBreakerPerName, TypeOK, Lookup
<1> QED
  BY <1>1, <1>2 DEF RegistryInv, Lookup

(* Only a name without an entry gets one; nobody holds or has counted one  *)
(* under that name, so nobody is left with another.                        *)
LEMMA CreateKeeps ==
  ASSUME RegistryInv, NEW r \in Requests, Create(r)
  PROVE  RegistryInv'
<1> DEFINE found == registry[at[r]]
           fresh == [name |-> at[r], by |-> r]
           mine  == IF found = NoEntry THEN fresh ELSE found
<1>0. at[r] \in Providers /\ fresh \in Entries /\ fresh # NoEntry
  BY EntryIsSome DEF RegistryInv, TypeOK, Entries
<1>1. /\ mine \in Entries \cup {NoEntry}
      /\ mine # NoEntry
      /\ mine.name = at[r]
  BY <1>0 DEF RegistryInv, TypeOK
<1> HIDE DEF mine
<1>2. /\ registry' = [registry EXCEPT ![at[r]] = mine]
      /\ entry' = [entry EXCEPT ![r] = mine]
      /\ pc' = [pc EXCEPT ![r] = "door"]
      /\ UNCHANGED <<rrIdx, used, at, counted, full, partial>>
  BY DEF Create, tally, mine
<1>3. TypeOK'
  BY <1>0, <1>1, <1>2 DEF RegistryInv, TypeOK
<1>4. \A p \in Providers : registry[p] # NoEntry => registry'[p] = registry[p]
  BY <1>0, <1>2 DEF mine, RegistryInv, TypeOK
<1>5. \A p \in Providers : registry'[p] # NoEntry => registry'[p].name = p
  BY <1>0, <1>1, <1>2, <1>4 DEF RegistryInv, TypeOK
<1>6. \A e \in counted : e.name \in Providers /\ registry'[e.name] = e
  BY <1>4 DEF RegistryInv, OneBreakerPerName, TypeOK, Entries
<1>7. ASSUME NEW s \in Requests, pc'[s] \in {"door", "calling"}
      PROVE  entry'[s] # NoEntry /\ registry'[at'[s]] = entry'[s]
  <2>1. CASE s = r
    BY <2>1, <1>0, <1>1, <1>2 DEF RegistryInv, TypeOK
  <2>2. CASE s # r
    BY <2>2, <1>2, <1>4, <1>7 DEF RegistryInv, TypeOK, OneBreakerPerName
  <2> QED
    BY <2>1, <2>2
<1> QED
  BY <1>2, <1>3, <1>5, <1>6, <1>7 DEF RegistryInv, OneBreakerPerName

LEMMA AdmittedKeeps ==
  ASSUME RegistryInv, NEW r \in Requests, Admitted(r)
  PROVE  RegistryInv'
<1>1. TypeOK'
  BY DEF RegistryInv, TypeOK, Admitted, tally
<1>2. /\ entry[r] # NoEntry
      /\ registry[entry[r].name] = entry[r]
  BY DEF RegistryInv, OneBreakerPerName, TypeOK, Admitted
<1>3. OneBreakerPerName'
  BY <1>2 DEF RegistryInv, OneBreakerPerName, TypeOK, Admitted
<1> QED
  BY <1>1, <1>2, <1>3 DEF RegistryInv, Admitted

LEMMA ReleaseKeeps ==
  ASSUME RegistryInv, NEW r \in Requests, Refused(r) \/ Reported(r)
  PROVE  RegistryInv'
<1>1. TypeOK'
  BY DEF RegistryInv, TypeOK, Refused, Reported, tally
<1>2. OneBreakerPerName'
  BY DEF RegistryInv, OneBreakerPerName, TypeOK, Refused, Reported
<1> QED
  BY <1>1, <1>2 DEF RegistryInv, Refused, Reported

LEMMA LoopEndsKeeps ==
  ASSUME RegistryInv, NEW r \in Requests, LoopEnds(r)
  PROVE  RegistryInv'
  BY DEF RegistryInv, OneBreakerPerName, TypeOK, LoopEnds, tally

LEMMA StutterKeeps == RegistryInv /\ UNCHANGED vars => RegistryInv'
  BY DEF RegistryInv, OneBreakerPerName, TypeOK, vars, loopVars, tally

(* The registry's invariant holds in every reachable state: an entry, once *)
(* registered, is the only one of its name (breaker.go:258-307).           *)
THEOREM RegistryInvariant == Spec => []RegistryInv
<1>1. RegistryInv /\ [Next]_vars => RegistryInv'
  <2> SUFFICES ASSUME RegistryInv, [Next]_vars PROVE RegistryInv'
    OBVIOUS
  <2>1. ASSUME NEW r \in Requests, Step(r) PROVE RegistryInv'
    BY <2>1, SelectKeeps, LookupKeeps, CreateKeeps, AdmittedKeeps,
       ReleaseKeeps, LoopEndsKeeps DEF Step
  <2>2. CASE UNCHANGED vars
    BY <2>2, StutterKeeps
  <2> QED
    BY <2>1, <2>2 DEF Next
<1> QED
  BY <1>1, InitRegistry, PTL DEF Spec

(* Every variable keeps its type. *)
THEOREM TypeCorrect == Spec => []TypeOK
<1>1. RegistryInv => TypeOK
  BY DEF RegistryInv
<1> QED
  BY <1>1, RegistryInvariant, PTL

(* All that are admitted under a provider's name are admitted by, and      *)
(* report to, the one breaker registered for it, for any number of         *)
(* requests and providers (breaker.go:258-307).                            *)
THEOREM OneBreaker == Spec => []OneBreakerPerName
<1>1. RegistryInv => OneBreakerPerName
  BY DEF RegistryInv
<1> QED
  BY <1>1, RegistryInvariant, PTL

-----------------------------------------------------------------------------
(* The indexes so far that fall on the i-th of the whole pool. *)
Turns(i) ==
  (rrIdx \div Len(Pool)) + (IF i <= rrIdx % Len(Pool) THEN 1 ELSE 0)

(* Each of its turns went to a provider, but for those other selections    *)
(* took: what FirstChoicesEven rests on.                                   *)
TurnsInv ==
  \A i \in DOMAIN Pool :
    full[Pool[i]] <= Turns(i) /\ Turns(i) <= full[Pool[i]] + partial

LEMMA NextIndex ==
  ASSUME NEW n \in Nat \ {0}, NEW k \in Nat
  PROVE  /\ k % n \in 0 .. (n - 1)
         /\ k \div n \in Nat
         /\ (k % n) + 1 < n =>
              (k + 1) % n = (k % n) + 1 /\ (k + 1) \div n = k \div n
         /\ (k % n) + 1 = n =>
              (k + 1) % n = 0 /\ (k + 1) \div n = (k \div n) + 1
  OBVIOUS

LEMMA PoolLength ==
  Len(Pool) \in Nat \ {0} /\ DOMAIN Pool = 1 .. Len(Pool)
  BY PoolAssumption

(* With nobody excluded the candidate is the pool's at the index. *)
LEMMA WholePoolChoice ==
  ASSUME TypeOK, NEW r \in Requests, used[r] = {}, NEW p, AtIndex(r, p)
  PROVE  p = Pool[(rrIdx % Len(Pool)) + 1]
<1>1. Available(r) = 1 .. Len(Pool)
  BY PoolLength DEF Available
<1>2. Cardinality(1 .. Len(Pool)) = Len(Pool)
  BY FS_Interval, PoolLength
<1>3. PICK i \in 1 .. Len(Pool) :
        /\ p = Pool[i]
        /\ Cardinality({j \in 1 .. Len(Pool) : j < i}) = rrIdx % Len(Pool)
  BY <1>1, <1>2 DEF AtIndex
<1>4. {j \in 1 .. Len(Pool) : j < i} = 1 .. (i - 1)
  BY PoolLength
<1>5. Cardinality(1 .. (i - 1)) = i - 1
  BY FS_Interval, PoolLength
<1>6. i - 1 = rrIdx % Len(Pool)
  BY <1>3, <1>4, <1>5
<1>7. i = (rrIdx % Len(Pool)) + 1
  BY <1>6, PoolLength
<1> QED
  BY <1>3, <1>7

(* One more index is one more turn, for one provider. *)
LEMMA NextTurn ==
  ASSUME TypeOK, rrIdx' = rrIdx + 1, NEW i \in DOMAIN Pool
  PROVE  /\ Turns(i) \in Nat
         /\ Turns(i)' = Turns(i) +
              (IF i = (rrIdx % Len(Pool)) + 1 THEN 1 ELSE 0)
<1> DEFINE n == Len(Pool)
<1>1. n \in Nat \ {0} /\ i \in 1 .. n /\ rrIdx \in Nat
  BY PoolLength DEF TypeOK
<1>2. /\ rrIdx % n \in 0 .. (n - 1)
      /\ rrIdx \div n \in Nat
      /\ (rrIdx % n) + 1 < n =>
           (rrIdx + 1) % n = (rrIdx % n) + 1 /\ (rrIdx + 1) \div n = rrIdx \div n
      /\ (rrIdx % n) + 1 = n =>
           (rrIdx + 1) % n = 0 /\ (rrIdx + 1) \div n = (rrIdx \div n) + 1
  BY <1>1, NextIndex
<1>3. Turns(i)' = ((rrIdx + 1) \div n) + (IF i <= (rrIdx + 1) % n THEN 1 ELSE 0)
  BY DEF Turns
<1> HIDE DEF n
<1>4. Turns(i) = (rrIdx \div n) + (IF i <= rrIdx % n THEN 1 ELSE 0)
  BY DEF Turns, n
<1>5. CASE (rrIdx % n) + 1 < n
  BY <1>1, <1>2, <1>3, <1>4, <1>5 DEF n
<1>6. CASE (rrIdx % n) + 1 = n
  BY <1>1, <1>2, <1>3, <1>4, <1>6 DEF n
<1> QED
  BY <1>1, <1>2, <1>5, <1>6

LEMMA SelectTurns ==
  ASSUME TypeOK, TurnsInv, NEW r \in Requests, NextAvailable(r)
  PROVE  TurnsInv'
<1> DEFINE k == (rrIdx % Len(Pool)) + 1
<1>1. PICK p \in Providers : AtIndex(r, p) /\ Chosen(r, p)
  BY DEF NextAvailable
<1>2. rrIdx' = rrIdx + 1
  BY DEF NextAvailable
<1>3. ASSUME NEW i \in DOMAIN Pool
      PROVE  full'[Pool[i]] <= Turns(i)' /\ Turns(i)' <= full'[Pool[i]] + partial'
  <2>1. /\ Turns(i) \in Nat
        /\ Turns(i)' = Turns(i) + (IF i = k THEN 1 ELSE 0)
    BY <1>2, NextTurn
  <2>2. /\ full[Pool[i]] <= Turns(i) /\ Turns(i) <= full[Pool[i]] + partial
        /\ full[Pool[i]] \in Nat /\ partial \in Nat /\ Pool[i] \in Providers
    BY DEF TurnsInv, TypeOK, Providers
  <2>3. CASE used[r] = {}
    <3>1. p = Pool[k] /\ k \in DOMAIN Pool
      <4>1. p = Pool[k]
        BY <1>1, <2>3, WholePoolChoice
      <4>2. rrIdx % Len(Pool) \in 0 .. (Len(Pool) - 1)
        BY NextIndex, PoolLength DEF TypeOK
      <4> QED
        BY <4>1, <4>2, PoolLength
    <3>2. full' = [full EXCEPT ![p] = @ + 1] /\ partial' = partial
      BY <1>1, <2>3 DEF Chosen, Tally
    <3>3. Pool[i] = p <=> i = k
      BY <3>1, PoolAssumption
    <3>4. full'[Pool[i]] = full[Pool[i]] + (IF i = k THEN 1 ELSE 0)
      BY <3>2, <3>3, <2>2 DEF TypeOK
    <3> HIDE DEF k
    <3> QED
      BY <2>1, <2>2, <3>2, <3>4
  <2>4. CASE used[r] # {}
    <3>1. full' = full /\ partial' = partial + 1
      BY <1>1, <2>4 DEF Chosen, Tally
    <3> HIDE DEF k
    <3> QED
      BY <2>1, <2>2, <3>1
  <2> QED
    BY <2>3, <2>4
<1> QED
  BY <1>3 DEF TurnsInv

LEMMA InitTurns == Init => TurnsInv
<1> SUFFICES ASSUME Init, NEW i \in DOMAIN Pool
             PROVE  full[Pool[i]] <= Turns(i) /\ Turns(i) <= full[Pool[i]] + partial
  BY DEF TurnsInv
<1>1. 0 % Len(Pool) = 0 /\ 0 \div Len(Pool) = 0
  BY PoolLength
<1>2. Turns(i) = 0
  BY <1>1, PoolLength DEF Init, Turns
<1> QED
  BY <1>2 DEF Init, Providers

LEMMA QuietTurns ==
  ASSUME TurnsInv, UNCHANGED <<rrIdx, tally>>
  PROVE  TurnsInv'
  BY DEF TurnsInv, Turns, tally

THEOREM TurnsInvariant == Spec => []TurnsInv
<1>1. RegistryInv /\ TurnsInv /\ [Next]_vars => TurnsInv'
  <2> SUFFICES ASSUME RegistryInv, TurnsInv, [Next]_vars PROVE TurnsInv'
    OBVIOUS
  <2>1. ASSUME NEW r \in Requests, NextAvailable(r) PROVE TurnsInv'
    BY <2>1, SelectTurns DEF RegistryInv
  <2>2. ASSUME NEW r \in Requests, Step(r), ~NextAvailable(r) PROVE TurnsInv'
    BY <2>2, QuietTurns
       DEF Step, Lookup, Create, Refused, Admitted, Reported, LoopEnds
  <2>3. CASE UNCHANGED vars
    BY <2>3, QuietTurns DEF vars
  <2> QED
    BY <2>1, <2>2, <2>3 DEF Next
<1> QED
  BY <1>1, InitTurns, RegistryInvariant, PTL DEF Spec

(* First choices of any two providers differ by one at most, plus one for  *)
(* every selection that was not a first choice, for any pool and any       *)
(* number of requests (manager.go:84-102).                                 *)
THEOREM EvenFirstChoices == Spec => []FirstChoicesEven
<1>1. RegistryInv /\ TurnsInv => FirstChoicesEven
  <2> SUFFICES ASSUME RegistryInv, TurnsInv, NEW p \in Providers, NEW q \in Providers
               PROVE  full[p] <= full[q] + 1 + partial
    BY DEF FirstChoicesEven
  <2>1. PICK i \in DOMAIN Pool, j \in DOMAIN Pool : p = Pool[i] /\ q = Pool[j]
    BY DEF Providers
  <2>2. /\ full[p] \in Nat /\ full[q] \in Nat /\ partial \in Nat
        /\ rrIdx \div Len(Pool) \in Nat
    BY NextIndex, PoolLength DEF RegistryInv, TypeOK
  <2>3. Turns(i) <= Turns(j) + 1
    BY <2>2 DEF Turns
  <2>4. full[p] <= Turns(i) /\ Turns(j) <= full[q] + partial
    BY <2>1 DEF TurnsInv
  <2>5. Turns(i) \in Nat /\ Turns(j) \in Nat
    BY <2>2 DEF Turns
  <2> QED
    BY <2>2, <2>3, <2>4, <2>5
<1> QED
  BY <1>1, RegistryInvariant, TurnsInvariant, PTL
=============================================================================
