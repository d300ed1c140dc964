------------------------------- MODULE Cache -------------------------------
(***************************************************************************)
(* internal/cache/cache.go: an LRU of bounded size whose entries expire    *)
(* when a reader meets them.  The LRU (hashicorp/golang-lru) locks each of *)
(* its calls; Get makes two of them, and another request may come between. *)
(***************************************************************************)
EXTENDS Naturals, SequencesExt

CONSTANTS
  Capacity, \* CACHE_SIZE
  TTL       \* CACHE_TTL_SECONDS; not positive: entries do not expire

(* lru.New refuses any other size, and main ends. *)
ASSUME CapacityAssumption == Capacity \in Nat \ {0}
ASSUME TTLAssumption == TTL \in Nat

VARIABLES
  now, \* the clock
  lru  \* the entries, the least recently used first

CacheInit == lru = <<>>

Holds(k) == \E i \in DOMAIN lru : lru[i].key = k
Place(k) == CHOOSE i \in DOMAIN lru : lru[i].key = k
At(k) == lru[Place(k)]
Without(k) == IF Holds(k) THEN RemoveAt(lru, Place(k)) ELSE lru

Expired(e) == TTL > 0 /\ now - e.ts > TTL

(* Defect: a hit makes the entry young again. *)
TouchRenews(k) ==
  lru' = IF Holds(k) THEN Append(Without(k), [At(k) EXCEPT !.ts = now]) ELSE lru

(* Get, up to its verdict: lru.Get makes the entry the most recent one,    *)
(* expired or not.                                                         *)
Touch(k) == lru' = IF Holds(k) THEN Append(Without(k), At(k)) ELSE lru

Verdict(k) ==
  IF ~Holds(k) THEN "miss" ELSE IF Expired(At(k)) THEN "expired" ELSE "hit"

(* Defect: the entry is left for the next Set to replace. *)
DiscardNothing(k) == UNCHANGED lru

(* Defect: the oldest entry is removed instead (lru.RemoveOldest). *)
DiscardOldest(k) == lru' = IF lru = <<>> THEN lru ELSE Tail(lru)

(* Get's lru.Remove: whatever is under the key by now. *)
Discard(k) == lru' = Without(k)

Entry(k, v) == [key |-> k, val |-> v, ts |-> now]

(* Defect: one entry more than CACHE_SIZE. *)
SetEvictsLate(k, v) ==
  lru' = LET s == Append(Without(k), Entry(k, v))
         IN  IF Len(s) > Capacity + 1 THEN Tail(s) ELSE s

(* Set: replaces the entry or adds one, at the cost of the least recently  *)
(* used when there are too many.                                           *)
Set(k, v) ==
  lru' = LET s == Append(Without(k), Entry(k, v))
         IN  IF Len(s) > Capacity THEN Tail(s) ELSE s
=============================================================================
