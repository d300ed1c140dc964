--------------------------- MODULE GatewayProofs ---------------------------
(***************************************************************************)
(* Proofs about Gateway and the cache it shares, for any number of         *)
(* requests, any queries, sizes and times: callers get what SearchService  *)
(* promises, entries are lost and replaced only for cause, and a shutdown  *)
(* cuts off only what may not fit its grace.                               *)
(***************************************************************************)
EXTENDS Gateway, SequenceTheorems, TLAPS

Entries == [key : Keys, val : Requests, ts : 0 .. MaxTime]

OneOfAKey(s) == \A i, j \in DOMAIN s : s[i].key = s[j].key => i = j

CacheOK == lru \in Seq(Entries) /\ Len(lru) <= Capacity /\ OneOfAKey(lru)

(* What the cache holds, in whatever order. *)
Held == ToSet(lru)

Others(k) == {e \in Held : e.key # k}

Typed == TypeOK /\ CacheOK /\ flushAt \in 0 .. MaxTime

(* The moments of the shutdown; when Shutdown has returned before its      *)
(* deadline nobody is left, and nobody can come.                           *)
Clock ==
  /\ phase = "draining" => stopAt <= now
  /\ phase = "flushing" =>
       /\ stopAt <= flushAt /\ flushAt <= now
       /\ flushAt - stopAt >= Grace \/ \A r \in Requests : ~InFlight(r)

(* An entry's value is an object that its maker has replied with.          *)
Kept ==
  \A e \in Held :
    e.ts <= now /\ reply[e.val] = Results(e.val) /\ responses[e.val].by = e.val

(* A request replies once, with an object of its own.                      *)
Own(r) ==
  /\ pc[r] \in {"absent", "handling", "discarding", "searching"} =>
       reply[r] = Status("none")
  /\ pc[r] \in {"discarding", "searching"} => query[r] \in Queries
  /\ reply[r].kind = "results" => reply[r] = Results(r)

(* The entry it met is expired if it is still there.                       *)
Seen(r) ==
  pc[r] = "discarding" =>
    /\ saw[r] \in Requests /\ reply[saw[r]] = Results(saw[r])
    /\ \A e \in Held : e.key = Key(r) /\ e.val = saw[r] => Expired(e)

(* What is under its key has come while it searched, within its budget.    *)
Recent(r) ==
  pc[r] = "searching" =>
    /\ since[r] <= now /\ now <= since[r] + Budget
    /\ \A e \in Held : e.key = Key(r) => e.ts >= since[r]

Of(r) == Own(r) /\ Seen(r) /\ Recent(r)

GatewayInv == Typed /\ Clock /\ Kept /\ \A r \in Requests : Of(r)

-----------------------------------------------------------------------------
(* Sequences of entries no two of which have one key.                      *)

LEMMA Before ==
  ASSUME NEW s \in Seq(Entries), NEW n \in 1 .. Len(s)
  PROVE  /\ SubSeq(s, 1, n - 1) \in Seq(Entries)
         /\ Len(SubSeq(s, 1, n - 1)) = n - 1
         /\ \A i \in 1 .. n - 1 : SubSeq(s, 1, n - 1)[i] = s[i]
BY LenProperties, ElementOfSeq

LEMMA Behind ==
  ASSUME NEW s \in Seq(Entries), NEW n \in 1 .. Len(s)
  PROVE  /\ SubSeq(s, n + 1, Len(s)) \in Seq(Entries)
         /\ Len(SubSeq(s, n + 1, Len(s))) = Len(s) - n
         /\ \A i \in 1 .. Len(s) - n : SubSeq(s, n + 1, Len(s))[i] = s[n + i]
BY LenProperties, ElementOfSeq

LEMMA OneRemoved ==
  ASSUME NEW s \in Seq(Entries), OneOfAKey(s), NEW n \in DOMAIN s
  PROVE  LET t == RemoveAt(s, n)
         IN  /\ t \in Seq(Entries) /\ Len(t) = Len(s) - 1 /\ OneOfAKey(t)
             /\ ToSet(t) = {e \in ToSet(s) : e.key # s[n].key}
<1>. DEFINE t == RemoveAt(s, n)
            a == SubSeq(s, 1, n - 1)
            b == SubSeq(s, n + 1, Len(s))
            from(i) == IF i < n THEN i ELSE i + 1
<1>1. DOMAIN s = 1 .. Len(s) /\ Len(s) \in Nat /\ n \in 1 .. Len(s)
  BY LenProperties
<1>2. t = a \o b
  BY DEF RemoveAt
<1>3. /\ a \in Seq(Entries) /\ Len(a) = n - 1
      /\ \A i \in 1 .. n - 1 : a[i] = s[i]
  BY <1>1, Before
<1>4. /\ b \in Seq(Entries) /\ Len(b) = Len(s) - n
      /\ \A i \in 1 .. Len(s) - n : b[i] = s[n + i]
  BY <1>1, Behind
<1>. HIDE DEF t, a, b
<1>5. /\ t \in Seq(Entries) /\ Len(t) = Len(s) - 1
      /\ DOMAIN t = 1 .. Len(s) - 1
      /\ \A i \in 1 .. Len(s) - 1 : t[i] = s[from(i)]
  <2>2. /\ t \in Seq(Entries) /\ Len(t) = Len(a) + Len(b)
        /\ \A i \in 1 .. Len(a) + Len(b) :
             t[i] = IF i <= Len(a) THEN a[i] ELSE b[i - Len(a)]
    BY <1>2, <1>3, <1>4, ConcatProperties
  <2>3. Len(t) = Len(s) - 1 /\ DOMAIN t = 1 .. Len(s) - 1
    BY <1>1, <1>3, <1>4, <2>2, LenProperties
  <2>4. ASSUME NEW i \in 1 .. Len(s) - 1 PROVE t[i] = s[from(i)]
    <3>1. CASE i < n
      BY <1>1, <1>3, <1>4, <2>2, <3>1
    <3>2. CASE ~(i < n)
      <4>1. t[i] = b[i - (n - 1)] /\ i - (n - 1) \in 1 .. Len(s) - n
        BY <1>1, <1>3, <1>4, <2>2, <3>2
      <4>2. n + (i - (n - 1)) = i + 1
        BY <1>1
      <4>. QED
        BY <1>4, <3>2, <4>1, <4>2
    <3>. QED
      BY <3>1, <3>2
  <2>. QED
    BY <2>2, <2>3, <2>4
<1>6. \A i \in 1 .. Len(s) - 1 : from(i) \in (1 .. Len(s)) \ {n}
  BY <1>1
<1>7. \A j \in (1 .. Len(s)) \ {n} : \E i \in 1 .. Len(s) - 1 : j = from(i)
  <2>. SUFFICES ASSUME NEW j \in (1 .. Len(s)) \ {n}
                PROVE  \E i \in 1 .. Len(s) - 1 : j = from(i)
    OBVIOUS
  <2>1. CASE j < n
    <3>1. j \in 1 .. Len(s) - 1 /\ j = from(j)
      BY <1>1, <2>1
    <3>. QED
      BY <3>1
  <2>2. CASE j > n
    <3>1. j - 1 \in 1 .. Len(s) - 1 /\ j = from(j - 1)
      BY <1>1, <2>2
    <3>. QED
      BY <3>1
  <2>. QED
    BY <1>1, <2>1, <2>2
<1>8. OneOfAKey(t)
  <2>. SUFFICES ASSUME NEW i \in 1 .. Len(s) - 1, NEW j \in 1 .. Len(s) - 1,
                       t[i].key = t[j].key
                PROVE  i = j
    BY <1>5 DEF OneOfAKey
  <2>1. s[from(i)].key = s[from(j)].key
    BY <1>5
  <2>2. from(i) = from(j)
    BY <1>1, <1>6, <2>1 DEF OneOfAKey
  <2>. QED
    BY <1>1, <2>2
<1>9. ToSet(t) = {e \in ToSet(s) : e.key # s[n].key}
  <2>1. ToSet(t) = {s[j] : j \in (1 .. Len(s)) \ {n}}
    <3>1. ToSet(t) = {s[from(i)] : i \in 1 .. Len(s) - 1}
      BY <1>5 DEF ToSet
    <3>. QED
      BY <1>6, <1>7, <3>1
  <2>2. ToSet(s) = {s[j] : j \in 1 .. Len(s)}
    BY <1>1 DEF ToSet
  <2>3. \A j \in 1 .. Len(s) : s[j].key = s[n].key <=> j = n
    BY <1>1 DEF OneOfAKey
  <2>. QED
    BY <2>1, <2>2, <2>3
<1>. QED
  BY <1>5, <1>8, <1>9 DEF t

LEMMA OneAppended ==
  ASSUME NEW s \in Seq(Entries), OneOfAKey(s), NEW e \in Entries,
         \A x \in ToSet(s) : x.key # e.key
  PROVE  LET t == Append(s, e)
         IN  /\ t \in Seq(Entries) /\ Len(t) = Len(s) + 1 /\ OneOfAKey(t)
             /\ ToSet(t) = ToSet(s) \cup {e} /\ t[Len(t)] = e
<1>. DEFINE t == Append(s, e)
<1>1. DOMAIN s = 1 .. Len(s) /\ Len(s) \in Nat
  BY LenProperties
<1>2. /\ t \in Seq(Entries) /\ Len(t) = Len(s) + 1 /\ t[Len(s) + 1] = e
      /\ \A i \in 1 .. Len(s) : t[i] = s[i]
  BY AppendProperties
<1>3. DOMAIN t = 1 .. Len(s) + 1
  BY <1>2, LenProperties
<1>4. \A i \in 1 .. Len(s) : s[i].key # e.key
  BY <1>1 DEF ToSet
<1>5. OneOfAKey(t)
  <2>. SUFFICES ASSUME NEW i \in 1 .. Len(s) + 1, NEW j \in 1 .. Len(s) + 1,
                       t[i].key = t[j].key
                PROVE  i = j
    BY <1>3 DEF OneOfAKey
  <2>1. CASE i \in 1 .. Len(s) /\ j \in 1 .. Len(s)
    BY <1>1, <1>2, <2>1 DEF OneOfAKey
  <2>2. CASE i = Len(s) + 1 \/ j = Len(s) + 1
    <3>1. i \notin 1 .. Len(s) \/ j \notin 1 .. Len(s)
      BY <1>1, <2>2
    <3>2. i \in 1 .. Len(s) \/ i = Len(s) + 1
      BY <1>1
    <3>3. j \in 1 .. Len(s) \/ j = Len(s) + 1
      BY <1>1
    <3>. QED
      BY <1>2, <1>4, <3>1, <3>2, <3>3
  <2>. QED
    BY <1>1, <2>1, <2>2
<1>6. ToSet(t) = ToSet(s) \cup {e}
  <2>1. ToSet(t) = {t[i] : i \in 1 .. Len(s) + 1}
    BY <1>3 DEF ToSet
  <2>2. ToSet(s) = {s[i] : i \in 1 .. Len(s)}
    BY <1>1 DEF ToSet
  <2>3. 1 .. Len(s) + 1 = (1 .. Len(s)) \cup {Len(s) + 1}
    BY <1>1
  <2>4. {t[i] : i \in 1 .. Len(s)} = {s[i] : i \in 1 .. Len(s)}
    BY <1>2
  <2>. QED
    BY <1>2, <2>1, <2>2, <2>3, <2>4
<1>. QED
  BY <1>2, <1>5, <1>6

LEMMA FirstDropped ==
  ASSUME NEW s \in Seq(Entries), OneOfAKey(s), s # <<>>
  PROVE  LET t == Tail(s)
         IN  /\ t \in Seq(Entries) /\ Len(t) = Len(s) - 1 /\ OneOfAKey(t)
             /\ ToSet(t) \subseteq ToSet(s)
             /\ Len(s) > 1 => s[Len(s)] \in ToSet(t)
<1>. DEFINE t == Tail(s)
<1>1. DOMAIN s = 1 .. Len(s) /\ Len(s) \in Nat
  BY LenProperties
<1>2. Len(s) > 0
  BY <1>1, EmptySeq
<1>3. /\ t \in Seq(Entries) /\ Len(t) = Len(s) - 1
      /\ \A i \in 1 .. Len(t) : t[i] = s[i + 1]
  BY HeadTailProperties
<1>4. DOMAIN t = 1 .. Len(s) - 1
  BY <1>3, LenProperties
<1>5. \A i \in 1 .. Len(s) - 1 : t[i] = s[i + 1] /\ i + 1 \in 1 .. Len(s)
  BY <1>1, <1>3
<1>6. OneOfAKey(t)
  BY <1>1, <1>4, <1>5 DEF OneOfAKey
<1>7. ToSet(t) \subseteq ToSet(s)
  BY <1>1, <1>4, <1>5 DEF ToSet
<1>8. ASSUME Len(s) > 1 PROVE s[Len(s)] \in ToSet(t)
  <2>1. /\ Len(s) - 1 \in 1 .. Len(s) - 1
        /\ (Len(s) - 1) + 1 = Len(s)
    BY <1>1, <1>8
  <2>2. t[Len(s) - 1] = s[Len(s)]
    BY <1>5, <2>1
  <2>. QED
    BY <1>4, <2>1, <2>2 DEF ToSet
<1>. QED
  BY <1>3, <1>6, <1>7, <1>8

-----------------------------------------------------------------------------
(* What the operations of the cache do to what it holds.                   *)

LEMMA AtSays ==
  ASSUME CacheOK, NEW k
  PROVE  /\ Holds(k) <=> \E e \in Held : e.key = k
         /\ Holds(k) => /\ Place(k) \in DOMAIN lru /\ lru[Place(k)] = At(k)
                        /\ At(k) \in Held /\ At(k).key = k
                        /\ \A e \in Held : e.key = k => e = At(k)
<1>1. Holds(k) <=> \E e \in Held : e.key = k
  BY DEF Holds, Held, ToSet
<1>2. ASSUME Holds(k)
      PROVE  /\ Place(k) \in DOMAIN lru /\ lru[Place(k)] = At(k)
             /\ At(k) \in Held /\ At(k).key = k
             /\ \A e \in Held : e.key = k => e = At(k)
  <2>1. Place(k) \in DOMAIN lru /\ lru[Place(k)].key = k
    BY <1>2 DEF Holds, Place
  <2>2. ASSUME NEW e \in Held, e.key = k PROVE e = At(k)
    <3>1. PICK i \in DOMAIN lru : e = lru[i]
      BY DEF Held, ToSet
    <3>. QED
      BY <2>1, <2>2, <3>1 DEF CacheOK, OneOfAKey, At
  <2>. QED
    BY <2>1, <2>2 DEF At, Held, ToSet
<1>. QED
  BY <1>1, <1>2

LEMMA HeldTyped ==
  ASSUME CacheOK PROVE \A e \in Held : e \in Entries
BY LenProperties, ElementOfSeq DEF CacheOK, Held, ToSet

LEMMA WithoutSays ==
  ASSUME CacheOK, NEW k
  PROVE  /\ Without(k) \in Seq(Entries) /\ OneOfAKey(Without(k))
         /\ ToSet(Without(k)) = Others(k)
         /\ Len(Without(k)) = IF Holds(k) THEN Len(lru) - 1 ELSE Len(lru)
<1>1. CASE Holds(k)
  <2>1. Place(k) \in DOMAIN lru /\ lru[Place(k)].key = k
    BY <1>1, AtSays
  <2>2. Without(k) = RemoveAt(lru, Place(k))
    BY <1>1 DEF Without
  <2>. QED
    BY <1>1, <2>1, <2>2, OneRemoved DEF CacheOK, Others, Held
<1>2. CASE ~Holds(k)
  BY <1>2, AtSays DEF CacheOK, Without, Others, Held
<1>. QED
  BY <1>1, <1>2

(* A lookup reorders the cache. *)
LEMMA TouchSays ==
  ASSUME CacheOK, NEW k, Touch(k)
  PROVE  CacheOK' /\ Held' = Held
<1>1. CASE ~Holds(k)
  BY <1>1 DEF Touch, CacheOK, Held
<1>2. CASE Holds(k)
  <2>1. At(k) \in Held /\ At(k).key = k /\ At(k) \in Entries
    BY <1>2, AtSays, HeldTyped
  <2>2. \A x \in ToSet(Without(k)) : x.key # At(k).key
    BY <2>1, WithoutSays DEF Others
  <2>3. lru' = Append(Without(k), At(k))
    BY <1>2 DEF Touch
  <2>4. /\ lru' \in Seq(Entries) /\ OneOfAKey(lru')
        /\ Len(lru') = Len(Without(k)) + 1
        /\ ToSet(lru') = Others(k) \cup {At(k)}
    BY <2>1, <2>2, <2>3, WithoutSays, OneAppended
  <2>5. Len(lru') = Len(lru)
    <3>1. Len(lru) \in Nat
      BY LenProperties DEF CacheOK
    <3>. QED
      BY <1>2, <2>4, <3>1, WithoutSays
  <2>6. Others(k) \cup {At(k)} = Held
    BY <1>2, <2>1, AtSays DEF Others
  <2>7. CacheOK'
    BY <2>4, <2>5 DEF CacheOK, OneOfAKey
  <2>. QED
    BY <2>4, <2>6, <2>7 DEF Held
<1>. QED
  BY <1>1, <1>2

LEMMA DiscardSays ==
  ASSUME CacheOK, NEW k, Discard(k)
  PROVE  CacheOK' /\ Held' = Others(k)
<1>1. /\ lru' \in Seq(Entries) /\ OneOfAKey(lru') /\ ToSet(lru') = Others(k)
      /\ Len(lru') <= Len(lru)
  <2>1. Len(lru) \in Nat
    BY LenProperties DEF CacheOK
  <2>. QED
    BY <2>1, WithoutSays DEF Discard
<1>2. Len(lru') <= Capacity
  BY <1>1, CapacityAssumption, LenProperties DEF CacheOK
<1>. QED
  BY <1>1, <1>2 DEF CacheOK, OneOfAKey, Held

(* An entry comes in under its key; another goes, if there are too many. *)
LEMMA SetSays ==
  ASSUME CacheOK, NEW k \in Keys, NEW v \in Requests, now \in 0 .. MaxTime,
         Set(k, v)
  PROVE  /\ CacheOK' /\ Entry(k, v) \in Held'
         /\ Held' \subseteq Others(k) \cup {Entry(k, v)}
         /\ \/ Others(k) \subseteq Held'
            \/ Len(lru) = Capacity /\ Len(lru') = Capacity
<1>. DEFINE w == Without(k)
            s == Append(w, Entry(k, v))
<1>1. Entry(k, v) \in Entries /\ Entry(k, v).key = k
  BY DEF Entry, Entries
<1>2. /\ w \in Seq(Entries) /\ OneOfAKey(w) /\ ToSet(w) = Others(k)
      /\ Len(w) = IF Holds(k) THEN Len(lru) - 1 ELSE Len(lru)
  BY WithoutSays
<1>3. lru' = IF Len(s) > Capacity THEN Tail(s) ELSE s
  BY DEF Set
<1>4. Len(lru) \in Nat /\ Len(lru) <= Capacity /\ Capacity \in Nat /\ Capacity > 0
      /\ Len(w) \in Nat
  BY <1>2, CapacityAssumption, LenProperties DEF CacheOK
<1>. HIDE DEF w
<1>5. /\ s \in Seq(Entries) /\ Len(s) = Len(w) + 1 /\ OneOfAKey(s)
      /\ ToSet(s) = Others(k) \cup {Entry(k, v)} /\ s[Len(s)] = Entry(k, v)
  <2>1. \A x \in ToSet(w) : x.key # Entry(k, v).key
    BY <1>1, <1>2 DEF Others
  <2>. QED
    BY <1>1, <1>2, <2>1, OneAppended
<1>. HIDE DEF s
<1>6. CASE Len(s) > Capacity
  <2>1. s # <<>> /\ Len(s) > 1
    BY <1>4, <1>5, <1>6, EmptySeq
  <2>2. /\ lru' \in Seq(Entries) /\ Len(lru') = Len(s) - 1 /\ OneOfAKey(lru')
        /\ ToSet(lru') \subseteq ToSet(s) /\ Entry(k, v) \in ToSet(lru')
    BY <1>3, <1>5, <1>6, <2>1, FirstDropped
  <2>3. Len(lru) = Capacity /\ Len(lru') = Capacity
    BY <1>2, <1>4, <1>5, <1>6, <2>2
  <2>. QED
    BY <1>4, <1>5, <2>2, <2>3 DEF CacheOK, OneOfAKey, Held
<1>7. CASE ~(Len(s) > Capacity)
  <2>1. lru' = s /\ Len(s) <= Capacity
    BY <1>3, <1>4, <1>5, <1>7
  <2>. QED
    BY <1>5, <2>1 DEF CacheOK, OneOfAKey, Held
<1>. QED
  BY <1>6, <1>7

-----------------------------------------------------------------------------
(* What a request does is its own affair.                                  *)

Kinds == {"none", "bad_request", "nothing_found", "results"}

ReplyType == [kind : Kinds, ref : Requests \cup {Nothing}]

LEMMA Replies ==
  /\ \A kind \in Kinds : Status(kind) \in ReplyType /\ Status(kind).kind = kind
  /\ \A r \in Requests : /\ Results(r) \in ReplyType /\ Results(r).kind = "results"
                         /\ Results(r).ref = r
BY DEF Status, Results, ReplyType, Kinds

LEMMA Distinguished ==
  \A r : Results(r) # Status("none") /\ Status("bad_request") # Status("none")
         /\ Status("nothing_found") # Status("none")
<1>1. \A r : Results(r).kind = "results"
  BY DEF Results
<1>2. \A kind : Status(kind).kind = kind
  BY DEF Status
<1>. QED
  BY <1>1, <1>2

(* A step of r's leaves everybody else's variables as they are. *)
Apart(r) ==
  /\ UNCHANGED <<now, phase, stopAt, flushAt>>
  /\ \A q \in Requests \ {r} :
       /\ pc'[q] = pc[q] /\ query'[q] = query[q] /\ since'[q] = since[q]
       /\ saw'[q] = saw[q] /\ reply'[q] = reply[q] /\ responses'[q] = responses[q]

(* Once given, its reply stands; what it stores is its own. *)
Honest(r) ==
  /\ \/ reply[r] = Status("none")
     \/ reply'[r] = reply[r] /\ responses'[r] = responses[r]
  /\ \A e \in Held' :
       \/ e \in Held
       \/ /\ reply[r] = Status("none") /\ reply'[r] = Results(r)
          /\ e.val = r /\ e.ts = now /\ responses'[r].by = r

LEMMA Bystanders ==
  ASSUME GatewayInv, NEW r \in Requests, Apart(r), Honest(r),
         \/ InFlight(r)
         \/ phase \in {"serving", "draining"}
         \/ flushAt - stopAt >= Grace
  PROVE  Clock' /\ Kept' /\ \A q \in Requests \ {r} : Of(q)'
<1>1. Clock'
  <2>1. UNCHANGED <<now, phase, stopAt, flushAt>>
    BY DEF Apart
  <2>2. phase = "flushing" => flushAt - stopAt >= Grace
    BY DEF GatewayInv, Clock
  <2>. QED
    BY <2>1, <2>2 DEF GatewayInv, Clock
<1>2. \A e \in Held : e.val \in Requests /\ e.ts \in Int
  BY HeldTyped DEF GatewayInv, Typed, Entries
<1>3. now \in Int
  BY DEF GatewayInv, Typed, TypeOK
<1>4. \A q \in Requests : reply[q] = Results(q) =>
        reply'[q] = Results(q) /\ responses'[q] = responses[q]
  BY Distinguished DEF Apart, Honest
<1>5. Kept'
  <2>. SUFFICES ASSUME NEW e \in Held'
                PROVE  /\ e.ts <= now' /\ reply'[e.val] = Results(e.val)
                       /\ responses'[e.val].by = e.val
    BY DEF Kept
  <2>1. CASE e \in Held
    BY <1>2, <1>4, <2>1 DEF GatewayInv, Kept, Apart
  <2>2. CASE e.val = r /\ e.ts = now /\ reply'[r] = Results(r) /\ responses'[r].by = r
    BY <1>3, <2>2 DEF Apart
  <2>. QED
    BY <2>1, <2>2 DEF Honest
<1>6. ASSUME NEW q \in Requests \ {r} PROVE Of(q)'
  <2>1. /\ pc'[q] = pc[q] /\ query'[q] = query[q] /\ since'[q] = since[q]
        /\ saw'[q] = saw[q] /\ reply'[q] = reply[q] /\ now' = now
    BY DEF Apart
  <2>2. Own(q) /\ Seen(q) /\ Recent(q)
    BY DEF GatewayInv, Of
  <2>3. Own(q)'
    BY <2>1, <2>2 DEF Own
  <2>4. Seen(q)'
    <3>. SUFFICES ASSUME pc[q] = "discarding"
                  PROVE  /\ saw[q] \in Requests /\ reply'[saw[q]] = Results(saw[q])
                         /\ \A e \in Held' : e.key = Key(q)' /\ e.val = saw[q] =>
                              Expired(e)'
      BY <2>1 DEF Seen
    <3>1. saw[q] \in Requests /\ reply[saw[q]] = Results(saw[q])
      BY <2>2 DEF Seen
    <3>2. Key(q)' = Key(q) /\ \A e : Expired(e)' <=> Expired(e)
      BY <2>1 DEF Key, Expired
    <3>3. \A e \in Held' : e.val = saw[q] => e \in Held
      BY <3>1, Distinguished DEF Honest
    <3>. QED
      BY <1>4, <2>2, <3>1, <3>2, <3>3 DEF Seen
  <2>5. Recent(q)'
    <3>1. Key(q)' = Key(q)
      BY <2>1 DEF Key
    <3>2. \A e \in Held' : e \in Held \/ e.ts = now
      BY DEF Honest
    <3>. QED
      BY <2>1, <2>2, <3>1, <3>2 DEF Recent
  <2>. QED
    BY <2>3, <2>4, <2>5 DEF Of
<1>. QED
  BY <1>1, <1>5, <1>6

-----------------------------------------------------------------------------
(* The steps of a request, one by one.                                     *)

Places == {"absent", "handling", "discarding", "searching", "writing",
           "answered", "cut"}

Objects == [query : Queries \cup {Blank}, by : Requests \cup {Nothing}]

RequestsTyped ==
  /\ pc \in [Requests -> Places]
  /\ query \in [Requests -> Queries \cup {Blank}]
  /\ since \in [Requests -> 0 .. MaxTime]
  /\ saw \in [Requests -> Requests \cup {Nothing}]
  /\ responses \in [Requests -> Objects]
  /\ reply \in [Requests -> ReplyType]

LEMMA TypedSays ==
  Typed => /\ RequestsTyped /\ CacheOK /\ now \in 0 .. MaxTime /\ now \in Int
           /\ stopAt \in Int /\ flushAt \in Int
BY DEF Typed, TypeOK, RequestsTyped, Places, Objects, ReplyType, Kinds

LEMMA TypedKeeps ==
  ASSUME Typed, CacheOK', RequestsTyped', UNCHANGED <<now, phase, stopAt, flushAt>>
  PROVE  Typed'
<1>1. /\ Len(lru') <= Capacity
      /\ \A i, j \in DOMAIN lru' : lru'[i].key = lru'[j].key => i = j
  BY DEF CacheOK, OneOfAKey
<1>2. TypeOK'
  BY <1>1 DEF Typed, TypeOK, RequestsTyped, Places, Objects, ReplyType, Kinds
<1>. QED
  BY <1>2 DEF Typed

LEMMA QuietCache == UNCHANGED lru => Held' = Held /\ (CacheOK => CacheOK')
BY DEF Held, CacheOK, OneOfAKey

(* The parts a step of r's is to be checked for. *)
LEMMA RequestStepInv ==
  ASSUME GatewayInv, NEW r \in Requests, Apart(r), Honest(r),
         CacheOK', RequestsTyped', Of(r)',
         \/ InFlight(r)
         \/ phase \in {"serving", "draining"}
         \/ flushAt - stopAt >= Grace
  PROVE  GatewayInv'
<1>1. Typed'
  BY TypedKeeps DEF GatewayInv, Apart
<1>2. Clock' /\ Kept' /\ \A q \in Requests \ {r} : Of(q)'
  BY Bystanders
<1>. QED
  BY <1>1, <1>2 DEF GatewayInv

LEMMA ArrivesInv ==
  ASSUME GatewayInv, NEW r \in Requests, Arrives(r) PROVE GatewayInv'
<1>1. PICK q \in Queries \cup {Blank} : query' = [query EXCEPT ![r] = q]
  BY DEF Arrives
<1>2. /\ pc[r] = "absent" /\ pc' = [pc EXCEPT ![r] = "handling"]
      /\ UNCHANGED <<now, lru, phase, stopAt, flushAt, since, saw, responses, reply>>
  BY DEF Arrives, Goes, mainVars
<1>3. RequestsTyped /\ CacheOK
  BY TypedSays DEF GatewayInv
<1>4. RequestsTyped'
  BY <1>1, <1>2, <1>3 DEF RequestsTyped, Places
<1>5. CacheOK' /\ Held' = Held
  BY <1>2, <1>3, QuietCache
<1>6. Apart(r) /\ Honest(r)
  BY <1>1, <1>2, <1>3, <1>5 DEF Apart, Honest, RequestsTyped
<1>7. Of(r)'
  <2>1. pc'[r] = "handling" /\ reply' = reply
    BY <1>2, <1>3 DEF RequestsTyped
  <2>2. Own(r)
    BY DEF GatewayInv, Of
  <2>. QED
    BY <1>2, <2>1, <2>2 DEF Of, Own, Seen, Recent
<1>8. phase \in {"serving", "draining"} \/ flushAt - stopAt >= Grace
  BY DEF Arrives, Connected
<1>. QED
  BY <1>4, <1>5, <1>6, <1>7, <1>8, RequestStepInv

(* A reply is decided. *)
LEMMA WritesSays ==
  ASSUME GatewayInv, NEW r \in Requests, NEW what \in ReplyType, Writes(r, what)
  PROVE  /\ pc' \in [Requests -> Places]
         /\ query' \in [Requests -> Queries \cup {Blank}]
         /\ since' \in [Requests -> 0 .. MaxTime]
         /\ reply' \in [Requests -> ReplyType]
         /\ pc'[r] = "writing" /\ reply'[r] = what
         /\ \A q \in Requests \ {r} :
              /\ pc'[q] = pc[q] /\ query'[q] = query[q] /\ since'[q] = since[q]
              /\ reply'[q] = reply[q]
<1>1. RequestsTyped
  BY TypedSays DEF GatewayInv
<1>2. 0 \in 0 .. MaxTime
  BY TimesAssumption
<1>. QED
  BY <1>1, <1>2 DEF RequestsTyped, Places, Writes, Goes

LEMMA StatusInv ==
  ASSUME GatewayInv, NEW r \in Requests, pc[r] \in {"handling", "searching"},
         NEW kind \in {"bad_request", "nothing_found"}, Writes(r, Status(kind)),
         UNCHANGED <<now, lru, mainVars, saw, responses>>
  PROVE  GatewayInv'
<1>1. Status(kind) \in ReplyType /\ Status(kind).kind = kind
  BY Replies DEF Kinds
<1>2. UNCHANGED <<now, lru, phase, stopAt, flushAt, saw, responses>>
  BY DEF mainVars
<1>3. RequestsTyped /\ CacheOK
  BY TypedSays DEF GatewayInv
<1>4. RequestsTyped'
  BY <1>1, <1>2, <1>3, WritesSays DEF RequestsTyped
<1>5. CacheOK' /\ Held' = Held
  BY <1>2, <1>3, QuietCache
<1>6. reply[r] = Status("none")
  BY DEF GatewayInv, Of, Own
<1>7. Apart(r) /\ Honest(r)
  BY <1>1, <1>2, <1>5, <1>6, WritesSays DEF Apart, Honest
<1>8. Of(r)'
  <2>1. pc'[r] = "writing" /\ reply'[r] = Status(kind)
    BY <1>1, WritesSays
  <2>. QED
    BY <1>1, <2>1 DEF Of, Own, Seen, Recent
<1>. QED
  BY <1>4, <1>5, <1>7, <1>8, RequestStepInv DEF InFlight

LEMMA HitInv ==
  ASSUME GatewayInv, NEW r \in Requests, Hit(r) PROVE GatewayInv'
<1>. DEFINE k == Key(r)
<1>1. /\ pc[r] = "handling" /\ query[r] # Blank /\ Holds(k) /\ Touch(k)
      /\ Writes(r, Results(r))
      /\ responses' = [responses EXCEPT
            ![r] = [query |-> query[r], by |-> responses[At(k).val].by]]
      /\ UNCHANGED <<now, phase, stopAt, flushAt, saw>>
  BY DEF Hit, Verdict, mainVars
<1>2. RequestsTyped /\ CacheOK
  BY TypedSays DEF GatewayInv
<1>3. CacheOK' /\ Held' = Held
  BY <1>1, <1>2, TouchSays
<1>4. At(k).val \in Requests
  BY <1>1, <1>2, AtSays, HeldTyped DEF Entries
<1>5. [query |-> query[r], by |-> responses[At(k).val].by] \in Objects
  <2>1. responses[At(k).val] \in Objects /\ query[r] \in Queries \cup {Blank}
    BY <1>2, <1>4 DEF RequestsTyped
  <2>. QED
    BY <2>1 DEF Objects
<1>6. responses' \in [Requests -> Objects]
      /\ \A q \in Requests \ {r} : responses'[q] = responses[q]
  BY <1>1, <1>2, <1>5 DEF RequestsTyped
<1>7. Results(r) \in ReplyType
  BY Replies
<1>8. RequestsTyped'
  BY <1>1, <1>2, <1>6, <1>7, WritesSays DEF RequestsTyped
<1>9. reply[r] = Status("none")
  BY <1>1 DEF GatewayInv, Of, Own
<1>10. Apart(r) /\ Honest(r)
  BY <1>1, <1>3, <1>6, <1>7, <1>9, WritesSays DEF Apart, Honest
<1>11. Of(r)'
  <2>1. pc'[r] = "writing" /\ reply'[r] = Results(r)
    BY <1>1, <1>7, WritesSays
  <2>. QED
    BY <2>1 DEF Of, Own, Seen, Recent
<1>. QED
  BY <1>1, <1>3, <1>8, <1>10, <1>11, RequestStepInv DEF InFlight

LEMMA StartSays ==
  ASSUME GatewayInv, NEW r \in Requests, StartSearch(r)
  PROVE  /\ pc' \in [Requests -> Places]
         /\ saw' \in [Requests -> Requests \cup {Nothing}]
         /\ since' \in [Requests -> 0 .. MaxTime]
         /\ pc'[r] = "searching" /\ since'[r] = now
         /\ \A q \in Requests \ {r} :
              pc'[q] = pc[q] /\ saw'[q] = saw[q] /\ since'[q] = since[q]
<1>1. RequestsTyped /\ now \in 0 .. MaxTime
  BY TypedSays DEF GatewayInv
<1>. QED
  BY <1>1 DEF RequestsTyped, Places, StartSearch, Goes

(* A search starts once nothing is under the key. *)
LEMMA SearchStarts ==
  ASSUME GatewayInv, NEW r \in Requests, pc[r] \in {"handling", "discarding"},
         query[r] \in Queries, StartSearch(r), CacheOK', Held' = Others(Key(r)),
         UNCHANGED <<now, mainVars, query, responses, reply>>
  PROVE  GatewayInv'
<1>1. UNCHANGED <<now, phase, stopAt, flushAt, query, responses, reply>>
  BY DEF mainVars
<1>2. RequestsTyped /\ now \in Int
  BY TypedSays DEF GatewayInv
<1>3. RequestsTyped'
  BY <1>1, <1>2, StartSays DEF RequestsTyped
<1>4. Apart(r) /\ Honest(r)
  BY <1>1, StartSays DEF Apart, Honest, Others
<1>5. Of(r)'
  <2>1. pc'[r] = "searching" /\ since'[r] = now
    BY StartSays
  <2>2. Own(r)'
    BY <1>1, <2>1 DEF GatewayInv, Of, Own
  <2>3. Key(r)' = Key(r) /\ \A e \in Held' : e.key # Key(r)
    BY <1>1 DEF Key, Others
  <2>4. now <= now + Budget
    BY <1>2, TimesAssumption
  <2>5. Recent(r)'
    BY <1>1, <1>2, <2>1, <2>3, <2>4 DEF Recent
  <2>. QED
    BY <2>1, <2>2, <2>5 DEF Of, Seen
<1>. QED
  BY <1>3, <1>4, <1>5, RequestStepInv DEF InFlight

LEMMA MissInv ==
  ASSUME GatewayInv, NEW r \in Requests, Miss(r) PROVE GatewayInv'
<1>1. /\ pc[r] = "handling" /\ query[r] # Blank /\ ~Holds(Key(r)) /\ StartSearch(r)
      /\ UNCHANGED <<now, lru, mainVars, query, responses, reply>>
  BY DEF Miss, Verdict
<1>2. RequestsTyped /\ CacheOK
  BY TypedSays DEF GatewayInv
<1>3. query[r] \in Queries
  BY <1>1, <1>2 DEF RequestsTyped
<1>4. CacheOK' /\ Held' = Held
  BY <1>1, <1>2, QuietCache
<1>5. Held = Others(Key(r))
  BY <1>1, <1>2, AtSays DEF Others
<1>. QED
  BY <1>1, <1>3, <1>4, <1>5, SearchStarts

LEMMA DiscardsInv ==
  ASSUME GatewayInv, NEW r \in Requests, Discards(r) PROVE GatewayInv'
<1>1. /\ pc[r] = "discarding" /\ Discard(Key(r)) /\ StartSearch(r)
      /\ UNCHANGED <<now, mainVars, query, responses, reply>>
  BY DEF Discards
<1>2. CacheOK
  BY TypedSays DEF GatewayInv
<1>3. query[r] \in Queries
  BY <1>1 DEF GatewayInv, Of, Own
<1>4. CacheOK' /\ Held' = Others(Key(r))
  BY <1>1, <1>2, DiscardSays
<1>. QED
  BY <1>1, <1>3, <1>4, SearchStarts

LEMMA MeetsExpiredInv ==
  ASSUME GatewayInv, NEW r \in Requests, MeetsExpired(r) PROVE GatewayInv'
<1>. DEFINE k == Key(r)
<1>1. /\ pc[r] = "handling" /\ query[r] # Blank /\ Holds(k) /\ Expired(At(k))
      /\ Touch(k) /\ saw' = [saw EXCEPT ![r] = At(k).val]
      /\ pc' = [pc EXCEPT ![r] = "discarding"]
      /\ UNCHANGED <<now, phase, stopAt, flushAt, query, since, responses, reply>>
  BY DEF MeetsExpired, Verdict, Goes, mainVars
<1>2. RequestsTyped /\ CacheOK
  BY TypedSays DEF GatewayInv
<1>3. CacheOK' /\ Held' = Held
  BY <1>1, <1>2, TouchSays
<1>4. At(k) \in Held /\ At(k).val \in Requests
      /\ \A e \in Held : e.key = k => e = At(k)
  BY <1>1, <1>2, AtSays, HeldTyped DEF Entries
<1>5. RequestsTyped'
  BY <1>1, <1>2, <1>4 DEF RequestsTyped, Places
<1>6. Apart(r) /\ Honest(r)
  BY <1>1, <1>2, <1>3 DEF Apart, Honest, RequestsTyped
<1>7. Of(r)'
  <2>1. pc'[r] = "discarding" /\ saw'[r] = At(k).val
    BY <1>1, <1>2 DEF RequestsTyped
  <2>2. query[r] \in Queries /\ reply[r] = Status("none")
    BY <1>1, <1>2 DEF RequestsTyped, GatewayInv, Of, Own
  <2>3. Own(r)'
    <3>1. Status("none").kind = "none"
      BY DEF Status
    <3>. QED
      BY <1>1, <2>1, <2>2, <3>1 DEF Own
  <2>4. Seen(r)'
    <3>1. Key(r)' = k /\ \A e : Expired(e)' <=> Expired(e)
      BY <1>1 DEF Key, Expired
    <3>2. reply'[At(k).val] = Results(At(k).val)
      BY <1>1, <1>4 DEF GatewayInv, Kept
    <3>. QED
      BY <1>1, <1>3, <1>4, <2>1, <3>1, <3>2 DEF Seen
  <2>. QED
    BY <2>1, <2>3, <2>4 DEF Of, Recent
<1>. QED
  BY <1>1, <1>3, <1>5, <1>6, <1>7, RequestStepInv DEF InFlight

LEMMA StoresInv ==
  ASSUME GatewayInv, NEW r \in Requests, Stores(r) PROVE GatewayInv'
<1>. DEFINE k == Key(r)
<1>1. /\ pc[r] = "searching" /\ Set(k, r) /\ Writes(r, Results(r))
      /\ responses' = [responses EXCEPT ![r] = [query |-> query[r], by |-> r]]
      /\ UNCHANGED <<now, phase, stopAt, flushAt, saw>>
  BY DEF Stores, mainVars
<1>2. RequestsTyped /\ CacheOK /\ now \in 0 .. MaxTime
  BY TypedSays DEF GatewayInv
<1>3. query[r] \in Queries /\ reply[r] = Status("none") /\ k \in Keys
  BY <1>1 DEF GatewayInv, Of, Own, Key, Keys
<1>4. CacheOK' /\ Held' \subseteq Others(k) \cup {Entry(k, r)}
  BY <1>1, <1>2, <1>3, SetSays
<1>5. Entry(k, r).val = r /\ Entry(k, r).ts = now
  BY DEF Entry
<1>6. [query |-> query[r], by |-> r] \in Objects
  BY <1>3 DEF Objects
<1>7. responses' \in [Requests -> Objects] /\ responses'[r].by = r
      /\ \A q \in Requests \ {r} : responses'[q] = responses[q]
  BY <1>1, <1>2, <1>6 DEF RequestsTyped
<1>8. Results(r) \in ReplyType
  BY Replies
<1>9. RequestsTyped'
  BY <1>1, <1>2, <1>7, <1>8, WritesSays DEF RequestsTyped
<1>10. Apart(r)
  BY <1>1, <1>7, <1>8, WritesSays DEF Apart
<1>11. Honest(r)
  BY <1>1, <1>3, <1>4, <1>5, <1>7, <1>8, WritesSays DEF Honest, Others
<1>12. Of(r)'
  <2>1. pc'[r] = "writing" /\ reply'[r] = Results(r)
    BY <1>1, <1>8, WritesSays
  <2>. QED
    BY <2>1 DEF Of, Own, Seen, Recent
<1>. QED
  BY <1>1, <1>4, <1>9, <1>10, <1>11, <1>12, RequestStepInv DEF InFlight

LEMMA WrittenInv ==
  ASSUME GatewayInv, NEW r \in Requests, Written(r) PROVE GatewayInv'
<1>1. /\ pc[r] = "writing" /\ pc' = [pc EXCEPT ![r] = "answered"]
      /\ UNCHANGED <<now, lru, phase, stopAt, flushAt, query, since, saw, responses,
                     reply>>
  BY DEF Written, Goes, mainVars
<1>2. RequestsTyped /\ CacheOK
  BY TypedSays DEF GatewayInv
<1>3. RequestsTyped'
  BY <1>1, <1>2 DEF RequestsTyped, Places
<1>4. CacheOK' /\ Held' = Held
  BY <1>1, <1>2, QuietCache
<1>5. Apart(r) /\ Honest(r)
  BY <1>1, <1>2, <1>4 DEF Apart, Honest, RequestsTyped
<1>6. Of(r)'
  <2>1. pc'[r] = "answered" /\ Own(r)
    BY <1>1, <1>2 DEF RequestsTyped, GatewayInv, Of
  <2>. QED
    BY <1>1, <2>1 DEF Of, Own, Seen, Recent
<1>. QED
  BY <1>1, <1>3, <1>4, <1>5, <1>6, RequestStepInv DEF InFlight

-----------------------------------------------------------------------------
(* The steps of main and of the clock.                                     *)

(* Nothing of a request changes but, perhaps, that it is cut off. *)
LEMMA MainStepInv ==
  ASSUME GatewayInv, Typed', Clock',
         UNCHANGED <<now, lru, query, since, saw, responses, reply>>,
         \A r \in Requests : pc'[r] = pc[r] \/ pc'[r] = "cut"
  PROVE  GatewayInv'
<1>1. Held' = Held
  BY QuietCache
<1>2. Kept'
  BY <1>1 DEF GatewayInv, Kept
<1>3. ASSUME NEW r \in Requests PROVE Of(r)'
  <2>1. Key(r)' = Key(r) /\ \A e : Expired(e)' <=> Expired(e)
    BY DEF Key, Expired
  <2>2. Own(r) /\ Seen(r) /\ Recent(r)
    BY DEF GatewayInv, Of
  <2>3. Own(r)'
    BY <2>2 DEF Own
  <2>4. Seen(r)'
    BY <1>1, <2>1, <2>2 DEF Seen
  <2>5. Recent(r)'
    BY <1>1, <2>1, <2>2 DEF Recent
  <2>. QED
    BY <2>3, <2>4, <2>5 DEF Of
<1>. QED
  BY <1>2, <1>3 DEF GatewayInv

LEMMA StopInv == GatewayInv /\ Stop => GatewayInv'
<1>. SUFFICES ASSUME GatewayInv, Stop PROVE GatewayInv'
  OBVIOUS
<1>1. /\ phase' = "draining" /\ stopAt' = now /\ now <= LastStop
      /\ UNCHANGED <<now, lru, flushAt, pc, query, since, saw, responses, reply>>
  BY DEF Stop, requestVars
<1>2. now \in 0 .. MaxTime
  BY TypedSays DEF GatewayInv
<1>3. Typed'
  <2>1. CacheOK'
    BY <1>1, QuietCache DEF GatewayInv, Typed
  <2>2. stopAt' \in 0 .. LastStop
    BY <1>1, <1>2, TimesAssumption
  <2>3. TypeOK'
    BY <1>1, <2>2 DEF GatewayInv, Typed, TypeOK
  <2>. QED
    BY <1>1, <2>1, <2>3 DEF GatewayInv, Typed
<1>4. Clock'
  BY <1>1, <1>2, TimesAssumption DEF Clock
<1>. QED
  BY <1>1, <1>3, <1>4, MainStepInv

LEMMA ShutdownReturnsInv == GatewayInv /\ ShutdownReturns => GatewayInv'
<1>. SUFFICES ASSUME GatewayInv, ShutdownReturns PROVE GatewayInv'
  OBVIOUS
<1>1. /\ phase = "draining" /\ phase' = "flushing" /\ flushAt' = now
      /\ (\A r \in Requests : ~InFlight(r)) \/ now - stopAt >= Grace
      /\ UNCHANGED <<now, lru, stopAt, pc, query, since, saw, responses, reply>>
  BY DEF ShutdownReturns, requestVars
<1>2. now \in 0 .. MaxTime /\ now \in Int
  BY TypedSays DEF GatewayInv
<1>3. Typed'
  <2>1. CacheOK'
    BY <1>1, QuietCache DEF GatewayInv, Typed
  <2>2. TypeOK'
    BY <1>1 DEF GatewayInv, Typed, TypeOK
  <2>. QED
    BY <1>1, <1>2, <2>1, <2>2 DEF Typed
<1>4. Clock'
  <2>1. stopAt <= now
    BY <1>1 DEF GatewayInv, Clock
  <2>2. \A r \in Requests : InFlight(r)' <=> InFlight(r)
    BY <1>1 DEF InFlight
  <2>. QED
    BY <1>1, <1>2, <2>1, <2>2 DEF Clock
<1>. QED
  BY <1>1, <1>3, <1>4, MainStepInv

LEMMA ExitInv == GatewayInv /\ Exit => GatewayInv'
<1>. SUFFICES ASSUME GatewayInv, Exit PROVE GatewayInv'
  OBVIOUS
<1>1. /\ phase' = "exited"
      /\ pc' = [r \in Requests |-> IF InFlight(r) THEN "cut" ELSE pc[r]]
      /\ UNCHANGED <<now, lru, stopAt, flushAt, query, since, saw, responses, reply>>
  BY DEF Exit
<1>2. pc' \in [Requests -> Places]
      /\ \A r \in Requests : pc'[r] = pc[r] \/ pc'[r] = "cut"
  BY <1>1, TypedSays DEF GatewayInv, RequestsTyped, Places
<1>3. Typed'
  <2>1. CacheOK'
    BY <1>1, QuietCache DEF GatewayInv, Typed
  <2>2. TypeOK'
    BY <1>1, <1>2 DEF GatewayInv, Typed, TypeOK, Places
  <2>. QED
    BY <1>1, <2>1, <2>2 DEF GatewayInv, Typed
<1>4. Clock'
  BY <1>1 DEF Clock
<1>. QED
  BY <1>1, <1>2, <1>3, <1>4, MainStepInv

LEMMA TickInv == GatewayInv /\ Tick => GatewayInv'
<1>. SUFFICES ASSUME GatewayInv, Tick PROVE GatewayInv'
  OBVIOUS
<1>1. /\ now < MaxTime /\ ~Due /\ now' = now + 1
      /\ UNCHANGED <<lru, phase, stopAt, flushAt, pc, query, since, saw, responses,
                     reply>>
  BY DEF Tick, mainVars, requestVars
<1>2. /\ RequestsTyped /\ CacheOK /\ now \in Int /\ now' \in 0 .. MaxTime
      /\ stopAt \in Int /\ flushAt \in Int
  <2>1. now \in 0 .. MaxTime
    BY TypedSays DEF GatewayInv
  <2>2. now' \in 0 .. MaxTime
    BY <1>1, <2>1, TimesAssumption
  <2>. QED
    BY <2>2, TypedSays DEF GatewayInv
<1>3. CacheOK' /\ Held' = Held
  BY <1>1, <1>2, QuietCache
<1>4. Typed'
  <2>1. TypeOK'
    BY <1>1, <1>2 DEF GatewayInv, Typed, TypeOK
  <2>. QED
    BY <1>1, <1>3, <2>1 DEF GatewayInv, Typed
<1>5. Clock'
  <2>1. \A r \in Requests : InFlight(r)' <=> InFlight(r)
    BY <1>1 DEF InFlight
  <2>. QED
    BY <1>1, <1>2, <2>1 DEF GatewayInv, Clock
<1>6. \A e \in Held : e.ts \in Int
  BY <1>2, HeldTyped DEF Entries
<1>7. Kept'
  BY <1>1, <1>2, <1>3, <1>6 DEF GatewayInv, Kept
<1>8. ASSUME NEW r \in Requests PROVE Of(r)'
  <2>1. Key(r)' = Key(r)
    BY <1>1 DEF Key
  <2>2. Own(r) /\ Seen(r) /\ Recent(r)
    BY DEF GatewayInv, Of
  <2>3. Own(r)'
    BY <1>1, <2>2 DEF Own
  <2>4. Seen(r)'
    <3>1. \A e \in Held : Expired(e) => Expired(e)'
      BY <1>1, <1>2, <1>6, TTLAssumption DEF Expired
    <3>. QED
      BY <1>1, <1>3, <2>1, <2>2, <3>1 DEF Seen
  <2>5. Recent(r)'
    <3>1. pc[r] = "searching" => now - since[r] < Budget
      <4>1. since[r] \in Int
        BY <1>2 DEF RequestsTyped
      <4>. QED
        BY <1>1, <1>2, <4>1, TimesAssumption DEF Due
    <3>2. since[r] \in Int
      BY <1>2 DEF RequestsTyped
    <3>3. pc[r] = "searching" => since[r] <= now' /\ now' <= since[r] + Budget
      BY <1>1, <1>2, <2>2, <3>1, <3>2, TimesAssumption DEF Recent
    <3>. QED
      BY <1>1, <1>3, <2>1, <2>2, <3>3 DEF Recent
  <2>. QED
    BY <2>3, <2>4, <2>5 DEF Of
<1>. QED
  BY <1>4, <1>5, <1>7, <1>8 DEF GatewayInv

-----------------------------------------------------------------------------
LEMMA InitInv == Init => GatewayInv
<1>. SUFFICES ASSUME Init PROVE GatewayInv
  OBVIOUS
<1>1. CacheOK /\ Held = {}
  BY CapacityAssumption DEF Init, CacheInit, CacheOK, OneOfAKey, Held, ToSet
<1>2. NoResponse \in Objects /\ Status("none") \in ReplyType
      /\ Status("none").kind = "none"
  BY Replies DEF NoResponse, Objects, Kinds
<1>3. 0 \in 0 .. MaxTime /\ 0 \in 0 .. LastStop
  BY TimesAssumption
<1>4. Typed
  <2>1. /\ now \in 0 .. MaxTime /\ phase = "serving" /\ stopAt \in 0 .. LastStop
        /\ flushAt \in 0 .. MaxTime
    BY <1>3 DEF Init
  <2>2. RequestsTyped
    BY <1>2, <1>3 DEF Init, RequestsTyped, Places
  <2>3. TypeOK
    BY <1>1, <2>1, <2>2 DEF TypeOK, CacheOK, OneOfAKey, RequestsTyped, Places,
       Objects, ReplyType, Kinds
  <2>. QED
    BY <1>1, <2>1, <2>3 DEF Typed
<1>5. Clock /\ Kept
  BY <1>1 DEF Init, Clock, Kept
<1>6. \A r \in Requests : Of(r)
  BY <1>2 DEF Init, Of, Own, Seen, Recent
<1>. QED
  BY <1>4, <1>5, <1>6 DEF GatewayInv

LEMMA StepInv == GatewayInv /\ [Next]_vars => GatewayInv'
<1>. SUFFICES ASSUME GatewayInv, [Next]_vars PROVE GatewayInv'
  OBVIOUS
<1>1. CASE UNCHANGED vars
  <2>1. /\ UNCHANGED <<now, lru, phase, stopAt, flushAt, pc, query, since, saw,
                       responses, reply>>
    BY <1>1 DEF vars, mainVars, requestVars
  <2>2. Typed'
    <3>1. CacheOK'
      BY <2>1, QuietCache DEF GatewayInv, Typed
    <3>2. TypeOK'
      BY <2>1 DEF GatewayInv, Typed, TypeOK
    <3>. QED
      BY <2>1, <3>1, <3>2 DEF GatewayInv, Typed
  <2>3. Clock'
    <3>1. \A r \in Requests : InFlight(r)' <=> InFlight(r)
      BY <2>1 DEF InFlight
    <3>. QED
      BY <2>1, <3>1 DEF GatewayInv, Clock
  <2>. QED
    BY <2>1, <2>2, <2>3, MainStepInv
<1>2. ASSUME NEW r \in Requests, RequestStep(r) PROVE GatewayInv'
  <2>1. CASE BadRequest(r)
    BY <2>1, StatusInv DEF BadRequest
  <2>2. CASE FindsNothing(r)
    BY <2>2, StatusInv DEF FindsNothing
  <2>. QED
    BY <1>2, <2>1, <2>2, ArrivesInv, HitInv, MissInv, MeetsExpiredInv, DiscardsInv,
       StoresInv, WrittenInv DEF RequestStep, Handles
<1>. QED
  BY <1>1, <1>2, StopInv, ShutdownReturnsInv, ExitInv, TickInv DEF Next

-----------------------------------------------------------------------------
(* An entry that goes before its time.                                     *)

LEMMA LossStep ==
  ASSUME GatewayInv, [Next]_vars, NEW k \in Keys,
         Holds(k), ~Expired(At(k)), ~Holds(k)'
  PROVE  \/ Len(lru) = Capacity /\ Len(lru') = Capacity
         \/ \E r \in Requests :
              pc[r] = "discarding" /\ Key(r) = k /\ saw[r] # At(k).val
<1>1. CacheOK /\ now \in 0 .. MaxTime
  BY TypedSays DEF GatewayInv
<1>2. At(k) \in Held /\ At(k).key = k
  BY <1>1, AtSays
<1>3. At(k) \notin Held'
  <2>1. Holds(k)' <=> \E e \in Held' : e.key = k
    BY DEF Holds, Held, ToSet
  <2>. QED
    BY <1>2, <2>1
<1>4. Held' # Held
  BY <1>2, <1>3
<1>5. \E r \in Requests : Hit(r) \/ MeetsExpired(r) \/ Discards(r) \/ Stores(r)
  <2>1. lru' # lru
    BY <1>4, QuietCache
  <2>. QED
    BY <2>1 DEF Next, RequestStep, Handles, Arrives, BadRequest, Miss, FindsNothing,
       Written, Stop, ShutdownReturns, Exit, Tick, vars
<1>6. PICK r \in Requests : Hit(r) \/ MeetsExpired(r) \/ Discards(r) \/ Stores(r)
  BY <1>5
<1>7. ~(Hit(r) \/ MeetsExpired(r))
  BY <1>1, <1>4, TouchSays DEF Hit, MeetsExpired
<1>8. CASE Discards(r)
  <2>1. pc[r] = "discarding" /\ Discard(Key(r))
    BY <1>8 DEF Discards
  <2>2. Key(r) = k
    BY <1>1, <1>2, <1>3, <2>1, DiscardSays DEF Others
  <2>3. saw[r] # At(k).val
    BY <1>2, <2>1, <2>2 DEF GatewayInv, Of, Seen
  <2>. QED
    BY <2>1, <2>2, <2>3
<1>9. CASE Stores(r)
  <2>1. pc[r] = "searching" /\ Set(Key(r), r)
    BY <1>9 DEF Stores
  <2>2. Key(r) \in Keys
    BY <2>1 DEF GatewayInv, Of, Own, Key, Keys
  <2>3. /\ Entry(Key(r), r) \in Held'
        /\ \/ Others(Key(r)) \subseteq Held'
           \/ Len(lru) = Capacity /\ Len(lru') = Capacity
    BY <1>1, <2>1, <2>2, SetSays
  <2>4. Entry(Key(r), r).key = Key(r)
    BY DEF Entry
  <2>5. Key(r) # k
    <3>1. Holds(k)' <=> \E e \in Held' : e.key = k
      BY DEF Holds, Held, ToSet
    <3>. QED
      BY <2>3, <2>4, <3>1
  <2>. QED
    BY <1>2, <1>3, <2>3, <2>5 DEF Others
<1>. QED
  BY <1>6, <1>7, <1>8, <1>9

(* Whoever is cut off might not have ended within the grace.               *)
LEMMA CutStep ==
  ASSUME GatewayInv, [Next]_vars, NEW r \in Requests,
         pc[r] \in {"handling", "discarding", "searching"}, pc'[r] = "cut"
  PROVE  EndsBy(r) >= stopAt + Grace
<1>1. RequestsTyped /\ now \in Int /\ stopAt \in Int /\ flushAt \in Int
  BY TypedSays DEF GatewayInv
<1>2. Exit
  <2>1. ASSUME NEW q \in Requests, RequestStep(q) PROVE pc'[r] # "cut"
    <3>1. \E where \in Places \ {"cut"} : pc' = [pc EXCEPT ![q] = where]
      BY <2>1 DEF RequestStep, Handles, Arrives, BadRequest, Hit, Miss, MeetsExpired,
         Discards, FindsNothing, Stores, Written, Writes, StartSearch, Goes, Places
    <3>. QED
      BY <1>1, <3>1 DEF RequestsTyped
  <2>2. pc' # pc
    BY <1>1 DEF RequestsTyped
  <2>. QED
    BY <2>1, <2>2 DEF Next, Stop, ShutdownReturns, Tick, vars, requestVars
<1>3. phase = "flushing" /\ InFlight(r)
  BY <1>2 DEF Exit, InFlight
<1>4. stopAt <= flushAt /\ flushAt <= now /\ flushAt - stopAt >= Grace
  BY <1>3 DEF GatewayInv, Clock
<1>5. now >= stopAt + Grace
  BY <1>1, <1>4, TimesAssumption
<1>6. CASE pc[r] = "searching"
  <2>1. now <= since[r] + Budget /\ since[r] \in Int
    BY <1>1, <1>6 DEF GatewayInv, Of, Recent, RequestsTyped
  <2>. QED
    BY <1>1, <1>5, <1>6, <2>1, TimesAssumption DEF EndsBy
<1>7. CASE pc[r] # "searching"
  BY <1>1, <1>5, <1>7, TimesAssumption DEF EndsBy
<1>. QED
  BY <1>6, <1>7

-----------------------------------------------------------------------------
(* What callers are told, and what SearchService makes of each step.       *)

AllTold == [r \in Requests |-> Told(r)]

AllAsked == [r \in Requests |-> Asked(r)]

Answer(e) == [by |-> e.val, key |-> e.key, at |-> e.ts]

Stored == {Answer(e) : e \in Held}

LEMMA StoredIs ==
  /\ Stored = {[by |-> lru[i].val, key |-> lru[i].key, at |-> lru[i].ts] :
                 i \in DOMAIN lru}
  /\ Stored' = {[by |-> lru[i].val, key |-> lru[i].key, at |-> lru[i].ts] :
                  i \in DOMAIN lru}'
BY DEF Stored, Answer, Held, ToSet

LEMMA ServiceStarts ==
  /\ now = 0 /\ Stored = {}
  /\ AllAsked = [r \in Requests |-> Service!NotAsked]
  /\ AllTold = [r \in Requests |-> Service!NoReply]
  => Service!Init
BY StoredIs DEF AllTold, AllAsked, Service!Init

LEMMA ServiceRests ==
  UNCHANGED <<now, Stored, AllAsked, AllTold>> => UNCHANGED Service!vars
BY StoredIs DEF AllTold, AllAsked, Service!vars

LEMMA ServiceForgets ==
  UNCHANGED <<now, AllAsked, AllTold>> /\ Stored' \subseteq Stored
    => Service!Next
BY StoredIs DEF AllTold, AllAsked, Service!Next, Service!Forget

LEMMA ServiceTicks ==
  now' > now /\ UNCHANGED <<Stored, AllAsked, AllTold>> => Service!Next
BY StoredIs DEF AllTold, AllAsked, Service!Next, Service!Tick

LEMMA ServiceAsks ==
  ASSUME NEW r \in Requests, UNCHANGED <<now, Stored, AllTold>>,
         NEW q \in Queries \cup {Blank}, AllAsked[r] = Service!NotAsked,
         AllAsked' = [AllAsked EXCEPT ![r] = q]
  PROVE  Service!Next
<1>1. Service!Ask(r)
  BY StoredIs DEF AllTold, AllAsked, Service!Ask
<1>. QED
  BY <1>1 DEF Service!Next

LEMMA ServiceReplies ==
  ASSUME NEW r \in Requests, NEW what, UNCHANGED now,
         AllTold[r] = Service!NoReply,
         AllTold' = [AllTold EXCEPT ![r] = what],
         AllAsked' = [AllAsked EXCEPT ![r] = Service!Answered]
  PROVE  Service!Reply(r, what)
BY DEF AllTold, AllAsked, Service!Reply

LEMMA ServiceRefuses ==
  ASSUME NEW r \in Requests, UNCHANGED Stored, AllAsked[r] = Blank,
         Service!Reply(r, Service!Refused)
  PROVE  Service!Next
<1>1. Service!Refuse(r)
  BY StoredIs DEF AllAsked, Service!Refuse
<1>. QED
  BY <1>1 DEF Service!Next

LEMMA ServiceAnswersNothing ==
  ASSUME NEW r \in Requests, UNCHANGED Stored, AllAsked[r] \in Queries,
         Service!Reply(r, Service!NothingFound)
  PROVE  Service!Next
<1>1. Service!AnswerNothing(r)
  BY StoredIs DEF AllAsked, Service!AnswerNothing
<1>. QED
  BY <1>1 DEF Service!Next

LEMMA ServiceAnswersFresh ==
  ASSUME NEW r \in Requests, NEW q \in Queries, AllAsked[r] = q,
         Stored' \subseteq Stored \cup {[by |-> r, key |-> KeyOf[q], at |-> now]},
         Service!Reply(r, Service!Found(q, r))
  PROVE  Service!Next
<1>1. Service!AnswerFresh(r)
  BY StoredIs DEF AllAsked, Service!AnswerFresh, Service!Keep
<1>. QED
  BY <1>1 DEF Service!Next

LEMMA ServiceAnswersKept ==
  ASSUME NEW r \in Requests, UNCHANGED Stored, NEW q \in Queries,
         AllAsked[r] = q, NEW a \in Stored, a.key = KeyOf[q], Service!Fresh(a),
         Service!Reply(r, Service!Found(q, a.by))
  PROVE  Service!Next
<1>1. Service!AnswerKept(r)
  BY StoredIs DEF AllAsked, Service!AnswerKept
<1>. QED
  BY <1>1 DEF Service!Next

(* One caller is told, what it asked is settled, and nobody else is told   *)
(* or asks anything else.                                                  *)
LEMMA ToldOnce ==
  ASSUME GatewayInv, NEW r \in Requests, Apart(r), reply[r] = Status("none"),
         pc[r] # "absent", pc'[r] = "writing", reply'[r].kind # "none",
         NEW what, Told(r)' = what
  PROVE  Service!Reply(r, what) /\ AllAsked[r] = query[r]
<1>1. Told(r) = Service!NoReply /\ Asked(r) = query[r]
  <2>1. reply[r].kind = "none"
    BY DEF Status
  <2>. QED
    BY <2>1 DEF Told, Asked, Service!NoReply
<1>2. Asked(r)' = Service!Answered
  BY DEF Asked, Service!Answered
<1>3. ASSUME NEW q \in Requests \ {r}
      PROVE  Told(q)' = Told(q) /\ Asked(q)' = Asked(q)
  <2>1. /\ reply'[q] = reply[q] /\ responses'[q] = responses[q]
        /\ pc'[q] = pc[q] /\ query'[q] = query[q]
    BY DEF Apart
  <2>2. reply[q].kind = "results" => reply[q].ref = q
    BY Replies DEF GatewayInv, Of, Own
  <2>3. Told(q)' = Told(q)
    BY <2>1, <2>2 DEF Told
  <2>. QED
    BY <2>1, <2>3 DEF Asked
<1>4. AllTold' = [q \in Requests |-> Told(q)']
  BY DEF AllTold
<1>5. AllTold' = [AllTold EXCEPT ![r] = what]
  BY <1>3, <1>4 DEF AllTold
<1>6. AllAsked' = [q \in Requests |-> Asked(q)']
  BY DEF AllAsked
<1>7. AllAsked' = [AllAsked EXCEPT ![r] = Service!Answered]
  BY <1>2, <1>3, <1>6 DEF AllAsked
<1>8. AllTold[r] = Service!NoReply /\ AllAsked[r] = query[r] /\ UNCHANGED now
  BY <1>1 DEF AllTold, AllAsked, Apart
<1>. QED
  BY <1>5, <1>7, <1>8, ServiceReplies

LEMMA ToldKeeps == UNCHANGED <<reply, responses>> => UNCHANGED AllTold
BY DEF AllTold, Told

(* A request that has come has asked what it asked. *)
LEMMA AskedKeeps ==
  ASSUME UNCHANGED <<query, reply>>,
         \A r \in Requests : pc'[r] = "absent" <=> pc[r] = "absent"
  PROVE  UNCHANGED AllAsked
<1>1. \A r \in Requests : Asked(r)' = Asked(r)
  BY DEF Asked
<1>. QED
  BY <1>1 DEF AllAsked

LEMMA AsksStep ==
  ASSUME GatewayInv, NEW r \in Requests, Arrives(r) PROVE Service!Next
<1>1. PICK q \in Queries \cup {Blank} : query' = [query EXCEPT ![r] = q]
  BY DEF Arrives
<1>2. /\ pc[r] = "absent" /\ pc' = [pc EXCEPT ![r] = "handling"]
      /\ UNCHANGED <<now, lru, responses, reply>>
  BY DEF Arrives, Goes
<1>3. RequestsTyped /\ reply[r].kind = "none"
  BY <1>2, TypedSays DEF GatewayInv, Of, Own, Status
<1>4. Asked(r) = Service!NotAsked /\ Asked(r)' = q
  BY <1>1, <1>2, <1>3 DEF Asked, Service!NotAsked, RequestsTyped
<1>5. \A p \in Requests \ {r} : Asked(p)' = Asked(p)
  BY <1>1, <1>2, <1>3 DEF Asked, RequestsTyped
<1>6. AllAsked' = [p \in Requests |-> Asked(p)']
  BY DEF AllAsked
<1>7. AllAsked' = [AllAsked EXCEPT ![r] = q] /\ AllAsked[r] = Service!NotAsked
  BY <1>4, <1>5, <1>6 DEF AllAsked
<1>8. Stored' = Stored
  BY <1>2, QuietCache DEF Stored
<1>. QED
  BY <1>2, <1>7, <1>8, ToldKeeps, ServiceAsks

LEMMA StatusStep ==
  ASSUME GatewayInv, NEW r \in Requests,
         NEW kind \in {"bad_request", "nothing_found"}, Writes(r, Status(kind)),
         \/ kind = "bad_request" /\ pc[r] = "handling" /\ query[r] = Blank
         \/ kind = "nothing_found" /\ pc[r] = "searching",
         UNCHANGED <<now, lru, mainVars, saw, responses>>
  PROVE  Service!Next
<1>1. Status(kind) \in ReplyType /\ Status(kind).kind = kind
  BY Replies DEF Kinds
<1>2. reply[r] = Status("none") /\ (pc[r] = "searching" => query[r] \in Queries)
  BY DEF GatewayInv, Of, Own
<1>3. Apart(r) /\ reply'[r] = Status(kind) /\ pc'[r] = "writing"
  BY <1>1, WritesSays DEF Apart, mainVars
<1>4. Told(r)' = [kind |-> kind]
  BY <1>1, <1>3 DEF Told
<1>5. Service!Reply(r, [kind |-> kind]) /\ AllAsked[r] = query[r]
  BY <1>1, <1>2, <1>3, <1>4, ToldOnce
<1>6. Stored' = Stored
  BY QuietCache DEF Stored
<1>7. CASE kind = "bad_request"
  <2>1. [kind |-> kind] = Service!Refused /\ query[r] = Blank
    BY <1>7 DEF Service!Refused
  <2>. QED
    BY <1>5, <1>6, <2>1, ServiceRefuses
<1>8. CASE kind = "nothing_found"
  <2>1. [kind |-> kind] = Service!NothingFound /\ query[r] \in Queries
    BY <1>2, <1>8 DEF Service!NothingFound
  <2>. QED
    BY <1>5, <1>6, <2>1, ServiceAnswersNothing
<1>. QED
  BY <1>7, <1>8

LEMMA HitStep ==
  ASSUME GatewayInv, NEW r \in Requests, Hit(r) PROVE Service!Next
<1>. DEFINE k == Key(r)
            by == responses[At(k).val].by
<1>1. /\ pc[r] = "handling" /\ query[r] # Blank /\ Holds(k) /\ ~Expired(At(k))
      /\ Touch(k) /\ Writes(r, Results(r))
      /\ responses' = [responses EXCEPT ![r] = [query |-> query[r], by |-> by]]
      /\ UNCHANGED <<now, phase, stopAt, flushAt, saw>>
  BY DEF Hit, Verdict, mainVars
<1>2. RequestsTyped /\ CacheOK /\ now \in Int
  BY TypedSays DEF GatewayInv
<1>3. Held' = Held
  BY <1>1, <1>2, TouchSays
<1>4. At(k) \in Held /\ At(k) \in Entries /\ At(k).key = k
  BY <1>1, <1>2, AtSays, HeldTyped
<1>5. by = At(k).val
  BY <1>4 DEF GatewayInv, Kept
<1>6. Results(r) \in ReplyType /\ Results(r).kind = "results" /\ Results(r).ref = r
  BY Replies
<1>7. /\ \A q \in Requests \ {r} : responses'[q] = responses[q]
      /\ responses'[r] = [query |-> query[r], by |-> by]
  BY <1>1, <1>2 DEF RequestsTyped
<1>8. Apart(r) /\ reply'[r] = Results(r) /\ pc'[r] = "writing"
  BY <1>1, <1>6, <1>7, WritesSays DEF Apart
<1>9. Told(r)' = Service!Found(query[r], At(k).val)
  BY <1>5, <1>6, <1>7, <1>8 DEF Told, Service!Found
<1>10. reply[r] = Status("none") /\ query[r] \in Queries
  BY <1>1, <1>2 DEF GatewayInv, Of, Own, RequestsTyped
<1>11. /\ Service!Reply(r, Service!Found(query[r], At(k).val))
       /\ AllAsked[r] = query[r]
  BY <1>1, <1>6, <1>8, <1>9, <1>10, ToldOnce
<1>. DEFINE a == Answer(At(k))
<1>12. a \in Stored /\ a.key = KeyOf[query[r]] /\ a.by = At(k).val
  BY <1>4 DEF Stored, Answer, Key
<1>13. Service!Fresh(a)
  <2>1. a.at = At(k).ts /\ At(k).ts \in Int
    BY <1>4 DEF Answer, Entries
  <2>. QED
    BY <1>1, <1>2, <2>1, TTLAssumption DEF Expired, Service!Fresh
<1>14. Stored' = Stored
  BY <1>3 DEF Stored
<1>. HIDE DEF a
<1>. QED
  BY <1>10, <1>11, <1>12, <1>13, <1>14, ServiceAnswersKept

LEMMA StoresStep ==
  ASSUME GatewayInv, NEW r \in Requests, Stores(r) PROVE Service!Next
<1>. DEFINE k == Key(r)
<1>1. /\ pc[r] = "searching" /\ Set(k, r) /\ Writes(r, Results(r))
      /\ responses' = [responses EXCEPT ![r] = [query |-> query[r], by |-> r]]
      /\ UNCHANGED <<now, phase, stopAt, flushAt, saw>>
  BY DEF Stores, mainVars
<1>2. RequestsTyped /\ CacheOK /\ now \in 0 .. MaxTime
  BY TypedSays DEF GatewayInv
<1>3. query[r] \in Queries /\ reply[r] = Status("none") /\ k \in Keys
  BY <1>1 DEF GatewayInv, Of, Own, Key, Keys
<1>4. Held' \subseteq Others(k) \cup {Entry(k, r)}
  BY <1>1, <1>2, <1>3, SetSays
<1>5. Results(r) \in ReplyType /\ Results(r).kind = "results" /\ Results(r).ref = r
  BY Replies
<1>6. /\ \A q \in Requests \ {r} : responses'[q] = responses[q]
      /\ responses'[r] = [query |-> query[r], by |-> r]
  BY <1>1, <1>2 DEF RequestsTyped
<1>7. Apart(r) /\ reply'[r] = Results(r) /\ pc'[r] = "writing"
  BY <1>1, <1>5, <1>6, WritesSays DEF Apart
<1>8. Told(r)' = Service!Found(query[r], r)
  BY <1>5, <1>6, <1>7 DEF Told, Service!Found
<1>9. Service!Reply(r, Service!Found(query[r], r)) /\ AllAsked[r] = query[r]
  BY <1>1, <1>3, <1>5, <1>7, <1>8, ToldOnce
<1>10. Answer(Entry(k, r)) = [by |-> r, key |-> KeyOf[query[r]], at |-> now]
  BY DEF Answer, Entry, Key
<1>11. Stored' \subseteq
         Stored \cup {[by |-> r, key |-> KeyOf[query[r]], at |-> now]}
  BY <1>4, <1>10 DEF Stored, Others
<1>. QED
  BY <1>3, <1>9, <1>11, ServiceAnswersFresh

LEMMA RestsStep ==
  ASSUME UNCHANGED <<now, lru, query, reply, responses>>,
         \A r \in Requests : pc'[r] = "absent" <=> pc[r] = "absent"
  PROVE  UNCHANGED Service!vars
<1>1. Stored' = Stored
  BY QuietCache DEF Stored
<1>. QED
  BY <1>1, ToldKeeps, AskedKeeps, ServiceRests

LEMMA ServiceStep == GatewayInv /\ [Next]_vars => [Service!Next]_(Service!vars)
<1>. SUFFICES ASSUME GatewayInv, [Next]_vars
              PROVE  Service!Next \/ UNCHANGED Service!vars
  OBVIOUS
<1>1. CacheOK /\ now \in Int /\ RequestsTyped
  BY TypedSays DEF GatewayInv
<1>2. ASSUME NEW r \in Requests, RequestStep(r)
      PROVE  Service!Next \/ UNCHANGED Service!vars
  <2>1. CASE BadRequest(r)
    BY <2>1, StatusStep DEF BadRequest
  <2>2. CASE FindsNothing(r)
    BY <2>2, StatusStep DEF FindsNothing
  <2>3. CASE Miss(r) \/ Written(r)
    <3>1. /\ UNCHANGED <<now, lru, query, reply, responses>>
          /\ \A q \in Requests : pc'[q] = "absent" <=> pc[q] = "absent"
      BY <1>1, <2>3 DEF Miss, Written, StartSearch, Goes, RequestsTyped
    <3>. QED
      BY <3>1, RestsStep
  <2>4. CASE MeetsExpired(r)
    <3>1. Held' = Held /\ UNCHANGED <<now, query, reply, responses>>
      BY <1>1, <2>4, TouchSays DEF MeetsExpired
    <3>2. \A q \in Requests : pc'[q] = "absent" <=> pc[q] = "absent"
      BY <1>1, <2>4 DEF MeetsExpired, Goes, RequestsTyped
    <3>. QED
      BY <3>1, <3>2, ToldKeeps, AskedKeeps, ServiceRests DEF Stored
  <2>5. CASE Discards(r)
    <3>1. Held' \subseteq Held /\ UNCHANGED <<now, query, reply, responses>>
      BY <1>1, <2>5, DiscardSays DEF Discards, Others
    <3>2. \A q \in Requests : pc'[q] = "absent" <=> pc[q] = "absent"
      BY <1>1, <2>5 DEF Discards, StartSearch, Goes, RequestsTyped
    <3>. QED
      BY <3>1, <3>2, ToldKeeps, AskedKeeps, ServiceForgets DEF Stored
  <2>. QED
    BY <1>2, <2>1, <2>2, <2>3, <2>4, <2>5, AsksStep, HitStep, StoresStep
       DEF RequestStep, Handles
<1>3. CASE Tick
  <2>1. now' > now /\ UNCHANGED <<lru, pc, query, reply, responses>>
    BY <1>1, <1>3 DEF Tick, requestVars
  <2>2. Stored' = Stored
    BY <2>1, QuietCache DEF Stored
  <2>. QED
    BY <2>1, <2>2, ToldKeeps, AskedKeeps, ServiceTicks
<1>4. CASE Exit
  <2>1. \A q \in Requests : pc'[q] = "absent" <=> pc[q] = "absent"
    BY <1>4 DEF Exit, InFlight
  <2>. QED
    BY <1>4, <2>1, RestsStep DEF Exit
<1>5. CASE Stop \/ ShutdownReturns \/ UNCHANGED vars
  BY <1>5, RestsStep DEF Stop, ShutdownReturns, vars, requestVars
<1>. QED
  BY <1>2, <1>3, <1>4, <1>5 DEF Next

LEMMA ServiceInit == Init => Service!Init
<1>. SUFFICES ASSUME Init PROVE Service!Init
  OBVIOUS
<1>1. Stored = {}
  BY DEF Init, CacheInit, Stored, Held, ToSet
<1>2. \A r \in Requests : Told(r) = Service!NoReply
  <2>1. Status("none").kind = "none"
    BY DEF Status
  <2>. QED
    BY <2>1 DEF Init, Told, Service!NoReply
<1>3. ASSUME NEW r \in Requests PROVE Asked(r) = Service!NotAsked
  <2>1. pc[r] = "absent" /\ reply[r].kind = "none"
    BY DEF Init, Status
  <2>. QED
    BY <2>1 DEF Asked, Service!NotAsked
<1>4. /\ AllTold = [r \in Requests |-> Service!NoReply]
      /\ AllAsked = [r \in Requests |-> Service!NotAsked]
  BY <1>2, <1>3 DEF AllTold, AllAsked
<1>5. now = 0
  BY DEF Init
<1>. QED
  BY <1>1, <1>4, <1>5, ServiceStarts

-----------------------------------------------------------------------------
(* The inductive invariant: the cache holds its entries once, each with an *)
(* object its maker has replied with; a request replies once, with an      *)
(* object of its own; what an expired lookup met and what a search will    *)
(* replace are known (proxy.go:122-145, 413, cache.go:27-41).              *)
THEOREM GatewayInvariant == Spec => []GatewayInv
BY InitInv, StepInv, PTL DEF Spec

(* The cache never holds more than its size nor a key twice, and every     *)
(* variable keeps its type (cache.go:27-41).                               *)
THEOREM TypeCorrect == Spec => []TypeOK
<1>1. GatewayInv => TypeOK
  BY DEF GatewayInv, Typed
<1>. QED
  BY <1>1, GatewayInvariant, PTL

(* An unexpired entry is lost only to a full cache or to a reader that had *)
(* met its expired predecessor (cache.go:27-41).                           *)
THEOREM NoWantonLoss == Spec => LossHasCause
<1>1. GatewayInv /\ [Next]_vars =>
        [\A k \in Keys :
           Holds(k) /\ ~Expired(At(k)) /\ ~Holds(k)'
             => \/ Len(lru) = Capacity /\ Len(lru') = Capacity
                \/ \E r \in Requests :
                     /\ pc[r] = "discarding"
                     /\ Key(r) = k
                     /\ saw[r] # At(k).val]_vars
  BY LossStep
<1>. QED
  BY <1>1, GatewayInvariant, PTL DEF Spec, LossHasCause

(* What a request replaces was stored while it was searching               *)
(* (proxy.go:126-134, 413).                                                *)
THEOREM ReplacementConcurrent == Spec => ReplacesOnlyConcurrent
<1>1. GatewayInv =>
        \A r \in Requests :
          pc[r] = "searching" /\ Holds(Key(r)) => At(Key(r)).ts >= since[r]
  BY AtSays, TypedSays DEF GatewayInv, Of, Recent
<1>2. GatewayInv /\ [Next]_vars =>
        [\A r \in Requests :
           pc[r] = "searching" /\ reply'[r] = Results(r) /\ Holds(Key(r))
             => At(Key(r)).ts >= since[r]]_vars
  BY <1>1
<1>. QED
  BY <1>2, GatewayInvariant, PTL DEF Spec, ReplacesOnlyConcurrent

(* A shutdown cuts off no request that could be sure to end within the     *)
(* grace (main.go:91-93).                                                  *)
THEOREM FittingNotCut == Spec => FittingRequestsEnd
<1>1. GatewayInv /\ [Next]_vars =>
        [\A r \in Requests :
           pc[r] \in {"handling", "discarding", "searching"} /\ pc'[r] = "cut"
             => EndsBy(r) >= stopAt + Grace]_vars
  BY CutStep
<1>. QED
  BY <1>1, GatewayInvariant, PTL DEF Spec, FittingRequestsEnd

(* Callers get what SearchService promises: one reply to what they asked,  *)
(* under their own text, that stays as it is, with results of that text's  *)
(* key stored at most the TTL ago (proxy.go:122-133, cache.go:27-41).      *)
THEOREM ServiceImplemented == Spec => ImplementsService
BY ServiceInit, ServiceStep, GatewayInvariant, PTL
   DEF Spec, ImplementsService, Service!Spec
=============================================================================
