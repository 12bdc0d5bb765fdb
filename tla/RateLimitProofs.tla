---------------------------- MODULE RateLimitProofs ----------------------------
(***************************************************************************)
(* Theorems about AtomicState and RateLimit, for every set of keys,        *)
(* amounts, ttls, callers, costs and setups, and for every window, limit,  *)
(* capacity and rate: first about the counters by themselves, then about   *)
(* all limits together.                                                    *)
(***************************************************************************)
EXTENDS RateLimit, FiniteSetTheorems, WellFoundedInduction, TLAPS

-----------------------------------------------------------------------------
(* Lemmas about the operators of the model.                                *)

\* Every set of times that is not empty has an earliest one.
LEMMA EarliestIsLeast ==
    ASSUME NEW T, T \subseteq Nat, T # {}
    PROVE  Earliest(T) \in T /\ \A u \in T : Earliest(T) <= u
<1>1. PICK t \in T : \A y \in T : ~(<<y, t>> \in OpToRel(<, Nat))
  BY WFMin, NatLessThanWellFounded, Zenon
<1>2. ASSUME NEW u \in T PROVE t <= u
  <2>1. <<u, t>> \in Nat \X Nat
    OBVIOUS
  <2>2. ~(u < t)
    BY <1>1, <2>1 DEF OpToRel
  <2> QED BY <2>1, <2>2
<1> QED BY <1>2 DEF Earliest

\* A map of counters of the memory backend: each has an expiry.
MemCounters(c) ==
    /\ DOMAIN c \subseteq Key
    /\ c \in [DOMAIN c -> [value : Nat, expiresAt : Nat]]

\* `at` is no later than any expiry in c.
InTime(at, c) ==
    /\ at \in Nat \cup {Never}
    /\ \A k \in DOMAIN c : at # Never /\ at <= c[k].expiresAt

LEMMA NextPruneAtInTime ==
    ASSUME NEW c, MemCounters(c)
    PROVE  InTime(NextPruneAt(c), c)
<1> DEFINE T == {c[k].expiresAt : k \in DOMAIN c}
<1>1. T \subseteq Nat
  BY DEF MemCounters
<1>2. CASE T = {}
  BY <1>2 DEF NextPruneAt, Earliest, InTime, Never
<1>3. CASE T # {}
  <2>1. NextPruneAt(c) \in T /\ \A u \in T : NextPruneAt(c) <= u
    BY <1>1, <1>3, EarliestIsLeast DEF NextPruneAt
  <2>2. ASSUME NEW k \in DOMAIN c
        PROVE  NextPruneAt(c) # Never /\ NextPruneAt(c) <= c[k].expiresAt
    BY <1>1, <2>1 DEF Never
  <2> QED BY <1>1, <2>1, <2>2 DEF InTime
<1> QED BY <1>2, <1>3

\* A smaller map has no earlier expiry, and keeps its counters.
LEMMA RestrictInTime ==
    ASSUME NEW c, NEW S, NEW at, MemCounters(c), InTime(at, c), S \subseteq DOMAIN c
    PROVE  /\ MemCounters(Restrict(c, S))
           /\ InTime(at, Restrict(c, S))
           /\ DOMAIN Restrict(c, S) = S
           /\ \A k \in S : Restrict(c, S)[k] = c[k]
BY DEF MemCounters, InTime, Restrict

-----------------------------------------------------------------------------
(* The inductive invariant.  It ties every counter to the tally of its     *)
(* window: CountsOneWindow alone is not inductive, since it says nothing   *)
(* of when a counter expires.                                              *)

MemInv ==
    backend = "memory" =>
        MemCounters(counters) /\ InTime(counterPruneAt, counters) /\ unbounded = {}

RedisInv ==
    backend = "redis" =>
        \A k \in DOMAIN counters :
            counters[k].expiresAt = Never \/ now <= counters[k].expiresAt

Linked(k) ==
    /\ k \notin DOMAIN counters => tally[k].ends <= now
    /\ k \in DOMAIN counters \ unbounded =>
           /\ counters[k].expiresAt # Never
           /\ tally[k].sum = counters[k].value
           /\ tally[k].ends = counters[k].expiresAt + LastTick
    /\ k \in unbounded => k \in DOMAIN counters /\ counters[k].value >= DueCount(k)

CountInv ==
    /\ CounterTypeOK /\ MemInv /\ RedisInv
    /\ \A k \in Key : Linked(k)
    /\ reply.got = reply.due

LEMMA CountInit == CounterInit => CountInv
<1> SUFFICES ASSUME CounterInit PROVE CountInv
  OBVIOUS
<1>1. DOMAIN counters = {}
  BY DEF CounterInit
<1>2. CounterTypeOK
  BY <1>1 DEF CounterInit, CounterTypeOK, Counter, NoTally, NoReply, Never
<1>3. MemInv /\ RedisInv
  BY <1>1 DEF CounterInit, MemInv, RedisInv, MemCounters, InTime, Never
<1>4. ASSUME NEW k \in Key PROVE Linked(k)
  BY <1>1 DEF CounterInit, Linked, NoTally
<1> QED BY <1>2, <1>3, <1>4 DEF CountInv, CounterInit, NoReply

\* It implies the two properties.
LEMMA CountInvSuffices == CountInv => CountsOneWindow /\ CountersPrunedInTime
<1> SUFFICES ASSUME CountInv PROVE CountsOneWindow /\ CountersPrunedInTime
  OBVIOUS
<1>1. CountersPrunedInTime
  BY DEF CountInv, MemInv, InTime, CountersPrunedInTime
<1>2. ASSUME NEW k \in Key
      PROVE  IF k \in unbounded THEN Counted(k) >= DueCount(k) ELSE Counted(k) = DueCount(k)
  <2>1. tally[k] \in [sum : Nat, ends : Nat] /\ now \in Nat /\ Linked(k)
    BY DEF CountInv, CounterTypeOK
  <2>2. CASE k \notin DOMAIN counters
    BY <2>1, <2>2 DEF Linked, Counted, DueCount
  <2>3. CASE k \in DOMAIN counters /\ backend = "memory"
    <3>1. counters[k].expiresAt \in Nat /\ unbounded = {}
      BY <2>3 DEF CountInv, MemInv, MemCounters
    <3>2. tally[k].sum = counters[k].value /\ tally[k].ends = counters[k].expiresAt
      BY <2>1, <2>3, <3>1 DEF Linked, LastTick
    <3> QED BY <2>1, <2>3, <3>1, <3>2 DEF Counted, DueCount
  <2>4. CASE k \in DOMAIN counters /\ backend # "memory"
    <3>1. backend = "redis" /\ Counted(k) = counters[k].value
      BY <2>4 DEF CountInv, CounterTypeOK, Backend, Counted
    <3>2. CASE k \in unbounded
      BY <2>1, <3>1, <3>2 DEF Linked
    <3>3. CASE k \notin unbounded
      <4>1. /\ counters[k].expiresAt # Never
            /\ tally[k].sum = counters[k].value
            /\ tally[k].ends = counters[k].expiresAt + 1
        BY <2>1, <2>4, <3>1, <3>3 DEF Linked, LastTick
      <4>2. now <= counters[k].expiresAt /\ counters[k].expiresAt \in Nat
        BY <2>4, <3>1, <4>1 DEF CountInv, RedisInv, CounterTypeOK, Counter, Never
      <4> QED BY <2>1, <3>1, <3>3, <4>1, <4>2 DEF DueCount
    <3> QED BY <3>2, <3>3
  <2> QED BY <2>2, <2>3, <2>4
<1> QED BY <1>1, <1>2 DEF CountsOneWindow, CountInv

-----------------------------------------------------------------------------
(* The steps of the memory backend.                                        *)

\* After the pruning exactly the counters are left that have not expired.
LEMMA PrunedIsLive ==
    ASSUME CountInv, backend = "memory"
    PROVE  /\ MemCounters(Pruned)
           /\ InTime(PrunedAt, Pruned)
           /\ DOMAIN Pruned = {k \in DOMAIN counters : counters[k].expiresAt > now}
           /\ \A k \in DOMAIN Pruned : Pruned[k] = counters[k]
<1> DEFINE L == {k \in DOMAIN counters : counters[k].expiresAt > now}
<1>1. MemCounters(counters) /\ InTime(counterPruneAt, counters) /\ now \in Nat
  BY DEF CountInv, MemInv, CounterTypeOK
<1>2. CASE Due(counterPruneAt)
  <2>1. Pruned = Restrict(counters, L) /\ PrunedAt = NextPruneAt(Pruned)
    BY <1>2 DEF Pruned, PrunedAt, Unexpired
  <2>2. MemCounters(Pruned) /\ DOMAIN Pruned = L /\ \A k \in L : Pruned[k] = counters[k]
    BY <1>1, <2>1 DEF MemCounters, Restrict
  <2> QED BY <2>1, <2>2, NextPruneAtInTime
<1>3. CASE ~Due(counterPruneAt)
  <2>1. Pruned = counters /\ PrunedAt = counterPruneAt
    BY <1>3 DEF Pruned, PrunedAt
  <2>2. ASSUME NEW k \in DOMAIN counters PROVE counters[k].expiresAt > now
    BY <1>1, <1>3 DEF Due, InTime, MemCounters, Never
  <2> QED BY <1>1, <2>1, <2>2
<1> QED BY <1>2, <1>3

\* The keys a step of the memory backend leaves alone but for the pruning
\* stay linked to their tallies.
LEMMA OthersLinked ==
    ASSUME CountInv, backend = "memory", NEW j \in Key,
           j \in DOMAIN counters' => j \in DOMAIN counters /\ counters'[j] = counters[j],
           j \in DOMAIN counters /\ j \notin DOMAIN counters' =>
               counters[j].expiresAt <= now,
           tally'[j] = tally[j], now' = now, backend' = backend, unbounded' = unbounded
    PROVE  Linked(j)'
<1>1. unbounded = {} /\ Linked(j) /\ (j \in DOMAIN counters => counters[j].expiresAt \in Nat)
  BY DEF CountInv, MemInv, MemCounters
<1>2. LastTick = 0 /\ LastTick' = 0
  BY DEF LastTick
<1>3. CASE j \in DOMAIN counters
  BY <1>1, <1>2, <1>3 DEF Linked
<1>4. CASE j \notin DOMAIN counters
  BY <1>1, <1>2, <1>4 DEF Linked
<1> QED BY <1>3, <1>4

LEMMA MemIncrementStep ==
    ASSUME CountInv, backend = "memory",
           NEW k \in Key, NEW d \in Delta, NEW ttl \in Ttl,
           MemIncrement(k, d, ttl), UNCHANGED <<now, backend>>
    PROVE  CountInv'
<1> DEFINE P == Pruned
           e == IF k \in DOMAIN P THEN P[k].expiresAt ELSE now + ttl
           v == (IF k \in DOMAIN P THEN P[k].value ELSE 0) + d
<1>1. d \in Nat /\ ttl \in Nat /\ now \in Nat /\ unbounded = {}
  BY CounterAssumption DEF CountInv, CounterTypeOK, MemInv
<1>2. /\ MemCounters(P) /\ InTime(PrunedAt, P)
      /\ DOMAIN P = {x \in DOMAIN counters : counters[x].expiresAt > now}
      /\ \A x \in DOMAIN P : P[x] = counters[x]
  BY PrunedIsLive
<1>3. e \in Nat /\ v \in Nat
  BY <1>1, <1>2 DEF MemCounters
<1>4. /\ counters' = Put(P, k, [value |-> v, expiresAt |-> e])
      /\ CountAdd(k, d, ttl, v)
      /\ counterPruneAt' = IF k \in DOMAIN P THEN PrunedAt ELSE Sooner(PrunedAt, e)
      /\ unbounded' = unbounded
  <2>1. CASE k \in DOMAIN P
    <3>1. ~(P[k].expiresAt <= now)
      BY <1>1, <1>2, <2>1 DEF MemCounters
    <3>2. P[k] = [value |-> P[k].value, expiresAt |-> P[k].expiresAt]
      BY <1>2, <2>1 DEF MemCounters
    <3>3. [P[k] EXCEPT !.value = v] = [value |-> v, expiresAt |-> e]
      BY <2>1, <3>2
    <3> QED BY <2>1, <3>1, <3>3 DEF MemIncrement
  <2>2. CASE k \notin DOMAIN P
    BY <1>1, <2>2 DEF MemIncrement
  <2> QED BY <2>1, <2>2
<1>5. /\ MemCounters(counters') /\ InTime(counterPruneAt', counters')
      /\ DOMAIN counters' = DOMAIN P \cup {k}
      /\ counters'[k] = [value |-> v, expiresAt |-> e]
      /\ \A x \in DOMAIN P \ {k} : counters'[x] = P[x]
  <2> DEFINE p == Put(P, k, [value |-> v, expiresAt |-> e])
  <2>1. /\ MemCounters(p)
        /\ InTime(Sooner(PrunedAt, e), p)
        /\ k \in DOMAIN P => InTime(PrunedAt, p)
        /\ DOMAIN p = DOMAIN P \cup {k}
        /\ p[k] = [value |-> v, expiresAt |-> e]
        /\ \A x \in DOMAIN P \ {k} : p[x] = P[x]
    <3> HIDE DEF P, v
    <3>1. k \in DOMAIN P => P[k].expiresAt = e
      OBVIOUS
    <3> HIDE DEF e
    <3> QED BY <1>2, <1>3, <3>1 DEF MemCounters, InTime, Put, Sooner, Never
  <2> QED BY <1>4, <2>1
<1>6. tally[k] \in [sum : Nat, ends : Nat] /\ Linked(k)
  BY DEF CountInv, CounterTypeOK
<1>7. Added(k, d, ttl) = [sum |-> v, ends |-> e]
  <2>1. CASE k \in DOMAIN P
    <3>1. /\ tally[k].sum = P[k].value /\ tally[k].ends = P[k].expiresAt
          /\ P[k].expiresAt > now
      BY <1>1, <1>2, <1>6, <2>1 DEF Linked, LastTick, MemCounters
    <3> QED BY <1>1, <1>6, <2>1, <3>1 DEF Added
  <2>2. CASE k \notin DOMAIN P
    <3>1. tally[k].ends <= now
      BY <1>1, <1>2, <1>6, <2>2 DEF Linked, LastTick, CountInv, MemInv, MemCounters
    <3> QED BY <1>1, <1>6, <2>2, <3>1 DEF Added, LastTick
  <2> QED BY <2>1, <2>2
<1>8. /\ tally' = [tally EXCEPT ![k] = [sum |-> v, ends |-> e]]
      /\ reply' = [got |-> v, due |-> v]
  BY <1>1, <1>4, <1>7 DEF CountAdd
<1>9. CounterTypeOK'
  BY <1>1, <1>3, <1>4, <1>5, <1>8 DEF CountInv, CounterTypeOK, MemCounters, InTime, Counter
<1>10. ASSUME NEW j \in Key PROVE Linked(j)'
  <2>1. CASE j = k
    BY <1>1, <1>3, <1>4, <1>5, <1>8, <2>1 DEF Linked, LastTick, Never, CountInv, CounterTypeOK
  <2>2. CASE j # k
    <3>1. tally'[j] = tally[j]
      BY <1>8, <2>2 DEF CountInv, CounterTypeOK
    <3>2. j \in DOMAIN counters' => j \in DOMAIN counters /\ counters'[j] = counters[j]
      BY <1>2, <1>5, <2>2
    <3>3. j \in DOMAIN counters /\ j \notin DOMAIN counters' => counters[j].expiresAt <= now
      BY <1>1, <1>2, <1>5, <2>2 DEF CountInv, MemInv, MemCounters
    <3> QED BY <1>4, <3>1, <3>2, <3>3, OthersLinked
  <2> QED BY <2>1, <2>2
<1> QED BY <1>1, <1>4, <1>5, <1>8, <1>9, <1>10 DEF CountInv, MemInv, RedisInv

LEMMA MemDecrementStep ==
    ASSUME CountInv, backend = "memory", NEW k \in Key, NEW d \in Delta,
           MemDecrement(k, d), UNCHANGED <<now, backend>>
    PROVE  CountInv'
<1> DEFINE P == Pruned
           v == IF k \in DOMAIN P THEN Atleast0(P[k].value - d) ELSE 0
<1>1. d \in Nat /\ now \in Nat /\ unbounded = {}
  BY CounterAssumption DEF CountInv, CounterTypeOK, MemInv
<1>2. /\ MemCounters(P) /\ InTime(PrunedAt, P)
      /\ DOMAIN P = {x \in DOMAIN counters : counters[x].expiresAt > now}
      /\ \A x \in DOMAIN P : P[x] = counters[x]
  BY PrunedIsLive
<1>3. v \in Nat
  BY <1>1, <1>2 DEF MemCounters, Atleast0
<1>4. /\ DOMAIN counters' = DOMAIN P
      /\ \A x \in DOMAIN P \ {k} : counters'[x] = P[x]
      /\ k \in DOMAIN P => counters'[k] = [value |-> v, expiresAt |-> P[k].expiresAt]
      /\ counters' = [x \in DOMAIN counters' |-> counters'[x]]
      /\ counterPruneAt' = PrunedAt
      /\ CountSubtract(k, d, v)
      /\ unbounded' = unbounded
  BY <1>1, <1>2 DEF MemDecrement, Put, MemCounters
<1>5. MemCounters(counters') /\ InTime(counterPruneAt', counters')
  <2> HIDE DEF P, v
  <2>1. ASSUME NEW x \in DOMAIN P
        PROVE  /\ counters'[x] \in [value : Nat, expiresAt : Nat]
               /\ counters'[x].expiresAt = P[x].expiresAt
    BY <1>2, <1>3, <1>4 DEF MemCounters
  <2> QED BY <1>2, <1>4, <2>1 DEF MemCounters, InTime
<1>6. tally[k] \in [sum : Nat, ends : Nat] /\ Linked(k)
  BY DEF CountInv, CounterTypeOK
<1>7. tally' = [tally EXCEPT ![k] = [sum |-> Atleast0(tally[k].sum - d), ends |-> tally[k].ends]]
  <2>1. Subtracted(k, d) = [sum |-> Atleast0(tally[k].sum - d), ends |-> tally[k].ends]
    BY <1>6 DEF Subtracted
  <2> QED BY <1>4, <2>1 DEF CountSubtract
<1>8. Atleast0(tally[k].sum - d) \in Nat
  BY <1>1, <1>6 DEF Atleast0
<1>9. k \in DOMAIN P => /\ tally[k].sum = P[k].value
                        /\ tally[k].ends = P[k].expiresAt
                        /\ P[k].expiresAt > now
  BY <1>1, <1>2, <1>6 DEF Linked, LastTick, MemCounters
<1>10. k \notin DOMAIN P => tally[k].ends <= now
  BY <1>1, <1>2, <1>6 DEF Linked, LastTick, CountInv, MemInv, MemCounters
<1>11. Atleast0(DueCount(k) - d) = v
  BY <1>1, <1>2, <1>6, <1>9, <1>10 DEF DueCount, Atleast0, MemCounters
<1>12. reply' = [got |-> v, due |-> v]
  BY <1>1, <1>4, <1>11 DEF CountSubtract
<1>13. CounterTypeOK'
  BY <1>1, <1>3, <1>4, <1>5, <1>6, <1>7, <1>8, <1>12
     DEF CountInv, CounterTypeOK, MemCounters, InTime, Counter
<1>14. ASSUME NEW j \in Key PROVE Linked(j)'
  <2>1. CASE j = k
    <3>1. tally'[k].ends = tally[k].ends /\ tally'[k].sum = Atleast0(tally[k].sum - d)
      BY <1>7 DEF CountInv, CounterTypeOK
    <3>2. LastTick' = 0
      BY DEF LastTick
    <3>3. CASE k \in DOMAIN P
      <4>1. P[k].expiresAt \in Nat
        BY <1>2, <3>3 DEF MemCounters
      <4> QED BY <1>1, <1>4, <1>9, <2>1, <3>1, <3>2, <3>3, <4>1 DEF Linked, Never
    <3>4. CASE k \notin DOMAIN P
      BY <1>1, <1>4, <1>10, <2>1, <3>1, <3>4 DEF Linked
    <3> QED BY <3>3, <3>4
  <2>2. CASE j # k
    <3>1. tally'[j] = tally[j]
      BY <1>7, <2>2 DEF CountInv, CounterTypeOK
    <3>2. j \in DOMAIN counters' => j \in DOMAIN counters /\ counters'[j] = counters[j]
      BY <1>2, <1>4, <2>2
    <3>3. j \in DOMAIN counters /\ j \notin DOMAIN counters' => counters[j].expiresAt <= now
      BY <1>1, <1>2, <1>4, <2>2 DEF CountInv, MemInv, MemCounters
    <3> QED BY <1>4, <3>1, <3>2, <3>3, OthersLinked
  <2> QED BY <2>1, <2>2
<1> QED BY <1>1, <1>4, <1>5, <1>12, <1>13, <1>14 DEF CountInv, MemInv, RedisInv

\* Removing counters together with their tallies, in either backend.
LEMMA ResetStep ==
    ASSUME CountInv, NEW K \in SUBSET Key,
           counters' = Without(counters, K), CountReset(K),
           backend = "memory" => InTime(counterPruneAt', counters'),
           counterPruneAt' \in Nat \cup {Never},
           UNCHANGED <<now, backend>>
    PROVE  CountInv'
<1>1. /\ DOMAIN counters' = DOMAIN counters \ K
      /\ \A x \in DOMAIN counters' : counters'[x] = counters[x]
      /\ counters' = [x \in DOMAIN counters' |-> counters'[x]]
  BY DEF Without, Restrict
<1>2. /\ tally' = [k \in Key |-> IF k \in K THEN NoTally ELSE tally[k]]
      /\ reply' = NoReply
      /\ unbounded' = unbounded \ K
  BY DEF CountReset
<1>3. CounterTypeOK'
  BY <1>1, <1>2 DEF CountInv, CounterTypeOK, NoTally, NoReply
<1>4. MemInv' /\ RedisInv'
  BY <1>1, <1>2 DEF CountInv, MemInv, RedisInv, MemCounters
<1>5. ASSUME NEW j \in Key PROVE Linked(j)'
  <2>1. CASE j \in K
    BY <1>1, <1>2, <2>1 DEF Linked, NoTally, CountInv, CounterTypeOK
  <2>2. CASE j \notin K
    BY <1>1, <1>2, <2>2 DEF Linked, LastTick, DueCount, CountInv
  <2> QED BY <2>1, <2>2
<1> QED BY <1>2, <1>3, <1>4, <1>5 DEF CountInv, NoReply

LEMMA MemResetStep ==
    ASSUME CountInv, backend = "memory", NEW k \in Key, MemReset(k),
           UNCHANGED <<now, backend>>
    PROVE  CountInv'
<1>1. MemCounters(counters) /\ InTime(counterPruneAt, counters)
  BY DEF CountInv, MemInv
<1>2. MemCounters(counters') /\ InTime(counterPruneAt, counters')
  BY <1>1, RestrictInTime DEF MemReset, Without
<1>3. InTime(counterPruneAt', counters')
  BY <1>2, NextPruneAtInTime DEF MemReset
<1> QED BY <1>3, ResetStep DEF MemReset, InTime

LEMMA MemResetPrefixStep ==
    ASSUME CountInv, backend = "memory", NEW K \in SUBSET Key, MemResetPrefix(K),
           UNCHANGED <<now, backend>>
    PROVE  CountInv'
<1>1. MemCounters(counters) /\ InTime(counterPruneAt, counters)
  BY DEF CountInv, MemInv
<1>2. MemCounters(counters') /\ InTime(counterPruneAt, counters')
  BY <1>1, RestrictInTime DEF MemResetPrefix, Without
<1>3. InTime(counterPruneAt', counters')
  BY <1>2, NextPruneAtInTime DEF MemResetPrefix
<1> QED BY <1>3, ResetStep DEF MemResetPrefix, InTime

LEMMA MemCleanupExpiredStep ==
    ASSUME CountInv, backend = "memory", MemCleanupExpired, UNCHANGED <<now, backend>>
    PROVE  CountInv'
<1> DEFINE L == {k \in DOMAIN counters : counters[k].expiresAt > now}
<1>1. MemCounters(counters) /\ InTime(counterPruneAt, counters) /\ now \in Nat
  BY DEF CountInv, MemInv, CounterTypeOK
<1>2. counters' = Restrict(counters, L)
  BY DEF MemCleanupExpired, Unexpired
<1>3. /\ MemCounters(counters') /\ DOMAIN counters' = L
      /\ \A k \in L : counters'[k] = counters[k]
  BY <1>1, <1>2 DEF MemCounters, Restrict
<1>4. InTime(counterPruneAt', counters')
  BY <1>3, NextPruneAtInTime DEF MemCleanupExpired
<1>5. UNCHANGED <<tally, reply, unbounded>>
  BY DEF MemCleanupExpired
<1>6. CounterTypeOK'
  BY <1>3, <1>4, <1>5 DEF CountInv, CounterTypeOK, MemCounters, InTime, Counter
<1>7. ASSUME NEW j \in Key PROVE Linked(j)'
  <2>1. j \in DOMAIN counters /\ j \notin DOMAIN counters' => counters[j].expiresAt <= now
    BY <1>1, <1>3 DEF MemCounters
  <2> QED BY <1>3, <1>5, <2>1, OthersLinked
<1> QED BY <1>3, <1>4, <1>5, <1>6, <1>7 DEF CountInv, MemInv, RedisInv

-----------------------------------------------------------------------------
(* The steps of the Redis backend, and the clock.                          *)

LEMMA RedisIncrementStep ==
    ASSUME CountInv, backend = "redis",
           NEW k \in Key, NEW d \in Delta, NEW ttl \in Ttl,
           RedisIncrement(k, d, ttl), UNCHANGED <<now, backend>>
    PROVE  CountInv'
<1> DEFINE v == (IF k \in DOMAIN counters THEN counters[k].value ELSE 0) + d
           e == RedisExpiry(k, ttl)
<1>1. d \in Nat /\ ttl \in Nat \ {0} /\ now \in Nat
  BY CounterAssumption DEF CountInv, CounterTypeOK
<1>2. /\ DOMAIN counters \subseteq Key /\ counters \in [DOMAIN counters -> Counter]
      /\ \A x \in DOMAIN counters : counters[x].expiresAt = Never \/ now <= counters[x].expiresAt
  BY DEF CountInv, CounterTypeOK, RedisInv
<1>3. v \in Nat /\ e \in Nat /\ now <= e
  BY <1>1, <1>2 DEF Counter, RedisExpiry, Never
<1>4. /\ DOMAIN counters' = DOMAIN counters \cup {k}
      /\ counters'[k] = [value |-> v, expiresAt |-> e]
      /\ \A x \in DOMAIN counters \ {k} : counters'[x] = counters[x]
      /\ counters' = [x \in DOMAIN counters' |-> counters'[x]]
      /\ CountAdd(k, d, ttl, v)
      /\ UNCHANGED <<counterPruneAt, unbounded>>
  BY DEF RedisIncrement, Put
<1>5. tally[k] \in [sum : Nat, ends : Nat] /\ Linked(k) /\ LastTick = 1 /\ LastTick' = 1
  BY DEF CountInv, CounterTypeOK, LastTick
<1>6. Added(k, d, ttl) \in [sum : Nat, ends : Nat]
  BY <1>1, <1>5 DEF Added
<1>7. k \notin unbounded => Added(k, d, ttl).sum = v /\ Added(k, d, ttl).ends = e + 1
  BY <1>1, <1>2, <1>5 DEF Added, Linked, RedisExpiry, Counter, Never
<1>8. k \in unbounded => v >= Added(k, d, ttl).sum
  BY <1>1, <1>2, <1>5 DEF Added, Linked, DueCount, Counter
<1>9. /\ tally' = [tally EXCEPT ![k] = Added(k, d, ttl)]
      /\ reply' \in [got : Nat, due : Nat] /\ reply'.got = reply'.due
  BY <1>3, <1>4, <1>6, <1>7 DEF CountAdd, NoReply
<1>10. CounterTypeOK'
  BY <1>1, <1>2, <1>3, <1>4, <1>6, <1>9 DEF CountInv, CounterTypeOK, Counter
<1>11. RedisInv' /\ MemInv'
  BY <1>2, <1>3, <1>4 DEF RedisInv, MemInv
<1>12. ASSUME NEW j \in Key PROVE Linked(j)'
  <2>1. CASE j = k
    <3>1. tally'[k] = Added(k, d, ttl)
      BY <1>9 DEF CountInv, CounterTypeOK
    <3>2. CASE k \in unbounded
      BY <1>1, <1>3, <1>4, <1>6, <1>8, <2>1, <3>1, <3>2 DEF Linked, DueCount
    <3>3. CASE k \notin unbounded
      BY <1>3, <1>4, <1>5, <1>7, <2>1, <3>1, <3>3 DEF Linked, Never
    <3> QED BY <3>2, <3>3
  <2>2. CASE j # k
    BY <1>4, <1>5, <1>9, <2>2 DEF Linked, DueCount, CountInv, CounterTypeOK
  <2> QED BY <2>1, <2>2
<1> QED BY <1>9, <1>10, <1>11, <1>12 DEF CountInv

LEMMA RedisDecrementStep ==
    ASSUME CountInv, backend = "redis", NEW k \in Key, NEW d \in Delta,
           RedisDecrement(k, d), UNCHANGED <<now, backend>>
    PROVE  CountInv'
<1> DEFINE found == k \in DOMAIN counters
           v == IF found THEN Atleast0(counters[k].value - d) ELSE 0
           e == IF counters[k].expiresAt > now THEN counters[k].expiresAt ELSE Never
<1>1. d \in Nat /\ now \in Nat
  BY CounterAssumption DEF CountInv, CounterTypeOK
<1>2. /\ DOMAIN counters \subseteq Key /\ counters \in [DOMAIN counters -> Counter]
      /\ \A x \in DOMAIN counters : counters[x].expiresAt = Never \/ now <= counters[x].expiresAt
  BY DEF CountInv, CounterTypeOK, RedisInv
<1>3. v \in Nat /\ (found => e \in Nat \cup {Never})
  BY <1>1, <1>2 DEF Counter, Atleast0
<1>4. /\ DOMAIN counters' = DOMAIN counters
      /\ found => counters'[k] = [value |-> v, expiresAt |-> e]
      /\ \A x \in DOMAIN counters \ {k} : counters'[x] = counters[x]
      /\ counters' = [x \in DOMAIN counters' |-> counters'[x]]
      /\ CountSubtract(k, d, v)
      /\ unbounded' = IF found /\ e = Never THEN unbounded \cup {k} ELSE unbounded
      /\ UNCHANGED counterPruneAt
  BY <1>2 DEF RedisDecrement, Put
<1>5. tally[k] \in [sum : Nat, ends : Nat] /\ Linked(k) /\ LastTick = 1 /\ LastTick' = 1
  BY DEF CountInv, CounterTypeOK, LastTick
<1>6. Subtracted(k, d) = [sum |-> Atleast0(tally[k].sum - d), ends |-> tally[k].ends]
  BY <1>5 DEF Subtracted
<1>7. Atleast0(tally[k].sum - d) \in Nat /\ Atleast0(DueCount(k) - d) \in Nat
  BY <1>1, <1>5 DEF Atleast0, DueCount
<1>8. k \notin unbounded => v = Atleast0(DueCount(k) - d)
  BY <1>1, <1>2, <1>5 DEF Linked, DueCount, Atleast0, Counter, Never
<1>9. /\ tally' = [tally EXCEPT ![k] = Subtracted(k, d)]
      /\ reply' \in [got : Nat, due : Nat] /\ reply'.got = reply'.due
  BY <1>3, <1>4, <1>7, <1>8 DEF CountSubtract, NoReply
<1>10. CounterTypeOK'
  <2>1. counters' \in [DOMAIN counters' -> Counter]
    <3> HIDE DEF v, e
    <3>1. ASSUME NEW x \in DOMAIN counters' PROVE counters'[x] \in Counter
      BY <1>2, <1>3, <1>4 DEF Counter
    <3> QED BY <1>4, <3>1
  <2> QED BY <1>1, <1>2, <1>4, <1>6, <1>7, <1>9, <2>1 DEF CountInv, CounterTypeOK
<1>11. RedisInv' /\ MemInv'
  BY <1>1, <1>2, <1>4 DEF RedisInv, MemInv, Counter
<1>12. ASSUME NEW j \in Key PROVE Linked(j)'
  <2>1. CASE j = k
    <3>1. tally'[k].sum = Atleast0(tally[k].sum - d) /\ tally'[k].ends = tally[k].ends
      BY <1>6, <1>9 DEF CountInv, CounterTypeOK
    <3>2. CASE ~found
      BY <1>4, <1>5, <2>1, <3>1, <3>2 DEF Linked
    <3>3. CASE found
      <4>1. counters[k] \in Counter
        BY <1>2, <3>3
      <4>2. v >= IF now < tally[k].ends THEN Atleast0(tally[k].sum - d) ELSE 0
        BY <1>1, <1>2, <1>5, <3>3, <4>1 DEF Linked, DueCount, Atleast0, Counter, Never
      <4>3. CASE k \in unbounded'
        BY <1>4, <2>1, <3>1, <3>3, <4>2, <4>3 DEF Linked, DueCount
      <4>4. CASE k \notin unbounded'
        BY <1>1, <1>4, <1>5, <2>1, <3>1, <3>3, <4>1, <4>4 DEF Linked, Counter, Never, Atleast0
      <4> QED BY <4>3, <4>4
    <3> QED BY <3>2, <3>3
  <2>2. CASE j # k
    BY <1>4, <1>5, <1>9, <2>2 DEF Linked, DueCount, CountInv, CounterTypeOK
  <2> QED BY <2>1, <2>2
<1> QED BY <1>9, <1>10, <1>11, <1>12 DEF CountInv

LEMMA CounterTickStep ==
    ASSUME CountInv, CounterTick
    PROVE  CountInv'
<1>1. /\ now \in Nat /\ now' = now + 1 /\ reply' = NoReply
      /\ UNCHANGED <<backend, counterPruneAt>>
      /\ backend \in Backend
      /\ LastTick' = LastTick
  BY DEF CountInv, CounterTypeOK, CounterTick, LastTick
<1>2. CASE backend = "memory"
  <2>1. unbounded = {} /\ MemCounters(counters) /\ InTime(counterPruneAt, counters)
    BY <1>2 DEF CountInv, MemInv
  <2>2. counters' = counters /\ unbounded' = {} /\ tally' = tally
    BY <1>2, <2>1 DEF CounterTick, CountInv, CounterTypeOK
  <2>3. ASSUME NEW j \in Key PROVE Linked(j)'
    BY <1>1, <2>1, <2>2 DEF Linked, CountInv, CounterTypeOK
  <2> QED BY <1>1, <1>2, <2>1, <2>2, <2>3 DEF CountInv, CounterTypeOK, MemInv, RedisInv, NoReply
<1>3. CASE backend = "redis"
  <2>1. /\ counters' = Restrict(counters, RedisKeeps(counters, now'))
        /\ unbounded' = unbounded \cap DOMAIN counters'
        /\ tally' = [k \in Key |-> IF k \in unbounded \ unbounded' THEN NoTally ELSE tally[k]]
    BY <1>3 DEF CounterTick
  <2>2. /\ DOMAIN counters' = RedisKeeps(counters, now')
        /\ DOMAIN counters' \subseteq DOMAIN counters
        /\ \A k \in DOMAIN counters' : counters'[k] = counters[k]
    BY <2>1 DEF Restrict, RedisKeeps
  <2>3. CounterTypeOK'
    BY <1>1, <2>1, <2>2 DEF CountInv, CounterTypeOK, Restrict, NoTally, NoReply
  <2>4. RedisInv' /\ MemInv'
    BY <1>1, <1>3, <2>2 DEF RedisInv, RedisKeeps, MemInv
  <2>5. ASSUME NEW j \in Key PROVE Linked(j)'
    <3>1. tally[j] \in [sum : Nat, ends : Nat] /\ Linked(j)
      BY DEF CountInv, CounterTypeOK
    <3>2. CASE j \in DOMAIN counters'
      <4>1. tally'[j] = tally[j] /\ counters'[j] = counters[j] /\ j \in DOMAIN counters
        BY <2>1, <2>2, <3>2
      <4>2. counters[j].value \in Nat
        BY <4>1 DEF CountInv, CounterTypeOK, Counter
      <4> QED BY <1>1, <2>1, <3>1, <3>2, <4>1, <4>2 DEF Linked, DueCount
    <3>3. CASE j \notin DOMAIN counters' /\ j \in DOMAIN counters
      <4>1. counters[j] \in Counter /\ counters[j].expiresAt # Never /\ ~(now' <= counters[j].expiresAt)
        BY <2>2, <3>3 DEF RedisKeeps, CountInv, CounterTypeOK
      <4>2. CASE j \in unbounded
        BY <1>1, <2>1, <3>3, <4>2 DEF Linked, NoTally
      <4>3. CASE j \notin unbounded
        BY <1>1, <1>3, <2>1, <3>1, <3>3, <4>1, <4>3 DEF Linked, LastTick, Counter, Never
      <4> QED BY <4>2, <4>3
    <3>4. CASE j \notin DOMAIN counters
      BY <1>1, <2>1, <2>2, <3>1, <3>4 DEF Linked
    <3> QED BY <3>2, <3>3, <3>4
  <2> QED BY <1>1, <2>3, <2>4, <2>5 DEF CountInv, NoReply
<1> QED BY <1>1, <1>2, <1>3 DEF Backend

-----------------------------------------------------------------------------
LEMMA CallStep ==
    ASSUME CountInv, NEW k \in Key, CounterCall(k)
    PROVE  CountInv'
<1>1. UNCHANGED <<now, backend>>
  BY DEF CounterCall
<1>2. CASE backend = "memory" /\ MemReset(k)
  BY <1>1, <1>2, MemResetStep
<1>3. CASE backend = "redis" /\ RedisReset(k)
  <2>1. counterPruneAt' \in Nat \cup {Never}
    BY <1>3 DEF RedisReset, CountInv, CounterTypeOK
  <2> QED BY <1>1, <1>3, <2>1, ResetStep DEF RedisReset
<1> QED BY <1>1, <1>2, <1>3, MemIncrementStep, MemDecrementStep, RedisIncrementStep,
           RedisDecrementStep DEF CounterCall

LEMMA SweepStep ==
    ASSUME CountInv, NEW K \in SUBSET Key, CounterSweep(K)
    PROVE  CountInv'
<1>1. UNCHANGED <<now, backend>>
  BY DEF CounterSweep
<1>2. CASE backend = "redis" /\ RedisResetBatch(K)
  <2>1. counterPruneAt' \in Nat \cup {Never}
    BY <1>2 DEF RedisResetBatch, CountInv, CounterTypeOK
  <2> QED BY <1>1, <1>2, <2>1, ResetStep DEF RedisResetBatch
<1> QED BY <1>1, <1>2, MemResetPrefixStep, MemCleanupExpiredStep DEF CounterSweep

LEMMA CountStep == CountInv /\ [CounterNext]_<<now, backend, counterVars>> => CountInv'
<1> SUFFICES ASSUME CountInv, [CounterNext]_<<now, backend, counterVars>> PROVE CountInv'
  OBVIOUS
<1>1. CASE CounterNext
  BY <1>1, CallStep, SweepStep, CounterTickStep DEF CounterNext
<1>2. CASE UNCHANGED <<now, backend, counterVars>>
  BY <1>2 DEF counterVars, CountInv, CounterTypeOK, MemInv, RedisInv, Linked, DueCount, LastTick
<1> QED BY <1>1, <1>2

\* The counters and the memory backend's nextPruneAt have the shape the code
\* gives them.
THEOREM CounterTypeCorrect == CounterSpec => []CounterTypeOK
<1>1. CountInv => CounterTypeOK
  BY DEF CountInv
<1> QED BY <1>1, CountInit, CountStep, PTL DEF CounterSpec

\* Both backends count one window: no call returns, and no counter stands at,
\* anything but what was added less what was subtracted since the window began
\* with its first increment, whatever prunings, resets, expiries and other
\* keys do in between; only a Redis counter decremented in its last
\* millisecond counts on.
THEOREM CountsOneWindowCorrect == CounterSpec => []CountsOneWindow
<1>1. CountInv => CountsOneWindow
  BY CountInvSuffices
<1> QED BY <1>1, CountInit, CountStep, PTL DEF CounterSpec

\* The memory backend looks for expired counters no later than the first of
\* them expires.
THEOREM CountersPrunedInTimeCorrect == CounterSpec => []CountersPrunedInTime
<1>1. CountInv => CountersPrunedInTime
  BY CountInvSuffices
<1> QED BY <1>1, CountInit, CountStep, PTL DEF CounterSpec

-----------------------------------------------------------------------------
(* Arithmetic.  Products with Rate are the only ones.                      *)

LEMMA RateFacts ==
    /\ Rate \in Nat \ {0} /\ Capacity \in Nat \ {0}
    /\ Window \in Nat \ {0} /\ Limit \in Nat \ {0}
    /\ MaxGrants \in Nat /\ Cost \subseteq Nat \ {0}
BY LimitAssumption

\* What a bucket gains or leaks in t ticks.
Gain(t) == Rate * t

LEMMA GainInt == \A x \in Int : Gain(x) \in Int
BY RateFacts DEF Gain

LEMMA GainSum ==
    \A x, y \in Int : /\ Gain(x + y) = Gain(x) + Gain(y)
                      /\ Gain(x - y) = Gain(x) - Gain(y)
BY RateFacts DEF Gain

LEMMA GainOrder ==
    /\ Gain(0) = 0
    /\ \A x \in Nat : Gain(x) \in Nat
    /\ \A x, y \in Int : x <= y => Gain(x) <= Gain(y)
BY RateFacts DEF Gain

LEMMA DivProperty ==
    \A a \in Nat, b \in Nat \ {0} :
        (a \div b) \in Nat /\ b * (a \div b) <= a /\ a < b * (a \div b) + b
OBVIOUS

\* Rounded up, a quotient is enough.
LEMMA CeilEnough ==
    ASSUME NEW a \in Nat
    PROVE  Ceil(a, Rate) \in Nat /\ a <= Gain(Ceil(a, Rate))
<1> DEFINE q == (a + Rate - 1) \div Rate
<1>1. a + Rate - 1 \in Nat
  BY RateFacts
<1>2. q \in Nat /\ Rate * q <= a + Rate - 1 /\ a + Rate - 1 < Rate * q + Rate
  BY <1>1, RateFacts, DivProperty
<1>3. Rate * q \in Nat
  BY <1>2, RateFacts
<1> QED BY <1>2, <1>3, RateFacts DEF Ceil, Gain

-----------------------------------------------------------------------------
(* The load of a bucket, of either kind: what it still has to gain or leak *)
(* until it is as if it had never been used.                               *)

Used(k, b) == IF kind[k] = "tokens" THEN Capacity - b.tokens ELSE b.level

Decayed(u, d) == Atleast0(u - Gain(Atleast0(d)))

LoadAt(m, k, t) ==
    IF k \in DOMAIN m THEN Decayed(Used(k, m[k]), t - m[k].updatedAt) ELSE 0

LEMMA DecayedFacts ==
    ASSUME NEW u \in Nat, NEW d \in Int
    PROVE  /\ Decayed(u, d) \in Nat /\ Decayed(u, d) <= u
           /\ d <= 0 => Decayed(u, d) = u
           /\ d >= 0 => /\ Decayed(u, d) = Atleast0(u - Gain(d))
                        /\ Gain(d) \in Nat
                        /\ u <= Decayed(u, d) + Gain(d)
<1>1. Atleast0(d) \in Nat
  BY DEF Atleast0
<1>2. Gain(Atleast0(d)) \in Nat
  BY <1>1, GainOrder
<1>3. Decayed(u, d) \in Nat /\ Decayed(u, d) <= u
  BY <1>2 DEF Decayed, Atleast0
<1>4. ASSUME d <= 0 PROVE Decayed(u, d) = u
  <2>1. Atleast0(d) = 0
    BY <1>4 DEF Atleast0
  <2>2. Gain(0) = 0
    BY GainOrder
  <2> QED BY <2>1, <2>2 DEF Decayed, Atleast0
<1>5. ASSUME d >= 0
      PROVE  /\ Decayed(u, d) = Atleast0(u - Gain(d))
             /\ Gain(d) \in Nat
             /\ u <= Decayed(u, d) + Gain(d)
  <2>1. Atleast0(d) = d
    BY <1>5 DEF Atleast0
  <2>2. Gain(d) \in Nat
    BY <1>2, <2>1
  <2>3. Decayed(u, d) = Atleast0(u - Gain(d))
    BY <2>1 DEF Decayed
  <2>4. u <= Atleast0(u - Gain(d)) + Gain(d)
    BY <2>2 DEF Atleast0
  <2> QED BY <2>2, <2>3, <2>4
<1> QED BY <1>3, <1>4, <1>5

\* Time only takes away from a load.
LEMMA DecayedLater ==
    ASSUME NEW u \in Nat, NEW d \in Int, NEW e \in Int, d <= e
    PROVE  Decayed(u, e) <= Decayed(u, d)
<1>1. Atleast0(d) \in Nat /\ Atleast0(e) \in Nat /\ Atleast0(d) <= Atleast0(e)
  BY DEF Atleast0
<1>2. Gain(Atleast0(d)) <= Gain(Atleast0(e))
  BY <1>1, GainOrder
<1>3. Gain(Atleast0(d)) \in Int /\ Gain(Atleast0(e)) \in Int
  BY <1>1, GainInt
<1> QED BY <1>2, <1>3 DEF Decayed, Atleast0

\* A load brought up to date at t is at no time larger than before.
LEMMA DecayedTwice ==
    ASSUME NEW u \in Nat, NEW v \in Int, NEW t \in Int, NEW p \in Int
    PROVE  /\ Decayed(Decayed(u, t - v), p - t) <= Decayed(u, p - v)
           /\ Decayed(Decayed(u, t - v), p - t) \in Nat
<1> DEFINE w == Decayed(u, t - v)
<1>1. w \in Nat /\ w <= u /\ Decayed(w, p - t) \in Nat /\ Decayed(w, p - t) <= w
  <2>1. t - v \in Int /\ p - t \in Int
    OBVIOUS
  <2>2. w \in Nat /\ w <= u
    BY <2>1, DecayedFacts
  <2> QED BY <2>1, <2>2, DecayedFacts
<1>2. CASE t < v
  <2>1. w = u
    BY <1>2, DecayedFacts
  <2>2. Decayed(u, p - t) <= Decayed(u, p - v)
    BY <1>2, DecayedLater
  <2> QED BY <1>1, <2>1, <2>2
<1>3. CASE t >= v /\ p <= t
  <2>1. w <= Decayed(u, p - v)
    BY <1>3, DecayedLater
  <2>2. Decayed(u, p - v) \in Nat
    BY DecayedFacts
  <2> QED BY <1>1, <2>1, <2>2
<1>4. CASE t >= v /\ p > t
  <2>1. w = Atleast0(u - Gain(t - v)) /\ Gain(t - v) \in Nat
    BY <1>4, DecayedFacts
  <2>2. Decayed(w, p - t) = Atleast0(w - Gain(p - t)) /\ Gain(p - t) \in Nat
    BY <1>1, <1>4, DecayedFacts
  <2>3. Decayed(u, p - v) = Atleast0(u - Gain(p - v)) /\ Gain(p - v) \in Nat
    BY <1>4, DecayedFacts
  <2>4. Gain(p - v) = Gain(p - t) + Gain(t - v)
    <3>1. p - v = (p - t) + (t - v)
      OBVIOUS
    <3>2. Gain((p - t) + (t - v)) = Gain(p - t) + Gain(t - v)
      BY GainSum
    <3> QED BY <3>1, <3>2
  <2> QED BY <1>1, <2>1, <2>2, <2>3, <2>4 DEF Atleast0
<1> QED BY <1>2, <1>3, <1>4

-----------------------------------------------------------------------------
(* The meter of a bucket in Redis.  A bucket with load u at time v, against *)
(* a meter at `clock`: the two agree, but for what late calls set back in   *)
(* the one direction, and what rollbacks left out in the other.             *)

Agree(units, clock, slip, lost, u, v) ==
    /\ v <= clock /\ clock <= slip + v
    /\ units + Gain(clock) <= u + Gain(slip) + Gain(v)
    /\ u + Gain(v) <= units + Gain(lost) + Gain(clock)

\* A call made at t brings both up to date, in whatever order it comes.
LEMMA AgreeUpdated ==
    ASSUME NEW units \in Nat, NEW clock \in Nat, NEW slip \in Nat, NEW lost \in Nat,
           NEW u \in Nat, NEW v \in Nat, NEW t \in Nat,
           Agree(units, clock, slip, lost, u, v),
           NEW c \in Nat, c = Most(clock, t),
           NEW n \in Nat, n = Atleast0(units - Gain(c - clock)),
           NEW s \in Nat, s = slip + Atleast0(v - t)
    PROVE  Agree(n, c, s, lost, Decayed(u, t - v), t)
<1> DEFINE w == Decayed(u, t - v)
<1>1. t <= c /\ clock <= c /\ c \in {clock, t} /\ v <= clock /\ clock <= slip + v
  BY DEF Most, Agree
<1>2. s >= slip /\ s >= slip + v - t /\ s \in {slip, slip + v - t}
  BY DEF Atleast0
<1>3. c <= s + t
  BY <1>1, <1>2
<1>4. Gain(c - clock) = Gain(c) - Gain(clock)
  BY GainSum
<1>5. Gain(s + t) = Gain(s) + Gain(t) /\ Gain(slip + v) = Gain(slip) + Gain(v)
  BY GainSum
<1>6. /\ Gain(c) \in Int /\ Gain(clock) \in Int /\ Gain(s) \in Int /\ Gain(slip) \in Int
      /\ Gain(t) \in Int /\ Gain(v) \in Int /\ Gain(lost) \in Int
  BY GainInt
<1>7. /\ Gain(t) <= Gain(c) /\ Gain(c) <= Gain(s + t)
      /\ Gain(slip) <= Gain(s) /\ Gain(slip + v) <= Gain(s + t)
  <2>1. s + t \in Nat /\ slip + v \in Nat /\ slip + v <= s + t
    BY <1>2
  <2>2. Gain(t) <= Gain(c)
    BY <1>1, GainOrder
  <2>3. Gain(c) <= Gain(s + t)
    BY <1>3, <2>1, GainOrder
  <2>4. Gain(slip) <= Gain(s)
    BY <1>2, GainOrder
  <2>5. Gain(slip + v) <= Gain(s + t)
    BY <2>1, GainOrder
  <2> QED BY <2>2, <2>3, <2>4, <2>5
<1>8. 0 <= Gain(lost)
  <2>1. Gain(lost) \in Nat
    BY GainOrder
  <2> QED BY <2>1
<1>9. w \in Nat /\ w <= u
  <2>1. t - v \in Int
    OBVIOUS
  <2> QED BY <2>1, DecayedFacts
<1>10. /\ units + Gain(clock) <= u + Gain(slip) + Gain(v)
       /\ u + Gain(v) <= units + Gain(lost) + Gain(clock)
  BY DEF Agree
<1>11. n \in {0, units - Gain(c) + Gain(clock)} /\ n >= units - Gain(c) + Gain(clock)
  BY <1>4, <1>6 DEF Atleast0
<1>12. ASSUME t <= v PROVE w = u /\ Gain(t) <= Gain(v)
  BY <1>12, DecayedFacts, GainOrder
<1>13. ASSUME t > v
       PROVE  w \in {0, u - Gain(t) + Gain(v)} /\ w >= u - Gain(t) + Gain(v) /\ s = slip
  <2>1. w = Atleast0(u - Gain(t - v)) /\ Gain(t - v) = Gain(t) - Gain(v)
    BY <1>13, DecayedFacts, GainSum
  <2> QED BY <1>6, <1>13, <2>1 DEF Atleast0
<1> HIDE DEF w
<1>14. n + Gain(c) <= w + Gain(s) + Gain(t) /\ w + Gain(t) <= n + Gain(lost) + Gain(c)
  BY <1>5, <1>6, <1>7, <1>8, <1>9, <1>10, <1>11, <1>12, <1>13
<1> QED BY <1>1, <1>3, <1>14 DEF Agree, w

\* A rollback at t sets the time of the update, but lets no time pass.
LEMMA AgreeRolledBack ==
    ASSUME NEW units \in Nat, NEW clock \in Nat, NEW slip \in Nat, NEW lost \in Nat,
           NEW u \in Nat, NEW v \in Nat, NEW t \in Nat, NEW cost \in Nat,
           Agree(units, clock, slip, lost, u, v),
           NEW c \in Nat, c = Most(clock, t),
           NEW n \in Nat, n = Atleast0(units - Gain(c - clock)),
           NEW s \in Nat, s = slip + Atleast0(v - t),
           NEW l \in Nat, l = lost + Atleast0(t - v)
    PROVE  Agree(Atleast0(n - cost), c, s, l, Atleast0(u - cost), t)
<1> DEFINE w == Atleast0(u - cost)
            o == Atleast0(n - cost)
<1>1. t <= c /\ clock <= c /\ c \in {clock, t} /\ v <= clock /\ clock <= slip + v
  BY DEF Most, Agree
<1>2. s >= slip /\ s >= slip + v - t /\ l >= lost /\ l >= lost + t - v
  BY DEF Atleast0
<1>3. c <= s + t
  BY <1>1, <1>2
<1>4. Gain(c - clock) = Gain(c) - Gain(clock)
  BY GainSum
<1>5. /\ Gain(s + t) = Gain(s) + Gain(t) /\ Gain(slip + v) = Gain(slip) + Gain(v)
      /\ Gain(l + v) = Gain(l) + Gain(v) /\ Gain(lost + t) = Gain(lost) + Gain(t)
  <2>1. Gain(s + t) = Gain(s) + Gain(t)
    BY GainSum
  <2>2. Gain(slip + v) = Gain(slip) + Gain(v)
    BY GainSum
  <2>3. Gain(l + v) = Gain(l) + Gain(v)
    BY GainSum
  <2>4. Gain(lost + t) = Gain(lost) + Gain(t)
    BY GainSum
  <2> QED BY <2>1, <2>2, <2>3, <2>4
<1>6. /\ Gain(c) \in Int /\ Gain(clock) \in Int /\ Gain(s) \in Int /\ Gain(slip) \in Int
      /\ Gain(t) \in Int /\ Gain(v) \in Int /\ Gain(lost) \in Int /\ Gain(l) \in Int
  BY GainInt
<1>7. /\ Gain(t) <= Gain(c) /\ Gain(c) <= Gain(s + t)
      /\ Gain(slip + v) <= Gain(s + t) /\ Gain(lost + t) <= Gain(l + v)
      /\ 0 <= Gain(l)
  <2>1. /\ s + t \in Nat /\ slip + v \in Nat /\ slip + v <= s + t
        /\ l + v \in Nat /\ lost + t \in Nat /\ lost + t <= l + v
    BY <1>2
  <2>2. Gain(t) <= Gain(c)
    BY <1>1, GainOrder
  <2>3. Gain(c) <= Gain(s + t)
    BY <1>3, <2>1, GainOrder
  <2>4. Gain(slip + v) <= Gain(s + t)
    BY <2>1, GainOrder
  <2>5. Gain(lost + t) <= Gain(l + v)
    BY <2>1, GainOrder
  <2>6. Gain(l) \in Nat
    BY GainOrder
  <2> QED BY <2>2, <2>3, <2>4, <2>5, <2>6
<1>8. /\ units + Gain(clock) <= u + Gain(slip) + Gain(v)
      /\ u + Gain(v) <= units + Gain(lost) + Gain(clock)
  BY DEF Agree
<1>9. n \in {0, units - Gain(c) + Gain(clock)} /\ n >= units - Gain(c) + Gain(clock)
  BY <1>4, <1>6 DEF Atleast0
<1>10. w \in Nat /\ w \in {0, u - cost} /\ w >= u - cost
  BY DEF Atleast0
<1>11. o \in Nat /\ o \in {0, n - cost} /\ o >= n - cost
  BY DEF Atleast0
<1> HIDE DEF w, o
<1>12. o + Gain(c) <= w + Gain(s) + Gain(t)
  BY <1>5, <1>6, <1>7, <1>8, <1>9, <1>10, <1>11
<1>13. w + Gain(t) <= o + Gain(l) + Gain(c)
  BY <1>5, <1>6, <1>7, <1>8, <1>9, <1>10, <1>11
<1> QED BY <1>1, <1>3, <1>12, <1>13 DEF Agree, w, o

\* A call made at t that finds no bucket takes it to have been full at t.
LEMMA AgreeAnew ==
    ASSUME NEW units \in Nat, NEW clock \in Nat, NEW slip \in Nat, NEW lost \in Nat,
           NEW t \in Nat, NEW time \in Nat, t <= time, clock <= time,
           units + Gain(clock) <= Gain(slip) + Gain(time),
           NEW c \in Nat, c = Most(clock, t),
           NEW n \in Nat, n = Atleast0(units - Gain(c - clock)),
           NEW s \in Nat, s = slip + (time - t)
    PROVE  Agree(n, c, s, lost, 0, t)
<1>1. t <= c /\ c <= time /\ c \in {clock, t}
  BY DEF Most
<1>2. Gain(c - clock) = Gain(c) - Gain(clock)
  BY GainSum
<1>3. Gain(s + t) = Gain(s) + Gain(t) /\ Gain(slip + time) = Gain(slip) + Gain(time)
  BY GainSum
<1>4. s + t = slip + time /\ c <= s + t
  BY <1>1
<1>5. Gain(t) <= Gain(c) /\ Gain(c) <= Gain(s + t) /\ 0 <= Gain(lost)
  <2>1. Gain(t) <= Gain(c)
    BY <1>1, GainOrder
  <2>2. s + t \in Nat
    OBVIOUS
  <2>3. Gain(c) <= Gain(s + t)
    BY <1>4, <2>2, GainOrder
  <2>4. Gain(lost) \in Nat
    BY GainOrder
  <2> QED BY <2>1, <2>3, <2>4
<1>6. /\ Gain(c) \in Int /\ Gain(clock) \in Int /\ Gain(s) \in Int /\ Gain(slip) \in Int
      /\ Gain(t) \in Int /\ Gain(time) \in Int /\ Gain(lost) \in Int
  BY GainInt
<1>7. n \in {0, units - Gain(c) + Gain(clock)}
  BY <1>2, <1>6 DEF Atleast0
<1>8. units + Gain(clock) <= Gain(slip) + Gain(time)
  OBVIOUS
<1>9. n + Gain(c) <= Gain(s) + Gain(t) /\ Gain(t) <= n + Gain(lost) + Gain(c)
  BY <1>3, <1>4, <1>5, <1>6, <1>7, <1>8
<1> QED BY <1>1, <1>4, <1>6, <1>9 DEF Agree

-----------------------------------------------------------------------------
(* The inductive invariant.  It is stated for a map m of entries, since a   *)
(* call of the memory store sweeps before it does anything else.            *)

MemMeter(m, k) ==
    /\ meter[k].clock = now /\ meter[k].slip = 0
    /\ meter[k].units <= LoadAt(m, k, now)
    /\ LoadAt(m, k, now) <= meter[k].units + Gain(meter[k].lost)

\* A key expires no earlier than its bucket is full again, or empty.
RedisMeter(m, k) ==
    /\ k \in DOMAIN m =>
           /\ Agree(meter[k].units, meter[k].clock, meter[k].slip, meter[k].lost,
                    Used(k, m[k]), m[k].updatedAt)
           /\ Capacity + Gain(m[k].updatedAt) <= Gain(m[k].expiresAt)
    /\ k \notin DOMAIN m =>
           /\ meter[k].units + Gain(meter[k].clock) <= Gain(meter[k].slip) + Gain(now)
           /\ meter[k].units <= Capacity + Gain(meter[k].slip)

MeterInv(m, k) ==
    k \in Bucket =>
        /\ backend = "memory" => MemMeter(m, k)
        /\ backend = "redis" => RedisMeter(m, k)

\* The units of any window at least as short as windowMs less the lateness.
Passed(k, t) ==
    {e \in grants[k].units : e.at <= t /\ e.at > t - (Window - grants[k].late)}

\* No unit goes before its window is over.
WindowInv(m, k) ==
    kind[k] = "window" =>
        /\ IsFiniteSet(grants[k].units)
        /\ \A e \in grants[k].units :
               e.at <= now /\ (e.at > now - Window => e \in Entries(m, k))
        /\ Cardinality(Entries(m, k)) <= Limit
        /\ backend = "redis" =>
               \A e \in Entries(m, k) : e.at + Window <= m[k].expiresAt
        /\ \A t \in 0..now : Cardinality(Passed(k, t)) <= Limit

\* What was denied fits at the time promised, if nothing else comes.
RetryInv(m, k) ==
    promise[k] # NoPromise =>
        \/ k \in Bucket /\ LoadAt(m, k, promise[k].at) + promise[k].cost <= Capacity
        \/ /\ kind[k] = "window" /\ promise[k].cost = 1
           /\ Cardinality(InWindow(Entries(m, k), promise[k].at)) < Limit

KeyInv(m, k) ==
    /\ k \in DOMAIN m => EntryOK(k, m[k])
    /\ MeterInv(m, k) /\ WindowInv(m, k) /\ RetryInv(m, k)

StoreInv(s) ==
    /\ DOMAIN s.map \subseteq Key
    /\ s.pruneAt \in Nat \cup {Never}
    /\ s = [map |-> s.map, pruneAt |-> s.pruneAt]
    /\ backend = "memory" => \A k \in DOMAIN s.map :
                                 s.pruneAt # Never /\ s.pruneAt <= s.map[k].expiresAt
    /\ \A k \in Key : KeyInv(s.map, k)

CallsInv ==
    /\ DOMAIN calls = Caller
    /\ \A c \in Caller : calls[c] = Idle \/
           /\ calls[c].key \in Key /\ calls[c].cost \in Cost /\ calls[c].at \in 0..now
           /\ calls[c].do = "checkWindow" => kind[calls[c].key] = "window"
           /\ calls[c].do \in {"consumeTokens", "rollbackTokens"} =>
                  kind[calls[c].key] = "tokens"
           /\ calls[c].do \in {"consumeLeaks", "rollbackLeaks"} =>
                  kind[calls[c].key] = "leaks"

HistoryInv ==
    /\ grants \in [Key -> [units : SUBSET Unit, late : Nat]]
    /\ meter \in [Key -> [units : Nat, clock : 0..now, slip : Nat, lost : Nat]]
    /\ issued \in [Key -> SUBSET Cost]
    /\ promise \in [Key -> [cost : Cost \cup {0}, at : Nat]]

IInv ==
    /\ CountInv /\ kind \in [Key -> Kind]
    /\ CallsInv /\ HistoryInv /\ StoreInv(store)

-----------------------------------------------------------------------------
(* What the operators of the stores do to a map.                           *)

\* The type of the state, as far as most steps need it.
LEMMA Shapes ==
    ASSUME IInv
    PROVE  /\ now \in Nat /\ backend \in Backend
           /\ kind \in [Key -> Kind] /\ HistoryInv /\ StoreInv(store)
           /\ \A k \in Key : KeyInv(store.map, k)
BY DEF IInv, CountInv, CounterTypeOK, StoreInv

LEMMA BucketIsLimited == Bucket \subseteq Limited /\ Limited \subseteq Key
BY DEF Bucket, Limited, Keys

\* The load is what the stores compute from the entry of either kind.
LEMMA LoadFacts ==
    ASSUME NEW m, NEW k \in Bucket, NEW t \in Int, now \in Nat,
           k \in DOMAIN m => EntryOK(k, m[k])
    PROVE  /\ LoadAt(m, k, t) \in Nat /\ LoadAt(m, k, t) <= Capacity
           /\ kind[k] = "tokens" => Tokens(m, k, t) = Capacity - LoadAt(m, k, t)
           /\ kind[k] = "leaks" => Level(m, k, t) = LoadAt(m, k, t)
           /\ k \in DOMAIN m => /\ Used(k, m[k]) \in 0..Capacity
                                /\ m[k].updatedAt \in 0..now
                                /\ LoadAt(m, k, t) =
                                       Decayed(Used(k, m[k]), t - m[k].updatedAt)
           /\ k \notin DOMAIN m => LoadAt(m, k, t) = 0
<1>1. kind[k] \in {"tokens", "leaks"}
  BY DEF Bucket, Keys
<1>2. CASE k \notin DOMAIN m
  BY <1>2, RateFacts DEF LoadAt, Tokens, Level
<1>3. CASE k \in DOMAIN m
  <2> DEFINE b == m[k]
             d == t - b.updatedAt
             g == Gain(Atleast0(d))
  <2>1. b.updatedAt \in 0..now /\ Used(k, b) \in 0..Capacity
    BY <1>1, <1>3, RateFacts DEF EntryOK, Used
  <2>2. Atleast0(d) \in Nat /\ Atleast0(d) * Rate = g
    BY <2>1, RateFacts DEF Atleast0, Gain
  <2>3. g \in Nat
    BY <2>2, GainOrder
  <2>4. LoadAt(m, k, t) = Atleast0(Used(k, b) - g)
    BY <1>3 DEF LoadAt, Decayed
  <2>5. kind[k] = "tokens" => Tokens(m, k, t) = Least(Capacity, b.tokens + g)
    BY <1>3, <2>2 DEF Tokens, Refilled
  <2>6. kind[k] = "leaks" => Level(m, k, t) = Atleast0(b.level - g)
    BY <1>3, <2>2 DEF Level, Leaked
  <2>7. kind[k] = "tokens" => b.tokens \in 0..Capacity /\ Used(k, b) = Capacity - b.tokens
    BY <1>3 DEF EntryOK, Used
  <2>8. kind[k] = "leaks" => b.level \in 0..Capacity /\ Used(k, b) = b.level
    BY <1>3 DEF EntryOK, Used
  <2>9. LoadAt(m, k, t) = Decayed(Used(k, b), d)
    BY <1>3 DEF LoadAt
  <2> HIDE DEF g, b
  <2>10. LoadAt(m, k, t) \in Nat /\ LoadAt(m, k, t) <= Capacity
    BY <2>1, <2>3, <2>4, RateFacts DEF Atleast0
  <2>11. ASSUME kind[k] = "tokens" PROVE Tokens(m, k, t) = Capacity - LoadAt(m, k, t)
    BY <2>3, <2>4, <2>5, <2>7, <2>11, RateFacts DEF Atleast0, Least
  <2>12. ASSUME kind[k] = "leaks" PROVE Level(m, k, t) = LoadAt(m, k, t)
    BY <2>4, <2>6, <2>8, <2>12
  <2> QED BY <1>3, <2>1, <2>9, <2>10, <2>11, <2>12 DEF b
<1> QED BY <1>2, <1>3

\* Time only takes away from it.
LEMMA LoadLater ==
    ASSUME NEW m, NEW k \in Bucket, NEW t \in Int, NEW p \in Int, t <= p, now \in Nat,
           k \in DOMAIN m => EntryOK(k, m[k])
    PROVE  LoadAt(m, k, p) <= LoadAt(m, k, t)
<1>1. CASE k \notin DOMAIN m
  BY <1>1 DEF LoadAt
<1>2. CASE k \in DOMAIN m
  <2>1. Used(k, m[k]) \in Nat /\ m[k].updatedAt \in Nat
    BY <1>2, LoadFacts
  <2>2. t - m[k].updatedAt \in Int /\ p - m[k].updatedAt \in Int
        /\ t - m[k].updatedAt <= p - m[k].updatedAt
    BY <2>1
  <2> QED BY <1>2, <2>1, <2>2, DecayedLater DEF LoadAt
<1> QED BY <1>1, <1>2

\* A set of times has a latest one.
LEMMA MaxOfTimes ==
    ASSUME NEW T, NEW n \in Nat, T \subseteq 0..n, T # {}
    PROVE  Max(T) \in T /\ \A u \in T : u <= Max(T)
<1> DEFINE S == {n - u : u \in T}
<1>1. S \subseteq Nat /\ S # {}
  <2>1. PICK t \in T : TRUE
    OBVIOUS
  <2>2. n - t \in S
    OBVIOUS
  <2>3. \A u \in T : n - u \in Nat
    OBVIOUS
  <2> QED BY <2>2, <2>3
<1>2. Earliest(S) \in S /\ \A u \in S : Earliest(S) <= u
  BY <1>1, EarliestIsLeast
<1>3. PICK t \in T : Earliest(S) = n - t
  BY <1>2
<1>4. \A u \in T : t >= u
  <2> TAKE u \in T
  <2>1. n - u \in S
    OBVIOUS
  <2>2. n - t <= n - u
    BY <1>2, <1>3, <2>1
  <2> QED BY <2>2
<1> HIDE DEF S
<1> QED BY <1>4 DEF Max

LEMMA MinOfTimes ==
    ASSUME NEW T, T \subseteq Nat, T # {}
    PROVE  Min(T) \in T /\ \A u \in T : Min(T) <= u
<1>1. Earliest(T) \in T /\ \A u \in T : Earliest(T) <= u
  BY EarliestIsLeast
<1> QED BY <1>1 DEF Min

\* A store whose next pruning comes in time, and its entries aside.
PruneOK(s) ==
    /\ DOMAIN s.map \subseteq Key
    /\ s.pruneAt \in Nat \cup {Never}
    /\ s = [map |-> s.map, pruneAt |-> s.pruneAt]
    /\ \A k \in DOMAIN s.map :
           /\ s.map[k].expiresAt \in Nat
           /\ s.pruneAt # Never /\ s.pruneAt <= s.map[k].expiresAt

\* m is m0 but for key k.
Elsewhere(m0, m, k) ==
    /\ DOMAIN m \ {k} = DOMAIN m0 \ {k}
    /\ \A x \in DOMAIN m0 \ {k} : m[x] = m0[x]

LEMMA NextPruneAtOK ==
    ASSUME NEW m, DOMAIN m \subseteq Key, \A k \in DOMAIN m : m[k].expiresAt \in Nat
    PROVE  PruneOK([map |-> m, pruneAt |-> NextPruneAt(m)])
<1> DEFINE T == {m[k].expiresAt : k \in DOMAIN m}
<1>1. T \subseteq Nat
  OBVIOUS
<1>2. NextPruneAt(m) = Earliest(T)
  BY DEF NextPruneAt
<1>3. CASE T = {}
  BY <1>2, <1>3 DEF Earliest, PruneOK
<1>4. CASE T # {}
  <2>1. NextPruneAt(m) \in T /\ \A u \in T : NextPruneAt(m) <= u
    BY <1>1, <1>2, <1>4, EarliestIsLeast
  <2>2. NextPruneAt(m) \in Nat /\ NextPruneAt(m) # Never
    BY <1>1, <2>1 DEF Never
  <2> QED BY <2>1, <2>2 DEF PruneOK
<1> QED BY <1>3, <1>4

LEMMA DropOK ==
    ASSUME NEW s, NEW k \in Key, PruneOK(s)
    PROVE  /\ PruneOK(Drop(s, k))
           /\ k \notin DOMAIN Drop(s, k).map
           /\ Elsewhere(s.map, Drop(s, k).map, k)
<1> DEFINE m == Without(s.map, {k})
<1>1. DOMAIN m = DOMAIN s.map \ {k} /\ \A x \in DOMAIN m : m[x] = s.map[x]
  BY DEF Without, Restrict
<1>2. CASE k \notin DOMAIN s.map
  BY <1>2 DEF Drop, Elsewhere
<1>3. CASE k \in DOMAIN s.map
  <2>1. Drop(s, k) = [map |-> m, pruneAt |-> NextPruneAt(m)]
    BY <1>3 DEF Drop
  <2>2. DOMAIN m \subseteq Key /\ \A x \in DOMAIN m : m[x].expiresAt \in Nat
    BY <1>1 DEF PruneOK
  <2> HIDE DEF m
  <2>3. PruneOK(Drop(s, k))
    BY <2>1, <2>2, NextPruneAtOK
  <2> QED BY <1>1, <2>1, <2>3 DEF Elsewhere
<1> QED BY <1>2, <1>3

LEMMA KeepOK ==
    ASSUME NEW s, NEW k \in Key, NEW entry, PruneOK(s), entry.expiresAt \in Nat
    PROVE  /\ PruneOK(Keep(s, k, entry))
           /\ k \in DOMAIN Keep(s, k, entry).map
           /\ Keep(s, k, entry).map[k] = entry
           /\ Elsewhere(s.map, Keep(s, k, entry).map, k)
<1> DEFINE m == Put(s.map, k, entry)
           p == Sooner(s.pruneAt, entry.expiresAt)
<1>1. Keep(s, k, entry) = [map |-> m, pruneAt |-> p]
  BY DEF Keep
<1>2. /\ DOMAIN m = DOMAIN s.map \cup {k} /\ m[k] = entry
      /\ \A x \in DOMAIN s.map \ {k} : m[x] = s.map[x]
  BY DEF Put
<1>3. p \in Nat /\ p # Never /\ p <= entry.expiresAt /\ (s.pruneAt # Never => p <= s.pruneAt)
  BY DEF Sooner, Never, PruneOK
<1> HIDE DEF m, p
<1>4. PruneOK([map |-> m, pruneAt |-> p])
  <2>1. ASSUME NEW x \in DOMAIN m PROVE m[x].expiresAt \in Nat /\ p <= m[x].expiresAt
    <3>1. CASE x = k
      BY <1>2, <1>3, <3>1
    <3>2. CASE x # k
      <4>1. x \in DOMAIN s.map /\ m[x] = s.map[x]
        BY <1>2, <3>2
      <4>2. s.map[x].expiresAt \in Nat /\ s.pruneAt \in Nat /\ s.pruneAt # Never
            /\ s.pruneAt <= s.map[x].expiresAt
        BY <4>1 DEF PruneOK, Never
      <4> QED BY <1>3, <4>1, <4>2
    <3> QED BY <3>1, <3>2
  <2>2. DOMAIN m \subseteq Key
    BY <1>2 DEF PruneOK
  <2> QED BY <1>3, <2>1, <2>2 DEF PruneOK
<1> QED BY <1>1, <1>2, <1>4 DEF Elsewhere

-----------------------------------------------------------------------------
(* The pruning of the memory store: nothing that counts is lost by it.      *)

LEMMA TokenEntryOK ==
    ASSUME NEW k \in Key, kind[k] = "tokens", now \in Nat, NEW n \in 0..Capacity
    PROVE  /\ EntryOK(k, TokenEntry(n)) /\ TokenEntry(n).updatedAt = now
           /\ Used(k, TokenEntry(n)) = Capacity - n
<1>1. Capacity - n \in Nat
  BY RateFacts
<1>2. Ceil(Capacity - n, Rate) \in Nat
  BY <1>1, CeilEnough
<1> QED BY <1>2 DEF TokenEntry, EntryOK, Used

LEMMA LeakEntryOK ==
    ASSUME NEW k \in Key, kind[k] = "leaks", now \in Nat, NEW n \in 0..Capacity
    PROVE  /\ EntryOK(k, LeakEntry(n)) /\ LeakEntry(n).updatedAt = now
           /\ Used(k, LeakEntry(n)) = n
<1>1. Ceil(n, Rate) \in Nat
  BY CeilEnough
<1> QED BY <1>1 DEF LeakEntry, EntryOK, Used

LEMMA RenewedBucket ==
    ASSUME NEW m, NEW k \in Bucket, k \in DOMAIN m, EntryOK(k, m[k]), now \in Nat
    PROVE  /\ Neutral(m, k) <=> LoadAt(m, k, now) = 0
           /\ EntryOK(k, Renewed(m, k))
           /\ Used(k, Renewed(m, k)) = LoadAt(m, k, now)
           /\ Renewed(m, k).updatedAt = now
<1> DEFINE n == LoadAt(m, k, now)
<1>1. n \in Nat /\ n <= Capacity /\ k \in Key
  BY LoadFacts, BucketIsLimited
<1>2. CASE kind[k] = "tokens"
  <2>1. Refilled(m[k], now) = Capacity - n
    BY <1>2, LoadFacts DEF Tokens
  <2>2. Capacity - n \in 0..Capacity /\ Capacity - (Capacity - n) = n
    BY <1>1, RateFacts
  <2>3. Neutral(m, k) <=> n = 0
    BY <1>1, <1>2, <2>1, RateFacts DEF Neutral
  <2>4. Renewed(m, k) = TokenEntry(Capacity - n)
    BY <1>2, <2>1 DEF Renewed
  <2> QED BY <1>1, <1>2, <2>2, <2>3, <2>4, TokenEntryOK
<1>3. CASE kind[k] = "leaks"
  <2>1. Leaked(m[k], now) = n
    BY <1>3, LoadFacts DEF Level
  <2>2. n \in 0..Capacity
    BY <1>1, RateFacts
  <2>3. Neutral(m, k) <=> n = 0
    BY <1>3, <2>1 DEF Neutral
  <2>4. Renewed(m, k) = LeakEntry(n)
    BY <1>3, <2>1 DEF Renewed
  <2> QED BY <1>1, <1>3, <2>2, <2>3, <2>4, LeakEntryOK
<1> QED BY <1>2, <1>3 DEF Bucket, Keys

\* The latest time of a set of units.
LEMMA LatestUnit ==
    ASSUME NEW E, E # {}, now \in Nat, \A e \in E : e.at \in 0..now
    PROVE  /\ Max({e.at : e \in E}) \in Nat
           /\ \A e \in E : e.at <= Max({f.at : f \in E})
<1> DEFINE T == {e.at : e \in E}
<1>1. T \subseteq 0..now /\ T # {} /\ \A e \in E : e.at \in T
  OBVIOUS
<1> HIDE DEF T
<1>2. Max(T) \in T /\ \A u \in T : u <= Max(T)
  BY <1>1, MaxOfTimes
<1>3. Max(T) \in Nat
  <2>1. Max(T) \in 0..now
    BY <1>1, <1>2
  <2> QED BY <2>1
<1>4. ASSUME NEW e \in E PROVE e.at <= Max(T)
  <2>1. e.at \in T
    BY <1>1
  <2> QED BY <1>2, <2>1
<1> QED BY <1>3, <1>4 DEF T

LEMMA WindowEntryOK ==
    ASSUME NEW k \in Key, kind[k] = "window", now \in Nat, NEW E, E # {},
           E \subseteq grants[k].units, \A e \in E : e.at \in 0..now
    PROVE  EntryOK(k, WindowEntry(E)) /\ WindowEntry(E).entries = E
<1> DEFINE x == Max({e.at : e \in E})
<1>1. x \in Nat
  BY LatestUnit
<1> HIDE DEF x
<1>2. WindowEntry(E) = [entries |-> E, expiresAt |-> x + Window]
  BY DEF WindowEntry, x
<1> QED BY <1>1, <1>2, RateFacts DEF EntryOK

\* m1 is what a pruning leaves of m: a neutral entry is dropped, another one
\* brought up to date.
Settled(m, m1, k) ==
    /\ k \in DOMAIN m1 <=> k \in DOMAIN m /\ ~Neutral(m, k)
    /\ k \in DOMAIN m1 => m1[k] = Renewed(m, k)

LEMMA SettledBucket ==
    ASSUME NEW m, NEW m1, NEW k \in Bucket, NEW p \in Nat, Settled(m, m1, k), now \in Nat,
           k \in DOMAIN m => EntryOK(k, m[k])
    PROVE  /\ k \in DOMAIN m1 => EntryOK(k, m1[k]) /\ Used(k, m1[k]) = LoadAt(m, k, now)
           /\ LoadAt(m1, k, now) = LoadAt(m, k, now)
           /\ LoadAt(m1, k, p) <= LoadAt(m, k, p)
<1>1. LoadAt(m, k, p) \in Nat /\ LoadAt(m, k, now) \in Nat
  BY LoadFacts
<1>2. CASE k \notin DOMAIN m
  BY <1>1, <1>2 DEF Settled, LoadAt
<1>3. CASE k \in DOMAIN m /\ k \notin DOMAIN m1
  <2>1. LoadAt(m, k, now) = 0
    BY <1>3, RenewedBucket DEF Settled
  <2>2. LoadAt(m1, k, now) = 0 /\ LoadAt(m1, k, p) = 0
    BY <1>3 DEF LoadAt
  <2> QED BY <1>1, <1>3, <2>1, <2>2
<1>4. CASE k \in DOMAIN m /\ k \in DOMAIN m1
  <2> DEFINE n == LoadAt(m, k, now)
             v == m[k].updatedAt
             u == Used(k, m[k])
  <2>1. EntryOK(k, m1[k]) /\ Used(k, m1[k]) = n /\ m1[k].updatedAt = now
    BY <1>4, RenewedBucket DEF Settled
  <2>2. u \in Nat /\ v \in Nat /\ n = Decayed(u, now - v) /\ LoadAt(m, k, p) = Decayed(u, p - v)
    BY <1>4, LoadFacts
  <2>3. LoadAt(m1, k, now) = Decayed(n, now - now) /\ LoadAt(m1, k, p) = Decayed(n, p - now)
    BY <1>4, <2>1 DEF LoadAt
  <2> HIDE DEF n, v, u
  <2>4. n \in Nat
    BY <1>1 DEF n
  <2>5. now - now \in Int /\ now - now <= 0
    OBVIOUS
  <2>6. Decayed(n, now - now) = n
    BY <2>4, <2>5, DecayedFacts
  <2>7. Decayed(n, p - now) <= Decayed(u, p - v)
    BY <2>2, DecayedTwice
  <2> QED BY <2>1, <2>2, <2>3, <2>6, <2>7 DEF n
<1> QED BY <1>2, <1>3, <1>4

LEMMA SettledWindow ==
    ASSUME NEW m, NEW m1, NEW k \in Key, kind[k] = "window", Settled(m, m1, k),
           now \in Nat, k \in DOMAIN m => EntryOK(k, m[k]),
           \A e \in grants[k].units : e.at \in 0..now
    PROVE  /\ k \in DOMAIN m1 => EntryOK(k, m1[k])
           /\ Entries(m1, k) = InWindow(Entries(m, k), now)
           /\ k \in DOMAIN m => Entries(m, k) \subseteq grants[k].units
<1> DEFINE E == InWindow(m[k].entries, now)
<1>1. CASE k \notin DOMAIN m
  BY <1>1 DEF Settled, Entries, InWindow
<1>2. CASE k \in DOMAIN m /\ k \notin DOMAIN m1
  <2>1. E = {}
    BY <1>2 DEF Settled, Neutral
  <2> QED BY <1>2, <2>1 DEF Entries, EntryOK
<1>3. CASE k \in DOMAIN m /\ k \in DOMAIN m1
  <2>1. E # {}
    BY <1>3 DEF Settled, Neutral
  <2>2. m1[k] = WindowEntry(E)
    BY <1>3 DEF Settled, Renewed
  <2>3. m[k].entries \subseteq grants[k].units /\ E \subseteq m[k].entries
    BY <1>3 DEF EntryOK, InWindow
  <2> HIDE DEF E
  <2>4. EntryOK(k, WindowEntry(E)) /\ WindowEntry(E).entries = E
    BY <2>1, <2>3, WindowEntryOK
  <2> QED BY <1>3, <2>2, <2>3, <2>4 DEF E, Entries
<1> QED BY <1>1, <1>2, <1>3

\* A smaller set of entries lets pass no more.
LEMMA FewerInWindow ==
    ASSUME NEW E, NEW F, IsFiniteSet(E), F \subseteq E, NEW t \in Int, NEW p \in Int,
           t <= p, \A e \in E : e.at \in Int
    PROVE  /\ InWindow(F, p) \subseteq InWindow(E, t)
           /\ IsFiniteSet(InWindow(F, p)) /\ IsFiniteSet(InWindow(E, t)) /\ IsFiniteSet(F)
           /\ Cardinality(InWindow(F, p)) \in Nat
           /\ Cardinality(InWindow(E, t)) \in Nat
           /\ Cardinality(F) \in Nat /\ Cardinality(E) \in Nat
           /\ Cardinality(F) <= Cardinality(E)
           /\ Cardinality(InWindow(F, p)) <= Cardinality(InWindow(E, t))
           /\ Cardinality(InWindow(E, t)) <= Cardinality(E)
<1> DEFINE A == InWindow(F, p)
           B == InWindow(E, t)
<1>1. B \subseteq E
  BY DEF InWindow
<1>2. A \subseteq B
  <2>1. ASSUME NEW e \in A PROVE e \in B
    <3>1. e \in E /\ e.at \in Int /\ e.at > p - Window
      BY <2>1 DEF InWindow
    <3>2. e.at > t - Window
      BY <3>1, RateFacts
    <3> QED BY <3>1, <3>2 DEF InWindow
  <2> QED BY <2>1
<1> HIDE DEF A, B
<1>3. IsFiniteSet(B) /\ Cardinality(B) <= Cardinality(E)
  BY <1>1, FS_Subset
<1>4. IsFiniteSet(A) /\ Cardinality(A) <= Cardinality(B)
  BY <1>2, <1>3, FS_Subset
<1>5. IsFiniteSet(F) /\ Cardinality(F) <= Cardinality(E)
  BY FS_Subset
<1>6. /\ Cardinality(A) \in Nat /\ Cardinality(B) \in Nat
      /\ Cardinality(E) \in Nat /\ Cardinality(F) \in Nat
  BY <1>3, <1>4, <1>5, FS_CardinalityType
<1> QED BY <1>2, <1>3, <1>4, <1>5, <1>6 DEF A, B

LEMMA SettledKey ==
    ASSUME IInv, backend = "memory", NEW m1, NEW k \in Key, Settled(store.map, m1, k),
           k \in DOMAIN store.map => kind[k] \in {"window", "tokens", "leaks"}
    PROVE  KeyInv(m1, k)
<1> DEFINE m == store.map
           at == promise[k].at
<1>1. KeyInv(m, k) /\ now \in Nat /\ at \in Nat /\ promise[k].cost \in Nat
  <2>1. promise[k] \in [cost : Cost \cup {0}, at : Nat]
    BY Shapes DEF HistoryInv
  <2>2. Cost \cup {0} \subseteq Nat
    BY RateFacts
  <2> QED BY <2>1, <2>2, Shapes
<1>2. CASE k \in Bucket
  <2>1. k \in DOMAIN m => EntryOK(k, m[k])
    BY <1>1 DEF KeyInv
  <2>2. /\ k \in DOMAIN m1 => EntryOK(k, m1[k])
        /\ LoadAt(m1, k, now) = LoadAt(m, k, now)
        /\ LoadAt(m1, k, at) <= LoadAt(m, k, at)
    BY <1>1, <1>2, <2>1, SettledBucket
  <2>3. MeterInv(m1, k)
    BY <1>1, <2>2 DEF KeyInv, MeterInv, MemMeter, Backend
  <2>4. kind[k] # "window"
    BY <1>2 DEF Bucket, Keys
  <2>5. RetryInv(m1, k)
    <3>1. LoadAt(m1, k, at) \in Int /\ LoadAt(m, k, at) \in Int
      <4>1. at \in Int
        BY <1>1
      <4>2. LoadAt(m, k, at) \in Nat
        BY <1>1, <1>2, <2>1, <4>1, LoadFacts
      <4>3. LoadAt(m1, k, at) \in Nat
        BY <1>1, <1>2, <2>2, <4>1, LoadFacts
      <4> QED BY <4>2, <4>3
    <3> QED BY <1>1, <1>2, <2>2, <2>4, <3>1, RateFacts DEF KeyInv, RetryInv
  <2> QED BY <2>2, <2>3, <2>4, <2>5 DEF KeyInv, WindowInv
<1>3. CASE kind[k] = "window"
  <2> DEFINE U == grants[k].units
             E == Entries(m, k)
             F == Entries(m1, k)
  <2>1. U \subseteq Unit /\ IsFiniteSet(U) /\ \A e \in U : e.at \in 0..now
    <3>1. U \subseteq Unit
      BY Shapes DEF HistoryInv
    <3> QED BY <1>1, <1>3, <3>1 DEF KeyInv, WindowInv, Unit
  <2>2. k \in DOMAIN m => EntryOK(k, m[k])
    BY <1>1 DEF KeyInv
  <2>3. /\ k \in DOMAIN m1 => EntryOK(k, m1[k])
        /\ F = InWindow(E, now)
        /\ k \in DOMAIN m => E \subseteq U
    BY <1>1, <1>3, <2>1, <2>2, SettledWindow
  <2>4. E \subseteq U /\ F \subseteq E
    BY <2>3 DEF Entries, InWindow
  <2>5. IsFiniteSet(E) /\ \A e \in E : e.at \in Int
    BY <2>1, <2>4, FS_Subset
  <2>6. /\ Cardinality(F) <= Cardinality(E)
        /\ Cardinality(F) \in Nat /\ Cardinality(E) \in Nat
        /\ Cardinality(InWindow(F, at)) <= Cardinality(InWindow(E, at))
        /\ Cardinality(InWindow(F, at)) \in Nat /\ Cardinality(InWindow(E, at)) \in Nat
    <3> HIDE DEF E, F, at
    <3>1. at \in Int /\ at <= at
      BY <1>1
    <3> QED BY <2>4, <2>5, <3>1, FewerInWindow
  <2>7. \A e \in U : e.at <= now /\ (e.at > now - Window => e \in F)
    BY <1>1, <1>3, <2>3 DEF KeyInv, WindowInv, InWindow
  <2>8. Cardinality(E) <= Limit
    BY <1>1, <1>3 DEF KeyInv, WindowInv
  <2> HIDE DEF F, E
  <2>9. WindowInv(m1, k)
    <3>1. Cardinality(F) <= Limit
      BY <2>6, <2>8, RateFacts
    <3> QED BY <1>1, <1>3, <2>7, <3>1 DEF KeyInv, WindowInv, F, Backend
  <2>10. k \notin Bucket
    BY <1>3 DEF Bucket, Keys
  <2>11. RetryInv(m1, k)
    <3>1. promise[k] # NoPromise =>
              promise[k].cost = 1 /\ Cardinality(InWindow(E, at)) < Limit
      BY <1>1, <2>10 DEF KeyInv, RetryInv, E
    <3>2. promise[k] # NoPromise =>
              promise[k].cost = 1 /\ Cardinality(InWindow(F, at)) < Limit
      BY <2>6, <3>1, RateFacts
    <3> QED BY <1>3, <3>2 DEF RetryInv, F
  <2> QED BY <2>3, <2>9, <2>10, <2>11 DEF KeyInv, MeterInv
<1>4. CASE k \notin Bucket /\ kind[k] # "window"
  <2>1. k \notin DOMAIN m1
    BY <1>4 DEF Settled, Bucket, Keys
  <2> QED BY <1>1, <1>4, <2>1 DEF KeyInv, MeterInv, WindowInv, RetryInv
<1> QED BY <1>2, <1>3, <1>4

LEMMA StorePruneOK ==
    ASSUME IInv, backend = "memory"
    PROVE  /\ PruneOK(store)
           /\ \A k \in DOMAIN store.map : k \in Key /\ kind[k] \in {"window", "tokens", "leaks"}
<1>1. StoreInv(store) /\ \A k \in DOMAIN store.map : EntryOK(k, store.map[k])
  BY Shapes DEF StoreInv, KeyInv
<1> QED BY <1>1 DEF StoreInv, PruneOK, EntryOK

LEMMA CleanedUpMap ==
    ASSUME NEW s
    PROVE  /\ CleanedUp(s) = [map |-> CleanedUp(s).map, pruneAt |-> NextPruneAt(CleanedUp(s).map)]
           /\ DOMAIN CleanedUp(s).map = {k \in DOMAIN s.map : ~Neutral(s.map, k)}
           /\ \A k \in DOMAIN s.map : Settled(s.map, CleanedUp(s).map, k)
<1> DEFINE m == [k \in {x \in DOMAIN s.map : ~Neutral(s.map, x)} |-> Renewed(s.map, k)]
<1>1. CleanedUp(s) = [map |-> m, pruneAt |-> NextPruneAt(m)]
  BY DEF CleanedUp
<1>2. \A k \in DOMAIN s.map : Settled(s.map, m, k)
  BY DEF Settled
<1>3. DOMAIN m = {k \in DOMAIN s.map : ~Neutral(s.map, k)}
  OBVIOUS
<1> HIDE DEF m
<1> QED BY <1>1, <1>2, <1>3

LEMMA CleanedUpOK ==
    ASSUME IInv, backend = "memory"
    PROVE  PruneOK(CleanedUp(store)) /\ \A k \in Key : KeyInv(CleanedUp(store).map, k)
<1> DEFINE m == CleanedUp(store).map
<1>1. /\ CleanedUp(store) = [map |-> m, pruneAt |-> NextPruneAt(m)]
      /\ DOMAIN m = {k \in DOMAIN store.map : ~Neutral(store.map, k)}
      /\ \A k \in DOMAIN store.map : Settled(store.map, m, k)
  BY CleanedUpMap
<1> HIDE DEF m
<1>2. ASSUME NEW k \in Key PROVE Settled(store.map, m, k)
  BY <1>1 DEF Settled
<1>3. ASSUME NEW k \in Key PROVE KeyInv(m, k)
  BY <1>2, StorePruneOK, SettledKey
<1>4. DOMAIN m \subseteq Key
  BY <1>1, StorePruneOK
<1>5. \A k \in DOMAIN m : m[k].expiresAt \in Nat
  BY <1>3, <1>4 DEF KeyInv, EntryOK
<1>6. PruneOK([map |-> m, pruneAt |-> NextPruneAt(m)])
  BY <1>4, <1>5, NextPruneAtOK
<1> QED BY <1>1, <1>3, <1>6 DEF m

LEMMA SweptOK ==
    ASSUME IInv, backend = "memory"
    PROVE  PruneOK(Swept) /\ \A k \in Key : KeyInv(Swept.map, k)
BY StorePruneOK, CleanedUpOK, Shapes DEF Swept

-----------------------------------------------------------------------------
(* A step that is about one key leaves what holds of the others.            *)

Carried(m, k) ==
    /\ UNCHANGED <<now, backend, kind>>
    /\ grants'[k] = grants[k] /\ meter'[k] = meter[k] /\ promise'[k] = promise[k]
    /\ k \in DOMAIN store'.map <=> k \in DOMAIN m
    /\ k \in DOMAIN m => store'.map[k] = m[k]

LEMMA KeyCarried ==
    ASSUME NEW m, NEW k \in Key, KeyInv(m, k), Carried(m, k)
    PROVE  KeyInv(store.map, k)'
<1>1. UNCHANGED <<now, backend, kind>> /\ (k \in Bucket <=> (k \in Bucket)')
  BY DEF Carried, Bucket, Keys
<1>2. ASSUME NEW t PROVE LoadAt(store.map, k, t)' = LoadAt(m, k, t)
  BY DEF Carried, LoadAt, Used
<1>3. Entries(store.map, k)' = Entries(m, k)
  BY DEF Carried, Entries
<1>4. (k \in DOMAIN store.map => EntryOK(k, store.map[k]))'
  BY <1>1 DEF Carried, KeyInv, EntryOK
<1>5. MeterInv(store.map, k)'
  <2>1. LoadAt(store.map, k, now)' = LoadAt(m, k, now)
    BY <1>1, <1>2
  <2>2. MeterInv(m, k)
    BY DEF KeyInv
  <2>3. MemMeter(m, k) => MemMeter(store.map, k)'
    BY <1>1, <2>1 DEF Carried, MemMeter
  <2>4. RedisMeter(m, k) => RedisMeter(store.map, k)'
    BY <1>1 DEF Carried, RedisMeter, Used
  <2> QED BY <1>1, <2>2, <2>3, <2>4 DEF MeterInv
<1>6. WindowInv(store.map, k)'
  <2>1. WindowInv(m, k)
    BY DEF KeyInv
  <2>2. ASSUME NEW t PROVE Passed(k, t)' = Passed(k, t)
    BY DEF Carried, Passed
  <2>3. k \in DOMAIN m => store'.map[k] = m[k]
    BY DEF Carried
  <2>4. \A e : e \in Entries(m, k) => k \in DOMAIN m
    BY DEF Entries
  <2> QED BY <1>1, <1>3, <2>1, <2>2, <2>3, <2>4 DEF WindowInv, Carried
<1>7. RetryInv(store.map, k)'
  <2>1. RetryInv(m, k)
    BY DEF KeyInv
  <2>2. LoadAt(store.map, k, promise[k].at)' = LoadAt(m, k, promise[k].at)
    BY <1>2 DEF Carried
  <2>3. InWindow(Entries(store.map, k), promise[k].at)'
            = InWindow(Entries(m, k), promise[k].at)
    BY <1>3 DEF Carried, InWindow
  <2> QED BY <1>1, <2>1, <2>2, <2>3 DEF RetryInv, Carried
<1> QED BY <1>4, <1>5, <1>6, <1>7 DEF KeyInv

\* A step of key k, from the map m: whatever becomes of k, the invariant of
\* the store is that of k and the timely pruning.
OnlyKey(m, k) ==
    /\ UNCHANGED <<now, backend, kind>>
    /\ Elsewhere(m, store'.map, k)
    /\ \A x \in Key \ {k} :
           grants'[x] = grants[x] /\ meter'[x] = meter[x] /\ promise'[x] = promise[x]

LEMMA OthersCarried ==
    ASSUME NEW m, NEW k, OnlyKey(m, k), NEW x \in Key \ {k}, KeyInv(m, x)
    PROVE  KeyInv(store.map, x)'
<1>1. Carried(m, x)
  BY DEF OnlyKey, Carried, Elsewhere
<1> QED BY <1>1, KeyCarried

-----------------------------------------------------------------------------
(* What the calls do to the meter.                                          *)

LEMMA MeterUpdates ==
    ASSUME HistoryInv, now \in Nat, NEW k \in Key, NEW t \in 0..now,
           NEW b \in Nat, b = SetBack(k, t),
           NEW c, c = Most(meter[k].clock, t),
           NEW n, n = Atleast0(meter[k].units - Gain(c - meter[k].clock))
    PROVE  /\ c \in 0..now /\ n \in Nat
           /\ Called(k, t) = [units |-> n, clock |-> c,
                              slip |-> meter[k].slip + b, lost |-> meter[k].lost]
<1>1. meter[k] \in [units : Nat, clock : 0..now, slip : Nat, lost : Nat]
  BY DEF HistoryInv
<1>2. c \in 0..now /\ c - meter[k].clock \in Nat
  BY <1>1 DEF Most
<1>3. n \in Nat
  <2>1. Gain(c - meter[k].clock) \in Nat
    BY <1>2, GainOrder
  <2> QED BY <1>1, <2>1 DEF Atleast0
<1>4. AsOf(k, t) = [units |-> n, clock |-> c, slip |-> meter[k].slip, lost |-> meter[k].lost]
  <2>1. AsOf(k, t) = [meter[k] EXCEPT !.clock = c, !.units = n]
    BY DEF AsOf, Gain
  <2> QED BY <1>1, <2>1
<1>5. Called(k, t) = [units |-> n, clock |-> c, slip |-> meter[k].slip + b, lost |-> meter[k].lost]
  BY <1>4 DEF Called
<1> QED BY <1>2, <1>3, <1>5

\* The history stays in shape.
LEMMA HistoryStep ==
    ASSUME HistoryInv, UNCHANGED now, NEW k \in Key, now \in Nat,
           NEW r \in [units : Nat, clock : 0..now, slip : Nat, lost : Nat],
           meter' = [meter EXCEPT ![k] = r],
           UNCHANGED grants, issued' \in [Key -> SUBSET Cost],
           promise' \in [Key -> [cost : Cost \cup {0}, at : Nat]]
    PROVE  HistoryInv'
BY DEF HistoryInv

-----------------------------------------------------------------------------
(* The buckets of the memory store.                                         *)

\* From m0 to m, bucket k is brought to load u at time t.
BucketSet(m0, m, k, u, t) ==
    /\ Elsewhere(m0, m, k)
    /\ k \in DOMAIN m => EntryOK(k, m[k]) /\ Used(k, m[k]) = u /\ m[k].updatedAt = t
    /\ k \notin DOMAIN m => u = 0

LEMMA LoadOfSet ==
    ASSUME NEW m0, NEW m, NEW k, NEW u \in Nat, NEW t \in Nat, BucketSet(m0, m, k, u, t),
           NEW p \in Int
    PROVE  LoadAt(m, k, p) = Decayed(u, p - t)
<1>1. p - t \in Int
  OBVIOUS
<1>2. CASE k \in DOMAIN m
  BY <1>2 DEF BucketSet, LoadAt
<1>3. CASE k \notin DOMAIN m
  <2>1. u = 0 /\ LoadAt(m, k, p) = 0
    BY <1>3 DEF BucketSet, LoadAt
  <2>2. Decayed(u, p - t) \in Nat /\ Decayed(u, p - t) <= u
    BY <1>1, DecayedFacts
  <2> QED BY <2>1, <2>2
<1> QED BY <1>2, <1>3

LEMMA SetTokensSets ==
    ASSUME NEW k \in Key, kind[k] = "tokens", now \in Nat, NEW s, PruneOK(s),
           NEW n \in 0..Capacity
    PROVE  /\ PruneOK(SetTokens(s, k, n))
           /\ BucketSet(s.map, SetTokens(s, k, n).map, k, Capacity - n, now)
<1>1. CASE n = Capacity
  <2>1. SetTokens(s, k, n) = Drop(s, k) /\ Capacity - n = 0
    BY <1>1, RateFacts DEF SetTokens
  <2> QED BY <2>1, DropOK DEF BucketSet
<1>2. CASE n # Capacity
  <2>1. SetTokens(s, k, n) = Keep(s, k, TokenEntry(n))
    BY <1>2, RateFacts DEF SetTokens
  <2>2. EntryOK(k, TokenEntry(n)) /\ TokenEntry(n).updatedAt = now
        /\ Used(k, TokenEntry(n)) = Capacity - n
    BY TokenEntryOK
  <2>3. TokenEntry(n).expiresAt \in Nat
    BY <2>2 DEF EntryOK
  <2> QED BY <2>1, <2>2, <2>3, KeepOK DEF BucketSet
<1> QED BY <1>1, <1>2

LEMMA SetLevelSets ==
    ASSUME NEW k \in Key, kind[k] = "leaks", now \in Nat, NEW s, PruneOK(s),
           NEW n \in 0..Capacity
    PROVE  /\ PruneOK(SetLevel(s, k, n))
           /\ BucketSet(s.map, SetLevel(s, k, n).map, k, n, now)
<1>1. CASE n = 0
  <2>1. SetLevel(s, k, n) = Drop(s, k)
    BY <1>1 DEF SetLevel
  <2> QED BY <1>1, <2>1, DropOK DEF BucketSet
<1>2. CASE n # 0
  <2>1. SetLevel(s, k, n) = Keep(s, k, LeakEntry(n))
    BY <1>2 DEF SetLevel
  <2>2. EntryOK(k, LeakEntry(n)) /\ LeakEntry(n).updatedAt = now
        /\ Used(k, LeakEntry(n)) = n
    BY LeakEntryOK
  <2>3. LeakEntry(n).expiresAt \in Nat
    BY <2>2 DEF EntryOK
  <2> QED BY <2>1, <2>2, <2>3, KeepOK DEF BucketSet
<1> QED BY <1>1, <1>2

\* The store after a step of the memory store that is about key k.
LEMMA MemStoreStep ==
    ASSUME IInv, backend = "memory", NEW k \in Key,
           NEW s, \A x \in Key : KeyInv(s.map, x),
           OnlyKey(s.map, k), PruneOK(store'), KeyInv(store.map, k)'
    PROVE  StoreInv(store)'
<1>1. ASSUME NEW x \in Key PROVE KeyInv(store.map, x)'
  <2>1. CASE x = k
    BY <2>1
  <2>2. CASE x # k
    BY <2>2, OthersCarried
  <2> QED BY <2>1, <2>2
<1> QED BY <1>1 DEF StoreInv, PruneOK

\* In memory no call is late.
LEMMA MemCalled ==
    ASSUME IInv, backend = "memory", NEW k \in Bucket
    PROVE  /\ meter[k] \in [units : Nat, clock : 0..now, slip : Nat, lost : Nat]
           /\ Called(k, now) = [units |-> meter[k].units, clock |-> now,
                                slip |-> 0, lost |-> meter[k].lost]
<1>1. /\ k \in Key /\ now \in Nat /\ HistoryInv /\ KeyInv(store.map, k)
      /\ meter[k] \in [units : Nat, clock : 0..now, slip : Nat, lost : Nat]
  BY Shapes, BucketIsLimited DEF HistoryInv
<1>2. meter[k].clock = now /\ meter[k].slip = 0
  BY <1>1 DEF KeyInv, MeterInv, MemMeter
<1>3. SetBack(k, now) = 0
  <2>1. CASE k \in DOMAIN store.map
    <3>1. store.map[k].updatedAt \in 0..now
      BY <1>1, <2>1, LoadFacts DEF KeyInv
    <3> QED BY <1>1, <2>1, <3>1 DEF SetBack, Atleast0
  <2>2. CASE k \notin DOMAIN store.map
    BY <1>1, <2>2 DEF SetBack
  <2> QED BY <2>1, <2>2
<1>4. Most(meter[k].clock, now) = now
  BY <1>1, <1>2 DEF Most
<1>5. Gain(now - meter[k].clock) = 0
  BY <1>1, <1>2, GainOrder
<1>6. Atleast0(meter[k].units - Gain(now - meter[k].clock)) = meter[k].units
  BY <1>1, <1>5 DEF Atleast0
<1>7. meter[k].slip + 0 = 0
  BY <1>2
<1>8. now \in 0..now /\ 0 \in Nat
  BY <1>1
<1> DEFINE b == SetBack(k, now)
           c == Most(meter[k].clock, now)
           n == Atleast0(meter[k].units - Gain(c - meter[k].clock))
<1>9. b \in Nat /\ b = SetBack(k, now) /\ c = Most(meter[k].clock, now)
      /\ n = Atleast0(meter[k].units - Gain(c - meter[k].clock))
  BY <1>3, <1>8
<1> HIDE DEF b, c, n
<1>10. Called(k, now) = [units |-> n, clock |-> c,
                         slip |-> meter[k].slip + b, lost |-> meter[k].lost]
  BY <1>1, <1>8, <1>9, MeterUpdates
<1>11. c = now /\ n = meter[k].units /\ meter[k].slip + b = 0
  BY <1>3, <1>4, <1>6, <1>7 DEF b, c, n
<1> QED BY <1>1, <1>10, <1>11

LEMMA MemBucketKey ==
    ASSUME IInv, backend = "memory", NEW k \in Bucket, NEW u \in 0..Capacity,
           BucketSet(Swept.map, store'.map, k, u, now), UNCHANGED <<now, backend, kind>>,
           NEW units \in Nat, NEW lost \in Nat,
           meter'[k] = [units |-> units, clock |-> now, slip |-> 0, lost |-> lost],
           units <= u, u <= units + Gain(lost),
           promise'[k] # NoPromise =>
               /\ promise'[k].at \in Int
               /\ Decayed(u, promise'[k].at - now) + promise'[k].cost <= Capacity
    PROVE  KeyInv(store.map, k)'
<1>1. k \in Key /\ now \in Nat /\ u \in Nat /\ kind[k] # "window" /\ (k \in Bucket)'
  BY Shapes, RateFacts, BucketIsLimited DEF Bucket, Keys
<1>2. (k \in DOMAIN store.map => EntryOK(k, store.map[k]))'
  <2>1. k \in DOMAIN store'.map => EntryOK(k, store'.map[k])
    BY DEF BucketSet
  <2> QED BY <1>1, <2>1 DEF EntryOK
<1>3. ASSUME NEW p \in Int PROVE LoadAt(store.map, k, p)' = Decayed(u, p - now)
  <2>1. LoadAt(store'.map, k, p) = Decayed(u, p - now)
    BY <1>1, LoadOfSet
  <2> QED BY <2>1 DEF LoadAt, Used
<1>4. MeterInv(store.map, k)'
  <2>1. Decayed(u, now - now) = u
    <3>1. now - now \in Int /\ now - now <= 0
      BY <1>1
    <3> QED BY <1>1, <3>1, DecayedFacts
  <2>2. LoadAt(store.map, k, now)' = u
    BY <1>1, <1>3, <2>1
  <2> QED BY <2>2 DEF MeterInv, MemMeter
<1>5. RetryInv(store.map, k)'
  <2>1. ASSUME promise'[k] # NoPromise
        PROVE  LoadAt(store.map, k, promise[k].at)' = Decayed(u, promise'[k].at - now)
    BY <1>3, <2>1
  <2> QED BY <1>1, <2>1 DEF RetryInv
<1> QED BY <1>1, <1>2, <1>4, <1>5 DEF KeyInv, WindowInv

\* Bringing a bucket up to date makes it at no time fuller than it would have
\* been.
LEMMA LoadSettled ==
    ASSUME NEW m, NEW k \in Bucket, now \in Nat, k \in DOMAIN m => EntryOK(k, m[k]),
           NEW t \in Nat, NEW p \in Int
    PROVE  /\ Decayed(LoadAt(m, k, t), p - t) <= LoadAt(m, k, p)
           /\ Decayed(LoadAt(m, k, t), p - t) \in Nat
<1>1. CASE k \in DOMAIN m
  <2>1. /\ Used(k, m[k]) \in Nat /\ m[k].updatedAt \in Int
        /\ LoadAt(m, k, t) = Decayed(Used(k, m[k]), t - m[k].updatedAt)
    BY <1>1, LoadFacts
  <2>2. LoadAt(m, k, p) = Decayed(Used(k, m[k]), p - m[k].updatedAt)
    BY <1>1 DEF LoadAt
  <2> DEFINE u == Used(k, m[k])
             v == m[k].updatedAt
  <2>3. u \in Nat /\ v \in Int /\ t \in Int
    BY <2>1
  <2> HIDE DEF u, v
  <2>4. /\ Decayed(Decayed(u, t - v), p - t) <= Decayed(u, p - v)
        /\ Decayed(Decayed(u, t - v), p - t) \in Nat
    BY <2>3, DecayedTwice
  <2> QED BY <2>1, <2>2, <2>4 DEF u, v
<1>2. CASE k \notin DOMAIN m
  <2>1. LoadAt(m, k, t) = 0 /\ LoadAt(m, k, p) = 0
    BY <1>2 DEF LoadAt
  <2>2. p - t \in Int /\ 0 \in Nat
    OBVIOUS
  <2>3. Decayed(0, p - t) \in Nat /\ Decayed(0, p - t) <= 0
    BY <2>2, DecayedFacts
  <2> QED BY <2>1, <2>3
<1> QED BY <1>1, <1>2

\* retryAfterMs is enough.
LEMMA RetryFits ==
    ASSUME NEW u \in Nat, NEW cost \in Nat, cost <= Capacity, u + cost > Capacity,
           NEW t \in Nat
    PROVE  /\ t + Ceil(u + cost - Capacity, Rate) \in Nat
           /\ Decayed(u, (t + Ceil(u + cost - Capacity, Rate)) - t) + cost <= Capacity
<1> DEFINE a == u + cost - Capacity
           r == Ceil(a, Rate)
<1>1. a \in Nat
  BY RateFacts
<1> HIDE DEF a
<1>2. r \in Nat /\ a <= Gain(r)
  BY <1>1, CeilEnough
<1> HIDE DEF r
<1>3. (t + r) - t = r /\ t + r \in Nat
  BY <1>2
<1>4. Decayed(u, r) = Atleast0(u - Gain(r)) /\ Gain(r) \in Nat
  BY <1>2, DecayedFacts
<1>5. u + cost - Capacity <= Gain(r)
  BY <1>2 DEF a
<1>6. Decayed(u, r) + cost <= Capacity
  BY <1>4, <1>5, RateFacts DEF Atleast0
<1> QED BY <1>3, <1>6 DEF a, r

\* What BucketDeny makes of the promise: a new one that will be kept, or the
\* old one, which still will.
LEMMA DenyPromise ==
    ASSUME HistoryInv, now \in Nat, NEW m, NEW k \in Bucket, RetryInv(m, k),
           k \in DOMAIN m => EntryOK(k, m[k]),
           NEW t \in Nat, NEW cost \in Cost, LoadAt(m, k, t) + cost > Capacity,
           IF cost <= Capacity
           THEN Promise(k, cost, t + Ceil(LoadAt(m, k, t) + cost - Capacity, Rate))
           ELSE UNCHANGED promise
    PROVE  /\ promise' \in [Key -> [cost : Cost \cup {0}, at : Nat]]
           /\ promise'[k] # NoPromise =>
                  /\ promise'[k].at \in Int
                  /\ Decayed(LoadAt(m, k, t), promise'[k].at - t) + promise'[k].cost
                         <= Capacity
           /\ \A x \in Key \ {k} : promise'[x] = promise[x]
<1> DEFINE u == LoadAt(m, k, t)
<1>1. u \in Nat /\ k \in Key /\ cost \in Nat /\ kind[k] # "window"
  <2>1. t \in Int
    OBVIOUS
  <2>2. u \in Nat
    BY <2>1, LoadFacts
  <2> QED BY <2>2, BucketIsLimited, RateFacts DEF Bucket, Keys
<1>2. promise \in [Key -> [cost : Cost \cup {0}, at : Nat]]
  BY DEF HistoryInv
<1>3. CASE cost <= Capacity
  <2> DEFINE p == t + Ceil(u + cost - Capacity, Rate)
  <2>1. p \in Nat /\ Decayed(u, p - t) + cost <= Capacity
    BY <1>1, <1>3, RetryFits
  <2>2. promise' = [promise EXCEPT ![k] = [cost |-> cost, at |-> p]]
    BY <1>3 DEF Promise
  <2> HIDE DEF p
  <2>3. promise'[k] = [cost |-> cost, at |-> p]
    BY <1>1, <1>2, <2>2
  <2>4. promise' \in [Key -> [cost : Cost \cup {0}, at : Nat]]
    BY <1>1, <1>2, <2>1, <2>2
  <2>5. promise'[k].at = p /\ promise'[k].cost = cost
    BY <2>3
  <2>6. \A x \in Key \ {k} : promise'[x] = promise[x]
    BY <1>2, <2>2
  <2> QED BY <2>1, <2>4, <2>5, <2>6
<1>4. CASE ~(cost <= Capacity)
  <2>1. promise' = promise
    BY <1>4
  <2>2. promise[k] \in [cost : Cost \cup {0}, at : Nat]
    BY <1>1, <1>2
  <2>3. ASSUME promise[k] # NoPromise
        PROVE  promise[k].at \in Int /\ Decayed(u, promise[k].at - t) + promise[k].cost <= Capacity
    <3> DEFINE p == promise[k].at
    <3>1. p \in Int /\ promise[k].cost \in Nat
      <4>1. Cost \cup {0} \subseteq Nat
        BY RateFacts
      <4> QED BY <2>2, <4>1
    <3>2. LoadAt(m, k, p) + promise[k].cost <= Capacity
      BY <1>1, <2>3 DEF RetryInv
    <3>3. Decayed(u, p - t) <= LoadAt(m, k, p) /\ Decayed(u, p - t) \in Nat
      BY <3>1, LoadSettled
    <3>4. LoadAt(m, k, p) \in Nat
      BY <3>1, LoadFacts
    <3> QED BY <3>1, <3>2, <3>3, <3>4, RateFacts
  <2> QED BY <1>2, <2>1, <2>3
<1> QED BY <1>3, <1>4

\* A call, or a rollback that found its bucket, takes back the promise.
LEMMA NoPromiseLeft ==
    ASSUME HistoryInv, NEW k \in Key, NoMorePromise(k)
    PROVE  /\ promise' \in [Key -> [cost : Cost \cup {0}, at : Nat]]
           /\ promise'[k] = NoPromise
           /\ \A x \in Key \ {k} : promise'[x] = promise[x]
<1>1. promise \in [Key -> [cost : Cost \cup {0}, at : Nat]]
  BY DEF HistoryInv
<1>2. NoPromise \in [cost : Cost \cup {0}, at : Nat]
  BY DEF NoPromise
<1> QED BY <1>1, <1>2 DEF NoMorePromise

\* The bounds of the meter, before a call of the memory store.
LEMMA MemBounds ==
    ASSUME IInv, backend = "memory", NEW k \in Bucket
    PROVE  /\ k \in Key /\ now \in Nat /\ HistoryInv
           /\ k \in DOMAIN Swept.map => EntryOK(k, Swept.map[k])
           /\ LoadAt(Swept.map, k, now) \in 0..Capacity
           /\ meter[k].units \in Nat /\ meter[k].lost \in Nat
           /\ meter[k].units <= LoadAt(Swept.map, k, now)
           /\ LoadAt(Swept.map, k, now) <= meter[k].units + Gain(meter[k].lost)
           /\ RetryInv(Swept.map, k) /\ PruneOK(Swept)
           /\ \A x \in Key : KeyInv(Swept.map, x)
<1>1. /\ k \in Key /\ now \in Nat /\ HistoryInv
      /\ PruneOK(Swept) /\ \A x \in Key : KeyInv(Swept.map, x)
  BY Shapes, SweptOK, BucketIsLimited
<1>2. k \in DOMAIN Swept.map => EntryOK(k, Swept.map[k])
  BY <1>1 DEF KeyInv
<1>3. LoadAt(Swept.map, k, now) \in Nat /\ LoadAt(Swept.map, k, now) <= Capacity
  <2>1. now \in Int
    BY <1>1
  <2> QED BY <1>1, <1>2, <2>1, LoadFacts
<1>4. MemMeter(Swept.map, k) /\ RetryInv(Swept.map, k)
  BY <1>1 DEF KeyInv, MeterInv
<1>5. meter[k] \in [units : Nat, clock : 0..now, slip : Nat, lost : Nat]
  BY <1>1 DEF HistoryInv
<1> QED BY <1>1, <1>2, <1>3, <1>4, <1>5, RateFacts DEF MemMeter

LEMMA MemGrant ==
    ASSUME IInv, backend = "memory", NEW k \in Bucket, NEW cost \in Cost,
           LoadAt(Swept.map, k, now) + cost <= Capacity,
           BucketSet(Swept.map, store'.map, k, LoadAt(Swept.map, k, now) + cost, now),
           PruneOK(store'), BucketGrant(k, cost, now), UNCHANGED <<now, backend, kind>>
    PROVE  StoreInv(store)' /\ HistoryInv'
<1> DEFINE u == LoadAt(Swept.map, k, now)
           r == [units |-> meter[k].units + cost, clock |-> now,
                 slip |-> 0, lost |-> meter[k].lost]
<1>1. /\ k \in Key /\ now \in Nat /\ HistoryInv /\ u \in 0..Capacity
      /\ meter[k].units \in Nat /\ meter[k].lost \in Nat
      /\ meter[k].units <= u /\ u <= meter[k].units + Gain(meter[k].lost)
  BY MemBounds
<1>2. cost \in Nat /\ Gain(meter[k].lost) \in Nat
  BY <1>1, RateFacts, GainOrder
<1>3. meter' = [meter EXCEPT ![k] = r]
  <2>1. Called(k, now) = [units |-> meter[k].units, clock |-> now,
                          slip |-> 0, lost |-> meter[k].lost]
    BY MemCalled
  <2>2. [Called(k, now) EXCEPT !.units = @ + cost] = r
    BY <2>1
  <2> QED BY <2>2 DEF BucketGrant
<1>4. r \in [units : Nat, clock : 0..now, slip : Nat, lost : Nat]
  BY <1>1, <1>2
<1>5. /\ promise' \in [Key -> [cost : Cost \cup {0}, at : Nat]]
      /\ promise'[k] = NoPromise
      /\ \A x \in Key \ {k} : promise'[x] = promise[x]
  BY <1>1, NoPromiseLeft DEF BucketGrant
<1> HIDE DEF r, u
<1>6. meter'[k] = r /\ \A x \in Key \ {k} : meter'[x] = meter[x]
  BY <1>1, <1>3 DEF HistoryInv
<1>7. u + cost \in 0..Capacity /\ meter[k].units + cost \in Nat
      /\ meter[k].units + cost <= u + cost
      /\ u + cost <= (meter[k].units + cost) + Gain(meter[k].lost)
  BY <1>1, <1>2, RateFacts DEF u
<1>8. KeyInv(store.map, k)'
  BY <1>1, <1>5, <1>6, <1>7, MemBucketKey DEF r, u
<1>9. OnlyKey(Swept.map, k)
  BY <1>5, <1>6 DEF OnlyKey, BucketSet, BucketGrant
<1>10. StoreInv(store)'
  BY <1>1, <1>8, <1>9, SweptOK, MemStoreStep
<1>11. HistoryInv'
  <2>1. issued' \in [Key -> SUBSET Cost]
    BY <1>1 DEF HistoryInv, BucketGrant
  <2> QED BY <1>1, <1>3, <1>4, <1>5, <2>1, HistoryStep DEF BucketGrant, r
<1> QED BY <1>10, <1>11

LEMMA MemDeny ==
    ASSUME IInv, backend = "memory", NEW k \in Bucket, NEW cost \in Cost,
           LoadAt(Swept.map, k, now) + cost > Capacity,
           BucketSet(Swept.map, store'.map, k, LoadAt(Swept.map, k, now), now),
           PruneOK(store'), UNCHANGED <<now, backend, kind>>,
           BucketDeny(k, cost, now, Ceil(LoadAt(Swept.map, k, now) + cost - Capacity, Rate))
    PROVE  StoreInv(store)' /\ HistoryInv'
<1> DEFINE u == LoadAt(Swept.map, k, now)
           r == [units |-> meter[k].units, clock |-> now,
                 slip |-> 0, lost |-> meter[k].lost]
<1>1. /\ k \in Key /\ now \in Nat /\ HistoryInv /\ u \in 0..Capacity
      /\ meter[k].units \in Nat /\ meter[k].lost \in Nat
      /\ meter[k].units <= u /\ u <= meter[k].units + Gain(meter[k].lost)
      /\ RetryInv(Swept.map, k)
      /\ k \in DOMAIN Swept.map => EntryOK(k, Swept.map[k])
  BY MemBounds
<1>2. Called(k, now) = r
  BY MemCalled
<1>3. meter' = [meter EXCEPT ![k] = r]
  BY <1>2 DEF BucketDeny
<1>4. r \in [units : Nat, clock : 0..now, slip : Nat, lost : Nat]
  BY <1>1
<1>5. /\ promise' \in [Key -> [cost : Cost \cup {0}, at : Nat]]
      /\ promise'[k] # NoPromise => /\ promise'[k].at \in Int
                                    /\ Decayed(u, promise'[k].at - now) + promise'[k].cost
                                           <= Capacity
      /\ \A x \in Key \ {k} : promise'[x] = promise[x]
  BY <1>1, DenyPromise DEF BucketDeny
<1> HIDE DEF r
<1>6. meter'[k] = r /\ \A x \in Key \ {k} : meter'[x] = meter[x]
  BY <1>1, <1>3 DEF HistoryInv
<1>7. KeyInv(store.map, k)'
  BY <1>1, <1>5, <1>6, MemBucketKey DEF r
<1>8. OnlyKey(Swept.map, k)
  BY <1>5, <1>6 DEF OnlyKey, BucketSet, BucketDeny
<1>9. StoreInv(store)'
  BY <1>1, <1>7, <1>8, SweptOK, MemStoreStep
<1>10. HistoryInv'
  <2>1. issued' \in [Key -> SUBSET Cost]
    BY <1>1 DEF HistoryInv, BucketDeny
  <2> QED BY <1>1, <1>3, <1>4, <1>5, <2>1, HistoryStep DEF BucketDeny, r
<1> QED BY <1>9, <1>10

\* What a rollback starts from: the load at the last update or pruning.
LEMMA SweptUsed ==
    ASSUME IInv, backend = "memory", NEW k \in Bucket, k \in DOMAIN Swept.map
    PROVE  /\ k \in DOMAIN store.map
           /\ Used(k, Swept.map[k]) \in 0..Capacity
           /\ Atleast0(now - store.map[k].updatedAt) \in Nat
           /\ LoadAt(Swept.map, k, now) <= Used(k, Swept.map[k])
           /\ Used(k, Swept.map[k]) <= meter[k].units + Gain(meter[k].lost)
                                     + Gain(Atleast0(now - store.map[k].updatedAt))
<1> DEFINE m == store.map
           d == now - m[k].updatedAt
           w == Used(k, Swept.map[k])
<1>1. /\ k \in Key /\ now \in Nat /\ meter[k].units \in Nat /\ meter[k].lost \in Nat
      /\ EntryOK(k, Swept.map[k])
      /\ LoadAt(Swept.map, k, now) <= meter[k].units + Gain(meter[k].lost)
  BY MemBounds
<1>2. k \in DOMAIN m /\ KeyInv(m, k)
  <2>1. k \in DOMAIN m
    BY CleanedUpMap DEF Swept
  <2> QED BY <1>1, <2>1, Shapes
<1>3. EntryOK(k, m[k])
  BY <1>2 DEF KeyInv
<1>4. d \in Nat /\ Atleast0(d) = d /\ Used(k, m[k]) \in Nat
      /\ LoadAt(m, k, now) = Decayed(Used(k, m[k]), d)
  BY <1>1, <1>2, <1>3, LoadFacts DEF Atleast0
<1>5. w \in 0..Capacity /\ LoadAt(Swept.map, k, now) = Decayed(w, now - Swept.map[k].updatedAt)
      /\ now - Swept.map[k].updatedAt \in Int
  BY <1>1, LoadFacts
<1>6. LoadAt(Swept.map, k, now) <= w
  <2> DEFINE e == now - Swept.map[k].updatedAt
  <2>1. w \in Nat /\ e \in Int
    BY <1>5, RateFacts
  <2> HIDE DEF w, e
  <2>2. Decayed(w, e) <= w
    BY <2>1, DecayedFacts
  <2> QED BY <1>5, <2>2 DEF e, w
<1>7. Gain(d) \in Nat /\ Gain(meter[k].lost) \in Nat
  BY <1>1, <1>4, GainOrder
<1>8. w <= meter[k].units + Gain(meter[k].lost) + Gain(d)
  <2>1. LoadAt(m, k, now) <= meter[k].units + Gain(meter[k].lost)
    BY <1>2 DEF KeyInv, MeterInv, MemMeter
  <2>2. Used(k, m[k]) <= LoadAt(m, k, now) + Gain(d) /\ LoadAt(m, k, now) \in Nat
    BY <1>4, DecayedFacts
  <2>3. CASE Swept = store
    BY <1>1, <1>4, <1>7, <2>1, <2>2, <2>3
  <2>4. CASE Swept = CleanedUp(store)
    <3>1. Swept.map[k] = Renewed(m, k)
      BY <1>2, <2>4, CleanedUpMap DEF Settled
    <3>2. w = LoadAt(m, k, now)
      BY <1>1, <1>2, <1>3, <3>1, RenewedBucket
    <3> QED BY <1>1, <1>7, <2>1, <2>2, <3>2
  <2> QED BY <2>3, <2>4 DEF Swept
<1> QED BY <1>2, <1>4, <1>5, <1>6, <1>8

LEMMA MemRollback ==
    ASSUME IInv, backend = "memory", NEW k \in Bucket, NEW cost \in Cost,
           k \in DOMAIN Swept.map,
           BucketSet(Swept.map, store'.map, k, Atleast0(Used(k, Swept.map[k]) - cost), now),
           PruneOK(store'), UNCHANGED <<now, backend, kind>>,
           BucketRollback(k, cost, now, TRUE)
    PROVE  StoreInv(store)' /\ HistoryInv'
<1> DEFINE w == Used(k, Swept.map[k])
           d == Atleast0(now - store.map[k].updatedAt)
           n == Atleast0(meter[k].units - cost)
           l == meter[k].lost + d
           r == [units |-> n, clock |-> now, slip |-> 0, lost |-> l]
<1>1. /\ k \in Key /\ now \in Nat /\ HistoryInv
      /\ meter[k].units \in Nat /\ meter[k].lost \in Nat
      /\ meter[k].units <= LoadAt(Swept.map, k, now)
      /\ LoadAt(Swept.map, k, now) \in Nat
  BY MemBounds, RateFacts
<1>2. /\ w \in 0..Capacity /\ d \in Nat /\ LoadAt(Swept.map, k, now) <= w
      /\ w <= meter[k].units + Gain(meter[k].lost) + Gain(d)
  BY SweptUsed
<1>3. cost \in Nat /\ Gain(meter[k].lost) \in Int /\ Gain(d) \in Int
  BY <1>1, <1>2, RateFacts, GainInt
<1>4. [Called(k, now) EXCEPT !.units = Atleast0(Called(k, now).units - cost), !.lost = l] = r
  <2> DEFINE o == [Called(k, now) EXCEPT !.units = Atleast0(Called(k, now).units - cost)]
  <2>1. Called(k, now) = [units |-> meter[k].units, clock |-> now,
                          slip |-> 0, lost |-> meter[k].lost]
    BY MemCalled
  <2>2. o = [units |-> n, clock |-> now, slip |-> 0, lost |-> meter[k].lost]
    BY <2>1
  <2>3. [Called(k, now) EXCEPT !.units = Atleast0(Called(k, now).units - cost), !.lost = l] =
            [o EXCEPT !.lost = l]
    BY Zenon
  <2> HIDE DEF o, n, l
  <2>4. [o EXCEPT !.lost = l] = r
    BY <2>2
  <2> QED BY <2>3, <2>4
<1>5. meter' = [meter EXCEPT ![k] = r]
  BY <1>4 DEF BucketRollback
<1>6. /\ promise' \in [Key -> [cost : Cost \cup {0}, at : Nat]]
      /\ promise'[k] = NoPromise
      /\ \A x \in Key \ {k} : promise'[x] = promise[x]
  BY <1>1, NoPromiseLeft DEF BucketRollback
<1> HIDE DEF w, d
<1>7. n \in Nat /\ l \in Nat /\ Atleast0(w - cost) \in 0..Capacity
  BY <1>1, <1>2, <1>3, RateFacts DEF Atleast0
<1>8. r \in [units : Nat, clock : 0..now, slip : Nat, lost : Nat]
  BY <1>1, <1>7
<1>9. n <= Atleast0(w - cost)
  BY <1>1, <1>2, <1>3, RateFacts DEF Atleast0
<1>10. Atleast0(w - cost) <= n + Gain(l)
  <2>1. Gain(l) = Gain(meter[k].lost) + Gain(d) /\ Gain(l) \in Nat
    BY <1>1, <1>2, <1>7, GainSum, GainOrder
  <2> QED BY <1>1, <1>2, <1>3, <2>1, RateFacts DEF Atleast0
<1> HIDE DEF n, l, r
<1>11. meter'[k] = r /\ \A x \in Key \ {k} : meter'[x] = meter[x]
  BY <1>1, <1>5 DEF HistoryInv
<1>12. KeyInv(store.map, k)'
  BY <1>1, <1>6, <1>7, <1>9, <1>10, <1>11, MemBucketKey DEF r, w
<1>13. OnlyKey(Swept.map, k)
  BY <1>6, <1>11 DEF OnlyKey, BucketSet, BucketRollback
<1>14. StoreInv(store)'
  BY <1>1, <1>12, <1>13, SweptOK, MemStoreStep
<1>15. HistoryInv'
  <2>1. issued' \in [Key -> SUBSET Cost]
    BY <1>1 DEF HistoryInv, BucketRollback
  <2> QED BY <1>1, <1>5, <1>6, <1>8, <2>1, HistoryStep DEF BucketRollback
<1> QED BY <1>14, <1>15

\* A step that changes no history, from a map that satisfies the invariant.
LEMMA MemQuietStep ==
    ASSUME IInv, backend = "memory", UNCHANGED <<now, backend, kind>>,
           UNCHANGED <<grants, meter, issued, promise>>, PruneOK(store'),
           \A k \in Key : KeyInv(store'.map, k)
    PROVE  StoreInv(store)' /\ HistoryInv'
<1>1. ASSUME NEW k \in Key PROVE KeyInv(store.map, k)'
  <2>1. Carried(store'.map, k)
    BY DEF Carried
  <2> QED BY <2>1, KeyCarried
<1>2. StoreInv(store)'
  BY <1>1 DEF StoreInv, PruneOK
<1>3. HistoryInv'
  BY Shapes DEF HistoryInv
<1> QED BY <1>2, <1>3

LEMMA MemTokensStep ==
    ASSUME IInv, backend = "memory", UNCHANGED <<now, backend, kind>>,
           NEW k \in Key, kind[k] = "tokens", NEW cost \in Cost,
           MemConsumeTokens(k, cost) \/ MemRollbackTokens(k, cost)
    PROVE  StoreInv(store)' /\ HistoryInv'
<1> DEFINE u == LoadAt(Swept.map, k, now)
           n == Tokens(Swept.map, k, now)
<1>1. k \in Bucket
  BY DEF Bucket, Keys
<1>2. /\ now \in Nat /\ u \in 0..Capacity /\ PruneOK(Swept) /\ cost \in Nat \ {0}
      /\ k \in DOMAIN Swept.map => EntryOK(k, Swept.map[k])
      /\ \A x \in Key : KeyInv(Swept.map, x)
  BY <1>1, MemBounds, RateFacts
<1>3. n = Capacity - u
  <2>1. now \in Int
    BY <1>2
  <2> QED BY <1>1, <1>2, <2>1, LoadFacts
<1> HIDE DEF u, n
<1>4. CASE n >= cost /\ store' = SetTokens(Swept, k, n - cost) /\ BucketGrant(k, cost, now)
  <2>1. n - cost \in 0..Capacity /\ Capacity - (n - cost) = u + cost /\ u + cost <= Capacity
    BY <1>2, <1>3, <1>4, RateFacts
  <2>2. PruneOK(store') /\ BucketSet(Swept.map, store'.map, k, u + cost, now)
    BY <1>2, <1>4, <2>1, SetTokensSets
  <2> QED BY <1>1, <1>4, <2>1, <2>2, MemGrant DEF u
<1>5. CASE /\ n < cost /\ store' = SetTokens(Swept, k, n)
           /\ BucketDeny(k, cost, now, Ceil(cost - n, Rate))
  <2>1. n \in 0..Capacity /\ Capacity - n = u /\ u + cost > Capacity
        /\ cost - n = u + cost - Capacity
    BY <1>2, <1>3, <1>5, RateFacts
  <2>2. PruneOK(store') /\ BucketSet(Swept.map, store'.map, k, u, now)
    BY <1>2, <1>5, <2>1, SetTokensSets
  <2> QED BY <1>1, <1>5, <2>1, <2>2, MemDeny DEF u
<1>6. CASE MemRollbackTokens(k, cost) /\ k \in DOMAIN Swept.map
  <2> DEFINE b == Swept.map[k]
             a == TokensReturned(b, cost)
  <2>1. b.tokens \in 0..Capacity /\ Used(k, b) = Capacity - b.tokens
    BY <1>2, <1>6 DEF EntryOK, Used
  <2>2. a \in 0..Capacity /\ Capacity - a = Atleast0(Used(k, b) - cost)
    BY <1>2, <2>1, RateFacts DEF TokensReturned, Least, Atleast0
  <2>3. store' = SetTokens(Swept, k, a) /\ BucketRollback(k, cost, now, TRUE)
    BY <1>6 DEF MemRollbackTokens
  <2> HIDE DEF a
  <2>4. PruneOK(store') /\ BucketSet(Swept.map, store'.map, k, Capacity - a, now)
    BY <1>2, <2>2, <2>3, SetTokensSets
  <2> QED BY <1>1, <1>6, <2>2, <2>3, <2>4, MemRollback
<1>7. CASE MemRollbackTokens(k, cost) /\ k \notin DOMAIN Swept.map
  <2>1. store' = Swept /\ UNCHANGED <<grants, meter, issued, promise>>
    BY <1>7 DEF MemRollbackTokens, BucketRollback
  <2> QED BY <1>2, <2>1, MemQuietStep
<1> QED BY <1>4, <1>5, <1>6, <1>7 DEF MemConsumeTokens, n

LEMMA MemLeaksStep ==
    ASSUME IInv, backend = "memory", UNCHANGED <<now, backend, kind>>,
           NEW k \in Key, kind[k] = "leaks", NEW cost \in Cost,
           MemConsumeLeaks(k, cost) \/ MemRollbackLeaks(k, cost)
    PROVE  StoreInv(store)' /\ HistoryInv'
<1> DEFINE u == LoadAt(Swept.map, k, now)
           n == Level(Swept.map, k, now)
<1>1. k \in Bucket
  BY DEF Bucket, Keys
<1>2. /\ now \in Nat /\ u \in 0..Capacity /\ PruneOK(Swept) /\ cost \in Nat \ {0}
      /\ k \in DOMAIN Swept.map => EntryOK(k, Swept.map[k])
      /\ \A x \in Key : KeyInv(Swept.map, x)
  BY <1>1, MemBounds, RateFacts
<1>3. n = u
  <2>1. now \in Int
    BY <1>2
  <2> QED BY <1>1, <1>2, <2>1, LoadFacts
<1> HIDE DEF u, n
<1>4. CASE /\ n + cost <= Capacity /\ store' = SetLevel(Swept, k, n + cost)
           /\ BucketGrant(k, cost, now)
  <2>1. u + cost \in 0..Capacity
    BY <1>2, <1>3, <1>4, RateFacts
  <2>2. PruneOK(store') /\ BucketSet(Swept.map, store'.map, k, u + cost, now)
    BY <1>2, <1>3, <1>4, <2>1, SetLevelSets
  <2> QED BY <1>1, <1>3, <1>4, <2>2, MemGrant DEF u
<1>5. CASE /\ n + cost > Capacity /\ store' = SetLevel(Swept, k, n)
           /\ BucketDeny(k, cost, now, Ceil(n + cost - Capacity, Rate))
  <2>1. PruneOK(store') /\ BucketSet(Swept.map, store'.map, k, u, now)
    BY <1>2, <1>3, <1>5, SetLevelSets
  <2> QED BY <1>1, <1>3, <1>5, <2>1, MemDeny DEF u
<1>6. CASE MemRollbackLeaks(k, cost) /\ k \in DOMAIN Swept.map
  <2> DEFINE b == Swept.map[k]
             a == LevelReturned(b, cost)
  <2>1. b.level \in 0..Capacity /\ Used(k, b) = b.level
    BY <1>2, <1>6 DEF EntryOK, Used
  <2>2. a \in 0..Capacity /\ a = Atleast0(Used(k, b) - cost)
    BY <1>2, <2>1, RateFacts DEF LevelReturned, Atleast0
  <2>3. store' = SetLevel(Swept, k, a) /\ BucketRollback(k, cost, now, TRUE)
    BY <1>6 DEF MemRollbackLeaks
  <2> HIDE DEF a
  <2>4. PruneOK(store') /\ BucketSet(Swept.map, store'.map, k, a, now)
    BY <1>2, <2>2, <2>3, SetLevelSets
  <2> QED BY <1>1, <1>6, <2>2, <2>3, <2>4, MemRollback
<1>7. CASE MemRollbackLeaks(k, cost) /\ k \notin DOMAIN Swept.map
  <2>1. store' = Swept /\ UNCHANGED <<grants, meter, issued, promise>>
    BY <1>7 DEF MemRollbackLeaks, BucketRollback
  <2> QED BY <1>2, <2>1, MemQuietStep
<1> QED BY <1>4, <1>5, <1>6, <1>7 DEF MemConsumeLeaks, n

LEMMA MemCleanupStep ==
    ASSUME IInv, backend = "memory", UNCHANGED <<now, backend, kind>>, MemLimitCleanup
    PROVE  StoreInv(store)' /\ HistoryInv'
<1>1. store' = CleanedUp(store) /\ UNCHANGED <<grants, meter, issued, promise>>
  BY DEF MemLimitCleanup
<1> QED BY <1>1, CleanedUpOK, MemQuietStep

-----------------------------------------------------------------------------
(* Resets, of either store.                                                 *)

LEMMA ForgottenKey ==
    ASSUME IInv, NEW k \in Key, UNCHANGED <<now, backend, kind>>, k \notin DOMAIN store'.map,
           grants'[k] = [grants[k] EXCEPT !.units = {}],
           meter'[k] = [meter[k] EXCEPT !.units = 0],
           promise'[k] = promise[k]
    PROVE  KeyInv(store.map, k)'
<1>1. KeyInv(store.map, k) /\ now \in Nat /\ backend \in Backend
  BY Shapes
<1>2. /\ meter[k] \in [units : Nat, clock : 0..now, slip : Nat, lost : Nat]
      /\ grants[k] \in [units : SUBSET Unit, late : Nat]
      /\ promise[k] \in [cost : Cost \cup {0}, at : Nat]
  BY Shapes DEF HistoryInv
<1>3. /\ meter'[k].units = 0 /\ meter'[k].clock = meter[k].clock
      /\ meter'[k].slip = meter[k].slip /\ meter'[k].lost = meter[k].lost
      /\ grants'[k].units = {}
  BY <1>2
<1>4. LoadAt(store.map, k, now)' = 0 /\ LoadAt(store.map, k, promise[k].at)' = 0
      /\ Entries(store.map, k)' = {} /\ InWindow(Entries(store.map, k), promise[k].at)' = {}
  BY DEF LoadAt, Entries, InWindow
<1>5. MeterInv(store.map, k)'
  <2>1. /\ Gain(meter[k].lost) \in Nat /\ Gain(meter[k].slip) \in Nat
        /\ Gain(meter[k].clock) \in Int /\ Gain(now) \in Int
    BY <1>1, <1>2, GainOrder, GainInt
  <2>2. Gain(meter[k].clock) <= Gain(now)
    BY <1>1, <1>2, GainOrder
  <2>3. ASSUME k \in Bucket, backend = "memory" PROVE MemMeter(store.map, k)'
    <3>1. meter[k].clock = now /\ meter[k].slip = 0
      BY <1>1, <2>3 DEF KeyInv, MeterInv, MemMeter
    <3> QED BY <1>3, <1>4, <2>1, <3>1 DEF MemMeter
  <2>4. ASSUME k \in Bucket, backend = "redis" PROVE RedisMeter(store.map, k)'
    BY <1>2, <1>3, <2>1, <2>2, RateFacts DEF RedisMeter
  <2> QED BY <2>3, <2>4 DEF MeterInv, Bucket, Keys
<1>6. WindowInv(store.map, k)'
  <2>1. \A t : Passed(k, t)' = {}
    BY <1>3 DEF Passed
  <2>2. IsFiniteSet({}) /\ Cardinality({}) = 0 /\ 0 <= Limit
    BY FS_EmptySet, RateFacts
  <2> QED BY <1>3, <1>4, <2>1, <2>2 DEF WindowInv
<1>7. RetryInv(store.map, k)'
  <2> SUFFICES ASSUME promise[k] # NoPromise PROVE RetryInv(store.map, k)'
    BY DEF RetryInv
  <2>1. Cardinality({}) = 0 /\ 0 < Limit /\ promise[k].at \in Int /\ promise[k].cost \in Int
    <3>1. Cost \cup {0} \subseteq Int
      BY RateFacts
    <3> QED BY <1>2, <3>1, FS_EmptySet, RateFacts
  <2>2. CASE k \in Bucket /\ LoadAt(store.map, k, promise[k].at) + promise[k].cost <= Capacity
    <3>1. LoadAt(store.map, k, promise[k].at) \in Nat
      BY <1>1, <2>1, <2>2, LoadFacts DEF KeyInv
    <3>2. 0 + promise[k].cost <= Capacity
      BY <2>1, <2>2, <3>1, RateFacts
    <3> QED BY <1>4, <2>2, <3>2 DEF RetryInv, Bucket, Keys
  <2>3. CASE kind[k] = "window" /\ promise[k].cost = 1
    BY <1>4, <2>1, <2>3 DEF RetryInv
  <2> QED BY <1>1, <2>2, <2>3 DEF KeyInv, RetryInv
<1> QED BY <1>5, <1>6, <1>7 DEF KeyInv

\* The step removes the keys K from the store.
Gone(K) ==
    /\ DOMAIN store'.map = DOMAIN store.map \ K
    /\ \A x \in DOMAIN store'.map : store'.map[x] = store.map[x]

LEMMA ForgetStep ==
    ASSUME IInv, NEW K, Forget(K), UNCHANGED <<now, backend, kind>>, Gone(K)
    PROVE  (\A x \in Key : KeyInv(store.map, x)') /\ HistoryInv'
<1>1. /\ DOMAIN store'.map = DOMAIN store.map \ K
      /\ \A x \in DOMAIN store'.map : store'.map[x] = store.map[x]
  BY DEF Gone
<1>2. ASSUME NEW x \in Key PROVE KeyInv(store.map, x)'
  <2>1. CASE x \in K
    BY <1>1, <2>1, ForgottenKey DEF Forget
  <2>2. CASE x \notin K
    <3>1. Carried(store.map, x)
      BY <1>1, <2>2 DEF Carried, Forget
    <3> QED BY <3>1, Shapes, KeyCarried
  <2> QED BY <2>1, <2>2
<1>3. HistoryInv'
  <2>1. HistoryInv
    BY Shapes
  <2>2. ASSUME NEW x \in Key PROVE grants'[x] \in [units : SUBSET Unit, late : Nat]
    BY <2>1 DEF HistoryInv, Forget
  <2>3. ASSUME NEW x \in Key
        PROVE  meter'[x] \in [units : Nat, clock : 0..now, slip : Nat, lost : Nat]
    BY <2>1 DEF HistoryInv, Forget
  <2> QED BY <2>1, <2>2, <2>3 DEF HistoryInv, Forget
<1> QED BY <1>2, <1>3

LEMMA ForgottenStore ==
    ASSUME IInv, backend = "memory", UNCHANGED <<now, backend, kind>>,
           NEW K, PruneOK(store'), Gone(K), Forget(K)
    PROVE  StoreInv(store)' /\ HistoryInv'
<1>1. (\A x \in Key : KeyInv(store.map, x)') /\ HistoryInv'
  BY ForgetStep
<1> QED BY <1>1 DEF StoreInv, PruneOK

LEMMA MemLimitResetStep ==
    ASSUME IInv, backend = "memory", UNCHANGED <<now, backend, kind>>,
           NEW k \in Key, MemLimitReset(k)
    PROVE  StoreInv(store)' /\ HistoryInv'
<1>1. PruneOK(store)
  BY StorePruneOK
<1>2. PruneOK(store') /\ Forget({k})
  BY <1>1, DropOK DEF MemLimitReset
<1>3. k \notin DOMAIN store'.map /\ Elsewhere(store.map, store'.map, k)
  BY <1>1, DropOK DEF MemLimitReset
<1>4. Gone({k})
  BY <1>3 DEF Gone, Elsewhere
<1> QED BY <1>2, <1>4, ForgottenStore

LEMMA MemLimitResetPrefixStep ==
    ASSUME IInv, backend = "memory", UNCHANGED <<now, backend, kind>>,
           NEW K, MemLimitResetPrefix(K)
    PROVE  StoreInv(store)' /\ HistoryInv'
<1> DEFINE m == Without(store.map, K)
<1>1. PruneOK(store)
  BY StorePruneOK
<1>2. DOMAIN m = DOMAIN store.map \ K /\ \A x \in DOMAIN m : m[x] = store.map[x]
  BY DEF Without, Restrict
<1>3. DOMAIN m \subseteq Key /\ \A x \in DOMAIN m : m[x].expiresAt \in Nat
  BY <1>1, <1>2 DEF PruneOK
<1>4. store' = (IF m = store.map THEN store ELSE [map |-> m, pruneAt |-> NextPruneAt(m)])
      /\ Forget(K)
  BY DEF MemLimitResetPrefix
<1> HIDE DEF m
<1>5. PruneOK([map |-> m, pruneAt |-> NextPruneAt(m)])
  BY <1>3, NextPruneAtOK
<1>6. store'.map = m /\ PruneOK(store')
  BY <1>1, <1>4, <1>5
<1>7. Gone(K)
  BY <1>2, <1>6 DEF Gone
<1> QED BY <1>4, <1>6, <1>7, ForgottenStore

-----------------------------------------------------------------------------
(* The sliding windows, of either store.                                    *)

\* X is what the map m holds for window k; in Redis no key expires before its
\* units leave the window.
WindowSet(m, k, X) ==
    /\ k \in DOMAIN m => /\ m[k].expiresAt \in Nat /\ m[k].entries = X /\ X # {}
                         /\ backend = "redis" =>
                                \A e \in X : e.at + Window <= m[k].expiresAt
    /\ k \notin DOMAIN m => X = {}

LEMMA WindowKey ==
    ASSUME UNCHANGED <<now, backend, kind>>, NEW k \in Key, kind[k] = "window",
           NEW X, WindowSet(store'.map, k, X), X \subseteq grants'[k].units,
           IsFiniteSet(grants'[k].units),
           \A e \in grants'[k].units : e.at <= now /\ (e.at > now - Window => e \in X),
           Cardinality(X) <= Limit,
           \A t \in 0..now : Cardinality(Passed(k, t)') <= Limit,
           promise'[k] # NoPromise =>
               promise'[k].cost = 1 /\ Cardinality(InWindow(X, promise'[k].at)) < Limit
    PROVE  KeyInv(store.map, k)'
<1>1. (k \notin Bucket)' /\ kind'[k] = "window" /\ now' = now /\ backend' = backend
  BY DEF Bucket, Keys
<1>2. Entries(store.map, k)' = X
  BY DEF Entries, WindowSet
<1>3. (k \in DOMAIN store.map => EntryOK(k, store.map[k]))'
  BY <1>1 DEF EntryOK, WindowSet
<1>4. MeterInv(store.map, k)'
  BY <1>1 DEF MeterInv
<1>5. ASSUME backend = "redis", NEW e \in X PROVE e.at + Window <= store'.map[k].expiresAt
  BY <1>5 DEF WindowSet
<1>6. WindowInv(store.map, k)'
  BY <1>1, <1>2, <1>5 DEF WindowInv
<1>7. InWindow(Entries(store.map, k), promise[k].at)' = InWindow(X, promise'[k].at)
  BY <1>2 DEF InWindow
<1>8. RetryInv(store.map, k)'
  BY <1>1, <1>7 DEF RetryInv
<1> QED BY <1>3, <1>4, <1>6, <1>8 DEF KeyInv

\* What the steps need of the window k in a map m.
LEMMA WindowFacts ==
    ASSUME HistoryInv, now \in Nat, NEW k \in Key, kind[k] = "window",
           NEW m, KeyInv(m, k), NEW t \in 0..now
    PROVE  /\ grants[k] \in [units : SUBSET Unit, late : Nat]
           /\ IsFiniteSet(grants[k].units)
           /\ \A e \in grants[k].units : e.at \in Nat /\ e.at <= now
           /\ Entries(m, k) \subseteq grants[k].units /\ IsFiniteSet(Entries(m, k))
           /\ InWindow(Entries(m, k), t) \subseteq Entries(m, k)
           /\ IsFiniteSet(InWindow(Entries(m, k), t))
           /\ Cardinality(InWindow(Entries(m, k), t)) \in Nat
           /\ Cardinality(InWindow(Entries(m, k), t)) <= Limit
           /\ \A e \in grants[k].units :
                  e.at > now - Window => e \in InWindow(Entries(m, k), t)
<1> DEFINE U == grants[k].units
           E == Entries(m, k)
           F == InWindow(E, t)
<1>1. grants[k] \in [units : SUBSET Unit, late : Nat]
  BY DEF HistoryInv
<1>2. U \subseteq Unit /\ \A e \in U : e.at \in Nat
  BY <1>1 DEF Unit
<1>3. /\ IsFiniteSet(U) /\ Cardinality(E) <= Limit
      /\ \A e \in U : e.at <= now /\ (e.at > now - Window => e \in E)
  BY DEF KeyInv, WindowInv
<1>4. E \subseteq U
  BY DEF KeyInv, EntryOK, Entries
<1>5. F \subseteq E
  BY DEF InWindow
<1>6. \A e \in U : e.at > now - Window => e \in F
  <2> TAKE e \in U
  <2> HAVE e.at > now - Window
  <2>1. e \in E /\ e.at \in Nat
    BY <1>2, <1>3
  <2>2. e.at > t - Window
    BY <2>1, RateFacts
  <2> QED BY <2>1, <2>2 DEF InWindow
<1> HIDE DEF U, E, F
<1>7. IsFiniteSet(E)
  BY <1>3, <1>4, FS_Subset
<1>8. IsFiniteSet(F) /\ Cardinality(F) <= Cardinality(E)
  BY <1>5, <1>7, FS_Subset
<1>9. Cardinality(E) \in Nat /\ Cardinality(F) \in Nat
  BY <1>7, <1>8, FS_CardinalityType
<1>10. Cardinality(F) <= Limit
  BY <1>3, <1>8, <1>9, RateFacts
<1> QED BY <1>1, <1>2, <1>3, <1>4, <1>5, <1>6, <1>7, <1>8, <1>9, <1>10 DEF U, E, F

\* A grant adds as many units as it costs.
LEMMA NewUnitsFacts ==
    ASSUME NEW k \in Key, NEW cost \in Nat, NEW t \in Nat, FreeNumbers(k) # {}
    PROVE  /\ NewUnits(k, cost, t) \subseteq Unit
           /\ \A e \in NewUnits(k, cost, t) : e.at = t
           /\ IsFiniteSet(NewUnits(k, cost, t))
           /\ Cardinality(NewUnits(k, cost, t)) \in Nat
           /\ Cardinality(NewUnits(k, cost, t)) <= cost
           /\ cost # 0 => NewUnits(k, cost, t) # {}
<1> DEFINE g == Min(FreeNumbers(k))
           N == NewUnits(k, cost, t)
           f == [i \in 1..cost |-> [grant |-> g, unit |-> i, at |-> t]]
<1>1. g \in 1..MaxGrants
  <2>1. FreeNumbers(k) \subseteq 1..MaxGrants /\ 1..MaxGrants \subseteq Nat
    BY RateFacts DEF FreeNumbers
  <2>2. FreeNumbers(k) \subseteq Nat
    BY <2>1
  <2>3. g \in FreeNumbers(k)
    BY <2>2, MinOfTimes
  <2> QED BY <2>1, <2>3
<1> HIDE DEF g
<1>2. N = {[grant |-> g, unit |-> i, at |-> t] : i \in 1..cost}
  BY DEF NewUnits, g
<1>3. N \subseteq Unit /\ \A e \in N : e.at = t
  <2>1. ASSUME NEW i \in 1..cost
        PROVE  [grant |-> g, unit |-> i, at |-> t] \in Unit
    BY <1>1 DEF Unit
  <2> QED BY <1>2, <2>1
<1>4. f \in Surjection(1..cost, N)
  BY <1>2 DEF Surjection
<1>9. ASSUME cost # 0 PROVE N # {}
  <2>1. 1 \in 1..cost
    BY <1>9
  <2> QED BY <1>2, <2>1
<1>5. 1 \in Int /\ cost \in Int
  OBVIOUS
<1>6. IsFiniteSet(1..cost) /\ Cardinality(1..cost) = cost
  <2>1. IsFiniteSet(1..cost) /\ Cardinality(1..cost) = (IF 1 > cost THEN 0 ELSE cost - 1 + 1)
    BY <1>5, FS_Interval
  <2> QED BY <2>1
<1> HIDE DEF N, f
<1>7. IsFiniteSet(N) /\ Cardinality(N) <= cost
  BY <1>4, <1>6, FS_Surjection
<1>8. Cardinality(N) \in Nat
  BY <1>7, FS_CardinalityType
<1> QED BY <1>3, <1>7, <1>8, <1>9 DEF N

\* A grant made at t, which may be late: the windows that end before t only
\* lose units, and the others hold no more than the store does.
LEMMA WindowGrantKey ==
    ASSUME HistoryInv, now \in Nat, UNCHANGED <<now, backend, kind>>,
           NEW k \in Key, kind[k] = "window", NEW m, KeyInv(m, k), NEW t \in 0..now,
           NEW cost \in Cost, FreeNumbers(k) # {},
           Cardinality(InWindow(Entries(m, k), t)) + cost <= Limit,
           WindowSet(store'.map, k, InWindow(Entries(m, k), t) \cup NewUnits(k, cost, t)),
           WindowGrant(k, NewUnits(k, cost, t), t)
    PROVE  KeyInv(store.map, k)' /\ HistoryInv'
           /\ \A x \in Key \ {k} : grants'[x] = grants[x] /\ promise'[x] = promise[x]
<1> DEFINE U == grants[k].units
           E == InWindow(Entries(m, k), t)
           N == NewUnits(k, cost, t)
           late == Most(grants[k].late, now - t)
           X == E \cup N
<1>1. /\ grants[k] \in [units : SUBSET Unit, late : Nat] /\ IsFiniteSet(U)
      /\ \A e \in U : e.at \in Nat /\ e.at <= now
      /\ E \subseteq U /\ IsFiniteSet(E) /\ Cardinality(E) \in Nat
      /\ \A e \in U : e.at > now - Window => e \in E
  BY WindowFacts
<1>2. cost \in Nat /\ t \in Nat /\ t <= now
  BY RateFacts
<1>3. /\ N \subseteq Unit /\ \A e \in N : e.at = t
      /\ IsFiniteSet(N) /\ Cardinality(N) \in Nat /\ Cardinality(N) <= cost
  BY <1>2, NewUnitsFacts
<1>4. late \in Nat /\ late >= grants[k].late /\ late >= now - t
  BY <1>1, <1>2 DEF Most
<1>5. grants' = [grants EXCEPT ![k] = [units |-> U \cup N, late |-> late]]
  BY DEF WindowGrant
<1>6. /\ promise' \in [Key -> [cost : Cost \cup {0}, at : Nat]]
      /\ promise'[k] = NoPromise
      /\ \A x \in Key \ {k} : promise'[x] = promise[x]
  BY NoPromiseLeft DEF WindowGrant
<1>7. Cardinality(E) + cost <= Limit /\ WindowSet(store'.map, k, X)
  OBVIOUS
<1> HIDE DEF E, N, late, X
<1>8. grants'[k] = [units |-> U \cup N, late |-> late] /\ \A x \in Key \ {k} : grants'[x] = grants[x]
  BY <1>5 DEF HistoryInv
<1>9. grants'[k].units = U \cup N /\ grants'[k].late = late
  BY <1>8
<1>10. IsFiniteSet(X) /\ Cardinality(X) <= Limit /\ X \subseteq U \cup N
  <2>1. IsFiniteSet(E \cup N)
        /\ Cardinality(E \cup N) = Cardinality(E) + Cardinality(N) - Cardinality(E \cap N)
    BY <1>1, <1>3, FS_Union
  <2>2. IsFiniteSet(E \cap N)
    BY <1>1, FS_Subset
  <2>3. Cardinality(E \cap N) \in Nat
    BY <2>2, FS_CardinalityType
  <2>4. Cardinality(E \cup N) <= Limit
    BY <1>1, <1>2, <1>3, <1>7, <2>1, <2>3, RateFacts
  <2> QED BY <1>1, <2>1, <2>4 DEF X
<1>11. IsFiniteSet(U \cup N)
  BY <1>1, <1>3, FS_Union
<1>12. \A e \in U \cup N : e.at <= now /\ (e.at > now - Window => e \in X)
  BY <1>1, <1>2, <1>3 DEF X
<1>13. ASSUME NEW p \in 0..now PROVE Cardinality(Passed(k, p)') <= Limit
  <2> DEFINE P == {e \in U \cup N : e.at <= p /\ e.at > p - (Window - late)}
  <2>1. Passed(k, p)' = P
    BY <1>9 DEF Passed
  <2>2. p \in Nat
    OBVIOUS
  <2>3. CASE p < t
    <3>1. P \subseteq Passed(k, p)
      <4>1. ASSUME NEW e \in P PROVE e \in Passed(k, p)
        <5>1. e \in U /\ e.at \in Nat
          BY <1>1, <1>2, <1>3, <2>2, <2>3
        <5>2. e.at > p - (Window - grants[k].late)
          BY <1>1, <1>4, <2>2, <5>1, RateFacts
        <5> QED BY <5>1, <5>2 DEF Passed
      <4> QED BY <4>1
    <3>2. IsFiniteSet(Passed(k, p)) /\ Cardinality(Passed(k, p)) <= Limit
      <4>1. Passed(k, p) \subseteq U
        BY DEF Passed
      <4>2. IsFiniteSet(Passed(k, p))
        BY <1>1, <4>1, FS_Subset
      <4> QED BY <4>2 DEF KeyInv, WindowInv
    <3> HIDE DEF P
    <3>3. IsFiniteSet(P) /\ Cardinality(P) <= Cardinality(Passed(k, p))
      BY <3>1, <3>2, FS_Subset
    <3>4. Cardinality(P) \in Nat /\ Cardinality(Passed(k, p)) \in Nat
      BY <3>2, <3>3, FS_CardinalityType
    <3> QED BY <2>1, <3>2, <3>3, <3>4, RateFacts
  <2>4. CASE p >= t
    <3>1. P \subseteq X
      <4>1. ASSUME NEW e \in P PROVE e \in X
        <5>1. e.at \in Nat /\ (e \in U \/ e \in N)
          BY <1>1, <1>2, <1>3
        <5>2. e.at > now - Window
          BY <1>2, <1>4, <2>2, <2>4, <5>1, RateFacts
        <5> QED BY <1>1, <5>1, <5>2 DEF X
      <4> QED BY <4>1
    <3> HIDE DEF P
    <3>2. IsFiniteSet(P) /\ Cardinality(P) <= Cardinality(X)
      BY <1>10, <3>1, FS_Subset
    <3>3. Cardinality(P) \in Nat /\ Cardinality(X) \in Nat
      BY <1>10, <3>2, FS_CardinalityType
    <3> QED BY <1>10, <2>1, <3>2, <3>3, RateFacts
  <2> QED BY <1>2, <2>2, <2>3, <2>4
<1>14. KeyInv(store.map, k)'
  BY <1>6, <1>7, <1>9, <1>10, <1>11, <1>12, <1>13, WindowKey
<1>15. HistoryInv'
  <2>1. [units |-> U \cup N, late |-> late] \in [units : SUBSET Unit, late : Nat]
    BY <1>1, <1>3, <1>4
  <2>2. grants' \in [Key -> [units : SUBSET Unit, late : Nat]]
    BY <1>5, <2>1 DEF HistoryInv
  <2> QED BY <1>6, <2>2 DEF HistoryInv, WindowGrant
<1> QED BY <1>6, <1>8, <1>14, <1>15

\* A denial: the promise of a first retry is kept when the oldest unit leaves.
LEMMA WindowDenyKey ==
    ASSUME HistoryInv, now \in Nat, UNCHANGED <<now, backend, kind>>,
           NEW k \in Key, kind[k] = "window", NEW m, KeyInv(m, k), NEW t \in 0..now,
           NEW cost \in Cost, Cardinality(InWindow(Entries(m, k), t)) + cost > Limit,
           WindowSet(store'.map, k, InWindow(Entries(m, k), t)),
           WindowDeny(k, cost, t, WindowRetry(InWindow(Entries(m, k), t), t))
    PROVE  KeyInv(store.map, k)' /\ HistoryInv'
           /\ \A x \in Key \ {k} : grants'[x] = grants[x] /\ promise'[x] = promise[x]
<1> DEFINE U == grants[k].units
           E == InWindow(Entries(m, k), t)
           p == t + WindowRetry(E, t)
<1>1. /\ grants[k] \in [units : SUBSET Unit, late : Nat] /\ IsFiniteSet(U)
      /\ \A e \in U : e.at \in Nat /\ e.at <= now
      /\ Entries(m, k) \subseteq U /\ IsFiniteSet(Entries(m, k))
      /\ E \subseteq Entries(m, k) /\ IsFiniteSet(E)
      /\ Cardinality(E) \in Nat /\ Cardinality(E) <= Limit
      /\ \A e \in U : e.at > now - Window => e \in E
  BY WindowFacts
<1>2. /\ cost \in Nat \ {0} /\ t \in Nat /\ grants' = grants /\ meter' = meter
      /\ issued' = issued /\ promise \in [Key -> [cost : Cost \cup {0}, at : Nat]]
  BY RateFacts DEF WindowDeny, HistoryInv
<1>3. Cardinality(E) + cost > Limit /\ WindowSet(store'.map, k, E)
      /\ IF cost = 1 THEN Promise(k, cost, p) ELSE UNCHANGED promise
  BY DEF WindowDeny
<1> HIDE DEF E, p
<1>4. /\ promise' \in [Key -> [cost : Cost \cup {0}, at : Nat]]
      /\ \A x \in Key \ {k} : promise'[x] = promise[x]
      /\ promise'[k] # NoPromise =>
             promise'[k].cost = 1 /\ Cardinality(InWindow(E, promise'[k].at)) < Limit
  <2>1. CASE cost = 1
    <3>1. Cardinality(E) = Limit /\ Limit \in Nat \ {0}
      BY <1>1, <1>3, <2>1, RateFacts
    <3>2. E # {}
      BY <3>1, FS_EmptySet
    <3> DEFINE T == {e.at : e \in E}
               first == Min(T)
    <3>3. T \subseteq Nat /\ T # {}
      BY <1>1, <3>2
    <3>4. p = t + Atleast0(first + Window - t)
      BY <3>2 DEF p, WindowRetry
    <3> HIDE DEF T
    <3>5. first \in T /\ first \in Nat
      BY <3>3, MinOfTimes
    <3> HIDE DEF first
    <3>6. PICK o \in E : o.at = first
      BY <3>5 DEF T
    <3>7. p \in Nat /\ p >= first + Window
      BY <1>2, <3>4, <3>5, RateFacts DEF Atleast0
    <3>8. InWindow(E, p) \subseteq E \ {o}
      <4>1. ~(o.at > p - Window)
        BY <3>5, <3>6, <3>7, RateFacts
      <4> QED BY <4>1 DEF InWindow
    <3>9. IsFiniteSet(E \ {o}) /\ Cardinality(E \ {o}) = Cardinality(E) - 1
      BY <1>1, FS_RemoveElement
    <3>10. IsFiniteSet(InWindow(E, p)) /\ Cardinality(InWindow(E, p)) <= Cardinality(E \ {o})
      BY <3>8, <3>9, FS_Subset
    <3>11. Cardinality(InWindow(E, p)) \in Nat
      BY <3>10, FS_CardinalityType
    <3>12. Cardinality(InWindow(E, p)) < Limit
      BY <1>1, <3>1, <3>9, <3>10, <3>11
    <3>13. promise' = [promise EXCEPT ![k] = [cost |-> cost, at |-> p]]
      BY <1>3, <2>1 DEF Promise
    <3>14. promise'[k] = [cost |-> cost, at |-> p]
      BY <1>2, <3>13
    <3>15. promise'[k].cost = 1 /\ promise'[k].at = p
      BY <2>1, <3>14
    <3>16. promise' \in [Key -> [cost : Cost \cup {0}, at : Nat]]
      BY <1>2, <3>7, <3>13
    <3> QED BY <1>2, <3>12, <3>13, <3>15, <3>16
  <2>2. CASE cost # 1
    <3>1. promise' = promise
      BY <1>3, <2>2
    <3>2. ASSUME promise[k] # NoPromise
          PROVE  promise[k].cost = 1 /\ Cardinality(InWindow(E, promise[k].at)) < Limit
      <4> DEFINE at == promise[k].at
                 D == Entries(m, k)
      <4>1. k \notin Bucket
        BY DEF Bucket, Keys
      <4>2. promise[k].cost = 1 /\ Cardinality(InWindow(D, at)) < Limit
        BY <3>2, <4>1 DEF KeyInv, RetryInv
      <4>3. promise[k] \in [cost : Cost \cup {0}, at : Nat]
        BY <1>2
      <4>4. at \in Int /\ at <= at
        BY <4>3
      <4>5. \A e \in D : e.at \in Int
        BY <1>1
      <4>6. IsFiniteSet(D) /\ E \subseteq D
        BY <1>1
      <4> HIDE DEF at, D
      <4>7. /\ Cardinality(InWindow(E, at)) <= Cardinality(InWindow(D, at))
            /\ Cardinality(InWindow(E, at)) \in Nat /\ Cardinality(InWindow(D, at)) \in Nat
        BY <4>4, <4>5, <4>6, FewerInWindow
      <4>8. Cardinality(InWindow(E, at)) < Limit
        BY <4>2, <4>7, RateFacts
      <4> QED BY <4>2, <4>8 DEF at
    <3> QED BY <1>2, <3>1, <3>2
  <2> QED BY <2>1, <2>2
<1>5. \A x \in 0..now : Cardinality(Passed(k, x)') <= Limit
  <2>1. \A x : Passed(k, x)' = Passed(k, x)
    BY <1>2 DEF Passed
  <2> QED BY <2>1 DEF KeyInv, WindowInv
<1>6. KeyInv(store.map, k)'
  BY <1>1, <1>2, <1>3, <1>4, <1>5, WindowKey
<1>7. HistoryInv'
  BY <1>2, <1>4 DEF HistoryInv
<1> QED BY <1>2, <1>4, <1>6, <1>7

\* A rollback only removes units.
LEMMA WindowRollbackKey ==
    ASSUME HistoryInv, now \in Nat, UNCHANGED <<now, backend, kind>>,
           NEW k \in Key, kind[k] = "window", NEW m, KeyInv(m, k), NEW gone,
           WindowSet(store'.map, k, Entries(m, k) \ gone),
           grants' = [grants EXCEPT ![k].units = @ \ gone],
           UNCHANGED <<meter, issued, promise>>
    PROVE  KeyInv(store.map, k)' /\ HistoryInv'
           /\ \A x \in Key \ {k} : grants'[x] = grants[x] /\ promise'[x] = promise[x]
<1> DEFINE U == grants[k].units
           D == Entries(m, k)
           E == D \ gone
<1>1. 0 \in 0..now
  OBVIOUS
<1>2. /\ grants[k] \in [units : SUBSET Unit, late : Nat] /\ IsFiniteSet(U)
      /\ \A e \in U : e.at \in Nat /\ e.at <= now
      /\ D \subseteq U /\ IsFiniteSet(D)
  BY <1>1, WindowFacts
<1>3. WindowSet(store'.map, k, E)
  OBVIOUS
<1>4. /\ grants'[k] = [units |-> U \ gone, late |-> grants[k].late]
      /\ \A x \in Key \ {k} : grants'[x] = grants[x]
      /\ grants' \in [Key -> [units : SUBSET Unit, late : Nat]]
  <2> DEFINE V == U \ gone
             g == grants[k]
  <2>1. V \subseteq Unit /\ g \in [units : SUBSET Unit, late : Nat]
    BY <1>2
  <2>2. grants' = [grants EXCEPT ![k] = [g EXCEPT !.units = V]]
    OBVIOUS
  <2> HIDE DEF V, g
  <2>3. [g EXCEPT !.units = V] = [units |-> V, late |-> g.late]
    BY <2>1
  <2>4. [units |-> V, late |-> g.late] \in [units : SUBSET Unit, late : Nat]
    BY <2>1
  <2>5. grants' = [grants EXCEPT ![k] = [units |-> V, late |-> g.late]]
    BY <2>2, <2>3
  <2> DEFINE R == [units : SUBSET Unit, late : Nat]
             r == [units |-> V, late |-> g.late]
  <2>6. grants \in [Key -> R] /\ r \in R /\ grants' = [grants EXCEPT ![k] = r]
    BY <2>4, <2>5 DEF HistoryInv
  <2> HIDE DEF R, r
  <2>7. grants'[k] = r
    BY <2>6
  <2>8. \A x \in Key \ {k} : grants'[x] = grants[x]
    BY <2>6
  <2>9. grants' \in [Key -> R]
    BY <2>6
  <2> QED BY <2>7, <2>8, <2>9 DEF V, g, R, r
<1>5. grants'[k].units = U \ gone /\ grants'[k].late = grants[k].late
  BY <1>4
<1>6. KeyInv(m, k) => /\ Cardinality(D) <= Limit
                      /\ \A e \in U : e.at > now - Window => e \in D
                      /\ \A p \in 0..now : Cardinality(Passed(k, p)) <= Limit
  BY DEF KeyInv, WindowInv
<1> HIDE DEF D, E
<1>7. IsFiniteSet(E) /\ Cardinality(E) <= Limit
  <2>1. IsFiniteSet(E) /\ Cardinality(E) <= Cardinality(D)
    BY <1>2, FS_Subset DEF E
  <2>2. Cardinality(E) \in Nat /\ Cardinality(D) \in Nat
    BY <1>2, <2>1, FS_CardinalityType
  <2> QED BY <1>6, <2>1, <2>2, RateFacts
<1>8. E \subseteq U \ gone /\ IsFiniteSet(U \ gone)
  <2>1. IsFiniteSet(U \ gone)
    BY <1>2, FS_Subset
  <2> QED BY <1>2, <2>1 DEF E
<1>9. \A e \in U \ gone : e.at <= now /\ (e.at > now - Window => e \in E)
  BY <1>2, <1>6 DEF E
<1>10. ASSUME NEW p \in 0..now PROVE Cardinality(Passed(k, p)') <= Limit
  <2>1. Passed(k, p)' \subseteq Passed(k, p)
    BY <1>5 DEF Passed
  <2>2. IsFiniteSet(Passed(k, p))
    <3>1. Passed(k, p) \subseteq U
      BY DEF Passed
    <3> QED BY <1>2, <3>1, FS_Subset
  <2>3. IsFiniteSet(Passed(k, p)') /\ Cardinality(Passed(k, p)') <= Cardinality(Passed(k, p))
    BY <2>1, <2>2, FS_Subset
  <2>4. Cardinality(Passed(k, p)') \in Nat /\ Cardinality(Passed(k, p)) \in Nat
    BY <2>2, <2>3, FS_CardinalityType
  <2> QED BY <1>6, <2>3, <2>4, RateFacts
<1>11. promise'[k] # NoPromise =>
           promise'[k].cost = 1 /\ Cardinality(InWindow(E, promise'[k].at)) < Limit
  <2> SUFFICES ASSUME promise[k] # NoPromise
               PROVE  promise[k].cost = 1 /\ Cardinality(InWindow(E, promise[k].at)) < Limit
    OBVIOUS
  <2> DEFINE at == promise[k].at
  <2>1. k \notin Bucket
    BY DEF Bucket, Keys
  <2>2. promise[k].cost = 1 /\ Cardinality(InWindow(D, at)) < Limit
    BY <2>1 DEF KeyInv, RetryInv, D
  <2>3. promise[k] \in [cost : Cost \cup {0}, at : Nat]
    BY DEF HistoryInv
  <2>4. at \in Int /\ at <= at
    BY <2>3
  <2>5. (\A e \in D : e.at \in Int) /\ IsFiniteSet(D) /\ E \subseteq D
    BY <1>2 DEF E
  <2> HIDE DEF at
  <2>6. /\ Cardinality(InWindow(E, at)) <= Cardinality(InWindow(D, at))
        /\ Cardinality(InWindow(E, at)) \in Nat /\ Cardinality(InWindow(D, at)) \in Nat
    BY <2>4, <2>5, FewerInWindow
  <2>7. Cardinality(InWindow(E, at)) < Limit
    BY <2>2, <2>6, RateFacts
  <2> QED BY <2>2, <2>7 DEF at
<1>12. KeyInv(store.map, k)'
  BY <1>3, <1>5, <1>7, <1>8, <1>9, <1>10, <1>11, WindowKey
<1>13. HistoryInv'
  BY <1>4 DEF HistoryInv
<1> QED BY <1>4, <1>12, <1>13

LEMMA SetWindowSets ==
    ASSUME NEW k \in Key, now \in Nat, backend = "memory", NEW s, PruneOK(s),
           NEW X, \A e \in X : e.at \in 0..now
    PROVE  /\ PruneOK(SetWindow(s, k, X))
           /\ WindowSet(SetWindow(s, k, X).map, k, X)
           /\ Elsewhere(s.map, SetWindow(s, k, X).map, k)
<1>1. CASE X = {}
  <2>1. SetWindow(s, k, X) = Drop(s, k)
    BY <1>1 DEF SetWindow
  <2> QED BY <1>1, <2>1, DropOK DEF WindowSet
<1>2. CASE X # {}
  <2> DEFINE last == Max({e.at : e \in X})
  <2>1. last \in Nat
    BY <1>2, LatestUnit
  <2> HIDE DEF last
  <2>2. WindowEntry(X) = [entries |-> X, expiresAt |-> last + Window]
    BY DEF WindowEntry, last
  <2>3. SetWindow(s, k, X) = Keep(s, k, WindowEntry(X))
    BY <1>2 DEF SetWindow
  <2>4. WindowEntry(X).expiresAt \in Nat /\ WindowEntry(X).entries = X
    BY <2>1, <2>2, RateFacts
  <2>5. /\ PruneOK(Keep(s, k, WindowEntry(X)))
        /\ k \in DOMAIN Keep(s, k, WindowEntry(X)).map
        /\ Keep(s, k, WindowEntry(X)).map[k] = WindowEntry(X)
        /\ Elsewhere(s.map, Keep(s, k, WindowEntry(X)).map, k)
    BY <2>4, KeepOK
  <2> QED BY <1>2, <2>3, <2>4, <2>5 DEF WindowSet
<1> QED BY <1>1, <1>2

LEMMA MemWindowStep ==
    ASSUME IInv, backend = "memory", UNCHANGED <<now, backend, kind>>,
           NEW k \in Key, kind[k] = "window", NEW cost, NEW g,
           (cost \in Cost /\ MemCheckWindow(k, cost)) \/ MemRollbackWindow(k, g)
    PROVE  StoreInv(store)' /\ HistoryInv'
<1> DEFINE m == Swept.map
           E == InWindow(Entries(m, k), now)
<1>1. /\ now \in Nat /\ HistoryInv /\ PruneOK(Swept) /\ \A x \in Key : KeyInv(m, x)
      /\ now \in 0..now
  BY Shapes, SweptOK
<1>8. ASSUME cost \in Cost PROVE cost \in Nat
  BY <1>8, RateFacts
<1>2. /\ \A e \in grants[k].units : e.at \in Nat /\ e.at <= now
      /\ Entries(m, k) \subseteq grants[k].units /\ E \subseteq Entries(m, k)
  BY <1>1, WindowFacts
<1>3. \A e \in Entries(m, k) : e.at \in 0..now
  BY <1>1, <1>2
<1>4. ASSUME PruneOK(store'), Elsewhere(m, store'.map, k), KeyInv(store.map, k)', HistoryInv',
             UNCHANGED meter,
             \A x \in Key \ {k} : grants'[x] = grants[x] /\ promise'[x] = promise[x]
      PROVE  StoreInv(store)' /\ HistoryInv'
  <2>1. OnlyKey(m, k)
    BY <1>4 DEF OnlyKey
  <2> QED BY <1>1, <1>4, <2>1, MemStoreStep
<1>5. CASE /\ cost \in Cost
           /\ Cardinality(E) + cost <= Limit /\ FreeNumbers(k) # {}
           /\ store' = SetWindow(Swept, k, E \cup NewUnits(k, cost, now))
           /\ WindowGrant(k, NewUnits(k, cost, now), now)
  <2> DEFINE X == E \cup NewUnits(k, cost, now)
  <2>1. \A e \in NewUnits(k, cost, now) : e.at = now
    BY <1>1, <1>5, <1>8, NewUnitsFacts
  <2>2. \A e \in X : e.at \in 0..now
    BY <1>1, <1>2, <1>3, <2>1
  <2>3. PruneOK(store') /\ WindowSet(store'.map, k, X) /\ Elsewhere(m, store'.map, k)
    BY <1>1, <1>5, <2>2, SetWindowSets
  <2>4. KeyInv(store.map, k)' /\ HistoryInv'
        /\ \A x \in Key \ {k} : grants'[x] = grants[x] /\ promise'[x] = promise[x]
    BY <1>1, <1>5, <2>3, WindowGrantKey
  <2> QED BY <1>4, <1>5, <2>3, <2>4 DEF WindowGrant
<1>6. CASE /\ cost \in Cost
           /\ Cardinality(E) + cost > Limit /\ store' = SetWindow(Swept, k, E)
           /\ WindowDeny(k, cost, now, WindowRetry(E, now))
  <2>1. \A e \in E : e.at \in 0..now
    BY <1>2, <1>3
  <2>2. PruneOK(store') /\ WindowSet(store'.map, k, E) /\ Elsewhere(m, store'.map, k)
    BY <1>1, <1>6, <2>1, SetWindowSets
  <2>3. KeyInv(store.map, k)' /\ HistoryInv'
        /\ \A x \in Key \ {k} : grants'[x] = grants[x] /\ promise'[x] = promise[x]
    BY <1>1, <1>6, <2>2, WindowDenyKey
  <2> QED BY <1>4, <1>6, <2>2, <2>3 DEF WindowDeny
<1>7. CASE MemRollbackWindow(k, g)
  <2> DEFINE gone == {e \in Entries(m, k) : e.grant = g}
             X == Entries(m, k) \ gone
  <2>1. \A e \in X : e.at \in 0..now
    BY <1>3
  <2>2. /\ store' = (IF k \in DOMAIN m THEN SetWindow(Swept, k, X) ELSE Swept)
        /\ grants' = [grants EXCEPT ![k].units = @ \ gone]
        /\ UNCHANGED <<meter, issued, promise>>
    BY <1>7 DEF MemRollbackWindow
  <2>3. k \notin DOMAIN m => X = {}
    BY DEF Entries
  <2> HIDE DEF gone
  <2>4. PruneOK(store') /\ WindowSet(store'.map, k, X) /\ Elsewhere(m, store'.map, k)
    <3>1. CASE k \in DOMAIN m
      BY <1>1, <2>1, <2>2, <3>1, SetWindowSets
    <3>2. CASE k \notin DOMAIN m
      BY <1>1, <2>2, <2>3, <3>2 DEF WindowSet, Elsewhere
    <3> QED BY <3>1, <3>2
  <2>5. KeyInv(store.map, k)' /\ HistoryInv'
        /\ \A x \in Key \ {k} : grants'[x] = grants[x] /\ promise'[x] = promise[x]
    BY <1>1, <2>2, <2>4, WindowRollbackKey
  <2> QED BY <1>4, <2>2, <2>4, <2>5
<1> QED BY <1>5, <1>6, <1>7 DEF MemCheckWindow

-----------------------------------------------------------------------------
(* The Redis store.                                                         *)

LEMMA PutKeyPuts ==
    ASSUME StoreInv(store), NEW k, NEW entry, PutKey(k, entry)
    PROVE  /\ store' = [map |-> store'.map, pruneAt |-> store.pruneAt]
           /\ k \in DOMAIN store'.map /\ store'.map[k] = entry
           /\ Elsewhere(store.map, store'.map, k)
<1>1. store = [map |-> store.map, pruneAt |-> store.pruneAt]
  BY DEF StoreInv
<1> DEFINE m == Put(store.map, k, entry)
<1>2. /\ DOMAIN m = DOMAIN store.map \cup {k} /\ m[k] = entry
      /\ \A x \in DOMAIN store.map \ {k} : m[x] = store.map[x]
  BY DEF Put
<1>3. store' = [store EXCEPT !.map = m]
  BY DEF PutKey
<1> HIDE DEF m
<1>4. store' = [map |-> m, pruneAt |-> store.pruneAt]
  BY <1>1, <1>3
<1>5. store'.map = m
  BY <1>4
<1>6. Elsewhere(store.map, m, k)
  BY <1>2 DEF Elsewhere
<1> QED BY <1>2, <1>4, <1>5, <1>6

LEMMA WithoutRemoves ==
    ASSUME StoreInv(store), NEW K, store' = [store EXCEPT !.map = Without(@, K)]
    PROVE  store' = [map |-> store'.map, pruneAt |-> store.pruneAt] /\ Gone(K)
<1>1. store = [map |-> store.map, pruneAt |-> store.pruneAt]
  BY DEF StoreInv
<1> DEFINE m == Without(store.map, K)
<1>2. DOMAIN m = DOMAIN store.map \ K /\ \A x \in DOMAIN m : m[x] = store.map[x]
  BY DEF Without, Restrict
<1>3. store' = [store EXCEPT !.map = m]
  OBVIOUS
<1> HIDE DEF m
<1>4. store' = [map |-> m, pruneAt |-> store.pruneAt]
  BY <1>1, <1>3
<1>5. store'.map = m
  BY <1>4
<1> QED BY <1>2, <1>4, <1>5 DEF Gone

LEMMA RedisStoreStep ==
    ASSUME IInv, backend = "redis", NEW k \in Key, OnlyKey(store.map, k),
           store' = [map |-> store'.map, pruneAt |-> store.pruneAt], KeyInv(store.map, k)'
    PROVE  StoreInv(store)'
<1>1. StoreInv(store)
  BY Shapes
<1>2. ASSUME NEW x \in Key PROVE KeyInv(store.map, x)'
  <2>1. CASE x = k
    BY <2>1
  <2>2. CASE x # k
    BY <1>1, <2>2, OthersCarried DEF StoreInv
  <2> QED BY <2>1, <2>2
<1>3. DOMAIN store'.map \subseteq Key /\ backend' = backend
  BY <1>1 DEF OnlyKey, Elsewhere, StoreInv
<1>4. store'.pruneAt = store.pruneAt
  OBVIOUS
<1> QED BY <1>1, <1>2, <1>3, <1>4 DEF StoreInv

LEMMA RedisWindowStep ==
    ASSUME IInv, backend = "redis", UNCHANGED <<now, backend, kind>>,
           NEW k \in Key, kind[k] = "window", NEW cost, NEW g, NEW t \in 0..now,
           (cost \in Cost /\ ExecCheckWindow(k, cost, t)) \/ RedisRollbackWindow(k, g)
    PROVE  StoreInv(store)' /\ HistoryInv'
<1> DEFINE m == store.map
           E == InWindow(Entries(m, k), t)
<1>1. /\ now \in Nat /\ HistoryInv /\ StoreInv(store) /\ KeyInv(m, k)
      /\ t \in Nat /\ t <= now
  BY Shapes
<1>9. ASSUME cost \in Cost PROVE cost \in Nat /\ cost # 0
  BY <1>9, RateFacts
<1>2. /\ \A e \in grants[k].units : e.at \in Nat /\ e.at <= now
      /\ Entries(m, k) \subseteq grants[k].units /\ E \subseteq Entries(m, k)
  BY <1>1, WindowFacts
<1>3. ASSUME Elsewhere(m, store'.map, k), KeyInv(store.map, k)', HistoryInv',
             store' = [map |-> store'.map, pruneAt |-> store.pruneAt], UNCHANGED meter,
             \A x \in Key \ {k} : grants'[x] = grants[x] /\ promise'[x] = promise[x]
      PROVE  StoreInv(store)' /\ HistoryInv'
  <2>1. OnlyKey(m, k)
    BY <1>3 DEF OnlyKey
  <2> QED BY <1>3, <2>1, RedisStoreStep
<1>4. ASSUME NEW X, X # {}, \A e \in X : e.at \in Nat /\ e.at <= now, PutKey(k, RedisWindow(X))
      PROVE  WindowSet(store'.map, k, X)
  <2>1. k \in DOMAIN store'.map /\ store'.map[k] = RedisWindow(X)
    BY <1>1, <1>4, PutKeyPuts
  <2>2. now + Window \in Nat /\ \A e \in X : e.at + Window <= now + Window
    BY <1>1, <1>4, RateFacts
  <2> QED BY <1>4, <2>1, <2>2 DEF WindowSet, RedisWindow
<1>5. ASSUME store' = [store EXCEPT !.map = Without(@, {k})]
      PROVE  /\ WindowSet(store'.map, k, {}) /\ Elsewhere(m, store'.map, k)
             /\ store' = [map |-> store'.map, pruneAt |-> store.pruneAt]
  <2>1. store' = [map |-> store'.map, pruneAt |-> store.pruneAt] /\ Gone({k})
    BY <1>1, <1>5, WithoutRemoves
  <2> QED BY <2>1 DEF Gone, WindowSet, Elsewhere
<1>6. CASE /\ cost \in Cost
           /\ Cardinality(E) + cost <= Limit /\ FreeNumbers(k) # {}
           /\ PutKey(k, RedisWindow(E \cup NewUnits(k, cost, t)))
           /\ WindowGrant(k, NewUnits(k, cost, t), t)
  <2> DEFINE X == E \cup NewUnits(k, cost, t)
  <2>1. (\A e \in NewUnits(k, cost, t) : e.at = t) /\ NewUnits(k, cost, t) # {}
    BY <1>1, <1>6, <1>9, NewUnitsFacts
  <2>2. X # {} /\ \A e \in X : e.at \in Nat /\ e.at <= now
    BY <1>1, <1>2, <2>1
  <2>3. WindowSet(store'.map, k, X)
    BY <1>4, <1>6, <2>2
  <2>4. Elsewhere(m, store'.map, k) /\ store' = [map |-> store'.map, pruneAt |-> store.pruneAt]
    BY <1>1, <1>6, PutKeyPuts
  <2>5. KeyInv(store.map, k)' /\ HistoryInv'
        /\ \A x \in Key \ {k} : grants'[x] = grants[x] /\ promise'[x] = promise[x]
    BY <1>1, <1>6, <2>3, WindowGrantKey
  <2> QED BY <1>3, <1>6, <2>4, <2>5 DEF WindowGrant
<1>7. CASE /\ cost \in Cost
           /\ Cardinality(E) + cost > Limit
           /\ IF E = {} THEN store' = [store EXCEPT !.map = Without(@, {k})]
              ELSE PutKey(k, RedisWindow(E))
           /\ WindowDeny(k, cost, t, WindowRetry(E, t))
  <2>1. WindowSet(store'.map, k, E) /\ Elsewhere(m, store'.map, k)
        /\ store' = [map |-> store'.map, pruneAt |-> store.pruneAt]
    <3>1. CASE E = {}
      BY <1>5, <1>7, <3>1
    <3>2. CASE E # {}
      BY <1>1, <1>2, <1>4, <1>7, <3>2, PutKeyPuts
    <3> QED BY <3>1, <3>2
  <2>2. KeyInv(store.map, k)' /\ HistoryInv'
        /\ \A x \in Key \ {k} : grants'[x] = grants[x] /\ promise'[x] = promise[x]
    BY <1>1, <1>7, <2>1, WindowDenyKey
  <2> QED BY <1>3, <1>7, <2>1, <2>2 DEF WindowDeny
<1>8. CASE RedisRollbackWindow(k, g)
  <2> DEFINE gone == {e \in Entries(m, k) : e.grant = g}
             X == Entries(m, k) \ gone
  <2>1. /\ IF X = {} THEN store' = [store EXCEPT !.map = Without(@, {k})]
           ELSE PutKey(k, [entries |-> X, expiresAt |-> m[k].expiresAt])
        /\ grants' = [grants EXCEPT ![k].units = @ \ gone]
        /\ UNCHANGED <<meter, issued, promise>>
    BY <1>8 DEF RedisRollbackWindow
  <2> HIDE DEF gone
  <2>2. WindowSet(store'.map, k, X) /\ Elsewhere(m, store'.map, k)
        /\ store' = [map |-> store'.map, pruneAt |-> store.pruneAt]
    <3>1. CASE X = {}
      BY <1>5, <2>1, <3>1
    <3>2. CASE X # {}
      <4> DEFINE new == [entries |-> X, expiresAt |-> m[k].expiresAt]
      <4>1. k \in DOMAIN m
        BY <3>2 DEF Entries
      <4>2. m[k].expiresAt \in Nat /\ \A e \in Entries(m, k) : e.at + Window <= m[k].expiresAt
        BY <1>1, <4>1 DEF KeyInv, EntryOK, WindowInv
      <4>3. PutKey(k, new)
        BY <2>1, <3>2
      <4>4. new.entries = X /\ new.expiresAt = m[k].expiresAt
        OBVIOUS
      <4> HIDE DEF new
      <4>5. /\ k \in DOMAIN store'.map /\ store'.map[k] = new
            /\ Elsewhere(m, store'.map, k)
            /\ store' = [map |-> store'.map, pruneAt |-> store.pruneAt]
        BY <1>1, <4>3, PutKeyPuts
      <4> QED BY <3>2, <4>2, <4>4, <4>5 DEF WindowSet
    <3> QED BY <3>1, <3>2
  <2>3. KeyInv(store.map, k)' /\ HistoryInv'
        /\ \A x \in Key \ {k} : grants'[x] = grants[x] /\ promise'[x] = promise[x]
    BY <1>1, <2>1, <2>2, WindowRollbackKey
  <2> QED BY <1>3, <2>1, <2>2, <2>3
<1> QED BY <1>6, <1>7, <1>8 DEF ExecCheckWindow

\* Bucket k is written with load u and time t, and its expiry set.
BucketPut(k, u, t) ==
    /\ k \in DOMAIN store'.map /\ EntryOK(k, store'.map[k])
    /\ Used(k, store'.map[k]) = u /\ store'.map[k].updatedAt = t
    /\ store'.map[k].expiresAt = now + Ceil(Capacity, Rate)
    /\ Elsewhere(store.map, store'.map, k)
    /\ store' = [map |-> store'.map, pruneAt |-> store.pruneAt]

LEMMA PutTokens ==
    ASSUME StoreInv(store), now \in Nat, NEW k, kind[k] = "tokens",
           NEW n \in 0..Capacity, NEW t \in 0..now, PutKey(k, RedisTokens(n, t))
    PROVE  BucketPut(k, Capacity - n, t)
<1>1. now + Ceil(Capacity, Rate) \in Nat
  <2>1. Capacity \in Nat
    BY RateFacts
  <2>2. Ceil(Capacity, Rate) \in Nat
    BY <2>1, CeilEnough
  <2> QED BY <2>2
<1>2. /\ EntryOK(k, RedisTokens(n, t)) /\ Used(k, RedisTokens(n, t)) = Capacity - n
      /\ RedisTokens(n, t).updatedAt = t
      /\ RedisTokens(n, t).expiresAt = now + Ceil(Capacity, Rate)
  BY <1>1 DEF RedisTokens, EntryOK, Used
<1> QED BY <1>2, PutKeyPuts DEF BucketPut

LEMMA PutLevel ==
    ASSUME StoreInv(store), now \in Nat, NEW k, kind[k] = "leaks",
           NEW n \in 0..Capacity, NEW t \in 0..now, PutKey(k, RedisLevel(n, t))
    PROVE  BucketPut(k, n, t)
<1>1. now + Ceil(Capacity, Rate) \in Nat
  <2>1. Capacity \in Nat
    BY RateFacts
  <2>2. Ceil(Capacity, Rate) \in Nat
    BY <2>1, CeilEnough
  <2> QED BY <2>2
<1>2. /\ EntryOK(k, RedisLevel(n, t)) /\ Used(k, RedisLevel(n, t)) = n
      /\ RedisLevel(n, t).updatedAt = t
      /\ RedisLevel(n, t).expiresAt = now + Ceil(Capacity, Rate)
  BY <1>1 DEF RedisLevel, EntryOK, Used
<1> QED BY <1>2, PutKeyPuts DEF BucketPut

LEMMA RedisBucketKey ==
    ASSUME IInv, backend = "redis", NEW k \in Bucket, UNCHANGED <<now, backend, kind>>,
           NEW u \in 0..Capacity, NEW t \in 0..now, BucketPut(k, u, t),
           Agree(meter'[k].units, meter'[k].clock, meter'[k].slip, meter'[k].lost, u, t),
           promise'[k] # NoPromise =>
               /\ promise'[k].at \in Int
               /\ Decayed(u, promise'[k].at - t) + promise'[k].cost <= Capacity
    PROVE  KeyInv(store.map, k)'
<1>1. k \in Key /\ now \in Nat /\ t \in Nat /\ kind[k] # "window" /\ (k \in Bucket)' /\ u \in Nat
  BY Shapes, RateFacts, BucketIsLimited DEF Bucket, Keys
<1>2. (k \in DOMAIN store.map => EntryOK(k, store.map[k]))'
  <2>1. EntryOK(k, store'.map[k])
    BY DEF BucketPut
  <2> QED BY <1>1, <2>1 DEF EntryOK
<1>3. MeterInv(store.map, k)'
  <2> DEFINE wait == Ceil(Capacity, Rate)
  <2>1. Capacity \in Nat
    BY RateFacts
  <2>2. wait \in Nat /\ Capacity <= Gain(wait)
    BY <2>1, CeilEnough
  <2> HIDE DEF wait
  <2>3. Gain(now + wait) = Gain(now) + Gain(wait)
    BY <1>1, <2>2, GainSum
  <2>4. Gain(t) <= Gain(now)
    BY <1>1, GainOrder
  <2>5. Gain(t) \in Int /\ Gain(now) \in Int /\ Gain(wait) \in Int
    BY <1>1, <2>2, GainInt
  <2>6. Capacity + Gain(t) <= Gain(now + wait)
    BY <2>1, <2>2, <2>3, <2>4, <2>5
  <2>7. RedisMeter(store.map, k)'
    BY <2>6 DEF BucketPut, RedisMeter, Used, wait
  <2> QED BY <2>7 DEF MeterInv
<1>4. RetryInv(store.map, k)'
  <2>1. ASSUME promise'[k] # NoPromise
        PROVE  LoadAt(store.map, k, promise[k].at)' = Decayed(u, promise'[k].at - t)
    BY DEF LoadAt, BucketPut, Used
  <2> QED BY <1>1, <2>1 DEF RetryInv
<1> QED BY <1>1, <1>2, <1>3, <1>4 DEF KeyInv, WindowInv

\* A step of bucket k in Redis, whatever the call.
LEMMA RedisBucketStep ==
    ASSUME IInv, backend = "redis", NEW k \in Bucket, UNCHANGED <<now, backend, kind>>,
           NEW u \in 0..Capacity, NEW t \in 0..now, BucketPut(k, u, t),
           NEW r \in [units : Nat, clock : 0..now, slip : Nat, lost : Nat],
           meter' = [meter EXCEPT ![k] = r], UNCHANGED grants,
           Agree(r.units, r.clock, r.slip, r.lost, u, t),
           issued' \in [Key -> SUBSET Cost],
           promise' \in [Key -> [cost : Cost \cup {0}, at : Nat]],
           \A x \in Key \ {k} : promise'[x] = promise[x],
           promise'[k] # NoPromise =>
               /\ promise'[k].at \in Int
               /\ Decayed(u, promise'[k].at - t) + promise'[k].cost <= Capacity
    PROVE  StoreInv(store)' /\ HistoryInv'
<1>1. k \in Key /\ now \in Nat /\ HistoryInv
  BY Shapes, BucketIsLimited
<1>2. meter'[k] = r /\ \A x \in Key \ {k} : meter'[x] = meter[x]
  BY <1>1 DEF HistoryInv
<1>3. KeyInv(store.map, k)'
  BY <1>2, RedisBucketKey
<1>4. OnlyKey(store.map, k)
  BY <1>2 DEF OnlyKey, BucketPut
<1>5. StoreInv(store)'
  BY <1>1, <1>3, <1>4, RedisStoreStep DEF BucketPut
<1>6. HistoryInv'
  BY <1>1, HistoryStep
<1> QED BY <1>5, <1>6

\* What a call made at t finds.
LEMMA RedisCalled ==
    ASSUME IInv, backend = "redis", NEW k \in Bucket, NEW t \in 0..now
    PROVE  /\ Called(k, t) \in [units : Nat, clock : 0..now, slip : Nat, lost : Nat]
           /\ Agree(Called(k, t).units, Called(k, t).clock, Called(k, t).slip,
                    Called(k, t).lost, LoadAt(store.map, k, t), t)
           /\ k \in DOMAIN store.map => \A cost \in Nat :
                  Agree(Atleast0(Called(k, t).units - cost), Called(k, t).clock,
                        Called(k, t).slip,
                        meter[k].lost + Atleast0(t - store.map[k].updatedAt),
                        Atleast0(Used(k, store.map[k]) - cost), t)
<1> DEFINE o == meter[k]
           b == SetBack(k, t)
           c == Most(o.clock, t)
           n == Atleast0(o.units - Gain(c - o.clock))
           s == o.slip + b
<1>1. /\ k \in Key /\ now \in Nat /\ HistoryInv /\ KeyInv(store.map, k)
      /\ t \in Nat /\ t <= now
      /\ o \in [units : Nat, clock : 0..now, slip : Nat, lost : Nat]
  BY Shapes, BucketIsLimited DEF HistoryInv
<1>2. k \in DOMAIN store.map => EntryOK(k, store.map[k])
  BY <1>1 DEF KeyInv
<1>3. RedisMeter(store.map, k)
  BY <1>1 DEF KeyInv, MeterInv
<1>4. /\ k \in DOMAIN store.map => b = Atleast0(store.map[k].updatedAt - t)
      /\ k \notin DOMAIN store.map => b = now - t
  BY DEF SetBack
<1>5. k \in DOMAIN store.map => /\ Used(k, store.map[k]) \in Nat
                                /\ store.map[k].updatedAt \in Nat
                                /\ LoadAt(store.map, k, t) =
                                   Decayed(Used(k, store.map[k]), t - store.map[k].updatedAt)
  <2>1. t \in Int
    BY <1>1
  <2> QED BY <1>1, <1>2, <2>1, LoadFacts
<1>6. b \in Nat
  BY <1>1, <1>4, <1>5 DEF Atleast0
<1> HIDE DEF b
<1>7. /\ c \in 0..now /\ n \in Nat
      /\ Called(k, t) = [units |-> n, clock |-> c, slip |-> s, lost |-> o.lost]
  <2>1. b = SetBack(k, t)
    BY DEF b
  <2> QED BY <1>1, <1>6, <2>1, MeterUpdates
<1>8. s \in Nat /\ c \in Nat
  BY <1>1, <1>6, <1>7
<1>9. /\ o.units \in Nat /\ o.clock \in Nat /\ o.slip \in Nat /\ o.lost \in Nat
      /\ o.clock <= now
  BY <1>1
<1>10. Called(k, t) \in [units : Nat, clock : 0..now, slip : Nat, lost : Nat]
  <2> HIDE DEF c, n, s, o
  <2> QED BY <1>7, <1>8, <1>9
<1>11. /\ Called(k, t).units = n /\ Called(k, t).clock = c
       /\ Called(k, t).slip = s /\ Called(k, t).lost = o.lost
  <2> HIDE DEF c, n, s, o
  <2> QED BY <1>7
<1>12. CASE k \notin DOMAIN store.map
  <2>1. LoadAt(store.map, k, t) = 0 /\ s = o.slip + (now - t)
    BY <1>4, <1>12 DEF LoadAt
  <2>2. o.units + Gain(o.clock) <= Gain(o.slip) + Gain(now)
    BY <1>3, <1>12 DEF RedisMeter
  <2>3. c = Most(o.clock, t) /\ n = Atleast0(o.units - Gain(c - o.clock))
    OBVIOUS
  <2> HIDE DEF c, n, s, o
  <2>4. Agree(n, c, s, o.lost, 0, t)
    BY <1>1, <1>7, <1>8, <1>9, <2>1, <2>2, <2>3, AgreeAnew
  <2> QED BY <1>10, <1>11, <1>12, <2>1, <2>4
<1>13. CASE k \in DOMAIN store.map
  <2> DEFINE u == Used(k, store.map[k])
             v == store.map[k].updatedAt
             l == o.lost + Atleast0(t - v)
  <2>1. u \in Nat /\ v \in Nat /\ LoadAt(store.map, k, t) = Decayed(u, t - v)
    BY <1>5, <1>13
  <2>2. Agree(o.units, o.clock, o.slip, o.lost, u, v)
    BY <1>3, <1>13 DEF RedisMeter
  <2>3. s = o.slip + Atleast0(v - t)
    BY <1>4, <1>13
  <2>4. c = Most(o.clock, t) /\ n = Atleast0(o.units - Gain(c - o.clock))
    OBVIOUS
  <2>5. l \in Nat /\ l = o.lost + Atleast0(t - v)
    BY <1>1, <1>9, <2>1 DEF Atleast0
  <2> HIDE DEF c, n, s, o, u, v, l
  <2>6. Agree(n, c, s, o.lost, Decayed(u, t - v), t)
    BY <1>1, <1>7, <1>8, <1>9, <2>1, <2>2, <2>3, <2>4, AgreeUpdated
  <2>7. ASSUME NEW cost \in Nat PROVE Agree(Atleast0(n - cost), c, s, l, Atleast0(u - cost), t)
    <3>1. /\ n \in Nat /\ t \in Nat /\ u \in Nat /\ v \in Nat /\ l \in Nat
          /\ c \in Nat /\ s \in Nat
      BY <1>1, <1>7, <1>8, <2>1, <2>5
    <3>2. o.units \in Nat /\ o.clock \in Nat /\ o.slip \in Nat /\ o.lost \in Nat
      BY <1>9
    <3>3. l = o.lost + Atleast0(t - v)
      BY <2>5
    <3> QED BY <2>2, <2>3, <2>4, <3>1, <3>2, <3>3, AgreeRolledBack, ZenonT(60)
  <2> QED BY <1>10, <1>11, <1>13, <2>1, <2>6, <2>7 DEF l, o, u, v
<1> QED BY <1>12, <1>13

LEMMA RedisBounds ==
    ASSUME IInv, backend = "redis", NEW k \in Bucket, NEW t \in 0..now
    PROVE  /\ k \in Key /\ now \in Nat /\ t \in Nat /\ t \in Int
           /\ HistoryInv /\ StoreInv(store)
           /\ k \in DOMAIN store.map => EntryOK(k, store.map[k])
           /\ LoadAt(store.map, k, t) \in 0..Capacity
           /\ RetryInv(store.map, k)
<1>1. /\ k \in Key /\ now \in Nat /\ t \in Nat /\ t \in Int
      /\ HistoryInv /\ StoreInv(store) /\ KeyInv(store.map, k)
  BY Shapes, BucketIsLimited
<1>2. k \in DOMAIN store.map => EntryOK(k, store.map[k])
  BY <1>1 DEF KeyInv
<1>3. LoadAt(store.map, k, t) \in Nat /\ LoadAt(store.map, k, t) <= Capacity
  BY <1>1, <1>2, LoadFacts
<1> QED BY <1>1, <1>2, <1>3, RateFacts DEF KeyInv

LEMMA RedisGrant ==
    ASSUME IInv, backend = "redis", UNCHANGED <<now, backend, kind>>,
           NEW k \in Bucket, NEW cost \in Cost, NEW t \in 0..now,
           LoadAt(store.map, k, t) + cost <= Capacity,
           BucketPut(k, LoadAt(store.map, k, t) + cost, t), BucketGrant(k, cost, t)
    PROVE  StoreInv(store)' /\ HistoryInv'
<1> DEFINE w == LoadAt(store.map, k, t)
           q == Called(k, t)
           r == [units |-> q.units + cost, clock |-> q.clock, slip |-> q.slip, lost |-> q.lost]
<1>1. k \in Key /\ t \in Nat /\ HistoryInv /\ w \in 0..Capacity /\ cost \in Nat
  BY RedisBounds, RateFacts
<1>2. /\ q \in [units : Nat, clock : 0..now, slip : Nat, lost : Nat]
      /\ Agree(q.units, q.clock, q.slip, q.lost, w, t)
  BY RedisCalled
<1>3. w + cost \in 0..Capacity /\ BucketPut(k, w + cost, t)
  BY <1>1, RateFacts
<1>4. meter' = [meter EXCEPT ![k] = [q EXCEPT !.units = @ + cost]]
      /\ issued' = [issued EXCEPT ![k] = @ \cup {cost}] /\ UNCHANGED grants
  BY DEF BucketGrant
<1>5. /\ promise' \in [Key -> [cost : Cost \cup {0}, at : Nat]]
      /\ promise'[k] = NoPromise
      /\ \A x \in Key \ {k} : promise'[x] = promise[x]
  BY <1>1, NoPromiseLeft DEF BucketGrant
<1>6. issued' \in [Key -> SUBSET Cost]
  BY <1>1, <1>4 DEF HistoryInv
<1> HIDE DEF w, q
<1>7. [q EXCEPT !.units = @ + cost] = r
  BY <1>2
<1>8. r \in [units : Nat, clock : 0..now, slip : Nat, lost : Nat]
  BY <1>1, <1>2
<1>9. Agree(r.units, r.clock, r.slip, r.lost, w + cost, t)
  <2>1. /\ q.units \in Nat /\ q.clock \in Int /\ q.slip \in Int /\ q.lost \in Int
        /\ w \in Nat /\ t \in Int
    BY <1>1, <1>2, RateFacts
  <2>2. /\ Gain(q.clock) \in Int /\ Gain(q.slip) \in Int /\ Gain(q.lost) \in Int
        /\ Gain(t) \in Int
    BY <2>1, GainInt
  <2>3. Agree(q.units + cost, q.clock, q.slip, q.lost, w + cost, t)
    BY <1>1, <1>2, <2>1, <2>2 DEF Agree
  <2> QED BY <2>3
<1>10. meter' = [meter EXCEPT ![k] = r]
  BY <1>4, <1>7
<1> HIDE DEF r
<1> QED BY <1>1, <1>3, <1>4, <1>5, <1>6, <1>8, <1>9, <1>10, RedisBucketStep

LEMMA RedisDeny ==
    ASSUME IInv, backend = "redis", UNCHANGED <<now, backend, kind>>,
           NEW k \in Bucket, NEW cost \in Cost, NEW t \in 0..now,
           LoadAt(store.map, k, t) + cost > Capacity,
           BucketPut(k, LoadAt(store.map, k, t), t),
           BucketDeny(k, cost, t, Ceil(LoadAt(store.map, k, t) + cost - Capacity, Rate))
    PROVE  StoreInv(store)' /\ HistoryInv'
<1> DEFINE w == LoadAt(store.map, k, t)
           q == Called(k, t)
<1>1. /\ k \in Key /\ now \in Nat /\ t \in Nat /\ HistoryInv /\ w \in 0..Capacity
      /\ k \in DOMAIN store.map => EntryOK(k, store.map[k])
      /\ RetryInv(store.map, k)
  BY RedisBounds
<1>2. /\ q \in [units : Nat, clock : 0..now, slip : Nat, lost : Nat]
      /\ Agree(q.units, q.clock, q.slip, q.lost, w, t)
  BY RedisCalled
<1>3. meter' = [meter EXCEPT ![k] = q] /\ UNCHANGED <<grants, issued>>
  BY DEF BucketDeny
<1>4. /\ promise' \in [Key -> [cost : Cost \cup {0}, at : Nat]]
      /\ promise'[k] # NoPromise => /\ promise'[k].at \in Int
                                    /\ Decayed(w, promise'[k].at - t) + promise'[k].cost
                                           <= Capacity
      /\ \A x \in Key \ {k} : promise'[x] = promise[x]
  BY <1>1, DenyPromise DEF BucketDeny
<1>5. issued' \in [Key -> SUBSET Cost]
  BY <1>1, <1>3 DEF HistoryInv
<1>6. BucketPut(k, w, t)
  OBVIOUS
<1> HIDE DEF w, q
<1> QED BY <1>1, <1>2, <1>3, <1>4, <1>5, <1>6, RedisBucketStep

LEMMA RedisRollback ==
    ASSUME IInv, backend = "redis", UNCHANGED <<now, backend, kind>>,
           NEW k \in Bucket, NEW cost \in Cost, NEW t \in 0..now, k \in DOMAIN store.map,
           BucketPut(k, Atleast0(Used(k, store.map[k]) - cost), t),
           BucketRollback(k, cost, t, TRUE)
    PROVE  StoreInv(store)' /\ HistoryInv'
<1> DEFINE u == Used(k, store.map[k])
           w == Atleast0(u - cost)
           q == Called(k, t)
           n == Atleast0(q.units - cost)
           l == meter[k].lost + Atleast0(t - store.map[k].updatedAt)
           r == [units |-> n, clock |-> q.clock, slip |-> q.slip, lost |-> l]
<1>1. /\ k \in Key /\ now \in Nat /\ t \in Nat /\ t \in Int /\ HistoryInv /\ cost \in Nat
      /\ EntryOK(k, store.map[k])
  BY RedisBounds, RateFacts
<1>2. u \in 0..Capacity /\ store.map[k].updatedAt \in Nat
  BY <1>1, LoadFacts
<1>3. /\ q \in [units : Nat, clock : 0..now, slip : Nat, lost : Nat]
      /\ Agree(n, q.clock, q.slip, l, w, t)
  BY <1>1, RedisCalled
<1>4. w \in 0..Capacity /\ BucketPut(k, w, t)
  BY <1>1, <1>2, RateFacts DEF Atleast0
<1>5. /\ meter' = [meter EXCEPT ![k] = [q EXCEPT !.units = n, !.lost = l]]
      /\ UNCHANGED <<grants, issued>>
  BY DEF BucketRollback
<1>6. /\ promise' \in [Key -> [cost : Cost \cup {0}, at : Nat]]
      /\ promise'[k] = NoPromise
      /\ \A x \in Key \ {k} : promise'[x] = promise[x]
  BY <1>1, NoPromiseLeft DEF BucketRollback
<1>7. issued' \in [Key -> SUBSET Cost]
  BY <1>1, <1>5 DEF HistoryInv
<1>8. n \in Nat /\ l \in Nat
  <2>1. meter[k].lost \in Nat
    BY <1>1 DEF HistoryInv
  <2>2. q.units \in Nat
    BY <1>3
  <2> QED BY <1>1, <1>2, <2>1, <2>2 DEF Atleast0
<1> HIDE DEF u, w, q, n, l
<1>9. [q EXCEPT !.units = n, !.lost = l] = r
  <2> DEFINE o == [q EXCEPT !.units = n]
  <2>1. o = [units |-> n, clock |-> q.clock, slip |-> q.slip, lost |-> q.lost]
    BY <1>3
  <2>2. [q EXCEPT !.units = n, !.lost = l] = [o EXCEPT !.lost = l]
    BY Zenon
  <2> HIDE DEF o
  <2>3. [o EXCEPT !.lost = l] = r
    BY <2>1
  <2> QED BY <2>2, <2>3
<1>10. r \in [units : Nat, clock : 0..now, slip : Nat, lost : Nat]
  BY <1>3, <1>8
<1>11. Agree(r.units, r.clock, r.slip, r.lost, w, t)
  BY <1>3
<1>12. meter' = [meter EXCEPT ![k] = r]
  BY <1>5, <1>9
<1> HIDE DEF r
<1> QED BY <1>1, <1>4, <1>5, <1>6, <1>7, <1>10, <1>11, <1>12, RedisBucketStep

\* A step that changes only the calls.
LEMMA RedisQuietStep ==
    ASSUME IInv, UNCHANGED <<now, backend, kind>>,
           UNCHANGED <<store, grants, meter, issued, promise>>
    PROVE  StoreInv(store)' /\ HistoryInv'
<1>1. StoreInv(store) /\ HistoryInv /\ \A k \in Key : KeyInv(store.map, k)
  BY Shapes
<1>2. ASSUME NEW k \in Key PROVE KeyInv(store.map, k)'
  <2>1. Carried(store.map, k)
    BY DEF Carried
  <2> QED BY <1>1, <2>1, KeyCarried
<1> QED BY <1>1, <1>2 DEF StoreInv, HistoryInv

LEMMA RedisTokensStep ==
    ASSUME IInv, backend = "redis", UNCHANGED <<now, backend, kind>>,
           NEW k \in Key, kind[k] = "tokens", NEW cost \in Cost, NEW t \in 0..now,
           ExecConsumeTokens(k, cost, t) \/ ExecRollbackTokens(k, cost, t)
    PROVE  StoreInv(store)' /\ HistoryInv'
<1> DEFINE m == store.map
           w == LoadAt(m, k, t)
           n == Tokens(m, k, t)
<1>1. k \in Bucket
  BY DEF Bucket, Keys
<1>2. /\ now \in Nat /\ t \in Int /\ w \in 0..Capacity /\ StoreInv(store)
      /\ cost \in Nat \ {0}
      /\ k \in DOMAIN m => EntryOK(k, m[k])
  BY <1>1, RedisBounds, RateFacts
<1>3. n = Capacity - w
  BY <1>1, <1>2, LoadFacts
<1> HIDE DEF w, n
<1>4. CASE n >= cost /\ PutKey(k, RedisTokens(n - cost, t)) /\ BucketGrant(k, cost, t)
  <2>1. n - cost \in 0..Capacity /\ Capacity - (n - cost) = w + cost /\ w + cost <= Capacity
    BY <1>2, <1>3, <1>4, RateFacts
  <2>2. BucketPut(k, w + cost, t)
    BY <1>2, <1>4, <2>1, PutTokens
  <2> QED BY <1>1, <1>4, <2>1, <2>2, RedisGrant DEF w
<1>5. CASE /\ n < cost /\ PutKey(k, RedisTokens(n, t))
           /\ BucketDeny(k, cost, t, Ceil(cost - n, Rate))
  <2>1. n \in 0..Capacity /\ Capacity - n = w /\ w + cost > Capacity
        /\ cost - n = w + cost - Capacity
    BY <1>2, <1>3, <1>5, RateFacts
  <2>2. BucketPut(k, w, t)
    BY <1>2, <1>5, <2>1, PutTokens
  <2> QED BY <1>1, <1>5, <2>1, <2>2, RedisDeny DEF w
<1>6. CASE ExecRollbackTokens(k, cost, t) /\ k \in DOMAIN m
  <2> DEFINE a == TokensReturned(m[k], cost)
  <2>1. m[k].tokens \in 0..Capacity /\ Used(k, m[k]) = Capacity - m[k].tokens
    BY <1>2, <1>6 DEF EntryOK, Used
  <2>2. a \in 0..Capacity /\ Capacity - a = Atleast0(Used(k, m[k]) - cost)
    BY <1>2, <2>1, RateFacts DEF TokensReturned, Least, Atleast0
  <2>3. PutKey(k, RedisTokens(a, t)) /\ BucketRollback(k, cost, t, TRUE)
    BY <1>6 DEF ExecRollbackTokens
  <2> HIDE DEF a
  <2>4. BucketPut(k, Capacity - a, t)
    BY <1>2, <2>2, <2>3, PutTokens
  <2> QED BY <1>1, <1>6, <2>2, <2>3, <2>4, RedisRollback
<1>7. CASE ExecRollbackTokens(k, cost, t) /\ k \notin DOMAIN m
  <2>1. UNCHANGED <<store, grants, meter, issued, promise>>
    BY <1>7 DEF ExecRollbackTokens, BucketRollback
  <2> QED BY <2>1, RedisQuietStep
<1> QED BY <1>4, <1>5, <1>6, <1>7 DEF ExecConsumeTokens, n

LEMMA RedisLeaksStep ==
    ASSUME IInv, backend = "redis", UNCHANGED <<now, backend, kind>>,
           NEW k \in Key, kind[k] = "leaks", NEW cost \in Cost, NEW t \in 0..now,
           ExecConsumeLeaks(k, cost, t) \/ ExecRollbackLeaks(k, cost, t)
    PROVE  StoreInv(store)' /\ HistoryInv'
<1> DEFINE m == store.map
           w == LoadAt(m, k, t)
           n == Level(m, k, t)
<1>1. k \in Bucket
  BY DEF Bucket, Keys
<1>2. /\ now \in Nat /\ t \in Int /\ w \in 0..Capacity /\ StoreInv(store)
      /\ cost \in Nat \ {0}
      /\ k \in DOMAIN m => EntryOK(k, m[k])
  BY <1>1, RedisBounds, RateFacts
<1>3. n = w
  BY <1>1, <1>2, LoadFacts
<1> HIDE DEF w, n
<1>4. CASE n + cost <= Capacity /\ PutKey(k, RedisLevel(n + cost, t)) /\ BucketGrant(k, cost, t)
  <2>1. w + cost \in 0..Capacity
    BY <1>2, <1>3, <1>4, RateFacts
  <2>2. BucketPut(k, w + cost, t)
    BY <1>2, <1>3, <1>4, <2>1, PutLevel
  <2> QED BY <1>1, <1>3, <1>4, <2>2, RedisGrant DEF w
<1>5. CASE /\ n + cost > Capacity /\ PutKey(k, RedisLevel(n, t))
           /\ BucketDeny(k, cost, t, Ceil(n + cost - Capacity, Rate))
  <2>1. BucketPut(k, w, t)
    BY <1>2, <1>3, <1>5, PutLevel
  <2> QED BY <1>1, <1>3, <1>5, <2>1, RedisDeny DEF w
<1>6. CASE ExecRollbackLeaks(k, cost, t) /\ k \in DOMAIN m
  <2> DEFINE a == LevelReturned(m[k], cost)
  <2>1. m[k].level \in 0..Capacity /\ Used(k, m[k]) = m[k].level
    BY <1>2, <1>6 DEF EntryOK, Used
  <2>2. a \in 0..Capacity /\ a = Atleast0(Used(k, m[k]) - cost)
    BY <1>2, <2>1, RateFacts DEF LevelReturned, Atleast0
  <2>3. PutKey(k, RedisLevel(a, t)) /\ BucketRollback(k, cost, t, TRUE)
    BY <1>6 DEF ExecRollbackLeaks
  <2> HIDE DEF a
  <2>4. BucketPut(k, a, t)
    BY <1>2, <2>2, <2>3, PutLevel
  <2> QED BY <1>1, <1>6, <2>2, <2>3, <2>4, RedisRollback
<1>7. CASE ExecRollbackLeaks(k, cost, t) /\ k \notin DOMAIN m
  <2>1. UNCHANGED <<store, grants, meter, issued, promise>>
    BY <1>7 DEF ExecRollbackLeaks, BucketRollback
  <2> QED BY <2>1, RedisQuietStep
<1> QED BY <1>4, <1>5, <1>6, <1>7 DEF ExecConsumeLeaks, n

-----------------------------------------------------------------------------
(* The clock.                                                               *)

\* A tick takes Rate from a load.
LEMMA LoadTicks ==
    ASSUME NEW m, NEW k \in Bucket, now \in Nat, k \in DOMAIN m => EntryOK(k, m[k])
    PROVE  LoadAt(m, k, now + 1) = Atleast0(LoadAt(m, k, now) - Gain(1))
<1>1. Gain(1) \in Nat
  BY GainOrder
<1>2. CASE k \notin DOMAIN m
  BY <1>1, <1>2 DEF LoadAt, Atleast0
<1>3. CASE k \in DOMAIN m
  <2> DEFINE u == Used(k, m[k])
             d == now - m[k].updatedAt
  <2>1. now \in Int
    OBVIOUS
  <2>2. u \in 0..Capacity /\ m[k].updatedAt \in 0..now
    BY <1>3, <2>1, LoadFacts
  <2>3. u \in Nat /\ d \in Nat /\ d + 1 \in Nat /\ (now + 1) - m[k].updatedAt = d + 1
    BY <2>2, RateFacts
  <2>4. LoadAt(m, k, now) = Decayed(u, d) /\ LoadAt(m, k, now + 1) = Decayed(u, d + 1)
    BY <1>3, <2>3 DEF LoadAt
  <2> HIDE DEF u, d
  <2>5. Decayed(u, d) = Atleast0(u - Gain(d)) /\ Gain(d) \in Nat
    BY <2>3, DecayedFacts
  <2>6. Decayed(u, d + 1) = Atleast0(u - Gain(d + 1))
    BY <2>3, DecayedFacts
  <2>7. Gain(d + 1) = Gain(d) + Gain(1)
    BY <2>3, GainSum
  <2> QED BY <1>1, <2>3, <2>4, <2>5, <2>6, <2>7 DEF Atleast0
<1> QED BY <1>2, <1>3

\* No window that ends at the new time holds what one that ended before it
\* did not.
LEMMA PassedTicks ==
    ASSUME now \in Nat, NEW k, kind[k] = "window", KeyInv(store.map, k), HistoryInv, k \in Key,
           now' = now + 1, UNCHANGED grants
    PROVE  \A t \in 0..now' : Cardinality(Passed(k, t)') <= Limit
<1>1. ASSUME NEW t PROVE Passed(k, t)' = Passed(k, t)
  BY DEF Passed
<1>2. \A t \in 0..now : Cardinality(Passed(k, t)) <= Limit
  BY DEF KeyInv, WindowInv
<1>3. Cardinality(Passed(k, now + 1)) <= Limit
  <2>1. grants[k] \in [units : SUBSET Unit, late : Nat] /\ 0 \in 0..now /\ now \in 0..now
    BY DEF HistoryInv
  <2>2. /\ IsFiniteSet(grants[k].units)
        /\ \A e \in grants[k].units : e.at \in Nat /\ e.at <= now
    BY <2>1, WindowFacts
  <2>3. Passed(k, now + 1) \subseteq Passed(k, now)
    <3>1. ASSUME NEW e \in Passed(k, now + 1) PROVE e \in Passed(k, now)
      <4>1. /\ e \in grants[k].units /\ e.at \in Nat /\ e.at <= now
            /\ e.at > (now + 1) - (Window - grants[k].late)
        BY <2>2 DEF Passed
      <4>2. e.at > now - (Window - grants[k].late)
        BY <2>1, <4>1, RateFacts
      <4> QED BY <4>1, <4>2 DEF Passed
    <3> QED BY <3>1
  <2>4. IsFiniteSet(Passed(k, now))
    <3>1. Passed(k, now) \subseteq grants[k].units
      BY DEF Passed
    <3> QED BY <2>2, <3>1, FS_Subset
  <2>5. IsFiniteSet(Passed(k, now + 1))
        /\ Cardinality(Passed(k, now + 1)) <= Cardinality(Passed(k, now))
    BY <2>3, <2>4, FS_Subset
  <2>6. Cardinality(Passed(k, now + 1)) \in Nat /\ Cardinality(Passed(k, now)) \in Nat
    BY <2>4, <2>5, FS_CardinalityType
  <2>7. Cardinality(Passed(k, now)) <= Limit
    BY <1>2, <2>1
  <2> QED BY <2>5, <2>6, <2>7, RateFacts
<1>4. ASSUME NEW t \in 0..now' PROVE t \in 0..now \/ t = now + 1
  OBVIOUS
<1> QED BY <1>1, <1>2, <1>3, <1>4

LEMMA TickMem ==
    ASSUME IInv, Tick, backend = "memory", NEW k \in Key
    PROVE  KeyInv(store.map, k)'
<1> DEFINE m == store.map
<1>1. /\ now \in Nat /\ HistoryInv /\ KeyInv(m, k) /\ now' = now + 1
      /\ UNCHANGED <<backend, kind, store, grants, promise>>
      /\ meter' = [x \in Key |-> IF x \in Bucket THEN AsOf(x, now') ELSE meter[x]]
  BY Shapes DEF Tick, CounterTick
<1>2. k \in DOMAIN m => EntryOK(k, m[k])
  BY <1>1 DEF KeyInv
<1>3. (k \in DOMAIN store.map => EntryOK(k, store.map[k]))'
  BY <1>1, <1>2 DEF EntryOK
<1>4. (k \in Bucket)' <=> k \in Bucket
  BY <1>1 DEF Bucket, Keys
<1>5. \A p : LoadAt(store.map, k, p)' = LoadAt(m, k, p)
  BY <1>1 DEF LoadAt, Used
<1>6. Entries(store.map, k)' = Entries(m, k)
  BY <1>1 DEF Entries
<1>7. ASSUME k \in Bucket PROVE MemMeter(store.map, k)'
  <2> DEFINE o == meter[k]
             n == Atleast0(o.units - Gain(1))
             w == LoadAt(m, k, now)
  <2>1. /\ o \in [units : Nat, clock : 0..now, slip : Nat, lost : Nat]
        /\ o.clock = now /\ o.slip = 0 /\ o.units <= w /\ w <= o.units + Gain(o.lost)
    BY <1>1, <1>7 DEF KeyInv, MeterInv, MemMeter, HistoryInv
  <2>2. w \in Nat /\ LoadAt(m, k, now + 1) = Atleast0(w - Gain(1))
    <3>1. now \in Int
      BY <1>1
    <3>2. w \in Nat
      BY <1>1, <1>2, <1>7, <3>1, LoadFacts
    <3> QED BY <1>1, <1>2, <1>7, <3>2, LoadTicks
  <2>3. meter'[k] = [units |-> n, clock |-> now', slip |-> 0, lost |-> o.lost]
    <3>1. Most(o.clock, now') = now' /\ now' - o.clock = 1
      BY <1>1, <2>1 DEF Most
    <3>2. meter'[k] = AsOf(k, now')
      BY <1>1, <1>7
    <3>3. meter'[k] = [o EXCEPT !.clock = now', !.units = Atleast0(@ - Rate * (now' - o.clock))]
      BY <3>1, <3>2 DEF AsOf
    <3>4. meter'[k] = [o EXCEPT !.clock = now', !.units = n]
      BY <3>1, <3>3 DEF Gain
    <3>5. [o EXCEPT !.clock = now', !.units = n] = [[o EXCEPT !.clock = now'] EXCEPT !.units = n]
      BY Zenon
    <3> DEFINE q == [o EXCEPT !.clock = now']
    <3> HIDE DEF o, n
    <3>6. q = [units |-> o.units, clock |-> now', slip |-> 0, lost |-> o.lost]
      BY <2>1
    <3> HIDE DEF q
    <3>7. [q EXCEPT !.units = n] = [units |-> n, clock |-> now', slip |-> 0, lost |-> o.lost]
      BY <3>6
    <3> QED BY <3>4, <3>5, <3>7 DEF q
  <2>4. Gain(1) \in Nat /\ Gain(o.lost) \in Nat
    BY <2>1, GainOrder
  <2>5. LoadAt(store.map, k, now)' = Atleast0(w - Gain(1))
    BY <1>1, <1>5, <2>2
  <2> HIDE DEF w
  <2>6. n <= Atleast0(w - Gain(1)) /\ Atleast0(w - Gain(1)) <= n + Gain(o.lost)
    BY <2>1, <2>2, <2>4 DEF Atleast0
  <2> HIDE DEF n, o
  <2> QED BY <1>1, <2>3, <2>5, <2>6 DEF MemMeter
<1>8. WindowInv(store.map, k)'
  <2> SUFFICES ASSUME kind[k] = "window" PROVE WindowInv(store.map, k)'
    BY <1>1 DEF WindowInv
  <2>1. \A t \in 0..now' : Cardinality(Passed(k, t)') <= Limit
    BY <1>1, PassedTicks
  <2>2. 0 \in 0..now
    BY <1>1
  <2>3. \A e \in grants[k].units : e.at \in Nat /\ e.at <= now
    BY <1>1, <2>2, WindowFacts
  <2>4. /\ IsFiniteSet(grants[k].units) /\ Cardinality(Entries(m, k)) <= Limit
        /\ \A e \in grants[k].units : e.at > now - Window => e \in Entries(m, k)
    BY <1>1 DEF KeyInv, WindowInv
  <2>5. \A e \in grants[k].units : e.at <= now + 1 /\ (e.at > (now + 1) - Window => e \in Entries(m, k))
    BY <1>1, <2>3, <2>4, RateFacts
  <2> QED BY <1>1, <1>6, <2>1, <2>4, <2>5 DEF WindowInv, Backend
<1>9. RetryInv(store.map, k)'
  <2>1. RetryInv(m, k)
    BY <1>1 DEF KeyInv
  <2>2. LoadAt(store.map, k, promise[k].at)' = LoadAt(m, k, promise[k].at)
    BY <1>1, <1>5
  <2>3. InWindow(Entries(store.map, k), promise[k].at)' = InWindow(Entries(m, k), promise[k].at)
    BY <1>1, <1>6 DEF InWindow
  <2> QED BY <1>1, <1>4, <2>1, <2>2, <2>3 DEF RetryInv
<1> QED BY <1>1, <1>3, <1>4, <1>7, <1>8, <1>9 DEF KeyInv, MeterInv

LEMMA RedisForgetStep ==
    ASSUME IInv, backend = "redis", UNCHANGED <<now, backend, kind>>, NEW K, Forget(K),
           store' = [store EXCEPT !.map = Without(@, K)]
    PROVE  StoreInv(store)' /\ HistoryInv'
<1>1. StoreInv(store)
  BY Shapes
<1>2. store' = [map |-> store'.map, pruneAt |-> store.pruneAt] /\ Gone(K)
  BY <1>1, WithoutRemoves
<1>3. (\A x \in Key : KeyInv(store.map, x)') /\ HistoryInv'
  BY <1>2, ForgetStep
<1>4. DOMAIN store'.map \subseteq Key /\ store'.pruneAt = store.pruneAt
  BY <1>1, <1>2 DEF Gone, StoreInv
<1> QED BY <1>1, <1>2, <1>3, <1>4 DEF StoreInv

\* Redis drops a bucket only when it is full again, or empty, and a window
\* only when no unit is left in it.
LEMMA TickRedis ==
    ASSUME IInv, Tick, backend = "redis", NEW k \in Key
    PROVE  KeyInv(store.map, k)'
<1> DEFINE m == store.map
           o == meter[k]
<1>1. /\ now \in Nat /\ HistoryInv /\ StoreInv(store) /\ KeyInv(m, k) /\ now' = now + 1
      /\ UNCHANGED <<backend, kind, grants, meter, promise>>
      /\ store' = [store EXCEPT !.map = Restrict(@, RedisKeeps(@, now'))]
  BY Shapes DEF Tick, CounterTick
<1>2. /\ DOMAIN store'.map = RedisKeeps(m, now')
      /\ \A x \in DOMAIN store'.map : store'.map[x] = m[x]
  <2>1. store = [map |-> m, pruneAt |-> store.pruneAt]
    BY <1>1 DEF StoreInv
  <2> DEFINE r == Restrict(m, RedisKeeps(m, now'))
  <2>2. DOMAIN r = RedisKeeps(m, now') /\ \A x \in DOMAIN r : r[x] = m[x]
    BY DEF Restrict, RedisKeeps
  <2>3. store' = [store EXCEPT !.map = r]
    BY <1>1
  <2> HIDE DEF r
  <2>4. store'.map = r
    BY <2>1, <2>3
  <2> QED BY <2>2, <2>4
<1>3. k \in DOMAIN m => EntryOK(k, m[k]) /\ m[k].expiresAt \in Nat
  BY <1>1 DEF KeyInv, EntryOK
<1>4. /\ k \in DOMAIN store'.map => k \in DOMAIN m /\ store'.map[k] = m[k]
      /\ k \in DOMAIN m /\ k \notin DOMAIN store'.map => now' > m[k].expiresAt
  BY <1>1, <1>2, <1>3 DEF RedisKeeps
<1>5. (k \in DOMAIN store.map => EntryOK(k, store.map[k]))'
  BY <1>1, <1>3, <1>4 DEF EntryOK
<1>6. (k \in Bucket)' <=> k \in Bucket
  BY <1>1 DEF Bucket, Keys
<1>7. /\ o \in [units : Nat, clock : 0..now, slip : Nat, lost : Nat]
      /\ promise[k] \in [cost : Cost \cup {0}, at : Nat]
  BY <1>1 DEF HistoryInv
<1>8. ASSUME k \in Bucket PROVE RedisMeter(store.map, k)'
  <2>1. RedisMeter(m, k)
    BY <1>1, <1>8 DEF KeyInv, MeterInv
  <2>2. CASE k \in DOMAIN store'.map
    <3>1. /\ Agree(o.units, o.clock, o.slip, o.lost, Used(k, m[k]), m[k].updatedAt)
          /\ Capacity + Gain(m[k].updatedAt) <= Gain(m[k].expiresAt)
      BY <1>4, <2>1, <2>2 DEF RedisMeter
    <3>2. Used(k, store.map[k])' = Used(k, m[k]) /\ store'.map[k] = m[k] /\ meter' = meter
      BY <1>1, <1>4, <2>2 DEF Used
    <3> QED BY <2>2, <3>1, <3>2 DEF RedisMeter
  <2>3. CASE k \notin DOMAIN store'.map /\ k \in DOMAIN m
    <3> DEFINE u == Used(k, m[k])
               v == m[k].updatedAt
               x == m[k].expiresAt
    <3>1. /\ Agree(o.units, o.clock, o.slip, o.lost, u, v)
          /\ Capacity + Gain(v) <= Gain(x)
      BY <2>1, <2>3 DEF RedisMeter
    <3>2. u \in 0..Capacity /\ v \in 0..now /\ x \in Nat /\ now' > x
      <4>1. 0 \in Int
        OBVIOUS
      <4> QED BY <1>1, <1>3, <1>4, <1>8, <2>3, <4>1, LoadFacts
    <3>3. o.units + Gain(o.clock) <= u + Gain(o.slip) + Gain(v) /\ v <= o.clock
      BY <3>1 DEF Agree
    <3>4. /\ Gain(o.clock) \in Int /\ Gain(o.slip) \in Int /\ Gain(v) \in Int
          /\ Gain(x) \in Int /\ Gain(now') \in Int
      BY <1>1, <1>7, <3>2, GainInt
    <3>5. Gain(x) <= Gain(now')
      BY <1>1, <3>2, GainOrder
    <3>6. Gain(v) <= Gain(o.clock)
      BY <1>7, <3>2, <3>3, GainOrder
    <3>7. o.units \in Nat
      BY <1>7
    <3> HIDE DEF u, v, x, o
    <3>8. /\ o.units + Gain(o.clock) <= Gain(o.slip) + Gain(now')
          /\ o.units <= Capacity + Gain(o.slip)
      BY <3>1, <3>2, <3>3, <3>4, <3>5, <3>6, <3>7, RateFacts
    <3> QED BY <1>1, <2>3, <3>8 DEF RedisMeter, o
  <2>4. CASE k \notin DOMAIN m
    <3>1. /\ o.units + Gain(o.clock) <= Gain(o.slip) + Gain(now)
          /\ o.units <= Capacity + Gain(o.slip)
      BY <2>1, <2>4 DEF RedisMeter
    <3>2. Gain(now) <= Gain(now')
      BY <1>1, GainOrder
    <3>3. /\ Gain(o.clock) \in Int /\ Gain(o.slip) \in Int /\ Gain(now) \in Int
          /\ Gain(now') \in Int /\ o.units \in Nat
      BY <1>1, <1>7, GainInt
    <3>4. o.units + Gain(o.clock) <= Gain(o.slip) + Gain(now')
      BY <3>1, <3>2, <3>3
    <3> QED BY <1>1, <1>4, <2>4, <3>1, <3>4 DEF RedisMeter
  <2> QED BY <2>2, <2>3, <2>4
<1>9. ASSUME kind[k] = "window"
      PROVE  /\ IsFiniteSet(grants[k].units)
             /\ \A e \in grants[k].units : e.at \in Nat /\ e.at <= now
             /\ \A e \in grants[k].units : e.at > now - Window => e \in Entries(m, k)
             /\ Entries(m, k) \subseteq grants[k].units
             /\ Cardinality(Entries(m, k)) <= Limit
             /\ \A e \in Entries(m, k) : e.at + Window <= m[k].expiresAt
  <2>1. 0 \in 0..now
    BY <1>1
  <2>2. /\ \A e \in grants[k].units : e.at \in Nat /\ e.at <= now
        /\ Entries(m, k) \subseteq grants[k].units
    BY <1>1, <1>9, <2>1, WindowFacts
  <2> QED BY <1>1, <1>9, <2>2 DEF KeyInv, WindowInv
<1>10. k \in DOMAIN store'.map => Entries(store.map, k)' = Entries(m, k)
  BY <1>4 DEF Entries
<1>11. k \notin DOMAIN store'.map => Entries(store.map, k)' = {}
  BY DEF Entries
<1>12. ASSUME kind[k] = "window" PROVE WindowInv(store.map, k)'
  <2>1. \A t \in 0..now' : Cardinality(Passed(k, t)') <= Limit
    BY <1>1, <1>12, PassedTicks
  <2>2. \A e \in grants[k].units : e.at <= now + 1
    BY <1>1, <1>9, <1>12
  <2>3. ASSUME NEW e \in grants[k].units, e.at > now' - Window
        PROVE  e \in Entries(store.map, k)'
    <3>1. e.at \in Nat
      BY <1>9, <1>12, <2>3
    <3>2. e.at > now - Window /\ e.at + Window > now'
      BY <1>1, <2>3, <3>1, RateFacts
    <3>3. e \in Entries(m, k)
      BY <1>9, <1>12, <2>3, <3>2
    <3>4. CASE k \in DOMAIN store'.map
      BY <1>10, <3>3, <3>4
    <3>5. CASE k \notin DOMAIN store'.map
      <4>1. k \in DOMAIN m
        BY <3>3 DEF Entries
      <4>2. e.at + Window <= m[k].expiresAt /\ m[k].expiresAt \in Nat /\ now' > m[k].expiresAt
        BY <1>3, <1>4, <1>9, <1>12, <3>3, <3>5, <4>1
      <4> QED BY <1>1, <3>1, <3>2, <4>2, RateFacts
    <3> QED BY <3>4, <3>5
  <2>4. Cardinality(Entries(store.map, k)') <= Limit
    <3>1. Cardinality({}) = 0 /\ 0 <= Limit
      BY FS_EmptySet, RateFacts
    <3> QED BY <1>9, <1>10, <1>11, <1>12, <3>1
  <2>5. ASSUME NEW e \in Entries(store.map, k)' PROVE e.at + Window <= store'.map[k].expiresAt
    BY <1>4, <1>9, <1>10, <1>11, <1>12, <2>5
  <2> QED BY <1>1, <1>9, <1>12, <2>1, <2>2, <2>3, <2>4, <2>5 DEF WindowInv
<1>13. RetryInv(store.map, k)'
  <2> SUFFICES ASSUME promise[k] # NoPromise PROVE RetryInv(store.map, k)'
    BY <1>1 DEF RetryInv
  <2>1. RetryInv(m, k) /\ promise' = promise
    BY <1>1 DEF KeyInv
  <2>2. CASE k \in Bucket /\ LoadAt(m, k, promise[k].at) + promise[k].cost <= Capacity
    <3>1. LoadAt(m, k, promise[k].at) \in Nat /\ promise[k].at \in Int /\ promise[k].cost \in Nat
      <4>1. Cost \cup {0} \subseteq Nat
        BY RateFacts
      <4>2. promise[k].at \in Int /\ promise[k].cost \in Nat
        BY <1>7, <4>1
      <4> QED BY <1>1, <1>3, <2>2, <4>2, LoadFacts
    <3>2. CASE k \in DOMAIN store'.map
      <4>1. LoadAt(store.map, k, promise[k].at)' = LoadAt(m, k, promise[k].at)
        BY <1>1, <1>4, <3>2 DEF LoadAt, Used
      <4> QED BY <1>6, <2>1, <2>2, <4>1 DEF RetryInv
    <3>3. CASE k \notin DOMAIN store'.map
      <4>1. LoadAt(store.map, k, promise[k].at)' = 0
        BY <3>3 DEF LoadAt
      <4>2. 0 + promise[k].cost <= Capacity
        BY <2>2, <3>1, RateFacts
      <4> QED BY <1>6, <2>1, <2>2, <4>1, <4>2 DEF RetryInv
    <3> QED BY <3>2, <3>3
  <2>3. CASE /\ kind[k] = "window" /\ promise[k].cost = 1
             /\ Cardinality(InWindow(Entries(m, k), promise[k].at)) < Limit
    <3>1. CASE k \in DOMAIN store'.map
      <4>1. InWindow(Entries(store.map, k), promise[k].at)' = InWindow(Entries(m, k), promise[k].at)
        BY <1>1, <1>10, <3>1 DEF InWindow
      <4> QED BY <1>1, <2>3, <4>1 DEF RetryInv
    <3>2. CASE k \notin DOMAIN store'.map
      <4>1. InWindow(Entries(store.map, k), promise[k].at)' = {}
        BY <1>11, <3>2 DEF InWindow
      <4>2. Cardinality({}) < Limit
        BY FS_EmptySet, RateFacts
      <4> QED BY <1>1, <2>3, <4>1, <4>2 DEF RetryInv
    <3> QED BY <3>1, <3>2
  <2> QED BY <2>1, <2>2, <2>3 DEF RetryInv
<1>14. MeterInv(store.map, k)'
  BY <1>1, <1>6, <1>8 DEF MeterInv
<1>15. WindowInv(store.map, k)'
  BY <1>1, <1>12 DEF WindowInv
<1> QED BY <1>5, <1>13, <1>14, <1>15 DEF KeyInv

LEMMA TickStep ==
    ASSUME IInv, Tick
    PROVE  IInv'
<1>1. /\ now \in Nat /\ now' = now + 1 /\ backend \in Backend /\ HistoryInv /\ StoreInv(store)
      /\ UNCHANGED <<backend, kind, calls, grants, issued, promise>>
  BY Shapes DEF Tick, CounterTick
<1>2. CountInv'
  BY CounterTickStep DEF IInv, Tick
<1>3. CallsInv'
  <2>1. CallsInv /\ \A t \in 0..now : t \in 0..now'
    BY <1>1 DEF IInv
  <2> QED BY <1>1, <2>1 DEF CallsInv
<1>4. HistoryInv'
  <2>1. ASSUME NEW k \in Key
        PROVE  meter'[k] \in [units : Nat, clock : 0..now', slip : Nat, lost : Nat]
    <3> DEFINE o == meter[k]
    <3>1. o \in [units : Nat, clock : 0..now, slip : Nat, lost : Nat]
      BY <1>1 DEF HistoryInv
    <3>2. meter'[k] \in {AsOf(k, now'), o}
      BY DEF Tick
    <3>3. o \in [units : Nat, clock : 0..now', slip : Nat, lost : Nat]
      BY <1>1, <3>1
    <3>4. AsOf(k, now') \in [units : Nat, clock : 0..now', slip : Nat, lost : Nat]
      <4> DEFINE n == Atleast0(o.units - Rate * (now' - o.clock))
      <4>1. Most(o.clock, now') = now' /\ now' - o.clock \in Int
        BY <1>1, <3>1 DEF Most
      <4>2. n \in Nat
        <5>1. Rate * (now' - o.clock) \in Int
          BY <4>1, RateFacts
        <5> QED BY <3>1, <5>1 DEF Atleast0
      <4>3. AsOf(k, now') = [o EXCEPT !.clock = now', !.units = n]
        BY <4>1 DEF AsOf
      <4> HIDE DEF n, o
      <4>4. [o EXCEPT !.clock = now', !.units = n] = [[o EXCEPT !.clock = now'] EXCEPT !.units = n]
        BY Zenon
      <4>5. [o EXCEPT !.clock = now'] \in [units : Nat, clock : 0..now', slip : Nat, lost : Nat]
        BY <1>1, <3>3
      <4> QED BY <4>2, <4>3, <4>4, <4>5
    <3> QED BY <3>2, <3>3, <3>4
  <2>2. meter' = [k \in Key |-> meter'[k]]
    BY <1>1 DEF Tick, HistoryInv
  <2>3. meter' \in [Key -> [units : Nat, clock : 0..now', slip : Nat, lost : Nat]]
    BY <2>1, <2>2
  <2> QED BY <1>1, <2>3 DEF HistoryInv
<1>5. CASE backend = "memory"
  <2>1. \A k \in Key : KeyInv(store.map, k)'
    BY <1>5, TickMem
  <2>2. store' = store
    BY <1>5 DEF Tick
  <2>3. StoreInv(store)'
    BY <1>1, <2>1, <2>2 DEF StoreInv
  <2> QED BY <1>1, <1>2, <1>3, <1>4, <2>3 DEF IInv
<1>6. CASE backend = "redis"
  <2>1. \A k \in Key : KeyInv(store.map, k)'
    BY <1>6, TickRedis
  <2> DEFINE r == Restrict(store.map, RedisKeeps(store.map, now'))
  <2>2. store = [map |-> store.map, pruneAt |-> store.pruneAt]
        /\ DOMAIN store.map \subseteq Key
    BY <1>1 DEF StoreInv
  <2>3. DOMAIN r \subseteq DOMAIN store.map
    BY DEF Restrict, RedisKeeps
  <2>4. store' = [store EXCEPT !.map = r]
    BY <1>6 DEF Tick
  <2> HIDE DEF r
  <2>5. store' = [map |-> r, pruneAt |-> store.pruneAt]
    BY <2>2, <2>4
  <2>6. /\ store' = [map |-> store'.map, pruneAt |-> store'.pruneAt]
        /\ store'.pruneAt = store.pruneAt /\ DOMAIN store'.map \subseteq Key
    BY <2>2, <2>3, <2>5
  <2>7. StoreInv(store)'
    BY <1>1, <1>6, <2>1, <2>6 DEF StoreInv
  <2> QED BY <1>1, <1>2, <1>3, <1>4, <2>7 DEF IInv
<1> QED BY <1>1, <1>5, <1>6 DEF Backend

-----------------------------------------------------------------------------
(* Every step.                                                              *)

LEMMA MemCallStep ==
    ASSUME IInv, backend = "memory", UNCHANGED <<now, backend, kind>>,
           NEW k \in Key, MemCall(k)
    PROVE  StoreInv(store)' /\ HistoryInv'
<1>1. issued[k] \subseteq Cost
  BY Shapes DEF HistoryInv
<1>2. ASSUME NEW cost \in Cost, kind[k] = "window", MemCheckWindow(k, cost)
      PROVE  StoreInv(store)' /\ HistoryInv'
  BY <1>2, MemWindowStep
<1>3. ASSUME NEW g \in 1..MaxGrants, kind[k] = "window", MemRollbackWindow(k, g)
      PROVE  StoreInv(store)' /\ HistoryInv'
  BY <1>3, MemWindowStep
<1>4. ASSUME NEW cost \in Cost, kind[k] = "tokens",
             MemConsumeTokens(k, cost) \/ MemRollbackTokens(k, cost)
      PROVE  StoreInv(store)' /\ HistoryInv'
  BY <1>4, MemTokensStep
<1>5. ASSUME NEW cost \in Cost, kind[k] = "leaks",
             MemConsumeLeaks(k, cost) \/ MemRollbackLeaks(k, cost)
      PROVE  StoreInv(store)' /\ HistoryInv'
  BY <1>5, MemLeaksStep
<1> QED BY <1>1, <1>2, <1>3, <1>4, <1>5, MemLimitResetStep DEF MemCall

LEMMA RedisCallStep ==
    ASSUME IInv, backend = "redis", UNCHANGED <<now, backend, kind>>,
           NEW k \in Key, RedisCall(k)
    PROVE  StoreInv(store)' /\ HistoryInv'
<1>1. 0 \in 0..now
  BY Shapes
<1>2. ASSUME NEW g, kind[k] = "window", RedisRollbackWindow(k, g)
      PROVE  StoreInv(store)' /\ HistoryInv'
  BY <1>1, <1>2, RedisWindowStep
<1>3. CASE RedisLimitReset(k)
  BY <1>3, RedisForgetStep DEF RedisLimitReset
<1> QED BY <1>2, <1>3 DEF RedisCall

LEMMA RedisExecStep ==
    ASSUME IInv, backend = "redis", UNCHANGED <<now, backend, kind>>,
           NEW c \in Caller, RedisExec(c)
    PROVE  StoreInv(store)' /\ HistoryInv' /\ CallsInv'
<1> DEFINE k == calls[c].key
           cost == calls[c].cost
           t == calls[c].at
           do == calls[c].do
<1>1. do # "nothing"
  BY DEF RedisExec
<1>2. /\ k \in Key /\ cost \in Cost /\ t \in 0..now
      /\ do = "checkWindow" => kind[k] = "window"
      /\ do \in {"consumeTokens", "rollbackTokens"} => kind[k] = "tokens"
      /\ do \in {"consumeLeaks", "rollbackLeaks"} => kind[k] = "leaks"
  BY <1>1 DEF IInv, CallsInv, Idle
<1>3. CallsInv'
  BY DEF RedisExec, IInv, CallsInv, Idle
<1> HIDE DEF k, cost, t, do
<1>4. CASE do = "checkWindow" /\ ExecCheckWindow(k, cost, t)
  BY <1>2, <1>3, <1>4, RedisWindowStep
<1>5. CASE /\ do \in {"consumeTokens", "rollbackTokens"}
           /\ ExecConsumeTokens(k, cost, t) \/ ExecRollbackTokens(k, cost, t)
  BY <1>2, <1>3, <1>5, RedisTokensStep
<1>6. CASE /\ do \in {"consumeLeaks", "rollbackLeaks"}
           /\ ExecConsumeLeaks(k, cost, t) \/ ExecRollbackLeaks(k, cost, t)
  BY <1>2, <1>3, <1>6, RedisLeaksStep
<1> QED BY <1>4, <1>5, <1>6 DEF RedisExec, k, cost, t, do

LEMMA RedisSendStep ==
    ASSUME IInv, UNCHANGED <<now, backend, kind>>, NEW c \in Caller, NEW k \in Key,
           RedisSend(c, k)
    PROVE  StoreInv(store)' /\ HistoryInv' /\ CallsInv'
<1>1. now \in 0..now /\ CallsInv
  BY Shapes DEF IInv
<1>2. ASSUME NEW do, NEW cost \in Cost, Send(c, do, k, cost),
             do = "checkWindow" => kind[k] = "window",
             do \in {"consumeTokens", "rollbackTokens"} => kind[k] = "tokens",
             do \in {"consumeLeaks", "rollbackLeaks"} => kind[k] = "leaks"
      PROVE  StoreInv(store)' /\ HistoryInv' /\ CallsInv'
  <2>1. UNCHANGED <<store, grants, meter, issued, promise>>
    BY <1>2 DEF Send
  <2>2. StoreInv(store)' /\ HistoryInv'
    BY <2>1, RedisQuietStep
  <2> DEFINE call == [do |-> do, key |-> k, cost |-> cost, at |-> now]
  <2>3. calls' = [calls EXCEPT ![c] = call]
    BY <1>2 DEF Send
  <2>4. /\ call.key \in Key /\ call.cost \in Cost /\ call.at \in 0..now
        /\ call.do = "checkWindow" => kind[call.key] = "window"
        /\ call.do \in {"consumeTokens", "rollbackTokens"} => kind[call.key] = "tokens"
        /\ call.do \in {"consumeLeaks", "rollbackLeaks"} => kind[call.key] = "leaks"
    BY <1>1, <1>2
  <2> HIDE DEF call
  <2>5. CallsInv'
    BY <1>1, <2>3, <2>4 DEF CallsInv, Idle
  <2> QED BY <2>2, <2>5
<1>3. ASSUME NEW cost \in Cost, SendCheckWindow(c, k, cost)
      PROVE  StoreInv(store)' /\ HistoryInv' /\ CallsInv'
  BY <1>2, <1>3 DEF SendCheckWindow
<1>4. ASSUME NEW cost \in Cost, SendConsumeTokens(c, k, cost)
      PROVE  StoreInv(store)' /\ HistoryInv' /\ CallsInv'
  BY <1>2, <1>4 DEF SendConsumeTokens
<1>5. ASSUME NEW cost \in Cost, SendConsumeLeaks(c, k, cost)
      PROVE  StoreInv(store)' /\ HistoryInv' /\ CallsInv'
  BY <1>2, <1>5 DEF SendConsumeLeaks
<1>6. ASSUME NEW cost \in Cost, SendRollbackTokens(c, k, cost)
      PROVE  StoreInv(store)' /\ HistoryInv' /\ CallsInv'
  BY <1>2, <1>6 DEF SendRollbackTokens
<1>7. ASSUME NEW cost \in Cost, SendRollbackLeaks(c, k, cost)
      PROVE  StoreInv(store)' /\ HistoryInv' /\ CallsInv'
  BY <1>2, <1>7 DEF SendRollbackLeaks
<1> QED BY <1>3, <1>4, <1>5, <1>6, <1>7 DEF RedisSend

LEMMA LimitStepStep ==
    ASSUME IInv, LimitStep
    PROVE  IInv'
<1>1. UNCHANGED <<now, backend, counterVars, kind>>
  BY DEF LimitStep
<1>2. CountInv' /\ kind' \in [Key -> Kind]
  BY <1>1, CountStep DEF IInv
<1>3. Limited \subseteq Key /\ CallsInv
  BY BucketIsLimited DEF IInv
<1>4. ASSUME UNCHANGED calls PROVE CallsInv'
  BY <1>1, <1>3, <1>4 DEF CallsInv
<1>5. CASE /\ backend = "memory"
           /\ \/ \E k \in Limited : MemCall(k)
              \/ \E K \in SUBSET Limited : MemLimitResetPrefix(K)
              \/ MemLimitCleanup
           /\ UNCHANGED calls
  <2>1. StoreInv(store)' /\ HistoryInv'
    BY <1>1, <1>3, <1>5, MemCallStep, MemLimitResetPrefixStep, MemCleanupStep
  <2> QED BY <1>2, <1>4, <1>5, <2>1 DEF IInv
<1>6. CASE backend = "redis" /\ \E c \in Caller, k \in Limited : RedisSend(c, k)
  <2>1. StoreInv(store)' /\ HistoryInv' /\ CallsInv'
    BY <1>1, <1>3, <1>6, RedisSendStep
  <2> QED BY <1>2, <2>1 DEF IInv
<1>7. CASE backend = "redis" /\ \E c \in Caller : RedisExec(c)
  <2>1. StoreInv(store)' /\ HistoryInv' /\ CallsInv'
    BY <1>1, <1>7, RedisExecStep
  <2> QED BY <1>2, <2>1 DEF IInv
<1>8. CASE backend = "redis" /\ (\E k \in Limited : RedisCall(k)) /\ UNCHANGED calls
  <2>1. StoreInv(store)' /\ HistoryInv'
    BY <1>1, <1>3, <1>8, RedisCallStep
  <2> QED BY <1>2, <1>4, <1>8, <2>1 DEF IInv
<1>9. CASE /\ backend = "redis" /\ \E K \in SUBSET Limited : RedisLimitResetBatch(K)
           /\ UNCHANGED calls
  <2>1. StoreInv(store)' /\ HistoryInv'
    BY <1>1, <1>9, RedisForgetStep DEF RedisLimitResetBatch
  <2> QED BY <1>2, <1>4, <1>9, <2>1 DEF IInv
<1> QED BY <1>5, <1>6, <1>7, <1>8, <1>9 DEF LimitStep

\* The fixed windows leave the entries of the other kinds alone.
LEMMA FixedWindowStep ==
    ASSUME IInv, [CounterNext]_<<now, backend, counterVars>>, UNCHANGED <<now, backend>>,
           UNCHANGED limitVars
    PROVE  IInv'
<1>1. /\ UNCHANGED <<now, backend, kind>> /\ UNCHANGED calls
      /\ UNCHANGED <<store, grants, meter, issued, promise>>
  BY DEF limitVars
<1>2. CountInv'
  BY CountStep DEF IInv
<1>3. StoreInv(store)' /\ HistoryInv'
  BY <1>1, RedisQuietStep
<1>4. CallsInv'
  BY <1>1 DEF IInv, CallsInv
<1> QED BY <1>1, <1>2, <1>3, <1>4 DEF IInv

LEMMA IInvStep == IInv /\ [Next]_vars => IInv'
<1> SUFFICES ASSUME IInv, [Next]_vars PROVE IInv'
  OBVIOUS
<1>1. CASE \E k \in Keys({"fixed"}) : FixedWindowCall(k)
  <2>1. PICK k \in Key : CounterCall(k) /\ UNCHANGED limitVars
    BY <1>1 DEF Keys, FixedWindowCall
  <2>2. CounterNext /\ UNCHANGED <<now, backend>>
    BY <2>1 DEF CounterNext, CounterCall
  <2> QED BY <2>1, <2>2, FixedWindowStep
<1>2. CASE \E K \in SUBSET Keys({"fixed"}) : FixedWindowSweep(K)
  <2>1. PICK K \in SUBSET Key : CounterSweep(K) /\ UNCHANGED limitVars
    BY <1>2 DEF Keys, FixedWindowSweep
  <2>2. CounterNext /\ UNCHANGED <<now, backend>>
    BY <2>1 DEF CounterNext, CounterSweep
  <2> QED BY <2>1, <2>2, FixedWindowStep
<1>3. CASE LimitStep
  BY <1>3, LimitStepStep
<1>4. CASE Tick
  BY <1>4, TickStep
<1>5. CASE UNCHANGED vars
  BY <1>5, FixedWindowStep DEF vars
<1> QED BY <1>1, <1>2, <1>3, <1>4, <1>5 DEF Next

LEMMA IInvInit == Init => IInv
<1> SUFFICES ASSUME Init PROVE IInv
  OBVIOUS
<1>1. CountInv /\ now = 0
  BY CountInit DEF Init, CounterInit
<1>2. kind \in [Key -> Kind]
  <2>1. PICK s \in Setups : kind = s[2]
    BY DEF Init
  <2>2. s \in Backend \X [Key -> Kind]
    BY LimitAssumption
  <2> QED BY <2>1, <2>2
<1>3. CallsInv
  BY DEF Init, CallsInv
<1>4. HistoryInv
  BY <1>1 DEF Init, HistoryInv, NoPromise
<1>5. DOMAIN store.map = {} /\ store = [map |-> store.map, pruneAt |-> Never]
  BY DEF Init
<1>6. ASSUME NEW k \in Key PROVE KeyInv(store.map, k)
  <2>1. /\ meter[k] = [units |-> 0, clock |-> 0, slip |-> 0, lost |-> 0]
        /\ grants[k].units = {} /\ promise[k] = NoPromise
    BY DEF Init
  <2>2. LoadAt(store.map, k, now) = 0 /\ Entries(store.map, k) = {}
    BY <1>5 DEF LoadAt, Entries
  <2>3. Gain(0) = 0
    BY GainOrder
  <2>4. MemMeter(store.map, k) /\ RedisMeter(store.map, k)
    BY <1>1, <1>5, <2>1, <2>2, <2>3, RateFacts DEF MemMeter, RedisMeter
  <2>5. WindowInv(store.map, k)
    <3>1. \A t : Passed(k, t) = {}
      BY <2>1 DEF Passed
    <3>2. IsFiniteSet({}) /\ Cardinality({}) = 0 /\ 0 <= Limit
      BY FS_EmptySet, RateFacts
    <3> QED BY <2>1, <2>2, <3>1, <3>2 DEF WindowInv
  <2> QED BY <1>5, <2>1, <2>4, <2>5 DEF KeyInv, MeterInv, RetryInv
<1>7. StoreInv(store)
  <2>1. store.pruneAt = Never
    BY <1>5
  <2> QED BY <1>5, <1>6, <2>1 DEF StoreInv
<1> QED BY <1>1, <1>2, <1>3, <1>4, <1>7 DEF IInv

-----------------------------------------------------------------------------
(* The properties.                                                          *)

LEMMA TypeSuffices == IInv => TypeOK
<1> SUFFICES ASSUME IInv PROVE TypeOK
  OBVIOUS
<1>1. CounterTypeOK /\ CountersPrunedInTime
  BY CountInvSuffices DEF IInv, CountInv
<1>2. PrunedInTime
  BY Shapes DEF StoreInv, PrunedInTime
<1>3. \A k \in DOMAIN store.map : EntryOK(k, store.map[k])
  BY Shapes DEF StoreInv, KeyInv
<1> QED BY <1>1, <1>2, <1>3, Shapes DEF TypeOK, IInv, CallsInv, StoreInv, HistoryInv

LEMMA MeterSuffices == IInv => MeterKept
<1> SUFFICES ASSUME IInv, NEW k \in Bucket
             PROVE  /\ meter[k].units <= Capacity + Rate * meter[k].slip
                    /\ Load(k) <= meter[k].units + Rate * meter[k].lost
                    /\ backend = "memory" => meter[k].slip = 0
  BY DEF MeterKept
<1> DEFINE o == meter[k]
           w == LoadAt(store.map, k, o.clock)
<1>1. /\ k \in Key /\ now \in Nat /\ backend \in Backend /\ HistoryInv /\ KeyInv(store.map, k)
  BY BucketIsLimited, Shapes
<1>2. /\ o \in [units : Nat, clock : 0..now, slip : Nat, lost : Nat]
      /\ k \in DOMAIN store.map => EntryOK(k, store.map[k])
  BY <1>1 DEF HistoryInv, KeyInv
<1>3. /\ o.units \in Nat /\ o.clock \in Nat /\ o.slip \in Nat /\ o.lost \in Nat
  BY <1>1, <1>2
<1>4. /\ w \in Nat /\ w <= Capacity
      /\ kind[k] = "tokens" => Tokens(store.map, k, o.clock) = Capacity - w
      /\ kind[k] = "leaks" => Level(store.map, k, o.clock) = w
  <2>1. o.clock \in Int
    BY <1>3
  <2> QED BY <1>1, <1>2, <2>1, LoadFacts
<1>5. Load(k) = w
  <2>1. kind[k] \in {"tokens", "leaks"}
    BY DEF Bucket, Keys
  <2>2. CASE kind[k] = "tokens"
    <3>1. Load(k) = Capacity - Tokens(store.map, k, o.clock)
      BY <2>2 DEF Load
    <3> HIDE DEF w, o
    <3> QED BY <1>4, <2>2, <3>1, RateFacts
  <2>3. CASE kind[k] = "leaks"
    BY <1>4, <2>3 DEF Load
  <2> QED BY <2>1, <2>2, <2>3
<1>6. /\ Rate * o.slip = Gain(o.slip) /\ Rate * o.lost = Gain(o.lost)
      /\ Gain(o.slip) \in Nat /\ Gain(o.lost) \in Nat /\ Gain(o.clock) \in Int
  BY <1>3, GainOrder, GainInt DEF Gain
<1>7. CASE backend = "memory"
  <2>1. o.clock = now /\ o.slip = 0 /\ o.units <= w /\ w <= o.units + Gain(o.lost)
    BY <1>1, <1>7 DEF KeyInv, MeterInv, MemMeter
  <2> HIDE DEF w, o
  <2>2. o.units <= Capacity + Gain(o.slip)
    BY <1>3, <1>4, <1>6, <2>1, RateFacts
  <2> QED BY <1>5, <1>6, <2>1, <2>2 DEF o
<1>8. CASE backend = "redis"
  <2>1. RedisMeter(store.map, k)
    BY <1>1, <1>8 DEF KeyInv, MeterInv
  <2>2. CASE k \notin DOMAIN store.map
    <3>1. w = 0
      BY <2>2 DEF LoadAt
    <3>2. o.units <= Capacity + Gain(o.slip)
      BY <2>1, <2>2 DEF RedisMeter
    <3> HIDE DEF w, o
    <3>3. w <= o.units + Gain(o.lost)
      BY <1>3, <1>6, <3>1
    <3> QED BY <1>5, <1>6, <1>8, <3>2, <3>3 DEF o
  <2>3. CASE k \in DOMAIN store.map
    <3> DEFINE u == Used(k, store.map[k])
               v == store.map[k].updatedAt
    <3>1. u \in 0..Capacity /\ v \in 0..now /\ w = Decayed(u, o.clock - v)
      <4>1. o.clock \in Int
        BY <1>3
      <4> QED BY <1>1, <1>2, <2>3, <4>1, LoadFacts
    <3>2. Agree(o.units, o.clock, o.slip, o.lost, u, v)
      BY <2>1, <2>3 DEF RedisMeter
    <3>3. /\ v <= o.clock
          /\ o.units + Gain(o.clock) <= u + Gain(o.slip) + Gain(v)
          /\ u + Gain(v) <= o.units + Gain(o.lost) + Gain(o.clock)
      BY <3>2 DEF Agree
    <3> HIDE DEF u, v, w, o
    <3>4. u \in Nat /\ u <= Capacity /\ v \in Nat
      BY <1>1, <3>1, RateFacts
    <3>5. o.clock - v \in Int /\ o.clock - v >= 0
      BY <1>3, <3>3, <3>4
    <3>6. w = Atleast0(u - Gain(o.clock - v))
      BY <3>1, <3>4, <3>5, DecayedFacts
    <3>7. Gain(o.clock - v) = Gain(o.clock) - Gain(v) /\ Gain(v) \in Int
      <4>1. o.clock \in Int /\ v \in Int
        BY <1>3, <3>4
      <4>2. Gain(o.clock - v) = Gain(o.clock) - Gain(v)
        BY <4>1, GainSum
      <4>3. Gain(v) \in Int
        BY <4>1, GainInt
      <4> QED BY <4>2, <4>3
    <3>8. Gain(v) <= Gain(o.clock)
      BY <1>3, <3>3, <3>4, GainOrder
    <3>9. o.units <= Capacity + Gain(o.slip)
      BY <1>3, <1>6, <3>3, <3>4, <3>7, <3>8, RateFacts
    <3>10. w <= o.units + Gain(o.lost)
      BY <1>3, <1>6, <3>3, <3>4, <3>6, <3>7 DEF Atleast0
    <3> QED BY <1>5, <1>6, <1>8, <3>9, <3>10 DEF o
  <2> QED BY <2>2, <2>3
<1> QED BY <1>1, <1>7, <1>8 DEF Backend

LEMMA WindowSuffices == IInv => WindowKept
<1> SUFFICES ASSUME IInv, NEW k \in Keys({"window"}), NEW t \in 0..now
             PROVE  Cardinality(Passed(k, t)) <= Limit
  BY DEF WindowKept, Passed
<1>1. k \in Key /\ kind[k] = "window"
  BY DEF Keys
<1>2. KeyInv(store.map, k)
  BY <1>1, Shapes
<1> QED BY <1>1, <1>2 DEF KeyInv, WindowInv

LEMMA RetrySuffices == IInv => RetryKept
<1> SUFFICES ASSUME IInv, NEW k \in Key, promise[k] # NoPromise, now >= promise[k].at
             PROVE  Allowed(k, promise[k].cost)
  BY DEF RetryKept
<1> DEFINE m == store.map
           p == promise[k]
<1>1. /\ now \in Nat /\ HistoryInv /\ KeyInv(m, k) /\ RetryInv(m, k)
      /\ k \in DOMAIN m => EntryOK(k, m[k])
  BY Shapes DEF KeyInv
<1>2. p.at \in Nat /\ p.cost \in Nat
  <2>1. p \in [cost : Cost \cup {0}, at : Nat]
    BY <1>1 DEF HistoryInv
  <2>2. Cost \cup {0} \subseteq Nat
    BY RateFacts
  <2> QED BY <2>1, <2>2
<1>3. CASE k \in Bucket /\ LoadAt(m, k, p.at) + p.cost <= Capacity
  <2> DEFINE w == LoadAt(m, k, now)
             w0 == LoadAt(m, k, p.at)
  <2>1. p.at \in Int /\ now \in Int /\ p.at <= now
    BY <1>1, <1>2
  <2>2. w0 \in Nat
    BY <1>1, <1>3, <2>1, LoadFacts
  <2>3. /\ w \in Nat
        /\ kind[k] = "tokens" => Tokens(m, k, now) = Capacity - w
        /\ kind[k] = "leaks" => Level(m, k, now) = w
    BY <1>1, <1>3, <2>1, LoadFacts
  <2>4. w <= w0
    BY <1>1, <1>3, <2>1, LoadLater
  <2>5. w0 + p.cost <= Capacity
    BY <1>3
  <2> HIDE DEF w, w0, p
  <2>6. w + p.cost <= Capacity /\ Capacity - w >= p.cost
    BY <1>2, <2>2, <2>3, <2>4, <2>5, RateFacts
  <2>7. kind[k] \in {"tokens", "leaks"}
    BY <1>3 DEF Bucket, Keys
  <2> QED BY <2>3, <2>6, <2>7 DEF Allowed, p
<1>4. CASE kind[k] = "window" /\ p.cost = 1 /\ Cardinality(InWindow(Entries(m, k), p.at)) < Limit
  <2> DEFINE E == Entries(m, k)
  <2>1. now \in 0..now
    BY <1>1
  <2>2. IsFiniteSet(E) /\ \A e \in E : e.at \in Int
    BY <1>1, <1>4, <2>1, WindowFacts
  <2>3. p.at \in Int /\ now \in Int /\ p.at <= now
    BY <1>1, <1>2
  <2>4. /\ Cardinality(InWindow(E, now)) <= Cardinality(InWindow(E, p.at))
        /\ Cardinality(InWindow(E, now)) \in Nat /\ Cardinality(InWindow(E, p.at)) \in Nat
    <3> DEFINE at == p.at
    <3>1. at \in Int /\ now \in Int /\ at <= now
      BY <2>3
    <3>2. E \subseteq E
      OBVIOUS
    <3> HIDE DEF E, at
    <3>3. /\ Cardinality(InWindow(E, now)) <= Cardinality(InWindow(E, at))
          /\ Cardinality(InWindow(E, now)) \in Nat /\ Cardinality(InWindow(E, at)) \in Nat
      BY <2>2, <3>1, <3>2, FewerInWindow
    <3> QED BY <3>3 DEF at
  <2>5. Cardinality(InWindow(E, p.at)) < Limit
    BY <1>4
  <2>6. Cardinality(InWindow(E, now)) + 1 <= Limit
    BY <2>4, <2>5, RateFacts
  <2> QED BY <1>4, <2>6 DEF Allowed
<1> QED BY <1>1, <1>3, <1>4 DEF RetryInv

-----------------------------------------------------------------------------
\* Whatever the calls to the stores and their order, a bucket holds no less
\* than nothing and no more than its capacity, a sliding window no unit that
\* was not granted or was taken back, and the two memory stores look for
\* expired entries no later than the first of them expires.
THEOREM RateLimitTypeCorrect == Spec => []TypeOK
BY IInvInit, IInvStep, TypeSuffices, PTL DEF Spec

\* Among the stores of the other kinds, a fixed window counts what its calls
\* added less what they subtracted since the first call of the window, and
\* its length is that of the first call.
THEOREM FixedWindowsCorrect == Spec => []CountsOneWindow
<1>1. IInv => CountsOneWindow
  BY CountInvSuffices DEF IInv
<1> QED BY <1>1, IInvInit, IInvStep, PTL DEF Spec

\* consume() of a token bucket and of a leaky bucket lets no more pass than
\* the capacity and what the rate gives back, but for the time by which late
\* calls set the bucket back; and no bucket holds a caller to more than it let
\* pass, but for the refill its rollbacks left out.
THEOREM MeterCorrect == Spec => []MeterKept
BY IInvInit, IInvStep, MeterSuffices, PTL DEF Spec

\* check() of a sliding window lets no more than the limit pass in any window,
\* wherever it begins, but for the lateness of its calls.
THEOREM WindowCorrect == Spec => []WindowKept
BY IInvInit, IInvStep, WindowSuffices, PTL DEF Spec

\* Who waits for the retryAfterMs of a denial is let pass, if no other call of
\* the key was let pass and no rollback of its bucket came in between.
THEOREM RetryCorrect == Spec => []RetryKept
BY IInvInit, IInvStep, RetrySuffices, PTL DEF Spec

=============================================================================
