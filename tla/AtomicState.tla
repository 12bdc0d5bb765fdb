------------------------------ MODULE AtomicState ------------------------------
(***************************************************************************)
(* The atomic counters of src/src/atomic.ts, and with them the fixed       *)
(* window stores of src/src/rate-limit.ts, which only pass their calls on. *)
(*                                                                         *)
(* A counter is created with a ttl by its first increment and counts until *)
(* the ttl has run out.  There are two backends.  In memory a call is one  *)
(* step; expired counters are removed by the next call that finds the time *)
(* nextPruneAt has come.  In Redis an increment or decrement is one Lua    *)
(* script, hence one step as well, and Redis removes expired keys itself.  *)
(* These calls carry no time, so a call in flight differs in nothing from  *)
(* one that is not made yet.                                               *)
(***************************************************************************)
EXTENDS Integers, FiniteSets, Functions

CONSTANTS
    Key,
    Delta, Ttl,     \* the amounts and ttl given to the calls
    MaxCount,       \* bound on the value of a counter
    MaxTime         \* per backend: bound on the clock

Backend == {"memory", "redis"}

ASSUME CounterAssumption ==
    /\ IsFiniteSet(Key)
    /\ Delta \subseteq Nat \ {0}
    /\ Ttl \subseteq Nat \ {0}
    /\ MaxCount \in Nat
    /\ MaxTime \in [Backend -> Nat]

VARIABLES
    now,            \* Date.now(), and the clock of the Redis server
    backend,        \* the backend in use
    counters,       \* the stored counters
    counterPruneAt, \* _nextPruneAt of the memory backend
    \* history:
    tally,          \* per key: what was counted since its window began, and
                    \* when that window ends
    reply,          \* what the last call returned, and what was due
    unbounded       \* counters a decrement left without their expiry

counterVars == <<counters, counterPruneAt, tally, reply, unbounded>>

Never == -1     \* POSITIVE_INFINITY, and the expiry of a Redis key without one

Counter == [value : Nat, expiresAt : Nat \cup {Never}]

Atleast0(n) == IF n > 0 THEN n ELSE 0

\* Map.set and Map.delete.
Put(m, k, v) == [x \in DOMAIN m \cup {k} |-> IF x = k THEN v ELSE m[x]]
Without(m, K) == Restrict(m, DOMAIN m \ K)

-----------------------------------------------------------------------------
(* Pruning in memory.                                                      *)

\* The smallest element of a set of times, Never if there is none.
Earliest(T) ==
    IF T = {} THEN Never ELSE CHOOSE t \in T : \A u \in T : t <= u

\* Mutant: a time is only taken over if there is none yet.
SoonerOnce(at, t) == IF at = Never THEN t ELSE at

\* _trackPruneAt
Sooner(at, t) == IF at = Never \/ t < at THEN t ELSE at

Due(at) == at # Never /\ now >= at

\* _refreshNextPruneAt
NextPruneAt(c) == Earliest({c[k].expiresAt : k \in DOMAIN c})

\* cleanupExpired
Unexpired(c) == Restrict(c, {k \in DOMAIN c : c[k].expiresAt > now})

\* _cleanupExpiredIfDue: the counters and nextPruneAt that it leaves.
Pruned == IF Due(counterPruneAt) THEN Unexpired(counters) ELSE counters

PrunedAt == IF Due(counterPruneAt) THEN NextPruneAt(Pruned) ELSE counterPruneAt

-----------------------------------------------------------------------------
(* What is due: the reference the two backends are held against.           *)

\* Redis still has a key in the millisecond in which it expires.
LastTick == IF backend = "redis" THEN 1 ELSE 0

DueCount(k) == IF now < tally[k].ends THEN tally[k].sum ELSE 0

Added(k, d, ttl) ==
    IF now < tally[k].ends
    THEN [tally[k] EXCEPT !.sum = @ + d]
    ELSE [sum |-> d, ends |-> now + ttl + LastTick]

Subtracted(k, d) == [tally[k] EXCEPT !.sum = Atleast0(@ - d)]

NoTally == [sum |-> 0, ends |-> 0]

NoReply == [got |-> 0, due |-> 0]

CountAdd(k, d, ttl, got) ==
    /\ tally' = [tally EXCEPT ![k] = Added(k, d, ttl)]
    /\ reply' = IF k \in unbounded THEN NoReply
                ELSE [got |-> got, due |-> Added(k, d, ttl).sum]

CountSubtract(k, d, got) ==
    /\ tally' = [tally EXCEPT ![k] = Subtracted(k, d)]
    /\ reply' = IF k \in unbounded THEN NoReply
                ELSE [got |-> got, due |-> Atleast0(DueCount(k) - d)]

CountReset(K) ==
    /\ tally' = [k \in Key |-> IF k \in K THEN NoTally ELSE tally[k]]
    /\ reply' = NoReply
    /\ unbounded' = unbounded \ K

-----------------------------------------------------------------------------
CounterInit ==
    /\ now = 0
    /\ backend \in Backend
    /\ counters = [k \in {} |-> NoTally]
    /\ counterPruneAt = Never
    /\ tally = [k \in Key |-> NoTally]
    /\ reply = NoReply
    /\ unbounded = {}

(* The memory backend.                                                     *)

MemIncrement(k, d, ttl) ==
    LET fresh == k \notin DOMAIN Pruned \/ Pruned[k].expiresAt <= now
        entry == IF fresh THEN [value |-> 0, expiresAt |-> now + ttl] ELSE Pruned[k]
        value == entry.value + d
    IN  /\ value <= MaxCount
        /\ counters' = Put(Pruned, k, [entry EXCEPT !.value = value])
        /\ counterPruneAt' = IF fresh THEN Sooner(PrunedAt, entry.expiresAt)
                             ELSE PrunedAt
        /\ CountAdd(k, d, ttl, value)
        /\ UNCHANGED unbounded

\* A missing counter is not created.
MemDecrement(k, d) ==
    LET found == k \in DOMAIN Pruned
        value == IF found THEN Atleast0(Pruned[k].value - d) ELSE 0
    IN  /\ counters' = IF found THEN Put(Pruned, k, [Pruned[k] EXCEPT !.value = value])
                       ELSE Pruned
        /\ counterPruneAt' = PrunedAt
        /\ CountSubtract(k, d, value)
        /\ UNCHANGED unbounded

\* nextPruneAt is computed anew only if it was this counter's expiry.
MemReset(k) ==
    /\ counters' = Without(counters, {k})
    /\ counterPruneAt' =
           IF k \in DOMAIN counters /\ counters[k].expiresAt = counterPruneAt
           THEN NextPruneAt(counters') ELSE counterPruneAt
    /\ CountReset({k})

MemResetPrefix(K) ==
    /\ counters' = Without(counters, K)
    /\ counterPruneAt' = IF K \cap DOMAIN counters # {} THEN NextPruneAt(counters')
                         ELSE counterPruneAt
    /\ CountReset(K)

\* cleanupExpired(), called by the user.
MemCleanupExpired ==
    /\ counters' = Unexpired(counters)
    /\ counterPruneAt' = NextPruneAt(counters')
    /\ UNCHANGED <<tally, reply, unbounded>>

-----------------------------------------------------------------------------
(* The Redis backend.                                                      *)

\* Mutant: every increment sets the ttl.
RedisExpiryRenewed(k, ttl) == now + ttl

\* The increment script sets the ttl only if PTTL is negative: of a counter
\* that is new, or has no expiry.
RedisExpiry(k, ttl) ==
    IF k \in DOMAIN counters /\ counters[k].expiresAt # Never
    THEN counters[k].expiresAt ELSE now + ttl

RedisIncrement(k, d, ttl) ==
    LET value == (IF k \in DOMAIN counters THEN counters[k].value ELSE 0) + d IN
    /\ value <= MaxCount
    /\ counters' = Put(counters, k, [value |-> value, expiresAt |-> RedisExpiry(k, ttl)])
    /\ CountAdd(k, d, ttl, value)
    /\ UNCHANGED <<counterPruneAt, unbounded>>

\* SET clears the expiry; it is set again only if PTTL was positive.
RedisDecrement(k, d) ==
    LET found == k \in DOMAIN counters
        value == IF found THEN Atleast0(counters[k].value - d) ELSE 0
        kept  == IF counters[k].expiresAt > now THEN counters[k].expiresAt ELSE Never
    IN  /\ counters' = IF found
                       THEN Put(counters, k, [value |-> value, expiresAt |-> kept])
                       ELSE counters
        /\ CountSubtract(k, d, value)
        /\ unbounded' = IF found /\ kept = Never THEN unbounded \cup {k} ELSE unbounded
        /\ UNCHANGED counterPruneAt

RedisReset(k) ==
    /\ counters' = Without(counters, {k})
    /\ CountReset({k})
    /\ UNCHANGED counterPruneAt

\* resetPrefix() deletes what each SCAN returned, one DEL per answer.  The
\* call keeps nothing but its cursor, so its DEL commands are steps of their
\* own: some of the matching keys, at some time.
RedisResetBatch(K) ==
    /\ counters' = Without(counters, K)
    /\ CountReset(K)
    /\ UNCHANGED counterPruneAt

-----------------------------------------------------------------------------
\* The calls for key k, and those for several keys.
CounterCall(k) ==
    /\ \/ backend = "memory" /\ \E d \in Delta, ttl \in Ttl : MemIncrement(k, d, ttl)
       \/ backend = "memory" /\ \E d \in Delta : MemDecrement(k, d)
       \/ backend = "memory" /\ MemReset(k)
       \/ backend = "redis" /\ \E d \in Delta, ttl \in Ttl : RedisIncrement(k, d, ttl)
       \/ backend = "redis" /\ \E d \in Delta : RedisDecrement(k, d)
       \/ backend = "redis" /\ RedisReset(k)
    /\ UNCHANGED <<now, backend>>

CounterSweep(K) ==
    /\ \/ backend = "memory" /\ MemResetPrefix(K)
       \/ backend = "memory" /\ MemCleanupExpired
       \/ backend = "redis" /\ RedisResetBatch(K)
    /\ UNCHANGED <<now, backend>>

\* The keys Redis still has at time t.
RedisKeeps(m, t) == {k \in DOMAIN m : m[k].expiresAt = Never \/ t <= m[k].expiresAt}

\* The clock ticks; Redis drops what has expired.
CounterTick ==
    /\ now < MaxTime[backend]
    /\ now' = now + 1
    /\ counters' = IF backend = "redis" THEN Restrict(counters, RedisKeeps(counters, now'))
                   ELSE counters
    /\ unbounded' = unbounded \cap DOMAIN counters'
    /\ tally' = [k \in Key |-> IF k \in unbounded \ unbounded' THEN NoTally ELSE tally[k]]
    /\ reply' = NoReply
    /\ UNCHANGED <<backend, counterPruneAt>>

CounterNext ==
    \/ \E k \in Key : CounterCall(k)
    \/ \E K \in SUBSET Key : CounterSweep(K)
    \/ CounterTick

CounterSpec == CounterInit /\ [][CounterNext]_<<now, backend, counterVars>>

-----------------------------------------------------------------------------
(* Properties.                                                             *)

CounterTypeOK ==
    /\ now \in Nat
    /\ backend \in Backend
    /\ DOMAIN counters \subseteq Key
    /\ counters \in [DOMAIN counters -> Counter]
    /\ counterPruneAt \in Nat \cup {Never}
    /\ tally \in [Key -> [sum : Nat, ends : Nat]]
    /\ reply \in [got : Nat, due : Nat]
    /\ unbounded \subseteq Key

\* No counter expires before the memory backend looks for expired ones:
\* decrement() tests no expiry itself, and counts on it.
CountersPrunedInTime ==
    backend = "memory" =>
        \A k \in DOMAIN counters :
            counterPruneAt # Never /\ counterPruneAt <= counters[k].expiresAt

\* What a counter stands at.
Counted(k) ==
    IF k \in DOMAIN counters /\ (counters[k].expiresAt > now \/ backend = "redis")
    THEN counters[k].value ELSE 0

\* Each call returns, and each counter stands at, what was added less what was
\* subtracted since the window began with the first increment after the end of
\* the last; the window has the ttl of that increment and no later call moves
\* it.  Only the Redis counter that a decrement left without a ttl, against
\* CountersKeepTheirTtl, misses the end of its window: it counts on, never less
\* than is due, until it is reset or expires under the ttl of a later increment.
CountsOneWindow ==
    /\ reply.got = reply.due
    /\ \A k \in Key : IF k \in unbounded THEN Counted(k) >= DueCount(k)
                      ELSE Counted(k) = DueCount(k)

\* "Atomically decrements a counter while preserving TTL" (README.md:512): every
\* counter has got a ttl from its first increment, and no call takes it away.
\* The decrement script does, if the ttl has come down to 0 (atomic.ts:40-43).
CountersKeepTheirTtl == \A k \in DOMAIN counters : counters[k].expiresAt # Never

=============================================================================
