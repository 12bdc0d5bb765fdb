------------------------------- MODULE RateLimit -------------------------------
(***************************************************************************)
(* The rate limit stores of src/src/rate-limit.ts, in memory and in Redis: *)
(* fixed windows (the counters of AtomicState), sliding windows, token     *)
(* buckets and leaky buckets.                                              *)
(*                                                                         *)
(* In memory a call is one step.  In Redis it is a Lua script that the     *)
(* client sends with its own Date.now(): the call is sent in one step and  *)
(* executed in a later one, after calls that were sent before or after it. *)
(* Redis itself removes the keys whose expiry has passed.                  *)
(*                                                                         *)
(* Every key is used for one kind of limit, always with the same arguments *)
(* but for the cost, so one map stands for the three of the memory store.  *)
(* Amounts are whole units, of which a bucket gains or leaks Rate in a     *)
(* tick; fractions, and the rounding of their sums, are left out.          *)
(***************************************************************************)
EXTENDS AtomicState, FiniteSetsExt

CONSTANTS
    Setups,         \* the choices of a backend and of a use of every key
    Caller,         \* one per Redis call that may be in flight
    Cost,
    Window, Limit,  \* of the sliding windows
    Capacity, Rate, \* of the buckets
    MaxGrants       \* bound on the grants of a sliding window

Kind == {"fixed", "window", "tokens", "leaks", "unused"}

ASSUME LimitAssumption ==
    /\ Setups \subseteq Backend \X [Key -> Kind]
    /\ Cost \subseteq Nat \ {0}
    /\ {Window, Limit, Capacity, Rate} \subseteq Nat \ {0}
    /\ MaxGrants \in Nat

VARIABLES
    kind,       \* per key: what it is used for
    store,      \* the stored entries, and nextPruneAt of the memory store
    calls,      \* the Redis calls in flight
    \* history:
    grants,     \* per key: the units a sliding window let pass, and how late
                \* the latest of these calls was executed
    meter,      \* per key: the reference bucket, see below
    issued,     \* per key: the costs for which a rollback token was given out
    promise     \* per key: the last cost denied and when it may be retried

limitVars == <<kind, store, calls, grants, meter, issued, promise>>
vars == <<now, backend, counterVars, limitVars>>

Keys(K) == {k \in Key : kind[k] \in K}
Bucket == Keys({"tokens", "leaks"})
Limited == Keys({"window", "tokens", "leaks"})

Idle == [do |-> "nothing"]
NoPromise == [cost |-> 0, at |-> 0]

\* Mutant: Math.floor for Math.ceil.
Floor(a, b) == a \div b

\* Math.ceil of a quotient.
Ceil(a, b) == (a + b - 1) \div b

Least(a, b) == IF a < b THEN a ELSE b
Most(a, b) == IF a > b THEN a ELSE b

-----------------------------------------------------------------------------
(* What an entry is worth at time t.                                       *)

\* Mutant: a unit leaves its window a tick early.
InWindowShort(E, t) == {e \in E : e.at > t - Window + 1}

\* The units still in the window that ends at t.
InWindow(E, t) == {e \in E : e.at > t - Window}

\* How long the oldest unit stays; a whole window if there is none.
WindowRetry(E, t) ==
    IF E = {} THEN Window ELSE Atleast0(Min({e.at : e \in E}) + Window - t)

Refilled(b, t) == Least(Capacity, b.tokens + Atleast0(t - b.updatedAt) * Rate)

Leaked(b, t) == Atleast0(b.level - Atleast0(t - b.updatedAt) * Rate)

\* The entries of a key, or what stands for them if it has none.
Entries(m, k) == IF k \in DOMAIN m THEN m[k].entries ELSE {}
Tokens(m, k, t) == IF k \in DOMAIN m THEN Refilled(m[k], t) ELSE Capacity
Level(m, k, t) == IF k \in DOMAIN m THEN Leaked(m[k], t) ELSE 0

FreeNumbers(k) == (1..MaxGrants) \ {e.grant : e \in grants[k].units}

\* The units of a new grant; its number stands for the opaque token.
NewUnits(k, cost, t) ==
    {[grant |-> Min(FreeNumbers(k)), unit |-> i, at |-> t] : i \in 1..cost}

-----------------------------------------------------------------------------
(* The memory store: entries with the next time to prune them.             *)

\* A neutral entry is not kept; nextPruneAt is only computed anew if there
\* was one.
Drop(s, k) ==
    IF k \notin DOMAIN s.map THEN s
    ELSE [map |-> Without(s.map, {k}), pruneAt |-> NextPruneAt(Without(s.map, {k}))]

Keep(s, k, entry) ==
    [map |-> Put(s.map, k, entry), pruneAt |-> Sooner(s.pruneAt, entry.expiresAt)]

WindowEntry(E) == [entries |-> E, expiresAt |-> Max({e.at : e \in E}) + Window]

TokenEntry(n) ==
    [tokens |-> n, updatedAt |-> now, expiresAt |-> now + Ceil(Capacity - n, Rate)]

LeakEntry(n) == [level |-> n, updatedAt |-> now, expiresAt |-> now + Ceil(n, Rate)]

\* _setSlidingWindowState, _setTokenBucketEntry, _setLeakyBucketEntry
SetWindow(s, k, E) == IF E = {} THEN Drop(s, k) ELSE Keep(s, k, WindowEntry(E))
SetTokens(s, k, n) == IF n >= Capacity THEN Drop(s, k) ELSE Keep(s, k, TokenEntry(n))
SetLevel(s, k, n) == IF n = 0 THEN Drop(s, k) ELSE Keep(s, k, LeakEntry(n))

\* cleanupExpired: neutral entries go, and the others are brought up to date.
Neutral(m, k) ==
    \/ kind[k] = "window" /\ InWindow(m[k].entries, now) = {}
    \/ kind[k] = "tokens" /\ Refilled(m[k], now) >= Capacity
    \/ kind[k] = "leaks" /\ Leaked(m[k], now) = 0

\* Mutant: the tokens are brought up to date, the time of the update is not.
RenewedTwice(m, k) ==
    CASE kind[k] = "window" -> WindowEntry(InWindow(m[k].entries, now))
      [] kind[k] = "tokens" -> [TokenEntry(Refilled(m[k], now)) EXCEPT
                                   !.updatedAt = m[k].updatedAt]
      [] kind[k] = "leaks"  -> LeakEntry(Leaked(m[k], now))

Renewed(m, k) ==
    CASE kind[k] = "window" -> WindowEntry(InWindow(m[k].entries, now))
      [] kind[k] = "tokens" -> TokenEntry(Refilled(m[k], now))
      [] kind[k] = "leaks"  -> LeakEntry(Leaked(m[k], now))

CleanedUp(s) ==
    LET m == [k \in {x \in DOMAIN s.map : ~Neutral(s.map, x)} |-> Renewed(s.map, k)]
    IN  [map |-> m, pruneAt |-> NextPruneAt(m)]

\* _cleanupExpiredIfDue, with which every call but reset() begins.
Swept == IF Due(store.pruneAt) THEN CleanedUp(store) ELSE store

-----------------------------------------------------------------------------
(* History.                                                                *)

\* The meter of a bucket: `units` are those let pass and not rolled back,
\* less Rate for every tick up to `clock`, the latest time a call carried.
AsOf(k, t) ==
    LET c == Most(meter[k].clock, t)
    IN  [meter[k] EXCEPT !.clock = c,
                         !.units = Atleast0(@ - Rate * (c - meter[k].clock))]

\* The time by which a call made at t sets the bucket's time back; one that
\* finds no bucket takes t for the time at which it was full.
SetBack(k, t) ==
    IF k \in DOMAIN store.map THEN Atleast0(store.map[k].updatedAt - t) ELSE now - t

Promise(k, cost, t) ==
    promise' = [promise EXCEPT ![k] = [cost |-> cost, at |-> t]]

NoMorePromise(k) == promise' = [promise EXCEPT ![k] = NoPromise]

\* The meter brought up to date by a call made at t.
Called(k, t) == [AsOf(k, t) EXCEPT !.slip = @ + SetBack(k, t)]

BucketGrant(k, cost, t) ==
    /\ meter' = [meter EXCEPT ![k] = [Called(k, t) EXCEPT !.units = @ + cost]]
    /\ issued' = [issued EXCEPT ![k] = @ \cup {cost}]
    /\ NoMorePromise(k)
    /\ UNCHANGED grants

\* No wait lets a cost pass that is above the capacity.
BucketDeny(k, cost, t, retry) ==
    /\ meter' = [meter EXCEPT ![k] = Called(k, t)]
    /\ IF cost <= Capacity THEN Promise(k, cost, t + retry) ELSE UNCHANGED promise
    /\ UNCHANGED <<grants, issued>>

\* A rollback that finds no bucket changes nothing.
BucketRollback(k, cost, t, found) ==
    /\ meter' = IF found
                THEN [meter EXCEPT ![k] = [Called(k, t) EXCEPT
                         !.units = Atleast0(Called(k, t).units - cost),
                         !.lost = meter[k].lost + Atleast0(t - store.map[k].updatedAt)]]
                ELSE meter
    /\ IF found THEN NoMorePromise(k) ELSE UNCHANGED promise
    /\ UNCHANGED <<grants, issued>>

WindowGrant(k, units, t) ==
    /\ grants' = [grants EXCEPT ![k] = [units |-> @.units \cup units,
                                        late |-> Most(@.late, now - t)]]
    /\ NoMorePromise(k)
    /\ UNCHANGED <<meter, issued>>

\* The wait is for the oldest unit to leave: enough for a cost of one.
WindowDeny(k, cost, t, retry) ==
    /\ IF cost = 1 THEN Promise(k, cost, t + retry) ELSE UNCHANGED promise
    /\ UNCHANGED <<grants, meter, issued>>

\* The keys of K start anew.
Forget(K) ==
    /\ grants' = [k \in Key |-> IF k \in K THEN [grants[k] EXCEPT !.units = {}]
                                ELSE grants[k]]
    /\ meter' = [k \in Key |-> IF k \in K THEN [meter[k] EXCEPT !.units = 0]
                               ELSE meter[k]]
    /\ UNCHANGED <<issued, promise>>

-----------------------------------------------------------------------------
Init ==
    /\ CounterInit
    /\ \E s \in Setups : backend = s[1] /\ kind = s[2]
    /\ store = [map |-> [k \in {} |-> 0], pruneAt |-> Never]
    /\ calls = [c \in Caller |-> Idle]
    /\ grants = [k \in Key |-> [units |-> {}, late |-> 0]]
    /\ meter = [k \in Key |-> [units |-> 0, clock |-> 0, slip |-> 0, lost |-> 0]]
    /\ issued = [k \in Key |-> {}]
    /\ promise = [k \in Key |-> NoPromise]

(* The memory store.                                                       *)

MemCheckWindow(k, cost) ==
    LET E == InWindow(Entries(Swept.map, k), now) IN
    \/ /\ Cardinality(E) + cost <= Limit
       /\ FreeNumbers(k) # {}
       /\ store' = SetWindow(Swept, k, E \cup NewUnits(k, cost, now))
       /\ WindowGrant(k, NewUnits(k, cost, now), now)
    \/ /\ Cardinality(E) + cost > Limit
       /\ store' = SetWindow(Swept, k, E)
       /\ WindowDeny(k, cost, now, WindowRetry(E, now))

\* The units the token of grant g names are removed.
MemRollbackWindow(k, g) ==
    LET gone == {e \in Entries(Swept.map, k) : e.grant = g} IN
    /\ store' = IF k \in DOMAIN Swept.map
                THEN SetWindow(Swept, k, Entries(Swept.map, k) \ gone) ELSE Swept
    /\ grants' = [grants EXCEPT ![k].units = @ \ gone]
    /\ UNCHANGED <<meter, issued, promise>>

MemConsumeTokens(k, cost) ==
    LET n == Tokens(Swept.map, k, now) IN
    \/ /\ n >= cost
       /\ store' = SetTokens(Swept, k, n - cost)
       /\ BucketGrant(k, cost, now)
    \/ /\ n < cost
       /\ store' = SetTokens(Swept, k, n)
       /\ BucketDeny(k, cost, now, Ceil(cost - n, Rate))

\* A rollback adds to what the bucket held at its last update.
TokensReturned(b, cost) == Least(Capacity, b.tokens + cost)

LevelReturned(b, cost) == Atleast0(b.level - cost)

MemRollbackTokens(k, cost) ==
    LET found == k \in DOMAIN Swept.map IN
    /\ store' = IF found THEN SetTokens(Swept, k, TokensReturned(Swept.map[k], cost))
                ELSE Swept
    /\ BucketRollback(k, cost, now, found)

MemConsumeLeaks(k, cost) ==
    LET n == Level(Swept.map, k, now) IN
    \/ /\ n + cost <= Capacity
       /\ store' = SetLevel(Swept, k, n + cost)
       /\ BucketGrant(k, cost, now)
    \/ /\ n + cost > Capacity
       /\ store' = SetLevel(Swept, k, n)
       /\ BucketDeny(k, cost, now, Ceil(n + cost - Capacity, Rate))

MemRollbackLeaks(k, cost) ==
    LET found == k \in DOMAIN Swept.map IN
    /\ store' = IF found THEN SetLevel(Swept, k, LevelReturned(Swept.map[k], cost))
                ELSE Swept
    /\ BucketRollback(k, cost, now, found)

\* reset() does not sweep.
MemLimitReset(k) ==
    /\ store' = Drop(store, k)
    /\ Forget({k})

MemLimitResetPrefix(K) ==
    LET m == Without(store.map, K) IN
    /\ store' = IF m = store.map THEN store ELSE [map |-> m, pruneAt |-> NextPruneAt(m)]
    /\ Forget(K)

\* cleanupExpired(), called by the user.
MemLimitCleanup ==
    /\ store' = CleanedUp(store)
    /\ UNCHANGED <<grants, meter, issued, promise>>

-----------------------------------------------------------------------------
(* The Redis store: sending a call, with the client's time.                *)

Send(c, do, k, cost) ==
    /\ calls[c] = Idle
    /\ calls' = [calls EXCEPT ![c] = [do |-> do, key |-> k, cost |-> cost, at |-> now]]
    /\ UNCHANGED <<store, grants, meter, issued, promise>>

SendCheckWindow(c, k, cost) == kind[k] = "window" /\ Send(c, "checkWindow", k, cost)
SendConsumeTokens(c, k, cost) == kind[k] = "tokens" /\ Send(c, "consumeTokens", k, cost)
SendConsumeLeaks(c, k, cost) == kind[k] = "leaks" /\ Send(c, "consumeLeaks", k, cost)

SendRollbackTokens(c, k, cost) ==
    /\ kind[k] = "tokens" /\ cost \in issued[k]
    /\ Send(c, "rollbackTokens", k, cost)

SendRollbackLeaks(c, k, cost) ==
    /\ kind[k] = "leaks" /\ cost \in issued[k]
    /\ Send(c, "rollbackLeaks", k, cost)

(* The scripts.                                                            *)

PutKey(k, entry) == store' = [store EXCEPT !.map = Put(@, k, entry)]

RedisWindow(E) == [entries |-> E, expiresAt |-> now + Window]

\* Every change of a bucket sets the expiry of its key.
RedisTokens(n, t) ==
    [tokens |-> n, updatedAt |-> t, expiresAt |-> now + Ceil(Capacity, Rate)]
RedisLevel(n, t) ==
    [level |-> n, updatedAt |-> t, expiresAt |-> now + Ceil(Capacity, Rate)]

ExecCheckWindow(k, cost, t) ==
    LET E == InWindow(Entries(store.map, k), t) IN
    \/ /\ Cardinality(E) + cost <= Limit
       /\ FreeNumbers(k) # {}
       /\ PutKey(k, RedisWindow(E \cup NewUnits(k, cost, t)))
       /\ WindowGrant(k, NewUnits(k, cost, t), t)
    \/ /\ Cardinality(E) + cost > Limit
       /\ IF E = {} THEN store' = [store EXCEPT !.map = Without(@, {k})]
          ELSE PutKey(k, RedisWindow(E))
       /\ WindowDeny(k, cost, t, WindowRetry(E, t))

\* This script carries no time: it is executed when it is called.
RedisRollbackWindow(k, g) ==
    LET gone == {e \in Entries(store.map, k) : e.grant = g}
        left == Entries(store.map, k) \ gone
    IN  /\ IF left = {} THEN store' = [store EXCEPT !.map = Without(@, {k})]
           ELSE PutKey(k, [entries |-> left, expiresAt |-> store.map[k].expiresAt])
        /\ grants' = [grants EXCEPT ![k].units = @ \ gone]
        /\ UNCHANGED <<meter, issued, promise>>

ExecConsumeTokens(k, cost, t) ==
    LET n == Tokens(store.map, k, t) IN
    \/ /\ n >= cost
       /\ PutKey(k, RedisTokens(n - cost, t))
       /\ BucketGrant(k, cost, t)
    \/ /\ n < cost
       /\ PutKey(k, RedisTokens(n, t))
       /\ BucketDeny(k, cost, t, Ceil(cost - n, Rate))

ExecRollbackTokens(k, cost, t) ==
    LET found == k \in DOMAIN store.map IN
    /\ IF found THEN PutKey(k, RedisTokens(TokensReturned(store.map[k], cost), t))
       ELSE UNCHANGED store
    /\ BucketRollback(k, cost, t, found)

ExecConsumeLeaks(k, cost, t) ==
    LET n == Level(store.map, k, t) IN
    \/ /\ n + cost <= Capacity
       /\ PutKey(k, RedisLevel(n + cost, t))
       /\ BucketGrant(k, cost, t)
    \/ /\ n + cost > Capacity
       /\ PutKey(k, RedisLevel(n, t))
       /\ BucketDeny(k, cost, t, Ceil(n + cost - Capacity, Rate))

ExecRollbackLeaks(k, cost, t) ==
    LET found == k \in DOMAIN store.map IN
    /\ IF found THEN PutKey(k, RedisLevel(LevelReturned(store.map[k], cost), t))
       ELSE UNCHANGED store
    /\ BucketRollback(k, cost, t, found)

RedisLimitReset(k) ==
    /\ store' = [store EXCEPT !.map = Without(@, {k})]
    /\ Forget({k})

\* One DEL of a resetPrefix(), as RedisResetBatch.
RedisLimitResetBatch(K) ==
    /\ store' = [store EXCEPT !.map = Without(@, K)]
    /\ Forget(K)

-----------------------------------------------------------------------------
\* The calls of the fixed window stores go to the counters.
FixedWindowCall(k) == CounterCall(k) /\ UNCHANGED limitVars
FixedWindowSweep(K) == CounterSweep(K) /\ UNCHANGED limitVars

\* The calls for a key of another kind.
MemCall(k) ==
    \/ kind[k] = "window" /\ \E cost \in Cost : MemCheckWindow(k, cost)
    \/ kind[k] = "window" /\ \E g \in 1..MaxGrants : MemRollbackWindow(k, g)
    \/ kind[k] = "tokens" /\ \E cost \in Cost : MemConsumeTokens(k, cost)
    \/ kind[k] = "tokens" /\ \E cost \in issued[k] : MemRollbackTokens(k, cost)
    \/ kind[k] = "leaks" /\ \E cost \in Cost : MemConsumeLeaks(k, cost)
    \/ kind[k] = "leaks" /\ \E cost \in issued[k] : MemRollbackLeaks(k, cost)
    \/ MemLimitReset(k)

RedisSend(c, k) ==
    \/ \E cost \in Cost : SendCheckWindow(c, k, cost)
    \/ \E cost \in Cost : SendConsumeTokens(c, k, cost)
    \/ \E cost \in Cost : SendConsumeLeaks(c, k, cost)
    \/ \E cost \in Cost : SendRollbackTokens(c, k, cost)
    \/ \E cost \in Cost : SendRollbackLeaks(c, k, cost)

RedisExec(c) ==
    LET call == calls[c] IN
    /\ \/ call.do = "checkWindow" /\ ExecCheckWindow(call.key, call.cost, call.at)
       \/ call.do = "consumeTokens" /\ ExecConsumeTokens(call.key, call.cost, call.at)
       \/ call.do = "rollbackTokens" /\ ExecRollbackTokens(call.key, call.cost, call.at)
       \/ call.do = "consumeLeaks" /\ ExecConsumeLeaks(call.key, call.cost, call.at)
       \/ call.do = "rollbackLeaks" /\ ExecRollbackLeaks(call.key, call.cost, call.at)
    /\ calls' = [calls EXCEPT ![c] = Idle]

RedisCall(k) ==
    \/ kind[k] = "window" /\ \E g \in 1..MaxGrants : RedisRollbackWindow(k, g)
    \/ RedisLimitReset(k)

LimitStep ==
    /\ \/ /\ backend = "memory"
          /\ \/ \E k \in Limited : MemCall(k)
             \/ \E K \in SUBSET Limited : MemLimitResetPrefix(K)
             \/ MemLimitCleanup
          /\ UNCHANGED calls
       \/ /\ backend = "redis"
          /\ \/ \E c \in Caller, k \in Limited : RedisSend(c, k)
             \/ \E c \in Caller : RedisExec(c)
             \/ /\ \/ \E k \in Limited : RedisCall(k)
                   \/ \E K \in SUBSET Limited : RedisLimitResetBatch(K)
                /\ UNCHANGED calls
    /\ UNCHANGED <<now, backend, counterVars, kind>>

\* In memory the latest time a call could carry is always now.
Tick ==
    /\ CounterTick
    /\ store' = IF backend = "redis"
                THEN [store EXCEPT !.map = Restrict(@, RedisKeeps(@, now'))] ELSE store
    /\ meter' = IF backend = "memory"
                THEN [k \in Key |-> IF k \in Bucket THEN AsOf(k, now') ELSE meter[k]]
                ELSE meter
    /\ UNCHANGED <<kind, calls, grants, issued, promise>>

Next ==
    \/ \E k \in Keys({"fixed"}) : FixedWindowCall(k)
    \/ \E K \in SUBSET Keys({"fixed"}) : FixedWindowSweep(K)
    \/ LimitStep
    \/ Tick

Spec == Init /\ [][Next]_vars

-----------------------------------------------------------------------------
(* Properties.                                                             *)

Unit == [grant : 1..MaxGrants, unit : Nat \ {0}, at : Nat]

EntryOK(k, e) ==
    /\ e.expiresAt \in Nat
    /\ \/ kind[k] = "window" /\ e.entries \subseteq grants[k].units /\ e.entries # {}
       \/ kind[k] = "tokens" /\ e.tokens \in 0..Capacity /\ e.updatedAt \in 0..now
       \/ kind[k] = "leaks" /\ e.level \in 0..Capacity /\ e.updatedAt \in 0..now

\* The memory store looks for entries to prune no later than the first of
\* them runs out, over all its maps and through every way an entry can change
\* or go: none stays in memory while calls are made.
PrunedInTime ==
    backend = "memory" =>
        \A k \in DOMAIN store.map :
            store.pruneAt # Never /\ store.pruneAt <= store.map[k].expiresAt

\* The variables have the shape the code gives them: a bucket holds no less
\* than nothing and no more than its capacity, whatever is rolled back, a
\* sliding window only units that were granted and not taken back, and the
\* entries of both memory stores are pruned in time.
TypeOK ==
    /\ CounterTypeOK /\ CountersPrunedInTime /\ PrunedInTime
    /\ kind \in [Key -> Kind]
    /\ DOMAIN store.map \subseteq Key
    /\ \A k \in DOMAIN store.map : EntryOK(k, store.map[k])
    /\ store.pruneAt \in Nat \cup {Never}
    /\ \A c \in Caller : calls[c] = Idle \/
           (calls[c].key \in Key /\ calls[c].cost \in Cost /\ calls[c].at \in 0..now)
    /\ grants \in [Key -> [units : SUBSET Unit, late : Nat]]
    /\ meter \in [Key -> [units : Nat, clock : 0..now, slip : Nat, lost : Nat]]
    /\ issued \in [Key -> SUBSET Cost]
    /\ promise \in [Key -> [cost : Cost \cup {0}, at : Nat]]

\* What a bucket's level is taken to be at the meter's clock.
Load(k) ==
    IF kind[k] = "tokens" THEN Capacity - Tokens(store.map, k, meter[k].clock)
    ELSE Level(store.map, k, meter[k].clock)

\* A bucket never lets pass more than its capacity and what it gains in the
\* time that passed, once more for the time by which calls executed late set
\* it back; and it never takes itself to be fuller than what it let pass
\* accounts for, but for the refill that rollbacks left out.  In memory no
\* call is late.
MeterKept ==
    \A k \in Bucket :
        /\ meter[k].units <= Capacity + Rate * meter[k].slip
        /\ Load(k) <= meter[k].units + Rate * meter[k].lost
        /\ backend = "memory" => meter[k].slip = 0

\* In any window, shorter than windowMs by the delay of the latest call, the
\* units let pass and not rolled back are within the limit: exactly so in
\* memory, where no call is late.
WindowKept ==
    \A k \in Keys({"window"}), t \in 0..now :
        Cardinality({e \in grants[k].units :
                        e.at <= t /\ e.at > t - (Window - grants[k].late)}) <= Limit

\* Would a call made now be let pass?
Allowed(k, cost) ==
    \/ kind[k] = "window" /\
           Cardinality(InWindow(Entries(store.map, k), now)) + cost <= Limit
    \/ kind[k] = "tokens" /\ Tokens(store.map, k, now) >= cost
    \/ kind[k] = "leaks" /\ Level(store.map, k, now) + cost <= Capacity

\* A caller that waits for retryAfterMs after a denial is let pass, unless
\* another call was let pass or a bucket's rollback came first: later denials,
\* resets, expiry and pruning do not put it off.
RetryKept ==
    \A k \in Key : promise[k] # NoPromise /\ now >= promise[k].at =>
                       Allowed(k, promise[k].cost)

=============================================================================
