# Verification of cache-hub

TLA+ models of the TypeScript library in `src/`, the TLC runs that check them,
and the TLAPS proofs about them. Paths like `memory-cache.ts:209` are lines of
`src/src/memory-cache.ts`; `README.md:216` without a directory is the library's
own README, `src/README.md`.

## 1. The system

cache-hub is a cache for Node services: an in-process LRU cache, a Redis
adapter, a two-level cache made of both, read-through loading with and without
a lease shared by processes, memoised functions, invalidation over Pub/Sub, and
counters and limiters. JavaScript is single-threaded: a process is interrupted
only at an `await`, in a timer or in a callback. Between processes everything
interleaves at the Redis command.

| part | state | operations | talks to |
|---|---|---|---|
| `MemoryCache` (memory-cache.ts) | an insertion-ordered `Map`, the tag index, the memory counter, an interval timer | get/set/del and their batch forms, delPattern, clear, invalidateByTag, getRemainingTtl, destroy, the timer's cleanup | a lock manager that may forbid writes |
| `RedisAdapter` (redis-adapter.ts) | Redis: values, `tag:<tag>` sets, `key-tags:<key>` reverse sets, each with its own expiry | the same interface, each method a chain of awaited commands and pipelines | Redis |
| `readThrough` (read-through.ts) | one process-wide table `__inflight` of promises by key, one timer per promise | lookup, join, fetch, store, prune, timeout | any cache |
| `RedisLeaseStore` (redis-lease.ts) | a Redis key holding a token; the client's snapshot of it | acquire (`SET NX PX`), release and renew (Lua) | Redis |
| `readThroughWithLease` (read-through.ts) | the same table, a lease | acquire, wait for the owner's value, second look, fetch, renew, write, release | a lease store, a cache |
| `MultiLevelCache` (multi-level-cache.ts) | a local and a remote level | read with backfill and timeout, write through or asynchronously, delete, invalidate by tag, clear | two caches |
| `withCache`, `FunctionCache` (function-cache.ts) | a table of promises per function, `knownKeys`, a registry of names | call, execute, invalidate, invalidateAll, register, clear | any cache |
| `DistributedCacheInvalidator` (distributed-invalidator.ts) | a subscribed and a publishing connection | invalidate, invalidatePattern, invalidateTag, the message handler, close | a cache, Redis Pub/Sub |
| atomic counters (atomic.ts) | counters with a ttl, in memory or Redis | incrementWithTtl, decrement, reset, resetPrefix | Redis (Lua) |
| rate limits (rate-limit.ts) | windows and buckets, in memory or Redis | check/consume, rollback, reset, cleanup | atomic.ts, Redis (Lua) |
| stable-stringify.ts, `buildCacheKey` | none | argument values to key texts | - |
| index.ts, types.ts | none | re-exports and interfaces | - |

What makes each part correct, and what is hard about it:

- **MemoryCache.** A key is answered for as long as its last `set()` said, unless a
  call or a limit takes it away. The tag index, the memory counter and the order of the map
  are maintained by differences, on every way an entry can come or go. Hard:
  long sequences of legal calls, the boundary of expiry (four different
  comparisons), two eviction loops with different conditions.
- **RedisAdapter.** `invalidateByTag` reaches what was written with the tag and
  nothing else. Hard: a method is many commands; keys expire, processes die and
  other clients write in between; value, tag set and reverse set expire apart.
- **readThrough.** One fetch per key at a time; a failing, hanging or dropped
  fetch harms nobody else; the table drains. Hard: three places delete from the
  table by key, and by then the entry may be another call's.
- **Leases.** One holder at a time although replies are lost and late; a lease
  that expires under its owner does not let an old value overwrite a newer one.
- **MultiLevelCache.** What was overwritten or deleted does not come back; what was
  invalidated by its tag is gone from both levels; a
  backfilled copy lives no longer than its original; `get()` ends when the
  remote level does not answer.
- **FunctionCache.** `invalidateAll()` forgets no entry; functions registered
  under one name do not answer for each other.
- **Invalidator.** After an invalidation no node keeps the old entry, although
  caches go on filling themselves and Pub/Sub keeps nothing.
- **Counters.** A counter counts one window of the ttl its first increment set.
  Hard: `decrement()` looks at no expiry and relies on one `_nextPruneAt` that
  every call moves in its own way; in Redis `SET` drops the ttl.
- **Limiters.** No limit lets pass more than it should, and a caller that waits
  as long as it was told is let pass. Hard: a rollback comes late, twice, or
  after a reset; Redis executes calls in another order than that of the client
  times they carry; windows, expiry and quotients have open and closed ends.
- **Key serialisation.** Two calls share a key exactly if their arguments mean
  the same. Hard: a single scalar takes a second implementation; parts that are
  shared, circular or listed in another order.

## 2. Modules

| module | models | checked by | proofs |
|---|---|---|---|
| `MemoryCache` | memory-cache.ts | `MCMemoryCache`: memory | `MemoryCacheProofs` |
| `RedisAdapter` | redis-adapter.ts | `MCRedisAdapter`: redis_tags, redis_tags_expiry | `RedisAdapterProofs` |
| `ReadThrough` | `readThrough()` | `MCReadThrough`: read_through | `ReadThroughProofs` |
| `LeaseLock` | what `CacheLeaseStore` promises (abstract) | through the two below | - |
| `RedisLease` | redis-lease.ts | `MCLeases`: leases | `LeaseProofs`, with the refinement of `LeaseLock` |
| `LeaseReadThrough` | `readThroughWithLease()`, over an instance of `LeaseLock` | `MCLeases`: leases | `LeaseProofs` |
| `MultiLevelCache` | multi-level-cache.ts | `MCMultiLevelCache`: multi_level, multi_level_tags, multi_level_hang | `MultiLevelCacheProofs` |
| `FunctionCache` | function-cache.ts | `MCFunctionCache`: function_cache | `FunctionCacheProofs` |
| `CacheKeys` | stable-stringify.ts and `buildCacheKey`, as operators | `MCFunctionCache`: function_cache | - |
| `DistributedInvalidator` | distributed-invalidator.ts over the two-level caches of multi-level-cache.ts | `MCDistributedInvalidator`: invalidator | `DistributedInvalidatorProofs` |
| `AtomicState` | atomic.ts, and the fixed windows of rate-limit.ts | `MCRateLimit`: rate_limits, counter_ttl | `RateLimitProofs` |
| `RateLimit` | the other limits of rate-limit.ts, over `AtomicState` | `MCRateLimit`: rate_limits | `RateLimitProofs` |

Each definition that stands for code has its lines in `PROJECT.json`, under
`map`; operators whose comment begins with "Mutant:" are plausible bugs against
which the properties are tested, and no action uses them.

### How state and actions correspond to the code

**MemoryCache.** Every method is synchronous, so one call is one action.
`cache.store` is the `Map`, `cache.older[k]` the keys in front of `k` in its
iteration order, `cache.tags` the index and `cache.mem` the counter. A sum of sizes
(`Total`) is the number of units the entries take up. Each
action is built from pure functions on the cache that follow the private
methods: `Remove` (`_deleteInternal`), `Insert` (the tail of `_setInternal`),
`Refresh` (delete and set again in `get`), `EnforceLimits` (both loops of
`_enforceLimits`, run once at the end of a write, after the whole batch in
`setMany`). `Cleanup` is the interval timer. Entries leave by `Drop`, either because the
caller wants it (`Delete`) or because the call found them expired (`Expire`, with
the comparison of the method that looks). `promised`, `usedSince` and `evicted`
are history for the properties. `promised` is what a reader of the
interface would expect to be there: per key the end of life and the tags its
callers gave it, until they or a limit take it away or a call finds it over; it is kept
with one test of expiry (`Due`) where the code has four. Callers keep a
reference to the tags array they passed; those of the keys in `Careless` may change it.

**RedisAdapter.** `todo[c]` lists the commands the client's running method still
has to send. A `Send...` action sends the first one and computes what the method
does with the answer, which may put further commands in front (the tags read by
`SMEMBERS` become an untagging pipeline, and so on). Values, tag sets and reverse
sets expire by `Tick`, between any two commands. `Crash` drops what is left of a
method. `given` (last tags written), `dirty` and `lapsed` are history.

**ReadThrough.** A call makes at most one promise and a promise returns at most
one value, so promise, value and call share a name. `pc` says at which `await` a
call stands; a step runs from one `await` to the next. `Resume` lets the joined
calls of a settled promise run before anything else, as the microtask queue does.
`order` is the iteration order of `__inflight`, from which pruning takes the
oldest. `Timeout` is the five-minute timer.

**RedisLease.** `token` and `left` are the Redis key and its time; `Acquire`,
`ReleaseLease`, `RenewLease` are commands taking effect, `AcquireReply`, `RenewReply` and
`ReplyLost` what becomes of their replies. `belief` is the snapshot's
`expiresAt`, as time left.

**LeaseReadThrough.** `inflight[p]` is each process's table entry for
`lease:<key>`. The lease is the abstract lock: acquiring takes
`Lock!Take`, releasing and expiring `Lock!Lose`. Time is left out: a lease may
expire, and a wait may end, at any moment, which allows every timing the options
can produce. `overtaken` collects the calls whose value another call's write has
made old.

**MultiLevelCache.** An operation of the local level is one step with its caller;
an operation of the remote level is sent in one step and takes effect, fails or
hangs in later ones, in any order, as requests over several connections may.
`AskTtl` is the remaining-ttl query of backfill; its answer's age (`late`) and
whether it was about the value copied (`sure`) are recorded in the copy for
`TtlPreserved`. `gone` and `untagged` are, per process, what its own completed
operations removed.

**FunctionCache.** One function wrapped by `withCache()` and one name of a
manager, on one cache. `known` is `knownKeys`, `writes` counts towards the
pruning that `Track` starts, `Prune` is one awaited `exists()` at a time.
`InvalidateAll`, `SweepDel` and `SweepClear` are the loop of `invalidateAll()`
and the `clear()` behind it.

**DistributedInvalidator.** Nodes, each with a copy of one entry in a level of
its own and a level they share. `Update` is the application's change of the
data. `FillBegin` is a cache that misses and reads the shared level, or the data if
there is nothing; `hand` is what it has read. A value from the shared level goes into the
own level by `Backfill`, without its tags; one from the data is written to both,
by `Store` and, at any time before or after, `WriteEnds`, with its tags if the
application gives the entry any (`tagging`, chosen at the start). `DeleteCopy`
and `DeleteShared` are the two halves of an
invalidation, in a local call and in the message handler alike; a call for a tag finds
only what was stored with tags (`Reaches`). Either half may fail: the caller of a
local call is told unless the cache ignores remote errors, and then nothing is published.
`queue[n]` is what Pub/Sub is still going to deliver to the node, in order;
subscribing, losing the connection and closing decide what gets into it.
`late`, per value and call, is history: it marks what a fill took from the shared
level before the call cleared that level and stored after it had cleared the copy.

**CacheKeys.** No state: a value is a scalar with its type, or a reference into a
heap of arrays and objects that may share parts and contain themselves.
`StableStringify` contains `_stringify`; its `within` is the WeakSet `seen`, which
holds what the value is part of. `Alike` says, without texts, when two calls mean the same; `Class`
names the scalars that stand for the same by JSON's own rules. Functions, symbols and `NaN`
are kept apart there; what the code's placeholders do to them is `Replaced`.

**AtomicState.** A memory call is one step: it prunes if `counterPruneAt` has come
(`Pruned`, `PrunedAt`), then changes the counter. A Redis call is one script. These
calls carry no time, so one in flight is no different from one not made yet.
Redis keeps a key through the millisecond in which it expires (PTTL 0), the memory
backend does not; `LastTick` is that difference. `tally` counts each window
independently of the stored counters, `reply` holds what the last call returned
beside what was due, and `unbounded` the Redis counters that a decrement left without ttl (section 6).

**RateLimit.** A key has one `kind` of limit, so the three maps of the memory store
are one, with the one `pruneAt` they share in the code. `Swept` is
`_cleanupExpiredIfDue`; every memory call but the resets begins with it. In Redis
`calls[c]` is a script sent with the client's time `at`, executed by `RedisExec` in
any order. `meter` is a reference bucket, which only sees the costs let pass and
the clock; `slip` sums up the time by which late calls set the real bucket's
time back, `lost` the refill that rollbacks left out. `grants` are the units each
sliding window let pass, with the delay of the latest such call; `promise` is
what the last denial said to wait for.

## 3. Runs

All properties are in the component modules, each after a comment that says what
it states; only `KeysFollowArguments`, which joins two of them, is in
MCFunctionCache. `PROJECT.json` names a mutant of the code that breaks each of them.

| run | instance | distinct states | shows |
|---|---|---|---|
| memory | 3 keys of sizes 1, 3, 5; 1 tag; 2 entries and a budget of 3; ttls, time to 2; locks; one caller changes its array | 14,460 | the tag index stays exact through every way an entry comes and goes; both limits hold and the counter is exact after every call; the least recently used goes; what expired goes, and what did not is served |
| redis_tags | 1 client, 2 keys, 2 tags, ttl, expiry and crashes between any two commands | 2,106,671 | invalidation misses nothing but what a crash cut short; it reaches too much only where reverse metadata had lapsed; an invalidation about to end has left no entry with the tag, and is about to delete none without it; metadata does not stay |
| redis_tags_expiry | 1 client, 1 key, 1 tag | violation | section 6, first entry |
| read_through | 3 calls, one may hang; 2 instances, 3 keys, a table of 2 | 122,346 | one fetch per key while none fails; the table is exact and bounded; it drains, failures are not passed on, calls end |
| leases | the store: 3 acquisitions, ttls 1 and 2, 1 renewal each, lost and late replies. Its users: 2 + 1 calls in 2 processes, one may die, two with `onLeaseTimeout: "throw"` | 594,906 | the store implements `LeaseLock`; a lease changes hands only by release or time; an expired snapshot means an expired lease; an abandoned lease becomes free. Writes happen in the order of the leases; leases are given back whatever fails; calls that throw do not fetch side by side; nobody waits for ever |
| multi_level | 2 + 1 calls in 2 processes, one per write policy, 1 key, 1 tag, ttl of 1, time to 2 | 762,130 | nothing overwritten or deleted comes back but by an overlapping read; invalidation by tag leaves nothing but backfilled copies; ttl survives backfill; `get()` ends |
| multi_level_tags | 1 process, 3 calls | violation | section 6, second entry |
| multi_level_hang | 1 process, 3 calls | violation | section 6, third entry |
| function_cache | 3 calls, 1 key, 1 invalidateAll, 1 invalidate, 2 registrations, pruning every 2 writes | 1.27 million | an entry escapes `invalidateAll()` only by a write racing with a removal or a reported failure; no call joins another function's promise. Also: 17 scalars and every heap of two arrays or objects, for no, one or two arguments: keys follow the arguments |
| invalidator | 2 nodes, of which one may lose its connection and close; 1 invalidation, by pattern or tag, on either node, whose failure is thrown on one of them; entries tagged on one or both nodes; 1 change | 3.2 million | an old copy that outlives an invalidation has a message coming that will remove it, unless the invalidation is by a tag the copy has lost |
| rate_limits | in memory 2 keys of three pairs of kinds, in Redis 1 key of each kind and 2 calls in flight; costs 1 and 2, window 2, limit 2, capacity 3, rate 2, time to 3 | 1.39 million | counters count one window; no limit lets pass too much but for what late calls set back; who waits for `retryAfterMs` is let pass |
| counter_ttl | 1 Redis counter | violation | section 6, fourth entry |

### Why these bounds

- Two entries and three keys let an eviction choose. Sizes 1, 3, 5 against a budget of 3 are below,
  at and above it. One tick of ttl and one more of time show both sides of the
  boundary.
- `EvictsLeastRecentlyUsed` has a clause for caches without a memory budget,
  which the run, having one, does not exercise; `EvictionCorrect` proves both.
- Two tags are needed for an overwrite to leave one tag and join another; with
  `PruneBatch = 1` a prune always stops before the end of a larger set.
- In read_through a table of two is full for three keys. With three calls one can
  hang, one join it, and one register after the first was dropped: the shortest
  way in which a delete by key removes another call's promise.
- Three tokens are needed for a late release or renewal to run when the lease has
  passed on twice; one renewal to have it renewed under the client.
- Two calls in one process and one in another show both kinds of sharing; in
  leases the third is the one that dies. The store and its users meet only in
  `LeaseLock`, which the one implements and the others are built on; so a behaviour of
  leases is one of the store or one of its users, not both at a time.
- function_cache was also run with two keys and two calls. Pruning every second
  write (1000 in the code) happens in the instance.
- In rate_limits a capacity of 3 and a rate of 2 leave a remainder, so that
  `retryAfterMs` is really rounded up; costs of 1 and 2 meet a bucket with just
  enough and with too little. Three ticks pass a window and a ttl of two. Two
  memory keys share the pruning; Redis keys share nothing. `MaxCount` and
  `MaxGrants` bound the counters and the units granted in one behaviour; the
  proofs hold for any value of both.
- With two invalidations by the two nodes the invalidator has more states than TLC
  visits in five minutes. The theorem is about any number; one call, made by
  either node, has every way for a copy to survive it, for the claim about one
  call mentions no other.
- Two names and two parts per heap object make shared parts, cycles through one or
  both objects and both orders of insertion; `MaxLength` is passed by some of the
  texts and not by others.
- redis_tags, redis_tags_expiry, rate_limits and counter_ttl, where something can
  always happen, are checked for deadlock. Elsewhere a behaviour may end, when all calls
  are over or the cache is destroyed; that nobody waits for ever is stated by the
  liveness properties there.

### Fairness

- `MemoryCache!FairSpec`: weak fairness of `Cleanup`, the interval timer
  (memory-cache.ts:103), and nothing else.
- `ReadThrough!FairSpec`: due timers fire; calls outside `Hanging` go on, for
  the event loop resumes them when their cache and fetcher answer, and being
  outside `Hanging` means they do. A call in `Hanging` may stop anywhere.
- `RedisLease!TickSpec`: time passes. Clients need not do anything.
- `LeaseReadThrough!FairSpec`: calls outside `Hanging` make progress, each
  request being answered or refused and each wait having a deadline. That a
  cache fails during the wait is never required. `MCLeases!EitherSpec` has this and the
  fairness of `TickSpec`.
- `MultiLevelCache!TimerSpec`: the timer of `get()` fires, the backfill's local
  write is done. `FairSpec` adds that ttl queries are answered; the code has no
  timeout for them, which is why multi_level needs it and multi_level_hang,
  under `TimerSpec`, finds the violation.
- The other modules state safety only and assume no fairness.

## 4. What is proved

For all values of the constants, from the named assumptions of the modules
(which TLC evaluates on every run).

**MemoryCacheProofs.** Any number of keys, tags, limits, batches, patterns.
The actions are first reduced to three building blocks - `Shrink`, which takes
entries out, `Read` and `Put` - whose effect on store, order and index is stated in
lemmas (`RemoveOK`, `InsertStore`, `ReadFacts`, `FullStore`, `WriteStore`, ...).
- `TypeCorrect`: `TypeOK` is inductive.
- `ServedUntilItsTimeCorrect`: a lookup finds a key exactly while its promised life
  lasts, although expiry is tested in four places and in three forms. `TestsAgree` and `DueIsDead`
  say that the forms take the same entries, the promise being kept with one of
  them; `PromiseInv` that entries and promises agree on end of life and tags
  (`Matches`).
- `TagIndexCorrect`: `TagIndexExact`, from `PromiseInv` again: the index lists each
  entry under its own array (`Indexed`), and the array is what the promise has.
  The latter needs that callers leave their arrays alone, so both it and the
  property leave out the keys in `Careless`.
- `LockedKeysProtected`: no step writes a locked key, with the same exception.
- `MapOrderCorrect`: the order of the map is the order of last use. The
  strengthening says that `older` is a strict total order of the stored keys;
  otherwise moving an entry to the end would not determine the order.
- `EntryLimitCorrect`: an entry survives `_enforceLimits` only if fewer than
  `MaxEntries` entries are behind it, so the oldest survivor bounds them all.
- `MemoryLimitCorrect`: the counter kept by differences is the sum of the sizes,
  and within the budget. A sum is defined as a cardinality, so that it can be
  reasoned about without induction over the entries; the lemmas `TotalDisjoint`,
  `TotalMonotone` and `TotalSame` are all the proof needs of it. The
  oldest survivor again bounds the others. `LimitsCorrect` joins both limits.
- `EvictionCorrect`: `EvictsLeastRecentlyUsed`, with and without a memory budget:
  what either loop takes is a prefix of the map (`FewerInFront`, `SmallerInFront`).

**ReadThroughProofs.** Any number of calls, keys, instances, any table size.
- `TypeCorrect`; `InflightAliveCorrect` (no entry outlives its promise).
- `SingleFlightCorrect`. Single flight is not inductive: nothing in it says
  where the one active promise is. The strengthening `Registered` says that an
  active call of an undisturbed key *is* the table's entry, so two would be the
  same call; `WaitsForKey` carries that a joined call waits for a promise of its
  own key, and that only a fetcher's failure fails it, which is needed when it
  fetches for itself afterwards.
- `TableBoundedCorrect`: the table and its order of iteration stay in step and
  within the limit. The strengthening `Once` says that the order names a key only
  once; otherwise pruning could drop a key from the table and not from the order.
- `StoresItsOwnCorrect`: although instances share promises, a cache holds only
  values fetched for this very instance and key.

**LeaseProofs**, about the store. Any number of clients, any ttls.
- `StoreTypeCorrect`, which no run checks, the other properties having it in
  them; `KeptUntilOverCorrect`.
- `RedisLeaseImplementsLock`: every step is a step of `LeaseLock` or leaves it
  unchanged, with `HolderSpent` (the token in Redis has been granted) as the
  invariant the mapping needs.
- `SnapshotCorrect`: from `SnapshotInv`, which bounds Redis's clock by the reply
  on its way while there is one, and by the snapshot afterwards.

**LeaseProofs**, about `readThroughWithLease`. Any number of processes and calls, any mix of options.
- `TypeCorrect`; `CallsUseTheLock` (the calls touch the lease only as `LeaseLock` allows,
  which is what the Redis store was shown to implement).
- `LeaseReturnedCorrect` and `FetchersExcludeCorrect`, from `LeaseInv`: a call at
  work holds the lease or has lost it to time, and a call that throws never
  reaches the unprotected fetch.
- `NoOvertakenWriteCorrect`, from `WriteInv`: while a write is in flight its call
  holds the lease, and the holder has not been overtaken. It assumes
  `WritesInTime`: the write ends before the lease that was renewed for it does.
  The code has no fencing token; without the assumption the property fails.

**RedisAdapterProofs.** Any keys and tags (finitely many), any ttls, any moments of
expiry and of crashes. A method is a queue of commands still to send, and while
it runs the index is not as it should be: the three properties only speak of the
moments between calls, and are not inductive.
- `TypeCorrect`, for any number of clients calling at any time. `Shape` says which
  command may follow which in a queue (`MayFollow`), and that the members of a tag
  still to look up are followed by the deletion of those found and then of the
  tag's set (`Closing`); without it an answer could be put in front of commands
  it does not belong to.
- `InvalidationReachesAllCorrect`, `ReachesOnlyWhileTrackedCorrect`,
  `MetadataExpiresCorrect`, all from `Debts`, which says at every moment what the
  pending commands still owe to the index: each live entry is in the set of each of
  its tags or a command will put it there (`Reached`); what is in a set
  wrongly will be taken out (`OnlyReached`); no clean-up loses track of what it has
  not finished (`Tracked`, `UntagsAll`, `SkipsFollowed`); metadata goes with
  its entry (`MetaExpires`, `MetaDeleted`). There is one lemma per command. When
  no command is pending, nothing is owed (`NothingOwed`).
- An invalidation in progress is no moment between calls. `Aiming` says of it
  that it looks up members of its tag's set only, leaves its own tag out of the clean-up
  and will delete live entries only if they have the tag; and from `Reached` follows that
  when only the set itself is left to delete, no live entry has the tag any more.
  These are the second halves of the first two properties.
- These three have the hypothesis `[][InTurn]_vars`: no call begins while
  another client's is under way. It is needed: with two clients that overlap
  the properties are false (section 6). For one client, who awaits his calls, it
  holds by itself: `OneClientCorrect` has no such hypothesis, and is about what the
  run redis_tags checks.

**MultiLevelCacheProofs.** Any number of processes, keys, tags and calls, any mix of
write policies, any ttls. One invariant, `IInv`, in four parts.
- `TypeCorrect`, with what holds of the calls' progress (`Base`). No run checks
  `TypeOK` by itself.
- `TtlPreservedCorrect`, from `TtlInv`: the remote level keeps a value as long as
  its write said (`RemoteLife`), what was only written locally will not outlive it
  (`OwnLife`), and a ttl answer about the value read promises no more than is left
  of it (`AnswersTrue`).
- `NeverGoesBackCorrect`, from `GoneInv`. That an overwritten value is not in the
  local level says nothing about the ways back into it, which are the remote level
  (`GoneFromRemote`) and the hands of a read (`GoneFromReads`). And between the
  two halves of a write or deletion the local level may be refilled by a call that
  overlaps it: `OnlyBeside` says that by nothing else.
- `InvalidationCorrect`: `InvalidationMissesOnlyCopies`, from `UntagInv`. An entry with
  tags in a local level is its own process's write and has all of that write's
  tags (`TagsOfWriter`), so that the local half of an invalidation finds it; between
  the halves only overlapping calls put one there (`InvalidatedLocally`).

**FunctionCacheProofs.** Any keys, calls, sweeps, registrations, any pruning interval.
- `TypeCorrect`, with where a call under way is (`Placed`).
- `SingleExecutionCorrect`, from `TableInv`: as in readThrough, the promise of an
  active call whose owner and key have not failed is the one in the table
  (`Listed`), and who waits waits for a promise of the same function and key
  (`WaitsForOwn`).
- `OnlyRacesEscapeCorrect` and `SweepReachesCorrect`, from `KnownInv`: an entry is
  stored under its call's key (`StoredUnderKey`); a key about to be
  taken out of `knownKeys` has no entry that this would lose, other than an escaped
  one (`RemovalsSafe`); what a sweep has still to delete was tracked when it
  began and not written since (`OwedSettled`).

**DistributedInvalidatorProofs.** Any number of nodes, calls and changes of the data.
- `TypeCorrect`.
- `ClearedStaysCleanCorrect`: once a call has cleared its node's level and the
  shared one, nothing older than what it was called for is in the shared level, on
  its way there, or in its own node's copy and hands, unless marked `late` - or, for a
  tag, unless it is a copy without tags, which the call cannot find.
- `OldCopiesAreFollowedCorrect`, from this and `HeldAreFollowed`: the message is published after
  the shared level is clean, so a node that is stale then was stale before, and its
  message is still in its queue; what a fill of another node holds in its hand and may yet
  store is covered by the message too. `Begun` and `InOrder` say that nothing is done for a
  call that has not begun. For a tag the theorem claims nothing about copies made by
  backfill: they have no tags, and outlive the call on every node (section 6, second entry).

**RateLimitProofs**, about the counters. Any keys, amounts and ttls.
- `CounterTypeCorrect`, `CountsOneWindowCorrect`, `CountersPrunedInTimeCorrect`,
  all from `CountInv`. `CountsOneWindow` compares values only and is not
  inductive: nothing in it says when a counter expires, and so whether the next
  call meets the window it was tallied in. `Linked` ties the expiry of each
  counter to the end of its window; `MemInv` adds that `counterPruneAt` is no later
  than any expiry, without which a decrement might subtract from a window that is
  over.

**RateLimitProofs**, about the limits. Any limits, capacity, rate, costs, keys, setups and callers.
All from one invariant, `IInv`: `CountInv`, `CallsInv`, `HistoryInv` and, for each
key, `KeyInv`, which is stated for a given map of entries, since a memory call
sweeps first: the lemmas show that sweeping keeps it, then that the call does.
- `RateLimitTypeCorrect`, `FixedWindowsCorrect` (the counters keep their promise
  among the other kinds).
- `MeterCorrect`, from `MeterInv`. In memory the bucket and the meter are compared
  now. In Redis the bucket's time may be ahead of a call or behind the meter's,
  so `Agree` compares them with the products of rate and time on both sides; and
  a key must expire no earlier than its bucket would be full again, or a new one
  would start with more than was earned.
- `WindowCorrect`, from `WindowInv`: a unit that still counts has not been dropped
  from the stored entries. Units of an earlier window may be gone; that these
  windows stay within the limit is carried along for every end `t` passed.
- `RetryCorrect`, from `RetryInv`: what was denied fits at the time promised, said
  of the present entries, so that it survives pruning and further denials.

### What is only model-checked

All liveness properties (`ExpiredEventuallyGo`, `NobodyIsStuck`,
`EventuallyFree`, `CallsEnd`, `GetsEnd`), for the provers know no fairness;
and `KeysFollowArguments`, which is about the recursive functions of CacheKeys and
needs an induction over them.

## 5. What is not modelled

- Values and their serialisation: outside CacheKeys, keys, tags and values are
  model values, and patterns are the sets of keys they match. In CacheKeys a
  digest is taken to differ for different texts, names of fields are numbers and
  the classes of objects are four; the `customSerializer` and `keyBuilder` hooks
  and bigints, for which `JSON.stringify` throws, are left out.
- Statistics counters and callbacks that only report.
- `enabled: false` of MemoryCache; `close()` of RedisAdapter; a multi-level cache
  without remote level or with `backfillOnRemoteHit: false`; messages that do not
  parse and nodes given the same `instanceId`.
- A Redis pipeline is one step whose commands all succeed. `SSCAN` and `SCAN`
  answer at once, as for small sets.
- Fetchers that call `readThrough()` for their own key, and key texts chosen to
  collide with the `lease:` prefix.
- Of atomic.ts and rate-limit.ts: the checks of arguments, the ttl that an
  increment reports and `retryAfterMs` of fixed windows; `cleanupExpired(now)` with
  a time of the caller's; keys used with changing arguments or for several kinds
  of limit; fractions, the rounding of their sums, and that Redis cuts the
  fraction of a script's answer off. A client's clock agrees with that of the Redis
  server: calls are late, but none is ahead of the time.
- The package entry and the type declarations have no state. Tests, scripts and
  build files are no part of the running program.

## 6. What the models found

Four runs show that the code does not do what the documentation says, each by a
short trace, and one assumption that it does not do what its comments say.

1. *redis_tags_expiry.* README.md:216: a `set()` without tags "clears any
   previous tag relationship for the same key". The tags to leave are read from
   `key-tags:<key>`, which expires with the entry, while the tag's set keeps the
   key. After a tagged entry expired, an untagged `set()` cannot find the set to
   leave, and invalidating the old tag deletes the new value.
   `ReachesOnlyWhileTracked` is what does hold.
2. *multi_level_tags.* README.md:42 promises tag invalidation for multi-level
   caches. A backfilled copy has lost its tags, so `invalidateByTag` leaves it.
   `InvalidationMissesOnlyCopies` is what does hold: it leaves nothing else. The same
   goes for the distributed invalidator, whose calls for a tag leave such copies on the
   calling node and on those the message reaches; `OldCopiesAreFollowed` holds for the others.
3. *multi_level_hang.* README.md:397 describes `remoteTimeoutMs`, and
   multi-level-cache.ts:214 says that backfill does not affect the answer. The ttl
   query of backfill has no timeout and is awaited before `get()` returns.
4. *counter_ttl.* README.md:512: `decrement` "decrements a counter while preserving
   TTL". The script's `SET` (atomic.ts:40) clears the ttl, which is set again only
   if PTTL was above 0; in the millisecond in which the key expires it is 0. The
   counter then stays without ttl and counts on until it is reset or incremented again.
   `CountsOneWindow` is what does hold: all others count one window, and these
   (`unbounded`) never less than is due.
5. *PlaceholdersCollide*, an assumption of CacheKeys that TLC evaluates with
   function_cache. stable-stringify.ts:71: functions and symbols get a
   fixed placeholder "避免键碰撞" (to avoid key collisions); stable-stringify.ts:66-67 explains the one of
   `NaN` by other texts not being unique. All functions and symbols share the text `"[UNSUPPORTED]"` with
   each other and with that string, `NaN` shares `"__NaN__"` with that string: calls that differ in
   these alone share an entry. `KeysAgree` is what does hold: nothing else is confused.

Some behaviours were met while modelling which no document excludes. They have
no run; the properties say where they begin.

- With two clients `InvalidationReachesAll` fails within a few steps (set
  `Client = {c1, c2}`, no crash, no expiry): one client's clean-up of the old
  tags, or the final `DEL` of an invalidation, removes what the other has just
  added. That it holds while calls take turns is a theorem (`InTurn`).
- The promise table is shared by all cache instances of a process: a call may be
  answered by the fetcher another instance gave for the same key. The comment at
  read-through.ts:110 assumes one fetcher per key.
- `withCache()`: a write that ends between the `exists()` of a pruning and the
  key's removal from `knownKeys`, or between an entry's deletion by
  `invalidateAll()` and the `clear()` behind it, is never found again by
  `invalidateAll()`. These are the `escaped` keys.
- The invalidator's node ignores its own messages. What it refills from the
  shared level after its own level was emptied and before the shared one was, it
  keeps, while all others drop theirs. A fill that had read an old entry before a
  deletion may store it afterwards, and `delPattern` ignores errors of the shared level.
  These entries are marked `late` for the call.
- A bucket's rollback sets `updatedAt` without adding what was refilled since
  (rate-limit.ts:119 and 706): giving back one unit may cost many. This is `lost`.
- A Redis script run with a client time older than the bucket's sets its time
  back, and the time between is refilled twice; in a sliding window it makes room
  that a later unit still takes. These are `slip` and `late`.
- A sliding window's `retryAfterMs` is the wait for the oldest unit, which is too
  short for a cost above one; `RetryKept` claims it for a cost of one only.
- A cost between 0 and 1 passes the check of a sliding window and is rounded down
  to 0; the rollback token of such a call, `entries.slice(-0)`, names all units
  (rate-limit.ts:223 and 623). `Cost` has whole units only.
- All Maps and Sets have the text `{}` of an empty object; `Object` says so.

## 7. Plan

Done, in this order, the core first: MemoryCache and its proofs; RedisAdapter;
ReadThrough; LeaseLock, RedisLease and their refinement; LeaseReadThrough over
the lock; MultiLevelCache; FunctionCache; DistributedInvalidator; AtomicState and
RateLimit with their proofs; CacheKeys.

Proved since: DistributedInvalidator, FunctionCache, MultiLevelCache, RedisAdapter,
the memory budget of MemoryCache and the table of ReadThrough; then what a user
of MemoryCache may expect of one key (`ServedUntilItsTime`, `TagIndexExact`), what an
invalidation of RedisAdapter does while it runs, and what one of MultiLevelCache
leaves. Each safety property the passing runs check, but for
`KeysFollowArguments`, is also a theorem.

Next, the proofs: RedisAdapter with overlapping calls on different keys and tags,
which `InTurn` excludes although nothing should go wrong. `Debts` speaks of the
pending commands of all clients at once; it would have to be said of each client's
own keys and tags.

Still to model, where it would add most:

1. MemoryCache and RedisAdapter as refinements of one abstract cache, of which
   `promised` (with eviction as a permitted loss) is already MemoryCache's side, and
   which MultiLevelCache's levels would stand for.
2. The multi-level cache's publish callback composed with the invalidator.
3. Limits whose arguments change from call to call.
