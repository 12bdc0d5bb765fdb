------------------------------ MODULE MemoryCache ------------------------------
(***************************************************************************)
(* The in-process cache of src/src/memory-cache.ts: an LRU map with lazy   *)
(* and periodic TTL expiry, a memory budget and a tag index.               *)
(*                                                                         *)
(* Every method is synchronous, so one method call is one step; the steps  *)
(* interleave with the clock, the cleanup timer, the lock manager and the  *)
(* caller, who keeps a reference to the tags array it passed to set().     *)
(*                                                                         *)
(* The ES6 Map is modelled by the entries it holds and, per key, the set   *)
(* of keys that stand nearer to its front (`older`): moving an entry to    *)
(* the end, as an LRU refresh does, makes every other stored key older.    *)
(*                                                                         *)
(* A cache created with enableTags = false is the instance Tag = {}; the   *)
(* option enabled = false (every call returns at once) and the hit and     *)
(* miss counters of getStats() are left out.                               *)
(***************************************************************************)
EXTENDS Integers, Sequences, FiniteSets

CONSTANTS
    Key, Tag,
    Size,                   \* estimated sizes a value can have
    TtlArg, NoTtl,          \* ttl arguments; NoTtl is an absent argument
    DefaultTtl,
    MaxEntries, MaxMemory,  \* MaxMemory = 0 switches the memory budget off
    Batch,                  \* key lists given to getMany, setMany, delMany
    Pattern,                \* a wildcard pattern is the set of keys it matches
    LockSets,               \* the sets of keys the lock manager may hold
    Careless,               \* keys whose callers change the tags array they
                            \* gave to set()
    MaxTime                 \* bound on the clock

ASSUME KeyAssumption == IsFiniteSet(Key)
ASSUME LimitAssumption ==
    /\ MaxEntries \in Nat \ {0}
    /\ MaxMemory \in Nat
    /\ Size \subseteq Nat
    /\ MaxTime \in Nat
ASSUME TtlAssumption ==
    /\ DefaultTtl \in Nat
    /\ NoTtl \notin Int
    /\ TtlArg \subseteq Int \cup {NoTtl}
ASSUME BatchAssumption ==
    /\ Batch \subseteq Seq(Key)
    /\ \A ks \in Batch : \A i, j \in 1..Len(ks) : ks[i] = ks[j] => i = j
ASSUME PatternAssumption == Pattern \subseteq SUBSET Key
ASSUME CallerAssumption == LockSets \subseteq SUBSET Key /\ Careless \subseteq Key

VARIABLES
    cache,       \* the instance's fields: store, older, tags, mem
    now,         \* Date.now()
    locked,      \* the keys for which lockManager.isLocked() answers true
    destroyed,   \* destroy() was called
    \* history, read by no method:
    promised,    \* per key: the end of life and the tags its callers gave it,
                 \* until they or a limit take it away, or a call finds it over
    usedSince,   \* per key, the keys used since its own last use
    evicted      \* the keys the last step evicted

history == <<promised, usedSince, evicted>>
vars == <<cache, now, locked, destroyed, history>>

Never == -1     \* expireAt of an entry without TTL (null in the code)

Entry == [size : Nat, expireAt : Nat \cup {Never}, tags : SUBSET Tag]

-----------------------------------------------------------------------------
(* Reading the map.                                                        *)

Stored(c) == DOMAIN c.store

\* get() and exists(): the entry is there and its TTL has run out.
Expired(c, k, t) == c.store[k].expireAt # Never /\ t >= c.store[k].expireAt

\* The keys that get() of several keys, or of one, finds expired.
Dead(c, K, t) == {k \in K \cap Stored(c) : Expired(c, k, t)}

\* Mutant: an entry in its last tick counts as run out.
TtlRunOutEarly(c, K, t) ==
    {k \in K \cap Stored(c) :
        c.store[k].expireAt # Never /\ c.store[k].expireAt - t <= 1}

\* The entries getRemainingTtl() finds run out, and so deletes.
TtlRunOut(c, K, t) ==
    {k \in K \cap Stored(c) :
        c.store[k].expireAt # Never /\ c.store[k].expireAt - t <= 0}

\* Mutant: the timer's loop stops at the first entry that is not due.
CleanupDueAtFront(c, t) ==
    {k \in Stored(c) : \A j \in c.older[k] \cup {k} :
        c.store[j].expireAt # Never /\ c.store[j].expireAt <= t}

\* The entries the cleanup timer deletes.
CleanupDue(c, t) ==
    {k \in Stored(c) :
        c.store[k].expireAt # Never /\ c.store[k].expireAt <= t}

\* The sum of the sizes of the entries m[k], k \in D: the units they take up,
\* counted.
Total(m, D) == Cardinality(UNION {{k} \X (1..m[k].size) : k \in D})

SizeOf(c, D) == Total(c.store, D)

-----------------------------------------------------------------------------
(* Changing the map: pure functions from a cache to a cache.               *)

Elems(ks) == {ks[i] : i \in 1..Len(ks)}

\* The keys of the list before k.
Earlier(ks, k) ==
    {ks[i] : i \in {n \in 1..Len(ks) : \E j \in 1..Len(ks) : n < j /\ ks[j] = k}}

\* Map.delete + Map.set of the keys in D, in the order of the list ks: they
\* end up last, every other stored key in front of them.
MoveToEnd(c, ks, D) ==
    [k \in Key |-> IF k \in D THEN (Stored(c) \ D) \cup (Earlier(ks, k) \cap D)
                              ELSE c.older[k] \ D]

\* Mutant: a deletion leaves the key in the tag index.
RemoveKeepsTags(c, D) ==
    [store |-> [k \in Stored(c) \ D |-> c.store[k]],
     older |-> [k \in Key |-> IF k \in D THEN {} ELSE c.older[k] \ D],
     tags  |-> c.tags,
     mem   |-> c.mem - SizeOf(c, D \cap Stored(c))]

\* _deleteInternal of each stored key of D: the tag index is cleaned through
\* the entry's own tags array.
Remove(c, D) ==
    LET gone == D \cap Stored(c) IN
    [store |-> [k \in Stored(c) \ D |-> c.store[k]],
     older |-> [k \in Key |-> IF k \in D THEN {} ELSE c.older[k] \ D],
     tags  |-> [t \in Tag |-> c.tags[t] \ {k \in gone : t \in c.store[k].tags}],
     mem   |-> c.mem - SizeOf(c, gone)]

\* Store the new entries in the order of the list ks; none of their keys is
\* stored any more.
Insert(c, ks, new) ==
    LET D == DOMAIN new IN
    [store |-> [k \in Stored(c) \cup D |-> IF k \in D THEN new[k] ELSE c.store[k]],
     older |-> MoveToEnd(c, ks, D),
     tags  |-> [t \in Tag |-> c.tags[t] \cup {k \in D : t \in new[k].tags}],
     mem   |-> c.mem + Total(new, D)]

\* Mutant: a hit leaves the entry where it is.
RefreshNothing(c, ks, D) == c

\* The LRU refresh of get().
Refresh(c, ks, D) ==
    [store |-> c.store, older |-> MoveToEnd(c, ks, D), tags |-> c.tags, mem |-> c.mem]

\* Both loops of _enforceLimits delete from the front of the map: an entry
\* goes when the entries from it to the end exceed maxEntries, or when
\* without all the entries in front of it the map still exceeds maxMemory.
TooMany(c) == {k \in Stored(c) : Cardinality(Stored(c) \ c.older[k]) > MaxEntries}

TooLarge(c) ==
    IF MaxMemory = 0 THEN {}
    ELSE {k \in Stored(c) : c.mem - SizeOf(c, c.older[k]) > MaxMemory}

\* Mutant: only one of the two loops.
EnforceEntries(c) == Remove(c, TooMany(c))

EnforceLimits(c) == Remove(c, TooMany(c) \cup TooLarge(c))

\* A missing ttl is the default; a negative one means "no expiry", as 0 does.
ResolveTtl(ttl) ==
    LET t == IF ttl = NoTtl THEN DefaultTtl ELSE ttl
    IN  IF t < 0 THEN 0 ELSE t

\* Mutant: a negative ttl is taken at its word.
ExpireAtUnclamped(ttl) == IF ttl \in {NoTtl, 0} THEN Never ELSE now + ttl

ExpireAt(ttl) == IF ResolveTtl(ttl) > 0 THEN now + ResolveTtl(ttl) ELSE Never

NewEntry(size, ttl, tags) ==
    [size |-> IF MaxMemory > 0 THEN size ELSE 0, expireAt |-> ExpireAt(ttl),
     tags |-> tags]

-----------------------------------------------------------------------------
(* History.                                                                *)

\* The keys of D are used, in the order of the list ks.
Use(ks, D) ==
    usedSince' = [k \in Key |->
        IF k \in D THEN D \ (Earlier(ks, k) \cup {k})
        ELSE IF k \in Stored(cache) THEN usedSince[k] \cup D
        ELSE {}]

\* When a value written now is over, as its caller understands ttl: in that many
\* ticks, or never if it is not positive.
LifeEnd(ttl) ==
    LET n == IF ttl = NoTtl THEN DefaultTtl ELSE ttl
    IN  IF n > 0 THEN now + n ELSE Never

\* The keys of K whose promised life is over.
Due(K) ==
    {k \in K \cap DOMAIN promised : promised[k].until # Never /\ promised[k].until <= now}

Forget(K) == promised' = [k \in DOMAIN promised \ K |-> promised[k]]

\* The keys of D are promised to live until `until`, with the tags, but for those
\* of them, or others, that the limits take away at once.
Promise(D, until, tags) ==
    promised' = [k \in (DOMAIN promised \cup D) \ evicted' |->
                    IF k \in D THEN [until |-> until, tags |-> tags] ELSE promised[k]]

-----------------------------------------------------------------------------
EmptyCache ==
    [store |-> [k \in {} |-> {}], older |-> [k \in Key |-> {}],
     tags |-> [t \in Tag |-> {}], mem |-> 0]

Init ==
    /\ cache = EmptyCache
    /\ now = 0
    /\ locked = {}
    /\ destroyed = FALSE
    /\ promised = [k \in {} |-> {}]
    /\ usedSince = [k \in Key |-> {}]
    /\ evicted = {}

\* Delete the entries of D.
Drop(D) ==
    /\ ~destroyed
    /\ cache' = Remove(cache, D)
    /\ evicted' = {}
    /\ UNCHANGED <<now, locked, destroyed, usedSince>>

\* At the caller's wish.
Delete(D) == Drop(D) /\ Forget(D)

\* Because the entries of D, among those of K, are found expired.
Expire(D, K) == Drop(D) /\ Forget(Due(K))

\* Read the keys of the list: expired entries go, the others are refreshed.
Read(ks) ==
    LET dead == Dead(cache, Elems(ks), now)
        live == (Elems(ks) \cap Stored(cache)) \ dead
    IN  /\ ~destroyed
        /\ cache' = Refresh(Remove(cache, dead), ks, live)
        /\ Use(ks, live)
        /\ Forget(Due(Elems(ks)))
        /\ evicted' = {}
        /\ UNCHANGED <<now, locked, destroyed>>

\* Write the entries `new`, in the order of the list, in place of the old
\* ones, and then enforce the limits once.
Write(ks, new) ==
    LET D    == DOMAIN new
        full == Insert(Remove(cache, D), ks, new)
    IN  /\ ~destroyed
        /\ cache' = EnforceLimits(full)
        /\ Use(ks, D)
        /\ evicted' = TooMany(full) \cup TooLarge(full)
        /\ UNCHANGED <<now, locked, destroyed>>

Get(k) == Read(<<k>>)

GetMany(ks) == Read(ks)

\* A locked key is not written.
Set(k, size, ttl, tags) ==
    /\ k \notin locked
    /\ Write(<<k>>, [x \in {k} |-> NewEntry(size, ttl, tags)])
    /\ Promise({k}, LifeEnd(ttl), tags)

\* One ttl and no tags for all entries; locked keys are skipped.
SetMany(ks, size, ttl) ==
    /\ Write(ks, [x \in Elems(ks) \ locked |-> NewEntry(size[x], ttl, {})])
    /\ Promise(Elems(ks) \ locked, LifeEnd(ttl), {})

Del(k) == Delete({k})

\* Also a delMany() that throws at an invalid key, having deleted the valid
\* ones in front of it.
DelMany(ks) == Delete(Elems(ks))

DelPattern(matching) == Delete(matching)

Exists(k) == Expire(Dead(cache, {k}, now), {k})

GetRemainingTtl(k) == Expire(TtlRunOut(cache, {k}, now), {k})

GetRemainingTtlMany(ks) == Expire(TtlRunOut(cache, Elems(ks), now), Elems(ks))

\* The keys promised with the tag; of those whose callers spoil their memberships,
\* the keys the index names.
Tagged(t) ==
    {k \in DOMAIN promised \ Careless : t \in promised[k].tags}
        \cup (cache.tags[t] \cap Careless)

\* The keys the index names go, and with them the tag's index entry.
InvalidateByTag(t) ==
    LET c == Remove(cache, cache.tags[t]) IN
    /\ ~destroyed
    /\ cache' = [store |-> c.store, older |-> c.older,
                 tags |-> [c.tags EXCEPT ![t] = {}], mem |-> c.mem]
    /\ Forget(Tagged(t))
    /\ evicted' = {}
    /\ UNCHANGED <<now, locked, destroyed, usedSince>>

Clear ==
    /\ ~destroyed
    /\ cache' = EmptyCache
    /\ Forget(Key)
    /\ evicted' = {}
    /\ UNCHANGED <<now, locked, destroyed, usedSince>>

\* The cleanup timer fires.
Cleanup ==
    /\ CleanupDue(cache, now) # {}
    /\ Expire(CleanupDue(cache, now), Key)

\* destroy() stops the timer and empties the map and the index; it leaves
\* the memory counter, and no method may be called afterwards.
Destroy ==
    /\ ~destroyed
    /\ destroyed' = TRUE
    /\ cache' = [EmptyCache EXCEPT !.mem = cache.mem]
    /\ Forget(Key)
    /\ evicted' = {}
    /\ UNCHANGED <<now, locked, usedSince>>

-----------------------------------------------------------------------------
(* The surroundings: lock manager, caller, clock.                          *)

ChangeLocks(ls) ==
    /\ ~destroyed
    /\ locked' = ls
    /\ evicted' = {}
    /\ UNCHANGED <<cache, now, destroyed, promised, usedSince>>

\* The caller changes the array it gave to set(); the entry shares it. (An
\* empty array is not kept: the entry gets one of its own.)
MutateTags(k, tags) ==
    /\ ~destroyed
    /\ k \in DOMAIN promised /\ promised[k].tags # {}
    /\ cache' = [store |-> [cache.store EXCEPT ![k].tags = tags],
                 older |-> cache.older, tags |-> cache.tags, mem |-> cache.mem]
    /\ evicted' = {}
    /\ UNCHANGED <<now, locked, destroyed, promised, usedSince>>

Tick ==
    /\ ~destroyed
    /\ now < MaxTime
    /\ now' = now + 1
    /\ evicted' = {}
    /\ UNCHANGED <<cache, locked, destroyed, promised, usedSince>>

Next ==
    \/ \E k \in Key : Get(k) \/ Del(k) \/ Exists(k) \/ GetRemainingTtl(k)
    \/ \E ks \in Batch : GetMany(ks) \/ DelMany(ks) \/ GetRemainingTtlMany(ks)
    \/ \E k \in Key, size \in Size, ttl \in TtlArg, tags \in SUBSET Tag :
           Set(k, size, ttl, tags)
    \/ \E ks \in Batch : \E size \in [Elems(ks) -> Size], ttl \in TtlArg :
           SetMany(ks, size, ttl)
    \/ \E m \in Pattern : DelPattern(m)
    \/ \E t \in Tag : InvalidateByTag(t)
    \/ Clear
    \/ Cleanup
    \/ Destroy
    \/ \E ls \in LockSets : ChangeLocks(ls)
    \/ \E k \in Careless, tags \in SUBSET Tag : MutateTags(k, tags)
    \/ Tick

Spec == Init /\ [][Next]_vars

\* The cleanup interval keeps firing until destroy().
FairSpec == Spec /\ WF_vars(Cleanup)

-----------------------------------------------------------------------------
(* Properties.                                                             *)

\* The fields have the shape the code gives them. (The memory counter is
\* pinned down by LimitsKept.)
TypeOK ==
    /\ cache = [store |-> cache.store, older |-> cache.older,
                tags |-> cache.tags, mem |-> cache.mem]
    /\ Stored(cache) \subseteq Key
    /\ cache.store \in [Stored(cache) -> Entry]
    /\ cache.older \in [Key -> SUBSET Stored(cache)]
    /\ cache.tags \in [Tag -> SUBSET Key]
    /\ now \in Nat
    /\ locked \subseteq Key
    /\ destroyed \in BOOLEAN
    /\ DOMAIN promised \subseteq Key
    /\ promised \in [DOMAIN promised -> [until : Nat \cup {Never}, tags : SUBSET Tag]]
    /\ usedSince \in [Key -> SUBSET Key]
    /\ evicted \subseteq Key

\* get() and exists() serve a key exactly while the life its caller gave it
\* lasts: of all the ways an entry can go (overwritten, deleted one by one, by
\* pattern or by tag, evicted, found expired by any of five tests of the time)
\* none takes it early, none keeps it late, and no skipped write is served.
ServedUntilItsTime ==
    Stored(cache) \ Dead(cache, Key, now) = DOMAIN promised \ Due(Key)

\* The tag index, maintained entry by entry through every set, deletion,
\* expiry and eviction, names a key exactly if it was last written with the tag
\* and has not been taken away since: _setInternal, _deleteInternal and
\* invalidateByTag never leave a stale or missing membership.  A caller that
\* changes the array it gave to set(), which the entry shares, spoils the
\* memberships of its own key only.
TagIndexExact ==
    \A t \in Tag, k \in Key \ Careless :
        k \in cache.tags[t] <=> k \in DOMAIN promised /\ t \in promised[k].tags

\* Between two calls the cache holds at most maxEntries entries: setMany
\* defers _enforceLimits to its end, but no call returns without it.
EntryLimit == Cardinality(Stored(cache)) <= MaxEntries

\* The incrementally maintained memory counter is the sum of the sizes of the
\* stored entries, until destroy(), which does not reset it; and between two
\* calls it is within the budget, even when one value alone is larger than it.
MemoryLimit ==
    ~destroyed =>
        /\ cache.mem = SizeOf(cache, Stored(cache))
        /\ MaxMemory > 0 => cache.mem <= MaxMemory

\* Both limits: they are enforced by two loops with different conditions, one
\* after the other, on a map the first has already cut.
LimitsKept == EntryLimit /\ MemoryLimit

\* The order of the map is the order of last use: j stands in front of k
\* exactly if k was read or written after j last was.
MapOrderIsUseOrder ==
    \A j, k \in Stored(cache) :
        j \in cache.older[k] <=> j # k /\ k \in usedSince[j]

\* Every entry that outlives an eviction was used more recently than every
\* entry that eviction removed, and without a memory budget an entry is only
\* evicted once maxEntries other keys were used after it: get() really
\* protects a key.
EvictsLeastRecentlyUsed ==
    \A k \in evicted :
        /\ Stored(cache) \subseteq usedSince[k]
        /\ MaxMemory = 0 => Cardinality(usedSince[k]) >= MaxEntries

\* While the lock manager holds a key no call changes its entry or creates
\* one: a step leaves the entry as it was or removes it, but for callers that
\* change the array the entry shares.
LockedKeysAreNotWritten ==
    [][\A k \in (locked \cap Stored(cache')) \ Careless :
           k \in Stored(cache) /\ cache'.store[k] = cache.store[k]]_vars

\* With a cleanup interval, an expired entry nobody reads again does not stay
\* in memory.
ExpiredEventuallyGo ==
    \A k \in Key : k \in Dead(cache, Key, now) ~> k \notin Dead(cache, Key, now)

=============================================================================
