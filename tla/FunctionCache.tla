----------------------------- MODULE FunctionCache -----------------------------
(***************************************************************************)
(* src/src/function-cache.ts: one function wrapped by withCache(), and one *)
(* name of a FunctionCache manager, on the same cache.  The manager's      *)
(* execute() repeats the body of the wrapped function; what it leaves out  *)
(* is the set of written keys that invalidateAll() works from, and what it *)
(* adds is the registry: register() gives a name a new entry, with a table *)
(* of promises of its own.                                                 *)
(*                                                                         *)
(* A step runs from one await to the next; an operation of the cache takes *)
(* effect in one step and its answer arrives in a later one, for the cache *)
(* may be remote.  As in ReadThrough, a promise is named by the call that  *)
(* makes it and a value by the call whose function returned it.  Fetched   *)
(* values are not undefined, and the counters of stats() are left out.     *)
(***************************************************************************)
EXTENDS Integers, FiniteSets

CONSTANTS
    Key,
    Call,           \* the calls of the wrapped function or of execute()
    Sweep,          \* the calls of invalidateAll()
    Invalidation,   \* the calls of the wrapped function's invalidate()
    Entry,          \* the entries register() makes
    Wrapped,        \* the wrapped function, as the owner of a promise table
    None,
    PruneInterval   \* KNOWN_KEYS_PRUNE_INTERVAL

Op == Sweep \cup Invalidation
Pruner == Call \cup Sweep
Owner == Entry \cup {Wrapped}

ASSUME CallAssumption == None \notin Call
ASSUME OpAssumption == Sweep \cap Invalidation = {} /\ Op \cap Call = {}
ASSUME OwnerAssumption == Wrapped \notin Entry /\ None \notin Owner /\ None \notin Key
ASSUME IntervalAssumption == PruneInterval \in Nat \ {0}

VARIABLES
    cache,      \* per key, the stored value
    inflight,   \* per owner and key, the registered promise
    known,      \* knownKeys of the wrapped function
    writes,     \* writesSincePrune
    registered, \* the entry the manager's name has
    pc,         \* per call and operation, where it is
    key,        \* per call and invalidation, its key
    owner,      \* per call, the owner of its promise
    seen,       \* per call, the value in its hands
    joined,     \* per call, the promise it awaits or awaited
    todo,       \* per call and sweep, the keys its pruning has still to look at
    absent,     \* per call and sweep, the key its pruning has found absent, or None
    visited,    \* per sweep, the known keys its iteration has passed
    \* history:
    used,       \* the entries made so far
    failed,     \* the owners and keys one of whose fetches failed
    escaped,    \* keys written while a removal from knownKeys was under way, and
                \* keys whose writing or deletion the cache reported as failed
    owed        \* per sweep, the keys known when it began, with no write under way
                \* that is still to be tracked, and not written since

registry == <<registered, used>>
tracking == <<known, writes, visited, escaped>>
pruning == <<todo, absent>>
call == <<key, owner, seen, joined>>
vars == <<cache, inflight, registry, tracking, pruning, call, pc, failed, owed>>

Active == {"fetch", "store", "stored", "prune", "resolved", "rejected"}

TypeOK ==
    /\ cache \in [Key -> Call \cup {None}]
    /\ inflight \in [Owner -> [Key -> Call \cup {None}]]
    /\ known \subseteq Key
    /\ writes \in 0 .. PruneInterval - 1
    /\ registered \in used \cup {None}
    /\ pc \in [Call \cup Op -> {"new", "get", "got", "wait", "sweep", "del", "deleted",
                                "done", "failed"} \cup Active]
    /\ key \in [Call \cup Invalidation -> Key \cup {None}]
    /\ owner \in [Call -> Owner \cup {None}]
    /\ seen \in [Call -> Call \cup {None}]
    /\ joined \in [Call -> Call \cup {None}]
    /\ todo \in [Pruner -> SUBSET Key]
    /\ absent \in [Pruner -> Key \cup {None}]
    /\ \A p \in Pruner : absent[p] # None => pc[p] = "prune"
    /\ visited \in [Sweep -> SUBSET known]
    /\ used \subseteq Entry
    /\ failed \subseteq Owner \X Key
    /\ escaped \subseteq Key
    /\ owed \in [Sweep -> SUBSET Key]

Init ==
    /\ cache = [k \in Key |-> None]
    /\ inflight = [o \in Owner |-> [k \in Key |-> None]]
    /\ known = {}
    /\ writes = 0
    /\ registered = None
    /\ pc = [p \in Call \cup Op |-> "new"]
    /\ key = [p \in Call \cup Invalidation |-> None]
    /\ owner = [x \in Call |-> None]
    /\ seen = [x \in Call |-> None]
    /\ joined = [x \in Call |-> None]
    /\ todo = [p \in Pruner |-> {}]
    /\ absent = [p \in Pruner |-> None]
    /\ visited = [s \in Sweep |-> {}]
    /\ used = {}
    /\ failed = {}
    /\ escaped = {}
    /\ owed = [s \in Sweep |-> {}]

Goto(p, l) == pc' = [pc EXCEPT ![p] = l]

Registered(x) == inflight[owner[x]][key[x]]

\* cache.set(k): nothing a sweep owed of the key is left.
Store(k, v) ==
    /\ cache' = [cache EXCEPT ![k] = v]
    /\ owed' = [s \in Sweep |-> owed[s] \ {k}]

\* cache.del(k)
Delete(k) == cache' = [cache EXCEPT ![k] = None]

\* knownKeys.delete(k): an iteration of the set meets the key again if it is
\* added again.
Forget(k) ==
    /\ known' = known \ {k}
    /\ visited' = [s \in Sweep |-> visited[s] \ {k}]

\* Somebody has looked at the key, or deleted it, and is about to take it
\* out of knownKeys.
Removing(k) ==
    \/ \E p \in Pruner : absent[p] = k
    \/ \E i \in Invalidation : pc[i] = "deleted" /\ key[i] = k
    \/ \E s \in Sweep : k \in visited[s]

-----------------------------------------------------------------------------
(* Mutants: how the code could be wrong.                                   *)

\* A key whose exists() failed is taken for absent.
PruneLookDoubts(p) ==
    /\ pc[p] = "prune" /\ absent[p] = None
    /\ \E k \in todo[p] :
        /\ todo' = [todo EXCEPT ![p] = @ \ {k}]
        /\ \/ UNCHANGED absent
           \/ absent' = [absent EXCEPT ![p] = k]
    /\ UNCHANGED <<cache, inflight, registry, tracking, call, pc, failed, owed>>

\* The write is tracked only when the pruning is due.
TrackSeldom(x) ==
    /\ pc[x] = "stored"
    /\ escaped' = IF Removing(key[x]) THEN escaped \cup {key[x]} ELSE escaped \ {key[x]}
    /\ IF writes + 1 < PruneInterval
         THEN writes' = writes + 1 /\ Goto(x, "resolved") /\ UNCHANGED <<known, todo>>
         ELSE /\ writes' = 0 /\ Goto(x, "prune")
              /\ known' = known \cup {key[x]}
              /\ todo' = [todo EXCEPT ![x] = known']
    /\ UNCHANGED <<cache, inflight, registry, visited, absent, call, failed, owed>>

\* The count of writes is not reset.
TrackCounts(x) ==
    /\ pc[x] = "stored"
    /\ known' = known \cup {key[x]}
    /\ escaped' = IF Removing(key[x]) THEN escaped \cup {key[x]} ELSE escaped \ {key[x]}
    /\ writes' = writes + 1
    /\ IF writes' < PruneInterval
         THEN Goto(x, "resolved") /\ UNCHANGED todo
         ELSE Goto(x, "prune") /\ todo' = [todo EXCEPT ![x] = known']
    /\ UNCHANGED <<cache, inflight, registry, visited, absent, call, failed, owed>>

\* A miss does not look for a registered promise.
MustFetchAlways(x) ==
    \/ pc[x] = "got" /\ seen[x] = None
    \/ pc[x] = "wait" /\ pc[joined[x]] = "failed"

-----------------------------------------------------------------------------
(* The wrapped function, and execute().                                    *)

Begin(x, k) ==
    /\ pc[x] = "new"
    /\ key' = [key EXCEPT ![x] = k]
    /\ owner' = [owner EXCEPT ![x] = Wrapped]
    /\ Goto(x, "get")
    /\ UNCHANGED <<cache, inflight, registry, tracking, pruning, seen, joined, failed, owed>>

\* The entry is looked up once, when the call begins.
Execute(x, k) ==
    /\ pc[x] = "new"
    /\ IF registered = None
         THEN Goto(x, "failed") /\ UNCHANGED <<key, owner>>
         ELSE /\ key' = [key EXCEPT ![x] = k]
              /\ owner' = [owner EXCEPT ![x] = registered]
              /\ Goto(x, "get")
    /\ UNCHANGED <<cache, inflight, registry, tracking, pruning, seen, joined, failed, owed>>

\* cache.get() is answered, or fails and the call with it.
CacheGet(x) ==
    /\ pc[x] = "get"
    /\ \/ Goto(x, "got") /\ seen' = [seen EXCEPT ![x] = cache[key[x]]]
       \/ Goto(x, "failed") /\ UNCHANGED seen
    /\ UNCHANGED <<cache, inflight, registry, tracking, pruning, key, owner, joined, failed, owed>>

Hit(x) ==
    /\ pc[x] = "got"
    /\ seen[x] # None
    /\ Goto(x, "done")
    /\ UNCHANGED <<cache, inflight, registry, tracking, pruning, call, failed, owed>>

Join(x) ==
    /\ pc[x] = "got"
    /\ seen[x] = None
    /\ Registered(x) # None
    /\ joined' = [joined EXCEPT ![x] = Registered(x)]
    /\ Goto(x, "wait")
    /\ UNCHANGED <<cache, inflight, registry, tracking, pruning, key, owner, seen, failed, owed>>

\* The promise joined has resolved.
Answer(x) ==
    /\ pc[x] = "wait"
    /\ pc[joined[x]] = "done"
    /\ seen' = [seen EXCEPT ![x] = seen[joined[x]]]
    /\ Goto(x, "done")
    /\ UNCHANGED <<cache, inflight, registry, tracking, pruning, key, owner, joined, failed, owed>>

\* The call runs the function itself: no promise is registered, or the one
\* it joined was rejected. (Then the table is not looked at again.)
MustFetch(x) ==
    \/ pc[x] = "got" /\ seen[x] = None /\ Registered(x) = None
    \/ pc[x] = "wait" /\ pc[joined[x]] = "failed"

Fetch(x) ==
    /\ MustFetch(x)
    /\ inflight' = [inflight EXCEPT ![owner[x]][key[x]] = x]
    /\ Goto(x, "fetch")
    /\ UNCHANGED <<cache, registry, tracking, pruning, call, failed, owed>>

\* The function answers; condition() may keep the result from the cache.
FetchEnds(x) ==
    /\ pc[x] = "fetch"
    /\ \/ /\ pc' \in {[pc EXCEPT ![x] = "store"], [pc EXCEPT ![x] = "resolved"]}
          /\ seen' = [seen EXCEPT ![x] = x]
          /\ UNCHANGED failed
       \/ /\ Goto(x, "rejected")
          /\ failed' = failed \cup {<<owner[x], key[x]>>}
          /\ UNCHANGED seen
    /\ UNCHANGED <<cache, inflight, registry, tracking, pruning, key, owner, joined, owed>>

StoreEnds(x) ==
    /\ pc[x] = "store" /\ owner[x] = Wrapped
    /\ Store(key[x], x)
    /\ Goto(x, "stored")
    /\ UNCHANGED <<inflight, registry, tracking, pruning, call, failed>>

\* cache.set() fails, perhaps after it took effect; the key is not tracked.
StoreFails(x) ==
    /\ pc[x] = "store" /\ owner[x] = Wrapped
    /\ \/ Store(key[x], x) /\ escaped' = escaped \cup {key[x]}
       \/ UNCHANGED <<cache, owed, escaped>>
    /\ Goto(x, "resolved")
    /\ UNCHANGED <<inflight, registry, known, writes, visited, pruning, call, failed>>

\* execute() ignores how cache.set() ends, and tracks nothing.
ManagedStoreEnds(x) ==
    /\ pc[x] = "store" /\ owner[x] # Wrapped
    /\ \/ Store(key[x], x)
       \/ UNCHANGED <<cache, owed>>
    /\ Goto(x, "resolved")
    /\ UNCHANGED <<inflight, registry, tracking, pruning, call, failed>>

\* trackWrittenKey(): the call that makes the interval full prunes before it
\* goes on.
Track(x) ==
    /\ pc[x] = "stored"
    /\ known' = known \cup {key[x]}
    /\ escaped' = IF Removing(key[x]) THEN escaped \cup {key[x]} ELSE escaped \ {key[x]}
    /\ IF writes + 1 < PruneInterval
         THEN writes' = writes + 1 /\ Goto(x, "resolved") /\ UNCHANGED todo
         ELSE /\ writes' = 0
              /\ todo' = [todo EXCEPT ![x] = known']
              /\ Goto(x, "prune")
    /\ UNCHANGED <<cache, inflight, registry, visited, absent, call, failed, owed>>

\* finally: the key leaves the table, whoever's promise it holds by now.
Settle(x) ==
    /\ \/ pc[x] = "resolved" /\ Goto(x, "done")
       \/ pc[x] = "rejected" /\ Goto(x, "failed")
    /\ inflight' = [inflight EXCEPT ![owner[x]][key[x]] = None]
    /\ UNCHANGED <<cache, registry, tracking, pruning, call, failed, owed>>

-----------------------------------------------------------------------------
(* pruneKnownKeys(), of a call or of a sweep.                              *)

\* cache.exists() of one key of the snapshot; if it fails the key is kept.
\* (The code takes the keys in the order in which they were added.)
PruneLook(p) ==
    /\ pc[p] = "prune" /\ absent[p] = None
    /\ \E k \in todo[p] :
        /\ todo' = [todo EXCEPT ![p] = @ \ {k}]
        /\ \/ UNCHANGED absent
           \/ cache[k] = None /\ absent' = [absent EXCEPT ![p] = k]
    /\ UNCHANGED <<cache, inflight, registry, tracking, call, pc, failed, owed>>

PruneForget(p) ==
    /\ absent[p] # None
    /\ Forget(absent[p])
    /\ absent' = [absent EXCEPT ![p] = None]
    /\ UNCHANGED <<cache, inflight, registry, writes, escaped, todo, call, pc, failed, owed>>

PruneEnds(p) ==
    /\ pc[p] = "prune" /\ absent[p] = None /\ todo[p] = {}
    /\ Goto(p, IF p \in Sweep THEN "sweep" ELSE "resolved")
    /\ UNCHANGED <<cache, inflight, registry, tracking, pruning, call, failed, owed>>

-----------------------------------------------------------------------------
(* invalidateAll(), invalidate(), and the manager's operations.            *)

InvalidateAll(s) ==
    /\ pc[s] = "new"
    /\ owed' = [owed EXCEPT ![s] = known \ {key[x] : x \in {y \in Call : pc[y] = "stored"}}]
    /\ todo' = [todo EXCEPT ![s] = known]
    /\ Goto(s, "prune")
    /\ UNCHANGED <<cache, inflight, registry, tracking, absent, call, failed>>

\* cache.del() of the next known key, a failure being ignored.
SweepDel(s) ==
    /\ pc[s] = "sweep"
    /\ \E k \in known \ visited[s] :
        /\ visited' = [visited EXCEPT ![s] = @ \cup {k}]
        /\ \/ Delete(k) /\ UNCHANGED escaped
           \/ escaped' = escaped \cup {k} /\ UNCHANGED cache
    /\ UNCHANGED <<inflight, registry, known, writes, pruning, call, pc, failed, owed>>

\* The iteration meets no further key: knownKeys.clear().
SweepClear(s) ==
    /\ pc[s] = "sweep"
    /\ known \subseteq visited[s]
    /\ known' = {}
    /\ visited' = [t \in Sweep |-> {}]
    /\ Goto(s, "done")
    /\ UNCHANGED <<cache, inflight, registry, writes, escaped, pruning, call, failed, owed>>

\* invalidate(): cache.del() takes effect, or fails and the call with it.
InvalidateDel(i, k) ==
    /\ pc[i] = "new"
    /\ key' = [key EXCEPT ![i] = k]
    /\ \/ Delete(k) /\ pc' \in {[pc EXCEPT ![i] = "deleted"], [pc EXCEPT ![i] = "failed"]}
       \/ UNCHANGED cache /\ Goto(i, "failed")
    /\ UNCHANGED <<inflight, registry, tracking, pruning, owner, seen, joined, failed, owed>>

InvalidateForget(i) ==
    /\ pc[i] = "deleted"
    /\ Forget(key[i])
    /\ Goto(i, "done")
    /\ UNCHANGED <<cache, inflight, registry, writes, escaped, pruning, call, failed, owed>>

Register(e) ==
    /\ e \notin used
    /\ registered' = e
    /\ used' = used \cup {e}
    /\ UNCHANGED <<cache, inflight, tracking, pruning, call, pc, failed, owed>>

\* FunctionCache.clear()
Unregister ==
    /\ registered # None
    /\ registered' = None
    /\ UNCHANGED <<cache, inflight, used, tracking, pruning, call, pc, failed, owed>>

\* FunctionCache.invalidate() and invalidatePattern() delete from the cache
\* and change nothing else; an entry may also expire, or be evicted.
Evict(k) ==
    /\ cache[k] # None
    /\ Delete(k)
    /\ UNCHANGED <<inflight, registry, tracking, pruning, call, pc, failed, owed>>

\* The promise the call joined has settled, and its maker has resumed: the
\* calls that joined resume before anything else happens.
Resuming(x) == pc[x] = "wait" /\ pc[joined[x]] \in {"done", "failed"}

Resume(x) == Resuming(x) /\ (Answer(x) \/ Fetch(x))

Progress(x) ==
    \/ CacheGet(x) \/ Hit(x) \/ Join(x) \/ Fetch(x) \/ FetchEnds(x)
    \/ StoreEnds(x) \/ StoreFails(x) \/ ManagedStoreEnds(x) \/ Track(x) \/ Settle(x)

Prune(p) == PruneLook(p) \/ PruneForget(p) \/ PruneEnds(p)

Next ==
    \/ \E x \in Call : Resume(x)
    \/ /\ \A y \in Call : ~Resuming(y)
       /\ \/ \E x \in Call : Progress(x) \/ \E k \in Key : Begin(x, k) \/ Execute(x, k)
          \/ \E p \in Pruner : Prune(p)
          \/ \E s \in Sweep : InvalidateAll(s) \/ SweepDel(s) \/ SweepClear(s)
          \/ \E i \in Invalidation :
                 InvalidateForget(i) \/ \E k \in Key : InvalidateDel(i, k)
          \/ \E e \in Entry : Register(e)
          \/ Unregister
          \/ \E k \in Key : Evict(k)

Spec == Init /\ [][Next]_vars

-----------------------------------------------------------------------------
(* Properties.                                                             *)

\* The key holds an entry the wrapped function has stored.
Own(k) == cache[k] # None /\ owner[cache[k]] = Wrapped

\* An entry the wrapped function has stored is known to invalidateAll(),
\* unless it was written while a removal of its key from knownKeys was under
\* way, or the cache reported its writing or deletion as failed: pruning,
\* invalidate(), the iteration and clear() lose nothing else.
OnlyRacesEscape ==
    \A k \in Key :
        Own(k) /\ pc[cache[k]] # "stored" => k \in known \cup escaped

\* When invalidateAll() ends, no entry of the function's is left under a key that was known
\* when it began, unless it was written since, was being written or had
\* escaped: whatever prunings, invalidations and other sweeps did in between.
SweepReaches ==
    \A s \in Sweep :
        pc[s] = "done" => \A k \in owed[s] \ escaped : ~Own(k)

\* One execution of the function per key, for the wrapped function and for
\* each entry of the manager, unless an execution failed. In particular a
\* newly registered function never waits for the one it replaced.
SingleExecution ==
    \A x, y \in Call :
        /\ pc[x] \in Active /\ pc[y] \in Active
        /\ owner[x] = owner[y] /\ key[x] = key[y]
        /\ <<owner[x], key[x]>> \notin failed
        => x = y

=============================================================================
