------------------------------ MODULE ReadThrough ------------------------------
(***************************************************************************)
(* readThrough() of src/src/read-through.ts in one process: a cache is     *)
(* asked first; on a miss the call joins the promise another call has      *)
(* registered for the same key, or fetches, stores and registers its own.  *)
(* The table of registered promises is shared by all cache instances.      *)
(*                                                                         *)
(* A step runs from one await to the next.  A call makes at most one       *)
(* promise, so the promise is named by the call.  A value is named by the  *)
(* call whose fetcher returned it: a cache entry, a promise's result and   *)
(* a call's answer are calls, or None (a miss, or undefined).              *)
(*                                                                         *)
(* When a promise settles, the call that made it resumes first, being the  *)
(* first to await it, and then the calls that joined it, with no other     *)
(* step in between: their continuations are queued together.               *)
(***************************************************************************)
EXTENDS Integers, Sequences, SequencesExt

CONSTANTS
    Key, Cache,
    Call,           \* the calls ever made
    Args,           \* the caches and keys the calls may have, per call
    Hanging,        \* the calls whose fetcher or cache may never answer
    None,
    MaxInflight     \* INFLIGHT_MAX_SIZE

ASSUME NoneAssumption == None \notin Call
ASSUME ArgsAssumption == Args \subseteq [Call -> [cache : Cache, key : Key]]
ASSUME HangingAssumption == Hanging \subseteq Call
ASSUME InflightAssumption == MaxInflight \in Nat \ {0}

VARIABLES
    cache,      \* per instance and key, the stored value
    inflight,   \* __inflight: per key, the registered promise
    order,      \* the registered keys in the map's iteration order
    pc,         \* per call, where it is
    arg,        \* per call, its arguments
    seen,       \* per call, the value in its hands
    joined,     \* per call, the promise it awaits or awaited
    timer,      \* the calls whose 5-minute timer is armed
    \* history:
    fault,      \* per call, what of its own failed: its cache.get() or its fetcher
    removed     \* keys a timer or the pruning took out of the table

table == <<inflight, order>>
vars == <<cache, table, pc, arg, seen, joined, timer, fault, removed>>

\* The calls whose promise exists and which have not yet resumed from it.
Active == {"fetch", "store", "resolved", "rejected"}

TypeOK ==
    /\ cache \in [Cache -> [Key -> Call \cup {None}]]
    /\ inflight \in [Key -> Call \cup {None}]
    /\ pc \in [Call -> {"new", "bypass", "get", "got", "wait", "done", "failed"} \cup Active]
    /\ arg \in [Call -> [cache : Cache, key : Key]]
    /\ seen \in [Call -> Call \cup {None}]
    /\ joined \in [Call -> Call \cup {None}]
    /\ \A x \in Call : pc[x] = "wait" => joined[x] # None
    /\ \A x \in timer : x \in Call /\ pc[x] \in Active
    /\ fault \in [Call -> {"nothing", "cache", "fetcher"}]
    /\ removed \subseteq Key

Init ==
    /\ cache = [c \in Cache |-> [k \in Key |-> None]]
    /\ inflight = [k \in Key |-> None]
    /\ order = <<>>
    /\ pc = [x \in Call |-> "new"]
    /\ arg \in Args
    /\ seen = [x \in Call |-> None]
    /\ joined = [x \in Call |-> None]
    /\ timer = {}
    /\ fault = [x \in Call |-> "nothing"]
    /\ removed = {}

Goto(x, l) == pc' = [pc EXCEPT ![x] = l]

\* __inflight.delete(key)
Delete(k) ==
    /\ inflight' = [inflight EXCEPT ![k] = None]
    /\ \/ inflight[k] = None /\ UNCHANGED order
       \/ \E i \in 1..Len(order) : order[i] = k /\ order' = RemoveAt(order, i)

-----------------------------------------------------------------------------
(* Mutants: how the code could be wrong.                                   *)

\* The table is pruned one entry too late.
ToPruneLate ==
    IF Len(order) > MaxInflight THEN (Len(order) + 9) \div 10 ELSE 0

\* The entry goes when the promise is rejected, not when it resolves.
FinishKeepsEntry(x) ==
    /\ \/ pc[x] = "resolved" /\ Goto(x, "done") /\ UNCHANGED table
       \/ pc[x] = "rejected" /\ Goto(x, "failed") /\ Delete(arg[x].key)
    /\ timer' = timer \ {x}
    /\ UNCHANGED <<cache, arg, seen, joined, fault, removed>>

\* No clearTimeout().
FinishKeepsTimer(x) ==
    /\ \/ pc[x] = "resolved" /\ Goto(x, "done")
       \/ pc[x] = "rejected" /\ Goto(x, "failed")
    /\ Delete(arg[x].key)
    /\ UNCHANGED <<cache, arg, seen, joined, timer, fault, removed>>

\* The timer only gives the call up; it does not touch the table.
TimeoutKeepsEntry(x) ==
    /\ x \in timer
    /\ timer' = timer \ {x}
    /\ removed' = removed \cup {arg[x].key}
    /\ UNCHANGED <<cache, table, pc, arg, seen, joined, fault>>

\* A miss does not look for a registered promise.
MustFetchAlways(x) ==
    \/ pc[x] = "got" /\ seen[x] = None
    \/ pc[x] = "wait" /\ pc[joined[x]] = "failed"

-----------------------------------------------------------------------------
(* The steps of a call.                                                    *)

\* ttl <= 0: the fetcher alone, no cache and no table.
Bypass(x) ==
    /\ pc[x] = "new"
    /\ Goto(x, "bypass")
    /\ UNCHANGED <<cache, table, arg, seen, joined, timer, fault, removed>>

BypassFetchEnds(x) ==
    /\ pc[x] = "bypass"
    /\ \/ /\ Goto(x, "done")
          /\ \E v \in {x, None} : seen' = [seen EXCEPT ![x] = v]
          /\ UNCHANGED fault
       \/ /\ Goto(x, "failed")
          /\ fault' = [fault EXCEPT ![x] = "fetcher"]
          /\ UNCHANGED seen
    /\ UNCHANGED <<cache, table, arg, joined, timer, removed>>

Begin(x) ==
    /\ pc[x] = "new"
    /\ Goto(x, "get")
    /\ UNCHANGED <<cache, table, arg, seen, joined, timer, fault, removed>>

\* cache.get() is answered; the call has still to be resumed with it.
CacheGet(x) ==
    /\ pc[x] = "get"
    /\ \/ /\ Goto(x, "got")
          /\ seen' = [seen EXCEPT ![x] = cache[arg[x].cache][arg[x].key]]
          /\ UNCHANGED fault
       \/ /\ Goto(x, "failed")
          /\ fault' = [fault EXCEPT ![x] = "cache"]
          /\ UNCHANGED seen
    /\ UNCHANGED <<cache, table, arg, joined, timer, removed>>

Hit(x) ==
    /\ pc[x] = "got"
    /\ seen[x] # None
    /\ Goto(x, "done")
    /\ UNCHANGED <<cache, table, arg, seen, joined, timer, fault, removed>>

Join(x) ==
    /\ pc[x] = "got"
    /\ seen[x] = None
    /\ inflight[arg[x].key] # None
    /\ joined' = [joined EXCEPT ![x] = inflight[arg[x].key]]
    /\ Goto(x, "wait")
    /\ UNCHANGED <<cache, table, arg, seen, timer, fault, removed>>

\* The promise joined has resolved.
Answer(x) ==
    /\ pc[x] = "wait"
    /\ pc[joined[x]] = "done"
    /\ seen' = [seen EXCEPT ![x] = seen[joined[x]]]
    /\ Goto(x, "done")
    /\ UNCHANGED <<cache, table, arg, joined, timer, fault, removed>>

\* The call fetches itself: no promise is registered, or the one it joined
\* was rejected. (Then the table is not looked at again.)
MustFetch(x) ==
    \/ pc[x] = "got" /\ seen[x] = None /\ inflight[arg[x].key] = None
    \/ pc[x] = "wait" /\ pc[joined[x]] = "failed"

\* How many of the oldest entries the pruning takes: 10 per cent, rounded up.
ToPrune ==
    IF Len(order) >= MaxInflight THEN (Len(order) + 9) \div 10 ELSE 0

\* Prune the table, start the fetcher, register the promise, arm the timer.
Fetch(x) ==
    /\ MustFetch(x)
    /\ LET k      == arg[x].key
           pruned == {j \in Key : \E i \in 1..ToPrune : order[i] = j}
           rest   == SubSeq(order, ToPrune + 1, Len(order))
       IN  /\ inflight' = [j \in Key |-> IF j = k THEN x
                                         ELSE IF j \in pruned THEN None ELSE inflight[j]]
           /\ order' = IF \E i \in 1..Len(rest) : rest[i] = k THEN rest ELSE Append(rest, k)
           /\ removed' = removed \cup pruned
    /\ timer' = timer \cup {x}
    /\ Goto(x, "fetch")
    /\ UNCHANGED <<cache, arg, seen, joined, fault>>

FetchEnds(x) ==
    /\ pc[x] = "fetch"
    /\ \/ /\ Goto(x, "store")
          /\ seen' = [seen EXCEPT ![x] = x]
          /\ UNCHANGED fault
       \/ /\ Goto(x, "resolved")      \* undefined: nothing to store
          /\ UNCHANGED <<seen, fault>>
       \/ /\ Goto(x, "rejected")
          /\ fault' = [fault EXCEPT ![x] = "fetcher"]
          /\ UNCHANGED seen
    /\ UNCHANGED <<cache, table, arg, joined, timer, removed>>

\* cache.set() is done, or has failed, which is ignored.
StoreEnds(x) ==
    /\ pc[x] = "store"
    /\ \/ cache' = [cache EXCEPT ![arg[x].cache][arg[x].key] = seen[x]]
       \/ UNCHANGED cache
    /\ Goto(x, "resolved")
    /\ UNCHANGED <<table, arg, seen, joined, timer, fault, removed>>

\* finally: the key leaves the table, whoever's promise it holds by now.
Finish(x) ==
    /\ \/ pc[x] = "resolved" /\ Goto(x, "done")
       \/ pc[x] = "rejected" /\ Goto(x, "failed")
    /\ Delete(arg[x].key)
    /\ timer' = timer \ {x}
    /\ UNCHANGED <<cache, arg, seen, joined, fault, removed>>

\* INFLIGHT_TIMEOUT_MS have passed since the promise was registered.
Timeout(x) ==
    /\ x \in timer
    /\ Delete(arg[x].key)
    /\ timer' = timer \ {x}
    /\ removed' = removed \cup {arg[x].key}
    /\ UNCHANGED <<cache, pc, arg, seen, joined, fault>>

\* An entry expires, or is evicted, deleted or invalidated.
Evict(c, k) ==
    /\ cache[c][k] # None
    /\ cache' = [cache EXCEPT ![c][k] = None]
    /\ UNCHANGED <<table, pc, arg, seen, joined, timer, fault, removed>>

\* The promise the call joined has settled, and its maker has resumed.
Resuming(x) == pc[x] = "wait" /\ pc[joined[x]] \in {"done", "failed"}

Resume(x) == Resuming(x) /\ (Answer(x) \/ Fetch(x))

Step(x) ==
    /\ \A y \in Call : ~Resuming(y)
    /\ \/ Bypass(x) \/ BypassFetchEnds(x) \/ Begin(x) \/ CacheGet(x) \/ Hit(x)
       \/ Join(x) \/ Fetch(x) \/ FetchEnds(x) \/ StoreEnds(x) \/ Finish(x)
       \/ Timeout(x)

Next ==
    \/ \E x \in Call : Resume(x) \/ Step(x)
    \/ \E c \in Cache, k \in Key : Evict(c, k)

Spec == Init /\ [][Next]_vars

\* The event loop runs timers that are due, and resumes the calls whose
\* fetchers and caches answer.
FairSpec ==
    /\ Spec
    /\ \A x \in Call : WF_vars(Timeout(x))
    /\ \A x \in Call \ Hanging :
           WF_vars(\/ BypassFetchEnds(x) \/ CacheGet(x) \/ Hit(x) \/ Join(x)
                   \/ Answer(x) \/ Fetch(x) \/ FetchEnds(x) \/ StoreEnds(x)
                   \/ Finish(x))

-----------------------------------------------------------------------------
(* Properties.                                                             *)

\* Every promise in the table belongs to a call that is still running and
\* will take the key out: the table leaks no entry, and no call joins a
\* promise of a call that is over.
InflightAlive ==
    \A k \in Key : inflight[k] # None =>
        pc[inflight[k]] \in Active /\ arg[inflight[k]].key = k

\* The table never outgrows INFLIGHT_MAX_SIZE, and its order lists exactly
\* the registered keys.
TableBounded ==
    /\ order \in Seq(Key)
    /\ Len(order) <= MaxInflight
    /\ \A k \in Key : (\E i \in 1..Len(order) : order[i] = k) <=> inflight[k] # None

\* Calls with the same key have one fetch between them, unless one of their
\* fetches failed or the table lost their key to a timer or to pruning.
SingleFlight ==
    \A x, y \in Call :
        /\ pc[x] \in Active /\ pc[y] \in Active /\ arg[x].key = arg[y].key
        /\ arg[x].key \notin removed
        /\ \A z \in Call : fault[z] = "fetcher" => arg[z].key # arg[x].key
        => x = y

\* What a cache holds was fetched by a call on this very instance and key,
\* although calls on different instances share promises.
StoresItsOwn ==
    \A c \in Cache, k \in Key :
        cache[c][k] # None => arg[cache[c][k]] = [cache |-> c, key |-> k]

\* No promise stays in the table for ever, even if its fetcher or its cache
\* never answers: later calls get their own try (read-through.ts:18-21).  And a
\* call whose own fetcher and cache answer ends, unless it joined a call that
\* hangs; it fails only if its own cache or fetcher failed, for the failure of a
\* shared promise makes the others fetch for themselves.
NobodyIsStuck ==
    \A x \in Call :
        /\ inflight[arg[x].key] = x ~> inflight[arg[x].key] # x
        /\ x \notin Hanging =>
               (pc[x] = "get" ~>
                   (\/ pc[x] = "done"
                    \/ pc[x] = "failed" /\ fault[x] # "nothing"
                    \/ joined[x] \in Hanging))

=============================================================================
