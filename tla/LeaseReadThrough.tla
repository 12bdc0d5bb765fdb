--------------------------- MODULE LeaseReadThrough ---------------------------
(***************************************************************************)
(* readThroughWithLease() of src/src/read-through.ts: several processes    *)
(* miss the same key of one shared cache, and a lease (LeaseLock, which    *)
(* RedisLease implements) decides whose call fetches.  One key.            *)
(*                                                                         *)
(* Within a process calls share a promise as in ReadThrough; a promise is  *)
(* named by the call that made it, as is the value its fetcher returned    *)
(* and the token it acquires.  (A call acquires at most one lease: it      *)
(* tries again only after a refusal.)  Time is left out: a lease may       *)
(* expire, and a wait end, at any moment.  Calls with ttlMs <= 0 only      *)
(* fetch and are left out.                                                 *)
(***************************************************************************)
EXTENDS FiniteSets

CONSTANTS
    Process, Call, None,
    ProcessOf,      \* per call, the process that makes it
    Throws,         \* the calls with onLeaseTimeout = "throw"
    Hanging,        \* the calls that may stop anywhere, as when a process dies
    WritesInTime    \* does cache.set() end before the renewed lease expires?

ASSUME NoneAssumption == None \notin Call
ASSUME ProcessAssumption == ProcessOf \in [Call -> Process]
ASSUME ThrowsAssumption == Throws \subseteq Call
ASSUME HangingAssumption == Hanging \subseteq Call
ASSUME TimingAssumption == WritesInTime \in BOOLEAN

VARIABLES
    cache,      \* the value stored, or None
    inflight,   \* per process, the promise registered for lease:<key>
    pc, seen, joined,   \* per call, as in ReadThrough
    holder, spent,      \* the lock
    \* history:
    expired,    \* calls at work whose lease has expired
    astray,     \* calls whose acquisition or release met a Redis error
    overtaken   \* calls filling the cache while another call wrote it

lock == <<holder, spent>>
vars == <<cache, inflight, pc, seen, joined, lock, expired, astray, overtaken>>

Lock == INSTANCE LeaseLock WITH Token <- Call, NoToken <- None

Over == {"done", "failed"}
\* Between the second look at the cache and the end of the write.
Filling == {"fetch", "renew", "write"}
\* After a granted acquisition, before the end of the release.
AtWork == {"recheck", "release", "releaseFailing"} \cup Filling
Active == {"acquire", "poll", "acquireAgain", "fallback", "resolved", "rejected"} \cup AtWork

TypeOK ==
    /\ cache \in Call \cup {None}
    /\ inflight \in [Process -> Call \cup {None}]
    /\ pc \in [Call -> {"new", "get", "got", "wait"} \cup Active \cup Over]
    /\ seen \in [Call -> Call \cup {None}]
    /\ joined \in [Call -> Call \cup {None}]
    /\ \A x \in Call : pc[x] = "wait" => joined[x] # None
    /\ holder \in Call \cup {None}
    /\ spent \subseteq Call
    /\ \A x \in Call : x \in spent => pc[x] \in AtWork \cup Over \cup {"resolved", "rejected"}
    /\ expired \subseteq Call /\ astray \subseteq Call /\ overtaken \subseteq Call

Init ==
    /\ cache = None
    /\ inflight = [p \in Process |-> None]
    /\ pc = [x \in Call |-> "new"]
    /\ seen = [x \in Call |-> None]
    /\ joined = [x \in Call |-> None]
    /\ Lock!Init
    /\ expired = {} /\ astray = {} /\ overtaken = {}

Goto(x, l) == pc' = [pc EXCEPT ![x] = l]
Keep(x, v) == seen' = [seen EXCEPT ![x] = v]

Table(x) == inflight[ProcessOf[x]]

-----------------------------------------------------------------------------
(* Mutants.                                                                *)

\* The answer of renew() is not looked at.
RenewUnchecked(x) ==
    /\ pc[x] = "renew"
    /\ Goto(x, "write")
    /\ UNCHANGED <<cache, inflight, seen, joined, lock, expired, astray, overtaken>>

\* No finally: a failing fetcher leaves the lease behind.
FetchEndsNoFinally(x) ==
    /\ pc[x] = "fetch"
    /\ \/ Goto(x, "renew") /\ Keep(x, x)
       \/ Goto(x, "release") /\ UNCHANGED seen
       \/ Goto(x, "rejected") /\ UNCHANGED seen
    /\ UNCHANGED <<cache, inflight, joined, lock, expired, astray, overtaken>>

\* A refusal after the wait always falls back to fetching.
RefusedAgainFetches(x) ==
    /\ pc[x] = "acquireAgain"
    /\ holder # None
    /\ Goto(x, "fallback")
    /\ UNCHANGED <<cache, inflight, seen, joined, lock, expired, astray, overtaken>>

\* A granted lease is taken for a refused one.
GrantedUnseen(x) ==
    /\ pc[x] \in {"acquire", "acquireAgain"}
    /\ Lock!Take(x)
    /\ Goto(x, "poll")
    /\ UNCHANGED <<cache, inflight, seen, joined, expired, astray, overtaken>>

\* A refused call waits for the lease to be free, without a deadline.
PollEndsWhenFree(x) ==
    /\ pc[x] = "poll"
    /\ cache = None
    /\ holder = None
    /\ Goto(x, "acquireAgain")
    /\ UNCHANGED <<cache, inflight, seen, joined, lock, expired, astray, overtaken>>

-----------------------------------------------------------------------------
(* Before the lease: the cache, and the promise of the own process.        *)

Begin(x) ==
    /\ pc[x] = "new"
    /\ Goto(x, "get")
    /\ UNCHANGED <<cache, inflight, seen, joined, lock, expired, astray, overtaken>>

CacheGet(x) ==
    /\ pc[x] = "get"
    /\ \/ Goto(x, "got") /\ Keep(x, cache)
       \/ Goto(x, "failed") /\ UNCHANGED seen
    /\ UNCHANGED <<cache, inflight, joined, lock, expired, astray, overtaken>>

Hit(x) ==
    /\ pc[x] = "got" /\ seen[x] # None
    /\ Goto(x, "done")
    /\ UNCHANGED <<cache, inflight, seen, joined, lock, expired, astray, overtaken>>

Join(x) ==
    /\ pc[x] = "got" /\ seen[x] = None
    /\ Table(x) # None
    /\ joined' = [joined EXCEPT ![x] = Table(x)]
    /\ Goto(x, "wait")
    /\ UNCHANGED <<cache, inflight, seen, lock, expired, astray, overtaken>>

Answer(x) ==
    /\ pc[x] = "wait" /\ pc[joined[x]] = "done"
    /\ Keep(x, seen[joined[x]])
    /\ joined' = [joined EXCEPT ![x] = None]
    /\ Goto(x, "done")
    /\ UNCHANGED <<cache, inflight, lock, expired, astray, overtaken>>

\* Register a promise of its own and ask for the lease.
Start(x) ==
    /\ \/ pc[x] = "got" /\ seen[x] = None /\ Table(x) = None
       \/ pc[x] = "wait" /\ pc[joined[x]] = "failed"
    /\ inflight' = [inflight EXCEPT ![ProcessOf[x]] = x]
    /\ joined' = [joined EXCEPT ![x] = None]
    /\ Goto(x, "acquire")
    /\ UNCHANGED <<cache, seen, lock, expired, astray, overtaken>>

\* finally
Finish(x) ==
    /\ \/ pc[x] = "resolved" /\ Goto(x, "done")
       \/ pc[x] = "rejected" /\ Goto(x, "failed")
    /\ inflight' = [inflight EXCEPT ![ProcessOf[x]] = None]
    /\ UNCHANGED <<cache, seen, joined, lock, expired, astray, overtaken>>

\* The timer, or the pruning by calls of other keys.
Drop(p) ==
    /\ inflight[p] # None
    /\ inflight' = [inflight EXCEPT ![p] = None]
    /\ UNCHANGED <<cache, pc, seen, joined, lock, expired, astray, overtaken>>

-----------------------------------------------------------------------------
(* Acquiring and waiting.                                                  *)

Granted(x) ==
    /\ pc[x] \in {"acquire", "acquireAgain"}
    /\ Lock!Take(x)
    /\ Goto(x, "recheck")
    /\ UNCHANGED <<cache, inflight, seen, joined, expired, astray, overtaken>>

Refused(x) ==
    /\ pc[x] = "acquire"
    /\ holder # None
    /\ Goto(x, "poll")
    /\ UNCHANGED <<cache, inflight, seen, joined, lock, expired, astray, overtaken>>

\* acquireLease() throws, whether or not Redis executed the command.
AcquireFails(x) ==
    /\ pc[x] \in {"acquire", "acquireAgain"}
    /\ Lock!Take(x) \/ UNCHANGED lock
    /\ Goto(x, "rejected")
    /\ astray' = astray \cup {x}
    /\ UNCHANGED <<cache, inflight, seen, joined, expired, overtaken>>

\* One look of waitForCachedValue() that finds the value, or that throws.
PollHits(x) ==
    /\ pc[x] = "poll"
    /\ cache # None
    /\ Goto(x, "resolved")
    /\ Keep(x, cache)
    /\ UNCHANGED <<cache, inflight, joined, lock, expired, astray, overtaken>>

PollFails(x) ==
    /\ pc[x] = "poll"
    /\ Goto(x, "rejected")
    /\ UNCHANGED <<cache, inflight, seen, joined, lock, expired, astray, overtaken>>

\* The last look of waitForCachedValue() finds nothing.
PollEnds(x) ==
    /\ pc[x] = "poll"
    /\ cache = None
    /\ Goto(x, "acquireAgain")
    /\ UNCHANGED <<cache, inflight, seen, joined, lock, expired, astray, overtaken>>

RefusedAgain(x) ==
    /\ pc[x] = "acquireAgain"
    /\ holder # None
    /\ Goto(x, IF x \in Throws THEN "rejected" ELSE "fallback")
    /\ UNCHANGED <<cache, inflight, seen, joined, lock, expired, astray, overtaken>>

FallbackEnds(x) ==
    /\ pc[x] = "fallback"
    /\ \/ Goto(x, "resolved") /\ \E v \in {x, None} : Keep(x, v)
       \/ Goto(x, "rejected") /\ UNCHANGED seen
    /\ UNCHANGED <<cache, inflight, joined, lock, expired, astray, overtaken>>

-----------------------------------------------------------------------------
(* With the lease: writeFreshIfOwned() and the release in finally.         *)

\* The second look at the cache; on a miss the fetcher is called.
Recheck(x) ==
    /\ pc[x] = "recheck"
    /\ \/ cache # None /\ Goto(x, "release") /\ Keep(x, cache) /\ UNCHANGED overtaken
       \/ cache = None /\ Goto(x, "fetch") /\ overtaken' = overtaken \ {x} /\ UNCHANGED seen
       \/ Goto(x, "releaseFailing") /\ UNCHANGED <<seen, overtaken>>
    /\ UNCHANGED <<cache, inflight, joined, lock, expired, astray>>

FetchEnds(x) ==
    /\ pc[x] = "fetch"
    /\ \/ Goto(x, "renew") /\ Keep(x, x)
       \/ Goto(x, "release") /\ UNCHANGED seen          \* undefined
       \/ Goto(x, "releaseFailing") /\ UNCHANGED seen
    /\ UNCHANGED <<cache, inflight, joined, lock, expired, astray, overtaken>>

\* renew() answers whether the lease is still the call's own; an error is
\* swallowed and nothing is written.
Renew(x) ==
    /\ pc[x] = "renew"
    /\ \/ holder = x /\ Goto(x, "write")
       \/ Goto(x, "release")
    /\ UNCHANGED <<cache, inflight, seen, joined, lock, expired, astray, overtaken>>

\* cache.set(), which may fail; the error is swallowed.
Write(x) ==
    /\ pc[x] = "write"
    /\ \/ /\ cache' = seen[x]
          /\ overtaken' = overtaken \cup {y \in Call \ {x} : pc[y] \in Filling}
       \/ UNCHANGED <<cache, overtaken>>
    /\ Goto(x, "release")
    /\ UNCHANGED <<inflight, seen, joined, lock, expired, astray>>

\* release() frees the lease if it is still the call's own; errors are
\* swallowed, and then the lease may or may not be free.
Release(x) ==
    /\ \/ pc[x] = "release" /\ Goto(x, "resolved")
       \/ pc[x] = "releaseFailing" /\ Goto(x, "rejected")
    /\ \/ holder = x /\ Lock!Lose /\ UNCHANGED astray
       \/ holder # x /\ UNCHANGED <<lock, astray>>
       \/ astray' = astray \cup {x} /\ UNCHANGED lock
    /\ expired' = expired \ {x}
    /\ overtaken' = overtaken \ {x}
    /\ UNCHANGED <<cache, inflight, seen, joined>>

-----------------------------------------------------------------------------
(* The environment.                                                        *)

\* The lease expires in Redis.
Expire ==
    /\ Lock!Lose
    /\ WritesInTime => pc[holder] # "write"
    /\ expired' = IF pc[holder] \in AtWork THEN expired \cup {holder} ELSE expired
    /\ UNCHANGED <<cache, inflight, pc, seen, joined, astray, overtaken>>

\* The cache entry expires or is deleted.
Evict ==
    /\ cache # None
    /\ cache' = None
    /\ UNCHANGED <<inflight, pc, seen, joined, lock, expired, astray, overtaken>>

\* As in ReadThrough, the calls that joined a promise resume right after the
\* call that made it.
Resuming(x) == pc[x] = "wait" /\ pc[joined[x]] \in {"done", "failed"}

Resume(x) == Resuming(x) /\ (Answer(x) \/ Start(x))

Progress(x) ==
    \/ CacheGet(x) \/ Hit(x) \/ Join(x) \/ Start(x) \/ Finish(x)
    \/ Granted(x) \/ Refused(x) \/ AcquireFails(x) \/ PollHits(x) \/ PollEnds(x)
    \/ RefusedAgain(x) \/ FallbackEnds(x)
    \/ Recheck(x) \/ FetchEnds(x) \/ Renew(x) \/ Write(x) \/ Release(x)

Step(x) ==
    /\ \A y \in Call : ProcessOf[y] = ProcessOf[x] => ~Resuming(y)
    /\ Begin(x) \/ Progress(x) \/ PollFails(x)

Next ==
    \/ \E x \in Call : Resume(x) \/ Step(x)
    \/ \E p \in Process : Drop(p)
    \/ Expire
    \/ Evict

Spec == Init /\ [][Next]_vars

\* Caches, Redis and fetchers answer or fail; the wait for the owner ends when
\* its time is up, and need not be ended by a failing cache.
FairSpec == Spec /\ \A x \in Call \ Hanging : WF_vars(Progress(x) \/ Answer(x))

-----------------------------------------------------------------------------
(* Properties.                                                             *)

\* If a write ends before the lease renewed for it expires, no write of
\* another call lies between a call's second look at the cache and its own
\* write: no call puts an older value over a newer one.
NoOvertakenWrite ==
    WritesInTime => \A x \in Call : pc[x] = "write" => x \notin overtaken

\* A call that is over has given its lease back, unless Redis failed to
\* answer its acquisition or its release.
LeaseReturned ==
    \A x \in Call :
        holder = x /\ x \notin astray => pc[x] \in AtWork

\* Among calls that want duplicate fetches rejected (onLeaseTimeout = "throw",
\* README.md:135-137) two fetch at the same time only if the lease expired
\* under one of them.
FetchersExclude ==
    \A x, y \in Throws :
        x # y /\ pc[x] \in {"fetch", "fallback"} /\ pc[y] \in {"fetch", "fallback"}
        => x \in expired \/ y \in expired

\* A call ends although the lease's owner died or hangs, unless it joined one
\* that hangs in its own process: after any state there is one in which all
\* calls that have begun have ended, these excepted.
CallsEnd ==
    []<>(\A x \in Call \ Hanging : pc[x] \in {"new"} \cup Over \/ joined[x] \in Hanging)

=============================================================================
