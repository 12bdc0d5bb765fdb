-------------------------- MODULE FunctionCacheProofs --------------------------
(***************************************************************************)
(* Theorems about FunctionCache, for every set of keys, calls, sweeps,     *)
(* invalidations and entries and every interval of pruning.                *)
(***************************************************************************)
EXTENDS FunctionCache, TLAPS

-----------------------------------------------------------------------------
(* The invariants.                                                         *)

\* A call that is under way has a key and an owner, one that waits a promise.
Placed ==
    \A x \in Call :
        /\ pc[x] \notin {"new", "failed"} => key[x] \in Key /\ owner[x] \in Owner
        /\ pc[x] = "wait" => joined[x] \in Call

\* The tables hold promises that are active, of their own owner and key.
InflightAlive ==
    \A o \in Owner, k \in Key : inflight[o][k] # None =>
        LET y == inflight[o][k] IN pc[y] \in Active /\ owner[y] = o /\ key[y] = k

\* The strengthening of SingleExecution: unless a fetch of its owner and key
\* has failed, the promise of an active call is the one in the table. (Two
\* active calls would both be it.)
Listed ==
    \A x \in Call : pc[x] \in Active /\ <<owner[x], key[x]>> \notin failed =>
        inflight[owner[x]][key[x]] = x

\* Whoever waits for a promise waits for one of its own owner and key, which
\* is rejected only if a fetch of theirs has failed.
WaitsForOwn ==
    /\ \A x \in Call : pc[x] = "rejected" => <<owner[x], key[x]>> \in failed
    /\ \A x \in Call : pc[x] = "wait" =>
           LET y == joined[x] IN
           /\ owner[y] = owner[x] /\ key[y] = key[x]
           /\ pc[y] \in Active \cup {"done", "failed"}
           /\ pc[y] = "failed" => <<owner[x], key[x]>> \in failed

TableInv == InflightAlive /\ Listed /\ WaitsForOwn

\* A stored value was stored under the key of the call that fetched it.
StoredUnderKey ==
    \A k \in Key : cache[k] # None =>
        /\ key[cache[k]] = k
        /\ pc[cache[k]] \in {"stored", "prune", "resolved", "done"}

\* What is still untracked: the entry of a call that has yet to enter its key
\* into knownKeys.
Untracked(k) == pc[cache[k]] = "stored"

\* A key that is about to be taken out of knownKeys has no entry that would
\* be lost by that, but for those that have escaped.
RemovalsSafe ==
    \A k \in Key : Removing(k) /\ Own(k) /\ ~Untracked(k) => k \in escaped

\* What a sweep owes was tracked when it began, and has not been written since.
OwedSettled ==
    \A s \in Sweep, x \in Call : pc[x] = "stored" => key[x] \notin owed[s]

-----------------------------------------------------------------------------
(* Types, and where a call under way is.                                   *)

LEMMA TypeInit == Init => TypeOK /\ Placed
  BY IntervalAssumption DEF Init, TypeOK, Placed

\* The parts of TypeOK.
Label == {"new", "get", "got", "wait", "sweep", "del", "deleted", "done", "failed"} \cup Active

ControlOK ==
    /\ pc \in [Call \cup Op -> Label]
    /\ todo \in [Pruner -> SUBSET Key]
    /\ absent \in [Pruner -> Key \cup {None}]
    /\ \A p \in Pruner : absent[p] # None => pc[p] = "prune"

CallsOK ==
    /\ key \in [Call \cup Invalidation -> Key \cup {None}]
    /\ owner \in [Call -> Owner \cup {None}]
    /\ seen \in [Call -> Call \cup {None}]
    /\ joined \in [Call -> Call \cup {None}]

TablesOK ==
    /\ cache \in [Key -> Call \cup {None}]
    /\ inflight \in [Owner -> [Key -> Call \cup {None}]]
    /\ registered \in used \cup {None}
    /\ used \subseteq Entry
    /\ failed \subseteq Owner \X Key

TrackingOK ==
    /\ known \subseteq Key
    /\ writes \in 0 .. PruneInterval - 1
    /\ visited \in [Sweep -> SUBSET known]
    /\ escaped \subseteq Key
    /\ owed \in [Sweep -> SUBSET Key]

LEMMA TypeParts == TypeOK <=> ControlOK /\ CallsOK /\ TablesOK /\ TrackingOK
  BY DEF TypeOK, ControlOK, CallsOK, TablesOK, TrackingOK, Label

LEMMA TypePartsNext == TypeOK' <=> ControlOK' /\ CallsOK' /\ TablesOK' /\ TrackingOK'
  BY DEF TypeOK, ControlOK, CallsOK, TablesOK, TrackingOK, Label

\* What is not pruning may go anywhere.
LEMMA GotoType ==
    ASSUME ControlOK, NEW p \in Call \cup Op, NEW l \in Label,
           pc[p] # "prune" \/ absent[p] = None, Goto(p, l), UNCHANGED pruning
    PROVE  ControlOK'
  BY DEF ControlOK, Goto, pruning, Pruner, Op

LEMMA BeginType ==
    ASSUME TypeOK, NEW x \in Call, NEW k \in Key, Begin(x, k) \/ Execute(x, k)
    PROVE  TypeOK'
<1>0. ControlOK /\ CallsOK /\ TablesOK /\ TrackingOK
  BY TypeParts
<1>1. UNCHANGED <<cache, inflight, registry, tracking, pruning, seen, joined, failed, owed>>
  BY DEF Begin, Execute
<1>2. TablesOK' /\ TrackingOK'
  BY <1>0, <1>1 DEF TablesOK, TrackingOK, registry, tracking
<1>3. ControlOK'
  <2>1. pc[x] = "new" /\ (Goto(x, "get") \/ Goto(x, "failed"))
    BY DEF Begin, Execute
  <2> QED BY <1>0, <1>1, <2>1, GotoType DEF Label
<1>4. CallsOK'
  <2>1. Wrapped \in Owner
    BY DEF Owner
  <2>2. registered # None => registered \in Owner
    BY <1>0 DEF TablesOK, Owner
  <2>3. /\ key' \in {key, [key EXCEPT ![x] = k]}
        /\ \/ owner' = owner
           \/ owner' = [owner EXCEPT ![x] = Wrapped]
           \/ registered # None /\ owner' = [owner EXCEPT ![x] = registered]
    BY DEF Begin, Execute
  <2> QED BY <1>0, <1>1, <2>1, <2>2, <2>3 DEF CallsOK
<1> QED BY <1>2, <1>3, <1>4, TypePartsNext

LEMMA LookupType ==
    ASSUME TypeOK, Placed, NEW x \in Call,
           CacheGet(x) \/ Hit(x) \/ Join(x) \/ Answer(x) \/ Fetch(x)
    PROVE  TypeOK'
<1>0. ControlOK /\ CallsOK /\ TablesOK /\ TrackingOK
  BY TypeParts
<1>1. TrackingOK'
  BY <1>0 DEF CacheGet, Hit, Join, Answer, Fetch, TrackingOK, tracking
<1>2. ControlOK'
  <2>1. /\ pc[x] \in {"get", "got", "wait"} /\ UNCHANGED pruning
        /\ Goto(x, "got") \/ Goto(x, "failed") \/ Goto(x, "done") \/ Goto(x, "wait") \/ Goto(x, "fetch")
    BY DEF CacheGet, Hit, Join, Answer, Fetch, MustFetch
  <2> QED BY <1>0, <2>1, GotoType DEF Label, Active
<1>3. TablesOK'
  <2>1. /\ UNCHANGED <<cache, registry, failed>>
        /\ inflight' \in {inflight, [inflight EXCEPT ![owner[x]][key[x]] = x]}
    BY DEF CacheGet, Hit, Join, Answer, Fetch
  <2> QED BY <1>0, <2>1 DEF TablesOK, registry
<1>4. CallsOK'
  <2>1. pc[x] \in {"get", "got", "wait"}
    BY DEF CacheGet, Hit, Join, Answer, Fetch, MustFetch
  <2>2. key[x] \in Key /\ owner[x] \in Owner
    BY <2>1 DEF Placed
  <2>3. UNCHANGED <<key, owner>>
    BY DEF CacheGet, Hit, Join, Answer, Fetch, call
  <2>4. CASE CacheGet(x)
    <3>1. seen' \in {seen, [seen EXCEPT ![x] = cache[key[x]]]} /\ joined' = joined
      BY <2>4 DEF CacheGet
    <3>2. cache[key[x]] \in Call \cup {None}
      BY <1>0, <2>2 DEF TablesOK
    <3> QED BY <1>0, <2>3, <3>1, <3>2 DEF CallsOK
  <2>5. CASE Join(x)
    <3>1. joined' = [joined EXCEPT ![x] = inflight[owner[x]][key[x]]] /\ seen' = seen
      BY <2>5 DEF Join, Registered
    <3>2. inflight[owner[x]][key[x]] \in Call \cup {None}
      BY <1>0, <2>2 DEF TablesOK
    <3> QED BY <1>0, <2>3, <3>1, <3>2 DEF CallsOK
  <2>6. CASE Answer(x)
    <3>1. seen' = [seen EXCEPT ![x] = seen[joined[x]]] /\ joined' = joined
      BY <2>6 DEF Answer
    <3>2. joined[x] \in Call
      BY <2>6 DEF Answer, Placed
    <3> QED BY <1>0, <2>3, <3>1, <3>2 DEF CallsOK
  <2>7. CASE Hit(x) \/ Fetch(x)
    BY <1>0, <2>7 DEF Hit, Fetch, CallsOK, call
  <2> QED BY <2>4, <2>5, <2>6, <2>7
<1> QED BY <1>1, <1>2, <1>3, <1>4, TypePartsNext

LEMMA StoreType ==
    ASSUME TypeOK, NEW x \in Call, Store(key[x], x) \/ UNCHANGED <<cache, owed>>
    PROVE  /\ cache' \in [Key -> Call \cup {None}]
           /\ owed' \in [Sweep -> SUBSET Key]
  BY DEF Store, TypeOK

LEMMA FetchType ==
    ASSUME TypeOK, Placed, NEW x \in Call,
           FetchEnds(x) \/ StoreEnds(x) \/ StoreFails(x) \/ ManagedStoreEnds(x) \/ Settle(x)
    PROVE  TypeOK'
<1>0. ControlOK /\ CallsOK /\ TablesOK /\ TrackingOK
  BY TypeParts
<1>1. ControlOK'
  <2>1. /\ pc[x] \in {"fetch", "store", "resolved", "rejected"} /\ UNCHANGED pruning
        /\ \/ Goto(x, "store") \/ Goto(x, "stored") \/ Goto(x, "resolved") \/ Goto(x, "rejected")
           \/ Goto(x, "done") \/ Goto(x, "failed")
    BY DEF FetchEnds, StoreEnds, StoreFails, ManagedStoreEnds, Settle, Goto
  <2> QED BY <1>0, <2>1, GotoType DEF Label, Active
<1>2. key[x] \in Key /\ owner[x] \in Owner
  BY DEF FetchEnds, StoreEnds, StoreFails, ManagedStoreEnds, Settle, Placed
<1>3. CallsOK'
  <2>1. UNCHANGED <<key, owner, joined>> /\ seen' \in {seen, [seen EXCEPT ![x] = x]}
    BY DEF FetchEnds, StoreEnds, StoreFails, ManagedStoreEnds, Settle, call
  <2> QED BY <1>0, <2>1 DEF CallsOK
<1>4. cache' \in [Key -> Call \cup {None}] /\ owed' \in [Sweep -> SUBSET Key]
  <2>1. Store(key[x], x) \/ UNCHANGED <<cache, owed>>
    BY DEF FetchEnds, StoreEnds, StoreFails, ManagedStoreEnds, Settle
  <2> QED BY <2>1, StoreType
<1>5. TablesOK'
  <2>1. /\ UNCHANGED registry
        /\ failed' \in {failed, failed \cup {<<owner[x], key[x]>>}}
        /\ inflight' \in {inflight, [inflight EXCEPT ![owner[x]][key[x]] = None]}
    BY DEF FetchEnds, StoreEnds, StoreFails, ManagedStoreEnds, Settle
  <2> QED BY <1>0, <1>2, <1>4, <2>1 DEF TablesOK, registry
<1>6. TrackingOK'
  <2>1. UNCHANGED <<known, writes, visited>> /\ escaped' \in {escaped, escaped \cup {key[x]}}
    BY DEF FetchEnds, StoreEnds, StoreFails, ManagedStoreEnds, Settle, tracking
  <2> QED BY <1>0, <1>2, <1>4, <2>1 DEF TrackingOK
<1> QED BY <1>1, <1>3, <1>5, <1>6, TypePartsNext

LEMMA TrackType ==
    ASSUME TypeOK, Placed, NEW x \in Call, Track(x)
    PROVE  TypeOK'
<1>0. ControlOK /\ CallsOK /\ TablesOK /\ TrackingOK
  BY TypeParts
<1>1. /\ pc[x] = "stored" /\ known' = known \cup {key[x]}
      /\ escaped' \in {escaped \cup {key[x]}, escaped \ {key[x]}}
      /\ UNCHANGED <<cache, inflight, registry, visited, absent, call, failed, owed>>
  BY DEF Track
<1>2. key[x] \in Key /\ x \in Pruner /\ x \in Call \cup Op
  BY <1>1 DEF Placed, Pruner
<1>3. \/ writes + 1 < PruneInterval /\ writes' = writes + 1 /\ todo' = todo
         /\ pc' = [pc EXCEPT ![x] = "resolved"]
      \/ writes' = 0 /\ todo' = [todo EXCEPT ![x] = known']
         /\ pc' = [pc EXCEPT ![x] = "prune"]
  BY DEF Track, Goto
<1>4. known' \subseteq Key
  BY <1>0, <1>1, <1>2 DEF TrackingOK
<1>5. TrackingOK'
  <2>1. writes' \in 0 .. PruneInterval - 1
    BY <1>0, <1>3, IntervalAssumption DEF TrackingOK
  <2>2. visited' \in [Sweep -> SUBSET known']
    BY <1>0, <1>1 DEF TrackingOK
  <2> QED BY <1>0, <1>1, <1>2, <1>4, <2>1, <2>2 DEF TrackingOK
<1>6. ControlOK'
  <2>1. todo' \in [Pruner -> SUBSET Key]
    BY <1>0, <1>2, <1>3, <1>4 DEF ControlOK
  <2>2. pc' \in [Call \cup Op -> Label]
    BY <1>0, <1>2, <1>3 DEF ControlOK, Label, Active
  <2>3. \A p \in Pruner : absent'[p] # None => pc'[p] = "prune"
    BY <1>0, <1>1, <1>3 DEF ControlOK, Pruner, Op
  <2> QED BY <1>0, <1>1, <2>1, <2>2, <2>3 DEF ControlOK
<1>7. CallsOK' /\ TablesOK'
  BY <1>0, <1>1 DEF CallsOK, TablesOK, call, registry
<1> QED BY <1>5, <1>6, <1>7, TypePartsNext

LEMMA PruneType ==
    ASSUME TypeOK, NEW p \in Pruner, Prune(p)
    PROVE  TypeOK'
<1>0. ControlOK /\ CallsOK /\ TablesOK /\ TrackingOK /\ p \in Call \cup Op
  BY TypeParts DEF Pruner, Op
<1>1. CallsOK' /\ TablesOK'
  BY <1>0 DEF Prune, PruneLook, PruneForget, PruneEnds, CallsOK, TablesOK, call, registry
<1>2. ControlOK'
  <2>1. CASE PruneLook(p)
    <3>1. PICK k \in todo[p] :
            /\ todo' = [todo EXCEPT ![p] = todo[p] \ {k}]
            /\ absent' \in {absent, [absent EXCEPT ![p] = k]}
      BY <2>1 DEF PruneLook
    <3>2. pc[p] = "prune" /\ pc' = pc
      BY <2>1 DEF PruneLook
    <3>3. k \in Key
      BY <1>0 DEF ControlOK
    <3> QED BY <1>0, <3>1, <3>2, <3>3 DEF ControlOK
  <2>2. CASE PruneForget(p)
    BY <1>0, <2>2 DEF PruneForget, ControlOK
  <2>3. CASE PruneEnds(p)
    <3>1. /\ absent[p] = None /\ UNCHANGED pruning
          /\ Goto(p, "sweep") \/ Goto(p, "resolved")
      BY <2>3 DEF PruneEnds
    <3> QED BY <1>0, <3>1, GotoType DEF Label, Active
  <2> QED BY <2>1, <2>2, <2>3 DEF Prune
<1>3. TrackingOK'
  <2>1. CASE UNCHANGED <<tracking, owed>>
    BY <1>0, <2>1 DEF TrackingOK, tracking
  <2>2. CASE PruneForget(p)
    BY <1>0, <2>2 DEF PruneForget, Forget, TrackingOK
  <2> QED BY <2>1, <2>2 DEF Prune, PruneLook, PruneEnds
<1> QED BY <1>1, <1>2, <1>3, TypePartsNext

LEMMA SweepType ==
    ASSUME TypeOK, NEW s \in Sweep, InvalidateAll(s) \/ SweepDel(s) \/ SweepClear(s)
    PROVE  TypeOK'
<1>0. /\ ControlOK /\ CallsOK /\ TablesOK /\ TrackingOK
      /\ s \in Call \cup Op /\ s \in Pruner
  BY TypeParts DEF Pruner, Op
<1>1. CASE InvalidateAll(s)
  <2>1. /\ pc[s] = "new" /\ pc' = [pc EXCEPT ![s] = "prune"]
        /\ todo' = [todo EXCEPT ![s] = known]
        /\ UNCHANGED <<cache, inflight, registry, tracking, absent, call, failed>>
    BY <1>1 DEF InvalidateAll, Goto
  <2>2. ControlOK'
    BY <1>0, <2>1 DEF ControlOK, TrackingOK, Label, Active
  <2>3. owed' \in [Sweep -> SUBSET Key]
    BY <1>0, <1>1 DEF InvalidateAll, TrackingOK
  <2> QED BY <1>0, <2>1, <2>2, <2>3, TypePartsNext
          DEF TrackingOK, CallsOK, TablesOK, tracking, call, registry
<1>2. CASE SweepDel(s)
  <2>1. PICK k \in known \ visited[s] :
          /\ visited' = [visited EXCEPT ![s] = visited[s] \cup {k}]
          /\ \/ cache' = [cache EXCEPT ![k] = None] /\ UNCHANGED escaped
             \/ escaped' = escaped \cup {k} /\ UNCHANGED cache
    BY <1>2 DEF SweepDel, Delete
  <2>2. UNCHANGED <<inflight, registry, known, writes, pruning, call, pc, failed, owed>>
    BY <1>2 DEF SweepDel
  <2>3. TrackingOK' /\ TablesOK'
    BY <1>0, <2>1, <2>2 DEF TrackingOK, TablesOK, registry
  <2>4. ControlOK' /\ CallsOK'
    BY <1>0, <2>2 DEF ControlOK, CallsOK, pruning, call
  <2> QED BY <2>3, <2>4, TypePartsNext
<1>3. CASE SweepClear(s)
  <2>1. /\ pc[s] = "sweep" /\ Goto(s, "done")
        /\ known' = {} /\ visited' = [t \in Sweep |-> {}]
        /\ UNCHANGED <<cache, inflight, registry, writes, escaped, pruning, call, failed, owed>>
    BY <1>3 DEF SweepClear
  <2>2. ControlOK'
    BY <1>0, <2>1, GotoType DEF Label
  <2>3. TrackingOK' /\ TablesOK' /\ CallsOK'
    BY <1>0, <2>1 DEF TrackingOK, TablesOK, CallsOK, registry, call
  <2> QED BY <2>2, <2>3, TypePartsNext
<1> QED BY <1>1, <1>2, <1>3

LEMMA InvalidationType ==
    ASSUME TypeOK, NEW i \in Invalidation,
           InvalidateForget(i) \/ \E k \in Key : InvalidateDel(i, k)
    PROVE  TypeOK'
<1>0. /\ ControlOK /\ CallsOK /\ TablesOK /\ TrackingOK
      /\ i \in Call \cup Op
  BY TypeParts DEF Op
<1>1. ControlOK'
  <2>1. /\ pc[i] \in {"new", "deleted"} /\ UNCHANGED pruning
        /\ Goto(i, "deleted") \/ Goto(i, "failed") \/ Goto(i, "done")
    BY DEF InvalidateForget, InvalidateDel, Goto
  <2> QED BY <1>0, <2>1, GotoType DEF Label
<1>2. CASE InvalidateForget(i)
  <2>1. /\ Forget(key[i])
        /\ UNCHANGED <<cache, inflight, registry, writes, escaped, call, failed, owed>>
    BY <1>2 DEF InvalidateForget
  <2>2. TrackingOK'
    BY <1>0, <2>1 DEF Forget, TrackingOK
  <2>3. TablesOK' /\ CallsOK'
    BY <1>0, <2>1 DEF TablesOK, CallsOK, registry, call
  <2> QED BY <1>1, <2>2, <2>3, TypePartsNext
<1>3. ASSUME NEW k \in Key, InvalidateDel(i, k) PROVE TypeOK'
  <2>1. /\ key' = [key EXCEPT ![i] = k]
        /\ cache' \in {cache, [cache EXCEPT ![k] = None]}
        /\ UNCHANGED <<inflight, registry, tracking, owner, seen, joined, failed, owed>>
    BY <1>3 DEF InvalidateDel, Delete
  <2>2. TrackingOK' /\ TablesOK' /\ CallsOK'
    BY <1>0, <2>1 DEF TrackingOK, TablesOK, CallsOK, tracking, registry
  <2> QED BY <1>1, <2>2, TypePartsNext
<1> QED BY <1>2, <1>3

LEMMA RegistryType ==
    ASSUME TypeOK,
           \/ \E e \in Entry : Register(e)
           \/ Unregister
           \/ \E k \in Key : Evict(k)
    PROVE  TypeOK'
<1>0. ControlOK /\ CallsOK /\ TablesOK /\ TrackingOK
  BY TypeParts
<1>1. ControlOK' /\ CallsOK' /\ TrackingOK'
  BY <1>0 DEF Register, Unregister, Evict, ControlOK, CallsOK, TrackingOK,
              tracking, pruning, call
<1>2. TablesOK'
  BY <1>0 DEF Register, Unregister, Evict, Delete, TablesOK, registry
<1> QED BY <1>1, <1>2, TypePartsNext

LEMMA TypeStep == TypeOK /\ Placed /\ [Next]_vars => TypeOK'
<1> SUFFICES ASSUME TypeOK, Placed, [Next]_vars PROVE TypeOK'
  OBVIOUS
<1>1. CASE UNCHANGED vars
  BY <1>1 DEF TypeOK, vars, registry, tracking, pruning, call
<1> QED BY <1>1, BeginType, LookupType, FetchType, TrackType, PruneType, SweepType,
           InvalidationType, RegistryType DEF Next, Resume, Progress

\* The steps of a call.
Moves(x) ==
    \/ \E k \in Key : Begin(x, k) \/ Execute(x, k)
    \/ Progress(x) \/ Answer(x) \/ PruneEnds(x)

Still(x) == pc'[x] = pc[x] /\ key'[x] = key[x] /\ owner'[x] = owner[x] /\ joined'[x] = joined[x]

\* Where a call is and what it works on is nobody else's business.
LEMMA CallStep ==
    ASSUME TypeOK, [Next]_vars, NEW x \in Call
    PROVE  Moves(x) \/ Still(x)
<1>0. /\ pc \in [Call \cup Op -> Label]
      /\ key \in [Call \cup Invalidation -> Key \cup {None}]
      /\ owner \in [Call -> Owner \cup {None}]
      /\ joined \in [Call -> Call \cup {None}]
  BY TypeParts DEF ControlOK, CallsOK
<1>1. ASSUME NEW y \in Call, NEW k \in Key, Begin(y, k) \/ Execute(y, k)
      PROVE  Moves(x) \/ Still(x)
  <2>1. CASE y = x
    BY <1>1, <2>1 DEF Moves
  <2>2. CASE y # x
    <3>1. /\ pc' \in {[pc EXCEPT ![y] = "get"], [pc EXCEPT ![y] = "failed"]}
          /\ key' \in {key, [key EXCEPT ![y] = k]}
          /\ owner' \in {owner, [owner EXCEPT ![y] = Wrapped], [owner EXCEPT ![y] = registered]}
          /\ joined' = joined
      BY <1>1 DEF Begin, Execute, Goto
    <3> QED BY <1>0, <2>2, <3>1 DEF Still
  <2> QED BY <2>1, <2>2
<1>2. ASSUME NEW y \in Call, Progress(y) \/ Answer(y)
      PROVE  Moves(x) \/ Still(x)
  <2>1. CASE y = x
    BY <1>2, <2>1 DEF Moves
  <2>2. CASE y # x
    <3>1. PICK l : pc' = [pc EXCEPT ![y] = l]
      BY <1>2 DEF Progress, CacheGet, Hit, Join, Fetch, FetchEnds, StoreEnds, StoreFails,
                  ManagedStoreEnds, Track, Settle, Answer, Goto
    <3>2. /\ UNCHANGED <<key, owner>>
          /\ joined' \in {joined, [joined EXCEPT ![y] = Registered(y)]}
      BY <1>2 DEF Progress, CacheGet, Hit, Join, Fetch, FetchEnds, StoreEnds, StoreFails,
                  ManagedStoreEnds, Track, Settle, Answer, call
    <3> QED BY <1>0, <2>2, <3>1, <3>2 DEF Still
  <2> QED BY <2>1, <2>2
<1>3. ASSUME NEW p \in Pruner, Prune(p)
      PROVE  Moves(x) \/ Still(x)
  <2>1. CASE PruneLook(p) \/ PruneForget(p)
    BY <2>1 DEF PruneLook, PruneForget, Still, call
  <2>2. CASE PruneEnds(p) /\ p = x
    BY <2>2 DEF Moves
  <2>3. CASE PruneEnds(p) /\ p # x
    <3>1. PICK l : pc' = [pc EXCEPT ![p] = l]
      BY <2>3 DEF PruneEnds, Goto
    <3>2. UNCHANGED call
      BY <2>3 DEF PruneEnds
    <3> QED BY <1>0, <2>3, <3>1, <3>2 DEF Still, call
  <2> QED BY <1>3, <2>1, <2>2, <2>3 DEF Prune
<1>4. ASSUME NEW s \in Sweep, InvalidateAll(s) \/ SweepDel(s) \/ SweepClear(s)
      PROVE  Still(x)
  <2>1. s # x /\ UNCHANGED call
    BY <1>4, OpAssumption DEF InvalidateAll, SweepDel, SweepClear, Op
  <2>2. pc' \in {pc, [pc EXCEPT ![s] = "prune"], [pc EXCEPT ![s] = "done"]}
    BY <1>4 DEF InvalidateAll, SweepDel, SweepClear, Goto
  <2> QED BY <1>0, <2>1, <2>2 DEF Still, call
<1>5. ASSUME NEW i \in Invalidation, NEW k \in Key, InvalidateDel(i, k)
      PROVE  Still(x)
  <2>1. i # x /\ UNCHANGED <<owner, joined>> /\ key' = [key EXCEPT ![i] = k]
    BY <1>5, OpAssumption DEF InvalidateDel, Op
  <2>2. pc' \in {[pc EXCEPT ![i] = "deleted"], [pc EXCEPT ![i] = "failed"]}
    BY <1>5 DEF InvalidateDel, Goto
  <2> QED BY <1>0, <2>1, <2>2 DEF Still
<1>6. ASSUME NEW i \in Invalidation, InvalidateForget(i)
      PROVE  Still(x)
  <2>1. i # x /\ UNCHANGED call /\ pc' = [pc EXCEPT ![i] = "done"]
    BY <1>6, OpAssumption DEF InvalidateForget, Op, Goto
  <2> QED BY <1>0, <2>1 DEF Still, call
<1>7. CASE \/ \E e \in Entry : Register(e)
           \/ Unregister
           \/ \E k \in Key : Evict(k)
           \/ UNCHANGED vars
  BY <1>7 DEF Register, Unregister, Evict, vars, call, Still
<1> QED BY <1>1, <1>2, <1>3, <1>4, <1>5, <1>6, <1>7 DEF Next, Resume, Progress

\* A call that has begun keeps its key and its owner, and does not begin again.
LEMMA BegunStep ==
    ASSUME TypeOK, [Next]_vars, NEW x \in Call, pc[x] # "new"
    PROVE  pc'[x] # "new" /\ key'[x] = key[x] /\ owner'[x] = owner[x]
<1>0. /\ pc \in [Call \cup Op -> Label]
      /\ x \in Call \cup Op
  BY TypeParts DEF ControlOK
<1>1. CASE \E k \in Key : Begin(x, k) \/ Execute(x, k)
  BY <1>1 DEF Begin, Execute
<1>2. CASE Progress(x) \/ Answer(x) \/ PruneEnds(x)
  <2>1. UNCHANGED <<key, owner>>
    BY <1>2 DEF Progress, CacheGet, Hit, Join, Fetch, FetchEnds, StoreEnds, StoreFails,
                ManagedStoreEnds, Track, Settle, Answer, PruneEnds, call
  <2>2. PICK l \in Label \ {"new"} : pc' = [pc EXCEPT ![x] = l]
    BY <1>2 DEF Progress, CacheGet, Hit, Join, Fetch, FetchEnds, StoreEnds, StoreFails,
                ManagedStoreEnds, Track, Settle, Answer, PruneEnds, Goto, Label, Active
  <2> QED BY <1>0, <2>1, <2>2
<1> QED BY <1>1, <1>2, CallStep DEF Moves, Still

LEMMA PlacedStep == TypeOK /\ Placed /\ [Next]_vars => Placed'
<1> SUFFICES ASSUME TypeOK, Placed, [Next]_vars, NEW x \in Call
             PROVE  /\ pc'[x] \notin {"new", "failed"} => key'[x] \in Key /\ owner'[x] \in Owner
                    /\ pc'[x] = "wait" => joined'[x] \in Call
  BY DEF Placed
<1>0. /\ pc \in [Call \cup Op -> Label] /\ x \in Call \cup Op
      /\ key \in [Call \cup Invalidation -> Key \cup {None}]
      /\ owner \in [Call -> Owner \cup {None}]
      /\ joined \in [Call -> Call \cup {None}]
  BY TypeParts DEF ControlOK, CallsOK
<1>1. ASSUME NEW k \in Key, Begin(x, k) PROVE key'[x] = k /\ owner'[x] = Wrapped /\ pc'[x] = "get"
  BY <1>0, <1>1 DEF Begin, Goto
<1>2. ASSUME NEW k \in Key, Execute(x, k)
      PROVE  pc'[x] = "failed" \/ (pc'[x] = "get" /\ key'[x] = k /\ owner'[x] \in Owner)
  <2>1. registered # None => registered \in Owner
    BY TypeParts DEF TablesOK, Owner
  <2>2. CASE registered = None
    <3>1. pc' = [pc EXCEPT ![x] = "failed"]
      BY <1>2, <2>2 DEF Execute, Goto
    <3> QED BY <1>0, <3>1
  <2>3. CASE registered # None
    <3>1. /\ pc' = [pc EXCEPT ![x] = "get"] /\ key' = [key EXCEPT ![x] = k]
          /\ owner' = [owner EXCEPT ![x] = registered]
      BY <1>2, <2>3 DEF Execute, Goto
    <3> QED BY <1>0, <2>1, <2>3, <3>1
  <2> QED BY <2>2, <2>3
<1>3. CASE Join(x)
  <2>1. /\ joined'[x] = inflight[owner[x]][key[x]] /\ joined'[x] # None
        /\ pc[x] = "got" /\ UNCHANGED <<key, owner>>
    BY <1>0, <1>3 DEF Join, Registered
  <2>2. key[x] \in Key /\ owner[x] \in Owner
    BY <2>1 DEF Placed
  <2> QED BY <2>1, <2>2, TypeParts DEF TablesOK
<1>4. CASE (Progress(x) /\ ~Join(x)) \/ Answer(x) \/ PruneEnds(x)
  <2>1. pc[x] \notin {"new", "failed"} /\ pc'[x] # "wait" /\ UNCHANGED <<key, owner>>
    BY <1>0, <1>4 DEF Progress, CacheGet, Hit, Fetch, MustFetch, FetchEnds, StoreEnds, StoreFails,
                ManagedStoreEnds, Track, Settle, Answer, PruneEnds, Goto, call
  <2> QED BY <2>1 DEF Placed
<1>5. CASE Still(x)
  BY <1>5 DEF Still, Placed
<1> QED BY <1>1, <1>2, <1>3, <1>4, <1>5, CallStep DEF Moves, Owner

LEMMA TypeInvariance == Spec => [](TypeOK /\ Placed)
  BY TypeInit, TypeStep, PlacedStep, PTL DEF Spec

\* Type correctness of withCache()'s and the manager's state.
THEOREM TypeCorrect == Spec => []TypeOK
  BY TypeInvariance, PTL

-----------------------------------------------------------------------------
(* The promise tables.                                                     *)

LEMMA TableInit == Init => TableInv
  BY DEF Init, TableInv, InflightAlive, Listed, WaitsForOwn, Active

\* What a step without Fetch() and Settle() does to a call.
Quiet(x) ==
    /\ pc[x] # "new" => key'[x] = key[x] /\ owner'[x] = owner[x]
    /\ pc'[x] \in Active <=> pc[x] \in Active
    /\ pc[x] \in {"done", "failed"} => pc'[x] = pc[x]
    /\ pc'[x] = "rejected" => pc[x] = "rejected" \/ <<owner[x], key[x]>> \in failed'
    /\ pc'[x] = "wait" => \/ pc[x] = "wait" /\ joined'[x] = joined[x]
                          \/ pc[x] = "got" /\ joined'[x] = Registered(x) /\ joined'[x] # None

LEMMA QuietStep ==
    ASSUME TypeOK, Placed, TableInv, \A x \in Call : Quiet(x),
           inflight' = inflight, failed \subseteq failed'
    PROVE  TableInv'
<1>1. InflightAlive'
  <2> SUFFICES ASSUME NEW o \in Owner, NEW k \in Key, inflight[o][k] # None
               PROVE  LET y == inflight[o][k] IN
                      pc'[y] \in Active /\ owner'[y] = o /\ key'[y] = k
    BY DEF InflightAlive
  <2>1. inflight[o][k] \in Call
    BY DEF TypeOK
  <2>2. LET y == inflight[o][k] IN pc[y] \in Active /\ owner[y] = o /\ key[y] = k
    BY DEF TableInv, InflightAlive
  <2> QED BY <2>1, <2>2 DEF Quiet, Active
<1>2. Listed'
  BY DEF TableInv, Listed, Quiet, Active
<1>3. \A x \in Call : pc'[x] = "rejected" => <<owner'[x], key'[x]>> \in failed'
  BY DEF TableInv, WaitsForOwn, Quiet, Active
<1>4. ASSUME NEW x \in Call, pc'[x] = "wait"
      PROVE  LET y == joined'[x] IN
             /\ owner'[y] = owner'[x] /\ key'[y] = key'[x]
             /\ pc'[y] \in Active \cup {"done", "failed"}
             /\ pc'[y] = "failed" => <<owner'[x], key'[x]>> \in failed'
  <2>1. owner'[x] = owner[x] /\ key'[x] = key[x] /\ owner[x] \in Owner /\ key[x] \in Key
    BY <1>4 DEF Quiet, Placed
  <2>2. CASE pc[x] = "wait" /\ joined'[x] = joined[x]
    BY <2>1, <2>2 DEF TableInv, WaitsForOwn, Quiet, Placed, Active
  <2>3. CASE joined'[x] = Registered(x) /\ joined'[x] # None
    <3>1. /\ joined'[x] \in Call /\ pc[joined'[x]] \in Active
          /\ owner[joined'[x]] = owner[x] /\ key[joined'[x]] = key[x]
      BY <2>1, <2>3 DEF TableInv, InflightAlive, Registered, TypeOK
    <3> QED BY <2>1, <3>1 DEF Quiet, Active
  <2> QED BY <1>4, <2>2, <2>3 DEF Quiet
<1> QED BY <1>1, <1>2, <1>3, <1>4 DEF TableInv, WaitsForOwn

\* Whoever fetches finds no promise of its own owner and key, unless a fetch
\* of theirs has failed.
LEMMA FetchAlone ==
    ASSUME TypeOK, Placed, TableInv, NEW x \in Call, MustFetch(x),
           <<owner[x], key[x]>> \notin failed,
           NEW y \in Call, pc[y] \in Active, owner[y] = owner[x], key[y] = key[x]
    PROVE  FALSE
<1>1. inflight[owner[x]][key[x]] = y
  BY DEF TableInv, Listed
<1>2. CASE pc[x] = "got" /\ Registered(x) = None
  BY <1>1, <1>2, CallAssumption DEF Registered
<1>3. CASE pc[x] = "wait" /\ pc[joined[x]] = "failed"
  BY <1>3 DEF TableInv, WaitsForOwn
<1> QED BY <1>2, <1>3 DEF MustFetch

LEMMA FetchStep ==
    ASSUME TypeOK, Placed, TableInv, NEW x \in Call, Fetch(x)
    PROVE  TableInv'
<1>0. /\ pc[x] \in {"got", "wait"} /\ MustFetch(x)
      /\ pc' = [pc EXCEPT ![x] = "fetch"]
      /\ inflight' = [inflight EXCEPT ![owner[x]][key[x]] = x]
      /\ UNCHANGED <<key, owner, joined, failed>>
  BY DEF Fetch, MustFetch, Goto, call
<1>1. owner[x] \in Owner /\ key[x] \in Key
  BY <1>0 DEF Placed
<1>2. pc \in [Call \cup Op -> Label]
  BY TypeParts DEF ControlOK
<1>3. /\ inflight \in [Owner -> [Key -> Call \cup {None}]]
      /\ inflight'[owner[x]][key[x]] = x
      /\ \A o \in Owner, k \in Key :
            o # owner[x] \/ k # key[x] => inflight'[o][k] = inflight[o][k]
  BY <1>0, <1>1 DEF TypeOK
<1>4. pc'[x] = "fetch" /\ \A y \in Call : y # x => pc'[y] = pc[y]
  BY <1>0, <1>2
<1>5. InflightAlive'
  <2> SUFFICES ASSUME NEW o \in Owner, NEW k \in Key, inflight'[o][k] # None
               PROVE  LET y == inflight'[o][k] IN
                      pc'[y] \in Active /\ owner[y] = o /\ key[y] = k
    BY <1>0 DEF InflightAlive
  <2>1. CASE o = owner[x] /\ k = key[x]
    BY <1>3, <1>4, <2>1 DEF Active
  <2>2. CASE o # owner[x] \/ k # key[x]
    <3>1. inflight'[o][k] = inflight[o][k] /\ inflight[o][k] \in Call
      BY <1>3, <2>2
    <3> QED BY <1>4, <3>1 DEF TableInv, InflightAlive, Active
  <2> QED BY <2>1, <2>2
<1>6. Listed'
  <2> SUFFICES ASSUME NEW y \in Call, pc'[y] \in Active, <<owner[y], key[y]>> \notin failed
               PROVE  inflight'[owner[y]][key[y]] = y
    BY <1>0 DEF Listed
  <2>1. CASE y = x
    BY <1>3, <2>1
  <2>2. CASE y # x
    <3>1. pc[y] \in Active /\ inflight[owner[y]][key[y]] = y
      BY <1>4, <2>2 DEF TableInv, Listed
    <3>2. owner[y] # owner[x] \/ key[y] # key[x]
      BY <1>0, <3>1, FetchAlone
    <3>3. owner[y] \in Owner /\ key[y] \in Key
      BY <3>1 DEF Placed, Active
    <3> QED BY <1>3, <3>1, <3>2, <3>3
  <2> QED BY <2>1, <2>2
<1>7. WaitsForOwn'
  <2>1. \A y \in Call : pc'[y] = "rejected" => <<owner[y], key[y]>> \in failed
    BY <1>4 DEF TableInv, WaitsForOwn
  <2>2. ASSUME NEW y \in Call, pc'[y] = "wait"
        PROVE  LET z == joined[y] IN
               /\ owner[z] = owner[y] /\ key[z] = key[y]
               /\ pc'[z] \in Active \cup {"done", "failed"}
               /\ pc'[z] = "failed" => <<owner[y], key[y]>> \in failed
    <3>1. pc[y] = "wait" /\ joined[y] \in Call
      BY <1>4, <2>2 DEF Placed
    <3> QED BY <1>4, <3>1 DEF TableInv, WaitsForOwn, Active
  <2> QED BY <1>0, <2>1, <2>2 DEF WaitsForOwn
<1> QED BY <1>5, <1>6, <1>7 DEF TableInv

LEMMA SettleStep ==
    ASSUME TypeOK, Placed, TableInv, NEW x \in Call, Settle(x)
    PROVE  TableInv'
<1>0. /\ \/ pc[x] = "resolved" /\ pc' = [pc EXCEPT ![x] = "done"]
         \/ pc[x] = "rejected" /\ pc' = [pc EXCEPT ![x] = "failed"]
      /\ inflight' = [inflight EXCEPT ![owner[x]][key[x]] = None]
      /\ UNCHANGED <<key, owner, joined, failed>>
  BY DEF Settle, Goto, call
<1>1. owner[x] \in Owner /\ key[x] \in Key
  BY <1>0 DEF Placed
<1>2. pc \in [Call \cup Op -> Label]
  BY TypeParts DEF ControlOK
<1>3. /\ inflight \in [Owner -> [Key -> Call \cup {None}]]
      /\ inflight'[owner[x]][key[x]] = None
      /\ \A o \in Owner, k \in Key :
            o # owner[x] \/ k # key[x] => inflight'[o][k] = inflight[o][k]
  BY <1>0, <1>1 DEF TypeOK
<1>4. /\ \A y \in Call : y # x => pc'[y] = pc[y]
      /\ pc[x] \in Active
      /\ pc'[x] \in {"done", "failed"}
      /\ pc'[x] = "failed" => pc[x] = "rejected"
  BY <1>0, <1>2 DEF Active
<1>5. InflightAlive'
  <2> SUFFICES ASSUME NEW o \in Owner, NEW k \in Key, inflight'[o][k] # None
               PROVE  LET y == inflight'[o][k] IN
                      pc'[y] \in Active /\ owner[y] = o /\ key[y] = k
    BY <1>0 DEF InflightAlive
  <2>1. o # owner[x] \/ k # key[x]
    BY <1>3
  <2>2. inflight'[o][k] = inflight[o][k] /\ inflight[o][k] \in Call
    BY <1>3, <2>1
  <2>3. LET y == inflight[o][k] IN pc[y] \in Active /\ owner[y] = o /\ key[y] = k
    BY <2>2 DEF TableInv, InflightAlive
  <2> QED BY <1>4, <2>1, <2>2, <2>3
<1>6. Listed'
  <2> SUFFICES ASSUME NEW y \in Call, pc'[y] \in Active, <<owner[y], key[y]>> \notin failed
               PROVE  inflight'[owner[y]][key[y]] = y
    BY <1>0 DEF Listed
  <2>1. y # x /\ pc[y] \in Active
    BY <1>4 DEF Active
  <2>2. inflight[owner[y]][key[y]] = y
    BY <2>1 DEF TableInv, Listed
  <2>3. owner[y] # owner[x] \/ key[y] # key[x]
    BY <1>4, <2>1, <2>2 DEF TableInv, Listed
  <2>4. owner[y] \in Owner /\ key[y] \in Key
    BY <2>1 DEF Placed, Active
  <2> QED BY <1>3, <2>2, <2>3, <2>4
<1>7. WaitsForOwn'
  <2>1. \A y \in Call : pc'[y] = "rejected" => <<owner[y], key[y]>> \in failed
    BY <1>4 DEF TableInv, WaitsForOwn
  <2>2. ASSUME NEW y \in Call, pc'[y] = "wait"
        PROVE  LET z == joined[y] IN
               /\ owner[z] = owner[y] /\ key[z] = key[y]
               /\ pc'[z] \in Active \cup {"done", "failed"}
               /\ pc'[z] = "failed" => <<owner[y], key[y]>> \in failed
    <3>1. pc[y] = "wait" /\ joined[y] \in Call
      BY <1>4, <2>2 DEF Placed
    <3>2. CASE joined[y] # x
      BY <1>4, <3>1, <3>2 DEF TableInv, WaitsForOwn, Active
    <3>3. CASE joined[y] = x
      BY <1>4, <3>1, <3>3 DEF TableInv, WaitsForOwn
    <3> QED BY <3>2, <3>3
  <2> QED BY <1>0, <2>1, <2>2 DEF WaitsForOwn
<1> QED BY <1>5, <1>6, <1>7 DEF TableInv

\* Only Fetch() enters a promise, only Settle() removes one.
LEMMA TablesStep ==
    ASSUME [Next]_vars, ~(\E x \in Call : Fetch(x) \/ Settle(x))
    PROVE  inflight' = inflight /\ failed \subseteq failed'
<1>1. ASSUME NEW x \in Call,
             \/ Progress(x) \/ Answer(x)
             \/ \E k \in Key : Begin(x, k) \/ Execute(x, k)
      PROVE  inflight' = inflight /\ failed \subseteq failed'
  BY <1>1 DEF Progress, CacheGet, Hit, Join, FetchEnds, StoreEnds, StoreFails,
              ManagedStoreEnds, Track, Answer, Begin, Execute
<1>2. ASSUME NEW p \in Pruner, Prune(p)
      PROVE  UNCHANGED <<inflight, failed>>
  BY <1>2 DEF Prune, PruneLook, PruneForget, PruneEnds
<1>3. CASE \/ \E s \in Sweep : InvalidateAll(s) \/ SweepDel(s) \/ SweepClear(s)
           \/ \E i \in Invalidation :
                  InvalidateForget(i) \/ \E k \in Key : InvalidateDel(i, k)
  BY <1>3 DEF InvalidateAll, SweepDel, SweepClear, InvalidateForget, InvalidateDel
<1>4. CASE \/ \E e \in Entry : Register(e)
           \/ Unregister
           \/ \E k \in Key : Evict(k)
           \/ UNCHANGED vars
  BY <1>4 DEF Register, Unregister, Evict, vars
<1> QED BY <1>1, <1>2, <1>3, <1>4 DEF Next, Resume

LEMMA MovesQuietly ==
    ASSUME TypeOK, [Next]_vars, NEW x \in Call, Moves(x), ~Fetch(x), ~Settle(x)
    PROVE  Quiet(x)
<1>0. /\ pc \in [Call \cup Op -> Label] /\ x \in Call \cup Op
      /\ joined \in [Call -> Call \cup {None}]
  BY TypeParts DEF ControlOK, CallsOK
<1>1. pc[x] # "new" => key'[x] = key[x] /\ owner'[x] = owner[x]
  BY BegunStep
<1>2. CASE \E k \in Key : Begin(x, k) \/ Execute(x, k)
  <2>1. pc[x] = "new" /\ pc' \in {[pc EXCEPT ![x] = "get"], [pc EXCEPT ![x] = "failed"]}
    BY <1>2 DEF Begin, Execute, Goto
  <2> QED BY <1>0, <2>1 DEF Quiet, Active
<1>3. CASE CacheGet(x) \/ Hit(x) \/ Answer(x)
  <2>1. /\ pc[x] \in {"get", "got", "wait"}
        /\ \/ pc' = [pc EXCEPT ![x] = "got"] \/ pc' = [pc EXCEPT ![x] = "failed"]
           \/ pc' = [pc EXCEPT ![x] = "done"]
    BY <1>3 DEF CacheGet, Hit, Answer, Goto
  <2> QED BY <1>0, <1>1, <2>1 DEF Quiet, Active
<1>4. CASE Join(x)
  <2>1. /\ pc[x] = "got" /\ pc' = [pc EXCEPT ![x] = "wait"]
        /\ joined' = [joined EXCEPT ![x] = Registered(x)] /\ Registered(x) # None
    BY <1>4 DEF Join, Goto
  <2> QED BY <1>0, <1>1, <2>1 DEF Quiet, Active
<1>5. CASE FetchEnds(x)
  <2>1. /\ pc[x] = "fetch"
        /\ \/ pc' = [pc EXCEPT ![x] = "store"] \/ pc' = [pc EXCEPT ![x] = "resolved"]
           \/ pc' = [pc EXCEPT ![x] = "rejected"] /\ <<owner[x], key[x]>> \in failed'
    BY <1>5 DEF FetchEnds, Goto
  <2> QED BY <1>0, <1>1, <2>1 DEF Quiet, Active
<1>6. CASE StoreEnds(x) \/ StoreFails(x) \/ ManagedStoreEnds(x) \/ Track(x) \/ PruneEnds(x)
  <2>1. /\ pc[x] \in {"store", "stored", "prune"}
        /\ \/ pc' = [pc EXCEPT ![x] = "stored"] \/ pc' = [pc EXCEPT ![x] = "resolved"]
           \/ pc' = [pc EXCEPT ![x] = "prune"]
    <3>1. x \notin Sweep
      BY OpAssumption DEF Op
    <3> QED BY <1>6, <3>1 DEF StoreEnds, StoreFails, ManagedStoreEnds, Track, PruneEnds, Goto
  <2> QED BY <1>0, <1>1, <2>1 DEF Quiet, Active
<1> QED BY <1>2, <1>3, <1>4, <1>5, <1>6 DEF Moves, Progress

LEMMA TableStep == TypeOK /\ Placed /\ TableInv /\ [Next]_vars => TableInv'
<1> SUFFICES ASSUME TypeOK, Placed, TableInv, [Next]_vars PROVE TableInv'
  OBVIOUS
<1>1. CASE \E x \in Call : Fetch(x)
  BY <1>1, FetchStep
<1>2. CASE \E x \in Call : Settle(x)
  BY <1>2, SettleStep
<1>3. CASE ~(\E x \in Call : Fetch(x) \/ Settle(x))
  <2>1. \A x \in Call : Still(x) => Quiet(x)
    BY DEF Still, Quiet
  <2>2. \A x \in Call : Quiet(x)
    BY <1>3, <2>1, CallStep, MovesQuietly
  <2> QED BY <1>3, <2>2, TablesStep, QuietStep
<1> QED BY <1>1, <1>2, <1>3

LEMMA TableInvariance == Spec => [](TypeOK /\ Placed /\ TableInv)
  BY TypeInit, TableInit, TypeStep, PlacedStep, TableStep, PTL DEF Spec

\* However many calls there are: one execution of the function per owner and
\* key, unless an execution for them failed.
THEOREM SingleExecutionCorrect == Spec => []SingleExecution
<1>1. TableInv => SingleExecution
  BY DEF TableInv, Listed, SingleExecution
<1> QED BY <1>1, TableInvariance, PTL

-----------------------------------------------------------------------------
(* The entries and knownKeys.                                              *)

\* The value call x has fetched replaces the entry of its key.
StoredBy(x, k) ==
    /\ pc[x] = "store" /\ key[x] = k /\ cache'[k] = x
    /\ \A s \in Sweep : k \notin owed'[s]
    /\ \/ pc'[x] = "stored"
       \/ pc'[x] = "resolved" /\ (k \in escaped' \/ owner[x] # Wrapped)

LEMMA CacheStep ==
    ASSUME TypeOK, [Next]_vars, NEW k \in Key
    PROVE  \/ cache'[k] \in {cache[k], None}
           \/ \E x \in Call : StoredBy(x, k)
<1>0. /\ cache \in [Key -> Call \cup {None}]
      /\ owed \in [Sweep -> SUBSET Key]
      /\ pc \in [Call \cup Op -> Label]
  BY TypeParts DEF TablesOK, TrackingOK, ControlOK
<1>1. ASSUME NEW x \in Call, StoreEnds(x) \/ StoreFails(x) \/ ManagedStoreEnds(x),
             cache' # cache
      PROVE  cache'[k] = cache[k] \/ StoredBy(x, k)
  <2>1. /\ pc[x] = "store" /\ Store(key[x], x)
        /\ \/ pc' = [pc EXCEPT ![x] = "stored"]
           \/ /\ pc' = [pc EXCEPT ![x] = "resolved"]
              /\ key[x] \in escaped' \/ owner[x] # Wrapped
    BY <1>1 DEF StoreEnds, StoreFails, ManagedStoreEnds, Goto
  <2>2. CASE key[x] # k
    BY <1>0, <2>1, <2>2 DEF Store
  <2>3. CASE key[x] = k
    <3>1. cache'[k] = x /\ \A s \in Sweep : k \notin owed'[s]
      BY <1>0, <2>1, <2>3 DEF Store
    <3>2. pc'[x] = "stored" \/ (pc'[x] = "resolved" /\ (k \in escaped' \/ owner[x] # Wrapped))
      BY <1>0, <2>1, <2>3
    <3> QED BY <2>1, <2>3, <3>1, <3>2 DEF StoredBy
  <2> QED BY <2>2, <2>3
<1>2. ASSUME NEW j \in Key, Delete(j) PROVE cache'[k] \in {cache[k], None}
  BY <1>0, <1>2 DEF Delete
<1>3. CASE cache' = cache
  BY <1>3
<1>4. ASSUME NEW x \in Call,
             \/ CacheGet(x) \/ Hit(x) \/ Join(x) \/ Fetch(x) \/ FetchEnds(x)
             \/ Track(x) \/ Settle(x) \/ Answer(x)
             \/ \E j \in Key : Begin(x, j) \/ Execute(x, j)
      PROVE  cache' = cache
  BY <1>4 DEF CacheGet, Hit, Join, Fetch, FetchEnds, Track, Settle, Answer, Begin, Execute
<1>5. ASSUME NEW p \in Pruner, Prune(p) PROVE cache' = cache
  BY <1>5 DEF Prune, PruneLook, PruneForget, PruneEnds
<1>6. ASSUME NEW s \in Sweep, InvalidateAll(s) \/ SweepDel(s) \/ SweepClear(s)
      PROVE  cache' = cache \/ \E j \in Key : Delete(j)
  <2>1. known \subseteq Key
    BY DEF TypeOK
  <2> QED BY <1>6, <2>1 DEF InvalidateAll, SweepDel, SweepClear
<1>7. ASSUME NEW i \in Invalidation,
             InvalidateForget(i) \/ \E j \in Key : InvalidateDel(i, j)
      PROVE  cache' = cache \/ \E j \in Key : Delete(j)
  BY <1>7 DEF InvalidateForget, InvalidateDel
<1>8. CASE \/ \E e \in Entry : Register(e)
           \/ Unregister
           \/ \E j \in Key : Evict(j)
           \/ UNCHANGED vars
  BY <1>2, <1>8 DEF Register, Unregister, Evict, vars
<1> QED BY <1>1, <1>2, <1>3, <1>4, <1>5, <1>6, <1>7, <1>8 DEF Next, Resume, Progress

\* After its value is stored, a call ends; it becomes tracked by Track() only.
LEMMA AfterStore ==
    ASSUME TypeOK, [Next]_vars, NEW x \in Call, pc[x] \in {"stored", "prune", "resolved", "done"}
    PROVE  /\ pc'[x] \in {"stored", "prune", "resolved", "done"}
           /\ pc[x] = "stored" => pc'[x] = "stored" \/ Track(x)
           /\ pc'[x] = "stored" => pc[x] = "stored"
<1>0. pc \in [Call \cup Op -> Label] /\ x \in Call \cup Op /\ x \notin Sweep
  BY TypeParts, OpAssumption DEF ControlOK, Op
<1>1. CASE Still(x)
  BY <1>1 DEF Still
<1>2. CASE Moves(x)
  <2>1. Track(x) \/ Settle(x) \/ PruneEnds(x)
    BY <1>2 DEF Moves, Progress, Begin, Execute, CacheGet, Hit, Join, Fetch, MustFetch, FetchEnds,
                StoreEnds, StoreFails, ManagedStoreEnds, Answer
  <2>2. CASE Track(x)
    <3>1. pc' \in {[pc EXCEPT ![x] = "resolved"], [pc EXCEPT ![x] = "prune"]}
      BY <2>2 DEF Track, Goto
    <3> QED BY <1>0, <2>2, <3>1
  <2>3. CASE Settle(x) \/ PruneEnds(x)
    <3>1. /\ pc[x] # "stored"
          /\ pc' \in {[pc EXCEPT ![x] = "done"], [pc EXCEPT ![x] = "resolved"]}
      BY <1>0, <2>3 DEF Settle, PruneEnds, Goto
    <3> QED BY <1>0, <3>1
  <2> QED BY <2>1, <2>2, <2>3
<1> QED BY <1>1, <1>2, CallStep

\* Who is after a key that is in knownKeys: only who takes it out looked at it
\* or deleted it before.
LEMMA KnownStep ==
    ASSUME TypeOK, [Next]_vars, NEW k \in known
    PROVE  k \in known' \/ (Removing(k) /\ escaped' = escaped)
<1>1. ASSUME NEW p \in Pruner, PruneForget(p) PROVE k \in known' \/ (Removing(k) /\ escaped' = escaped)
  BY <1>1 DEF PruneForget, Forget, Removing
<1>2. ASSUME NEW s \in Sweep, SweepClear(s) PROVE Removing(k) /\ escaped' = escaped
  BY <1>2 DEF SweepClear, Removing
<1>3. ASSUME NEW i \in Invalidation, InvalidateForget(i)
      PROVE  k \in known' \/ (Removing(k) /\ escaped' = escaped)
  BY <1>3 DEF InvalidateForget, Forget, Removing
<1>4. ASSUME NEW x \in Call,
             \/ Progress(x) \/ Answer(x)
             \/ \E j \in Key : Begin(x, j) \/ Execute(x, j)
      PROVE  k \in known'
  BY <1>4 DEF Progress, CacheGet, Hit, Join, Fetch, FetchEnds, StoreEnds, StoreFails,
              ManagedStoreEnds, Track, Settle, Answer, Begin, Execute, tracking
<1>5. ASSUME NEW p \in Pruner, PruneLook(p) \/ PruneEnds(p) PROVE known' = known
  BY <1>5 DEF PruneLook, PruneEnds, tracking
<1>6. ASSUME NEW s \in Sweep, InvalidateAll(s) \/ SweepDel(s) PROVE known' = known
  BY <1>6 DEF InvalidateAll, SweepDel, tracking
<1>7. CASE \/ \E i \in Invalidation, j \in Key : InvalidateDel(i, j)
           \/ \E e \in Entry : Register(e)
           \/ Unregister
           \/ \E j \in Key : Evict(j)
           \/ UNCHANGED vars
  BY <1>7 DEF InvalidateDel, Register, Unregister, Evict, vars, tracking
<1> QED BY <1>1, <1>2, <1>3, <1>4, <1>5, <1>6, <1>7 DEF Next, Resume, Progress, Prune

\* An escaped key is caught again only by being tracked, with no removal of
\* it under way.
LEMMA EscapedStep ==
    ASSUME TypeOK, [Next]_vars, NEW k \in escaped
    PROVE  k \in escaped' \/ \E x \in Call : Track(x) /\ key[x] = k /\ ~Removing(k)
<1>1. ASSUME NEW x \in Call, Track(x) PROVE k \in escaped' \/ (key[x] = k /\ ~Removing(k))
  BY <1>1 DEF Track
<1>2. ASSUME NEW x \in Call,
             \/ Progress(x) /\ ~Track(x)
             \/ Answer(x) \/ \E j \in Key : Begin(x, j) \/ Execute(x, j)
      PROVE  k \in escaped'
  BY <1>2 DEF Progress, CacheGet, Hit, Join, Fetch, FetchEnds, StoreEnds, StoreFails,
              ManagedStoreEnds, Settle, Answer, Begin, Execute, tracking
<1>3. ASSUME NEW p \in Pruner, Prune(p) PROVE escaped' = escaped
  BY <1>3 DEF Prune, PruneLook, PruneForget, PruneEnds, tracking
<1>4. ASSUME NEW s \in Sweep, InvalidateAll(s) \/ SweepDel(s) \/ SweepClear(s) PROVE k \in escaped'
  BY <1>4 DEF InvalidateAll, SweepDel, SweepClear, tracking
<1>5. CASE \/ \E i \in Invalidation :
                  InvalidateForget(i) \/ \E j \in Key : InvalidateDel(i, j)
           \/ \E e \in Entry : Register(e)
           \/ Unregister
           \/ \E j \in Key : Evict(j)
           \/ UNCHANGED vars
  BY <1>5 DEF InvalidateForget, InvalidateDel, Register, Unregister, Evict, vars, tracking
<1>6. ASSUME NEW x \in Call, Progress(x) PROVE k \in escaped' \/ (key[x] = k /\ ~Removing(k) /\ Track(x))
  BY <1>1, <1>2, <1>6
<1> QED BY <1>2, <1>3, <1>4, <1>5, <1>6 DEF Next, Resume, Progress

LEMMA AbsentStep ==
    ASSUME TypeOK, [Next]_vars, NEW p \in Pruner, absent'[p] # absent[p]
    PROVE  absent'[p] = None \/ cache'[absent'[p]] = None
<1>0. absent \in [Pruner -> Key \cup {None}]
  BY TypeParts DEF ControlOK
<1>1. ASSUME NEW q \in Pruner, Prune(q) PROVE absent'[p] = None \/ cache'[absent'[p]] = None
  <2>1. CASE PruneLook(q)
    <3>1. absent' # absent /\ cache' = cache
      BY <2>1 DEF PruneLook
    <3>2. PICK k \in todo[q] : cache[k] = None /\ absent' = [absent EXCEPT ![q] = k]
      BY <2>1, <3>1 DEF PruneLook
    <3> QED BY <1>0, <3>1, <3>2
  <2>2. CASE PruneForget(q)
    BY <1>0, <2>2 DEF PruneForget
  <2>3. CASE PruneEnds(q)
    BY <2>3 DEF PruneEnds, pruning
  <2> QED BY <1>1, <2>1, <2>2, <2>3 DEF Prune
<1>2. ASSUME NEW x \in Call,
             \/ Progress(x) \/ Answer(x)
             \/ \E j \in Key : Begin(x, j) \/ Execute(x, j)
      PROVE  absent' = absent
  BY <1>2 DEF Progress, CacheGet, Hit, Join, Fetch, FetchEnds, StoreEnds, StoreFails,
              ManagedStoreEnds, Track, Settle, Answer, Begin, Execute, pruning
<1>3. CASE \/ \E s \in Sweep : InvalidateAll(s) \/ SweepDel(s) \/ SweepClear(s)
           \/ \E i \in Invalidation :
                  InvalidateForget(i) \/ \E j \in Key : InvalidateDel(i, j)
  BY <1>3 DEF InvalidateAll, SweepDel, SweepClear, InvalidateForget, InvalidateDel, pruning
<1>4. CASE \/ \E e \in Entry : Register(e)
           \/ Unregister
           \/ \E j \in Key : Evict(j)
           \/ UNCHANGED vars
  BY <1>4 DEF Register, Unregister, Evict, vars, pruning
<1> QED BY <1>1, <1>2, <1>3, <1>4 DEF Next, Resume, Progress

LEMMA VisitedStep ==
    ASSUME TypeOK, [Next]_vars, NEW s \in Sweep, NEW k \in Key, k \in visited'[s], k \notin visited[s]
    PROVE  cache'[k] = None \/ k \in escaped'
<1>0. visited \in [Sweep -> SUBSET known] /\ cache \in [Key -> Call \cup {None}]
  BY TypeParts DEF TrackingOK, TablesOK
<1>1. ASSUME NEW t \in Sweep, SweepDel(t) PROVE cache'[k] = None \/ k \in escaped'
  <2>1. PICK j \in known \ visited[t] :
          /\ visited' = [visited EXCEPT ![t] = visited[t] \cup {j}]
          /\ Delete(j) \/ escaped' = escaped \cup {j}
    BY <1>1 DEF SweepDel
  <2>2. j = k
    BY <1>0, <2>1
  <2> QED BY <1>0, <2>1, <2>2 DEF Delete
<1>2. ASSUME NEW p \in Pruner, Prune(p) PROVE FALSE
  BY <1>0, <1>2 DEF Prune, PruneLook, PruneForget, PruneEnds, Forget, tracking
<1>3. ASSUME NEW x \in Call,
             \/ Progress(x) \/ Answer(x)
             \/ \E j \in Key : Begin(x, j) \/ Execute(x, j)
      PROVE  visited' = visited
  BY <1>3 DEF Progress, CacheGet, Hit, Join, Fetch, FetchEnds, StoreEnds, StoreFails,
              ManagedStoreEnds, Track, Settle, Answer, Begin, Execute, tracking
<1>4. ASSUME NEW t \in Sweep, InvalidateAll(t) \/ SweepClear(t) PROVE FALSE
  BY <1>0, <1>4 DEF InvalidateAll, SweepClear, tracking
<1>5. ASSUME NEW i \in Invalidation, InvalidateForget(i) PROVE FALSE
  BY <1>0, <1>5 DEF InvalidateForget, Forget
<1>6. CASE \/ \E i \in Invalidation, j \in Key : InvalidateDel(i, j)
           \/ \E e \in Entry : Register(e)
           \/ Unregister
           \/ \E j \in Key : Evict(j)
           \/ UNCHANGED vars
  BY <1>6 DEF InvalidateDel, Register, Unregister, Evict, vars, tracking
<1> QED BY <1>1, <1>2, <1>3, <1>4, <1>5, <1>6 DEF Next, Resume, Progress

LEMMA InvalidationStep ==
    ASSUME TypeOK, [Next]_vars, NEW i \in Invalidation, pc'[i] = "deleted"
    PROVE  \/ pc[i] = "deleted" /\ key'[i] = key[i]
           \/ cache'[key'[i]] = None
<1>0. /\ pc \in [Call \cup Op -> Label] /\ i \in Call \cup Op /\ i \notin Call /\ i \notin Sweep
      /\ key \in [Call \cup Invalidation -> Key \cup {None}]
      /\ cache \in [Key -> Call \cup {None}]
  BY TypeParts, OpAssumption DEF ControlOK, CallsOK, TablesOK, Op
<1>1. ASSUME NEW x \in Call, NEW j \in Key, Begin(x, j) \/ Execute(x, j)
      PROVE  pc[i] = "deleted" /\ key'[i] = key[i]
  <2>1. /\ pc' \in {[pc EXCEPT ![x] = "get"], [pc EXCEPT ![x] = "failed"]}
        /\ key' \in {key, [key EXCEPT ![x] = j]}
    BY <1>1 DEF Begin, Execute, Goto
  <2> QED BY <1>0, <2>1
<1>2. ASSUME NEW x \in Call, Progress(x) \/ Answer(x)
      PROVE  pc[i] = "deleted" /\ key'[i] = key[i]
  <2>1. PICK l : pc' = [pc EXCEPT ![x] = l]
    BY <1>2 DEF Progress, CacheGet, Hit, Join, Fetch, FetchEnds, StoreEnds, StoreFails,
                ManagedStoreEnds, Track, Settle, Answer, Goto
  <2>2. key' = key
    BY <1>2 DEF Progress, CacheGet, Hit, Join, Fetch, FetchEnds, StoreEnds, StoreFails,
                ManagedStoreEnds, Track, Settle, Answer, call
  <2> QED BY <1>0, <2>1, <2>2
<1>3. ASSUME NEW p \in Pruner, Prune(p)
      PROVE  pc[i] = "deleted" /\ key'[i] = key[i]
  <2>1. p # i
    BY <1>0 DEF Pruner
  <2>2. key' = key /\ (pc' = pc \/ \E l : pc' = [pc EXCEPT ![p] = l])
    BY <1>3 DEF Prune, PruneLook, PruneForget, PruneEnds, call, Goto
  <2> QED BY <1>0, <2>1, <2>2
<1>4. ASSUME NEW s \in Sweep, InvalidateAll(s) \/ SweepDel(s) \/ SweepClear(s)
      PROVE  pc[i] = "deleted" /\ key'[i] = key[i]
  <2>1. /\ s # i /\ key' = key
        /\ pc' \in {pc, [pc EXCEPT ![s] = "prune"], [pc EXCEPT ![s] = "done"]}
    BY <1>0, <1>4 DEF InvalidateAll, SweepDel, SweepClear, call, Goto
  <2> QED BY <1>0, <2>1
<1>5. ASSUME NEW h \in Invalidation, InvalidateForget(h)
      PROVE  pc[i] = "deleted" /\ key'[i] = key[i]
  <2>1. key' = key /\ pc' = [pc EXCEPT ![h] = "done"]
    BY <1>5 DEF InvalidateForget, call, Goto
  <2> QED BY <1>0, <2>1
<1>6. ASSUME NEW h \in Invalidation, NEW j \in Key, InvalidateDel(h, j)
      PROVE  \/ pc[i] = "deleted" /\ key'[i] = key[i]
             \/ cache'[key'[i]] = None
  <2>1. /\ key' = [key EXCEPT ![h] = j]
        /\ \/ pc' = [pc EXCEPT ![h] = "deleted"] /\ cache' = [cache EXCEPT ![j] = None]
           \/ pc' = [pc EXCEPT ![h] = "failed"]
    BY <1>6 DEF InvalidateDel, Delete, Goto
  <2> QED BY <1>0, <2>1
<1>7. CASE \/ \E e \in Entry : Register(e)
           \/ Unregister
           \/ \E j \in Key : Evict(j)
           \/ UNCHANGED vars
  BY <1>7 DEF Register, Unregister, Evict, vars, call
<1> QED BY <1>1, <1>2, <1>3, <1>4, <1>5, <1>6, <1>7 DEF Next, Resume, Progress

\* Whoever begins to take a key out of knownKeys has found it absent, or has
\* deleted it, or has let it escape.
LEMMA RemovingStep ==
    ASSUME TypeOK, [Next]_vars, NEW k \in Key, Removing(k)'
    PROVE  Removing(k) \/ cache'[k] = None \/ k \in escaped'
<1>1. ASSUME NEW p \in Pruner, absent'[p] = k PROVE absent[p] = k \/ cache'[k] = None
  BY <1>1, AbsentStep, OwnerAssumption
<1>2. ASSUME NEW i \in Invalidation, pc'[i] = "deleted", key'[i] = k
      PROVE  (pc[i] = "deleted" /\ key[i] = k) \/ cache'[k] = None
  BY <1>2, InvalidationStep
<1>3. ASSUME NEW s \in Sweep, k \in visited'[s]
      PROVE  k \in visited[s] \/ cache'[k] = None \/ k \in escaped'
  BY <1>3, VisitedStep
<1> QED BY <1>1, <1>2, <1>3 DEF Removing

LEMMA OwedStep ==
    ASSUME TypeOK, [Next]_vars, NEW s \in Sweep, NEW k \in owed'[s]
    PROVE  \/ k \in owed[s]
           \/ /\ InvalidateAll(s)
              /\ k \notin {key[x] : x \in {y \in Call : pc[y] = "stored"}}
<1>0. owed \in [Sweep -> SUBSET Key]
  BY TypeParts DEF TrackingOK
<1>1. ASSUME NEW x \in Call, StoreEnds(x) \/ StoreFails(x) \/ ManagedStoreEnds(x)
      PROVE  k \in owed[s]
  BY <1>1 DEF StoreEnds, StoreFails, ManagedStoreEnds, Store
<1>2. ASSUME NEW t \in Sweep, InvalidateAll(t)
      PROVE  \/ k \in owed[s]
             \/ t = s /\ k \notin {key[x] : x \in {y \in Call : pc[y] = "stored"}}
  <2>1. owed' = [owed EXCEPT ![t] = known \ {key[x] : x \in {y \in Call : pc[y] = "stored"}}]
    BY <1>2 DEF InvalidateAll
  <2> QED BY <1>0, <2>1
<1>3. ASSUME NEW x \in Call,
             \/ CacheGet(x) \/ Hit(x) \/ Join(x) \/ Fetch(x) \/ FetchEnds(x)
             \/ Track(x) \/ Settle(x) \/ Answer(x)
             \/ \E j \in Key : Begin(x, j) \/ Execute(x, j)
      PROVE  owed' = owed
  BY <1>3 DEF CacheGet, Hit, Join, Fetch, FetchEnds, Track, Settle, Answer, Begin, Execute
<1>4. ASSUME NEW p \in Pruner, Prune(p) PROVE owed' = owed
  BY <1>4 DEF Prune, PruneLook, PruneForget, PruneEnds
<1>5. ASSUME NEW t \in Sweep, SweepDel(t) \/ SweepClear(t) PROVE owed' = owed
  BY <1>5 DEF SweepDel, SweepClear
<1>6. CASE \/ \E i \in Invalidation :
                  InvalidateForget(i) \/ \E j \in Key : InvalidateDel(i, j)
           \/ \E e \in Entry : Register(e)
           \/ Unregister
           \/ \E j \in Key : Evict(j)
           \/ UNCHANGED vars
  BY <1>6 DEF InvalidateForget, InvalidateDel, Register, Unregister, Evict, vars
<1> QED BY <1>1, <1>2, <1>3, <1>4, <1>5, <1>6 DEF Next, Resume, Progress

KnownInv == StoredUnderKey /\ RemovalsSafe /\ OwedSettled /\ OnlyRacesEscape /\ SweepReaches

LEMMA KnownInit == Init => KnownInv
<1> SUFFICES ASSUME Init PROVE KnownInv
  OBVIOUS
<1>1. \A k \in Key : cache[k] = None
  BY DEF Init
<1>2. \A s \in Sweep : pc[s] = "new"
  BY DEF Init, Op
<1>3. \A x \in Call : pc[x] = "new"
  BY DEF Init
<1> QED BY <1>1, <1>2, <1>3
     DEF KnownInv, StoredUnderKey, RemovalsSafe, OwedSettled, OnlyRacesEscape, SweepReaches, Own

\* An entry of the function's after a step: it has just been stored, or it was
\* there before, of the same call.
LEMMA OwnStep ==
    ASSUME TypeOK, StoredUnderKey, [Next]_vars, NEW k \in Key, cache'[k] # None
    PROVE  \/ /\ cache'[k] = cache[k] /\ cache[k] \in Call
              /\ key'[cache[k]] = k /\ owner'[cache[k]] = owner[cache[k]]
              /\ pc[cache[k]] \in {"stored", "prune", "resolved", "done"}
           \/ \E x \in Call : StoredBy(x, k) /\ key'[x] = k /\ owner'[x] = owner[x]
<1>1. CASE \E x \in Call : StoredBy(x, k)
  <2>1. PICK x \in Call : StoredBy(x, k)
    BY <1>1
  <2>2. key'[x] = k /\ owner'[x] = owner[x]
    BY <2>1, BegunStep DEF StoredBy
  <2> QED BY <2>1, <2>2
<1>2. CASE cache'[k] = cache[k]
  <2>1. cache[k] \in Call /\ key[cache[k]] = k /\ pc[cache[k]] \in {"stored", "prune", "resolved", "done"}
    BY <1>2 DEF StoredUnderKey, TypeOK
  <2>2. key'[cache[k]] = key[cache[k]] /\ owner'[cache[k]] = owner[cache[k]]
    BY <2>1, BegunStep
  <2> QED BY <1>2, <2>1, <2>2
<1> QED BY <1>1, <1>2, CacheStep

LEMMA StoredUnderKeyStep == TypeOK /\ StoredUnderKey /\ [Next]_vars => StoredUnderKey'
<1> SUFFICES ASSUME TypeOK, StoredUnderKey, [Next]_vars, NEW k \in Key, cache'[k] # None
             PROVE  /\ key'[cache'[k]] = k
                    /\ pc'[cache'[k]] \in {"stored", "prune", "resolved", "done"}
  BY DEF StoredUnderKey
<1>1. CASE \E x \in Call : StoredBy(x, k) /\ key'[x] = k
  BY <1>1 DEF StoredBy
<1>2. CASE /\ cache'[k] = cache[k] /\ cache[k] \in Call /\ key'[cache[k]] = k
           /\ pc[cache[k]] \in {"stored", "prune", "resolved", "done"}
  BY <1>2, AfterStore
<1> QED BY <1>1, <1>2, OwnStep

\* An entry the function stored in an earlier step, and that is tracked now,
\* was there before; unless it is tracked by this step, it was tracked.
LEMMA OwnBefore ==
    ASSUME TypeOK, StoredUnderKey, [Next]_vars, NEW k \in Key, Own(k)', ~Untracked(k)'
    PROVE  \/ k \in escaped'
           \/ Own(k) /\ ~Untracked(k)
           \/ \E x \in Call : Track(x) /\ key[x] = k
<1>0. cache'[k] # None /\ owner'[cache'[k]] = Wrapped /\ pc'[cache'[k]] # "stored"
  BY DEF Own, Untracked
<1>1. ASSUME NEW x \in Call, StoredBy(x, k), owner'[x] = owner[x]
      PROVE  k \in escaped'
  BY <1>0, <1>1 DEF StoredBy
<1>2. CASE /\ cache'[k] = cache[k] /\ cache[k] \in Call
           /\ owner'[cache[k]] = owner[cache[k]]
           /\ pc[cache[k]] \in {"stored", "prune", "resolved", "done"}
  <2>1. Own(k)
    BY <1>0, <1>2 DEF Own
  <2>2. CASE pc[cache[k]] = "stored"
    <3>1. Track(cache[k])
      BY <1>0, <1>2, <2>2, AfterStore
    <3>2. key[cache[k]] = k
      BY <1>0, <1>2 DEF StoredUnderKey
    <3> QED BY <1>2, <3>1, <3>2
  <2> QED BY <2>1, <2>2 DEF Untracked
<1> QED BY <1>0, <1>1, <1>2, OwnStep

LEMMA TrackKnows ==
    ASSUME NEW x \in Call, Track(x)
    PROVE  /\ key[x] \in known'
           /\ Removing(key[x]) => key[x] \in escaped'
  BY DEF Track

LEMMA OnlyRacesEscapeStep ==
    ASSUME TypeOK, KnownInv, [Next]_vars
    PROVE  OnlyRacesEscape'
<1>0. StoredUnderKey /\ RemovalsSafe /\ OnlyRacesEscape
  BY DEF KnownInv
<1> SUFFICES ASSUME NEW k \in Key, Own(k)', ~Untracked(k)'
             PROVE  k \in known' \cup escaped'
  BY DEF OnlyRacesEscape, Untracked
<1>1. CASE \E x \in Call : Track(x) /\ key[x] = k
  BY <1>1, TrackKnows
<1>2. CASE Own(k) /\ ~Untracked(k)
  <2>1. CASE k \in escaped
    BY <1>1, <2>1, EscapedStep
  <2>2. CASE k \notin escaped
    <3>1. k \in known
      BY <1>0, <1>2, <2>2 DEF OnlyRacesEscape, Untracked
    <3>2. ~Removing(k)
      BY <1>0, <1>2, <2>2 DEF RemovalsSafe
    <3> QED BY <3>1, <3>2, KnownStep
  <2> QED BY <2>1, <2>2
<1> QED BY <1>0, <1>1, <1>2, OwnBefore

LEMMA RemovalsSafeStep ==
    ASSUME TypeOK, KnownInv, [Next]_vars
    PROVE  RemovalsSafe'
<1>0. StoredUnderKey /\ RemovalsSafe
  BY DEF KnownInv
<1> SUFFICES ASSUME NEW k \in Key, Removing(k)', Own(k)', ~Untracked(k)'
             PROVE  k \in escaped'
  BY DEF RemovalsSafe
<1>1. Removing(k) \/ k \in escaped'
  BY RemovingStep DEF Own
<1>2. ASSUME Removing(k), NEW x \in Call, Track(x), key[x] = k
      PROVE  k \in escaped'
  BY <1>2, TrackKnows
<1>3. ASSUME Removing(k), Own(k), ~Untracked(k)
      PROVE  k \in escaped'
  BY <1>0, <1>3, EscapedStep DEF RemovalsSafe
<1> QED BY <1>0, <1>1, <1>2, <1>3, OwnBefore

LEMMA OwedSettledStep ==
    ASSUME TypeOK, KnownInv, [Next]_vars
    PROVE  OwedSettled'
<1> SUFFICES ASSUME NEW s \in Sweep, NEW x \in Call, pc'[x] = "stored", key'[x] \in owed'[s]
             PROVE  FALSE
  BY DEF OwedSettled
<1>0. /\ pc \in [Call \cup Op -> Label] /\ x \in Call \cup Op
      /\ owed \in [Sweep -> SUBSET Key]
  BY TypeParts DEF ControlOK, TrackingOK
<1>1. CASE pc[x] = "stored"
  <2>1. key'[x] = key[x]
    BY <1>1, BegunStep
  <2>2. key[x] \in owed[s]
    BY <1>1, <2>1, OwedStep
  <2> QED BY <1>1, <2>2 DEF KnownInv, OwedSettled
<1>2. CASE pc[x] # "stored"
  <2>1. Moves(x)
    BY <1>2, CallStep DEF Still
  <2>2. StoreEnds(x)
    <3>1. CASE \E k \in Key : Begin(x, k) \/ Execute(x, k)
      BY <1>0, <3>1 DEF Begin, Execute, Goto
    <3>2. CASE CacheGet(x) \/ Hit(x) \/ Join(x) \/ Fetch(x) \/ FetchEnds(x) \/ Answer(x)
      BY <1>0, <3>2 DEF CacheGet, Hit, Join, Fetch, FetchEnds, Answer, Goto
    <3>3. CASE StoreFails(x) \/ ManagedStoreEnds(x) \/ Track(x) \/ Settle(x) \/ PruneEnds(x)
      <4>1. \/ pc' = [pc EXCEPT ![x] = "resolved"] \/ pc' = [pc EXCEPT ![x] = "prune"]
            \/ pc' = [pc EXCEPT ![x] = "done"] \/ pc' = [pc EXCEPT ![x] = "failed"]
            \/ pc' = [pc EXCEPT ![x] = "sweep"]
        BY <3>3 DEF StoreFails, ManagedStoreEnds, Track, Settle, PruneEnds, Goto
      <4> QED BY <1>0, <4>1
    <3> QED BY <2>1, <3>1, <3>2, <3>3 DEF Moves, Progress
  <2>3. owed'[s] = owed[s] \ {key[x]} /\ key' = key
    BY <2>2 DEF StoreEnds, Store, call
  <2> QED BY <2>3
<1> QED BY <1>1, <1>2

\* A sweep ends by clearing knownKeys.
LEMMA SweepDone ==
    ASSUME TypeOK, [Next]_vars, NEW s \in Sweep, pc'[s] = "done", pc[s] # "done"
    PROVE  SweepClear(s)
<1>0. /\ pc \in [Call \cup Op -> Label] /\ s \in Call \cup Op /\ s \notin Call /\ s \notin Invalidation
  BY TypeParts, OpAssumption DEF ControlOK, Op
<1>1. ASSUME NEW x \in Call, NEW j \in Key, Begin(x, j) \/ Execute(x, j) PROVE FALSE
  <2>1. pc' \in {[pc EXCEPT ![x] = "get"], [pc EXCEPT ![x] = "failed"]}
    BY <1>1 DEF Begin, Execute, Goto
  <2> QED BY <1>0, <2>1
<1>2. ASSUME NEW x \in Call, Progress(x) \/ Answer(x) PROVE FALSE
  <2>1. PICK l : pc' = [pc EXCEPT ![x] = l]
    BY <1>2 DEF Progress, CacheGet, Hit, Join, Fetch, FetchEnds, StoreEnds, StoreFails,
                ManagedStoreEnds, Track, Settle, Answer, Goto
  <2> QED BY <1>0, <2>1
<1>3. ASSUME NEW p \in Pruner, Prune(p) PROVE FALSE
  <2>1. pc' \in {pc, [pc EXCEPT ![p] = "sweep"], [pc EXCEPT ![p] = "resolved"]}
    BY <1>3 DEF Prune, PruneLook, PruneForget, PruneEnds, Goto
  <2> QED BY <1>0, <2>1
<1>4. ASSUME NEW t \in Sweep, InvalidateAll(t) \/ SweepDel(t) PROVE FALSE
  <2>1. pc' \in {pc, [pc EXCEPT ![t] = "prune"]}
    BY <1>4 DEF InvalidateAll, SweepDel, Goto
  <2> QED BY <1>0, <2>1
<1>5. ASSUME NEW t \in Sweep, SweepClear(t) PROVE t = s
  BY <1>0, <1>5 DEF SweepClear, Goto
<1>6. ASSUME NEW i \in Invalidation,
             InvalidateForget(i) \/ \E j \in Key : InvalidateDel(i, j)
      PROVE  FALSE
  <2>1. PICK l : pc' = [pc EXCEPT ![i] = l]
    BY <1>6 DEF InvalidateForget, InvalidateDel, Goto
  <2> QED BY <1>0, <2>1
<1>7. CASE \/ \E e \in Entry : Register(e)
           \/ Unregister
           \/ \E j \in Key : Evict(j)
           \/ UNCHANGED vars
  BY <1>7 DEF Register, Unregister, Evict, vars
<1> QED BY <1>1, <1>2, <1>3, <1>4, <1>5, <1>6, <1>7 DEF Next, Resume, Progress

LEMMA SweepReachesStep ==
    ASSUME TypeOK, KnownInv, [Next]_vars
    PROVE  SweepReaches'
<1>0. StoredUnderKey /\ RemovalsSafe /\ OwedSettled /\ OnlyRacesEscape /\ SweepReaches
  BY DEF KnownInv
<1> SUFFICES ASSUME NEW s \in Sweep, pc'[s] = "done",
                    NEW k \in owed'[s], k \notin escaped', Own(k)'
             PROVE  FALSE
  BY DEF SweepReaches
<1>1. k \in owed[s] /\ k \in Key
  <2>1. ~InvalidateAll(s)
    <3>1. pc \in [Call \cup Op -> Label] /\ s \in Call \cup Op
      BY TypeParts DEF ControlOK, Op
    <3> QED BY <3>1 DEF InvalidateAll, Goto
  <2>2. owed[s] \subseteq Key
    BY TypeParts DEF TrackingOK
  <2> QED BY <2>1, <2>2, OwedStep
<1>2. \A x \in Call : pc[x] = "stored" => key[x] # k
  BY <1>0, <1>1 DEF OwedSettled
<1>3. ~ \E x \in Call : Track(x) /\ key[x] = k
  BY <1>2 DEF Track
<1>4. Own(k) /\ ~Untracked(k)
  <2>1. cache'[k] # None /\ ~ \E x \in Call : StoredBy(x, k)
    BY DEF Own, StoredBy
  <2>2. /\ cache'[k] = cache[k] /\ cache[k] \in Call
        /\ owner'[cache[k]] = owner[cache[k]]
    BY <1>0, <1>1, <2>1, OwnStep
  <2>3. Own(k)
    BY <2>2 DEF Own
  <2>4. key[cache[k]] = k
    BY <1>0, <1>1, <2>3 DEF Own, StoredUnderKey
  <2> QED BY <1>2, <2>2, <2>3, <2>4 DEF Untracked
<1>5. k \notin escaped
  BY <1>3, EscapedStep
<1>6. CASE pc[s] = "done"
  BY <1>0, <1>1, <1>4, <1>5, <1>6 DEF SweepReaches
<1>7. CASE pc[s] # "done"
  <2>1. SweepClear(s)
    BY <1>7, SweepDone
  <2>2. k \in known
    BY <1>0, <1>1, <1>4, <1>5 DEF OnlyRacesEscape, Untracked
  <2>3. Removing(k)
    BY <2>1, <2>2 DEF SweepClear, Removing
  <2> QED BY <1>0, <1>1, <1>4, <1>5, <2>3 DEF RemovalsSafe
<1> QED BY <1>6, <1>7

LEMMA KnownInvStep == TypeOK /\ KnownInv /\ [Next]_vars => KnownInv'
<1> SUFFICES ASSUME TypeOK, KnownInv, [Next]_vars PROVE KnownInv'
  OBVIOUS
<1>1. StoredUnderKey'
  BY StoredUnderKeyStep DEF KnownInv
<1> QED BY <1>1, RemovalsSafeStep, OwedSettledStep, OnlyRacesEscapeStep, SweepReachesStep DEF KnownInv

LEMMA KnownInvariance == Spec => []KnownInv
  BY KnownInit, KnownInvStep, TypeCorrect, PTL DEF Spec

\* However many prunings, invalidations and sweeps run beside the calls: an
\* entry of the function's is known to invalidateAll(), but for the races and
\* failures that OnlyRacesEscape names.
THEOREM OnlyRacesEscapeCorrect == Spec => []OnlyRacesEscape
<1>1. KnownInv => OnlyRacesEscape
  BY DEF KnownInv
<1> QED BY <1>1, KnownInvariance, PTL

\* A finished invalidateAll() has left no entry of the keys it owed.
THEOREM SweepReachesCorrect == Spec => []SweepReaches
<1>1. KnownInv => SweepReaches
  BY DEF KnownInv
<1> QED BY <1>1, KnownInvariance, PTL

=============================================================================
