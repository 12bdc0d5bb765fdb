-------------------------- MODULE ReadThroughProofs --------------------------
(***************************************************************************)
(* Theorems about ReadThrough, for every set of keys, caches and calls and *)
(* every limit of the table.                                               *)
(***************************************************************************)
EXTENDS ReadThrough, SequenceTheorems, TLAPS

-----------------------------------------------------------------------------
(* Types.                                                                  *)

LEMMA TypeInit == Init => TypeOK
  BY ArgsAssumption DEF Init, TypeOK

LEMMA TypeStep == TypeOK /\ [Next]_vars => TypeOK'
<1> SUFFICES ASSUME TypeOK, [Next]_vars PROVE TypeOK'
  OBVIOUS
<1> USE NoneAssumption
<1>1. ASSUME NEW x \in Call, Bypass(x) \/ BypassFetchEnds(x) \/ Begin(x)
      PROVE  TypeOK'
  <2>1. CASE Bypass(x) \/ Begin(x)
    BY <2>1 DEF TypeOK, Bypass, Begin, Goto, Active, table
  <2>2. CASE BypassFetchEnds(x)
    <3>1. seen' \in [Call -> Call \cup {None}]
      <4>1. seen' \in {seen, [seen EXCEPT ![x] = x], [seen EXCEPT ![x] = None]}
        BY <2>2 DEF BypassFetchEnds
      <4> QED BY <4>1 DEF TypeOK
    <3>2. fault' \in [Call -> {"nothing", "cache", "fetcher"}]
      BY <2>2 DEF TypeOK, BypassFetchEnds
    <3>3. pc[x] = "bypass" /\ (Goto(x, "done") \/ Goto(x, "failed"))
      BY <2>2 DEF BypassFetchEnds
    <3>4. UNCHANGED <<cache, table, arg, joined, timer, removed>>
      BY <2>2 DEF BypassFetchEnds
    <3> QED BY <3>1, <3>2, <3>3, <3>4 DEF TypeOK, Goto, Active, table
  <2> QED BY <1>1, <2>1, <2>2
<1>2. ASSUME NEW x \in Call, CacheGet(x) \/ Hit(x) \/ Join(x) \/ Answer(x)
      PROVE  TypeOK'
  <2>1. CASE CacheGet(x)
    <3>1. cache[arg[x].cache][arg[x].key] \in Call \cup {None}
      BY DEF TypeOK
    <3>2. seen' \in [Call -> Call \cup {None}]
      BY <2>1, <3>1 DEF TypeOK, CacheGet
    <3>3. /\ pc' \in {[pc EXCEPT ![x] = "got"], [pc EXCEPT ![x] = "failed"]}
          /\ fault' \in {fault, [fault EXCEPT ![x] = "cache"]}
      BY <2>1 DEF CacheGet, Goto
    <3> QED BY <2>1, <3>2, <3>3 DEF TypeOK, CacheGet, Active, table
  <2>2. CASE Hit(x)
    BY <2>2 DEF TypeOK, Hit, Goto, Active, table
  <2>3. CASE Join(x)
    BY <2>3 DEF TypeOK, Join, Goto, Active, table
  <2>4. CASE Answer(x)
    BY <2>4 DEF TypeOK, Answer, Goto, Active, table
  <2> QED BY <1>2, <2>1, <2>2, <2>3, <2>4
<1>3. ASSUME NEW x \in Call, Fetch(x) PROVE TypeOK'
  BY <1>3 DEF TypeOK, Fetch, Goto, Active, table
<1>4. ASSUME NEW x \in Call, FetchEnds(x) \/ StoreEnds(x) PROVE TypeOK'
  <2>1. CASE FetchEnds(x)
    <3>1. seen' \in [Call -> Call \cup {None}]
      BY <2>1 DEF TypeOK, FetchEnds
    <3>2. fault' \in [Call -> {"nothing", "cache", "fetcher"}]
      BY <2>1 DEF TypeOK, FetchEnds
    <3>3. Goto(x, "store") \/ Goto(x, "resolved") \/ Goto(x, "rejected")
      BY <2>1 DEF FetchEnds
    <3>4. UNCHANGED <<cache, table, arg, joined, timer, removed>>
      BY <2>1 DEF FetchEnds
    <3> QED BY <3>1, <3>2, <3>3, <3>4 DEF TypeOK, Goto, Active, table
  <2>2. CASE StoreEnds(x)
    <3>1. cache' \in [Cache -> [Key -> Call \cup {None}]]
      <4>1. CASE UNCHANGED cache
        BY <4>1 DEF TypeOK
      <4>2. CASE cache' = [cache EXCEPT ![arg[x].cache][arg[x].key] = seen[x]]
        BY <4>2 DEF TypeOK
      <4> QED BY <2>2, <4>1, <4>2 DEF StoreEnds
    <3>2. pc' = [pc EXCEPT ![x] = "resolved"]
      BY <2>2 DEF StoreEnds, Goto
    <3> QED BY <2>2, <3>1, <3>2 DEF TypeOK, StoreEnds, Active, table
  <2> QED BY <1>4, <2>1, <2>2
<1>5. ASSUME NEW x \in Call, Finish(x) PROVE TypeOK'
  BY <1>5 DEF TypeOK, Finish, Delete, Goto, Active, table
<1>6. ASSUME NEW x \in Call, Timeout(x) PROVE TypeOK'
  BY <1>6 DEF TypeOK, Timeout, Delete, Active
<1>7. ASSUME NEW c \in Cache, NEW k \in Key, Evict(c, k) PROVE TypeOK'
  BY <1>7 DEF TypeOK, Evict, table
<1>8. CASE UNCHANGED vars
  BY <1>8 DEF TypeOK, vars, table
<1> HIDE NoneAssumption
<1> QED BY <1>1, <1>2, <1>3, <1>4, <1>5, <1>6, <1>7, <1>8
     DEF Next, Step, Resume

\* Type correctness of readThrough()'s state.
THEOREM TypeCorrect == Spec => []TypeOK
  BY TypeInit, TypeStep, PTL DEF Spec

-----------------------------------------------------------------------------
(* The table.                                                              *)

\* Nothing that has happened may have taken k's promise out of the table too
\* early or replaced it.
Undisturbed(k) ==
    /\ k \notin removed
    /\ \A z \in Call : fault[z] = "fetcher" => arg[z].key # k

\* The strengthening of SingleFlight: the promise of an undisturbed key is
\* in the table as long as its call is active. (Two calls active for the key
\* would both be there.)
Registered ==
    \A x \in Call : pc[x] \in Active /\ Undisturbed(arg[x].key) => inflight[arg[x].key] = x

\* Nothing of a call has failed before its cache answered; a call waits for a
\* promise of its own key; only the failure of a fetcher makes it fail.
WaitsForKey ==
    /\ \A x \in Call : pc[x] \in {"new", "get"} => fault[x] = "nothing"
    /\ \A x \in Call : pc[x] = "rejected" => fault[x] = "fetcher"
    /\ \A x \in Call : pc[x] = "wait" =>
           /\ arg[joined[x]].key = arg[x].key
           /\ pc[joined[x]] \in Active \cup {"done", "failed"}
           /\ pc[joined[x]] = "failed" => fault[joined[x]] = "fetcher"

TableInv == InflightAlive /\ Registered /\ WaitsForKey

LEMMA TableInit == Init => TableInv
  BY DEF Init, TableInv, InflightAlive, Registered, WaitsForKey, Active

\* Registering x's promise keeps the table exact.
LEMMA FetchKeepsAlive ==
    ASSUME TypeOK, InflightAlive, NEW x \in Call, Fetch(x)
    PROVE  InflightAlive'
<1> USE NoneAssumption
<1>1. pc' = [pc EXCEPT ![x] = "fetch"] /\ arg' = arg /\ pc[x] \notin Active
  BY DEF Fetch, MustFetch, Goto, Active, table
<1>2. \A k \in Key : inflight'[k] \in {inflight[k], None} \/ (k = arg[x].key /\ inflight'[k] = x)
  BY DEF Fetch, TypeOK
<1>3. SUFFICES ASSUME NEW k \in Key, inflight'[k] # None
               PROVE  pc'[inflight'[k]] \in Active /\ arg'[inflight'[k]].key = k
  BY DEF InflightAlive
<1>4. CASE inflight'[k] = inflight[k]
  BY <1>1, <1>3, <1>4 DEF InflightAlive, TypeOK, Active
<1>5. CASE k = arg[x].key /\ inflight'[k] = x
  BY <1>1, <1>5 DEF TypeOK, Active
<1> QED BY <1>2, <1>3, <1>4, <1>5

LEMMA FetchKeepsRegistered ==
    ASSUME TypeOK, TableInv, NEW x \in Call, Fetch(x)
    PROVE  Registered'
<1> USE NoneAssumption
<1>1. pc' = [pc EXCEPT ![x] = "fetch"] /\ arg' = arg /\ fault' = fault
  BY DEF Fetch, Goto
<1>2. PICK pruned \in SUBSET Key :
          /\ removed' = removed \cup pruned
          /\ \A j \in Key : inflight'[j] = IF j = arg[x].key THEN x
                                           ELSE IF j \in pruned THEN None ELSE inflight[j]
  BY DEF Fetch
<1>3. SUFFICES ASSUME NEW y \in Call, pc'[y] \in Active, Undisturbed(arg[y].key)'
               PROVE  inflight'[arg[y].key] = y
  BY <1>1 DEF Registered
<1>4. arg[y].key \in Key /\ arg[y].key \notin pruned /\ Undisturbed(arg[y].key)
  BY <1>1, <1>2, <1>3 DEF Undisturbed, TypeOK
<1>5. CASE y = x
  BY <1>2, <1>4, <1>5
<1>6. CASE y # x /\ arg[y].key # arg[x].key
  BY <1>1, <1>2, <1>3, <1>4, <1>6 DEF TableInv, Registered, TypeOK
<1>7. CASE y # x /\ arg[y].key = arg[x].key
  \* Then y's promise is in the table, and x would have joined it, or has
  \* seen a fetcher fail.
  <2>1. inflight[arg[x].key] = y
    BY <1>1, <1>3, <1>4, <1>7 DEF TableInv, Registered, TypeOK
  <2>2. QED
    BY <2>1, <1>4, <1>7 DEF Fetch, MustFetch, Undisturbed, TableInv, WaitsForKey, TypeOK
<1> QED BY <1>5, <1>6, <1>7

\* A step of x that neither registers nor removes a promise, and that x takes
\* neither into nor out of the active calls, or from one active place to
\* another.
QuietStep(x) ==
    /\ UNCHANGED <<inflight, arg, removed>>
    /\ \A y \in Call \ {x} : pc'[y] = pc[y]
    /\ pc'[x] \in Active <=> pc[x] \in Active
    /\ \A y \in Call : fault[y] = "fetcher" => fault'[y] = "fetcher"

LEMMA QuietKeeps ==
    ASSUME TypeOK, InflightAlive, Registered, NEW x \in Call, QuietStep(x)
    PROVE  InflightAlive' /\ Registered'
<1>1. \A y \in Call : pc'[y] \in Active <=> pc[y] \in Active
  BY DEF QuietStep
<1>2. InflightAlive'
  BY <1>1, NoneAssumption DEF QuietStep, InflightAlive, TypeOK
<1>3. \A y \in Call : Undisturbed(arg[y].key)' => Undisturbed(arg[y].key)
  BY DEF QuietStep, Undisturbed
<1>4. Registered'
  BY <1>1, <1>3 DEF QuietStep, Registered
<1> QED BY <1>2, <1>4

LEMMA QuietSteps ==
    ASSUME TypeOK, WaitsForKey, NEW x \in Call,
           \/ Bypass(x) \/ BypassFetchEnds(x) \/ Begin(x) \/ CacheGet(x) \/ Hit(x)
           \/ Join(x) \/ Answer(x) \/ FetchEnds(x) \/ StoreEnds(x)
    PROVE  QuietStep(x)
<1>1. CASE Bypass(x) \/ Begin(x) \/ Hit(x)
  BY <1>1 DEF Bypass, Begin, Hit, Goto, QuietStep, TypeOK, Active, table
<1>2. CASE BypassFetchEnds(x)
  BY <1>2 DEF BypassFetchEnds, Goto, QuietStep, TypeOK, Active, table
<1>3. CASE CacheGet(x)
  <2>1. pc[x] = "get" /\ (Goto(x, "got") \/ Goto(x, "failed"))
    BY <1>3 DEF CacheGet
  <2>2. fault' \in {fault, [fault EXCEPT ![x] = "cache"]} /\ fault[x] # "fetcher"
    BY <1>3 DEF CacheGet, WaitsForKey
  <2> QED BY <1>3, <2>1, <2>2 DEF CacheGet, Goto, QuietStep, TypeOK, Active, table
<1>4. CASE Join(x) \/ Answer(x)
  BY <1>4 DEF Join, Answer, Goto, QuietStep, TypeOK, Active, table
<1>5. CASE FetchEnds(x)
  BY <1>5 DEF FetchEnds, Goto, QuietStep, TypeOK, Active, table
<1>6. CASE StoreEnds(x)
  BY <1>6 DEF StoreEnds, Goto, QuietStep, TypeOK, Active, table
<1> QED BY <1>1, <1>2, <1>3, <1>4, <1>5, <1>6

\* Taking x's key out of the table when x resumes: whoever's promise it held,
\* no other call of an undisturbed key is active.
LEMMA FinishKeeps ==
    ASSUME TypeOK, TableInv, NEW x \in Call, Finish(x)
    PROVE  InflightAlive' /\ Registered'
<1> USE NoneAssumption
<1>1. /\ \A y \in Call \ {x} : pc'[y] = pc[y]
      /\ pc[x] \in Active /\ pc'[x] \notin Active
      /\ UNCHANGED <<arg, removed, fault>>
  BY DEF Finish, Goto, TypeOK, Active
<1>2. \A k \in Key : inflight'[k] = IF k = arg[x].key THEN None ELSE inflight[k]
  BY DEF Finish, Delete, TypeOK
<1>3. InflightAlive'
  <2>1. \A k \in Key : inflight[k] = x => k = arg[x].key
    BY DEF TableInv, InflightAlive, TypeOK
  <2> QED BY <1>1, <1>2, <2>1 DEF TableInv, InflightAlive, TypeOK
<1>4. Registered'
  <2>1. SUFFICES ASSUME NEW y \in Call, pc'[y] \in Active, Undisturbed(arg[y].key)'
                 PROVE  inflight'[arg[y].key] = y
    BY <1>1 DEF Registered
  <2>2. y # x /\ inflight[arg[y].key] = y /\ Undisturbed(arg[y].key)
    BY <1>1, <2>1 DEF TableInv, Registered, Undisturbed
  <2>3. arg[y].key # arg[x].key
    BY <1>1, <2>2 DEF TableInv, Registered
  <2> QED BY <1>2, <2>2, <2>3 DEF TypeOK
<1> QED BY <1>3, <1>4

LEMMA TimeoutKeeps ==
    ASSUME TypeOK, TableInv, NEW x \in Call, Timeout(x)
    PROVE  InflightAlive' /\ Registered'
<1> USE NoneAssumption
<1>1. \A k \in Key : inflight'[k] = IF k = arg[x].key THEN None ELSE inflight[k]
  BY DEF Timeout, Delete, TypeOK
<1>2. UNCHANGED <<pc, arg, fault>> /\ removed' = removed \cup {arg[x].key}
  BY DEF Timeout
<1>3. InflightAlive'
  BY <1>1, <1>2 DEF TableInv, InflightAlive, TypeOK
<1>4. Registered'
  BY <1>1, <1>2 DEF TableInv, Registered, Undisturbed, TypeOK
<1> QED BY <1>3, <1>4

\* A step that only moves x on its way keeps WaitsForKey.
LEMMA WaitsKeeps ==
    ASSUME TypeOK, TableInv, NEW x \in Call,
           UNCHANGED <<arg, joined>>,
           \A y \in Call \ {x} : pc'[y] = pc[y] /\ fault'[y] = fault[y],
           pc[x] \notin {"done", "failed"}, pc'[x] # "wait",
           pc[x] \in Active => pc'[x] \in Active \cup {"done", "failed"},
           pc[x] \in Active /\ pc'[x] = "failed" => fault'[x] = "fetcher",
           pc'[x] = "rejected" => fault'[x] = "fetcher",
           pc'[x] \in {"new", "get"} => pc[x] = "new" /\ fault'[x] = fault[x]
    PROVE  WaitsForKey'
<1>1. \A y \in Call : pc'[y] = "rejected" => fault'[y] = "fetcher"
  BY DEF TableInv, WaitsForKey
<1>2. ASSUME NEW y \in Call, pc'[y] = "wait"
      PROVE  /\ arg'[joined'[y]].key = arg'[y].key
             /\ pc'[joined'[y]] \in Active \cup {"done", "failed"}
             /\ pc'[joined'[y]] = "failed" => fault'[joined'[y]] = "fetcher"
  <2>1. y # x /\ pc[y] = "wait" /\ joined[y] \in Call
    BY <1>2 DEF TypeOK
  <2>2. /\ arg[joined[y]].key = arg[y].key
        /\ pc[joined[y]] \in Active \cup {"done", "failed"}
        /\ pc[joined[y]] = "failed" => fault[joined[y]] = "fetcher"
    BY <2>1 DEF TableInv, WaitsForKey
  <2>3. CASE joined[y] = x
    BY <2>1, <2>2, <2>3
  <2>4. CASE joined[y] # x
    BY <2>1, <2>2, <2>4
  <2> QED BY <2>3, <2>4
<1>3. \A y \in Call : pc'[y] \in {"new", "get"} => fault'[y] = "nothing"
  BY DEF TableInv, WaitsForKey
<1> QED BY <1>1, <1>2, <1>3 DEF WaitsForKey

LEMMA WaitsStep == TypeOK /\ TableInv /\ [Next]_vars => WaitsForKey'
<1> SUFFICES ASSUME TypeOK, TableInv, [Next]_vars PROVE WaitsForKey'
  OBVIOUS
<1>1. ASSUME NEW x \in Call, Bypass(x) \/ Begin(x) \/ Hit(x) PROVE WaitsForKey'
  BY <1>1, WaitsKeeps DEF TypeOK, Bypass, Begin, Hit, Goto, Active
<1>2. ASSUME NEW x \in Call, BypassFetchEnds(x) PROVE WaitsForKey'
  BY <1>2, WaitsKeeps DEF TypeOK, BypassFetchEnds, Goto, Active
<1>3. ASSUME NEW x \in Call, CacheGet(x) PROVE WaitsForKey'
  <2>1. pc[x] = "get" /\ (Goto(x, "got") \/ Goto(x, "failed"))
    BY <1>3 DEF CacheGet
  <2>2. fault' \in {fault, [fault EXCEPT ![x] = "cache"]}
    BY <1>3 DEF CacheGet
  <2> QED BY <1>3, <2>1, <2>2, WaitsKeeps DEF TypeOK, CacheGet, Goto, Active
<1>4. ASSUME NEW x \in Call, Join(x) PROVE WaitsForKey'
  BY <1>4, NoneAssumption
     DEF TableInv, InflightAlive, WaitsForKey, TypeOK, Join, Goto, Active
<1>5. ASSUME NEW x \in Call, Answer(x) PROVE WaitsForKey'
  BY <1>5, WaitsKeeps DEF TypeOK, Answer, Goto, Active
<1>6. ASSUME NEW x \in Call, Fetch(x) PROVE WaitsForKey'
  BY <1>6, WaitsKeeps DEF TypeOK, Fetch, MustFetch, Goto, Active
<1>7. ASSUME NEW x \in Call, FetchEnds(x) PROVE WaitsForKey'
  <2>1. /\ pc[x] = "fetch"
        /\ \/ Goto(x, "store") /\ fault' = fault
           \/ Goto(x, "resolved") /\ fault' = fault
           \/ Goto(x, "rejected") /\ fault' = [fault EXCEPT ![x] = "fetcher"]
    BY <1>7 DEF FetchEnds
  <2>2. UNCHANGED <<arg, joined>>
    BY <1>7 DEF FetchEnds
  <2>3. \A y \in Call \ {x} : pc'[y] = pc[y] /\ fault'[y] = fault[y]
    BY <2>1 DEF TypeOK, Goto
  <2>4. /\ pc'[x] \in {"store", "resolved", "rejected"}
        /\ pc'[x] = "rejected" => fault'[x] = "fetcher"
    BY <2>1 DEF TypeOK, Goto
  <2>5. /\ pc[x] \notin {"done", "failed"} /\ pc'[x] # "wait"
        /\ pc'[x] \in Active /\ pc'[x] # "failed"
        /\ pc'[x] \notin {"new", "get"}
    BY <2>1, <2>4 DEF Active
  <2> QED BY <2>2, <2>3, <2>4, <2>5, WaitsKeeps
<1>8. ASSUME NEW x \in Call, StoreEnds(x) PROVE WaitsForKey'
  BY <1>8, WaitsKeeps DEF TypeOK, StoreEnds, Goto, Active
<1>9. ASSUME NEW x \in Call, Finish(x) PROVE WaitsForKey'
  BY <1>9, WaitsKeeps DEF TableInv, WaitsForKey, TypeOK, Finish, Goto, Active
<1>10. ASSUME NEW x \in Call, Timeout(x) PROVE WaitsForKey'
  BY <1>10 DEF TableInv, WaitsForKey, Timeout
<1>11. ASSUME NEW c \in Cache, NEW k \in Key, Evict(c, k) PROVE WaitsForKey'
  BY <1>11 DEF TableInv, WaitsForKey, Evict
<1>12. CASE UNCHANGED vars
  BY <1>12 DEF TableInv, WaitsForKey, vars
<1> QED BY <1>1, <1>2, <1>3, <1>4, <1>5, <1>6, <1>7, <1>8, <1>9, <1>10, <1>11, <1>12
     DEF Next, Step, Resume

LEMMA TableStep == TypeOK /\ TableInv /\ [Next]_vars => TableInv'
<1> SUFFICES ASSUME TypeOK, TableInv, [Next]_vars PROVE InflightAlive' /\ Registered'
  BY WaitsStep DEF TableInv
<1>1. ASSUME NEW x \in Call, QuietStep(x) PROVE InflightAlive' /\ Registered'
  BY <1>1, QuietKeeps DEF TableInv
<1>2. ASSUME NEW x \in Call, Fetch(x) PROVE InflightAlive' /\ Registered'
  BY <1>2, FetchKeepsAlive, FetchKeepsRegistered DEF TableInv
<1>3. ASSUME NEW x \in Call, Finish(x) PROVE InflightAlive' /\ Registered'
  BY <1>3, FinishKeeps
<1>4. ASSUME NEW x \in Call, Timeout(x) PROVE InflightAlive' /\ Registered'
  BY <1>4, TimeoutKeeps
<1>5. ASSUME NEW c \in Cache, NEW k \in Key, Evict(c, k)
      PROVE  InflightAlive' /\ Registered'
  BY <1>5 DEF TableInv, InflightAlive, Registered, Undisturbed, Evict, table
<1>6. CASE UNCHANGED vars
  BY <1>6 DEF TableInv, InflightAlive, Registered, Undisturbed, vars, table
<1> QED BY <1>1, <1>2, <1>3, <1>4, <1>5, <1>6, QuietSteps DEF TableInv, Next, Step, Resume

\* No entry of the table outlives its promise: what a call joins is running.
THEOREM InflightAliveCorrect == Spec => []InflightAlive
<1>1. TypeOK /\ TableInv /\ [Next]_vars => (TypeOK /\ TableInv)'
  BY TypeStep, TableStep
<1>2. Init => TypeOK /\ TableInv
  BY TypeInit, TableInit
<1>3. TableInv => InflightAlive
  BY DEF TableInv
<1> QED BY <1>1, <1>2, <1>3, PTL DEF Spec

\* One fetch at a time for a key, unless a fetcher failed or the table lost
\* the key.
THEOREM SingleFlightCorrect == Spec => []SingleFlight
<1>1. TypeOK /\ TableInv /\ [Next]_vars => (TypeOK /\ TableInv)'
  BY TypeStep, TableStep
<1>2. Init => TypeOK /\ TableInv
  BY TypeInit, TableInit
<1>3. TableInv => SingleFlight
  BY DEF TableInv, Registered, Undisturbed, SingleFlight
<1> QED BY <1>1, <1>2, <1>3, PTL DEF Spec

-----------------------------------------------------------------------------
(* The order of the table.                                                 *)

\* The order names each registered key once: otherwise dropping the oldest
\* keys from the table would not drop them from the order.
Once == \A i, j \in 1..Len(order) : order[i] = order[j] => i = j

OrderInv == TableBounded /\ Once

\* Taking out one place moves up those behind it.
LEMMA RemoveAtPlaces ==
    ASSUME NEW S, NEW s \in Seq(S), NEW i \in 1..Len(s)
    PROVE  /\ RemoveAt(s, i) \in Seq(S)
           /\ Len(RemoveAt(s, i)) = Len(s) - 1
           /\ \A j \in 1..(Len(s) - 1) :
                  RemoveAt(s, i)[j] = IF j < i THEN s[j] ELSE s[j + 1]
<1> DEFINE front == SubSeq(s, 1, i - 1)
           back  == SubSeq(s, i + 1, Len(s))
<1>1. Len(s) \in Nat
  BY LenProperties
<1>2. \A j \in 1..Len(s) : s[j] \in S
  BY ElementOfSeq
<1>3. /\ front \in Seq(S)
      /\ Len(front) = i - 1
      /\ \A j \in 1..(i - 1) : front[j] = s[j]
  <2>1. \A j \in 1..(i - 1) : s[j] \in S
    BY <1>1, <1>2
  <2>2. /\ front \in Seq(S)
        /\ Len(front) = IF 1 <= i - 1 THEN (i - 1) - 1 + 1 ELSE 0
        /\ \A j \in 1..((i - 1) - 1 + 1) : front[j] = s[1 + j - 1]
    BY <1>1, <2>1, SubSeqProperties
  <2> QED BY <1>1, <2>2
<1>4. /\ back \in Seq(S)
      /\ Len(back) = Len(s) - i
      /\ \A j \in 1..(Len(s) - i) : back[j] = s[i + j]
  <2>1. \A j \in (i + 1)..Len(s) : s[j] \in S
    BY <1>1, <1>2
  <2>2. /\ back \in Seq(S)
        /\ Len(back) = IF i + 1 <= Len(s) THEN Len(s) - (i + 1) + 1 ELSE 0
        /\ \A j \in 1..(Len(s) - (i + 1) + 1) : back[j] = s[(i + 1) + j - 1]
    BY <1>1, <2>1, SubSeqProperties
  <2>3. \A j \in 1..(Len(s) - i) : back[j] = s[i + j]
    <3> TAKE j \in 1..(Len(s) - i)
    <3>1. (i + 1) + j - 1 = i + j /\ j \in 1..(Len(s) - (i + 1) + 1)
      BY <1>1
    <3> QED BY <2>2, <3>1
  <2> QED BY <1>1, <2>2, <2>3
<1> HIDE DEF front, back
<1>5. /\ front \o back \in Seq(S)
      /\ Len(front \o back) = Len(s) - 1
      /\ \A j \in 1..(Len(s) - 1) :
             (front \o back)[j] = IF j <= i - 1 THEN front[j] ELSE back[j - (i - 1)]
  <2>1. /\ front \o back \in Seq(S)
        /\ Len(front \o back) = Len(front) + Len(back)
        /\ \A j \in 1..(Len(front) + Len(back)) :
               (front \o back)[j] = IF j <= Len(front) THEN front[j] ELSE back[j - Len(front)]
    BY <1>3, <1>4, ConcatProperties
  <2>2. Len(front) + Len(back) = Len(s) - 1
    BY <1>1, <1>3, <1>4
  <2>3. \A j \in 1..(Len(s) - 1) :
            (front \o back)[j] = IF j <= Len(front) THEN front[j] ELSE back[j - Len(front)]
    BY <2>1, <2>2
  <2> QED BY <1>3, <2>1, <2>2, <2>3
<1>6. \A j \in 1..(Len(s) - 1) : (front \o back)[j] = IF j < i THEN s[j] ELSE s[j + 1]
  <2> TAKE j \in 1..(Len(s) - 1)
  <2>1. CASE j < i
    BY <1>1, <1>3, <1>5, <2>1
  <2>2. CASE ~(j < i)
    <3>1. j - (i - 1) \in 1..(Len(s) - i) /\ i + (j - (i - 1)) = j + 1 /\ ~(j <= i - 1)
      BY <1>1, <2>2
    <3> QED BY <1>1, <1>4, <1>5, <2>2, <3>1
  <2> QED BY <2>1, <2>2
<1> QED BY <1>5, <1>6 DEF RemoveAt, front, back

\* A key leaves the table and the order together.
LEMMA DeleteKeepsOrder ==
    ASSUME TypeOK, OrderInv, NEW k \in Key, Delete(k)
    PROVE  OrderInv'
<1> USE NoneAssumption, InflightAssumption
<1>1. \A j \in Key : inflight'[j] = IF j = k THEN None ELSE inflight[j]
  BY DEF Delete, TypeOK
<1>2. order \in Seq(Key) /\ Len(order) \in Nat /\ Len(order) <= MaxInflight
  BY LenProperties DEF OrderInv, TableBounded
<1>3. CASE inflight[k] = None /\ order' = order
  BY <1>1, <1>3 DEF OrderInv, TableBounded, Once
<1>4. CASE \E i \in 1..Len(order) : order[i] = k /\ order' = RemoveAt(order, i)
  <2>1. PICK i \in 1..Len(order) : order[i] = k /\ order' = RemoveAt(order, i)
    BY <1>4
  <2>2. /\ order' \in Seq(Key)
        /\ Len(order') = Len(order) - 1
        /\ \A j \in 1..(Len(order) - 1) :
               order'[j] = IF j < i THEN order[j] ELSE order[j + 1]
    BY <1>2, <2>1, RemoveAtPlaces
  <2>3. ASSUME NEW p \in 1..(Len(order) - 1), NEW q \in 1..(Len(order) - 1),
               order'[p] = order'[q]
        PROVE  p = q
    BY <1>2, <2>2, <2>3 DEF OrderInv, Once
  <2>4. ASSUME NEW j \in Key
        PROVE  (\E p \in 1..(Len(order) - 1) : order'[p] = j) <=> inflight'[j] # None
    <3>1. ASSUME NEW p \in 1..(Len(order) - 1), order'[p] = j
          PROVE  inflight'[j] # None
      <4>1. PICK q \in 1..Len(order) : q # i /\ order[q] = j
        BY <1>2, <2>2, <3>1
      <4> QED BY <1>1, <2>1, <4>1 DEF OrderInv, TableBounded, Once
    <3>2. ASSUME inflight'[j] # None
          PROVE  \E p \in 1..(Len(order) - 1) : order'[p] = j
      <4>1. j # k /\ inflight[j] # None
        BY <1>1, <3>2
      <4>2. PICK q \in 1..Len(order) : order[q] = j
        BY <4>1 DEF OrderInv, TableBounded
      <4>3. q # i
        BY <2>1, <4>1, <4>2
      <4>4. CASE q < i
        BY <1>2, <2>2, <4>2, <4>4
      <4>5. CASE q > i
        <5>1. q - 1 \in 1..(Len(order) - 1) /\ ~(q - 1 < i) /\ (q - 1) + 1 = q
          BY <1>2, <4>5
        <5> QED BY <2>2, <4>2, <5>1
      <4> QED BY <1>2, <4>3, <4>4, <4>5
    <3> QED BY <3>1, <3>2
  <2> QED BY <1>2, <2>2, <2>3, <2>4 DEF OrderInv, TableBounded, Once
<1> QED BY <1>3, <1>4 DEF Delete

\* The pruning takes something from a full table, and never more than is there.
LEMMA Prunes ==
    ASSUME Len(order) \in Nat, Len(order) <= MaxInflight
    PROVE  /\ ToPrune \in 0..Len(order)
           /\ Len(order) - ToPrune < MaxInflight
<1> DEFINE n == Len(order)
<1> HIDE DEF n
<1>1. ASSUME NEW m \in Nat, m > 0 PROVE (m + 9) \div 10 \in 1..m
  <2>1. /\ (m + 9) \div 10 \in Int
        /\ 10 * ((m + 9) \div 10) <= m + 9
        /\ m + 9 < 10 * ((m + 9) \div 10) + 10
    BY SMTT(30)
  <2> QED BY <1>1, <2>1, SMTT(30)
<1>2. n \in Nat /\ n <= MaxInflight
  BY DEF n
<1>3. CASE n >= MaxInflight
  <2>1. n > 0
    BY <1>2, <1>3, InflightAssumption
  <2>2. (n + 9) \div 10 \in 1..n
    BY <1>1, <1>2, <2>1
  <2>3. ToPrune = (n + 9) \div 10
    BY <1>3 DEF ToPrune, n
  <2> QED BY <1>2, <2>2, <2>3, InflightAssumption DEF n
<1>4. CASE ~(n >= MaxInflight)
  <2>1. ToPrune = 0
    BY <1>4 DEF ToPrune, n
  <2> QED BY <1>2, <1>4, <2>1, InflightAssumption DEF n
<1> QED BY <1>3, <1>4

\* Registering a promise: the oldest keys leave the table and the order
\* together, which makes room for one more.
LEMMA FetchKeepsOrder ==
    ASSUME TypeOK, OrderInv, NEW x \in Call, Fetch(x)
    PROVE  OrderInv'
<1> USE NoneAssumption, InflightAssumption
<1> DEFINE k == arg[x].key
           rest == SubSeq(order, ToPrune + 1, Len(order))
<1>1. k \in Key
  BY DEF TypeOK
<1>2. order \in Seq(Key) /\ Len(order) \in Nat /\ Len(order) <= MaxInflight
  BY LenProperties DEF OrderInv, TableBounded
<1>3. ToPrune \in 0..Len(order) /\ Len(order) - ToPrune < MaxInflight
  BY <1>2, Prunes
<1>4. /\ rest \in Seq(Key)
      /\ Len(rest) = Len(order) - ToPrune
      /\ \A i \in 1..(Len(order) - ToPrune) : rest[i] = order[ToPrune + i]
  <2>1. \A i \in (ToPrune + 1)..Len(order) : order[i] \in Key
    BY <1>2, <1>3, ElementOfSeq
  <2>2. /\ rest \in Seq(Key)
        /\ Len(rest) = IF ToPrune + 1 <= Len(order) THEN Len(order) - (ToPrune + 1) + 1 ELSE 0
        /\ \A i \in 1..(Len(order) - (ToPrune + 1) + 1) : rest[i] = order[(ToPrune + 1) + i - 1]
    BY <1>2, <1>3, <2>1, SubSeqProperties
  <2>3. ASSUME NEW i \in 1..(Len(order) - ToPrune) PROVE rest[i] = order[ToPrune + i]
    <3>1. (ToPrune + 1) + i - 1 = ToPrune + i /\ i \in 1..(Len(order) - (ToPrune + 1) + 1)
      BY <1>2, <1>3
    <3> QED BY <2>2, <3>1
  <2> QED BY <1>2, <1>3, <2>2, <2>3
<1>5. /\ \A j \in Key : inflight'[j] =
             IF j = k THEN x
             ELSE IF \E i \in 1..ToPrune : order[i] = j THEN None ELSE inflight[j]
      /\ order' = IF \E i \in 1..Len(rest) : rest[i] = k THEN rest ELSE Append(rest, k)
  BY DEF Fetch
<1> HIDE DEF k, rest
\* What is left in the order is what is left in the table.
<1>6. ASSUME NEW i \in 1..Len(rest), NEW j \in 1..Len(rest), rest[i] = rest[j] PROVE i = j
  <2>1. ToPrune + i \in 1..Len(order) /\ ToPrune + j \in 1..Len(order)
    BY <1>2, <1>3, <1>4
  <2>2. ToPrune + i = ToPrune + j
    BY <1>4, <1>6, <2>1 DEF OrderInv, Once
  <2> QED BY <1>2, <1>3, <2>2
<1>7. ASSUME NEW j \in Key
      PROVE  (\E i \in 1..Len(rest) : rest[i] = j)
             <=> inflight[j] # None /\ ~\E i \in 1..ToPrune : order[i] = j
  <2>1. ASSUME NEW i \in 1..Len(rest), rest[i] = j
        PROVE  inflight[j] # None /\ ~\E q \in 1..ToPrune : order[q] = j
    <3>1. ToPrune + i \in 1..Len(order) /\ order[ToPrune + i] = j
      BY <1>2, <1>3, <1>4, <2>1
    <3>2. ASSUME NEW q \in 1..ToPrune, order[q] = j PROVE FALSE
      <4>1. q \in 1..Len(order) /\ q # ToPrune + i
        BY <1>2, <1>3, <1>4
      <4> QED BY <3>1, <3>2, <4>1 DEF OrderInv, Once
    <3> QED BY <3>1, <3>2 DEF OrderInv, TableBounded
  <2>2. ASSUME inflight[j] # None, ~\E i \in 1..ToPrune : order[i] = j
        PROVE  \E i \in 1..Len(rest) : rest[i] = j
    <3>1. PICK q \in 1..Len(order) : order[q] = j
      BY <2>2 DEF OrderInv, TableBounded
    <3>2. q - ToPrune \in 1..Len(rest) /\ ToPrune + (q - ToPrune) = q
      BY <1>2, <1>3, <1>4, <2>2, <3>1
    <3> QED BY <1>4, <3>1, <3>2
  <2> QED BY <2>1, <2>2
<1>8. CASE \E i \in 1..Len(rest) : rest[i] = k
  <2>1. order' = rest
    BY <1>5, <1>8
  <2>2. Len(rest) <= MaxInflight
    BY <1>2, <1>3, <1>4
  <2>3. ASSUME NEW j \in Key
        PROVE  (\E i \in 1..Len(rest) : rest[i] = j) <=> inflight'[j] # None
    BY <1>1, <1>5, <1>7, <1>8
  <2> QED BY <1>4, <1>6, <2>1, <2>2, <2>3 DEF OrderInv, TableBounded, Once
<1>9. CASE ~\E i \in 1..Len(rest) : rest[i] = k
  <2>1. order' = Append(rest, k)
    BY <1>5, <1>9
  <2>2. Len(rest) \in Nat
    BY <1>2, <1>3, <1>4
  <2>3. /\ order' \in Seq(Key)
        /\ Len(order') = Len(rest) + 1
        /\ \A i \in 1..Len(rest) : order'[i] = rest[i]
        /\ order'[Len(rest) + 1] = k
    BY <1>1, <1>4, <2>1, AppendProperties
  <2>4. Len(order') <= MaxInflight
    BY <1>2, <1>3, <1>4, <2>3
  <2>5. ASSUME NEW i \in 1..(Len(rest) + 1), NEW j \in 1..(Len(rest) + 1), order'[i] = order'[j]
        PROVE  i = j
    BY <1>6, <1>9, <2>2, <2>3, <2>5
  <2>6. ASSUME NEW j \in Key
        PROVE  (\E i \in 1..(Len(rest) + 1) : order'[i] = j) <=> inflight'[j] # None
    <3>1. (\E i \in 1..(Len(rest) + 1) : order'[i] = j)
          <=> (j = k \/ \E i \in 1..Len(rest) : rest[i] = j)
      BY <2>2, <2>3
    <3>2. inflight'[j] # None
          <=> (j = k \/ (inflight[j] # None /\ ~\E i \in 1..ToPrune : order[i] = j))
      BY <1>5
    <3> QED BY <1>7, <3>1, <3>2
  <2> QED BY <2>3, <2>4, <2>5, <2>6 DEF OrderInv, TableBounded, Once
<1> QED BY <1>8, <1>9

LEMMA OrderInit == Init => OrderInv
<1> SUFFICES ASSUME Init PROVE OrderInv
  OBVIOUS
<1>1. order \in Seq(Key) /\ Len(order) = 0 /\ \A k \in Key : inflight[k] = None
  BY EmptySeq DEF Init
<1> QED BY <1>1, InflightAssumption DEF OrderInv, TableBounded, Once

LEMMA OrderStep == TypeOK /\ OrderInv /\ [Next]_vars => OrderInv'
<1> SUFFICES ASSUME TypeOK, OrderInv, [Next]_vars PROVE OrderInv'
  OBVIOUS
<1>1. ASSUME UNCHANGED table PROVE OrderInv'
  BY <1>1 DEF OrderInv, TableBounded, Once, table
<1>2. ASSUME NEW x \in Call,
             \/ Bypass(x) \/ BypassFetchEnds(x) \/ Begin(x) \/ CacheGet(x) \/ Hit(x)
             \/ Join(x) \/ Answer(x) \/ FetchEnds(x) \/ StoreEnds(x)
      PROVE  OrderInv'
  <2>1. UNCHANGED table
    BY <1>2 DEF Bypass, BypassFetchEnds, Begin, CacheGet, Hit, Join, Answer, FetchEnds, StoreEnds
  <2> QED BY <1>1, <2>1
<1>3. ASSUME NEW x \in Call, Fetch(x) PROVE OrderInv'
  BY <1>3, FetchKeepsOrder
<1>4. ASSUME NEW x \in Call, Finish(x) \/ Timeout(x) PROVE OrderInv'
  <2>1. arg[x].key \in Key /\ Delete(arg[x].key)
    BY <1>4 DEF Finish, Timeout, TypeOK
  <2> QED BY <2>1, DeleteKeepsOrder
<1>5. ASSUME NEW c \in Cache, NEW k \in Key, Evict(c, k) PROVE OrderInv'
  BY <1>1, <1>5 DEF Evict
<1>6. CASE UNCHANGED vars
  BY <1>1, <1>6 DEF vars
<1> QED BY <1>2, <1>3, <1>4, <1>5, <1>6 DEF Next, Step, Resume

\* The table stays within INFLIGHT_MAX_SIZE, whatever it is, and its order is
\* that of the registered keys.
THEOREM TableBoundedCorrect == Spec => []TableBounded
<1>1. OrderInv => TableBounded
  BY DEF OrderInv
<1> QED BY <1>1, TypeInit, TypeStep, OrderInit, OrderStep, PTL DEF Spec

-----------------------------------------------------------------------------
(* What is stored, and who fails.                                          *)

\* A value on its way to a cache was fetched by the call that stores it.
StoreInv ==
    StoresItsOwn /\ \A x \in Call : pc[x] = "store" => seen[x] = x

\* The cache of an instance holds only what calls on this instance fetched.
THEOREM StoresItsOwnCorrect == Spec => []StoresItsOwn
<1>1. Init => StoreInv
  BY DEF Init, StoreInv, StoresItsOwn
<1>2. TypeOK /\ StoreInv /\ [Next]_vars => StoreInv'
  <2> SUFFICES ASSUME TypeOK, StoreInv, [Next]_vars PROVE StoreInv'
    OBVIOUS
  <2> USE NoneAssumption
  <2>1. ASSUME NEW x \in Call, Bypass(x) \/ Begin(x) \/ Hit(x) \/ Join(x)
        PROVE  StoreInv'
    BY <2>1 DEF StoreInv, StoresItsOwn, TypeOK, Bypass, Begin, Hit, Join, Goto
  <2>2. ASSUME NEW x \in Call, BypassFetchEnds(x) PROVE StoreInv'
    BY <2>2 DEF StoreInv, StoresItsOwn, TypeOK, BypassFetchEnds, Goto
  <2>3. ASSUME NEW x \in Call, CacheGet(x) \/ Answer(x) PROVE StoreInv'
    BY <2>3 DEF StoreInv, StoresItsOwn, TypeOK, CacheGet, Answer, Goto
  <2>4. ASSUME NEW x \in Call, Fetch(x) PROVE StoreInv'
    BY <2>4 DEF StoreInv, StoresItsOwn, TypeOK, Fetch, Goto
  <2>5. ASSUME NEW x \in Call, FetchEnds(x) PROVE StoreInv'
    BY <2>5 DEF StoreInv, StoresItsOwn, TypeOK, FetchEnds, Goto
  <2>6. ASSUME NEW x \in Call, StoreEnds(x) PROVE StoreInv'
    <3>1. \A y \in Call : pc'[y] = "store" => seen'[y] = y
      BY <2>6 DEF StoreInv, TypeOK, StoreEnds, Goto
    <3>2. \A c \in Cache, k \in Key :
              \/ cache'[c][k] = cache[c][k]
              \/ arg[x] = [cache |-> c, key |-> k] /\ cache'[c][k] = x
      BY <2>6 DEF StoreInv, TypeOK, StoreEnds
    <3> QED BY <2>6, <3>1, <3>2 DEF StoreInv, StoresItsOwn, StoreEnds
  <2>7. ASSUME NEW x \in Call, Finish(x) PROVE StoreInv'
    BY <2>7 DEF StoreInv, StoresItsOwn, TypeOK, Finish, Goto
  <2>8. ASSUME NEW x \in Call, Timeout(x) PROVE StoreInv'
    BY <2>8 DEF StoreInv, StoresItsOwn, Timeout
  <2>9. ASSUME NEW c \in Cache, NEW k \in Key, Evict(c, k) PROVE StoreInv'
    BY <2>9 DEF StoreInv, StoresItsOwn, TypeOK, Evict
  <2>10. CASE UNCHANGED vars
    BY <2>10 DEF StoreInv, StoresItsOwn, vars
  <2> QED BY <2>1, <2>2, <2>3, <2>4, <2>5, <2>6, <2>7, <2>8, <2>9, <2>10
       DEF Next, Step, Resume
<1>3. StoreInv => StoresItsOwn
  BY DEF StoreInv
<1> QED BY <1>1, <1>2, <1>3, TypeInit, TypeStep, PTL DEF Spec

=============================================================================
