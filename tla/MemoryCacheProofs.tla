-------------------------- MODULE MemoryCacheProofs --------------------------
(***************************************************************************)
(* Theorems about MemoryCache, for every set of keys and tags, every size  *)
(* and ttl, and every limit.                                               *)
(***************************************************************************)
EXTENDS MemoryCache, FiniteSetTheorems, TLAPS

-----------------------------------------------------------------------------
(* What the pure functions on caches return.                               *)

CacheOK(c) ==
    /\ c = [store |-> c.store, older |-> c.older, tags |-> c.tags, mem |-> c.mem]
    /\ DOMAIN c.store \subseteq Key
    /\ c.store \in [DOMAIN c.store -> Entry]
    /\ c.older \in [Key -> SUBSET (DOMAIN c.store)]
    /\ c.tags \in [Tag -> SUBSET Key]

\* New entries for some keys of a list.
NewOK(ks, new) ==
    /\ ks \in Seq(Key)
    /\ \A i, j \in 1..Len(ks) : ks[i] = ks[j] => i = j
    /\ DOMAIN new \subseteq Elems(ks)
    /\ new \in [DOMAIN new -> Entry]

\* The keys of a list are keys.
LEMMA ElemsType == \A ks \in Seq(Key) : Elems(ks) \subseteq Key
  BY DEF Elems

\* In a list without repetitions, of two keys exactly one is the earlier.
LEMMA EarlierIsOrder ==
    ASSUME NEW ks \in Seq(Key),
           \A i, j \in 1..Len(ks) : ks[i] = ks[j] => i = j
    PROVE  /\ \A k \in Elems(ks) : Earlier(ks, k) \subseteq Elems(ks) \ {k}
           /\ \A j, k \in Elems(ks) : j # k =>
                (j \in Earlier(ks, k) <=> k \notin Earlier(ks, j))
           /\ \A i, j, k \in Elems(ks) :
                i \in Earlier(ks, j) /\ j \in Earlier(ks, k) => i \in Earlier(ks, k)
<1>1. \A j, k : j \in Earlier(ks, k) <=>
          \E m, n \in 1..Len(ks) : m < n /\ ks[m] = j /\ ks[n] = k
  BY DEF Earlier
<1>2. \A k \in Elems(ks) : Earlier(ks, k) \subseteq Elems(ks) \ {k}
  BY <1>1 DEF Elems
<1>3. \A j, k \in Elems(ks) : j # k =>
          (j \in Earlier(ks, k) <=> k \notin Earlier(ks, j))
  BY <1>1 DEF Elems
<1>4. \A i, j, k \in Elems(ks) :
          i \in Earlier(ks, j) /\ j \in Earlier(ks, k) => i \in Earlier(ks, k)
  BY <1>1 DEF Elems
<1> QED BY <1>2, <1>3, <1>4

\* Deleting entries leaves a well-formed cache without them, and the other
\* entries as they were.
LEMMA RemoveOK ==
    ASSUME NEW c, CacheOK(c), NEW D, NEW r, r = Remove(c, D)
    PROVE  CacheOK(r) /\ Stored(r) = Stored(c) \ D
  BY DEF CacheOK, Remove, Stored

LEMMA RemoveStore ==
    ASSUME NEW c, CacheOK(c), NEW D, NEW r, r = Remove(c, D)
    PROVE  \A k \in Stored(c) \ D : r.store[k] = c.store[k]
  BY DEF CacheOK, Remove, Stored

LEMMA RemoveOlder ==
    ASSUME NEW c, CacheOK(c), NEW D, NEW r, r = Remove(c, D)
    PROVE  r.older = [k \in Key |-> IF k \in D THEN {} ELSE c.older[k] \ D]
  BY DEF Remove

\* Inserting entries leaves a well-formed cache with them.
LEMMA InsertOK ==
    ASSUME NEW c, CacheOK(c), NEW ks, NEW new, NewOK(ks, new),
           DOMAIN new \cap Stored(c) = {}, NEW r, r = Insert(c, ks, new)
    PROVE  CacheOK(r) /\ Stored(r) = Stored(c) \cup DOMAIN new
<1>1. Elems(ks) \subseteq Key
  BY ElemsType DEF NewOK
<1> QED BY <1>1 DEF CacheOK, NewOK, Insert, Stored, MoveToEnd

LEMMA InsertStore ==
    ASSUME NEW c, NEW ks, NEW new, NEW r, r = Insert(c, ks, new)
    PROVE  \A k \in Stored(c) \cup DOMAIN new :
               r.store[k] = IF k \in DOMAIN new THEN new[k] ELSE c.store[k]
  BY DEF Insert, Stored

LEMMA InsertOlder ==
    ASSUME NEW c, NEW ks, NEW new, NEW r, r = Insert(c, ks, new)
    PROVE  r.older = MoveToEnd(c, ks, DOMAIN new)
  BY DEF Insert

\* Refreshing entries changes nothing but their place in the map.
LEMMA RefreshOK ==
    ASSUME NEW c, CacheOK(c), NEW ks \in Seq(Key), NEW D, D \subseteq Stored(c)
    PROVE  /\ CacheOK(Refresh(c, ks, D))
           /\ Refresh(c, ks, D).store = c.store
           /\ Refresh(c, ks, D).tags = c.tags
           /\ Refresh(c, ks, D).older = MoveToEnd(c, ks, D)
  BY DEF CacheOK, Refresh, MoveToEnd, Stored

\* The expiry the code computes is the end of life its caller means.
LEMMA LifeEndIsExpiry ==
    ASSUME NEW ttl \in TtlArg, now \in Nat
    PROVE  ExpireAt(ttl) = LifeEnd(ttl) /\ LifeEnd(ttl) \in Nat \cup {Never}
<1> DEFINE n == IF ttl = NoTtl THEN DefaultTtl ELSE ttl
<1>1. n \in Int
  BY TtlAssumption
<1> QED BY <1>1 DEF LifeEnd, ExpireAt, ResolveTtl, Never

\* The entry a write creates is an entry, with its caller's tags and end of life.
LEMMA NewEntryType ==
    ASSUME NEW size \in Size, NEW ttl \in TtlArg, NEW tags \in SUBSET Tag, now \in Nat
    PROVE  /\ NewEntry(size, ttl, tags) \in Entry
           /\ NewEntry(size, ttl, tags).tags = tags
           /\ NewEntry(size, ttl, tags).expireAt = LifeEnd(ttl)
<1>1. ExpireAt(ttl) = LifeEnd(ttl) /\ ExpireAt(ttl) \in Nat \cup {Never}
  BY LifeEndIsExpiry
<1> QED BY <1>1, LimitAssumption DEF NewEntry, Entry

-----------------------------------------------------------------------------
(* Sums of sizes.                                                          *)

\* The units of an entry.
Units(m, D) == UNION {{k} \X (1..m[k].size) : k \in D}

\* Entries with sizes.
Sized(m, D) == IsFiniteSet(D) /\ \A k \in D : m[k].size \in Nat

LEMMA TotalIsUnits == \A m, D : Total(m, D) = Cardinality(Units(m, D))
  BY DEF Total, Units

LEMMA UnitsFinite ==
    ASSUME NEW m, NEW D, Sized(m, D)
    PROVE  IsFiniteSet(Units(m, D))
<1> DEFINE f    == [k \in D |-> {k} \X (1..m[k].size)]
           Each == {{k} \X (1..m[k].size) : k \in D}
<1>1. f \in Surjection(D, Each)
  <2>1. f \in [D -> Each]
    OBVIOUS
  <2>2. \A T \in Each : \E k \in D : f[k] = T
    OBVIOUS
  <2> HIDE DEF f, Each
  <2> QED BY <2>1, <2>2 DEF Surjection
<1> HIDE DEF f
<1>2. IsFiniteSet(Each)
  BY <1>1, FS_Surjection DEF Sized
<1>3. ASSUME NEW k \in D PROVE IsFiniteSet({k} \X (1..m[k].size))
  <2>1. m[k].size \in Int
    BY DEF Sized
  <2>2. IsFiniteSet(1..m[k].size)
    BY <2>1, FS_Interval
  <2>3. IsFiniteSet({k})
    BY FS_Singleton
  <2> QED BY <2>2, <2>3, FS_Product
<1>4. \A T \in Each : IsFiniteSet(T)
  BY <1>3
<1> HIDE DEF Each
<1>5. IsFiniteSet(UNION Each)
  BY <1>2, <1>4, FS_UNION
<1> QED BY <1>5 DEF Each, Units

LEMMA TotalNat ==
    ASSUME NEW m, NEW D, Sized(m, D)
    PROVE  Total(m, D) \in Nat
  BY UnitsFinite, TotalIsUnits, FS_CardinalityType

LEMMA TotalEmpty == \A m : Total(m, {}) = 0
<1> TAKE m
<1>1. Units(m, {}) = {}
  BY DEF Units
<1> QED BY <1>1, TotalIsUnits, FS_EmptySet

LEMMA TotalMonotone ==
    ASSUME NEW m, NEW D, Sized(m, D), NEW E \in SUBSET D
    PROVE  Total(m, E) <= Total(m, D)
<1>1. Units(m, E) \subseteq Units(m, D)
  BY DEF Units
<1> QED BY <1>1, UnitsFinite, TotalIsUnits, FS_Subset

LEMMA TotalDisjoint ==
    ASSUME NEW m, NEW D, Sized(m, D), NEW E, Sized(m, E), D \cap E = {}
    PROVE  Total(m, D \cup E) = Total(m, D) + Total(m, E)
<1>1. Units(m, D \cup E) = Units(m, D) \cup Units(m, E)
  BY DEF Units
<1>2. Units(m, D) \cap Units(m, E) = {}
  <2>1. \A u \in Units(m, D) : u[1] \in D
    BY DEF Units
  <2>2. \A u \in Units(m, E) : u[1] \in E
    BY DEF Units
  <2> QED BY <2>1, <2>2
<1>3. IsFiniteSet(Units(m, D)) /\ IsFiniteSet(Units(m, E))
  BY UnitsFinite
<1>4. Cardinality(Units(m, D) \cup Units(m, E))
          = Cardinality(Units(m, D)) + Cardinality(Units(m, E)) - 0
  BY <1>2, <1>3, FS_Union, FS_EmptySet
<1>5. Cardinality(Units(m, D)) \in Nat /\ Cardinality(Units(m, E)) \in Nat
  BY <1>3, FS_CardinalityType
<1>6. Cardinality(Units(m, D \cup E)) = Cardinality(Units(m, D)) + Cardinality(Units(m, E))
  <2> DEFINE both == Units(m, D) \cup Units(m, E)
             d    == Cardinality(Units(m, D))
             e    == Cardinality(Units(m, E))
  <2> HIDE DEF d, e
  <2>1. Cardinality(both) = d + e - 0 /\ d \in Nat /\ e \in Nat
    BY <1>4, <1>5 DEF d, e
  <2>2. Cardinality(both) = d + e
    BY <2>1
  <2> HIDE DEF both
  <2> QED BY <1>1, <2>2, Zenon DEF both, d, e
<1>7. \A X : Total(m, X) = Cardinality(Units(m, X))
  BY TotalIsUnits
<1>8. /\ Total(m, D \cup E) = Cardinality(Units(m, D \cup E))
      /\ Total(m, D) = Cardinality(Units(m, D))
      /\ Total(m, E) = Cardinality(Units(m, E))
  BY <1>7, Zenon
<1> QED BY <1>6, <1>8

LEMMA TotalSame ==
    ASSUME NEW m, NEW n, NEW D, \A k \in D : m[k].size = n[k].size
    PROVE  Total(m, D) = Total(n, D)
<1>1. Units(m, D) = Units(n, D)
  BY DEF Units
<1> QED BY <1>1, TotalIsUnits

\* The counter of a cache is the sum of the sizes of what it holds.
Counted(c) == c.mem = SizeOf(c, Stored(c))

LEMMA StoredSized ==
    ASSUME NEW c, CacheOK(c), NEW D \in SUBSET Stored(c)
    PROVE  Sized(c.store, D)
<1>1. IsFiniteSet(D)
  BY KeyAssumption, FS_Subset DEF CacheOK, Stored
<1>2. \A k \in Stored(c) : c.store[k].size \in Nat
  BY DEF CacheOK, Stored, Entry
<1> QED BY <1>1, <1>2 DEF Sized

LEMMA RemoveMem ==
    ASSUME NEW c, CacheOK(c), Counted(c), NEW D, NEW r, r = Remove(c, D)
    PROVE  Counted(r) /\ r.mem = c.mem - SizeOf(c, D \cap Stored(c)) /\ r.mem \in Nat
<1> DEFINE gone == D \cap Stored(c)
           rest == Stored(c) \ D
<1>1. r.mem = c.mem - SizeOf(c, gone)
  BY DEF Remove
<1>2. Stored(r) = rest /\ \A k \in rest : r.store[k] = c.store[k]
  BY RemoveOK, RemoveStore
<1>3. Sized(c.store, gone) /\ Sized(c.store, rest)
  BY StoredSized
<1>4. gone \cap rest = {} /\ gone \cup rest = Stored(c)
  OBVIOUS
<1> HIDE DEF gone, rest
<1>5. Total(c.store, Stored(c)) = Total(c.store, gone) + Total(c.store, rest)
  BY <1>3, <1>4, TotalDisjoint
<1>6. Total(c.store, gone) \in Nat /\ Total(c.store, rest) \in Nat
  BY <1>3, TotalNat
<1>7. Total(r.store, rest) = Total(c.store, rest)
  BY <1>2, TotalSame
<1>8. r.mem = Total(c.store, rest)
  BY <1>1, <1>5, <1>6 DEF Counted, SizeOf
<1> QED BY <1>1, <1>2, <1>6, <1>7, <1>8 DEF Counted, SizeOf, gone

LEMMA InsertMem ==
    ASSUME NEW c, CacheOK(c), Counted(c), NEW ks, NEW new, NewOK(ks, new),
           DOMAIN new \cap Stored(c) = {}, NEW r, r = Insert(c, ks, new)
    PROVE  Counted(r)
<1>1. CacheOK(r) /\ Stored(r) = Stored(c) \cup DOMAIN new
  BY InsertOK
<1>2. \A k \in Stored(r) : r.store[k] = IF k \in DOMAIN new THEN new[k] ELSE c.store[k]
  BY <1>1, InsertStore
<1>3. r.mem = c.mem + Total(new, DOMAIN new)
  BY DEF Insert
<1>4. Sized(r.store, Stored(c)) /\ Sized(r.store, DOMAIN new)
  BY <1>1, StoredSized
<1>5. Total(r.store, Stored(r)) = Total(r.store, Stored(c)) + Total(r.store, DOMAIN new)
  BY <1>1, <1>4, TotalDisjoint
<1>6. Total(r.store, Stored(c)) = Total(c.store, Stored(c))
  BY <1>1, <1>2, TotalSame
<1>7. Total(r.store, DOMAIN new) = Total(new, DOMAIN new)
  BY <1>1, <1>2, TotalSame
<1> QED BY <1>3, <1>5, <1>6, <1>7 DEF Counted, SizeOf

-----------------------------------------------------------------------------
(* What the building blocks of the actions do, given TypeOK.               *)

LEMMA TypeIsCacheOK == TypeOK => CacheOK(cache)
  BY DEF TypeOK, CacheOK, Stored

\* The shape of the history of promises.
PromisedOK(p) ==
    /\ DOMAIN p \subseteq Key
    /\ p \in [DOMAIN p -> [until : Nat \cup {Never}, tags : SUBSET Tag]]

\* A cache well-formed again, and the other variables well-typed, is TypeOK.
LEMMA TypeFromParts ==
    ASSUME CacheOK(cache'), now' \in Nat, locked' \subseteq Key,
           destroyed' \in BOOLEAN, PromisedOK(promised'),
           usedSince' \in [Key -> SUBSET Key], evicted' \subseteq Key
    PROVE  TypeOK'
  BY DEF TypeOK, CacheOK, Stored, PromisedOK

LEMMA ForgetType ==
    ASSUME TypeOK, NEW K, Forget(K)
    PROVE  PromisedOK(promised')
  BY DEF TypeOK, PromisedOK, Forget

LEMMA PromiseType ==
    ASSUME TypeOK, NEW D, D \subseteq Key, NEW until \in Nat \cup {Never},
           NEW tags \in SUBSET Tag, Promise(D, until, tags)
    PROVE  PromisedOK(promised')
  BY DEF TypeOK, PromisedOK, Promise

LEMMA UseType ==
    ASSUME TypeOK, NEW ks, NEW D, D \subseteq Key, Use(ks, D)
    PROVE  usedSince' \in [Key -> SUBSET Key]
  BY DEF TypeOK, Use

LEMMA DropType == ASSUME TypeOK, NEW D, Drop(D), NEW K, Forget(K) PROVE TypeOK'
<1>1. CacheOK(cache')
  BY TypeIsCacheOK, RemoveOK DEF Drop
<1>2. PromisedOK(promised')
  BY ForgetType
<1> QED BY <1>1, <1>2, TypeFromParts DEF Drop, TypeOK

\* The cache between the expiry and the refresh of a read.
LEMMA ReadFacts ==
    ASSUME TypeOK, NEW ks \in Seq(Key), Read(ks)
    PROVE  LET live == (Elems(ks) \cap Stored(cache)) \ Dead(cache, Elems(ks), now)
               c    == Remove(cache, Dead(cache, Elems(ks), now))
           IN  /\ CacheOK(c)
               /\ live \subseteq Stored(c)
               /\ Stored(c) = Stored(cache) \ Dead(cache, Elems(ks), now)
               /\ CacheOK(cache')
               /\ cache'.store = c.store
               /\ cache'.tags = c.tags
               /\ cache'.older = MoveToEnd(c, ks, live)
<1> DEFINE dead == Dead(cache, Elems(ks), now)
           live == (Elems(ks) \cap Stored(cache)) \ dead
           c    == Remove(cache, dead)
<1>1. /\ CacheOK(c)
      /\ Stored(c) = Stored(cache) \ dead
  BY TypeIsCacheOK, RemoveOK
<1>2. live \subseteq Stored(c)
  BY <1>1
<1>3. cache' = Refresh(c, ks, live)
  BY DEF Read
<1> HIDE DEF c, live
<1>4. /\ CacheOK(cache')
      /\ cache'.store = c.store
      /\ cache'.tags = c.tags
      /\ cache'.older = MoveToEnd(c, ks, live)
  BY <1>1, <1>2, <1>3, RefreshOK
<1> QED BY <1>1, <1>2, <1>4 DEF c, live

LEMMA ReadType == ASSUME TypeOK, NEW ks \in Seq(Key), Read(ks) PROVE TypeOK'
<1> DEFINE live == (Elems(ks) \cap Stored(cache)) \ Dead(cache, Elems(ks), now)
<1>1. CacheOK(cache')
  BY ReadFacts
<1>2. live \subseteq Key
  BY ElemsType
<1>3. Use(ks, live) /\ Forget(Due(Elems(ks))) /\ evicted' = {} /\ UNCHANGED <<now, locked, destroyed>>
  BY DEF Read
<1> HIDE DEF live
<1>4. usedSince' \in [Key -> SUBSET Key]
  BY <1>2, <1>3, UseType
<1>5. PromisedOK(promised')
  BY <1>3, ForgetType
<1> QED BY <1>1, <1>3, <1>4, <1>5, TypeFromParts DEF TypeOK

\* The cache of a write before the limits are enforced, and what they evict.
Full(ks, new) == Insert(Remove(cache, DOMAIN new), ks, new)
Out(ks, new) == TooMany(Full(ks, new)) \cup TooLarge(Full(ks, new))

LEMMA FullOK ==
    ASSUME TypeOK, NEW ks, NEW new, NewOK(ks, new), NEW full, full = Full(ks, new)
    PROVE  CacheOK(full) /\ Stored(full) = Stored(cache) \cup DOMAIN new
<1> DEFINE base == Remove(cache, DOMAIN new)
<1>1. CacheOK(base) /\ Stored(base) = Stored(cache) \ DOMAIN new
  BY TypeIsCacheOK, RemoveOK
<1>2. full = Insert(base, ks, new)
  BY DEF Full
<1> HIDE DEF base
<1>3. CacheOK(full) /\ Stored(full) = Stored(base) \cup DOMAIN new
  BY <1>1, <1>2, InsertOK
<1> QED BY <1>1, <1>3

LEMMA FullStore ==
    ASSUME TypeOK, NEW ks, NEW new, NewOK(ks, new), NEW full, full = Full(ks, new)
    PROVE  \A k \in Stored(full) :
               full.store[k] = IF k \in DOMAIN new THEN new[k] ELSE cache.store[k]
<1> DEFINE base == Remove(cache, DOMAIN new)
<1>1. Stored(base) = Stored(cache) \ DOMAIN new
  BY TypeIsCacheOK, RemoveOK
<1>2. \A k \in Stored(cache) \ DOMAIN new : base.store[k] = cache.store[k]
  BY TypeIsCacheOK, RemoveStore
<1>3. full = Insert(base, ks, new)
  BY DEF Full
<1> HIDE DEF base
<1>4. \A k \in Stored(base) \cup DOMAIN new :
          full.store[k] = IF k \in DOMAIN new THEN new[k] ELSE base.store[k]
  BY <1>3, InsertStore
<1>5. Stored(full) = Stored(cache) \cup DOMAIN new
  BY FullOK
<1> QED BY <1>1, <1>2, <1>4, <1>5

LEMMA WriteIsRemove ==
    ASSUME NEW ks, NEW new, Write(ks, new)
    PROVE  /\ cache' = Remove(Full(ks, new), Out(ks, new))
           /\ evicted' = Out(ks, new)
           /\ Out(ks, new) \subseteq Stored(Full(ks, new))
  BY DEF Write, Full, Out, EnforceLimits, TooMany, TooLarge

LEMMA WriteOK ==
    ASSUME TypeOK, NEW ks, NEW new, NewOK(ks, new), Write(ks, new)
    PROVE  /\ CacheOK(cache')
           /\ Stored(cache') = (Stored(cache) \cup DOMAIN new) \ Out(ks, new)
<1>1. /\ CacheOK(Full(ks, new))
      /\ Stored(Full(ks, new)) = Stored(cache) \cup DOMAIN new
  BY FullOK
<1>2. cache' = Remove(Full(ks, new), Out(ks, new))
  BY WriteIsRemove
<1>3. CacheOK(cache') /\ Stored(cache') = Stored(Full(ks, new)) \ Out(ks, new)
  BY <1>1, <1>2, RemoveOK
<1> QED BY <1>1, <1>3

LEMMA WriteStore ==
    ASSUME TypeOK, NEW ks, NEW new, NewOK(ks, new), Write(ks, new)
    PROVE  \A k \in Stored(cache') :
               cache'.store[k] = IF k \in DOMAIN new THEN new[k] ELSE cache.store[k]
<1>1. CacheOK(Full(ks, new))
  BY FullOK
<1>2. cache' = Remove(Full(ks, new), Out(ks, new))
  BY WriteIsRemove
<1>3. Stored(cache') = Stored(Full(ks, new)) \ Out(ks, new)
  BY <1>1, <1>2, RemoveOK
<1>4. \A k \in Stored(Full(ks, new)) \ Out(ks, new) :
          cache'.store[k] = Full(ks, new).store[k]
  BY <1>1, <1>2, RemoveStore
<1>5. \A k \in Stored(Full(ks, new)) : Full(ks, new).store[k] =
          IF k \in DOMAIN new THEN new[k] ELSE cache.store[k]
  BY FullStore
<1> QED BY <1>3, <1>4, <1>5

LEMMA WriteType ==
    ASSUME TypeOK, NEW ks, NEW new, NewOK(ks, new), Write(ks, new), PromisedOK(promised')
    PROVE  TypeOK'
<1>1. CacheOK(cache')
  BY WriteOK
<1>2. evicted' \subseteq Key
  <2>1. CacheOK(Full(ks, new)) /\ evicted' \subseteq Stored(Full(ks, new))
    BY FullOK, WriteIsRemove
  <2> QED BY <2>1 DEF CacheOK, Stored
<1>3. DOMAIN new \subseteq Key
  BY ElemsType DEF NewOK
<1>4. usedSince' \in [Key -> SUBSET Key]
  BY <1>3, UseType DEF Write
<1> QED BY <1>1, <1>2, <1>4, TypeFromParts DEF TypeOK, Write

-----------------------------------------------------------------------------
(* Every method is a deletion, a read or a write, or one of the few that   *)
(* stand alone.                                                            *)

\* A list of keys without repetitions.
ListOK(ks) ==
    /\ ks \in Seq(Key)
    /\ \A i, j \in 1..Len(ks) : ks[i] = ks[j] => i = j

\* Entries go and promises with them: at the caller's wish, or because they
\* are found expired.
Shrink(D) ==
    /\ Drop(D)
    /\ \E K : /\ Forget(K)
              /\ K = D \/ \E J \in SUBSET Key : D = Dead(cache, J, now) /\ K = Due(J)

\* New entries are written and promised.
Put(ks, new) ==
    /\ NewOK(ks, new)
    /\ DOMAIN new \cap locked = {}
    /\ Write(ks, new)
    /\ \E until \in Nat \cup {Never}, tags \in SUBSET Tag :
           /\ Promise(DOMAIN new, until, tags)
           /\ \A k \in DOMAIN new : new[k].expireAt = until /\ new[k].tags = tags

LEMMA SetIsPut ==
    ASSUME TypeOK, NEW k \in Key, NEW size \in Size, NEW ttl \in TtlArg,
           NEW tags \in SUBSET Tag, Set(k, size, ttl, tags)
    PROVE  \E ks, new : Put(ks, new)
<1> DEFINE new == [x \in {k} |-> NewEntry(size, ttl, tags)]
<1>1. /\ NewEntry(size, ttl, tags) \in Entry
      /\ NewEntry(size, ttl, tags).tags = tags
      /\ NewEntry(size, ttl, tags).expireAt = LifeEnd(ttl)
  BY NewEntryType DEF TypeOK
<1>2. NewOK(<<k>>, new)
  BY <1>1 DEF NewOK, Elems
<1>3. DOMAIN new \cap locked = {} /\ Write(<<k>>, new) /\ Promise(DOMAIN new, LifeEnd(ttl), tags)
  BY DEF Set
<1>4. LifeEnd(ttl) \in Nat \cup {Never}
  BY LifeEndIsExpiry DEF TypeOK
<1>5. \A x \in DOMAIN new : new[x].expireAt = LifeEnd(ttl) /\ new[x].tags = tags
  BY <1>1
<1> HIDE DEF new
<1>6. Put(<<k>>, new)
  BY <1>2, <1>3, <1>4, <1>5 DEF Put
<1> QED BY <1>6

LEMMA SetManyIsPut ==
    ASSUME TypeOK, NEW ks \in Batch, NEW size \in [Elems(ks) -> Size],
           NEW ttl \in TtlArg, SetMany(ks, size, ttl)
    PROVE  \E js, new : Put(js, new)
<1> DEFINE new == [x \in Elems(ks) \ locked |-> NewEntry(size[x], ttl, {})]
<1>1. \A x \in Elems(ks) \ locked :
          /\ NewEntry(size[x], ttl, {}) \in Entry
          /\ NewEntry(size[x], ttl, {}).tags = {}
          /\ NewEntry(size[x], ttl, {}).expireAt = LifeEnd(ttl)
  BY NewEntryType DEF TypeOK
<1>2. NewOK(ks, new)
  BY <1>1, BatchAssumption DEF NewOK
<1>3. DOMAIN new \cap locked = {} /\ Write(ks, new) /\ Promise(DOMAIN new, LifeEnd(ttl), {})
  BY DEF SetMany
<1>4. LifeEnd(ttl) \in Nat \cup {Never}
  BY LifeEndIsExpiry DEF TypeOK
<1>5. \A x \in DOMAIN new : new[x].expireAt = LifeEnd(ttl) /\ new[x].tags = {}
  BY <1>1
<1> HIDE DEF new
<1>6. {} \in SUBSET Tag
  OBVIOUS
<1>7. Put(ks, new)
  BY <1>2, <1>3, <1>4, <1>5, <1>6 DEF Put
<1> QED BY <1>7

\* The three tests of the time agree: get(), exists(), getRemainingTtl() and the
\* cleanup timer delete the same entries at the same time.
LEMMA TestsAgree ==
    ASSUME TypeOK, NEW K
    PROVE  /\ TtlRunOut(cache, K, now) = Dead(cache, K, now)
           /\ CleanupDue(cache, now) = Dead(cache, Key, now)
<1>1. /\ Stored(cache) \subseteq Key
      /\ \A k \in Stored(cache) : cache.store[k].expireAt \in Nat \cup {Never}
  BY DEF TypeOK, Entry
<1>2. now \in Nat
  BY DEF TypeOK
<1> QED BY <1>1, <1>2 DEF TtlRunOut, CleanupDue, Dead, Expired, Never

LEMMA StepKinds ==
    ASSUME TypeOK, Next
    PROVE  \/ \E D : Shrink(D)
           \/ \E ks : ListOK(ks) /\ Read(ks)
           \/ \E ks, new : Put(ks, new)
           \/ \E t \in Tag : InvalidateByTag(t)
           \/ Clear
           \/ Destroy
           \/ \E ls \in LockSets : ChangeLocks(ls)
           \/ \E k \in Careless, tags \in SUBSET Tag : MutateTags(k, tags)
           \/ Tick
<1>1. ASSUME NEW k \in Key, Get(k) PROVE \E ks : ListOK(ks) /\ Read(ks)
  <2>1. ListOK(<<k>>)
    BY DEF ListOK
  <2> QED BY <1>1, <2>1 DEF Get
<1>2. ASSUME NEW ks \in Batch, GetMany(ks) PROVE \E js : ListOK(js) /\ Read(js)
  BY <1>2, BatchAssumption DEF GetMany, ListOK
<1>3. ASSUME NEW D, Delete(D) PROVE Shrink(D)
  BY <1>3 DEF Delete, Shrink
<1>4. ASSUME NEW J \in SUBSET Key, Expire(Dead(cache, J, now), J)
      PROVE  \E D : Shrink(D)
  BY <1>4 DEF Expire, Shrink
<1>5. ASSUME NEW k \in Key, Del(k) \/ Exists(k) \/ GetRemainingTtl(k)
      PROVE  \E D : Shrink(D)
  BY <1>3, <1>4, <1>5, TestsAgree DEF Del, Exists, GetRemainingTtl
<1>6. ASSUME NEW ks \in Batch, DelMany(ks) \/ GetRemainingTtlMany(ks)
      PROVE  \E D : Shrink(D)
  <2>1. Elems(ks) \in SUBSET Key
    BY BatchAssumption, ElemsType
  <2> QED BY <1>3, <1>4, <1>6, <2>1, TestsAgree DEF DelMany, GetRemainingTtlMany
<1>7. ASSUME NEW m \in Pattern, DelPattern(m) PROVE \E D : Shrink(D)
  BY <1>3, <1>7 DEF DelPattern
<1>8. Cleanup => \E D : Shrink(D)
  BY <1>4, TestsAgree DEF Cleanup
<1> QED BY <1>1, <1>2, <1>5, <1>6, <1>7, <1>8, SetIsPut, SetManyIsPut DEF Next

-----------------------------------------------------------------------------
(* Type correctness.                                                       *)

LEMMA EmptyCacheOK == CacheOK(EmptyCache) /\ Stored(EmptyCache) = {}
  BY DEF CacheOK, EmptyCache, Stored

LEMMA InvalidateFacts ==
    ASSUME TypeOK, NEW t \in Tag, InvalidateByTag(t)
    PROVE  LET D == cache.tags[t]
               c == Remove(cache, D)
           IN  /\ CacheOK(c)
               /\ Stored(c) = Stored(cache) \ D
               /\ CacheOK(cache')
               /\ cache'.store = c.store
               /\ cache'.older = c.older
               /\ cache'.tags = [c.tags EXCEPT ![t] = {}]
<1> DEFINE D == cache.tags[t]
           c == Remove(cache, D)
<1>1. CacheOK(c) /\ Stored(c) = Stored(cache) \ D
  <2> HIDE DEF c, D
  <2>1. c = Remove(cache, D)
    BY DEF c
  <2> QED BY <2>1, TypeIsCacheOK, RemoveOK
<1>2. cache' = [store |-> c.store, older |-> c.older,
                tags |-> [c.tags EXCEPT ![t] = {}], mem |-> c.mem]
  BY DEF InvalidateByTag
<1> HIDE DEF c, D
<1>3. /\ CacheOK(cache')
      /\ cache'.store = c.store
      /\ cache'.older = c.older
      /\ cache'.tags = [c.tags EXCEPT ![t] = {}]
  BY <1>1, <1>2 DEF CacheOK
<1> QED BY <1>1, <1>3 DEF c, D

\* TypeOK is an invariant for all values of the constants.
THEOREM TypeCorrect == Spec => []TypeOK
<1>1. Init => TypeOK
  <2> SUFFICES ASSUME Init PROVE TypeOK
    OBVIOUS
  <2>1. CacheOK(cache)
    BY EmptyCacheOK DEF Init
  <2> QED BY <2>1 DEF Init, TypeOK, CacheOK, Stored
<1>2. TypeOK /\ [Next]_vars => TypeOK'
  <2> SUFFICES ASSUME TypeOK, [Next]_vars PROVE TypeOK'
    OBVIOUS
  <2>1. ASSUME NEW D, Shrink(D) PROVE TypeOK'
    BY <2>1, DropType DEF Shrink
  <2>2. ASSUME NEW ks, ListOK(ks), Read(ks) PROVE TypeOK'
    BY <2>2, ReadType DEF ListOK
  <2>3. ASSUME NEW ks, NEW new, Put(ks, new) PROVE TypeOK'
    <3>1. DOMAIN new \subseteq Key
      BY <2>3, ElemsType DEF Put, NewOK
    <3>2. PromisedOK(promised')
      BY <2>3, <3>1, PromiseType DEF Put
    <3> QED BY <2>3, <3>2, WriteType DEF Put
  <2>4. ASSUME NEW t \in Tag, InvalidateByTag(t) PROVE TypeOK'
    <3>1. CacheOK(cache')
      BY <2>4, InvalidateFacts
    <3> QED BY <2>4, <3>1, TypeFromParts, ForgetType DEF InvalidateByTag, TypeOK
  <2>5. CASE Clear \/ Destroy
    <3>1. CacheOK(cache')
      BY <2>5, EmptyCacheOK DEF Clear, Destroy, EmptyCache, CacheOK
    <3> QED BY <2>5, <3>1, TypeFromParts, ForgetType DEF Clear, Destroy, TypeOK
  <2>6. ASSUME NEW k \in Careless, NEW tags \in SUBSET Tag, MutateTags(k, tags) PROVE TypeOK'
    <3> DEFINE store == [cache.store EXCEPT ![k].tags = tags]
    <3>1. ASSUME NEW j \in Stored(cache)
          PROVE  cache.store[j] \in Entry /\ [cache.store[j] EXCEPT !.tags = tags] \in Entry
      BY DEF TypeOK, Entry
    <3>2. store \in [Stored(cache) -> Entry] /\ DOMAIN store = Stored(cache)
      BY <3>1 DEF TypeOK, Stored
    <3>4. cache' = [store |-> store, older |-> cache.older,
                    tags |-> cache.tags, mem |-> cache.mem]
      BY <2>6 DEF MutateTags
    <3> HIDE DEF store
    <3>3. CacheOK(cache')
      BY <3>2, <3>4 DEF CacheOK, TypeOK, Stored
    <3> QED BY <2>6, <3>3, TypeFromParts DEF MutateTags, TypeOK, PromisedOK
  <2>7. ASSUME NEW ls \in LockSets, ChangeLocks(ls) PROVE TypeOK'
    BY <2>7, CallerAssumption DEF ChangeLocks, TypeOK, Stored
  <2>8. CASE Tick
    BY <2>8, LimitAssumption DEF Tick, TypeOK, Stored
  <2>9. CASE UNCHANGED vars
    BY <2>9 DEF vars, history, TypeOK, Stored
  <2> QED BY <2>1, <2>2, <2>3, <2>4, <2>5, <2>6, <2>7, <2>8, <2>9, StepKinds
<1> QED BY <1>1, <1>2, PTL DEF Spec

-----------------------------------------------------------------------------
(* The tag index and the promises.  Unless its caller changed the array it *)
(* passed, the tags array of an entry still holds the tags of the last     *)
(* set(), and the index is the inverse of these arrays; and the cache      *)
(* holds an entry for exactly the keys its callers were promised one, with *)
(* the end of life they asked for.                                         *)

Kept == Key \ Careless

Indexed(c) ==
    \A t \in Tag, k \in Kept :
        k \in c.tags[t] <=> k \in Stored(c) /\ t \in c.store[k].tags

Matches(c, p) ==
    /\ DOMAIN p = Stored(c)
    /\ \A k \in Stored(c) : p[k].until = c.store[k].expireAt
    /\ \A k \in Stored(c) \cap Kept : p[k].tags = c.store[k].tags

PromiseInv == Indexed(cache) /\ Matches(cache, promised)

LEMMA RemoveIndexed ==
    ASSUME NEW c, CacheOK(c), Indexed(c), NEW D, NEW r, r = Remove(c, D)
    PROVE  Indexed(r)
  BY DEF CacheOK, Indexed, Remove, Stored

LEMMA InsertIndexed ==
    ASSUME NEW c, CacheOK(c), Indexed(c), NEW ks, NEW new, NewOK(ks, new),
           DOMAIN new \cap Stored(c) = {}, NEW r, r = Insert(c, ks, new)
    PROVE  Indexed(r)
  BY DEF CacheOK, Indexed, Insert, Stored, NewOK

\* Without their entries, the promises for D have to go, and no others.
LEMMA RemoveMatches ==
    ASSUME NEW c, CacheOK(c), NEW p, Matches(c, p), NEW D, NEW r, r = Remove(c, D)
    PROVE  Matches(r, [k \in DOMAIN p \ D |-> p[k]])
<1>1. Stored(r) = Stored(c) \ D
  BY RemoveOK
<1>2. \A k \in Stored(c) \ D : r.store[k] = c.store[k]
  BY RemoveStore
<1> QED BY <1>1, <1>2 DEF Matches

\* The keys whose promised life is over are those whose entries have expired.
LEMMA DueIsDead ==
    ASSUME TypeOK, Matches(cache, promised), NEW K
    PROVE  Due(K) = Dead(cache, K, now)
<1>1. /\ DOMAIN promised = Stored(cache)
      /\ \A k \in Stored(cache) : promised[k].until = cache.store[k].expireAt
  BY DEF Matches
<1>2. now \in Nat /\ \A k \in Stored(cache) : cache.store[k].expireAt \in Nat \cup {Never}
  BY DEF TypeOK, Entry
<1> QED BY <1>1, <1>2 DEF Due, Dead, Expired, Never

LEMMA ShrinkPromiseInv ==
    ASSUME TypeOK, PromiseInv, NEW D, Shrink(D)
    PROVE  PromiseInv'
<1>1. CacheOK(cache) /\ cache' = Remove(cache, D)
  BY TypeIsCacheOK DEF Shrink, Drop
<1>2. PICK K : /\ Forget(K)
               /\ K = D \/ \E J \in SUBSET Key : D = Dead(cache, J, now) /\ K = Due(J)
  BY DEF Shrink
<1>3. K = D
  BY <1>2, DueIsDead DEF PromiseInv
<1>4. promised' = [k \in DOMAIN promised \ D |-> promised[k]]
  BY <1>2, <1>3 DEF Forget
<1>5. Indexed(cache')
  BY <1>1, RemoveIndexed DEF PromiseInv
<1>6. Matches(cache', promised')
  BY <1>1, <1>4, RemoveMatches DEF PromiseInv
<1> QED BY <1>5, <1>6 DEF PromiseInv, Indexed, Matches

LEMMA FullIndexed ==
    ASSUME TypeOK, Indexed(cache), NEW ks, NEW new, NewOK(ks, new)
    PROVE  Indexed(Full(ks, new))
<1> DEFINE base == Remove(cache, DOMAIN new)
<1>1. CacheOK(cache)
  BY TypeIsCacheOK
<1>2. CacheOK(base) /\ Indexed(base) /\ Stored(base) = Stored(cache) \ DOMAIN new
  BY <1>1, RemoveOK, RemoveIndexed
<1>3. Full(ks, new) = Insert(base, ks, new)
  BY DEF Full
<1> HIDE DEF base
<1> QED BY <1>2, <1>3, InsertIndexed

LEMMA PutPromiseInv ==
    ASSUME TypeOK, PromiseInv, NEW ks, NEW new, Put(ks, new)
    PROVE  PromiseInv'
<1>0. NewOK(ks, new) /\ Write(ks, new)
  BY DEF Put
<1>1. CacheOK(Full(ks, new)) /\ Indexed(Full(ks, new))
  BY <1>0, FullOK, FullIndexed DEF PromiseInv
<1>2. Indexed(cache')
  <2>1. cache' = Remove(Full(ks, new), Out(ks, new))
    BY <1>0, WriteIsRemove
  <2> QED BY <1>1, <2>1, RemoveIndexed
<1>3. \A k \in Stored(cache') : cache'.store[k] =
          IF k \in DOMAIN new THEN new[k] ELSE cache.store[k]
  BY <1>0, WriteStore
<1>4. Stored(cache') = (Stored(cache) \cup DOMAIN new) \ Out(ks, new)
  BY <1>0, WriteOK
<1>5. evicted' = Out(ks, new)
  BY <1>0, WriteIsRemove
<1>6. PICK until, tags :
          /\ Promise(DOMAIN new, until, tags)
          /\ \A k \in DOMAIN new : new[k].expireAt = until /\ new[k].tags = tags
  BY DEF Put
<1>7. promised' = [k \in (DOMAIN promised \cup DOMAIN new) \ Out(ks, new) |->
          IF k \in DOMAIN new THEN [until |-> until, tags |-> tags] ELSE promised[k]]
  BY <1>5, <1>6 DEF Promise
<1>8. Matches(cache, promised)
  BY DEF PromiseInv
<1>9. DOMAIN promised' = Stored(cache')
  BY <1>4, <1>7, <1>8 DEF Matches
<1>10. ASSUME NEW k \in Stored(cache')
       PROVE  /\ promised'[k].until = cache'.store[k].expireAt
              /\ k \in Kept => promised'[k].tags = cache'.store[k].tags
  <2>1. CASE k \in DOMAIN new
    BY <1>3, <1>6, <1>7, <1>9, <1>10, <2>1
  <2>2. CASE k \notin DOMAIN new
    <3>1. cache'.store[k] = cache.store[k] /\ k \in Stored(cache)
      BY <1>3, <1>4, <1>10, <2>2
    <3>2. promised'[k] = promised[k]
      BY <1>7, <1>9, <1>10, <2>2
    <3> QED BY <1>8, <3>1, <3>2 DEF Matches
  <2> QED BY <2>1, <2>2
<1> QED BY <1>2, <1>9, <1>10 DEF PromiseInv, Indexed, Matches

LEMMA ReadPromiseInv ==
    ASSUME TypeOK, PromiseInv, NEW ks \in Seq(Key), Read(ks)
    PROVE  PromiseInv'
<1> DEFINE dead == Dead(cache, Elems(ks), now)
           c    == Remove(cache, dead)
<1>1. /\ CacheOK(c)
      /\ cache'.store = c.store
      /\ cache'.tags = c.tags
  BY ReadFacts
<1>2. CacheOK(cache) /\ Matches(cache, promised)
  BY TypeIsCacheOK DEF PromiseInv
<1>3. Indexed(c) /\ Matches(c, [k \in DOMAIN promised \ dead |-> promised[k]])
  BY <1>2, RemoveIndexed, RemoveMatches DEF PromiseInv
<1>4. promised' = [k \in DOMAIN promised \ dead |-> promised[k]]
  BY <1>2, DueIsDead DEF Read, Forget
<1> HIDE DEF c, dead
<1>5. Indexed(cache') /\ Matches(cache', promised')
  BY <1>1, <1>3, <1>4 DEF Indexed, Matches, Stored
<1> QED BY <1>5 DEF PromiseInv, Indexed, Matches

\* invalidateByTag() takes away the keys promised with the tag: where the
\* callers leave their arrays alone the index names exactly these.
LEMMA InvalidatePromiseInv ==
    ASSUME TypeOK, PromiseInv, NEW t \in Tag, InvalidateByTag(t)
    PROVE  PromiseInv'
<1> DEFINE D == cache.tags[t]
           c == Remove(cache, D)
<1>1. /\ CacheOK(c)
      /\ Stored(c) = Stored(cache) \ D
      /\ cache'.store = c.store
      /\ cache'.tags = [c.tags EXCEPT ![t] = {}]
  BY InvalidateFacts
<1>2. CacheOK(cache) /\ Indexed(cache) /\ Matches(cache, promised)
  BY TypeIsCacheOK DEF PromiseInv
<1>3. Indexed(c) /\ Matches(c, [k \in DOMAIN promised \ D |-> promised[k]])
  BY <1>2, RemoveIndexed, RemoveMatches
<1>4. \A k \in Stored(cache) \ D : c.store[k] = cache.store[k]
  BY <1>2, RemoveStore
<1>5. \A k \in Kept : k \in D <=> k \in Stored(cache) /\ t \in cache.store[k].tags
  BY <1>2 DEF Indexed
<1>6. D \subseteq Key /\ Stored(cache) \subseteq Key
  BY <1>2 DEF CacheOK, Stored
<1>7. Tagged(t) \cap Stored(cache) = D \cap Stored(cache)
  <2>1. \A k \in Stored(cache) \cap Kept : k \in Tagged(t) <=> k \in D
    BY <1>2, <1>5 DEF Matches, Tagged, Kept
  <2>2. \A k \in Careless : k \in Tagged(t) <=> k \in D
    BY DEF Tagged
  <2> QED BY <1>6, <2>1, <2>2 DEF Kept
<1>8. promised' = [k \in DOMAIN promised \ D |-> promised[k]]
  <2>1. DOMAIN promised \ Tagged(t) = DOMAIN promised \ D
    BY <1>2, <1>7 DEF Matches
  <2>2. promised' = [k \in DOMAIN promised \ Tagged(t) |-> promised[k]]
    BY DEF InvalidateByTag, Forget
  <2> QED BY <2>1, <2>2
<1> HIDE DEF c, D
<1>9. \A k \in Kept : k \notin c.tags[t]
  BY <1>1, <1>3, <1>4, <1>5 DEF Indexed
<1>10. \A s \in Tag, k \in Kept : k \in cache'.tags[s] <=> k \in c.tags[s]
  BY <1>1, <1>9 DEF CacheOK
<1>11. Indexed(cache')
  BY <1>1, <1>3, <1>10 DEF Indexed, Stored
<1>12. Matches(cache', promised')
  BY <1>1, <1>3, <1>8 DEF Matches, Stored
<1> QED BY <1>11, <1>12 DEF PromiseInv, Indexed, Matches

\* Index and promises agree with the entries, always.
LEMMA PromiseInvariant == Spec => [](TypeOK /\ PromiseInv)
<1>1. Init => PromiseInv
  BY DEF Init, PromiseInv, Indexed, Matches, EmptyCache, Stored
<1>2. TypeOK /\ PromiseInv /\ [Next]_vars => PromiseInv'
  <2> SUFFICES ASSUME TypeOK, PromiseInv, [Next]_vars PROVE PromiseInv'
    OBVIOUS
  <2>1. ASSUME NEW D, Shrink(D) PROVE PromiseInv'
    BY <2>1, ShrinkPromiseInv
  <2>2. ASSUME NEW ks, ListOK(ks), Read(ks) PROVE PromiseInv'
    BY <2>2, ReadPromiseInv DEF ListOK
  <2>3. ASSUME NEW ks, NEW new, Put(ks, new) PROVE PromiseInv'
    BY <2>3, PutPromiseInv
  <2>4. ASSUME NEW t \in Tag, InvalidateByTag(t) PROVE PromiseInv'
    BY <2>4, InvalidatePromiseInv
  <2>5. CASE Clear \/ Destroy
    <3>1. DOMAIN promised \ Key = {}
      BY DEF TypeOK
    <3>2. cache'.store = EmptyCache.store /\ cache'.tags = EmptyCache.tags /\ Forget(Key)
      BY <2>5 DEF Clear, Destroy, EmptyCache
    <3> QED BY <3>1, <3>2 DEF Forget, EmptyCache, PromiseInv, Indexed, Matches, Stored
  <2>6. ASSUME NEW k \in Careless, NEW tags \in SUBSET Tag, MutateTags(k, tags)
        PROVE  PromiseInv'
    <3>1. /\ cache' = [store |-> [cache.store EXCEPT ![k].tags = tags],
                       older |-> cache.older, tags |-> cache.tags, mem |-> cache.mem]
          /\ promised' = promised
      BY <2>6 DEF MutateTags
    <3>2. \A j \in Stored(cache) : cache.store[j] \in Entry
      BY DEF TypeOK
    <3>3. /\ Stored(cache') = Stored(cache) /\ cache'.tags = cache.tags
          /\ \A j \in Stored(cache) : cache'.store[j].expireAt = cache.store[j].expireAt
          /\ \A j \in Stored(cache) \cap Kept : cache'.store[j] = cache.store[j]
      BY <3>1, <3>2 DEF Stored, Kept, Entry
    <3>4. Indexed(cache')
      BY <3>3 DEF PromiseInv, Indexed
    <3>5. Matches(cache', promised')
      BY <3>1, <3>3 DEF PromiseInv, Matches
    <3> QED BY <3>4, <3>5 DEF PromiseInv, Indexed, Matches
  <2>7. CASE UNCHANGED <<cache, promised>>
    BY <2>7 DEF PromiseInv, Indexed, Matches, Stored
  <2>8. ASSUME NEW ls \in LockSets, ChangeLocks(ls) PROVE PromiseInv'
    BY <2>7, <2>8 DEF ChangeLocks
  <2>9. CASE Tick \/ UNCHANGED vars
    BY <2>7, <2>9 DEF Tick, vars, history
  <2> QED BY <2>1, <2>2, <2>3, <2>4, <2>5, <2>6, <2>8, <2>9, StepKinds
<1> QED BY <1>1, <1>2, TypeCorrect, PTL DEF Spec

\* The tag index names exactly the entries last written with the tag, but for
\* keys whose callers change an array they gave to set().
THEOREM TagIndexCorrect == Spec => []TagIndexExact
<1>1. TypeOK /\ PromiseInv => TagIndexExact
  BY DEF PromiseInv, Indexed, Matches, TagIndexExact, Kept, TypeOK
<1> QED BY <1>1, PromiseInvariant, PTL

\* get() and exists() serve a key exactly while the life its callers gave it
\* lasts: an entry goes when they delete or invalidate it, when a limit evicts
\* it or when its time is over, and in no other case.
THEOREM ServedUntilItsTimeCorrect == Spec => []ServedUntilItsTime
<1>1. TypeOK /\ PromiseInv => ServedUntilItsTime
  BY DueIsDead DEF PromiseInv, Matches, ServedUntilItsTime
<1> QED BY <1>1, PromiseInvariant, PTL

-----------------------------------------------------------------------------
(* Locked keys.                                                            *)

KeepsLocked ==
    \A k \in (locked \cap Stored(cache')) \ Careless :
        k \in Stored(cache) /\ cache'.store[k] = cache.store[k]

LEMMA RemoveKeepsLocked ==
    ASSUME TypeOK, NEW D, NEW r, r = Remove(cache, D), cache'.store = r.store
    PROVE  KeepsLocked
<1>1. Stored(r) = Stored(cache) \ D
  BY TypeIsCacheOK, RemoveOK
<1>2. \A k \in Stored(cache) \ D : r.store[k] = cache.store[k]
  BY TypeIsCacheOK, RemoveStore
<1> QED BY <1>1, <1>2 DEF KeepsLocked, Stored

\* No call writes a key that the lock manager holds.
THEOREM LockedKeysProtected == Spec => LockedKeysAreNotWritten
<1>1. TypeOK /\ [Next]_vars => [KeepsLocked]_vars
  <2> SUFFICES ASSUME TypeOK, Next PROVE KeepsLocked \/ UNCHANGED vars
    OBVIOUS
  <2>1. ASSUME NEW D, Drop(D) PROVE KeepsLocked
    BY <2>1, RemoveKeepsLocked DEF Drop
  <2>2. ASSUME NEW ks, ListOK(ks), Read(ks) PROVE KeepsLocked
    <3>1. cache'.store = Remove(cache, Dead(cache, Elems(ks), now)).store
      BY <2>2 DEF Read, Refresh
    <3> QED BY <3>1, RemoveKeepsLocked
  <2>3. ASSUME NEW ks, NEW new, NewOK(ks, new), DOMAIN new \cap locked = {}, Write(ks, new)
        PROVE  KeepsLocked
    <3>1. Stored(cache') = (Stored(cache) \cup DOMAIN new) \ Out(ks, new)
      BY <2>3, WriteOK
    <3>2. \A k \in Stored(cache') :
              cache'.store[k] = IF k \in DOMAIN new THEN new[k] ELSE cache.store[k]
      BY <2>3, WriteStore
    <3> QED BY <2>3, <3>1, <3>2 DEF KeepsLocked
  <2>4. ASSUME NEW t \in Tag, InvalidateByTag(t) PROVE KeepsLocked
    <3>1. cache'.store = Remove(cache, cache.tags[t]).store
      BY <2>4 DEF InvalidateByTag
    <3> QED BY <3>1, RemoveKeepsLocked
  <2>5. CASE Clear \/ Destroy
    BY <2>5 DEF Clear, Destroy, EmptyCache, KeepsLocked, Stored
  <2>6. ASSUME NEW k \in Careless, NEW tags \in SUBSET Tag, MutateTags(k, tags)
        PROVE  KeepsLocked
    BY <2>6 DEF MutateTags, KeepsLocked, Stored
  <2>7. ASSUME NEW ls \in LockSets, ChangeLocks(ls) PROVE KeepsLocked
    BY <2>7 DEF ChangeLocks, KeepsLocked, Stored
  <2>8. CASE Tick
    BY <2>8 DEF Tick, KeepsLocked, Stored
  <2> QED BY <2>1, <2>2, <2>3, <2>4, <2>5, <2>6, <2>7, <2>8, StepKinds DEF Shrink, Put
<1> QED BY <1>1, TypeCorrect, PTL DEF Spec, LockedKeysAreNotWritten, KeepsLocked

-----------------------------------------------------------------------------
(* The order of the map.                                                   *)

\* The relation "stands in front of" is a strict total order on the entries.
TotalOrder(c) ==
    /\ \A k \in Stored(c) : k \notin c.older[k]
    /\ \A j, k \in Stored(c) : j # k => (j \in c.older[k] <=> k \notin c.older[j])
    /\ \A i, j, k \in Stored(c) :
           i \in c.older[j] /\ j \in c.older[k] => i \in c.older[k]

LEMMA RemoveTotalOrder ==
    ASSUME NEW c, CacheOK(c), TotalOrder(c), NEW D, NEW r, r = Remove(c, D)
    PROVE  TotalOrder(r)
<1>1. Stored(r) = Stored(c) \ D
  BY RemoveOK
<1>2. r.older = [k \in Key |-> IF k \in D THEN {} ELSE c.older[k] \ D]
  BY RemoveOlder
<1>3. Stored(c) \subseteq Key
  BY DEF CacheOK, Stored
<1>4. \A k \in Stored(r) : r.older[k] = c.older[k] \ D
  BY <1>1, <1>2, <1>3
<1> QED BY <1>1, <1>4 DEF TotalOrder

LEMMA MoveTotalOrder ==
    ASSUME NEW c, CacheOK(c), TotalOrder(c), NEW ks, ListOK(ks), NEW D,
           D \subseteq Elems(ks), NEW r, CacheOK(r),
           Stored(r) = Stored(c) \cup D, r.older = MoveToEnd(c, ks, D)
    PROVE  TotalOrder(r)
<1>1. /\ \A k \in D : k \notin Earlier(ks, k)
      /\ \A j, k \in D : j # k => (j \in Earlier(ks, k) <=> k \notin Earlier(ks, j))
      /\ \A i, j, k \in D :
             i \in Earlier(ks, j) /\ j \in Earlier(ks, k) => i \in Earlier(ks, k)
  BY EarlierIsOrder DEF ListOK
<1>2. Stored(r) \subseteq Key
  BY DEF CacheOK, Stored
<1>3. \A j, k \in Stored(r) : j \in r.older[k] <=>
          IF k \in D THEN j \notin D \/ j \in Earlier(ks, k)
                     ELSE j \notin D /\ j \in c.older[k]
  BY <1>2 DEF MoveToEnd
<1>4. \A k \in Stored(r) : k \notin r.older[k]
  BY <1>1, <1>3 DEF TotalOrder
<1>5. ASSUME NEW j \in Stored(r), NEW k \in Stored(r), j # k
      PROVE  j \in r.older[k] <=> k \notin r.older[j]
  <2>1. CASE j \in D /\ k \in D
    BY <1>1, <1>3, <1>5, <2>1
  <2>2. CASE j \notin D /\ k \notin D
    BY <1>3, <1>5, <2>2 DEF TotalOrder
  <2>3. CASE ~(j \in D <=> k \in D)
    BY <1>3, <2>3
  <2> QED BY <2>1, <2>2, <2>3
<1>6. ASSUME NEW i \in Stored(r), NEW j \in Stored(r), NEW k \in Stored(r),
             i \in r.older[j], j \in r.older[k]
      PROVE  i \in r.older[k]
  <2>1. CASE i \in D /\ j \in D /\ k \in D
    BY <1>1, <1>3, <1>6, <2>1
  <2>2. CASE i \notin D /\ k \in D
    BY <1>3, <2>2
  <2>3. CASE k \notin D
    <3>1. i \notin D /\ j \notin D
      BY <1>3, <1>6, <2>3
    <3> QED BY <1>3, <1>6, <2>3, <3>1 DEF TotalOrder
  <2>4. CASE i \in D /\ j \notin D
    BY <1>3, <1>6, <2>4
  <2> QED BY <2>1, <2>2, <2>3, <2>4
<1> QED BY <1>4, <1>5, <1>6 DEF TotalOrder

LEMMA FullTotalOrder ==
    ASSUME TypeOK, TotalOrder(cache), NEW ks, NEW new, NewOK(ks, new),
           NEW full, full = Full(ks, new)
    PROVE  TotalOrder(full)
<1> DEFINE base == Remove(cache, DOMAIN new)
<1>1. CacheOK(cache)
  BY TypeIsCacheOK
<1>2. CacheOK(base) /\ Stored(base) = Stored(cache) \ DOMAIN new /\ TotalOrder(base)
  BY <1>1, RemoveOK, RemoveTotalOrder
<1>3. full = Insert(base, ks, new)
  BY DEF Full
<1> HIDE DEF base
<1>4. CacheOK(full) /\ Stored(full) = Stored(base) \cup DOMAIN new
  BY <1>2, <1>3, InsertOK
<1>5. full.older = MoveToEnd(base, ks, DOMAIN new)
  BY <1>3, InsertOlder
<1>6. ListOK(ks) /\ DOMAIN new \subseteq Elems(ks)
  BY DEF NewOK, ListOK
<1> QED BY <1>2, <1>4, <1>5, <1>6, MoveTotalOrder

\* A cache whose order of entries is the order of last use, as `since` has it.
UseOrdered(c, since) ==
    \A j, k \in Stored(c) : j \in c.older[k] <=> j # k /\ k \in since[j]

LEMMA RemoveUseOrdered ==
    ASSUME NEW c, CacheOK(c), NEW since, UseOrdered(c, since),
           NEW D, NEW r, r = Remove(c, D)
    PROVE  UseOrdered(r, since)
<1>1. Stored(r) = Stored(c) \ D
  BY RemoveOK
<1>2. r.older = [k \in Key |-> IF k \in D THEN {} ELSE c.older[k] \ D]
  BY RemoveOlder
<1>3. Stored(c) \subseteq Key
  BY DEF CacheOK, Stored
<1>4. \A k \in Stored(r) : r.older[k] = c.older[k] \ D
  BY <1>1, <1>2, <1>3
<1> QED BY <1>1, <1>4 DEF UseOrdered

LEMMA MoveUseOrdered ==
    ASSUME TypeOK, NEW b, CacheOK(b), UseOrdered(b, usedSince),
           Stored(b) \subseteq Stored(cache), NEW ks, ListOK(ks), NEW D,
           D \subseteq Elems(ks), NEW r, CacheOK(r),
           Stored(r) = Stored(b) \cup D, r.older = MoveToEnd(b, ks, D),
           Use(ks, D)
    PROVE  UseOrdered(r, usedSince')
<1>1. \A j, k \in D : j # k => (j \in Earlier(ks, k) <=> k \notin Earlier(ks, j))
  BY EarlierIsOrder DEF ListOK
<1>2. \A k \in D : k \notin Earlier(ks, k)
  BY EarlierIsOrder DEF ListOK
<1>3. Stored(r) \subseteq Key
  BY DEF CacheOK, Stored
<1>4. \A j, k \in Stored(r) : j \in r.older[k] <=>
          IF k \in D THEN j \notin D \/ j \in Earlier(ks, k)
                     ELSE j \notin D /\ j \in b.older[k]
  BY <1>3 DEF MoveToEnd
<1>5. \A j, k \in Stored(r) : k \in usedSince'[j] <=>
          IF j \in D THEN k \in D /\ k # j /\ k \notin Earlier(ks, j)
                     ELSE k \in D \/ k \in usedSince[j]
  BY <1>3 DEF Use
<1> SUFFICES ASSUME NEW j \in Stored(r), NEW k \in Stored(r)
             PROVE  j \in r.older[k] <=> j # k /\ k \in usedSince'[j]
  BY DEF UseOrdered
<1>6. CASE j \in D /\ k \in D
  BY <1>1, <1>2, <1>4, <1>5, <1>6
<1>7. CASE j \notin D /\ k \notin D
  <2>1. j \in Stored(b) /\ k \in Stored(b)
    BY <1>7
  <2>2. j \in b.older[k] <=> j # k /\ k \in usedSince[j]
    BY <2>1 DEF UseOrdered
  <2> QED BY <1>4, <1>5, <1>7, <2>2
<1>8. CASE ~(j \in D <=> k \in D)
  BY <1>4, <1>5, <1>8
<1> QED BY <1>6, <1>7, <1>8

LEMMA FullUseOrdered ==
    ASSUME TypeOK, UseOrdered(cache, usedSince), NEW ks, NEW new, NewOK(ks, new),
           Use(ks, DOMAIN new), NEW full, full = Full(ks, new)
    PROVE  UseOrdered(full, usedSince')
<1> DEFINE base == Remove(cache, DOMAIN new)
<1>1. CacheOK(cache)
  BY TypeIsCacheOK
<1>2. CacheOK(base) /\ Stored(base) = Stored(cache) \ DOMAIN new
      /\ UseOrdered(base, usedSince)
  BY <1>1, RemoveOK, RemoveUseOrdered
<1>3. full = Insert(base, ks, new)
  BY DEF Full
<1> HIDE DEF base
<1>4. CacheOK(full) /\ Stored(full) = Stored(base) \cup DOMAIN new
  BY <1>2, <1>3, InsertOK
<1>5. full.older = MoveToEnd(base, ks, DOMAIN new)
  BY <1>3, InsertOlder
<1>6. ListOK(ks) /\ DOMAIN new \subseteq Elems(ks)
  BY DEF NewOK, ListOK
<1> QED BY <1>2, <1>4, <1>5, <1>6, MoveUseOrdered

-----------------------------------------------------------------------------
(* The limit on the number of entries.                                     *)

\* In a total order on a non-empty set of entries one is the oldest.
LEMMA OldestExists ==
    ASSUME NEW c, CacheOK(c), TotalOrder(c), NEW S, S \subseteq Stored(c), S # {}
    PROVE  \E k \in S : c.older[k] \cap S = {}
<1> DEFINE Olders == {c.older[k] : k \in S}
<1>1. Stored(c) \subseteq Key
  BY DEF CacheOK, Stored
<1>2. IsFiniteSet(Stored(c))
  BY <1>1, KeyAssumption, FS_Subset
<1>3. \A k \in Stored(c) : c.older[k] \subseteq Stored(c)
  BY <1>1 DEF CacheOK, Stored
<1>4. Olders \subseteq FiniteSubsetsOf(Stored(c))
  BY <1>2, <1>3, FS_Subset DEF FiniteSubsetsOf
<1>5. IsWellFoundedOn(StrictSubsetOrdering(Stored(c)), FiniteSubsetsOf(Stored(c)))
  BY FS_StrictSubsetOrderingWellFounded
<1>6. PICK x \in Olders : \A y \in Olders : <<y, x>> \notin StrictSubsetOrdering(Stored(c))
  BY <1>4, <1>5, WFMin, Olders # {}
<1>7. PICK k \in S : x = c.older[k]
  OBVIOUS
<1>8. ASSUME NEW j \in S, j \in c.older[k] PROVE FALSE
  <2>1. c.older[j] \subseteq c.older[k]
    BY <1>3, <1>8 DEF TotalOrder
  <2>2. c.older[j] # c.older[k]
    BY <1>8 DEF TotalOrder
  <2>3. <<c.older[j], x>> \in StrictSubsetOrdering(Stored(c))
    BY <1>3, <1>7, <2>1, <2>2 DEF StrictSubsetOrdering
  <2> QED BY <1>6, <2>3
<1> QED BY <1>8

\* What the first loop of _enforceLimits leaves is at most maxEntries.
LEMMA EnoughEvicted ==
    ASSUME NEW c, CacheOK(c), TotalOrder(c), NEW out, TooMany(c) \subseteq out
    PROVE  /\ IsFiniteSet(Stored(c) \ out)
           /\ Cardinality(Stored(c) \ out) <= MaxEntries
<1> DEFINE S == Stored(c) \ out
<1>1. IsFiniteSet(Stored(c))
  BY KeyAssumption, FS_Subset DEF CacheOK, Stored
<1>2. IsFiniteSet(S)
  BY <1>1, FS_Subset
<1>3. CASE S = {}
  BY <1>2, <1>3, FS_EmptySet, LimitAssumption
<1>4. CASE S # {}
  <2>1. PICK k \in S : c.older[k] \cap S = {}
    BY <1>4, OldestExists
  <2>2. S \subseteq Stored(c) \ c.older[k]
    BY <2>1
  <2>3. IsFiniteSet(Stored(c) \ c.older[k])
    BY <1>1, FS_Subset
  <2>4. /\ Cardinality(S) <= Cardinality(Stored(c) \ c.older[k])
        /\ Cardinality(S) \in Nat
        /\ Cardinality(Stored(c) \ c.older[k]) \in Nat
    BY <2>2, <2>3, <1>2, FS_Subset, FS_CardinalityType
  <2>5. ~(Cardinality(Stored(c) \ c.older[k]) > MaxEntries)
    BY <2>1 DEF TooMany
  <2> QED BY <1>2, <2>4, <2>5, LimitAssumption
<1> QED BY <1>3, <1>4

\* What the second loop leaves is at most maxMemory, however large one entry
\* is: the oldest entry left was left because everything in front of it is
\* enough.
LEMMA EnoughFreed ==
    ASSUME NEW c, CacheOK(c), TotalOrder(c), Counted(c), MaxMemory > 0,
           NEW out, TooLarge(c) \subseteq out
    PROVE  Total(c.store, Stored(c) \ out) <= MaxMemory
<1> DEFINE S == Stored(c) \ out
<1>1. CASE S = {}
  BY <1>1, TotalEmpty, LimitAssumption
<1>2. CASE S # {}
  <2>1. PICK k \in S : c.older[k] \cap S = {}
    BY <1>2, OldestExists
  <2>2. c.older[k] \subseteq Stored(c) /\ S \cup c.older[k] \subseteq Stored(c)
    BY <2>1 DEF CacheOK, Stored
  <2>3. Sized(c.store, S) /\ Sized(c.store, c.older[k]) /\ Sized(c.store, Stored(c))
    BY <2>2, StoredSized
  <2>4. c.mem - SizeOf(c, c.older[k]) <= MaxMemory
    <3>1. k \in Stored(c) /\ k \notin TooLarge(c)
      BY <2>1
    <3>2. SizeOf(c, c.older[k]) \in Nat /\ SizeOf(c, Stored(c)) \in Nat
      BY <2>3, TotalNat DEF SizeOf
    <3> QED BY <3>1, <3>2, LimitAssumption DEF TooLarge, Counted
  <2> DEFINE front == c.older[k]
  <2> HIDE DEF S, front
  <2>5. Total(c.store, S \cup front) = Total(c.store, S) + Total(c.store, front)
    BY <2>1, <2>3, TotalDisjoint DEF front
  <2>6. Total(c.store, S \cup front) <= Total(c.store, Stored(c))
    BY <2>2, <2>3, TotalMonotone DEF front
  <2>7. /\ Total(c.store, S) \in Nat
        /\ Total(c.store, front) \in Nat
        /\ Total(c.store, Stored(c)) \in Nat
    BY <2>3, TotalNat DEF front
  <2>8. c.mem = Total(c.store, Stored(c)) /\ c.mem - Total(c.store, front) <= MaxMemory
    BY <2>4 DEF Counted, SizeOf, front
  <2>9. Total(c.store, S) <= MaxMemory
    BY <2>5, <2>6, <2>7, <2>8, LimitAssumption
  <2> QED BY <2>9 DEF S
<1> QED BY <1>1, <1>2

-----------------------------------------------------------------------------
(* The three theorems about order and eviction rest on one inductive       *)
(* invariant: the order is total, and it is the order of use.              *)

OrderInv == TotalOrder(cache) /\ UseOrdered(cache, usedSince)

LEMMA SameOrder ==
    ASSUME TypeOK, OrderInv, Stored(cache') = Stored(cache),
           cache'.older = cache.older, usedSince' = usedSince
    PROVE  OrderInv'
<1>1. TotalOrder(cache')
  BY DEF OrderInv, TotalOrder
<1>2. UseOrdered(cache', usedSince')
  BY DEF OrderInv, UseOrdered
<1> QED BY <1>1, <1>2 DEF OrderInv, TotalOrder, UseOrdered

LEMMA ShrinkOrder ==
    ASSUME TypeOK, OrderInv, NEW D, NEW r, r = Remove(cache, D),
           cache'.store = r.store, cache'.older = r.older, usedSince' = usedSince
    PROVE  OrderInv'
<1>1. TotalOrder(r) /\ UseOrdered(r, usedSince)
  BY TypeIsCacheOK, RemoveTotalOrder, RemoveUseOrdered DEF OrderInv
<1>2. Stored(cache') = Stored(r)
  BY DEF Stored
<1>3. TotalOrder(cache')
  BY <1>1, <1>2 DEF TotalOrder
<1>4. UseOrdered(cache', usedSince')
  BY <1>1, <1>2 DEF UseOrdered
<1> QED BY <1>3, <1>4 DEF OrderInv, TotalOrder, UseOrdered

LEMMA WriteOrder ==
    ASSUME TypeOK, OrderInv, NEW ks, NEW new, NewOK(ks, new), Write(ks, new)
    PROVE  /\ OrderInv'
           /\ TotalOrder(Full(ks, new))
           /\ UseOrdered(Full(ks, new), usedSince')
<1>1. Use(ks, DOMAIN new) /\ cache' = Remove(Full(ks, new), Out(ks, new))
  BY WriteIsRemove DEF Write
<1>2. CacheOK(Full(ks, new)) /\ TotalOrder(Full(ks, new))
  BY FullOK, FullTotalOrder DEF OrderInv
<1>3. UseOrdered(Full(ks, new), usedSince')
  BY <1>1, FullUseOrdered DEF OrderInv
<1>4. TotalOrder(cache')
  BY <1>1, <1>2, RemoveTotalOrder
<1>5. UseOrdered(cache', usedSince')
  BY <1>1, <1>2, <1>3, RemoveUseOrdered
<1> QED BY <1>2, <1>3, <1>4, <1>5 DEF OrderInv, TotalOrder, UseOrdered

LEMMA ReadOrder ==
    ASSUME TypeOK, OrderInv, NEW ks, ListOK(ks), Read(ks)
    PROVE  OrderInv'
<1> DEFINE dead == Dead(cache, Elems(ks), now)
           live == (Elems(ks) \cap Stored(cache)) \ dead
           c    == Remove(cache, dead)
<1>1. CacheOK(cache)
  BY TypeIsCacheOK
<1>2. /\ CacheOK(c)
      /\ Stored(c) = Stored(cache) \ dead
      /\ TotalOrder(c)
      /\ UseOrdered(c, usedSince)
  BY <1>1, RemoveOK, RemoveTotalOrder, RemoveUseOrdered DEF OrderInv
<1>3. live \subseteq Stored(c) /\ live \subseteq Elems(ks)
  BY <1>2
<1>4. cache' = Refresh(c, ks, live) /\ Use(ks, live)
  BY DEF Read
<1> HIDE DEF c, live
<1>5. ks \in Seq(Key)
  BY DEF ListOK
<1>6. /\ CacheOK(cache')
      /\ cache'.store = c.store
      /\ cache'.older = MoveToEnd(c, ks, live)
  BY <1>2, <1>3, <1>4, <1>5, RefreshOK
<1>7. Stored(cache') = Stored(c) \cup live
  BY <1>3, <1>6 DEF Stored
<1>8. Stored(c) \subseteq Stored(cache)
  BY <1>2
<1>9. TotalOrder(cache')
  BY <1>2, <1>3, <1>6, <1>7, MoveTotalOrder
<1>10. UseOrdered(cache', usedSince')
  BY <1>2, <1>3, <1>4, <1>6, <1>7, <1>8, MoveUseOrdered
<1> QED BY <1>9, <1>10 DEF OrderInv, TotalOrder, UseOrdered

LEMMA OrderInvariant == Spec => [](TypeOK /\ OrderInv)
<1>1. Init => OrderInv
  BY DEF Init, OrderInv, TotalOrder, UseOrdered, EmptyCache, Stored
<1>2. TypeOK /\ OrderInv /\ [Next]_vars => OrderInv'
  <2> SUFFICES ASSUME TypeOK, OrderInv, [Next]_vars PROVE OrderInv'
    OBVIOUS
  <2>1. ASSUME NEW D, Drop(D) PROVE OrderInv'
    BY <2>1, ShrinkOrder DEF Drop
  <2>2. ASSUME NEW ks, ListOK(ks), Read(ks) PROVE OrderInv'
    BY <2>2, ReadOrder
  <2>3. ASSUME NEW ks, NEW new, NewOK(ks, new), Write(ks, new) PROVE OrderInv'
    BY <2>3, WriteOrder
  <2>4. ASSUME NEW t \in Tag, InvalidateByTag(t) PROVE OrderInv'
    <3>1. /\ cache'.store = Remove(cache, cache.tags[t]).store
          /\ cache'.older = Remove(cache, cache.tags[t]).older
          /\ usedSince' = usedSince
      BY <2>4 DEF InvalidateByTag
    <3> QED BY <3>1, ShrinkOrder
  <2>5. CASE Clear \/ Destroy
    BY <2>5 DEF Clear, Destroy, EmptyCache, OrderInv, TotalOrder, UseOrdered, Stored
  <2>6. ASSUME NEW k \in Careless, NEW tags \in SUBSET Tag, MutateTags(k, tags) PROVE OrderInv'
    <3>1. Stored(cache') = Stored(cache) /\ cache'.older = cache.older /\ usedSince' = usedSince
      BY <2>6 DEF MutateTags, Stored
    <3> QED BY <3>1, SameOrder
  <2>7. ASSUME NEW ls \in LockSets, ChangeLocks(ls) PROVE OrderInv'
    BY <2>7, SameOrder DEF ChangeLocks
  <2>8. CASE Tick
    BY <2>8, SameOrder DEF Tick
  <2>9. CASE UNCHANGED vars
    BY <2>9, SameOrder DEF vars, history
  <2> QED BY <2>1, <2>2, <2>3, <2>4, <2>5, <2>6, <2>7, <2>8, <2>9, StepKinds DEF Shrink, Put
<1> QED BY <1>1, <1>2, TypeCorrect, PTL DEF Spec

\* The order of the ES6 map is always the order of last use.
THEOREM MapOrderCorrect == Spec => []MapOrderIsUseOrder
<1>1. OrderInv => MapOrderIsUseOrder
  BY DEF OrderInv, UseOrdered, MapOrderIsUseOrder
<1> QED BY <1>1, OrderInvariant, PTL

\* The cache never holds more than maxEntries entries between two calls.
THEOREM EntryLimitCorrect == Spec => []EntryLimit
<1> DEFINE Inv == IsFiniteSet(Stored(cache)) /\ EntryLimit
<1>1. Init => Inv
  BY FS_EmptySet, LimitAssumption, EmptyCacheOK DEF Init, EntryLimit
<1>2. TypeOK /\ OrderInv /\ Inv /\ [Next]_vars => Inv'
  <2> SUFFICES ASSUME TypeOK, OrderInv, Inv, [Next]_vars PROVE Inv'
    OBVIOUS
  <2>1. ASSUME Stored(cache') \subseteq Stored(cache) PROVE Inv'
    <3>1. /\ IsFiniteSet(Stored(cache'))
          /\ Cardinality(Stored(cache')) <= Cardinality(Stored(cache))
          /\ Cardinality(Stored(cache')) \in Nat /\ Cardinality(Stored(cache)) \in Nat
      BY <2>1, FS_Subset, FS_CardinalityType
    <3> QED BY <3>1, LimitAssumption DEF EntryLimit, Stored
  <2>2. ASSUME NEW ks, NEW new, NewOK(ks, new), Write(ks, new) PROVE Inv'
    <3>1. CacheOK(Full(ks, new)) /\ TotalOrder(Full(ks, new))
      BY <2>2, FullOK, WriteOrder
    <3>2. Stored(cache') = Stored(Full(ks, new)) \ Out(ks, new)
      BY <2>2, FullOK, WriteOK
    <3>3. TooMany(Full(ks, new)) \subseteq Out(ks, new)
      BY DEF Out
    <3>4. IsFiniteSet(Stored(cache')) /\ Cardinality(Stored(cache')) <= MaxEntries
      BY <3>1, <3>2, <3>3, EnoughEvicted
    <3> QED BY <3>4 DEF EntryLimit, Stored
  <2>3. ASSUME NEW D, Drop(D) PROVE Stored(cache') \subseteq Stored(cache)
    BY <2>3, TypeIsCacheOK, RemoveOK DEF Drop
  <2>4. ASSUME NEW ks, ListOK(ks), Read(ks) PROVE Stored(cache') \subseteq Stored(cache)
    <3>1. cache'.store = Remove(cache, Dead(cache, Elems(ks), now)).store
      BY <2>4 DEF Read, Refresh
    <3> QED BY <3>1 DEF Remove, Stored
  <2>5. ASSUME NEW t \in Tag, InvalidateByTag(t) PROVE Stored(cache') \subseteq Stored(cache)
    <3>1. cache'.store = Remove(cache, cache.tags[t]).store
      BY <2>5 DEF InvalidateByTag
    <3> QED BY <3>1 DEF Remove, Stored
  <2>6. CASE Clear \/ Destroy
    <3>1. Stored(cache') = {}
      BY <2>6 DEF Clear, Destroy, EmptyCache, Stored
    <3> QED BY <3>1, <2>1
  <2>7. ASSUME NEW k \in Careless, NEW tags \in SUBSET Tag, MutateTags(k, tags)
        PROVE  Stored(cache') \subseteq Stored(cache)
    BY <2>7 DEF MutateTags, Stored
  <2>8. ASSUME NEW ls \in LockSets, ChangeLocks(ls) PROVE Stored(cache') \subseteq Stored(cache)
    BY <2>8 DEF ChangeLocks
  <2>9. CASE Tick \/ UNCHANGED vars
    BY <2>1, <2>9 DEF Tick, vars
  <2> QED BY <2>1, <2>2, <2>3, <2>4, <2>5, <2>6, <2>7, <2>8, <2>9, StepKinds DEF Shrink, Put
<1>3. Inv => EntryLimit
  OBVIOUS
<1> QED BY <1>1, <1>2, <1>3, OrderInvariant, PTL DEF Spec

LEMMA FullMem ==
    ASSUME TypeOK, Counted(cache), NEW ks, NEW new, NewOK(ks, new)
    PROVE  Counted(Full(ks, new))
<1> DEFINE base == Remove(cache, DOMAIN new)
<1>1. CacheOK(cache) /\ base = Remove(cache, DOMAIN new)
  BY TypeIsCacheOK
<1>2. Full(ks, new) = Insert(base, ks, new)
  BY DEF Full
<1> HIDE DEF base
<1>3. CacheOK(base) /\ Stored(base) = Stored(cache) \ DOMAIN new
  BY <1>1, RemoveOK
<1>4. Counted(base)
  BY <1>1, RemoveMem
<1> QED BY <1>2, <1>3, <1>4, InsertMem

LEMMA WriteMem ==
    ASSUME TypeOK, OrderInv, Counted(cache), NEW ks, NEW new, NewOK(ks, new),
           Write(ks, new)
    PROVE  /\ Counted(cache')
           /\ MaxMemory > 0 => cache'.mem <= MaxMemory
<1> DEFINE full == Full(ks, new)
           out  == Out(ks, new)
<1>1. CacheOK(full) /\ TotalOrder(full) /\ Counted(full)
  BY FullOK, FullMem, WriteOrder
<1>2. cache' = Remove(full, out) /\ TooLarge(full) \subseteq out
  BY WriteIsRemove DEF Out
<1> HIDE DEF full, out
<1>3. Counted(cache') /\ Stored(cache') = Stored(full) \ out
  BY <1>1, <1>2, RemoveMem, RemoveOK
<1>4. ASSUME MaxMemory > 0 PROVE cache'.mem <= MaxMemory
  <2>1. Total(full.store, Stored(full) \ out) <= MaxMemory
    BY <1>1, <1>2, <1>4, EnoughFreed
  <2>2. \A k \in Stored(full) \ out : cache'.store[k] = full.store[k]
    BY <1>1, <1>2, RemoveStore
  <2>3. Total(cache'.store, Stored(full) \ out) = Total(full.store, Stored(full) \ out)
    BY <2>2, TotalSame
  <2> QED BY <1>3, <2>1, <2>3 DEF Counted, SizeOf
<1> QED BY <1>3, <1>4

\* A cache that has lost entries, if anything.
LEMMA LessMem ==
    ASSUME TypeOK, MemoryLimit, ~destroyed, NEW D, NEW r, r = Remove(cache, D),
           cache'.mem = r.mem, cache'.store = r.store
    PROVE  MemoryLimit'
<1>1. CacheOK(cache) /\ Counted(cache)
  BY TypeIsCacheOK DEF MemoryLimit, Counted
<1>2. Counted(r) /\ r.mem = cache.mem - SizeOf(cache, D \cap Stored(cache)) /\ r.mem \in Nat
  BY <1>1, RemoveMem
<1>3. SizeOf(cache, D \cap Stored(cache)) \in Nat /\ SizeOf(cache, Stored(cache)) \in Nat
  BY <1>1, StoredSized, TotalNat DEF SizeOf
<1>4. cache.mem \in Nat /\ r.mem <= cache.mem
  BY <1>1, <1>2, <1>3 DEF Counted
<1>5. MaxMemory > 0 => r.mem <= MaxMemory
  BY <1>2, <1>4, LimitAssumption DEF MemoryLimit
<1>6. cache'.mem = SizeOf(cache', Stored(cache'))
  BY <1>2 DEF Counted, SizeOf, Stored
<1> QED BY <1>5, <1>6 DEF MemoryLimit

\* The memory counter, kept by differences, is the sum of the sizes of the
\* stored entries, and no call returns with more than maxMemory.
THEOREM MemoryLimitCorrect == Spec => []MemoryLimit
<1>1. Init => MemoryLimit
  <2> SUFFICES ASSUME Init PROVE MemoryLimit
    OBVIOUS
  <2>1. cache.mem = 0 /\ Stored(cache) = {}
    BY EmptyCacheOK DEF Init, EmptyCache
  <2>2. SizeOf(cache, {}) = 0
    BY TotalEmpty DEF SizeOf
  <2> QED BY <2>1, <2>2, LimitAssumption DEF MemoryLimit
<1>2. TypeOK /\ OrderInv /\ MemoryLimit /\ [Next]_vars => MemoryLimit'
  <2> SUFFICES ASSUME TypeOK, OrderInv, MemoryLimit, [Next]_vars PROVE MemoryLimit'
    OBVIOUS
  <2>1. ASSUME NEW D, Drop(D) PROVE MemoryLimit'
    BY <2>1, LessMem DEF Drop
  <2>2. ASSUME NEW ks, ListOK(ks), Read(ks) PROVE MemoryLimit'
    <3> DEFINE c == Remove(cache, Dead(cache, Elems(ks), now))
    <3>1. ~destroyed /\ cache'.mem = c.mem /\ cache'.store = c.store
      BY <2>2 DEF Read, Refresh
    <3> QED BY <3>1, LessMem
  <2>3. ASSUME NEW ks, NEW new, NewOK(ks, new), Write(ks, new) PROVE MemoryLimit'
    <3>1. Counted(cache)
      BY <2>3 DEF Write, MemoryLimit, Counted
    <3>2. /\ Counted(cache')
          /\ MaxMemory > 0 => cache'.mem <= MaxMemory
      BY <2>3, <3>1, WriteMem
    <3>3. cache'.mem = SizeOf(cache', Stored(cache'))
      BY <3>2 DEF Counted
    <3> QED BY <3>2, <3>3 DEF MemoryLimit
  <2>4. ASSUME NEW t \in Tag, InvalidateByTag(t) PROVE MemoryLimit'
    <3> DEFINE c == Remove(cache, cache.tags[t])
    <3>1. ~destroyed /\ cache'.mem = c.mem /\ cache'.store = c.store
      BY <2>4 DEF InvalidateByTag
    <3> QED BY <3>1, LessMem
  <2>5. CASE Clear
    <3>1. cache' = EmptyCache
      BY <2>5 DEF Clear
    <3> QED BY <3>1, TotalEmpty, EmptyCacheOK, LimitAssumption
         DEF MemoryLimit, SizeOf, EmptyCache, Stored
  <2>6. CASE Destroy
    BY <2>6 DEF Destroy, MemoryLimit
  <2>7. ASSUME NEW k \in Careless, NEW tags \in SUBSET Tag, MutateTags(k, tags)
        PROVE  MemoryLimit'
    <3>1. /\ ~destroyed /\ cache'.mem = cache.mem
          /\ cache'.store = [cache.store EXCEPT ![k].tags = tags]
      BY <2>7 DEF MutateTags
    <3>2. /\ Stored(cache') = Stored(cache)
          /\ \A j \in Stored(cache) : cache'.store[j].size = cache.store[j].size
      <4>1. \A j \in Stored(cache) : cache.store[j] \in Entry
        BY DEF TypeOK
      <4> QED BY <3>1, <4>1 DEF Stored, Entry
    <3>3. SizeOf(cache', Stored(cache')) = SizeOf(cache, Stored(cache))
      BY <3>2, TotalSame DEF SizeOf
    <3> QED BY <3>1, <3>3 DEF MemoryLimit
  <2>8. CASE UNCHANGED <<cache, destroyed>>
    BY <2>8 DEF MemoryLimit, SizeOf, Stored
  <2>9. ASSUME NEW ls \in LockSets, ChangeLocks(ls) PROVE MemoryLimit'
    BY <2>8, <2>9 DEF ChangeLocks
  <2>10. CASE Tick \/ UNCHANGED vars
    BY <2>8, <2>10 DEF Tick, vars
  <2> QED BY <2>1, <2>2, <2>3, <2>4, <2>5, <2>6, <2>7, <2>9, <2>10, StepKinds DEF Shrink, Put
<1> QED BY <1>1, <1>2, OrderInvariant, PTL DEF Spec

\* Both limits hold between two calls, whatever they are.
THEOREM LimitsCorrect == Spec => []LimitsKept
  BY EntryLimitCorrect, MemoryLimitCorrect, PTL DEF LimitsKept

\* If the map is too long from k on, it is too long from any entry in front
\* of k on; and likewise if it is too large.
LEMMA FewerInFront ==
    ASSUME NEW c, IsFiniteSet(Stored(c)), NEW k \in TooMany(c), NEW j \in Stored(c),
           c.older[j] \subseteq c.older[k]
    PROVE  j \in TooMany(c)
<1>1. Stored(c) \ c.older[k] \subseteq Stored(c) \ c.older[j]
  OBVIOUS
<1>2. IsFiniteSet(Stored(c) \ c.older[j]) /\ IsFiniteSet(Stored(c) \ c.older[k])
  BY FS_Subset
<1>3. /\ Cardinality(Stored(c) \ c.older[k]) <= Cardinality(Stored(c) \ c.older[j])
      /\ Cardinality(Stored(c) \ c.older[k]) \in Nat
      /\ Cardinality(Stored(c) \ c.older[j]) \in Nat
  BY <1>1, <1>2, FS_Subset, FS_CardinalityType
<1>4. Cardinality(Stored(c) \ c.older[k]) > MaxEntries
  BY DEF TooMany
<1> QED BY <1>3, <1>4, LimitAssumption DEF TooMany

LEMMA SmallerInFront ==
    ASSUME NEW c, CacheOK(c), Counted(c), NEW k \in TooLarge(c), NEW j \in Stored(c),
           c.older[j] \subseteq c.older[k]
    PROVE  j \in TooLarge(c)
<1>1. k \in Stored(c) /\ MaxMemory # 0 /\ c.mem - SizeOf(c, c.older[k]) > MaxMemory
  BY DEF TooLarge
<1>2. c.older[k] \subseteq Stored(c) /\ c.older[j] \subseteq Stored(c)
  BY <1>1 DEF CacheOK, Stored
<1>3. Sized(c.store, c.older[k]) /\ Sized(c.store, c.older[j]) /\ Sized(c.store, Stored(c))
  BY <1>2, StoredSized
<1>4. SizeOf(c, c.older[j]) <= SizeOf(c, c.older[k])
  BY <1>3, TotalMonotone DEF SizeOf
<1>5. SizeOf(c, c.older[j]) \in Nat /\ SizeOf(c, c.older[k]) \in Nat /\ c.mem \in Nat
  BY <1>3, TotalNat DEF SizeOf, Counted
<1>6. c.mem - SizeOf(c, c.older[j]) > MaxMemory
  BY <1>1, <1>4, <1>5, LimitAssumption
<1> QED BY <1>1, <1>6 DEF TooLarge

\* Both loops of _enforceLimits take a prefix of the map: eviction takes the
\* entries that were used least recently, and without a memory budget none
\* that fewer than maxEntries other keys were used after.
THEOREM EvictionCorrect == Spec => []EvictsLeastRecentlyUsed
<1>1. Init => EvictsLeastRecentlyUsed
  BY DEF Init, EvictsLeastRecentlyUsed
<1>2. TypeOK /\ OrderInv /\ MemoryLimit /\ EvictsLeastRecentlyUsed /\ [Next]_vars
          => EvictsLeastRecentlyUsed'
  <2> SUFFICES ASSUME TypeOK, OrderInv, MemoryLimit, EvictsLeastRecentlyUsed, [Next]_vars
               PROVE  EvictsLeastRecentlyUsed'
    OBVIOUS
  <2>1. CASE evicted' = {}
    BY <2>1 DEF EvictsLeastRecentlyUsed
  <2>2. ASSUME NEW ks, NEW new, NewOK(ks, new), Write(ks, new)
        PROVE  EvictsLeastRecentlyUsed'
    <3> DEFINE full == Full(ks, new)
    <3>1. /\ CacheOK(full) /\ TotalOrder(full) /\ UseOrdered(full, usedSince')
          /\ OrderInv'
      BY <2>2, FullOK, WriteOrder
    <3>2. Stored(cache') = Stored(full) \ Out(ks, new) /\ evicted' = Out(ks, new)
      BY <2>2, FullOK, WriteOK, WriteIsRemove
    <3>3. Out(ks, new) = TooMany(full) \cup TooLarge(full)
      BY DEF Out
    <3>8. Counted(full)
      BY <2>2, FullMem DEF MemoryLimit, Counted, Write
    <3> HIDE DEF full
    <3>4. Stored(full) \subseteq Key /\ IsFiniteSet(Stored(full))
      BY <3>1, KeyAssumption, FS_Subset DEF CacheOK, Stored
    <3>5. usedSince' \in [Key -> SUBSET Key]
      BY <2>2, ElemsType, UseType DEF Write, NewOK
    <3>6. ASSUME NEW k \in evicted', NEW j \in Stored(cache') PROVE j \in usedSince'[k]
      <4>1. k \in Stored(full) /\ j \in Stored(full) /\ j # k
        BY <3>2, <3>3, <3>6 DEF TooMany, TooLarge
      <4>2. j \notin full.older[k]
        <5> SUFFICES ASSUME j \in full.older[k] PROVE j \in TooMany(full) \cup TooLarge(full)
          BY <3>2, <3>3, <3>6
        <5>1. full.older[j] \subseteq full.older[k]
          BY <3>1, <4>1 DEF TotalOrder, CacheOK, Stored
        <5>2. CASE k \in TooMany(full)
          BY <3>4, <4>1, <5>1, <5>2, FewerInFront
        <5>3. CASE k \in TooLarge(full)
          BY <3>1, <3>8, <4>1, <5>1, <5>3, SmallerInFront
        <5> QED BY <3>2, <3>3, <3>6, <5>2, <5>3
      <4>3. k \in full.older[j]
        BY <3>1, <4>1, <4>2 DEF TotalOrder
      <4> QED BY <3>1, <4>1, <4>3 DEF UseOrdered
    <3>7. ASSUME NEW k \in evicted', MaxMemory = 0
          PROVE  Cardinality(usedSince'[k]) >= MaxEntries
      <4>1. k \in Stored(full) /\ Cardinality(Stored(full) \ full.older[k]) > MaxEntries
        BY <3>2, <3>3, <3>7 DEF TooMany, TooLarge
      <4>2. (Stored(full) \ full.older[k]) \ {k} \subseteq usedSince'[k]
        BY <3>1, <4>1 DEF TotalOrder, UseOrdered
      <4>3. k \in Stored(full) \ full.older[k] /\ IsFiniteSet(Stored(full) \ full.older[k])
        BY <3>1, <3>4, <4>1, FS_Subset DEF TotalOrder
      <4>4. /\ Cardinality((Stored(full) \ full.older[k]) \ {k})
                   = Cardinality(Stored(full) \ full.older[k]) - 1
            /\ Cardinality(Stored(full) \ full.older[k]) \in Nat
        BY <4>3, FS_RemoveElement, FS_CardinalityType
      <4>5. IsFiniteSet(usedSince'[k])
        BY <3>4, <3>5, <4>1, KeyAssumption, FS_Subset
      <4>6. /\ Cardinality((Stored(full) \ full.older[k]) \ {k}) <= Cardinality(usedSince'[k])
            /\ Cardinality(usedSince'[k]) \in Nat
        BY <4>2, <4>5, FS_Subset, FS_CardinalityType
      <4> QED BY <4>1, <4>4, <4>6, LimitAssumption
    <3> QED BY <3>6, <3>7 DEF EvictsLeastRecentlyUsed, Stored
  <2>3. ASSUME NEW D, Drop(D) PROVE evicted' = {}
    BY <2>3 DEF Drop
  <2>4. ASSUME NEW ks, Read(ks) PROVE evicted' = {}
    BY <2>4 DEF Read
  <2>5. ASSUME NEW t \in Tag, InvalidateByTag(t) PROVE evicted' = {}
    BY <2>5 DEF InvalidateByTag
  <2>6. ASSUME NEW k \in Careless, NEW tags \in SUBSET Tag, MutateTags(k, tags) PROVE evicted' = {}
    BY <2>6 DEF MutateTags
  <2>7. ASSUME NEW ls \in LockSets, ChangeLocks(ls) PROVE evicted' = {}
    BY <2>7 DEF ChangeLocks
  <2>8. CASE Clear \/ Destroy \/ Tick
    BY <2>1, <2>8 DEF Clear, Destroy, Tick
  <2>9. CASE UNCHANGED vars
    BY <2>9 DEF vars, history, EvictsLeastRecentlyUsed, Stored
  <2> QED BY <2>1, <2>2, <2>3, <2>4, <2>5, <2>6, <2>7, <2>8, <2>9, StepKinds DEF Shrink, Put
<1> QED BY <1>1, <1>2, OrderInvariant, MemoryLimitCorrect, PTL DEF Spec

=============================================================================
