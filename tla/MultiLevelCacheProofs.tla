------------------------- MODULE MultiLevelCacheProofs -------------------------
(***************************************************************************)
(* Theorems about MultiLevelCache, for any number of processes, keys, tags *)
(* and calls, any mix of write policies and any ttls.                      *)
(***************************************************************************)
EXTENDS MultiLevelCache, TLAPS

-----------------------------------------------------------------------------
(* The inductive invariant.  First the shape of the state: when a call     *)
(* lands, what it may hold before, and that the clock has not passed what  *)
(* is still there.                                                         *)

Slot == Entry \cup {None}
Level == [Key -> Slot]

LevelsTyped ==
    /\ local \in [Process -> Level]
    /\ remote \in Level
    /\ \A k \in Key : remote[k] # None => remote[k].value \in landed

CallsTyped ==
    /\ pc \in [Call -> {"new", "read", "ttl", "fill", "write", "delete", "invalidate"} \cup Over]
    /\ arg \in [Call -> Arg]
    /\ seen \in [Call -> [Key -> Call \cup {None}]]
    /\ ttl \in [Call -> [Key -> Answer \cup {None}]]
    /\ \A x \in Call, k \in Key : ttl[x][k] # None => seen[x][k] # None

HistoryTyped ==
    /\ dies \in [Call -> Nat \cup {Never}]
    /\ landed \subseteq Call
    /\ beside \in [Call -> SUBSET Call]
    /\ gone \in [Process -> SUBSET (Call \X Key)]
    /\ untagged \in [Process -> SUBSET (Call \X Key)]

\* What is in the remote level has not expired; answers were given in the past.
Timely ==
    /\ \A k \in Key : remote[k] # None => remote[k].expires = Never \/ now <= remote[k].expires
    /\ \A x \in Call, k \in Key : ttl[x][k] # None => ttl[x][k].at <= now

\* A write lands once, as its last step.
LandsOnce == \A x \in landed : pc[x] \in {"done", "failed"}

\* A read has seen nothing before it is answered, and then what has landed.
SeenLanded ==
    \A x \in Call, k \in Key :
        seen[x][k] # None => seen[x][k] \in landed /\ pc[x] \notin {"new", "read"}

\* Local entries are of calls that have begun.
LocalBegun == \A p \in Process, k \in Key : local[p][k] # None => pc[local[p][k].value] # "new"

-----------------------------------------------------------------------------
(* For TtlPreserved.                                                       *)

\* The remote level keeps a value as long as its write said.
RemoteLife == \A k \in Key : remote[k] # None => remote[k].expires = dies[remote[k].value]

\* A local entry whose write has not landed will not outlive the remote one.
OwnLife ==
    \A p \in Process, k \in Key :
        LET e == local[p][k] IN
        e # None /\ e.value \notin landed /\ arg[e.value].ttl \notin {0, NoTtl} =>
            e.expires # Never /\ e.expires <= now + arg[e.value].ttl

\* An answer about the value read promises no more than what was left of it.
AnswersTrue ==
    \A x \in Call, k \in Key :
        LET a == ttl[x][k] IN
        a # None /\ a.sure /\ dies[seen[x][k]] # Never =>
            a.left = Gone \/ (a.left \in Nat \ {0} /\ a.at + a.left <= dies[seen[x][k]])

-----------------------------------------------------------------------------
(* For NeverGoesBack.                                                      *)

Active(x) == pc[x] \notin Over \cup {"new"}

\* Calls of a process that are active together know of each other.
BesideInv ==
    \A x, y \in Call :
        Active(x) /\ Active(y) /\ x # y /\ ProcessOf[x] = ProcessOf[y] => y \in beside[x]

\* v is no value that a call beside x has read or written.
Excused(x, v, k) == v = x \/ \E z \in beside[x] : v = z \/ v = seen[z][k]

\* While a call overwrites or deletes a key, its process has at the key its
\* value, or one of a call beside it.
OnlyBeside ==
    \A x \in Call, k \in Key : pc[x] \in {"write", "delete"} /\ k \in arg[x].keys =>
        LET e == local[ProcessOf[x]][k] IN e # None => Excused(x, e.value, k)

\* Only landed values are gone; and they are neither in the remote level nor
\* in the hands of a read of the process.
GoneLanded == \A p \in Process : \A v \in gone[p] : v[1] \in landed
GoneFromRemote ==
    \A p \in Process, k \in Key : remote[k] # None => <<remote[k].value, k>> \notin gone[p]
GoneFromReads ==
    \A x \in Call, k \in Key :
        Active(x) /\ seen[x][k] # None => <<seen[x][k], k>> \notin gone[ProcessOf[x]]

-----------------------------------------------------------------------------
(* For InvalidationMissesOnlyCopies.                                       *)

\* An entry with tags was written by its own process, and has its write's tags;
\* the remote level has them of every entry.
TagsOfWriter ==
    /\ \A p \in Process, k \in Key :
          LET e == local[p][k] IN
          e # None /\ e.tags # {} => ProcessOf[e.value] = p /\ e.tags = arg[e.value].tags
    /\ \A k \in Key : remote[k] # None => remote[k].tags = arg[remote[k].value].tags

\* While a call invalidates a tag, its process has entries with the tag only of
\* calls beside it.
InvalidatedLocally ==
    \A x \in Call, k \in Key : pc[x] = "invalidate" =>
        LET e == local[ProcessOf[x]][k] IN
        e # None /\ e.tags \cap arg[x].tags # {} => e.value \in beside[x]

\* Only landed values are invalidated.
UntaggedLanded == \A p \in Process : \A v \in untagged[p] : v[1] \in landed

-----------------------------------------------------------------------------
(* The invariant.                                                          *)

Base == TypeOK /\ Timely /\ LandsOnce /\ SeenLanded /\ LocalBegun
TtlInv == RemoteLife /\ OwnLife /\ AnswersTrue /\ TtlPreserved
GoneInv == BesideInv /\ OnlyBeside /\ GoneLanded /\ GoneFromRemote /\ GoneFromReads /\ NeverGoesBack
UntagInv == TagsOfWriter /\ InvalidatedLocally /\ UntaggedLanded /\ InvalidationMissesOnlyCopies

IInv == Base /\ TtlInv /\ GoneInv /\ UntagInv

-----------------------------------------------------------------------------
(* The steps, in groups, and what each group does.                         *)

Starting(x) ==
    \/ \E D \in SUBSET Key \ {{}} :
          \/ Read(x, D) \/ Delete(x, D)
          \/ \E t \in Ttl \cup {NoTtl}, tags \in SUBSET Tag : Write(x, D, t, tags)
    \/ \E t \in Tag : InvalidateByTag(x, t)

Landing(x) == RemoteWrite(x) \/ RemoteWriteFails(x)

Removing(x) ==
    RemoteDelete(x) \/ RemoteDeleteFails(x) \/ RemoteInvalidate(x) \/ RemoteInvalidateFails(x)

Losing(p) == Clear(p) \/ \E k \in Key : Evict(p, k)

\* Every step belongs to one of the groups.
LEMMA Groups ==
    ASSUME Next
    PROVE  \/ \E x \in Call : Starting(x)
           \/ \E x \in Call : RemoteRead(x)
           \/ \E x \in Call : RemoteTimeout(x)
           \/ \E x \in Call, k \in Key : AskTtl(x, k)
           \/ \E x \in Call : Fill(x)
           \/ \E x \in Call : Landing(x)
           \/ \E x \in Call : Removing(x)
           \/ \E p \in Process : Losing(p)
           \/ Tick
BY Zenon DEF Next, Reading, Starting, Landing, Removing, Losing

LEMMA Typed ==
    TypeOK <=> now \in 0..MaxTime /\ LevelsTyped /\ CallsTyped /\ HistoryTyped
BY DEF TypeOK, LevelsTyped, CallsTyped, HistoryTyped, Level, Slot

LEMMA TypedNext ==
    TypeOK' <=> now' \in 0..MaxTime /\ LevelsTyped' /\ CallsTyped' /\ HistoryTyped'
BY DEF TypeOK, LevelsTyped, CallsTyped, HistoryTyped, Level, Slot

LEMMA NowNat == now \in 0..MaxTime => now \in Nat
BY TimeAssumption

\* The end of a life: for ever, or later than now.
LEMMA AfterFacts ==
    ASSUME now \in Nat, NEW n \in Nat
    PROVE  /\ After(n) \in Nat \cup {Never}
           /\ n = 0 <=> After(n) = Never
           /\ n # 0 => After(n) = now + n
BY DEF After, Never

LEMMA ExpiryFacts ==
    ASSUME now \in Nat, NEW t \in Ttl \cup {NoTtl}
    PROVE  /\ LocalExpiry(t) \in Nat \cup {Never}
           /\ RemoteExpiry(t) \in Nat \cup {Never}
           /\ RemoteExpiry(t) # Never => t \notin {0, NoTtl} /\ RemoteExpiry(t) = now + t
           /\ t \notin {0, NoTtl} => t \in Nat \ {0} /\ LocalExpiry(t) = now + t
           /\ RemoteExpiry(t) = Never \/ now <= RemoteExpiry(t)
BY AfterFacts, TtlAssumption DEF LocalExpiry, RemoteExpiry

LEMMA PutTyped ==
    ASSUME NEW level \in Level, NEW D, NEW e \in Slot
    PROVE  Put(level, D, e) \in Level
BY DEF Put, Level

\* One level of one process is replaced.
LEMMA SetLocalAt ==
    ASSUME local \in [Process -> Level], NEW p \in Process, NEW level \in Level,
           SetLocal(p, level)
    PROVE  /\ local' \in [Process -> Level]
           /\ local'[p] = level
           /\ \A q \in Process : q # p => local'[q] = local[q]
BY DEF SetLocal

-----------------------------------------------------------------------------
(* A call begins.                                                          *)

\* The entry of a write.
Own(x, a) ==
    [value |-> x, expires |-> LocalExpiry(a.ttl), tags |-> a.tags, late |-> 0, sure |-> TRUE]

\* x begins with the arguments a, as a call of kind l: on its keys a write puts
\* its entry and a deletion nothing; elsewhere an entry stays or goes; an
\* invalidation leaves none with its tag.
Begins(x, a, l) ==
    LET p == ProcessOf[x] IN
    /\ pc[x] = "new" /\ pc' = [pc EXCEPT ![x] = l]
    /\ arg' = [arg EXCEPT ![x] = a]
    /\ local' \in [Process -> Level]
    /\ \A q \in Process, k \in Key : q # p => local'[q][k] = local[q][k]
    /\ \A k \in Key :
          IF l \in {"write", "async"} /\ k \in a.keys THEN local'[p][k] = Own(x, a)
          ELSE IF l = "delete" /\ k \in a.keys THEN local'[p][k] = None
          ELSE local'[p][k] \in {local[p][k], None}
    /\ l = "invalidate" =>
          \A k \in Key : local'[p][k] # None => local'[p][k].tags \cap a.tags = {}
    /\ beside' \in [Call -> SUBSET Call]
    /\ \A y \in Call : y # x =>
          /\ beside[y] \subseteq beside'[y]
          /\ Active(y) /\ ProcessOf[y] = ProcessOf[x] => x \in beside'[y] /\ y \in beside'[x]
    /\ UNCHANGED <<now, remote, seen, ttl, dies, landed, gone, untagged>>

LEMMA StartFacts ==
    ASSUME CallsTyped, HistoryTyped, NEW x \in Call, NEW a \in Arg, Start(x, a)
    PROVE  /\ pc[x] = "new"
           /\ arg' = [arg EXCEPT ![x] = a] /\ arg'[x] = a
           /\ beside' \in [Call -> SUBSET Call]
           /\ \A y \in Call : y # x =>
                 /\ beside[y] \subseteq beside'[y]
                 /\ Active(y) /\ ProcessOf[y] = ProcessOf[x] => x \in beside'[y] /\ y \in beside'[x]
           /\ UNCHANGED <<now, remote, seen, ttl, dies, landed, gone, untagged>>
<1>1. beside' \in [Call -> SUBSET Call]
  BY DEF Start, CallsTyped, HistoryTyped
<1>2. ASSUME NEW y \in Call, y # x
      PROVE  /\ beside[y] \subseteq beside'[y]
             /\ Active(y) /\ ProcessOf[y] = ProcessOf[x] => x \in beside'[y] /\ y \in beside'[x]
  BY <1>2 DEF Start, CallsTyped, HistoryTyped, Active
<1> QED BY <1>1, <1>2 DEF Start, CallsTyped

\* Dropping keys of a level.
LEMMA DropFacts ==
    ASSUME NEW level \in Level, NEW D
    PROVE  /\ Drop(level, D) \in Level
           /\ \A k \in Key : Drop(level, D)[k] = IF k \in D THEN None ELSE level[k]
BY DEF Drop, Put, Level, Slot

LEMMA StartingBegins ==
    ASSUME TypeOK, NEW x \in Call, Starting(x)
    PROVE  \E a \in Arg, l \in {"read", "write", "async", "delete", "invalidate"} : Begins(x, a, l)
<1> DEFINE p == ProcessOf[x]
<1>1. /\ p \in Process /\ local[p] \in Level /\ local \in [Process -> Level]
      /\ CallsTyped /\ HistoryTyped /\ now \in Nat
  BY Typed, NowNat, ProcessAssumption DEF LevelsTyped
<1>2. ASSUME NEW D \in SUBSET Key, Read(x, D) PROVE \E a \in Arg : Begins(x, a, "read")
  <2> DEFINE a == [NoArg EXCEPT !.keys = {k \in D : local[p][k] = None}]
  <2>1. a \in Arg
    BY DEF Arg, NoArg
  <2>2. Start(x, a) /\ pc' = [pc EXCEPT ![x] = "read"] /\ local' = local
    BY <1>2 DEF Read, Goto
  <2>3. Begins(x, a, "read")
    BY <1>1, <2>1, <2>2, StartFacts DEF Begins
  <2> QED BY <2>1, <2>3
<1>3. ASSUME NEW D \in SUBSET Key, Delete(x, D) PROVE \E a \in Arg : Begins(x, a, "delete")
  <2> DEFINE a == [NoArg EXCEPT !.keys = D]
  <2>1. a \in Arg /\ a.keys = D
    BY DEF Arg, NoArg
  <2>2. Start(x, a) /\ pc' = [pc EXCEPT ![x] = "delete"] /\ SetLocal(p, Drop(local[p], D))
    BY <1>3 DEF Delete, Goto
  <2>3. /\ local' \in [Process -> Level] /\ local'[p] = Drop(local[p], D)
        /\ \A q \in Process : q # p => local'[q] = local[q]
    BY <1>1, <2>2, SetLocalAt, DropFacts
  <2>4. \A k \in Key : local'[p][k] = IF k \in D THEN None ELSE local[p][k]
    BY <1>1, <2>3, DropFacts
  <2>5. Begins(x, a, "delete")
    BY <2>1, <2>2, <2>3, <2>4, <1>1, StartFacts DEF Begins
  <2> QED BY <2>1, <2>5
<1>4. ASSUME NEW D \in SUBSET Key, NEW t \in Ttl \cup {NoTtl}, NEW tags \in SUBSET Tag,
             Write(x, D, t, tags)
      PROVE  \E a \in Arg, l \in {"write", "async"} : Begins(x, a, l)
  <2> DEFINE a == [keys |-> D, ttl |-> t, tags |-> tags]
             l == IF WritePolicy[p] = "both" THEN "write" ELSE "async"
  <2>1. a \in Arg /\ a.keys = D /\ l \in {"write", "async"}
    BY DEF Arg
  <2>2. Start(x, a) /\ pc' = [pc EXCEPT ![x] = l]
    BY <1>4 DEF Write, Goto
  <2>3. arg'[x] = a
    BY <1>1, <2>1, <2>2, StartFacts
  <2>4. SetLocal(p, Put(local[p], D, Own(x, a)))
    BY <1>4, <2>3 DEF Write, Written, Own
  <2>5. Own(x, a) \in Slot
    BY <1>1, ExpiryFacts DEF Own, Slot, Entry
  <2>6. /\ local' \in [Process -> Level] /\ local'[p] = Put(local[p], D, Own(x, a))
        /\ \A q \in Process : q # p => local'[q] = local[q]
    BY <1>1, <2>4, <2>5, SetLocalAt, PutTyped
  <2>7. \A k \in Key : local'[p][k] = IF k \in D THEN Own(x, a) ELSE local[p][k]
    BY <2>6 DEF Put
  <2>8. Begins(x, a, l)
    BY <2>1, <2>2, <2>6, <2>7, <1>1, StartFacts DEF Begins
  <2> QED BY <2>1, <2>8
<1>5. ASSUME NEW t \in Tag, InvalidateByTag(x, t) PROVE \E a \in Arg : Begins(x, a, "invalidate")
  <2> DEFINE a == [NoArg EXCEPT !.tags = {t}]
  <2>1. a \in Arg /\ a.tags = {t}
    BY DEF Arg, NoArg
  <2>2. /\ Start(x, a) /\ pc' = [pc EXCEPT ![x] = "invalidate"]
        /\ SetLocal(p, Drop(local[p], Tagged(local[p], t)))
    BY <1>5 DEF InvalidateByTag, Goto
  <2>3. /\ local' \in [Process -> Level] /\ local'[p] = Drop(local[p], Tagged(local[p], t))
        /\ \A q \in Process : q # p => local'[q] = local[q]
    BY <1>1, <2>2, SetLocalAt, DropFacts
  <2>4. \A k \in Key : local'[p][k] = IF k \in Tagged(local[p], t) THEN None ELSE local[p][k]
    BY <1>1, <2>3, DropFacts
  <2>6. \A k \in Key : local'[p][k] # None => local'[p][k].tags \cap a.tags = {}
    BY <2>1, <2>4 DEF Tagged
  <2> HIDE DEF a
  <2>5. Begins(x, a, "invalidate")
    BY <2>1, <2>2, <2>3, <2>4, <2>6, <1>1, StartFacts DEF Begins
  <2> QED BY <2>1, <2>5
<1> QED BY <1>2, <1>3, <1>4, <1>5 DEF Starting

-----------------------------------------------------------------------------
(* The other groups.                                                       *)

\* Entries of local levels go, and nothing else happens to these levels.
OnlyLost ==
    /\ local' \in [Process -> Level]
    /\ \A p \in Process, k \in Key : local'[p][k] \in {None, local[p][k]}

LEMMA LosingFacts ==
    ASSUME TypeOK, NEW p \in Process, Losing(p)
    PROVE  OnlyLost /\ UNCHANGED <<now, remote, pc, arg, seen, ttl, history>>
<1>1. local \in [Process -> Level]
  BY Typed DEF LevelsTyped
<1>2. ASSUME NEW D, SetLocal(p, Drop(local[p], D)) PROVE OnlyLost
  BY <1>1, <1>2, SetLocalAt, DropFacts DEF OnlyLost
<1> QED BY <1>2 DEF Losing, Clear, Evict

LEMMA TickFacts ==
    ASSUME TypeOK, Tick
    PROVE  /\ OnlyLost
           /\ remote' \in Level
           /\ \A k \in Key : remote'[k] \in {None, remote[k]}
           /\ \A k \in Key : remote'[k] # None => remote[k].expires # now
           /\ now' = now + 1 /\ now' \in 0..MaxTime
           /\ UNCHANGED <<pc, arg, seen, ttl, history>>
<1>1. local \in [Process -> Level] /\ remote \in Level /\ now \in 0..MaxTime /\ MaxTime \in Nat
  BY Typed, TimeAssumption DEF LevelsTyped
<1> DEFINE Out(p) == {k \in Key : local[p][k] # None /\ local[p][k].expires = now'}
           D == {k \in Key : remote[k] # None /\ remote[k].expires = now}
<1>2. local' = [p \in Process |-> Drop(local[p], Out(p))] /\ remote' = Drop(remote, D)
  BY DEF Tick
<1> HIDE DEF Out
<1>3. ASSUME NEW p \in Process
      PROVE  local'[p] \in Level /\ \A k \in Key : local'[p][k] \in {None, local[p][k]}
  <2>1. local'[p] = Drop(local[p], Out(p)) /\ local[p] \in Level
    BY <1>1, <1>2
  <2> QED BY <2>1, DropFacts
<1>4. local' = [p \in Process |-> local'[p]]
  BY <1>2
<1>5. OnlyLost
  BY <1>3, <1>4 DEF OnlyLost
<1>6. remote' \in Level /\ \A k \in Key : remote'[k] = IF k \in D THEN None ELSE remote[k]
  BY <1>1, <1>2, DropFacts
<1> QED BY <1>1, <1>5, <1>6 DEF Tick

\* Only reads that are about to end make copies, of values they have seen.
Filled(x) ==
    /\ local' \in [Process -> Level]
    /\ \A q \in Process, k \in Key :
          \/ local'[q][k] = local[q][k]
          \/ q = ProcessOf[x] /\ ttl[x][k] # None /\ ttl[x][k].left # Gone /\ local'[q][k] = Copy(x, k)

LEMMA CopyTyped ==
    ASSUME TypeOK, Timely, NEW x \in Call, NEW k \in Key, ttl[x][k] # None, ttl[x][k].left # Gone
    PROVE  /\ Copy(x, k) \in Entry
           /\ Copy(x, k).value = seen[x][k] /\ seen[x][k] # None
           /\ Copy(x, k).sure = ttl[x][k].sure /\ Copy(x, k).late = now - ttl[x][k].at
           /\ ttl[x][k].left \in Nat \ {0} => Copy(x, k).expires = now + ttl[x][k].left
<1> DEFINE a == ttl[x][k]
           life == IF a.left = Unknown THEN DefaultTtl ELSE IF a.left = Never THEN 0 ELSE a.left
<1>1. now \in Nat /\ CallsTyped /\ DefaultTtl \in Nat
  BY Typed, NowNat, TtlAssumption
<1>2. a \in Answer /\ a.at <= now /\ seen[x][k] \in Call
  BY <1>1 DEF CallsTyped, Timely
<1>3. a.left \in Nat \cup {Never, Unknown} /\ a.at \in Nat /\ a.sure \in BOOLEAN
  BY <1>2 DEF Answer
<1>4. life \in Nat /\ (a.left \in Nat => life = a.left)
  BY <1>1, <1>3 DEF Never, Unknown
<1>5. After(life) \in Nat \cup {Never} /\ (life # 0 => After(life) = now + life)
  BY <1>1, <1>4, AfterFacts
<1>6. Copy(x, k) = [value |-> seen[x][k], expires |-> After(life), tags |-> {},
                    late |-> now - a.at, sure |-> a.sure]
  BY DEF Copy
<1>7. now - a.at \in Nat
  BY <1>1, <1>2, <1>3
<1> HIDE DEF life
<1>8. Copy(x, k) \in Entry
  BY <1>2, <1>3, <1>5, <1>6, <1>7 DEF Entry
<1> QED BY <1>2, <1>4, <1>5, <1>6, <1>8, NoneAssumption

LEMMA FillFacts ==
    ASSUME TypeOK, Timely, NEW x \in Call, Fill(x)
    PROVE  /\ pc[x] = "fill" /\ pc' = [pc EXCEPT ![x] = "done"]
           /\ Filled(x)
           /\ UNCHANGED <<now, remote, arg, seen, ttl, history>>
<1> DEFINE p == ProcessOf[x]
           Made(k) == ttl[x][k] # None /\ ttl[x][k].left # Gone
           level == [k \in Key |-> IF Made(k) THEN Copy(x, k) ELSE local[p][k]]
<1>1. p \in Process /\ local \in [Process -> Level] /\ local[p] \in Level
  BY Typed, ProcessAssumption DEF LevelsTyped
<1>2. level \in Level
  <2>1. ASSUME NEW k \in Key PROVE (IF Made(k) THEN Copy(x, k) ELSE local[p][k]) \in Slot
    BY <1>1, CopyTyped DEF Level, Slot
  <2> QED BY <2>1 DEF Level
<1>3. SetLocal(p, level)
  BY DEF Fill
<1>4. /\ local' \in [Process -> Level] /\ local'[p] = level
      /\ \A q \in Process : q # p => local'[q] = local[q]
  BY <1>1, <1>2, <1>3, SetLocalAt
<1>5. Filled(x)
  BY <1>1, <1>4 DEF Filled
<1> QED BY <1>5 DEF Fill, Goto

-----------------------------------------------------------------------------
(* Changes of the remote level.                                            *)

\* What x has finished with had landed, and is excused by nothing beside x.
LEMMA FinishedFacts ==
    ASSUME HistoryTyped, NEW x \in Call, NEW D \in SUBSET Key
    PROVE  /\ Finished(x, D) \subseteq Call \X Key
           /\ \A v \in Finished(x, D) : v[1] \in landed
           /\ \A y \in Call, k \in Key : <<y, k>> \in Finished(x, D) => k \in D /\ ~Excused(x, y, k)
<1>1. landed \subseteq Call
  BY DEF HistoryTyped
<1>2. Finished(x, D) \subseteq landed \X D
  BY DEF Finished
<1>3. ASSUME NEW y \in Call, NEW k \in Key, <<y, k>> \in Finished(x, D)
      PROVE  k \in D /\ ~Excused(x, y, k)
  <2>1. k \in D
    BY <1>2, <1>3
  <2>2. y # x
    BY <1>3, <2>1 DEF Finished
  <2>3. \A z \in beside[x] : y # z /\ y # seen[z][k]
    BY <1>3 DEF Finished
  <2> QED BY <2>1, <2>2, <2>3 DEF Excused
<1> QED BY <1>1, <1>2, <1>3

\* x finishes with its keys in both levels.
Finishes(x) == gone' = [gone EXCEPT ![ProcessOf[x]] = @ \cup Finished(x, arg[x].keys)]

LEMMA FinishesTyped ==
    ASSUME TypeOK, NEW x \in Call, Finishes(x)
    PROVE  /\ gone' \in [Process -> SUBSET (Call \X Key)]
           /\ gone'[ProcessOf[x]] = gone[ProcessOf[x]] \cup Finished(x, arg[x].keys)
           /\ \A p \in Process : p # ProcessOf[x] => gone'[p] = gone[p]
<1>1. /\ gone \in [Process -> SUBSET (Call \X Key)] /\ HistoryTyped
      /\ ProcessOf[x] \in Process /\ arg[x].keys \in SUBSET Key
  BY Typed, ProcessAssumption DEF HistoryTyped, CallsTyped, Arg
<1>2. Finished(x, arg[x].keys) \subseteq Call \X Key
  BY <1>1, FinishedFacts
<1> QED BY <1>1, <1>2 DEF Finishes

LEMMA RemovingFacts ==
    ASSUME TypeOK, NEW x \in Call, Removing(x)
    PROVE  /\ pc[x] \in {"delete", "invalidate"}
           /\ \E l \in {"done", "failed"} : pc' = [pc EXCEPT ![x] = l]
           /\ remote' \in Level /\ \A k \in Key : remote'[k] \in {None, remote[k]}
           /\ \/ gone' = gone
              \/ pc[x] = "delete" /\ Finishes(x) /\ \A k \in arg[x].keys : remote'[k] = None
           /\ untagged' \in [Process -> SUBSET (Call \X Key)]
           /\ UNCHANGED <<now, local, arg, seen, ttl, dies, landed, beside>>
<1>1. /\ remote \in Level /\ HistoryTyped /\ arg[x].keys \in SUBSET Key
      /\ ProcessOf[x] \in Process /\ untagged \in [Process -> SUBSET (Call \X Key)]
  BY Typed, ProcessAssumption DEF LevelsTyped, HistoryTyped, CallsTyped, Arg
<1>2. ASSUME NEW D, remote' \in {remote, Drop(remote, D)}
      PROVE  remote' \in Level /\ \A k \in Key : remote'[k] \in {None, remote[k]}
  BY <1>1, <1>2, DropFacts
<1>3. CASE RemoteDelete(x)
  <2>1. remote' = Drop(remote, arg[x].keys) /\ \A k \in arg[x].keys : remote'[k] = None
    BY <1>1, <1>3, DropFacts DEF RemoteDelete
  <2> QED BY <1>1, <1>2, <1>3, <2>1 DEF RemoteDelete, Goto, Finishes
<1>4. CASE RemoteDeleteFails(x)
  BY <1>1, <1>2, <1>4 DEF RemoteDeleteFails, Goto, history
<1>5. CASE RemoteInvalidate(x)
  <2>1. PICK t \in arg[x].tags :
          LET D == Tagged(remote, t) IN
          /\ remote' = Drop(remote, D)
          /\ untagged' = [untagged EXCEPT ![ProcessOf[x]] =
                  @ \cup {v \in Finished(x, D) : remote[v[2]].value = v[1]}]
    BY <1>5 DEF RemoteInvalidate
  <2>2. Tagged(remote, t) \in SUBSET Key
    BY DEF Tagged
  <2>3. {v \in Finished(x, Tagged(remote, t)) : remote[v[2]].value = v[1]} \subseteq Call \X Key
    BY <1>1, <2>2, FinishedFacts
  <2>4. untagged' \in [Process -> SUBSET (Call \X Key)]
    BY <1>1, <2>1, <2>3
  <2> QED BY <1>2, <1>5, <2>1, <2>4 DEF RemoteInvalidate, Goto
<1>6. CASE RemoteInvalidateFails(x)
  BY <1>1, <1>2, <1>6 DEF RemoteInvalidateFails, Goto, history
<1> QED BY <1>3, <1>4, <1>5, <1>6 DEF Removing

\* The entry a write makes in the remote level.
Stored(x) ==
    [value |-> x, expires |-> RemoteExpiry(arg[x].ttl), tags |-> arg[x].tags,
     late |-> 0, sure |-> TRUE]

Lands(x) ==
    /\ remote' \in Level
    /\ \A k \in Key : remote'[k] = IF k \in arg[x].keys THEN Stored(x) ELSE remote[k]
    /\ dies' = [dies EXCEPT ![x] = RemoteExpiry(arg[x].ttl)]
    /\ landed' = landed \cup {x}

LEMMA LandingFacts ==
    ASSUME TypeOK, NEW x \in Call, Landing(x)
    PROVE  /\ pc[x] \in {"write", "async"}
           /\ \E l \in {"done", "failed"} : pc' = [pc EXCEPT ![x] = l]
           /\ \/ UNCHANGED <<remote, dies, landed, gone>>
              \/ Lands(x) /\ gone' = gone
              \/ Lands(x) /\ pc[x] = "write" /\ Finishes(x)
           /\ UNCHANGED <<now, local, arg, seen, ttl, beside, untagged>>
<1>1. remote \in Level /\ arg[x] \in Arg /\ now \in Nat
  BY Typed, NowNat DEF LevelsTyped, CallsTyped
<1>2. Stored(x) \in Slot
  BY <1>1, ExpiryFacts DEF Stored, Slot, Entry, Arg
<1>3. ASSUME Land(x) PROVE Lands(x)
  <2>1. remote' = Put(remote, arg[x].keys, Stored(x))
    BY <1>3 DEF Land, Stored
  <2>2. remote' \in Level
    BY <1>1, <1>2, <2>1, PutTyped
  <2>3. \A k \in Key : remote'[k] = IF k \in arg[x].keys THEN Stored(x) ELSE remote[k]
    BY <2>1 DEF Put
  <2> QED BY <1>3, <2>2, <2>3 DEF Land, Lands
<1>4. CASE RemoteWrite(x)
  BY <1>3, <1>4 DEF RemoteWrite, Goto, Finishes
<1>5. CASE RemoteWriteFails(x)
  <2>1. \E l \in {"done", "failed"} : pc' = [pc EXCEPT ![x] = l]
    BY <1>5 DEF RemoteWriteFails, Goto
  <2> QED BY <1>3, <1>5, <2>1 DEF RemoteWriteFails
<1> QED BY <1>4, <1>5 DEF Landing

-----------------------------------------------------------------------------
(* Base is inductive.                                                      *)

LEMMA BaseInit == Init => Base
<1> SUFFICES ASSUME Init PROVE Base
  OBVIOUS
<1>1. LevelsTyped
  BY DEF Init, LevelsTyped, Level, Slot
<1>2. CallsTyped
  BY TtlAssumption DEF Init, CallsTyped, Arg, NoArg
<1>3. HistoryTyped
  BY DEF Init, HistoryTyped
<1>4. TypeOK
  BY <1>1, <1>2, <1>3, Typed, TimeAssumption DEF Init
<1> QED BY <1>4 DEF Base, Init, Timely, LandsOnce, SeenLanded, LocalBegun

LEMMA LocalOfCalls ==
    ASSUME Base, NEW p \in Process, NEW k \in Key, local[p][k] # None
    PROVE  local[p][k] \in Entry /\ local[p][k].value \in Call /\ pc[local[p][k].value] # "new"
BY Typed DEF Base, LocalBegun, LevelsTyped, Level, Slot, Entry

LEMMA BaseStarting ==
    ASSUME Base, NEW x \in Call, Starting(x)
    PROVE  Base'
<1>1. PICK a \in Arg, l \in {"read", "write", "async", "delete", "invalidate"} : Begins(x, a, l)
  BY StartingBegins DEF Base
<1>2. LevelsTyped /\ CallsTyped /\ HistoryTyped /\ now \in 0..MaxTime
  BY Typed DEF Base
<1>3. /\ UNCHANGED <<now, remote, seen, ttl, dies, landed, gone, untagged>>
      /\ pc[x] = "new" /\ pc'[x] = l /\ \A y \in Call : y # x => pc'[y] = pc[y]
  BY <1>1, <1>2 DEF Begins, CallsTyped
<1>4. LevelsTyped'
  BY <1>1, <1>2, <1>3 DEF Begins, LevelsTyped
<1>5. CallsTyped'
  BY <1>1, <1>2, <1>3 DEF Begins, CallsTyped, Over
<1>6. HistoryTyped'
  BY <1>1, <1>2, <1>3 DEF Begins, HistoryTyped
<1>7. TypeOK'
  BY <1>2, <1>3, <1>4, <1>5, <1>6, TypedNext
<1>8. Timely'
  BY <1>3 DEF Base, Timely
<1>9. LandsOnce'
  BY <1>2, <1>3 DEF Base, LandsOnce, HistoryTyped
<1>10. SeenLanded'
  BY <1>3 DEF Base, SeenLanded
<1>11. LocalBegun'
  <2> SUFFICES ASSUME NEW q \in Process, NEW k \in Key, local'[q][k] # None
               PROVE  pc'[local'[q][k].value] # "new"
    BY DEF LocalBegun
  <2>1. local'[q][k] = Own(x, a) \/ local'[q][k] = local[q][k]
    BY <1>1 DEF Begins
  <2>2. CASE local'[q][k] = Own(x, a)
    BY <1>3, <2>2 DEF Own
  <2>3. CASE local'[q][k] = local[q][k]
    <3>1. local[q][k].value \in Call /\ pc[local[q][k].value] # "new"
      BY <2>3, LocalOfCalls
    <3> QED BY <1>3, <2>3, <3>1
  <2> QED BY <2>1, <2>2, <2>3
<1> QED BY <1>7, <1>8, <1>9, <1>10, <1>11 DEF Base

\* Entries that only go disturb nothing that is said of local entries.
LEMMA OnlyLostBase ==
    ASSUME Base, OnlyLost, UNCHANGED <<pc, arg, seen, ttl, history>>,
           now' \in 0..MaxTime, now <= now',
           remote' \in Level, \A k \in Key : remote'[k] \in {None, remote[k]},
           \A k \in Key : remote'[k] # None => remote[k].expires = Never \/ now' <= remote[k].expires
    PROVE  Base'
<1>1. LevelsTyped /\ CallsTyped /\ HistoryTyped /\ now \in 0..MaxTime /\ now \in Nat /\ now' \in Nat
  BY Typed, NowNat, TimeAssumption DEF Base
<1>2. LevelsTyped'
  BY <1>1 DEF OnlyLost, LevelsTyped, history
<1>3. CallsTyped' /\ HistoryTyped'
  BY <1>1 DEF CallsTyped, HistoryTyped, history
<1>4. TypeOK'
  BY <1>2, <1>3, TypedNext
<1>5. Timely'
  <2>1. \A k \in Key : remote'[k] # None => remote'[k].expires = Never \/ now' <= remote'[k].expires
    OBVIOUS
  <2>2. ASSUME NEW x \in Call, NEW k \in Key, ttl[x][k] # None PROVE ttl[x][k].at <= now'
    <3>1. ttl[x][k].at \in Nat /\ ttl[x][k].at <= now
      BY <1>1, <2>2 DEF Base, Timely, CallsTyped, Answer
    <3> QED BY <1>1, <3>1
  <2> QED BY <2>1, <2>2 DEF Timely
<1>6. LandsOnce' /\ SeenLanded'
  BY DEF Base, LandsOnce, SeenLanded, history
<1>7. LocalBegun'
  BY DEF Base, LocalBegun, OnlyLost
<1> QED BY <1>4, <1>5, <1>6, <1>7 DEF Base

LEMMA BaseRemoteRead ==
    ASSUME Base, NEW x \in Call, RemoteRead(x)
    PROVE  Base'
<1>1. LevelsTyped /\ CallsTyped /\ HistoryTyped /\ now \in 0..MaxTime
  BY Typed DEF Base
<1> DEFINE got == [k \in Key |->
                     IF k \in arg[x].keys /\ remote[k] # None THEN remote[k].value ELSE None]
<1>2. /\ UNCHANGED <<now, levels, arg, ttl, history>>
      /\ pc[x] = "read" /\ seen' = [seen EXCEPT ![x] = got]
      /\ pc'[x] \in {"ttl", "done"} /\ \A y \in Call : y # x => pc'[y] = pc[y]
      /\ pc' \in [Call -> {"new", "read", "ttl", "fill", "write", "delete", "invalidate"} \cup Over]
  BY <1>1 DEF RemoteRead, Goto, CallsTyped, Over
<1>3. \A k \in Key : got[k] \in Call \cup {None} /\ (got[k] # None => got[k] \in landed)
  BY <1>1 DEF LevelsTyped, HistoryTyped
<1> HIDE DEF got
<1>4. /\ seen'[x] = got /\ \A y \in Call : y # x => seen'[y] = seen[y]
      /\ seen' \in [Call -> [Key -> Call \cup {None}]]
  <2>1. got \in [Key -> Call \cup {None}]
    BY <1>3 DEF got
  <2> QED BY <1>1, <1>2, <2>1 DEF CallsTyped
<1>5. \A k \in Key : seen[x][k] = None /\ ttl[x][k] = None
  BY <1>1, <1>2 DEF Base, SeenLanded, CallsTyped
<1>6. CallsTyped'
  BY <1>1, <1>2, <1>4, <1>5 DEF CallsTyped
<1>7. LevelsTyped' /\ HistoryTyped'
  BY <1>1, <1>2 DEF LevelsTyped, HistoryTyped, levels, history
<1>8. TypeOK'
  BY <1>1, <1>2, <1>6, <1>7, TypedNext
<1>9. Timely'
  BY <1>2 DEF Base, Timely, levels
<1>10. LandsOnce'
  BY <1>1, <1>2 DEF Base, LandsOnce, HistoryTyped, history
<1>11. SeenLanded'
  BY <1>2, <1>3, <1>4 DEF Base, SeenLanded, history
<1>12. LocalBegun'
  BY <1>2, LocalOfCalls DEF LocalBegun, levels
<1> QED BY <1>8, <1>9, <1>10, <1>11, <1>12 DEF Base

\* A step of a call that has begun and changes no more than the answers to its
\* ttl queries, its copies and its place.
LEMMA BaseReading ==
    ASSUME Base, NEW x \in Call,
           UNCHANGED <<now, remote, arg, seen, history>>,
           pc[x] \in {"read", "ttl", "fill"},
           NEW l \in {"ttl", "fill", "done"}, pc' = [pc EXCEPT ![x] = l],
           ttl' \in [Call -> [Key -> Answer \cup {None}]],
           \A y \in Call, k \in Key : ttl'[y][k] # None => seen[y][k] # None /\ ttl'[y][k].at <= now,
           Filled(x)
    PROVE  Base'
<1>1. LevelsTyped /\ CallsTyped /\ HistoryTyped /\ now \in 0..MaxTime
  BY Typed DEF Base
<1>2. /\ pc' \in [Call -> {"new", "read", "ttl", "fill", "write", "delete", "invalidate"} \cup Over]
      /\ pc'[x] = l /\ \A y \in Call : y # x => pc'[y] = pc[y]
  BY <1>1 DEF CallsTyped, Over
<1>3. CallsTyped'
  BY <1>1, <1>2 DEF CallsTyped
<1>4. LevelsTyped' /\ HistoryTyped'
  BY <1>1 DEF LevelsTyped, HistoryTyped, Filled, history
<1>5. TypeOK'
  BY <1>1, <1>3, <1>4, TypedNext
<1>6. Timely'
  BY DEF Base, Timely
<1>7. LandsOnce'
  BY <1>1, <1>2 DEF Base, LandsOnce, HistoryTyped, history
<1>8. SeenLanded'
  BY <1>2 DEF Base, SeenLanded, history
<1>9. LocalBegun'
  <2> SUFFICES ASSUME NEW q \in Process, NEW k \in Key, local'[q][k] # None
               PROVE  pc'[local'[q][k].value] # "new"
    BY DEF LocalBegun
  <2>1. CASE local'[q][k] = local[q][k]
    <3>1. local[q][k].value \in Call /\ pc[local[q][k].value] # "new"
      BY <2>1, LocalOfCalls
    <3> QED BY <1>2, <2>1, <3>1
  <2>2. CASE ttl[x][k] # None /\ ttl[x][k].left # Gone /\ local'[q][k] = Copy(x, k)
    <3>1. local'[q][k].value = seen[x][k] /\ seen[x][k] # None
      BY <2>2, CopyTyped DEF Base
    <3>2. seen[x][k] \in Call /\ pc[seen[x][k]] # "new"
      BY <1>1, <3>1 DEF Base, SeenLanded, LandsOnce, HistoryTyped
    <3> QED BY <1>2, <3>1, <3>2
  <2> QED BY <2>1, <2>2 DEF Filled
<1> QED BY <1>5, <1>6, <1>7, <1>8, <1>9 DEF Base

LEMMA BaseLanding ==
    ASSUME Base, NEW x \in Call, Landing(x)
    PROVE  Base'
<1>1. LevelsTyped /\ CallsTyped /\ HistoryTyped /\ now \in 0..MaxTime /\ now \in Nat
  BY Typed, NowNat DEF Base
<1>2. /\ pc[x] \in {"write", "async"} /\ pc'[x] \in {"done", "failed"}
      /\ \A y \in Call : y # x => pc'[y] = pc[y]
      /\ pc' \in [Call -> {"new", "read", "ttl", "fill", "write", "delete", "invalidate"} \cup Over]
      /\ UNCHANGED <<now, local, arg, seen, ttl, beside, untagged>>
  BY <1>1, LandingFacts DEF Base, CallsTyped, Over
<1>3. UNCHANGED <<remote, dies, landed>> \/ Lands(x)
  BY LandingFacts DEF Base
<1>4. gone' \in [Process -> SUBSET (Call \X Key)]
  BY <1>1, LandingFacts, FinishesTyped DEF Base, HistoryTyped
<1>5. RemoteExpiry(arg[x].ttl) \in Nat \cup {Never}
  BY <1>1, ExpiryFacts DEF CallsTyped, Arg
<1>6. LevelsTyped'
  BY <1>1, <1>2, <1>3 DEF LevelsTyped, Lands, Stored
<1>7. CallsTyped'
  BY <1>1, <1>2 DEF CallsTyped
<1>8. HistoryTyped'
  BY <1>1, <1>2, <1>3, <1>4, <1>5 DEF HistoryTyped, Lands
<1>9. TypeOK'
  BY <1>1, <1>2, <1>6, <1>7, <1>8, TypedNext
<1>10. Timely'
  <2>1. CASE UNCHANGED <<remote, dies, landed>>
    BY <1>2, <2>1 DEF Base, Timely
  <2>2. CASE Lands(x)
    <3>1. arg[x].ttl \in Ttl \cup {NoTtl}
      BY <1>1 DEF CallsTyped, Arg
    <3>2. Stored(x).expires = RemoteExpiry(arg[x].ttl)
      BY DEF Stored
    <3>3. \A k \in Key : remote'[k] # None =>
              remote'[k].expires = Never \/ now <= remote'[k].expires
      BY <1>1, <2>2, <3>1, <3>2, ExpiryFacts DEF Lands, Base, Timely
    <3> QED BY <1>2, <3>3 DEF Base, Timely
  <2> QED BY <1>3, <2>1, <2>2
<1>11. LandsOnce'
  BY <1>1, <1>2, <1>3 DEF Base, LandsOnce, HistoryTyped, Lands
<1>12. SeenLanded'
  BY <1>2, <1>3 DEF Base, SeenLanded, Lands
<1>13. LocalBegun'
  BY <1>2, LocalOfCalls DEF LocalBegun
<1> QED BY <1>9, <1>10, <1>11, <1>12, <1>13 DEF Base

LEMMA BaseRemoving ==
    ASSUME Base, NEW x \in Call, Removing(x)
    PROVE  Base'
<1>1. LevelsTyped /\ CallsTyped /\ HistoryTyped /\ now \in 0..MaxTime
  BY Typed DEF Base
<1>2. /\ pc[x] \in {"delete", "invalidate"} /\ pc'[x] \in {"done", "failed"}
      /\ \A y \in Call : y # x => pc'[y] = pc[y]
      /\ pc' \in [Call -> {"new", "read", "ttl", "fill", "write", "delete", "invalidate"} \cup Over]
      /\ UNCHANGED <<now, local, arg, seen, ttl, dies, landed, beside>>
      /\ remote' \in Level /\ \A k \in Key : remote'[k] \in {None, remote[k]}
      /\ untagged' \in [Process -> SUBSET (Call \X Key)]
  BY <1>1, RemovingFacts DEF Base, CallsTyped, Over
<1>3. gone' \in [Process -> SUBSET (Call \X Key)]
  BY <1>1, RemovingFacts, FinishesTyped DEF Base, HistoryTyped
<1>4. LevelsTyped' /\ CallsTyped' /\ HistoryTyped'
  BY <1>1, <1>2, <1>3 DEF LevelsTyped, CallsTyped, HistoryTyped
<1>5. TypeOK'
  BY <1>1, <1>2, <1>4, TypedNext
<1>6. Timely'
  BY <1>2 DEF Base, Timely
<1>7. LandsOnce' /\ SeenLanded'
  BY <1>1, <1>2 DEF Base, LandsOnce, SeenLanded, HistoryTyped
<1>8. LocalBegun'
  BY <1>2, LocalOfCalls DEF LocalBegun
<1> QED BY <1>5, <1>6, <1>7, <1>8 DEF Base

\* The steps that change the place, the answers and the copies of one read.
LEMMA ReadingFacts ==
    ASSUME Base, NEW x \in Call, RemoteTimeout(x) \/ (\E k \in Key : AskTtl(x, k)) \/ Fill(x)
    PROVE  /\ UNCHANGED <<now, remote, arg, seen, history>>
           /\ pc[x] \in {"read", "ttl", "fill"}
           /\ \E l \in {"ttl", "fill", "done"} : pc' = [pc EXCEPT ![x] = l]
           /\ ttl' \in [Call -> [Key -> Answer \cup {None}]]
           /\ \A y \in Call, k \in Key :
                 ttl'[y][k] # None => seen[y][k] # None /\ ttl'[y][k].at <= now
           /\ Filled(x)
<1>1. LevelsTyped /\ CallsTyped /\ HistoryTyped /\ now \in Nat
  BY Typed, NowNat DEF Base
<1>2. local' = local => Filled(x)
  BY <1>1 DEF LevelsTyped, Filled
<1>3. ttl' = ttl => /\ ttl' \in [Call -> [Key -> Answer \cup {None}]]
                    /\ \A y \in Call, k \in Key :
                          ttl'[y][k] # None => seen[y][k] # None /\ ttl'[y][k].at <= now
  BY <1>1 DEF CallsTyped, Base, Timely
<1>4. CASE RemoteTimeout(x)
  BY <1>2, <1>3, <1>4 DEF RemoteTimeout, Goto, levels
<1>5. ASSUME NEW k \in Key, AskTtl(x, k)
      PROVE  /\ ttl' \in [Call -> [Key -> Answer \cup {None}]]
             /\ \A y \in Call, j \in Key :
                   ttl'[y][j] # None => seen[y][j] # None /\ ttl'[y][j].at <= now
             /\ \E l \in {"ttl", "fill"} : pc' = [pc EXCEPT ![x] = l]
  <2>1. PICK left \in {Left(k), Unknown} :
          ttl' = [ttl EXCEPT ![x][k] =
              [left |-> left, at |-> now,
               sure |-> left # Unknown /\ remote[k] # None /\ remote[k].value = seen[x][k]]]
    BY <1>5 DEF AskTtl
  <2> DEFINE a == [left |-> left, at |-> now,
               sure |-> left # Unknown /\ remote[k] # None /\ remote[k].value = seen[x][k]]
  <2>2. left \in Nat \cup {Never, Gone, Unknown}
    BY <1>1 DEF Left, Base, Timely, LevelsTyped, Level, Slot, Entry, Never
  <2>3. a \in Answer /\ a.at = now
    BY <1>1, <2>2 DEF Answer
  <2>4. ttl' = [ttl EXCEPT ![x] = [@ EXCEPT ![k] = a]]
    BY <2>1
  <2> HIDE DEF a
  <2>5. \A y \in Call, j \in Key : ttl'[y][j] = IF y = x /\ j = k THEN a ELSE ttl[y][j]
    BY <1>1, <2>4 DEF CallsTyped
  <2>6. ttl' \in [Call -> [Key -> Answer \cup {None}]]
    BY <1>1, <2>3, <2>4 DEF CallsTyped
  <2>7. \A y \in Call, j \in Key : ttl'[y][j] # None => seen[y][j] # None /\ ttl'[y][j].at <= now
    BY <1>1, <1>5, <2>3, <2>5 DEF AskTtl, CallsTyped, Base, Timely
  <2>8. \E l \in {"ttl", "fill"} : pc' = [pc EXCEPT ![x] = l]
    BY <1>5 DEF AskTtl, Goto
  <2> QED BY <2>6, <2>7, <2>8
<1>6. CASE \E k \in Key : AskTtl(x, k)
  BY <1>2, <1>5, <1>6 DEF AskTtl, levels
<1>7. CASE Fill(x)
  BY <1>3, <1>7, FillFacts DEF Base
<1> QED BY <1>4, <1>6, <1>7

LEMMA BaseStep == Base /\ [Next]_vars => Base'
<1> SUFFICES ASSUME Base, [Next]_vars PROVE Base'
  OBVIOUS
<1>1. LevelsTyped /\ now \in 0..MaxTime /\ now \in Nat /\ \A k \in Key : remote[k] # None =>
          remote[k].expires = Never \/ (remote[k].expires \in Nat /\ now <= remote[k].expires)
  BY Typed, NowNat DEF Base, Timely, LevelsTyped, Level, Slot, Entry
<1>2. ASSUME NEW x \in Call, Starting(x) PROVE Base'
  BY <1>2, BaseStarting
<1>3. ASSUME NEW x \in Call, RemoteRead(x) PROVE Base'
  BY <1>3, BaseRemoteRead
<1>4. ASSUME NEW x \in Call, RemoteTimeout(x) \/ (\E k \in Key : AskTtl(x, k)) \/ Fill(x)
      PROVE  Base'
  BY <1>4, ReadingFacts, BaseReading
<1>5. ASSUME NEW x \in Call, Landing(x) PROVE Base'
  BY <1>5, BaseLanding
<1>6. ASSUME NEW x \in Call, Removing(x) PROVE Base'
  BY <1>6, BaseRemoving
<1>7. ASSUME NEW p \in Process, Losing(p) PROVE Base'
  <2>1. OnlyLost /\ UNCHANGED <<now, remote, pc, arg, seen, ttl, history>>
    BY <1>7, LosingFacts DEF Base
  <2> QED BY <1>1, <2>1, OnlyLostBase DEF LevelsTyped
<1>8. CASE Tick
  <2>1. /\ OnlyLost /\ UNCHANGED <<pc, arg, seen, ttl, history>>
        /\ now' = now + 1 /\ now' \in 0..MaxTime
        /\ remote' \in Level /\ \A k \in Key : remote'[k] \in {None, remote[k]}
        /\ \A k \in Key : remote'[k] # None => remote[k].expires # now
    BY <1>8, TickFacts DEF Base
  <2>2. \A k \in Key : remote'[k] # None => remote[k].expires = Never \/ now' <= remote[k].expires
    BY <1>1, <2>1
  <2> QED BY <1>1, <2>1, <2>2, OnlyLostBase
<1>9. CASE UNCHANGED vars
  <2>1. OnlyLost /\ UNCHANGED <<now, remote, pc, arg, seen, ttl, history>>
    BY <1>1, <1>9 DEF vars, levels, OnlyLost, LevelsTyped
  <2> QED BY <1>1, <2>1, OnlyLostBase DEF LevelsTyped
<1> QED BY <1>2, <1>3, <1>4, <1>5, <1>6, <1>7, <1>8, <1>9, Groups

-----------------------------------------------------------------------------
(* TtlInv is inductive.                                                    *)

LEMMA TtlInit == Init => TtlInv
BY DEF Init, TtlInv, RemoteLife, OwnLife, AnswersTrue, TtlPreserved

\* One entry of a local level.
LifeOf(e) ==
    e.value \notin landed /\ arg[e.value].ttl \notin {0, NoTtl} =>
        e.expires # Never /\ e.expires <= now + arg[e.value].ttl

Preserved(e) ==
    e.sure /\ e.value \in landed /\ dies[e.value] # Never =>
        e.expires # Never /\ e.expires <= dies[e.value] + e.late

LEMMA ByEntry ==
    /\ OwnLife /\ TtlPreserved <=>
          \A p \in Process, k \in Key :
              local[p][k] # None => LifeOf(local[p][k]) /\ Preserved(local[p][k])
    /\ OwnLife' /\ TtlPreserved' <=>
          \A p \in Process, k \in Key : \A e :
              e = local'[p][k] /\ e # None => LifeOf(e)' /\ Preserved(e)'
BY DEF OwnLife, TtlPreserved, LifeOf, Preserved

LEMMA TtlStarting ==
    ASSUME Base, TtlInv, NEW x \in Call, Starting(x)
    PROVE  TtlInv'
<1>1. PICK a \in Arg, l \in {"read", "write", "async", "delete", "invalidate"} : Begins(x, a, l)
  BY StartingBegins DEF Base
<1>2. CallsTyped /\ now \in Nat
  BY Typed, NowNat DEF Base
<1>3. /\ UNCHANGED <<now, remote, seen, ttl, dies, landed>> /\ pc[x] = "new" /\ x \notin landed
      /\ arg'[x] = a /\ \A y \in Call : y # x => arg'[y] = arg[y]
  BY <1>1, <1>2 DEF Begins, CallsTyped, Base, LandsOnce
<1>4. RemoteLife' /\ AnswersTrue'
  BY <1>3 DEF TtlInv, RemoteLife, AnswersTrue
<1>5. ASSUME NEW q \in Process, NEW k \in Key, NEW e, e = local'[q][k], e # None
      PROVE  LifeOf(e)' /\ Preserved(e)'
  <2>1. e = Own(x, a) \/ e = local[q][k]
    BY <1>1, <1>5 DEF Begins
  <2>2. CASE e = Own(x, a)
    <3>1. a.ttl \in Ttl \cup {NoTtl}
      BY DEF Arg
    <3>2. a.ttl \notin {0, NoTtl} =>
              LocalExpiry(a.ttl) = now + a.ttl /\ LocalExpiry(a.ttl) # Never
                  /\ LocalExpiry(a.ttl) <= now + a.ttl
      BY <1>2, <3>1, ExpiryFacts DEF Never
    <3> QED BY <1>3, <2>2, <3>2 DEF LifeOf, Preserved, Own
  <2>3. CASE e = local[q][k]
    <3>1. e \in Entry /\ e.value \in Call /\ e.value # x
      BY <1>3, <1>5, <2>3, LocalOfCalls
    <3>2. LifeOf(e) /\ Preserved(e)
      BY <1>5, <2>3, ByEntry DEF TtlInv
    <3> QED BY <1>3, <3>1, <3>2 DEF LifeOf, Preserved
  <2> QED BY <2>1, <2>2, <2>3
<1> QED BY <1>4, <1>5, ByEntry DEF TtlInv

\* Steps that only remove entries, of local levels or of the remote one, or
\* let time pass.
LEMMA TtlLess ==
    ASSUME Base, TtlInv, OnlyLost, UNCHANGED <<arg, seen, ttl, dies, landed>>,
           now' \in Nat, now <= now', \A k \in Key : remote'[k] \in {None, remote[k]}
    PROVE  TtlInv'
<1>1. RemoteLife' /\ AnswersTrue'
  BY DEF TtlInv, RemoteLife, AnswersTrue
<1>2. ASSUME NEW q \in Process, NEW k \in Key, NEW e, e = local'[q][k], e # None
      PROVE  LifeOf(e)' /\ Preserved(e)'
  <2>1. e = local[q][k] /\ local[q][k] # None
    BY <1>2 DEF OnlyLost
  <2>2. e \in Entry /\ LifeOf(e) /\ Preserved(e)
    BY <2>1, LocalOfCalls, ByEntry DEF TtlInv
  <2>3. /\ now \in Nat /\ e.expires \in Nat \cup {Never}
        /\ arg[e.value].ttl \in Ttl \cup {NoTtl}
    BY <2>2, Typed, NowNat DEF Base, CallsTyped, Arg, Entry
  <2>4. LifeOf(e)'
    <3> SUFFICES ASSUME e.value \notin landed, arg[e.value].ttl \notin {0, NoTtl}
                 PROVE  e.expires # Never /\ e.expires <= now' + arg[e.value].ttl
      BY DEF LifeOf
    <3>1. e.expires # Never /\ e.expires <= now + arg[e.value].ttl
      BY <2>2 DEF LifeOf
    <3>2. arg[e.value].ttl \in Nat /\ e.expires \in Nat
      BY <2>3, <3>1, TtlAssumption
    <3> QED BY <2>3, <3>1, <3>2
  <2> QED BY <2>2, <2>4 DEF Preserved
<1> QED BY <1>1, <1>2, ByEntry DEF TtlInv

LEMMA TtlRemoteRead ==
    ASSUME Base, TtlInv, NEW x \in Call, RemoteRead(x)
    PROVE  TtlInv'
<1>1. CallsTyped
  BY Typed DEF Base
<1>2. /\ UNCHANGED <<now, levels, arg, ttl, history>> /\ pc[x] = "read"
      /\ \A y \in Call : y # x => seen'[y] = seen[y]
  BY <1>1 DEF RemoteRead, CallsTyped
<1>3. \A k \in Key : ttl[x][k] = None
  BY <1>1, <1>2 DEF Base, SeenLanded, CallsTyped
<1>4. AnswersTrue'
  BY <1>2, <1>3 DEF TtlInv, AnswersTrue, history
<1>5. RemoteLife' /\ OwnLife' /\ TtlPreserved'
  BY <1>2 DEF TtlInv, RemoteLife, OwnLife, TtlPreserved, levels, history
<1> QED BY <1>4, <1>5 DEF TtlInv

\* The answer to a ttl query, if it is about the value that was read.
LEMMA AskTrue ==
    ASSUME Base, RemoteLife, NEW x \in Call, NEW k \in Key,
           remote[k] # None, remote[k].value = seen[x][k], dies[seen[x][k]] # Never
    PROVE  Left(k) = Gone \/ (Left(k) \in Nat \ {0} /\ now + Left(k) <= dies[seen[x][k]])
<1>1. /\ now \in Nat /\ remote[k].expires = dies[seen[x][k]]
      /\ remote[k].expires \in Nat /\ now <= remote[k].expires
  BY Typed, NowNat DEF Base, RemoteLife, Timely, LevelsTyped, Level, Slot, Entry
<1>2. CASE remote[k].expires = now
  BY <1>2 DEF Left
<1>3. CASE remote[k].expires # now
  <2>1. Left(k) = remote[k].expires - now
    BY <1>1, <1>3 DEF Left
  <2> QED BY <1>1, <1>3, <2>1
<1> QED BY <1>2, <1>3

LEMMA TtlAsk ==
    ASSUME Base, TtlInv, NEW x \in Call, NEW k \in Key, AskTtl(x, k)
    PROVE  TtlInv'
<1>1. CallsTyped /\ now \in Nat
  BY Typed, NowNat DEF Base
<1>2. UNCHANGED <<now, levels, arg, seen, history>>
  BY DEF AskTtl
<1>3. PICK left \in {Left(k), Unknown} :
        ttl' = [ttl EXCEPT ![x][k] =
            [left |-> left, at |-> now,
             sure |-> left # Unknown /\ remote[k] # None /\ remote[k].value = seen[x][k]]]
  BY DEF AskTtl
<1> DEFINE a == [left |-> left, at |-> now,
             sure |-> left # Unknown /\ remote[k] # None /\ remote[k].value = seen[x][k]]
<1>4. ttl' = [ttl EXCEPT ![x] = [@ EXCEPT ![k] = a]]
  BY <1>3
<1>5. a.left = left /\ a.at = now
      /\ (a.sure <=> left # Unknown /\ remote[k] # None /\ remote[k].value = seen[x][k])
  OBVIOUS
<1> HIDE DEF a
<1>6. \A y \in Call, j \in Key : ttl'[y][j] = IF y = x /\ j = k THEN a ELSE ttl[y][j]
  BY <1>1, <1>4 DEF CallsTyped
<1>7. a.sure /\ dies[seen[x][k]] # Never =>
          a.left = Gone \/ (a.left \in Nat \ {0} /\ a.at + a.left <= dies[seen[x][k]])
  BY <1>3, <1>5, AskTrue DEF TtlInv
<1>8. AnswersTrue'
  BY <1>2, <1>6, <1>7 DEF TtlInv, AnswersTrue, history
<1>9. RemoteLife' /\ OwnLife' /\ TtlPreserved'
  BY <1>2 DEF TtlInv, RemoteLife, OwnLife, TtlPreserved, levels, history
<1> QED BY <1>8, <1>9 DEF TtlInv

LEMMA TtlFill ==
    ASSUME Base, TtlInv, NEW x \in Call, Fill(x)
    PROVE  TtlInv'
<1>1. CallsTyped /\ HistoryTyped /\ now \in Nat
  BY Typed, NowNat DEF Base
<1>2. Filled(x) /\ UNCHANGED <<now, remote, arg, seen, ttl, dies, landed>>
  BY FillFacts DEF Base, history
<1>3. RemoteLife' /\ AnswersTrue'
  BY <1>2 DEF TtlInv, RemoteLife, AnswersTrue
<1>4. ASSUME NEW q \in Process, NEW k \in Key, NEW e, e = local'[q][k], e # None
      PROVE  LifeOf(e)' /\ Preserved(e)'
  <2>1. CASE e = local[q][k]
    <3>1. LifeOf(e) /\ Preserved(e)
      BY <1>4, <2>1, ByEntry DEF TtlInv
    <3> QED BY <1>2, <3>1 DEF LifeOf, Preserved
  <2>2. CASE ttl[x][k] # None /\ ttl[x][k].left # Gone /\ e = Copy(x, k)
    <3> DEFINE a == ttl[x][k]
               v == seen[x][k]
    <3>1. /\ e.value = v /\ v # None /\ e.sure = a.sure /\ e.late = now - a.at
          /\ (a.left \in Nat \ {0} => e.expires = now + a.left)
      BY <2>2, CopyTyped DEF Base
    <3>2. v \in landed /\ a.at \in Nat /\ dies[v] \in Nat \cup {Never}
      BY <1>1, <2>2, <3>1 DEF Base, SeenLanded, CallsTyped, HistoryTyped, Answer
    <3>3. a.sure /\ dies[v] # Never => a.left \in Nat \ {0} /\ a.at + a.left <= dies[v]
      BY <2>2 DEF TtlInv, AnswersTrue
    <3>4. LifeOf(e)'
      BY <1>2, <3>1, <3>2 DEF LifeOf
    <3>5. Preserved(e)'
      <4> SUFFICES ASSUME a.sure, dies[v] # Never
                   PROVE  e.expires # Never /\ e.expires <= dies[v] + e.late
        BY <1>2, <3>1, <3>2 DEF Preserved
      <4>1. a.left \in Nat \ {0} /\ a.at + a.left <= dies[v] /\ dies[v] \in Nat
        BY <3>2, <3>3
      <4>2. e.expires = now + a.left /\ e.late = now - a.at
        BY <3>1, <4>1
      <4> HIDE DEF a, v
      <4> QED BY <1>1, <3>2, <4>1, <4>2 DEF Never
    <3> QED BY <3>4, <3>5
  <2> QED BY <1>2, <1>4, <2>1, <2>2 DEF Filled
<1> QED BY <1>3, <1>4, ByEntry DEF TtlInv

LEMMA TtlLanding ==
    ASSUME Base, TtlInv, NEW x \in Call, Landing(x)
    PROVE  TtlInv'
<1>1. CallsTyped /\ HistoryTyped /\ LevelsTyped /\ now \in Nat
  BY Typed, NowNat DEF Base
<1>2. pc[x] \in {"write", "async"} /\ UNCHANGED <<now, local, arg, seen, ttl>>
  BY LandingFacts DEF Base
<1>3. x \notin landed
  BY <1>2 DEF Base, LandsOnce
<1>4. CASE UNCHANGED <<remote, dies, landed>>
  BY <1>2, <1>4 DEF TtlInv, RemoteLife, OwnLife, AnswersTrue, TtlPreserved
<1>5. CASE Lands(x)
  <2>1. /\ dies'[x] = RemoteExpiry(arg[x].ttl) /\ \A y \in Call : y # x => dies'[y] = dies[y]
        /\ landed' = landed \cup {x}
    BY <1>1, <1>5 DEF Lands, HistoryTyped
  <2>2. RemoteLife'
    <3> SUFFICES ASSUME NEW k \in Key, remote'[k] # None
                 PROVE  remote'[k].expires = dies'[remote'[k].value]
      BY DEF RemoteLife
    <3>1. CASE remote'[k] = Stored(x)
      BY <2>1, <3>1 DEF Stored
    <3>2. CASE remote'[k] = remote[k]
      <4>1. remote[k].value \in Call /\ remote[k].value # x
        BY <1>1, <1>3, <3>2 DEF LevelsTyped, HistoryTyped
      <4> QED BY <2>1, <3>2, <4>1 DEF TtlInv, RemoteLife
    <3> QED BY <1>5, <3>1, <3>2 DEF Lands
  <2>3. AnswersTrue'
    <3>1. \A y \in Call, k \in Key : ttl[y][k] # None => seen[y][k] \in Call /\ seen[y][k] # x
      BY <1>1, <1>3 DEF Base, SeenLanded, CallsTyped, HistoryTyped
    <3> QED BY <1>2, <2>1, <3>1 DEF TtlInv, AnswersTrue
  <2>4. ASSUME NEW q \in Process, NEW k \in Key, NEW e, e = local'[q][k], e # None
        PROVE  LifeOf(e)' /\ Preserved(e)'
    <3>1. e \in Entry /\ e.value \in Call /\ LifeOf(e) /\ Preserved(e)
      BY <1>2, <2>4, LocalOfCalls, ByEntry DEF TtlInv
    <3>2. LifeOf(e)'
      BY <1>2, <2>1, <3>1 DEF LifeOf
    <3>3. Preserved(e)'
      <4>1. CASE e.value # x
        BY <2>1, <3>1, <4>1 DEF Preserved
      <4>2. CASE e.value = x
        <5>1. arg[x].ttl \in Ttl \cup {NoTtl} /\ e.late \in Nat /\ e.expires \in Nat \cup {Never}
          BY <1>1, <3>1 DEF CallsTyped, Arg, Entry
        <5> SUFFICES ASSUME dies'[x] # Never
                     PROVE  e.expires # Never /\ e.expires <= dies'[x] + e.late
          BY <4>2 DEF Preserved
        <5>2. arg[x].ttl \notin {0, NoTtl} /\ dies'[x] = now + arg[x].ttl /\ arg[x].ttl \in Nat
          BY <1>1, <2>1, <5>1, ExpiryFacts
        <5>3. e.expires # Never /\ e.expires <= now + arg[x].ttl
          BY <1>3, <3>1, <4>2, <5>2 DEF LifeOf
        <5>4. e.expires \in Nat
          BY <5>1, <5>3
        <5> QED BY <1>1, <5>1, <5>2, <5>3, <5>4
      <4> QED BY <4>1, <4>2
    <3> QED BY <3>2, <3>3
  <2> QED BY <2>2, <2>3, <2>4, ByEntry DEF TtlInv
<1> QED BY <1>4, <1>5, LandingFacts DEF Base

LEMMA TtlStep == Base /\ TtlInv /\ [Next]_vars => TtlInv'
<1> SUFFICES ASSUME Base, TtlInv, [Next]_vars PROVE TtlInv'
  OBVIOUS
<1>1. LevelsTyped /\ now \in Nat
  BY Typed, NowNat DEF Base
<1>2. local' = local => OnlyLost
  BY <1>1 DEF OnlyLost, LevelsTyped
<1>3. ASSUME NEW x \in Call, Starting(x) PROVE TtlInv'
  BY <1>3, TtlStarting
<1>4. ASSUME NEW x \in Call, RemoteRead(x) PROVE TtlInv'
  BY <1>4, TtlRemoteRead
<1>5. ASSUME NEW x \in Call, RemoteTimeout(x) PROVE TtlInv'
  BY <1>1, <1>2, <1>5, TtlLess DEF RemoteTimeout, levels, history
<1>6. ASSUME NEW x \in Call, NEW k \in Key, AskTtl(x, k) PROVE TtlInv'
  BY <1>6, TtlAsk
<1>7. ASSUME NEW x \in Call, Fill(x) PROVE TtlInv'
  BY <1>7, TtlFill
<1>8. ASSUME NEW x \in Call, Landing(x) PROVE TtlInv'
  BY <1>8, TtlLanding
<1>9. ASSUME NEW x \in Call, Removing(x) PROVE TtlInv'
  BY <1>1, <1>2, <1>9, RemovingFacts, TtlLess DEF Base
<1>10. ASSUME NEW p \in Process, Losing(p) PROVE TtlInv'
  BY <1>1, <1>10, LosingFacts, TtlLess DEF Base, history
<1>11. CASE Tick
  <2>1. now' \in Nat /\ now <= now'
    BY <1>1, <1>11, TickFacts DEF Base
  <2> QED BY <1>11, <2>1, TickFacts, TtlLess DEF Base, history
<1>12. CASE UNCHANGED vars
  BY <1>1, <1>2, <1>12, TtlLess DEF vars, levels, history
<1> QED BY <1>3, <1>4, <1>5, <1>6, <1>7, <1>8, <1>9, <1>10, <1>11, <1>12, Groups

-----------------------------------------------------------------------------
(* GoneInv is inductive.                                                   *)

LEMMA GoneInit == Init => GoneInv
BY DEF Init, GoneInv, BesideInv, OnlyBeside, GoneLanded, GoneFromRemote, GoneFromReads,
       NeverGoesBack, Active

LEMMA GoneStarting ==
    ASSUME Base, GoneInv, NEW x \in Call, Starting(x)
    PROVE  GoneInv'
<1>1. PICK a \in Arg, l \in {"read", "write", "async", "delete", "invalidate"} : Begins(x, a, l)
  BY StartingBegins DEF Base
<1>2. CallsTyped
  BY Typed DEF Base
<1>3. /\ UNCHANGED <<remote, seen, landed, gone>> /\ pc[x] = "new" /\ x \notin landed
      /\ pc'[x] = l /\ \A y \in Call : y # x => pc'[y] = pc[y]
      /\ arg'[x] = a /\ \A y \in Call : y # x => arg'[y] = arg[y]
  BY <1>1, <1>2 DEF Begins, CallsTyped, Base, LandsOnce
<1>4. \A y \in Call : y # x =>
          /\ beside[y] \subseteq beside'[y]
          /\ Active(y) /\ ProcessOf[y] = ProcessOf[x] => x \in beside'[y] /\ y \in beside'[x]
  BY <1>1 DEF Begins
<1>5. BesideInv'
  BY <1>3, <1>4 DEF GoneInv, BesideInv, Active
<1>6. OnlyBeside'
  <2> SUFFICES ASSUME NEW y \in Call, pc'[y] \in {"write", "delete"}, NEW k \in Key, k \in arg'[y].keys,
                      NEW e, e = local'[ProcessOf[y]][k], e # None
               PROVE  y = e.value \/ \E z \in beside'[y] : e.value = z \/ e.value = seen'[z][k]
    BY DEF OnlyBeside, Excused
  <2>1. CASE y = x
    BY <1>1, <1>3, <2>1 DEF Begins, Own, Excused
  <2>2. CASE y # x /\ e = local[ProcessOf[y]][k]
    <3>1. Excused(y, e.value, k)
      BY <1>3, <2>2 DEF GoneInv, OnlyBeside
    <3> QED BY <1>3, <1>4, <2>2, <3>1 DEF Excused
  <2>3. CASE y # x /\ ProcessOf[y] = ProcessOf[x] /\ e = Own(x, a)
    <3>1. Active(y)
      BY <1>3, <2>3 DEF Active, Over
    <3> QED BY <1>4, <2>3, <3>1 DEF Excused, Own
  <2> QED BY <1>1, <2>1, <2>2, <2>3, ProcessAssumption DEF Begins
<1>7. GoneLanded' /\ GoneFromRemote'
  BY <1>3 DEF GoneInv, GoneLanded, GoneFromRemote
<1>8. GoneFromReads'
  BY <1>3 DEF GoneInv, GoneFromReads, Active, Base, SeenLanded
<1>9. NeverGoesBack'
  BY <1>1, <1>3 DEF GoneInv, NeverGoesBack, GoneLanded, Begins, Own
<1> QED BY <1>5, <1>6, <1>7, <1>8, <1>9 DEF GoneInv

\* Calls end or go on with what they were doing, and entries only go.
LEMMA GoneLess ==
    ASSUME GoneInv, OnlyLost, \A k \in Key : remote'[k] \in {None, remote[k]},
           UNCHANGED <<arg, seen, beside, landed, gone>>,
           \A y \in Call : Active(y)' => Active(y) /\ (pc'[y] \in {"write", "delete"} => pc'[y] = pc[y])
    PROVE  GoneInv'
<1>1. BesideInv'
  BY DEF GoneInv, BesideInv
<1>2. OnlyBeside'
  <2> SUFFICES ASSUME NEW y \in Call, pc'[y] \in {"write", "delete"}, NEW k \in Key, k \in arg[y].keys,
                      NEW e, e = local'[ProcessOf[y]][k], e # None
               PROVE  y = e.value \/ \E z \in beside'[y] : e.value = z \/ e.value = seen'[z][k]
    BY DEF OnlyBeside, Excused
  <2>1. pc[y] = pc'[y]
    BY DEF Active, Over
  <2>2. Excused(y, e.value, k)
    BY <2>1, ProcessAssumption DEF GoneInv, OnlyBeside, OnlyLost
  <2> QED BY <2>2 DEF Excused
<1>3. GoneLanded' /\ GoneFromRemote' /\ GoneFromReads'
  BY DEF GoneInv, GoneLanded, GoneFromRemote, GoneFromReads
<1>4. NeverGoesBack'
  BY DEF GoneInv, NeverGoesBack, OnlyLost
<1> QED BY <1>1, <1>2, <1>3, <1>4 DEF GoneInv

LEMMA GoneRemoteRead ==
    ASSUME Base, GoneInv, NEW x \in Call, RemoteRead(x)
    PROVE  GoneInv'
<1>1. CallsTyped
  BY Typed DEF Base
<1>2. /\ UNCHANGED <<levels, arg, history>> /\ pc[x] = "read" /\ pc'[x] \in {"ttl", "done"}
      /\ \A y \in Call : y # x => pc'[y] = pc[y] /\ seen'[y] = seen[y]
      /\ \A k \in Key : seen'[x][k] # None => remote[k] # None /\ seen'[x][k] = remote[k].value
  BY <1>1 DEF RemoteRead, Goto, CallsTyped
<1>3. \A k \in Key : seen[x][k] = None
  BY <1>2 DEF Base, SeenLanded
<1>4. BesideInv'
  BY <1>2 DEF GoneInv, BesideInv, Active, Over, history
<1>5. OnlyBeside'
  <2> SUFFICES ASSUME NEW y \in Call, pc'[y] \in {"write", "delete"}, NEW k \in Key, k \in arg[y].keys,
                      NEW e, e = local[ProcessOf[y]][k], e # None
               PROVE  y = e.value \/ \E z \in beside'[y] : e.value = z \/ e.value = seen'[z][k]
    BY <1>2 DEF OnlyBeside, Excused, levels
  <2>1. y # x /\ Excused(y, e.value, k)
    BY <1>2 DEF GoneInv, OnlyBeside
  <2>2. e.value # None /\ beside[y] \subseteq Call
    BY LocalOfCalls, ProcessAssumption, NoneAssumption, Typed DEF Base, HistoryTyped
  <2> QED BY <1>2, <1>3, <2>1, <2>2 DEF Excused, history
<1>6. GoneLanded' /\ GoneFromRemote' /\ NeverGoesBack'
  BY <1>2 DEF GoneInv, GoneLanded, GoneFromRemote, NeverGoesBack, levels, history
<1>7. GoneFromReads'
  BY <1>2, ProcessAssumption DEF GoneInv, GoneFromReads, GoneFromRemote, Active, Over, history
<1> QED BY <1>4, <1>5, <1>6, <1>7 DEF GoneInv

LEMMA GoneFill ==
    ASSUME Base, GoneInv, NEW x \in Call, Fill(x)
    PROVE  GoneInv'
<1>1. CallsTyped
  BY Typed DEF Base
<1>2. /\ Filled(x) /\ UNCHANGED <<remote, arg, seen, ttl, beside, landed, gone>>
      /\ pc[x] = "fill" /\ pc'[x] = "done" /\ \A y \in Call : y # x => pc'[y] = pc[y]
  BY <1>1, FillFacts DEF Base, CallsTyped, history
<1>3. ASSUME NEW q \in Process, NEW k \in Key, NEW e, e = local'[q][k], e # None
      PROVE  \/ e = local[q][k]
             \/ q = ProcessOf[x] /\ seen[x][k] # None /\ e.value = seen[x][k]
  BY <1>2, <1>3, CopyTyped DEF Filled, Base
<1>4. BesideInv'
  BY <1>2 DEF GoneInv, BesideInv, Active, Over
<1>5. OnlyBeside'
  <2> SUFFICES ASSUME NEW y \in Call, pc'[y] \in {"write", "delete"}, NEW k \in Key, k \in arg[y].keys,
                      NEW e, e = local'[ProcessOf[y]][k], e # None
               PROVE  y = e.value \/ \E z \in beside'[y] : e.value = z \/ e.value = seen'[z][k]
    BY <1>2 DEF OnlyBeside, Excused
  <2>1. y # x /\ pc[y] = pc'[y] /\ ProcessOf[y] \in Process
    BY <1>2, ProcessAssumption
  <2>2. CASE e = local[ProcessOf[y]][k]
    <3>1. Excused(y, e.value, k)
      BY <2>1, <2>2 DEF GoneInv, OnlyBeside
    <3> QED BY <1>2, <3>1 DEF Excused
  <2>3. CASE ProcessOf[y] = ProcessOf[x] /\ e.value = seen[x][k]
    <3>1. x \in beside[y]
      BY <1>2, <2>1, <2>3 DEF GoneInv, BesideInv, Active, Over
    <3> QED BY <1>2, <2>3, <3>1 DEF Excused
  <2> QED BY <1>3, <2>1, <2>2, <2>3
<1>6. GoneLanded' /\ GoneFromRemote' /\ GoneFromReads'
  BY <1>2 DEF GoneInv, GoneLanded, GoneFromRemote, GoneFromReads, Active, Over
<1>7. NeverGoesBack'
  <2> SUFFICES ASSUME NEW q \in Process, NEW k \in Key, NEW e, e = local'[q][k], e # None
               PROVE  <<e.value, k>> \notin gone[q]
    BY <1>2 DEF NeverGoesBack
  <2>1. CASE e = local[q][k]
    BY <2>1 DEF GoneInv, NeverGoesBack
  <2>2. CASE q = ProcessOf[x] /\ seen[x][k] # None /\ e.value = seen[x][k]
    BY <1>2, <2>2 DEF GoneInv, GoneFromReads, Active, Over
  <2> QED BY <1>3, <2>1, <2>2
<1> QED BY <1>4, <1>5, <1>6, <1>7 DEF GoneInv

\* A call finishes with its keys in both levels.
LEMMA GoneFinishes ==
    ASSUME Base, GoneInv, NEW x \in Call, pc[x] \in {"write", "delete"}, Finishes(x),
           UNCHANGED <<local, arg, seen, beside>>,
           pc'[x] \in Over, \A y \in Call : y # x => pc'[y] = pc[y],
           landed \subseteq landed',
           \A k \in Key : \/ remote'[k] = None
                          \/ k \in arg[x].keys /\ x \notin landed /\ remote'[k].value = x
                          \/ k \notin arg[x].keys /\ remote'[k] = remote[k]
    PROVE  GoneInv'
<1> DEFINE p == ProcessOf[x]
           D == arg[x].keys
<1>1. CallsTyped /\ HistoryTyped /\ LevelsTyped /\ p \in Process /\ D \in SUBSET Key
  BY Typed, ProcessAssumption DEF Base, CallsTyped, Arg
<1>2. gone'[p] = gone[p] \cup Finished(x, D) /\ \A q \in Process : q # p => gone'[q] = gone[q]
  BY FinishesTyped DEF Base
<1>3. /\ \A v \in Finished(x, D) : v[1] \in landed
      /\ \A y \in Call, k \in Key : <<y, k>> \in Finished(x, D) => k \in D /\ ~Excused(x, y, k)
  BY <1>1, FinishedFacts
<1>4. BesideInv'
  BY DEF GoneInv, BesideInv, Active
<1>5. OnlyBeside'
  <2> SUFFICES ASSUME NEW y \in Call, NEW k \in Key, pc'[y] \in {"write", "delete"}, k \in arg[y].keys,
                      NEW e, e = local[ProcessOf[y]][k], e # None
               PROVE  y = e.value \/ \E z \in beside[y] : e.value = z \/ e.value = seen[z][k]
    BY DEF OnlyBeside, Excused
  <2>1. pc[y] = pc'[y]
    BY DEF Over
  <2> QED BY <2>1 DEF GoneInv, OnlyBeside, Excused
<1>6. GoneLanded'
  BY <1>2, <1>3 DEF GoneInv, GoneLanded
<1>7. GoneFromRemote'
  <2> SUFFICES ASSUME NEW q \in Process, NEW k \in Key, NEW v, v = remote'[k].value, remote'[k] # None
               PROVE  <<v, k>> \notin gone'[q]
    BY DEF GoneFromRemote
  <2>1. CASE k \in D /\ x \notin landed /\ v = x
    <3>1. <<v, k>> \notin gone[q]
      BY <2>1 DEF GoneInv, GoneLanded
    <3>2. <<v, k>> \notin Finished(x, D)
      BY <1>3, <2>1 DEF Excused
    <3> QED BY <1>2, <3>1, <3>2
  <2>2. CASE k \notin D /\ remote'[k] = remote[k]
    <3>1. <<v, k>> \notin gone[q] /\ v \in Call
      BY <1>1, <2>2 DEF GoneInv, GoneFromRemote, LevelsTyped, HistoryTyped
    <3>2. <<v, k>> \notin Finished(x, D)
      BY <1>3, <2>2, <3>1
    <3> QED BY <1>2, <3>1, <3>2
  <2> QED BY <2>1, <2>2
<1>8. GoneFromReads'
  <2> SUFFICES ASSUME NEW y \in Call, NEW k \in Key, Active(y)', seen[y][k] # None
               PROVE  <<seen[y][k], k>> \notin gone'[ProcessOf[y]]
    BY DEF GoneFromReads
  <2>1. y # x /\ Active(y) /\ seen[y][k] \in Call /\ ProcessOf[y] \in Process
    BY <1>1, ProcessAssumption DEF Active, CallsTyped
  <2>2. <<seen[y][k], k>> \notin gone[ProcessOf[y]]
    BY <2>1 DEF GoneInv, GoneFromReads
  <2>3. ASSUME ProcessOf[y] = p PROVE <<seen[y][k], k>> \notin Finished(x, D)
    <3>1. y \in beside[x]
      BY <2>1, <2>3 DEF GoneInv, BesideInv, Active, Over
    <3> QED BY <1>3, <2>1, <3>1 DEF Excused
  <2> QED BY <1>2, <2>1, <2>2, <2>3
<1>9. NeverGoesBack'
  <2> SUFFICES ASSUME NEW q \in Process, NEW k \in Key, NEW v, v = local[q][k].value, local[q][k] # None
               PROVE  <<v, k>> \notin gone'[q]
    BY DEF NeverGoesBack
  <2>1. <<v, k>> \notin gone[q] /\ v \in Call
    BY LocalOfCalls DEF GoneInv, NeverGoesBack
  <2>2. ASSUME q = p PROVE <<v, k>> \notin Finished(x, D)
    BY <1>3, <2>1, <2>2 DEF GoneInv, OnlyBeside
  <2> QED BY <1>2, <2>1, <2>2
<1> QED BY <1>4, <1>5, <1>6, <1>7, <1>8, <1>9 DEF GoneInv

\* A write lands while its call does not wait for it, or fails.
LEMMA GoneLands ==
    ASSUME Base, GoneInv, NEW x \in Call, x \notin landed, Lands(x),
           UNCHANGED <<local, arg, seen, beside, gone>>,
           pc'[x] \in Over, \A y \in Call : y # x => pc'[y] = pc[y]
    PROVE  GoneInv'
<1>1. BesideInv' /\ GoneFromReads'
  BY DEF GoneInv, BesideInv, GoneFromReads, Active
<1>2. OnlyBeside'
  <2> SUFFICES ASSUME NEW y \in Call, NEW k \in Key, pc'[y] \in {"write", "delete"}, k \in arg[y].keys,
                      NEW e, e = local[ProcessOf[y]][k], e # None
               PROVE  y = e.value \/ \E z \in beside[y] : e.value = z \/ e.value = seen[z][k]
    BY DEF OnlyBeside, Excused
  <2>1. pc[y] = pc'[y]
    BY DEF Over
  <2> QED BY <2>1 DEF GoneInv, OnlyBeside, Excused
<1>3. GoneLanded' /\ NeverGoesBack'
  BY DEF GoneInv, GoneLanded, NeverGoesBack, Lands
<1>4. GoneFromRemote'
  BY DEF GoneInv, GoneFromRemote, GoneLanded, Lands, Stored
<1> QED BY <1>1, <1>2, <1>3, <1>4 DEF GoneInv

LEMMA GoneLanding ==
    ASSUME Base, GoneInv, NEW x \in Call, Landing(x)
    PROVE  GoneInv'
<1>1. CallsTyped /\ LevelsTyped
  BY Typed DEF Base
<1>2. /\ pc[x] \in {"write", "async"} /\ pc'[x] \in {"done", "failed"}
      /\ \A y \in Call : y # x => pc'[y] = pc[y]
      /\ UNCHANGED <<now, local, arg, seen, ttl, beside, untagged>>
  BY <1>1, LandingFacts DEF Base, CallsTyped
<1>3. x \notin landed /\ pc'[x] \in Over
  BY <1>2 DEF Base, LandsOnce, Over
<1>4. CASE UNCHANGED <<remote, dies, landed, gone>>
  <2>1. \A y \in Call : Active(y)' => Active(y) /\ (pc'[y] \in {"write", "delete"} => pc'[y] = pc[y])
    BY <1>2, <1>3 DEF Active
  <2> QED BY <1>1, <1>2, <1>4, <2>1, GoneLess DEF OnlyLost, LevelsTyped
<1>5. CASE Lands(x) /\ gone' = gone
  BY <1>2, <1>3, <1>5, GoneLands
<1>6. CASE Lands(x) /\ pc[x] = "write" /\ Finishes(x)
  <2>1. \A k \in Key : \/ k \in arg[x].keys /\ x \notin landed /\ remote'[k].value = x
                       \/ k \notin arg[x].keys /\ remote'[k] = remote[k]
    BY <1>3, <1>6 DEF Lands, Stored
  <2>2. landed \subseteq landed'
    BY <1>6 DEF Lands
  <2> QED BY <1>2, <1>3, <1>6, <2>1, <2>2, GoneFinishes
<1> QED BY <1>4, <1>5, <1>6, LandingFacts DEF Base

LEMMA GoneRemoving ==
    ASSUME Base, GoneInv, NEW x \in Call, Removing(x)
    PROVE  GoneInv'
<1>1. CallsTyped /\ LevelsTyped
  BY Typed DEF Base
<1>2. /\ pc[x] \in {"delete", "invalidate"} /\ pc'[x] \in {"done", "failed"}
      /\ \A y \in Call : y # x => pc'[y] = pc[y]
      /\ \A k \in Key : remote'[k] \in {None, remote[k]}
      /\ UNCHANGED <<now, local, arg, seen, ttl, dies, landed, beside>>
  BY <1>1, RemovingFacts DEF Base, CallsTyped
<1>3. pc'[x] \in Over
  BY <1>2 DEF Over
<1>4. CASE gone' = gone
  <2>1. \A y \in Call : Active(y)' => Active(y) /\ (pc'[y] \in {"write", "delete"} => pc'[y] = pc[y])
    BY <1>2, <1>3 DEF Active
  <2> QED BY <1>1, <1>2, <1>4, <2>1, GoneLess DEF OnlyLost, LevelsTyped
<1>5. CASE pc[x] = "delete" /\ Finishes(x) /\ \A k \in arg[x].keys : remote'[k] = None
  <2>1. \A k \in Key : \/ remote'[k] = None
                       \/ k \notin arg[x].keys /\ remote'[k] = remote[k]
    BY <1>2, <1>5
  <2> QED BY <1>2, <1>3, <1>5, <2>1, GoneFinishes
<1> QED BY <1>4, <1>5, RemovingFacts DEF Base

LEMMA GoneStep == Base /\ GoneInv /\ [Next]_vars => GoneInv'
<1> SUFFICES ASSUME Base, GoneInv, [Next]_vars PROVE GoneInv'
  OBVIOUS
<1>1. LevelsTyped /\ CallsTyped
  BY Typed DEF Base
<1>2. local' = local => OnlyLost
  BY <1>1 DEF OnlyLost, LevelsTyped
<1>3. ASSUME NEW x \in Call, Starting(x) PROVE GoneInv'
  BY <1>3, GoneStarting
<1>4. ASSUME NEW x \in Call, RemoteRead(x) PROVE GoneInv'
  BY <1>4, GoneRemoteRead
<1>5. ASSUME NEW x \in Call, RemoteTimeout(x) \/ \E k \in Key : AskTtl(x, k) PROVE GoneInv'
  <2>1. /\ UNCHANGED <<levels, arg, seen, history>> /\ pc[x] \in {"read", "ttl"}
        /\ \E l \in {"ttl", "fill", "done"} : pc' = [pc EXCEPT ![x] = l]
    BY <1>5 DEF RemoteTimeout, AskTtl, Goto
  <2>2. \A y \in Call : Active(y)' => Active(y) /\ (pc'[y] \in {"write", "delete"} => pc'[y] = pc[y])
    BY <1>1, <2>1 DEF Active, Over, CallsTyped
  <2> QED BY <1>2, <2>1, <2>2, GoneLess DEF levels, history
<1>6. ASSUME NEW x \in Call, Fill(x) PROVE GoneInv'
  BY <1>6, GoneFill
<1>7. ASSUME NEW x \in Call, Landing(x) PROVE GoneInv'
  BY <1>7, GoneLanding
<1>8. ASSUME NEW x \in Call, Removing(x) PROVE GoneInv'
  BY <1>8, GoneRemoving
<1>9. pc' = pc => \A y \in Call : Active(y)' => Active(y)
  BY DEF Active
<1>10. ASSUME NEW p \in Process, Losing(p) PROVE GoneInv'
  BY <1>9, <1>10, LosingFacts, GoneLess DEF Base, history
<1>11. CASE Tick
  BY <1>9, <1>11, TickFacts, GoneLess DEF Base, history
<1>12. CASE UNCHANGED vars
  BY <1>2, <1>9, <1>12, GoneLess DEF vars, levels, history
<1> QED BY <1>3, <1>4, <1>5, <1>6, <1>7, <1>8, <1>10, <1>11, <1>12, Groups

-----------------------------------------------------------------------------
(* UntagInv is inductive.                                                  *)

LEMMA UntagInit == Init => UntagInv
BY DEF Init, UntagInv, TagsOfWriter, InvalidatedLocally, UntaggedLanded,
       InvalidationMissesOnlyCopies

LEMMA UntagStarting ==
    ASSUME Base, UntagInv, NEW x \in Call, Starting(x)
    PROVE  UntagInv'
<1>1. PICK a \in Arg, l \in {"read", "write", "async", "delete", "invalidate"} : Begins(x, a, l)
  BY StartingBegins DEF Base
<1>2. CallsTyped /\ LevelsTyped /\ ProcessOf[x] \in Process
  BY Typed, ProcessAssumption DEF Base
<1>3. /\ UNCHANGED <<remote, landed, untagged>> /\ pc[x] = "new" /\ x \notin landed
      /\ pc'[x] = l /\ \A y \in Call : y # x => pc'[y] = pc[y]
      /\ arg'[x] = a /\ \A y \in Call : y # x => arg'[y] = arg[y]
  BY <1>1, <1>2 DEF Begins, CallsTyped, Base, LandsOnce
<1>4. \A y \in Call : y # x =>
          /\ beside[y] \subseteq beside'[y]
          /\ Active(y) /\ ProcessOf[y] = ProcessOf[x] => x \in beside'[y]
  BY <1>1 DEF Begins
<1>5. ASSUME NEW q \in Process, NEW k \in Key, NEW e, e = local'[q][k], e # None
      PROVE  \/ e = local[q][k] /\ e.value \in Call /\ e.value # x
             \/ q = ProcessOf[x] /\ e.value = x /\ e.tags = a.tags /\ l # "invalidate"
  <2>1. e = local[q][k] => e.value \in Call /\ e.value # x
    BY <1>3, <1>5, LocalOfCalls DEF Base, LocalBegun
  <2> QED BY <1>1, <1>5, <2>1 DEF Begins, Own
<1>6. TagsOfWriter'
  <2>1. ASSUME NEW q \in Process, NEW k \in Key, NEW e, e = local'[q][k], e # None, e.tags # {}
        PROVE  ProcessOf[e.value] = q /\ e.tags = arg'[e.value].tags
    BY <1>3, <1>5, <2>1 DEF UntagInv, TagsOfWriter
  <2>2. ASSUME NEW k \in Key, remote[k] # None PROVE remote[k].tags = arg'[remote[k].value].tags
    <3>1. remote[k].value \in landed /\ remote[k].value \in Call
      BY <1>2, <2>2, Typed DEF LevelsTyped, Base, HistoryTyped
    <3> QED BY <1>3, <2>2, <3>1 DEF UntagInv, TagsOfWriter
  <2> QED BY <1>3, <2>1, <2>2 DEF TagsOfWriter
<1>7. InvalidatedLocally'
  <2> SUFFICES ASSUME NEW y \in Call, pc'[y] = "invalidate", NEW k \in Key,
                      NEW e, e = local'[ProcessOf[y]][k], e # None, e.tags \cap arg'[y].tags # {}
               PROVE  e.value \in beside'[y]
    BY DEF InvalidatedLocally
  <2>1. CASE y = x
    BY <1>1, <1>3, <2>1 DEF Begins
  <2>2. CASE y # x /\ e = local[ProcessOf[y]][k]
    BY <1>3, <1>4, <2>2 DEF UntagInv, InvalidatedLocally
  <2>3. CASE y # x /\ ProcessOf[y] = ProcessOf[x] /\ e.value = x
    <3>1. Active(y)
      BY <1>3, <2>3 DEF Active, Over
    <3> QED BY <1>4, <2>3, <3>1
  <2> QED BY <1>5, <2>1, <2>2, <2>3, ProcessAssumption
<1>8. UntaggedLanded'
  BY <1>3 DEF UntagInv, UntaggedLanded
<1>9. InvalidationMissesOnlyCopies'
  BY <1>3, <1>5 DEF UntagInv, InvalidationMissesOnlyCopies, UntaggedLanded
<1> QED BY <1>6, <1>7, <1>8, <1>9 DEF UntagInv

\* Entries only go, calls end or go on, and nothing is invalidated.
LEMMA UntagLess ==
    ASSUME UntagInv, OnlyLost, \A k \in Key : remote'[k] \in {None, remote[k]},
           UNCHANGED <<arg, beside, landed, untagged>>,
           \A y \in Call : pc'[y] = "invalidate" => pc[y] = "invalidate"
    PROVE  UntagInv'
<1>1. TagsOfWriter'
  BY DEF UntagInv, TagsOfWriter, OnlyLost
<1>2. InvalidatedLocally'
  BY ProcessAssumption DEF UntagInv, InvalidatedLocally, OnlyLost
<1>3. UntaggedLanded' /\ InvalidationMissesOnlyCopies'
  BY DEF UntagInv, UntaggedLanded, InvalidationMissesOnlyCopies, OnlyLost
<1> QED BY <1>1, <1>2, <1>3 DEF UntagInv

\* A copy has no tags.
LEMMA UntagFill ==
    ASSUME Base, UntagInv, NEW x \in Call, Fill(x)
    PROVE  UntagInv'
<1>0. CallsTyped
  BY Typed DEF Base
<1>1. /\ Filled(x) /\ UNCHANGED <<remote, arg, beside, landed, untagged>>
      /\ \A y \in Call : pc'[y] = "invalidate" => pc[y] = "invalidate"
  BY <1>0, FillFacts DEF Base, CallsTyped, history
<1>2. \A q \in Process, k \in Key : local'[q][k] = local[q][k] \/ local'[q][k].tags = {}
  <2>1. \A k \in Key : Copy(x, k).tags = {}
    BY DEF Copy
  <2> QED BY <1>1, <2>1 DEF Filled
<1>3. TagsOfWriter'
  BY <1>1, <1>2 DEF UntagInv, TagsOfWriter
<1>4. InvalidatedLocally'
  <2> SUFFICES ASSUME NEW y \in Call, pc'[y] = "invalidate", NEW k \in Key,
                      NEW e, e = local'[ProcessOf[y]][k], e # None, e.tags \cap arg'[y].tags # {}
               PROVE  e.value \in beside'[y]
    BY DEF InvalidatedLocally
  <2>1. e = local[ProcessOf[y]][k]
    BY <1>2, ProcessAssumption
  <2> QED BY <1>1, <2>1 DEF UntagInv, InvalidatedLocally
<1>5. UntaggedLanded' /\ InvalidationMissesOnlyCopies'
  BY <1>1, <1>2 DEF UntagInv, UntaggedLanded, InvalidationMissesOnlyCopies
<1> QED BY <1>3, <1>4, <1>5 DEF UntagInv

LEMMA UntagLanding ==
    ASSUME Base, UntagInv, NEW x \in Call, Landing(x)
    PROVE  UntagInv'
<1>1. /\ UNCHANGED <<local, arg, beside, untagged>>
      /\ landed \subseteq landed'
      /\ \A y \in Call : pc'[y] = "invalidate" => pc[y] = "invalidate"
  BY LandingFacts, Typed DEF Base, CallsTyped, Lands
<1>2. \A k \in Key : remote'[k] = remote[k] \/ remote'[k] = Stored(x)
  BY LandingFacts DEF Base, Lands
<1>3. TagsOfWriter'
  BY <1>1, <1>2 DEF UntagInv, TagsOfWriter, Stored
<1>4. InvalidatedLocally'
  BY <1>1 DEF UntagInv, InvalidatedLocally
<1>5. UntaggedLanded' /\ InvalidationMissesOnlyCopies'
  BY <1>1 DEF UntagInv, UntaggedLanded, InvalidationMissesOnlyCopies
<1> QED BY <1>3, <1>4, <1>5 DEF UntagInv

\* An entry with tags of a value that is invalidated would have the value's
\* tags, and so be of a call beside the one that invalidates.
LEMMA UntagInvalidate ==
    ASSUME Base, UntagInv, NEW x \in Call, RemoteInvalidate(x)
    PROVE  UntagInv'
<1> DEFINE p == ProcessOf[x]
<1>1. /\ CallsTyped /\ LevelsTyped /\ HistoryTyped /\ p \in Process
  BY Typed, ProcessAssumption DEF Base
<1>2. /\ pc[x] = "invalidate" /\ UNCHANGED <<local, arg, beside, landed>>
      /\ \A y \in Call : pc'[y] = "invalidate" => pc[y] = "invalidate"
      /\ \A k \in Key : remote'[k] \in {None, remote[k]}
  BY <1>1, RemovingFacts DEF Base, Removing, RemoteInvalidate, CallsTyped
<1>3. PICK t \in arg[x].tags :
          untagged' = [untagged EXCEPT ![p] =
              @ \cup {v \in Finished(x, Tagged(remote, t)) : remote[v[2]].value = v[1]}]
  BY DEF RemoteInvalidate
<1> DEFINE D == Tagged(remote, t)
           new == {v \in Finished(x, D) : remote[v[2]].value = v[1]}
<1>4. /\ untagged'[p] = untagged[p] \cup new
      /\ \A q \in Process : q # p => untagged'[q] = untagged[q]
  BY <1>1, <1>3 DEF HistoryTyped
<1>5. D \in SUBSET Key /\ \A k \in D : remote[k] # None /\ t \in remote[k].tags
  BY DEF Tagged
<1> HIDE DEF D
<1>6. /\ \A v \in new : v[1] \in landed
      /\ \A y \in Call, k \in Key : <<y, k>> \in new =>
            k \in D /\ remote[k].value = y /\ ~Excused(x, y, k)
  BY <1>1, <1>5, FinishedFacts
<1> HIDE DEF new
<1>7. TagsOfWriter'
  BY <1>2 DEF UntagInv, TagsOfWriter
<1>8. InvalidatedLocally'
  BY <1>2 DEF UntagInv, InvalidatedLocally
<1>9. UntaggedLanded'
  BY <1>2, <1>4, <1>6 DEF UntagInv, UntaggedLanded
<1>10. InvalidationMissesOnlyCopies'
  <2> SUFFICES ASSUME NEW q \in Process, NEW k \in Key, NEW e, e = local[q][k], e # None,
                      <<e.value, k>> \in untagged'[q]
               PROVE  e.tags = {}
    BY <1>2 DEF InvalidationMissesOnlyCopies
  <2>1. CASE <<e.value, k>> \in untagged[q]
    BY <2>1 DEF UntagInv, InvalidationMissesOnlyCopies
  <2>2. CASE q = p /\ <<e.value, k>> \in new
    <3>1. e.value \in Call
      BY LocalOfCalls
    <3>2. k \in D /\ remote[k].value = e.value /\ ~Excused(x, e.value, k)
      BY <1>6, <2>2, <3>1
    <3>3. t \in arg[e.value].tags
      BY <1>5, <3>2 DEF UntagInv, TagsOfWriter
    <3>4. e.value \notin beside[x]
      BY <3>2 DEF Excused
    <3>5. e.tags \cap arg[x].tags = {}
      BY <1>2, <2>2, <3>4 DEF UntagInv, InvalidatedLocally
    <3> QED BY <3>3, <3>5 DEF UntagInv, TagsOfWriter
  <2> QED BY <1>4, <2>1, <2>2
<1> QED BY <1>7, <1>8, <1>9, <1>10 DEF UntagInv

LEMMA UntagStep == Base /\ UntagInv /\ [Next]_vars => UntagInv'
<1> SUFFICES ASSUME Base, UntagInv, [Next]_vars PROVE UntagInv'
  OBVIOUS
<1>1. LevelsTyped /\ CallsTyped
  BY Typed DEF Base
<1>2. local' = local => OnlyLost
  BY <1>1 DEF OnlyLost, LevelsTyped
<1>3. ASSUME NEW x \in Call, Starting(x) PROVE UntagInv'
  BY <1>3, UntagStarting
<1>4. ASSUME NEW x \in Call, RemoteRead(x) \/ RemoteTimeout(x) \/ \E k \in Key : AskTtl(x, k)
      PROVE  UntagInv'
  <2>1. /\ UNCHANGED <<levels, arg, history>>
        /\ \E l \in {"ttl", "fill", "done"} : pc' = [pc EXCEPT ![x] = l]
    BY <1>4 DEF RemoteRead, RemoteTimeout, AskTtl, Goto
  <2>2. \A y \in Call : pc'[y] = "invalidate" => pc[y] = "invalidate"
    BY <1>1, <2>1 DEF CallsTyped
  <2> QED BY <1>2, <2>1, <2>2, UntagLess DEF levels, history
<1>5. ASSUME NEW x \in Call, Fill(x) PROVE UntagInv'
  BY <1>5, UntagFill
<1>6. ASSUME NEW x \in Call, Landing(x) PROVE UntagInv'
  BY <1>6, UntagLanding
<1>7. ASSUME NEW x \in Call, RemoteInvalidate(x) PROVE UntagInv'
  BY <1>7, UntagInvalidate
<1>8. ASSUME NEW x \in Call, RemoteDelete(x) \/ RemoteDeleteFails(x) \/ RemoteInvalidateFails(x)
      PROVE  UntagInv'
  <2>1. /\ UNCHANGED <<local, arg, beside, landed>>
        /\ \A k \in Key : remote'[k] \in {None, remote[k]}
        /\ \A y \in Call : pc'[y] = "invalidate" => pc[y] = "invalidate"
    BY <1>1, <1>8, RemovingFacts DEF Base, Removing, CallsTyped
  <2>2. untagged' = untagged
    BY <1>8 DEF RemoteDelete, RemoteDeleteFails, RemoteInvalidateFails, history
  <2> QED BY <1>2, <2>1, <2>2, UntagLess
<1>9. ASSUME NEW p \in Process, Losing(p) PROVE UntagInv'
  BY <1>9, LosingFacts, UntagLess DEF Base, history
<1>10. CASE Tick
  BY <1>10, TickFacts, UntagLess DEF Base, history
<1>11. CASE UNCHANGED vars
  BY <1>2, <1>11, UntagLess DEF vars, levels, history
<1> QED BY <1>3, <1>4, <1>5, <1>6, <1>7, <1>8, <1>9, <1>10, <1>11, Groups DEF Removing

-----------------------------------------------------------------------------
(* Theorems.                                                               *)

LEMMA Inductive == Spec => []IInv
<1>1. Init => IInv
  BY BaseInit, TtlInit, GoneInit, UntagInit DEF IInv
<1>2. IInv /\ [Next]_vars => IInv'
  BY BaseStep, TtlStep, GoneStep, UntagStep DEF IInv
<1> QED BY <1>1, <1>2, PTL DEF Spec

\* Both levels and all calls keep their shape; what the remote level holds has
\* been written to it.
THEOREM TypeCorrect == Spec => []TypeOK
<1>1. IInv => TypeOK
  BY DEF IInv, Base
<1> QED BY <1>1, Inductive, PTL

\* A backfilled copy expires with its original: set() with the remaining ttl
\* neither forgets an expiry nor moves it by more than the answer took, although
\* value and ttl are read by two calls and 0 means no expiry.
THEOREM TtlPreservedCorrect == Spec => []TtlPreserved
<1>1. IInv => TtlPreserved
  BY DEF IInv, TtlInv
<1> QED BY <1>1, Inductive, PTL

\* What a process has overwritten or deleted in both levels does not come back
\* to its local level, unless a call that overlapped had it: del() and set()
\* touch the local level first and the remote one second.
THEOREM NeverGoesBackCorrect == Spec => []NeverGoesBack
<1>1. IInv => NeverGoesBack
  BY DEF IInv, GoneInv
<1> QED BY <1>1, Inductive, PTL

\* All that an invalidation by tag leaves in its process's local level, having
\* succeeded in both, are copies made by backfill, and what calls that
\* overlapped had: a process's own writes are reached wherever they are.
THEOREM InvalidationCorrect == Spec => []InvalidationMissesOnlyCopies
<1>1. IInv => InvalidationMissesOnlyCopies
  BY DEF IInv, UntagInv
<1> QED BY <1>1, Inductive, PTL

=============================================================================
