---------------------------- MODULE MultiLevelCache ----------------------------
(***************************************************************************)
(* The multi-level cache of src/src/multi-level-cache.ts: processes with a *)
(* local level each (a MemoryCache) and one remote level they share.       *)
(*                                                                         *)
(* A call of the local level is one step.  A call of the remote level is   *)
(* sent in one step and takes effect, fails (with or without effect) or    *)
(* hangs in later ones; calls of the remote level are not ordered.  get()  *)
(* and getMany(), set() and setMany(), del(), delMany() and delPattern()   *)
(* are one operation each, on a set of keys.  A value is named by the call *)
(* that wrote it.                                                          *)
(***************************************************************************)
EXTENDS Integers, FiniteSets

CONSTANTS
    Process, Key, Tag, Call, None,
    ProcessOf,      \* per call, the process that makes it
    WritePolicy,    \* per process, "both" or "local-first-async-remote"
    Ttl,            \* ttl arguments, in ticks; 0 for no expiry
    NoTtl,          \* an absent ttl argument
    DefaultTtl,     \* of the local levels; the remote level has none
    MaxTime         \* bound on the clock

ASSUME NoneAssumption == None \notin Call
ASSUME ProcessAssumption == ProcessOf \in [Call -> Process]
ASSUME PolicyAssumption ==
    WritePolicy \in [Process -> {"both", "local-first-async-remote"}]
ASSUME TtlAssumption == Ttl \subseteq Nat /\ NoTtl \notin Nat /\ DefaultTtl \in Nat
ASSUME TimeAssumption == MaxTime \in Nat

Never == -1     \* of entries that do not expire

\* An entry of a level. For properties only: late is the age of the answer
\* from which a copy's ttl was taken, and sure says that the answer was about
\* the copied value.
Entry == [value : Call, expires : Nat \cup {Never}, tags : SUBSET Tag,
          late : Nat, sure : BOOLEAN]

VARIABLES
    now,
    local,      \* per process and key, its entry or None
    remote,     \* per key, its entry or None
    pc,         \* per call: where it stands
    arg,        \* per call: its arguments
    seen,       \* per reading call and key: the remote value it got, or None
    ttl,        \* per reading call and key: the answer to its ttl query, or None
    \* history:
    dies,       \* per call: when the value it wrote expires in the remote level
    landed,     \* calls whose write has taken effect in the remote level
    beside,     \* per call: the calls of its process that overlapped it
    gone,       \* per process: values it has overwritten or deleted itself
    untagged    \* per process: values it has invalidated by tag itself

levels == <<local, remote>>
history == <<dies, landed, beside, gone, untagged>>
vars == <<now, levels, pc, arg, seen, ttl, history>>

Over == {"done", "failed", "async"}
Arg == [keys : SUBSET Key, ttl : Ttl \cup {NoTtl}, tags : SUBSET Tag]
NoArg == [keys |-> {}, ttl |-> NoTtl, tags |-> {}]

\* Answers to a ttl query, when they were given, and whether about the value
\* that was read.
Gone == -2
Unknown == -3
Answer == [left : Nat \cup {Never, Gone, Unknown}, at : Nat, sure : BOOLEAN]

TypeOK ==
    /\ now \in 0..MaxTime
    /\ local \in [Process -> [Key -> Entry \cup {None}]]
    /\ remote \in [Key -> Entry \cup {None}]
    /\ \A k \in Key : remote[k] # None => remote[k].value \in landed
    /\ pc \in [Call -> {"new", "read", "ttl", "fill", "write", "delete", "invalidate"} \cup Over]
    /\ arg \in [Call -> Arg]
    /\ seen \in [Call -> [Key -> Call \cup {None}]]
    /\ ttl \in [Call -> [Key -> Answer \cup {None}]]
    /\ \A x \in Call, k \in Key : ttl[x][k] # None => seen[x][k] # None
    /\ dies \in [Call -> Nat \cup {Never}]
    /\ landed \subseteq Call
    /\ beside \in [Call -> SUBSET Call]
    /\ gone \in [Process -> SUBSET (Call \X Key)]
    /\ untagged \in [Process -> SUBSET (Call \X Key)]

Init ==
    /\ now = 0
    /\ local = [p \in Process |-> [k \in Key |-> None]]
    /\ remote = [k \in Key |-> None]
    /\ pc = [x \in Call |-> "new"]
    /\ arg = [x \in Call |-> NoArg]
    /\ seen = [x \in Call |-> [k \in Key |-> None]]
    /\ ttl = [x \in Call |-> [k \in Key |-> None]]
    /\ dies = [x \in Call |-> Never]
    /\ landed = {}
    /\ beside = [x \in Call |-> {}]
    /\ gone = [p \in Process |-> {}]
    /\ untagged = [p \in Process |-> {}]

Goto(x, l) == pc' = [pc EXCEPT ![x] = l]

-----------------------------------------------------------------------------
(* The levels.                                                             *)

\* The end of a life of n ticks from now; 0 is for ever.
After(n) == IF n = 0 THEN Never ELSE now + n
LocalExpiry(t) == After(IF t = NoTtl THEN DefaultTtl ELSE t)
RemoteExpiry(t) == After(IF t = NoTtl THEN 0 ELSE t)

\* A level with the entries of D replaced.
Put(level, D, e) == [k \in Key |-> IF k \in D THEN e ELSE level[k]]
Drop(level, D) == Put(level, D, None)
Tagged(level, t) == {k \in Key : level[k] # None /\ t \in level[k].tags}

Written(x, expires) ==
    [value |-> x, expires |-> expires, tags |-> arg'[x].tags, late |-> 0, sure |-> TRUE]

SetLocal(p, level) == local' = [local EXCEPT ![p] = level]

\* The levels of p after its own write or deletion of the keys D, in the
\* remote level too: of what had landed, p has finished with all that no call
\* beside this one has read or written.
Finished(x, D) ==
    {v \in landed \X D : \A z \in beside[x] : v[1] # z /\ v[1] # seen[z][v[2]]} \ ({x} \X D)

-----------------------------------------------------------------------------
(* Starting a call: its step on the local level.                           *)

Start(x, a) ==
    /\ pc[x] = "new"
    /\ arg' = [arg EXCEPT ![x] = a]
    /\ LET busy == {y \in Call \ {x} : ProcessOf[y] = ProcessOf[x] /\ pc[y] \notin Over \cup {"new"}}
       IN  beside' = [y \in Call |-> IF y = x THEN busy
                                     ELSE IF y \in busy THEN beside[y] \cup {x} ELSE beside[y]]
    /\ UNCHANGED <<now, remote, seen, ttl, dies, landed, gone, untagged>>

\* get(), getMany(): what is missing locally is asked of the remote level.
Read(x, D) ==
    LET missing == {k \in D : local[ProcessOf[x]][k] = None}
    IN  /\ missing # {}
        /\ Start(x, [NoArg EXCEPT !.keys = missing])
        /\ Goto(x, "read")
        /\ UNCHANGED local

\* set(), setMany(): the remote write is sent with the local one or after it.
\* setMany() takes no tags.
Write(x, D, t, tags) ==
    /\ tags # {} => Cardinality(D) = 1
    /\ Start(x, [keys |-> D, ttl |-> t, tags |-> tags])
    /\ LET p == ProcessOf[x] IN
       /\ SetLocal(p, Put(local[p], D, Written(x, LocalExpiry(t))))
       /\ Goto(x, IF WritePolicy[p] = "both" THEN "write" ELSE "async")

\* Mutant: the local level is left to expire.
DeleteRemoteOnly(x, D) ==
    /\ Start(x, [NoArg EXCEPT !.keys = D])
    /\ Goto(x, "delete")
    /\ UNCHANGED local

\* del(), delMany(), delPattern(): the local level first.
Delete(x, D) ==
    /\ Start(x, [NoArg EXCEPT !.keys = D])
    /\ SetLocal(ProcessOf[x], Drop(local[ProcessOf[x]], D))
    /\ Goto(x, "delete")

\* Mutant: the local level is left to expire.
InvalidateRemoteOnly(x, t) ==
    /\ Start(x, [NoArg EXCEPT !.tags = {t}])
    /\ Goto(x, "invalidate")
    /\ UNCHANGED local

InvalidateByTag(x, t) ==
    LET p == ProcessOf[x] IN
    /\ Start(x, [NoArg EXCEPT !.tags = {t}])
    /\ SetLocal(p, Drop(local[p], Tagged(local[p], t)))
    /\ Goto(x, "invalidate")

\* clear() empties the local level only.
Clear(p) ==
    /\ \E k \in Key : local[p][k] # None
    /\ SetLocal(p, Drop(local[p], Key))
    /\ UNCHANGED <<now, remote, pc, arg, seen, ttl, history>>

-----------------------------------------------------------------------------
(* Reading the remote level.                                               *)

RemoteRead(x) ==
    /\ pc[x] = "read"
    /\ seen' = [seen EXCEPT ![x] = [k \in Key |->
            IF k \in arg[x].keys /\ remote[k] # None THEN remote[k].value ELSE None]]
    /\ Goto(x, IF \E k \in Key : seen'[x][k] # None THEN "ttl" ELSE "done")
    /\ UNCHANGED <<now, levels, arg, ttl, history>>

\* Mutant: after a timeout the remote level is asked again.
RemoteTimeoutRetries(x) == pc[x] = "read" /\ UNCHANGED vars

\* The remote level fails or does not answer in time: a miss.
RemoteTimeout(x) ==
    /\ pc[x] = "read"
    /\ Goto(x, "done")
    /\ UNCHANGED <<now, levels, arg, seen, ttl, history>>

\* Mutant: no check for an entry that has no time left.
LeftUnchecked(k) ==
    IF remote[k] = None THEN Gone
    ELSE IF remote[k].expires = Never THEN Never ELSE remote[k].expires - now

\* getRemainingTtl(). In its last moment an entry counts as gone: 0 would mean
\* no expiry to set().
Left(k) ==
    IF remote[k] = None \/ remote[k].expires = now THEN Gone
    ELSE IF remote[k].expires = Never THEN Never ELSE remote[k].expires - now

\* The ttl of a key is asked for, in a batch or key by key. The query may
\* fail, or not be supported.
AskTtl(x, k) ==
    /\ pc[x] = "ttl" /\ seen[x][k] # None /\ ttl[x][k] = None
    /\ \E left \in {Left(k), Unknown} :
          ttl' = [ttl EXCEPT ![x][k] =
              [left |-> left, at |-> now,
               sure |-> left # Unknown /\ remote[k] # None /\ remote[k].value = seen[x][k]]]
    /\ Goto(x, IF \A j \in Key : seen[x][j] # None => ttl'[x][j] # None THEN "fill" ELSE "ttl")
    /\ UNCHANGED <<now, levels, arg, seen, history>>

\* The copy of a remote value, made when the answer arrives: without tags.
Copy(x, k) ==
    LET a == ttl[x][k]
        life == IF a.left = Unknown THEN DefaultTtl ELSE IF a.left = Never THEN 0 ELSE a.left
    IN  [value |-> seen[x][k], expires |-> After(life), tags |-> {},
         late |-> now - a.at, sure |-> a.sure]

\* The values read are copied to the local level, but for those that are gone.
Fill(x) ==
    /\ pc[x] = "fill"
    /\ LET p == ProcessOf[x] IN
       SetLocal(p, [k \in Key |-> IF ttl[x][k] # None /\ ttl[x][k].left # Gone THEN Copy(x, k)
                               ELSE local[p][k]])
    /\ Goto(x, "done")
    /\ UNCHANGED <<now, remote, arg, seen, ttl, history>>

-----------------------------------------------------------------------------
(* Changing the remote level.                                              *)

Land(x) ==
    /\ remote' = Put(remote, arg[x].keys,
                     [value |-> x, expires |-> RemoteExpiry(arg[x].ttl), tags |-> arg[x].tags,
                      late |-> 0, sure |-> TRUE])
    /\ dies' = [dies EXCEPT ![x] = RemoteExpiry(arg[x].ttl)]
    /\ landed' = landed \cup {x}

\* The write takes effect. A set() that waited for it returns.
RemoteWrite(x) ==
    /\ pc[x] \in {"write", "async"}
    /\ Land(x)
    /\ Goto(x, "done")
    /\ LET p == ProcessOf[x] IN
       gone' = IF pc[x] = "write" THEN [gone EXCEPT ![p] = @ \cup Finished(x, arg[x].keys)] ELSE gone
    /\ UNCHANGED <<now, local, arg, seen, ttl, beside, untagged>>

\* The write fails, and may have taken effect. Only a set() that waited for
\* it tells its caller.
RemoteWriteFails(x) ==
    /\ pc[x] \in {"write", "async"}
    /\ Land(x) \/ UNCHANGED <<remote, dies, landed>>
    /\ Goto(x, IF pc[x] = "write" THEN "failed" ELSE "done")
    /\ UNCHANGED <<now, local, arg, seen, ttl, beside, gone, untagged>>

RemoteDelete(x) ==
    /\ pc[x] = "delete"
    /\ remote' = Drop(remote, arg[x].keys)
    /\ Goto(x, "done")
    /\ gone' = [gone EXCEPT ![ProcessOf[x]] = @ \cup Finished(x, arg[x].keys)]
    /\ UNCHANGED <<now, local, arg, seen, ttl, dies, landed, beside, untagged>>

\* The failure is swallowed.
RemoteDeleteFails(x) ==
    /\ pc[x] = "delete"
    /\ remote' \in {remote, Drop(remote, arg[x].keys)}
    /\ Goto(x, "done")
    /\ UNCHANGED <<now, local, arg, seen, ttl, history>>

RemoteInvalidate(x) ==
    /\ pc[x] = "invalidate"
    /\ \E t \in arg[x].tags :
          LET D == Tagged(remote, t) IN
          /\ remote' = Drop(remote, D)
          /\ untagged' = [untagged EXCEPT ![ProcessOf[x]] =
                  @ \cup {v \in Finished(x, D) : remote[v[2]].value = v[1]}]
    /\ Goto(x, "done")
    /\ UNCHANGED <<now, local, arg, seen, ttl, dies, landed, beside, gone>>

\* remoteInvalidationErrors decides whether the caller learns of it.
RemoteInvalidateFails(x) ==
    /\ pc[x] = "invalidate"
    /\ \E t \in arg[x].tags : remote' \in {remote, Drop(remote, Tagged(remote, t))}
    /\ Goto(x, "done") \/ Goto(x, "failed")
    /\ UNCHANGED <<now, local, arg, seen, ttl, history>>

-----------------------------------------------------------------------------
(* The environment.                                                        *)

\* The local level evicts an entry.
Evict(p, k) ==
    /\ local[p][k] # None
    /\ SetLocal(p, Drop(local[p], {k}))
    /\ UNCHANGED <<now, remote, pc, arg, seen, ttl, history>>

\* Time passes. The local level serves no entry at the moment of its expiry,
\* Redis does.
Tick ==
    /\ now < MaxTime
    /\ now' = now + 1
    /\ local' = [p \in Process |->
           Drop(local[p], {k \in Key : local[p][k] # None /\ local[p][k].expires = now'})]
    /\ remote' = Drop(remote, {k \in Key : remote[k] # None /\ remote[k].expires = now})
    /\ UNCHANGED <<pc, arg, seen, ttl, history>>

Reading(x) == RemoteTimeout(x) \/ (\E k \in Key : AskTtl(x, k)) \/ Fill(x)

Next ==
    \/ \E x \in Call :
          \/ \E D \in SUBSET Key \ {{}} :
                \/ Read(x, D) \/ Delete(x, D)
                \/ \E t \in Ttl \cup {NoTtl}, tags \in SUBSET Tag : Write(x, D, t, tags)
          \/ \E t \in Tag : InvalidateByTag(x, t)
          \/ RemoteRead(x) \/ Reading(x)
          \/ RemoteWrite(x) \/ RemoteWriteFails(x)
          \/ RemoteDelete(x) \/ RemoteDeleteFails(x)
          \/ RemoteInvalidate(x) \/ RemoteInvalidateFails(x)
    \/ \E p \in Process : Clear(p) \/ \E k \in Key : Evict(p, k)
    \/ Tick

Spec == Init /\ [][Next]_vars

\* The timer of get() fires, whatever the remote level does.
TimerSpec == Spec /\ \A x \in Call : WF_vars(RemoteTimeout(x)) /\ WF_vars(Fill(x))

\* Moreover the remote level answers ttl queries, or fails.
FairSpec == TimerSpec /\ \A x \in Call : WF_vars(\E k \in Key : AskTtl(x, k))

-----------------------------------------------------------------------------
(* Properties.                                                             *)

\* What a process has overwritten or deleted, in both levels and with success,
\* does not come back to its local level, unless one of its reads had fetched
\* it meanwhile.
NeverGoesBack ==
    \A p \in Process, k \in Key :
        local[p][k] # None => <<local[p][k].value, k>> \notin gone[p]

\* Backfill preserves the remote ttl: a local copy whose ttl was asked for
\* while the remote level still held the copied value expires with it, late by
\* no more than the answer took.
TtlPreserved ==
    \A p \in Process, k \in Key :
        LET e == local[p][k] IN
        e # None /\ e.sure /\ e.value \in landed /\ dies[e.value] # Never =>
            e.expires # Never /\ e.expires <= dies[e.value] + e.late

\* A get() ends although the remote level does not answer it.
GetsEnd == \A x \in Call : pc[x] = "read" ~> pc[x] = "done"

\* "Tag invalidation - memory, Redis, multi-level" (README.md:42): what a
\* process has invalidated by its tag, in both levels and with success, is not
\* in its local level, unless one of its reads had fetched it meanwhile.
InvalidationClearsBoth ==
    \A p \in Process, k \in Key :
        local[p][k] # None => <<local[p][k].value, k>> \notin untagged[p]

\* What does hold: all that a process still has locally of what it has invalidated
\* by its tag, in both levels and with success, are copies that backfill made
\* without the tags, or what a call that overlapped had.
InvalidationMissesOnlyCopies ==
    \A p \in Process, k \in Key :
        LET e == local[p][k] IN
        e # None /\ <<e.value, k>> \in untagged[p] => e.tags = {}

=============================================================================
