----------------------------- MODULE LeaseProofs -----------------------------
(***************************************************************************)
(* Theorems about the lease: the Redis store of RedisLease, for every      *)
(* number of clients and every ttl, implements the lock that               *)
(* LeaseReadThrough takes, for every number of processes and calls, to     *)
(* keep their fetches and writes apart.                                    *)
(***************************************************************************)
EXTENDS RedisLease, LeaseReadThrough, TLAPS

-----------------------------------------------------------------------------
(* The Redis store: types.                                                 *)

LEMMA TtlIsNat == \A n \in Ttl \cup {0} : n \in Nat
  BY TtlAssumption

LEMMA StoreTypeInit == StoreInit => StoreTypeOK
  BY TokenAssumption, RenewalAssumption DEF StoreInit, StoreTypeOK

LEMMA StoreTypeStep == StoreTypeOK /\ [StoreNext]_storeVars => StoreTypeOK'
<1> SUFFICES ASSUME StoreTypeOK, [StoreNext]_storeVars PROVE StoreTypeOK'
  OBVIOUS
<1> USE TokenAssumption, TtlAssumption, RenewalAssumption
<1>1. ASSUME NEW t \in Token, NEW ttl \in Ttl, Acquire(t, ttl) PROVE StoreTypeOK'
  BY <1>1 DEF StoreTypeOK, Acquire
<1>2. ASSUME NEW t \in Token, NEW ttl \in Ttl, RenewLease(t, ttl) PROVE StoreTypeOK'
  <2>1. token' = token /\ (left' = left \/ (token = t /\ left' = ttl))
    BY <1>2 DEF RenewLease
  <2>4. left' \in Nat /\ (token' = NoToken <=> left' = 0)
    BY <2>1 DEF StoreTypeOK
  <2>2. reply' \in [Token -> Ttl \cup {0}]
    BY <1>2 DEF StoreTypeOK, RenewLease
  <2>3. renewals' \in [Token -> 0..MaxRenewals]
    BY <1>2 DEF StoreTypeOK, RenewLease
  <2> QED BY <1>2, <2>1, <2>2, <2>3, <2>4 DEF StoreTypeOK, RenewLease
<1>3. ASSUME NEW t \in Token, AcquireReply(t) \/ RenewReply(t) PROVE StoreTypeOK'
  <2>3. /\ belief' = [belief EXCEPT ![t] = reply[t]]
        /\ reply' = [reply EXCEPT ![t] = 0]
    BY <1>3 DEF AcquireReply, RenewReply
  <2>4. reply[t] \in Nat
    <3>1. reply[t] \in Ttl \cup {0}
      BY DEF StoreTypeOK
    <3> QED BY ONLY <3>1, TtlIsNat
  <2>1. belief' \in [Token -> Nat] /\ reply' \in [Token -> Ttl \cup {0}]
    BY <2>3, <2>4 DEF StoreTypeOK
  <2>2. /\ state' \in {state, [state EXCEPT ![t] = "held"]}
        /\ UNCHANGED <<token, left, renewals, asked, deaf>>
    BY <1>3 DEF AcquireReply, RenewReply
  <2> QED BY <2>1, <2>2 DEF StoreTypeOK
<1>4. ASSUME NEW t \in Token, ReleaseLease(t) PROVE StoreTypeOK'
  BY <1>4 DEF StoreTypeOK, ReleaseLease
<1>5. ASSUME NEW t \in Token, ReplyLost(t) PROVE StoreTypeOK'
  BY <1>5 DEF StoreTypeOK, ReplyLost
<1>6. CASE Tick
  <2>1. left' \in Nat /\ token' \in Token \cup {NoToken} /\ (token' = NoToken <=> left' = 0)
    BY <1>6 DEF StoreTypeOK, Tick
  <2>2. belief' \in [Token -> Nat]
    BY <1>6 DEF StoreTypeOK, Tick
  <2> QED BY <1>6, <2>1, <2>2 DEF StoreTypeOK, Tick
<1>7. CASE UNCHANGED storeVars
  BY <1>7 DEF StoreTypeOK, storeVars
<1> QED BY <1>1, <1>2, <1>3, <1>4, <1>5, <1>6, <1>7 DEF StoreNext

\* Type correctness; the Redis key is set exactly while it has time left.
THEOREM StoreTypeCorrect == StoreSpec => []StoreTypeOK
  BY StoreTypeInit, StoreTypeStep, PTL DEF StoreSpec

-----------------------------------------------------------------------------
(* Losing the lease.                                                       *)

\* The token of the key goes only by a release its owner asked for, or in the
\* tick in which its time runs out: no client can take the lease from another.
THEOREM KeptUntilOverCorrect == StoreSpec => KeptUntilOver
<1>1. ASSUME StoreTypeOK, [StoreNext]_storeVars, NEW u \in Token, token = u, token' # u
      PROVE  u \in asked' \/ left = 1
  <2>1. ASSUME NEW t \in Token, NEW ttl \in Ttl, Acquire(t, ttl)
        PROVE  token' = u
    BY <1>1, <2>1, TokenAssumption DEF Acquire
  <2>2. ASSUME NEW t \in Token, ReleaseLease(t) PROVE u \in asked'
    BY <1>1, <2>2 DEF ReleaseLease
  <2>3. CASE Tick
    BY <1>1, <2>3, TokenAssumption DEF Tick, StoreTypeOK
  <2>4. ASSUME NEW t \in Token,
               \/ AcquireReply(t) \/ RenewReply(t) \/ ReplyLost(t)
               \/ \E ttl \in Ttl : RenewLease(t, ttl)
        PROVE  token' = u
    BY <1>1, <2>4 DEF AcquireReply, RenewReply, ReplyLost, RenewLease
  <2>5. CASE UNCHANGED storeVars
    BY <1>1, <2>5 DEF storeVars
  <2> QED BY <1>1, <2>1, <2>2, <2>3, <2>4, <2>5 DEF StoreNext
<1>2. StoreTypeOK /\ [StoreNext]_storeVars =>
          [\A t \in Token : token = t /\ token' # t => t \in asked' \/ left = 1]_storeVars
  BY <1>1
<1> QED BY <1>2, StoreTypeInit, StoreTypeStep, PTL DEF StoreSpec, KeptUntilOver

-----------------------------------------------------------------------------
(* The lease is a lock.                                                    *)

Spent == {t \in Token : state[t] \in {"granted", "held", "failed"}}

\* A token that is or was in Redis is spent.
HolderSpent == token # NoToken => token \in Spent

LEMMA SpentStep ==
    StoreTypeOK /\ HolderSpent /\ [StoreNext]_storeVars =>
        HolderSpent' /\ [Lease!Next]_<<token, Spent>>
<1> SUFFICES ASSUME StoreTypeOK, HolderSpent, [StoreNext]_storeVars
             PROVE  HolderSpent' /\ [Lease!Next]_<<token, Spent>>
  OBVIOUS
<1> USE TokenAssumption
<1>1. ASSUME NEW t \in Token, NEW ttl \in Ttl, Acquire(t, ttl)
      PROVE  HolderSpent' /\ [Lease!Next]_<<token, Spent>>
  <2>1. CASE token = NoToken
    <3>1. t \notin Spent /\ token' = t /\ Spent' = Spent \cup {t}
      BY <1>1, <2>1 DEF Acquire, Spent, StoreTypeOK
    <3>2. Lease!Take(t)
      BY <2>1, <3>1 DEF Lease!Take, Spent
    <3> QED BY <3>1, <3>2 DEF HolderSpent, Lease!Next
  <2>2. CASE token # NoToken
    <3>1. token' = token /\ Spent' = Spent
      BY <1>1, <2>2 DEF Acquire, Spent, StoreTypeOK
    <3> QED BY <3>1 DEF HolderSpent
  <2> QED BY <2>1, <2>2
<1>2. ASSUME NEW t \in Token,
             \/ AcquireReply(t) \/ RenewReply(t) \/ ReplyLost(t)
             \/ \E ttl \in Ttl : RenewLease(t, ttl)
      PROVE  HolderSpent' /\ [Lease!Next]_<<token, Spent>>
  <2>1. token' = token
    BY <1>2 DEF AcquireReply, RenewReply, ReplyLost, RenewLease
  <2>2. \A u \in Token : state'[u] \in {"granted", "held", "failed"}
                          <=> state[u] \in {"granted", "held", "failed"}
    BY <1>2 DEF AcquireReply, RenewReply, ReplyLost, RenewLease, StoreTypeOK
  <2>3. Spent' = Spent
    BY <2>2 DEF Spent
  <2> QED BY <2>1, <2>3 DEF HolderSpent
<1>3. ASSUME Spent' = Spent, token' \in {token, NoToken}
      PROVE  HolderSpent' /\ [Lease!Next]_<<token, Spent>>
  <2>1. CASE token' = token
    BY <1>3, <2>1 DEF HolderSpent
  <2>2. CASE token' = NoToken /\ token # NoToken
    BY <1>3, <2>2 DEF HolderSpent, Lease!Next, Lease!Lose, Spent
  <2> QED BY <1>3, <2>1, <2>2
<1>4. ASSUME NEW t \in Token, ReleaseLease(t)
      PROVE  HolderSpent' /\ [Lease!Next]_<<token, Spent>>
  BY <1>3, <1>4 DEF ReleaseLease, Spent
<1>5. CASE Tick
  BY <1>3, <1>5 DEF Tick, Spent
<1>6. CASE UNCHANGED storeVars
  BY <1>3, <1>6 DEF storeVars, Spent
<1> QED BY <1>1, <1>2, <1>4, <1>5, <1>6 DEF StoreNext

\* The Redis store implements the abstract lock: one holder at a time, and no
\* token holds the lease twice.
THEOREM RedisLeaseImplementsLock == StoreSpec => ImplementsLock
<1>1. StoreInit => HolderSpent /\ Lease!Init
  BY DEF StoreInit, HolderSpent, Lease!Init
<1>2. StoreTypeOK /\ HolderSpent /\ [StoreNext]_storeVars =>
          HolderSpent' /\ [Lease!Next]_<<token, Spent>>
  BY SpentStep
<1> QED BY <1>1, <1>2, StoreTypeInit, StoreTypeStep, PTL
     DEF StoreSpec, ImplementsLock, Lease!Spec, Spent

-----------------------------------------------------------------------------
(* The client's snapshot.                                                  *)

\* While a reply is on its way, Redis counts down from what it will report.
SnapshotInv ==
    \A t \in Token :
        /\ reply[t] # 0 /\ token = t => left <= reply[t]
        /\ state[t] = "granted" => reply[t] # 0
        /\ token = t => state[t] \in {"granted", "held", "failed"}
        /\ state[t] = "failed" => t \in deaf

\* A lease whose snapshot has expired is over, whatever the delays of replies.
THEOREM SnapshotCorrect == StoreSpec => []SnapshotNeverEarly
<1>1. StoreInit => SnapshotInv /\ SnapshotNeverEarly
  BY TokenAssumption DEF StoreInit, SnapshotInv, SnapshotNeverEarly
<1>2. StoreTypeOK /\ SnapshotInv /\ SnapshotNeverEarly /\ [StoreNext]_storeVars =>
          SnapshotInv' /\ SnapshotNeverEarly'
  <2> SUFFICES ASSUME StoreTypeOK, SnapshotInv, SnapshotNeverEarly, [StoreNext]_storeVars
               PROVE  SnapshotInv' /\ SnapshotNeverEarly'
    OBVIOUS
  <2> USE TokenAssumption, TtlAssumption
  <2>1. ASSUME NEW t \in Token, NEW ttl \in Ttl, Acquire(t, ttl)
        PROVE  SnapshotInv' /\ SnapshotNeverEarly'
    BY <2>1 DEF StoreTypeOK, SnapshotInv, SnapshotNeverEarly, Acquire
  <2>2. ASSUME NEW t \in Token, NEW ttl \in Ttl, RenewLease(t, ttl)
        PROVE  SnapshotInv' /\ SnapshotNeverEarly'
    <3>1. state' = state /\ belief' = belief /\ deaf' = deaf /\ token' = token
      BY <2>2 DEF RenewLease
    <3>2. \A u \in Token : u # t => reply'[u] = reply[u]
      BY <2>2 DEF RenewLease, StoreTypeOK
    <3>3. token # t => left' = left /\ reply' = reply
      BY <2>2 DEF RenewLease
    <3>4. token = t => left' = ttl /\ reply'[t] = ttl /\ ttl # 0 /\ ttl \in Nat
      BY <2>2 DEF RenewLease, StoreTypeOK
    <3>5. reply[t] = 0 /\ state[t] = "held"
      BY <2>2 DEF RenewLease
    <3>6. SnapshotInv'
      BY <3>1, <3>2, <3>3, <3>4, <3>5 DEF SnapshotInv
    <3>7. SnapshotNeverEarly'
      BY <3>1, <3>2, <3>3, <3>4, <3>5 DEF SnapshotNeverEarly
    <3> QED BY <3>6, <3>7
  <2>3. ASSUME NEW t \in Token, AcquireReply(t)
        PROVE  SnapshotInv' /\ SnapshotNeverEarly'
    BY <2>3 DEF StoreTypeOK, SnapshotInv, SnapshotNeverEarly, AcquireReply
  <2>4. ASSUME NEW t \in Token, RenewReply(t)
        PROVE  SnapshotInv' /\ SnapshotNeverEarly'
    BY <2>4 DEF StoreTypeOK, SnapshotInv, SnapshotNeverEarly, RenewReply
  <2>5. ASSUME NEW t \in Token, ReleaseLease(t)
        PROVE  SnapshotInv' /\ SnapshotNeverEarly'
    BY <2>5 DEF StoreTypeOK, SnapshotInv, SnapshotNeverEarly, ReleaseLease
  <2>6. ASSUME NEW t \in Token, ReplyLost(t)
        PROVE  SnapshotInv' /\ SnapshotNeverEarly'
    BY <2>6 DEF StoreTypeOK, SnapshotInv, SnapshotNeverEarly, ReplyLost
  <2>7. CASE Tick
    <3>1. UNCHANGED <<state, reply, deaf>> /\ token' \in {token, NoToken}
      BY <2>7 DEF Tick
    <3>4. left \in Nat /\ \A u \in Token : reply[u] \in Nat /\ belief[u] \in Nat
      <4>1. left \in Nat /\ \A u \in Token : reply[u] \in Ttl \cup {0} /\ belief[u] \in Nat
        BY DEF StoreTypeOK
      <4> QED BY ONLY <4>1, TtlIsNat
    <3>2. left' \in Nat /\ left' <= left
      BY <2>7, <3>4 DEF Tick
    <3>3. ASSUME NEW u \in Token, left <= belief[u] PROVE left' <= belief'[u]
      <4>1. belief'[u] = IF belief[u] > 0 THEN belief[u] - 1 ELSE 0
        BY <2>7 DEF Tick
      <4>2. left' = IF left > 0 THEN left - 1 ELSE 0
        BY <2>7 DEF Tick
      <4> QED BY <3>3, <3>4, <4>1, <4>2
    <3>5. SnapshotInv'
      <4>1. ASSUME NEW u \in Token, left <= reply[u] PROVE left' <= reply[u]
        BY <3>2, <3>4, <4>1
      <4> QED BY <3>1, <4>1 DEF SnapshotInv
    <3>6. SnapshotNeverEarly'
      BY <3>1, <3>3 DEF SnapshotNeverEarly
    <3> QED BY <3>5, <3>6
  <2>8. CASE UNCHANGED storeVars
    BY <2>8 DEF SnapshotInv, SnapshotNeverEarly, storeVars
  <2> QED BY <2>1, <2>2, <2>3, <2>4, <2>5, <2>6, <2>7, <2>8 DEF StoreNext
<1> QED BY <1>1, <1>2, StoreTypeInit, StoreTypeStep, PTL DEF StoreSpec

-----------------------------------------------------------------------------
(* Reading through the lease: types.                                       *)

LEMMA TypeInit == Init => TypeOK
  BY DEF Init, TypeOK, Lock!Init

\* What a step of call x leaves to show when it changes none of the lock, the
\* cache, joined and the table.
LEMMA TypeKeeps ==
    ASSUME TypeOK, NEW x \in Call, NEW l,
           l \in {"get", "got"} \cup Active \cup Over,
           x \in spent => l \in AtWork \cup Over \cup {"resolved", "rejected"},
           Goto(x, l), seen' \in [Call -> Call \cup {None}],
           UNCHANGED <<cache, inflight, joined, lock>>,
           expired' \subseteq Call, astray' \subseteq Call, overtaken' \subseteq Call
    PROVE  TypeOK'
<1>1. pc' \in [Call -> {"new", "get", "got", "wait"} \cup Active \cup Over]
  BY DEF TypeOK, Goto
<1>2. ASSUME NEW y \in Call, pc'[y] = "wait" PROVE joined'[y] # None
  BY <1>2 DEF TypeOK, Goto, Active, AtWork, Filling, Over
<1>3. ASSUME NEW y \in Call, y \in spent'
      PROVE  pc'[y] \in AtWork \cup Over \cup {"resolved", "rejected"}
  BY <1>3 DEF TypeOK, Goto, lock
<1> QED BY <1>1, <1>2, <1>3 DEF TypeOK, lock

LEMMA TypeStep == TypeOK /\ [Next]_vars => TypeOK'
<1> SUFFICES ASSUME TypeOK, [Next]_vars PROVE TypeOK'
  OBVIOUS
<1> USE DEF Active, AtWork, Filling, Over
<1>1. ASSUME NEW x \in Call, Begin(x) \/ Hit(x) PROVE TypeOK'
  <2>1. CASE Begin(x)
    BY <2>1, TypeKeeps DEF Begin, TypeOK, lock
  <2>2. CASE Hit(x)
    BY <2>2, TypeKeeps DEF Hit, TypeOK, lock
  <2> QED BY <1>1, <2>1, <2>2
<1>2. ASSUME NEW x \in Call, CacheGet(x) PROVE TypeOK'
  <2>1. seen' \in [Call -> Call \cup {None}]
    BY <1>2 DEF CacheGet, Keep, TypeOK
  <2>2. pc[x] = "get" /\ (Goto(x, "got") \/ Goto(x, "failed"))
    BY <1>2 DEF CacheGet
  <2>3. UNCHANGED <<cache, inflight, joined, lock, expired, astray, overtaken>>
    BY <1>2 DEF CacheGet
  <2>4. x \notin spent
    BY <2>2 DEF TypeOK
  <2> QED BY <2>1, <2>2, <2>3, <2>4, TypeKeeps DEF TypeOK
<1>3. ASSUME NEW x \in Call, Join(x) PROVE TypeOK'
  <2>1. Table(x) \in Call /\ Table(x) # None
    BY <1>3, ProcessAssumption DEF Join, Table, TypeOK
  <2>2. /\ pc[x] = "got" /\ Goto(x, "wait")
        /\ joined' = [joined EXCEPT ![x] = Table(x)]
        /\ UNCHANGED <<cache, inflight, seen, lock, expired, astray, overtaken>>
    BY <1>3 DEF Join
  <2> QED BY <2>1, <2>2 DEF Goto, TypeOK, lock
<1>4. ASSUME NEW x \in Call, Answer(x) PROVE TypeOK'
  BY <1>4 DEF Answer, Goto, Keep, TypeOK, lock
<1>5. ASSUME NEW x \in Call, Start(x) PROVE TypeOK'
  <2>1. pc[x] \in {"got", "wait"}
    BY <1>5 DEF Start
  <2>2. Goto(x, "acquire") /\ joined' = [joined EXCEPT ![x] = None]
    BY <1>5 DEF Start
  <2>3. inflight' \in [Process -> Call \cup {None}]
    BY <1>5 DEF Start, TypeOK
  <2>4. UNCHANGED <<cache, seen, lock, expired, astray, overtaken>>
    BY <1>5 DEF Start
  <2> QED BY <2>1, <2>2, <2>3, <2>4 DEF Goto, TypeOK, lock
<1>6. ASSUME NEW x \in Call, Finish(x) PROVE TypeOK'
  BY <1>6 DEF Finish, Goto, TypeOK, lock
<1>7. ASSUME NEW p \in Process, Drop(p) PROVE TypeOK'
  BY <1>7 DEF Drop, TypeOK, lock
<1>8. ASSUME NEW x \in Call, Granted(x) PROVE TypeOK'
  BY <1>8 DEF Granted, Goto, Lock!Take, TypeOK
<1>9. ASSUME NEW x \in Call, Refused(x) \/ PollEnds(x) \/ RefusedAgain(x) PROVE TypeOK'
  <2>1. /\ pc[x] \in {"acquire", "poll", "acquireAgain"}
        /\ \E l \in Active \ AtWork : Goto(x, l)
        /\ UNCHANGED <<cache, inflight, seen, joined, lock, expired, astray, overtaken>>
    BY <1>9 DEF Refused, PollEnds, RefusedAgain
  <2>2. x \notin spent
    BY <2>1 DEF TypeOK
  <2> QED BY <2>1, <2>2, TypeKeeps DEF TypeOK
<1>10. ASSUME NEW x \in Call, AcquireFails(x) PROVE TypeOK'
  <2>1. CASE Lock!Take(x)
    BY <1>10, <2>1 DEF AcquireFails, Goto, Lock!Take, TypeOK
  <2>2. CASE UNCHANGED lock
    BY <1>10, <2>2 DEF AcquireFails, Goto, TypeOK, lock
  <2> QED BY <1>10, <2>1, <2>2 DEF AcquireFails
<1>11. ASSUME NEW x \in Call, PollHits(x) \/ PollFails(x) \/ FallbackEnds(x)
       PROVE  TypeOK'
  <2>1. seen' \in [Call -> Call \cup {None}]
    BY <1>11 DEF PollHits, PollFails, FallbackEnds, Keep, TypeOK
  <2>2. Goto(x, "resolved") \/ Goto(x, "rejected")
    BY <1>11 DEF PollHits, PollFails, FallbackEnds
  <2>3. UNCHANGED <<cache, inflight, joined, lock, expired, astray, overtaken>>
    BY <1>11 DEF PollHits, PollFails, FallbackEnds
  <2> QED BY <2>1, <2>2, <2>3, TypeKeeps DEF TypeOK
<1>12. ASSUME NEW x \in Call, Recheck(x) PROVE TypeOK'
  <2>1. seen' \in [Call -> Call \cup {None}]
    BY <1>12 DEF Recheck, Keep, TypeOK
  <2>2. Goto(x, "release") \/ Goto(x, "fetch") \/ Goto(x, "releaseFailing")
    BY <1>12 DEF Recheck
  <2>3. overtaken' \subseteq Call
    BY <1>12 DEF Recheck, TypeOK
  <2>4. UNCHANGED <<cache, inflight, joined, lock, expired, astray>>
    BY <1>12 DEF Recheck
  <2> QED BY <2>1, <2>2, <2>3, <2>4, TypeKeeps DEF TypeOK
<1>13. ASSUME NEW x \in Call, FetchEnds(x) PROVE TypeOK'
  <2>1. seen' \in [Call -> Call \cup {None}]
    BY <1>13 DEF FetchEnds, Keep, TypeOK
  <2>2. Goto(x, "renew") \/ Goto(x, "release") \/ Goto(x, "releaseFailing")
    BY <1>13 DEF FetchEnds
  <2>3. UNCHANGED <<cache, inflight, joined, lock, expired, astray, overtaken>>
    BY <1>13 DEF FetchEnds
  <2> QED BY <2>1, <2>2, <2>3, TypeKeeps DEF TypeOK
<1>14. ASSUME NEW x \in Call, Renew(x) PROVE TypeOK'
  <2>1. Goto(x, "write") \/ Goto(x, "release")
    BY <1>14 DEF Renew
  <2>2. UNCHANGED <<cache, inflight, seen, joined, lock, expired, astray, overtaken>>
    BY <1>14 DEF Renew
  <2> QED BY <2>1, <2>2, TypeKeeps DEF TypeOK
<1>15. ASSUME NEW x \in Call, Write(x) PROVE TypeOK'
  <2>1. cache' \in Call \cup {None} /\ overtaken' \subseteq Call
    BY <1>15 DEF Write, TypeOK
  <2> QED BY <1>15, <2>1 DEF Write, Goto, TypeOK, lock
<1>16. ASSUME NEW x \in Call, Release(x) PROVE TypeOK'
  <2>1. holder' \in Call \cup {None} /\ spent' = spent /\ astray' \subseteq Call
    BY <1>16 DEF Release, Lock!Lose, TypeOK, lock
  <2>2. Goto(x, "resolved") \/ Goto(x, "rejected")
    BY <1>16 DEF Release
  <2> QED BY <1>16, <2>1, <2>2 DEF Release, Goto, TypeOK
<1>17. CASE Expire
  BY <1>17 DEF Expire, Lock!Lose, TypeOK
<1>18. CASE Evict
  BY <1>18 DEF Evict, TypeOK, lock
<1>19. CASE UNCHANGED vars
  BY <1>19 DEF vars, TypeOK, lock
<1> QED BY <1>1, <1>2, <1>3, <1>4, <1>5, <1>6, <1>7, <1>8, <1>9, <1>10, <1>11, <1>12,
           <1>13, <1>14, <1>15, <1>16, <1>17, <1>18, <1>19
     DEF Next, Step, Resume, Progress

\* Type correctness of the lease-protected read; a call acquires at most one
\* lease.
THEOREM TypeCorrect == Spec => []TypeOK
  BY TypeInit, TypeStep, PTL DEF Spec

\* The reading calls touch the lease only as LeaseLock, which the Redis store
\* implements (RedisLeaseImplementsLock), says it can be taken and lost: the two
\* sides meet there.
THEOREM CallsUseTheLock == Spec => Lock!Spec
<1>1. Init => Lock!Init
  BY DEF Init
<1>2. ASSUME [Next]_vars
      PROVE  [Lock!Next]_<<holder, spent>>
  <2>1. ASSUME NEW x \in Call, Granted(x) \/ AcquireFails(x)
        PROVE  Lock!Next \/ UNCHANGED <<holder, spent>>
    BY <2>1 DEF Granted, AcquireFails, lock, Lock!Next
  <2>2. ASSUME NEW x \in Call, Release(x)
        PROVE  Lock!Next \/ UNCHANGED <<holder, spent>>
    BY <2>2 DEF Release, lock, Lock!Next
  <2>3. CASE Expire
    BY <2>3 DEF Expire, Lock!Next
  <2>4. ASSUME NEW x \in Call,
               \/ Begin(x) \/ CacheGet(x) \/ Hit(x) \/ Join(x) \/ Answer(x) \/ Start(x)
               \/ Finish(x) \/ Refused(x) \/ PollHits(x) \/ PollFails(x) \/ PollEnds(x)
               \/ RefusedAgain(x) \/ FallbackEnds(x) \/ Recheck(x) \/ FetchEnds(x)
               \/ Renew(x) \/ Write(x)
        PROVE  UNCHANGED <<holder, spent>>
    BY <2>4 DEF lock, Begin, CacheGet, Hit, Join, Answer, Start, Finish, Refused, PollHits,
                PollFails, PollEnds, RefusedAgain, FallbackEnds, Recheck, FetchEnds, Renew,
                Write
  <2>5. CASE Evict \/ (\E p \in Process : Drop(p)) \/ UNCHANGED vars
    BY <2>5 DEF Evict, Drop, vars, lock
  <2> QED BY <1>2, <2>1, <2>2, <2>3, <2>4, <2>5 DEF Next, Step, Resume, Progress
<1> QED BY <1>1, <1>2, PTL DEF Spec, Lock!Spec

-----------------------------------------------------------------------------
(* Who works and who holds the lease.                                      *)

\* A call at work holds the lease or has lost it to time; a call that holds it
\* is at work, or met a Redis error; a call that throws never falls back.
LeaseInv ==
    /\ \A x \in Call : pc[x] \in AtWork => holder = x \/ x \in expired
    /\ LeaseReturned
    /\ \A x \in Throws : pc[x] # "fallback"

\* Steps that neither start nor end a call's work, and leave the lock alone.
LEMMA LeaseKeeps ==
    ASSUME TypeOK, LeaseInv, NEW x \in Call, NEW l,
           Goto(x, l), l \in AtWork <=> pc[x] \in AtWork,
           l = "fallback" => x \notin Throws,
           UNCHANGED <<lock, expired, astray>>
    PROVE  LeaseInv'
<1>1. \A y \in Call : pc'[y] = IF y = x THEN l ELSE pc[y]
  BY DEF TypeOK, Goto
<1> QED BY <1>1, ThrowsAssumption DEF LeaseInv, LeaseReturned, lock

LEMMA LeaseInit == Init => LeaseInv
  BY NoneAssumption, ThrowsAssumption
     DEF Init, LeaseInv, LeaseReturned, Lock!Init, AtWork, Filling

LEMMA LeaseStep == TypeOK /\ LeaseInv /\ [Next]_vars => LeaseInv'
<1> SUFFICES ASSUME TypeOK, LeaseInv, [Next]_vars PROVE LeaseInv'
  OBVIOUS
<1>1. ASSUME NEW x \in Call,
             \/ Begin(x) \/ CacheGet(x) \/ Hit(x) \/ Join(x) \/ Answer(x) \/ Start(x)
             \/ Finish(x) \/ Refused(x) \/ PollHits(x) \/ PollFails(x) \/ PollEnds(x)
             \/ FallbackEnds(x)
      PROVE  LeaseInv'
  <2>1. \E l \in {"get", "got", "done", "failed", "wait", "acquire", "poll",
                  "resolved", "rejected", "acquireAgain"} : Goto(x, l)
    BY <1>1 DEF Begin, CacheGet, Hit, Join, Answer, Start, Finish, Refused,
                PollHits, PollFails, PollEnds, FallbackEnds
  <2>2. pc[x] \in {"new", "get", "got", "wait", "resolved", "rejected", "acquire", "poll",
                   "fallback"}
    BY <1>1 DEF Begin, CacheGet, Hit, Join, Answer, Start, Finish, Refused,
                PollHits, PollFails, PollEnds, FallbackEnds
  <2>3. UNCHANGED <<lock, expired, astray>>
    BY <1>1 DEF Begin, CacheGet, Hit, Join, Answer, Start, Finish, Refused,
                PollHits, PollFails, PollEnds, FallbackEnds
  <2> QED BY <2>1, <2>2, <2>3, LeaseKeeps DEF AtWork, Filling
<1>2. ASSUME NEW x \in Call,
             Recheck(x) \/ FetchEnds(x) \/ Renew(x) \/ Write(x) \/ RefusedAgain(x)
      PROVE  LeaseInv'
  <2>1. CASE RefusedAgain(x)
    BY <2>1, LeaseKeeps DEF RefusedAgain, AtWork, Filling
  <2>2. CASE Recheck(x) \/ FetchEnds(x) \/ Renew(x) \/ Write(x)
    <3>1. \E l \in {"release", "fetch", "releaseFailing", "renew", "write"} : Goto(x, l)
      BY <2>2 DEF Recheck, FetchEnds, Renew, Write
    <3>2. pc[x] \in {"recheck", "fetch", "renew", "write"}
      BY <2>2 DEF Recheck, FetchEnds, Renew, Write
    <3>3. UNCHANGED <<lock, expired, astray>>
      BY <2>2 DEF Recheck, FetchEnds, Renew, Write
    <3> QED BY <3>1, <3>2, <3>3, LeaseKeeps DEF AtWork, Filling
  <2> QED BY <1>2, <2>1, <2>2
<1>3. ASSUME NEW x \in Call, Granted(x) PROVE LeaseInv'
  <2>1. /\ pc' = [pc EXCEPT ![x] = "recheck"]
        /\ holder = None /\ holder' = x
        /\ UNCHANGED <<expired, astray>>
    BY <1>3 DEF Granted, Goto, Lock!Take
  <2> QED BY <2>1, NoneAssumption, ThrowsAssumption
          DEF LeaseInv, LeaseReturned, TypeOK, AtWork, Filling
<1>4. ASSUME NEW x \in Call, AcquireFails(x) PROVE LeaseInv'
  <2>1. /\ pc' = [pc EXCEPT ![x] = "rejected"]
        /\ holder' = holder \/ (holder = None /\ holder' = x)
        /\ expired' = expired /\ astray' = astray \cup {x}
    BY <1>4 DEF AcquireFails, Goto, Lock!Take, lock
  <2> QED BY <2>1, NoneAssumption, ThrowsAssumption
          DEF LeaseInv, LeaseReturned, TypeOK, AtWork, Filling
<1>5. ASSUME NEW x \in Call, Release(x) PROVE LeaseInv'
  <2>1. \A y \in Call : y # x => pc'[y] = pc[y] /\ (y \in expired' <=> y \in expired)
    BY <1>5 DEF Release, Goto, TypeOK
  <2>2. pc'[x] \in {"resolved", "rejected"}
    BY <1>5 DEF Release, Goto, TypeOK
  <2>3. \/ holder = x /\ holder' = None /\ astray' = astray
        \/ holder # x /\ holder' = holder /\ astray' = astray
        \/ holder' = holder /\ astray' = astray \cup {x}
    BY <1>5 DEF Release, Lock!Lose, lock
  <2> QED BY <2>1, <2>2, <2>3, NoneAssumption, ThrowsAssumption
          DEF LeaseInv, LeaseReturned, AtWork, Filling
<1>6. CASE Expire
  BY <1>6, NoneAssumption DEF Expire, Lock!Lose, LeaseInv, LeaseReturned, TypeOK
<1>7. CASE Evict \/ (\E p \in Process : Drop(p)) \/ UNCHANGED vars
  BY <1>7 DEF Evict, Drop, vars, lock, LeaseInv, LeaseReturned
<1> QED BY <1>1, <1>2, <1>3, <1>4, <1>5, <1>6, <1>7 DEF Next, Step, Resume, Progress

\* A call that is over has given its lease back, unless Redis failed to answer
\* its acquisition or its release.
THEOREM LeaseReturnedCorrect == Spec => []LeaseReturned
<1>1. LeaseInv => LeaseReturned
  BY DEF LeaseInv
<1> QED BY <1>1, TypeInit, TypeStep, LeaseInit, LeaseStep, PTL DEF Spec

\* Two calls with onLeaseTimeout = "throw" fetch at the same time only if the
\* lease of one of them expired while it was at work.
THEOREM FetchersExcludeCorrect == Spec => []FetchersExclude
<1>1. LeaseInv => FetchersExclude
  BY ThrowsAssumption DEF LeaseInv, FetchersExclude, AtWork, Filling
<1> QED BY <1>1, TypeInit, TypeStep, LeaseInit, LeaseStep, PTL DEF Spec

-----------------------------------------------------------------------------
(* Writes in the order of the leases.                                      *)

\* Nobody but the holder writes, and while a call holds the lease nobody can
\* have overtaken it.
WriteInv ==
    WritesInTime =>
        \A x \in Call :
            /\ pc[x] = "write" => holder = x
            /\ holder = x /\ pc[x] \in Filling => x \notin overtaken

LEMMA WriteInit == Init => WriteInv
  BY DEF Init, WriteInv, Filling

\* Steps that do not begin a fill or a write, and leave the lock alone.
LEMMA WriteKeeps ==
    ASSUME TypeOK, WriteInv, NEW x \in Call, NEW l,
           Goto(x, l), l \in Filling => pc[x] \in Filling, l # "write",
           UNCHANGED <<lock, overtaken>>
    PROVE  WriteInv'
<1>1. \A y \in Call : pc'[y] = IF y = x THEN l ELSE pc[y]
  BY DEF TypeOK, Goto
<1> QED BY <1>1 DEF WriteInv, lock

LEMMA WriteStep == TypeOK /\ WriteInv /\ [Next]_vars => WriteInv'
<1> SUFFICES ASSUME TypeOK, WriteInv, [Next]_vars PROVE WriteInv'
  OBVIOUS
<1>1. ASSUME NEW x \in Call,
             \/ Begin(x) \/ CacheGet(x) \/ Hit(x) \/ Join(x) \/ Answer(x) \/ Start(x)
             \/ Finish(x) \/ Refused(x) \/ PollHits(x) \/ PollFails(x) \/ PollEnds(x)
             \/ FallbackEnds(x)
             \/ RefusedAgain(x)
      PROVE  WriteInv'
  <2>1. \E l \in {"get", "got", "done", "failed", "wait", "acquire", "poll",
                  "resolved", "rejected", "acquireAgain", "fallback"} : Goto(x, l)
    BY <1>1 DEF Begin, CacheGet, Hit, Join, Answer, Start, Finish, Refused,
                PollHits, PollFails, PollEnds, FallbackEnds, RefusedAgain
  <2>2. UNCHANGED <<lock, overtaken>>
    BY <1>1 DEF Begin, CacheGet, Hit, Join, Answer, Start, Finish, Refused,
                PollHits, PollFails, PollEnds, FallbackEnds, RefusedAgain
  <2> QED BY <2>1, <2>2, WriteKeeps DEF Filling
<1>2. ASSUME NEW x \in Call, Granted(x) \/ AcquireFails(x) PROVE WriteInv'
  <2>1. pc' = [pc EXCEPT ![x] = "recheck"] \/ pc' = [pc EXCEPT ![x] = "rejected"]
    BY <1>2 DEF Granted, AcquireFails, Goto
  <2>2. holder' = holder \/ (holder = None /\ holder' = x)
    BY <1>2 DEF Granted, AcquireFails, Lock!Take, lock
  <2>3. overtaken' = overtaken
    BY <1>2 DEF Granted, AcquireFails
  <2> QED BY <2>1, <2>2, <2>3, NoneAssumption DEF WriteInv, TypeOK, Filling
<1>3. ASSUME NEW x \in Call, Recheck(x) PROVE WriteInv'
  <2>1. \/ pc' = [pc EXCEPT ![x] = "release"] /\ overtaken' = overtaken
        \/ pc' = [pc EXCEPT ![x] = "fetch"] /\ overtaken' = overtaken \ {x}
        \/ pc' = [pc EXCEPT ![x] = "releaseFailing"] /\ overtaken' = overtaken
    BY <1>3 DEF Recheck, Goto
  <2>2. holder' = holder
    BY <1>3 DEF Recheck, lock
  <2> QED BY <2>1, <2>2 DEF WriteInv, TypeOK, Filling
<1>4. ASSUME NEW x \in Call, FetchEnds(x) PROVE WriteInv'
  <2>1. /\ pc[x] \in Filling
        /\ \E l \in {"renew", "release", "releaseFailing"} : Goto(x, l)
        /\ UNCHANGED <<lock, overtaken>>
    BY <1>4 DEF FetchEnds, Filling
  <2> QED BY <2>1, WriteKeeps
<1>5. ASSUME NEW x \in Call, Renew(x) PROVE WriteInv'
  <2>1. \/ pc' = [pc EXCEPT ![x] = "write"] /\ holder = x
        \/ pc' = [pc EXCEPT ![x] = "release"]
    BY <1>5 DEF Renew, Goto
  <2>2. pc[x] \in Filling /\ holder' = holder /\ overtaken' = overtaken
    BY <1>5 DEF Renew, Filling, lock
  <2> QED BY <2>1, <2>2 DEF WriteInv, TypeOK, Filling
<1>6. ASSUME NEW x \in Call, Write(x) PROVE WriteInv'
  <2>1. /\ pc[x] = "write" /\ pc' = [pc EXCEPT ![x] = "release"]
        /\ holder' = holder
        /\ x \in overtaken' => x \in overtaken
        /\ \A y \in Call : y \in overtaken' => y \in overtaken \/ y # x
    BY <1>6 DEF Write, Goto, lock
  <2>2. WritesInTime => holder = x
    BY <2>1 DEF WriteInv
  <2> QED BY <2>1, <2>2 DEF WriteInv, TypeOK, Filling
<1>7. ASSUME NEW x \in Call, Release(x) PROVE WriteInv'
  <2>1. /\ pc' = [pc EXCEPT ![x] = "resolved"] \/ pc' = [pc EXCEPT ![x] = "rejected"]
        /\ overtaken' = overtaken \ {x}
    BY <1>7 DEF Release, Goto
  <2>2. holder' = holder \/ (holder = x /\ holder' = None)
    BY <1>7 DEF Release, Lock!Lose, lock
  <2> QED BY <2>1, <2>2, NoneAssumption DEF WriteInv, TypeOK, Filling
<1>8. CASE Expire
  BY <1>8, NoneAssumption DEF Expire, Lock!Lose, WriteInv, TypeOK
<1>9. CASE Evict \/ (\E p \in Process : Drop(p)) \/ UNCHANGED vars
  BY <1>9 DEF Evict, Drop, vars, lock, WriteInv
<1> QED BY <1>1, <1>2, <1>3, <1>4, <1>5, <1>6, <1>7, <1>8, <1>9
     DEF Next, Step, Resume, Progress

\* If a write ends before the lease renewed for it expires, no call writes a
\* value fetched before another call's write over that write.
THEOREM NoOvertakenWriteCorrect == Spec => []NoOvertakenWrite
<1>1. WriteInv => NoOvertakenWrite
  BY DEF WriteInv, NoOvertakenWrite, Filling
<1> QED BY <1>1, TypeInit, TypeStep, WriteInit, WriteStep, PTL DEF Spec

=============================================================================
