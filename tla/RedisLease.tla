------------------------------ MODULE RedisLease ------------------------------
(***************************************************************************)
(* The Redis lease store of src/src/redis-lease.ts, for one lease key.     *)
(*                                                                         *)
(* acquireLease() sets the key to a fresh token unless it is set; release  *)
(* and renew are Lua scripts that act only if the key still holds the      *)
(* caller's token.  A command takes effect in one step and its reply       *)
(* arrives in a later one, or never.  The client keeps a snapshot of the   *)
(* lease, with the time at which it believes the lease to expire.          *)
(*                                                                         *)
(* Times are kept as the ticks that are left.                              *)
(***************************************************************************)
EXTENDS Integers

CONSTANTS
    Token,          \* the tokens acquireLease() makes: one per call
    NoToken,
    Ttl,            \* ttl arguments, in ticks
    MaxRenewals     \* bound on the renewals of one lease

ASSUME TtlAssumption == Ttl \subseteq Nat \ {0}
ASSUME RenewalAssumption == MaxRenewals \in Nat
ASSUME TokenAssumption == NoToken \notin Token

VARIABLES
    token,      \* the value of the Redis key, or NoToken
    left,       \* ticks until the key expires
    state,      \* per token: where its acquisition stands
    belief,     \* per token: ticks until the snapshot's expiresAt
    reply,      \* per token: the ttl its pending reply will report, 0 if none
    renewals,   \* per token: renewals sent
    \* history:
    asked,      \* tokens whose release was called
    deaf        \* tokens that missed a reply

storeVars == <<token, left, state, belief, reply, renewals, asked, deaf>>

StoreTypeOK ==
    /\ token \in Token \cup {NoToken}
    /\ left \in Nat
    /\ token = NoToken <=> left = 0
    /\ state \in [Token -> {"new", "granted", "held", "refused", "failed"}]
    /\ belief \in [Token -> Nat]
    /\ reply \in [Token -> Ttl \cup {0}]
    /\ renewals \in [Token -> 0..MaxRenewals]
    /\ asked \subseteq Token
    /\ deaf \subseteq Token

StoreInit ==
    /\ token = NoToken
    /\ left = 0
    /\ state = [t \in Token |-> "new"]
    /\ belief = [t \in Token |-> 0]
    /\ reply = [t \in Token |-> 0]
    /\ renewals = [t \in Token |-> 0]
    /\ asked = {}
    /\ deaf = {}

\* Mutant: SET without NX.
AcquireAlways(t, ttl) ==
    /\ state[t] = "new"
    /\ token' = t
    /\ left' = ttl
    /\ state' = [state EXCEPT ![t] = "granted"]
    /\ reply' = [reply EXCEPT ![t] = ttl]
    /\ UNCHANGED <<belief, renewals, asked, deaf>>

\* SET key token NX PX ttl
Acquire(t, ttl) ==
    /\ state[t] = "new"
    /\ \/ /\ token = NoToken
          /\ token' = t
          /\ left' = ttl
          /\ state' = [state EXCEPT ![t] = "granted"]
          /\ reply' = [reply EXCEPT ![t] = ttl]
       \/ /\ token # NoToken
          /\ state' = [state EXCEPT ![t] = "refused"]
          /\ UNCHANGED <<token, left, reply>>
    /\ UNCHANGED <<belief, renewals, asked, deaf>>

\* "OK" arrives: the client gets a lease object, its time counted from now.
AcquireReply(t) ==
    /\ state[t] = "granted"
    /\ state' = [state EXCEPT ![t] = "held"]
    /\ belief' = [belief EXCEPT ![t] = reply[t]]
    /\ reply' = [reply EXCEPT ![t] = 0]
    /\ UNCHANGED <<token, left, renewals, asked, deaf>>

\* Mutant: DEL without comparing the token.
ReleaseAny(t) ==
    /\ state[t] = "held"
    /\ asked' = asked \cup {t}
    /\ token' = NoToken /\ left' = 0
    /\ UNCHANGED <<state, belief, reply, renewals, deaf>>

\* RELEASE_SCRIPT. The object's fields do not change; release() can be
\* called again.
ReleaseLease(t) ==
    /\ state[t] = "held"
    /\ asked' = asked \cup {t}
    /\ \/ token = t /\ token' = NoToken /\ left' = 0
       \/ token # t /\ UNCHANGED <<token, left>>
    /\ UNCHANGED <<state, belief, reply, renewals, deaf>>

\* RENEW_SCRIPT
RenewLease(t, ttl) ==
    /\ state[t] = "held" /\ reply[t] = 0
    /\ renewals[t] < MaxRenewals
    /\ renewals' = [renewals EXCEPT ![t] = @ + 1]
    /\ \/ /\ token = t
          /\ left' = ttl
          /\ reply' = [reply EXCEPT ![t] = ttl]
       \/ token # t /\ UNCHANGED <<left, reply>>
    /\ UNCHANGED <<token, state, belief, asked, deaf>>

\* Mutant: the snapshot stays as it was.
RenewReplyUnnoticed(t) ==
    /\ state[t] = "held" /\ reply[t] # 0
    /\ reply' = [reply EXCEPT ![t] = 0]
    /\ UNCHANGED <<token, left, state, belief, renewals, asked, deaf>>

\* The answer 1 arrives: the snapshot is renewed, its time counted from now.
RenewReply(t) ==
    /\ state[t] = "held" /\ reply[t] # 0
    /\ belief' = [belief EXCEPT ![t] = reply[t]]
    /\ reply' = [reply EXCEPT ![t] = 0]
    /\ UNCHANGED <<token, left, state, renewals, asked, deaf>>

\* A reply is lost: the call fails although the command took effect. After a
\* failed acquireLease() there is no object to release.
ReplyLost(t) ==
    /\ reply[t] # 0
    /\ reply' = [reply EXCEPT ![t] = 0]
    /\ state' = [state EXCEPT ![t] = IF @ = "granted" THEN "failed" ELSE @]
    /\ deaf' = deaf \cup {t}
    /\ UNCHANGED <<token, left, belief, renewals, asked>>

\* Mutant: SET without PX.
TickNoExpiry ==
    /\ belief' = [t \in Token |-> IF belief[t] > 0 THEN belief[t] - 1 ELSE 0]
    /\ UNCHANGED <<token, left, state, reply, renewals, asked, deaf>>

\* Time passes; Redis drops the key when its time has come.
Tick ==
    /\ left' = IF left > 0 THEN left - 1 ELSE 0
    /\ token' = IF left > 1 THEN token ELSE NoToken
    /\ belief' = [t \in Token |-> IF belief[t] > 0 THEN belief[t] - 1 ELSE 0]
    /\ UNCHANGED <<state, reply, renewals, asked, deaf>>

StoreNext ==
    \/ \E t \in Token : \/ \E ttl \in Ttl : Acquire(t, ttl) \/ RenewLease(t, ttl)
                        \/ AcquireReply(t) \/ ReleaseLease(t) \/ RenewReply(t) \/ ReplyLost(t)
    \/ Tick

StoreSpec == StoreInit /\ [][StoreNext]_storeVars

\* Clients may die at any moment; time passes.
TickSpec == StoreSpec /\ WF_storeVars(Tick)

-----------------------------------------------------------------------------
(* Properties.                                                             *)

\* The store implements the lock: the lease goes from one holder to the next
\* through nobody, and no token gets it twice.
Lease == INSTANCE LeaseLock
            WITH holder <- token,
                 spent <- {t \in Token : state[t] \in {"granted", "held", "failed"}}

ImplementsLock == Lease!Spec

\* Nobody loses the lease but by asking for its release or by its time
\* running out: "scripts to release or renew only when the token still
\* matches" (README.md:449).
KeptUntilOver ==
    [][\A t \in Token : token = t /\ token' # t => t \in asked' \/ left = 1]_storeVars

\* A snapshot that has expired is the snapshot of a lease that is over, unless
\* its client missed a reply or has one still to come: the client counts from
\* the reply, later than Redis does.
SnapshotNeverEarly ==
    \A t \in Token :
        state[t] = "held" /\ reply[t] = 0 /\ t \notin deaf /\ token = t => left <= belief[t]

\* A lease whose holder stops renewing it, because it died or because the
\* reply that would have told it was lost, becomes free: nobody holds it for
\* ever, so either it is free again and again, or it changes hands for ever.
EventuallyFree == []<>(token = NoToken) \/ []<><<token' # token>>_storeVars

=============================================================================
