------------------------------- MODULE MCLeases -------------------------------
(***************************************************************************)
(* The lease store and readThroughWithLease(), which uses leases, in one   *)
(* run of TLC.  They meet in LeaseLock only: the store implements it, the  *)
(* calls are built on it.  So a behaviour is one of the store, or one of   *)
(* the calls, as part says, and the other's variables stay as they were.   *)
(***************************************************************************)
EXTENDS RedisLease, LeaseReadThrough

CONSTANTS p1, p2, c1, c2, c3

VARIABLE part

\* Two calls in one process and one in another.
TwoAndOne == [x \in {c1, c2, c3} |-> IF x = c3 THEN p1 ELSE p2]

bothVars == <<storeVars, vars, part>>

EitherInit == StoreInit /\ Init /\ part \in {"store", "calls"}

InStore == part = "store" /\ UNCHANGED <<vars, part>>
InCalls == part = "calls" /\ UNCHANGED <<storeVars, part>>

EitherNext ==
    \/ InStore /\ StoreNext
    \/ InCalls /\ Next

\* The fairness of TickSpec and that of FairSpec.
EitherSpec ==
    /\ EitherInit /\ [][EitherNext]_bothVars
    /\ WF_bothVars(InStore /\ Tick)
    /\ \A x \in Call \ Hanging : WF_bothVars(InCalls /\ (Progress(x) \/ Answer(x)))

=============================================================================
