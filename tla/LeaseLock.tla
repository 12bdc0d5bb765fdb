------------------------------- MODULE LeaseLock -------------------------------
(***************************************************************************)
(* What a lease store promises its clients (CacheLeaseStore in             *)
(* src/src/types.ts): of the tokens ever made, at most one holds the       *)
(* lease; a token can get it once, when nobody holds it; it loses it by    *)
(* releasing it or by the passing of time, and never gets it back.         *)
(***************************************************************************)
CONSTANTS Token, NoToken

VARIABLES
    holder,     \* the token that holds the lease, or NoToken
    spent       \* the tokens that have held it

Init == holder = NoToken /\ spent = {}

Take(t) ==
    /\ holder = NoToken
    /\ t \notin spent
    /\ holder' = t
    /\ spent' = spent \cup {t}

Lose ==
    /\ holder # NoToken
    /\ holder' = NoToken
    /\ UNCHANGED spent

Next == Lose \/ \E t \in Token : Take(t)

Spec == Init /\ [][Next]_<<holder, spent>>

=============================================================================
