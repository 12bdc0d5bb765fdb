----------------------------- MODULE MCRateLimit -----------------------------
(***************************************************************************)
(* Instances of RateLimit for TLC.                                         *)
(***************************************************************************)
EXTENDS RateLimit, TLC

\* Two keys in memory, of two kinds that share the pruning or both counters;
\* one key in Redis, where keys have nothing in common.
SomeSetups ==
    {<<"memory", [a |-> u[1], b |-> u[2]]>> :
        u \in {<<"fixed", "fixed">>, <<"window", "tokens">>, <<"tokens", "leaks">>}}
    \cup {<<"redis", [a |-> u, b |-> "unused"]>> :
             u \in {"fixed", "window", "tokens", "leaks"}}

\* One counter in Redis.
OneRedisCounter == {<<"redis", [a |-> "fixed", b |-> "unused"]>>}

Times == [memory |-> 3, redis |-> 3]

SymmetricCallers == Permutations(Caller)

=============================================================================
