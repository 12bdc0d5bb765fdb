---------------------------- MODULE MCFunctionCache ----------------------------
(* The instance of FunctionCache that is model-checked, together with the   *)
(* comparison of keys in CacheKeys.  Two arrays or objects with up to two   *)
(* parts each can share a part, hold each other and hold themselves.        *)
EXTENDS FunctionCache, CacheKeys, TLC

\* Nothing tells two calls, two entries or two keys apart.
Symmetry == Permutations(Call) \cup Permutations(Entry) \cup Permutations(Key)

\* Whenever a key has a stored value or a running execution that may answer
\* for others, it answers the calls whose arguments are alike, and no others
\* but those that a placeholder makes alike.
KeysFollowArguments ==
    (\E k \in Key : cache[k] # None \/ \E o \in Owner : inflight[o][k] # None)
        => KeysAgree

=============================================================================
