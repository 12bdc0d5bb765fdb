---------------------------- MODULE MCMemoryCache ----------------------------
(***************************************************************************)
(* Instances of MemoryCache for TLC.                                       *)
(***************************************************************************)
EXTENDS MemoryCache

\* The empty list, and those of two distinct keys in either order.
PairBatch == {<<>>} \cup {ks \in Key \X Key : ks[1] # ks[2]}

\* The pattern "*".
StarPattern == {Key}

\* No ttl, by an invalid argument, and the default ttl.
SomeTtl == {-2, NoTtl}

\* The lock manager holds nothing, or one of the keys.
OneKey == {CHOOSE k \in Key : TRUE}
OneKeyLocks == {{}, OneKey}

=============================================================================
