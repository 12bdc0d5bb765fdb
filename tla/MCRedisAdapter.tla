---------------------------- MODULE MCRedisAdapter ----------------------------
(***************************************************************************)
(* Instances of RedisAdapter for TLC.                                      *)
(***************************************************************************)
EXTENDS RedisAdapter

Symmetric == Permutations(Key) \cup Permutations(Tag) \cup Permutations(Client)

=============================================================================
