---------------------------- MODULE MCRedisQueue ----------------------------
(* Small instances of RedisQueue for TLC. *)
EXTENDS RedisQueue, TLC

Symmetry == Permutations(Items) \cup Permutations(Workers) \cup Permutations(Sweepers)
=============================================================================
