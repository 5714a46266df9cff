----------------------------- MODULE MCRedisPool -----------------------------
(* Instances of RedisPool small enough for TLC. *)
EXTENDS RedisPool, TLC

AnyCaller == Permutations(Callers) \cup Permutations(Conns)
=============================================================================
