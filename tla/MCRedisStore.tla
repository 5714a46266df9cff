---------------------------- MODULE MCRedisStore ----------------------------
(* Instances of RedisStore small enough for TLC. *)
EXTENDS RedisStore, TLC

\* Two statuses are enough to tell the old one from the new one.
TwoStatuses == <<"waiting", "completed">>
OwnStatus == [v1 |-> "waiting", v2 |-> "completed"]
AnyClient == Permutations(Clients)
=============================================================================
