------------------------------- MODULE MCRedis --------------------------------
(***************************************************************************)
(* What sessions keep in Redis: the hashes and indexes of RedisStore, and  *)
(* the claims of RedisClaims, which are keys of their own.  Each behaviour *)
(* runs one of them and leaves the other where it starts.                  *)
(***************************************************************************)
EXTENDS MCRedisStore, RedisClaims

VARIABLE part      \* the component that runs

ASSUME RedisHolds == RedisAssumption

RedisInit == part \in {"claims", "store"} /\ Init /\ ClaimInit

RedisNext ==
    \/ part = "claims" /\ ClaimNext /\ UNCHANGED <<part, vars>>
    \/ part = "store" /\ Next /\ UNCHANGED <<part, claimVars>>

RedisSpec == RedisInit /\ [][RedisNext]_<<part, vars, claimVars>>
----------------------------------------------------------------------------
\* The other properties are those of the two modules, by their own names.

\* Type invariant: the claims in Redis are what a SET NX or an EXPIRE leaves,
\* and the hashes and the requests on their way what the store writes.
TypesOK == TypeOK /\ ClaimTypeOK
=============================================================================
