----------------------------- MODULE RedisClaims -----------------------------
(***************************************************************************)
(* tryClaim and releaseClaim of RedisStateStore: a key per session, taken  *)
(* with SET NX PX and given back by a script that compares the token.  The *)
(* key expires; a reply may be lost, and the command is then sent again.   *)
(* One session is modelled, since its claim depends on no other.           *)
(***************************************************************************)
EXTENDS Naturals

CONSTANT
    Claimants      \* executions, each with its own token

VARIABLES
    key,           \* sapo:claim:<id>: the token it holds, if it exists
    at,            \* where each claimant is
    answer,        \* what the server answered
    secondTry,     \* withRetry is in its second attempt
    holds,         \* the claimants that were told they hold the claim
    lapsed         \* history: the claimants whose last claim expired

claimVars == <<key, at, answer, secondTry, holds, lapsed>>
----------------------------------------------------------------------------
ClaimInit ==
    /\ key = {}
    /\ at = [c \in Claimants |-> "idle"]
    /\ answer = [c \in Claimants |-> FALSE]
    /\ secondTry = [c \in Claimants |-> FALSE]
    /\ holds = {}
    /\ lapsed = {}

\* tryClaim and releaseClaim send their command.
TryClaim(c) ==
    /\ at[c] = "idle" /\ c \notin holds
    /\ at' = [at EXCEPT ![c] = "claim"]
    /\ secondTry' = [secondTry EXCEPT ![c] = FALSE]
    /\ UNCHANGED <<key, answer, holds, lapsed>>

\* The caller is done with the session, whether or not its claim expired.
ReleaseClaim(c) ==
    /\ at[c] = "idle" /\ c \in holds
    /\ at' = [at EXCEPT ![c] = "release"]
    /\ secondTry' = [secondTry EXCEPT ![c] = FALSE]
    /\ holds' = holds \ {c}
    /\ UNCHANGED <<key, answer, lapsed>>

\* Mutant: a release that does not compare.
MutDrops(k, c) == k # {}

\* SET ... NX takes the key, and the script deletes it.
Takes(k, c) == k = {}
Drops(k, c) == k = {c}

\* The server runs SET NX PX.
SetNx(c) ==
    /\ at[c] = "claim"
    /\ key' = IF Takes(key, c) THEN {c} ELSE key
    /\ answer' = [answer EXCEPT ![c] = Takes(key, c)]
    /\ lapsed' = IF Takes(key, c) THEN lapsed \ {c} ELSE lapsed
    /\ at' = [at EXCEPT ![c] = "claimed"]
    /\ UNCHANGED <<secondTry, holds>>

\* tryClaim returns.
ClaimReply(c) ==
    /\ at[c] = "claimed"
    /\ at' = [at EXCEPT ![c] = "idle"]
    /\ holds' = IF answer[c] THEN holds \cup {c} ELSE holds
    /\ UNCHANGED <<key, answer, secondTry, lapsed>>

\* Mutant: the token is emptied and the key stays.
MutDeleted == {"empty"}

\* DEL of the key.
Deleted == {}

\* The server runs releaseClaimScript.
EvalRelease(c) ==
    /\ at[c] = "release"
    /\ key' = IF Drops(key, c) THEN Deleted ELSE key
    /\ answer' = [answer EXCEPT ![c] = Drops(key, c)]
    /\ at' = [at EXCEPT ![c] = "released"]
    /\ UNCHANGED <<secondTry, holds, lapsed>>

\* releaseClaim returns.
ReleaseReply(c) ==
    /\ at[c] = "released"
    /\ at' = [at EXCEPT ![c] = "idle"]
    /\ UNCHANGED <<key, answer, secondTry, holds, lapsed>>

\* The connection fails, before or after the server ran the command.
ClaimRetry(c) ==
    /\ at[c] # "idle" /\ ~secondTry[c]
    /\ secondTry' = [secondTry EXCEPT ![c] = TRUE]
    /\ at' = [at EXCEPT ![c] = IF @ \in {"claim", "claimed"} THEN "claim" ELSE "release"]
    /\ UNCHANGED <<key, answer, holds, lapsed>>

\* The call throws: no reply in time, or the second attempt failed too.
ClaimGiveUp(c) ==
    /\ at[c] # "idle"
    /\ at' = [at EXCEPT ![c] = "idle"]
    /\ UNCHANGED <<key, answer, secondTry, holds, lapsed>>

\* The key's time to live passes.
ClaimExpires ==
    /\ key # {}
    /\ key' = {}
    /\ lapsed' = lapsed \cup key
    /\ UNCHANGED <<at, answer, secondTry, holds>>

ClaimStep(c) ==
    \/ TryClaim(c) \/ ReleaseClaim(c) \/ SetNx(c) \/ ClaimReply(c)
    \/ EvalRelease(c) \/ ReleaseReply(c) \/ ClaimRetry(c) \/ ClaimGiveUp(c)

ClaimNext == (\E c \in Claimants : ClaimStep(c)) \/ ClaimExpires

ClaimSpec == ClaimInit /\ [][ClaimNext]_claimVars
----------------------------------------------------------------------------
ClaimTypeOK ==
    /\ key = {} \/ \E c \in Claimants : key = {c}
    /\ at \in [Claimants -> {"idle", "claim", "claimed", "release", "released"}]
    /\ answer \in [Claimants -> BOOLEAN]
    /\ secondTry \in [Claimants -> BOOLEAN]
    /\ holds \subseteq Claimants
    /\ lapsed \subseteq Claimants

\* A caller that was told it holds the claim, and whose claim has not expired,
\* is the one the server has: so there is at most one, replies may be lost and
\* both commands sent twice, and a release that comes after its claim expired
\* and another caller took it leaves that caller's claim alone.
HolderKeepsClaim == \A c \in holds \ lapsed : key = {c}
=============================================================================
