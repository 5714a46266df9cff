----------------------------- MODULE StateStore -----------------------------
(***************************************************************************)
(* What an IStateStore promises, as InMemoryStateStore implements it: every *)
(* call is one atomic step on a map from session ids to versioned          *)
(* checkpoints.  FileStore and RedisStore are shown to implement it.       *)
(***************************************************************************)
EXTENDS Naturals

CONSTANTS
    Sessions,     \* session ids
    Clients,      \* threads that use the store
    Values,       \* what a checkpoint holds, besides its id and version
    None,         \* no checkpoint
    MaxVersion    \* bound on versions, to keep the state space finite

Rec == [id : Sessions, value : Values, version : 1..MaxVersion]

\* What the constants have to be: a condition of the theorem about this module,
\* and assumed by the modules that instantiate it.
StoreConstants == MaxVersion \in Nat \ {0} /\ None \notin Rec

VARIABLES
    sessions,     \* m_sessions
    held,         \* the session each client loaded last, and what it got
    outcome,      \* how each client's last write ended
    removed       \* history: the sessions that were ever removed

vars == <<sessions, held, outcome, removed>>
----------------------------------------------------------------------------
Loaded == [sess : Sessions, rec : Rec \cup {None}] \cup {None}
Results == {"none", "saved", "ok", "version_conflict", "gone", "error"}

\* The version a write compares with: 0 for a session that is absent.
Version(r) == IF r = None THEN 0 ELSE r.version

\* Every write advances the stored version.
NextVersion(r) == Version(r) + 1

Stored(s, v, r) == [id |-> s, value |-> v, version |-> NextVersion(r)]

Init ==
    /\ sessions = [s \in Sessions |-> None]
    /\ held = [c \in Clients |-> None]
    /\ outcome = [c \in Clients |-> "none"]
    /\ removed = {}

\* load
Load(c, s) ==
    /\ held' = [held EXCEPT ![c] = [sess |-> s, rec |-> sessions[s]]]
    /\ UNCHANGED <<sessions, outcome, removed>>

\* save: unconditional, but the version advances.
Save(c, s, v) ==
    /\ Version(sessions[s]) < MaxVersion
    /\ sessions' = [sessions EXCEPT ![s] = Stored(s, v, @)]
    /\ outcome' = [outcome EXCEPT ![c] = "saved"]
    /\ UNCHANGED <<held, removed>>

\* The comparison of saveIf.
Matches(r, expected) == Version(r) = expected

\* saveIf with the version that came with the last load (0: create).
SaveIf(c, v) ==
    /\ held[c] # None
    /\ LET s == held[c].sess
           r == sessions[s]
       IN  \/ /\ Matches(r, Version(held[c].rec)) /\ Version(r) < MaxVersion
              /\ sessions' = [sessions EXCEPT ![s] = Stored(s, v, r)]
              /\ outcome' = [outcome EXCEPT ![c] = "ok"]
           \/ /\ ~Matches(r, Version(held[c].rec))
              /\ outcome' = [outcome EXCEPT ![c] =
                    IF r = None THEN "gone" ELSE "version_conflict"]
              /\ UNCHANGED sessions
    /\ UNCHANGED <<held, removed>>

\* remove
Remove(c, s) ==
    /\ sessions' = [sessions EXCEPT ![s] = None]
    /\ removed' = removed \cup {s}
    /\ UNCHANGED <<held, outcome>>

\* A write that throws (ErrorCode::Store) stored nothing.
Fail(c) ==
    /\ outcome' = [outcome EXCEPT ![c] = "error"]
    /\ UNCHANGED <<sessions, held, removed>>

\* The process is restarted: what its threads held is gone.
Restart ==
    /\ held' = [c \in Clients |-> None]
    /\ outcome' = [c \in Clients |-> "none"]
    /\ UNCHANGED <<sessions, removed>>

Next ==
    \/ \E c \in Clients : Fail(c)
    \/ \E c \in Clients, s \in Sessions : Load(c, s) \/ Remove(c, s)
    \/ \E c \in Clients, s \in Sessions, v \in Values : Save(c, s, v)
    \/ \E c \in Clients, v \in Values : SaveIf(c, v)
    \/ Restart

Spec == Init /\ [][Next]_vars
----------------------------------------------------------------------------
TypeOK ==
    /\ sessions \in [Sessions -> Rec \cup {None}]
    /\ held \in [Clients -> Loaded]
    /\ outcome \in [Clients -> Results]
    /\ removed \subseteq Sessions

\* A saveIf by c that stores something.
CasWrites(c) ==
    \E v \in Values : SaveIf(c, v) /\ outcome'[c] = "ok"

\* Compare-and-swap has one winner: a saveIf that succeeds replaces the very
\* checkpoint its caller loaded, whatever other clients saved in between.  Not
\* so for a session that was removed: created again, it counts from 1 again.
CasReplacesWhatWasRead ==
    [][\A c \in Clients :
          CasWrites(c) /\ held[c].sess \notin removed =>
              sessions[held[c].sess] = held[c].rec]_vars
=============================================================================
