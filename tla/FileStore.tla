------------------------------ MODULE FileStore ------------------------------
(***************************************************************************)
(* FileStateStore: one file per session, written to a temporary file that  *)
(* is then renamed.  Every method holds m_mutex, so within the process at  *)
(* most one write is between its read and its rename; the process may die  *)
(* at any of these points, opening or renaming may fail, and a full disk   *)
(* truncates what is written.                                              *)
(***************************************************************************)
EXTENDS Naturals

CONSTANTS
    Sessions, Clients, Values, None, MaxVersion,
    Paths,        \* file names
    PathFor,      \* pathFor: session id to file name
    Partial,      \* the content of a file that does not parse
    DiskMayFill   \* out << ... may fall short; the code does not look

\* pathFor maps characters outside [A-Za-z0-9_-] to '_': not always injective.
Injective == \A s, r \in Sessions : PathFor[s] = PathFor[r] => s = r

ASSUME FileAssumption ==
    /\ MaxVersion \in Nat \ {0}
    /\ PathFor \in [Sessions -> Paths]
    /\ DiskMayFill \in BOOLEAN

VARIABLES
    file,         \* <path>.json
    tmp,          \* <path>.json.tmp
    write,        \* the write in progress under m_mutex
    held,         \* the session each client loaded last, and what it got
    outcome,      \* how each client's last write ended
    removed       \* history: the sessions that were ever removed

vars == <<file, tmp, write, held, outcome, removed>>
----------------------------------------------------------------------------
Rec == [id : Sessions, value : Values, version : 1..MaxVersion]

ASSUME ContentAssumption == None \notin Rec /\ Partial \notin Rec \cup {None}

Content == Rec \cup {None, Partial}
Loaded == [sess : Sessions, rec : Rec \cup {None}] \cup {None}
Results == {"none", "saved", "ok", "version_conflict", "gone", "error"}

\* readCheckpointAt: a file that does not parse counts as absent.
Read(p) == IF file[p] = Partial THEN None ELSE file[p]

Version(r) == IF r = None THEN 0 ELSE r.version

\* A write that passed its check: who, what, and whether the temporary file
\* is still to be written.  cas tells a saveIf from a save.
Write == [client : Clients, cas : BOOLEAN, rec : Rec, at : {"temp", "rename"}]

Init ==
    /\ file = [p \in Paths |-> None]
    /\ tmp = [p \in Paths |-> None]
    /\ write = None
    /\ held = [c \in Clients |-> None]
    /\ outcome = [c \in Clients |-> "none"]
    /\ removed = {}

\* m_mutex is free.
Unlocked == write = None

Load(c, s) ==
    /\ Unlocked
    /\ held' = [held EXCEPT ![c] = [sess |-> s, rec |-> Read(PathFor[s])]]
    /\ UNCHANGED <<file, tmp, write, outcome, removed>>

\* Mutant: an overwrite keeps the version.
MutNextRec(s, v, r) ==
    [id |-> s, value |-> v, version |-> IF r = None THEN 1 ELSE r.version]

\* The checkpoint to be stored over r.
NextRec(s, v, r) == [id |-> s, value |-> v, version |-> Version(r) + 1]

\* save up to the write of the temporary file.
Save(c, s, v) ==
    /\ Unlocked
    /\ Version(Read(PathFor[s])) < MaxVersion
    /\ write' = [client |-> c, cas |-> FALSE, rec |-> NextRec(s, v, Read(PathFor[s])),
                 at |-> "temp"]
    /\ UNCHANGED <<file, tmp, held, outcome, removed>>

\* Mutant: any version will do.
MutVersionMatches(r, expected) == r # None \/ expected = 0

\* The comparison of saveIf.
VersionMatches(r, expected) == Version(r) = expected

\* saveIf: a mismatch returns at once.
SaveIf(c, v) ==
    /\ Unlocked /\ held[c] # None
    /\ LET s == held[c].sess
           r == Read(PathFor[s])
       IN  \/ /\ VersionMatches(r, Version(held[c].rec)) /\ Version(r) < MaxVersion
              /\ write' = [client |-> c, cas |-> TRUE, rec |-> NextRec(s, v, r),
                           at |-> "temp"]
              /\ UNCHANGED outcome
           \/ /\ ~VersionMatches(r, Version(held[c].rec))
              /\ outcome' = [outcome EXCEPT ![c] =
                    IF r = None THEN "gone" ELSE "version_conflict"]
              /\ UNCHANGED write
    /\ UNCHANGED <<file, tmp, held, removed>>

\* writeCheckpointAtomically: the temporary file, whole or cut short.
WriteTemp ==
    /\ write # None /\ write.at = "temp"
    /\ \E content \in {write.rec} \cup (IF DiskMayFill THEN {Partial} ELSE {}) :
          tmp' = [tmp EXCEPT ![PathFor[write.rec.id]] = content]
    /\ write' = [client |-> write.client, cas |-> write.cas, rec |-> write.rec,
                 at |-> "rename"]
    /\ UNCHANGED <<file, held, outcome, removed>>

\* Its rename, which replaces the file in one step.
Rename ==
    /\ write # None /\ write.at = "rename"
    /\ file' = [file EXCEPT ![PathFor[write.rec.id]] = tmp[PathFor[write.rec.id]]]
    /\ tmp' = [tmp EXCEPT ![PathFor[write.rec.id]] = None]
    /\ outcome' = [outcome EXCEPT ![write.client] = IF write.cas THEN "ok" ELSE "saved"]
    /\ write' = None
    /\ UNCHANGED <<held, removed>>

\* The temporary file cannot be opened, or the rename fails and the temporary
\* file is removed: SapoError, nothing stored.
WriteFails ==
    /\ write # None
    /\ tmp' = IF write.at = "rename" THEN [tmp EXCEPT ![PathFor[write.rec.id]] = None]
              ELSE tmp
    /\ outcome' = [outcome EXCEPT ![write.client] = "error"]
    /\ write' = None
    /\ UNCHANGED <<file, held, removed>>

RemoveFile(c, s) ==
    /\ Unlocked
    /\ file' = [file EXCEPT ![PathFor[s]] = None]
    /\ removed' = removed \cup {s}
    /\ UNCHANGED <<tmp, write, held, outcome>>

\* Mutant: the checkpoint is written in place, without a temporary file.
MutHalfWritten(p) == file' = [file EXCEPT ![p] = Partial] /\ UNCHANGED tmp

\* What a write that is interrupted leaves behind.
HalfWritten(p) == tmp' = [tmp EXCEPT ![p] = Partial] /\ UNCHANGED file

\* The process dies: files stay, a temporary file may be left half written.
Crash ==
    /\ held' = [c \in Clients |-> None]
    /\ outcome' = [c \in Clients |-> "none"]
    /\ write' = None
    /\ \/ UNCHANGED <<file, tmp>>
       \/ /\ write # None /\ write.at = "temp"
          /\ HalfWritten(PathFor[write.rec.id])
    /\ UNCHANGED removed

Next ==
    \/ \E c \in Clients, s \in Sessions : Load(c, s) \/ RemoveFile(c, s)
    \/ \E c \in Clients, s \in Sessions, v \in Values : Save(c, s, v)
    \/ \E c \in Clients, v \in Values : SaveIf(c, v)
    \/ WriteTemp \/ Rename \/ WriteFails \/ Crash

Spec == Init /\ [][Next]_vars
----------------------------------------------------------------------------
\* The map the files stand for.
Abstract == [s \in Sessions |-> Read(PathFor[s])]

Store == INSTANCE StateStore WITH sessions <- Abstract

TypeOK ==
    /\ file \in [Paths -> Content]
    /\ tmp \in [Paths -> Content]
    /\ write \in Write \cup {None}
    /\ held \in [Clients -> Loaded]
    /\ outcome \in [Clients -> Results]
    /\ removed \subseteq Sessions

\* FileStateStore implements IStateStore: every call takes effect at once, at
\* its rename or at its check, through failing writes and crashes.
ImplementsStore == Store!Spec

\* A reader never observes a partial file, whenever the process died.
NoPartialFile == \A p \in Paths : file[p] # Partial

\* saveIf has one winner: the checkpoint its rename replaces is the one its
\* caller loaded, whatever was saved in between, through crashes and failed
\* writes, for a session that was never removed.
CasReplacesWhatWasRead ==
    [][\A c \in Clients :
          Rename /\ write.cas /\ write.client = c /\ held[c].sess \notin removed =>
              Read(PathFor[held[c].sess]) = held[c].rec]_vars
=============================================================================
