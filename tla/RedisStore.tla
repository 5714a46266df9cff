----------------------------- MODULE RedisStore -----------------------------
(***************************************************************************)
(* RedisStateStore: a hash per session, written by a script that compares  *)
(* and advances its version, and sorted sets that index the sessions, all  *)
(* of them and by status.  The server runs one command at a time; the      *)
(* commands of a pipeline, and the calls of different clients, interleave. *)
(*                                                                         *)
(* A reply may be lost with its connection: the client then sends the      *)
(* command or the pipeline once more, or gives up (RedisPool models why).  *)
(* The server may also answer a command with an error and not run it.  A   *)
(* single command's error throws; in a pipeline it is one of the replies.  *)
(* Session hashes have a TTL; index members do not.  Reads that nothing    *)
(* later depends on are one step; list and pruneExpired, which act on what *)
(* they read, are not.                                                     *)
(***************************************************************************)
EXTENDS Integers, Sequences, FiniteSets

CONSTANTS
    Sessions, Clients, Values, None, MaxVersion,
    StatusNames,   \* kStatusNames
    StatusOf,      \* the status of the checkpoint a value stands for
    MaxCalls       \* bound on the calls of all clients together

Statuses == {StatusNames[i] : i \in DOMAIN StatusNames}
All == "all"
Keys == Statuses \cup {All}

Rec == [id : Sessions, value : Values, version : 1..MaxVersion]

\* What an instance has to provide.
RedisAssumption ==
    /\ IsFiniteSet(Sessions) /\ Clients # {}
    /\ MaxVersion \in Nat \ {0} /\ MaxCalls \in Nat
    /\ StatusNames \in Seq(STRING) /\ All \notin Statuses
    /\ StatusOf \in [Values -> Statuses]
    /\ None \notin Rec /\ None \notin Keys

VARIABLES
    atomic,        \* m_options.atomic_index, set once
    hash,          \* sapo:session:<id>
    index,         \* sapo:idx:<key>
    pc,            \* where each client is in its call
    req,           \* the write it asked for
    reply,         \* what the script answered
    batch, pos,    \* its pipeline, and how much of it the server has run
    retried,       \* withRetry is in its second attempt
    ids, missing,  \* list, pruneExpired: ids to look at, ids without a hash
    held,          \* the session each client loaded last, and what it got
    applied,       \* history: did the script apply the current write?
    answered,      \* what the server last answered to a write, or "error"
    removed,       \* history: the sessions that were ever removed or expired
    delisted,      \* history: the sessions that an error reply has made a client
                   \* take out of the indexes, and that were not written since
    calls          \* the calls begun so far

vars == <<atomic, hash, index, pc, req, reply, batch, pos, retried, ids, missing,
          held, applied, answered, removed, delisted, calls>>
server == <<hash, index, removed>>
pipeline == <<batch, pos>>
scan == <<ids, missing>>
----------------------------------------------------------------------------
Version(r) == IF r = None THEN 0 ELSE r.version
Status(r) == StatusOf[r.value]

Init ==
    /\ atomic \in BOOLEAN
    /\ hash = [s \in Sessions |-> None]
    /\ index = [k \in Keys |-> {}]
    /\ pc = [c \in Clients |-> "idle"]
    /\ req = [c \in Clients |-> None]
    /\ reply = [c \in Clients |-> None]
    /\ batch = [c \in Clients |-> <<>>]
    /\ pos = [c \in Clients |-> 0]
    /\ retried = [c \in Clients |-> FALSE]
    /\ ids = [c \in Clients |-> {}]
    /\ missing = [c \in Clients |-> {}]
    /\ held = [c \in Clients |-> None]
    /\ applied = [c \in Clients |-> FALSE]
    /\ answered = [c \in Clients |-> "none"]
    /\ removed = {}
    /\ delisted = {}
    /\ calls = 0

\* A call begins.
Begin(c) == pc[c] = "idle" /\ calls < MaxCalls /\ calls' = calls + 1

\* The call of c ends, and its locals with it.
Return(c) ==
    /\ pc' = [pc EXCEPT ![c] = "idle"]
    /\ req' = [req EXCEPT ![c] = None]
    /\ reply' = [reply EXCEPT ![c] = None]
    /\ batch' = [batch EXCEPT ![c] = <<>>]
    /\ pos' = [pos EXCEPT ![c] = 0]
    /\ retried' = [retried EXCEPT ![c] = FALSE]
    /\ ids' = [ids EXCEPT ![c] = {}]
    /\ missing' = [missing EXCEPT ![c] = {}]
    /\ applied' = [applied EXCEPT ![c] = FALSE]

\* load
Load(c, s) ==
    /\ Begin(c)
    /\ held' = [held EXCEPT ![c] = [sess |-> s, rec |-> hash[s]]]
    /\ UNCHANGED <<server, delisted, pc, req, reply, pipeline, retried, scan, applied, answered>>

\* write sends the script; expected is -1 for save.
Write(c, s, v, expected) ==
    /\ Begin(c)
    /\ pc' = [pc EXCEPT ![c] = "write"]
    /\ req' = [req EXCEPT ![c] = [sess |-> s, value |-> v, expected |-> expected]]
    /\ UNCHANGED <<server, delisted, reply, pipeline, retried, scan, held, applied, answered>>

Save(c, s, v) == Write(c, s, v, -1)
SaveIf(c, v) == held[c] # None /\ Write(c, held[c].sess, v, Version(held[c].rec))

\* Mutant: a write leaves the session in the index of its previous status.
MutIndexed(i, s, old, st) ==
    [k \in Keys |-> IF k \in {st, All} THEN i[k] \cup {s} ELSE i[k]]

\* The ZREM and the ZADDs of a write; old is None without a previous status.
Indexed(i, s, old, st) ==
    [k \in Keys |-> CASE k \in {st, All} -> i[k] \cup {s}
                      [] k = old /\ k # st -> i[k] \ {s}
                      [] OTHER -> i[k]]

\* Mutant: the check is made for stored sessions only.
MutRefused(r, expected) == r # None /\ expected >= 0 /\ r.version # expected

\* The script refuses the write.
Refused(r, expected) == expected >= 0 /\ Version(r) # expected

\* next_version of the script.
NextVersion(r) == Version(r) + 1

\* Some client is about to take s out of the indexes.
Doubted(s) ==
    \E c \in Clients :
        s \in missing[c] \/ \E i \in DOMAIN batch[c] : batch[c][i].sess = s

\* The server runs saveScript.
EvalSave(c) ==
    /\ pc[c] = "write"
    /\ LET s == req[c].sess
           r == hash[s]
           old == IF r = None THEN None ELSE Status(r)
           next == [id |-> s, value |-> req[c].value, version |-> NextVersion(r)]
       IN  IF Refused(r, req[c].expected)
           THEN /\ reply' = [reply EXCEPT ![c] =
                      [code |-> IF r = None THEN "gone" ELSE "version_conflict", old |-> None]]
                /\ UNCHANGED <<hash, index, applied, delisted>>
           ELSE /\ Version(r) < MaxVersion
                /\ hash' = [hash EXCEPT ![s] = next]
                /\ index' = IF atomic THEN Indexed(index, s, old, Status(next)) ELSE index
                /\ reply' = [reply EXCEPT ![c] =
                      [code |-> IF req[c].expected < 0 THEN "saved" ELSE "ok", old |-> old]]
                /\ applied' = [applied EXCEPT ![c] = TRUE]
                /\ delisted' = IF Doubted(s) THEN delisted ELSE delisted \ {s}
    /\ answered' = [answered EXCEPT ![c] = reply'[c].code]
    /\ pc' = [pc EXCEPT ![c] = "reply"]
    /\ UNCHANGED <<req, pipeline, retried, scan, held, removed>>

ZAdd(k, s) == [cmd |-> "zadd", key |-> k, sess |-> s]
ZRem(k, s) == [cmd |-> "zrem", key |-> k, sess |-> s]
Del(s) == [cmd |-> "del", key |-> All, sess |-> s]

\* updateIndex
UpdateIndex(s, old, st) ==
    (IF old # None /\ old # st THEN <<ZRem(old, s)>> ELSE <<>>) \o <<ZAdd(st, s), ZAdd(All, s)>>

RemoveFromEveryIndex(s) ==
    <<ZRem(All, s)>> \o [i \in DOMAIN StatusNames |-> ZRem(StatusNames[i], s)]

\* The ZREMs of removeFromEveryIndex for each session of S, in one pipeline;
\* no two are about the same member of an index, so any order will do.
RemoveAll(S) ==
    LET R == {ZRem(k, s) : k \in Keys, s \in S}
    IN  CHOOSE b \in [1..Cardinality(R) -> R] : \A r \in R : \E i \in DOMAIN b : b[i] = r

\* The client sends the pipeline b.
Send(c, b) ==
    /\ batch' = [batch EXCEPT ![c] = b]
    /\ pos' = [pos EXCEPT ![c] = 0]
    /\ retried' = [retried EXCEPT ![c] = FALSE]
    /\ pc' = [pc EXCEPT ![c] = "batch"]
    /\ req' = [req EXCEPT ![c] = None]
    /\ reply' = [reply EXCEPT ![c] = None]
    /\ applied' = [applied EXCEPT ![c] = FALSE]
    /\ ids' = [ids EXCEPT ![c] = {}]
    /\ missing' = [missing EXCEPT ![c] = {}]

\* write gets the script's reply; without atomic_index it then updates the
\* index, after a write that was applied.
WriteReply(c) ==
    /\ pc[c] = "reply"
    /\ IF ~atomic /\ reply[c].code \in {"saved", "ok"}
       THEN Send(c, UpdateIndex(req[c].sess, reply[c].old, StatusOf[req[c].value]))
       ELSE Return(c)
    /\ UNCHANGED <<server, delisted, held, answered>>

\* remove.  It asks for the status first, but the field holds a number, which
\* sessionStatusFromString does not know: every index is cleared.
Remove(c, s) ==
    /\ Begin(c)
    /\ Send(c, <<Del(s)>> \o RemoveFromEveryIndex(s))
    /\ UNCHANGED <<server, delisted, held, answered>>

\* list and pruneExpired: the ids in the index.
Scan(c) ==
    /\ Begin(c) /\ index[All] # {}
    /\ pc' = [pc EXCEPT ![c] = "probe"]
    /\ ids' = [ids EXCEPT ![c] = index[All]]
    /\ missing' = [missing EXCEPT ![c] = {}]
    /\ UNCHANGED <<server, delisted, req, reply, pipeline, retried, held, applied, answered>>

\* HMGET or EXISTS of one of them.  An error in the place of the reply is not
\* an array of two, and is 0 as a number: it too means that the hash is gone.
Probe(c, s) ==
    /\ pc[c] = "probe" /\ s \in ids[c]
    /\ ids' = [ids EXCEPT ![c] = @ \ {s}]
    /\ \E error \in BOOLEAN :
          /\ missing' = [missing EXCEPT ![c] = IF error \/ hash[s] = None THEN @ \cup {s} ELSE @]
          /\ delisted' = IF error THEN delisted \cup {s} ELSE delisted
    /\ UNCHANGED <<server, pc, req, reply, pipeline, retried, held, applied, answered>>

\* The ones without a hash leave every index.
Prune(c) ==
    /\ pc[c] = "probe" /\ ids[c] = {}
    /\ IF missing[c] # {}
       THEN Send(c, RemoveAll(missing[c]))
       ELSE Return(c)
    /\ UNCHANGED <<server, delisted, held, answered>>

\* The server runs the next command of a pipeline.
Exec(c) ==
    /\ pc[c] = "batch" /\ pos[c] < Len(batch[c])
    /\ LET k == batch[c][pos[c] + 1]
       IN  \/ /\ k.cmd = "zadd"
              /\ index' = [index EXCEPT ![k.key] = @ \cup {k.sess}]
              /\ UNCHANGED <<hash, removed>>
           \/ /\ k.cmd = "zrem"
              /\ index' = [index EXCEPT ![k.key] = @ \ {k.sess}]
              /\ UNCHANGED <<hash, removed>>
           \/ /\ k.cmd = "del"
              /\ hash' = [hash EXCEPT ![k.sess] = None]
              /\ removed' = removed \cup {k.sess}
              /\ UNCHANGED index
    /\ pos' = [pos EXCEPT ![c] = @ + 1]
    /\ UNCHANGED <<delisted, pc, req, reply, batch, retried, scan, held, applied, answered>>

\* It answers that command with an error instead, and runs the next ones.  A
\* remove throws for the error of its DEL, when the ZREMs behind it have run.
Refuse(c) ==
    /\ pc[c] = "batch" /\ pos[c] < Len(batch[c])
    /\ LET k == batch[c][pos[c] + 1]
       IN  delisted' = IF k.cmd = "del" THEN delisted \cup {k.sess} ELSE delisted
    /\ pos' = [pos EXCEPT ![c] = @ + 1]
    /\ UNCHANGED <<server, pc, req, reply, batch, retried, scan, held, applied, answered>>

\* The replies of a pipeline arrive.
BatchReplies(c) ==
    /\ pc[c] = "batch" /\ pos[c] = Len(batch[c])
    /\ Return(c)
    /\ UNCHANGED <<server, delisted, held, answered>>

\* The connection fails, whatever the server has run: sent once more.
Retry(c) ==
    /\ pc[c] \in {"write", "reply", "batch"} /\ ~retried[c]
    /\ retried' = [retried EXCEPT ![c] = TRUE]
    /\ pc' = [pc EXCEPT ![c] = IF @ = "batch" THEN "batch" ELSE "write"]
    /\ reply' = [reply EXCEPT ![c] = None]
    /\ pos' = [pos EXCEPT ![c] = 0]
    /\ UNCHANGED <<server, delisted, req, batch, scan, held, applied, answered>>

\* The second attempt fails, or the reply does not come in time, or the
\* process dies: the call ends where it is.
GiveUp(c) ==
    /\ pc[c] # "idle"
    /\ Return(c)
    /\ answered' = [answered EXCEPT ![c] = "error"]
    /\ UNCHANGED <<server, delisted, held>>

\* The TTL of a session hash passes; the index is not told.
Expire(s) ==
    /\ hash[s] # None
    /\ hash' = [hash EXCEPT ![s] = None]
    /\ removed' = removed \cup {s}
    /\ UNCHANGED <<index, delisted, pc, req, reply, pipeline, retried, scan, held, applied, answered>>

\* A client begins a call, or goes on with one.
Start(c) ==
    \/ \E s \in Sessions : Load(c, s) \/ Remove(c, s)
    \/ \E s \in Sessions, v \in Values : Save(c, s, v)
    \/ \E v \in Values : SaveIf(c, v)
    \/ Scan(c)
Continue(c) ==
    \/ \E s \in Sessions : Probe(c, s)
    \/ EvalSave(c) \/ WriteReply(c) \/ Prune(c) \/ Exec(c) \/ Refuse(c) \/ BatchReplies(c)
    \/ Retry(c) \/ GiveUp(c)

\* Every call the bound allows has ended.
Finished == calls = MaxCalls /\ \A c \in Clients : pc[c] = "idle"

Next ==
    \/ (\E c \in Clients : Start(c)) /\ UNCHANGED atomic
    \/ (\E c \in Clients : Continue(c)) /\ UNCHANGED <<atomic, calls>>
    \/ (\E s \in Sessions : Expire(s)) /\ UNCHANGED <<atomic, calls>>
    \/ Finished /\ UNCHANGED vars

Spec == Init /\ [][Next]_vars
----------------------------------------------------------------------------
TypeOK ==
    /\ atomic \in BOOLEAN
    /\ hash \in [Sessions -> Rec \cup {None}]
    /\ index \in [Keys -> SUBSET Sessions]
    /\ pc \in [Clients -> {"idle", "write", "reply", "batch", "probe"}]
    /\ \A c \in Clients : pos[c] \in 0..Len(batch[c])
    /\ held \in [Clients -> [sess : Sessions, rec : Rec \cup {None}] \cup {None}]
    /\ removed \subseteq Sessions /\ delisted \subseteq Sessions
    /\ answered \in [Clients -> {"none", "saved", "ok", "version_conflict", "gone", "error"}]

Store == INSTANCE StateStore WITH sessions <- hash, outcome <- answered

\* RedisStateStore implements IStateStore: a write takes effect at once when
\* the server runs the script, a remove when it runs DEL and an expiry when it
\* happens, whatever is lost, sent again or given up.
ImplementsStore == Store!Spec

\* A stored session is listed, and under its own status only.
IndexedRight(s) ==
    hash[s] # None =>
        /\ s \in index[All]
        /\ \A st \in Statuses : s \in index[st] <=> st = Status(hash[s])

\* With atomic_index the index never disagrees with a stored session, however
\* writes, lists and removes interleave, are sent twice or given up, as long as
\* the session was never removed and never expired.  An error reply in a
\* pipeline does delist a stored session; the next write, once nobody is about
\* to delist it again, puts it back under its status.
IndexAgrees ==
    atomic => \A s \in Sessions \ (removed \cup delisted) : IndexedRight(s)

\* A saveIf that reports a conflict, or a missing session, wrote nothing.
ConflictWroteNothing ==
    \A c \in Clients :
        pc[c] = "reply" /\ reply[c].code \in {"version_conflict", "gone"} => ~applied[c]
=============================================================================
