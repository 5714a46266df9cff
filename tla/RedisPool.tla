----------------------------- MODULE RedisPool -----------------------------
(***************************************************************************)
(* SocketRedisClient: a pool of connections shared by threads that run     *)
(* command() or pipeline().  A call leases a connection, sends its         *)
(* commands, reads one reply for each, and is retried once when the        *)
(* transport fails.  One step is one region under m_mutex or one socket    *)
(* operation.                                                              *)
(*                                                                         *)
(* The server answers the commands it received on a connection in order;   *)
(* it may close a connection at any time, and be slower than the socket    *)
(* timeout.  A reply is named after the call and the command it answers.   *)
(* The destructor runs when nobody uses the client, so m_shutdown is never *)
(* seen by a call and is left out.                                         *)
(***************************************************************************)
EXTENDS Naturals, Sequences, FiniteSets

CONSTANTS
    Callers,       \* threads that use the client
    Conns,         \* identities for sockets
    NoConn,        \* holds no connection
    PoolSize,      \* m_options.pool_size
    Depth,         \* commands of a call: 1 for command(), more for pipeline()
    MaxCalls,      \* bound on the calls of all threads together
    SizeMod        \* size_t arithmetic is modulo this

ASSUME PoolAssumption ==
    /\ IsFiniteSet(Callers) /\ NoConn \notin Conns
    /\ PoolSize \in Nat \ {0}    \* the constructor turns 0 into 1
    /\ Depth \in Nat \ {0} /\ MaxCalls \in Nat
    \* A size_t counts further than the attempts of all the calls together.
    /\ SizeMod \in Nat /\ SizeMod > PoolSize + 2 * MaxCalls

VARIABLES
    idle,          \* m_idle
    live,          \* m_live
    open,          \* the sockets that are open
    dead,          \* those whose other end is closed
    stream,        \* per socket, the replies not read yet
    pc,            \* where each thread is
    lease,         \* the connection it holds
    call,          \* the number of its current or last call
    attempt,       \* withRetry's attempt
    replies,       \* what it has read in this attempt
    result,        \* how its last call ended
    wasted         \* history: a notified thread gave up all the same

vars == <<idle, live, open, dead, stream, pc, lease, call, attempt, replies, result, wasted>>
----------------------------------------------------------------------------
\* The reply to command i of call n of thread t.
Reply(t, n, i) == <<t, n, i>>
Answers(t, n) == [i \in 1..Depth |-> Reply(t, n, i)]

Init ==
    /\ idle = <<>> /\ live = 0
    /\ open = {} /\ dead = {}
    /\ stream = [c \in Conns |-> <<>>]
    /\ pc = [t \in Callers |-> "out"]
    /\ lease = [t \in Callers |-> NoConn]
    /\ call = [t \in Callers |-> 0]
    /\ attempt = [t \in Callers |-> 0]
    /\ replies = [t \in Callers |-> <<>>]
    /\ result = [t \in Callers |-> "none"]
    /\ wasted = FALSE

\* notify_one on m_available.
NotifyOne(p) ==
    IF \E t \in Callers : p[t] = "asleep"
    THEN {[p EXCEPT ![t] = "woken"] : t \in {u \in Callers : p[u] = "asleep"}}
    ELSE {p}

\* The calls made so far.
Begun == {r \in Callers \X (1..MaxCalls) : r[2] <= call[r[1]]}

\* command or pipeline begins.
Call(t) ==
    /\ pc[t] = "out" /\ Cardinality(Begun) < MaxCalls
    /\ pc' = [pc EXCEPT ![t] = "acquire"]
    /\ call' = [call EXCEPT ![t] = @ + 1]
    /\ replies' = [replies EXCEPT ![t] = <<>>]
    /\ UNCHANGED <<idle, live, open, dead, stream, lease, attempt, result, wasted>>

\* The call of t ends: its locals are gone, and if it threw, so are its replies.
Ends(t, how) ==
    /\ result' = [result EXCEPT ![t] = how]
    /\ attempt' = [attempt EXCEPT ![t] = 0]
    /\ replies' = IF how = "ok" THEN replies ELSE [replies EXCEPT ![t] = <<>>]

\* acquire takes the first idle connection.
AcquireIdle(t) ==
    /\ pc[t] = "acquire" /\ idle # <<>>
    /\ lease' = [lease EXCEPT ![t] = Head(idle)]
    /\ idle' = Tail(idle)
    /\ pc' = [pc EXCEPT ![t] = "send"]
    /\ UNCHANGED <<live, open, dead, stream, call, attempt, replies, result, wasted>>

\* Mutant: acquire looks at the counter before it looks at the idle ones.
MutMayReserve == live < PoolSize

\* acquire may open a connection.
MayReserve == idle = <<>> /\ live < PoolSize

\* acquire reserves a slot and leaves m_mutex to connect.
Reserve(t) ==
    /\ pc[t] = "acquire" /\ MayReserve
    /\ live' = live + 1
    /\ pc' = [pc EXCEPT ![t] = "connect"]
    /\ UNCHANGED <<idle, open, dead, stream, lease, call, attempt, replies, result, wasted>>

\* acquire waits on m_available.
Wait(t) ==
    /\ pc[t] = "acquire" /\ idle = <<>> /\ live >= PoolSize
    /\ pc' = [pc EXCEPT ![t] = "asleep"]
    /\ UNCHANGED <<idle, live, open, dead, stream, lease, call, attempt, replies, result, wasted>>

\* A notified thread that gets m_mutex back before its deadline looks again.
Wake(t) ==
    /\ pc[t] = "woken"
    /\ pc' = [pc EXCEPT ![t] = "acquire"]
    /\ UNCHANGED <<idle, live, open, dead, stream, lease, call, attempt, replies, result, wasted>>

\* wait_until returns timeout, notified or not: the call fails, unretried.
TimesOut(t) ==
    /\ pc[t] \in {"asleep", "woken"}
    /\ pc' = [pc EXCEPT ![t] = "out"]
    /\ Ends(t, "failed")
    /\ wasted' = (wasted \/ pc[t] = "woken")
    /\ UNCHANGED <<idle, live, open, dead, stream, lease, call>>

\* The connection is opened and its handshake done.
Connected(t, c) ==
    /\ pc[t] = "connect" /\ c \notin open
    /\ open' = open \cup {c}
    /\ lease' = [lease EXCEPT ![t] = c]
    /\ stream' = [stream EXCEPT ![c] = <<>>]
    /\ pc' = [pc EXCEPT ![t] = "send"]
    /\ UNCHANGED <<idle, live, dead, call, attempt, replies, result, wasted>>

\* The constructor of Connection throws: the slot is given back (size_t
\* arithmetic, without release's check), and the call fails, unretried.
ConnectFails(t) ==
    /\ pc[t] = "connect"
    /\ live' = (live + SizeMod - 1) % SizeMod
    /\ pc' \in NotifyOne([pc EXCEPT ![t] = "out"])
    /\ Ends(t, "failed")
    /\ UNCHANGED <<idle, open, dead, stream, lease, call, wasted>>

\* Mutant: what an earlier attempt read is kept.
MutStartReplies(t) == replies[t]

\* pipeline clears what an earlier attempt read.
StartReplies(t) == <<>>

\* The commands are sent.  A server that closed the connection never answers
\* them, which the next read notices.
Send(t) ==
    /\ pc[t] = "send"
    /\ replies' = [replies EXCEPT ![t] = StartReplies(t)]
    /\ stream' = IF lease[t] \in dead THEN stream
                 ELSE [stream EXCEPT ![lease[t]] = @ \o Answers(t, call[t])]
    /\ pc' = [pc EXCEPT ![t] = "read"]
    /\ UNCHANGED <<idle, live, open, dead, lease, call, attempt, result, wasted>>

\* readReply returns the next reply of the stream.
ReadReply(t) ==
    /\ pc[t] = "read" /\ Len(replies[t]) < Depth
    /\ stream[lease[t]] # <<>>
    /\ replies' = [replies EXCEPT ![t] = Append(@, Head(stream[lease[t]]))]
    /\ stream' = [stream EXCEPT ![lease[t]] = Tail(@)]
    /\ UNCHANGED <<idle, live, open, dead, pc, lease, call, attempt, result, wasted>>

\* Mutant of release: nobody is notified.
MutQuiet(c, broken, kept) ==
    /\ live' = IF live > 0 THEN live - 1 ELSE live
    /\ \/ broken /\ open' = open \ {c} /\ dead' = dead \ {c} /\ UNCHANGED idle
       \/ ~broken /\ idle' = Append(idle, c) /\ UNCHANGED <<open, dead>>
    /\ pc' = kept

\* release: a sound connection goes back to m_idle, a broken one is closed;
\* m_live goes down either way.  kept is where the threads are otherwise.
Released(c, broken, kept) ==
    /\ live' = IF live > 0 THEN live - 1 ELSE live
    /\ \/ broken /\ open' = open \ {c} /\ dead' = dead \ {c} /\ UNCHANGED idle
       \/ ~broken /\ idle' = Append(idle, c) /\ UNCHANGED <<open, dead>>
    /\ pc' \in NotifyOne(kept)

\* The lease of t ends and t goes on at next.
EndLease(t, broken, next) ==
    /\ Released(lease[t], broken, [pc EXCEPT ![t] = next])
    /\ lease' = [lease EXCEPT ![t] = NoConn]

\* Every reply was read: the call returns them.
Done(t) ==
    /\ pc[t] = "read" /\ Len(replies[t]) >= Depth
    /\ EndLease(t, FALSE, "out")
    /\ Ends(t, "ok")
    /\ UNCHANGED <<stream, call, wasted>>

\* A write or a read fails with ErrorCode::Store on a connection the server
\* closed: one more attempt.
TransportFails(t) ==
    /\ pc[t] \in {"send", "read"} /\ lease[t] \in dead
    /\ \/ /\ attempt[t] = 0
          /\ EndLease(t, TRUE, "acquire")
          /\ attempt' = [attempt EXCEPT ![t] = 1]
          /\ UNCHANGED <<replies, result>>
       \/ /\ attempt[t] = 1
          /\ EndLease(t, TRUE, "out")
          /\ Ends(t, "failed")
    /\ UNCHANGED <<stream, call, wasted>>

\* A write or a read takes longer than the socket timeout: no retry.
SocketTimesOut(t) ==
    /\ pc[t] \in {"send", "read"}
    /\ EndLease(t, TRUE, "out")
    /\ Ends(t, "failed")
    /\ UNCHANGED <<stream, call, wasted>>

\* The server closes a connection; what it sent before can still be read.
ServerCloses(c) ==
    /\ c \in open \ dead
    /\ dead' = dead \cup {c}
    /\ UNCHANGED <<idle, live, open, stream, pc, lease, call, attempt, replies, result, wasted>>

Step(t) ==
    \/ AcquireIdle(t) \/ Reserve(t) \/ Wait(t) \/ Wake(t)
    \/ \E c \in Conns : Connected(t, c)
    \/ Send(t) \/ ReadReply(t) \/ Done(t) \/ TransportFails(t)

\* Nobody is left in a call, and nobody may begin one.
Finished == Cardinality(Begun) = MaxCalls /\ \A t \in Callers : pc[t] = "out"

Next ==
    \/ \E t \in Callers : Call(t) \/ Step(t) \/ TimesOut(t) \/ ConnectFails(t) \/ SocketTimesOut(t)
    \/ \E c \in Conns : ServerCloses(c)
    \/ Finished /\ UNCHANGED vars

Spec == Init /\ [][Next]_vars
----------------------------------------------------------------------------
\* A call that succeeds returns the answers to its own commands, in order,
\* although connections are reused by other calls, break between two replies
\* and are retried on: no call ever sees what was meant for another.
OwnAnswers ==
    \A t \in Callers :
        pc[t] = "out" /\ result[t] = "ok" => replies[t] = Answers(t, call[t])

\* The connections that are open or being opened never outnumber the threads
\* that use the client.  This, and not pool_size, is the bound acquire and
\* release enforce: a connection is opened only when no idle one is left.
OpenBoundedByCallers ==
    Cardinality(open) + Cardinality({t \in Callers : pc[t] = "connect"}) <= Cardinality(Callers)

\* A thread sleeps for a connection only while another thread has one, opens
\* one, or has just been woken: release and a failed connect wake a sleeper
\* every time.  Not so once a notified thread reached its deadline (it passes
\* the wakeup on to nobody), or the counter is off (LiveBounded).
NoLostWakeup ==
    live <= PoolSize /\ ~wasted /\ (\E t \in Callers : pc[t] = "asleep") =>
        \E u \in Callers : pc[u] \in {"acquire", "woken", "connect", "send", "read"}

\* What SocketRedisClient.hpp says of m_live: "idle + leased; never exceeds
\* pool_size".
LiveBounded == live <= PoolSize
=============================================================================
