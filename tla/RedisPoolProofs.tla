--------------------------- MODULE RedisPoolProofs ---------------------------
(***************************************************************************)
(* Every call that succeeds returns the answers to its own commands, for   *)
(* any number of threads, connections, commands per call and failures.     *)
(* The invariant behind it: a connection is idle or has one owner; an idle *)
(* one, and one about to be used, has nothing left to read; and what its   *)
(* owner has read, followed by what is still to come, is a prefix of the   *)
(* answers to the owner's commands.                                        *)
(***************************************************************************)
EXTENDS RedisPool, FiniteSetTheorems, TLAPS

PCs == {"out", "acquire", "asleep", "woken", "connect", "send", "read"}
AnyReply == Callers \X Nat \X Nat

Typed ==
    /\ idle \in Seq(Conns)
    /\ open \subseteq Conns
    /\ stream \in [Conns -> Seq(AnyReply)]
    /\ pc \in [Callers -> PCs]
    /\ lease \in [Callers -> Conns \cup {NoConn}]
    /\ call \in [Callers -> Nat]
    /\ replies \in [Callers -> Seq(AnyReply)]
    /\ result \in [Callers -> {"none", "ok", "failed"}]

\* A thread owns a connection exactly while it uses it, and nobody else does.
OneOwner ==
    /\ \A t \in Callers : lease[t] # NoConn <=> pc[t] \in {"send", "read"}
    /\ \A t \in Callers : lease[t] # NoConn => lease[t] \in open
    /\ \A t, u \in Callers : lease[t] = lease[u] /\ lease[t] # NoConn => t = u

\* An idle connection is open, is in m_idle once, and is nobody's.
IdleFree ==
    /\ \A i \in 1..Len(idle) : idle[i] \in open
    /\ \A i, j \in 1..Len(idle) : idle[i] = idle[j] => i = j
    /\ \A i \in 1..Len(idle), t \in Callers : idle[i] # lease[t]

\* There is nothing to read from a connection before its commands are sent.
NothingLeft ==
    /\ \A i \in 1..Len(idle) : stream[idle[i]] = <<>>
    /\ \A t \in Callers : pc[t] = "send" => stream[lease[t]] = <<>>

\* What t has read, and what it will read, are the next answers to its call.
Reading(t) ==
    LET got == replies[t]
        rest == stream[lease[t]]
    IN  /\ Len(got) + Len(rest) <= Depth
        /\ \A i \in 1..Len(got) : got[i] = Reply(t, call[t], i)
        /\ \A i \in 1..Len(rest) : rest[i] = Reply(t, call[t], Len(got) + i)

InStep == \A t \in Callers : pc[t] = "read" => Reading(t)

PoolInv == Typed /\ OneOwner /\ IdleFree /\ NothingLeft /\ InStep /\ OwnAnswers
----------------------------------------------------------------------------
LEMMA NoConnApart == NoConn \notin Conns
BY PoolAssumption

LEMMA TailFacts ==
    ASSUME NEW S, NEW s \in Seq(S), s # <<>>
    PROVE  /\ Len(s) \in Nat /\ Len(s) >= 1
           /\ Head(s) = s[1] /\ Head(s) \in S
           /\ Tail(s) \in Seq(S) /\ Len(Tail(s)) = Len(s) - 1
           /\ \A i \in 1..Len(Tail(s)) : Tail(s)[i] = s[i + 1] /\ i + 1 \in 1..Len(s)
OBVIOUS

LEMMA AppendFacts ==
    ASSUME NEW S, NEW s \in Seq(S), NEW e \in S
    PROVE  /\ Append(s, e) \in Seq(S) /\ Len(Append(s, e)) = Len(s) + 1
           /\ \A i \in 1..(Len(s) + 1) :
                 Append(s, e)[i] = IF i = Len(s) + 1 THEN e ELSE s[i]
OBVIOUS

\* The arithmetic of a step from the replies to come to the replies read.
LEMMA Counting ==
    /\ Depth \in Nat
    /\ \A a, i \in Nat : a + (i + 1) = (a + 1) + i
    /\ \A a, r \in Nat : r >= 1 /\ a + r <= Depth => (a + 1) + (r - 1) <= Depth
    /\ \A a, r \in Nat : a + r <= Depth /\ a >= Depth => r = 0 /\ a = Depth
<1>1. Depth \in Nat
  BY PoolAssumption
<1> QED
  BY <1>1

\* The answers of a call, as a sequence.
LEMMA AnswersFacts ==
    ASSUME NEW t \in Callers, NEW n \in Nat
    PROVE  /\ Answers(t, n) \in Seq(AnyReply) /\ Len(Answers(t, n)) = Depth
           /\ \A i \in 1..Depth : Answers(t, n)[i] = Reply(t, n, i)
<1>1. \A i \in 1..Depth : Reply(t, n, i) \in AnyReply
  BY PoolAssumption DEF Reply, AnyReply
<1> QED
  BY <1>1, PoolAssumption DEF Answers

\* notify_one moves at most a sleeper, and only to "woken".
LEMMA Notified ==
    ASSUME NEW p \in [Callers -> PCs], NEW q \in NotifyOne(p)
    PROVE  /\ q \in [Callers -> PCs]
           /\ \A t \in Callers : q[t] = p[t] \/ (p[t] = "asleep" /\ q[t] = "woken")
<1>1. CASE q = p
  BY <1>1
<1>2. CASE q # p
  <2>1. PICK t \in {u \in Callers : p[u] = "asleep"} : q = [p EXCEPT ![t] = "woken"]
    BY <1>2 DEF NotifyOne
  <2> QED
    BY <2>1 DEF PCs
<1> QED
  BY <1>1, <1>2

LEMMA InitPool == Init => PoolInv
BY DEF Init, PoolInv, Typed, OneOwner, IdleFree, NothingLeft, InStep, OwnAnswers, PCs

\* The end of a call changes nothing for the other threads.
LEMMA EndsFacts ==
    ASSUME Typed, NEW t \in Callers, NEW how \in {"ok", "failed"}, Ends(t, how)
    PROVE  /\ result' \in [Callers -> {"none", "ok", "failed"}]
           /\ replies' \in [Callers -> Seq(AnyReply)]
           /\ result'[t] = how /\ (how = "ok" => replies'[t] = replies[t])
           /\ \A u \in Callers \ {t} : result'[u] = result[u] /\ replies'[u] = replies[u]
<1> DEFINE S == Seq(AnyReply)
<1>0. <<>> \in S
  OBVIOUS
<1>1. replies \in [Callers -> S] /\ result \in [Callers -> {"none", "ok", "failed"}]
  BY DEF Typed
<1> HIDE DEF S
<1>2. result' = [result EXCEPT ![t] = how]
  BY DEF Ends
<1>3. replies' = replies \/ (how # "ok" /\ replies' = [replies EXCEPT ![t] = <<>>])
  BY DEF Ends
<1>4. replies' \in [Callers -> S] /\ (how = "ok" => replies'[t] = replies[t])
      /\ \A u \in Callers \ {t} : replies'[u] = replies[u]
  BY <1>0, <1>1, <1>3
<1>5. result' \in [Callers -> {"none", "ok", "failed"}] /\ result'[t] = how
      /\ \A u \in Callers \ {t} : result'[u] = result[u]
  BY <1>1, <1>2
<1> QED
  BY <1>4, <1>5 DEF S

\* A step of t that moves nothing but t, between states without a lease, or
\* ends the call without success.
LEMMA MovePC ==
    ASSUME PoolInv, NEW t \in Callers, NEW next \in {"out", "acquire", "asleep", "connect"},
           lease[t] = NoConn,
           pc' \in NotifyOne([pc EXCEPT ![t] = next]) \cup {[pc EXCEPT ![t] = next]},
           UNCHANGED <<idle, open, stream, lease, call>>,
           \/ next # "out" /\ UNCHANGED <<replies, result>>
           \/ Ends(t, "failed")
    PROVE  PoolInv'
<1>0. [pc EXCEPT ![t] = next] \in [Callers -> PCs]
  BY DEF PoolInv, Typed, PCs
<1>1. /\ pc' \in [Callers -> PCs]
      /\ \A u \in Callers : pc'[u] = [pc EXCEPT ![t] = next][u]
                            \/ ([pc EXCEPT ![t] = next][u] = "asleep" /\ pc'[u] = "woken")
  BY <1>0, Notified
<1>2. \A u \in Callers \ {t} : pc'[u] = pc[u] \/ (pc[u] = "asleep" /\ pc'[u] = "woken")
  BY <1>1 DEF PoolInv, Typed
<1>3. pc'[t] \in {"out", "acquire", "asleep", "connect", "woken"} /\ (pc'[t] = "out" => next = "out")
  BY <1>1 DEF PoolInv, Typed
<1>a. /\ result' \in [Callers -> {"none", "ok", "failed"}]
      /\ replies' \in [Callers -> Seq(AnyReply)]
      /\ next = "out" => result'[t] # "ok"
      /\ \A u \in Callers \ {t} : result'[u] = result[u] /\ replies'[u] = replies[u]
  <2>1. CASE next # "out" /\ UNCHANGED <<replies, result>>
    BY <2>1 DEF PoolInv, Typed
  <2>2. CASE Ends(t, "failed")
    BY <2>2, EndsFacts DEF PoolInv
  <2> QED  BY <2>1, <2>2
<1>4. Typed'
  BY <1>1, <1>a DEF PoolInv, Typed
<1>5. OneOwner'
  BY <1>2, <1>3 DEF PoolInv, OneOwner
<1>6. IdleFree' /\ NothingLeft'
  BY <1>2, <1>3 DEF PoolInv, IdleFree, NothingLeft
<1>7. InStep'
  <2> SUFFICES ASSUME NEW u \in Callers, pc'[u] = "read"
               PROVE  Reading(u)'
    BY DEF InStep
  <2>1. u # t /\ pc[u] = "read"
    BY <1>2, <1>3
  <2>2. replies'[u] = replies[u]
    BY <1>a, <2>1
  <2> QED
    BY <2>1, <2>2 DEF PoolInv, InStep, Reading
<1>8. OwnAnswers'
  <2> SUFFICES ASSUME NEW u \in Callers, pc'[u] = "out", result'[u] = "ok"
               PROVE  replies'[u] = Answers(u, call'[u])
    BY DEF OwnAnswers, Answers, Reply
  <2>1. u # t /\ pc[u] = "out"
    BY <1>2, <1>3, <1>a
  <2>2. result[u] = "ok" /\ replies'[u] = replies[u]
    BY <1>a, <2>1
  <2> QED
    BY <2>1, <2>2 DEF PoolInv, OwnAnswers
<1> QED
  BY <1>4, <1>5, <1>6, <1>7, <1>8 DEF PoolInv

\* The lease of t ends: with a sound connection that has nothing left to
\* read, or with a broken one.
LEMMA EndLeaseInv ==
    ASSUME PoolInv, NEW t \in Callers, NEW broken \in BOOLEAN,
           NEW next \in {"out", "acquire"},
           pc[t] \in {"send", "read"},
           ~broken => stream[lease[t]] = <<>>,
           EndLease(t, broken, next),
           UNCHANGED <<stream, call>>,
           \/ next = "acquire" /\ UNCHANGED <<replies, result>>
           \/ Ends(t, "failed")
           \/ Ends(t, "ok") /\ replies[t] = Answers(t, call[t])
    PROVE  PoolInv'
<1>0. lease[t] \in Conns /\ lease[t] # NoConn /\ lease[t] \in open
  BY DEF PoolInv, Typed, OneOwner
<1>1. [pc EXCEPT ![t] = next] \in [Callers -> PCs]
  BY DEF PoolInv, Typed, PCs
<1>2. pc' \in NotifyOne([pc EXCEPT ![t] = next])
  BY DEF EndLease, Released
<1>3. /\ pc' \in [Callers -> PCs]
      /\ pc'[t] = next
      /\ \A u \in Callers \ {t} : pc'[u] = pc[u] \/ (pc[u] = "asleep" /\ pc'[u] = "woken")
  <2>1. /\ pc' \in [Callers -> PCs]
        /\ \A u \in Callers : pc'[u] = [pc EXCEPT ![t] = next][u]
                              \/ ([pc EXCEPT ![t] = next][u] = "asleep" /\ pc'[u] = "woken")
    BY <1>1, <1>2, Notified
  <2> QED
    BY <2>1 DEF PoolInv, Typed
<1>4. /\ lease' = [lease EXCEPT ![t] = NoConn]
      /\ lease'[t] = NoConn
      /\ \A u \in Callers \ {t} : lease'[u] = lease[u] /\ lease[u] # lease[t]
  BY <1>0 DEF EndLease, PoolInv, Typed, OneOwner
<1>5. \/ broken /\ open' = open \ {lease[t]} /\ idle' = idle
      \/ ~broken /\ open' = open /\ idle' = Append(idle, lease[t])
  BY DEF EndLease, Released
<1>a. /\ result' \in [Callers -> {"none", "ok", "failed"}]
      /\ replies' \in [Callers -> Seq(AnyReply)]
      /\ next = "out" /\ result'[t] = "ok" => replies'[t] = Answers(t, call[t])
      /\ \A u \in Callers \ {t} : result'[u] = result[u] /\ replies'[u] = replies[u]
  <2>1. CASE next = "acquire" /\ UNCHANGED <<replies, result>>
    BY <2>1 DEF PoolInv, Typed
  <2>2. CASE Ends(t, "failed")
    BY <2>2, EndsFacts DEF PoolInv
  <2>3. CASE Ends(t, "ok") /\ replies[t] = Answers(t, call[t])
    BY <2>3, EndsFacts DEF PoolInv
  <2> QED  BY <2>1, <2>2, <2>3
<1>6. Typed'
  <2>0. idle \in Seq(Conns) /\ open \subseteq Conns
    BY DEF PoolInv, Typed
  <2>a. Append(idle, lease[t]) \in Seq(Conns)
    BY <1>0, <2>0, AppendFacts
  <2>1. idle' \in Seq(Conns) /\ open' \subseteq Conns
    BY <1>5, <2>0, <2>a
  <2>2. lease' \in [Callers -> Conns \cup {NoConn}]
    BY <1>4 DEF PoolInv, Typed
  <2> QED
    BY <1>3, <1>a, <2>1, <2>2 DEF PoolInv, Typed
<1>7. OneOwner'
  BY <1>3, <1>4, <1>5 DEF PoolInv, OneOwner
<1>8. IdleFree' /\ (\A i \in 1..Len(idle') : stream'[idle'[i]] = <<>>)
  <2>1. CASE broken
    <3>1. idle' = idle /\ open' = open \ {lease[t]}
      BY <1>5, <2>1
    <3>2. \A i \in 1..Len(idle) : idle[i] \in open' /\ idle[i] # NoConn
      BY <3>1, PoolAssumption DEF PoolInv, Typed, IdleFree
    <3>3. \A i \in 1..Len(idle), u \in Callers : idle[i] # lease'[u]
      BY <1>4, <3>2 DEF PoolInv, IdleFree
    <3> QED
      BY <3>1, <3>2, <3>3 DEF PoolInv, IdleFree, NothingLeft
  <2>2. CASE ~broken
    <3>1. /\ Len(idle') = Len(idle) + 1 /\ Len(idle) \in Nat
          /\ \A i \in 1..(Len(idle) + 1) :
                idle'[i] = IF i = Len(idle) + 1 THEN lease[t] ELSE idle[i]
      <4>1. idle \in Seq(Conns)
        BY DEF PoolInv, Typed
      <4>2. idle' = Append(idle, lease[t])
        BY <1>5, <2>2
      <4> QED
        BY <1>0, <4>1, <4>2, AppendFacts
    <3>2. \A i \in 1..Len(idle') : i = Len(idle) + 1 \/ i \in 1..Len(idle)
      BY <3>1
    <3>3. \A i \in 1..Len(idle), u \in Callers : idle[i] # lease[u] /\ idle[i] \in Conns
      BY DEF PoolInv, Typed, IdleFree
    <3>4. \A i \in 1..Len(idle') : idle'[i] \in open' /\ stream'[idle'[i]] = <<>>
      BY <1>0, <1>5, <2>2, <3>1, <3>2 DEF PoolInv, IdleFree, NothingLeft
    <3>5. \A i, j \in 1..Len(idle') : idle'[i] = idle'[j] => i = j
      BY <3>1, <3>2, <3>3 DEF PoolInv, IdleFree
    <3>6. \A i \in 1..Len(idle'), u \in Callers : idle'[i] # lease'[u]
      BY <1>0, <1>4, <3>1, <3>2, <3>3, PoolAssumption
    <3> QED
      BY <3>4, <3>5, <3>6 DEF IdleFree
  <2> QED
    BY <2>1, <2>2
<1>9. NothingLeft'
  BY <1>3, <1>4, <1>8 DEF PoolInv, NothingLeft
<1>10. InStep'
  <2> SUFFICES ASSUME NEW u \in Callers, pc'[u] = "read"
               PROVE  Reading(u)'
    BY DEF InStep
  <2>1. u # t /\ pc[u] = "read" /\ lease'[u] = lease[u] /\ replies'[u] = replies[u]
    BY <1>3, <1>4, <1>a
  <2> QED
    BY <2>1 DEF PoolInv, InStep, Reading
<1>11. OwnAnswers'
  <2> SUFFICES ASSUME NEW u \in Callers, pc'[u] = "out", result'[u] = "ok"
               PROVE  replies'[u] = Answers(u, call'[u])
    BY DEF OwnAnswers, Answers, Reply
  <2>1. CASE u = t
    BY <1>3, <1>a, <2>1
  <2>2. CASE u # t
    <3>1. pc[u] = "out" /\ result[u] = "ok" /\ replies'[u] = replies[u]
      BY <1>3, <1>a, <2>2
    <3> QED
      BY <3>1 DEF PoolInv, OwnAnswers
  <2> QED
    BY <2>1, <2>2
<1> QED
  BY <1>6, <1>7, <1>8, <1>9, <1>10, <1>11 DEF PoolInv

LEMMA NextPool ==
    ASSUME PoolInv, [Next]_vars
    PROVE  PoolInv'
<1> USE DEF PoolInv
<1>1. CASE UNCHANGED vars
  BY <1>1 DEF vars, Typed, OneOwner, IdleFree, NothingLeft, InStep, Reading, OwnAnswers
<1>2. ASSUME NEW t \in Callers, Call(t)
      PROVE  PoolInv'
  <2>1. pc[t] = "out" /\ lease[t] = NoConn
    BY <1>2 DEF Call, Typed, OneOwner
  <2>2. /\ pc' = [pc EXCEPT ![t] = "acquire"] /\ call' = [call EXCEPT ![t] = @ + 1]
        /\ replies' = [replies EXCEPT ![t] = <<>>]
        /\ UNCHANGED <<idle, live, open, dead, stream, lease, result>>
    BY <1>2 DEF Call
  <2>3. Typed'
    BY <2>2 DEF Typed, PCs
  <2>4. OneOwner' /\ IdleFree' /\ NothingLeft'
    BY <2>1, <2>2 DEF Typed, OneOwner, IdleFree, NothingLeft
  <2>5. InStep'
    BY <2>1, <2>2 DEF Typed, InStep, Reading
  <2>6. OwnAnswers'
    BY <2>1, <2>2 DEF Typed, OwnAnswers, Answers, Reply
  <2> QED
    BY <2>3, <2>4, <2>5, <2>6
<1>3. ASSUME NEW t \in Callers, AcquireIdle(t)
      PROVE  PoolInv'
  <2>1. pc[t] = "acquire" /\ lease[t] = NoConn
    BY <1>3 DEF AcquireIdle, Typed, OneOwner
  <2>2. /\ Len(idle) \in Nat /\ Len(idle) >= 1 /\ 1 \in 1..Len(idle)
        /\ Head(idle) = idle[1] /\ Head(idle) \in Conns
        /\ idle' \in Seq(Conns) /\ Len(idle') = Len(idle) - 1
        /\ \A i \in 1..Len(idle') : idle'[i] = idle[i + 1] /\ i + 1 \in 1..Len(idle)
    BY <1>3, TailFacts DEF AcquireIdle, Typed
  <2>3. /\ pc' = [pc EXCEPT ![t] = "send"] /\ lease' = [lease EXCEPT ![t] = idle[1]]
        /\ UNCHANGED <<open, dead, stream, call, replies, result>>
    BY <1>3, <2>2 DEF AcquireIdle
  <2>4. Typed'
    BY <2>2, <2>3 DEF Typed, PCs
  <2>5. idle[1] \in open /\ idle[1] # NoConn /\ stream[idle[1]] = <<>>
    BY <2>2, NoConnApart DEF Typed, IdleFree, NothingLeft
  <2>6. OneOwner'
    BY <2>1, <2>2, <2>3, <2>5 DEF Typed, OneOwner, IdleFree
  <2>7. IdleFree'
    <3>1. \A i \in 1..Len(idle') : idle'[i] \in open' /\ idle'[i] # idle[1]
      BY <2>2, <2>3 DEF IdleFree
    <3>2. \A i, j \in 1..Len(idle') : idle'[i] = idle'[j] => i = j
      BY <2>2 DEF IdleFree
    <3>3. \A i \in 1..Len(idle'), u \in Callers : idle'[i] # lease'[u]
      <4> SUFFICES ASSUME NEW i \in 1..Len(idle'), NEW u \in Callers
                   PROVE  idle'[i] # lease'[u]
        OBVIOUS
      <4>1. lease'[u] = IF u = t THEN idle[1] ELSE lease[u]
        BY <2>3 DEF Typed
      <4>2. idle'[i] = idle[i + 1] /\ i + 1 \in 1..Len(idle)
        BY <2>2
      <4>3. idle'[i] # lease[u]
        BY <4>2 DEF IdleFree
      <4> QED
        BY <3>1, <4>1, <4>3
    <3> QED
      BY <3>1, <3>2, <3>3 DEF IdleFree
  <2>8. NothingLeft'
    <3>1. \A i \in 1..Len(idle') : stream'[idle'[i]] = <<>>
      BY <2>2, <2>3 DEF NothingLeft
    <3>2. \A u \in Callers : pc'[u] = "send" => stream'[lease'[u]] = <<>>
      BY <2>1, <2>3, <2>5 DEF Typed, NothingLeft
    <3> QED
      BY <3>1, <3>2 DEF NothingLeft
  <2>9. InStep'
    BY <2>1, <2>3 DEF Typed, InStep, Reading
  <2>10. OwnAnswers'
    BY <2>1, <2>3 DEF Typed, OwnAnswers, Answers, Reply
  <2> QED
    BY <2>4, <2>6, <2>7, <2>8, <2>9, <2>10
<1>4. ASSUME NEW t \in Callers, Reserve(t)
      PROVE  PoolInv'
  BY <1>4, MovePC DEF Reserve, Typed, OneOwner
<1>5. ASSUME NEW t \in Callers, Wait(t)
      PROVE  PoolInv'
  BY <1>5, MovePC DEF Wait, Typed, OneOwner
<1>6. ASSUME NEW t \in Callers, Wake(t)
      PROVE  PoolInv'
  BY <1>6, MovePC DEF Wake, Typed, OneOwner
<1>7. ASSUME NEW t \in Callers, TimesOut(t)
      PROVE  PoolInv'
  BY <1>7, MovePC DEF TimesOut, Typed, OneOwner
<1>8. ASSUME NEW t \in Callers, ConnectFails(t)
      PROVE  PoolInv'
  BY <1>8, MovePC DEF ConnectFails, Typed, OneOwner
<1>9. ASSUME NEW t \in Callers, NEW c \in Conns, Connected(t, c)
      PROVE  PoolInv'
  <2>1. pc[t] = "connect" /\ lease[t] = NoConn /\ c \notin open /\ c # NoConn
    BY <1>9, PoolAssumption DEF Connected, Typed, OneOwner
  <2>2. /\ pc' = [pc EXCEPT ![t] = "send"] /\ lease' = [lease EXCEPT ![t] = c]
        /\ open' = open \cup {c} /\ stream' = [stream EXCEPT ![c] = <<>>]
        /\ UNCHANGED <<idle, call, replies, result>>
    BY <1>9 DEF Connected
  <2>3. Typed'
    BY <2>2 DEF Typed, PCs
  <2>4. OneOwner'
    BY <2>1, <2>2 DEF Typed, OneOwner
  <2>5. IdleFree'
    BY <2>1, <2>2 DEF Typed, IdleFree
  <2>6. NothingLeft'
    BY <2>1, <2>2 DEF Typed, OneOwner, IdleFree, NothingLeft
  <2>7. InStep'
    <3> SUFFICES ASSUME NEW u \in Callers, pc'[u] = "read"
                 PROVE  Reading(u)'
      BY DEF InStep
    <3>1. u # t /\ pc[u] = "read" /\ lease'[u] = lease[u] /\ lease[u] # c
      BY <2>1, <2>2 DEF Typed, OneOwner
    <3>2. stream'[lease'[u]] = stream[lease[u]]
      BY <2>2, <3>1 DEF Typed, OneOwner
    <3> QED
      BY <2>2, <3>1, <3>2 DEF InStep, Reading
  <2>8. OwnAnswers'
    BY <2>1, <2>2 DEF Typed, OwnAnswers, Answers, Reply
  <2> QED
    BY <2>3, <2>4, <2>5, <2>6, <2>7, <2>8
<1>10. ASSUME NEW t \in Callers, Send(t)
       PROVE  PoolInv'
  <2>1. pc[t] = "send" /\ lease[t] \in Conns /\ stream[lease[t]] = <<>>
    BY <1>10 DEF Send, Typed, OneOwner, NothingLeft
  <2>2. /\ pc' = [pc EXCEPT ![t] = "read"] /\ replies' = [replies EXCEPT ![t] = <<>>]
        /\ UNCHANGED <<idle, open, lease, call, result>>
    BY <1>10 DEF Send, StartReplies
  <2>3. PICK sent \in {<<>>, Answers(t, call[t])} : stream' = [stream EXCEPT ![lease[t]] = sent]
    <3>1. <<>> \o Answers(t, call[t]) = Answers(t, call[t])
      BY AnswersFacts DEF Typed
    <3>2. CASE lease[t] \in dead
      BY <1>10, <2>1, <3>2 DEF Send, Typed
    <3>3. CASE lease[t] \notin dead
      BY <1>10, <2>1, <3>1, <3>3 DEF Send, Typed
    <3> QED
      BY <3>2, <3>3
  <2>4. /\ sent \in Seq(AnyReply) /\ Len(sent) <= Depth
        /\ \A i \in 1..Len(sent) : sent[i] = Reply(t, call[t], i)
    <3>1. CASE sent = <<>>
      <4>1. <<>> \in Seq(AnyReply) /\ Len(<<>>) = 0 /\ 1..0 = {} /\ 0 <= Depth
        BY Counting
      <4> QED
        BY <3>1, <4>1
    <3>2. CASE sent = Answers(t, call[t])
      <4>1. call[t] \in Nat
        BY DEF Typed
      <4>2. Depth <= Depth
        BY Counting
      <4> QED
        BY <3>2, <4>1, <4>2, AnswersFacts
    <3> QED
      BY <3>1, <3>2
  <2>5. Typed'
    <3>1. stream' \in [Conns -> Seq(AnyReply)]
      BY <2>1, <2>3, <2>4 DEF Typed
    <3>2. replies' \in [Callers -> Seq(AnyReply)] /\ pc' \in [Callers -> PCs]
      BY <2>2 DEF Typed, PCs
    <3> QED
      BY <2>2, <3>1, <3>2 DEF Typed
  <2>6. OneOwner' /\ IdleFree'
    BY <2>1, <2>2 DEF Typed, OneOwner, IdleFree
  <2>7. NothingLeft'
    BY <2>1, <2>2, <2>3 DEF Typed, OneOwner, IdleFree, NothingLeft
  <2>8. InStep'
    <3> SUFFICES ASSUME NEW u \in Callers, pc'[u] = "read"
                 PROVE  Reading(u)'
      BY DEF InStep
    <3>1. CASE u = t
      <4>1. replies'[u] = <<>> /\ stream'[lease'[u]] = sent /\ call'[u] = call[t]
        BY <2>1, <2>2, <2>3, <3>1 DEF Typed
      <4>2. Len(<<>>) = 0 /\ 1..0 = {} /\ \A i \in 1..Len(sent) : 0 + i = i
        BY <2>4
      <4> QED
        BY <2>4, <3>1, <4>1, <4>2 DEF Reading
    <3>2. CASE u # t
      <4>1. pc[u] = "read" /\ lease[u] # lease[t]
        BY <2>1, <2>2, <3>2, PoolAssumption DEF Typed, OneOwner
      <4>2. stream'[lease'[u]] = stream[lease[u]] /\ replies'[u] = replies[u]
        BY <2>2, <2>3, <3>2, <4>1 DEF Typed, OneOwner
      <4> QED
        BY <2>2, <4>1, <4>2 DEF InStep, Reading
    <3> QED
      BY <3>1, <3>2
  <2>9. OwnAnswers'
    BY <2>1, <2>2 DEF Typed, OwnAnswers, Answers, Reply
  <2> QED
    BY <2>5, <2>6, <2>7, <2>8, <2>9
<1>11. ASSUME NEW t \in Callers, ReadReply(t)
       PROVE  PoolInv'
  <2>1. pc[t] = "read" /\ lease[t] \in Conns /\ stream[lease[t]] # <<>> /\ Reading(t)
    BY <1>11 DEF ReadReply, Typed, OneOwner, InStep
  <2> PICK got \in Seq(AnyReply) : got = replies[t]
    BY DEF Typed
  <2> PICK rest \in Seq(AnyReply) : rest = stream[lease[t]]
    BY <2>1 DEF Typed
  <2>2. /\ Len(rest) \in Nat /\ Len(rest) >= 1
        /\ Head(rest) = rest[1] /\ Head(rest) \in AnyReply
        /\ Tail(rest) \in Seq(AnyReply) /\ Len(Tail(rest)) = Len(rest) - 1
        /\ \A i \in 1..Len(Tail(rest)) : Tail(rest)[i] = rest[i + 1] /\ i + 1 \in 1..Len(rest)
    BY <2>1, TailFacts
  <2>3. /\ Append(got, Head(rest)) \in Seq(AnyReply)
        /\ Len(got) \in Nat /\ Len(Append(got, Head(rest))) = Len(got) + 1
        /\ \A i \in 1..(Len(got) + 1) :
              Append(got, Head(rest))[i] = IF i = Len(got) + 1 THEN Head(rest) ELSE got[i]
    BY <2>2, AppendFacts
  <2>4. /\ replies' = [replies EXCEPT ![t] = Append(got, Head(rest))]
        /\ stream' = [stream EXCEPT ![lease[t]] = Tail(rest)]
        /\ UNCHANGED <<idle, open, pc, lease, call, result>>
    BY <1>11, <2>1 DEF ReadReply, Typed
  <2>5. Typed'
    BY <2>2, <2>3, <2>4 DEF Typed
  <2>6. OneOwner' /\ IdleFree'
    BY <2>4 DEF OneOwner, IdleFree
  <2>7. NothingLeft'
    BY <2>1, <2>4, PoolAssumption DEF Typed, OneOwner, IdleFree, NothingLeft
  <2>8. InStep'
    <3> SUFFICES ASSUME NEW u \in Callers, pc'[u] = "read"
                 PROVE  Reading(u)'
      BY DEF InStep
    <3>1. CASE u = t
      <4>1. /\ replies'[u] = Append(got, Head(rest)) /\ stream'[lease'[u]] = Tail(rest)
            /\ call'[u] = call[t]
        BY <2>1, <2>4, <3>1 DEF Typed
      <4>2. /\ Len(got) + Len(rest) <= Depth
            /\ \A i \in 1..Len(got) : got[i] = Reply(t, call[t], i)
            /\ \A i \in 1..Len(rest) : rest[i] = Reply(t, call[t], Len(got) + i)
        BY <2>1 DEF Reading
      <4>3. \A i \in 1..(Len(got) + 1) : Append(got, Head(rest))[i] = Reply(t, call[t], i)
        BY <2>2, <2>3, <4>2
      <4>4. \A i \in 1..Len(Tail(rest)) :
               Tail(rest)[i] = Reply(t, call[t], (Len(got) + 1) + i)
        <5> SUFFICES ASSUME NEW i \in 1..Len(Tail(rest))
                     PROVE  Tail(rest)[i] = Reply(t, call[t], (Len(got) + 1) + i)
          OBVIOUS
        <5>0. i \in Nat
          BY <2>2
        <5>1. Len(got) + (i + 1) = (Len(got) + 1) + i
          BY <2>3, <5>0, Counting
        <5> QED
          BY <2>2, <4>2, <5>1
      <4>5. (Len(got) + 1) + (Len(rest) - 1) <= Depth
        BY <2>2, <2>3, <4>2, Counting
      <4>6. Len(replies'[u]) = Len(got) + 1 /\ Len(stream'[lease'[u]]) = Len(rest) - 1
        BY <2>2, <2>3, <4>1
      <4>7. Len(replies'[u]) + Len(stream'[lease'[u]]) <= Depth
        BY <4>5, <4>6
      <4>8. \A i \in 1..Len(replies'[u]) : replies'[u][i] = Reply(u, call'[u], i)
        BY <3>1, <4>1, <4>3, <4>6
      <4>9. \A i \in 1..Len(stream'[lease'[u]]) :
               stream'[lease'[u]][i] = Reply(u, call'[u], Len(replies'[u]) + i)
        BY <3>1, <4>1, <4>4, <4>6
      <4> QED
        BY <4>7, <4>8, <4>9 DEF Reading
    <3>2. CASE u # t
      <4>1. pc[u] = "read" /\ lease[u] # lease[t]
        BY <2>1, <2>4, <3>2, PoolAssumption DEF Typed, OneOwner
      <4>2. stream'[lease'[u]] = stream[lease[u]] /\ replies'[u] = replies[u]
        BY <2>4, <3>2, <4>1 DEF Typed, OneOwner
      <4> QED
        BY <2>4, <4>1, <4>2 DEF InStep, Reading
    <3> QED
      BY <3>1, <3>2
  <2>9. OwnAnswers'
    BY <2>1, <2>4 DEF Typed, OwnAnswers, Answers, Reply
  <2> QED
    BY <2>5, <2>6, <2>7, <2>8, <2>9
<1>12. ASSUME NEW t \in Callers, Done(t)
       PROVE  PoolInv'
  <2>1. /\ pc[t] = "read" /\ Len(replies[t]) >= Depth /\ Reading(t)
        /\ replies[t] \in Seq(AnyReply) /\ stream[lease[t]] \in Seq(AnyReply)
    BY <1>12 DEF Done, Typed, OneOwner, InStep
  <2>2. Len(stream[lease[t]]) = 0 /\ Len(replies[t]) = Depth
    <3>1. Len(stream[lease[t]]) \in Nat /\ Len(replies[t]) \in Nat
      BY <2>1
    <3> QED
      BY <2>1, <3>1, Counting DEF Reading
  <2>3. stream[lease[t]] = <<>>
    BY <2>1, <2>2
  <2>4. replies[t] = Answers(t, call[t])
    BY <2>1, <2>2 DEF Reading, Answers
  <2> QED
    BY <1>12, <2>1, <2>3, <2>4, EndLeaseInv DEF Done
<1>13. ASSUME NEW t \in Callers, TransportFails(t)
       PROVE  PoolInv'
  BY <1>13, EndLeaseInv DEF TransportFails
<1>14. ASSUME NEW t \in Callers, SocketTimesOut(t)
       PROVE  PoolInv'
  BY <1>14, EndLeaseInv DEF SocketTimesOut
<1>15. ASSUME NEW c \in Conns, ServerCloses(c)
       PROVE  PoolInv'
  BY <1>15 DEF ServerCloses, Typed, OneOwner, IdleFree, NothingLeft, InStep, Reading, OwnAnswers
<1> QED
  BY <1>1, <1>2, <1>3, <1>4, <1>5, <1>6, <1>7, <1>8, <1>9, <1>10, <1>11, <1>12, <1>13,
     <1>14, <1>15 DEF Next, Step

\* Whatever connections break, are retried on or are passed on to another
\* thread, command() and pipeline() return the answers to their own commands.
THEOREM CallsGetTheirAnswers == Spec => []OwnAnswers
<1>1. Init => PoolInv
  BY InitPool
<1>2. PoolInv /\ [Next]_vars => PoolInv'
  BY NextPool
<1>3. PoolInv => OwnAnswers
  BY DEF PoolInv
<1> QED
  BY <1>1, <1>2, <1>3, PTL DEF Spec
----------------------------------------------------------------------------
\* The threads at some point of a call, as sets to count.
Connecting == {t \in Callers : pc[t] = "connect"}
Holding == {t \in Callers : pc[t] \in {"send", "read"}}
Active == Connecting \cup Holding

LEMMA CallersFinite ==
    \A S \in SUBSET Callers :
        IsFiniteSet(S) /\ Cardinality(S) \in Nat /\ Cardinality(S) <= Cardinality(Callers)
BY PoolAssumption, FS_Subset, FS_CardinalityType

\* Every open connection is idle or leased.
OpenPlaced ==
    \A c \in open : (\E i \in 1..Len(idle) : idle[i] = c) \/ (\E t \in Callers : lease[t] = c)

OpenInv == IsFiniteSet(open) /\ OpenPlaced /\ OpenBoundedByCallers

\* A step that opens nothing and starts no connect keeps the bound.
LEMMA OpenShrinks ==
    ASSUME OpenInv, open' \subseteq open, Connecting' \subseteq Connecting
    PROVE  IsFiniteSet(open') /\ OpenBoundedByCallers'
<1>1. /\ IsFiniteSet(open') /\ Cardinality(open') \in Nat /\ Cardinality(open) \in Nat
      /\ Cardinality(open') <= Cardinality(open)
  BY FS_Subset, FS_CardinalityType DEF OpenInv
<1>2. /\ Cardinality(Connecting') \in Nat /\ Cardinality(Connecting) \in Nat
      /\ Cardinality(Connecting') <= Cardinality(Connecting)
      /\ Cardinality(Callers) \in Nat
  <2>1. Connecting \subseteq Callers /\ Connecting' \subseteq Callers
    BY DEF Connecting
  <2>2. IsFiniteSet(Connecting)
    BY <2>1, CallersFinite
  <2> QED
    BY <2>1, <2>2, CallersFinite, FS_Subset, FS_CardinalityType, PoolAssumption
<1>3. Cardinality(open) + Cardinality(Connecting) <= Cardinality(Callers)
  BY DEF OpenInv, OpenBoundedByCallers, Connecting
<1>4. Cardinality(open') + Cardinality(Connecting') <= Cardinality(Callers)
  BY <1>1, <1>2, <1>3
<1> QED
  BY <1>1, <1>4 DEF OpenBoundedByCallers, Connecting

\* What notify_one does to the threads it does not concern.
LEMMA NotifiedSets ==
    ASSUME Typed, NEW t \in Callers, NEW next \in PCs,
           pc' \in NotifyOne([pc EXCEPT ![t] = next]) \cup {[pc EXCEPT ![t] = next]}
    PROVE  /\ pc' \in [Callers -> PCs]
           /\ pc'[t] = next \/ (next = "asleep" /\ pc'[t] = "woken")
           /\ \A u \in Callers \ {t} : pc'[u] = pc[u] \/ (pc[u] = "asleep" /\ pc'[u] = "woken")
<1>1. [pc EXCEPT ![t] = next] \in [Callers -> PCs]
  BY DEF Typed
<1>2. CASE pc' = [pc EXCEPT ![t] = next]
  BY <1>1, <1>2 DEF Typed
<1>3. CASE pc' \in NotifyOne([pc EXCEPT ![t] = next])
  <2> DEFINE p == [pc EXCEPT ![t] = next]
  <2>1. /\ pc' \in [Callers -> PCs]
        /\ \A u \in Callers : pc'[u] = p[u] \/ (p[u] = "asleep" /\ pc'[u] = "woken")
    BY <1>1, <1>3, Notified
  <2>2. p[t] = next /\ \A u \in Callers \ {t} : p[u] = pc[u]
    BY DEF Typed
  <2> HIDE DEF p
  <2> QED
    BY <2>1, <2>2
<1> QED
  BY <1>2, <1>3

\* The end of a lease, with its connection kept or closed.
LEMMA EndLeaseOpen ==
    ASSUME PoolInv, OpenInv, NEW t \in Callers, NEW broken \in BOOLEAN,
           NEW next \in {"out", "acquire"}, pc[t] \in {"send", "read"},
           EndLease(t, broken, next)
    PROVE  OpenInv'
<1> USE DEF PoolInv
<1>0. lease[t] \in Conns /\ lease[t] # NoConn
  BY DEF Typed, OneOwner
<1>1. lease' = [lease EXCEPT ![t] = NoConn]
  BY DEF EndLease
<1>2. \/ broken /\ open' = open \ {lease[t]} /\ idle' = idle
      \/ ~broken /\ open' = open /\ idle' = Append(idle, lease[t])
  BY DEF EndLease, Released
<1>3. Connecting' \subseteq Connecting
  <2>1. pc' \in NotifyOne([pc EXCEPT ![t] = next]) /\ next \in PCs
    BY DEF EndLease, Released, PCs
  <2> QED
    BY <2>1, NotifiedSets DEF Connecting
<1>4. OpenPlaced'
  <2> SUFFICES ASSUME NEW c \in open'
               PROVE  \/ \E i \in 1..Len(idle') : idle'[i] = c
                      \/ \E u \in Callers : lease'[u] = c
    BY DEF OpenPlaced
  <2>1. idle \in Seq(Conns) /\ c \in open
    BY <1>2 DEF Typed
  <2>2. CASE broken
    <3>1. idle' = idle /\ c # lease[t]
      BY <1>2, <2>2
    <3> QED
      BY <1>1, <2>1, <3>1 DEF Typed, OpenInv, OpenPlaced
  <2>3. CASE ~broken
    <3>1. /\ Len(idle') = Len(idle) + 1 /\ Len(idle) \in Nat
          /\ idle'[Len(idle) + 1] = lease[t]
          /\ \A i \in 1..Len(idle) : idle'[i] = idle[i]
      BY <1>0, <1>2, <2>1, <2>3, AppendFacts
    <3>2. CASE c = lease[t]
      BY <3>1, <3>2
    <3>3. CASE \E i \in 1..Len(idle) : idle[i] = c
      BY <3>1, <3>3
    <3>4. CASE c # lease[t] /\ \E u \in Callers : lease[u] = c
      BY <1>1, <3>4 DEF Typed
    <3> QED  BY <2>1, <3>2, <3>3, <3>4 DEF OpenInv, OpenPlaced
  <2> QED  BY <2>2, <2>3
<1>5. open' \subseteq open
  BY <1>2
<1> QED
  BY <1>3, <1>4, <1>5, OpenShrinks DEF OpenInv

LEMMA NextOpen ==
    ASSUME PoolInv, OpenInv, [Next]_vars
    PROVE  OpenInv'
<1> USE DEF PoolInv
\* Steps that leave the connections, and who holds them, alone.
<1>a. ASSUME UNCHANGED <<idle, open, lease>>, Connecting' \subseteq Connecting
      PROVE  OpenInv'
  <2>1. IsFiniteSet(open') /\ OpenBoundedByCallers'
    BY <1>a, OpenShrinks
  <2> QED
    BY <1>a, <2>1 DEF OpenInv, OpenPlaced
<1>1. CASE UNCHANGED vars
  BY <1>1, <1>a DEF vars, Connecting
<1>2. ASSUME NEW t \in Callers, Call(t) \/ Wait(t) \/ Wake(t) \/ TimesOut(t)
      PROVE  OpenInv'
  <2>1. Connecting' \subseteq Connecting
    BY <1>2 DEF Call, Wait, Wake, TimesOut, Typed, Connecting
  <2> QED
    BY <1>2, <1>a, <2>1 DEF Call, Wait, Wake, TimesOut
<1>3. ASSUME NEW t \in Callers, ConnectFails(t)
      PROVE  OpenInv'
  <2>1. Connecting' \subseteq Connecting
    BY <1>3, NotifiedSets DEF ConnectFails, Connecting, PCs
  <2> QED
    BY <1>3, <1>a, <2>1 DEF ConnectFails
<1>4. ASSUME NEW t \in Callers, Send(t) \/ ReadReply(t)
      PROVE  OpenInv'
  <2>1. Connecting' \subseteq Connecting
    BY <1>4 DEF Send, ReadReply, Typed, Connecting
  <2> QED
    BY <1>4, <1>a, <2>1 DEF Send, ReadReply
<1>5. ASSUME NEW c \in Conns, ServerCloses(c)
      PROVE  OpenInv'
  BY <1>5, <1>a DEF ServerCloses, Connecting
<1>6. ASSUME NEW t \in Callers, Done(t) \/ TransportFails(t) \/ SocketTimesOut(t)
      PROVE  OpenInv'
  BY <1>6, EndLeaseOpen DEF Done, TransportFails, SocketTimesOut
<1>7. ASSUME NEW t \in Callers, AcquireIdle(t)
      PROVE  OpenInv'
  <2>1. /\ Head(idle) = idle[1] /\ Len(idle') = Len(idle) - 1 /\ Len(idle) \in Nat
        /\ \A i \in 1..Len(idle') : idle'[i] = idle[i + 1]
    BY <1>7, TailFacts DEF AcquireIdle, Typed
  <2>2. /\ lease' = [lease EXCEPT ![t] = idle[1]] /\ lease[t] = NoConn
        /\ open' = open /\ NoConn \notin open
    BY <1>7, <2>1, PoolAssumption DEF AcquireIdle, Typed, OneOwner
  <2>3. OpenPlaced'
    <3> SUFFICES ASSUME NEW c \in open
                 PROVE  \/ \E i \in 1..Len(idle') : idle'[i] = c
                        \/ \E u \in Callers : lease'[u] = c
      BY <2>2 DEF OpenPlaced
    <3>1. CASE \E u \in Callers : lease[u] = c
      BY <2>2, <3>1 DEF Typed
    <3>2. ASSUME NEW i \in 1..Len(idle), idle[i] = c
          PROVE  \/ \E k \in 1..Len(idle') : idle'[k] = c
                 \/ \E u \in Callers : lease'[u] = c
      <4>1. CASE i = 1
        BY <2>2, <3>2, <4>1 DEF Typed
      <4>2. CASE i # 1
        <5>1. i - 1 \in 1..Len(idle') /\ idle'[i - 1] = c
          BY <2>1, <3>2, <4>2
        <5> QED  BY <5>1
      <4> QED  BY <4>1, <4>2
    <3> QED
      BY <3>1, <3>2 DEF OpenInv, OpenPlaced
  <2>4. Connecting' \subseteq Connecting
    BY <1>7 DEF AcquireIdle, Typed, Connecting
  <2> QED
    BY <2>2, <2>3, <2>4, OpenShrinks DEF OpenInv
<1>8. ASSUME NEW t \in Callers, NEW c \in Conns, Connected(t, c)
      PROVE  OpenInv'
  <2>1. Connecting' = Connecting \ {t} /\ t \in Connecting
    BY <1>8 DEF Connected, Typed, Connecting
  <2>2. open' = open \cup {c} /\ c \notin open
    BY <1>8 DEF Connected
  <2>3. /\ IsFiniteSet(open') /\ Cardinality(open') = Cardinality(open) + 1
        /\ Cardinality(open) \in Nat
    BY <2>2, FS_AddElement, FS_CardinalityType DEF OpenInv
  <2>4. /\ Cardinality(Connecting') = Cardinality(Connecting) - 1
        /\ Cardinality(Connecting) \in Nat
    <3>1. IsFiniteSet(Connecting) /\ Cardinality(Connecting) \in Nat
      BY CallersFinite DEF Connecting
    <3> QED
      BY <2>1, <3>1, FS_RemoveElement
  <2>5. OpenBoundedByCallers'
    <3>1. Cardinality(open) + Cardinality(Connecting) <= Cardinality(Callers)
      BY DEF OpenInv, OpenBoundedByCallers, Connecting
    <3>2. Cardinality(open') + Cardinality(Connecting') = Cardinality(open) + Cardinality(Connecting)
      BY <2>3, <2>4
    <3> QED
      BY <3>1, <3>2 DEF OpenBoundedByCallers, Connecting
  <2>6. OpenPlaced'
    <3>1. lease' = [lease EXCEPT ![t] = c] /\ lease[t] = NoConn /\ idle' = idle
          /\ NoConn \notin open
      BY <1>8, PoolAssumption DEF Connected, Typed, OneOwner
    <3> QED
      BY <2>2, <3>1 DEF Typed, OpenInv, OpenPlaced
  <2> QED
    BY <2>3, <2>5, <2>6 DEF OpenInv
<1>9. ASSUME NEW t \in Callers, Reserve(t)
      PROVE  OpenInv'
  <2>1. idle = <<>> /\ UNCHANGED <<idle, open, lease>>
    BY <1>9 DEF Reserve, MayReserve
  <2>2. Connecting' = Connecting \cup {t} /\ t \notin Connecting /\ t \notin Holding
    BY <1>9 DEF Reserve, Typed, Connecting, Holding
  \* With no idle connection, every open one is the lease of a thread.
  <2>3. [u \in Holding |-> lease[u]] \in Surjection(Holding, open)
    <3>1. \A u \in Holding : lease[u] \in open
      BY DEF Holding, OneOwner
    <3>2. \A c \in open : \E u \in Callers : lease[u] = c /\ c # NoConn
      BY <2>1, PoolAssumption DEF Typed, OpenInv, OpenPlaced
    <3>3. \A c \in open : \E u \in Holding : lease[u] = c
      BY <3>2 DEF Holding, OneOwner
    <3> QED
      BY <3>1, <3>3 DEF Surjection
  <2>4. Cardinality(open) <= Cardinality(Holding) /\ Cardinality(open) \in Nat
        /\ Cardinality(Holding) \in Nat
    <3>1. IsFiniteSet(Holding) /\ Cardinality(Holding) \in Nat
      BY CallersFinite DEF Holding
    <3> QED
      BY <2>3, <3>1, FS_Surjection, FS_CardinalityType DEF OpenInv
  <2>5. Cardinality(Holding) + Cardinality(Connecting') <= Cardinality(Callers)
        /\ Cardinality(Connecting') \in Nat
    <3>1. Connecting' \subseteq Callers /\ Holding \subseteq Callers
          /\ Holding \cap Connecting' = {}
      BY <2>2 DEF Connecting, Holding
    <3>2. /\ IsFiniteSet(Connecting') /\ Cardinality(Connecting') \in Nat
          /\ IsFiniteSet(Holding) /\ Cardinality(Holding) \in Nat
          /\ Cardinality(Holding \cup Connecting') <= Cardinality(Callers)
      BY <3>1, CallersFinite
    <3>3. Cardinality(Holding \cup Connecting') =
             Cardinality(Holding) + Cardinality(Connecting') - 0
      BY <3>1, <3>2, FS_Union, FS_EmptySet
    <3> QED
      BY <3>2, <3>3
  <2>6. Cardinality(open) + Cardinality(Connecting') <= Cardinality(Callers)
    <3>1. Cardinality(Callers) \in Nat
      BY PoolAssumption, FS_CardinalityType
    <3> QED
      BY <2>4, <2>5, <3>1
  <2> QED
    BY <2>1, <2>6 DEF OpenInv, OpenPlaced, OpenBoundedByCallers, Connecting
<1> QED
  BY <1>1, <1>2, <1>3, <1>4, <1>5, <1>6, <1>7, <1>8, <1>9 DEF Next, Step

\* However many connections fail, time out or are retried, and although m_live
\* loses count of them, the client never has more of them than threads use it.
THEOREM ConnectionsBounded == Spec => []OpenBoundedByCallers
<1>1. Init => OpenInv
  <2> SUFFICES ASSUME Init PROVE OpenInv
    OBVIOUS
  <2>1. open = {} /\ Connecting = {}
    BY DEF Init, Connecting
  <2>2. Cardinality(Callers) \in Nat
    BY PoolAssumption, FS_CardinalityType
  <2>3. OpenBoundedByCallers
    BY <2>1, <2>2, FS_EmptySet DEF OpenBoundedByCallers, Connecting
  <2> QED
    BY <2>1, <2>3, FS_EmptySet DEF OpenInv, OpenPlaced
<1>2. PoolInv /\ OpenInv /\ [Next]_vars => OpenInv'
  BY NextOpen
<1>3. OpenInv => OpenBoundedByCallers
  BY DEF OpenInv
<1>4. Init => PoolInv
  BY InitPool
<1>5. PoolInv /\ [Next]_vars => PoolInv'
  BY NextPool
<1> QED
  BY <1>1, <1>2, <1>3, <1>4, <1>5, PTL DEF Spec
----------------------------------------------------------------------------
\* The attempts that are over: each has ended at most one lease, or one
\* connect, and so has taken m_live down at most once.
Spent ==
    {s \in Begun \X {0, 1} :
        LET t == s[1][1]
        IN  s[1][2] < call[t] \/ pc[t] = "out" \/ s[2] < attempt[t]}

CallsBounded ==
    /\ IsFiniteSet(Begun) /\ Cardinality(Begun) \in Nat
    /\ Cardinality(Begun) <= MaxCalls
    /\ \A t \in Callers : pc[t] # "out" => call[t] \in 1..MaxCalls

\* m_live counts no more than the leases and connects there are, until it
\* goes below zero; after that it stays out of reach of PoolSize.
LiveCounts ==
    live <= Cardinality(Active) \/ live + Cardinality(Spent) >= SizeMod

CountInv ==
    /\ live \in 0..(SizeMod - 1)
    /\ attempt \in [Callers -> {0, 1}]
    /\ CallsBounded
    /\ LiveCounts

LEMMA SizesInNat == PoolSize \in Nat /\ MaxCalls \in Nat /\ SizeMod \in Nat
                    /\ PoolSize >= 1 /\ SizeMod > PoolSize + 2 * MaxCalls
BY PoolAssumption

LEMMA PairsBounded ==
    ASSUME NEW B, IsFiniteSet(B), Cardinality(B) <= MaxCalls,
           NEW S \in SUBSET (B \X {0, 1})
    PROVE  IsFiniteSet(S) /\ Cardinality(S) \in Nat /\ Cardinality(S) <= 2 * MaxCalls
<1>1. IsFiniteSet({0, 1}) /\ Cardinality({0, 1}) = 2
  <2>1. IsFiniteSet({0}) /\ Cardinality({0}) = 1
    BY FS_Singleton
  <2>2. {0, 1} = {0} \cup {1}
    OBVIOUS
  <2> QED
    BY <2>1, <2>2, FS_AddElement
<1>2. IsFiniteSet(B \X {0, 1}) /\ Cardinality(B \X {0, 1}) = Cardinality(B) * 2
  BY <1>1, FS_Product
<1>3. IsFiniteSet(S) /\ Cardinality(S) <= Cardinality(B) * 2
      /\ Cardinality(S) \in Nat /\ Cardinality(B) \in Nat
  BY <1>2, FS_Subset, FS_CardinalityType
<1> QED
  BY <1>3, SizesInNat

LEMMA SpentBounded ==
    ASSUME CallsBounded
    PROVE  IsFiniteSet(Spent) /\ Cardinality(Spent) \in Nat /\ Cardinality(Spent) <= 2 * MaxCalls
BY PairsBounded DEF CallsBounded, Spent

LEMMA SpentBoundedPrime ==
    ASSUME CallsBounded'
    PROVE  IsFiniteSet(Spent') /\ Cardinality(Spent') \in Nat /\ Cardinality(Spent') <= 2 * MaxCalls
<1>1. Spent' \subseteq Begun' \X {0, 1}
  BY DEF Spent
<1>2. IsFiniteSet(Begun') /\ Cardinality(Begun') <= MaxCalls
  BY DEF CallsBounded
<1> QED
  BY <1>1, <1>2, PairsBounded

LEMMA ActiveCount == IsFiniteSet(Active) /\ Cardinality(Active) \in Nat
BY CallersFinite DEF Active, Connecting, Holding

LEMMA ActiveCountPrime == IsFiniteSet(Active') /\ Cardinality(Active') \in Nat
<1>1. Active' \subseteq Callers
  BY DEF Active, Connecting, Holding
<1> QED
  BY <1>1, CallersFinite, PoolAssumption, FS_Subset, FS_CardinalityType

\* A step of t inside its call keeps every attempt that is over.
LEMMA SpentGrows ==
    ASSUME Typed, CountInv, NEW t \in Callers, UNCHANGED call,
           \A u \in Callers \ {t} : pc[u] = "out" => pc'[u] = "out",
           \A u \in Callers \ {t} : attempt'[u] = attempt[u],
           pc'[t] = "out" \/ (pc[t] # "out" /\ attempt'[t] >= attempt[t]),
           attempt'[t] \in {0, 1}
    PROVE  CallsBounded' /\ Spent \subseteq Spent' /\ Begun' = Begun
<1>1. Begun' = Begun
  BY DEF Begun
<1>2. Spent \subseteq Spent'
  <2> SUFFICES ASSUME NEW s \in Spent
               PROVE  s \in Spent'
    OBVIOUS
  <2>1. s[1] \in Begun /\ s[1][1] \in Callers /\ s[2] \in {0, 1} /\ s \in Begun \X {0, 1}
    BY DEF Spent, Begun
  <2>2. s[1][2] < call[s[1][1]] \/ pc[s[1][1]] = "out" \/ s[2] < attempt[s[1][1]]
    BY DEF Spent
  <2>3. s[1][2] < call'[s[1][1]] \/ pc'[s[1][1]] = "out" \/ s[2] < attempt'[s[1][1]]
    <3>1. CASE s[1][1] = t
      BY <2>1, <2>2, <3>1 DEF CountInv
    <3>2. CASE s[1][1] # t
      BY <2>1, <2>2, <3>2
    <3> QED  BY <3>1, <3>2
  <2> QED
    BY <1>1, <2>1, <2>3 DEF Spent
<1>3. CallsBounded'
  BY <1>1 DEF CountInv, CallsBounded
<1> QED
  BY <1>1, <1>2, <1>3

\* size_t arithmetic below zero.
LEMMA Wraps ==
    ASSUME NEW n \in 0..(SizeMod - 1)
    PROVE  (n + SizeMod - 1) % SizeMod = IF n = 0 THEN SizeMod - 1 ELSE n - 1
<1>0. SizeMod \in Nat /\ SizeMod > 0
  BY SizesInNat
<1>1. CASE n = 0
  <2>1. n + SizeMod - 1 = SizeMod - 1 /\ (SizeMod - 1) % SizeMod = SizeMod - 1
    BY <1>0, <1>1
  <2> QED  BY <1>1, <2>1
<1>2. CASE n # 0
  <2> DEFINE k == n - 1
  <2>1. n + SizeMod - 1 = k + SizeMod /\ k \in 0..(SizeMod - 1)
    BY <1>0, <1>2
  <2> HIDE DEF k
  <2>2. (k + SizeMod) % SizeMod = k % SizeMod /\ k % SizeMod = k
    BY <1>0, <2>1
  <2> QED  BY <1>2, <2>1, <2>2 DEF k
<1> QED  BY <1>1, <1>2

\* A step of t that leaves m_live alone and takes nobody off a connection.
LEMMA QuietCount ==
    ASSUME Typed, CountInv, NEW t \in Callers, UNCHANGED <<call, live>>,
           \A u \in Callers \ {t} : pc[u] = "out" => pc'[u] = "out",
           attempt' \in [Callers -> {0, 1}],
           \A u \in Callers \ {t} : attempt'[u] = attempt[u],
           pc'[t] = "out" \/ (pc[t] # "out" /\ attempt'[t] >= attempt[t]),
           Active \subseteq Active'
    PROVE  CountInv'
<1>1. CallsBounded' /\ Spent \subseteq Spent'
  BY SpentGrows
<1>2. Cardinality(Active) <= Cardinality(Active')
  BY ActiveCountPrime, FS_Subset
<1>3. Cardinality(Spent) <= Cardinality(Spent')
  BY <1>1, SpentBoundedPrime, FS_Subset
<1>4. /\ Cardinality(Active) \in Nat /\ Cardinality(Active') \in Nat
      /\ Cardinality(Spent) \in Nat /\ Cardinality(Spent') \in Nat
      /\ live \in Nat /\ SizeMod \in Nat
  BY <1>1, ActiveCount, ActiveCountPrime, SpentBounded, SpentBoundedPrime, SizesInNat
     DEF CountInv
<1>5. LiveCounts'
  BY <1>2, <1>3, <1>4 DEF CountInv, LiveCounts
<1> QED
  BY <1>1, <1>5 DEF CountInv

\* A step in which t leaves its connection, or its connect, and m_live goes
\* down with it: clamped at zero by release, or wrapped by a failed connect.
LEMMA LessOne ==
    ASSUME Typed, CountInv, NEW t \in Callers, UNCHANGED call,
           \A u \in Callers \ {t} : pc'[u] = pc[u] \/ (pc[u] = "asleep" /\ pc'[u] = "woken"),
           attempt' \in [Callers -> {0, 1}],
           \A u \in Callers \ {t} : attempt'[u] = attempt[u],
           pc[t] \in {"connect", "send", "read"},
           pc'[t] = "out" \/ (pc'[t] = "acquire" /\ attempt'[t] > attempt[t]),
           \/ live' = IF live > 0 THEN live - 1 ELSE live
           \/ live' = (live + SizeMod - 1) % SizeMod
    PROVE  CountInv'
<1>0. attempt[t] \in {0, 1} /\ attempt'[t] \in {0, 1}
  BY DEF CountInv
<1>1. CallsBounded' /\ Spent \subseteq Spent' /\ Begun' = Begun
  BY <1>0, SpentGrows
<1>2. Active' = Active \ {t} /\ t \in Active
  BY DEF Active, Connecting, Holding
<1>3. Cardinality(Active') = Cardinality(Active) - 1
  BY <1>2, ActiveCount, FS_RemoveElement
<1>4. Cardinality(Spent) + 1 <= Cardinality(Spent')
  <2> DEFINE s == <<<<t, call[t]>>, attempt[t]>>
  <2>1. s[1] = <<t, call[t]>> /\ s[2] = attempt[t] /\ s[1][1] = t /\ s[1][2] = call[t]
    OBVIOUS
  <2>2. call[t] \in 1..MaxCalls /\ call[t] \in Nat
    BY DEF CountInv, CallsBounded, Typed
  <2>3. s \in Begun \X {0, 1}
    BY <1>0, <2>2 DEF Begun
  <2>4. s \notin Spent
    BY <1>0, <2>1, <2>2 DEF Spent
  <2>5. s \in Spent'
    <3>1. pc'[t] = "out" \/ s[2] < attempt'[t]
      BY <1>0, <2>1
    <3> QED
      BY <1>1, <2>1, <2>3, <3>1 DEF Spent
  <2> HIDE DEF s
  <2>6. Cardinality(Spent \cup {s}) = Cardinality(Spent) + 1
    BY <2>4, SpentBounded, FS_AddElement DEF CountInv
  <2>7. Spent \cup {s} \subseteq Spent'
    BY <1>1, <2>5
  <2>8. Cardinality(Spent \cup {s}) <= Cardinality(Spent')
    BY <1>1, <2>7, SpentBoundedPrime, FS_Subset
  <2> QED
    BY <2>6, <2>8
<1>5. /\ Cardinality(Active) \in Nat /\ Cardinality(Active') \in Nat
      /\ Cardinality(Spent) \in Nat /\ Cardinality(Spent') \in Nat
      /\ live \in 0..(SizeMod - 1) /\ SizeMod \in Nat /\ SizeMod > 0
  BY <1>1, ActiveCount, ActiveCountPrime, SpentBounded, SpentBoundedPrime, SizesInNat
     DEF CountInv
<1>6. live' = (IF live > 0 THEN live - 1 ELSE 0) \/ (live = 0 /\ live' = SizeMod - 1)
  BY <1>5, Wraps
<1>7. LiveCounts'
  BY <1>3, <1>4, <1>5, <1>6 DEF CountInv, LiveCounts
<1>8. live' \in 0..(SizeMod - 1)
  BY <1>5, <1>6
<1> QED
  BY <1>1, <1>7, <1>8 DEF CountInv

LEMMA CallCount ==
    ASSUME Typed, CountInv, NEW t \in Callers, Call(t)
    PROVE  CountInv'
<1>1. /\ call' = [call EXCEPT ![t] = call[t] + 1] /\ call[t] \in Nat
      /\ pc' = [pc EXCEPT ![t] = "acquire"] /\ pc[t] = "out"
      /\ UNCHANGED <<live, attempt>> /\ Cardinality(Begun) < MaxCalls
  BY DEF Call, Typed
<1>2. Begun \subseteq Begun' /\ Begun' \subseteq Begun \cup {<<t, call[t] + 1>>}
  BY <1>1 DEF Begun, Typed
<1>3. IsFiniteSet(Begun') /\ Cardinality(Begun') \in Nat /\ Cardinality(Begun') <= MaxCalls
  <2>1. /\ IsFiniteSet(Begun \cup {<<t, call[t] + 1>>})
        /\ Cardinality(Begun \cup {<<t, call[t] + 1>>}) <= Cardinality(Begun) + 1
        /\ Cardinality(Begun) \in Nat
    BY FS_AddElement DEF CountInv, CallsBounded
  <2>2. IsFiniteSet(Begun') /\ Cardinality(Begun') \in Nat
        /\ Cardinality(Begun') <= Cardinality(Begun \cup {<<t, call[t] + 1>>})
        /\ Cardinality(Begun \cup {<<t, call[t] + 1>>}) \in Nat
    BY <1>2, <2>1, FS_Subset, FS_CardinalityType
  <2> QED
    BY <1>1, <2>1, <2>2, SizesInNat
\* The calls of t alone are among those begun.
<1>4. call[t] < MaxCalls
  <2> SUFFICES ASSUME call[t] >= MaxCalls
               PROVE  FALSE
    BY <1>1, SizesInNat
  <2>1. {t} \X (1..MaxCalls) \subseteq Begun
    BY <1>1, SizesInNat DEF Begun
  <2>2. Cardinality({t} \X (1..MaxCalls)) = MaxCalls
    <3>1. IsFiniteSet({t}) /\ Cardinality({t}) = 1
      BY FS_Singleton
    <3>2. IsFiniteSet(1..MaxCalls) /\ Cardinality(1..MaxCalls) = MaxCalls
      BY FS_Interval, SizesInNat
    <3>3. Cardinality({t} \X (1..MaxCalls)) = Cardinality({t}) * Cardinality(1..MaxCalls)
      BY <3>1, <3>2, FS_Product
    <3> QED
      BY <3>1, <3>2, <3>3, SizesInNat
  <2>3. Cardinality({t} \X (1..MaxCalls)) <= Cardinality(Begun)
    BY <2>1, FS_Subset DEF CountInv, CallsBounded
  <2> QED
    BY <1>1, <2>2, <2>3, SizesInNat DEF CountInv, CallsBounded
<1>5. CallsBounded'
  <2>1. \A u \in Callers : pc'[u] # "out" => call'[u] \in 1..MaxCalls
    BY <1>1, <1>4, SizesInNat DEF Typed, CountInv, CallsBounded
  <2> QED
    BY <1>3, <2>1 DEF CallsBounded
<1>6. Spent \subseteq Spent'
  <2> SUFFICES ASSUME NEW s \in Spent
               PROVE  s \in Spent'
    OBVIOUS
  <2>1. /\ s \in Begun \X {0, 1} /\ s[1] \in Begun /\ s[1][1] \in Callers /\ s[1][2] \in Nat
        /\ s[1][2] <= call[s[1][1]]
        /\ s[1][2] < call[s[1][1]] \/ pc[s[1][1]] = "out" \/ s[2] < attempt[s[1][1]]
    BY DEF Spent, Begun
  <2>2. s[1][2] < call'[s[1][1]] \/ pc'[s[1][1]] = "out" \/ s[2] < attempt'[s[1][1]]
    <3>1. CASE s[1][1] = t
      BY <1>1, <2>1, <3>1 DEF Typed
    <3>2. CASE s[1][1] # t
      BY <1>1, <2>1, <3>2 DEF Typed
    <3> QED  BY <3>1, <3>2
  <2> QED
    BY <1>2, <2>1, <2>2 DEF Spent
<1>7. Active' = Active
  BY <1>1 DEF Active, Connecting, Holding, Typed
<1>8. Cardinality(Spent) <= Cardinality(Spent')
  BY <1>5, <1>6, SpentBoundedPrime, FS_Subset
<1>9. LiveCounts'
  BY <1>1, <1>5, <1>7, <1>8, SpentBounded, SpentBoundedPrime, SizesInNat
     DEF CountInv, LiveCounts
<1> QED
  BY <1>1, <1>5, <1>9 DEF CountInv

LEMMA ReserveCount ==
    ASSUME Typed, CountInv, NEW t \in Callers, Reserve(t)
    PROVE  CountInv'
<1>1. /\ pc[t] = "acquire" /\ pc' = [pc EXCEPT ![t] = "connect"]
      /\ live' = live + 1 /\ live < PoolSize
      /\ UNCHANGED <<call, attempt>>
  BY DEF Reserve, MayReserve
<1>2. CallsBounded' /\ Spent \subseteq Spent'
  <2>1. /\ \A u \in Callers \ {t} : pc'[u] = pc[u] /\ attempt'[u] = attempt[u]
        /\ pc[t] # "out" /\ attempt'[t] >= attempt[t] /\ attempt'[t] \in {0, 1}
    BY <1>1 DEF Typed, CountInv
  <2> QED
    BY <1>1, <2>1, SpentGrows
<1>3. Active' = Active \cup {t} /\ t \notin Active
  BY <1>1 DEF Active, Connecting, Holding, Typed
<1>4. Cardinality(Active') = Cardinality(Active) + 1
  BY <1>3, ActiveCount, FS_AddElement
<1>5. live <= Cardinality(Active)
  BY <1>1, SpentBounded, SizesInNat DEF CountInv, LiveCounts
<1>6. LiveCounts'
  BY <1>1, <1>4, <1>5, ActiveCount, SizesInNat DEF CountInv, LiveCounts
<1>7. live' \in 0..(SizeMod - 1)
  BY <1>1, SizesInNat DEF CountInv
<1> QED
  BY <1>1, <1>2, <1>6, <1>7 DEF CountInv

\* Where the end of a lease leaves the threads and the counter.
LEMMA EndLeaseCount ==
    ASSUME Typed, CountInv, NEW t \in Callers, NEW broken \in BOOLEAN,
           NEW next \in {"out", "acquire"}, pc[t] \in {"send", "read"},
           EndLease(t, broken, next), UNCHANGED call,
           attempt' \in [Callers -> {0, 1}],
           \A u \in Callers \ {t} : attempt'[u] = attempt[u],
           next = "out" \/ attempt'[t] > attempt[t]
    PROVE  CountInv'
<1>1. pc' \in NotifyOne([pc EXCEPT ![t] = next]) /\ next \in PCs
      /\ live' = IF live > 0 THEN live - 1 ELSE live
  BY DEF EndLease, Released, PCs
<1>2. /\ pc'[t] = next
      /\ \A u \in Callers \ {t} : pc'[u] = pc[u] \/ (pc[u] = "asleep" /\ pc'[u] = "woken")
  BY <1>1, NotifiedSets
<1> QED
  BY <1>1, <1>2, LessOne

LEMMA NextCount ==
    ASSUME PoolInv, CountInv, [Next]_vars
    PROVE  CountInv'
<1> USE DEF PoolInv
<1>0. attempt \in [Callers -> {0, 1}] /\ \A u \in Callers : attempt[u] >= 0
  BY DEF CountInv
<1>1. CASE UNCHANGED vars
  BY <1>1 DEF vars, CountInv, CallsBounded, LiveCounts, Begun, Spent, Active, Connecting, Holding
<1>2. ASSUME NEW t \in Callers, Call(t)
      PROVE  CountInv'
  BY <1>2, CallCount
<1>3. ASSUME NEW t \in Callers, Reserve(t)
      PROVE  CountInv'
  BY <1>3, ReserveCount
<1>4. ASSUME NEW t \in Callers,
             AcquireIdle(t) \/ Wait(t) \/ Wake(t) \/ Send(t) \/ ReadReply(t)
      PROVE  CountInv'
  <2>1. UNCHANGED <<call, live, attempt>>
    BY <1>4 DEF AcquireIdle, Wait, Wake, Send, ReadReply
  <2>2. /\ pc[t] # "out" /\ \A u \in Callers \ {t} : pc'[u] = pc[u]
        /\ Active \subseteq Active'
    BY <1>4 DEF AcquireIdle, Wait, Wake, Send, ReadReply, Active, Connecting, Holding, Typed
  <2> QED
    BY <1>0, <2>1, <2>2, QuietCount
<1>5. ASSUME NEW t \in Callers, NEW c \in Conns, Connected(t, c)
      PROVE  CountInv'
  <2>1. UNCHANGED <<call, live, attempt>>
    BY <1>5 DEF Connected
  <2>2. /\ pc[t] # "out" /\ \A u \in Callers \ {t} : pc'[u] = pc[u]
        /\ Active \subseteq Active'
    BY <1>5 DEF Connected, Active, Connecting, Holding, Typed
  <2> QED
    BY <1>0, <2>1, <2>2, QuietCount
<1>6. ASSUME NEW t \in Callers, TimesOut(t)
      PROVE  CountInv'
  <2>1. UNCHANGED <<call, live>> /\ attempt' = [attempt EXCEPT ![t] = 0]
    BY <1>6 DEF TimesOut, Ends
  <2>2. /\ pc'[t] = "out" /\ \A u \in Callers \ {t} : pc'[u] = pc[u]
        /\ Active \subseteq Active'
    BY <1>6 DEF TimesOut, Active, Connecting, Holding, Typed
  <2> QED
    BY <1>0, <2>1, <2>2, QuietCount
<1>7. ASSUME NEW t \in Callers, ConnectFails(t)
      PROVE  CountInv'
  <2>1. /\ UNCHANGED call /\ attempt' = [attempt EXCEPT ![t] = 0] /\ pc[t] = "connect"
        /\ live' = (live + SizeMod - 1) % SizeMod
        /\ pc' \in NotifyOne([pc EXCEPT ![t] = "out"]) /\ "out" \in PCs
    BY <1>7 DEF ConnectFails, Ends, PCs
  <2>2. /\ pc'[t] = "out"
        /\ \A u \in Callers \ {t} : pc'[u] = pc[u] \/ (pc[u] = "asleep" /\ pc'[u] = "woken")
    BY <2>1, NotifiedSets
  <2> QED
    BY <1>0, <2>1, <2>2, LessOne
<1>8. ASSUME NEW t \in Callers, Done(t) \/ SocketTimesOut(t)
      PROVE  CountInv'
  <2>1. UNCHANGED call /\ attempt' = [attempt EXCEPT ![t] = 0] /\ pc[t] \in {"send", "read"}
        /\ \E broken \in BOOLEAN : EndLease(t, broken, "out")
    BY <1>8 DEF Done, SocketTimesOut, Ends
  <2> QED
    BY <1>0, <2>1, EndLeaseCount
<1>9. ASSUME NEW t \in Callers, TransportFails(t)
      PROVE  CountInv'
  <2>1. UNCHANGED call /\ pc[t] \in {"send", "read"}
    BY <1>9 DEF TransportFails
  <2>2. CASE attempt[t] = 0 /\ EndLease(t, TRUE, "acquire") /\ attempt' = [attempt EXCEPT ![t] = 1]
    <3>1. attempt'[t] > attempt[t] /\ attempt' \in [Callers -> {0, 1}]
          /\ \A u \in Callers \ {t} : attempt'[u] = attempt[u]
      BY <1>0, <2>2
    <3> QED
      BY <2>1, <2>2, <3>1, EndLeaseCount
  <2>3. CASE EndLease(t, TRUE, "out") /\ attempt' = [attempt EXCEPT ![t] = 0]
    BY <1>0, <2>1, <2>3, EndLeaseCount
  <2> QED
    BY <1>9, <2>2, <2>3 DEF TransportFails, Ends
<1>10. ASSUME NEW c \in Conns, ServerCloses(c)
       PROVE  CountInv'
  BY <1>10 DEF ServerCloses, CountInv, CallsBounded, LiveCounts, Begun, Spent, Active, Connecting, Holding
<1> QED
  BY <1>1, <1>2, <1>3, <1>4, <1>5, <1>6, <1>7, <1>8, <1>9, <1>10 DEF Next, Step
----------------------------------------------------------------------------
\* The threads that will look at the pool, or give something back to it.
Awake == {t \in Callers : pc[t] \in {"acquire", "woken", "connect", "send", "read"}}

\* notify_one wakes a sleeper whenever there is one.
LEMMA NotifyWakes ==
    ASSUME Typed, NEW t \in Callers, NEW next \in {"out", "acquire"},
           pc' \in NotifyOne([pc EXCEPT ![t] = next]),
           \E u \in Callers : pc'[u] = "asleep"
    PROVE  Awake' # {}
<1> DEFINE p == [pc EXCEPT ![t] = next]
<1>0. p \in [Callers -> PCs]
  BY DEF Typed, PCs
<1> HIDE DEF p
<1>1. pc' \in NotifyOne(p)
  BY DEF p
<1>2. \E u \in Callers : p[u] = "asleep"
  BY <1>1 DEF NotifyOne
<1>3. PICK u \in Callers : pc' = [p EXCEPT ![u] = "woken"]
  BY <1>1, <1>2 DEF NotifyOne
<1>4. pc'[u] = "woken"
  BY <1>0, <1>3
<1> QED
  BY <1>4 DEF Awake

LEMMA NextWake ==
    ASSUME PoolInv, CountInv, NoLostWakeup, [Next]_vars
    PROVE  NoLostWakeup'
<1> USE DEF PoolInv
<1> SUFFICES ASSUME live' <= PoolSize, ~wasted', NEW s \in Callers, pc'[s] = "asleep"
             PROVE  Awake' # {}
  BY DEF NoLostWakeup, Awake
\* Somebody was awake, when the counter and the sleepers are as before.
<1>a. ASSUME live' = live, ~wasted, \E u \in Callers : pc[u] = "asleep"
      PROVE  Awake # {}
  BY <1>a DEF NoLostWakeup, Awake
<1>1. CASE UNCHANGED vars
  BY <1>1, <1>a DEF vars, Awake
<1>2. ASSUME NEW t \in Callers,
             Call(t) \/ AcquireIdle(t) \/ Reserve(t) \/ Wake(t) \/ Send(t) \/ ReadReply(t)
      PROVE  Awake' # {}
  <2>1. t \in Awake'
    BY <1>2 DEF Call, AcquireIdle, Reserve, Wake, Send, ReadReply, Awake, Typed
  <2> QED  BY <2>1
<1>3. ASSUME NEW t \in Callers, NEW c \in Conns, Connected(t, c)
      PROVE  Awake' # {}
  <2>1. t \in Awake'
    BY <1>3 DEF Connected, Awake, Typed
  <2> QED  BY <2>1
\* A thread goes to sleep only because others fill the pool.
<1>4. ASSUME NEW t \in Callers, Wait(t)
      PROVE  Awake' # {}
  <2>1. /\ pc[t] = "acquire" /\ pc' = [pc EXCEPT ![t] = "asleep"]
        /\ live >= PoolSize /\ live' = live
    BY <1>4 DEF Wait
  <2>2. live <= Cardinality(Active) /\ live >= 1
    BY <2>1, SpentBounded, SizesInNat DEF CountInv, LiveCounts
  <2>3. Active # {}
    BY <2>2, FS_EmptySet DEF CountInv
  <2>4. PICK u \in Callers : pc[u] \in {"connect", "send", "read"}
    BY <2>3 DEF Active, Connecting, Holding
  <2>5. u \in Awake'
    BY <2>1, <2>4 DEF Awake, Typed
  <2> QED  BY <2>5
<1>5. ASSUME NEW t \in Callers, TimesOut(t)
      PROVE  Awake' # {}
  <2>0. wasted' = (wasted \/ pc[t] = "woken") /\ pc[t] \in {"asleep", "woken"}
        /\ pc' = [pc EXCEPT ![t] = "out"] /\ live' = live
    BY <1>5 DEF TimesOut
  <2>1. ~wasted /\ pc[t] = "asleep"
    BY <2>0, Zenon
  <2>2. PICK u \in Awake : TRUE
    BY <1>a, <2>0, <2>1
  <2>3. u \in Awake'
    BY <2>0, <2>1, <2>2 DEF Awake, Typed
  <2> QED  BY <2>3
<1>6. ASSUME NEW t \in Callers, ConnectFails(t)
      PROVE  Awake' # {}
  BY <1>6, NotifyWakes DEF ConnectFails
<1>7. ASSUME NEW t \in Callers, Done(t) \/ TransportFails(t) \/ SocketTimesOut(t)
      PROVE  Awake' # {}
  BY <1>7, NotifyWakes DEF Done, TransportFails, SocketTimesOut, EndLease, Released
<1>8. ASSUME NEW c \in Conns, ServerCloses(c)
      PROVE  Awake' # {}
  BY <1>8, <1>a DEF ServerCloses, Awake
<1> QED
  BY <1>1, <1>2, <1>3, <1>4, <1>5, <1>6, <1>7, <1>8 DEF Next, Step

\* A thread sleeps for a connection only while another one will give a
\* connection, or a place, back and wake it: for any number of threads, calls
\* and failures, as long as no notified thread timed out and m_live did not
\* go below zero.
THEOREM SleepersAreAwaited == Spec => []NoLostWakeup
<1>1. Init => CountInv /\ NoLostWakeup
  <2> SUFFICES ASSUME Init PROVE CountInv /\ NoLostWakeup
    OBVIOUS
  <2>1. Begun = {} /\ \A t \in Callers : pc[t] = "out"
    BY SizesInNat DEF Init, Begun
  <2>2. CallsBounded
    BY <2>1, FS_EmptySet, SizesInNat DEF CallsBounded
  <2>3. live = 0 /\ attempt \in [Callers -> {0, 1}]
    BY DEF Init
  <2>4. CountInv
    BY <2>2, <2>3, ActiveCount, SizesInNat DEF CountInv, LiveCounts
  <2> QED
    BY <2>1, <2>4 DEF NoLostWakeup
<1>2. PoolInv /\ CountInv /\ NoLostWakeup /\ [Next]_vars => CountInv' /\ NoLostWakeup'
  BY NextCount, NextWake
<1>3. Init => PoolInv
  BY InitPool
<1>4. PoolInv /\ [Next]_vars => PoolInv'
  BY NextPool
<1> QED
  BY <1>1, <1>2, <1>3, <1>4, PTL DEF Spec
=============================================================================
