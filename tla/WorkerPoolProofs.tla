-------------------------- MODULE WorkerPoolProofs --------------------------
(***************************************************************************)
(* runAll is a join for any number of workers, batches and jobs, nested or *)
(* not, and whether or not the pool is shut down meanwhile.                *)
(***************************************************************************)
EXTENDS WorkerPool, FiniteSetTheorems, TLAPS

\* A job sits in the queue once, and nowhere else.
QueueDistinct ==
    /\ \A i \in 1..Len(queue) : jobState[queue[i]] = "queued"
    /\ \A i, k \in 1..Len(queue) : queue[i] = queue[k] => i = k

\* A job in execution belongs to one worker.
RunningDistinct ==
    /\ \A w \in Workers : wpc[w] = "running" =>
          running[w] \in Jobs /\ jobState[running[w]] = "running"
    /\ \A w, v \in Workers :
          wpc[w] = "running" /\ wpc[v] = "running" /\ running[w] = running[v] => w = v

\* The atomic counter of a runAll counts its unfinished functions, and the
\* promise is set only when there are none.
CounterExact ==
    \A b \in Batches :
        /\ remaining[b] = Cardinality(Unfinished(b))
        /\ b \in fulfilled => Unfinished(b) = {}
        /\ batch[b] = "returned" => b \in fulfilled

PoolInv == TypeOK /\ QueueDistinct /\ RunningDistinct /\ CounterExact

LEMMA UnfinishedFinite ==
    \A b \in Batches :
        IsFiniteSet(Unfinished(b)) /\ Cardinality(Unfinished(b)) \in Nat
BY PoolAssumption, FS_Subset, FS_CardinalityType DEF Unfinished, JobsOf

LEMMA InitPool == Init => PoolInv
<1> SUFFICES ASSUME Init PROVE PoolInv
  OBVIOUS
<1>1. \A b \in Batches : Unfinished(b) = JobsOf(b)
  BY DEF Init, Unfinished, JobsOf
<1>2. CounterExact
  BY <1>1 DEF Init, CounterExact
<1>3. remaining \in [Batches -> Nat]
  BY <1>1, UnfinishedFinite DEF Init
<1>4. TypeOK
  <2>1. SizeMod \in Nat /\ SizeMod - 1 >= 0 /\ 0 \in 0..(SizeMod - 1)
    BY PoolAssumption, FS_CardinalityType
  <2>2. wpc \in [Workers -> WPCs] /\ jobState \in [Jobs -> JobStates]
        /\ batch \in [Batches -> BatchPCs] /\ running \in [Workers -> Jobs \cup {NoJob}]
    BY DEF Init, WPCs, JobStates, BatchPCs
  <2>3. queue \in Seq(Jobs) /\ threads \subseteq Workers
    BY PoolAssumption DEF Init
  <2> QED
    BY <1>3, <2>1, <2>2, <2>3 DEF Init, TypeOK
<1>5. QueueDistinct /\ RunningDistinct
  BY DEF Init, QueueDistinct, RunningDistinct
<1> QED
  BY <1>2, <1>4, <1>5 DEF PoolInv

\* A step that finishes no job keeps the counters exact.
LEMMA CounterFrame ==
    ASSUME TypeOK, CounterExact, UNCHANGED <<remaining, fulfilled>>,
           \A j \in Jobs : jobState'[j] = "finished" <=> jobState[j] = "finished",
           \A b \in Batches : batch'[b] = "returned" => b \in fulfilled
    PROVE  CounterExact'
<1>1. \A b \in Batches : Unfinished(b)' = Unfinished(b)
  BY DEF Unfinished, JobsOf
<1> QED
  BY <1>1 DEF CounterExact

LEMMA CallerPool ==
    ASSUME PoolInv, NEW b \in Batches, RunAll(b) \/ Caller(b)
    PROVE  PoolInv'
<1> USE DEF PoolInv
<1>1. CASE RunAll(b)
  <2>1. TypeOK'
    BY <1>1 DEF RunAll, TypeOK, BatchPCs
  <2>2. CounterExact'
    BY <1>1, CounterFrame DEF RunAll, TypeOK, CounterExact
  <2> QED
    BY <1>1, <2>1, <2>2 DEF RunAll, QueueDistinct, RunningDistinct
<1>2. ASSUME NEW j \in Jobs, Submit(b, j) PROVE PoolInv'
  <2>1. TypeOK'
    BY <1>2 DEF Submit, TypeOK, BatchPCs, JobStates, WPCs
  <2>2. QueueDistinct'
    BY <1>2 DEF Submit, TypeOK, QueueDistinct
  <2>3. RunningDistinct'
    <3>1. \A w \in Workers : wpc'[w] = "running" => wpc[w] = "running"
      BY <1>2 DEF Submit, TypeOK
    <3> QED
      BY <1>2, <3>1 DEF Submit, TypeOK, RunningDistinct
  <2>4. CounterExact'
    BY <1>2, CounterFrame DEF Submit, TypeOK, CounterExact
  <2> QED  BY <2>1, <2>2, <2>3, <2>4
<1>3. CASE Notify(b)
  <2>1. wpc' \in [Workers -> WPCs] /\ \A w \in Workers : wpc'[w] = "running" => wpc[w] = "running"
    BY <1>3 DEF Notify, SubmitNotify, NotifyOne, TypeOK, WPCs
  <2>2. TypeOK'
    BY <1>3, <2>1 DEF Notify, TypeOK, BatchPCs
  <2>3. CounterExact'
    BY <1>3, CounterFrame DEF Notify, TypeOK, CounterExact
  <2> QED
    BY <1>3, <2>1, <2>2, <2>3 DEF Notify, QueueDistinct, RunningDistinct
<1>4. CASE RunAllReturns(b)
  <2>1. TypeOK'
    BY <1>4 DEF RunAllReturns, TypeOK, BatchPCs
  <2>2. CounterExact'
    BY <1>4, CounterFrame DEF RunAllReturns, TypeOK, CounterExact
  <2> QED
    BY <1>4, <2>1, <2>2 DEF RunAllReturns, QueueDistinct, RunningDistinct
<1> QED
  BY <1>1, <1>2, <1>3, <1>4 DEF Caller

\* size_t arithmetic stays in range.
LEMMA SizeTRange ==
    \A n \in 0..(SizeMod - 1) :
        (n + 1) % SizeMod \in 0..(SizeMod - 1)
        /\ Decrement(n) \in 0..(SizeMod - 1)
<1>1. SizeMod \in Nat /\ SizeMod > 0
  BY PoolAssumption, FS_CardinalityType
<1> QED  BY <1>1 DEF Decrement

LEMMA WorkerStepPool ==
    ASSUME PoolInv, NEW w \in Workers, Worker(w) \/ SpuriousWake(w)
    PROVE  PoolInv'
<1> USE DEF PoolInv
<1>1. CASE Exit(w)
  <2>1. TypeOK'
    BY <1>1, SizeTRange DEF Exit, TypeOK, WPCs, WakeIdler
  <2>2. CounterExact'
    BY <1>1, CounterFrame DEF Exit, CounterExact
  <2> QED
    BY <1>1, <2>1, <2>2 DEF Exit, TypeOK, QueueDistinct, RunningDistinct
<1>2. CASE Take(w)
  <2>0. /\ queue \in Seq(Jobs) /\ queue # <<>> /\ Head(queue) = queue[1]
        /\ Head(queue) \in Jobs /\ Tail(queue) \in Seq(Jobs)
        /\ Len(Tail(queue)) = Len(queue) - 1 /\ Len(queue) \in Nat \ {0}
        /\ \A i \in 1..Len(Tail(queue)) : Tail(queue)[i] = queue[i + 1]
    BY <1>2 DEF Take, TypeOK
  <2>1. TypeOK'
    BY <1>2, <2>0, SizeTRange DEF Take, TypeOK, WPCs, JobStates
  <2>2. QueueDistinct'
    BY <1>2, <2>0 DEF Take, TypeOK, QueueDistinct
  <2>3. jobState[Head(queue)] = "queued"
    BY <2>0 DEF QueueDistinct
  <2>4. RunningDistinct'
    BY <1>2, <2>0, <2>3 DEF Take, TypeOK, RunningDistinct
  <2>5. CounterExact'
    BY <1>2, <2>0, <2>3, CounterFrame DEF Take, TypeOK, CounterExact
  <2> QED  BY <2>1, <2>2, <2>4, <2>5
<1>3. CASE Sleep(w) \/ SpuriousWake(w)
  <2>1. TypeOK'
    BY <1>3 DEF Sleep, SpuriousWake, TypeOK, WPCs
  <2>2. CounterExact'
    BY <1>3, CounterFrame DEF Sleep, SpuriousWake, CounterExact
  <2> QED
    BY <1>3, <2>1, <2>2
       DEF Sleep, SpuriousWake, TypeOK, QueueDistinct, RunningDistinct
<1>4. CASE Finish(w)
  <2>1. PICK j \in Jobs : j = running[w] /\ jobState[j] = "running"
    BY <1>4 DEF Finish, RunningDistinct
  <2>2. PICK c \in Batches : c = BatchOf[j]
    BY PoolAssumption
  <2>3. j \in Unfinished(c) /\ Unfinished(c)' = Unfinished(c) \ {j}
    BY <1>4, <2>1, <2>2 DEF Finish, Unfinished, JobsOf, TypeOK
  <2>4. \A b \in Batches \ {c} : Unfinished(b)' = Unfinished(b)
    BY <1>4, <2>1, <2>2 DEF Finish, Unfinished, JobsOf, TypeOK
  <2>5. Cardinality(Unfinished(c)') = Cardinality(Unfinished(c)) - 1
    BY <2>3, UnfinishedFinite, FS_RemoveElement
  <2>6. /\ remaining'[c] = remaining[c] - 1
        /\ \A b \in Batches \ {c} : remaining'[b] = remaining[b]
        /\ fulfilled' = (IF remaining[c] = 1 THEN fulfilled \cup {c} ELSE fulfilled)
        /\ batch' = batch
    BY <1>4, <2>1, <2>2 DEF Finish, IsLast, TypeOK
  <2>7. remaining'[c] = Cardinality(Unfinished(c)') /\ remaining'[c] \in Nat
    <3>1. IsFiniteSet(Unfinished(c)')
      BY <2>3, UnfinishedFinite, FS_Subset
    <3> QED
      BY <2>5, <2>6, <3>1, FS_CardinalityType DEF CounterExact
  <2>8. remaining[c] = 1 => Unfinished(c)' = {}
    <3>1. IsFiniteSet(Unfinished(c)')
      BY <2>3, UnfinishedFinite, FS_Subset
    <3> QED
      BY <2>6, <2>7, <3>1, FS_EmptySet
  <2>9. CounterExact'
    <3>1. \A b \in Batches \ {c} :
            /\ remaining'[b] = Cardinality(Unfinished(b)')
            /\ b \in fulfilled' => Unfinished(b)' = {}
            /\ batch'[b] = "returned" => b \in fulfilled'
      BY <2>4, <2>6 DEF CounterExact
    <3>a. c \notin fulfilled /\ batch[c] # "returned"
      BY <2>3 DEF CounterExact
    <3>2. /\ c \in fulfilled' => Unfinished(c)' = {}
          /\ batch'[c] = "returned" => c \in fulfilled'
      BY <2>6, <2>8, <3>a
    <3> QED  BY <2>7, <3>1, <3>2 DEF CounterExact
  <2>10. TypeOK'
    BY <1>4, <2>1, <2>2, <2>6, <2>7 DEF Finish, TypeOK, WPCs, JobStates
  <2>11. QueueDistinct'
    BY <1>4, <2>1 DEF Finish, TypeOK, QueueDistinct
  <2>12. RunningDistinct'
    BY <1>4, <2>1 DEF Finish, TypeOK, RunningDistinct
  <2> QED  BY <2>9, <2>10, <2>11, <2>12
<1>5. CASE Release(w)
  <2>1. TypeOK'
    BY <1>5, SizeTRange DEF Release, TypeOK, WPCs, WakeIdler
  <2>2. CounterExact'
    BY <1>5, CounterFrame DEF Release, CounterExact
  <2> QED
    BY <1>5, <2>1, <2>2 DEF Release, TypeOK, QueueDistinct, RunningDistinct
<1> QED
  BY <1>1, <1>2, <1>3, <1>4, <1>5 DEF Worker

LEMMA ControlPool ==
    ASSUME PoolInv, WaitIdle \/ CheckIdle \/ Shutdown \/ StopNotify \/ Join
    PROVE  PoolInv'
<1> USE DEF PoolInv
<1>1. CASE WaitIdle \/ CheckIdle \/ Shutdown \/ Join
  <2>1. TypeOK'
    BY <1>1 DEF WaitIdle, CheckIdle, Shutdown, Join, TypeOK
  <2>2. CounterExact'
    BY <1>1, CounterFrame DEF WaitIdle, CheckIdle, Shutdown, Join, CounterExact
  <2> QED
    BY <1>1, <2>1, <2>2
       DEF WaitIdle, CheckIdle, Shutdown, Join, QueueDistinct, RunningDistinct
<1>2. CASE StopNotify
  <2>1. wpc' \in [Workers -> WPCs] /\ \A w \in Workers : wpc'[w] = "running" => wpc[w] = "running"
    BY <1>2 DEF StopNotify, NotifyAll, TypeOK, WPCs
  <2>2. TypeOK'
    BY <1>2, <2>1 DEF StopNotify, TypeOK
  <2>3. CounterExact'
    BY <1>2, CounterFrame DEF StopNotify, CounterExact
  <2> QED
    BY <1>2, <2>1, <2>2, <2>3 DEF StopNotify, QueueDistinct, RunningDistinct
<1> QED
  BY <1>1, <1>2

LEMMA NextPool == PoolInv /\ [Next]_vars => PoolInv'
<1> SUFFICES ASSUME PoolInv, [Next]_vars PROVE PoolInv'
  OBVIOUS
<1>1. CASE UNCHANGED vars
  <2>1. \A b \in Batches : Unfinished(b)' = Unfinished(b)
    BY <1>1 DEF vars, Unfinished
  <2>2. TypeOK' /\ QueueDistinct' /\ RunningDistinct'
    BY <1>1 DEF vars, PoolInv, TypeOK, QueueDistinct, RunningDistinct
  <2>3. CounterExact'
    BY <1>1, <2>1 DEF vars, PoolInv, CounterExact
  <2> QED  BY <2>2, <2>3 DEF PoolInv
<1>2. CASE Next
  BY <1>2, CallerPool, WorkerStepPool, ControlPool DEF Next
<1> QED
  BY <1>1, <1>2

\* runAll never returns before every function it was given has finished, so
\* the references its jobs hold to its locals are never dangling.
THEOREM RunAllIsAJoin == Spec => []RunAllJoins
<1>1. PoolInv => RunAllJoins
  BY DEF PoolInv, CounterExact, RunAllJoins
<1> QED
  BY InitPool, NextPool, <1>1, PTL DEF Spec
----------------------------------------------------------------------------
\* Every variable keeps its type; m_active stays a size_t.
THEOREM PoolTypes == Spec => []TypeOK
<1>1. PoolInv => TypeOK
  BY DEF PoolInv
<1> QED
  BY InitPool, NextPool, <1>1, PTL DEF Spec
----------------------------------------------------------------------------
Asleep == {w \in Workers : wpc[w] = "asleep"}
Checking == {w \in Workers : wpc[w] = "check"}
Notifying == {b \in Batches : batch[b] = "notify"}

LEMMA WakersFinite ==
    /\ IsFiniteSet(Checking) /\ Cardinality(Checking) \in Nat
    /\ IsFiniteSet(Notifying) /\ Cardinality(Notifying) \in Nat
    /\ IsFiniteSet(Checking') /\ Cardinality(Checking') \in Nat
    /\ IsFiniteSet(Notifying') /\ Cardinality(Notifying') \in Nat
<1>1. BatchOf \in Surjection(Jobs, Batches)
  BY PoolAssumption DEF Surjection
<1>2. IsFiniteSet(Batches)
  BY <1>1, PoolAssumption, FS_Surjection
<1>3. Checking \subseteq Workers /\ Checking' \subseteq Workers
  BY DEF Checking
<1>4. Notifying \subseteq Batches /\ Notifying' \subseteq Batches
  BY DEF Notifying
<1> QED
  BY <1>2, <1>3, <1>4, PoolAssumption, FS_Subset, FS_CardinalityType

\* The claim in terms of the three sets.
WakeInv == Asleep # {} => Len(queue) <= Cardinality(Checking) + Cardinality(Notifying)

LEMMA WakeIsNoLostWakeup == WakeInv <=> NoLostWakeup
BY DEF WakeInv, NoLostWakeup, Asleep, Checking, Notifying

LEMMA CallerWake ==
    ASSUME PoolInv, WakeInv, NEW b \in Batches, RunAll(b) \/ Caller(b)
    PROVE  WakeInv'
<1> USE WakersFinite DEF PoolInv
<1>0. Len(queue) \in Nat
  BY DEF TypeOK
<1>1. CASE RunAll(b) \/ RunAllReturns(b)
  <2>1. Notifying' = Notifying
    BY <1>1 DEF RunAll, RunAllReturns, Notifying, TypeOK
  <2> QED
    BY <1>1, <2>1 DEF RunAll, RunAllReturns, WakeInv, Asleep, Checking
<1>2. ASSUME NEW j \in Jobs, Submit(b, j) PROVE WakeInv'
  <2>1. Notifying' = Notifying \cup {b} /\ b \notin Notifying
    BY <1>2 DEF Submit, Notifying, TypeOK
  <2>2. Cardinality(Notifying') = Cardinality(Notifying) + 1
    BY <2>1, FS_AddElement
  <2>3. Asleep' = Asleep /\ Checking \subseteq Checking'
    BY <1>2 DEF Submit, Asleep, Checking, TypeOK
  <2>4. Cardinality(Checking) <= Cardinality(Checking')
    BY <2>3, FS_Subset
  <2>5. Len(queue') = Len(queue) + 1
    BY <1>2 DEF Submit, TypeOK
  <2> QED
    BY <1>0, <2>2, <2>3, <2>4, <2>5 DEF WakeInv
<1>3. CASE Notify(b)
  <2>1. Notifying' = Notifying \ {b} /\ b \in Notifying
    BY <1>3 DEF Notify, Notifying, TypeOK
  <2>2. Cardinality(Notifying') = Cardinality(Notifying) - 1
    BY <2>1, FS_RemoveElement
  <2>3. CASE Asleep = {}
    <3>1. wpc' = wpc
      BY <1>3, <2>3 DEF Notify, SubmitNotify, NotifyOne, Asleep
    <3> QED
      BY <2>3, <3>1 DEF WakeInv, Asleep
  <2>4. CASE Asleep # {}
    <3>1. PICK u \in Asleep : wpc' = [wpc EXCEPT ![u] = "check"]
      BY <1>3, <2>4 DEF Notify, SubmitNotify, NotifyOne, Asleep
    <3>2. Checking' = Checking \cup {u} /\ u \notin Checking
      BY <3>1 DEF Asleep, Checking, TypeOK
    <3>3. Cardinality(Checking') = Cardinality(Checking) + 1
      BY <3>2, FS_AddElement
    <3> QED
      BY <1>0, <1>3, <2>2, <2>4, <3>3 DEF WakeInv, Notify
  <2> QED  BY <2>3, <2>4
<1> QED
  BY <1>1, <1>2, <1>3 DEF Caller

LEMMA WorkerWake ==
    ASSUME PoolInv, WakeInv, NEW w \in Workers, Worker(w) \/ SpuriousWake(w)
    PROVE  WakeInv'
<1> USE WakersFinite DEF PoolInv
<1>0. Len(queue) \in Nat
  BY DEF TypeOK
<1>1. CASE Exit(w) \/ Sleep(w)
  <2>1. Len(queue') = 0
    BY <1>1 DEF Exit, Sleep
  <2> QED
    BY <2>1 DEF WakeInv
<1>2. CASE Take(w)
  <2>1. Checking' = Checking \ {w} /\ w \in Checking /\ Asleep' = Asleep
    BY <1>2 DEF Take, Checking, Asleep, TypeOK
  <2>2. Cardinality(Checking') = Cardinality(Checking) - 1
    BY <2>1, FS_RemoveElement
  <2>3. Len(queue') = Len(queue) - 1
    BY <1>2 DEF Take, TypeOK
  <2>4. Notifying' = Notifying
    BY <1>2 DEF Take, Notifying
  <2> QED
    BY <1>0, <2>1, <2>2, <2>3, <2>4 DEF WakeInv
<1>3. CASE SpuriousWake(w) \/ Release(w)
  <2>1. Checking \subseteq Checking' /\ Asleep' \subseteq Asleep
    BY <1>3 DEF SpuriousWake, Release, Checking, Asleep, TypeOK
  <2>2. Cardinality(Checking) <= Cardinality(Checking')
    BY <2>1, FS_Subset
  <2>3. Notifying' = Notifying /\ queue' = queue
    BY <1>3 DEF SpuriousWake, Release, Notifying
  <2> QED
    BY <1>0, <2>1, <2>2, <2>3 DEF WakeInv
<1>4. CASE Finish(w)
  <2>1. Checking' = Checking /\ Asleep' = Asleep
    BY <1>4 DEF Finish, Checking, Asleep, TypeOK
  <2> QED
    BY <1>4, <2>1 DEF Finish, WakeInv, Notifying
<1> QED
  BY <1>1, <1>2, <1>3, <1>4 DEF Worker

LEMMA ControlWake ==
    ASSUME PoolInv, WakeInv, WaitIdle \/ CheckIdle \/ Shutdown \/ StopNotify \/ Join
    PROVE  WakeInv'
<1>1. CASE WaitIdle \/ CheckIdle \/ Shutdown \/ Join
  BY <1>1 DEF WaitIdle, CheckIdle, Shutdown, Join, WakeInv, Asleep, Checking, Notifying
<1>2. CASE StopNotify
  <2>1. Asleep' = {}
    BY <1>2 DEF StopNotify, NotifyAll, Asleep
  <2> QED
    BY <2>1 DEF WakeInv
<1> QED
  BY <1>1, <1>2

\* A worker sleeps beside queued jobs only while enough workers are about to
\* look or enough notify_one are on their way: submit's notification after
\* the mutex is released loses no job, however long the queue already is.
THEOREM WakeupsSuffice == Spec => []NoLostWakeup
<1>1. Init => WakeInv
  BY DEF Init, WakeInv, Asleep
<1>2. PoolInv /\ WakeInv /\ [Next]_vars => WakeInv'
  <2> SUFFICES ASSUME PoolInv, WakeInv, [Next]_vars PROVE WakeInv'
    OBVIOUS
  <2>1. CASE UNCHANGED vars
    BY <2>1 DEF vars, WakeInv, Asleep, Checking, Notifying
  <2>2. CASE Next
    BY <2>2, CallerWake, WorkerWake, ControlWake DEF Next
  <2> QED  BY <2>1, <2>2
<1> QED
  BY InitPool, NextPool, <1>1, <1>2, WakeIsNoLostWakeup, PTL DEF Spec
----------------------------------------------------------------------------
\* Where a job is, read off its state: in the queue, or with a worker.
JobsPlaced ==
    /\ \A j \in Jobs : jobState[j] = "queued" => \E i \in 1..Len(queue) : queue[i] = j
    /\ \A j \in Jobs : jobState[j] = "running" =>
          \E w \in Workers : wpc[w] = "running" /\ running[w] = j
    /\ \A j \in due : jobState[j] # "new"

\* A worker leaves only when no accepted job is left in the queue.
ExitsLast ==
    /\ stopping <=> stop # "out"
    /\ \A w \in Workers : wpc[w] = "exited" =>
          stopping /\ \A j \in due : jobState[j] # "queued"

\* Until shutdown returns, every worker ever started has a handle it joins.
AllJoined ==
    stop # "returned" =>
        /\ Initial \subseteq threads
        /\ \A w \in Workers : wpc[w] # "unborn" => w \in threads

DrainInv == JobsPlaced /\ ExitsLast /\ AllJoined /\ ShutdownDrains

LEMMA InitDrain == Init => DrainInv
BY DEF Init, DrainInv, JobsPlaced, ExitsLast, AllJoined, ShutdownDrains

LEMMA CallerDrain ==
    ASSUME PoolInv, DrainInv, NEW b \in Batches, RunAll(b) \/ Caller(b)
    PROVE  DrainInv'
<1> USE DEF PoolInv, DrainInv
<1>1. CASE RunAll(b) \/ RunAllReturns(b)
  BY <1>1 DEF RunAll, RunAllReturns, JobsPlaced, ExitsLast, AllJoined, ShutdownDrains
<1>2. ASSUME NEW j \in Jobs, Submit(b, j) PROVE DrainInv'
  <2>1. /\ \A w \in Workers : wpc[w] = "running" => wpc'[w] = "running"
        /\ \A w \in Workers : wpc'[w] = "exited" => wpc[w] = "exited"
    BY <1>2 DEF Submit, TypeOK
  <2>2. /\ jobState' = [jobState EXCEPT ![j] = "queued"] /\ jobState[j] = "new"
        /\ running' = running /\ stopping' = stopping /\ stop' = stop
        /\ due' = (IF stopping THEN due ELSE due \cup {j})
        /\ jobState \in [Jobs -> JobStates] /\ due \subseteq Jobs
    BY <1>2 DEF Submit, TypeOK
  <2>3. /\ Len(queue') = Len(queue) + 1 /\ Len(queue) \in Nat
        /\ queue'[Len(queue')] = j
        /\ \A i \in 1..Len(queue) : queue'[i] = queue[i]
    BY <1>2 DEF Submit, TypeOK
  <2>4. JobsPlaced'
    <3>1. \A k \in Jobs : jobState'[k] = "queued" => \E i \in 1..Len(queue') : queue'[i] = k
      BY <2>2, <2>3 DEF JobsPlaced
    <3>2. \A k \in Jobs : jobState'[k] = "running" =>
             \E w \in Workers : wpc'[w] = "running" /\ running'[w] = k
      BY <2>1, <2>2 DEF JobsPlaced
    <3>3. \A k \in due' : jobState'[k] # "new"
      BY <2>2 DEF JobsPlaced
    <3> QED  BY <3>1, <3>2, <3>3 DEF JobsPlaced
  <2>5. ExitsLast'
    <3>1. stopping => \A k \in due' : jobState'[k] = jobState[k]
      BY <2>2 DEF JobsPlaced
    <3> QED
      BY <2>1, <2>2, <3>1 DEF ExitsLast
  <2>6. AllJoined'
    BY <1>2 DEF Submit, AllJoined, TypeOK
  <2>7. ShutdownDrains'
    BY <2>2 DEF ShutdownDrains, ExitsLast, JobsPlaced
  <2> QED  BY <2>4, <2>5, <2>6, <2>7
<1>3. CASE Notify(b)
  <2>1. \A w \in Workers : wpc'[w] = wpc[w] \/ (wpc[w] = "asleep" /\ wpc'[w] = "check")
    BY <1>3 DEF Notify, SubmitNotify, NotifyOne, TypeOK
  <2> QED
    BY <1>3, <2>1 DEF Notify, JobsPlaced, ExitsLast, AllJoined, ShutdownDrains
<1> QED
  BY <1>1, <1>2, <1>3 DEF Caller

LEMMA WorkerDrain ==
    ASSUME PoolInv, DrainInv, NEW w \in Workers, Worker(w) \/ SpuriousWake(w)
    PROVE  DrainInv'
<1> USE DEF PoolInv, DrainInv
<1>1. CASE Exit(w)
  <2>1. \A j \in Jobs : jobState[j] # "queued"
    BY <1>1 DEF Exit, JobsPlaced
  <2>2. \A v \in Workers : wpc'[v] = wpc[v] \/ (wpc[v] = "check" /\ wpc'[v] = "exited")
    BY <1>1 DEF Exit, TypeOK
  <2> QED
    BY <1>1, <2>1, <2>2 DEF Exit, TypeOK, JobsPlaced, ExitsLast, AllJoined, ShutdownDrains
<1>2. CASE Take(w)
  <2>0. /\ Head(queue) = queue[1] /\ Head(queue) \in Jobs
        /\ Len(queue') = Len(queue) - 1 /\ Len(queue) \in Nat \ {0}
        /\ \A i \in 1..Len(queue') : queue'[i] = queue[i + 1]
    BY <1>2 DEF Take, TypeOK
  <2>1. /\ jobState' = [jobState EXCEPT ![Head(queue)] = "running"]
        /\ jobState[Head(queue)] = "queued"
        /\ running' = [running EXCEPT ![w] = Head(queue)]
        /\ wpc' = [wpc EXCEPT ![w] = "running"] /\ wpc[w] = "check"
        /\ jobState \in [Jobs -> JobStates] /\ running \in [Workers -> Jobs \cup {NoJob}]
        /\ wpc \in [Workers -> WPCs]
        /\ due' = due /\ stopping' = stopping /\ stop' = stop /\ threads' = threads
        /\ due \subseteq Jobs
    BY <1>2, <2>0 DEF Take, TypeOK, QueueDistinct
  <2>2. JobsPlaced'
    <3>1. ASSUME NEW j \in Jobs, jobState'[j] = "queued"
          PROVE  \E i \in 1..Len(queue') : queue'[i] = j
      <4>1. jobState[j] = "queued" /\ j # queue[1]
        BY <2>0, <2>1, <3>1
      <4>2. PICK i \in 1..Len(queue) : queue[i] = j
        BY <4>1 DEF JobsPlaced
      <4>3. i - 1 \in 1..Len(queue') /\ queue'[i - 1] = j
        BY <2>0, <4>1, <4>2
      <4> QED  BY <4>3
    <3>2. ASSUME NEW j \in Jobs, jobState'[j] = "running"
          PROVE  \E v \in Workers : wpc'[v] = "running" /\ running'[v] = j
      <4>1. CASE j = Head(queue)
        BY <2>1, <4>1
      <4>2. CASE j # Head(queue)
        BY <2>1, <3>2, <4>2 DEF JobsPlaced
      <4> QED  BY <4>1, <4>2
    <3>3. \A j \in due' : jobState'[j] # "new"
      BY <2>0, <2>1 DEF JobsPlaced
    <3> QED  BY <3>1, <3>2, <3>3 DEF JobsPlaced
  <2>3. ExitsLast' /\ AllJoined' /\ ShutdownDrains'
    BY <2>0, <2>1 DEF ExitsLast, AllJoined, ShutdownDrains
  <2> QED  BY <2>2, <2>3
<1>3. CASE Sleep(w) \/ SpuriousWake(w)
  <2>1. \A v \in Workers : wpc'[v] = wpc[v]
          \/ {wpc[v], wpc'[v]} \subseteq {"check", "asleep"}
    BY <1>3 DEF Sleep, SpuriousWake, TypeOK
  <2> QED
    BY <1>3, <2>1
       DEF Sleep, SpuriousWake, JobsPlaced, ExitsLast, AllJoined, ShutdownDrains
<1>4. CASE Finish(w)
  <2>1. PICK j \in Jobs : j = running[w] /\ jobState[j] = "running"
    BY <1>4 DEF Finish, RunningDistinct
  <2>2. /\ jobState' = [jobState EXCEPT ![j] = "finished"]
        /\ wpc' = [wpc EXCEPT ![w] = "release"] /\ wpc[w] = "running"
        /\ jobState \in [Jobs -> JobStates] /\ wpc \in [Workers -> WPCs]
        /\ queue' = queue /\ running' = running /\ due' = due
        /\ stopping' = stopping /\ stop' = stop /\ threads' = threads
        /\ due \subseteq Jobs
    BY <1>4, <2>1 DEF Finish, TypeOK
  <2>3. JobsPlaced'
    BY <2>1, <2>2 DEF JobsPlaced
  <2>4. ExitsLast' /\ AllJoined' /\ ShutdownDrains'
    BY <2>1, <2>2 DEF ExitsLast, AllJoined, ShutdownDrains
  <2> QED  BY <2>3, <2>4
<1>5. CASE Release(w)
  <2>1. \A v \in Workers : v # w => wpc'[v] = wpc[v] /\ running'[v] = running[v]
    BY <1>5 DEF Release, TypeOK
  <2>2. wpc[w] = "release" /\ wpc'[w] = "check"
    BY <1>5 DEF Release, TypeOK
  <2> QED
    BY <1>5, <2>1, <2>2 DEF Release, JobsPlaced, ExitsLast, AllJoined, ShutdownDrains
<1> QED
  BY <1>1, <1>2, <1>3, <1>4, <1>5 DEF Worker

LEMMA ControlDrain ==
    ASSUME PoolInv, DrainInv, WaitIdle \/ CheckIdle \/ Shutdown \/ StopNotify \/ Join
    PROVE  DrainInv'
<1> USE DEF PoolInv, DrainInv
<1>1. CASE WaitIdle \/ CheckIdle \/ Shutdown
  BY <1>1 DEF WaitIdle, CheckIdle, Shutdown, TypeOK,
              JobsPlaced, ExitsLast, AllJoined, ShutdownDrains
<1>2. CASE StopNotify
  <2>1. \A w \in Workers : wpc'[w] = wpc[w] \/ (wpc[w] = "asleep" /\ wpc'[w] = "check")
    BY <1>2 DEF StopNotify, NotifyAll, TypeOK
  <2> QED
    BY <1>2, <2>1 DEF StopNotify, JobsPlaced, ExitsLast, AllJoined, ShutdownDrains
<1>3. CASE Join
  <2>1. PICK w \in Initial : wpc[w] = "exited"
    BY <1>3, PoolAssumption DEF Join, Joinable, AllJoined
  <2>2. \A v \in Workers : wpc[v] # "running"
    BY <1>3 DEF Join, Joinable, AllJoined
  <2>3. \A j \in due : jobState[j] = "finished"
    BY <2>1, <2>2, PoolAssumption DEF ExitsLast, JobsPlaced, TypeOK, JobStates
  <2> QED
    BY <1>3, <2>3 DEF Join, JobsPlaced, ExitsLast, AllJoined, ShutdownDrains
<1> QED
  BY <1>1, <1>2, <1>3

\* shutdown returns only when every job accepted before it began has run to
\* its end, on a pool of any size, however late its workers wake.
THEOREM ShutdownDrainsTheQueue == Spec => []ShutdownDrains
<1>1. PoolInv /\ DrainInv /\ [Next]_vars => DrainInv'
  <2> SUFFICES ASSUME PoolInv, DrainInv, [Next]_vars PROVE DrainInv'
    OBVIOUS
  <2>1. CASE UNCHANGED vars
    BY <2>1 DEF vars, DrainInv, JobsPlaced, ExitsLast, AllJoined, ShutdownDrains
  <2>2. CASE Next
    BY <2>2, CallerDrain, WorkerDrain, ControlDrain DEF Next
  <2> QED  BY <2>1, <2>2
<1>2. DrainInv => ShutdownDrains
  BY DEF DrainInv
<1> QED
  BY InitPool, NextPool, InitDrain, <1>1, <1>2, PTL DEF Spec
=============================================================================
