----------------------------- MODULE WorkerPool -----------------------------
(***************************************************************************)
(* The thread pool behind `parallel` nodes: submit, runAll, waitIdle,      *)
(* shutdown and workerLoop, with m_mutex, the two condition variables and  *)
(* the promise a runAll waits for.                                         *)
(*                                                                         *)
(* One step is one region under m_mutex, one notification or one join.  A  *)
(* job is a function of one runAll (a batch); a job may itself call runAll *)
(* (a parallel node inside a parallel branch).                             *)
(***************************************************************************)
EXTENDS Naturals, Sequences, FiniteSets

CONSTANTS
    Workers,      \* thread identities, the ones spawned later included
    Initial,      \* the threads the constructor spawns (m_max_threads of them)
    Jobs,         \* functions handed to runAll
    Batches,      \* calls of runAll
    BatchOf,      \* BatchOf[j]: the call job j belongs to
    Nested,       \* Nested[j]: the calls of runAll that job j makes
    Backlog,      \* queued jobs per thread that make growLocked act (4)
    NoJob,        \* "this worker runs nothing"
    SizeMod       \* size_t arithmetic is modulo this

External == Batches \ UNION {Nested[j] : j \in Jobs}

ASSUME PoolAssumption ==
    /\ IsFiniteSet(Workers) /\ Initial \subseteq Workers /\ Initial # {}
    /\ IsFiniteSet(Jobs) /\ NoJob \notin Jobs
    /\ BatchOf \in [Jobs -> Batches]
    /\ Nested \in [Jobs -> SUBSET Batches]
    /\ \A b \in Batches : \E j \in Jobs : BatchOf[j] = b
    /\ Backlog \in Nat
    /\ SizeMod \in Nat /\ SizeMod > Cardinality(Workers) + Cardinality(Jobs)

VARIABLES
    queue,        \* m_queue
    threads,      \* m_threads: handles not yet cleared by shutdown
    wpc,          \* where each worker is in workerLoop
    running,      \* the job each worker executes
    active,       \* m_active
    stopping,     \* m_stopping
    jobState,     \* history: what became of each job
    batch,        \* where each runAll is
    remaining,    \* its atomic counter
    fulfilled,    \* the runAlls whose promise `done` has been set
    stop,         \* where shutdown is
    due,          \* history: the jobs accepted before m_stopping was set
    idler         \* where a caller of waitIdle is

vars == <<queue, threads, wpc, running, active, stopping, jobState, batch,
          remaining, fulfilled, stop, due, idler>>
----------------------------------------------------------------------------
Max == Cardinality(Initial)
JobsOf(b) == {j \in Jobs : BatchOf[j] = b}

Init ==
    /\ queue = <<>>
    /\ threads = Initial
    /\ wpc = [w \in Workers |-> IF w \in Initial THEN "check" ELSE "unborn"]
    /\ running = [w \in Workers |-> NoJob]
    /\ active = 0
    /\ stopping = FALSE
    /\ jobState = [j \in Jobs |-> "new"]
    /\ batch = [b \in Batches |-> "idle"]
    /\ remaining = [b \in Batches |-> Cardinality(JobsOf(b))]
    /\ fulfilled = {}
    /\ stop = "out"
    /\ due = {}
    /\ idler = "out"

\* notify_one on m_condition: one sleeping worker, if any, re-checks.
NotifyOne(wp) ==
    IF \E w \in Workers : wp[w] = "asleep"
    THEN {[wp EXCEPT ![w] = "check"] : w \in {u \in Workers : wp[u] = "asleep"}}
    ELSE {wp}

\* notify_all on m_condition.
NotifyAll(wp) == [w \in Workers |-> IF wp[w] = "asleep" THEN "check" ELSE wp[w]]

\* Mutant: m_idle is never notified.
MutWakeIdler == idler

\* notify_all on m_idle.
WakeIdler == IF idler = "asleep" THEN "check" ELSE idler
----------------------------------------------------------------------------
\* runAll is called: by a request thread, or by the job that is running.
RunAll(b) ==
    /\ batch[b] = "idle"
    /\ b \in External \/ \E w \in Workers :
          running[w] # NoJob /\ wpc[w] = "running" /\ b \in Nested[running[w]]
    /\ batch' = [batch EXCEPT ![b] = "submitting"]
    /\ UNCHANGED <<queue, threads, wpc, running, active, stopping, jobState,
                   remaining, fulfilled, stop, due, idler>>

\* growLocked: only while fewer than m_max_threads handles are held.
MayGrow == Cardinality(threads) < Max

\* submit's region under m_mutex.  growLocked spawns a worker when the queue
\* is long and there is room, which only a pool that was shut down has.
Submit(b, j) ==
    /\ batch[b] = "submitting" /\ BatchOf[j] = b /\ jobState[j] = "new"
    /\ queue' = Append(queue, j)
    /\ jobState' = [jobState EXCEPT ![j] = "queued"]
    /\ due' = IF stopping THEN due ELSE due \cup {j}
    /\ batch' = [batch EXCEPT ![b] = "notify"]
    /\ \/ /\ Len(queue') > Max * Backlog /\ MayGrow
          /\ \E w \in Workers :
                /\ wpc[w] = "unborn"
                /\ threads' = threads \cup {w}
                /\ wpc' = [wpc EXCEPT ![w] = "check"]
       \/ /\ ~(Len(queue') > Max * Backlog /\ MayGrow)
          /\ UNCHANGED <<threads, wpc>>
    /\ UNCHANGED <<running, active, stopping, remaining, fulfilled, stop,
                   idler>>

\* Mutant: submit notifies only when the queue was empty before.
MutSubmitNotify(wp) == IF Len(queue) > 1 THEN {wp} ELSE NotifyOne(wp)

\* submit's notify_one, after it released m_mutex.
SubmitNotify(wp) == NotifyOne(wp)

Notify(b) ==
    /\ batch[b] = "notify"
    /\ wpc' \in SubmitNotify(wpc)
    /\ batch' = [batch EXCEPT ![b] =
          IF \E j \in JobsOf(b) : jobState[j] = "new" THEN "submitting" ELSE "wait"]
    /\ UNCHANGED <<queue, threads, running, active, stopping, jobState,
                   remaining, fulfilled, stop, due, idler>>

\* done_future.wait() returns once the last job fulfilled the promise.
RunAllReturns(b) ==
    /\ batch[b] = "wait" /\ b \in fulfilled
    /\ batch' = [batch EXCEPT ![b] = "returned"]
    /\ UNCHANGED <<queue, threads, wpc, running, active, stopping, jobState,
                   remaining, fulfilled, stop, due, idler>>
----------------------------------------------------------------------------
\* Mutant: m_active is a plain signed counter.
MutDecrement(n) == n - 1

\* --m_active on a size_t: below zero it wraps to the largest value.
Decrement(n) == (n + SizeMod - 1) % SizeMod

\* workerLoop up to the end of its first region: the predicate, then either
\* exit, or take the front of the queue, or sleep.
Exit(w) ==
    /\ wpc[w] = "check" /\ stopping /\ queue = <<>>
    /\ active' = Decrement(active)
    /\ idler' = WakeIdler
    /\ wpc' = [wpc EXCEPT ![w] = "exited"]
    /\ UNCHANGED <<queue, threads, running, stopping, jobState, batch,
                   remaining, fulfilled, stop, due>>

Take(w) ==
    /\ wpc[w] = "check" /\ queue # <<>>
    /\ queue' = Tail(queue)
    /\ running' = [running EXCEPT ![w] = Head(queue)]
    /\ jobState' = [jobState EXCEPT ![Head(queue)] = "running"]
    /\ active' = (active + 1) % SizeMod
    /\ wpc' = [wpc EXCEPT ![w] = "running"]
    /\ UNCHANGED <<threads, stopping, batch, remaining, fulfilled, stop, due,
                   idler>>

Sleep(w) ==
    /\ wpc[w] = "check" /\ ~stopping /\ queue = <<>>
    /\ wpc' = [wpc EXCEPT ![w] = "asleep"]
    /\ UNCHANGED <<queue, threads, running, active, stopping, jobState, batch,
                   remaining, fulfilled, stop, due, idler>>

\* A condition variable may wake a waiter for no reason.
SpuriousWake(w) ==
    /\ wpc[w] = "asleep"
    /\ wpc' = [wpc EXCEPT ![w] = "check"]
    /\ UNCHANGED <<queue, threads, running, active, stopping, jobState, batch,
                   remaining, fulfilled, stop, due, idler>>

\* Mutant: the counter is compared after the decrement, off by one.
MutIsLast(b) == remaining[b] <= 2

\* Mutant: the value fetch_sub returns is taken for the new one.
MutNeverLast(b) == remaining[b] = 0

\* remaining.fetch_sub(1) == 1
IsLast(b) == remaining[b] = 1

\* The function of a runAll ends, normally or with an exception that is kept
\* for the caller; the last one of its batch fulfils the promise.
Finish(w) ==
    /\ wpc[w] = "running"
    /\ LET j == running[w]
           b == BatchOf[j]
       IN  /\ \A n \in Nested[j] : batch[n] = "returned"
           /\ jobState' = [jobState EXCEPT ![j] = "finished"]
           /\ remaining' = [remaining EXCEPT ![b] = @ - 1]
           /\ fulfilled' = IF IsLast(b) THEN fulfilled \cup {b} ELSE fulfilled
    /\ wpc' = [wpc EXCEPT ![w] = "release"]
    /\ UNCHANGED <<queue, threads, running, active, stopping, batch, stop, due,
                   idler>>

\* The last region of workerLoop.
Release(w) ==
    /\ wpc[w] = "release"
    /\ active' = Decrement(active)
    /\ running' = [running EXCEPT ![w] = NoJob]
    /\ idler' = IF queue = <<>> /\ active' = 0 THEN WakeIdler ELSE idler
    /\ wpc' = [wpc EXCEPT ![w] = "check"]
    /\ UNCHANGED <<queue, threads, stopping, jobState, batch, remaining,
                   fulfilled, stop, due>>
----------------------------------------------------------------------------
\* waitIdle: the predicate under m_mutex, then return or sleep.
WaitIdle ==
    /\ idler = "out"
    /\ idler' = "check"
    /\ UNCHANGED <<queue, threads, wpc, running, active, stopping, jobState,
                   batch, remaining, fulfilled, stop, due>>

CheckIdle ==
    /\ idler = "check"
    /\ idler' = IF queue = <<>> /\ active = 0 THEN "returned" ELSE "asleep"
    /\ UNCHANGED <<queue, threads, wpc, running, active, stopping, jobState,
                   batch, remaining, fulfilled, stop, due>>

\* shutdown: m_stopping under m_mutex, notify_all, join every thread, clear.
Shutdown ==
    /\ stop = "out"
    /\ stopping' = TRUE
    /\ stop' = "notify"
    /\ UNCHANGED <<queue, threads, wpc, running, active, jobState, batch,
                   remaining, fulfilled, due, idler>>

StopNotify ==
    /\ stop = "notify"
    /\ wpc' = NotifyAll(wpc)
    /\ stop' = "join"
    /\ UNCHANGED <<queue, threads, running, active, stopping, jobState, batch,
                   remaining, fulfilled, due, idler>>

\* Mutant: shutdown detaches its threads instead of joining them.
MutJoinable(w) == TRUE

\* thread.join() returns when workerLoop has.
Joinable(w) == wpc[w] = "exited"

Join ==
    /\ stop = "join"
    /\ \A w \in threads : Joinable(w)
    /\ threads' = {}
    /\ stop' = "returned"
    /\ UNCHANGED <<queue, wpc, running, active, stopping, jobState, batch,
                   remaining, fulfilled, due, idler>>
----------------------------------------------------------------------------
Worker(w) == Exit(w) \/ Take(w) \/ Sleep(w) \/ Finish(w) \/ Release(w)

Caller(b) == (\E j \in Jobs : Submit(b, j)) \/ Notify(b) \/ RunAllReturns(b)

Next ==
    \/ \E b \in Batches : RunAll(b) \/ Caller(b)
    \/ \E w \in Workers : Worker(w) \/ SpuriousWake(w)
    \/ WaitIdle \/ CheckIdle \/ Shutdown \/ StopNotify \/ Join

Spec == Init /\ [][Next]_vars

\* Threads that can run do run, a parallel node that is reached calls runAll,
\* and a thread blocked on m_mutex gets it.
Fairness ==
    /\ \A b \in Batches : WF_vars(Caller(b))
    /\ \A b \in Batches \ External : WF_vars(RunAll(b))
    /\ \A w \in Workers : WF_vars(Worker(w))
    /\ WF_vars(CheckIdle) /\ WF_vars(StopNotify)

FairSpec == Spec /\ Fairness
----------------------------------------------------------------------------
WPCs == {"unborn", "check", "asleep", "running", "release", "exited"}
JobStates == {"new", "queued", "running", "finished"}
BatchPCs == {"idle", "submitting", "notify", "wait", "returned"}

TypeOK ==
    /\ queue \in Seq(Jobs)
    /\ threads \subseteq Workers
    /\ wpc \in [Workers -> WPCs]
    /\ running \in [Workers -> Jobs \cup {NoJob}]
    /\ active \in 0..(SizeMod - 1)
    /\ stopping \in BOOLEAN
    /\ jobState \in [Jobs -> JobStates]
    /\ batch \in [Batches -> BatchPCs]
    /\ remaining \in [Batches -> Nat]
    /\ fulfilled \subseteq Batches
    /\ stop \in {"out", "notify", "join", "returned"}
    /\ due \subseteq Jobs
    /\ idler \in {"out", "check", "asleep", "returned"}

Unfinished(b) == {j \in JobsOf(b) : jobState[j] # "finished"}

\* runAll returns only after every one of its functions has: they hold
\* references to its locals (remaining, first_error, the branch outcomes).
RunAllJoins ==
    \A b \in Batches : batch[b] = "returned" => Unfinished(b) = {}

\* No wake-up is lost: while a worker sleeps, every queued job is matched by a
\* worker about to look at the queue or by a notification on its way.
NoLostWakeup ==
    (\E w \in Workers : wpc[w] = "asleep") =>
        Len(queue) <= Cardinality({w \in Workers : wpc[w] = "check"})
                      + Cardinality({b \in Batches : batch[b] = "notify"})

\* shutdown lets the queue drain: when it returns, every job accepted before
\* it began has finished.
ShutdownDrains ==
    stop = "returned" => \A j \in due : jobState[j] = "finished"

\* runAll returns once all its functions have finished, and they do, unless
\* the pool is shut down: a job submitted after that may wait for ever.
EveryRunAllReturns ==
    \A b \in Batches :
        (batch[b] = "submitting") ~> (batch[b] = "returned" \/ stopping)

\* waitIdle returns when the queue has drained for good and nothing runs,
\* unless the pool is shut down: exiting workers leave m_active wrapped.
WaitIdleReturns ==
    (idler # "out" /\ [](queue = <<>> /\ \A w \in Workers : running[w] = NoJob))
        ~> (idler = "returned" \/ stopping)
============================================================================
