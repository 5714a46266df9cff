------------------------------ MODULE Scheduler ------------------------------
(***************************************************************************)
(* Scheduler: the jobs and timers of one engine, the ticks that hand what  *)
(* is due to the callbacks, and the file the registry is saved to.  A tick *)
(* reads the clock, takes what is due under m_mutex (by then the clock may *)
(* have moved on), and runs the callbacks after it let go of it; addJob    *)
(* works out the first instant before it takes m_mutex.  Several threads   *)
(* may tick: the scheduler's own and whoever calls tick.                   *)
(***************************************************************************)
EXTENDS Cron, SequencesExt

CONSTANTS
    Schedules,     \* the schedules jobs are registered with, by name
    TextOf,        \* the text of each
    OffsetOf,      \* and the offset of its time zone
    JobIds, Owners, TimerIds,
    Tickers,       \* the threads that call tick
    CatchUps,      \* max_catch_up of a job that catches up; 0: it does not
    Dues,          \* due_ms of timers
    Readings,      \* the instants at which the clock is read
    MaxTime,       \* the last of them
    MaxRegs,       \* registrations of jobs and timers, loads included
    MaxCrashes

ASSUME SchedulerAssumption ==
    /\ Never \notin Int /\ SearchDays \in Nat \ {0}
    /\ \A s \in Schedules : Written(TextOf[s]) /\ OffsetOf[s] \in Int
    /\ CatchUps \subseteq Nat /\ Dues \subseteq Nat
    /\ MaxTime \in Nat /\ 0 \in Readings /\ Readings \subseteq 0..MaxTime

VARIABLES
    clock,
    jobs, timers,  \* m_jobs, m_timers
    adding,        \* an addJob between the reading of the clock and m_mutex
    tick,          \* per thread: what it took and still delivers
    saved,         \* the file of the registry
    regs,          \* registrations so far: each job carries the one it comes from
    fired,         \* history: the occurrences delivered, per registration
    again,         \* history: an occurrence or a timer was delivered twice
    timersAdded,   \* registrations of timers so far
    expired,       \* history: the timers delivered
    crashes

schedulerVars == <<clock, jobs, timers, adding, tick, saved, regs, fired, again, timersAdded,
                   expired, crashes>>
history == <<fired, again, expired>>
----------------------------------------------------------------------------
Idle == [at |-> "idle"]
NoFile == [state |-> "absent", jobs |-> <<>>, timers |-> <<>>]
NoJob == [id |-> Never]

SchedulerInit ==
    /\ clock = 0
    /\ jobs = <<>> /\ timers = <<>>
    /\ adding = NoJob
    /\ tick = [k \in Tickers |-> Idle]
    /\ saved = NoFile
    /\ regs = 0 /\ timersAdded = 0 /\ crashes = 0
    /\ fired = {} /\ expired = {} /\ again = FALSE

\* Time passes.
Pass ==
    /\ \E t \in Readings : t > clock /\ clock' = t
    /\ UNCHANGED <<jobs, timers, adding, tick, saved, regs, timersAdded, crashes>>
    /\ UNCHANGED history

\* The members of a sequence that are in S, in their order.
Kept(seq, S) ==
    LET kept[n \in 0..Len(seq)] ==
            IF n = 0 THEN <<>>
            ELSE IF seq[n] \in S THEN Append(kept[n - 1], seq[n]) ELSE kept[n - 1]
    IN  kept[Len(seq)]
----------------------------------------------------------------------------
\* CronExpression::nextAfter of each schedule that parses, at any instant.
NextOf ==
    [s \in {r \in Schedules : Parses(TextOf[r])} |->
        [t \in 0..MaxTime |-> NextAfter(Parse(TextOf[s]), t, OffsetOf[s])]]
----------------------------------------------------------------------------
\* rescheduleLocked: a schedule without a next instant disables its job.
Rescheduled(job, from) ==
    IF NextOf[job.schedule][from] = Never
    THEN [job EXCEPT !.enabled = FALSE, !.next = 0]
    ELSE [job EXCEPT !.next = NextOf[job.schedule][from]]

\* A registration takes the place of the one with its id.
Replacing(seq, x) == Append(Kept(seq, {y \in ToSet(seq) : y.id # x.id}), x)

\* addJob up to m_mutex: the first instant, unless the caller set a later one.
\* A text that does not parse throws.
AddJob(id, s, enabled, limit, next) ==
    /\ adding = NoJob /\ regs + timersAdded < MaxRegs
    /\ Parses(TextOf[s])
    /\ LET job == [id |-> id, schedule |-> s, enabled |-> enabled, limit |-> limit,
                   next |-> next, reg |-> regs + 1]
       IN  adding' = IF next <= clock THEN Rescheduled(job, clock) ELSE job
    /\ regs' = regs + 1
    /\ UNCHANGED <<clock, jobs, timers, tick, saved, timersAdded, crashes>> /\ UNCHANGED history

\* ... and the registration, which replaces a job of that id.
InsertJob ==
    /\ adding # NoJob
    /\ jobs' = Replacing(jobs, adding)
    /\ adding' = NoJob
    /\ UNCHANGED <<clock, timers, tick, saved, regs, timersAdded, crashes>> /\ UNCHANGED history

RemoveJob(id) ==
    /\ \E i \in DOMAIN jobs : jobs[i].id = id
    /\ jobs' = Kept(jobs, {j \in ToSet(jobs) : j.id # id})
    /\ UNCHANGED <<clock, timers, adding, tick, saved, regs, timersAdded, crashes>>
    /\ UNCHANGED history

EnableJob(id, enabled) ==
    /\ \E i \in DOMAIN jobs :
          /\ jobs[i].id = id
          /\ jobs' = [jobs EXCEPT ![i] =
                IF enabled THEN Rescheduled([@ EXCEPT !.enabled = TRUE], clock)
                ELSE [@ EXCEPT !.enabled = FALSE]]
    /\ UNCHANGED <<clock, timers, adding, tick, saved, regs, timersAdded, crashes>>
    /\ UNCHANGED history
----------------------------------------------------------------------------
\* Mutant: the timer is only appended.
MutSorted(seq) == {seq}

\* std::sort by due_ms, which leaves equal ones in any order.
Sorted(seq) ==
    {t \in {[i \in DOMAIN seq |-> seq[p[i]]] : p \in Bijection(DOMAIN seq, DOMAIN seq)} :
        \A i, j \in DOMAIN seq : i < j => t[i].due <= t[j].due}

\* addTimer: replaces a timer of that id.
AddTimer(id, s, due) ==
    /\ regs + timersAdded < MaxRegs
    /\ timers' \in Sorted(Replacing(timers,
                    [id |-> id, session |-> s, due |-> due, reg |-> timersAdded + 1]))
    /\ timersAdded' = timersAdded + 1
    /\ UNCHANGED <<clock, jobs, adding, tick, saved, regs, crashes>> /\ UNCHANGED history

\* cancelTimer and cancelTimersForSession.
CancelTimers(gone) ==
    /\ gone # {}
    /\ timers' = Kept(timers, ToSet(timers) \ gone)
    /\ UNCHANGED <<clock, jobs, adding, tick, saved, regs, timersAdded, crashes>>
    /\ UNCHANGED history
----------------------------------------------------------------------------
IsDue(job, now) == job.enabled /\ job.next > 0 /\ job.next <= now

\* The instants a due job fires for in one tick: limit of them when it catches
\* up, and one otherwise.
Limit(job) == IF job.limit = 0 THEN 1 ELSE job.limit

\* Mutant: the first instant after the tick's is taken too.
MutMissed(job, now) ==
    LET due[n \in 0..Limit(job)] ==
            IF n = 0 THEN <<job.next>>
            ELSE LET last == due[n - 1][Len(due[n - 1])]
                     next == IF last > MaxTime THEN Never ELSE NextOf[job.schedule][last]
                 IN  IF n = Limit(job) \/ Len(due[n - 1]) < n \/ next = Never
                     THEN due[n - 1] ELSE Append(due[n - 1], next)
    IN  due[Limit(job)]

Missed(job, now) ==
    LET due[n \in 0..Limit(job)] ==
            IF n = 0 THEN <<job.next>>
            ELSE LET next == NextOf[job.schedule][due[n - 1][Len(due[n - 1])]]
                 IN  IF n = Limit(job) \/ Len(due[n - 1]) < n \/ next = Never THEN due[n - 1]
                     ELSE IF next > now THEN due[n - 1]
                     ELSE Append(due[n - 1], next)
    IN  due[Limit(job)]

DueJobs(now) ==
    FlattenSeq([i \in DOMAIN jobs |->
        IF ~IsDue(jobs[i], now) THEN <<>>
        ELSE LET times == Missed(jobs[i], now)
             IN  [n \in DOMAIN times |-> [reg |-> jobs[i].reg, at |-> times[n]]]])

\* Mutant: the job is rescheduled from the instant it fired for.
MutAfterFiring(job, now) ==
    Rescheduled(job, job.next)

\* The job a tick leaves behind; last_fire_ms and fire_count, which nothing
\* reads, are left out.
AfterFiring(job, now) == Rescheduled(job, now)

DueTimers(now) == Kept(timers, {t \in ToSet(timers) : t.due <= now})
Remaining(now) == Kept(timers, {t \in ToSet(timers) : t.due > now})

\* What a thread has still to deliver.
Took(j, t) == IF j = <<>> /\ t = <<>> THEN Idle ELSE [at |-> "deliver", jobs |-> j, timers |-> t]

\* What a tick may have read by now.
Past == {t \in Readings : t <= clock}

\* tickUntil under m_mutex, for the instant now that tick read on its way.
Take(k, now) ==
    /\ tick[k] = Idle
    /\ tick' = [tick EXCEPT ![k] = Took(DueJobs(now), DueTimers(now))]
    /\ jobs' = [i \in DOMAIN jobs |->
           IF IsDue(jobs[i], now) THEN AfterFiring(jobs[i], now) ELSE jobs[i]]
    /\ timers' = Remaining(now)
    /\ UNCHANGED <<clock, adding, saved, regs, timersAdded, crashes>> /\ UNCHANGED history

\* The callbacks, jobs first, outside m_mutex.
Deliver(k) ==
    /\ tick[k] # Idle
    /\ LET j == tick[k].jobs
           t == tick[k].timers
       IN  \/ /\ j # <<>>
              /\ tick' = [tick EXCEPT ![k] = Took(Tail(j), t)]
              /\ fired' = fired \cup {Head(j)}
              /\ again' = (again \/ Head(j) \in fired)
              /\ UNCHANGED expired
           \/ /\ j = <<>>
              /\ tick' = [tick EXCEPT ![k] = Took(j, Tail(t))]
              /\ expired' = expired \cup {Head(t).reg}
              /\ again' = (again \/ Head(t).reg \in expired)
              /\ UNCHANGED fired
    /\ UNCHANGED <<clock, jobs, timers, adding, saved, regs, timersAdded, crashes>>
----------------------------------------------------------------------------
\* saveToFile: toJson of the whole registry, over the old saved.
SaveToFile ==
    /\ crashes < MaxCrashes
    /\ saved' = [state |-> "whole", jobs |-> jobs, timers |-> timers]
    /\ UNCHANGED <<clock, jobs, timers, adding, tick, regs, timersAdded, crashes>>
    /\ UNCHANGED history

\* The process dies, perhaps within saveToFile; nothing but the file is left.
ProcessDies ==
    /\ crashes < MaxCrashes
    /\ crashes' = crashes + 1
    /\ jobs' = <<>> /\ timers' = <<>> /\ adding' = NoJob
    /\ tick' = [k \in Tickers |-> Idle]
    /\ saved' \in {saved, [NoFile EXCEPT !.state = "cut"]}
    /\ UNCHANGED <<clock, regs, timersAdded>> /\ UNCHANGED history

\* A job as loadFromFile leaves it.
Reloaded(job, now, reg) ==
    LET j == [job EXCEPT !.reg = reg]
    IN  IF j.enabled /\ j.next <= 0 THEN Rescheduled(j, now) ELSE j

\* loadFromFile replaces the registry; a file that does not parse changes
\* nothing.  What was delivered after the save is delivered again: the jobs
\* and timers of the file count as registered anew.
LoadFromFile ==
    /\ saved.state = "whole"
    /\ regs + timersAdded + Len(saved.jobs) + Len(saved.timers) <= MaxRegs
    /\ jobs' = [i \in DOMAIN saved.jobs |-> Reloaded(saved.jobs[i], clock, regs + i)]
    /\ timers' = [i \in DOMAIN saved.timers |-> [saved.timers[i] EXCEPT !.reg = timersAdded + i]]
    /\ regs' = regs + Len(saved.jobs)
    /\ timersAdded' = timersAdded + Len(saved.timers)
    /\ UNCHANGED <<clock, adding, tick, saved, crashes>> /\ UNCHANGED history

SchedulerNext ==
    \/ Pass \/ InsertJob \/ SaveToFile \/ ProcessDies \/ LoadFromFile
    \/ \E id \in JobIds, s \in Schedules, enabled \in BOOLEAN, n \in CatchUps, next \in {0, MaxTime} :
          AddJob(id, s, enabled, n, next)
    \/ \E id \in JobIds : RemoveJob(id) \/ \E enabled \in BOOLEAN : EnableJob(id, enabled)
    \/ \E id \in TimerIds, s \in Owners, due \in Dues : AddTimer(id, s, due)
    \/ \E id \in TimerIds : CancelTimers({t \in ToSet(timers) : t.id = id})
    \/ \E s \in Owners : CancelTimers({t \in ToSet(timers) : t.session = s})
    \/ \E k \in Tickers : Deliver(k) \/ \E now \in Past : Take(k, now)

SchedulerSpec == SchedulerInit /\ [][SchedulerNext]_schedulerVars
----------------------------------------------------------------------------
\* m_jobs and m_timers have one entry per id, the timers in the order they
\* fall due, and an enabled job has an instant to come: a tick skips a job
\* without one, so it would be listed as pending and never run.
SchedulerTypeOK ==
    /\ \A i \in DOMAIN jobs :
          /\ jobs[i].next \in Nat /\ jobs[i].enabled \in BOOLEAN
          /\ jobs[i].enabled => jobs[i].next > 0
    /\ IsInjective([i \in DOMAIN jobs |-> jobs[i].id])
    /\ IsInjective([i \in DOMAIN timers |-> timers[i].id])
    /\ \A i, j \in DOMAIN timers : i < j => timers[i].due <= timers[j].due
    /\ saved.state \in {"absent", "cut", "whole"}

\* No occurrence of a registered job, and no timer, is handed to its callback
\* twice, whoever ticks, and whatever is enabled, replaced or cancelled while
\* the callbacks run.
DeliveredOnce == ~again

\* The instants at which a calendar schedule fires.
Occurs(s, t) == t > 0 /\ NextOf[s][t - 1] = t

\* The instants a job may fire for in a tick: its next one and all since.
Missable(job, now) == {t \in job.next..now : t = job.next \/ Occurs(job.schedule, t)}

\* Those of got are the earliest of due, as many as the limit allows.
Earliest(got, due, limit) ==
    /\ Cardinality(got) = Min({limit, Cardinality(due)})
    /\ \A x \in got : x.at \in due
    /\ \A x \in got, t \in due : t < x.at => \E y \in got : y.at = t

\* What a sequence of occurrences has of one registration.
OfReg(occurrences, reg) == {x \in ToSet(occurrences) : x.reg = reg}

\* A job that catches up fires for the instants it missed, the earliest first
\* and no more than its limit; one that does not fires for a single one.
CatchesUp ==
    [][\A k \in Tickers : tick[k] = Idle /\ tick'[k] # Idle =>
          \A now \in Past : Take(k, now) =>
              \A i \in DOMAIN jobs :
                IsDue(jobs[i], now) /\ TextOf[jobs[i].schedule].form # "relative" =>
                  Earliest(OfReg(tick'[k].jobs, jobs[i].reg),
                           Missable(jobs[i], now), Limit(jobs[i]))]_schedulerVars
=============================================================================
