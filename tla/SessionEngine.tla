--------------------------- MODULE SessionEngine ---------------------------
(***************************************************************************)
(* The life of durable sessions in the interpreter: run, resumeSession,    *)
(* cancelSession, prompt timeouts, timer ticks and event wake-ups, executed *)
(* by any number of callers (request threads, the scheduler thread,        *)
(* publishers) that share one state store, one scheduler and one event bus. *)
(*                                                                         *)
(* A workflow is abstracted to its suspension points 1..N: the nodes that  *)
(* park the session.  Segment k is everything that executes between        *)
(* suspension point k and the next one (segment 0 starts at the entry      *)
(* node).  A session id that the host chooses can be run again: every run  *)
(* is an execution of its own, and effects[s][r][k] counts how often its   *)
(* r-th execution went past suspension point k, that is, how often the     *)
(* side effects of segment k ran.  What a parked node does when it is only *)
(* rendered or asked again (an action prompt calls its capability each     *)
(* time it is entered) belongs to no segment and is not counted.           *)
(*                                                                         *)
(* Each caller executes its operation in the atomic steps the code has:    *)
(* one per lock region or store call.  Interpreter.cpp takes no lock       *)
(* around a whole resume, so steps of different callers interleave freely; *)
(* only an event handler keeps m_mutex for its duration.                   *)
(***************************************************************************)
EXTENDS Naturals, FiniteSets

CONSTANTS
    Sessions,     \* session ids
    Callers,      \* threads that call into the engine
    NoCaller,     \* "m_mutex is free"
    NoSession,    \* "this caller has no job"
    N,            \* number of suspension points of the workflow
    Kind,         \* Kind[k]: what suspension point k waits for
    Timed,        \* the prompts that have a timeout
    Children,     \* sessions run as subflows (RunOptions.persist = false)
    Exclusive,    \* the host never overlaps two calls on one session
    Ticker,       \* the scheduler's own thread (Scheduler::start)
    MaxRuns,      \* bound: how often a session id is run
    MaxCrashes,   \* how often the process may die and restart on its store
    MayFail       \* load and save may throw (ErrorCode::Store)

Kinds == {"input", "timer", "poll", "event"}

ASSUME EngineAssumption ==
    /\ IsFiniteSet(Callers)
    /\ N \in Nat \ {0}
    /\ Kind \in [1..N -> Kinds]
    /\ Timed \subseteq {k \in 1..N : Kind[k] = "input"}
    /\ Children \subseteq Sessions
    /\ NoCaller \notin Callers
    /\ NoSession \notin Sessions
    /\ Exclusive \in BOOLEAN
    /\ Ticker \in Callers
    /\ MaxRuns \in Nat \ {0}
    /\ MaxCrashes \in Nat
    /\ MayFail \in BOOLEAN

VARIABLES
    store,        \* IStateStore: the checkpoint of each session
    timers,       \* Scheduler::m_timers
    subs,         \* EventBus::m_subscribers: the live ids, by session
    registered,   \* Interpreter::m_event_subscriptions: the ids it knows
    mine,         \* ids in local variables of armWakeup or disarmWakeup
    mutex,        \* the caller holding Interpreter::m_mutex across steps
    pc,           \* where each caller is in its operation
    job,          \* what it is doing: operation, session, wake-up
    cp,           \* its copy of the checkpoint (RunState)
    todo,         \* wake-ups its tick or publish still has to deliver
    runs,         \* how many executions of each id have begun
    over,         \* history: a run began over the parked session, and no
                  \* resume or cancel has taken the wake-ups of both since
    effects,      \* history: how often each segment was executed
    crashes       \* how often the process died so far

vars == <<store, timers, subs, registered, mine, mutex, pc, job, cp, todo,
          runs, over, effects, crashes>>
----------------------------------------------------------------------------
Segments == 0..N
Reasons == {"input", "null", "timeout", "event"}
Ops == {"run", "resume", "cancel", "none"}
PCs == {"idle", "lock", "load", "disarm", "unsubscribe", "cancelTimers", "drive",
        "save", "arm", "subscribe", "register"}

Live == {"AwaitingInput", "Waiting"}
Terminal == {"Completed", "Failed", "Cancelled"}
Statuses == Live \cup Terminal \cup {"Absent"}

\* run stands for the execution_id: the number of the execution it belongs to.
Checkpoint == [status : Statuses, step : Segments, run : 0..MaxRuns]
Begun(r) == [status |-> "Absent", step |-> 0, run |-> r]
Absent == Begun(0)

\* A wake-up on its way to a session.  For a timer, n is the suspension point
\* it was armed for; for an event, n is the id of the subscription.
Wakeup == [sess : Sessions, wake : {"null", "timeout", "event"}, n : Nat]
Timer == [sess : Sessions, wake : {"null", "timeout"}, n : 1..N]

Job == [op : Ops, sess : Sessions \cup {NoSession}, wake : Reasons, n : Nat]
NoJob == [op |-> "none", sess |-> NoSession, wake |-> "null", n |-> 0]

\* What becomes of an execution's checkpoint c: it parks on suspension point k.
Parked(c, k) ==
    [status |-> IF Kind[k] = "input" THEN "AwaitingInput" ELSE "Waiting",
     step   |-> k,
     run    |-> c.run]

Ended(c, status) == [status |-> status, step |-> c.step, run |-> c.run]

\* Mutant: the cursor moves past a suspension point without parking there.
MutAfter(c) ==
    IF c.step + 1 < N THEN Parked(c, c.step + 2)
    ELSE IF c.step < N THEN Parked(c, c.step + 1) ELSE Ended(c, "Completed")

\* Mutant: a session that completes has its cursor past the last point.
MutPastEnd(c) ==
    IF c.step < N THEN Parked(c, c.step + 1)
    ELSE [status |-> "Completed", step |-> c.step + 1, run |-> c.run]

\* Its next segment ran to its end.
After(c) == IF c.step < N THEN Parked(c, c.step + 1) ELSE Ended(c, "Completed")

FailedAt(c) == Ended(c, "Failed")
CancelledAt(c) == Ended(c, "Cancelled")

\* checkpointFor: the timers persisted with, and armed for, checkpoint c.
TimersFor(s, c) ==
    IF c.status \notin Live THEN {}
    ELSE IF Kind[c.step] \in {"timer", "poll"}
         THEN {[sess |-> s, wake |-> "null", n |-> c.step]}
         ELSE IF c.step \in Timed
              THEN {[sess |-> s, wake |-> "timeout", n |-> c.step]}
              ELSE {}

\* armWakeup: a session parked on an event needs one bus subscription.
NeedsSubscription(c) == c.status \in Live /\ Kind[c.step] = "event"

TimersOf(s) == {tm \in timers : tm.sess = s}
----------------------------------------------------------------------------
Init ==
    /\ store = [s \in Sessions |-> Absent]
    /\ timers = {}
    /\ subs = [s \in Sessions |-> {}]
    /\ registered = [s \in Sessions |-> {}]
    /\ mine = [t \in Callers |-> {}]
    /\ mutex = NoCaller
    /\ pc = [t \in Callers |-> "idle"]
    /\ job = [t \in Callers |-> NoJob]
    /\ cp = [t \in Callers |-> Absent]
    /\ todo = [t \in Callers |-> {}]
    /\ runs = [s \in Sessions |-> 0]
    /\ over = [s \in Sessions |-> FALSE]
    /\ effects = [s \in Sessions |-> [r \in 1..MaxRuns |-> [k \in Segments |-> 0]]]
    /\ crashes = 0

\* A caller between two operations, with nothing left to deliver.
Free(t) == pc[t] = "idle" /\ todo[t] = {}

\* A host that serialises its calls per session never starts one while
\* another caller is still inside an operation on the same session.
MayStart(t, s) ==
    Exclusive => \A u \in Callers \ {t} : job[u].sess # s

Available(t) == mutex \in {NoCaller, t}

Begin(t, op, s, wake, n, at) ==
    /\ job' = [job EXCEPT ![t] = [op |-> op, sess |-> s, wake |-> wake, n |-> n]]
    /\ pc' = [pc EXCEPT ![t] = at]

\* The operation returns: an event handler drops m_mutex, everything local
\* goes out of scope.
Return(t) ==
    /\ pc' = [pc EXCEPT ![t] = "idle"]
    /\ job' = [job EXCEPT ![t] = NoJob]
    /\ cp' = [cp EXCEPT ![t] = Absent]
    /\ mine' = [mine EXCEPT ![t] = {}]
    /\ mutex' = IF mutex = t THEN NoCaller ELSE mutex

Goto(t, at) == pc' = [pc EXCEPT ![t] = at] /\ UNCHANGED <<job, mutex>>
----------------------------------------------------------------------------
\* Interpreter::run on the id the host chose, whether it is new or its session
\* is parked or over; without one, and for a subflow child, the id is a new
\* uuid.  The execution is always new.  The run loads an old checkpoint for its
\* names only, and does not disarm what that checkpoint had armed.
StartSession(t, s) ==
    /\ Free(t) /\ MayStart(t, s)
    /\ runs[s] < (IF s \in Children THEN 1 ELSE MaxRuns)
    /\ runs' = [runs EXCEPT ![s] = @ + 1]
    /\ over' = [over EXCEPT ![s] = @ \/ store[s].status \in Live]
    /\ cp' = [cp EXCEPT ![t] = Begun(runs[s] + 1)]
    /\ Begin(t, "run", s, "null", 0, IF s \in Children THEN "drive" ELSE "load")
    /\ UNCHANGED <<store, timers, subs, registered, mine, mutex, todo, effects, crashes>>

\* Interpreter::resumeSession called by a client, with an answer ("input") or
\* with the empty answer that resume does not count as one ("null").
ResumeSession(t, s, wake) ==
    /\ Free(t) /\ MayStart(t, s)
    /\ Begin(t, "resume", s, wake, 0, "load")
    /\ UNCHANGED <<store, timers, subs, registered, mine, mutex, cp, todo, runs, over, effects, crashes>>

\* Interpreter::cancelSession.
CancelSession(t, s) ==
    /\ Free(t) /\ MayStart(t, s)
    /\ Begin(t, "cancel", s, "null", 0, "load")
    /\ UNCHANGED <<store, timers, subs, registered, mine, mutex, cp, todo, runs, over, effects, crashes>>

\* Mutant: only prompt timeouts are ever taken.
MutDue == {tm \in timers : tm.wake = "timeout"}

\* The timers whose time may have come: any of them.
Due == timers

\* Scheduler::tickUntil: the due timers leave m_timers under the lock; the
\* callbacks run after it is released.
Tick(t) ==
    /\ Free(t)
    /\ \E due \in SUBSET Due \ {{}} :
          /\ timers' = timers \ due
          /\ todo' = [todo EXCEPT ![t] = due]
    /\ UNCHANGED <<store, subs, registered, mine, mutex, pc, job, cp, runs, over, effects, crashes>>

\* EventBus::publish: the matching subscribers are copied under the lock and
\* called after it is released.
Publish(t) ==
    /\ Free(t)
    /\ \E s \in Sessions : subs[s] # {}
    /\ todo' = [todo EXCEPT ![t] =
          UNION {{[sess |-> s, wake |-> "event", n |-> i] : i \in subs[s]} : s \in Sessions}]
    /\ UNCHANGED <<store, timers, subs, registered, mine, mutex, pc, job, cp, runs, over, effects, crashes>>

\* The next callback of a tick (resumeFromTimer) or of a publish (the handler
\* armWakeup subscribed, which takes m_mutex before it does anything).
Deliver(t) ==
    /\ pc[t] = "idle"
    /\ \E w \in todo[t] :
          /\ MayStart(t, w.sess)
          /\ todo' = [todo EXCEPT ![t] = @ \ {w}]
          /\ Begin(t, "resume", w.sess, w.wake, w.n,
                   IF w.wake = "event" THEN "lock" ELSE "load")
    /\ UNCHANGED <<store, timers, subs, registered, mine, mutex, cp, runs, over, effects, crashes>>
----------------------------------------------------------------------------
\* The event handler's lock_guard on the recursive m_mutex.
Lock(t) ==
    /\ pc[t] = "lock" /\ mutex = NoCaller
    /\ mutex' = t
    /\ pc' = [pc EXCEPT ![t] = "load"]
    /\ UNCHANGED <<store, timers, subs, registered, mine, job, cp, todo, runs, over, effects, crashes>>

\* Mutant: resumeSession accepts a session that already completed.
MutResumable(c) == c.status \in Live \cup {"Completed"}

\* The status check of resumeSession, resumeFromTimer and the event handler.
Resumable(c) == c.status \in Live

\* state_store->load.  A run goes on with its new execution, a resume stops
\* here unless the session is suspended, a cancel goes on to disarm whatever
\* it found.
Load(t) ==
    /\ pc[t] = "load"
    /\ LET c == store[job[t].sess]
       IN  \/ /\ job[t].op = "run"
              /\ Goto(t, "drive") /\ UNCHANGED <<cp, mine>>
           \/ /\ job[t].op = "cancel" \/ (job[t].op = "resume" /\ Resumable(c))
              /\ cp' = [cp EXCEPT ![t] = c]
              /\ Goto(t, "disarm") /\ UNCHANGED mine
           \/ /\ job[t].op = "resume" /\ ~Resumable(c)
              /\ Return(t)
    /\ UNCHANGED <<store, timers, subs, registered, todo, runs, over, effects, crashes>>

\* Mutant: the ids stay in m_event_subscriptions after they are copied.
MutForget(s) == UNCHANGED registered

\* disarmWakeup erases the session's entry of m_event_subscriptions.
Forget(s) == registered' = [registered EXCEPT ![s] = {}]

\* disarmWakeup under m_mutex: the ids are moved to a local vector.
Disarm(t) ==
    /\ pc[t] = "disarm" /\ Available(t)
    /\ LET s == job[t].sess
       IN  \/ /\ registered[s] = {}
              /\ Goto(t, "cancelTimers") /\ UNCHANGED <<registered, mine>>
           \/ /\ registered[s] # {}
              /\ mine' = [mine EXCEPT ![t] = registered[s]]
              /\ Forget(s)
              /\ Goto(t, "unsubscribe")
    /\ UNCHANGED <<store, timers, subs, cp, todo, runs, over, effects, crashes>>

\* Then, with m_mutex released, the loop over EventBus::unsubscribe, which
\* takes the bus's own lock for one id at a time.
Unsubscribe(t) ==
    /\ pc[t] = "unsubscribe"
    /\ \E id \in mine[t] :
          /\ subs' = [subs EXCEPT ![job[t].sess] = @ \ {id}]
          /\ mine' = [mine EXCEPT ![t] = @ \ {id}]
          /\ Goto(t, IF mine[t] = {id} THEN "cancelTimers" ELSE "unsubscribe")
    /\ UNCHANGED <<store, timers, registered, cp, todo, runs, over, effects, crashes>>

\* Mutant: a resume leaves the timer it was parked on armed.
MutCancelTimersForSession(s) == UNCHANGED timers

\* Scheduler::cancelTimersForSession.
CancelTimersForSession(s) == timers' = timers \ TimersOf(s)

\* Mutant: cancelSession cancels finished sessions too.
MutCancellable(c) == c.status # "Absent"

\* Only a live session can be cancelled.
Cancellable(c) == c.status \in Live

\* The timers go, then a cancel decides whether there is anything to write.
CancelTimers(t) ==
    /\ pc[t] = "cancelTimers"
    /\ CancelTimersForSession(job[t].sess)
    /\ over' = [over EXCEPT ![job[t].sess] = FALSE]
    /\ \/ /\ job[t].op = "resume"
          /\ Goto(t, "drive") /\ UNCHANGED <<cp, mine>>
       \/ /\ job[t].op = "cancel" /\ Cancellable(cp[t])
          /\ cp' = [cp EXCEPT ![t] = CancelledAt(@)]
          /\ Goto(t, "save") /\ UNCHANGED mine
       \/ /\ job[t].op = "cancel" /\ ~Cancellable(cp[t])
          /\ Return(t)
    /\ UNCHANGED <<store, subs, registered, todo, runs, effects, crashes>>

\* The prompt c is parked on is entered again (ActionTask): a null wake-up
\* renders it once more, an answer is accepted, turns a page or fails its
\* validation.
PromptOutcomes(c, wake) ==
    {Parked(c, c.step)} \cup (IF wake = "null" THEN {} ELSE {After(c), FailedAt(c)})

\* A wait is over when its time or its event has come; a poll (WaitTask)
\* evaluates its condition again.
WaitOutcomes(c) ==
    {After(c), FailedAt(c)} \cup (IF Kind[c.step] = "poll" THEN {Parked(c, c.step)} ELSE {})

\* What run or resume hands to drive decides how far the session gets.  A
\* timeout raises TIMEOUT at the parked node, which fails the session unless a
\* handler routes it onwards.
Outcomes(c, wake) ==
    IF c.step = 0 \/ wake = "timeout" THEN {After(c), FailedAt(c)}
    ELSE IF Kind[c.step] = "input" THEN PromptOutcomes(c, wake)
    ELSE WaitOutcomes(c)

\* Executions are counted up to two: more repetitions show nothing new.
EffectCap == 2
Bump(n) == IF n < EffectCap THEN n + 1 ELSE n

\* resume/run up to drive's return: the session executes its next segment, to
\* its end or to a failure, unless it parks where it was parked.
Drive(t) ==
    /\ pc[t] = "drive"
    /\ \E c \in Outcomes(cp[t], job[t].wake) :
          /\ cp' = [cp EXCEPT ![t] = c]
          /\ effects' = IF c = cp[t] THEN effects
                        ELSE [effects EXCEPT ![job[t].sess][cp[t].run][cp[t].step] = Bump(@)]
    /\ Goto(t, "save")
    /\ UNCHANGED <<store, timers, subs, registered, mine, todo, runs, over, crashes>>

\* finishRun (or cancelSession): the unconditional state_store->save, skipped
\* for a subflow child, and the step armWakeup takes next.
Save(t) ==
    /\ pc[t] = "save"
    /\ LET s == job[t].sess
       IN  /\ store' = IF s \in Children THEN store ELSE [store EXCEPT ![s] = cp[t]]
           /\ \/ /\ TimersFor(s, cp[t]) # {}
                 /\ Goto(t, "arm") /\ UNCHANGED <<cp, mine>>
              \/ /\ NeedsSubscription(cp[t])
                 /\ Goto(t, "subscribe") /\ UNCHANGED <<cp, mine>>
              \/ /\ TimersFor(s, cp[t]) = {} /\ ~NeedsSubscription(cp[t])
                 /\ Return(t)
    /\ UNCHANGED <<timers, subs, registered, todo, runs, over, effects, crashes>>

\* Scheduler::addTimer: the id is session/reason, so a timer for the same
\* session and reason is replaced.
AddTimer(tm) ==
    timers' = {old \in timers : old.sess # tm.sess \/ old.wake # tm.wake} \cup {tm}

\* armWakeup for a checkpoint that carries a timer.
Arm(t) ==
    /\ pc[t] = "arm"
    /\ \E tm \in TimersFor(job[t].sess, cp[t]) : AddTimer(tm)
    /\ Return(t)
    /\ UNCHANGED <<store, subs, registered, todo, runs, over, effects, crashes>>

\* EventBus::subscribe.  The id, new on the bus, is in a local variable until
\* the next step, which needs m_mutex.  (The model takes the least id that is
\* free: m_next_id only has to differ from the ids in use.)
Subscribe(t) ==
    /\ pc[t] = "subscribe"
    /\ LET s == job[t].sess
       IN  \E id \in 1..(Cardinality(subs[s]) + 1) :
              /\ id \notin subs[s] /\ 1..(id - 1) \subseteq subs[s]
              /\ subs' = [subs EXCEPT ![s] = @ \cup {id}]
              /\ mine' = [mine EXCEPT ![t] = {id}]
    /\ Goto(t, "register")
    /\ UNCHANGED <<store, timers, registered, cp, todo, runs, over, effects, crashes>>

\* armWakeup records the id.
Register(t) ==
    /\ pc[t] = "register" /\ Available(t)
    /\ registered' = [registered EXCEPT ![job[t].sess] = @ \cup mine[t]]
    /\ Return(t)
    /\ UNCHANGED <<store, timers, subs, todo, runs, over, effects, crashes>>

\* A store that cannot be reached throws out of load or save; the callers
\* (resumeFromTimer, publish, the host) catch it and nothing is undone.
StoreFails(t) ==
    /\ MayFail
    /\ pc[t] \in {"load", "save"}
    /\ Return(t)
    /\ UNCHANGED <<store, timers, subs, registered, todo, runs, over, effects, crashes>>

\* The process dies and is started again on the same store: threads, timers
\* and subscriptions are memory, and VirtualMachine::start re-arms nothing.
Crash ==
    /\ crashes < MaxCrashes
    /\ crashes' = crashes + 1
    /\ timers' = {}
    /\ subs' = [s \in Sessions |-> {}]
    /\ registered' = [s \in Sessions |-> {}]
    /\ mine' = [t \in Callers |-> {}]
    /\ mutex' = NoCaller
    /\ pc' = [t \in Callers |-> "idle"]
    /\ job' = [t \in Callers |-> NoJob]
    /\ cp' = [t \in Callers |-> Absent]
    /\ todo' = [t \in Callers |-> {}]
    /\ UNCHANGED <<store, runs, over, effects>>
----------------------------------------------------------------------------
\* The scheduler's thread serves no requests and publishes nothing.
Request(t) ==
    /\ t # Ticker
    /\ \/ Publish(t)
       \/ \E s \in Sessions :
             \/ StartSession(t, s)
             \/ ResumeSession(t, s, "input")
             \/ ResumeSession(t, s, "null")
             \/ CancelSession(t, s)

\* A step inside an operation that has begun.
Step(t) ==
    \/ Deliver(t) \/ Lock(t) \/ Load(t) \/ Disarm(t) \/ Unsubscribe(t)
    \/ CancelTimers(t) \/ Drive(t) \/ Save(t) \/ Arm(t) \/ Subscribe(t) \/ Register(t)

Next ==
    \/ \E t \in Callers : Request(t) \/ Tick(t) \/ Step(t) \/ StoreFails(t)
    \/ Crash

Spec == Init /\ [][Next]_vars

\* Fairness: threads keep running, the scheduler's thread polls for ever, and
\* a host that serialises calls per session lets a waiting callback in after
\* finitely many other calls.  A tick takes every timer that is due, so a due
\* timer is not passed over.
Fairness ==
    /\ \A t \in Callers : WF_vars(Step(t)) /\ SF_vars(Deliver(t))
    /\ \A s \in Sessions : SF_vars(Tick(Ticker) /\ TimersOf(s)' # TimersOf(s))

FairSpec == Spec /\ Fairness
----------------------------------------------------------------------------
TypeOK ==
    /\ store \in [Sessions -> Checkpoint]
    /\ timers \in SUBSET Timer
    /\ subs \in [Sessions -> SUBSET Nat]
    /\ registered \in [Sessions -> SUBSET Nat]
    /\ mine \in [Callers -> SUBSET Nat]
    /\ mutex \in Callers \cup {NoCaller}
    /\ pc \in [Callers -> PCs]
    /\ job \in [Callers -> Job]
    /\ cp \in [Callers -> Checkpoint]
    /\ todo \in [Callers -> SUBSET Wakeup]
    /\ runs \in [Sessions -> 0..MaxRuns]
    /\ over \in [Sessions -> BOOLEAN]
    /\ effects \in [Sessions -> [1..MaxRuns -> [Segments -> 0..EffectCap]]]
    /\ crashes \in 0..MaxCrashes

\* Some caller is inside an operation on session s.
InFlight(s) == \E t \in Callers : job[t].sess = s

\* The ids of session s in local variables of its callers.
Held(s) == UNION {mine[t] : t \in {u \in Callers : job[u].sess = s}}

\* No subscription leaks: an id that is live on the bus is known to
\* disarmWakeup or to the caller that is about to record or to unsubscribe it,
\* and these know no id that is not live, whatever interleaves between
\* EventBus::subscribe, EventBus::unsubscribe and m_event_subscriptions.
SubscriptionsAccounted ==
    \A s \in Sessions : subs[s] = registered[s] \cup Held(s)

\* No interleaving of callers, store failure or restart makes an execution jump
\* over a suspension point: a segment executes only when the one before it has,
\* in the same execution (resume continues from a checkpoint that finishRun
\* wrote, and that carries its execution_id).
NoStepSkipped ==
    \A s \in Sessions, r \in 1..MaxRuns, k \in 1..N :
        effects[s][r][k] > 0 => effects[s][r][k - 1] > 0

\* No segment of a workflow, so no side-effecting command node in it, is
\* executed twice by one execution: not when the session is resumed, cancelled,
\* timed out or woken, nor when its id is run again and the wake-ups the old
\* execution left behind resume the new one.
EffectsAtMostOnce ==
    \A s \in Sessions, r \in 1..MaxRuns, k \in Segments : effects[s][r][k] <= 1

\* A session that completed, failed or was cancelled keeps that checkpoint: a
\* late resume, cancel, timer or event never brings it back.  Only a later
\* execution, which the host began on the same id, takes its place.
TerminalIsFinal ==
    [][\A s \in Sessions :
          store[s].status \in Terminal =>
              store'[s] = store[s] \/ store'[s].run > store[s].run]_vars

\* Its timer has fired, and the tick that took it has not called back yet.
OnItsWay(tm) == \E t \in Callers : tm \in todo[t]

\* Nothing that the stored checkpoint needs to be woken is missing.
WakeupsPresent(s) ==
    /\ NeedsSubscription(store[s]) => subs[s] # {}
    /\ \A tm \in TimersFor(s, store[s]) : tm \in timers \/ OnItsWay(tm)

\* Nothing is armed that it does not ask for.
NothingLeftOver(s) ==
    /\ TimersOf(s) \subseteq TimersFor(s, store[s])
    /\ Cardinality(subs[s]) <= IF NeedsSubscription(store[s]) THEN 1 ELSE 0

\* Between operations the wake-ups in memory are those the stored checkpoint
\* asks for: its timer is armed (or on its way in a tick), it is subscribed to
\* its event, and disarmWakeup knows all that is subscribed.  More is armed
\* only when a run began over the parked session, which does not disarm; the
\* next resume or cancel takes those wake-ups too.
WakeupsMatchCheckpoint ==
    \A s \in Sessions \ Children : ~InFlight(s) =>
        /\ registered[s] = subs[s]
        /\ WakeupsPresent(s)
        /\ over[s] \/ NothingLeftOver(s)

\* A session parked on a timer leaves that checkpoint: a timer that is due
\* resumes it (resumeFromTimer).
TimerWakes ==
    \A s \in Sessions, r \in 1..MaxRuns, k \in 1..N :
        LET c == [status |-> "Waiting", step |-> k, run |-> r]
        IN  (Kind[k] = "timer" /\ store[s] = c) ~> (store[s] # c)
============================================================================
