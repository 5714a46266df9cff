# SapoEngine: formal models and proofs

SapoEngine runs workflows (JSON documents of nodes) as *durable sessions*: a
session executes until it reaches a node that has to wait (for an answer, a
timer, a condition or an event), is written to a state store as a checkpoint,
and is resumed later, possibly by another thread or another process. This
directory holds TLA+ models of the engine: how a document is parsed, validated
and executed, what its expressions and queries mean, when its schedules fire,
and whether sessions, stores and pools are safe under concurrency, failures and
restarts. TLC configurations check them on small instances; TLAPS proofs hold
for every value of the constants.

Paths below are relative to the repository's root; `PROJECT.json` maps every
definition that models code to its lines, and lists the hazards, the findings
and the theorems.

## 1. The system

### Components

| Component | Source | State | Operations |
|---|---|---|---|
| Durable sessions | `src/runtime/Interpreter.cpp`, `Interpreter.hpp` | `m_event_subscriptions` under `m_mutex`; a `RunState` per call | `run`, `resumeSession`, `cancelSession`, `resumeFromTimer`, the event handler, `finishRun`, `armWakeup`, `disarmWakeup` |
| Interpreter control flow | `Interpreter.cpp` (`drive`, frames, `execParallel`) | frames, cursor, context of one run | node execution, loops, try/catch/finally, retries, parallel merge |
| Parser and validator | `src/parser` | none | a JSON document becomes a linked graph of nodes; targets, reachability, loops and cycles are checked |
| Expression language | `src/runtime/expressions`, `ExpressionEvaluator.cpp` | locals of the iterators | parsing, evaluation, templates |
| Data sources, tasks | `src/data`, `src/tasks` | registered providers; the context a task writes | query, paging, filter, validation; transform, script, subflow, event, command |
| Scheduler | `Scheduler.cpp` | `m_timers`, `m_jobs` with next run times, a registry file | `addJob`, `addTimer`, `cancelTimersForSession`, `tickUntil`, `saveToFile`, `loadFromFile`; cron expressions |
| Event bus | `EventBus.cpp` | subscribers, history ring | `subscribe`, `unsubscribe`, `publish` (snapshot, then callbacks) |
| Virtual machine, registry | `VirtualMachine.cpp`, `WorkflowRegistry.cpp` | owns the parts above; workflows by id | `start`, `stop`, deployment, `runBlueprint`, `startSession`, `publishEvent`, child runs |
| Worker pool | `WorkerPool.hpp` | queue, threads, `m_active`, two condition variables | `submit`, `runAll`, `waitIdle`, `growLocked`, `shutdown` |
| State store contract, memory store | `StateStore.hpp`, `StateStore.cpp` | checkpoint and version per session | `save`, `saveIf`, `load`, `remove`, `list` |
| File store | `StateStore.cpp` | one file per session, one temporary file | the same, with write-to-temporary and rename |
| Redis store | `src/redis/RedisStateStore.cpp` | hash per session, index sets, claim keys (on the server) | the same, `pruneExpired`, `tryClaim`, `releaseClaim` |
| Redis client | `src/redis/SocketRedisClient.cpp` | `m_idle`, `m_live`, sockets | `command`, `pipeline`, `acquire`, `release`, `withRetry` |
| HTTP, CLI, configuration, observability, utilities | `src/http`, `src/main.cpp`, `src/config`, `src/util` | little or none | I/O and text conversion |

### How they interact

The parser turns a document into nodes, hoists the bodies of loops, branches and
try blocks to the top level and links them; the validator accepts or refuses the
result; the registry keeps it. A request thread calls `run` or `resumeSession`.
The interpreter loads the checkpoint, removes the wake-ups of the session
(`disarmWakeup`: event bus and scheduler), executes nodes (`drive`), writes the
new checkpoint (`finishRun`, `IStateStore::save`) and arms the wake-ups that
checkpoint needs (`armWakeup`). Nodes evaluate expressions against their locals
and the context, query data sources, run child workflows on the same thread (or,
with `wait_for_completion: false`, hand them to the worker pool and go on) and
publish events, which start the workflows they trigger, again on that thread. The
scheduler's thread takes due timers under its lock and calls `resumeFromTimer`
outside it. A publisher copies the matching subscribers under the bus's lock and
calls them outside it; the interpreter's handler takes `m_mutex` for its whole
duration. A parallel node runs its branches with `WorkerPool::runAll` and merges
their contexts. With the Redis store every store call leases a connection of the
pool and may be retried once.

### What is hard

- Nothing locks a session for the duration of a resume; requests, timers and
  events on one session interleave at every store call and lock region.
- A host may choose the ids of its sessions and run one again while the first
  execution is parked or has ended; `run` neither looks at the stored checkpoint
  nor disarms it.
- A machine may be started again: the interpreter and the store are new, the
  event bus and what subscribed to it are not.
- Wake-ups live in memory while checkpoints live in the store: a crash, or a
  failing `save` between disarming and arming, separates the two.
- Snapshots (due timers, matching subscribers) are delivered after the lock is
  released, when the session may have moved on.
- Structure is lost twice: the parser flattens nesting into edges, and the
  interpreter rebuilds it as a stack of frames that survives suspension. Errors,
  `break`, jumps, retries and answers all have to find the right frame.
- Scopes of iterators are entries in one map of locals, shared by nested ones.
- Paging happens in the server, in the provider or in the registry.
- The next occurrence of a schedule is a search over a calendar, with months of
  different lengths, time zones and two day fields.
- Several threads may tick, while jobs are added, disabled, saved and loaded.
- `runAll` blocks the thread that calls it, and branches may call it again.
- A lost Redis reply leaves the client not knowing whether the command ran; it
  then sends it again.
- A pipeline answers per command, and one of the answers may be an error.
- Counters that drift (`m_live`, `m_active`) wrap, being `size_t`.
- Crashes between the temporary file and the rename, or while the registry of
  jobs is rewritten.

### What makes each part correct

Sessions: no segment of an execution skipped or run twice, an execution that ended
stays ended, armed wake-ups are those of the stored checkpoint, a parked session is
woken. Interpreter: a document does what its nesting says; every run comes to
rest; no write of a branch is lost by the join; an answer reaches the prompt it
was given to. Language: text means what it says. Queries: every row once.
Schedules: the earliest match. Scheduler: nothing fires twice, missed runs are
caught up as configured. Machine: each interpreter that listens starts a triggered workflow once,
and a deployment does not change what a parked session runs. Pool: `runAll`
joins, no wake-up lost, shutdown drains, everything returns. Stores: a
compare-and-swap that succeeds replaces what its caller read, no partial files,
the index agrees with the data. Client: each call gets its own answers, the
pool's count is right, nobody sleeps for ever. Claims: at most one holder.

## 2. Modules

| Module | Models | Checked with |
|---|---|---|
| `SessionEngine`, `SessionEngineProofs` | sessions, session timers, bus subscriptions, the store as one cell per session | `MCSessionEngine` |
| `WorkerPool`, `WorkerPoolProofs` | the pool, its mutex and condition variables, `runAll`, shutdown | `MCWorkerPool` |
| `StateStore`, `StateStoreProofs` | the abstract contract of `IStateStore`, and `InMemoryStateStore`, whose operations are atomic under its mutex | its two refinements |
| `FileStore` | `FileStateStore`, refining `StateStore` | `MCNode` |
| `Cron` | `CronExpression`: parsing and the next occurrence | the two below |
| `NextOccurrence` | one schedule asked for its next instant again and again (`nextScheduledTime`) | `MCNode` |
| `Scheduler` | jobs, timers, ticks, the saved registry | `MCNode` |
| `NodeProofs` | proofs about the file store, the calendar and the scheduler | |
| `RedisStore`, `RedisStoreProofs` | `RedisStateStore`, refining `StateStore` | `MCRedis`, `MCRedisStore` |
| `RedisClaims` (proved in `RedisStoreProofs`) | `tryClaim` and `releaseClaim` | `MCRedis` |
| `RedisPool`, `RedisPoolProofs` | `SocketRedisClient` | `MCRedisPool` |
| `Blueprint` | `WorkflowParser`: from a document to linked nodes | `MCWorkflows` in `MCRuntime` |
| `Validator` | `BlueprintValidator` | the same |
| `Interpreter`, `InterpreterProofs` | `drive`, frames, error routing, branches, suspension and resume | the same |
| `Structured` | reference: what a document means by its nesting | the same |
| `Sel` | the expression language: parser, evaluator, templates | `MCLanguage` in `MCRuntime` |
| `Meaning` | reference: shortest source of a tree, value under lexical scoping | the same |
| `DataSources` | providers, filters, paging; query, transform and script tasks | `MCData` in `MCRuntime` |
| `VirtualMachine`, `VirtualMachineProofs` | the machine with registry, event bus and child runs | `MCRuntime` |

`MCNode`, `MCRedis` and `MCRuntime` put several components that share no state
into one specification: a variable `part` is chosen initially, that component
takes its own steps and the variables of the others keep their initial values.
Where it can (all three modules in `MCNode`, both in `MCRedis`, `Interpreter` and
`VirtualMachine` in `MCRuntime`) such a module extends the component, so that the
properties it checks are the very definitions the theorems are about. `NodeRunsBoth`
and `RedisRunsBoth` are the other half of the argument: an execution of the
composition is one of each of its parts. The state space is the sum, not the product,
of the parts. Where components do
interact, one module models the interaction: `MCWorkflows` runs what `Blueprint`
parsed and `Validator` accepted, `DataSources` evaluates with `Sel`, `Scheduler`
asks `Cron` for the instants of its jobs, `SessionEngine` has sessions, timers, bus and store together, and
`VirtualMachine` machine, registry, bus and child runs.

### SessionEngine

A workflow is reduced to its suspension points `1..N` with a kind each: `input`
(a prompt, with a timeout if in `Timed`), `timer`, `poll` (a wait on a
condition) and `event`. Segment `k` is all that executes between suspension
point `k` and the next one; `effects[s][r][k]` is a history variable that counts
its runs in the `r`-th execution of `s`. `Outcomes(c, wake)` is what one `drive` can make of a session
parked there: go on, render the prompt again, turn a page, fail validation,
poll again, raise `TIMEOUT`, fail. What a segment does inside is `Interpreter`'s.
An action prompt calls its capability each time it is entered, also when it only
renders itself again (`ActionTasks.cpp` 177-196); that call belongs to no segment
and is not counted.

`RunOptions.session_id` lets the host choose an id, as `INTEGRATING.md` (172-187,
229) tells it to. `StartSession` therefore takes any id, also one with a parked or
ended checkpoint: the execution is a new one (`runs[s]`, at most `MaxRuns`), starts
at segment 0, overwrites the checkpoint when it is saved and disarms nothing.
`over[s]` remembers that an execution was started over a parked one, whose wake-ups
may still be there.

Callers are threads. One step of a caller is one region under a lock or one
store call, in the code's order: `Load`, `Disarm` (ids copied and erased under
`m_mutex`), `Unsubscribe` (one id at a time), `CancelTimers`, `Drive`, `Save`,
`Arm` (`addTimer`), `Subscribe`, `Register` (the id recorded under `m_mutex`).
`Tick` and `Publish` take the snapshot; `Deliver` is the next callback of it.
An event handler holds `m_mutex` from `Lock` to `Return`. `StoreFails` is a
`load` or `save` that throws, with the rest of the operation skipped and
nothing undone, and `Crash` the death and restart of the process: threads,
timers and subscriptions are gone, checkpoints stay. Sessions in `Children` are
subflows, which run with `persist = false` and so are never saved.

`Exclusive` restricts the behaviours to those in which a host never overlaps
two calls on one session. The code does not enforce this; section 5 says which
properties need it.

Left out: a `publish` made by a node of a workflow appears as a request of some
other thread, which leaves out only that it happens in the middle of a segment
(see the plan); every subscribed session matches every event; time is abstract,
so that any armed timer may be due at any tick.

### Blueprint, Validator, Interpreter, Structured

A document is a JSON value with types. `Blueprint` has a table of spellings per
builder, from which both the values and the set of keys that were read follow; a
builder gives the node, the nodes it hoists, the reasons to refuse it and its
warnings. Linking fills in the missing `next` of each list. Texts handed to
another component are judged by sets (which sources compile, which durations and
schedules are well formed, which slots can be evaluated, which texts are numbers). A
loop over a text takes the list it evaluates to, of any length (`MaxItems`); an array
that the document writes as its `collection` is dumped into one text and gives one
item, as `LoopTask::items` does; a `times` that is not numeric raises
`VALIDATION_ERROR`. `Validator` computes the closures that the code's
walks compute: unknown targets, unreachable nodes, misplaced `break` and
`continue`, cycles.

`Interpreter` executes what was accepted. `runs` maps a path to a run, `<<>>`
being the session and `<<i>>` the `i`-th branch of its parallel node. The steps
are those of `drive`: `TakeCursor` (budget, lookup, disabled nodes), then
`StepLoop`, `StepTry`, `StepCondition`, `RunParallel` or, for a task, `Activate`
(its signal is chosen among those its code can return; retries and the
consumption of an answer follow), `AdvanceStep` (one frame popped),
`JoinParallel`, and `RouteError`. `ResumeSession` continues with an answer,
an empty one or a timeout. The context is the set of keys with who wrote them
last, which is what merging tells apart.

`Structured` gives the set of traces and results of a document by recursion over
its nesting, without frames, hoisting or edges.

### Sel, Meaning, DataSources

`Sel` works on tokens, since the lexer is left out; a source that does not compile is
refused with its blueprint, before anything evaluates it. Each level of the recursive
descent is there, the evaluator threads the locals through every subexpression
as the code does (iterators, `sort` with a key among them, bind and erase `item` and
`index` in one map), and a library function evaluates the arguments its code reads, in
that order: `len` its first, `mod` its divisor before its dividend, `min` one after
the other up to the first that is no number. Templates have every spelling of the code: `${...}`, `$name`, `$name.field[index]`,
`$$` and `\$`; a template that is one slot keeps the type of its value. Numbers are
integers; `=~` and the functions on texts, objects, dates, digests and chance are left
out and no program of the run calls them. An exception is the value `Error(code)`.
C++ leaves open in which order `equals()` and `pow()` have their two arguments
evaluated; the model takes them from left to right.

`DataSources` has the object form and the program form of filters, the context,
mock, http and deferred providers, `DataSourceRegistry::run` with its paging and
`validate`, and what the query, transform and script tasks do with rows. In
`MCData` a session starts and then reads page after page. The HTTP server is
external: it answers a status and a body, and may or may not page by itself.

### Cron, NextOccurrence, Scheduler

`Cron` parses fields, macros and delays given as parts (`Written` says which parts
there are) and computes `nextAfter` day by day as the code does, in half minutes
since the epoch, so that an instant may lie between two minutes. Years, leap days and
weekdays come from the civil calendar. `NextOccurrence` asks a schedule, then asks it
again from its answer.

In `Scheduler` a tick reads the clock, takes what is due under `m_mutex` and
delivers it afterwards, one callback at a time, while other threads tick, add,
enable, replace, cancel, save and load. By the time it has the lock the clock may
have moved on, so that it works with any reading up to now (`Past`). `addJob` works
out the first occurrence before it takes the lock. The clock jumps between the
instants `Readings` at which somebody reads it. `NextOf` is the table of what
`nextAfter` answers for the schedules in use. `std::sort` leaves timers that are due
together in any order, hence the set `Sorted`. `regs` and `timersAdded` number the
registrations, so that the history knows an occurrence of a job from one of the job
that replaced it. Callbacks return; one that throws is left out. So is the "in N
minutes" schedule: `Scheduler.hpp` 44 says that it fires once, but nothing in the
scheduler reads `oneShot()`, and it repeats like `every N minutes`. Saving truncates the file and then writes it; a crash in
between leaves a registry that is cut short, which a load refuses.

### VirtualMachine

One host thread starts and stops the machine, deploys, runs, publishes and
resumes. What a run publishes or calls happens inside it: `stack` holds the open
publications and runs. A publication carries the positions of the matching subscribers
it has still to call (`todo`), the interpreter whose handler it is calling and the
workflows that handler has still to start (`starting`); a run carries the events it may
publish. Each start makes an interpreter and adds its subscription to the bus, which
outlives it. The interpreter of an earlier start has been freed; its handler still
runs and reads its services, which is undefined. `HandlerStarts` lets it start any
subset of what is triggered; that it may crash is not shown.

A subflow node that does not wait submits its child to the worker pool (`LaunchChild`,
at most `MaxJobs` queued) and `RunDetached` runs it later, between two calls of the
host: that it may overlap one is left out. `stop` shuts the pool down for good, and a
job submitted after that is "launched" and never run. Names are sequences of segments and
patterns are names or prefixes. Blueprints with equal names share an id, unless
`runBlueprint` finds the name taken: it then registers under `Private(k)`, the
"inline/" id with a UUID, where `k` counts the calls.

### WorkerPool

Workers are either not yet spawned, about to test the predicate of
`m_condition`, asleep, running a job, about to take the lock again, or gone.
`Submit` enqueues under the lock and `Notify` is the `notify_one` after it;
`Finish` is the atomic `fetch_sub` that fulfils the promise at zero. Condition
variables may wake spuriously. `Nested` says which `runAll` calls a job makes.
`m_active` is modulo `SizeMod`, since workers that leave decrement it without
having taken a job. Every job here belongs to a `runAll`. The other user of
`submit`, a detached subflow, is waited for by nobody (`Interpreter.cpp` 1455-1467);
it is in `VirtualMachine`.

### StateStore, FileStore, RedisStore, RedisClaims

`StateStore` has one cell per session with a value and a version, and a copy
(`held`) of what each client loaded last. `saveIf` compares the version of
that copy. `removed` is a history variable.

`FileStore` splits a write into the temporary file, its content and the
rename, under the store's mutex; any of them may fail and the process may crash
between them. `PathFor` maps ids to files; `DiskMayFill` lets a write stop
short without an error, which the code does not look for. A file that is there but
cannot be opened is read as absent by the code and is left out. Its refinement maps
a session to what `readCheckpointAt` returns for its file.

`RedisStore` runs one command of the server at a time. The save script compares,
stores and advances the version; with `atomic_index` it updates the index sets
as well, otherwise a pipeline of separate commands does so afterwards. `remove`,
`list` and `pruneExpired` read first and act on what they read. In a pipeline the
server may answer a command with an error (`Refuse`); the two scans take the error for
a hash that is gone and remove the session from every index (`RedisStateStore.cpp`
327-331, 412-414), which `delisted` records until its next write. A reply may be
lost after the command was executed; the client then sends it once more or gives
up (`GiveUp`), the latter also standing for a client that died. A command lost
on the way is not executed after its own retry. The status `remove` reads is a
number and never parses as a name, so that it always clears every index, as
the model does.

`RedisClaims` is the claim of one session: `SET NX PX`, the release script that
compares the token, expiry, lost replies and retries.

### RedisPool

A call acquires a connection (idle, newly opened, or after a wait with a
deadline), sends its commands, reads one reply each and releases it, marked as
broken after any error. `stream[c]` holds the replies not read yet, each named
after the call and the command it answers: the codec is abstracted to that.
`live` is modulo `SizeMod`. Connections may be refused or dropped, sockets
may time out (not retried), waits may expire. The destructor, which runs when nobody
uses the client, is left out, and with it `m_shutdown`.

## 3. Runs

| Run | Result | Shows |
|---|---|---|
| `AnyCallers` | pass | two request threads and the scheduler's thread on one session in any interleaving, with a failing store and a restart: `SubscriptionsAccounted`, `NoStepSkipped` |
| `SerialHost` | pass | a host that does not overlap calls but runs ids again, a durable session and a subflow: `EffectsAtMostOnce`, `WakeupsMatchCheckpoint`, `TerminalIsFinal`, and the liveness property `TimerWakes` |
| `Pool` | pass | two outer and one nested `runAll`, a `waitIdle` and a `shutdown`: `RunAllJoins`, `NoLostWakeup`, `ShutdownDrains`, and the liveness properties `EveryRunAllReturns`, `WaitIdleReturns` |
| `Node` | pass | file store with failing writes, removes, crashes: `NoPartialFile`, `CasReplacesWhatWasRead`, `ImplementsStore`; scheduler with two ticking threads, registrations, saves, loads and a crash: `DeliveredOnce`, `CatchesUp`; schedules over month ends, leap days and time zones: `NextIsEarliest` |
| `RedisPool` | pass | three threads, pipelines of two, a pool of one, every failure: `OwnAnswers`, `OpenBoundedByCallers`, `NoLostWakeup` |
| `Redis` | pass | the store in both index modes, with expiry, removes, scans, error replies and lost replies: `ImplementsStore`, `IndexAgrees`; three claimants with expiry and lost replies: `HolderKeepsClaim` |
| `Runtime` | pass | documents, expressions, queries and machines, see below |
| `DoubleResume` | violation | two overlapping resumes run one segment twice: the interpreter never uses `saveIf`, although `StateStore.hpp:107` describes it as what makes `resumeSession` safe |
| `Restart` | violation | after a restart a session parked on a timer is never resumed: the persisted timers are not read back, although `Interpreter.cpp:1350` says they are persisted for that |
| `PoolNested` | violation | a nested `runAll` on a pool with one worker never returns |
| `RedisRefused` | violation | `m_live`, said never to exceed `pool_size`, wraps when a refused connect decrements it at zero |
| `RedisConflict` | violation | a `saveIf` whose reply was lost reports a conflict with its own write, although a conflict is documented to mean that nothing was written |

The properties of `Runtime`:

| Part | Property | Says |
|---|---|---|
| workflow | `MeansItsNesting` | a session over a document without jumps or waits visits the nodes, in the order and with the result, that `Structured` reads off the nesting |
| workflow | `NeverLost` | what the parser built and the validator accepted is `WellFormed`, and never reaches an id that is no node |
| workflow | `FramesNest` | the owner of a frame is in the body of the frame below it, in a workflow whose bodies are left only where `drive` looks (`StaysInBody`) |
| workflow | `IteratorBound` | while a node runs, the iterator of every enclosing loop holds that loop's current item, if moreover the loops have names of their own (`LoopsApart`) |
| workflow | `AnswersBelongToPrompt` | a prompt takes the answer given to this visit of it; only after an error may another one reach it, in a workflow where a refused answer leaves that error (`RefusalsLeaveTrace`) |
| workflow | `BranchWritesSurvive` | a successful join keeps what a single branch wrote, and leaves alone what none wrote |
| workflow | `Terminates` | every run comes to rest again and again, cycles included (liveness) |
| language | `ParsesBack` | the parser gives a tree back from its shortest source |
| language | `MeansItsText` | programs have the value lexical scoping gives; a template keeps the type of a lone slot and renders any other text |
| data | `EveryRowOnce` | pages partition the filtered rows; totals are right; transforms conserve rows; validation catches missing providers |
| machine | `TriggersOnce` | the interpreter of the last start starts each workflow an event triggers exactly once; one of an earlier start at most once; nothing else starts one |
| machine | `ParkedKeepBlueprint` | running a blueprint never replaces the one a parked session runs |

To repeat a run: `tlc -config MCPool.cfg MCWorkerPool` in this directory; the
pairs of module and configuration are in `PROJECT.json`.

### Bounds

- `SessionEngine`: one session and two points (an event, a poll) with three
  threads where calls overlap: a session's races are between callers of the same
  session, and two requests plus the scheduler give each pair of wake-up, request
  and cancel. Where calls do not overlap, three points give every kind of
  checkpoint a successor of another kind, and the second session is a subflow; the two
threads are the scheduler's and one of the host's, and each id may be run twice
(`MaxRuns`), over a parked execution or over one that ended. Where calls overlap an id
is run once: what a second `run` adds there is one more unlocked `save`.
  `EffectCap = 2` stops counting executions at the second one. `MaxCrashes = 1`:
  a crash leaves nothing but the store, so a second starts from a state like the
  first's.
- `WorkerPool`: three workers of which two are started at once, so that the pool can grow by
  one; `Backlog` is the queue length beyond which it grows, four times the limit
  in the code and 1 here, so that four jobs reach it (only the threshold is
  scaled, not what happens at it); `PoolNested` keeps 4, which it never reaches.
  `SizeMod` is larger than any count that does not wrap; so it is in `RedisPool`
  (16), where the count of attempts bounds it (`PoolAssumption`).
- `FileStore`: two sessions, two clients, versions up to 2: enough for a
  removed file, a stale copy and a conflict. `MaxVersion` bounds the number of
  successive writes.
- `Scheduler`: one job id, two timers, two schedules (every minute, and one
  occurrence only), a clock read at the start and after each of three minutes, so
  that a tick may find three occurrences missed with a catch-up of none or two, two registrations (a
  replacement), one crash. Two threads tick at the same time only in
  executions that have neither saved nor crashed (`Bounded`): saving copies the jobs
  and timers and changes nothing a tick reads. `Node` has 558,688 distinct states.
- `RedisPool`: three threads on a pool of one give a holder, a sleeper
  and a newcomer; two commands per call allow a break between replies; `MaxCalls = 4`
  lets some thread use a connection that other threads left behind.
- `RedisStore`: one session suffices since no command relates two sessions'
  members; two values have different statuses, so that a write moves the
  session between indexes; versions up to 2; `MaxCalls = 3` calls of all
  clients, loads and scans included: two writers and a scan, or a write after a scan
  that delisted the session. With four calls the model has 4,291,147 states and
  the same properties hold. `RedisClaims` has no bound on steps.
- Workflows: every nesting of two levels of loops, conditions and try blocks
  over nodes that do nothing or a call that may fail, plus hand-written
  documents with `break`, `continue` and `terminate`, jumps, cycles, waits,
  prompts, retries, branches and all three merge policies; two of them are
  refused by the validator. `Budget = 40` is
  more than any run without a cycle visits, so that it stops only cycles;
  `BranchBudget = 5`; `MaxAnswers = 3` resumes reach every iteration of a
  prompt in a loop. Loops are over a text that evaluates to no, one or two items
  (`MaxItems`), over an array written in the document, a number of times, and over a
  `times` that is no number.
- Expressions: every construct over every construct, nested ternaries, and
  programs with iterators, quoted predicates, `??`, library functions (with arguments
  they read and arguments they do not) and errors, strict or not, in scopes with and
  without an outer `item`; templates of every spelling, alone and inside a text.
- Data: four rows with a repeated value, pages of one, two or three rows and
  without a limit; every provider; filters in both forms; rows of mixed types
  for the transforms.
- `NextOccurrence`: schedules chosen for month ends, leap days, both day fields, steps,
  ranges and years; three starting instants (before a leap day, before a new
  year, in the leap year 2096) and three time zones, three questions each;
  `SearchDays = 1500`, the code's own limit.
- `VirtualMachine`: three blueprints of which two share a name and two call each
  other, one of them also without waiting, one event that triggers two of them; `MaxDepth = 2`,
  so that the cycle of calls reaches it; two starts (`MaxStarts`), three calls in all,
  two publications, one queued job, `MaxStack = 4`. `Runtime` has 1,839,567 distinct
  states.

Clients, threads of the Redis pool and claimants are symmetric (`SYMMETRY`) where
no liveness property is checked. Deadlock is checked except in `Pool`,
`PoolNested` and `Runtime`, where every batch is submitted once, or every
document is executed, and the system then stops. The bounded store and scheduler
models have a self-loop for the end of their bounds, so that a call that is stuck
in the Redis models is reported as a deadlock.

### Fairness

`SessionEngine!Fairness`: weak fairness of every step of a caller (threads keep
running). Strong fairness of `Deliver`, which under `Exclusive` waits for other
calls on the session: a host that serialises calls per session does so with a
lock or queue that lets a waiting callback in eventually. Strong fairness of the
ticks that take a session's timers: the scheduler's thread polls for ever and a tick takes
every timer that is due, so a timer that stays armed, or is armed again and
again, is taken at some time. Requests have no fairness.

`WorkerPool!Fairness`: weak fairness for each caller inside `runAll`, each
worker, the thread in `waitIdle` and the `notify_all` of a shutdown: operating
system threads that can run do run and get a free mutex. A job that contains a
parallel node reaches it. Calls from outside, `waitIdle` and `shutdown` need
not happen.

`MCRuntime!RuntimeSpec`: weak fairness of a step of `drive`, in whichever run:
its loop has no wait of its own. Resumes have no fairness.

The other modules have safety properties only.

## 4. Proofs

All theorems hold for arbitrary sets of sessions, callers, clients, workers,
connections and workflows and arbitrary bounds, under the named assumptions of the
modules, which say what kind of value each constant is, and:

- the threads (sessions, worker pool, Redis pool) and the jobs are finitely many, and
  a worker pool starts at least one worker (its constructor turns 0 into
  the number of processors, or 4);
- a `size_t` is wider than the counts that do not wrap (`SizeMod`): workers plus
  jobs in the worker pool, connections plus attempts in the Redis pool. Nothing is
  assumed of the counts that do wrap, `m_active` of exiting workers and `m_live`
  of refused connections;
- the Redis store has finitely many sessions and at least one client, and the index of all
  sessions is not that of a status (`RedisAssumption`);
- the instants at which the scheduler's clock is read lie between 0 and `MaxTime`, its
  schedules have parts that a text can have, and the search looks at least one day
  ahead (`SchedulerAssumption`; `CalendarAssumption` is the same for `NextOccurrence`,
  where instants may be negative);
- nobody gives a workflow an id that `runBlueprint` makes up ("inline/" and a
  UUID), and `limits.max_depth` is positive, as `setMaxDepth` makes it
  (`MachineAssumption`).

| Theorem | States | Argument |
|---|---|---|
| `SessionEngineProofs!TypeCorrect`, `NoSubscriptionLeaks` | `[]TypeOK`, `[]SubscriptionsAccounted` | `IInv`: types; `Accounts` (the property id by id); `OneHolder` (an id in a local variable is in no other local of the session and not registered, so that one caller's unsubscribe cannot remove an id another one will record); `JobShape` and `LiveStep` (what a caller at each point carries) |
| `StepsInOrder` | `[]NoStepSkipped` | `OrderInv`: whatever checkpoint is in the store or in a caller's hands, the segment before it was executed |
| `EndedSessionsStayEnded` | `TerminalIsFinal` (only a later execution replaces the record of one that ended), if calls do not overlap | `SerialInv`: at most one caller is inside an operation on a session (`Sole`), the checkpoint it holds is the stored one or that of a new execution (`CopyIsFresh`), and executions are numbered in order (`Numbered`) |
| `SegmentsRunOnce` | `[]EffectsAtMostOnce`, if calls do not overlap, the store does not fail and nothing crashes | `OnceInv`: of the stored execution, the segments from its point onwards are not executed yet (`StoreAtFrontier`), or are by the one caller in flight (`CallerAtFrontier`); of an execution still to come, none is (`NotBegun`); a subflow is never stored (`ChildrenUnsaved`) |
| `WakeupsArmed` | `[]WakeupsMatchCheckpoint`, under the same hypotheses | `WakeInv` says for every point of a caller's operation which wake-ups of its session are left (`Underway`): after `Disarm` nothing is registered, after `Unsubscribe` the bus knows nothing, after `CancelTimers` there is no timer, and a caller that arms holds the checkpoint it stored. A session at rest (`AtRest`) has what its checkpoint asks for, or a tick took its timer; there is nothing besides, unless an execution was started over a parked one (`over`) and nothing has disarmed since |
| `WorkerPoolProofs!PoolTypes`, `RunAllIsAJoin` | `[]TypeOK`, `[]RunAllJoins` | `remaining[b]` is the number of unfinished jobs of `b` (`CounterExact`), which needs that a job is queued once and run by one worker |
| `WakeupsSuffice` | `[]NoLostWakeup` | while a worker sleeps, the queue is no longer than the number of workers about to test the predicate plus the notifications still owed; inductive as it stands, by counting: enqueue and `notify_one` are two steps, and a notification turns a sleeper into one that tests |
| `ShutdownDrainsTheQueue` | `[]ShutdownDrains` | `DrainInv`: a queued job is in the queue and a running one on a worker (`JobsPlaced`), a worker leaves only when no accepted job is queued (`ExitsLast`), and until `shutdown` returns every worker started has a handle that it joins (`AllJoined`) |
| `StateStoreProofs!OneWinner` | a successful `saveIf` of the contract replaces what its caller loaded | `CopyBehind`: a copy is the stored checkpoint or has a lower version |
| `NodeProofs!FilesAreWhole`, `FileStoreRefines`, `FilesOneWinner` | no partial file; `FileStore` implements `StateStore`; the rename of a `saveIf` replaces what was loaded | `FileInv`: the pending write carries the successor of the version in its file, and the temporary file is complete when it is renamed |
| `EarliestAnswer` | `[]NextIsEarliest` | `nextAfter` keeps to whole minutes and strictly ahead (`TimesOn`, `FirstOn`), a day comes before every minute of a later day (`Midnight` and `LocalDay` are inverse), and the first day of `FiringDays` and the first minute of it are minima of sets that are not empty. The early exit after the last year loses nothing: a later day cannot match |
| `SchedulerInvariant`, `SchedulerTypes`, `SchedulerDeliversOnce` | `[]SchedInv`, `[]SchedulerTypeOK`, `[]DeliveredOnce` | `SchedInv`: registrations are numbered (`Numbered`), and no two jobs and no two timers have the same number; what a thread has taken is taken by it alone, is not delivered yet, and lies before the next instant of the job it came from. `tickUntil` takes what is due and moves the job past the instant of the tick in one step, and `NextOf` answers a later instant than it was asked; so whatever is taken next is new |
| `SchedulerCatchesUp` | `CatchesUp`, if the search finds what there is (`FindsAll`) | `Missed` is a run of consecutive occurrences from the job's next instant (`RunTo`, `Between`), hence the earliest of them, and it ends at the limit or at the last one that is due (`RunIsFirst`); no other job contributes to its registration (`TakenOfOne`) |
| `NodeTypes` | `[]MCNode!TypesOK`, if the disk does not fill | from `FileInv` and `SchedulerTypes`, by `NodeRunsBoth` |
| `RedisStoreProofs!StoreTypes`, `RedisStoreRefines` | `[]TypeOK`; `RedisStore` implements `StateStore`: `ImplementsStore` | `StoreInv`: what a request on its way carries, per command. The save script is the linearization point of `save` and `saveIf`, `DEL` that of `remove` and of an expiry; the index commands, the lost replies and the second attempts are stutters, or are writes of their own |
| `AtomicIndexAgrees` | `[]IndexAgrees` with `atomic_index` | `IndexInv`: a session that was neither removed nor delisted is indexed as its hash says, and a write files it again (`FiledOrAbsent`), a scan collects only sessions that have or had a hash (`ScanFinds`), and a pipeline adds no member and takes out only sessions that are gone or that an error reply puts in doubt (`BatchesClear`) |
| `ClaimsExclude` | `[]HolderKeepsClaim` | `ClaimInv`: a grant on its way to a caller is still in the key unless it expired |
| `RedisTypes` | `[]MCRedis!TypesOK` | from `StoreTypes` and `ClaimInv`, by `RedisRunsBoth` |
| `RedisPoolProofs!CallsGetTheirAnswers` | `[]OwnAnswers` | `PoolInv`: a connection has one owner, an idle one has nothing left to read, and what a call has read plus what is in its stream is a run of its own answers |
| `ConnectionsBounded` | `[]OpenBoundedByCallers` | `OpenInv`: the threads that lease or open a connection and the idle connections together are no more than the threads that use the client |
| `SleepersAreAwaited` | `[]NoLostWakeup` | `CountInv`: `m_live` is at most the number of leases and connects there are, or it has wrapped and, each attempt lowering it once, stays out of reach of `pool_size`; so a thread sleeps only while another one will release and notify |
| `InterpreterProofs!FramesOfKnownNodes`, `ControlStaysInTheWorkflow` | `[]TypeOK`, `[]NeverLost`, if the workflows are `WellFormed` | `IInv`: every run is typed (`Typed`), its frames are of nodes that open such a frame, over one of their lists (`Shape`), and where it goes next, now or when it resumes, is a node (`Placed`) |
| `FramesMirrorTheNesting` | `[]FramesNest` | `Nested` in `Shape`: a frame's owner is a member of the list below it. Every transfer of control either stays in the list on top or pops frames until its target is in one (`resolveJump`) |
| `LoopsKeepTheirItem` | `[]IteratorBound` | `Bound`: the locals hold the item of every loop on the stack. A loop that ends erases its own iterator, which is not that of a loop below it (`LoopsApart`); an error pops frames without touching the locals of those that stay; a resume clears the locals and binds the loop frames again, from the outermost inwards (`Rebound`) |
| `AnswersReachTheirPrompt` | `[]AnswersBelongToPrompt` | `Answered`: an answer is in the locals only during the visit it was given to, or an error is there as well |
| `JoinsTakeWhatBranchesWrote` | `BranchWritesSurvive` | the branches of a waiting join exist and are finished; the merge is a recursion over the branches (`JoinUpTo`) for which the property is shown at every prefix |
| `VirtualMachineProofs!MachineTypes` | `[]MachineTypeOK`, with `DepthBounded` | `DepthCounts` in `RegistryInv`: neighbouring runs on the stack differ by one level, since only `RunChild` puts a run on a run, and each has passed the comparison with `MaxDepth`; a run under a handler starts again at 0, and a launched one at the level of its node plus one, which was compared too |
| `ResumedAsParked` | `[]ParkedKeepBlueprint` | `RegistryInv`: what is open is registered and runs the registered blueprint (`Known`), what was read from the directory stays as read or as the host replaced it (`DirectoryKept`), and an "inline/" id is new |
| `TriggeredOnce` | `[]TriggersOnce`, for any number of starts | `TriggerInv`: the bus has one wildcard subscription for each start (`OnePerStart`), a later publication is above an earlier one on the stack (`Numbered`), and what a publication has started and what it has still to start, by the handlers left to call, is together what was owed, nothing twice (`Progress`) |

Each inductive invariant was checked with TLC on the configuration of its run
before it was proved (the interpreter's and the machine's on their parts of
`MCRuntime`, the scheduler's on the 558,688 states of `Node`).

The conditions of a theorem (`Exclusive`, `~MayFail`, `MaxCrashes = 0`,
`Injective`, `~DiskMayFill`, `FindsAll`) are hypotheses in its statement. None of them can be dropped:
section 5 names what happens without each.

`FindsAll` says that a schedule for which `nextAfter` gives up within its days has no
later occurrence at all. `ShortClockFindsAll` shows that this is so whenever the clock
stops before the search does (`MaxTime <= SearchDays * Day`), as in the run. With a
longer clock it excludes the schedules with a gap of more than 1500 days between
two occurrences: 29 February in listed years that are not neighbours, or across 2100.

The theorems of the interpreter have two kinds of condition. `WellFormed(w)`, a
hypothesis, is what the parser builds and the validator accepts: edges lead to
nodes, lists are not empty, each node carries the fields of its type. It is not
taken on trust where documents are concerned: the first conjunct of `NeverLost`
has TLC evaluate it for every document that `Runtime` parses. `StaysInBody`,
`LoopsApart` and `RefusalsLeaveTrace` are disjuncts of the properties. They are conditions on
a workflow, not on an execution, and exclude the workflows for which the code
does not give the guarantee, which section 5 lists.

`Rebound`, `JoinUpTo`, `Missed` and `Kept` are recursive functions. What is proved about them is proved with the
least counterexample: a nonempty set of naturals has a least element
(`SetInduction`), which needs no theorem with an operator parameter.

Only model-checked: every liveness property (the prover has no rule for fairness
and `ENABLED`); the properties of the language, the data sources and
`MeansItsNesting`, whose definitions use `RECURSIVE` operators or recur over
trees; and `MCRuntime!TypesOK`, since `MCRuntime` reaches those operators. Its
parts, the type invariants of the interpreter and of the machine, are theorems.

## 5. Limits of what is guaranteed

Each of these is behaviour of the code that a property's premise, or the choice of
its instances, excludes. They are not runs, because nothing in the repository
promises the opposite, or because another run already shows the cause; those
that contradict a comment are named first.

- `Interpreter.cpp` says in `handleError` that a body without a handler runs
  "cleanup first, then the error keeps travelling outwards". When the try is the
  last node of its list, `advanceAfterNode` completes the session after the
  cleanup, and the error is gone (`ErrorsKeepTravelling` states the comment; it
  does not hold). A catch body that fails, and a `break`, likewise leave without
  the cleanup. `MeansItsNesting` is checked for documents without these.
- `Sel.hpp:14` says that "structured {left, operator, right} expressions are
  accepted too". They are rendered as a template, and a text that is not empty is
  true, whatever the operator says (`StructuredDecides` states the comment; it
  does not hold).
- `VirtualMachine.hpp` 7-12 shows `addBlueprintFile`, which starts the machine,
  followed by `start()`. The second start makes a new interpreter and a new
  subscription; the first one stays on the bus and its handler reads an interpreter
  that was freed, so that one event may start a workflow twice, against "a single
  wildcard subscription" (`Interpreter.cpp:1487`).
- `RedisStateStore.hpp:57` says that with `atomic_index` the index can never disagree.
  An error reply inside the pipeline of `list` or `pruneExpired` takes a stored session
  out of every index until its next write (`IndexAgrees` excludes `delisted`).
- `DataSourceProvider.cpp:550` calls paging in the registry "the safe default". A
  server that honours `offset` and `limit` is then paged a second time, and all
  pages but the first come out empty (`HasNumbers`).
- "7 == Sunday" (`Scheduler.cpp:142`) holds for a 7 alone: a range of weekdays
  that ends in 7 becomes one that ends in 0, which is refused or empty.
  `NextIsEarliest` reads schedules with the same `Parse` on both sides and says
  nothing about this.
- A second `run` of an id starts again at segment 0 with a new execution, replaces the
  stored checkpoint, of a session that has ended too, and leaves the timer or the
  subscriptions of a parked one beside its own (`Interpreter.cpp` 1031, 1082-1088).
  `EffectsAtMostOnce` and `TerminalIsFinal` are per execution, and
  `WakeupsMatchCheckpoint` allows the leftovers until the next resume or cancel
  disarms (`over`).
- A cancel that overlaps a running resume is overwritten by the resume's save
  (`TerminalIsFinal` needs `Exclusive`).
- A prompt timeout taken by a tick may be delivered after the session moved on
  to another prompt: `resumeFromTimer` does not compare the node.
- An event published between the save of a checkpoint and its subscription is
  not seen by the session.
- A `save` that throws after `disarmWakeup` leaves a checkpoint that nothing
  will wake (`WakeupsMatchCheckpoint` is checked without store failures), and
  the segment runs again when a client resumes from it (`SegmentsRunOnce` needs
  `~MayFail`; a crash before the save does the same).
- A body node whose `next` leaves the frame "escapes it", says
  `Interpreter.cpp:529`: `advanceAfterNode` unwinds the frames (`resolveJump`). A
  condition with an inline branch, a durable wait and an event handler go on at
  their target without that, so that the frame of a body that was left stays on the
  stack (`StaysInBody`).
- Nested loops that share an iterator or index name overwrite each other's item, as
  does a loop that names its iterator like a local that `drive` binds (`LoopsApart`).
- An answer that was refused stays in the locals; a loop that skips the failed
  item, or a try block with nothing but a cleanup, takes the error away, and a
  later prompt finds the answer (`RefusalsLeaveTrace`).
- `BlueprintValidator.cpp:149` does not look at the targets of a schedule node that names a
  workflow, so that its edges may lead nowhere: such a document is not `WellFormed`.
- A wait or event node without `next` inside a body ends the session when it is
  resumed. An answer that failed validation and was routed by `on_error` stays in
  the locals for a later prompt. `on_item_error` of an outer loop advances the
  innermost one. Nested loops with one iterator name lose the outer item when the
  inner one ends. A join that fails leaves the writes of the branches merged
  before it. Branches that write nothing are not charged to the session's budget.
- An iterator inside the predicate of another one erases the outer `item`; an
  error inside a quoted predicate turns into its text, which is true. `min` and
  `max` of an empty list give the largest double.
- Object filters compare a number with a text
  by spelling. A row's fields hide the accumulator and the context. A second query
  into one output may leave the total of the first. A resume does not validate
  sources again.
- A job whose next occurrence is more than 1500 days ahead is disabled. A crash while
  the registry is saved loses it. A schedule "in N minutes" repeats.
- An array written as the `collection` of a loop is one item, its text.
- After `stop` a detached subflow is reported as launched and never runs. A cycle
  of event triggers has no depth limit. The registry has no lock, so that a
  deployment from another thread is a data race.
- After `shutdown`, exiting workers have wrapped `m_active`, so that `waitIdle`
  does not return, and a later `runAll` waits for ever (`... \/ stopping`);
  threads spawned after it are joined by nobody.
- Versions start again at 1 when a session is removed and created again, so
  that an old copy may match (`removed`).
- `pathFor` is not injective, so that two ids may share a file (`Injective`).
- A full disk may leave a short temporary file that is renamed (`DiskMayFill`).
- Open Redis connections are bounded by the threads that use the client, not by
  `pool_size` (`OpenBoundedByCallers`). The second attempt of `withRetry` may lease another
  dropped connection. A notified thread that reaches its deadline wastes the
  notification (`wasted`).
- Without `atomic_index` two writers' index updates may run in the other order
  than their writes, and the index stays wrong; an expired or removed session
  may leave or lose index members (`IndexAgrees` excludes these).
- A claim whose reply was lost refuses its own caller until it expires.

## 6. Not modelled

The lexer, regular expressions and the functions on texts, objects, dates, digests
and chance of the expression language; the RESP codec; capabilities, which are callbacks of the host;
HTTP transports; provider configuration; logging and metrics; the command line;
hashes, encodings and date texts. They convert text or do I/O, keep no state that
two actors share, and their tests reach what can go wrong in them.
`MockRedisClient` is a test double of what `RedisStore` models. The history ring
of the event bus is only read by diagnostics. Vendored code under
`src/third_party` is left aside. `PROJECT.json` lists each with its reason.

Components are modelled apart from each other where they meet only through a call:
a segment of `SessionEngine` is not a run of `Interpreter`, and the branches of
`Interpreter` are not jobs of `WorkerPool`. Neither module therefore has the
deadlock of an event handler that holds `m_mutex` through a resume whose branch
publishes to a parked session.

## 7. Plan

Done, in this order: sessions, worker pool, store contract, file store, Redis
store, claims, Redis pool; then parser, validator and interpreter, expressions,
data sources, schedules and scheduler, the machine with registry and event bus;
then the proofs of every invariant of the sessions, the worker pool and the Redis pool,
of the Redis store's refinement, of the interpreter's invariants and join and of the
machine's invariants, of the calendar search, and of the scheduler. Next:

1. A composition of event bus, `m_mutex` and worker pool: a handler that holds
   `m_mutex` through a resume whose parallel branch publishes. Question: deadlock.
