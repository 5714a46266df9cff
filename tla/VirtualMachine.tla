--------------------------- MODULE VirtualMachine ---------------------------
(***************************************************************************)
(* VirtualMachine with the WorkflowRegistry and the EventBus it owns: one  *)
(* host thread starts and stops the machine, registers blueprints, runs    *)
(* them, publishes events and resumes sessions.  Everything an event or a  *)
(* subflow starts runs on that thread, inside the call: stack holds the    *)
(* publications and runs that are open.  Only a detached subflow is handed *)
(* to the worker pool, which runs it between two calls of the host.  A     *)
(* name is a sequence of segments, and a pattern a name or a prefix.       *)
(***************************************************************************)
EXTENDS Integers, Sequences, SequencesExt, FiniteSets

CONSTANTS
    NameParts,      \* of which names, patterns and the names of events are made
    Blueprints,
    NameOf,        \* metadata.name
    TriggerOf,     \* trigger.event: [name, wild], or NoTrigger
    CallsOf,       \* the workflows its subflow nodes call and wait for
    LaunchesOf,    \* the workflows its subflow nodes launch: wait_for_completion = false
    PublishesOf,   \* the events its event nodes publish
    Directory,     \* the files of the workflow directory: [stem, blueprint]; Broken does not parse
    Broken, NoTrigger,
    Events,
    Configs,       \* what start may find: [ok, stateDir, redis]
    Stores,        \* the store the host injected
    MaxDepth,      \* limits.max_depth
    MaxStarts, MaxCalls, MaxEvents, MaxStack, MaxJobs

\* The id runBlueprint gives to a blueprint whose name is taken: "inline/" and
\* a UUID.
Private(k) == <<"inline", k>>

ASSUME MachineAssumption ==
    /\ Broken \notin Blueprints
    /\ \A b \in Blueprints : PublishesOf[b] \subseteq Seq(NameParts)
    /\ Events \subseteq Seq(NameParts)
    /\ \A f \in Directory : f.blueprint \in Blueprints \cup {Broken}
    /\ Stores \subseteq {"memory", "file", "redis", "shared"}
    /\ MaxDepth \in Nat \ {0} /\ MaxStarts \in Nat /\ MaxCalls \in Nat
    \* Nobody gives a workflow such an id.
    /\ \A k \in 0..MaxCalls : /\ \A b \in Blueprints : NameOf[b] # Private(k)
                             /\ \A f \in Directory : f.stem # Private(k)

VARIABLES
    vm,            \* [started, interpreter, registry, store, pool, problems]; pool: it takes up jobs
    subs,          \* m_subscribers: [pattern, interpreter], in order
    stack,         \* what the thread is in the middle of
    jobs,          \* the pool's queue: [id, depth, interpreter]
    parked,        \* suspended sessions: the workflow id and the blueprint each ran
    calls,         \* calls of the host so far
    events,        \* publications so far
    triggered,     \* history: per publication, what it started: <<interpreter, workflow>>
    owed,          \* history: per publication, [workflows, interpreter] as it found them
    loaded         \* history: the ids the host itself registered, by any load

machineVars == <<vm, subs, stack, jobs, parked, calls, events, triggered, owed, loaded>>
----------------------------------------------------------------------------
Wildcard == [name |-> <<>>, wild |-> TRUE]

\* EventBus::matches, and the comparison of workflowsTriggeredBy.
Hits(pattern, event) ==
    IF pattern.wild THEN IsPrefix(pattern.name, event) ELSE pattern.name = event

With(registry, id, b) == [x \in DOMAIN registry \cup {id} |-> IF x = id THEN b ELSE registry[x]]

\* workflowsTriggeredBy, in no particular order.
TriggeredBy(registry, event) ==
    {id \in DOMAIN registry :
        TriggerOf[registry[id]] # NoTrigger /\ Hits(TriggerOf[registry[id]], event)}

\* unresolvedReferences.
Dangling(registry) ==
    {id \in DOMAIN registry :
        ~(CallsOf[registry[id]] \cup LaunchesOf[registry[id]] \subseteq DOMAIN registry)}

\* loadDirectory: a file that does not parse is a problem and the others are
\* registered under their stems.
ParsedFiles(files) == {f \in files : f.blueprint # Broken}
WithDirectory(registry, files) ==
    [x \in DOMAIN registry \cup {f.stem : f \in ParsedFiles(files)} |->
        IF \E f \in ParsedFiles(files) : f.stem = x
        THEN (CHOOSE f \in ParsedFiles(files) : f.stem = x).blueprint ELSE registry[x]]

MachineInit ==
    /\ \E s \in Stores :
          vm = [started |-> FALSE, interpreter |-> 0, registry |-> <<>>, store |-> s, pool |-> TRUE,
                problems |-> {}]
    /\ subs = <<>> /\ stack = <<>> /\ jobs = <<>> /\ parked = {}
    /\ calls = 0 /\ events = 0
    /\ triggered = <<>> /\ owed = <<>> /\ loaded = {}
----------------------------------------------------------------------------
\* The store a configuration asks for: state_redis wins, and state_dir only
\* replaces a store of this node.
StoreFor(store, c) ==
    IF c.redis = "ok" THEN "redis"
    ELSE IF c.stateDir /\ store \in {"memory", "file"} THEN "file"
    ELSE store

\* start: configuration, blueprints, a new interpreter, the audit.
Started(m, c) ==
    LET registry == WithDirectory(m.registry, Directory)
    IN  [started |-> TRUE,
         interpreter |-> m.interpreter + 1,
         registry |-> registry,
         store |-> IF c.ok THEN StoreFor(m.store, c) ELSE m.store,
         pool |-> m.pool,
         problems |-> (IF c.ok /\ c.redis # "bad" THEN {} ELSE {"config"})
                        \cup (IF ParsedFiles(Directory) = Directory THEN {} ELSE {"workflow"})
                        \cup (IF Dangling(registry) = {} THEN {} ELSE {"dangling"})]

\* Mutant: installRunners subscribes each time it is called, twice at a start.
MutInstalled(m) == <<[pattern |-> Wildcard, interpreter |-> m.interpreter],
                     [pattern |-> Wildcard, interpreter |-> m.interpreter]>>

\* installRunners of the new interpreter; the subscription of the one before
\* is not taken back.
Installed(m) == <<[pattern |-> Wildcard, interpreter |-> m.interpreter]>>

Host == stack = <<>> /\ calls < MaxCalls /\ calls' = calls + 1

\* Any time, also when a call has started the machine already.
Start ==
    /\ Host /\ vm.interpreter < MaxStarts
    /\ \E c \in Configs :
          /\ vm' = Started(vm, c)
          /\ subs' = subs \o Installed(Started(vm, c))
    /\ loaded' = loaded \cup {f.stem : f \in ParsedFiles(Directory)}
    /\ UNCHANGED <<stack, jobs, parked, events, triggered, owed>>

\* The pool works off its queue before stop returns, and is never opened again.
Stop ==
    /\ Host /\ vm.started
    /\ vm.pool => jobs = <<>>
    /\ vm' = [vm EXCEPT !.started = FALSE, !.pool = FALSE]
    /\ UNCHANGED <<subs, stack, jobs, parked, events, triggered, owed, loaded>>

\* ensureStarted, as the first thing of a call: the machines and subscribers
\* the call may go on with.
Ready ==
    IF vm.started THEN {[m |-> vm, s |-> subs]}
    ELSE IF vm.interpreter = MaxStarts THEN {}
    ELSE {[m |-> Started(vm, c), s |-> subs \o Installed(Started(vm, c))] : c \in Configs}

\* Mutant: a blueprint that is run is registered under its name.
MutInlineId(registry, b) == NameOf[b]

\* The id runBlueprint registers b under: its name, or a private one.
InlineId(registry, b) ==
    IF NameOf[b] \in DOMAIN registry THEN Private(calls) ELSE NameOf[b]

Run(id, b, depth) == [kind |-> "run", id |-> id, blueprint |-> b, depth |-> depth, todo |-> PublishesOf[b]]

\* addBlueprintText and addBlueprintFile.
AddBlueprint(b, id) ==
    /\ Host
    /\ \E r \in Ready :
          /\ vm' = [r.m EXCEPT !.registry = With(@, id, b)]
          /\ subs' = r.s
    /\ loaded' = loaded \cup {id}
    /\ UNCHANGED <<stack, jobs, parked, events, triggered, owed>>

\* runBlueprint; startSession of a registered workflow.
RunBlueprint(b) ==
    /\ Host
    /\ \E r \in Ready :
          LET id == InlineId(r.m.registry, b)
          IN  /\ vm' = [r.m EXCEPT !.registry = With(@, id, b)]
              /\ subs' = r.s
              /\ stack' = <<Run(id, b, 0)>>
    /\ UNCHANGED <<jobs, parked, events, triggered, owed, loaded>>

StartSession ==
    /\ Host
    /\ \E r \in Ready : \E id \in DOMAIN r.m.registry :
          /\ vm' = r.m /\ subs' = r.s
          /\ stack' = <<Run(id, r.m.registry[id], 0)>>
    /\ UNCHANGED <<jobs, parked, events, triggered, owed, loaded>>

\* resumeSession: the blueprint registered under the session's workflow id,
\* or SESSION_NOT_FOUND, which changes nothing.
ResumeParked ==
    /\ Host
    /\ \E r \in Ready, s \in parked :
          /\ s.id \in DOMAIN r.m.registry
          /\ vm' = r.m /\ subs' = r.s
          /\ stack' = <<Run(s.id, r.m.registry[s.id], 0)>>
          /\ parked' = parked \ {s}
    /\ UNCHANGED <<jobs, events, triggered, owed, loaded>>
----------------------------------------------------------------------------
Innermost == stack[Len(stack)]
Below == SubSeq(stack, 1, Len(stack) - 1)

\* EventBus::publish: the matching subscribers are copied, then called one by
\* one; handler is the interpreter that one of them belongs to, and starting
\* the workflows it has still to start.  The positions of the subscribers
\* stand for the copies: subs only grows.
Opened(event) ==
    /\ events < MaxEvents /\ Len(stack) < MaxStack
    /\ events' = events + 1
    /\ triggered' = Append(triggered, <<>>)
    /\ owed' = Append(owed, [workflows |-> TriggeredBy(vm.registry, event), interpreter |-> vm.interpreter])

Publication(event) ==
    [kind |-> "publish", event |-> event, n |-> events + 1,
     todo |-> {i \in DOMAIN subs : Hits(subs[i].pattern, event)}, handler |-> 0, starting |-> {}]

PublishEvent(event) ==
    /\ Host
    /\ Opened(event)
    /\ stack' = <<Publication(event)>>
    /\ UNCHANGED <<vm, subs, jobs, parked, loaded>>

\* What the handler of an interpreter goes on to start.  Another start has
\* freed an earlier interpreter, whose handler is still subscribed and reads
\* the services of the freed object: it starts all, some or none, or crashes,
\* which ends the behaviour.
HandlerStarts(interpreter, event) ==
    IF interpreter = vm.interpreter THEN {TriggeredBy(vm.registry, event)}
    ELSE SUBSET TriggeredBy(vm.registry, event)

\* The next subscriber's handler, or the end of the publication.
CallHandler ==
    /\ stack # <<>> /\ Innermost.kind = "publish" /\ Innermost.starting = {}
    /\ \/ /\ Innermost.todo = {}
          /\ stack' = Below
       \/ \E i \in Innermost.todo : \E ids \in HandlerStarts(subs[i].interpreter, Innermost.event) :
             /\ \A j \in Innermost.todo : i <= j
             /\ stack' = Below \o <<[Innermost EXCEPT !.todo = @ \ {i}, !.handler = subs[i].interpreter,
                                                      !.starting = ids]>>
    /\ UNCHANGED <<vm, subs, jobs, parked, calls, events, triggered, owed, loaded>>

\* startTriggeredWorkflow, for each of them.
StartTriggered ==
    /\ stack # <<>> /\ Innermost.kind = "publish" /\ Len(stack) < MaxStack
    /\ \E id \in Innermost.starting :
          /\ stack' = Below \o <<[Innermost EXCEPT !.starting = @ \ {id}], Run(id, vm.registry[id], 0)>>
          /\ triggered' = [triggered EXCEPT ![Innermost.n] = Append(@, <<Innermost.handler, id>>)]
    /\ UNCHANGED <<vm, subs, jobs, parked, calls, events, owed, loaded>>

\* An event node of the run on top.
RunPublishes ==
    /\ stack # <<>> /\ Innermost.kind = "run"
    /\ \E event \in Innermost.todo :
          /\ Opened(event)
          /\ stack' = Below \o <<[Innermost EXCEPT !.todo = @ \ {event}], Publication(event)>>
    /\ UNCHANGED <<vm, subs, jobs, parked, calls, loaded>>

\* Mutant: the limit is compared with >.
MutMayDescend(depth) == depth <= MaxDepth

\* runChild refuses a child at the limit; an error ends or goes on in the
\* caller, as its workflow handles it.
MayDescend(depth) == depth < MaxDepth

RunChild ==
    /\ stack # <<>> /\ Innermost.kind = "run" /\ Len(stack) < MaxStack
    /\ \E id \in CallsOf[Innermost.blueprint] :
          /\ MayDescend(Innermost.depth + 1)
          /\ id \in DOMAIN vm.registry
          /\ stack' = Append(stack, Run(id, vm.registry[id], Innermost.depth + 1))
    /\ UNCHANGED <<vm, subs, jobs, parked, calls, events, triggered, owed, loaded>>

\* The runner of a node that does not wait: the job is "launched", also by a
\* pool that was shut down, where it stays.
LaunchChild ==
    /\ stack # <<>> /\ Innermost.kind = "run" /\ Len(jobs) < MaxJobs
    /\ \E id \in LaunchesOf[Innermost.blueprint] :
          /\ MayDescend(Innermost.depth + 1)
          /\ id \in DOMAIN vm.registry
          /\ jobs' = Append(jobs, [id |-> id, depth |-> Innermost.depth + 1, interpreter |-> vm.interpreter])
    /\ UNCHANGED <<vm, subs, stack, parked, calls, events, triggered, owed, loaded>>

\* A worker takes the next job up and runs what is registered now: the job
\* kept a pointer to the registry's entry.  It kept its interpreter too,
\* which another start may have freed.
RunDetached ==
    /\ stack = <<>> /\ jobs # <<>> /\ vm.pool
    /\ jobs' = Tail(jobs)
    /\ \/ stack' = <<Run(Head(jobs).id, vm.registry[Head(jobs).id], Head(jobs).depth)>>
       \/ Head(jobs).interpreter # vm.interpreter /\ UNCHANGED stack
    /\ UNCHANGED <<vm, subs, parked, calls, events, triggered, owed, loaded>>

\* The run ends, or suspends; a child's suspension is not kept.
RunEnds ==
    /\ stack # <<>> /\ Innermost.kind = "run"
    /\ stack' = Below
    /\ \/ UNCHANGED parked
       \/ Innermost.depth = 0 /\ parked' = parked \cup {[id |-> Innermost.id, blueprint |-> Innermost.blueprint]}
    /\ UNCHANGED <<vm, subs, jobs, calls, events, triggered, owed, loaded>>

MachineNext ==
    \/ Start \/ Stop \/ StartSession \/ ResumeParked
    \/ \E b \in Blueprints : RunBlueprint(b) \/ AddBlueprint(b, NameOf[b])
    \/ \E e \in Events : PublishEvent(e)
    \/ CallHandler \/ StartTriggered \/ RunPublishes
    \/ RunChild \/ LaunchChild \/ RunDetached \/ RunEnds

MachineSpec == MachineInit /\ [][MachineNext]_machineVars
----------------------------------------------------------------------------
\* No chain of subflows is longer than max_depth levels, however workflows
\* call each other and whatever events start in between; what a chain has
\* launched goes on at the level where it was launched.
DepthBounded ==
    /\ \A i, j \in DOMAIN stack :
          (i <= j /\ \A k \in i..j : stack[k].kind = "run") => stack[i].depth + (j - i) < MaxDepth
    /\ \A i \in DOMAIN jobs : jobs[i].depth < MaxDepth

MachineTypeOK ==
    /\ vm.started \in BOOLEAN /\ vm.interpreter \in 0..MaxStarts
    /\ \A id \in DOMAIN vm.registry : vm.registry[id] \in Blueprints
    /\ vm.store \in {"memory", "file", "redis", "shared"}
    /\ \A n \in 1..events : n \in DOMAIN triggered /\ n \in DOMAIN owed
    /\ DepthBounded

\* Publications that are no longer on the stack.
Ended == 1..events \ {stack[i].n : i \in {j \in DOMAIN stack : stack[j].kind = "publish"}}

\* An event starts each workflow it triggers exactly once, also the ones
\* registered after the machine was started, and however the runs it starts
\* publish in turn.  That is for the interpreter of the last start: each of
\* those before it, whose subscription nobody has taken back, may start the
\* same workflow once more, and nothing else starts one.
TriggersOnce ==
    \A n \in Ended :
        /\ IsInjective(triggered[n])
        /\ {owed[n].interpreter} \X owed[n].workflows \subseteq ToSet(triggered[n])
        /\ ToSet(triggered[n]) \subseteq (1..owed[n].interpreter) \X owed[n].workflows

\* A suspended session finds the blueprint it was running when it is resumed,
\* unless the host loaded another one under its id: a blueprint that is only
\* run never replaces one that is registered.
ParkedKeepBlueprint ==
    \A s \in parked : s.id \notin loaded =>
        s.id \in DOMAIN vm.registry /\ vm.registry[s.id] = s.blueprint
=============================================================================
