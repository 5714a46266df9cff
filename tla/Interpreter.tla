------------------------------ MODULE Interpreter ------------------------------
(***************************************************************************)
(* The control flow of the workflow interpreter: Interpreter::drive and    *)
(* the frame machine under it (loops, try/catch/finally, inline bodies,    *)
(* parallel branches), the routing of errors, suspension and resumption.   *)
(*                                                                         *)
(* A parsed workflow is [entry, nodes]; a node is a record with the fields *)
(* of AstNodes.hpp that control flow reads.  What a task computes is left  *)
(* to a choice among the signals its code can return: a node's "may" is    *)
(* the set of error codes its task can throw.  runs maps a path to a run:  *)
(* <<>> is the session, <<i>> the i-th branch of its parallel node.        *)
(* advanceAfterNode pops one frame per step (pc = "advance"): the thread   *)
(* is the only reader of its run, so the split adds no behaviour.          *)
(***************************************************************************)
EXTENDS Integers, Sequences, FiniteSets

CONSTANTS Workflows,    \* the parsed workflows a session may execute
          Budget,       \* limits.max_node_visits
          BranchBudget, \* limits.max_branch_visits
          Starts,       \* options.start_node; "" is none
          MaxAnswers    \* bound: resumptions of the session

VARIABLES wf,      \* the workflow being executed
          runs,    \* path -> RunState
          answers  \* how often the session has been resumed

vars == <<wf, runs, answers>>

Empty == ""      \* the empty std::string: no id, no error

Node(id) == wf.nodes[id]
Known(id) == id \in DOMAIN wf.nodes
NextOf(id) == IF Known(id) THEN Node(id).next ELSE Empty

(* indexOfId, one-based; 0 is "absent". *)
IndexOfId(ids, id) ==
    IF \E i \in DOMAIN ids : ids[i] = id
    THEN CHOOSE i \in DOMAIN ids : ids[i] = id /\ \A j \in 1..(i-1) : ids[j] # id
    ELSE 0

Bind(f, names, v) ==
    [x \in DOMAIN f \cup names |-> IF x \in names THEN v ELSE f[x]]
Erase(f, names) == [x \in DOMAIN f \ names |-> f[x]]

(***************************************************************************)
(* Run states and frames                                                   *)
(***************************************************************************)
NewRun(cursor, frames, ctx, locals, budget, visits) ==
    [cursor |-> cursor, current |-> Empty, at |-> Empty, pc |-> "drive", frames |-> frames,
     status |-> "running", finished |-> FALSE, visits |-> visits, budget |-> budget,
     visited |-> <<>>, pending |-> Empty, error |-> Empty, locals |-> locals, ctx |-> ctx,
     changed |-> {}, attempt |-> 1, resumeNode |-> Empty, reason |-> Empty, waiting |-> Empty]

Frame(kind, owner, ids, total) ==
    [kind |-> kind, owner |-> owner, ids |-> ids, index |-> 0, total |-> total,
     phase |-> "body", propagate |-> Empty]

Top(s) == s.frames[Len(s.frames)]
Resize(s, depth) == [s EXCEPT !.frames = SubSeq(@, 1, depth)]
PushFrame(s, f) == [s EXCEPT !.frames = Append(@, f)]
SetTop(s, f) == [s EXCEPT !.frames = Append(SubSeq(@, 1, Len(@) - 1), f)]
Deepest(s, P(_)) ==
    LET D == {d \in DOMAIN s.frames : P(s.frames[d])}
    IN  IF D = {} THEN 0 ELSE CHOOSE d \in D : \A e \in D : e <= d

(* The names a loop frame binds: `iterator` only when there are items. *)
IterationNames(f) ==
    {Node(f.owner).index, "iteration"}
        \cup (IF Node(f.owner).while THEN {} ELSE {Node(f.owner).iterator})

BindIteration(s, f) ==
    [s EXCEPT !.locals = Bind(@, IterationNames(f), <<f.owner, f.index>>)]

EraseIterationLocals(s, f) ==
    IF f.kind = "loop"
    THEN [s EXCEPT !.locals = Erase(@, {Node(f.owner).iterator, Node(f.owner).index, "iteration"})]
    ELSE [s EXCEPT !.locals = Erase(@, {"iteration"})]

Goto(s, target) == [s EXCEPT !.cursor = target, !.pc = "drive"]
Advance(s) == [s EXCEPT !.at = s.current, !.pc = "advance"]
Fail(s, code) == [s EXCEPT !.status = "failed", !.error = code, !.finished = TRUE, !.pc = "drive"]
Complete(s) ==
    [s EXCEPT !.cursor = Empty, !.finished = TRUE, !.pc = "drive",
              !.status = IF @ = "running" THEN "completed" ELSE @]
(* An exception that leaves drive: nothing is routed, nothing is reported. *)
Thrown(s) == [s EXCEPT !.status = "thrown", !.error = "EXPRESSION_ERROR", !.finished = TRUE]

(***************************************************************************)
(* Routing                                                                 *)
(***************************************************************************)
\* Mutant: a jump leaves the frames nested inside the target's where they are.
MutResolveJump(s, target) ==
    IF target # Empty /\ Deepest(s, LAMBDA f : IndexOfId(f.ids, target) # 0) = 0
    THEN Goto(Resize(s, 0), target) ELSE Goto(s, target)

ResolveJump(s, target) ==
    LET d == Deepest(s, LAMBDA f : IndexOfId(f.ids, target) # 0)
        r == Resize(s, d)
    IN  CASE target = Empty -> Goto(s, Empty)
          [] target # Empty /\ d = 0 -> Goto(r, target)
          [] OTHER -> Goto(IF Top(r).kind = "loop" THEN BindIteration(r, Top(r)) ELSE r, target)

CloseFrame(s) ==
    IF s.frames = <<>> THEN Complete(s)
    ELSE Advance([EraseIterationLocals(Resize(s, Len(s.frames) - 1), Top(s))
                     EXCEPT !.current = Top(s).owner])

\* Mutant: only the end of the body leads to finally, the end of catch does not.
MutAdvanceTryPhase(s) ==
    LET f == Top(s)
        finally == Node(f.owner).finally
    IN  IF f.phase = "body" /\ finally # <<>>
        THEN Goto(SetTop(s, [f EXCEPT !.phase = "finally", !.ids = finally]), finally[1])
        ELSE CloseFrame(s)

AdvanceTryPhase(s) ==
    LET f == Top(s)
        finally == Node(f.owner).finally
    IN  IF f.phase # "finally" /\ finally # <<>>
        THEN Goto(SetTop(s, [f EXCEPT !.phase = "finally", !.ids = finally]), finally[1])
        ELSE CloseFrame(IF f.propagate = Empty THEN s
                        ELSE [s EXCEPT !.pending = f.propagate,
                                       !.locals = Bind(@, {"error"}, f.propagate)])

LoopDepth(s, loop) ==
    Deepest(s, LAMBDA f : f.kind = "loop" /\ (loop = Empty \/ f.owner = loop))

(* nextIterationFor on the loop at depth d; guard is what `while` yields.  *)
NextIteration(s, d, guard) ==
    LET r == Resize(s, d)
        f == [Top(r) EXCEPT !.index = @ + 1]
        n == Node(f.owner)
        inRange == f.index < n.max /\ f.index < f.total
    IN  CASE inRange /\ n.while /\ guard = "throws" -> Thrown(r)
          [] inRange /\ (n.while => guard = "true") ->
                 Goto(BindIteration(SetTop(r, f), f), f.ids[1])
          [] OTHER -> CloseFrame(r)

(* One turn of the loop in advanceAfterNode. *)
AdvanceAfterNode(s, guard) ==
    LET f == Top(s)
        i == IndexOfId(f.ids, s.at)
        next == NextOf(s.at)
    IN  CASE s.frames = <<>> /\ next # Empty -> Goto(s, next)
          [] s.frames = <<>> /\ next = Empty -> Complete(s)
          [] s.frames # <<>> /\ i # 0 /\ next # Empty /\ IndexOfId(f.ids, next) = 0 ->
                 ResolveJump(s, next)
          [] OTHER ->
                 CASE i # 0 /\ i < Len(f.ids) -> Goto(s, f.ids[i + 1])
                   [] ~(i # 0 /\ i < Len(f.ids)) /\ f.kind = "loop" ->
                          NextIteration(s, LoopDepth(s, Empty), guard)
                   [] ~(i # 0 /\ i < Len(f.ids)) /\ f.kind = "try" -> AdvanceTryPhase(s)
                   [] ~(i # 0 /\ i < Len(f.ids)) /\ f.kind = "branch" ->
                          IF i # 0 THEN Complete(s)
                          ELSE [s EXCEPT !.cursor = Empty, !.finished = TRUE, !.pc = "drive"]
                   [] ~(i # 0 /\ i < Len(f.ids)) /\ f.kind = "body" ->
                          IF NextOf(f.owner) # Empty
                          THEN Goto(Resize(s, Len(s.frames) - 1), NextOf(f.owner))
                          ELSE [Resize(s, Len(s.frames) - 1) EXCEPT !.at = f.owner]

(***************************************************************************)
(* Errors                                                                  *)
(***************************************************************************)
(* The handler catch.when names for the code, unless the id is stale.      *)
Routed(n, code) ==
    IF code \in DOMAIN n.when /\ Known(n.when[code]) THEN <<n.when[code]>> ELSE <<>>

Recovers(f, code) ==
    LET n == Node(f.owner)
    IN  \/ /\ f.kind = "try" /\ f.phase = "body"
           /\ Routed(n, code) # <<>> \/ n.catch # <<>> \/ DOMAIN n.when = {}
        \/ f.kind = "loop" /\ n.on_item_error # "fail"

(* handleError: on_error of the current node, then the nearest frame.      *)
HandleError(s, code, guard) ==
    LET d == Deepest(s, LAMBDA f : Recovers(f, code))
        r == Resize(s, d)
        f == s.frames[d]
        n == Node(f.owner)
        handlers == IF Routed(n, code) # <<>> THEN Routed(n, code) ELSE n.catch
        onError == IF Known(s.current) THEN Node(s.current).on_error ELSE Empty
    IN  CASE onError # Empty ->
                 ResolveJump([s EXCEPT !.locals = Bind(@, {"error"}, code)], onError)
          [] onError = Empty /\ d = 0 -> Fail(s, code)
          [] OTHER ->
                 CASE f.kind = "loop" -> NextIteration(s, LoopDepth(s, Empty), guard)
                   [] f.kind = "try" /\ handlers # <<>> ->
                          [Goto(SetTop(r, [f EXCEPT !.phase = "catch", !.ids = handlers]), handlers[1])
                              EXCEPT !.locals = Bind(@, {"error"}, code),
                                     !.ctx = Bind(@, {"error"}, code), !.changed = @ \cup {"error"}]
                   [] f.kind = "try" /\ handlers = <<>> /\ n.finally # <<>> ->
                          Goto(SetTop(r, [f EXCEPT !.phase = "finally", !.ids = n.finally,
                                                   !.propagate = code]), n.finally[1])
                   [] f.kind = "try" /\ handlers = <<>> /\ n.finally = <<>> ->
                          CloseFrame([r EXCEPT !.pending = code])

(***************************************************************************)
(* Signals: what the tasks return                                          *)
(***************************************************************************)
Sig(k, to) == [k |-> k, to |-> to]
Errors(n) == {Sig("error", c) : c \in n.may}

LoopControlSignals(n) ==
    {Sig(n.action, n.loop)} \cup (IF n.conditional THEN {Sig("continue", Empty)} ELSE {})

ChoiceSignals(n) ==
    {Sig("jump", t) : t \in n.cases}
        \cup {IF n.default = Empty THEN Sig("error", "ROUTING_ERROR") ELSE Sig("jump", n.default)}

WaitSignals(n) ==
    CASE n.until -> {Sig("continue", Empty), Sig("timer", n.id)}
      [] ~n.until /\ n.durable -> {Sig("timer", Empty)}
      [] ~n.until /\ ~n.durable -> {Sig("continue", Empty)}

(* A prompt that finds locals["input"] takes it for its answer.            *)
ActionSignals(s, n) ==
    LET onward == IF n.next_tasks = {} THEN {Sig("continue", Empty)}
                  ELSE {Sig("jump", t) : t \in n.next_tasks}
        invalid == IF n.validated THEN {Sig("error", "VALIDATION_ERROR")} ELSE {}
    IN  Errors(n) \cup
        CASE n.on_event -> {Sig("event", n.handler)}
          [] ~n.on_event /\ n.prompt /\ "input" \notin DOMAIN s.locals -> {Sig("input", Empty)}
          [] ~n.on_event /\ n.prompt /\ "input" \in DOMAIN s.locals -> onward \cup invalid
          [] ~n.on_event /\ ~n.prompt -> onward

Signals(s, n) ==
    CASE n.type = "choice" -> ChoiceSignals(n)
      [] n.type = "loop_control" -> LoopControlSignals(n)
      [] n.type = "terminate" -> {Sig("terminate", n.outcome)}
      [] n.type = "wait" -> WaitSignals(n)
      [] n.type = "action" -> ActionSignals(s, n)
      [] OTHER -> {Sig("continue", Empty)} \cup Errors(n)

DefaultRetry == {"HTTP_ERROR", "TIMEOUT", "DATA_SOURCE_ERROR", "HTTP_STATUS_ERROR"}
Retries(s, n, code) ==
    s.attempt < n.attempts /\ code \in (IF n.retry_on = {} THEN DefaultRetry ELSE n.retry_on)

\* Mutant: the answer stays after the prompt has used it.
MutConsumed(s, n) ==
    [s EXCEPT !.attempt = 1, !.ctx = Bind(@, n.writes, n.id), !.changed = @ \cup n.writes]

(* A finished activation uses up the answer that resumed its node.         *)
Consumed(s, n) ==
    LET w == [s EXCEPT !.attempt = 1,
                       !.ctx = Bind(@, n.writes, n.id), !.changed = @ \cup n.writes]
    IN  IF s.resumeNode = n.id
        THEN [w EXCEPT !.resumeNode = Empty, !.locals = Erase(@, {"input", "event"})]
        ELSE w

Suspend(s, n, reason, target) ==
    LET resume == CASE target # Empty -> target
                    [] target = Empty /\ reason = "input" -> n.id
                    [] target = Empty /\ reason # "input" -> n.next
    IN  [s EXCEPT !.status = IF reason = "input" THEN "awaiting_input" ELSE "suspended",
                  !.cursor = resume, !.finished = TRUE, !.pc = "drive",
                  !.reason = reason, !.waiting = n.id]

(* drive's dispatch on the signal. *)
Dispatch(s, n, sig, guard) ==
    LET d == LoopDepth(s, sig.to)
    IN  CASE sig.k = "jump" -> ResolveJump(s, sig.to)
          [] sig.k \in {"input", "timer", "event"} -> Suspend(s, n, sig.k, sig.to)
          [] sig.k = "terminate" /\ sig.to = "success" ->
                 [s EXCEPT !.status = "terminated", !.finished = TRUE, !.pc = "drive"]
          [] sig.k = "terminate" /\ sig.to # "success" -> Fail(s, "WORKFLOW_FAILED")
          [] sig.k \in {"break_loop", "continue_loop"} /\ d = 0 -> Fail(s, "ROUTING_ERROR")
          [] sig.k = "break_loop" /\ d # 0 -> CloseFrame(Resize(s, d))
          [] sig.k = "continue_loop" /\ d # 0 -> NextIteration(s, d, guard)
          [] sig.k = "continue" -> Advance(s)

(***************************************************************************)
(* Parallel: fork, branches on the pool, join                              *)
(***************************************************************************)
Branch(s, n, i) ==
    LET remaining == IF s.budget > s.visits THEN s.budget - s.visits ELSE 1
    IN  NewRun(n.branches[i][1], <<Frame("branch", n.id, n.branches[i], 0)>>, s.ctx, s.locals,
               IF remaining < BranchBudget THEN remaining ELSE BranchBudget, 0)

(* mergeFrom: only changed keys; a conflict is a key the parent holds with *)
(* another value.                                                          *)
Conflicts(ctx, b) == {k \in b.changed \cap DOMAIN b.ctx : k \in DOMAIN ctx /\ ctx[k] # b.ctx[k]}
\* Mutant: the whole snapshot of the branch is merged, not the keys it changed.
MutMergeFrom(ctx, b, policy) ==
    [k \in DOMAIN ctx \cup DOMAIN b.ctx |-> IF k \in DOMAIN b.ctx THEN b.ctx[k] ELSE ctx[k]]

MergeFrom(ctx, b, policy) ==
    LET taken == (b.changed \cap DOMAIN b.ctx)
                     \ (IF policy = "skip_conflicts" THEN Conflicts(ctx, b) ELSE {})
    IN  [k \in DOMAIN ctx \cup taken |-> IF k \in taken THEN b.ctx[k] ELSE ctx[k]]

(* The outcomes in branch order: the first failing branch stops the merge. *)
JoinUpTo(s, n, bs) ==
    LET join[i \in 0..Len(bs)] ==
            IF i = 0 THEN [run |-> s, conflicts |-> {}, thrown |-> Empty]
            ELSE LET j == join[i - 1]
                     b == bs[i]
                 IN  CASE j.thrown # Empty -> j
                       [] j.thrown = Empty /\ b.error # Empty /\ n.fail_fast ->
                              [j EXCEPT !.thrown = "CAPABILITY_ERROR"]
                       [] j.thrown = Empty /\ ~(b.error # Empty /\ n.fail_fast)
                              /\ b.status \in {"awaiting_input", "suspended"} ->
                              [j EXCEPT !.thrown = "VALIDATION_ERROR"]
                       [] OTHER ->
                              IF b.changed = {} THEN j
                              ELSE [j EXCEPT !.conflicts = @ \cup Conflicts(j.run.ctx, b),
                                             !.run.ctx = MergeFrom(@, b, n.merge_policy),
                                             !.run.visits = @ + b.visits,
                                             !.run.visited = @ \o b.visited]
    IN  join[Len(bs)]

Join(s, n, bs, guard) ==
    LET j == JoinUpTo(s, n, bs)
        code == IF j.thrown = Empty /\ j.conflicts # {} /\ n.merge_policy = "fail_conflicts"
                THEN "VALIDATION_ERROR" ELSE j.thrown
    IN  CASE code # Empty -> HandleError(j.run, code, guard)
          [] code = Empty /\ \E i \in DOMAIN bs : bs[i].status = "terminated" ->
                 [j.run EXCEPT !.status = "terminated", !.finished = TRUE, !.pc = "drive"]
          [] OTHER -> Advance(j.run)

(***************************************************************************)
(* Actions: one turn of drive's loop on the run at path p                  *)
(***************************************************************************)
Guards == {"true", "false", "throws"}
Live(p, pc) == ~runs[p].finished /\ runs[p].pc = pc
Set(p, s) == runs' = [runs EXCEPT ![p] = s] /\ UNCHANGED <<wf, answers>>

RouteError(p) ==
    /\ Live(p, "drive") /\ runs[p].pending # Empty
    /\ \E g \in Guards : Set(p, HandleError([runs[p] EXCEPT !.pending = Empty], runs[p].pending, g))

\* Mutant: a disabled node is skipped before its visit is counted.
MutTakeCursor(p) ==
    LET s == runs[p]
        r == [s EXCEPT !.current = s.cursor, !.visits = @ + 1, !.visited = Append(@, s.cursor)]
    IN  /\ Live(p, "drive") /\ s.pending = Empty
        /\ Set(p, CASE s.cursor = Empty -> Complete(s)
                    [] s.cursor # Empty /\ ~Node(s.cursor).enabled -> Advance([s EXCEPT !.current = s.cursor])
                    [] s.cursor # Empty /\ Node(s.cursor).enabled ->
                           IF r.visits > r.budget THEN Fail(r, "LIMIT_EXCEEDED")
                           ELSE [r EXCEPT !.pc = "node"])

(* The cursor names the next node, no node, or a node that does not exist. *)
TakeCursor(p) ==
    LET s == runs[p]
        r == [s EXCEPT !.current = s.cursor, !.visits = @ + 1]
        v == [r EXCEPT !.visited = Append(@, r.current)]
    IN  /\ Live(p, "drive") /\ s.pending = Empty
        /\ \E g \in Guards :
             Set(p, CASE s.cursor = Empty -> Complete(s)
                      [] s.cursor # Empty /\ ~Known(s.cursor) ->
                             HandleError([s EXCEPT !.cursor = Empty], "ROUTING_ERROR", g)
                      [] Known(s.cursor) /\ r.visits > r.budget -> Fail(r, "LIMIT_EXCEEDED")
                      [] OTHER ->
                             IF Node(r.current).enabled THEN [v EXCEPT !.pc = "node"] ELSE Advance(v))

StepLoop(p) ==
    LET s == runs[p]  n == Node(s.current)
    IN  /\ Live(p, "node") /\ n.type = "loop"
        /\ \/ /\ ~n.while /\ 0 \in n.totals
              /\ Set(p, Advance(s))
           \/ \E total \in n.totals :
                 LET f == Frame("loop", n.id, n.body, total)
                 IN  /\ n.while \/ total > 0
                     /\ Set(p, ResolveJump(BindIteration(PushFrame(s, f), f), n.body[1]))
           \/ \E c \in n.may, g \in Guards : Set(p, HandleError(s, c, g))

StepTry(p) ==
    LET s == runs[p]  n == Node(s.current)
    IN  /\ Live(p, "node") /\ n.type = "try"
        /\ Set(p, ResolveJump(PushFrame(s, Frame("try", n.id, n.body, 0)), n.body[1]))

StepCondition(p) ==
    LET s == runs[p]  n == Node(s.current)
    IN  /\ Live(p, "node") /\ n.type = "condition"
        /\ \/ \E taken \in BOOLEAN :
                 LET body == IF taken THEN n.then ELSE n.else
                     target == IF taken THEN n.on_true ELSE n.on_false
                 IN  Set(p, CASE body # <<>> ->
                                     ResolveJump(PushFrame(s, Frame("body", n.id, body, 0)), body[1])
                              [] body = <<>> /\ target # Empty -> ResolveJump(s, target)
                              [] body = <<>> /\ target = Empty -> Advance(s))
           \/ \E c \in n.may, g \in Guards : Set(p, HandleError(s, c, g))

(* runParallel: one fork of the context per branch; the branches run on    *)
(* the pool, in any interleaving, and the caller waits in runAll.          *)
RunParallel(p) ==
    LET s == runs[p]  n == Node(s.current)
    IN  /\ Live(p, "node") /\ n.type = "parallel"
        /\ runs' = [q \in DOMAIN runs \cup {Append(p, i) : i \in DOMAIN n.branches} |->
                        CASE q = p -> [s EXCEPT !.pc = "join"]
                          [] q # p /\ q \in DOMAIN runs -> runs[q]
                          [] OTHER -> Branch(s, n, q[Len(q)])]
        /\ UNCHANGED <<wf, answers>>

JoinParallel(p) ==
    LET s == runs[p]  n == Node(s.current)
        B == {Append(p, i) : i \in DOMAIN n.branches}
    IN  /\ Live(p, "join")
        /\ \A q \in B : runs[q].finished
        /\ \E g \in Guards :
               LET j == Join(s, n, [i \in DOMAIN n.branches |-> runs[Append(p, i)]], g)
               IN  runs' = [q \in DOMAIN runs \ B |-> IF q = p THEN j ELSE runs[q]]
        /\ UNCHANGED <<wf, answers>>

(* activateNode: an attempt of a leaf task, retried while the policy says. *)
Activate(p) ==
    LET s == runs[p]  n == Node(s.current)
    IN  /\ Live(p, "node") /\ n.type \notin {"loop", "try", "condition", "parallel"}
        /\ \E sig \in Signals(s, n), g \in Guards :
               Set(p, CASE sig.k = "error" /\ Retries(s, n, sig.to) -> [s EXCEPT !.attempt = @ + 1]
                        [] sig.k = "error" /\ ~Retries(s, n, sig.to) ->
                               HandleError([s EXCEPT !.attempt = 1], sig.to, g)
                        [] sig.k # "error" -> Dispatch(Consumed(s, n), n, sig, g))

AdvanceStep(p) ==
    Live(p, "advance") /\ \E g \in Guards : Set(p, AdvanceAfterNode(runs[p], g))

\* Mutant: a resumed session does not bind the iterators of its loops again.
MutRebound(s) == [s EXCEPT !.locals = [x \in {} |-> 0]]

(* resume: the frames, the context and the count of visits come back from  *)
(* the checkpoint; locals are rebuilt from the loop frames alone.          *)
Rebound(s) ==
    LET bind[d \in 0..Len(s.frames)] ==
            IF d = 0 THEN [s EXCEPT !.locals = [x \in {} |-> 0]]
            ELSE IF s.frames[d].kind = "loop" THEN BindIteration(bind[d - 1], s.frames[d])
            ELSE bind[d - 1]
    IN  bind[Len(s.frames)]

Resumed(s, how) ==
    LET b == Rebound(NewRun(s.cursor, s.frames, s.ctx, s.locals, Budget, s.visits))
        r == [b EXCEPT !.visited = s.visited,   \* kept as history: the report starts anew
                       !.cursor = IF how = "timeout" \/ (how = "answer" /\ s.reason = "input")
                                  THEN s.waiting ELSE s.cursor]
        e == [r EXCEPT !.current = r.cursor]
    IN  CASE r.cursor = Empty -> [r EXCEPT !.status = "completed", !.finished = TRUE]
          [] r.cursor # Empty /\ how = "timeout" -> [e EXCEPT !.pending = "TIMEOUT"]
          [] r.cursor # Empty /\ how = "answer" ->
                 [e EXCEPT !.locals = Bind(@, {s.reason}, <<s.waiting, s.visits>>),
                           !.resumeNode = IF s.reason = "input" THEN s.waiting ELSE Empty]
          [] r.cursor # Empty /\ how = "empty" -> e

ResumeSession(how) ==
    LET s == runs[<<>>]
    IN  /\ s.finished /\ s.status \in {"awaiting_input", "suspended"} /\ answers < MaxAnswers
        /\ how = "timeout" => s.reason = "input"
        /\ answers' = answers + 1
        /\ runs' = [runs EXCEPT ![<<>>] = Resumed(s, how)]
        /\ UNCHANGED wf

(* run: the session starts at the entry, or at the node its caller names.  *)
Init ==
    /\ wf \in Workflows
    /\ \E start \in Starts :
         LET cursor == IF start = Empty THEN wf.entry ELSE start
             s == NewRun(cursor, <<>>, [k \in {"input"} |-> "given"], [x \in {} |-> 0], Budget, 0)
         IN  runs = [p \in {<<>>} |->
                        CASE cursor # Empty /\ Known(cursor) -> s
                          [] start # Empty /\ ~Known(start) -> Fail(s, "ROUTING_ERROR")
                          [] OTHER -> Complete(s)]
    /\ answers = 0

Step ==
    \E p \in DOMAIN runs :
        \/ RouteError(p) \/ TakeCursor(p)
        \/ StepLoop(p) \/ StepTry(p) \/ StepCondition(p)
        \/ RunParallel(p) \/ JoinParallel(p) \/ Activate(p) \/ AdvanceStep(p)

Next == Step \/ \E how \in {"answer", "empty", "timeout"} : ResumeSession(how)

Spec == Init /\ [][Next]_vars /\ WF_vars(Step)

(***************************************************************************)
(* What drive relies on in a workflow, and what it does not provide for    *)
(***************************************************************************)
Members(ids) == {ids[i] : i \in DOMAIN ids}

(* The lists of ids that a construct steps through, and the ids a node     *)
(* names besides.                                                          *)
Lists(n) ==
    CASE n.type = "loop" -> {n.body}
      [] n.type = "try" -> {n.body} \cup ({n.catch, n.finally} \ {<<>>})
                               \cup {<<n.when[c]>> : c \in DOMAIN n.when}
      [] n.type = "condition" -> {n.then, n.else} \ {<<>>}
      [] n.type = "parallel" -> {n.branches[i] : i \in DOMAIN n.branches}
      [] OTHER -> {}
Edges(n) ==
    {n.next, n.on_error} \cup
    CASE n.type = "condition" -> {n.on_true, n.on_false}
      [] n.type = "choice" -> n.cases \cup {n.default}
      [] n.type = "action" -> n.next_tasks \cup {n.handler}
      [] OTHER -> {}
Children(n) == UNION {Members(ids) : ids \in Lists(n)}

(* What the parser builds and the validator accepts, except that it lets a *)
(* schedule node that starts another workflow name any next or on_error    *)
(* (BlueprintValidator.cpp:149).                                           *)
WellFormed(w) ==
    /\ Empty \notin DOMAIN w.nodes /\ DOMAIN w.nodes \subseteq STRING
    /\ \A id \in DOMAIN w.nodes :
         LET n == w.nodes[id]
         IN  /\ n.id = id
             /\ Edges(n) \subseteq DOMAIN w.nodes \cup {Empty}
             /\ Lists(n) \subseteq Seq(DOMAIN w.nodes) \ {<<>>}
             /\ n.may \subseteq STRING
             /\ n.type = "loop" => n.totals \subseteq Nat
             /\ n.type = "parallel" => n.branches \in Seq(Seq(DOMAIN w.nodes))
             /\ n.type = "loop_control" => n.action \in {"break_loop", "continue_loop"}

(* Where control goes on from n without resolveJump, which would drop the  *)
(* frames it leaves: after the body of a condition, a timer or an event.   *)
Direct(n) ==
    CASE n.type = "condition" /\ (n.then # <<>> \/ n.else # <<>>) -> {n.next}
      [] n.type = "wait" /\ ~n.until /\ n.durable -> {n.next}
      [] n.type = "action" /\ n.on_event -> {IF n.handler = Empty THEN n.next ELSE n.handler}
      [] OTHER -> {}

(* No node in a body goes on, in that way, outside of it.                  *)
StaysInBody(w) ==
    \A id \in DOMAIN w.nodes : \A ids \in Lists(w.nodes[id]) : \A m \in Members(ids) :
        Direct(w.nodes[m]) \subseteq Members(ids) \cup {Empty}

(* No loop is inside itself, and loops have item names of their own, which *)
(* are not names that drive binds.                                         *)
LoopsApart(w) ==
    LET loops == {id \in DOMAIN w.nodes : w.nodes[id].type = "loop"}
        names(n) == {n.iterator, n.index, "iteration"}
    IN  \A l \in loops :
          /\ \E S \in SUBSET DOMAIN w.nodes :
                l \notin S /\ \A x \in S \cup {l} : Children(w.nodes[x]) \subseteq S
          /\ ~w.nodes[l].while =>
                /\ w.nodes[l].iterator \notin {"iteration", "input", "event", "timer", "error"}
                /\ \A m \in loops \ {l} : w.nodes[l].iterator \notin names(w.nodes[m])

(* A prompt that refuses its answer leaves a trace, the error local: not   *)
(* so when a loop skips the item, or a try block has nothing but finally.  *)
RefusalsLeaveTrace(w) ==
    LET of(type) == {w.nodes[id] : id \in {x \in DOMAIN w.nodes : w.nodes[x].type = type}}
    IN  /\ \A n \in of("loop") : {n.iterator, n.index} \cap {"input", "error"} = {}
        /\ \/ \A n \in of("action") : n.prompt => n.on_error # Empty \/ (~n.validated /\ n.may = {})
           \/ /\ \A n \in of("loop") : n.on_item_error = "fail"
              /\ \A n \in of("try") : n.catch # <<>> \/ DOMAIN n.when # {}

(***************************************************************************)
(* Properties                                                              *)
(***************************************************************************)
Statuses == {"running", "completed", "failed", "terminated", "awaiting_input", "suspended", "thrown"}

TypeOK ==
    /\ answers \in 0..MaxAnswers
    /\ <<>> \in DOMAIN runs
    /\ \A p \in DOMAIN runs :
         LET s == runs[p]
         IN  /\ s.status \in Statuses
             /\ s.pc \in {"drive", "node", "advance", "join"}
             /\ s.visits \in Nat /\ s.attempt \in Nat \ {0}
             /\ \A d \in DOMAIN s.frames :
                  /\ s.frames[d].kind \in {"loop", "try", "body", "branch"}
                  /\ s.frames[d].phase \in {"body", "catch", "finally"}
                  /\ Known(s.frames[d].owner)
                  /\ s.frames[d].ids # <<>>

(* The validator's promise to drive: an accepted workflow is well formed,  *)
(* and control never reaches an id that is not a node, through whatever    *)
(* edge it travels.                                                        *)
NeverLost ==
    /\ WellFormed(wf)
    /\ \A p \in DOMAIN runs : runs[p].finished \/ runs[p].cursor = Empty \/ Known(runs[p].cursor)

(* The frame stack mirrors the nesting: the construct that opened a frame  *)
(* is in the body of the frame below it, whatever jumps, errors, breaks,   *)
(* prompts and resumptions happened since it was pushed; unless the        *)
(* workflow leaves a body where drive does not look (StaysInBody).         *)
FramesNest ==
    \/ \A p \in DOMAIN runs : \A d \in DOMAIN runs[p].frames :
          d > 1 => IndexOfId(runs[p].frames[d - 1].ids, runs[p].frames[d].owner) # 0
    \/ ~StaysInBody(wf)

(* While a node runs, the iterator of every loop around it holds that      *)
(* loop's current item: inner loops that end, suspensions and errors       *)
(* neither drop it nor leave an older item behind, in a workflow whose     *)
(* loops have names of their own.                                          *)
IteratorBound ==
    \/ \A p \in DOMAIN runs : \A d \in DOMAIN runs[p].frames :
          LET s == runs[p]
              f == s.frames[d]
          IN  s.pc = "node" /\ ~s.finished /\ f.kind = "loop" /\ ~Node(f.owner).while =>
                  /\ Node(f.owner).iterator \in DOMAIN s.locals
                  /\ s.locals[Node(f.owner).iterator] = <<f.owner, f.index>>
    \/ ~(StaysInBody(wf) /\ LoopsApart(wf))

(* A prompt takes the answer that was given to this very visit of it; only *)
(* after an error can an answer that was not used up reach another one.    *)
AnswersBelongToPrompt ==
    \/ \A p \in DOMAIN runs :
          LET s == runs[p]
          IN  /\ s.pc = "node" /\ ~s.finished /\ "input" \in DOMAIN s.locals
              /\ Node(s.current).type = "action" /\ Node(s.current).prompt
              => s.locals["input"] = <<s.current, s.visits - 1>> \/ "error" \in DOMAIN s.locals
    \/ ~RefusalsLeaveTrace(wf)

(* A join that succeeds (a failed one goes on at another node) takes from  *)
(* a branch what that branch wrote and nothing else: a key only one branch *)
(* wrote has that branch's value afterwards (unless skip_conflicts keeps   *)
(* the session's own), and a key no branch wrote has the value it had.     *)
BranchWritesSurvive ==
    [][\A p \in DOMAIN runs :
         LET n == Node(runs[p].current)
             b(i) == runs[Append(p, i)]
             writers(k) == {i \in DOMAIN n.branches : k \in b(i).changed}
             old == runs[p].ctx
             new == runs'[p].ctx
         IN  /\ p \in DOMAIN runs' /\ runs[p].pc = "join" /\ runs'[p].pc = "advance"
             /\ runs'[p].current = runs[p].current
             =>
                \A k \in DOMAIN new :
                    /\ writers(k) = {} => k \in DOMAIN old /\ new[k] = old[k]
                    /\ \A i \in DOMAIN n.branches :
                         /\ writers(k) = {i}
                         /\ k \notin DOMAIN old \/ n.merge_policy # "skip_conflicts"
                         => new[k] = b(i).ctx[k]]_vars

(* The budget ends every run: a session, resumed or not, comes to rest     *)
(* (finished, failed or waiting), even on a workflow with a cycle.         *)
Terminates == []<>runs[<<>>].finished

(* What the comment in handleError says of a body without a handler:       *)
(* "cleanup first, then the error keeps travelling outwards".  A session   *)
(* that completed has no error still on its way.                           *)
ErrorsKeepTravelling == runs[<<>>].status = "completed" => runs[<<>>].pending = Empty
================================================================================
