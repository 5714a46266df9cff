------------------------------- MODULE Blueprint -------------------------------
(***************************************************************************)
(* WorkflowParser: a JSON blueprint becomes a flat graph of nodes.         *)
(*                                                                         *)
(* A JSON value is [j, v]; a node object is a function from field names to *)
(* values.  Every builder of the parser reads its fields through a table   *)
(* of spellings, so that "which keys were read" is what the table and the  *)
(* object give.  A builder yields the node, the nodes hoisted out of its   *)
(* inline bodies, the reasons to reject it and its warnings; wording is    *)
(* left out.  Text the parser hands to another component is judged by the  *)
(* sets below (which sources compile, which durations and schedules are    *)
(* well formed).  An optional text that is empty counts as absent.         *)
(***************************************************************************)
EXTENDS Integers, Sequences, SequencesExt, FiniteSets, TLC

CONSTANTS Registered,   \* names the capability registry resolves
          Malformed,    \* expression sources SEL rejects
          Durations,    \* texts parseDuration, parseRelativeDelay or parseIso8601 read
          Schedules,    \* texts isValidCronExpression accepts
          Slots,        \* texts that are one interpolation: a value of any type
          Numerals,     \* what the texts that spell a number are worth
          MaxItems,     \* bound on the items an interpolation gives a loop
          MaxNodes      \* options.max_nodes

S(x) == [j |-> "string", v |-> x]
N(x) == [j |-> "number", v |-> x]
B(x) == [j |-> "boolean", v |-> x]
A(x) == [j |-> "array", v |-> x]
O(x) == [j |-> "object", v |-> x]
Null == [j |-> "null", v |-> ""]
Absent == [j |-> "absent", v |-> ""]

(* The same function; TLC then computes every value of it once.            *)
Table(f) == f @@ <<>>

(* Capital letters are spelled out: TLA+ strings have no letters.          *)
Lower(text) ==
    LET folded == ("Loop" :> "loop") @@ ("IF" :> "if") @@ ("FAIL" :> "fail") @@ ("OK" :> "ok")
    IN  IF text \in DOMAIN folded THEN folded[text] ELSE text

(***************************************************************************)
(* Fields: alias lookup with consumed-key tracking                         *)
(***************************************************************************)
Present(obj, names) == SelectSeq(names, LAMBDA name : name \in DOMAIN obj)
Find(obj, names) == IF Present(obj, names) = <<>> THEN Absent ELSE obj[Present(obj, names)[1]]
Consumed(obj, groups) == {Present(obj, g)[1] : g \in {h \in groups : Present(obj, h) # <<>>}}

Dump(x) == IF x.j = "string" THEN x.v ELSE ToString(x.v)
OptionalString(obj, names) ==
    LET x == Find(obj, names) IN IF x.j \in {"absent", "null"} THEN "" ELSE Dump(x)
StringOr(obj, fallback, names) ==
    IF Find(obj, names).j \in {"absent", "null"} THEN fallback ELSE OptionalString(obj, names)
IntOr(obj, fallback, names) ==
    IF Find(obj, names).j = "number" THEN Find(obj, names).v ELSE fallback
BoolOr(obj, fallback, names) ==
    LET x == Find(obj, names)
    IN  CASE x.j = "boolean" -> x.v
          [] x.j = "number" -> x.v # 0
          [] x.j = "string" -> Lower(x.v) \in {"true", "yes", "1"}
          [] OTHER -> fallback
StringMap(obj, names) ==
    LET x == Find(obj, names)
    IN  IF x.j = "object" THEN [k \in DOMAIN x.v |-> Dump(x.v[k])] ELSE [k \in {} |-> ""]
StringList(obj, names) ==
    LET x == Find(obj, names)
    IN  CASE x.j = "array" -> [i \in DOMAIN x.v |-> Dump(x.v[i])]
          [] x.j = "string" -> <<x.v>>
          [] OTHER -> <<>>

(* An expression or predicate field: empty, or text that has to compile.   *)
IsEmptyExpr(x) == x.j \in {"absent", "null"} \/ (x.j = "string" /\ x.v = "")
Compiles(x) == x.j = "string" => x.v \notin Malformed
StripSigil(name) == IF name = "$item" THEN "item" ELSE name

(***************************************************************************)
(* The spellings of every field, by node type                              *)
(***************************************************************************)
Common == [id |-> <<"id", "node_id">>, next |-> <<"next", "next_node", "next_step">>,
           on_error |-> <<"on_error", "onError">>, label |-> <<"label", "name", "title">>,
           enabled |-> <<"enabled", "active">>, retry |-> <<"retry">>]

Own(type) ==
    CASE type = "noop" ->
           [meta |-> <<"meta">>, assign |-> <<"assign", "set", "variables">>]
      [] type = "terminate" ->
           [status |-> <<"status", "result">>, error_code |-> <<"error_code", "errorCode", "code">>,
            message |-> <<"message", "text", "output_message">>,
            output |-> <<"output", "outputs", "result_data", "data">>]
      [] type = "script" ->
           [language |-> <<"language", "engine", "runtime">>,
            code |-> <<"code", "expr", "source", "script">>,
            output |-> <<"output", "output_key", "save_to">>, bindings |-> <<"bindings", "locals">>]
      [] type = "transform" ->
           [operation |-> <<"operation", "op", "mode">>, input |-> <<"input", "source", "from">>,
            mapping |-> <<"mapping", "map", "template">>,
            predicate |-> <<"predicate", "where", "filter">>,
            output |-> <<"output", "output_key", "save_to", "to">>,
            item |-> <<"item_variable", "as", "iterator">>, index |-> <<"index_variable">>,
            as_array |-> <<"as_array", "output_as_array">>]
      [] type = "query" ->
           [source |-> <<"source", "data_source_id", "source_id", "from">>,
            filter |-> <<"filter", "where", "match">>,
            statement |-> <<"query_statement", "statement", "sql", "query">>,
            parameters |-> <<"query_parameters", "parameters", "params">>,
            limit |-> <<"limit">>, offset |-> <<"offset", "skip">>,
            output |-> <<"output", "output_context_key", "save_to">>]
      [] type = "command" ->
           [command |-> <<"command", "action">>, http |-> <<"http_request", "request", "http">>,
            inputs |-> <<"inputs", "input", "args", "config">>,
            output |-> <<"output", "outputs", "save_to", "as">>, method |-> <<"method">>]
      [] type = "event" ->
           [name |-> <<"name", "event", "event_name", "topic">>,
            payload |-> <<"payload", "data", "body">>, publish_now |-> <<"publish_now", "immediate">>]
      [] type = "wait" ->
           [duration |-> <<"duration", "for", "delay">>,
            until |-> <<"until", "condition", "until_condition">>,
            poll |-> <<"poll_interval_ms">>, durable |-> <<"durable">>]
      [] type = "schedule" ->
           [cron |-> <<"cron", "schedule", "when", "every">>, timezone |-> <<"timezone", "tz">>,
            workflow |-> <<"workflow", "workflow_id">>, job_id |-> <<"job_id", "name">>,
            input |-> <<"input", "inputs", "payload">>, enabled2 |-> <<"enabled">>,
            body |-> <<"body", "target", "task", "task_id">>]
      [] type = "subflow" ->
           [workflow |-> <<"workflow", "workflow_id", "call", "blueprint">>,
            wait |-> <<"wait_for_completion", "await", "wait">>,
            inputs |-> <<"inputs", "input", "params">>,
            output |-> <<"output", "output_key", "save_to", "as">>,
            return |-> <<"return", "return_map", "returns">>, max_depth |-> <<"max_depth">>]
      [] type = "condition" ->
           [expression |-> <<"expression", "condition", "when">>, if |-> <<"if">>,
            then |-> <<"then", "then_body", "then_nodes", "on_true", "onTrue">>,
            else |-> <<"else", "else_body", "else_nodes", "on_false", "onFalse">>]
      [] type = "choice" ->
           [expression |-> <<"expression", "variable_key", "selector", "switch">>,
            cases |-> <<"cases", "branches", "options">>,
            default |-> <<"default", "default_target", "fallback">>]
      [] type = "parallel" ->
           [children |-> <<"child_tasks", "children">>, tasks |-> <<"tasks", "task_refs", "branches">>,
            fail_fast |-> <<"fail_fast", "failFast">>, merge_policy |-> <<"merge_policy", "join">>,
            max_concurrency |-> <<"max_concurrency", "concurrency">>]
      [] type = "action" ->
           [capability |-> <<"capability", "command">>, await |-> <<"await_input", "await", "suspend">>,
            prompt |-> <<"prompt_config", "prompt">>, input_variable |-> <<"input_variable">>,
            on_event |-> <<"on_event">>, data_sources |-> <<"data_sources">>,
            inputs |-> <<"inputs", "input", "args", "params">>,
            outputs |-> <<"outputs", "output_map", "returns">>, output |-> <<"output">>,
            next_tasks |-> <<"next_tasks">>]
      [] type = "loop" ->
           [collection |-> <<"collection", "items", "over", "each">>,
            count |-> <<"count", "times", "repeat">>, while |-> <<"while", "condition", "until_done">>,
            iterator |-> <<"iterator", "as", "item_variable">>,
            index |-> <<"index", "index_variable", "index_name">>, body |-> <<"body", "steps", "tasks">>,
            max |-> <<"max_iterations", "max", "iteration_limit">>,
            on_item_error |-> <<"on_item_error", "error_handling">>]
      [] type = "loop_control" ->
           [action |-> <<"action">>, when |-> <<"when", "if">>, loop |-> <<"loop", "loop_id">>]
      [] type = "try" ->
           [body |-> <<"body", "do", "steps">>, catch |-> <<"catch", "error_body">>,
            finally |-> <<"finally", "cleanup">>]

Types == {"noop", "terminate", "script", "transform", "query", "command", "event", "wait",
          "schedule", "subflow", "condition", "choice", "parallel", "action", "loop",
          "loop_control", "try"}

(* The grammar's synonyms for node types. *)
Canonical(text) ==
    CASE text = "if" -> "condition"
      [] text = "switch" -> "choice"
      [] text \in {"break", "continue"} -> "loop_control"
      [] OTHER -> text

(* Spellings of a sub-object: the catch block, a prompt, an awaited event. *)
CatchFields == {<<"as", "error_variable", "var">>, <<"body", "steps">>,
                <<"target", "jump_to">>, <<"when", "cases">>}
PromptFields == {<<"message", "text">>, <<"interaction_type", "type", "mode">>,
                 <<"input_validation", "validation">>, <<"timeout", "timeout_ms">>,
                 <<"output", "save_to", "input_variable">>,
                 <<"options", "dynamic_options", "features">>}
EventFields == {<<"event_name", "event", "name">>, <<"trigger_condition", "when", "condition">>,
                <<"handler", "target", "jump_to">>}
SourceFields == {<<"name", "id">>, <<"scope">>, <<"provider", "type">>, <<"config", "settings">>}
HttpFields == {<<"url", "endpoint">>, <<"auth", "authentication">>, <<"headers">>,
               <<"query", "params", "query_parameters">>, <<"body", "payload", "data">>,
               <<"timeout", "timeout_ms">>, <<"follow_redirects">>, <<"content_type">>}
AuthFields == {<<"type", "scheme">>, <<"username", "user">>, <<"password", "pass", "secret">>,
               <<"token", "api_key", "key">>}
Unused(obj, groups) == DOMAIN obj \ Consumed(obj, groups)

(***************************************************************************)
(* Builders.  R(node, hoisted, bad, warn) is the outcome of one.           *)
(***************************************************************************)
R(node, hoisted, bad, warn) == [node |-> node, hoisted |-> hoisted, bad |-> bad, warn |-> warn]
When(cond, reason) == IF cond THEN {reason} ELSE {}
Fails(type) ==
    CASE type \in {"command", "query"} -> {"HTTP_ERROR"}
      [] type \in {"subflow"} -> {"CAPABILITY_ERROR"}
      [] type \in {"script", "condition"} -> {"EXPRESSION_ERROR"}
      [] OTHER -> {}

NormalizeStatus(text) ==
    CASE text \in {"failure", "error", "fail"} -> "failed"
      [] text \in {"ok", "succeeded", "complete", "completed"} -> "success"
      [] text = "canceled" -> "cancelled"
      [] text \in {"success", "failed", "cancelled"} -> text
      [] OTHER -> "failed"

ParseRetry(x) ==
    LET atLeast1(k) == IF k < 1 THEN 1 ELSE k
    IN  CASE x.j = "number" -> [attempts |-> atLeast1(x.v), retry_on |-> {}]
          [] x.j = "object" ->
               [attempts |-> atLeast1(IntOr(x.v, 3, <<"max_attempts", "attempts", "retries">>)),
                retry_on |-> ToSet(StringList(x.v, <<"retry_on", "retry_if", "retry_on_status">>))]
          [] OTHER -> [attempts |-> 1, retry_on |-> {}]

Leaf(writes, bad) == R([writes |-> writes \ {""}], <<>>, bad, {})

BuildNoop(o, f) ==
    LET assign == Find(o, f.assign)
    IN  Leaf(IF assign.j = "object" THEN DOMAIN assign.v ELSE {}, {})

BuildTerminate(o, f) ==
    R([outcome |-> NormalizeStatus(Lower(StringOr(o, "success", f.status)))], <<>>,
      When(~Compiles(Find(o, f.message)), "expression"), {})

BuildScript(o, f) ==
    Leaf({OptionalString(o, f.output)},
         When(Lower(StringOr(o, "sel", f.language)) \notin {"sel", "expr"}, "language")
         \cup When(IsEmptyExpr(Find(o, f.code)), "no code")
         \cup When(~Compiles(Find(o, f.code)), "expression"))

Operations == {"assign", "filter", "map", "project", "merge", "group", "sort", "flatten",
               "reduce", "set", "copy"}
BuildTransform(o, f) ==
    LET op == Lower(StringOr(o, "assign", f.operation))
        mapping == Find(o, f.mapping)
    IN  Leaf({StringOr(o, "", f.output)},
             When(StringOr(o, "", f.output) = "", "no output")
             \cup When(op \notin Operations, "operation")
             \cup When(op \in {"filter", "map", "reduce"} /\ IsEmptyExpr(Find(o, f.input)), "no input")
             \cup When(op = "project" /\ (mapping.j # "object" \/ DOMAIN mapping.v = {}), "no mapping")
             \cup When(~Compiles(Find(o, f.input)) \/ ~Compiles(Find(o, f.predicate)), "expression"))

BuildQuery(o, f) ==
    Leaf({StringOr(o, "", f.output)},
         When(StringOr(o, "", f.source) = "", "no source")
         \cup When(StringOr(o, "", f.output) = "", "no output")
         \cup When(Find(o, f.filter).j \in {"number", "boolean"}, "filter"))

(* `method` turns any command into an http one, with an empty request;     *)
(* http.brew stands for any http.* name that is not a verb.                *)
HttpVerbs == {"http.get", "http.post", "http.put", "http.patch", "http.delete", "http.head"}
BuildCommand(o, f) ==
    LET http == Find(o, f.http)
        auth == IF http.j = "object" THEN Find(http.v, <<"auth", "authentication">>) ELSE Absent
        method == Find(o, f.method)
        command == IF method.j = "string" THEN "http." \o Lower(method.v)
                   ELSE OptionalString(o, f.command)
        isHttp == command \in HttpVerbs \cup {"http.brew"}
        url == IF http.j = "object" THEN OptionalString(http.v, <<"url", "endpoint">>) ELSE ""
        out == Find(o, f.output)
    IN  R([writes |-> (CASE out.j = "string" -> {out.v}
                         [] out.j = "object" -> DOMAIN out.v
                         [] out.j = "array" -> {Dump(out.v[i]) : i \in DOMAIN out.v}
                         [] OTHER -> {}) \ {""}], <<>>,
          When(Find(o, f.command).j \in {"absent", "null"}, "no command")
          \cup When(http.j = "object"
                    /\ Find(http.v, <<"url", "endpoint">>).j \in {"absent", "null"}, "no url")
          \cup When(auth.j = "object"
                    /\ Lower(StringOr(auth.v, "basic", <<"type", "scheme">>)) \notin {"basic", "bearer"},
                    "auth")
          \cup When(out.j = "array" /\ \E i \in DOMAIN out.v : out.v[i].j # "string", "output")
          \cup When(isHttp /\ command \notin HttpVerbs, "verb")
          \cup When(isHttp /\ url = "", "no url")
          \cup When(~isHttp /\ command \notin Registered, "unknown command"),
          (IF http.j = "object" THEN Unused(http.v, HttpFields) \ {"url"} ELSE {})
          \cup (IF auth.j = "object" THEN Unused(auth.v, AuthFields) ELSE {}))

BuildEvent(o, f) ==
    R([event |-> OptionalString(o, f.name), publish_now |-> BoolOr(o, TRUE, f.publish_now)], <<>>,
      When(Find(o, f.name).j \in {"absent", "null"}, "no name"), {})

(* `until` that does not compile stays a template: never a rejection.      *)
BuildWait(o, f) ==
    LET duration == OptionalString(o, f.duration)
        timed == Find(o, f.duration).j \notin {"absent", "null"}
        until == ~IsEmptyExpr(Find(o, f.until))
    IN  R([until |-> ~timed /\ until, durable |-> BoolOr(o, TRUE, f.durable)], <<>>,
          When(~timed /\ ~until, "neither") \cup When(timed /\ until, "both")
          \cup When(timed /\ duration \notin Durations, "duration"), {})

BuildSchedule(o, f) ==
    R([target |-> StringOr(o, "", f.body), workflow |-> OptionalString(o, f.workflow)], <<>>,
      When(StringOr(o, "", f.cron) = "", "no cron")
      \cup When(StringOr(o, "", f.cron) \notin Schedules, "schedule")
      \cup When(StringOr(o, "", f.body) = "" /\ OptionalString(o, f.workflow) = "", "no target"), {})

BuildSubflow(o, f) ==
    R([workflow |-> OptionalString(o, f.workflow),
       writes |-> {OptionalString(o, f.output)} \ {""}], <<>>,
      When(Find(o, f.workflow).j \in {"absent", "null"}, "no workflow")
      \cup When(IntOr(o, 8, f.max_depth) < 1, "max_depth"), {})

BuildChoice(o, f) ==
    LET cases == StringMap(o, f.cases)
    IN  R([cases |-> {cases[k] : k \in DOMAIN cases}, default |-> OptionalString(o, f.default)], <<>>,
          When(IsEmptyExpr(Find(o, f.expression)), "no expression")
          \cup When(~Compiles(Find(o, f.expression)), "expression")
          \cup When(DOMAIN cases = {}, "no cases"), {})

BuildLoopControl(o, f, type) ==
    LET action == CASE type \in {"break", "continue"} -> type
                    [] OTHER -> Lower(StringOr(o, "continue", f.action))
    IN  R([action |-> action \o "_loop", loop |-> OptionalString(o, f.loop),
           conditional |-> Find(o, f.when).j \notin {"absent", "null"}], <<>>,
          When(action \notin {"break", "continue"}, "action")
          \cup When(~Compiles(Find(o, f.when)), "expression"), {})

Interactions == {"display", "input", "menu", "pin"}

(* json::empty, of an object that may be missing. *)
NoEntries(x) == x.j \in {"absent", "null"} \/ (x.j = "object" /\ DOMAIN x.v = {})

BuildAction(o, f) ==
    LET prompt == Find(o, f.prompt)
        p == IF prompt.j = "object" THEN prompt.v ELSE [x \in {} |-> Absent]
        event == Find(o, f.on_event)
        e == IF event.j = "object" THEN event.v ELSE [x \in {} |-> Absent]
        sources == Find(o, f.data_sources)
        src == IF sources.j = "array" THEN {sources.v[i] : i \in DOMAIN sources.v} ELSE {}
        tasks == Find(o, f.next_tasks)
        ref(x) == IF x.j = "object" THEN OptionalString(x.v, <<"task_id", "node", "target">>)
                  ELSE Dump(x)
        refs == IF tasks.j = "array" THEN {tasks.v[i] : i \in DOMAIN tasks.v} ELSE {}
        capability == StringOr(o, "", f.capability)
        options == Find(p, <<"options", "dynamic_options", "features">>)
        message == IF prompt.j = "string" THEN prompt ELSE Find(p, <<"message", "text">>)
        trigger == <<"trigger_condition", "when", "condition">>
        guard == <<"execute_condition", "when", "condition">>
        out == Find(o, f.output)
    IN  R([prompt |-> prompt.j \in {"string", "object"} /\ BoolOr(o, TRUE, f.await),
           on_event |-> event.j \in {"string", "object"},
           handler |-> OptionalString(e, <<"handler", "target", "jump_to">>),
           validated |-> ~IsEmptyExpr(Find(p, <<"input_validation", "validation">>)),
           next_tasks |-> {ref(x) : x \in refs},
           sources |-> {OptionalString(x.v, <<"name", "id">>) : x \in {y \in src : y.j = "object"}},
           may |-> IF capability = "" THEN {} ELSE {"CAPABILITY_ERROR"}], <<>>,
          When(prompt.j \notin {"absent", "string", "object"}, "prompt")
          \cup When(prompt.j = "object"
                    /\ Lower(StringOr(p, "input", <<"interaction_type", "type", "mode">>)) \notin Interactions,
                    "interaction")
          \cup When(prompt.j # "absent" /\ IsEmptyExpr(message), "no message")
          \cup When(\E x \in {message, Find(p, <<"input_validation", "validation">>), Find(e, trigger)}
                            \cup {Find(y.v, guard) : y \in {z \in refs : z.j = "object"}} : ~Compiles(x),
                    "expression")
          \cup When(options.j \notin {"absent", "object"}, "options")
          \cup When(event.j \notin {"absent", "null", "string", "object"}, "on_event")
          \cup When(event.j = "object"
                    /\ Find(e, <<"event_name", "event", "name">>).j \in {"absent", "null"}, "no event name")
          \cup When(\E x \in src : x.j # "object", "data source")
          \cup When(\E x \in src : x.j = "object"
                    /\ (\/ Find(x.v, <<"name", "id">>).j \in {"absent", "null"}
                        \/ StringOr(x.v, "", <<"provider", "type">>) = ""
                        \/ Lower(StringOr(x.v, "internal", <<"scope">>)) \notin {"internal", "external"}),
                    "data source")
          \cup When(\E x \in refs : x.j \notin {"string", "object"} \/ ref(x) = "", "next_tasks")
          \cup When(out.j \notin {"absent", "object", "string"} /\ NoEntries(Find(o, f.outputs)), "output")
          \cup When(capability # "" /\ capability \notin Registered, "unknown capability")
          \cup When(capability = "" /\ prompt.j \in {"absent"} /\ event.j \in {"absent", "null"}
                    /\ refs = {} /\ src = {}, "inert"),
          (IF prompt.j = "object" THEN Unused(p, PromptFields) ELSE {})
          \cup (IF event.j = "object" THEN Unused(e, EventFields) ELSE {})
          \cup UNION {Unused(x.v, SourceFields) : x \in {y \in src : y.j = "object"}})

(***************************************************************************)
(* Bodies: ids stay, inline objects are parsed and hoisted                 *)
(***************************************************************************)
RECURSIVE ParseNode(_, _, _)

(* What a list of body entries gives, with the inline ones parsed. *)
Collected(items, child) ==
    [ids |-> [i \in DOMAIN items |->
                 CASE items[i].j = "string" -> items[i].v
                   [] items[i].j = "object" -> child[i].node.id
                   [] OTHER -> ""],
     hoisted |-> FlattenSeq([i \in DOMAIN items |->
                     IF items[i].j = "object" THEN Append(child[i].hoisted, child[i].node) ELSE <<>>]),
     bad |-> When(\E i \in DOMAIN items : items[i].j \notin {"string", "object"}, "body entry")
                 \cup UNION {child[i].bad : i \in DOMAIN child},
     warn |-> UNION {child[i].warn : i \in DOMAIN child}]

(* Generated ids count the inline objects of one list only.                *)
Expand(value, parent, slot, strict) ==
    LET items == CASE value.j = "array" -> value.v
                   [] value.j = "string" -> <<value>>
                   [] OTHER -> <<>>
        name(i) == parent \o "." \o slot \o "_"
                       \o ToString(Cardinality({k \in 1..(i - 1) : items[k].j = "object"}))
    IN  Collected(items, Table([i \in {k \in DOMAIN items : items[k].j = "object"} |->
                                    ParseNode(items[i].v, name(i), strict)]))

ConditionOf(o, f, t, e) ==
    LET expression == IF IsEmptyExpr(Find(o, f.expression)) THEN Find(o, f.if)
                      ELSE Find(o, f.expression)
        target(names) == IF Find(o, names).j = "string" THEN Find(o, names).v ELSE ""
    IN  R([then |-> t.ids, else |-> e.ids, on_true |-> target(f.then), on_false |-> target(f.else)],
          t.hoisted \o e.hoisted,
          t.bad \cup e.bad \cup When(IsEmptyExpr(expression), "no expression")
          \cup When(~Compiles(expression), "expression")
          \cup When(target(f.then) = "" /\ t.ids = <<>>, "no then"),
          t.warn \cup e.warn)

BuildCondition(o, f, id, strict) ==
    LET list(names) == IF Find(o, names).j = "array" THEN Find(o, names) ELSE A(<<>>)
    IN  ConditionOf(o, f, Expand(list(f.then), id, "then", strict), Expand(list(f.else), id, "else", strict))

(* LoopTask::items: the numbers of items the source may give, and the      *)
(* errors.  Only an interpolation is known when it runs; every other text  *)
(* is text, and so is an array or an object the blueprint spells out,      *)
(* which Expression::fromJson makes a template of what it dumps to.  Texts *)
(* may hold interpolations that fail.                                      *)
Failing(x) == IF x.j \in {"string", "array", "object"} THEN {"EXPRESSION_ERROR"} ELSE {}
Interpolated(x) == x.j = "string" /\ x.v \in Slots
Counted(x) ==
    LET fixed == CASE x.j = "number" -> {x.v}
                   [] x.j = "string" /\ x.v \in DOMAIN Numerals -> {Numerals[x.v]}
                   [] OTHER -> {}
    IN  IF fixed # {} THEN [totals |-> {IF k > 0 THEN k ELSE 0 : k \in fixed}, may |-> {}]
        ELSE [totals |-> IF Interpolated(x) THEN 0..MaxItems ELSE {},
              may |-> {"VALIDATION_ERROR"} \cup Failing(x)]
Listed(x) == [totals |-> IF Interpolated(x) THEN 0..MaxItems ELSE {1}, may |-> Failing(x)]

LoopOf(o, f, b) ==
    LET counted == ~IsEmptyExpr(Find(o, f.count))
        listed == ~IsEmptyExpr(Find(o, f.collection))
        onItem == Lower(StringOr(o, "fail", f.on_item_error))
        max == IntOr(o, 1000, f.max)
        items == CASE counted -> Counted(Find(o, f.count))
                   [] ~counted /\ listed -> Listed(Find(o, f.collection))
                   [] OTHER -> [totals |-> {max}, may |-> {}]
    IN  R([body |-> b.ids, max |-> max, on_item_error |-> onItem,
           while |-> ~counted /\ ~listed,
           totals |-> items.totals, may |-> items.may,
           iterator |-> StripSigil(StringOr(o, "item", f.iterator)),
           index |-> StripSigil(StringOr(o, "index", f.index))],
          b.hoisted,
          b.bad \cup When(onItem \notin {"fail", "continue", "retry"}, "on_item_error")
          \cup When(~counted /\ ~listed /\ IsEmptyExpr(Find(o, f.while)), "no source")
          \cup When(\E g \in {f.while, f.collection, f.count} : ~Compiles(Find(o, g)), "expression")
          \cup When(b.ids = <<>>, "no body") \cup When(max < 1, "max"),
          b.warn)

BuildLoop(o, f, id, strict) == LoopOf(o, f, Expand(Find(o, f.body), id, "body", strict))

TryOf(o, c, body, inner, final) ==
    LET target == OptionalString(c, <<"target", "jump_to">>)
        catch == IF target = "" THEN inner.ids ELSE Append(inner.ids, target)
        when == StringMap(c, <<"when", "cases">>)
    IN  R([body |-> body.ids, catch |-> catch, when |-> when, finally |-> final.ids],
          body.hoisted \o inner.hoisted \o final.hoisted,
          body.bad \cup inner.bad \cup final.bad
          \cup When(Unused(c, CatchFields) # {}, "catch field")
          \cup When(body.ids = <<>>, "no body")
          \cup When(catch = <<>> /\ DOMAIN when = {} /\ final.ids = <<>>, "no handler"),
          body.warn \cup inner.warn \cup final.warn)

BuildTry(o, f, id, strict) ==
    LET block == Find(o, f.catch)
        c == IF block.j = "object" THEN block.v ELSE [x \in {} |-> Absent]
    IN  TryOf(o, c, Expand(Find(o, f.body), id, "try", strict),
              Expand(IF block.j = "object" THEN Find(c, <<"body", "steps">>) ELSE block, id, "catch", strict),
              Expand(Find(o, f.finally), id, "finally", strict))

(* A child with a body list becomes one branch (its inline nodes counted   *)
(* from 0 again); a plain node is hoisted under its own or a counted id.   *)
Hoist(id, n) ==
    [ids |-> <<id>>, hoisted |-> Append(n.hoisted, n.node), bad |-> n.bad, warn |-> n.warn]
ReadBranch(o, b) ==
    [b EXCEPT !.warn = @ \cup (Unused(o, {<<"id", "label", "name">>}) \ {"tasks", "body"})]
BranchOf(x, i, id, strict) ==
    LET none == [ids |-> <<>>, hoisted |-> <<>>, bad |-> {}, warn |-> {}]
        ownId == IF "id" \in DOMAIN x.v /\ x.v["id"].j = "string" THEN x.v["id"].v
                 ELSE id \o ".branch_" \o ToString(i - 1)
    IN  CASE x.j = "string" -> [none EXCEPT !.ids = <<x.v>>]
          [] x.j = "object" -> IF DOMAIN x.v \cap {"tasks", "body"} # {}
                               THEN ReadBranch(x.v, Expand(Find(x.v, <<"tasks", "body">>), id, "branch", strict))
                               ELSE Hoist(ownId, ParseNode(x.v, ownId, strict))
          [] OTHER -> [none EXCEPT !.bad = {"child"}]

ParallelOf(o, f, branch) ==
    LET refs == StringList(o, f.tasks)
        branches == SelectSeq([i \in DOMAIN branch |-> branch[i].ids], LAMBDA b : b # <<>>)
                        \o [i \in DOMAIN refs |-> <<refs[i]>>]
        policy == StringOr(o, "last_writer_wins", f.merge_policy)
    IN  R([branches |-> branches, fail_fast |-> BoolOr(o, TRUE, f.fail_fast), merge_policy |-> policy],
          FlattenSeq([i \in DOMAIN branch |-> branch[i].hoisted]),
          UNION {branch[i].bad : i \in DOMAIN branch}
          \cup When(Find(o, f.children).j \notin {"absent", "array"}, "child_tasks")
          \cup When(branches = <<>>, "no branches")
          \cup When(IntOr(o, 0, f.max_concurrency) < 0, "max_concurrency")
          \cup When(policy \notin {"last_writer_wins", "skip_conflicts", "fail_conflicts"}, "policy"),
          UNION {branch[i].warn : i \in DOMAIN branch})

BuildParallel(o, f, id, strict) ==
    LET items == IF Find(o, f.children).j = "array" THEN Find(o, f.children).v ELSE <<>>
    IN  ParallelOf(o, f, Table([i \in DOMAIN items |-> BranchOf(items[i], i, id, strict)]))

Build(o, type, f, id, strict) ==
    LET t == Canonical(type)
    IN  CASE t = "noop" -> BuildNoop(o, f)
          [] t = "terminate" -> BuildTerminate(o, f)
          [] t = "script" -> BuildScript(o, f)
          [] t = "transform" -> BuildTransform(o, f)
          [] t = "query" -> BuildQuery(o, f)
          [] t = "command" -> BuildCommand(o, f)
          [] t = "event" -> BuildEvent(o, f)
          [] t = "wait" -> BuildWait(o, f)
          [] t = "schedule" -> BuildSchedule(o, f)
          [] t = "subflow" -> BuildSubflow(o, f)
          [] t = "condition" -> BuildCondition(o, f, id, strict)
          [] t = "choice" -> BuildChoice(o, f)
          [] t = "parallel" -> BuildParallel(o, f, id, strict)
          [] t = "action" -> BuildAction(o, f)
          [] t = "loop" -> BuildLoop(o, f, id, strict)
          [] t = "loop_control" -> BuildLoopControl(o, f, type)
          [] t = "try" -> BuildTry(o, f, id, strict)

(* Keys nobody read: a warning, or a rejection when strict_fields is on.   *)
Unread(o, type, f) ==
    LET conditional == {f[k] : k \in DOMAIN f \cap
            (IF Canonical(type) = "condition" /\ ~IsEmptyExpr(Find(o, f.expression)) THEN {"if"}
             ELSE IF Canonical(type) = "action" /\ ~NoEntries(Find(o, f.outputs)) THEN {"output"}
             ELSE IF type \in {"break", "continue"} THEN {"action"} ELSE {})}
        groups == ({f[k] : k \in DOMAIN f} \ conditional) \cup {Common[k] : k \in DOMAIN Common}
    IN  DOMAIN o \ (Consumed(o, groups) \cup {"type", "id"})

NodeOf(o, id, type, b, unread, strict) ==
    R(b.node @@ [id |-> id, type |-> type,
                 next |-> OptionalString(o, Common.next), on_error |-> OptionalString(o, Common.on_error),
                 enabled |-> BoolOr(o, TRUE, Common.enabled), may |-> Fails(type), writes |-> {}]
             @@ ParseRetry(Find(o, Common.retry)),
      b.hoisted, b.bad \cup When(strict /\ unread # {}, "unread field"), b.warn \cup unread)

ParseNode(o, autoId, strict) ==
    LET type == IF "type" \in DOMAIN o /\ o["type"].j = "string" THEN Lower(o["type"].v) ELSE ""
        given == StringOr(o, autoId, Common.id)
        id == IF given = "" THEN autoId ELSE given
        f == Own(Canonical(type))
    IN  IF Canonical(type) \notin Types
        THEN R([id |-> id, type |-> "unknown"], <<>>, {"type"}, {})
        ELSE NodeOf(o, id, Canonical(type), Build(o, type, f, id, strict), Unread(o, type, f), strict)

(***************************************************************************)
(* parseWorkflowJson                                                       *)
(***************************************************************************)
(* Nodes in order, hoisted ones last; a node without next falls through.   *)
Linked(top, all) ==
    Table([i \in DOMAIN all |->
        IF i < Len(top) /\ all[i].next = "" /\ all[i].type # "terminate"
        THEN [all[i] EXCEPT !.next = all[i + 1].id] ELSE all[i]])

Assembled(name, top, all) ==
    [name |-> name,
     bad |-> UNION {top[i].bad : i \in DOMAIN top}
                 \cup When(top = <<>>, "no nodes") \cup When(Len(top) > MaxNodes, "max_nodes")
                 \cup When(\E i, k \in DOMAIN all : i # k /\ all[i].id = all[k].id, "duplicate id"),
     warn |-> UNION {top[i].warn : i \in DOMAIN top},
     order |-> [i \in DOMAIN all |-> all[i].id],
     entry |-> IF top = <<>> THEN "" ELSE all[1].id,
     nodes |-> Table([id \in {all[i].id : i \in DOMAIN all} |->
                         all[CHOOSE i \in DOMAIN all : all[i].id = id]])]

WithHoisted(name, top) ==
    Assembled(name, top, Linked(top, [i \in DOMAIN top |-> top[i].node]
                                          \o FlattenSeq([i \in DOMAIN top |-> top[i].hoisted])))

ParseWorkflow(name, nodes, strict) ==
    WithHoisted(name, Table([i \in DOMAIN nodes |->
                                ParseNode(nodes[i], "node_" \o ToString(i - 1), strict)]))
================================================================================
