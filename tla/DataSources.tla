---------------------------- MODULE DataSources ----------------------------
(***************************************************************************)
(* Rows: the data source registry with its built-in providers and the      *)
(* filter language (data/DataSourceProvider.cpp), and the query, transform *)
(* and script tasks that work on rows (tasks/CoreTasks.cpp).               *)
(*                                                                         *)
(* Values and errors are those of Sel, and so are expressions, of which    *)
(* the ones without a call are enough here.  A filter is a JSON value      *)
(* whose objects have paths (sequences of names) as keys.  A scope is a function from paths   *)
(* to values; an absent limit or offset is -1, which the code treats like  *)
(* one.  A pattern of $regex is a plain text.                              *)
(***************************************************************************)
EXTENDS Sel

------------------------------------------------------------------------------
(* Texts.  std::string compares bytes: the order of this model's texts. *)

Alphabet == <<"", "1", "10", "2", "3", "5", "a", "amount", "b", "f", "false", "null", "q", "true", "{json}">>
Before(s, t) == \E i, j \in DOMAIN Alphabet : i < j /\ Alphabet[i] = s /\ Alphabet[j] = t

\* The text of a string, the dump of anything else.
Text(v) == IF IsNull(v) THEN "null" ELSE ToStr(v)

\* The first error of some results, or what they give together.
FirstBad(vals) == CHOOSE k \in DOMAIN vals : IsError(vals[k]) /\ \A j \in 1..(k - 1) : ~IsError(vals[j])
Unless(vals, G(_)) == IF \E k \in DOMAIN vals : IsError(vals[k]) THEN vals[FirstBad(vals)] ELSE G(vals)

\* The value of a tree without calls in a scope: Sel's Eval, with no locals to keep.
Passes(v, G(_)) == IF IsError(v) THEN v ELSE G(v)
RECURSIVE Value(_, _, _)
Value(n, outer, strict) ==
    CASE n[1] = "lit" -> n[2]
      [] DottedPath(n) # <<>> /\ Resolve(outer, DottedPath(n)) # None -> Resolve(outer, DottedPath(n))
      [] n[1] = "var" -> IF strict THEN Error("not_found") ELSE Null
      [] n[1] = "member" -> Passes(Value(n[3], outer, strict), LAMBDA v : Field(v, n[2]))
      [] OTHER -> Passes(Value(n[3], outer, strict), LAMBDA v :
                         IF n[2] = "&&" /\ ~Truthy(v) THEN Bool(FALSE)
                         ELSE Passes(Value(n[4], outer, strict), LAMBDA w :
                                     IF n[2] = "&&" THEN Bool(Truthy(w)) ELSE BinaryOp(n[2], v, w)))

\* evaluateBool.
Test(e, outer) == Passes(Value(e, outer, TRUE), LAMBDA v : Bool(Truthy(v)))

\* The rows that a test accepts; the first test that throws ends it.
SelectRows(rows, Accepts(_, _)) ==
    Unless([k \in DOMAIN rows |-> Accepts(rows[k], k - 1)], LAMBDA oks : Collect("filter", rows, oks))

------------------------------------------------------------------------------
(* The filter language. *)

\* truthy and equals of this file, which differ from those of Value.hpp.
FilterTruthy(v) == CASE v[1] = "str" -> v[2] \notin {"", "false", "0", "null"}
                     [] v[1] \in {"arr", "obj"} -> TRUE
                     [] OTHER -> Truthy(v)

FilterEquals(a, b) == IF {a[1], b[1]} = {"num", "str"} THEN ToStr(a) = ToStr(b) ELSE a = b

\* Numbers compare as numbers, anything else by its text.
Smaller(a, b) == IF a[1] = "num" /\ b[1] = "num" THEN a[2] < b[2] ELSE Before(Text(a), Text(b))
Same(a, b) == IF a[1] = "num" /\ b[1] = "num" THEN a[2] = b[2] ELSE Text(a) = Text(b)

\* fieldValue: None when the row has no such field.
FieldValue(row, path) == IF row[1] = "obj" THEN Walk(row, path) ELSE None

\* One operator on a field that is there.
Satisfies(v, op, x) ==
    CASE op = "$exists" -> FilterTruthy(x)
      [] op = "$eq" -> FilterEquals(v, x)
      [] op = "$ne" -> ~FilterEquals(v, x)
      [] op = "$lt" -> Smaller(v, x)
      [] op = "$lte" -> Smaller(v, x) \/ Same(v, x)
      [] op = "$gt" -> Smaller(x, v)
      [] op = "$gte" -> Smaller(x, v) \/ Same(v, x)
      [] op = "$in" -> x[1] = "arr" /\ \E y \in Range(x[2]) : FilterEquals(v, y)
      [] op = "$nin" -> x[1] = "arr" /\ \A y \in Range(x[2]) : ~FilterEquals(v, y)
      [] op = "$regex" -> x[1] = "str" /\ v[1] = "str" /\ Holds(v, x)
      [] OTHER -> TRUE

\* $other stands for a name with a dollar that is no operator: nothing is asked of it.
OperatorNames == {"$other", "$exists", "$eq", "$ne", "$lt", "$lte", "$gt", "$gte", "$in", "$nin", "$regex"}

\* Operators on a field that is not there: their keys are visited in order, $eq
\* before $exists before the rest, and $exists decides without a look at those.
MissingSatisfies(ops) ==
    CASE "$eq" \in DOMAIN ops -> FALSE
      [] "$exists" \in DOMAIN ops -> ~FilterTruthy(ops["$exists"])
      [] OTHER -> DOMAIN ops \subseteq {"$ne", "$nin"}

\* applyOperators: a plain key among operators is an error of a field that passes them.
ApplyOperators(v, ops) ==
    CASE v = None -> Bool(MissingSatisfies(ops))
      [] \E op \in DOMAIN ops : ~Satisfies(v, op, ops[op]) -> Bool(FALSE)
      [] ~(DOMAIN ops \subseteq OperatorNames) -> Error("validation")
      [] OTHER -> Bool(TRUE)

IsOperators(x) == x[1] = "obj" /\ DOMAIN x[2] \cap OperatorNames # {}

FieldMatches(v, x) == IF IsOperators(x) THEN ApplyOperators(v, x[2])
                      ELSE Bool(v # None /\ FilterEquals(v, x))

\* A conjunction: its first part that is not true, an error too, is its value.
AllOf(parts) == FoldLeft(LAMBDA r, p : IF r = Bool(TRUE) THEN p ELSE r, Bool(TRUE), parts)

RECURSIVE MatchesFilter(_, _)
MatchesFilter(row, filter) ==
    CASE IsNull(filter) -> Bool(TRUE)
      [] filter[1] = "bool" -> filter
      [] filter[1] = "arr" -> AllOf([k \in DOMAIN filter[2] |-> MatchesFilter(row, filter[2][k])])
      [] filter[1] = "obj" ->
            LET paths == SetToSortSeq(DOMAIN filter[2], LAMBDA p, q : Before(p[1], q[1]))
            IN AllOf([k \in DOMAIN paths |-> FieldMatches(FieldValue(row, paths[k]), filter[2][paths[k]])])
      [] OTHER -> Error("validation")

------------------------------------------------------------------------------
(* Scopes of a row. *)

Names(f) == [p \in {<<n>> : n \in DOMAIN f} |-> f[p[1]]]
Fields(row) == IF row[1] = "obj" THEN Names(row[2]) ELSE <<>>

\* Locals before the context; a field that a local object lacks is still found
\* in the context's object of the same name.
Layered(locals, context) ==
    LET Has(f, p) == <<p[1]>> \in DOMAIN f /\ f[<<p[1]>>][1] = "obj" /\ p[2] \in DOMAIN f[<<p[1]>>][2]
        fields == UNION {DOMAIN context[p][2] : p \in {q \in DOMAIN context : context[q][1] = "obj"}}
        through == {p \in {<<q[1], f>> : q \in DOMAIN context \cap DOMAIN locals, f \in fields} :
                        Has(context, p) /\ ~Has(locals, p)}
    IN locals @@ context @@ [p \in through |-> context[<<p[1]>>][2][p[2]]]

\* The scope of one row of a query: its fields, then the row itself as item.
QueryScope(row, env) == Layered((<<"item">> :> row) @@ Fields(row) @@ env.locals, env.context)

\* rowScope and scope_for of a transform, the strongest binding first.
RowScope(row, index, node, extra, env) ==
    Layered((<<"item">> :> row) @@ (<<"index">> :> Num(index)) @@ Fields(row)
            @@ (<<node.item>> :> row) @@ extra @@ env.locals, env.context)

------------------------------------------------------------------------------
(* The providers.  A source is [name, scope, provider, config]; the config *)
(* is a record of what the provider reads.                                 *)

CollectionKeys == <<"items", "rows", "data", "results">>

\* The list under the first collection key that holds one, or the value itself.
Unwrapped(v) ==
    LET lists == {k \in DOMAIN CollectionKeys : /\ CollectionKeys[k] \in DOMAIN v[2]
                                                /\ v[2][CollectionKeys[k]][1] = "arr"}
    IN IF v[1] # "obj" THEN v ELSE IF lists = {} THEN v ELSE v[2][CollectionKeys[Min(lists)]]

\* An object with an empty list counts as a row.
AsCollection(v, list) ==
    CASE v[1] = "arr" -> v
      [] v[1] = "obj" -> IF list[1] = "arr" /\ list[2] # <<>> THEN list ELSE Arr(<<v>>)
      [] IsNull(v) -> Arr(<<>>)
      [] OTHER -> Error("data_source")
ContextRows(config, env) ==
    Passes(Value(config.source, env.context, FALSE), LAMBDA v : AsCollection(v, Unwrapped(v)))

\* A file is only read where rows is there and null.
InnerRows(v) == IF v[1] = "obj" /\ "rows" \in DOMAIN v[2] THEN v[2]["rows"] ELSE v
MockRows(config) ==
    LET given == InnerRows(IF "rows" \in DOMAIN config THEN config.rows ELSE Arr(<<>>))
        rows == IF IsNull(given) /\ "file" \in DOMAIN config THEN InnerRows(config.file) ELSE given
    IN IF rows[1] = "arr" THEN rows ELSE Error("data_source")

\* The server, external: what send() returns for the paging it was asked for.
Served(server, limit, offset) ==
    IF ~server.pages THEN server.body
    ELSE LET from == Max({offset, 0})
         IN Arr(SubSeq(server.body[2], from + 1, IF limit < 0 THEN Len(server.body[2]) ELSE Min({from + limit, Len(server.body[2])})))

\* The rows of a document: those under rows_path where it leads somewhere.
DocumentRows(body, path) ==
    LET rows == Unwrapped(IF path = <<>> \/ Walk(body, path) = None THEN body ELSE Walk(body, path))
    IN IF rows[1] = "arr" THEN rows ELSE Arr(<<rows>>)

\* A query of the config replaces the limit and offset put into the request.
HttpRows(config, query, env) ==
    LET Asked(n) == IF "query" \in DOMAIN config THEN -1 ELSE n
        Answer(body) == IF IsNull(body) THEN Error("data_source") ELSE DocumentRows(body, config.rows_path)
    IN Passes(Value(config.url, env.context, TRUE), LAMBDA url :
              CASE config.server.down -> Error("http")
                [] config.server.status \notin 200..299 -> Error("http_status")
                [] OTHER -> Answer(Served(config.server, Asked(query.limit), Asked(query.offset))))

\* withBuiltIns.
Deferred == {"redis", "postgresql"}
Registered == {"context", "mock", "http"} \cup Deferred

ProviderRows(source, query, env) ==
    CASE source.provider = "context" -> ContextRows(source.config, env)
      [] source.provider = "mock" -> MockRows(source.config)
      [] source.provider = "http" -> HttpRows(source.config, query, env)

\* What validate() objects to: of every source, and by provider.
When(bad, problem) == IF bad THEN {problem} ELSE {}
BaseProblems(s) == When(s.name = "", "name") \cup When(s.scope \notin {"internal", "external"}, "scope")
ContextProblems(config) == {"source"} \ DOMAIN config
MockProblems(config) == When({"rows", "file"} \cap DOMAIN config = {}, "rows or file")
                        \cup When("rows" \in DOMAIN config /\ config.rows[1] # "arr", "array")
HttpProblems(config) == {"url"} \ DOMAIN config

Problems(s) ==
    CASE s.provider = "" -> {"no provider"}
      [] s.provider \notin Registered -> {"unknown provider"}
      [] OTHER -> When(s.provider \in Deferred, "deferred") \cup BaseProblems(s)
                  \cup CASE s.provider = "context" -> ContextProblems(s.config)
                         [] s.provider = "mock" -> MockProblems(s.config)
                         [] s.provider = "http" -> HttpProblems(s.config)
                         [] OTHER -> {}

------------------------------------------------------------------------------
(* The registry's run() and the query task. *)

\* The limit applied before the offset.
MutPaged(rows, limit, offset) ==
    LET cut == IF limit >= 0 THEN Min({limit, Len(rows)}) ELSE Len(rows)
        begin == Min({Max({offset, 0}), cut})
    IN [rows |-> SubSeq(rows, begin + 1, cut), total |-> Len(rows), truncated |-> begin > 0 \/ cut < Len(rows)]

\* Offset, then limit; truncated also when only the offset dropped rows.
Paged(rows, limit, offset) ==
    LET begin == Min({Max({offset, 0}), Len(rows)})
        rest == SubSeq(rows, begin + 1, Len(rows))
        cut == limit >= 0 /\ limit < Len(rest)
    IN [rows |-> IF cut THEN SubSeq(rest, 1, limit) ELSE rest, total |-> Len(rows), truncated |-> begin > 0 \/ cut]

\* A filter that is a text is a program on the row, any other a matcher object;
\* null is none.  Providers and registry apply the same matcher.
Matches(filter, row, env) ==
    IF "program" \in DOMAIN filter THEN Test(filter.program, QueryScope(row, env))
    ELSE MatchesFilter(row, filter.object)

\* DataSourceRegistry::run: a page, or an error.
RunQuery(source, query, env) ==
    CASE source.provider \notin Registered -> Error("not_found")
      [] source.provider \in Deferred -> Error("not_implemented")
      [] OTHER -> Passes(ProviderRows(source, query, env), LAMBDA fetched :
                     Passes(SelectRows(fetched[2], LAMBDA row, k : Matches(query.filter, row, env)), LAMBDA kept :
                            <<"page", Paged(kept[2], query.limit, query.offset)>>))

\* A source that nobody declared is a variable of the context.
SourceOf(name, declared) ==
    IF name \in DOMAIN declared THEN declared[name]
    ELSE [name |-> name, scope |-> "internal", provider |-> "context", config |-> [source |-> <<"var", name>>]]

\* QueryTask::execute: what it writes to the context; the count and the flag of
\* an earlier query stay where this one writes none.
Outputs(page) ==
    ("rows" :> Arr(page.rows))
    @@ (IF page.total # Len(page.rows) THEN "rows_total" :> Num(page.total) ELSE <<>>)
    @@ (IF page.truncated THEN "rows_truncated" :> Bool(TRUE) ELSE <<>>)

------------------------------------------------------------------------------
(* The transform task.  A node is [operation, item, predicate, mapping,    *)
(* asArray]: predicate (or None) and the values of mapping are expressions,*)
(* but those of sort and reduce are options: by (a path), desc, initial.  The  *)
(* index keeps its name.                                                   *)

\* asRows: the values of an object of objects, each with its key.
AsRows(v) ==
    CASE v[1] = "arr" -> v
      [] v[1] = "obj" /\ v[2] # <<>> /\ (\A n \in DOMAIN v[2] : v[2][n][1] = "obj") ->
            LET keys == SetToSortSeq(DOMAIN v[2], Before)
            IN Arr([k \in DOMAIN keys |-> Obj(("key" :> Str(keys[k])) @@ v[2][keys[k]][2])])
      [] IsNull(v) -> Error("validation")
      [] OTHER -> Arr(<<v>>)

ResolvedMap(mapping, outer) ==
    LET vals == [n \in DOMAIN mapping |-> Value(mapping[n], outer, TRUE)]
        bad == {n \in DOMAIN mapping : IsError(vals[n])}
    IN IF bad = {} THEN Obj(vals) ELSE vals[SetToSortSeq(bad, Before)[1]]

\* map and project: the mapping, else the predicate, else the row.
MapRow(node, row, outer) ==
    CASE node.mapping # <<>> -> ResolvedMap(node.mapping, outer)
      [] node.predicate # None -> Value(node.predicate, outer, TRUE)
      [] OTHER -> row

\* The comparison of sort: numbers and texts among themselves, else by the first
\* byte of the dumps (containers of one kind are not told apart).
DumpClass(v) == CASE v[1] = "str" -> 1 [] v[1] = "num" -> 2 [] v[1] = "arr" -> 3 [] v = Bool(FALSE) -> 4
                  [] IsNull(v) -> 5 [] v[1] = "bool" -> 6 [] OTHER -> 7
Below(a, b) == CASE a[1] = "num" /\ b[1] = "num" -> a[2] < b[2]
                 [] a[1] = "str" /\ b[1] = "str" -> Before(a[2], b[2])
                 [] OTHER -> DumpClass(a) < DumpClass(b)

\* std::stable_sort: positions, by key, equal keys in their old order.
StableOrder(keys, desc) ==
    LET Ahead(i, j) == IF desc THEN Below(keys[j], keys[i]) ELSE Below(keys[i], keys[j])
    IN SetToSortSeq(DOMAIN keys, LAMBDA i, j : Ahead(i, j) \/ (~Ahead(j, i) /\ i < j))

SortKey(node, row, outer) ==
    CASE "by" \in DOMAIN node.mapping -> LET v == Walk(row, node.mapping.by) IN IF v = None THEN Null ELSE v
      [] node.predicate # None -> Value(node.predicate, outer, TRUE)
      [] OTHER -> row

RECURSIVE Leaves(_)
Leaves(v) == IF v[1] = "arr" THEN FlattenSeq([k \in DOMAIN v[2] |-> Leaves(v[2][k])]) ELSE <<v>>

\* merge into one object: the last row with a field wins.
MergeRows(rows) == IF \E k \in DOMAIN rows : rows[k][1] # "obj" THEN Error("validation")
                   ELSE Obj(FoldLeft(LAMBDA o, row : row[2] @@ o, <<>>, rows))

FirstOfMap(mapping) == mapping[SetToSortSeq(DOMAIN mapping, Before)[1]]

\* group: the rows under the text of their key, each group in order.
GroupRows(rows, keys) ==
    Obj([name \in {Text(keys[k]) : k \in DOMAIN keys} |->
            Collect("filter", rows, [k \in DOMAIN keys |-> Bool(Text(keys[k]) = name)])])

ReduceRows(node, rows, env) ==
    LET start == IF "initial" \in DOMAIN node.mapping THEN node.mapping.initial ELSE Num(0)
        Extra(acc) == (<<"accumulator">> :> acc) @@ (<<"acc">> :> acc)
        Added(acc, row) == IF row[1] = "num" /\ acc[1] = "num" THEN Num(acc[2] + row[2]) ELSE acc
        Step(acc, k) ==
            CASE IsError(acc) -> acc
              [] node.predicate = None -> Added(acc, rows[k])
              [] OTHER -> Value(node.predicate, RowScope(rows[k], k - 1, node, Extra(acc), env), TRUE)
    IN FoldLeft(Step, start, [k \in DOMAIN rows |-> k])

\* TransformTask::apply on the rows of its input.
ApplyToRows(node, rows, env) ==
    LET At(k) == RowScope(rows[k], k - 1, node, <<>>, env) IN
    CASE node.operation = "filter" -> SelectRows(rows, LAMBDA row, k :
            IF node.predicate = None THEN Bool(TRUE)
            ELSE Test(node.predicate, At(k + 1)))
      [] node.operation \in {"map", "project"} ->
            Unless([k \in DOMAIN rows |-> MapRow(node, rows[k], At(k))], LAMBDA vals :
                   IF node.operation = "project" /\ ~node.asArray /\ Len(vals) = 1 THEN vals[1] ELSE Arr(vals))
      [] node.operation = "merge" ->
            IF node.asArray THEN Arr(FlattenSeq([k \in DOMAIN rows |-> IF rows[k][1] = "arr" THEN rows[k][2] ELSE <<rows[k]>>]))
            ELSE MergeRows(rows)
      [] node.operation = "group" ->
            IF node.mapping = <<>> THEN Error("validation")
            ELSE Unless([k \in DOMAIN rows |-> Value(FirstOfMap(node.mapping), At(k), TRUE)],
                        LAMBDA keys : GroupRows(rows, keys))
      [] node.operation = "sort" ->
            Unless([k \in DOMAIN rows |-> SortKey(node, rows[k], At(k))], LAMBDA keys :
                   Arr([k \in DOMAIN rows |-> rows[StableOrder(keys, "desc" \in DOMAIN node.mapping)[k]]]))
      [] node.operation = "flatten" -> Arr(Leaves(Arr(rows)))
      [] node.operation = "reduce" -> ReduceRows(node, rows, env)
      [] OTHER -> Error("validation")

\* assign, copy and set: the input, or the mapping where the input is null; set
\* puts its fields over those the output has.
Shaped(node, input, old, env) ==
    LET outer == Layered(env.locals, env.context)
        Put(value) == CASE node.operation # "set" -> value
                        [] value[1] = "obj" -> Obj(value[2] @@ (IF old[1] = "obj" THEN old[2] ELSE <<>>))
                        [] IsNull(value) -> ResolvedMap(node.mapping, outer)
                        [] OTHER -> Error("validation")
    IN Passes(IF IsNull(input) /\ node.mapping # <<>> THEN ResolvedMap(node.mapping, outer) ELSE input, Put)

Transformed(node, input, old, env) ==
    IF node.operation \in {"assign", "set", "copy"} THEN Shaped(node, input, old, env)
    ELSE Passes(AsRows(input), LAMBDA rows : ApplyToRows(node, rows[2], env))

\* ScriptTask: each binding sees those before it, the code all of them.
Scripted(bindings, code, env) ==
    LET Step(locals, b) ==
            Passes(locals, LAMBDA bound :
                   Passes(Value(b.code, Layered(bound[2], env.context), TRUE),
                          LAMBDA v : <<"locals", (<<b.name>> :> v) @@ bound[2]>>))
    IN Passes(FoldLeft(Step, <<"locals", env.locals>>, bindings),
              LAMBDA bound : Value(code, Layered(bound[2], env.context), TRUE))
=============================================================================
