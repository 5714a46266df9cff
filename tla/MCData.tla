------------------------------- MODULE MCData -------------------------------
(***************************************************************************)
(* Sessions that read a source page by page, and transforms of rows.  A    *)
(* session starts (its declared sources are validated), then queries with  *)
(* the offset of the next page until a page is empty or a query fails.     *)
(***************************************************************************)
EXTENDS DataSources

VARIABLES job, out

Var(x) == <<"var", x>>
Lit(v) == <<"lit", v>>
Bin(op, a, b) == <<"binary", op, a, b>>
Member(a, f) == <<"member", f, a>>

QRow(n) == Obj("q" :> n)
Numbers == <<QRow(Num(3)), QRow(Num(1)), QRow(Num(2)), QRow(Num(1))>>
Mixed == <<QRow(Num(2)), Obj("f" :> Num(1)), QRow(Str("10")), Num(5)>>

Env == [locals |-> (<<"x">> :> Num(1)),
        context |-> (<<"list">> :> Arr(Numbers)) @@ (<<"odd">> :> Arr(Mixed)) @@ (<<"text">> :> Str("a"))
                    @@ (<<"item">> :> Obj("f" :> Num(2))) @@ (<<"nothing">> :> Null)
                    @@ (<<"wrapped">> :> Obj("data" :> Arr(Numbers)))]

Server(down, status, body, pages) == [down |-> down, status |-> status, body |-> body, pages |-> pages]
Declared(provider, config) == [name |-> "s", scope |-> "internal", provider |-> provider, config |-> config]
Http(server) == Declared("http", [url |-> Var("text"), rows_path |-> <<>>, server |-> server])
Sources ==
    {Declared("context", [source |-> Var(n)]) : n \in {"list", "odd", "text", "item", "nothing", "wrapped", "none"}}
    \cup {Declared("context", [rows |-> Null]), Declared("redis", [a |-> 1]), Declared("oracle", [a |-> 1]),
          Declared("", [a |-> 1]), Declared("mock", [a |-> 1]),
          [Declared("mock", [rows |-> Arr(Numbers)]) EXCEPT !.scope = "public"]}
    \cup {Declared("mock", [rows |-> r]) : r \in {Arr(Numbers), Arr(Mixed), Arr(<<>>), Null}}
    \cup {Declared("mock", [file |-> Arr(Numbers)])}
    \cup {Http(Server(FALSE, 200, b, FALSE)) : b \in {Arr(Numbers), Obj("items" :> Arr(Numbers)), QRow(Num(1)), Null}}
    \cup {Http(Server(TRUE, 0, Null, FALSE)), Http(Server(FALSE, 500, Null, FALSE)),
          Http(Server(FALSE, 200, Arr(Numbers), TRUE))}
    \cup {Declared("http", [url |-> Var("text"), rows_path |-> <<"a">>, query |-> 1,
                            server |-> Server(FALSE, 200, Obj("a" :> Arr(Numbers)), FALSE)])}
    \cup {Declared("http", [url |-> Var("text"), rows_path |-> <<>>, query |-> 1,
                            server |-> Server(FALSE, 200, Arr(Numbers), TRUE)])}

\* Filters as objects, each with the program that says the same of numbers.
Says(object, program) == [object |-> object, program |-> program]
On1(ops) == Obj(<<"q">> :> ops)
Q == Var("q")
Meanings ==
    {Says(On1(Num(n)), Bin("==", Q, Lit(Num(n)))) : n \in 1..2}
    \cup {Says(On1(Obj("$gt" :> Num(1))), Bin(">", Q, Lit(Num(1)))),
          Says(On1(Obj("$lte" :> Num(2))), Bin("<=", Q, Lit(Num(2)))),
          Says(On1(Obj(("$gte" :> Num(2)) @@ ("$lt" :> Num(3)))),
               Bin("&&", Bin(">=", Q, Lit(Num(2))), Bin("<", Q, Lit(Num(3))))),
          Says(On1(Obj("$in" :> Arr(<<Num(1), Num(3)>>))), Bin("in", Q, Lit(Arr(<<Num(1), Num(3)>>)))),
          Says(On1(Obj("$nin" :> Arr(<<Num(1)>>))), Bin("!=", Q, Lit(Num(1)))),
          Says(Arr(<<On1(Obj("$ne" :> Num(1))), On1(Obj("$exists" :> Bool(TRUE)))>>), Bin("!=", Q, Lit(Num(1)))),
          Says(Null, Lit(Bool(TRUE))), Says(Bool(FALSE), Lit(Bool(FALSE)))}
Others ==
    {[object |-> f] : f \in {On1(Obj("$exists" :> Bool(FALSE))), On1(Obj(("$gt" :> Str("1")) @@ ("a" :> Null))),
                             On1(Obj(("$eq" :> Num(1)) @@ ("$exists" :> Bool(FALSE)))), Num(1),
                             On1(Obj(("$regex" :> Str("10")) @@ ("$other" :> Null))),
                             Obj((<<"f">> :> Num(1)) @@ (<<"q">> :> Obj("$ne" :> Num(1)))),
                             Obj(<<"item", "f">> :> Num(2))}}
    \cup {[program |-> p] : p \in {Member(Var("item"), "f"), Bin(">", Q, Var("x"))}}

\* The filters a query can have, and what each means.
Filters == {[object |-> m.object] : m \in Meanings} \cup {[program |-> m.program] : m \in Meanings} \cup Others
MeaningOf(f) == {m \in Meanings : IF "program" \in DOMAIN f THEN f.program = m.program ELSE f.object = m.object}

Node(operation, predicate, mapping) ==
    [operation |-> operation, item |-> "a", predicate |-> predicate, mapping |-> mapping, asArray |-> FALSE]
Inputs == {Arr(Numbers), Arr(Mixed), Arr(<<Num(3), Num(1), Str("a"), Num(1)>>), Arr(<<>>), Null, Num(5),
           Obj("a" :> QRow(Num(2))), Obj(("a" :> QRow(Num(2))) @@ ("b" :> QRow(Num(1)))), QRow(Num(1)),
           Arr(<<Arr(<<Num(1), Arr(<<Num(2)>>)>>), Num(3)>>)}
Tests == {None, Bin(">", Member(Var("a"), "q"), Lit(Num(1))), Bin("==", Var("index"), Lit(Num(1))),
          Bin(">", Member(Var("item"), "q"), Var("x"))}
Nodes ==
    {Node(op, p, <<>>) : op \in {"filter", "map", "sort", "merge", "flatten", "assign", "set", "group", "other"}, p \in Tests}
    \cup {Node(op, None, "f" :> Var(v)) : op \in {"map", "group", "set", "project"}, v \in {"q", "index", "none"}}
    \cup {Node("sort", None, [by |-> <<"q">>]), Node("sort", None, [by |-> <<"q">>, desc |-> TRUE]),
          Node("reduce", None, [initial |-> Num(1)]), Node("reduce", None, <<>>),
          Node("reduce", Bin("+", Var("acc"), Var("index")), <<>>),
          [Node("merge", None, <<>>) EXCEPT !.asArray = TRUE]}

Binding(n, t) == [name |-> n, code |-> t]
Scripts == {<<>>, <<Binding("a", Bin("+", Var("x"), Lit(Num(1)))), Binding("b", Bin("+", Var("a"), Var("x")))>>,
            <<Binding("a", Var("none"))>>}
------------------------------------------------------------------------------
NoPage == [status |-> "new", context |-> <<>>, read |-> <<>>, offset |-> 0]
DataJobs ==
    {[kind |-> "query", source |-> s, declared |-> TRUE, filter |-> f, limit |-> l] :
        s \in Sources, f \in Filters, l \in {1, 3, -1}}
    \cup {[kind |-> "query", source |-> [name |-> n], declared |-> FALSE, filter |-> f, limit |-> 2] :
            n \in {"list", "text"}, f \in Filters}
    \cup {[kind |-> "transform", node |-> n, input |-> i] : n \in Nodes, i \in Inputs}
    \cup {[kind |-> "script", bindings |-> b, code |-> Var(v)] : b \in Scripts, v \in {"x", "b"}}

DataInit == job \in DataJobs /\ out = NoPage

Ends(value) == out' = [out EXCEPT !.status = "done", !.read = <<value>>]

\* initialize: a declared source with a problem fails the session.
StartSession ==
    /\ job.kind = "query" /\ out.status = "new"
    /\ out' = [out EXCEPT !.status = IF job.declared /\ Problems(job.source) # {} THEN "failed" ELSE "running"]
    /\ UNCHANGED job

QuerySource == SourceOf(job.source.name, IF job.declared THEN job.source.name :> job.source ELSE <<>>)

\* A query node, in a loop that moves the offset on by what it got.
QueryTask ==
    /\ job.kind = "query" /\ out.status = "running"
    /\ LET answer == RunQuery(QuerySource, [filter |-> job.filter, limit |-> job.limit, offset |-> out.offset], Env)
       IN IF IsError(answer) THEN out' = [out EXCEPT !.status = answer[2]]
          ELSE out' = [status |-> IF answer[2].rows = <<>> THEN "done" ELSE "running",
                       context |-> Outputs(answer[2]) @@ out.context,
                       read |-> out.read \o answer[2].rows, offset |-> out.offset + Len(answer[2].rows)]
    /\ UNCHANGED job

TransformTask ==
    /\ job.kind = "transform" /\ out.status = "new"
    /\ Ends(Transformed(job.node, job.input, Null, Env)) /\ UNCHANGED job

ScriptTask ==
    /\ job.kind = "script" /\ out.status = "new"
    /\ Ends(Scripted(job.bindings, job.code, Env)) /\ UNCHANGED job

DataNext == StartSession \/ QueryTask \/ TransformTask \/ ScriptTask
DataSpec == DataInit /\ [][DataNext]_<<job, out>>
------------------------------------------------------------------------------
\* The rows a page source holds, by a look at its declaration.
HasNumbers(s) == /\ s.provider \in {"context", "mock", "http"}
                 /\ IF s.provider = "context" THEN s.config.source \in {Var("list"), Var("wrapped")}
                    ELSE IF s.provider = "mock" THEN "rows" \in DOMAIN s.config /\ s.config.rows = Arr(Numbers)
                    ELSE /\ s.config.server.status = 200
                         /\ s.config.server.pages => "query" \in DOMAIN s.config
                         /\ s.config.server.body \in {Arr(Numbers), Obj("items" :> Arr(Numbers)), Obj("a" :> Arr(Numbers))}

Wanted(m) == SelectSeq(Numbers, LAMBDA row : Truthy(Value(m.program, Names(row[2]) @@ Env.context, TRUE)))

(***************************************************************************)
(* A session that started reads, page by page, exactly the rows that the   *)
(* filter describes, each once and in the source's order, whatever the     *)
(* provider and whichever of its two forms the filter has; rows_total is   *)
(* their number, and rows_truncated is set as soon as a page is not all.   *)
(* Left out is a server that pages by itself: run() pages its page again.  *)
(***************************************************************************)
PagesPartition ==
    job.kind = "query" /\ out.status \in {"running", "done"} /\ HasNumbers(QuerySource) =>
        \A m \in MeaningOf(job.filter) :
            /\ IsPrefix(out.read, Wanted(m))
            /\ out.status = "done" => out.read = Wanted(m)
            /\ "rows_total" \in DOMAIN out.context => out.context["rows_total"] = Num(Len(Wanted(m)))
            /\ "rows" \in DOMAIN out.context /\ out.context["rows"] # Arr(Wanted(m))
                    => out.context["rows_truncated"] = Bool(TRUE)

\* A session with a source that cannot work does not start: a provider is never
\* missing when a query comes (a program may still miss a variable).
ValidatedSourcesExist == job.kind = "query" /\ "object" \in DOMAIN job.filter => out.status \notin {"not_found", "not_implemented"}

\* What a reader of the node sees: the item, under both its names, and the index.
Lexical(row, k) == (<<"item">> :> row) @@ (<<"a">> :> row) @@ (<<"index">> :> Num(k)) @@ Env.locals @@ Env.context

Occurs(x, s) == Cardinality({k \in DOMAIN s : s[k] = x})
SameRows(s, t) == Len(s) = Len(t) /\ \A x \in Range(s) : Occurs(x, s) = Occurs(x, t)

(***************************************************************************)
(* A transform that orders, groups, flattens or selects rows loses none    *)
(* and doubles none: sort gives them all, in order and equal keys as they  *)
(* came; the groups share them out; filter keeps exactly the rows its        *)
(* predicate, read with item and index bound to them, holds of.            *)
(***************************************************************************)
RowsConserved ==
    job.kind = "transform" /\ out.read # <<>> /\ ~IsError(AsRows(job.input)) /\ ~IsError(out.read[1]) =>
        LET rows == AsRows(job.input)[2]
            node == job.node
            value == out.read[1][2]
        IN CASE node.operation = "sort" ->
                  /\ SameRows(value, rows)
                  /\ "by" \in DOMAIN node.mapping =>
                        LET Key(row) == SortKey(node, row, <<>>)
                            desc == "desc" \in DOMAIN node.mapping
                        IN \A i, j \in DOMAIN value : i < j =>
                              ~(IF desc THEN Below(Key(value[i]), Key(value[j])) ELSE Below(Key(value[j]), Key(value[i])))
             [] node.operation = "group" -> SameRows(FlattenSeq([k \in 1..Cardinality(DOMAIN value) |->
                                                         value[SetToSeq(DOMAIN value)[k]][2]]), rows)
             [] node.operation = "flatten" -> \A k \in DOMAIN value : value[k][1] # "arr"
             [] node.operation = "filter" /\ node.predicate # None ->
                  out.read[1] = Collect("filter", rows, [k \in DOMAIN rows |->
                                    Value(node.predicate, Lexical(rows[k], k - 1), TRUE)])
             [] OTHER -> TRUE

EveryRowOnce == PagesPartition /\ ValidatedSourcesExist /\ RowsConserved
=============================================================================
