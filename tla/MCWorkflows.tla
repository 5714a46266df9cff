----------------------------- MODULE MCWorkflows ------------------------------
(***************************************************************************)
(* Sessions of whole workflows: a document is parsed (Blueprint),          *)
(* validated (Validator) and, when accepted, executed (Interpreter).       *)
(***************************************************************************)
EXTENDS Interpreter, FiniteSetsExt, TLC

BP == INSTANCE Blueprint WITH
          Registered <- {"pay"}, Malformed <- {"(("}, Durations <- {"5s"}, Schedules <- {"@daily"},
          Slots <- {"$xs"}, Numerals <- ("2" :> 2), MaxItems <- 2, MaxNodes <- 6
V == INSTANCE Validator
R == INSTANCE Structured

S(x) == BP!S(x)
A(x) == BP!A(x)
Nd(type, id, more) == more @@ [type |-> S(type), id |-> S(id)]
None == [x \in {} |-> BP!Absent]
Body(nodes) == A([i \in DOMAIN nodes |-> BP!O(nodes[i])])

Noop(id) == Nd("noop", id, None)
Set1(id, key) == Nd("noop", id, [assign |-> BP!O((key :> S("1")))])
Call(id) == Nd("command", id, [command |-> S("http.get"), http_request |-> BP!O([url |-> S("u")])])
If(id, then, else) == Nd("if", id, [if |-> S("x"), then |-> Body(then), else |-> Body(else)])
Loop(id, k, body) == Nd("loop", id, [count |-> BP!N(k), body |-> Body(body), iterator |-> S(id)])
Try(id, body, catch, finally) ==
    Nd("try", id, (IF catch = <<>> THEN None ELSE [catch |-> Body(catch)])
                      @@ (IF finally = <<>> THEN None ELSE [finally |-> Body(finally)])
                      @@ [body |-> Body(body)])
Continuing(loop) == [on_item_error |-> S("continue")] @@ loop
To(id, node) == [next |-> S(id)] @@ node
OnError(id, node) == [on_error |-> S(id)] @@ node
End(id) == Nd("terminate", id, None)
Ask(id) == Nd("action", id, [prompt |-> BP!O([message |-> S("m"), input_validation |-> S("x")])])
Par(id, policy, branches) ==
    Nd("parallel", id, [merge_policy |-> S(policy),
        child_tasks |-> A([i \in DOMAIN branches |-> BP!O([tasks |-> Body(branches[i])])])])

(* Documents whose meaning the nesting gives. *)
StructuredDocs == {
    <<Loop("l", 2, <<Call("a"), If("c", <<Noop("t")>>, <<Nd("break", "b", [when |-> S("x"), loop |-> S("l")])>>)>>),
      Noop("z")>>,
    <<Continuing(Loop("l", 2, <<Try("y", <<Call("a")>>, <<Noop("h")>>, <<Noop("f")>>), Call("b")>>)),
      End("z")>>,
    <<Loop("l", 2, <<Continuing(Loop("m", 2, <<Call("a"), Nd("continue", "k", [when |-> S("x")])>>)),
                     Noop("b")>>)>>,
    <<Try("y", <<If("c", <<Call("a")>>, <<End("e")>>), Noop("n")>>, <<Call("h")>>, <<>>), Noop("z")>>,
    <<Try("y", <<Try("x", <<Call("a")>>, <<Call("g")>>, <<>>), Noop("n")>>, <<Noop("h")>>, <<Noop("f")>>),
      Loop("l", 0, <<Noop("o")>>), Noop("z")>>}

(* Every document that nests at most two constructs.  A catch body that    *)
(* fails, a body without catch that fails and a break skip or lose what    *)
(* finally promises (see ErrorsKeepTravelling), so these have no finally;  *)
(* and a loop that skips failed items advances the innermost loop, so its  *)
(* body has no other loop that does not.                                   *)
Leaves(p) == {Noop(p), Call(p)}
SkipsItself(b) ==
    \A i \in DOMAIN b : b[i].type = S("loop") => "on_item_error" \in DOMAIN b[i]
RECURSIVE Nodes(_, _)
Bodies(p, d) ==
    {<<x>> : x \in Nodes(p \o "1", d)}
        \cup {<<x, y>> : x \in Nodes(p \o "1", d), y \in Leaves(p \o "2")}
        \cup {<<x, y>> : x \in Leaves(p \o "1"), y \in Nodes(p \o "2", d)}
Nodes(p, d) ==
    Leaves(p) \cup
    (IF d = 0 THEN {}
     ELSE UNION {(IF SkipsItself(b) THEN {Continuing(Loop(p, 2, b))} ELSE {}) \cup
                 {Loop(p, 2, b), If(p, b, <<Noop(p \o "e")>>),
                  Try(p, b, <<Call(p \o "c")>>, <<>>), Try(p, b, <<Noop(p \o "c")>>, <<Call(p \o "f")>>)}
                 : b \in Bodies(p, d - 1)})
GeneratedDocs == {<<x>> : x \in Nodes("n", 2)}

(* Documents with jumps, waits, prompts and branches; the last two are     *)
(* refused.  Two loop over what an interpolation gives, one leaves a loop  *)
(* by the next of its if, one has two loops of one name, and one skips the *)
(* items whose prompt refuses its answer.                                  *)
JumpingDocs == {
    <<Nd("switch", "s", [switch |-> S("x"), cases |-> BP!O(("1" :> S("a")) @@ ("2" :> S("z")))]),
      To("s", Call("a")), End("z")>>,
    <<Loop("l", 2, <<Ask("p"), Nd("wait", "w", [until |-> S("x")]), Noop("b")>>), Noop("z")>>,
    <<Nd("wait", "w", [duration |-> S("5s")]), OnError("r", Ask("p")), Noop("z"),
      Nd("terminate", "r", [status |-> S("FAIL")])>>,
    <<Nd("action", "e", [on_event |-> BP!O([event |-> S("x"), handler |-> S("z")])]), Noop("n"), Noop("z")>>,
    <<OnError("z", Par("p", "skip_conflicts", <<<<Call("a"), Set1("b", "k")>>, <<Set1("c", "k"), Noop("d")>>>>)),
      Noop("z")>>,
    <<Try("y", <<Par("p", "fail_conflicts", <<<<Set1("b", "input")>>, <<Set1("c", "k")>>>>)>>, <<Noop("h")>>, <<>>)>>,
    <<Par("p", "last_writer_wins", <<<<Set1("a", "input")>>, <<Set1("c", "k")>>>>), Noop("z")>>,
    <<Par("p", "last_writer_wins", <<<<Set1("a", "k"), Nd("wait", "w", [duration |-> S("5s")])>>,
                                     <<Set1("c", "k")>>>>), Noop("z")>>,
    <<[retry |-> BP!N(2), name |-> S("q")] @@ Call("a"),
      Nd("loop", "l", [while |-> S("x"), max |-> BP!N(2), body |-> Body(<<Noop("b")>>)])>>,
    <<To("a", [enabled |-> BP!B(FALSE)] @@ Noop("a1")), To("a1", [enabled |-> BP!B(FALSE)] @@ Noop("a"))>>,
    <<Nd("loop", "l", [over |-> S("$xs"), body |-> Body(<<Noop("b")>>)]), Noop("z")>>,
    <<OnError("z", Nd("loop", "l", [times |-> S("$xs"), body |-> Body(<<Call("b")>>)])),
      Nd("loop", "m", [each |-> A(<<BP!N(1), BP!N(2)>>), body |-> Body(<<Noop("d")>>)]),
      Nd("loop", "z", [count |-> S("2"), body |-> Body(<<Noop("e")>>)]),
      Nd("loop", "y", [count |-> S("many"), body |-> Body(<<Noop("g")>>)])>>,
    <<OnError("q", Ask("p")), Noop("z"), Ask("q")>>,
    <<Nd("try", "y", [body |-> Body(<<Call("a")>>),
                      catch |-> BP!O([when |-> BP!O([HTTP_ERROR |-> S("h")])])]), End("z"), Noop("h")>>,
    <<Loop("l", 2, <<If("c", <<To("b", Noop("t"))>>, <<>>), Noop("m"),
                     Try("b", <<Call("x")>>, <<Noop("h")>>, <<>>)>>), Noop("z")>>,
    <<Loop("l", 2, <<Loop("m", 2, <<Ask("p")>>), Noop("b")>>)>>,
    <<Loop("l", 2, <<To("m", If("c", <<Noop("t")>>, <<>>))>>), Loop("m", 2, <<Noop("b")>>)>>,
    <<Loop("l", 2, <<Nd("loop", "m", [count |-> BP!N(1), body |-> Body(<<Noop("b")>>), iterator |-> S("l")]),
                     Noop("a")>>)>>,
    <<Continuing(Loop("l", 2, <<Ask("p")>>)), Noop("z")>>,
    <<Loop("l", 1, <<Par("p", "last_writer_wins", <<<<Call("a")>>, <<Set1("c", "k")>>>>)>>)>>,
    <<Continuing(Loop("l", 1, <<Par("p", "last_writer_wins", <<<<Call("a")>>, <<Set1("c", "k")>>>>)>>)), Noop("z")>>,
    <<OnError("nowhere", Call("a"))>>,
    <<Nd("try", "y", [body |-> Body(<<Call("a")>>),
                      catch |-> BP!O([when |-> BP!O([HTTP_ERROR |-> S("nowhere")])])])>>}

(* The accepted workflows among the documents, with what they came from. *)
Parsed(docs, structured) ==
    {BP!ParseWorkflow("main", d, FALSE) @@ [doc |-> d, structured |-> structured] : d \in docs}
AcceptedOnes == {w \in Parsed(StructuredDocs \cup GeneratedDocs, TRUE)
                        \cup Parsed(JumpingDocs, FALSE) :
                    V!Accepts(w)}
Accepted == AcceptedOnes

Session == runs[<<>>]
Result(s) == CASE s.status = "completed" -> "ok"
               [] s.status = "terminated" -> "end"
               [] OTHER -> s.error

(* The frame machine implements the nesting: a finished session has visited *)
(* exactly the nodes, in the order, and with the result, of the document.   *)
MeansItsNesting ==
    wf.structured /\ Session.finished /\ Session.visited # <<>> => <<Session.visited, Result(Session)>> \in R!Meaning(wf.doc)

=============================================================================
