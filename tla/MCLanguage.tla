----------------------------- MODULE MCLanguage -----------------------------
(***************************************************************************)
(* Programs, conditions and templates for the expression language, and     *)
(* what Meaning says of them.                                              *)
(***************************************************************************)
EXTENDS Meaning

CONSTANT Kinds        \* the kinds of job a run looks at

VARIABLES job, out

------------------------------------------------------------------------------
(* Trees. *)

Operators == {"||", "&&", "==", "<", "in", "+", "-", "*"}

\* Every construct of the language over the trees of S.
Over(S) ==
    {Bin(op, a, b) : op \in Operators, a \in S, b \in S}
    \cup {<<"coalesce", a, b>> : a \in S, b \in S} \cup {<<"index", a, b>> : a \in S, b \in S}
    \cup {<<"unary", op, a>> : op \in {"!", "-"}, a \in S} \cup {Member(a, "f") : a \in S}
    \cup {<<"array", <<a, b>> >> : a \in S, b \in S} \cup {Call("g", <<a>>) : a \in S}
    \cup {<<"object", <<"f">>, <<a>> >> : a \in S} \cup {<<"method", "g", <<a, b>> >> : a \in S, b \in S}
    \cup {<<"ternary", a, a, a>> : a \in S} \cup {<<"array", <<>> >>, Call("g", <<>>)}

Flat == Over({Var("x")})
Ts == {Var("x"), <<"ternary", Var("x"), Var("y"), Var("x")>>, <<"coalesce", Var("x"), Var("y")>>,
       Bin("||", Var("x"), Var("y"))}
Ternaries == {<<"ternary", a, b, c>> : a \in Ts, b \in Ts, c \in Ts}
Trees == {Var("x")} \cup Over(Flat) \cup Ternaries

\* Predicates of an iterator, iterators over them, and expressions around those.
Predicates == {Var("item"), Var("index"), Var("missing"), Var("x"), Bin(">", Var("item"), Var("x")),
               Member(Var("item"), "q"), Bin("==", Member(Var("item"), "q"), Var("x")),
               <<"coalesce", Var("missing"), Var("index")>>, Lit(Str("item > x")), Lit(Str("itm > x"))}
Lists == {Var("xs"), Var("rows"), Var("x"), Var("nothing")}
Iterations == {Call(f, <<l, p>>) : f \in Iterators, l \in Lists, p \in Predicates}
Nestings == {Call(f, <<l, Bin("+", it, Var("item"))>>) :
                f \in {"map", "sum"}, l \in {Var("xs")},
                it \in {Call(g, <<Var("xs"), p>>) : g \in {"count", "sum"}, p \in {Var("item"), Var("index")}}}
Around == {Bin(op, it, Var(v)) : op \in {"+", "&&", "=="}, it \in Iterations, v \in {"item", "x"}}
          \cup {Call(f, <<it>>) : f \in ListFunctions \cup {"len", "min", "merge", "to_int", "default", "if", "coalesce"},
                                  it \in Iterations}
          \cup {Call(f, <<Var(a)>>) : f \in Library \cup Iterators, a \in {"missing", "xs", "x", "s", "row"}}
          \cup {Call(f, <<Var(a), Var(b)>>) : f \in Library \cup {"to_number", "default", "if", "coalesce", "none_such"},
                                              a \in {"missing", "xs", "x", "s"}, b \in {"missing", "x", "s"}}
          \cup {Bin(op, Var(a), Var(b)) : op \in Operators \cup {"%", ">=", "contains", "!="},
                                          a \in {"nothing", "xs", "x", "s", "n", "yes"},
                                          b \in {"nothing", "xs", "x", "s", "n", "yes"}}
          \cup {<<"index", Var(a), k>> : a \in {"xs", "rows", "row", "nothing", "x", "s"},
                                         k \in {Lit(Num(0)), <<"unary", "-", Lit(Num(1))>>, Lit(Num(9)),
                                                Var("n"), Var("s"), Lit(Str("q")), Lit(Str("size"))}}
          \cup {Call("slice", <<Var("xs"), Var(a), Var(b)>>) : a, b \in {"missing", "x", "s"}}
          \cup {<<"ternary", Var(a), it, Var("item")>> : a \in {"x", "nothing"}, it \in Iterations}
          \cup {<<"method", f, <<Var(a)>> >> : f \in {"len", "q", "first"}, a \in {"xs", "row"}}
Expressions == Iterations \cup Nestings \cup Around

Row(n) == Obj("q" :> Num(n))
Context == (<<"x">> :> Num(2)) @@ (<<"n">> :> Str("2")) @@ (<<"s">> :> Str("no")) @@ (<<"yes">> :> Bool(TRUE))
           @@ (<<"nothing">> :> Null) @@ (<<"xs">> :> Arr(<<Num(1), Num(2), Num(3)>>))
           @@ (<<"row">> :> Row(7)) @@ (<<"rows">> :> Arr(<<Row(2), Row(5)>>))
InALoop == (<<"item">> :> Row(9)) @@ Context
Scopes == {Context, InALoop}

SourceTexts == ("item > x" :> Source(Bin(">", Var("item"), Var("x"))))
               @@ ("itm > x" :> Source(Bin(">", Var("itm"), Var("x"))))

\* A template is a sequence of pieces: words, $$, $name.field[index] and ${...}.
Words(tokens) == <<"words", tokens>>
Escape == <<"words", << <<"$$", "">> >> >>
Path(n) == <<"path", n>>
Braces(n) == <<"braces", n>>

Written(piece) ==
    CASE piece[1] = "words" -> piece[2]
      [] piece[1] = "path" -> Dollar(Source(piece[2])[1][2]) \o Tail(Source(piece[2]))
      [] OTHER -> << <<"${", Source(piece[2])>> >>
WrittenAll(pieces) == FoldLeft(LAMBDA t, piece : t \o Written(piece), <<>>, pieces)

First(a) == <<"index", Var(a), Lit(Num(0))>>
Slots == {Path(Var("x")), Path(Var("xs")), Path(Member(Var("row"), "q")), Path(First("xs")), Path(First("rows")),
          Path(<<"index", First("rows"), Lit(Str("q"))>>), Path(Var("missing")),
          Braces(Member(First("rows"), "q")), Braces(Bin("*", Var("x"), Var("n"))),
          Braces(Call("map", <<Var("xs"), Bin("+", Var("item"), Var("x"))>>)), Braces(Var("item"))}
Texts == {Words(Name("due")), Words(OpToken(".")), Words(OpToken("[")), Escape}
Templates == {<<>>, <<Escape, Words(Name("due"))>>, <<Path(First("rows")), Words(OpToken(".") \o Name("q"))>>}
             \cup {<<a>> : a \in Slots \cup Texts} \cup {<<a, b>> : a, b \in Slots}
             \cup {<<a, b>> : a \in Slots, b \in Texts} \cup {<<a, b>> : a \in Texts, b \in Slots}

\* Conditions: {left, operator, right}.
Conditions == {[left |-> Dollar(a), operator |-> op, right |-> <<Lit(Num(n))>>] :
                  a \in {"x", "n"}, op \in {">", "==", "<="}, n \in 1..3}

Jobs == {[kind |-> "tree", of |-> n, scope |-> Context, strict |-> TRUE] : n \in Trees}
        \cup {[kind |-> "program", of |-> n, scope |-> s, strict |-> b] :
                n \in Expressions, s \in Scopes, b \in BOOLEAN}
        \cup {[kind |-> "template", of |-> t, scope |-> Context, strict |-> b] : t \in Templates, b \in BOOLEAN}
        \cup {[kind |-> "structured", of |-> d, scope |-> Context, strict |-> TRUE] : d \in Conditions}

------------------------------------------------------------------------------
vars == <<job, out>>

\* One compilation and one evaluation.
Result(j) == CASE j.kind = "tree" -> Parse(Source(j.of))
               [] j.kind = "program" -> Evaluate(AsPredicate(Source(j.of)), State(j.scope, j.strict))
               [] j.kind = "template" -> Rendered(AsTemplate(WrittenAll(j.of)), State(j.scope, j.strict))
               [] OTHER -> EvaluateBool(ToPredicate(j.of), State(j.scope, j.strict))

Init == job \in {j \in Jobs : j.kind \in Kinds} /\ out = <<>>
Run == out = <<>> /\ out' = Result(job) /\ UNCHANGED job
Next == Run
Spec == Init /\ [][Next]_vars

Done(kind) == job.kind = kind /\ out # <<>>

(***************************************************************************)
(* The parser gives every tree back from its shortest source: precedence,  *)
(* associativity and the nesting of calls, indexes and ternaries are those *)
(* of the reference table.                                                 *)
(***************************************************************************)
ParsesBack == Done("tree") => out = job.of

IsIterator(n) == n[1] = "call" /\ n[2] \in Iterators
Nested(n) == IsIterator(n) /\ Len(n[3]) > 1 /\ Uses(n[3][2], IsIterator)
IsQuoted(n) == n[1] = "lit" /\ n[2][1] = "str"
Captures(n, scope) == Uses(n, Nested) \/ (<<"item">> \in DOMAIN scope /\ Uses(n, IsIterator))

(***************************************************************************)
(* A program whose iterators are not nested, run where no outer variable is *)
(* called item, has the value lexical scoping gives it, errors included: no *)
(* local of an iterator is seen after it, an element that decides ends the *)
(* iteration, no argument is evaluated that its function does not read,    *)
(* and strictness is lifted only for the left side of ??, the first        *)
(* argument of default and those of coalesce.  An error inside a quoted    *)
(* predicate is not the program's error.                                   *)
(***************************************************************************)
MeansItsScopes ==
    Done("program") /\ ~Captures(job.of, job.scope) =>
        LET mean == Mean(job.of, job.scope, job.strict)
        IN out = mean \/ (IsError(mean) /\ Uses(job.of, IsQuoted))

(***************************************************************************)
(* A field that is one slot, $name.field[index] or ${...}, is the value of *)
(* the slot, with its JSON type; any other field is a text in which every  *)
(* slot stands for the text of its value, or the first error of a slot.    *)
(* Only where a literal text stands is told, not its words.                *)
(***************************************************************************)
Says(pieces, scope, strict) ==
    LET IsText(k) == pieces[k][1] = "words"
        Value(k) == CASE ~IsText(k) -> Mean(pieces[k][2], scope, strict)
                      [] k > 1 /\ IsText(k - 1) -> Str("")
                      [] OTHER -> Str("~")
    IN IF Len(pieces) = 1 /\ ~IsText(1) THEN Value(1)
       ELSE OnAll([k \in DOMAIN pieces |-> Value(k)], LAMBDA vals :
                  Str(FoldLeft(LAMBDA text, v : text \o ToStr(v), "", vals)))

TemplatesSay == Done("template") => out = Says(job.of, job.scope, job.strict)

(***************************************************************************)
(* Programs and templates alike mean what their text says.                 *)
(***************************************************************************)
MeansItsText == MeansItsScopes /\ TemplatesSay

(***************************************************************************)
(* What Sel.hpp says of {left, operator, right}: it is an expression, so   *)
(* as a condition it decides what its operator decides.                    *)
(***************************************************************************)
StructuredDecides ==
    Done("structured") =>
        out = Mean(Bin(job.of.operator, Parse(job.of.left), Parse(job.of.right)), job.scope, job.strict)
==============================================================================
