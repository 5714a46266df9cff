-------------------------------- MODULE Sel --------------------------------
(***************************************************************************)
(* The expression language (runtime/expressions/Sel.cpp, Value.hpp) and    *)
(* the identifier lookup it runs against (runtime/ExpressionEvaluator.cpp):*)
(* tokens are parsed into a tree, the tree is evaluated against the local  *)
(* variables of the iterators and an outer scope, and a field of a         *)
(* blueprint becomes a handle that is evaluated or rendered.               *)
(*                                                                         *)
(* A JSON value is <<type, content>>; an evaluation gives <<value, locals>>*)
(* where the value may be Error(code), the exception in flight.  Doubles   *)
(* are integers here; the lexer is left out: a source is a sequence of     *)
(* tokens, and one that does not compile is refused with its blueprint.    *)
(* Left out are =~ and the functions of texts, objects, dates, digests and *)
(* chance (upper, split, join, keys, get, round, pow, avg, now, hash...):  *)
(* no program here calls them, and the only functions that bind locals are *)
(* the iterators below.                                                    *)
(***************************************************************************)
EXTENDS Integers, SequencesExt, FiniteSetsExt, TLC

CONSTANT Quoted       \* the tokens of each string that can be compiled

------------------------------------------------------------------------------
(* Values: Value.hpp. *)

Null == <<"null", 0>>
Bool(b) == <<"bool", b>>
Num(n) == <<"num", n>>
Str(s) == <<"str", s>>
Arr(s) == <<"arr", s>>
Obj(f) == <<"obj", f>>
Error(code) == <<"error", code>>
None == <<"none", 0>>

IsNull(v) == v[1] = "null"
IsError(v) == v[1] = "error"

\* std::stod over the whole text: the numbers a string of this model can spell.
Spells == [s \in {ToString(n) : n \in -9..99} |-> CHOOSE n \in -9..99 : ToString(n) = s]

ToNumber(v) == CASE v[1] = "num" -> v
                 [] v[1] = "bool" -> Num(IF v[2] THEN 1 ELSE 0)
                 [] v[1] = "str" -> IF v[2] \in DOMAIN Spells THEN Num(Spells[v[2]]) ELSE None
                 [] OTHER -> None

IsNumeric(v) == ToNumber(v) # None

Size(v) == IF v[1] = "obj" THEN Cardinality(DOMAIN v[2]) ELSE Len(v[2])

Truthy(v) == CASE v[1] = "null" -> FALSE
               [] v[1] = "bool" -> v[2]
               [] v[1] = "num" -> v[2] # 0
               [] v[1] = "str" -> /\ v[2] \notin {"", "false", "0", "null", "no"}
                                  /\ v[2] \in DOMAIN Spells => Spells[v[2]] # 0
               [] OTHER -> Size(v) > 0

\* v::str: the text of a value; a container keeps its JSON form, one opaque text here.
ToStr(v) == CASE v[1] = "str" -> v[2]
              [] v[1] = "null" -> ""
              [] v[1] = "num" -> ToString(v[2])
              [] v[1] = "bool" -> IF v[2] THEN "true" ELSE "false"
              [] OTHER -> "{json}"

Scalar(v) == v[1] \in {"num", "bool", "str"}

Equals(a, b) ==
    CASE a[1] = b[1] /\ a[1] # "num" -> a = b
      [] Scalar(a) /\ Scalar(b) ->
            IF IsNumeric(a) /\ IsNumeric(b) THEN ToNumber(a)[2] = ToNumber(b)[2]
            ELSE IF "bool" \in {a[1], b[1]} THEN Truthy(a) = Truthy(b)
            ELSE ToStr(a) = ToStr(b)
      [] OTHER -> a = b

------------------------------------------------------------------------------
(* The parser.  A token is <<"lit", value>>, <<"id", name>>, <<"$id", name>> *)
(* or <<"op", text>>; a parse gives <<node, next>>, or Fail.                 *)

Bad == <<"bad">>
Fail == <<Bad, 0>>

Tok(t, i) == IF i <= Len(t) THEN t[i] ELSE <<"end", "">>
IsOp(t, i, op) == Tok(t, i) = <<"op", op>>

\* Continues a parse unless it failed: what the exceptions of fail() do.
Then(p, G(_, _)) == IF p[1] = Bad THEN Fail ELSE G(p[1], p[2])
Expect(t, p, op, G(_, _)) ==
    Then(p, LAMBDA n, i : IF IsOp(t, i, op) THEN G(n, i + 1) ELSE Fail)

\* The equality operators parsed with the comparisons, as one left-associative level.
MutLevels == << {"||"}, {"&&"}, {}, {"==", "!=", "<", "<=", ">", ">=", "in", "contains", "=~"},
                {"+", "-"}, {"*", "/", "%"} >>

\* parseLogicalOr .. parseMultiplicative, from the loosest to the tightest.
Levels == << {"||"}, {"&&"}, {"==", "!="}, {"<", "<=", ">", ">=", "in", "contains", "=~"},
             {"+", "-"}, {"*", "/", "%"} >>

RECURSIVE ParseTernary(_, _), ParseCoalesce(_, _), ParseLevel(_, _, _), ParseMore(_, _, _, _),
          ParseUnary(_, _), ParseChain(_, _, _), ParseArguments(_, _, _, _), ParseEntries(_, _, _, _)

\* args collected until the closing token; an empty list closes at once.
ParseArguments(t, i, close, args) ==
    IF args = <<>> /\ IsOp(t, i, close) THEN << <<"args", args>>, i + 1>>
    ELSE Then(ParseTernary(t, i), LAMBDA n, j :
              IF IsOp(t, j, ",") THEN ParseArguments(t, j + 1, close, Append(args, n))
              ELSE IF IsOp(t, j, close) THEN << <<"args", Append(args, n)>>, j + 1>>
              ELSE Fail)

ParseEntries(t, i, keys, args) ==
    IF keys = <<>> /\ IsOp(t, i, "}") THEN << <<"object", keys, args>>, i + 1>>
    ELSE IF Tok(t, i)[1] # "id" \/ ~IsOp(t, i + 1, ":") THEN Fail
    ELSE Then(ParseTernary(t, i + 2), LAMBDA n, j :
              IF IsOp(t, j, ",") THEN ParseEntries(t, j + 1, Append(keys, t[i][2]), Append(args, n))
              ELSE IF IsOp(t, j, "}") THEN << <<"object", Append(keys, t[i][2]), Append(args, n)>>, j + 1>>
              ELSE Fail)

ParsePrimary(t, i) ==
    LET tok == Tok(t, i) IN
    CASE tok[1] = "lit" -> <<tok, i + 1>>
      [] tok[1] \in {"id", "$id"} ->
            IF IsOp(t, i + 1, "(")
            THEN Then(ParseArguments(t, i + 2, ")", <<>>),
                      LAMBDA a, j : << <<"call", tok[2], a[2]>>, j>>)
            ELSE << <<"var", tok[2]>>, i + 1>>
      [] tok = <<"op", "(">> -> Expect(t, ParseTernary(t, i + 1), ")", LAMBDA n, j : <<n, j>>)
      [] tok = <<"op", "[">> -> Then(ParseArguments(t, i + 1, "]", <<>>),
                                     LAMBDA a, j : << <<"array", a[2]>>, j>>)
      [] tok = <<"op", "{">> -> ParseEntries(t, i + 1, <<>>, <<>>)
      [] OTHER -> Fail

\* Fields, method calls (the receiver is the first argument) and indexes.
ParseChain(t, n, i) ==
    CASE IsOp(t, i, ".") /\ Tok(t, i + 1)[1] # "id" -> Fail
      [] IsOp(t, i, ".") /\ IsOp(t, i + 2, "(") ->
            Then(ParseArguments(t, i + 3, ")", <<>>), LAMBDA a, j :
                 ParseChain(t, <<"method", Tok(t, i + 1)[2], <<n>> \o a[2]>>, j))
      [] IsOp(t, i, ".") -> ParseChain(t, <<"member", Tok(t, i + 1)[2], n>>, i + 2)
      [] IsOp(t, i, "[") -> Expect(t, ParseTernary(t, i + 1), "]", LAMBDA k, j :
                                   ParseChain(t, <<"index", n, k>>, j))
      [] OTHER -> <<n, i>>

ParseUnary(t, i) ==
    IF \E op \in {"!", "-", "+"} : IsOp(t, i, op)
    THEN Then(ParseUnary(t, i + 1), LAMBDA n, j : << <<"unary", t[i][2], n>>, j>>)
    ELSE Then(ParsePrimary(t, i), LAMBDA n, j : ParseChain(t, n, j))

\* The while loop of a binary level: left-associative.
ParseMore(t, left, i, level) ==
    IF Tok(t, i)[1] = "op" /\ Tok(t, i)[2] \in Levels[level]
    THEN Then(ParseLevel(t, i + 1, level + 1), LAMBDA right, j :
              ParseMore(t, <<"binary", Tok(t, i)[2], left, right>>, j, level))
    ELSE <<left, i>>

ParseLevel(t, i, level) ==
    IF level > Len(Levels) THEN ParseUnary(t, i)
    ELSE Then(ParseLevel(t, i, level + 1), LAMBDA n, j : ParseMore(t, n, j, level))

ParseCoalesce(t, i) ==
    Then(ParseLevel(t, i, 1), LAMBDA left, j :
         IF ~IsOp(t, j, "??") THEN <<left, j>>
         ELSE Then(ParseCoalesce(t, j + 1), LAMBDA right, k : << <<"coalesce", left, right>>, k>>))

ParseTernary(t, i) ==
    Then(ParseCoalesce(t, i), LAMBDA c, j :
         IF ~IsOp(t, j, "?") THEN <<c, j>>
         ELSE Expect(t, ParseTernary(t, j + 1), ":", LAMBDA a, k :
                     Then(ParseTernary(t, k), LAMBDA b, m : << <<"ternary", c, a, b>>, m>>)))

\* parseProgram: nothing may follow the expression.
ParseEnd(p, t) == IF p[1] # Bad /\ p[2] = Len(t) + 1 THEN p[1] ELSE Bad
Parse(t) == ParseEnd(ParseTernary(t, 1), t)

------------------------------------------------------------------------------
(* Identifier lookup: ContextResolver::resolve over the outer scope, a     *)
(* function from paths (sequences of names; a flat dotted key is a path of *)
(* several names) to values.                                               *)

RECURSIVE Walk(_, _)
Walk(v, path) ==
    IF path = <<>> THEN v
    ELSE IF v[1] = "obj" /\ path[1] \in DOMAIN v[2] THEN Walk(v[2][path[1]], Tail(path))
    ELSE None

Resolve(outer, path) ==
    IF path \in DOMAIN outer THEN outer[path]
    ELSE IF <<path[1]>> \in DOMAIN outer THEN Walk(outer[<<path[1]>>], Tail(path))
    ELSE None

\* collectDottedPath: <<>> when the node is not a chain of fields on a variable.
RECURSIVE DottedPath(_)
DottedPath(n) ==
    CASE n[1] = "var" -> <<n[2]>>
      [] n[1] = "member" -> IF DottedPath(n[3]) = <<>> THEN <<>> ELSE Append(DottedPath(n[3]), n[2])
      [] OTHER -> <<>>

------------------------------------------------------------------------------
(* What operators and library functions do with evaluated arguments. *)

Needs(v, F(_)) == IF IsNumeric(v) THEN F(ToNumber(v)[2]) ELSE Error("validation")

UnaryOp(op, v) == CASE op = "!" -> Bool(~Truthy(v))
                    [] op = "-" -> Needs(v, LAMBDA n : Num(-n))
                    [] OTHER -> Needs(v, LAMBDA n : Num(n))

\* Among the short texts of a model one is found in another when it is equal or empty.
Holds(haystack, needle) ==
    CASE haystack[1] = "arr" -> \E x \in Range(haystack[2]) : Equals(x, needle)
      [] haystack[1] = "obj" -> needle[1] = "str" /\ needle[2] \in DOMAIN haystack[2]
      [] OTHER -> ToStr(needle) \in {"", ToStr(haystack)}

Abs(n) == IF n < 0 THEN -n ELSE n

\* Doubles: a quotient that is not whole is outside the model's inputs.
Arithmetic(op, a, b) ==
    CASE op = "-" -> Num(a - b)
      [] op = "*" -> Num(a * b)
      [] op \in {"/", "%"} /\ b = 0 -> Error("validation")
      [] op = "/" -> Num(a \div b)
      [] op = "%" -> Num(LET m == Abs(a) % Abs(b) IN IF a < 0 THEN -m ELSE m)
      [] op = "<" -> Bool(a < b)
      [] op = "<=" -> Bool(a <= b)
      [] op = ">" -> Bool(a > b)
      [] OTHER -> Bool(a >= b)

\* merge_patch (objects are flat here): a null removes the field.
Patched(obj, patch) ==
    LET fields == patch @@ obj
    IN [n \in {m \in DOMAIN fields : m \in DOMAIN patch => ~IsNull(patch[m])} |->
            IF n \in DOMAIN patch THEN patch[n] ELSE obj[n]]

BinaryOp(op, a, b) ==
    CASE op = "==" -> Bool(Equals(a, b))
      [] op = "!=" -> Bool(~Equals(a, b))
      [] op = "in" -> Bool(Holds(b, a))
      [] op = "contains" -> Bool(Holds(a, b))
      [] op = "+" ->
            IF IsNumeric(a) /\ IsNumeric(b) /\ "str" \notin {a[1], b[1]}
            THEN Num(ToNumber(a)[2] + ToNumber(b)[2])
            ELSE IF a[1] = "arr" /\ b[1] = "arr" THEN Arr(a[2] \o b[2])
            ELSE IF a[1] = "obj" /\ b[1] = "obj" THEN Obj(Patched(a[2], b[2]))
            ELSE Str(ToStr(a) \o ToStr(b))
      [] ~(IsNumeric(a) /\ IsNumeric(b)) -> Error("validation")
      [] OTHER -> Arithmetic(op, ToNumber(a)[2], ToNumber(b)[2])

\* The field of an object, the fields of an array's objects, or null.
Field(v, name) ==
    CASE name \in {"length", "size"} /\ v[1] \in {"arr", "obj", "str"} -> Num(Size(v))
      [] name \in {"length", "size"} /\ IsNull(v) -> Num(0)
      [] v[1] = "obj" /\ name \in DOMAIN v[2] -> v[2][name]
      [] v[1] = "arr" ->
            LET Has(x) == x[1] = "obj" /\ name \in DOMAIN x[2]
            IN IF \E x \in Range(v[2]) : Has(x)
               THEN Arr([k \in DOMAIN v[2] |-> IF Has(v[2][k]) THEN v[2][k][2][name] ELSE Null])
               ELSE Null
      [] OTHER -> Null

\* A negative index counts from the end; out of range is null.
ElementAt(v, idx) ==
    LET k == IF idx < 0 THEN idx + Len(v[2]) ELSE idx
    IN IF v[1] = "arr" /\ k \in 0..(Len(v[2]) - 1) THEN v[2][k + 1] ELSE Null

\* A text indexes the fields of an object, and an array by the number it
\* spells; a number the elements of an array, the field of an object that has
\* the number for its name, and the characters of a text.
IndexOp(v, k) ==
    LET Entry(key) == IF key \in DOMAIN v[2] THEN v[2][key] ELSE Null
        Character(n) == LET at == IF n < 0 THEN n + Size(v) ELSE n
                        IN IF at \in 0..(Size(v) - 1) THEN Str(SubSeq(v[2], at + 1, at + 1)) ELSE Null
    IN CASE k[1] = "str" /\ v[1] = "obj" -> Entry(k[2])
         [] k[1] = "str" -> IF v[1] = "arr" /\ k[2] \in DOMAIN Spells THEN ElementAt(v, Spells[k[2]]) ELSE Null
         [] OTHER -> Needs(k, LAMBDA n : CASE v[1] = "arr" -> ElementAt(v, n)
                                           [] v[1] = "obj" -> Entry(ToString(n))
                                           [] v[1] = "str" -> Character(n)
                                           [] OTHER -> Null)

\* arrayArg: null is no element, anything that is not an array is one.
Items(v) == CASE v[1] = "arr" -> v[2] [] IsNull(v) -> <<>> [] OTHER -> <<v>>

\* unique: an element equal to one already kept is dropped.
Unique(s) == FoldLeft(LAMBDA kept, x : IF \E y \in Range(kept) : Equals(y, x)
                                       THEN kept ELSE Append(kept, x), <<>>, s)

\* slice: both ends count from the end when negative and are clamped.
Slice(s, from, to) ==
    LET At(k) == IF k < 0 THEN Max({0, Len(s) + k}) ELSE Min({k, Len(s)})
    IN SubSeq(s, At(from) + 1, At(to))

\* min and max: over one array or over the arguments; of nothing, the largest double.
Huge == 1000000
Best(args, Pick(_), none) ==
    LET list == IF Len(args) = 1 /\ args[1][1] = "arr" THEN args[1][2] ELSE args
    IN CASE args = <<>> -> Null
         [] \E x \in Range(list) : ~IsNumeric(x) -> Error("validation")
         [] OTHER -> Num(Pick({ToNumber(x)[2] : x \in Range(list)} \cup {none}))

\* len: of a text, a list or an object its size, of any other value 1.
LenOf(v) == CASE IsNull(v) -> 0 [] v[1] \in {"num", "bool"} -> 1 [] OTHER -> Size(v)

\* is_number also holds of a text or a boolean that converts; numbers are whole here.
TypeTests == {"is_number", "is_decimal", "is_integer", "is_string", "is_bool", "is_null", "is_empty",
              "is_array", "is_object"}
TypeTest(name, v) ==
    CASE name \in {"is_number", "is_integer"} -> IsNumeric(v)
      [] name = "is_decimal" -> FALSE
      [] name = "is_string" -> v[1] = "str"
      [] name = "is_bool" -> v[1] = "bool"
      [] name = "is_null" -> IsNull(v)
      [] name = "is_empty" -> IsNull(v) \/ (v[1] \in {"str", "arr", "obj"} /\ Size(v) = 0)
      [] name = "is_array" -> v[1] = "arr"
      [] OTHER -> v[1] = "obj"

\* merge: the object arguments patched one by one, in order.
Merged(args) == Obj(FoldLeft(LAMBDA o, x : IF x[1] = "obj" THEN Patched(o, x[2]) ELSE o, <<>>, args))

\* The functions that look at one list.
ListFunctions == {"first", "last", "reverse", "unique", "slice", "push"}
OfList(name, list, args) ==
    LET Or(k, n) == IF k <= Len(args) THEN args[k] ELSE Num(n) IN
    CASE name = "first" -> IF list = <<>> THEN Null ELSE list[1]
      [] name = "last" -> IF list = <<>> THEN Null ELSE Last(list)
      [] name = "reverse" -> Arr(Reverse(list))
      [] name = "unique" -> Arr(Unique(list))
      [] name = "slice" -> Arr(Slice(list, ToNumber(Or(2, 0))[2], ToNumber(Or(3, Len(list)))[2]))
      [] OTHER -> Arr(list \o SubSeq(args, 2, Len(args)))

Library == {"len", "contains", "equals", "to_bool", "to_string", "abs", "floor", "ceil", "mod", "merge",
            "min", "max"} \cup TypeTests \cup ListFunctions

\* arityAtLeast, before any argument is evaluated.
Arity(name) == IF name \in {"contains", "equals", "default", "if"} THEN 2 ELSE 0

\* The arguments a function of the library evaluates, in its order: mod its
\* divisor first, and most of them nothing after the first argument.
Reads(name, args) ==
    LET A(k) == IF k <= Len(args) THEN args[k] ELSE <<"lit", Null>>
        Up(n) == SubSeq(args, 1, Min({n, Len(args)}))
    IN CASE name \in {"min", "max", "merge", "push"} -> args
         [] name = "mod" -> <<A(2), A(1)>>
         [] name \in {"contains", "equals"} -> Up(2)
         [] name = "slice" -> Up(3)
         [] OTHER -> Up(1)

\* What is thrown when the k-th of n of them is no number, or no divisor,
\* before the next is evaluated; or its value.
Checked(name, n, k, v) ==
    CASE name = "mod" /\ k = 1 /\ ToNumber(v) = Num(0) -> Error("validation")
      [] \/ name = "mod"
         \/ name = "slice" /\ k > 1
         \/ name \in {"min", "max"} /\ ~(n = 1 /\ v[1] = "arr") -> Needs(v, LAMBDA d : v)
      [] OTHER -> v

Apply(name, args) ==
    LET A(k) == IF k <= Len(args) THEN args[k] ELSE Null IN
    CASE name = "contains" -> Bool(Holds(A(1), A(2)))
      [] name = "equals" -> Bool(Equals(A(1), A(2)))
      [] name = "len" -> Num(LenOf(A(1)))
      [] name = "to_bool" -> Bool(Truthy(A(1)))
      [] name = "to_string" -> Str(ToStr(A(1)))
      [] name \in TypeTests -> Bool(TypeTest(name, A(1)))
      [] name = "abs" -> Needs(A(1), LAMBDA n : Num(Abs(n)))
      [] name \in {"floor", "ceil"} -> Needs(A(1), Num)
      [] name = "mod" -> Arithmetic("%", ToNumber(A(2))[2], ToNumber(A(1))[2])
      [] name = "merge" -> Merged(args)
      [] name = "min" -> Best(args, Min, Huge)
      [] name = "max" -> Best(args, Max, -Huge)
      [] OTHER -> OfList(name, Items(A(1)), args)

Iterators == {"map", "filter", "count", "any", "all", "none", "sum", "sort"}

\* sum of anything but an array is 0; the other iterators take what arrayArg gives.
Iterated(name, v) == IF name = "sum" /\ v[1] # "arr" THEN <<>> ELSE Items(v)

\* sort: stable, and keys that do not compare are as good as equal.  Texts are
\* not ordered here.
Less(a, b) == IsNumeric(a) /\ IsNumeric(b) /\ ToNumber(a)[2] < ToNumber(b)[2]
SortedBy(items, keys) ==
    LET Before(p, q) == Less(keys[p], keys[q]) \/ (~Less(keys[q], keys[p]) /\ p <= q)
    IN Arr([k \in DOMAIN items |->
            items[CHOOSE p \in DOMAIN items : Cardinality({q \in DOMAIN items : Before(q, p)}) = k]])

\* An iterator's value from the values its predicate had, in order.
Collect(name, items, vals) ==
    LET kept == {k \in DOMAIN vals : Truthy(vals[k])} IN
    CASE name = "map" -> Arr(vals)
      [] name = "filter" -> Arr([k \in 1..Cardinality(kept) |->
                                 items[CHOOSE p \in kept : Cardinality({q \in kept : q <= p}) = k]])
      [] name = "count" -> Num(Cardinality(kept))
      [] name = "any" -> Bool(kept # {})
      [] name = "all" -> Bool(kept = DOMAIN vals)
      [] name = "none" -> Bool(kept = {})
      [] name = "sort" -> SortedBy(items, vals)
      [] OTHER -> IF \A x \in Range(vals) : IsNumeric(x)
                  THEN Num(FoldLeft(LAMBDA s, x : s + ToNumber(x)[2], 0, vals))
                  ELSE Error("validation")

\* An iterator without a predicate: a missing one is null; sum skips what is no number.
Bare(name, items) ==
    CASE name \in {"map", "filter"} -> Arr(items)
      [] name = "count" -> Num(Len(items))
      [] name = "sum" -> Collect("sum", items, SelectSeq(items, IsNumeric))
      [] name = "sort" -> SortedBy(items, items)
      [] OTHER -> Collect(name, items, [k \in DOMAIN items |-> Null])

\* any, none and all return at the first element that decides.
Decided(name, v) == \/ name \in {"any", "none"} /\ Truthy(v)
                    \/ name = "all" /\ ~Truthy(v)

------------------------------------------------------------------------------
(* The evaluator.  st is [loc, outer, strict]: EvalState. *)

\* Goes on with a value, or lets an exception pass.
Bind(r, G(_, _)) == IF IsError(r[1]) THEN r ELSE G(r[1], r[2])
With(st, loc) == [st EXCEPT !.loc = loc]
Relaxed(st) == [st EXCEPT !.strict = FALSE]

\* The locals left behind: the destructor forgotten.
MutErased(loc) == loc

\* LocalScope: set on entry, erased (not restored) by the destructor, on errors too.
Scoped(loc, item, k) == ("item" :> item) @@ ("index" :> Num(k - 1)) @@ loc
Erased(loc) == [n \in DOMAIN loc \ {"item", "index"} |-> loc[n]]

RECURSIVE Eval(_, _), EvalAll(_, _, _, _), Iterate(_, _, _, _, _), FirstOf(_, _, _)

\* The arguments a function reads, one by one; a list or object takes them all.
EvalAll(name, args, vals, st) ==
    IF args = <<>> THEN << <<"vals", vals>>, st.loc>>
    ELSE Bind(Eval(args[1], st), LAMBDA v, loc :
         Bind(<<Checked(name, Len(vals) + Len(args), Len(vals) + 1, v), loc>>, LAMBDA w, same :
              EvalAll(name, Tail(args), Append(vals, w), With(st, loc))))

\* evalPredicate: a quoted predicate is compiled here, and any error of it,
\* of the syntax or of the evaluation, leaves the text itself as the value.
QuotedOr(r, arg) == IF IsError(r[1]) THEN <<arg[2], r[2]>> ELSE r
EvalPredicate(arg, st) ==
    IF arg[1] = "lit" /\ arg[2][1] = "str"
    THEN IF arg[2][2] \notin DOMAIN Quoted \/ Parse(Quoted[arg[2][2]]) = Bad THEN <<arg[2], st.loc>>
         ELSE QuotedOr(Eval(Parse(Quoted[arg[2][2]]), st), arg)
    ELSE Eval(arg, st)

Iterate(name, items, vals, arg, st) ==
    LET k == Len(vals) + 1 IN
    IF k > Len(items) THEN << <<"vals", vals>>, st.loc>>
    ELSE LET Next(r) ==
               IF IsError(r[1]) THEN <<r[1], Erased(r[2])>>
               ELSE IF Decided(name, r[1]) THEN << <<"vals", Append(vals, r[1])>>, Erased(r[2])>>
               ELSE Iterate(name, items, Append(vals, r[1]), arg, With(st, Erased(r[2])))
         IN Next(EvalPredicate(arg, With(st, Scoped(st.loc, items[k], k))))

\* coalesce(): the first argument that is neither null nor "", all of them relaxed.
FirstOf(args, st, loc) ==
    IF args = <<>> THEN <<Null, loc>>
    ELSE LET Keep(r) == IF IsError(r[1]) \/ (~IsNull(r[1]) /\ r[1] # Str(""))
                        THEN <<r[1], loc>> ELSE FirstOf(Tail(args), With(st, r[2]), loc)
         IN Keep(Eval(args[1], Relaxed(st)))

CallFunction(name, args, st, method) ==
    LET Arg(k, s) == IF k <= Len(args) THEN Eval(args[k], s) ELSE <<Null, s.loc>> IN
    CASE Len(args) < Arity(name) -> <<Error("validation"), st.loc>>
      [] name \in Iterators /\ Len(args) > 1 ->
            Bind(Arg(1, st), LAMBDA v, loc :
                 Bind(Iterate(name, Iterated(name, v), <<>>, args[2], With(st, loc)), LAMBDA vals, loc2 :
                      <<Collect(name, Iterated(name, v), vals[2]), loc2>>))
      [] name \in Iterators -> Bind(Arg(1, st), LAMBDA v, loc : <<Bare(name, Iterated(name, v)), loc>>)
      [] name \in {"to_number", "to_int"} -> Bind(Arg(1, st), LAMBDA v, loc :
            CASE IsNumeric(v) -> <<ToNumber(v), loc>>
              [] ~IsNumeric(v) /\ Len(args) > 1 -> Arg(2, With(st, loc))
              [] OTHER -> <<Error("validation"), loc>>)
      [] name = "if" -> Bind(Arg(1, st), LAMBDA v, loc : Arg(IF Truthy(v) THEN 2 ELSE 3, With(st, loc)))
      [] name = "default" -> Bind(<<Arg(1, Relaxed(st))[1], st.loc>>, LAMBDA v, loc :
                                  IF IsNull(v) THEN Arg(2, st) ELSE <<v, loc>>)
      [] name = "coalesce" -> FirstOf(args, st, st.loc)
      [] name \in Library -> Bind(EvalAll(name, Reads(name, args), <<>>, st), LAMBDA v, loc :
                                    <<Apply(name, v[2]), loc>>)
      [] method -> Bind(Arg(1, st), LAMBDA v, loc :
                        IF v[1] = "obj" /\ name \in DOMAIN v[2] THEN <<v[2][name], loc>>
                        ELSE <<Error("validation"), loc>>)
      [] OTHER -> <<Error("validation"), st.loc>>

EvalVariable(name, st) ==
    <<CASE name \in DOMAIN st.loc -> st.loc[name]
        [] Resolve(st.outer, <<name>>) # None -> Resolve(st.outer, <<name>>)
        [] st.strict -> Error("not_found")
        [] OTHER -> Null, st.loc>>

\* The dotted path is looked up in the outer scope before the local variables.
EvalMember(n, st) ==
    IF DottedPath(n) # <<>> /\ Resolve(st.outer, DottedPath(n)) # None
    THEN <<Resolve(st.outer, DottedPath(n)), st.loc>>
    ELSE Bind(Eval(n[3], st), LAMBDA v, loc : <<Field(v, n[2]), loc>>)

EvalBinary(op, a, b, st) ==
    Bind(Eval(a, st), LAMBDA x, loc :
         IF op \in {"&&", "||"} /\ Truthy(x) = (op = "||") THEN <<Bool(Truthy(x)), loc>>
         ELSE Bind(Eval(b, With(st, loc)), LAMBDA y, loc2 :
                   <<IF op \in {"&&", "||"} THEN Bool(Truthy(y)) ELSE BinaryOp(op, x, y), loc2>>))

\* The last of two equal keys wins.
Entries(keys, vals) == Obj([k \in Range(keys) |-> vals[Max({i \in DOMAIN keys : keys[i] = k})]])

\* ?? evaluates its left side relaxed, on a copy of the state.
EvalCoalesce(a, b, st) ==
    Bind(<<Eval(a, Relaxed(st))[1], st.loc>>, LAMBDA v, loc : IF IsNull(v) THEN Eval(b, st) ELSE <<v, loc>>)

Eval(n, st) ==
    CASE n[1] = "lit" -> <<n[2], st.loc>>
      [] n[1] = "var" -> EvalVariable(n[2], st)
      [] n[1] = "member" -> EvalMember(n, st)
      [] n[1] = "index" -> Bind(Eval(n[2], st), LAMBDA v, loc :
                                IF IsNull(v) THEN <<v, loc>>
                                ELSE Bind(Eval(n[3], With(st, loc)),
                                          LAMBDA k, loc2 : <<IndexOp(v, k), loc2>>))
      [] n[1] = "unary" -> Bind(Eval(n[3], st), LAMBDA v, loc : <<UnaryOp(n[2], v), loc>>)
      [] n[1] = "binary" -> EvalBinary(n[2], n[3], n[4], st)
      [] n[1] = "ternary" -> Bind(Eval(n[2], st), LAMBDA v, loc :
                                  Eval(IF Truthy(v) THEN n[3] ELSE n[4], With(st, loc)))
      [] n[1] = "coalesce" -> EvalCoalesce(n[2], n[3], st)
      [] n[1] = "array" -> Bind(EvalAll("array", n[2], <<>>, st), LAMBDA v, loc : <<Arr(v[2]), loc>>)
      [] n[1] = "object" -> Bind(EvalAll("object", n[3], <<>>, st), LAMBDA v, loc : <<Entries(n[2], v[2]), loc>>)
      [] OTHER -> CallFunction(n[2], n[3], st, n[1] = "method")

State(outer, strict) == [loc |-> <<>>, outer |-> outer, strict |-> strict]

------------------------------------------------------------------------------
(* Handles: what a field of a blueprint compiles to.  A handle is          *)
(* [program, template, source]; the template is a sequence of segments,    *)
(* <<"text", tokens>> or <<"slot", node>>.                                 *)

\* getOrCompileTemplate: $name.field[index] and ${...} are slots, the rest and
\* $$ are literal text.  The tokens between the braces come in one, <<"${",
\* tokens>>; the index ends at the first bracket, and no field follows it.
RECURSIVE PathEnd(_, _), IndexEnd(_, _), Segments(_, _, _)
PathEnd(t, i) == IF IsOp(t, i + 1, ".") /\ Tok(t, i + 2)[1] = "id" THEN PathEnd(t, i + 2) ELSE i
IndexEnd(t, i) ==
    LET closing == {j \in (i + 1)..Len(t) : IsOp(t, j, "]")}
    IN IF IsOp(t, i + 1, "[") /\ closing # {} THEN IndexEnd(t, Min(closing)) ELSE i
SlotEnd(t, i) == IndexEnd(t, PathEnd(t, i))

Segments(t, i, segs) ==
    CASE i > Len(t) -> IF segs = <<>> THEN << <<"text", <<>> >> >> ELSE segs
      [] t[i][1] = "$id" -> Segments(t, SlotEnd(t, i) + 1,
                                     Append(segs, <<"slot", Parse(SubSeq(t, i, SlotEnd(t, i)))>>))
      [] t[i][1] = "${" -> Segments(t, i + 1, Append(segs, <<"slot", Parse(t[i][2])>>))
      [] segs # <<>> /\ Last(segs)[1] = "text" ->
            Segments(t, i + 1, Append(Front(segs), <<"text", Append(Last(segs)[2], t[i])>>))
      [] OTHER -> Segments(t, i + 1, Append(segs, <<"text", <<t[i]>> >>))

Handle(program, source) == [program |-> program, template |-> Segments(source, 1, <<>>), source |-> source]

\* Expression(source): a template; a program only when it is one slot.
OneSlot(segs) == Len(segs) = 1 /\ segs[1][1] = "slot"

AsTemplate(source) == LET h == Handle(Bad, source)
                      IN IF OneSlot(h.template) THEN [h EXCEPT !.program = h.template[1][2]] ELSE h

\* fromExpression: the source must compile as a program.
AsPredicate(source) == Handle(Parse(source), source)

\* normalizeSource of {left, operator, right}: "(side) op (side)".
OpToken(op) == << <<"op", op>> >>
Normalized(d) == OpToken("(") \o d.left \o OpToken(")") \o OpToken(d.operator)
                 \o OpToken("(") \o d.right \o OpToken(")")

\* Fields.toPredicate: a text is a predicate, an object a template of its normal form.
ToPredicate(d) == IF "operator" \in DOMAIN d THEN AsTemplate(Normalized(d)) ELSE AsPredicate(d.text)

\* The text of a literal segment: only whether it is empty matters.
RECURSIVE Render(_, _, _)
Render(segs, st, text) ==
    IF segs = <<>> THEN Str(text)
    ELSE IF segs[1][1] = "text" THEN Render(Tail(segs), st, text \o (IF segs[1][2] = <<>> THEN "" ELSE "~"))
    ELSE LET Add(r) == IF IsError(r[1]) THEN r[1] ELSE Render(Tail(segs), With(st, r[2]), text \o ToStr(r[1]))
         IN Add(Eval(segs[1][2], st))

\* Expression::evaluate.
Evaluate(h, st) == IF h.source = <<>> THEN Null
                   ELSE IF h.program # Bad THEN Eval(h.program, st)[1]
                   ELSE Render(h.template, st, "")

\* Expression::resolve: a text without slots is itself, one slot keeps its type.
Rendered(h, st) == IF OneSlot(h.template) THEN Eval(h.template[1][2], st)[1]
                   ELSE Render(h.template, st, "")

EvaluateBool(h, st) == LET v == Evaluate(h, st) IN IF IsError(v) THEN v ELSE Bool(Truthy(v))
==============================================================================
