------------------------------ MODULE Meaning ------------------------------
(***************************************************************************)
(* Two reference definitions to compare the expression language with: the  *)
(* tokens of a tree with as few parentheses as its precedences allow, and  *)
(* the value of a tree when item and index are bound lexically.            *)
(***************************************************************************)
EXTENDS Sel

------------------------------------------------------------------------------
(* Reference: precedence and the shortest source of a tree. *)

Strength(op) == CASE op = "||" -> 2 [] op = "&&" -> 3 [] op \in {"==", "!="} -> 4
                  [] op \in {"+", "-"} -> 6 [] op \in {"*", "/", "%"} -> 7 [] OTHER -> 5

Precedence(n) == CASE n[1] = "ternary" -> 0 [] n[1] = "coalesce" -> 1 [] n[1] = "binary" -> Strength(n[2])
                   [] n[1] = "unary" -> 8 [] OTHER -> 9

RECURSIVE Source(_), SourceList(_)
SourceAt(n, p) == IF Precedence(n) < p THEN OpToken("(") \o Source(n) \o OpToken(")") ELSE Source(n)
SourceList(args) == CASE args = <<>> -> <<>>
                      [] Len(args) = 1 -> Source(args[1])
                      [] OTHER -> Source(args[1]) \o OpToken(",") \o SourceList(Tail(args))
Name(n) == << <<"id", n>> >>
Source(n) ==
    CASE n[1] = "lit" -> <<n>>
      [] n[1] = "var" -> Name(n[2])
      [] n[1] = "ternary" -> SourceAt(n[2], 1) \o OpToken("?") \o Source(n[3]) \o OpToken(":") \o Source(n[4])
      [] n[1] = "coalesce" -> SourceAt(n[2], 2) \o OpToken("??") \o SourceAt(n[3], 1)
      [] n[1] = "binary" -> SourceAt(n[3], Strength(n[2])) \o OpToken(n[2]) \o SourceAt(n[4], Strength(n[2]) + 1)
      [] n[1] = "unary" -> OpToken(n[2]) \o SourceAt(n[3], 8)
      [] n[1] = "member" -> SourceAt(n[3], 9) \o OpToken(".") \o Name(n[2])
      [] n[1] = "index" -> SourceAt(n[2], 9) \o OpToken("[") \o Source(n[3]) \o OpToken("]")
      [] n[1] = "array" -> OpToken("[") \o SourceList(n[2]) \o OpToken("]")
      [] n[1] = "object" -> OpToken("{") \o Name(n[2][1]) \o OpToken(":") \o Source(n[3][1]) \o OpToken("}")
      [] n[1] = "call" -> Name(n[2]) \o OpToken("(") \o SourceList(n[3]) \o OpToken(")")
      [] OTHER -> SourceAt(n[3][1], 9) \o OpToken(".") \o Name(n[2])
                  \o OpToken("(") \o SourceList(Tail(n[3])) \o OpToken(")")

------------------------------------------------------------------------------
(* Reference: the value of a tree with lexical scopes.  env is a scope as  *)
(* Resolve takes it; an iterator's item and index hide the outer ones.     *)

On(v, G(_)) == IF IsError(v) THEN v ELSE G(v)

Inner(env, item, k) == (<<"item">> :> item) @@ (<<"index">> :> Num(k - 1)) @@
                       [p \in {q \in DOMAIN env : q[1] \notin {"item", "index"}} |-> env[p]]

FirstError(vals) == CHOOSE k \in DOMAIN vals : IsError(vals[k]) /\ \A j \in 1..(k - 1) : ~IsError(vals[j])
OnAll(vals, G(_)) == IF \E k \in DOMAIN vals : IsError(vals[k]) THEN vals[FirstError(vals)] ELSE G(vals)

\* An iterator looks at no element after the one that decides.
Looked(name, vals) ==
    LET stops == {k \in DOMAIN vals : IsError(vals[k]) \/ Decided(name, vals[k])}
    IN IF stops = {} THEN vals ELSE SubSeq(vals, 1, Min(stops))

RECURSIVE Mean(_, _, _)
MeanCall(name, args, env, strict, method) ==
    LET A(k, s) == IF k <= Len(args) THEN Mean(args[k], env, s) ELSE Null
        predicate == IF args[2][1] = "lit" /\ args[2][2][1] = "str" THEN Parse(Quoted[args[2][2][2]]) ELSE args[2]
        read == Reads(name, args)
        all == [k \in DOMAIN read |-> On(Mean(read[k], env, strict), LAMBDA v : Checked(name, Len(read), k, v))]
        kept == [k \in DOMAIN args |-> A(k, FALSE)]
        Full(v) == ~IsNull(v) /\ v # Str("")
    IN
    CASE Len(args) < Arity(name) -> Error("validation")
      [] name \in Iterators /\ Len(args) > 1 -> On(A(1, strict), LAMBDA v :
            LET items == Iterated(name, v)
            IN OnAll(Looked(name, [k \in DOMAIN items |-> Mean(predicate, Inner(env, items[k], k), strict)]),
                     LAMBDA vals : Collect(name, items, vals)))
      [] name \in Iterators -> On(A(1, strict), LAMBDA v : Bare(name, Iterated(name, v)))
      [] name \in {"to_number", "to_int"} -> On(A(1, strict), LAMBDA v :
            IF IsNumeric(v) THEN ToNumber(v) ELSE IF Len(args) > 1 THEN A(2, strict) ELSE Error("validation"))
      [] name = "if" -> On(A(1, strict), LAMBDA v : A(IF Truthy(v) THEN 2 ELSE 3, strict))
      [] name = "default" -> On(A(1, FALSE), LAMBDA v : IF IsNull(v) THEN A(2, strict) ELSE v)
      [] name = "coalesce" -> IF \E k \in DOMAIN kept : Full(kept[k])
                              THEN kept[Min({k \in DOMAIN kept : Full(kept[k])})] ELSE Null
      [] name \in Library -> OnAll(all, LAMBDA vals : Apply(name, vals))
      [] method -> On(A(1, strict), LAMBDA v : IF v[1] = "obj" /\ name \in DOMAIN v[2] THEN v[2][name]
                                               ELSE Error("validation"))
      [] OTHER -> Error("validation")

Mean(n, env, strict) ==
    CASE n[1] = "lit" -> n[2]
      [] DottedPath(n) # <<>> /\ Resolve(env, DottedPath(n)) # None -> Resolve(env, DottedPath(n))
      [] n[1] = "var" -> IF strict THEN Error("not_found") ELSE Null
      [] n[1] = "member" -> On(Mean(n[3], env, strict), LAMBDA v : Field(v, n[2]))
      [] n[1] = "index" -> On(Mean(n[2], env, strict), LAMBDA v :
                              IF IsNull(v) THEN v ELSE On(Mean(n[3], env, strict), LAMBDA k : IndexOp(v, k)))
      [] n[1] = "unary" -> On(Mean(n[3], env, strict), LAMBDA v : UnaryOp(n[2], v))
      [] n[1] = "binary" /\ n[2] \in {"&&", "||"} ->
            On(Mean(n[3], env, strict), LAMBDA v :
               IF Truthy(v) = (n[2] = "||") THEN Bool(Truthy(v))
               ELSE On(Mean(n[4], env, strict), LAMBDA w : Bool(Truthy(w))))
      [] n[1] = "binary" -> On(Mean(n[3], env, strict), LAMBDA v :
                               On(Mean(n[4], env, strict), LAMBDA w : BinaryOp(n[2], v, w)))
      [] n[1] = "ternary" -> On(Mean(n[2], env, strict), LAMBDA v :
                                Mean(IF Truthy(v) THEN n[3] ELSE n[4], env, strict))
      [] n[1] = "coalesce" -> On(Mean(n[2], env, FALSE), LAMBDA v : IF IsNull(v) THEN Mean(n[3], env, strict) ELSE v)
      [] n[1] = "array" -> OnAll([k \in DOMAIN n[2] |-> Mean(n[2][k], env, strict)], Arr)
      [] n[1] = "object" -> OnAll([k \in DOMAIN n[3] |-> Mean(n[3][k], env, strict)],
                                  LAMBDA vals : Entries(n[2], vals))
      [] OTHER -> MeanCall(n[2], n[3], env, strict, n[1] = "method")

------------------------------------------------------------------------------
(* Trees. *)

Var(x) == <<"var", x>>
Lit(v) == <<"lit", v>>
Bin(op, a, b) == <<"binary", op, a, b>>
Call(f, args) == <<"call", f, args>>
Member(a, f) == <<"member", f, a>>

Dollar(x) == << <<"$id", x>> >>

\* The nodes of a tree.
RECURSIVE Parts(_)
Children(n) == CASE n[1] \in {"lit", "var"} -> <<>> [] n[1] \in {"unary", "member"} -> <<n[3]>>
                 [] n[1] = "array" -> n[2] [] n[1] \in {"call", "method", "object"} -> n[3]
                 [] n[1] = "binary" -> <<n[3], n[4]>> [] OTHER -> Tail(n)
Parts(n) == {n} \cup UNION {Parts(c) : c \in Range(Children(n))}
Uses(n, Test(_)) == \E m \in Parts(n) : Test(m)
=============================================================================
