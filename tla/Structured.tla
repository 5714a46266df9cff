------------------------------ MODULE Structured -------------------------------
(***************************************************************************)
(* What a blueprint without jumps means: the reference the frame machine   *)
(* is checked against.  Meaning(nodes) is the set of <<trace, result>> a   *)
(* list of node objects may give, read off the nesting of the document     *)
(* alone: no frames, no hoisting, no generated edges.  A result is "ok",   *)
(* "break", "continue", "end" (a terminate node) or an error code.         *)
(***************************************************************************)
EXTENDS Integers, Sequences

LOCAL Id(o) == o["id"].v
LOCAL Has(o, k) == k \in DOMAIN o
LOCAL Inner(o, k) ==
    IF Has(o, k) THEN [i \in DOMAIN o[k].v |-> o[k].v[i].v] ELSE <<>>
LOCAL Prefix(t, M) == {<<t \o m[1], m[2]>> : m \in M}

RECURSIVE Meaning(_), One(_), Iterations(_, _)

(* From iteration k on: a failed item is skipped unless on_item_error is   *)
(* "fail"; break ends the loop; everything else that is not ok leaves it.  *)
Iterations(o, k) ==
    IF k >= o["count"].v THEN {<<<<>>, "ok">>}
    ELSE UNION {
        CASE m[2] \in {"ok", "continue"} -> Prefix(m[1], Iterations(o, k + 1))
          [] m[2] = "break" -> {<<m[1], "ok">>}
          [] m[2] = "end" -> {m}
          [] OTHER -> IF Has(o, "on_item_error") THEN Prefix(m[1], Iterations(o, k + 1)) ELSE {m}
        : m \in Meaning(Inner(o, "body"))}

(* Cleanup runs whatever happened; what happened comes back after it.      *)
Finally(o, m) ==
    Prefix(m[1], {<<c[1], IF c[2] = "ok" THEN m[2] ELSE c[2]>> : c \in Meaning(Inner(o, "finally"))})

One(o) ==
    LET type == o["type"].v
    IN  CASE Has(o, "enabled") -> {<<<<>>, "ok">>}
          [] ~Has(o, "enabled") /\ type = "noop" -> {<<<<>>, "ok">>}
          [] ~Has(o, "enabled") /\ type = "command" -> {<<<<>>, "ok">>, <<<<>>, "HTTP_ERROR">>}
          [] ~Has(o, "enabled") /\ type = "terminate" -> {<<<<>>, "end">>}
          [] ~Has(o, "enabled") /\ type \in {"break", "continue"} ->
                 {<<<<>>, type>>} \cup (IF Has(o, "when") THEN {<<<<>>, "ok">>} ELSE {})
          [] ~Has(o, "enabled") /\ type = "if" ->
                 Meaning(Inner(o, "then")) \cup Meaning(Inner(o, "else"))
                     \cup {<<<<>>, "EXPRESSION_ERROR">>}
          [] ~Has(o, "enabled") /\ type = "loop" -> Iterations(o, 0)
          [] ~Has(o, "enabled") /\ type = "try" ->
                 UNION {
                    IF m[2] \in {"ok", "break", "continue", "end"} \/ ~Has(o, "catch")
                    THEN Finally(o, m)
                    ELSE UNION {Finally(o, c) : c \in Prefix(m[1], Meaning(Inner(o, "catch")))}
                    : m \in Meaning(Inner(o, "body"))}

Meaning(nodes) ==
    IF nodes = <<>> THEN {<<<<>>, "ok">>}
    ELSE UNION {
        IF m[2] = "ok" THEN Prefix(m[1], Meaning(Tail(nodes))) ELSE {m}
        : m \in Prefix(<<Id(Head(nodes))>>, One(Head(nodes)))}
================================================================================
