------------------------------- MODULE Validator -------------------------------
(***************************************************************************)
(* BlueprintValidator: what a parsed workflow is rejected for, and what it *)
(* is only warned about.  The walks of the code (a stack of ids, colours)  *)
(* compute closures of the edge relation; they are closures here.          *)
(***************************************************************************)
EXTENDS Integers, Sequences, SequencesExt, FiniteSets

\* Mutant: on_error is not an edge.
MutOutgoingTargets(n) ==
    ((CASE n.type = "condition" -> {n.on_true, n.on_false} \cup ToSet(n.then) \cup ToSet(n.else)
        [] n.type = "choice" -> n.cases \cup {n.default}
        [] n.type = "loop" -> ToSet(n.body)
        [] n.type = "try" -> ToSet(n.body) \cup ToSet(n.catch) \cup ToSet(n.finally)
                                 \cup {n.when[c] : c \in DOMAIN n.when}
        [] n.type = "parallel" -> UNION {ToSet(n.branches[i]) : i \in DOMAIN n.branches}
        [] n.type = "schedule" -> {n.target}
        [] n.type = "action" -> n.next_tasks \cup {n.handler}
        [] OTHER -> {})
      \cup {n.next}) \ {""}

OutgoingTargets(n) ==
    ((CASE n.type = "condition" -> {n.on_true, n.on_false} \cup ToSet(n.then) \cup ToSet(n.else)
        [] n.type = "choice" -> n.cases \cup {n.default}
        [] n.type = "loop" -> ToSet(n.body)
        [] n.type = "try" -> ToSet(n.body) \cup ToSet(n.catch) \cup ToSet(n.finally)
                                 \cup {n.when[c] : c \in DOMAIN n.when}
        [] n.type = "parallel" -> UNION {ToSet(n.branches[i]) : i \in DOMAIN n.branches}
        [] n.type = "schedule" -> {n.target}
        [] n.type = "action" -> n.next_tasks \cup {n.handler}
        [] OTHER -> {})
      \cup {n.next, n.on_error}) \ {""}

(* The ids reached from `from` along step, over the nodes of w.            *)
Closure(w, from, step(_)) ==
    LET known(T) == T \cap DOMAIN w.nodes
        reach[k \in 0..Cardinality(DOMAIN w.nodes)] ==
            IF k = 0 THEN known(from)
            ELSE reach[k - 1] \cup known(UNION {step(w.nodes[id]) : id \in reach[k - 1]})
    IN  reach[Cardinality(DOMAIN w.nodes)]

ReachableFrom(w, entry) == Closure(w, {entry}, OutgoingTargets)

(* Loop bodies as the validator sees them: it follows `next` and the       *)
(* bodies of nested loops, and nothing else.                               *)
LoopBodyNodes(w) ==
    LET step(n) == IF n.type = "loop" THEN ToSet(n.body) ELSE {n.next}
    IN  UNION {Closure(w, ToSet(w.nodes[id].body), step) :
                   id \in {x \in DOMAIN w.nodes : w.nodes[x].type = "loop"}}

Errors(w) ==
    LET ids == DOMAIN w.nodes
        bad(n) ==
            \/ /\ OutgoingTargets(n) \ ids # {}
               /\ ~(n.type = "schedule" /\ n.workflow # "")
            \/ n.next = n.id
            \/ n.on_error = n.id
            \/ /\ n.type = "loop_control"
               /\ \/ n.loop # "" /\ n.loop \notin ids
                  \/ n.loop = "" /\ n.id \notin LoopBodyNodes(w)
            \/ n.type = "parallel" /\ \E i \in DOMAIN n.branches : n.id \in ToSet(n.branches[i])
            \/ n.type = "subflow" /\ n.workflow = w.name
    IN  {id \in ids : bad(w.nodes[id])}

(* A node on a cycle of the graph: reported, not rejected. *)
Cyclic(w) == {id \in DOMAIN w.nodes : id \in Closure(w, OutgoingTargets(w.nodes[id]), OutgoingTargets)}

Warnings(w) ==
    LET reachable == ReachableFrom(w, w.entry)
        of(P(_)) == {id \in DOMAIN w.nodes : P(w.nodes[id])}
    IN  [unreachable |-> of(LAMBDA n : n.enabled /\ n.type # "schedule" /\ n.id \notin reachable),
         cyclic |-> Cyclic(w),
         endless |-> of(LAMBDA n : n.type = "loop" /\ n.while /\ n.max >= 1000),
         ignoredNext |-> of(LAMBDA n : n.type = "terminate" /\ n.next # ""),
         noTerminal |-> of(LAMBDA n : n.type = "terminate") = {}]

Accepts(w) == w.bad = {} /\ Errors(w) = {}
================================================================================
