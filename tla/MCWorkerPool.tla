---------------------------- MODULE MCWorkerPool ----------------------------
(* Instances of WorkerPool small enough for TLC. *)
EXTENDS WorkerPool

\* Two calls of runAll from outside; a function of the first one makes a third
\* call (a parallel node inside a branch of a parallel node).
Mixed == [j1 |-> "b1", j2 |-> "b1", j3 |-> "b2", j4 |-> "b3"]
MixedNesting == [j1 |-> {"b3"}, j2 |-> {}, j3 |-> {}, j4 |-> {}]

\* A parallel node whose one branch contains a parallel node.
Inner == [j1 |-> "b1", j2 |-> "b2"]
InnerNesting == [j1 |-> {"b2"}, j2 |-> {}]
============================================================================
