--------------------------- MODULE InterpreterProofs ---------------------------
(***************************************************************************)
(* What the frame machine of Interpreter keeps, for every workflow that is *)
(* well formed: control never leaves its nodes, the frames mirror the      *)
(* nesting, loops keep their item, answers reach the prompt that asked,    *)
(* and a join takes what the branches wrote.  The predicates of the        *)
(* invariant are about parts of one run (its frames, its locals), so an    *)
(* operator that leaves a part alone keeps what is said of it.             *)
(***************************************************************************)
EXTENDS Interpreter, FiniteSetTheorems, SequenceTheorems, WellFoundedInduction, TLAPS

(***************************************************************************)
(* The inductive invariant                                                 *)
(***************************************************************************)
Fields == {"cursor", "current", "at", "pc", "frames", "status", "finished", "visits", "budget",
           "visited", "pending", "error", "locals", "ctx", "changed", "attempt", "resumeNode",
           "reason", "waiting"}
\* STRING alone: that a literal is a string is not known to the provers.
Texts == STRING \cup {Empty, "ROUTING_ERROR", "CAPABILITY_ERROR", "VALIDATION_ERROR", "TIMEOUT"}
FrameRecords(w) ==
    [kind : {"loop", "try", "body", "branch"}, owner : DOMAIN w.nodes,
     ids : Seq(DOMAIN w.nodes) \ {<<>>}, index : Nat, total : Nat,
     phase : {"body", "catch", "finally"}, propagate : Texts]

(* A frame steps through a list of the construct that opened it. *)
Opened(w, f) ==
    /\ f.ids \in Lists(w.nodes[f.owner])
    /\ w.nodes[f.owner].type =
           CASE f.kind = "loop" -> "loop" [] f.kind = "try" -> "try"
             [] f.kind = "body" -> "condition" [] f.kind = "branch" -> "parallel"

Nested(w, fs) ==
    StaysInBody(w) => \A d \in DOMAIN fs : d > 1 => fs[d].owner \in Members(fs[d - 1].ids)
Shape(w, fs) ==
    /\ fs \in Seq(FrameRecords(w))
    /\ \A d \in DOMAIN fs : Opened(w, fs[d])
    /\ Nested(w, fs)

HoldsItem(w, f, locals) ==
    LET n == w.nodes[f.owner]
    IN  f.kind = "loop" /\ ~n.while =>
            n.iterator \in DOMAIN locals /\ locals[n.iterator] = <<f.owner, f.index>>
(* The loops among the first k frames hold their items. *)
Bound(w, fs, k, locals) ==
    StaysInBody(w) /\ LoopsApart(w) => \A d \in 1..k : HoldsItem(w, fs[d], locals)

Quiet(w, locals) ==
    RefusalsLeaveTrace(w) => "input" \notin DOMAIN locals \/ "error" \in DOMAIN locals

(* id is a node that the innermost frame steps through. *)
Here(w, fs, id) ==
    /\ id \in DOMAIN w.nodes
    /\ StaysInBody(w) /\ fs # <<>> => id \in Members(fs[Len(fs)].ids)
Asks(w, id) ==
    LET n == w.nodes[id] IN n.type = "action" /\ n.prompt /\ ~n.on_event /\ n.enabled

Typed(s) ==
    /\ DOMAIN s = Fields
    /\ s.status \in Statuses /\ s.finished \in BOOLEAN
    /\ s.pc \in {"drive", "node", "advance", "join"}
    /\ s.visits \in Nat /\ s.attempt \in Nat \ {0} /\ s.pending \in Texts
    /\ s.changed \subseteq DOMAIN s.ctx

Waits(s) == s.status \in {"awaiting_input", "suspended"}
Placed(w, s) ==
    /\ ~s.finished =>
         /\ s.status = "running"
         /\ s.cursor \in DOMAIN w.nodes \cup {Empty}
         /\ s.pc = "drive" /\ s.cursor # Empty => Here(w, s.frames, s.cursor)
         /\ s.pc \in {"node", "join"} => Here(w, s.frames, s.current)
         /\ s.pc = "node" => w.nodes[s.current].enabled
         /\ s.pc = "join" => w.nodes[s.current].type = "parallel"
    /\ Waits(s) =>
         /\ s.reason \in {"input", "timer", "event"}
         /\ s.cursor # Empty => Here(w, s.frames, s.cursor)
         /\ Here(w, s.frames, s.waiting)
         /\ s.reason = "input" => Asks(w, s.waiting)

(* The answer given to a prompt, until the prompt uses it. *)
Answered(w, s) ==
    \/ s.finished \/ Quiet(w, s.locals)
    \/ /\ s.pc = "drive" /\ s.pending = Empty /\ s.cursor = s.resumeNode /\ s.cursor # Empty
       /\ Asks(w, s.cursor) /\ s.locals["input"] = <<s.cursor, s.visits>>
    \/ /\ s.pc = "node" /\ s.current = s.resumeNode
       /\ Asks(w, s.current) /\ s.locals["input"] = <<s.current, s.visits - 1>>

Sound(w, s) ==
    /\ Typed(s) /\ Shape(w, s.frames) /\ Bound(w, s.frames, Len(s.frames), s.locals)
    /\ Placed(w, s) /\ Answered(w, s)

(* A run in the hands of the operators that choose where control goes on. *)
Moving(w, s) ==
    /\ Typed(s) /\ ~s.finished /\ s.status = "running"
    /\ s.cursor \in DOMAIN w.nodes \cup {Empty}
    /\ Shape(w, s.frames)
Ready(w, s) ==
    /\ Moving(w, s)
    /\ Bound(w, s.frames, Len(s.frames), s.locals)
    /\ Quiet(w, s.locals)

IInv ==
    /\ wf \in Workflows /\ WellFormed(wf) /\ answers \in 0..MaxAnswers
    /\ <<>> \in DOMAIN runs
    /\ \A p \in DOMAIN runs :
         /\ p \in Seq(Nat)
         /\ Sound(wf, runs[p])
         /\ ~runs[p].finished /\ runs[p].pc = "join" =>
                \A i \in DOMAIN wf.nodes[runs[p].current].branches : Append(p, i) \in DOMAIN runs
--------------------------------------------------------------------------------
(***************************************************************************)
(* Induction on the naturals, for a set                                    *)
(***************************************************************************)
LEMMA SetInduction ==
    ASSUME NEW S, 0 \in S, \A n \in Nat : n \in S => n + 1 \in S
    PROVE  Nat \subseteq S
<1> DEFINE T == {n \in Nat : n \notin S}
           R == {p \in Nat \X Nat : p[1] < p[2]}
<1>1. SUFFICES ASSUME T # {} PROVE FALSE
  OBVIOUS
<1>2. IsWellFoundedOn(R, Nat)
  BY NatLessThanWellFounded DEF OpToRel
<1>3. PICK x \in T : \A y \in T : ~(<<y, x>> \in R)
  <2>1. T \subseteq Nat
    OBVIOUS
  <2> HIDE DEF T, R
  <2> QED
    BY <1>1, <1>2, <2>1, WFMin
<1>4. x # 0 /\ x - 1 \in Nat
  BY <1>3
<1>5. x - 1 \notin T
  <2>1. x - 1 < x /\ x \in Nat
    BY <1>4
  <2>2. <<x - 1, x>> \in R
    BY <1>4, <2>1
  <2> HIDE DEF T, R
  <2> QED
    BY <1>3, <2>2
<1>6. x - 1 \in S => (x - 1) + 1 \in S
  BY <1>4
<1> QED
  BY <1>3, <1>4, <1>5, <1>6

\* The ends of a set of positions in a sequence.
LEMMA LargestPosition ==
    ASSUME NEW n \in Nat, NEW D \in SUBSET (1..n), D # {}
    PROVE  \E d \in D : \A e \in D : e <= d
<1> DEFINE S == {k \in Nat : \A E \in SUBSET (1..k) :
                                E # {} => \E d \in E : \A e \in E : e <= d}
<1>1. 0 \in S
  <2>1. 1..0 = {}
    OBVIOUS
  <2>2. \A E \in SUBSET (1..0) : E = {}
    BY <2>1, Zenon
  <2> QED
    BY <2>2
<1>2. ASSUME NEW k \in Nat, k \in S
      PROVE  k + 1 \in S
  <2>1. SUFFICES ASSUME NEW E \in SUBSET (1..(k + 1)), E # {}
                 PROVE  \E d \in E : \A e \in E : e <= d
    OBVIOUS
  <2>2. CASE k + 1 \in E
    <3>1. \A e \in E : e <= k + 1
      BY <2>1
    <3> QED
      BY <2>2, <3>1
  <2>3. CASE k + 1 \notin E
    <3>1. E \in SUBSET (1..k)
      BY <2>1, <2>3
    <3> QED
      BY <1>2, <2>1, <3>1
  <2> QED
    BY <2>2, <2>3
<1>3. Nat \subseteq S
  <2> HIDE DEF S
  <2> QED
    BY <1>1, <1>2, SetInduction
<1> QED
  BY <1>3

LEMMA FirstPosition ==
    ASSUME NEW n \in Nat, NEW D \in SUBSET (1..n), D # {}
    PROVE  \E d \in D : \A e \in 1..(d - 1) : e \notin D
<1> DEFINE E == {n + 1 - d : d \in D}
<1>1. E \in SUBSET (1..n) /\ E # {}
  <2>1. \A d \in D : d \in 1..n
    OBVIOUS
  <2>2. \A d \in D : n + 1 - d \in 1..n
    BY <2>1
  <2> QED
    BY <2>2
<1>2. PICK m \in E : \A e \in E : e <= m
  <2> HIDE DEF E
  <2> QED
    BY <1>1, LargestPosition
<1>3. PICK d \in D : m = n + 1 - d
  OBVIOUS
<1>4. ASSUME NEW e \in 1..(d - 1), e \in D
      PROVE  FALSE
  <2>1. n + 1 - e \in E
    BY <1>4
  <2>2. n + 1 - e > n + 1 - d
    BY <1>4
  <2> QED
    BY <1>2, <1>3, <2>1, <2>2
<1> QED
  BY <1>4

--------------------------------------------------------------------------------
(***************************************************************************)
(* Positions: indexOfId and the deepest frame                              *)
(***************************************************************************)
LEMMA IndexOfIdFacts ==
    ASSUME NEW S, NEW ids \in Seq(S), NEW id
    PROVE  /\ IndexOfId(ids, id) \in 0..Len(ids)
           /\ IndexOfId(ids, id) # 0 <=> id \in Members(ids)
           /\ IndexOfId(ids, id) # 0 => ids[IndexOfId(ids, id)] = id
<1> DEFINE D == {i \in 1..Len(ids) : ids[i] = id}
<1>1. CASE D = {}
  BY <1>1 DEF IndexOfId, Members
<1>2. CASE D # {}
  <2>1. \E d \in D : \A e \in 1..(d - 1) : e \notin D
    <3>1. D \in SUBSET (1..Len(ids)) /\ Len(ids) \in Nat
      OBVIOUS
    <3> HIDE DEF D
    <3> QED
      BY <1>2, <3>1, FirstPosition
  <2>2. \E i \in DOMAIN ids : ids[i] = id /\ \A j \in 1..(i - 1) : ids[j] # id
    BY <2>1
  <2>3. /\ IndexOfId(ids, id) \in DOMAIN ids
        /\ ids[IndexOfId(ids, id)] = id
    BY <2>2 DEF IndexOfId
  <2> QED
    BY <2>3 DEF Members
<1> QED
  BY <1>1, <1>2

DeepestOf(D) == IF D = {} THEN 0 ELSE CHOOSE d \in D : \A e \in D : e <= d

LEMMA DeepestOfFacts ==
    ASSUME NEW n \in Nat, NEW D \in SUBSET (1..n)
    PROVE  /\ DeepestOf(D) \in 0..n
           /\ DeepestOf(D) = 0 <=> D = {}
           /\ D # {} => DeepestOf(D) \in D /\ \A e \in D : e <= DeepestOf(D)
<1>1. CASE D = {}
  BY <1>1 DEF DeepestOf
<1>2. CASE D # {}
  <2>1. \E d \in D : \A e \in D : e <= d
    BY <1>2, LargestPosition
  <2>2. DeepestOf(D) \in D /\ \A e \in D : e <= DeepestOf(D)
    BY <1>2, <2>1 DEF DeepestOf
  <2>3. DeepestOf(D) \in 1..n
    BY <2>2
  <2> QED
    BY <1>2, <2>2, <2>3
<1> QED
  BY <1>1, <1>2

LoopsIn(s, loop) ==
    {d \in DOMAIN s.frames : s.frames[d].kind = "loop" /\ (loop = Empty \/ s.frames[d].owner = loop)}

LEMMA LoopDepthFacts ==
    ASSUME NEW s, NEW S, s.frames \in Seq(S), NEW loop
    PROVE  /\ LoopDepth(s, loop) \in 0..Len(s.frames)
           /\ LoopDepth(s, loop) # 0 => s.frames[LoopDepth(s, loop)].kind = "loop"
           /\ \A d \in DOMAIN s.frames :
                 loop = Empty /\ s.frames[d].kind = "loop" => d <= LoopDepth(s, loop)
<1>1. LoopDepth(s, loop) = DeepestOf(LoopsIn(s, loop))
  BY DEF LoopDepth, Deepest, DeepestOf, LoopsIn
<1>2. DOMAIN s.frames = 1..Len(s.frames) /\ Len(s.frames) \in Nat
  OBVIOUS
<1>3. LoopsIn(s, loop) \in SUBSET (1..Len(s.frames))
  BY <1>2 DEF LoopsIn
<1>4. /\ DeepestOf(LoopsIn(s, loop)) \in 0..Len(s.frames)
      /\ DeepestOf(LoopsIn(s, loop)) = 0 <=> LoopsIn(s, loop) = {}
      /\ LoopsIn(s, loop) # {} =>
            /\ DeepestOf(LoopsIn(s, loop)) \in LoopsIn(s, loop)
            /\ \A e \in LoopsIn(s, loop) : e <= DeepestOf(LoopsIn(s, loop))
  BY <1>2, <1>3, DeepestOfFacts
<1> QED
  BY <1>1, <1>2, <1>4 DEF LoopsIn

LEMMA FrameFacts ==
    ASSUME NEW w, NEW fs \in Seq(FrameRecords(w))
    PROVE  /\ DOMAIN fs = 1..Len(fs) /\ Len(fs) \in Nat
           /\ fs # <<>> => Len(fs) \in DOMAIN fs
           /\ \A d \in DOMAIN fs :
                 /\ fs[d] \in FrameRecords(w)
                 /\ fs[d].owner \in DOMAIN w.nodes
                 /\ fs[d].kind \in {"loop", "try", "body", "branch"}
                 /\ fs[d].phase \in {"body", "catch", "finally"}
                 /\ fs[d].propagate \in Texts
                 /\ fs[d].ids \in Seq(DOMAIN w.nodes) /\ fs[d].ids # <<>>
                 /\ Members(fs[d].ids) \subseteq DOMAIN w.nodes
                 /\ fs[d].ids[1] \in Members(fs[d].ids)
<1>1. ASSUME NEW f \in FrameRecords(w)
      PROVE  /\ f.owner \in DOMAIN w.nodes /\ f.kind \in {"loop", "try", "body", "branch"}
             /\ f.phase \in {"body", "catch", "finally"} /\ f.propagate \in Texts
             /\ f.ids \in Seq(DOMAIN w.nodes) /\ f.ids # <<>>
  BY DEF FrameRecords
<1>2. ASSUME NEW ids \in Seq(DOMAIN w.nodes), ids # <<>>
      PROVE  Members(ids) \subseteq DOMAIN w.nodes /\ ids[1] \in Members(ids)
  BY <1>2 DEF Members
<1>3. \A d \in DOMAIN fs : fs[d] \in FrameRecords(w)
  OBVIOUS
<1>4. DOMAIN fs = 1..Len(fs) /\ Len(fs) \in Nat /\ (fs # <<>> => Len(fs) \in DOMAIN fs)
  OBVIOUS
<1> QED
  BY <1>1, <1>2, <1>3, <1>4

Holding(s, target) == {d \in DOMAIN s.frames : IndexOfId(s.frames[d].ids, target) # 0}

LEMMA HoldingFacts ==
    ASSUME NEW s, NEW w, s.frames \in Seq(FrameRecords(w)), NEW target
    PROVE  LET d == DeepestOf(Holding(s, target))
           IN  /\ d \in 0..Len(s.frames)
               /\ d # 0 => target \in Members(s.frames[d].ids)
               /\ \A e \in DOMAIN s.frames : target \in Members(s.frames[e].ids) => e <= d
<1>1. DOMAIN s.frames = 1..Len(s.frames) /\ Len(s.frames) \in Nat
  OBVIOUS
<1>2. Holding(s, target) \in SUBSET (1..Len(s.frames))
  BY <1>1 DEF Holding
<1>3. \A d \in DOMAIN s.frames :
          IndexOfId(s.frames[d].ids, target) # 0 <=> target \in Members(s.frames[d].ids)
  <2>1. \A d \in DOMAIN s.frames : s.frames[d].ids \in Seq(DOMAIN w.nodes)
    BY FrameFacts
  <2> QED
    BY <2>1, IndexOfIdFacts
<1>4. /\ DeepestOf(Holding(s, target)) \in 0..Len(s.frames)
      /\ DeepestOf(Holding(s, target)) = 0 <=> Holding(s, target) = {}
      /\ Holding(s, target) # {} =>
            /\ DeepestOf(Holding(s, target)) \in Holding(s, target)
            /\ \A e \in Holding(s, target) : e <= DeepestOf(Holding(s, target))
  BY <1>1, <1>2, DeepestOfFacts
<1>5. \A d \in Holding(s, target) : d \in DOMAIN s.frames /\ target \in Members(s.frames[d].ids)
  BY <1>3 DEF Holding
<1>6. \A e \in DOMAIN s.frames : target \in Members(s.frames[e].ids) => e \in Holding(s, target)
  BY <1>3 DEF Holding
<1> QED
  BY <1>4, <1>5, <1>6

--------------------------------------------------------------------------------
(***************************************************************************)
(* Frames and the names that loops bind                                    *)
(***************************************************************************)
\* No loop is open twice: what is above its frame comes from its body.
LEMMA NestApart ==
    ASSUME NEW w, StaysInBody(w), LoopsApart(w), NEW fs, Shape(w, fs),
           NEW i \in DOMAIN fs, NEW j \in DOMAIN fs, i < j, fs[i].kind = "loop"
    PROVE  fs[j].owner # fs[i].owner
<1> DEFINE l == fs[i].owner
<1>1. /\ fs \in Seq(FrameRecords(w)) /\ DOMAIN fs = 1..Len(fs) /\ Len(fs) \in Nat
      /\ i \in Nat /\ j \in Nat /\ i # 0
  BY DEF Shape
<1>2. \A d \in DOMAIN fs : fs[d].owner \in DOMAIN w.nodes
  BY <1>1, FrameFacts
<1>3. l \in DOMAIN w.nodes /\ w.nodes[l].type = "loop"
  BY <1>2 DEF Shape, Opened
<1>4. PICK S \in SUBSET DOMAIN w.nodes :
         l \notin S /\ \A x \in S \cup {l} : Children(w.nodes[x]) \subseteq S
  BY <1>3 DEF LoopsApart
<1>5. \A d \in DOMAIN fs : Members(fs[d].ids) \subseteq Children(w.nodes[fs[d].owner])
  BY DEF Shape, Opened, Children
<1>6. \A d, e \in DOMAIN fs : d = e + 1 /\ fs[e].owner \in S \cup {l} => fs[d].owner \in S
  <2>1. SUFFICES ASSUME NEW d \in DOMAIN fs, NEW e \in DOMAIN fs, d = e + 1,
                        fs[e].owner \in S \cup {l}
                 PROVE  fs[d].owner \in S
    OBVIOUS
  <2>2. d > 1 /\ d - 1 = e
    BY <1>1, <2>1
  <2>3. fs[d].owner \in Members(fs[e].ids)
    BY <2>1, <2>2 DEF Shape, Nested
  <2> QED
    BY <1>4, <1>5, <2>1, <2>3
<1> DEFINE T == {k \in Nat : i + 1 + k \in DOMAIN fs => fs[i + 1 + k].owner \in S}
<1>7. 0 \in T
  <2>1. i + 1 \in DOMAIN fs => fs[i + 1].owner \in S
    BY <1>6
  <2>2. i + 1 + 0 = i + 1
    BY <1>1
  <2> QED
    BY <2>1, <2>2
<1>8. ASSUME NEW k \in Nat, k \in T
      PROVE  k + 1 \in T
  <2>1. SUFFICES ASSUME i + 1 + (k + 1) \in DOMAIN fs
                 PROVE  fs[i + 1 + (k + 1)].owner \in S
    BY <1>8
  <2>2. i + 1 + k \in DOMAIN fs /\ i + 1 + (k + 1) = i + 1 + k + 1
    BY <1>1, <2>1
  <2>3. fs[i + 1 + k].owner \in S
    BY <1>8, <2>2
  <2> HIDE DEF T
  <2> QED
    BY <1>6, <2>1, <2>2, <2>3
<1>9. Nat \subseteq T
  <2> HIDE DEF T
  <2> QED
    BY <1>7, <1>8, SetInduction
<1>10. j - i - 1 \in Nat /\ i + 1 + (j - i - 1) = j
  BY <1>1
<1> QED
  BY <1>4, <1>9, <1>10

\* Binding or erasing what one loop binds leaves the items of the others.
LEMMA NamesApart ==
    ASSUME NEW w, StaysInBody(w), LoopsApart(w), NEW fs, Shape(w, fs),
           NEW i \in DOMAIN fs, NEW j \in DOMAIN fs, i # j,
           fs[i].kind = "loop", ~w.nodes[fs[i].owner].while
    PROVE  LET it == w.nodes[fs[i].owner].iterator
               m == w.nodes[fs[j].owner]
           IN  /\ it \notin {"iteration", "input", "event", "timer", "error"}
               /\ fs[j].kind = "loop" => it \notin {m.iterator, m.index, "iteration"}
<1>1. DOMAIN fs = 1..Len(fs) /\ Len(fs) \in Nat
  BY DEF Shape
<1>2. fs[i].owner \in DOMAIN w.nodes /\ fs[j].owner \in DOMAIN w.nodes
  BY FrameFacts DEF Shape
<1>3. /\ w.nodes[fs[i].owner].type = "loop"
      /\ fs[j].kind = "loop" => w.nodes[fs[j].owner].type = "loop"
  BY DEF Shape, Opened
<1>4. fs[j].kind = "loop" => fs[j].owner # fs[i].owner
  <2>1. CASE i < j
    BY <2>1, NestApart
  <2>2. CASE j < i
    BY <2>2, NestApart
  <2> QED
    BY <1>1, <2>1, <2>2
<1> QED
  BY <1>2, <1>3, <1>4 DEF LoopsApart

--------------------------------------------------------------------------------
(***************************************************************************)
(* Where a run is left: the last step of every operator                    *)
(***************************************************************************)
LEMMA GotoSound ==
    ASSUME NEW w, NEW s, Ready(w, s), NEW target, target = Empty \/ Here(w, s.frames, target)
    PROVE  Sound(w, Goto(s, target)) /\ Goto(s, target).pc = "drive"
<1> DEFINE t == Goto(s, target)
<1>1. /\ DOMAIN t = Fields /\ t.pc = "drive" /\ t.cursor = target /\ t.frames = s.frames
      /\ t.locals = s.locals /\ t.finished = s.finished /\ t.status = s.status
      /\ t.visits = s.visits /\ t.attempt = s.attempt /\ t.pending = s.pending
      /\ t.changed = s.changed /\ t.ctx = s.ctx
  BY DEF Goto, Ready, Moving, Typed, Fields
<1> HIDE DEF t
<1>2. Typed(t)
  BY <1>1 DEF Ready, Moving, Typed
<1>3. Placed(w, t)
  BY <1>1 DEF Ready, Moving, Placed, Waits, Here
<1>4. Shape(w, t.frames) /\ Bound(w, t.frames, Len(t.frames), t.locals) /\ Answered(w, t)
  BY <1>1 DEF Ready, Moving, Answered
<1> QED
  BY <1>1, <1>2, <1>3, <1>4 DEF Sound, t

LEMMA AdvanceSound ==
    ASSUME NEW w, NEW s, Ready(w, s)
    PROVE  Sound(w, Advance(s))
<1> DEFINE t == Advance(s)
<1>1. /\ DOMAIN t = Fields /\ t.pc = "advance" /\ t.cursor = s.cursor /\ t.frames = s.frames
      /\ t.locals = s.locals /\ t.finished = s.finished /\ t.status = s.status
      /\ t.visits = s.visits /\ t.attempt = s.attempt /\ t.pending = s.pending
      /\ t.changed = s.changed /\ t.ctx = s.ctx
  BY DEF Advance, Ready, Moving, Typed, Fields
<1> HIDE DEF t
<1>2. Typed(t)
  BY <1>1 DEF Ready, Moving, Typed
<1>3. Placed(w, t)
  BY <1>1 DEF Ready, Moving, Placed, Waits
<1>4. Shape(w, t.frames) /\ Bound(w, t.frames, Len(t.frames), t.locals) /\ Answered(w, t)
  BY <1>1 DEF Ready, Moving, Answered
<1> QED
  BY <1>2, <1>3, <1>4 DEF Sound, t

\* A run that ends: nothing is asked of it any more.
LEMMA EndSound ==
    ASSUME NEW w, NEW s, NEW t, Moving(w, s), Bound(w, s.frames, Len(s.frames), s.locals),
           DOMAIN t = Fields, t.finished = TRUE, t.status \in Statuses, ~Waits(t),
           t.pc \in {"drive", "node", "advance", "join"}, t.frames = s.frames, t.locals = s.locals,
           t.visits = s.visits, t.attempt = s.attempt, t.pending = s.pending,
           t.changed = s.changed, t.ctx = s.ctx
    PROVE  Sound(w, t)
<1>1. Typed(t)
  BY DEF Moving, Typed
<1>2. Placed(w, t) /\ Answered(w, t)
  BY DEF Placed, Answered
<1> QED
  BY <1>1, <1>2 DEF Sound, Moving

LEMMA FailSound ==
    ASSUME NEW w, NEW s, Moving(w, s), Bound(w, s.frames, Len(s.frames), s.locals), NEW code
    PROVE  Sound(w, Fail(s, code)) /\ Fail(s, code).pc = "drive"
<1> DEFINE t == Fail(s, code)
<1>1. /\ DOMAIN t = Fields /\ t.pc = "drive" /\ t.frames = s.frames /\ t.locals = s.locals
      /\ t.finished = TRUE /\ t.status = "failed" /\ t.visits = s.visits /\ t.attempt = s.attempt
      /\ t.pending = s.pending /\ t.changed = s.changed /\ t.ctx = s.ctx
  BY DEF Fail, Moving, Typed, Fields
<1>2. ~Waits(t) /\ t.status \in Statuses
  BY <1>1 DEF Waits, Statuses
<1> HIDE DEF t
<1> QED
  BY <1>1, <1>2, EndSound DEF t

LEMMA ThrownSound ==
    ASSUME NEW w, NEW s, Ready(w, s)
    PROVE  Sound(w, Thrown(s)) /\ Thrown(s).pc = s.pc
<1> DEFINE t == Thrown(s)
<1>1. /\ DOMAIN t = Fields /\ t.pc = s.pc /\ t.frames = s.frames /\ t.locals = s.locals
      /\ t.finished = TRUE /\ t.status = "thrown" /\ t.visits = s.visits /\ t.attempt = s.attempt
      /\ t.pending = s.pending /\ t.changed = s.changed /\ t.ctx = s.ctx
  BY DEF Thrown, Ready, Moving, Typed, Fields
<1>2. ~Waits(t) /\ t.status \in Statuses /\ t.pc \in {"drive", "node", "advance", "join"}
  BY <1>1 DEF Waits, Statuses, Ready, Moving, Typed
<1> HIDE DEF t
<1>3. Sound(w, t)
  BY <1>1, <1>2, EndSound DEF Ready
<1> QED
  BY <1>1, <1>3 DEF t

LEMMA CompleteSound ==
    ASSUME NEW w, NEW s, Ready(w, s)
    PROVE  Sound(w, Complete(s)) /\ Complete(s).pc = "drive"
<1> DEFINE t == Complete(s)
<1>1. /\ DOMAIN t = Fields /\ t.pc = "drive" /\ t.frames = s.frames /\ t.locals = s.locals
      /\ t.finished = TRUE /\ t.status = "completed" /\ t.visits = s.visits
      /\ t.attempt = s.attempt /\ t.pending = s.pending /\ t.changed = s.changed /\ t.ctx = s.ctx
  BY DEF Complete, Ready, Moving, Typed, Fields
<1>2. ~Waits(t) /\ t.status \in Statuses
  BY <1>1 DEF Waits, Statuses
<1> HIDE DEF t
<1>3. Sound(w, t)
  BY <1>1, <1>2, EndSound DEF Ready
<1> QED
  BY <1>1, <1>3 DEF t

--------------------------------------------------------------------------------
(***************************************************************************)
(* Frames dropped, bound and replaced                                      *)
(***************************************************************************)
LEMMA MovingFrames ==
    ASSUME NEW w, NEW s, Moving(w, s) \/ Ready(w, s)
    PROVE  /\ Shape(w, s.frames) /\ s.frames \in Seq(FrameRecords(w))
           /\ Len(s.frames) \in Nat /\ DOMAIN s.frames = 1..Len(s.frames)
           /\ s.frames = <<>> <=> Len(s.frames) = 0
           /\ s.frames # <<>> => Len(s.frames) \in DOMAIN s.frames
           /\ Top(s) = s.frames[Len(s.frames)]
<1>1. Shape(w, s.frames) /\ s.frames \in Seq(FrameRecords(w))
  BY DEF Moving, Ready, Shape
<1>2. Top(s) = s.frames[Len(s.frames)]
  BY DEF Top
<1>3. ASSUME NEW S, NEW fs \in Seq(S)
      PROVE  /\ Len(fs) \in Nat /\ DOMAIN fs = 1..Len(fs) /\ (fs = <<>> <=> Len(fs) = 0)
             /\ fs # <<>> => Len(fs) \in DOMAIN fs
  OBVIOUS
<1> QED
  BY <1>1, <1>2, <1>3

\* The frames up to some depth, as Resize leaves them.
LEMMA ShapePrefix ==
    ASSUME NEW w, NEW fs, Shape(w, fs), NEW k \in 0..Len(fs), NEW locals,
           Bound(w, fs, k, locals)
    PROVE  LET gs == SubSeq(fs, 1, k)
           IN  /\ Shape(w, gs) /\ Len(gs) = k /\ Bound(w, gs, k, locals)
               /\ \A d \in 1..k : gs[d] = fs[d]
<1> DEFINE gs == SubSeq(fs, 1, k)
<1>1. fs \in Seq(FrameRecords(w)) /\ DOMAIN fs = 1..Len(fs) /\ Len(fs) \in Nat
  BY DEF Shape
<1>2. /\ gs \in Seq(FrameRecords(w)) /\ Len(gs) = k /\ DOMAIN gs = 1..k
      /\ \A d \in 1..k : gs[d] = fs[d] /\ d \in DOMAIN fs
  BY <1>1
<1> HIDE DEF gs
<1>3. \A d \in DOMAIN gs : Opened(w, gs[d])
  BY <1>2 DEF Shape
<1>4. Nested(w, gs)
  <2>1. SUFFICES ASSUME StaysInBody(w), NEW d \in 1..k, d > 1
                 PROVE  gs[d].owner \in Members(gs[d - 1].ids)
    BY <1>2 DEF Nested
  <2>2. d - 1 \in 1..k
    BY <2>1
  <2>3. fs[d].owner \in Members(fs[d - 1].ids)
    BY <1>2, <2>1 DEF Shape, Nested
  <2> QED
    BY <1>2, <2>2, <2>3
<1>5. Bound(w, gs, k, locals)
  BY <1>2 DEF Bound
<1> QED
  BY <1>2, <1>3, <1>4, <1>5 DEF Shape, gs

LEMMA ResizeReady ==
    ASSUME NEW w, NEW s, Ready(w, s), NEW k \in 0..Len(s.frames)
    PROVE  LET r == Resize(s, k)
           IN  /\ Ready(w, r) /\ Len(r.frames) = k
               /\ \A d \in 1..k : r.frames[d] = s.frames[d]
               /\ r.pc = s.pc /\ r.locals = s.locals /\ r.ctx = s.ctx /\ r.current = s.current
<1> DEFINE r == Resize(s, k)
<1>1. /\ DOMAIN r = Fields /\ r.pc = s.pc /\ r.frames = SubSeq(s.frames, 1, k)
      /\ r.cursor = s.cursor /\ r.locals = s.locals /\ r.current = s.current
      /\ r.finished = s.finished /\ r.status = s.status /\ r.visits = s.visits
      /\ r.attempt = s.attempt /\ r.pending = s.pending /\ r.changed = s.changed /\ r.ctx = s.ctx
  BY DEF Resize, Ready, Moving, Typed, Fields
<1>2. Bound(w, s.frames, k, s.locals)
  <2>1. \A d \in 1..k : d \in 1..Len(s.frames)
    OBVIOUS
  <2> QED
    BY <2>1 DEF Ready, Bound
<1>3. /\ Shape(w, r.frames) /\ Len(r.frames) = k /\ Bound(w, r.frames, k, s.locals)
      /\ \A d \in 1..k : r.frames[d] = s.frames[d]
  <2>1. Shape(w, s.frames)
    BY DEF Ready, Moving
  <2>2. r.frames = SubSeq(s.frames, 1, k)
    BY <1>1
  <2> HIDE DEF r
  <2> QED
    BY <1>2, <2>1, <2>2, ShapePrefix
<1> HIDE DEF r
<1>4. Typed(r)
  BY <1>1 DEF Ready, Moving, Typed
<1> QED
  BY <1>1, <1>3, <1>4 DEF Ready, Moving, r

\* What comes back from binding the innermost loop, whether or not it held
\* its item before.
\* A loop frame that binds its item leaves those of the loops around it.
LEMMA BindingBound ==
    ASSUME NEW fs, Shape(wf, fs), NEW k \in 1..Len(fs), fs[k].kind = "loop",
           NEW locals, Bound(wf, fs, k - 1, locals)
    PROVE  LET N == IterationNames(fs[k])
               new == Bind(locals, N, <<fs[k].owner, fs[k].index>>)
           IN  /\ Bound(wf, fs, k, new)
               /\ DOMAIN new = DOMAIN locals \cup N
               /\ RefusalsLeaveTrace(wf) => "input" \notin N
<1> DEFINE f == fs[k]
           N == IterationNames(f)
           new == Bind(locals, N, <<f.owner, f.index>>)
<1>1. /\ fs \in Seq(FrameRecords(wf)) /\ DOMAIN fs = 1..Len(fs) /\ Len(fs) \in Nat
      /\ k \in DOMAIN fs
  BY FrameFacts DEF Shape
<1>2. f.owner \in DOMAIN wf.nodes /\ wf.nodes[f.owner].type = "loop"
  BY <1>1, FrameFacts DEF Shape, Opened
<1>3. /\ DOMAIN new = DOMAIN locals \cup N
      /\ \A x \in N : new[x] = <<f.owner, f.index>>
      /\ \A x \in DOMAIN locals \ N : new[x] = locals[x]
  BY DEF Bind
<1>4. N = {wf.nodes[f.owner].index, "iteration"}
             \cup (IF wf.nodes[f.owner].while THEN {} ELSE {wf.nodes[f.owner].iterator})
  BY DEF IterationNames, Node
<1> HIDE DEF new, N
<1>5. ASSUME StaysInBody(wf), LoopsApart(wf), NEW d \in 1..k,
             fs[d].kind = "loop", ~wf.nodes[fs[d].owner].while
      PROVE  LET it == wf.nodes[fs[d].owner].iterator
             IN  it \in DOMAIN new /\ new[it] = <<fs[d].owner, fs[d].index>>
  <2>1. CASE d = k
    BY <1>3, <1>4, <1>5, <2>1
  <2>2. CASE d # k
    <3>1. HoldsItem(wf, fs[d], locals) /\ d \in DOMAIN fs
      BY <1>1, <1>5, <2>2 DEF Bound
    <3>2. wf.nodes[fs[d].owner].iterator \notin
              {"iteration", wf.nodes[f.owner].iterator, wf.nodes[f.owner].index}
      BY <1>1, <1>5, <2>2, <3>1, NamesApart
    <3>3. wf.nodes[fs[d].owner].iterator \notin N
      BY <1>4, <3>2
    <3> QED
      BY <1>3, <1>5, <3>1, <3>3 DEF HoldsItem
  <2> QED
    BY <2>1, <2>2
<1>6. Bound(wf, fs, k, new)
  BY <1>5 DEF Bound, HoldsItem
<1>7. RefusalsLeaveTrace(wf) => "input" \notin N
  BY <1>2, <1>4 DEF RefusalsLeaveTrace
<1> QED
  BY <1>3, <1>6, <1>7 DEF new, N

LEMMA BindingReady ==
    ASSUME NEW s, Moving(wf, s), s.frames # <<>>, Top(s).kind = "loop", Quiet(wf, s.locals),
           Bound(wf, s.frames, Len(s.frames) - 1, s.locals)
    PROVE  LET r == BindIteration(s, Top(s))
           IN  /\ Ready(wf, r) /\ r.frames = s.frames
               /\ r.pc = s.pc /\ r.ctx = s.ctx /\ r.current = s.current
<1> DEFINE r == BindIteration(s, Top(s))
           f == Top(s)
           N == IterationNames(f)
<1>1. /\ DOMAIN r = Fields /\ r.pc = s.pc /\ r.frames = s.frames /\ r.cursor = s.cursor
      /\ r.locals = Bind(s.locals, N, <<f.owner, f.index>>) /\ r.current = s.current
      /\ r.finished = s.finished /\ r.status = s.status /\ r.visits = s.visits
      /\ r.attempt = s.attempt /\ r.pending = s.pending /\ r.changed = s.changed /\ r.ctx = s.ctx
  BY DEF BindIteration, Moving, Typed, Fields
<1>2. /\ Shape(wf, s.frames) /\ s.frames \in Seq(FrameRecords(wf))
      /\ Len(s.frames) \in DOMAIN s.frames /\ DOMAIN s.frames = 1..Len(s.frames)
      /\ Len(s.frames) \in Nat /\ f = s.frames[Len(s.frames)] /\ f.kind = "loop"
  BY FrameFacts DEF Moving, Shape, Top
<1>3. /\ DOMAIN r.locals = DOMAIN s.locals \cup N
      /\ \A x \in N : r.locals[x] = <<f.owner, f.index>>
      /\ \A x \in DOMAIN s.locals \ N : r.locals[x] = s.locals[x]
  BY <1>1 DEF Bind
<1> HIDE DEF r, f, N
<1>4. Bound(wf, r.frames, Len(r.frames), r.locals) /\ Quiet(wf, r.locals)
  <2>1. PICK k \in 1..Len(s.frames) : k = Len(s.frames)
    BY <1>2
  <2>2. s.frames[k].kind = "loop" /\ Bound(wf, s.frames, k - 1, s.locals) /\ s.frames[k] = f
    BY <1>2, <2>1
  <2> DEFINE M == IterationNames(s.frames[k])
             new == Bind(s.locals, M, <<s.frames[k].owner, s.frames[k].index>>)
  <2>3. Bound(wf, s.frames, k, new) /\ (RefusalsLeaveTrace(wf) => "input" \notin M)
    BY <1>2, <2>2, BindingBound
  <2>4. new = r.locals /\ M = N
    BY <1>1, <2>2 DEF N
  <2> HIDE DEF new, M
  <2> QED
    BY <1>1, <1>2, <1>3, <2>1, <2>3, <2>4 DEF Quiet
<1>5. Typed(r)
  BY <1>1 DEF Moving, Typed
<1> QED
  BY <1>1, <1>4, <1>5 DEF Ready, Moving, r, f

\* An innermost frame replaced by one of the same construct, or a frame of
\* a node of the innermost body pushed onto it.
LEMMA ReplacedShape ==
    ASSUME NEW w, NEW fs, Shape(w, fs), fs # <<>>, NEW f \in FrameRecords(w), Opened(w, f),
           f.owner = fs[Len(fs)].owner
    PROVE  LET gs == Append(SubSeq(fs, 1, Len(fs) - 1), f)
           IN  /\ Shape(w, gs) /\ Len(gs) = Len(fs) /\ gs[Len(gs)] = f
               /\ \A d \in 1..(Len(fs) - 1) : gs[d] = fs[d]
<1> DEFINE gs == Append(SubSeq(fs, 1, Len(fs) - 1), f)
<1>1. fs \in Seq(FrameRecords(w)) /\ DOMAIN fs = 1..Len(fs) /\ Len(fs) \in Nat /\ Len(fs) > 0
  BY DEF Shape
<1>2. /\ gs \in Seq(FrameRecords(w)) /\ Len(gs) = Len(fs) /\ DOMAIN gs = DOMAIN fs
      /\ gs[Len(fs)] = f /\ \A d \in 1..(Len(fs) - 1) : gs[d] = fs[d]
  <2> DEFINE hs == SubSeq(fs, 1, Len(fs) - 1)
  <2>1. /\ hs \in Seq(FrameRecords(w)) /\ Len(hs) = Len(fs) - 1
        /\ \A d \in 1..(Len(fs) - 1) : hs[d] = fs[d]
    BY <1>1
  <2> HIDE DEF hs
  <2>2. /\ Append(hs, f) \in Seq(FrameRecords(w)) /\ Len(Append(hs, f)) = Len(hs) + 1
        /\ \A d \in 1..Len(hs) : Append(hs, f)[d] = hs[d]
        /\ Append(hs, f)[Len(hs) + 1] = f
    BY <2>1, AppendProperties
  <2>3. Len(hs) + 1 = Len(fs)
    <3>1. Len(fs) \in Nat /\ Len(hs) = Len(fs) - 1
      BY <1>1, <2>1
    <3> QED
      BY <3>1
  <2>4. DOMAIN Append(hs, f) = 1..Len(Append(hs, f))
    BY <2>2, FrameFacts
  <2> QED
    BY <1>1, <2>1, <2>2, <2>3, <2>4 DEF hs
<1> HIDE DEF gs
<1>3. \A d \in DOMAIN gs : Opened(w, gs[d])
  BY <1>1, <1>2 DEF Shape
<1>4. Nested(w, gs)
  <2>1. SUFFICES ASSUME StaysInBody(w), NEW d \in 1..Len(fs), d > 1
                 PROVE  gs[d].owner \in Members(gs[d - 1].ids)
    BY <1>1, <1>2 DEF Nested
  <2>2. gs[d - 1] = fs[d - 1] /\ gs[d].owner = fs[d].owner
    <3>1. d - 1 \in 1..(Len(fs) - 1)
      BY <1>1, <2>1
    <3>2. d \in 1..(Len(fs) - 1) \/ d = Len(fs)
      <4>1. d \in Nat /\ Len(fs) \in Nat /\ d <= Len(fs) /\ d >= 1
        BY <1>1, <2>1
      <4> QED
        BY <4>1
    <3> QED
      BY <1>2, <3>1, <3>2
  <2>3. fs[d].owner \in Members(fs[d - 1].ids)
    BY <1>1, <2>1 DEF Shape, Nested
  <2> QED
    BY <2>2, <2>3
<1> QED
  BY <1>2, <1>3, <1>4 DEF Shape, gs

LEMMA PushedShape ==
    ASSUME NEW w, NEW fs, Shape(w, fs), NEW f \in FrameRecords(w), Opened(w, f),
           Here(w, fs, f.owner)
    PROVE  LET gs == Append(fs, f)
           IN  /\ Shape(w, gs) /\ Len(gs) = Len(fs) + 1 /\ gs[Len(gs)] = f
               /\ \A d \in 1..Len(fs) : gs[d] = fs[d]
<1> DEFINE gs == Append(fs, f)
<1>1. fs \in Seq(FrameRecords(w)) /\ DOMAIN fs = 1..Len(fs) /\ Len(fs) \in Nat
  BY DEF Shape
<1>2. /\ gs \in Seq(FrameRecords(w)) /\ Len(gs) = Len(fs) + 1 /\ DOMAIN gs = 1..(Len(fs) + 1)
      /\ gs[Len(fs) + 1] = f /\ \A d \in 1..Len(fs) : gs[d] = fs[d]
  BY <1>1
<1> HIDE DEF gs
<1>3. \A d \in DOMAIN gs : Opened(w, gs[d])
  <2>1. \A d \in DOMAIN gs : d \in 1..Len(fs) \/ d = Len(fs) + 1
    BY <1>1, <1>2
  <2> QED
    BY <1>1, <1>2, <2>1 DEF Shape
<1>4. Nested(w, gs)
  <2>1. SUFFICES ASSUME StaysInBody(w), NEW d \in 1..(Len(fs) + 1), d > 1
                 PROVE  gs[d].owner \in Members(gs[d - 1].ids)
    BY <1>2 DEF Nested
  <2>2. d - 1 \in 1..Len(fs) /\ gs[d - 1] = fs[d - 1]
    BY <1>1, <1>2, <2>1
  <2>3. CASE d \in 1..Len(fs)
    BY <1>1, <1>2, <2>1, <2>2, <2>3 DEF Shape, Nested
  <2>4. CASE d = Len(fs) + 1
    <3>1. gs[d].owner = f.owner /\ d - 1 = Len(fs) /\ fs # <<>>
      BY <1>1, <1>2, <2>1, <2>4
    <3> QED
      BY <2>1, <2>2, <3>1 DEF Here
  <2> QED
    BY <1>1, <2>3, <2>4
<1> QED
  BY <1>2, <1>3, <1>4 DEF Shape, gs

--------------------------------------------------------------------------------
(***************************************************************************)
(* Jumps, and the ends of bodies                                           *)
(***************************************************************************)
LEMMA ResolveJumpSound ==
    ASSUME NEW s, Ready(wf, s), Empty \notin DOMAIN wf.nodes,
           NEW target \in DOMAIN wf.nodes \cup {Empty}
    PROVE  Sound(wf, ResolveJump(s, target)) /\ ResolveJump(s, target).pc = "drive"
<1>1. s.frames \in Seq(FrameRecords(wf)) /\ Len(s.frames) \in Nat
  BY MovingFrames
<1>2. PICK d \in 0..Len(s.frames) :
         /\ d = Deepest(s, LAMBDA f : IndexOfId(f.ids, target) # 0)
         /\ d # 0 => target \in Members(s.frames[d].ids)
  <2>1. DeepestOf(Holding(s, target)) = Deepest(s, LAMBDA f : IndexOfId(f.ids, target) # 0)
    BY DEF Deepest, DeepestOf, Holding
  <2> QED
    BY <1>1, <2>1, HoldingFacts
<1> DEFINE r == Resize(s, d)
<1>3. /\ Ready(wf, r) /\ Len(r.frames) = d /\ \A e \in 1..d : r.frames[e] = s.frames[e]
  BY <1>1, ResizeReady
<1>4. CASE target = Empty
  <2>1. ResolveJump(s, target) = Goto(s, Empty)
    BY <1>4 DEF ResolveJump
  <2> QED
    BY <2>1, GotoSound
<1>5. CASE target # Empty /\ d = 0
  <2>1. ResolveJump(s, target) = Goto(r, target)
    BY <1>2, <1>5 DEF ResolveJump
  <2>2. r.frames = <<>>
    <3> HIDE DEF r
    <3> QED
      BY <1>3, <1>5, MovingFrames
  <2>3. Here(wf, r.frames, target)
    BY <1>5, <2>2 DEF Here
  <2> HIDE DEF r
  <2> QED
    BY <1>3, <2>1, <2>3, GotoSound
<1>6. CASE target # Empty /\ d # 0
  <2>1. r.frames # <<>> /\ Top(r) = s.frames[d] /\ Here(wf, r.frames, target)
    <3> HIDE DEF r
    <3>1. r.frames # <<>> /\ d \in 1..d
      BY <1>1, <1>2, <1>3, <1>6, MovingFrames
    <3> QED
      BY <1>1, <1>2, <1>3, <1>6, <3>1 DEF Top, Here
  <2>2. CASE Top(r).kind = "loop"
    <3> DEFINE b == BindIteration(r, Top(r))
    <3>1. ResolveJump(s, target) = Goto(b, target)
      BY <1>2, <1>6, <2>2 DEF ResolveJump
    <3>2. Bound(wf, r.frames, Len(r.frames) - 1, r.locals)
      <4> HIDE DEF r
      <4>1. \A e \in 1..(Len(r.frames) - 1) : e \in 1..Len(r.frames)
        <5>1. Len(r.frames) \in Nat
          BY <1>3, MovingFrames
        <5> QED
          BY <5>1
      <4> QED
        BY <1>3, <4>1 DEF Ready, Bound
    <3>3. Ready(wf, b) /\ b.frames = r.frames
      <4> HIDE DEF r
      <4> QED
        BY <1>3, <2>1, <2>2, <3>2, BindingReady DEF Ready
    <3> HIDE DEF b
    <3> QED
      BY <2>1, <3>1, <3>3, GotoSound
  <2>3. CASE Top(r).kind # "loop"
    <3>1. ResolveJump(s, target) = Goto(r, target)
      BY <1>2, <1>6, <2>3 DEF ResolveJump
    <3> HIDE DEF r
    <3> QED
      BY <1>3, <2>1, <3>1, GotoSound
  <2> QED
    BY <2>2, <2>3
<1> QED
  BY <1>4, <1>5, <1>6

LEMMA CloseFrameSound ==
    ASSUME NEW s, Ready(wf, s), s.frames # <<>>
    PROVE  /\ Sound(wf, CloseFrame(s)) /\ CloseFrame(s).pc = "advance"
           /\ CloseFrame(s).current = Top(s).owner
<1> DEFINE k == Len(s.frames) - 1
           r == Resize(s, k)
           f == Top(s)
           e == EraseIterationLocals(r, f)
           o == [e EXCEPT !.current = f.owner]
           n == wf.nodes[f.owner]
           N == IF f.kind = "loop" THEN {n.iterator, n.index, "iteration"} ELSE {"iteration"}
<1>1. /\ s.frames \in Seq(FrameRecords(wf)) /\ Len(s.frames) \in Nat /\ k \in 0..Len(s.frames)
      /\ DOMAIN s.frames = 1..Len(s.frames) /\ Len(s.frames) \in DOMAIN s.frames
      /\ f = s.frames[Len(s.frames)] /\ Shape(wf, s.frames) /\ Len(s.frames) = k + 1
  BY MovingFrames
<1>2. CloseFrame(s) = Advance(o)
  BY DEF CloseFrame
<1>3. /\ Ready(wf, r) /\ Len(r.frames) = k /\ \A d \in 1..k : r.frames[d] = s.frames[d]
      /\ r.locals = s.locals
  <2> HIDE DEF k
  <2> QED
    BY <1>1, ResizeReady
<1> HIDE DEF r, k, f
<1>4. /\ DOMAIN o = Fields /\ o.frames = r.frames /\ o.cursor = r.cursor
      /\ o.locals = Erase(r.locals, N) /\ o.current = f.owner
      /\ o.finished = r.finished /\ o.status = r.status /\ o.visits = r.visits
      /\ o.attempt = r.attempt /\ o.pending = r.pending /\ o.changed = r.changed
      /\ o.ctx = r.ctx /\ o.pc = r.pc
  <2>1. DOMAIN r = Fields
    BY <1>3 DEF Ready, Moving, Typed
  <2> QED
    BY <2>1 DEF EraseIterationLocals, Node, Fields
<1>5. /\ DOMAIN o.locals = DOMAIN r.locals \ N
      /\ \A x \in DOMAIN o.locals : o.locals[x] = r.locals[x]
  BY <1>4 DEF Erase
<1> HIDE DEF o
<1>6. Bound(wf, o.frames, Len(o.frames), o.locals)
  <2>0. SUFFICES ASSUME StaysInBody(wf), LoopsApart(wf), NEW d \in 1..k
                 PROVE  HoldsItem(wf, s.frames[d], o.locals)
    <3>1. \A d \in 1..k : o.frames[d] = s.frames[d] /\ Len(o.frames) = k
      BY <1>3, <1>4
    <3>2. Len(o.frames) = k
      BY <1>3, <1>4
    <3> QED
      BY <3>1, <3>2 DEF Bound
  <2>1. SUFFICES ASSUME s.frames[d].kind = "loop", ~wf.nodes[s.frames[d].owner].while
                 PROVE  HoldsItem(wf, s.frames[d], o.locals)
    BY DEF HoldsItem
  <2>2. HoldsItem(wf, s.frames[d], s.locals)
    <3>1. r.frames[d] = s.frames[d] /\ HoldsItem(wf, r.frames[d], r.locals)
      BY <1>3, <2>0 DEF Ready, Bound
    <3> QED
      BY <1>3, <3>1
  <2>3. wf.nodes[s.frames[d].owner].iterator \notin N
    <3> DEFINE j == Len(s.frames)
    <3>1. j \in DOMAIN s.frames /\ d \in DOMAIN s.frames /\ d # j
      BY <1>1
    <3> HIDE DEF j
    <3>2. /\ wf.nodes[s.frames[d].owner].iterator # "iteration"
          /\ s.frames[j].kind = "loop" =>
                wf.nodes[s.frames[d].owner].iterator \notin
                    {wf.nodes[s.frames[j].owner].iterator, wf.nodes[s.frames[j].owner].index,
                     "iteration"}
      BY <1>1, <2>0, <2>1, <3>1, NamesApart
    <3> QED
      BY <1>1, <3>2 DEF j
  <2> HIDE DEF N
  <2> QED
    BY <1>3, <1>5, <2>1, <2>2, <2>3 DEF HoldsItem
<1>7. Quiet(wf, o.locals)
  <2>1. f.kind = "loop" => n.type = "loop" /\ f.owner \in DOMAIN wf.nodes
    BY <1>1, FrameFacts DEF Shape, Opened
  <2>2. RefusalsLeaveTrace(wf) => "error" \notin N
    BY <2>1 DEF RefusalsLeaveTrace
  <2>3. Quiet(wf, r.locals)
    BY <1>3 DEF Ready
  <2> HIDE DEF N
  <2> QED
    BY <1>5, <2>2, <2>3 DEF Quiet
<1>8. Ready(wf, o)
  BY <1>3, <1>4, <1>6, <1>7 DEF Ready, Moving, Typed
<1>9. Advance(o).pc = "advance" /\ Advance(o).current = f.owner
  BY <1>4 DEF Advance, Fields
<1> QED
  BY <1>2, <1>8, <1>9, AdvanceSound DEF f

LEMMA SetTopMoving ==
    ASSUME NEW w, NEW s, Ready(w, s), s.frames # <<>>,
           NEW f \in FrameRecords(w), Opened(w, f), f.owner = Top(s).owner
    PROVE  LET t == SetTop(s, f)
           IN  /\ Moving(w, t) /\ t.frames # <<>> /\ Top(t) = f
               /\ Len(t.frames) = Len(s.frames)
               /\ Bound(w, t.frames, Len(t.frames) - 1, t.locals) /\ Quiet(w, t.locals)
               /\ f.kind # "loop" => Ready(w, t)
               /\ t.pc = s.pc /\ t.current = s.current /\ t.ctx = s.ctx /\ t.locals = s.locals
<1> DEFINE t == SetTop(s, f)
           gs == Append(SubSeq(s.frames, 1, Len(s.frames) - 1), f)
<1>1. /\ DOMAIN t = Fields /\ t.pc = s.pc /\ t.frames = gs
      /\ t.cursor = s.cursor /\ t.locals = s.locals /\ t.current = s.current
      /\ t.finished = s.finished /\ t.status = s.status /\ t.visits = s.visits
      /\ t.attempt = s.attempt /\ t.pending = s.pending /\ t.changed = s.changed /\ t.ctx = s.ctx
  BY DEF SetTop, Ready, Moving, Typed, Fields
<1>2. Shape(w, s.frames) /\ Len(s.frames) \in Nat /\ Len(s.frames) > 0
  BY MovingFrames
<1>3. /\ Shape(w, gs) /\ Len(gs) = Len(s.frames) /\ gs[Len(gs)] = f
      /\ \A d \in 1..(Len(s.frames) - 1) : gs[d] = s.frames[d]
  BY <1>2, ReplacedShape DEF Top
<1> HIDE DEF t, gs
<1>4. Bound(w, t.frames, Len(t.frames) - 1, t.locals)
  <2>1. \A d \in 1..(Len(s.frames) - 1) : d \in 1..Len(s.frames)
    BY <1>2
  <2> QED
    BY <1>1, <1>3, <2>1 DEF Ready, Bound
<1>5. Moving(w, t)
  BY <1>1, <1>3 DEF Ready, Moving, Typed
<1>6. f.kind # "loop" => Bound(w, t.frames, Len(t.frames), t.locals)
  <2>1. SUFFICES ASSUME f.kind # "loop", StaysInBody(w), LoopsApart(w),
                        NEW d \in 1..Len(s.frames)
                 PROVE  HoldsItem(w, gs[d], t.locals)
    BY <1>1, <1>3 DEF Bound
  <2>2. d \in 1..(Len(s.frames) - 1) \/ d = Len(s.frames)
    BY <1>2
  <2>3. CASE d \in 1..(Len(s.frames) - 1)
    BY <1>1, <1>3, <1>4, <2>1, <2>3 DEF Bound
  <2>4. CASE d = Len(s.frames)
    BY <1>3, <2>1, <2>4 DEF HoldsItem
  <2> QED
    BY <2>2, <2>3, <2>4
<1> QED
  BY <1>1, <1>2, <1>3, <1>4, <1>5, <1>6 DEF Ready, t, Top

--------------------------------------------------------------------------------
LEMMA StringsApart ==
    Empty \notin {"ROUTING_ERROR", "CAPABILITY_ERROR", "VALIDATION_ERROR", "LIMIT_EXCEEDED",
                  "EXPRESSION_ERROR", "TIMEOUT", "WORKFLOW_FAILED"}
<1>2. Empty # "ROUTING_ERROR" /\ Empty # "CAPABILITY_ERROR" /\ Empty # "VALIDATION_ERROR"
  BY Zenon DEF Empty
<1>3. Empty # "LIMIT_EXCEEDED" /\ Empty # "EXPRESSION_ERROR" /\ Empty # "TIMEOUT"
  BY Zenon DEF Empty
<1>4. Empty # "WORKFLOW_FAILED"
  BY Zenon DEF Empty
<1> QED
  BY <1>2, <1>3, <1>4

LEMMA NodeFacts ==
    ASSUME NEW w, WellFormed(w), NEW id \in DOMAIN w.nodes
    PROVE  LET n == w.nodes[id]
           IN  /\ Empty \notin DOMAIN w.nodes /\ id \in STRING /\ n.id = id
               /\ Edges(n) \subseteq DOMAIN w.nodes \cup {Empty}
               /\ {n.next, n.on_error} \subseteq DOMAIN w.nodes \cup {Empty}
               /\ \A ids \in Lists(n) : /\ ids \in Seq(DOMAIN w.nodes) /\ ids # <<>>
                                        /\ ids[1] \in Members(ids)
                                        /\ Members(ids) \subseteq DOMAIN w.nodes
               /\ n.may \subseteq STRING
               /\ n.type = "loop" => n.totals \subseteq Nat
               /\ n.type = "loop_control" => n.action \in {"break_loop", "continue_loop"}
<1> DEFINE n == w.nodes[id]
<1>1. /\ Empty \notin DOMAIN w.nodes /\ id \in STRING /\ n.id = id
      /\ Edges(n) \subseteq DOMAIN w.nodes \cup {Empty}
      /\ Lists(n) \subseteq Seq(DOMAIN w.nodes) \ {<<>>}
      /\ n.may \subseteq STRING
      /\ n.type = "loop" => n.totals \subseteq Nat
      /\ n.type = "loop_control" => n.action \in {"break_loop", "continue_loop"}
  BY DEF WellFormed
<1>2. {n.next, n.on_error} \subseteq Edges(n)
  BY DEF Edges
<1>3. ASSUME NEW ids \in Seq(DOMAIN w.nodes), ids # <<>>
      PROVE  ids[1] \in Members(ids) /\ Members(ids) \subseteq DOMAIN w.nodes
  BY <1>3 DEF Members
<1> HIDE DEF n
<1> QED
  BY <1>1, <1>2, <1>3 DEF n

LEMMA BranchesFacts ==
    ASSUME NEW w, WellFormed(w), NEW id \in DOMAIN w.nodes, w.nodes[id].type = "parallel"
    PROVE  LET branches == w.nodes[id].branches
           IN  DOMAIN branches = 1..Len(branches) /\ Len(branches) \in Nat
<1>1. w.nodes[id].branches \in Seq(Seq(DOMAIN w.nodes))
  BY DEF WellFormed
<1> QED
  BY <1>1

LEMMA TryLists ==
    ASSUME NEW n, n.type = "try"
    PROVE  /\ n.body \in Lists(n)
           /\ n.catch # <<>> => n.catch \in Lists(n)
           /\ n.finally # <<>> => n.finally \in Lists(n)
           /\ \A c \in DOMAIN n.when : <<n.when[c]>> \in Lists(n)
BY DEF Lists

\* What drive itself binds and erases is never a loop's item.
Reserved == {"input", "event", "timer", "error"}

LEMMA ReservedNames ==
    ASSUME NEW w, NEW fs, Shape(w, fs), NEW k \in 0..Len(fs), NEW locals, Bound(w, fs, k, locals),
           NEW others, Reserved \cup DOMAIN others = Reserved \cup DOMAIN locals,
           \A x \in DOMAIN locals \ Reserved : others[x] = locals[x]
    PROVE  Bound(w, fs, k, others)
<1>1. SUFFICES ASSUME StaysInBody(w), LoopsApart(w), NEW d \in 1..k,
                      fs[d].kind = "loop", ~w.nodes[fs[d].owner].while
               PROVE  LET it == w.nodes[fs[d].owner].iterator
                      IN  it \in DOMAIN others /\ others[it] = <<fs[d].owner, fs[d].index>>
  BY DEF Bound, HoldsItem
<1>2. /\ fs \in Seq(FrameRecords(w)) /\ DOMAIN fs = 1..Len(fs) /\ Len(fs) \in Nat
      /\ d \in DOMAIN fs
  <2>1. fs \in Seq(FrameRecords(w)) /\ DOMAIN fs = 1..Len(fs) /\ Len(fs) \in Nat
    BY FrameFacts DEF Shape
  <2> QED
    BY <2>1
<1>3. fs[d].owner \in DOMAIN w.nodes /\ w.nodes[fs[d].owner].type = "loop"
  BY <1>1, <1>2, FrameFacts DEF Shape, Opened
<1>4. w.nodes[fs[d].owner].iterator \notin Reserved
  BY <1>1, <1>3 DEF LoopsApart, Reserved
<1>5. HoldsItem(w, fs[d], locals)
  BY <1>1 DEF Bound
<1> QED
  BY <1>1, <1>4, <1>5 DEF HoldsItem

LEMMA ErrorBound ==
    ASSUME NEW w, NEW fs, Shape(w, fs), NEW k \in 0..Len(fs), NEW locals, Bound(w, fs, k, locals),
           NEW v
    PROVE  LET others == Bind(locals, {"error"}, v)
           IN  Bound(w, fs, k, others) /\ Quiet(w, others)
<1> DEFINE others == Bind(locals, {"error"}, v)
<1>1. /\ DOMAIN others = DOMAIN locals \cup {"error"}
      /\ \A x \in DOMAIN locals \ {"error"} : others[x] = locals[x]
  BY DEF Bind
<1> HIDE DEF others
<1>2. Reserved \cup DOMAIN others = Reserved \cup DOMAIN locals
  BY <1>1 DEF Reserved
<1>3. \A x \in DOMAIN locals \ Reserved : others[x] = locals[x]
  BY <1>1 DEF Reserved
<1>4. Bound(w, fs, k, others)
  BY <1>2, <1>3, ReservedNames
<1> QED
  BY <1>1, <1>4 DEF Quiet, others

LEMMA NextIterationSound ==
    ASSUME NEW s, Ready(wf, s), NEW d \in 1..Len(s.frames), s.frames[d].kind = "loop", NEW guard
    PROVE  /\ Sound(wf, NextIteration(s, d, guard))
           /\ s.pc # "advance" /\ NextIteration(s, d, guard).pc = "advance" =>
                  NextIteration(s, d, guard).current = s.frames[d].owner
<1> DEFINE r == Resize(s, d)
           f == [Top(r) EXCEPT !.index = @ + 1]
           b == BindIteration(SetTop(r, f), f)
<1>1. /\ s.frames \in Seq(FrameRecords(wf)) /\ Len(s.frames) \in Nat
      /\ DOMAIN s.frames = 1..Len(s.frames) /\ Shape(wf, s.frames)
  BY MovingFrames
<1>2. d \in 0..Len(s.frames) /\ d \in 1..d /\ d # 0
  BY <1>1
<1>3. /\ Ready(wf, r) /\ Len(r.frames) = d /\ \A e \in 1..d : r.frames[e] = s.frames[e]
      /\ r.pc = s.pc
  BY <1>1, <1>2, ResizeReady
<1> HIDE DEF r
<1>4. r.frames # <<>> /\ Top(r) = s.frames[d]
  BY <1>2, <1>3, MovingFrames
<1>5. /\ f \in FrameRecords(wf) /\ Opened(wf, f) /\ f.owner = Top(r).owner /\ f.kind = "loop"
      /\ f.ids = s.frames[d].ids
  <2>1. s.frames[d] \in FrameRecords(wf) /\ Opened(wf, s.frames[d])
    BY <1>1, FrameFacts DEF Shape
  <2> QED
    BY <1>4, <2>1 DEF FrameRecords, Opened
<1>6. f.ids[1] \in Members(f.ids) /\ Members(f.ids) \subseteq DOMAIN wf.nodes
  BY <1>1, <1>5, FrameFacts
<1> HIDE DEF f
<1>7. /\ Ready(wf, b) /\ b.frames = SetTop(r, f).frames /\ b.frames # <<>> /\ Top(b) = f
  <2> DEFINE t == SetTop(r, f)
  <2>1. /\ Moving(wf, t) /\ t.frames # <<>> /\ Top(t) = f
        /\ Bound(wf, t.frames, Len(t.frames) - 1, t.locals) /\ Quiet(wf, t.locals)
    BY <1>3, <1>4, <1>5, SetTopMoving
  <2> HIDE DEF t
  <2>2. Ready(wf, BindIteration(t, Top(t))) /\ BindIteration(t, Top(t)).frames = t.frames
    BY <1>5, <2>1, BindingReady
  <2> QED
    BY <2>1, <2>2 DEF t, Top
<1>8. Here(wf, b.frames, f.ids[1])
  BY <1>6, <1>7 DEF Here, Top
<1> HIDE DEF b
<1>9. CASE NextIteration(s, d, guard) = Thrown(r)
  BY <1>3, <1>9, ThrownSound
<1>10. CASE NextIteration(s, d, guard) = Goto(b, f.ids[1])
  BY <1>7, <1>8, <1>10, GotoSound
<1>11. CASE NextIteration(s, d, guard) = CloseFrame(r)
  BY <1>3, <1>4, <1>11, CloseFrameSound
<1>12. \/ NextIteration(s, d, guard) = Thrown(r)
       \/ NextIteration(s, d, guard) = Goto(b, f.ids[1])
       \/ NextIteration(s, d, guard) = CloseFrame(r)
  <2> DEFINE inRange == f.index < Node(f.owner).max /\ f.index < f.total
             throws == inRange /\ Node(f.owner).while /\ guard = "throws"
             again == inRange /\ (Node(f.owner).while => guard = "true")
  <2>1. NextIteration(s, d, guard) =
            CASE throws -> Thrown(r) [] again -> Goto(b, f.ids[1]) [] OTHER -> CloseFrame(r)
    BY DEF NextIteration, r, f, b
  <2>2. ~(throws /\ again)
    OBVIOUS
  <2> HIDE DEF throws, again
  <2> QED
    BY <2>1, <2>2
<1> QED
  BY <1>9, <1>10, <1>11, <1>12

LEMMA AdvanceTryPhaseSound ==
    ASSUME NEW s, Ready(wf, s), WellFormed(wf), s.frames # <<>>, Top(s).kind = "try"
    PROVE  Sound(wf, AdvanceTryPhase(s))
<1> DEFINE f == Top(s)
           finally == Node(f.owner).finally
           g == [f EXCEPT !.phase = "finally", !.ids = finally]
           t == SetTop(s, g)
           p == [s EXCEPT !.pending = f.propagate, !.locals = Bind(@, {"error"}, f.propagate)]
<1>1. /\ Shape(wf, s.frames) /\ f \in FrameRecords(wf) /\ Opened(wf, f)
      /\ f.owner \in DOMAIN wf.nodes /\ wf.nodes[f.owner].type = "try" /\ f.propagate \in Texts
  <2>1. /\ Shape(wf, s.frames) /\ s.frames \in Seq(FrameRecords(wf))
        /\ Len(s.frames) \in DOMAIN s.frames /\ f = s.frames[Len(s.frames)]
    BY MovingFrames
  <2> HIDE DEF f
  <2>2. Opened(wf, f) /\ f \in FrameRecords(wf) /\ f.owner \in DOMAIN wf.nodes /\ f.propagate \in Texts
    BY <2>1, FrameFacts DEF Shape
  <2>3. f.kind = "try"
    BY DEF f
  <2> QED
    BY <2>1, <2>2, <2>3 DEF Opened
<1> HIDE DEF f
<1>2. CASE f.phase # "finally" /\ finally # <<>>
  <2>1. finally \in Lists(wf.nodes[f.owner])
    BY <1>1, <1>2, TryLists DEF Node
  <2>2. /\ finally \in Seq(DOMAIN wf.nodes) \ {<<>>} /\ finally[1] \in Members(finally)
        /\ Members(finally) \subseteq DOMAIN wf.nodes
    BY <1>1, <2>1, NodeFacts
  <2>3. AdvanceTryPhase(s) = Goto(t, finally[1])
    BY <1>2 DEF AdvanceTryPhase, f
  <2> HIDE DEF finally
  <2>4. /\ g \in FrameRecords(wf) /\ g.owner = f.owner /\ g.kind = f.kind /\ g.ids = finally
        /\ Opened(wf, g)
    BY <1>1, <2>1, <2>2 DEF FrameRecords, Opened
  <2>5. g.kind # "loop"
    BY <2>4 DEF f
  <2> HIDE DEF g
  <2>6. Ready(wf, t) /\ t.frames # <<>> /\ Top(t) = g
    BY <2>4, <2>5, SetTopMoving DEF f
  <2> HIDE DEF t
  <2>7. Here(wf, t.frames, finally[1])
    BY <2>2, <2>4, <2>6 DEF Here, Top
  <2> QED
    BY <2>3, <2>6, <2>7, GotoSound
<1>3. CASE ~(f.phase # "finally" /\ finally # <<>>)
  <2>1. AdvanceTryPhase(s) = CloseFrame(IF f.propagate = Empty THEN s ELSE p)
    BY <1>3 DEF AdvanceTryPhase, f
  <2>2. /\ DOMAIN p = Fields /\ p.frames = s.frames /\ p.cursor = s.cursor
        /\ p.locals = Bind(s.locals, {"error"}, f.propagate) /\ p.pending = f.propagate
        /\ p.finished = s.finished /\ p.status = s.status /\ p.visits = s.visits
        /\ p.attempt = s.attempt /\ p.changed = s.changed /\ p.ctx = s.ctx /\ p.pc = s.pc
    BY DEF Ready, Moving, Typed, Fields
  <2> HIDE DEF p
  <2>3. Bound(wf, p.frames, Len(p.frames), p.locals) /\ Quiet(wf, p.locals)
    <3>1. Len(s.frames) \in 0..Len(s.frames) /\ Bound(wf, s.frames, Len(s.frames), s.locals)
      BY MovingFrames DEF Ready
    <3> QED
      BY <1>1, <2>2, <3>1, ErrorBound
  <2>4. Ready(wf, p)
    BY <1>1, <2>2, <2>3 DEF Ready, Moving, Typed
  <2> QED
    BY <2>1, <2>2, <2>4, CloseFrameSound
<1> QED
  BY <1>2, <1>3

--------------------------------------------------------------------------------
LEMMA NextOfFacts ==
    ASSUME WellFormed(wf), NEW id
    PROVE  NextOf(id) \in DOMAIN wf.nodes \cup {Empty}
BY NodeFacts DEF NextOf, Known, Node

\* After the body of a condition drive goes on in the body around it.
LEMMA AfterBody ==
    ASSUME WellFormed(wf), NEW s, Ready(wf, s), s.frames # <<>>, Top(s).kind = "body",
           NextOf(Top(s).owner) # Empty
    PROVE  Sound(wf, Goto(Resize(s, Len(s.frames) - 1), NextOf(Top(s).owner)))
<1> DEFINE k == Len(s.frames) - 1
           r == Resize(s, k)
           o == Top(s).owner
<1>1. /\ Shape(wf, s.frames) /\ s.frames \in Seq(FrameRecords(wf)) /\ Len(s.frames) \in Nat
      /\ DOMAIN s.frames = 1..Len(s.frames) /\ Len(s.frames) \in DOMAIN s.frames
      /\ Top(s) = s.frames[Len(s.frames)]
  BY MovingFrames
<1>2. k \in 0..Len(s.frames) /\ Len(s.frames) = k + 1
  BY <1>1
<1>3. Ready(wf, r) /\ Len(r.frames) = k /\ \A d \in 1..k : r.frames[d] = s.frames[d]
  <2> HIDE DEF k
  <2> QED
    BY <1>1, <1>2, ResizeReady
<1>4. o \in DOMAIN wf.nodes /\ wf.nodes[o].type = "condition"
  BY <1>1, FrameFacts DEF Shape, Opened
<1>5. NextOf(o) \in DOMAIN wf.nodes /\ NextOf(o) = wf.nodes[o].next
  BY <1>4, NextOfFacts DEF NextOf, Known, Node
<1>6. Direct(wf.nodes[o]) = {wf.nodes[o].next}
  <2>1. Top(s).ids \in Lists(wf.nodes[o]) /\ Top(s).ids # <<>>
    BY <1>1, FrameFacts DEF Shape, Opened
  <2> HIDE DEF o
  <2>2. wf.nodes[o].then # <<>> \/ wf.nodes[o].else # <<>>
    BY <1>4, <2>1 DEF Lists
  <2> QED
    BY <1>4, <2>2 DEF Direct
<1>7. ASSUME StaysInBody(wf), r.frames # <<>>
      PROVE  NextOf(o) \in Members(r.frames[Len(r.frames)].ids)
  <2>1. k \in DOMAIN s.frames /\ k + 1 \in DOMAIN s.frames /\ k + 1 > 1 /\ k + 1 - 1 = k /\ k \in 1..k
    <3> HIDE DEF r
    <3> HIDE DEF k
    <3>1. k # 0
      BY <1>3, <1>7, MovingFrames
    <3>2. k \in Nat /\ k > 0
      BY <1>1, <1>2, <3>1
    <3> QED
      BY <1>1, <1>2, <3>2
  <2> HIDE DEF r, k
  <2> DEFINE f == s.frames[k]
  <2>2. o \in Members(f.ids)
    <3>1. s.frames[k + 1].owner \in Members(s.frames[k + 1 - 1].ids)
      BY <1>1, <1>7, <2>1 DEF Shape, Nested
    <3> QED
      BY <1>1, <1>2, <2>1, <3>1
  <2>3. f.owner \in DOMAIN wf.nodes /\ f.ids \in Lists(wf.nodes[f.owner])
    BY <1>1, <2>1, FrameFacts DEF Shape, Opened
  <2> HIDE DEF f, o
  <2>4. Direct(wf.nodes[o]) \subseteq Members(f.ids) \cup {Empty}
    BY <1>7, <2>2, <2>3 DEF StaysInBody
  <2>5. NextOf(o) \in Members(f.ids)
    BY <1>5, <1>6, <2>4 DEF o
  <2> QED
    BY <1>3, <2>1, <2>5 DEF f
<1>8. Here(wf, r.frames, NextOf(o))
  BY <1>5, <1>7 DEF Here
<1> HIDE DEF r
<1>9. Sound(wf, Goto(r, NextOf(o)))
  BY <1>3, <1>8, GotoSound
<1> QED
  BY <1>9 DEF r

LEMMA AdvanceAfterNodeSound ==
    ASSUME WellFormed(wf), NEW s, Ready(wf, s), s.pc = "advance", NEW guard
    PROVE  Sound(wf, AdvanceAfterNode(s, guard))
<1> DEFINE f == Top(s)
           i == IndexOfId(f.ids, s.at)
           next == NextOf(s.at)
           after == i # 0 /\ i < Len(f.ids)
           t == AdvanceAfterNode(s, guard)
<1>1. /\ Shape(wf, s.frames) /\ s.frames \in Seq(FrameRecords(wf)) /\ Len(s.frames) \in Nat
      /\ DOMAIN s.frames = 1..Len(s.frames)
      /\ s.frames # <<>> => Len(s.frames) \in DOMAIN s.frames
      /\ f = s.frames[Len(s.frames)]
  BY MovingFrames
<1>2. next \in DOMAIN wf.nodes \cup {Empty} /\ Empty \notin DOMAIN wf.nodes
  BY NextOfFacts DEF WellFormed
<1>3. CASE s.frames = <<>>
  <2>1. t = IF next # Empty THEN Goto(s, next) ELSE Complete(s)
    BY <1>3 DEF AdvanceAfterNode
  <2>2. next # Empty => Here(wf, s.frames, next)
    BY <1>2, <1>3 DEF Here
  <2> QED
    BY <2>1, <2>2, GotoSound, CompleteSound
<1>4. CASE s.frames # <<>> /\ i # 0 /\ next # Empty /\ IndexOfId(f.ids, next) = 0
  <2>1. t = ResolveJump(s, next)
    BY <1>4 DEF AdvanceAfterNode
  <2> QED
    BY <1>2, <2>1, ResolveJumpSound
<1>5. CASE s.frames # <<>> /\ ~(i # 0 /\ next # Empty /\ IndexOfId(f.ids, next) = 0)
  <2>1. /\ f.kind \in {"loop", "try", "body", "branch"} /\ f.ids \in Seq(DOMAIN wf.nodes)
        /\ Len(s.frames) > 0
    BY <1>1, <1>5, FrameFacts
  <2>2. CASE after
    <3>1. t = Goto(s, f.ids[i + 1])
      BY <1>5, <2>2 DEF AdvanceAfterNode
    <3>2. i \in 0..Len(f.ids)
      BY <2>1, IndexOfIdFacts
    <3> HIDE DEF i, f
    <3>3. i + 1 \in DOMAIN f.ids
      BY <2>1, <2>2, <3>2
    <3>4. f.ids[i + 1] \in Members(f.ids) /\ f.ids[i + 1] \in DOMAIN wf.nodes
      BY <2>1, <3>3 DEF Members
    <3>5. Here(wf, s.frames, f.ids[i + 1])
      BY <1>1, <3>4 DEF Here
    <3> HIDE DEF t
    <3> QED
      BY <3>1, <3>5, GotoSound DEF t
  <2>3. CASE ~after /\ f.kind = "loop"
    <3> DEFINE d == LoopDepth(s, Empty)
    <3>1. t = NextIteration(s, d, guard)
      BY <1>5, <2>3 DEF AdvanceAfterNode
    <3>2. d \in 1..Len(s.frames) /\ s.frames[d].kind = "loop"
      <4>1. d \in 0..Len(s.frames) /\ (d # 0 => s.frames[d].kind = "loop") /\ Len(s.frames) <= d
        BY <1>1, <1>5, <2>3, LoopDepthFacts
      <4> HIDE DEF d
      <4> QED
        BY <1>1, <2>1, <4>1
    <3> HIDE DEF d, t
    <3> QED
      BY <1>1, <3>1, <3>2, NextIterationSound DEF t
  <2>4. CASE ~after /\ f.kind = "try"
    <3>1. t = AdvanceTryPhase(s)
      BY <1>5, <2>4 DEF AdvanceAfterNode
    <3> HIDE DEF t
    <3> QED
      BY <1>5, <2>4, <3>1, AdvanceTryPhaseSound DEF t
  <2>5. CASE ~after /\ f.kind = "branch"
    <3> DEFINE e == [s EXCEPT !.cursor = Empty, !.finished = TRUE, !.pc = "drive"]
    <3>1. t = IF i # 0 THEN Complete(s) ELSE e
      BY <1>5, <2>5 DEF AdvanceAfterNode
    <3>2. /\ DOMAIN e = Fields /\ e.pc = "drive" /\ e.frames = s.frames /\ e.locals = s.locals
          /\ e.finished = TRUE /\ e.status = s.status /\ e.visits = s.visits
          /\ e.attempt = s.attempt /\ e.pending = s.pending /\ e.changed = s.changed /\ e.ctx = s.ctx
      BY DEF Ready, Moving, Typed, Fields
    <3>3. ~Waits(e) /\ e.status \in Statuses
      BY <3>2 DEF Ready, Moving, Typed, Waits
    <3> HIDE DEF e
    <3>4. Sound(wf, e)
      BY <3>2, <3>3, EndSound DEF Ready
    <3> QED
      BY <3>1, <3>4, CompleteSound
  <2>6. CASE ~after /\ f.kind = "body"
    <3> DEFINE r == Resize(s, Len(s.frames) - 1)
               e == [r EXCEPT !.at = f.owner]
    <3>1. t = IF NextOf(f.owner) # Empty THEN Goto(r, NextOf(f.owner)) ELSE e
      BY <1>5, <2>6 DEF AdvanceAfterNode
    <3>2. Len(s.frames) - 1 \in 0..Len(s.frames)
      BY <1>1, <2>1
    <3>3. Ready(wf, r) /\ r.pc = "advance"
      BY <1>1, <3>2, ResizeReady
    <3> HIDE DEF r
    <3>4. /\ DOMAIN e = Fields /\ e.pc = r.pc /\ e.frames = r.frames /\ e.locals = r.locals
          /\ e.finished = r.finished /\ e.status = r.status /\ e.visits = r.visits
          /\ e.attempt = r.attempt /\ e.pending = r.pending /\ e.changed = r.changed
          /\ e.ctx = r.ctx /\ e.cursor = r.cursor
      BY <3>3 DEF Ready, Moving, Typed, Fields
    <3> HIDE DEF e
    <3>5. Sound(wf, e)
      <4>1. Typed(e)
        BY <3>3, <3>4 DEF Ready, Moving, Typed
      <4>2. Placed(wf, e)
        BY <3>3, <3>4 DEF Ready, Moving, Placed, Waits
      <4> QED
        BY <3>3, <3>4, <4>1, <4>2 DEF Sound, Ready, Moving, Answered
    <3>6. CASE NextOf(f.owner) # Empty
      BY <1>5, <2>6, <3>1, <3>6, AfterBody DEF r
    <3> QED
      BY <3>1, <3>5, <3>6
  <2> QED
    BY <2>1, <2>2, <2>3, <2>4, <2>5, <2>6
<1> QED
  BY <1>3, <1>4, <1>5
--------------------------------------------------------------------------------
(***************************************************************************)
(* Errors                                                                  *)
(***************************************************************************)
Recovering(s, code) == {d \in DOMAIN s.frames : Recovers(s.frames[d], code)}

LEMMA RecoveringFacts ==
    ASSUME NEW s, NEW S, s.frames \in Seq(S), NEW code
    PROVE  LET d == DeepestOf(Recovering(s, code))
           IN  /\ d \in 0..Len(s.frames)
               /\ d # 0 => Recovers(s.frames[d], code)
<1>1. DOMAIN s.frames = 1..Len(s.frames) /\ Len(s.frames) \in Nat
  OBVIOUS
<1>2. Recovering(s, code) \in SUBSET (1..Len(s.frames))
  BY <1>1 DEF Recovering
<1>3. /\ DeepestOf(Recovering(s, code)) \in 0..Len(s.frames)
      /\ DeepestOf(Recovering(s, code)) = 0 <=> Recovering(s, code) = {}
      /\ Recovering(s, code) # {} => DeepestOf(Recovering(s, code)) \in Recovering(s, code)
  BY <1>1, <1>2, DeepestOfFacts
<1>4. \A d \in Recovering(s, code) : Recovers(s.frames[d], code)
  BY DEF Recovering
<1> QED
  BY <1>3, <1>4

\* The prompts that can refuse an answer.
Refuses(w, id) ==
    LET n == w.nodes[id]
    IN  id \in DOMAIN w.nodes /\ n.type = "action" /\ n.prompt /\ (n.validated \/ n.may # {})

\* A run with an error to route: an unused answer is the one its node refused.
Troubled(w, s) ==
    /\ Moving(w, s)
    /\ Bound(w, s.frames, Len(s.frames), s.locals)
    /\ Quiet(w, s.locals) \/ Refuses(w, s.current)

\* Where the error local is bound, an answer left unused has its trace.
LEMMA TracedReady ==
    ASSUME NEW w, NEW s, Moving(w, s), Bound(w, s.frames, Len(s.frames), s.locals), NEW v, NEW t,
           DOMAIN t = Fields, t.locals = Bind(s.locals, {"error"}, v), t.frames = s.frames,
           t.finished = s.finished, t.status = s.status, t.visits = s.visits,
           t.attempt = s.attempt, t.pending = s.pending, t.pc = s.pc, t.cursor = s.cursor,
           t.changed \subseteq DOMAIN t.ctx
    PROVE  Ready(w, t)
<1>1. Shape(w, s.frames) /\ Len(s.frames) \in 0..Len(s.frames)
  BY MovingFrames
<1>2. Bound(w, s.frames, Len(s.frames), t.locals) /\ Quiet(w, t.locals)
  BY <1>1, ErrorBound
<1>3. Typed(t)
  BY DEF Moving, Typed
<1> QED
  BY <1>2, <1>3 DEF Ready, Moving

\* Without on_error, what catches the error of a refused answer is a catch.
LEMMA QuietUnlessCaught ==
    ASSUME WellFormed(wf), NEW s, Troubled(wf, s), wf.nodes[s.current].on_error = Empty,
           NEW f, f.owner \in DOMAIN wf.nodes, Opened(wf, f), NEW code, Recovers(f, code),
           f.kind = "loop" \/ (Routed(Node(f.owner), code) = <<>> /\ Node(f.owner).catch = <<>>)
    PROVE  Ready(wf, s)
<1> SUFFICES ASSUME RefusalsLeaveTrace(wf), ~Quiet(wf, s.locals)
             PROVE  FALSE
  BY DEF Troubled, Ready, Quiet
<1> DEFINE c == wf.nodes[s.current]
           n == wf.nodes[f.owner]
<1>1. c.type = "action" /\ c.prompt /\ c.on_error = Empty /\ ~(~c.validated /\ c.may = {})
      /\ s.current \in DOMAIN wf.nodes
  BY DEF Troubled, Refuses
<1>2. /\ \A m \in {wf.nodes[id] : id \in {x \in DOMAIN wf.nodes : wf.nodes[x].type = "loop"}} :
            m.on_item_error = "fail"
      /\ \A m \in {wf.nodes[id] : id \in {x \in DOMAIN wf.nodes : wf.nodes[x].type = "try"}} :
            m.catch # <<>> \/ DOMAIN m.when # {}
  BY <1>1 DEF RefusalsLeaveTrace
<1>3. CASE f.kind = "loop"
  <2>1. n.type = "loop" /\ n.on_item_error # "fail"
    BY <1>3 DEF Opened, Recovers, Node
  <2> QED
    BY <1>2, <2>1
<1>4. CASE f.kind # "loop"
  <2>1. /\ f.kind = "try" /\ Routed(n, code) = <<>> /\ n.catch = <<>>
        /\ DOMAIN n.when = {}
    BY <1>4 DEF Recovers, Node
  <2>2. n.type = "try"
    BY <2>1 DEF Opened
  <2> QED
    BY <1>2, <2>1, <2>2
<1> QED
  BY <1>3, <1>4

\* What handleError makes of the run when the try frame at depth d catches.
Caught(s, d, handlers, code) ==
    [Goto(SetTop(Resize(s, d), [s.frames[d] EXCEPT !.phase = "catch", !.ids = handlers]),
          handlers[1])
        EXCEPT !.locals = Bind(@, {"error"}, code),
               !.ctx = Bind(@, {"error"}, code), !.changed = @ \cup {"error"}]

LEMMA CatchSound ==
    ASSUME WellFormed(wf), NEW s, Troubled(wf, s), NEW d \in 1..Len(s.frames), NEW code,
           s.frames[d].kind = "try",
           NEW handlers, handlers \in Lists(wf.nodes[s.frames[d].owner])
    PROVE  /\ Sound(wf, Caught(s, d, handlers, code))
           /\ Caught(s, d, handlers, code).pc = "drive"
<1> DEFINE f == s.frames[d]
           g == [f EXCEPT !.phase = "catch", !.ids = handlers]
           u == Goto(SetTop(Resize(s, d), g), handlers[1])
           t == [u EXCEPT !.locals = Bind(@, {"error"}, code),
                          !.ctx = Bind(@, {"error"}, code), !.changed = @ \cup {"error"}]
           e == [s EXCEPT !.locals = Bind(@, {"error"}, code),
                          !.ctx = Bind(@, {"error"}, code), !.changed = @ \cup {"error"}]
           r == Resize(e, d)
           v == SetTop(r, g)
<1>0. Moving(wf, s) /\ DOMAIN s = Fields
  BY DEF Troubled, Moving, Typed
<1>1. /\ Shape(wf, s.frames) /\ s.frames \in Seq(FrameRecords(wf)) /\ Len(s.frames) \in Nat
      /\ DOMAIN s.frames = 1..Len(s.frames)
  BY <1>0, MovingFrames
<1>2. /\ f \in FrameRecords(wf) /\ Opened(wf, f) /\ f.owner \in DOMAIN wf.nodes
      /\ f.kind = "try"
  BY <1>1, FrameFacts DEF Shape
<1> HIDE DEF f
<1>3. /\ handlers \in Seq(DOMAIN wf.nodes) \ {<<>>} /\ handlers[1] \in Members(handlers)
      /\ handlers[1] \in DOMAIN wf.nodes
  BY <1>2, NodeFacts DEF f
<1>4. /\ g \in FrameRecords(wf) /\ g.owner = f.owner /\ g.kind = "try" /\ g.ids = handlers
      /\ Opened(wf, g)
  BY <1>2, <1>3 DEF FrameRecords, Opened, f
<1> HIDE DEF g
<1>5. /\ u.locals = s.locals /\ u.ctx = s.ctx /\ u.changed = s.changed
  BY <1>0 DEF Goto, SetTop, Resize, Fields
<1>6. t = Goto(v, handlers[1])
  <2> DEFINE lo == Bind(s.locals, {"error"}, code)
             cx == Bind(s.ctx, {"error"}, code)
             ch == s.changed \cup {"error"}
  <2>1. t = [u EXCEPT !.locals = lo, !.ctx = cx, !.changed = ch]
    <3> HIDE DEF u
    <3> QED
      BY <1>5
  <2>2. e = [s EXCEPT !.locals = lo, !.ctx = cx, !.changed = ch]
    OBVIOUS
  <2> HIDE DEF lo, cx, ch, t, e
  <2>3. [u EXCEPT !.locals = lo, !.ctx = cx, !.changed = ch]
            = Goto(SetTop(Resize([s EXCEPT !.locals = lo, !.ctx = cx, !.changed = ch], d), g),
                   handlers[1])
    BY <1>0 DEF u, Goto, SetTop, Resize, Fields
  <2>4. v = SetTop(Resize(e, d), g)
    BY DEF v, r
  <2> QED
    BY <2>1, <2>2, <2>3, <2>4, Zenon
<1>7. Ready(wf, e) /\ e.frames = s.frames
  <2>1. /\ DOMAIN e = Fields /\ e.locals = Bind(s.locals, {"error"}, code) /\ e.frames = s.frames
        /\ e.finished = s.finished /\ e.status = s.status /\ e.visits = s.visits
        /\ e.attempt = s.attempt /\ e.pending = s.pending /\ e.pc = s.pc /\ e.cursor = s.cursor
        /\ e.ctx = Bind(s.ctx, {"error"}, code) /\ e.changed = s.changed \cup {"error"}
    BY <1>0 DEF Fields
  <2>2. e.changed \subseteq DOMAIN e.ctx
    BY <2>1 DEF Bind, Troubled, Moving, Typed
  <2> HIDE DEF e
  <2> QED
    BY <2>1, <2>2, TracedReady DEF Troubled
<1> HIDE DEF e
<1>8. d \in 0..Len(e.frames) /\ d \in 1..d /\ d # 0
  BY <1>1, <1>7
<1>9. /\ Ready(wf, r) /\ Len(r.frames) = d /\ \A x \in 1..d : r.frames[x] = e.frames[x]
  BY <1>8, <1>7, <1>1, ResizeReady
<1> HIDE DEF r
<1>10. r.frames # <<>> /\ Top(r) = f
  <2>1. Len(r.frames) # 0
    BY <1>8, <1>9
  <2>2. r.frames # <<>> /\ Top(r) = r.frames[Len(r.frames)]
    BY <1>9, <2>1, MovingFrames
  <2> QED
    BY <1>7, <1>8, <1>9, <2>2 DEF f
<1>11. Ready(wf, v) /\ v.frames # <<>> /\ Top(v) = g
  BY <1>4, <1>9, <1>10, SetTopMoving
<1> HIDE DEF v
<1>12. Here(wf, v.frames, handlers[1])
  BY <1>3, <1>4, <1>11 DEF Here, Top
<1>13. Sound(wf, t) /\ t.pc = "drive"
  <2> HIDE DEF t
  <2> QED
    BY <1>6, <1>11, <1>12, GotoSound
<1> QED
  BY <1>13 DEF f, g, Caught

LEMMA RethrowSound ==
    ASSUME WellFormed(wf), NEW s, Ready(wf, s), NEW d \in 1..Len(s.frames), NEW code \in Texts,
           s.frames[d].kind = "try"
    PROVE  LET f == s.frames[d]
               r == Resize(s, d)
               finally == wf.nodes[f.owner].finally
               t == Goto(SetTop(r, [f EXCEPT !.phase = "finally", !.ids = finally,
                                             !.propagate = code]), finally[1])
               c == CloseFrame([r EXCEPT !.pending = code])
           IN  /\ finally # <<>> => Sound(wf, t) /\ t.pc = "drive"
               /\ Sound(wf, c) /\ c.current = f.owner
<1> DEFINE f == s.frames[d]
           r == Resize(s, d)
           finally == wf.nodes[f.owner].finally
           g == [f EXCEPT !.phase = "finally", !.ids = finally, !.propagate = code]
           v == SetTop(r, g)
           e == [r EXCEPT !.pending = code]
<1>1. /\ Shape(wf, s.frames) /\ s.frames \in Seq(FrameRecords(wf)) /\ Len(s.frames) \in Nat
      /\ DOMAIN s.frames = 1..Len(s.frames)
  BY MovingFrames
<1>2. /\ f \in FrameRecords(wf) /\ Opened(wf, f) /\ f.owner \in DOMAIN wf.nodes
      /\ f.kind = "try"
  BY <1>1, FrameFacts DEF Shape
<1> HIDE DEF f
<1>3. d \in 0..Len(s.frames) /\ d \in 1..d /\ d # 0
  BY <1>1
<1>4. Ready(wf, r) /\ Len(r.frames) = d /\ \A x \in 1..d : r.frames[x] = s.frames[x]
  BY <1>3, <1>1, ResizeReady
<1> HIDE DEF r
<1>5. r.frames # <<>> /\ Top(r) = f
  <2>1. Len(r.frames) # 0
    BY <1>3, <1>4
  <2>2. r.frames # <<>> /\ Top(r) = r.frames[Len(r.frames)]
    BY <1>4, <2>1, MovingFrames
  <2> QED
    BY <1>3, <1>4, <2>2 DEF f
<1>6. ASSUME finally # <<>>
      PROVE  Sound(wf, Goto(v, finally[1])) /\ Goto(v, finally[1]).pc = "drive"
  <2>1. finally \in Lists(wf.nodes[f.owner])
    BY <1>2, <1>6, TryLists DEF Opened
  <2>2. /\ finally \in Seq(DOMAIN wf.nodes) \ {<<>>} /\ finally[1] \in Members(finally)
        /\ finally[1] \in DOMAIN wf.nodes
    BY <1>2, <2>1, NodeFacts
  <2> HIDE DEF finally
  <2>3. /\ g \in FrameRecords(wf) /\ g.owner = f.owner /\ g.kind = "try" /\ g.ids = finally
        /\ Opened(wf, g)
    BY <1>2, <2>1, <2>2 DEF FrameRecords, Opened, Texts
  <2> HIDE DEF g
  <2>4. Ready(wf, v) /\ v.frames # <<>> /\ Top(v) = g
    BY <1>4, <1>5, <2>3, SetTopMoving
  <2> HIDE DEF v
  <2>5. Here(wf, v.frames, finally[1])
    BY <2>2, <2>3, <2>4 DEF Here, Top
  <2> QED
    BY <2>4, <2>5, GotoSound
<1>7. Sound(wf, CloseFrame(e)) /\ CloseFrame(e).current = f.owner
  <2>1. /\ DOMAIN e = Fields /\ e.frames = r.frames /\ e.cursor = r.cursor
        /\ e.locals = r.locals /\ e.pending = code /\ e.finished = r.finished
        /\ e.status = r.status /\ e.visits = r.visits /\ e.attempt = r.attempt
        /\ e.changed = r.changed /\ e.ctx = r.ctx /\ e.pc = r.pc
    BY <1>4 DEF Ready, Moving, Typed, Fields
  <2> HIDE DEF e
  <2>2. Ready(wf, e)
    BY <1>4, <2>1 DEF Ready, Moving, Typed, Texts
  <2>3. e.frames # <<>> /\ Top(e) = f
    BY <1>5, <2>1 DEF Top
  <2> QED
    BY <2>2, <2>3, CloseFrameSound
<1> QED
  BY <1>6, <1>7 DEF f, r

LEMMA HandleErrorSound ==
    ASSUME WellFormed(wf), NEW s, Troubled(wf, s), NEW code \in Texts, NEW guard
    PROVE  LET h == HandleError(s, code, guard)
           IN  /\ Sound(wf, h)
               /\ s.pc # "advance" /\ h.pc = "advance" =>
                      /\ h.current \in DOMAIN wf.nodes
                      /\ wf.nodes[h.current].type \in {"loop", "try"}
<1> DEFINE h == HandleError(s, code, guard)
           onError == IF Known(s.current) THEN Node(s.current).on_error ELSE Empty
<1>1. /\ Moving(wf, s) /\ Shape(wf, s.frames) /\ s.frames \in Seq(FrameRecords(wf))
      /\ Len(s.frames) \in Nat /\ DOMAIN s.frames = 1..Len(s.frames)
      /\ Bound(wf, s.frames, Len(s.frames), s.locals)
  BY MovingFrames DEF Troubled
<1>2. Empty \notin DOMAIN wf.nodes
  BY DEF WellFormed
<1>3. PICK d \in 0..Len(s.frames) :
         /\ d # 0 => Recovers(s.frames[d], code)
         /\ d = Deepest(s, LAMBDA f : Recovers(f, code))
  <2>1. DeepestOf(Recovering(s, code)) = Deepest(s, LAMBDA f : Recovers(f, code))
    BY DEF Deepest, DeepestOf, Recovering
  <2> QED
    BY <1>1, <2>1, RecoveringFacts
<1>4. CASE onError # Empty
  <2> DEFINE e == [s EXCEPT !.locals = Bind(@, {"error"}, code)]
  <2>1. h = ResolveJump(e, onError)
    BY <1>4 DEF HandleError
  <2>2. onError \in DOMAIN wf.nodes \cup {Empty}
    BY NodeFacts DEF Known, Node
  <2>3. /\ DOMAIN e = Fields /\ e.locals = Bind(s.locals, {"error"}, code)
        /\ e.frames = s.frames /\ e.finished = s.finished /\ e.status = s.status
        /\ e.visits = s.visits /\ e.attempt = s.attempt /\ e.pending = s.pending
        /\ e.pc = s.pc /\ e.cursor = s.cursor /\ e.changed = s.changed /\ e.ctx = s.ctx
    BY <1>1 DEF Moving, Typed, Fields
  <2>4. e.changed \subseteq DOMAIN e.ctx
    BY <1>1, <2>3 DEF Moving, Typed
  <2> HIDE DEF e, onError
  <2>5. Ready(wf, e)
    BY <1>1, <2>3, <2>4, TracedReady
  <2> QED
    BY <1>2, <2>1, <2>2, <2>5, ResolveJumpSound
<1>5. CASE onError = Empty /\ d = 0
  <2>1. h = Fail(s, code)
    BY <1>3, <1>5 DEF HandleError
  <2> QED
    BY <1>1, <2>1, FailSound
<1>6. CASE onError = Empty /\ d # 0
  <2> DEFINE r == Resize(s, d)
             f == s.frames[d]
             n == Node(f.owner)
             handlers == IF Routed(n, code) # <<>> THEN Routed(n, code) ELSE n.catch
             ph == Caught(s, d, handlers, code)
             pf == Goto(SetTop(r, [f EXCEPT !.phase = "finally", !.ids = n.finally,
                                            !.propagate = code]), n.finally[1])
             pc == CloseFrame([r EXCEPT !.pending = code])
  <2>1. h = CASE f.kind = "loop" -> NextIteration(s, LoopDepth(s, Empty), guard)
              [] f.kind = "try" /\ handlers # <<>> -> ph
              [] f.kind = "try" /\ handlers = <<>> /\ n.finally # <<>> -> pf
              [] f.kind = "try" /\ handlers = <<>> /\ n.finally = <<>> -> pc
    BY <1>3, <1>6 DEF HandleError, Caught
  <2>2. /\ d \in 1..Len(s.frames) /\ d \in DOMAIN s.frames
        /\ f.owner \in DOMAIN wf.nodes /\ Opened(wf, f) /\ Recovers(f, code)
    BY <1>1, <1>3, <1>6, FrameFacts DEF Shape
  <2> HIDE DEF f, handlers, ph, pf, pc
  <2>3. f.kind \in {"loop", "try"} /\ wf.nodes[f.owner].type = f.kind
    BY <2>2 DEF Recovers, Opened
  <2>4. wf.nodes[s.current].on_error = Empty \/ s.current \notin DOMAIN wf.nodes
    BY <1>6 DEF Known, Node
  <2>5. f.kind = "loop" \/ handlers = <<>> => Ready(wf, s)
    <3>1. CASE s.current \in DOMAIN wf.nodes
      BY <2>2, <2>3, <2>4, <3>1, QuietUnlessCaught DEF handlers
    <3>2. CASE s.current \notin DOMAIN wf.nodes
      BY <3>2 DEF Troubled, Refuses, Ready
    <3> QED
      BY <3>1, <3>2
  <2>6. CASE f.kind = "loop"
    <3> DEFINE ld == LoopDepth(s, Empty)
    <3>1. h = NextIteration(s, ld, guard)
      BY <2>1, <2>6
    <3>2. /\ ld \in 1..Len(s.frames) /\ s.frames[ld].kind = "loop" /\ ld \in DOMAIN s.frames
      <4>1. ld \in 0..Len(s.frames) /\ (ld # 0 => s.frames[ld].kind = "loop") /\ d <= ld
        BY <1>1, <2>2, <2>6, LoopDepthFacts DEF f
      <4> HIDE DEF ld
      <4> QED
        BY <1>1, <2>2, <4>1
    <3>3. s.frames[ld].owner \in DOMAIN wf.nodes /\ wf.nodes[s.frames[ld].owner].type = "loop"
      BY <1>1, <3>2, FrameFacts DEF Shape, Opened
    <3> HIDE DEF ld, h
    <3> QED
      BY <2>5, <2>6, <3>1, <3>2, <3>3, NextIterationSound DEF h
  <2>7. CASE f.kind = "try" /\ handlers # <<>>
    <3>1. h = ph
      BY <2>1, <2>7
    <3>2. handlers \in Lists(wf.nodes[f.owner])
      BY <2>3, <2>7, TryLists DEF handlers, Routed, Node
    <3>3. Sound(wf, ph) /\ ph.pc = "drive"
      BY <2>2, <2>7, <3>2, CatchSound DEF ph, f
    <3> HIDE DEF h
    <3> QED
      BY <3>1, <3>3 DEF h
  <2>8. CASE f.kind = "try" /\ handlers = <<>>
    <3>1. h = IF n.finally # <<>> THEN pf ELSE pc
      BY <2>1, <2>8
    <3>2. /\ n.finally # <<>> => Sound(wf, pf) /\ pf.pc = "drive"
          /\ Sound(wf, pc) /\ pc.current = f.owner
      BY <2>2, <2>5, <2>8, RethrowSound DEF pf, pc, f, Node
    <3> HIDE DEF h
    <3> QED
      BY <2>2, <2>3, <3>1, <3>2 DEF h
  <2> QED
    BY <2>3, <2>6, <2>7, <2>8
<1> QED
  BY <1>4, <1>5, <1>6

--------------------------------------------------------------------------------
(***************************************************************************)
(* A leaf task: its signal, its answer, its suspension                     *)
(***************************************************************************)
\* Anywhere but at a resumed prompt there is no answer without its trace.
LEMMA ReadyElsewhere ==
    ASSUME NEW w, NEW s, Sound(w, s), ~s.finished,
           \/ s.pc = "advance" \/ s.pc = "join"
           \/ s.pc = "drive" /\ (s.pending # Empty \/ s.cursor = Empty)
           \/ s.pc = "node" /\ w.nodes[s.current].type # "action"
    PROVE  Ready(w, s)
<1>1. Quiet(w, s.locals)
  BY DEF Sound, Answered, Asks
<1> QED
  BY <1>1 DEF Sound, Ready, Moving, Placed

LEMMA ConsumedReady ==
    ASSUME WellFormed(wf), NEW s, Sound(wf, s), ~s.finished, s.pc = "node"
    PROVE  LET c == Consumed(s, wf.nodes[s.current])
           IN  Ready(wf, c) /\ c.frames = s.frames /\ c.current = s.current /\ c.pc = "node"
<1> DEFINE n == wf.nodes[s.current]
           w == [s EXCEPT !.attempt = 1, !.ctx = Bind(@, n.writes, n.id),
                          !.changed = @ \cup n.writes]
           e == [w EXCEPT !.resumeNode = Empty, !.locals = Erase(@, {"input", "event"})]
           c == Consumed(s, n)
<1>1. DOMAIN s = Fields /\ s.current \in DOMAIN wf.nodes /\ n.id = s.current
  BY NodeFacts DEF Sound, Typed, Placed, Here
<1>2. Moving(wf, s) /\ Shape(wf, s.frames) /\ Bound(wf, s.frames, Len(s.frames), s.locals)
  BY DEF Sound, Moving, Placed
<1>3. /\ DOMAIN w = Fields /\ w.attempt = 1 /\ w.ctx = Bind(s.ctx, n.writes, n.id)
      /\ w.changed = s.changed \cup n.writes /\ w.frames = s.frames /\ w.current = s.current
      /\ w.pc = s.pc /\ w.locals = s.locals /\ w.finished = s.finished /\ w.status = s.status
      /\ w.visits = s.visits /\ w.pending = s.pending /\ w.cursor = s.cursor
      /\ w.resumeNode = s.resumeNode
  BY <1>1 DEF Fields
<1>4. w.changed \subseteq DOMAIN w.ctx
  BY <1>2, <1>3 DEF Bind, Moving, Typed
<1>5. c = IF s.resumeNode = n.id THEN e ELSE w
  BY DEF Consumed
<1> HIDE DEF w, c, n
<1>6. Moving(wf, w)
  BY <1>2, <1>3, <1>4 DEF Moving, Typed
<1>7. CASE s.resumeNode # n.id
  <2>1. Quiet(wf, s.locals)
    BY <1>1, <1>7 DEF Sound, Answered
  <2>2. Ready(wf, w)
    BY <1>2, <1>3, <1>6, <2>1 DEF Ready
  <2>3. Ready(wf, c) /\ c.frames = s.frames /\ c.current = s.current /\ c.pc = "node"
    BY <1>3, <1>5, <1>7, <2>2
  <2> QED
    BY <2>3 DEF c, n
<1>8. CASE s.resumeNode = n.id
  <2>1. /\ DOMAIN e = Fields /\ e.attempt = w.attempt /\ e.ctx = w.ctx /\ e.changed = w.changed
        /\ e.frames = w.frames /\ e.current = w.current /\ e.pc = w.pc
        /\ e.locals = Erase(w.locals, {"input", "event"}) /\ e.finished = w.finished
        /\ e.status = w.status /\ e.visits = w.visits /\ e.pending = w.pending
        /\ e.cursor = w.cursor
    BY <1>3 DEF Fields
  <2>2. /\ DOMAIN e.locals = DOMAIN w.locals \ {"input", "event"}
        /\ \A x \in DOMAIN e.locals : e.locals[x] = w.locals[x]
    BY <2>1 DEF Erase
  <2> HIDE DEF e
  <2>3. Quiet(wf, e.locals)
    BY <2>2 DEF Quiet
  <2>4. Bound(wf, s.frames, Len(s.frames), e.locals)
    <3>1. Reserved \cup DOMAIN e.locals = Reserved \cup DOMAIN s.locals
      BY <1>3, <2>2 DEF Reserved
    <3>2. \A x \in DOMAIN s.locals \ Reserved : e.locals[x] = s.locals[x]
      BY <1>3, <2>2 DEF Reserved
    <3>3. Len(s.frames) \in 0..Len(s.frames)
      BY <1>2, MovingFrames
    <3> QED
      BY <1>2, <3>1, <3>2, <3>3, ReservedNames
  <2>5. Ready(wf, e)
    BY <1>2, <1>3, <1>6, <2>1, <2>3, <2>4 DEF Ready, Moving, Typed
  <2>6. Ready(wf, c) /\ c.frames = s.frames /\ c.current = s.current /\ c.pc = "node"
    BY <1>3, <1>5, <1>8, <2>1, <2>5
  <2> QED
    BY <2>6 DEF c, n
<1> QED
  BY <1>7, <1>8

\* The signals other than errors, with where they lead.
LEMMA SignalFacts ==
    ASSUME WellFormed(wf), NEW id \in DOMAIN wf.nodes, NEW s,
           NEW sig \in Signals(s, wf.nodes[id]), sig.k # "error"
    PROVE  LET n == wf.nodes[id]
           IN  \/ sig.k = "jump" /\ sig.to \in DOMAIN wf.nodes \cup {Empty}
               \/ sig.k \in {"break_loop", "continue_loop", "terminate", "continue"}
               \/ sig.k = "timer" /\ sig.to = id
               \/ sig.k = "timer" /\ sig.to = Empty /\ Direct(n) = {n.next}
               \/ sig.k = "input" /\ sig.to = Empty
                  /\ n.type = "action" /\ n.prompt /\ ~n.on_event
               \/ /\ sig.k = "event" /\ sig.to = n.handler
                  /\ n.handler \in DOMAIN wf.nodes \cup {Empty}
                  /\ Direct(n) = {IF n.handler = Empty THEN n.next ELSE n.handler}
<1> DEFINE n == wf.nodes[id]
<1>1. /\ n.id = id /\ Edges(n) \subseteq DOMAIN wf.nodes \cup {Empty}
      /\ n.type = "loop_control" => n.action \in {"break_loop", "continue_loop"}
  BY NodeFacts
<1> HIDE DEF n
<1>2. sig \in Signals(s, n)
  BY DEF n
<1>3. \A k, to : Sig(k, to).k = k /\ Sig(k, to).to = to
  BY DEF Sig
<1>4. \A e \in Errors(n) : e.k = "error"
  BY <1>3 DEF Errors
<1>5. CASE n.type = "choice"
  <2>1. sig \in ChoiceSignals(n)
    BY <1>2, <1>5 DEF Signals
  <2>2. n.cases \cup {n.default} \subseteq Edges(n)
    BY <1>5 DEF Edges
  <2>3. sig.k = "jump" /\ sig.to \in n.cases \cup {n.default}
    BY <1>3, <2>1 DEF ChoiceSignals
  <2> QED
    BY <1>1, <2>2, <2>3
<1>6. CASE n.type = "loop_control"
  <2>1. sig \in LoopControlSignals(n)
    BY <1>2, <1>6 DEF Signals
  <2>2. sig.k \in {n.action, "continue"}
    BY <1>3, <2>1 DEF LoopControlSignals
  <2> QED
    BY <1>1, <1>6, <2>2
<1>7. CASE n.type = "terminate"
  BY <1>2, <1>3, <1>7 DEF Signals
<1>8. CASE n.type = "wait"
  <2>1. sig \in WaitSignals(n)
    BY <1>2, <1>8 DEF Signals
  <2>2. CASE n.until
    BY <1>1, <1>3, <2>1, <2>2 DEF WaitSignals, n
  <2>3. CASE ~n.until /\ n.durable
    <3>1. sig.k = "timer" /\ sig.to = Empty
      BY <1>3, <2>1, <2>3 DEF WaitSignals
    <3>2. Direct(n) = {n.next}
      BY <1>8, <2>3 DEF Direct
    <3> QED
      BY <3>1, <3>2 DEF n
  <2>4. CASE ~n.until /\ ~n.durable
    BY <1>3, <2>1, <2>4 DEF WaitSignals
  <2> QED
    BY <2>2, <2>3, <2>4
<1>9. CASE n.type = "action"
  <2> DEFINE onward == IF n.next_tasks = {} THEN {Sig("continue", Empty)}
                       ELSE {Sig("jump", t) : t \in n.next_tasks}
             invalid == IF n.validated THEN {Sig("error", "VALIDATION_ERROR")} ELSE {}
  <2>1. sig \in ActionSignals(s, n)
    BY <1>2, <1>9 DEF Signals
  <2>2. n.next_tasks \cup {n.handler} \subseteq Edges(n)
    BY <1>9 DEF Edges
  <2>3. CASE n.on_event
    <3>1. sig = Sig("event", n.handler)
      BY <1>4, <2>1, <2>3 DEF ActionSignals
    <3>2. Direct(n) = {IF n.handler = Empty THEN n.next ELSE n.handler}
      BY <1>9, <2>3 DEF Direct
    <3> QED
      BY <1>1, <1>3, <2>2, <3>1, <3>2 DEF n
  <2>4. CASE ~n.on_event /\ n.prompt /\ "input" \notin DOMAIN s.locals
    <3>1. sig = Sig("input", Empty)
      BY <1>4, <2>1, <2>4 DEF ActionSignals
    <3> QED
      BY <1>3, <1>9, <2>4, <3>1 DEF n
  <2>5. CASE ~n.on_event /\ ~(n.prompt /\ "input" \notin DOMAIN s.locals)
    <3>1. sig \in onward \cup invalid
      BY <1>4, <2>1, <2>5 DEF ActionSignals
    <3>2. sig \in onward
      BY <1>3, <3>1
    <3>3. sig.k = "continue" \/ (sig.k = "jump" /\ sig.to \in n.next_tasks)
      BY <1>3, <3>2
    <3> QED
      BY <1>1, <2>2, <3>3
  <2> QED
    BY <2>3, <2>4, <2>5
<1>10. CASE n.type \notin {"choice", "loop_control", "terminate", "wait", "action"}
  <2>1. sig \in {Sig("continue", Empty)} \cup Errors(n)
    BY <1>2, <1>10 DEF Signals
  <2> QED
    BY <1>3, <1>4, <2>1
<1> QED
  BY <1>5, <1>6, <1>7, <1>8, <1>9, <1>10

\* Going on without resolveJump stays in the innermost body.
LEMMA DirectHere ==
    ASSUME NEW w, NEW s, Ready(w, s), NEW id, Here(w, s.frames, id),
           NEW t \in DOMAIN w.nodes, t \in Direct(w.nodes[id]), Empty \notin DOMAIN w.nodes
    PROVE  Here(w, s.frames, t)
<1>1. SUFFICES ASSUME StaysInBody(w), s.frames # <<>>
               PROVE  t \in Members(s.frames[Len(s.frames)].ids)
  BY DEF Here
<1> DEFINE f == s.frames[Len(s.frames)]
<1>2. f.owner \in DOMAIN w.nodes /\ f.ids \in Lists(w.nodes[f.owner]) /\ id \in Members(f.ids)
  BY <1>1, MovingFrames, FrameFacts DEF Shape, Opened, Here
<1> HIDE DEF f
<1>3. Direct(w.nodes[id]) \subseteq Members(f.ids) \cup {Empty}
  BY <1>1, <1>2 DEF StaysInBody
<1> QED
  BY <1>3 DEF f

LEMMA SuspendSound ==
    ASSUME WellFormed(wf), NEW s, Ready(wf, s), Here(wf, s.frames, s.current),
           wf.nodes[s.current].enabled,
           NEW reason, NEW target,
           LET n == wf.nodes[s.current]
           IN  \/ reason = "timer" /\ target = s.current
               \/ reason = "timer" /\ target = Empty /\ Direct(n) = {n.next}
               \/ reason = "input" /\ target = Empty
                  /\ n.type = "action" /\ n.prompt /\ ~n.on_event
               \/ /\ reason = "event" /\ target = n.handler
                  /\ n.handler \in DOMAIN wf.nodes \cup {Empty}
                  /\ Direct(n) = {IF n.handler = Empty THEN n.next ELSE n.handler}
    PROVE  Sound(wf, Suspend(s, wf.nodes[s.current], reason, target))
<1> DEFINE n == wf.nodes[s.current]
           resume == CASE target # Empty -> target
                       [] target = Empty /\ reason = "input" -> n.id
                       [] target = Empty /\ reason # "input" -> n.next
           t == Suspend(s, n, reason, target)
<1>1. /\ s.current \in DOMAIN wf.nodes /\ n.id = s.current /\ Empty \notin DOMAIN wf.nodes
      /\ n.next \in DOMAIN wf.nodes \cup {Empty}
  BY NodeFacts DEF Here
<1>2. /\ DOMAIN t = Fields /\ t.frames = s.frames /\ t.locals = s.locals /\ t.finished = TRUE
      /\ t.status = (IF reason = "input" THEN "awaiting_input" ELSE "suspended")
      /\ t.cursor = resume /\ t.pc = "drive" /\ t.reason = reason /\ t.waiting = s.current
      /\ t.visits = s.visits /\ t.attempt = s.attempt /\ t.pending = s.pending
      /\ t.changed = s.changed /\ t.ctx = s.ctx
  BY <1>1 DEF Suspend, Ready, Moving, Typed, Fields
<1>3. resume # Empty => Here(wf, s.frames, resume)
  <2>1. SUFFICES ASSUME resume # Empty
                 PROVE  Here(wf, s.frames, resume)
    OBVIOUS
  <2>2. \/ resume = s.current
        \/ resume \in DOMAIN wf.nodes /\ resume \in Direct(n)
    <3> HIDE DEF n
    <3> QED
      BY <1>1, <2>1 DEF n
  <2> HIDE DEF n, resume
  <2>3. CASE resume = s.current
    BY <2>3
  <2>4. CASE resume \in DOMAIN wf.nodes /\ resume \in Direct(n)
    BY <1>1, <2>4, DirectHere DEF n
  <2> QED
    BY <2>2, <2>3, <2>4
<1>4. reason = "input" => Asks(wf, s.current)
  BY DEF Asks
<1>5. reason \in {"input", "timer", "event"}
  OBVIOUS
<1> HIDE DEF t, n, resume
<1>6. Typed(t)
  BY <1>2 DEF Ready, Moving, Typed, Statuses
<1>7. Placed(wf, t)
  BY <1>2, <1>3, <1>4, <1>5 DEF Placed
<1>8. Shape(wf, t.frames) /\ Bound(wf, t.frames, Len(t.frames), t.locals) /\ Answered(wf, t)
  BY <1>2 DEF Ready, Moving, Answered
<1> QED
  BY <1>6, <1>7, <1>8 DEF Sound, t, n

LEMMA DispatchSound ==
    ASSUME WellFormed(wf), NEW s, Ready(wf, s), s.pc = "node", Here(wf, s.frames, s.current),
           wf.nodes[s.current].enabled,
           NEW r, NEW sig \in Signals(r, wf.nodes[s.current]), sig.k # "error", NEW guard
    PROVE  Sound(wf, Dispatch(s, wf.nodes[s.current], sig, guard))
<1> DEFINE n == wf.nodes[s.current]
           d == LoopDepth(s, sig.to)
           t == Dispatch(s, n, sig, guard)
<1>1. s.current \in DOMAIN wf.nodes /\ Empty \notin DOMAIN wf.nodes
  BY DEF Here, WellFormed
<1>2. \/ sig.k = "jump" /\ sig.to \in DOMAIN wf.nodes \cup {Empty}
      \/ sig.k \in {"break_loop", "continue_loop", "terminate", "continue"}
      \/ sig.k = "timer" /\ sig.to = s.current
      \/ sig.k = "timer" /\ sig.to = Empty /\ Direct(n) = {n.next}
      \/ sig.k = "input" /\ sig.to = Empty
         /\ n.type = "action" /\ n.prompt /\ ~n.on_event
      \/ /\ sig.k = "event" /\ sig.to = n.handler
         /\ n.handler \in DOMAIN wf.nodes \cup {Empty}
         /\ Direct(n) = {IF n.handler = Empty THEN n.next ELSE n.handler}
  BY <1>1, SignalFacts
<1>3. /\ Moving(wf, s) /\ Bound(wf, s.frames, Len(s.frames), s.locals)
      /\ s.frames \in Seq(FrameRecords(wf)) /\ Len(s.frames) \in Nat
  BY MovingFrames DEF Ready
<1>4. d \in 0..Len(s.frames) /\ (d # 0 => s.frames[d].kind = "loop")
  BY <1>3, LoopDepthFacts
<1> HIDE DEF d
<1>5. CASE sig.k = "jump"
  <2>1. t = ResolveJump(s, sig.to)
    BY <1>5 DEF Dispatch
  <2> QED
    BY <1>1, <1>2, <1>5, <2>1, ResolveJumpSound
<1>6. CASE sig.k \in {"input", "timer", "event"}
  <2>1. t = Suspend(s, n, sig.k, sig.to)
    BY <1>6 DEF Dispatch
  <2>2. \/ sig.k = "timer" /\ sig.to = s.current
        \/ sig.k = "timer" /\ sig.to = Empty /\ Direct(n) = {n.next}
        \/ sig.k = "input" /\ sig.to = Empty
           /\ n.type = "action" /\ n.prompt /\ ~n.on_event
        \/ /\ sig.k = "event" /\ sig.to = n.handler
           /\ n.handler \in DOMAIN wf.nodes \cup {Empty}
           /\ Direct(n) = {IF n.handler = Empty THEN n.next ELSE n.handler}
    BY <1>2, <1>6
  <2> QED
    BY <2>1, <2>2, SuspendSound
<1>7. CASE sig.k = "terminate"
  <2> DEFINE e == [s EXCEPT !.status = "terminated", !.finished = TRUE, !.pc = "drive"]
  <2>1. t = IF sig.to = "success" THEN e ELSE Fail(s, "WORKFLOW_FAILED")
    BY <1>7 DEF Dispatch
  <2>2. /\ DOMAIN e = Fields /\ e.pc = "drive" /\ e.frames = s.frames /\ e.locals = s.locals
        /\ e.finished = TRUE /\ e.status = "terminated" /\ e.visits = s.visits
        /\ e.attempt = s.attempt /\ e.pending = s.pending /\ e.changed = s.changed /\ e.ctx = s.ctx
    BY DEF Ready, Moving, Typed, Fields
  <2>3. ~Waits(e) /\ e.status \in Statuses
    BY <2>2 DEF Waits, Statuses
  <2> HIDE DEF e
  <2>4. Sound(wf, e)
    BY <1>3, <2>2, <2>3, EndSound
  <2> QED
    BY <1>3, <2>1, <2>4, FailSound
<1>8. CASE sig.k \in {"break_loop", "continue_loop"} /\ d = 0
  <2>1. t = Fail(s, "ROUTING_ERROR")
    BY <1>8 DEF Dispatch, d
  <2> QED
    BY <1>3, <2>1, FailSound
<1>9. CASE sig.k = "break_loop" /\ d # 0
  <2> DEFINE r2 == Resize(s, d)
  <2>1. t = CloseFrame(r2)
    BY <1>9 DEF Dispatch, d
  <2>2. Ready(wf, r2) /\ Len(r2.frames) = d
    BY <1>3, <1>4, ResizeReady
  <2> HIDE DEF r2
  <2>3. r2.frames # <<>>
    BY <1>9, <2>2, MovingFrames
  <2> QED
    BY <2>1, <2>2, <2>3, CloseFrameSound
<1>10. CASE sig.k = "continue_loop" /\ d # 0
  <2>1. t = NextIteration(s, d, guard)
    BY <1>10 DEF Dispatch, d
  <2>2. d \in 1..Len(s.frames)
    BY <1>3, <1>4, <1>10
  <2> QED
    BY <1>4, <1>10, <2>1, <2>2, NextIterationSound
<1>11. CASE sig.k = "continue"
  <2>1. t = Advance(s)
    BY <1>11 DEF Dispatch
  <2> QED
    BY <2>1, AdvanceSound
<1> QED
  BY <1>2, <1>5, <1>6, <1>7, <1>8, <1>9, <1>10, <1>11

--------------------------------------------------------------------------------
(***************************************************************************)
(* The join of the branches                                                *)
(***************************************************************************)
\* One turn of the loop over the outcomes.
Outcome(j, b, n) ==
    CASE j.thrown # Empty -> j
      [] j.thrown = Empty /\ b.error # Empty /\ n.fail_fast ->
             [j EXCEPT !.thrown = "CAPABILITY_ERROR"]
      [] j.thrown = Empty /\ ~(b.error # Empty /\ n.fail_fast)
             /\ b.status \in {"awaiting_input", "suspended"} ->
             [j EXCEPT !.thrown = "VALIDATION_ERROR"]
      [] OTHER ->
             IF b.changed = {} THEN j
             ELSE [j EXCEPT !.conflicts = @ \cup Conflicts(j.run.ctx, b),
                            !.run.ctx = MergeFrom(@, b, n.merge_policy),
                            !.run.visits = @ + b.visits,
                            !.run.visited = @ \o b.visited]
Start(s) == [run |-> s, conflicts |-> {}, thrown |-> Empty]
JoinsTo(s, n, bs, m, join) ==
    join = [i \in 0..m |-> IF i = 0 THEN Start(s) ELSE Outcome(join[i - 1], bs[i], n)]

LEMMA JoinExists ==
    ASSUME NEW s, NEW n, NEW bs, NEW m \in Nat
    PROVE  \E join : JoinsTo(s, n, bs, m, join)
<1> DEFINE T == {k \in Nat : \E join : JoinsTo(s, n, bs, k, join)}
<1>1. 0 \in T
  <2> DEFINE join == [i \in 0..0 |-> Start(s)]
  <2>1. join = [i \in 0..0 |-> IF i = 0 THEN Start(s) ELSE Outcome(join[i - 1], bs[i], n)]
    OBVIOUS
  <2>2. JoinsTo(s, n, bs, 0, join)
    BY <2>1 DEF JoinsTo
  <2> QED
    BY <2>2
<1>2. ASSUME NEW k \in Nat, k \in T
      PROVE  k + 1 \in T
  <2>1. PICK old : JoinsTo(s, n, bs, k, old)
    BY <1>2
  <2> DEFINE last == Outcome(old[k], bs[k + 1], n)
             join == [i \in 0..(k + 1) |-> IF i = k + 1 THEN last ELSE old[i]]
  <2>2. \A i \in 0..k : old[i] = IF i = 0 THEN Start(s) ELSE Outcome(old[i - 1], bs[i], n)
    BY <2>1, Zenon DEF JoinsTo
  <2>3. ASSUME NEW i \in 0..(k + 1)
        PROVE  join[i] = IF i = 0 THEN Start(s) ELSE Outcome(join[i - 1], bs[i], n)
    <3>1. CASE i = k + 1
      <4>1. i # 0 /\ i - 1 = k /\ k \in 0..(k + 1) /\ k # k + 1
        BY <3>1
      <4>2. join[i] = last /\ join[i - 1] = old[k]
        BY <3>1, <4>1
      <4> QED
        BY <3>1, <4>1, <4>2
    <3>2. CASE i # k + 1
      <4>1. i \in 0..k /\ join[i] = old[i]
        BY <2>3, <3>2
      <4>2. i # 0 => join[i - 1] = old[i - 1]
        <5>1. i # 0 => i - 1 \in 0..(k + 1) /\ i - 1 # k + 1
          BY <4>1
        <5> QED
          BY <5>1
      <4> HIDE DEF join
      <4> QED
        BY <2>2, <4>1, <4>2
    <3> QED
      BY <3>1, <3>2
  <2>4. join = [i \in 0..(k + 1) |-> IF i = 0 THEN Start(s) ELSE Outcome(join[i - 1], bs[i], n)]
    <3>1. join = [i \in 0..(k + 1) |-> join[i]]
      OBVIOUS
    <3> HIDE DEF join
    <3> QED
      BY <2>3, <3>1
  <2>5. JoinsTo(s, n, bs, k + 1, join)
    BY <2>4 DEF JoinsTo
  <2> HIDE DEF join
  <2> QED
    BY <2>5
<1> HIDE DEF T
<1>3. Nat \subseteq T
  BY <1>1, <1>2, SetInduction
<1> QED
  BY <1>3 DEF T

\* What a branch that ended may leave of its keys in the context.
Writes(bs, k, i) == k \in bs[i].changed
Unwritten(bs, k, m) == \A i \in 1..m : ~Writes(bs, k, i)
WrittenOnly(bs, k, m, i) == Writes(bs, k, i) /\ \A e \in 1..m : Writes(bs, k, e) => e = i
Merged(s, n, bs, m, ctx) ==
    \A k \in DOMAIN ctx :
        /\ Unwritten(bs, k, m) => k \in DOMAIN s.ctx /\ ctx[k] = s.ctx[k]
        /\ \A i \in 1..m :
             WrittenOnly(bs, k, m, i) /\ (k \notin DOMAIN s.ctx \/ n.merge_policy # "skip_conflicts")
                 => ctx[k] = bs[i].ctx[k]

\* The run a join goes on with: its own, but for the context and the counts.
Continues(s, t) ==
    /\ DOMAIN t = Fields
    /\ \A x \in Fields \ {"ctx", "visits", "visited"} : t[x] = s[x]
    /\ t.visits \in Nat /\ DOMAIN s.ctx \subseteq DOMAIN t.ctx

JoinedTo(s, n, bs, m, j) ==
    /\ DOMAIN j = {"run", "conflicts", "thrown"}
    /\ j.thrown \in {Empty, "CAPABILITY_ERROR", "VALIDATION_ERROR"}
    /\ Continues(s, j.run)
    /\ j.thrown = Empty => Merged(s, n, bs, m, j.run.ctx)

LEMMA MergeStep ==
    ASSUME NEW s, NEW n, NEW bs, NEW m \in Nat, NEW ctx, Merged(s, n, bs, m, ctx),
           DOMAIN s.ctx \subseteq DOMAIN ctx,
           bs[m + 1].changed \subseteq DOMAIN bs[m + 1].ctx
    PROVE  LET b == bs[m + 1]
               new == MergeFrom(ctx, b, n.merge_policy)
           IN  /\ Merged(s, n, bs, m + 1, new) /\ DOMAIN ctx \subseteq DOMAIN new
               /\ b.changed = {} => Merged(s, n, bs, m + 1, ctx)
<1> DEFINE b == bs[m + 1]
           new == MergeFrom(ctx, b, n.merge_policy)
           skip == n.merge_policy = "skip_conflicts"
           taken == b.changed \ (IF skip THEN Conflicts(ctx, b) ELSE {})
<1>1. /\ DOMAIN new = DOMAIN ctx \cup taken
      /\ \A k \in taken : new[k] = b.ctx[k]
      /\ \A k \in DOMAIN ctx \ taken : new[k] = ctx[k]
  BY DEF MergeFrom
<1>2. /\ \A k \in b.changed : ~skip \/ k \notin DOMAIN ctx => k \in taken
      /\ taken \subseteq b.changed
  BY DEF Conflicts
<1>3. /\ m + 1 \in 1..(m + 1)
      /\ \A i \in 1..m : i \in 1..(m + 1) /\ i # m + 1
      /\ \A i \in 1..(m + 1) : i \in 1..m \/ i = m + 1
  OBVIOUS
<1>4. \A k : Unwritten(bs, k, m + 1) => Unwritten(bs, k, m) /\ k \notin b.changed
  BY <1>3 DEF Unwritten, Writes
<1>5. \A k : WrittenOnly(bs, k, m + 1, m + 1) => Unwritten(bs, k, m) /\ k \in b.changed
  BY <1>3 DEF WrittenOnly, Unwritten, Writes
<1>6. \A k, i : i \in 1..m /\ WrittenOnly(bs, k, m + 1, i) =>
                   WrittenOnly(bs, k, m, i) /\ k \notin b.changed
  BY <1>3 DEF WrittenOnly, Writes
<1> HIDE DEF b, new, taken, skip
<1>7. Merged(s, n, bs, m + 1, new)
  <2>1. SUFFICES ASSUME NEW k \in DOMAIN new
                 PROVE  /\ Unwritten(bs, k, m + 1) => k \in DOMAIN s.ctx /\ new[k] = s.ctx[k]
                        /\ \A i \in 1..(m + 1) :
                             /\ WrittenOnly(bs, k, m + 1, i)
                             /\ k \notin DOMAIN s.ctx \/ n.merge_policy # "skip_conflicts"
                             => new[k] = bs[i].ctx[k]
    BY DEF Merged
  <2>2. k \notin b.changed => k \in DOMAIN ctx /\ new[k] = ctx[k]
    BY <1>1, <1>2, <2>1
  <2>3. Unwritten(bs, k, m + 1) => k \in DOMAIN s.ctx /\ new[k] = s.ctx[k]
    BY <1>4, <2>2 DEF Merged
  <2>4. ASSUME NEW i \in 1..m, WrittenOnly(bs, k, m + 1, i),
               k \notin DOMAIN s.ctx \/ n.merge_policy # "skip_conflicts"
        PROVE  new[k] = bs[i].ctx[k]
    BY <1>6, <2>2, <2>4 DEF Merged
  <2>5. ASSUME WrittenOnly(bs, k, m + 1, m + 1),
               k \notin DOMAIN s.ctx \/ n.merge_policy # "skip_conflicts"
        PROVE  new[k] = bs[m + 1].ctx[k]
    <3>1. Unwritten(bs, k, m) /\ k \in b.changed
      BY <1>5, <2>5
    <3>2. skip => k \notin DOMAIN ctx
      BY <2>5, <3>1 DEF Merged, skip
    <3> QED
      BY <1>1, <1>2, <3>1, <3>2 DEF b
  <2> QED
    BY <1>3, <2>3, <2>4, <2>5
<1>8. ASSUME b.changed = {}
      PROVE  Merged(s, n, bs, m + 1, ctx)
  <2>1. DOMAIN new = DOMAIN ctx /\ \A k \in DOMAIN ctx : new[k] = ctx[k]
    BY <1>1, <1>2, <1>8
  <2> QED
    BY <1>7, <2>1 DEF Merged
<1>9. DOMAIN ctx \subseteq DOMAIN new
  BY <1>1
<1> QED
  BY <1>7, <1>8, <1>9 DEF b, new

LEMMA OutcomeStep ==
    ASSUME NEW s, NEW n, NEW bs, NEW m \in Nat, NEW j, JoinedTo(s, n, bs, m, j), Typed(bs[m + 1])
    PROVE  JoinedTo(s, n, bs, m + 1, Outcome(j, bs[m + 1], n))
<1> DEFINE b == bs[m + 1]
           o == Outcome(j, b, n)
           ctx == MergeFrom(j.run.ctx, b, n.merge_policy)
           joined == [j EXCEPT !.conflicts = @ \cup Conflicts(j.run.ctx, b),
                               !.run.ctx = MergeFrom(@, b, n.merge_policy),
                               !.run.visits = @ + b.visits,
                               !.run.visited = @ \o b.visited]
<1>1. CASE j.thrown # Empty
  <2>1. o = j
    BY <1>1 DEF Outcome
  <2> QED
    BY <1>1, <2>1 DEF JoinedTo
<1>2. CASE j.thrown = Empty /\ (\/ o = [j EXCEPT !.thrown = "CAPABILITY_ERROR"]
                                \/ o = [j EXCEPT !.thrown = "VALIDATION_ERROR"])
  <2>1. /\ DOMAIN o = {"run", "conflicts", "thrown"} /\ o.run = j.run
        /\ o.thrown \in {"CAPABILITY_ERROR", "VALIDATION_ERROR"}
    BY <1>2 DEF JoinedTo
  <2>2. o.thrown # Empty
    BY <2>1, StringsApart
  <2> HIDE DEF o
  <2> QED
    BY <2>1, <2>2 DEF JoinedTo, o
<1>3. CASE j.thrown = Empty /\ b.changed = {} /\ o = j
  <2>1. Merged(s, n, bs, m + 1, j.run.ctx)
    BY <1>3, MergeStep DEF JoinedTo, Continues, Typed
  <2> HIDE DEF o
  <2> QED
    BY <1>3, <2>1 DEF JoinedTo, o
<1>4. CASE j.thrown = Empty /\ o = joined
  <2>1. Continues(s, j.run) /\ DOMAIN j = {"run", "conflicts", "thrown"}
    BY DEF JoinedTo
  <2>2. /\ DOMAIN joined = {"run", "conflicts", "thrown"} /\ joined.thrown = j.thrown
        /\ DOMAIN joined.run = DOMAIN j.run
        /\ \A x \in Fields \ {"ctx", "visits", "visited"} : joined.run[x] = j.run[x]
        /\ joined.run.ctx = ctx /\ joined.run.visits = j.run.visits + b.visits
    BY <2>1 DEF Continues, Fields
  <2> HIDE DEF joined
  <2>3. Merged(s, n, bs, m + 1, ctx) /\ DOMAIN j.run.ctx \subseteq DOMAIN ctx
    BY <1>4, <2>1, MergeStep DEF JoinedTo, Continues, Typed
  <2> HIDE DEF ctx, o
  <2>4. Continues(s, joined.run)
    BY <2>1, <2>2, <2>3 DEF Continues, Typed
  <2> QED
    BY <1>4, <2>2, <2>3, <2>4 DEF JoinedTo, o
<1> QED
  <2>1. j.thrown = Empty =>
          \/ o = [j EXCEPT !.thrown = "CAPABILITY_ERROR"]
          \/ o = [j EXCEPT !.thrown = "VALIDATION_ERROR"]
          \/ o = IF b.changed = {} THEN j ELSE joined
    <3> HIDE DEF b, joined
    <3> QED
      BY DEF Outcome, joined
  <2> HIDE DEF o, joined
  <2> QED
    BY <1>1, <1>2, <1>3, <1>4, <2>1

LEMMA JoinUpToFacts ==
    ASSUME NEW s, Typed(s), NEW n, NEW bs, NEW N \in Nat, DOMAIN bs = 1..N, Len(bs) = N,
           \A i \in 1..N : Typed(bs[i])
    PROVE  JoinedTo(s, n, bs, N, JoinUpTo(s, n, bs))
<1> DEFINE join == CHOOSE join : JoinsTo(s, n, bs, N, join)
<1>1. JoinUpTo(s, n, bs) = join[N]
  BY DEF JoinUpTo, JoinsTo, Outcome, Start
<1>2. JoinsTo(s, n, bs, N, join)
  BY JoinExists
<1> HIDE DEF join
<1>3. \A i \in 0..N : join[i] = IF i = 0 THEN Start(s) ELSE Outcome(join[i - 1], bs[i], n)
  BY <1>2, Zenon DEF JoinsTo
<1> DEFINE T == {m \in Nat : m <= N => JoinedTo(s, n, bs, m, join[m])}
<1>4. 0 \in T
  <2>1. join[0] = Start(s)
    BY <1>3
  <2>2. JoinedTo(s, n, bs, 0, Start(s))
    <3>1. Merged(s, n, bs, 0, s.ctx)
      BY DEF Merged
    <3>2. Continues(s, s)
      BY DEF Continues, Typed
    <3> QED
      BY <3>1, <3>2 DEF JoinedTo, Start
  <2> QED
    BY <2>1, <2>2
<1>5. ASSUME NEW m \in Nat, m \in T
      PROVE  m + 1 \in T
  <2>1. SUFFICES ASSUME m + 1 <= N
                 PROVE  JoinedTo(s, n, bs, m + 1, join[m + 1])
    OBVIOUS
  <2>2. m + 1 \in 0..N /\ m + 1 # 0 /\ m + 1 - 1 = m /\ m + 1 \in 1..N /\ m <= N
    BY <2>1
  <2>3. join[m + 1] = Outcome(join[m], bs[m + 1], n)
    BY <1>3, <2>2
  <2>4. JoinedTo(s, n, bs, m, join[m]) /\ Typed(bs[m + 1])
    BY <1>5, <2>2
  <2> QED
    BY <2>3, <2>4, OutcomeStep
<1>6. Nat \subseteq T
  <2> HIDE DEF T
  <2> QED
    BY <1>4, <1>5, SetInduction
<1> QED
  BY <1>1, <1>6

--------------------------------------------------------------------------------
LEMMA JoinSound ==
    ASSUME WellFormed(wf), NEW s, Sound(wf, s), ~s.finished, s.pc = "join",
           NEW bs, NEW N \in Nat, DOMAIN bs = 1..N, Len(bs) = N,
           \A i \in 1..N : Typed(bs[i]), NEW guard
    PROVE  LET n == wf.nodes[s.current]
               t == Join(s, n, bs, guard)
           IN  /\ Sound(wf, t)
               /\ t.pc = "advance" /\ t.current = s.current => Merged(s, n, bs, N, t.ctx)
<1> DEFINE n == wf.nodes[s.current]
           t == Join(s, n, bs, guard)
           j == JoinUpTo(s, n, bs)
           code == IF j.thrown = Empty /\ j.conflicts # {} /\ n.merge_policy = "fail_conflicts"
                   THEN "VALIDATION_ERROR" ELSE j.thrown
           over == [j.run EXCEPT !.status = "terminated", !.finished = TRUE, !.pc = "drive"]
           r == j.run
<1>1. Ready(wf, s) /\ n.type = "parallel" /\ Typed(s)
  BY ReadyElsewhere DEF Sound, Placed
<1>2. JoinedTo(s, n, bs, N, j)
  BY <1>1, JoinUpToFacts
<1>3. \/ code # Empty /\ t = HandleError(r, code, guard)
      \/ code = Empty /\ t = over
      \/ code = Empty /\ t = Advance(r)
  BY DEF Join
<1>4. code \in Texts
  <2>1. j.thrown \in {Empty, "CAPABILITY_ERROR", "VALIDATION_ERROR"}
    BY <1>2 DEF JoinedTo
  <2> HIDE DEF j, n
  <2> QED
    BY <2>1 DEF Texts
<1>5. code = Empty => j.thrown = Empty
  BY StringsApart
<1> HIDE DEF n, j, code, t
<1>6. /\ DOMAIN r = Fields /\ r.visits \in Nat /\ DOMAIN s.ctx \subseteq DOMAIN r.ctx
      /\ r.pc = "join" /\ r.current = s.current /\ r.frames = s.frames /\ r.locals = s.locals
      /\ r.finished = s.finished /\ r.status = s.status /\ r.attempt = s.attempt
      /\ r.pending = s.pending /\ r.changed = s.changed /\ r.cursor = s.cursor
  BY <1>2 DEF JoinedTo, Continues, Fields
<1> HIDE DEF r
<1>7. Ready(wf, r)
  BY <1>1, <1>6 DEF Ready, Moving, Typed
<1>8. CASE code # Empty /\ t = HandleError(r, code, guard)
  <2>1. Troubled(wf, r)
    BY <1>7 DEF Troubled, Ready
  <2>2. /\ Sound(wf, t)
        /\ t.pc = "advance" => wf.nodes[t.current].type \in {"loop", "try"}
    BY <1>4, <1>6, <1>8, <2>1, HandleErrorSound
  <2>3. t.pc = "advance" => t.current # s.current
    BY <1>1, <2>2 DEF n
  <2> QED
    BY <2>2, <2>3 DEF t, n
<1>9. CASE code = Empty /\ t = over
  <2>1. /\ DOMAIN over = Fields /\ over.pc = "drive" /\ over.frames = r.frames
        /\ over.locals = r.locals /\ over.finished = TRUE /\ over.status = "terminated"
        /\ over.visits = r.visits /\ over.attempt = r.attempt /\ over.pending = r.pending
        /\ over.changed = r.changed /\ over.ctx = r.ctx
    BY <1>6 DEF r, Fields
  <2> HIDE DEF over
  <2>2. ~Waits(over) /\ over.status \in Statuses
    BY <2>1 DEF Waits, Statuses
  <2>3. Sound(wf, over)
    BY <1>7, <2>1, <2>2, EndSound DEF Ready
  <2> QED
    BY <1>9, <2>1, <2>3 DEF t, n
<1>10. CASE code = Empty /\ t = Advance(r)
  <2>1. Sound(wf, t)
    BY <1>7, <1>10, AdvanceSound
  <2>2. t.ctx = r.ctx
    BY <1>6, <1>10 DEF Advance, Fields
  <2>3. Merged(s, n, bs, N, t.ctx)
    BY <1>2, <1>5, <1>10, <2>2 DEF JoinedTo, r
  <2> QED
    BY <2>1, <2>3 DEF t, n
<1> QED
  BY <1>3, <1>8, <1>9, <1>10

LEMMA FreshTyped ==
    ASSUME NEW s, DOMAIN s = Fields, s.status = "running", s.finished = FALSE, s.pc = "drive",
           s.visits \in Nat, s.attempt = 1, s.pending \in Texts, s.changed = {}
    PROVE  Typed(s)
<1>1. s.status \in Statuses /\ s.changed \subseteq DOMAIN s.ctx /\ s.attempt \in Nat \ {0}
  BY DEF Statuses
<1> QED
  BY <1>1 DEF Typed

LEMMA BranchSound ==
    ASSUME WellFormed(wf), NEW s, Sound(wf, s), ~s.finished, s.pc = "node",
           wf.nodes[s.current].type = "parallel",
           NEW i \in DOMAIN wf.nodes[s.current].branches
    PROVE  Sound(wf, Branch(s, wf.nodes[s.current], i))
<1> DEFINE n == wf.nodes[s.current]
           ids == n.branches[i]
           f == Frame("branch", n.id, ids, 0)
           t == Branch(s, n, i)
<1>1. Ready(wf, s) /\ Here(wf, s.frames, s.current)
  BY ReadyElsewhere DEF Sound, Placed
<1>2. /\ ids \in Lists(n) /\ s.current \in DOMAIN wf.nodes /\ n.id = s.current
      /\ ids \in Seq(DOMAIN wf.nodes) /\ ids # <<>>
      /\ ids[1] \in Members(ids) /\ ids[1] \in DOMAIN wf.nodes
      /\ Empty \notin DOMAIN wf.nodes
  <2>1. ids \in Lists(n) /\ s.current \in DOMAIN wf.nodes
    BY <1>1 DEF Lists, Here
  <2> QED
    BY <2>1, NodeFacts
<1>3. /\ DOMAIN t = Fields /\ t.cursor = ids[1] /\ t.pc = "drive" /\ t.frames = <<f>>
      /\ t.status = "running" /\ t.finished = FALSE /\ t.visits = 0 /\ t.pending = Empty
      /\ t.locals = s.locals /\ t.ctx = s.ctx /\ t.changed = {} /\ t.attempt = 1
  BY DEF Branch, NewRun, Fields
<1> HIDE DEF ids, n, t
<1>4. f \in FrameRecords(wf) /\ Opened(wf, f) /\ f.owner = s.current /\ f.ids = ids
      /\ f.kind = "branch"
  BY <1>2 DEF Frame, FrameRecords, Opened, Texts, n
<1> HIDE DEF f
<1>5. /\ <<f>> \in Seq(FrameRecords(wf)) /\ Len(<<f>>) = 1 /\ DOMAIN <<f>> = 1..1
      /\ <<f>>[1] = f /\ <<f>> # <<>> /\ \A d \in 1..1 : d = 1
  BY <1>4
<1>6. Shape(wf, t.frames)
  BY <1>3, <1>4, <1>5 DEF Shape, Nested
<1>7. Bound(wf, t.frames, Len(t.frames), t.locals)
  BY <1>3, <1>4, <1>5 DEF Bound, HoldsItem
<1>8. Here(wf, t.frames, ids[1])
  BY <1>2, <1>3, <1>4, <1>5 DEF Here
<1>9. Typed(t)
  <2>1. t.pending \in Texts
    BY <1>3 DEF Texts
  <2>2. t.visits \in Nat
    BY <1>3
  <2> QED
    BY <1>3, <2>1, <2>2, FreshTyped
<1>10. Placed(wf, t) /\ Answered(wf, t)
  BY <1>1, <1>2, <1>3, <1>8 DEF Placed, Answered, Waits, Ready
<1> QED
  BY <1>6, <1>7, <1>9, <1>10 DEF Sound, t, n

--------------------------------------------------------------------------------
(***************************************************************************)
(* Resumption: the items of the loops are bound again, outermost first     *)
(***************************************************************************)
Bare(s) == [s EXCEPT !.locals = [x \in {} |-> 0]]
Item(t, f) == IF f.kind = "loop" THEN BindIteration(t, f) ELSE t
BindsTo(s, m, bind) ==
    bind = [d \in 0..m |-> IF d = 0 THEN Bare(s) ELSE Item(bind[d - 1], s.frames[d])]

LEMMA BindExists ==
    ASSUME NEW s, NEW m \in Nat
    PROVE  \E bind : BindsTo(s, m, bind)
<1> DEFINE T == {k \in Nat : \E bind : BindsTo(s, k, bind)}
<1>1. 0 \in T
  <2> DEFINE bind == [d \in 0..0 |-> Bare(s)]
  <2>1. bind = [d \in 0..0 |-> IF d = 0 THEN Bare(s) ELSE Item(bind[d - 1], s.frames[d])]
    OBVIOUS
  <2>2. BindsTo(s, 0, bind)
    BY <2>1 DEF BindsTo
  <2> QED
    BY <2>2
<1>2. ASSUME NEW k \in Nat, k \in T
      PROVE  k + 1 \in T
  <2>1. PICK old : BindsTo(s, k, old)
    BY <1>2
  <2> DEFINE last == Item(old[k], s.frames[k + 1])
             bind == [d \in 0..(k + 1) |-> IF d = k + 1 THEN last ELSE old[d]]
  <2>2. \A d \in 0..k : old[d] = IF d = 0 THEN Bare(s) ELSE Item(old[d - 1], s.frames[d])
    BY <2>1, Zenon DEF BindsTo
  <2>3. ASSUME NEW d \in 0..(k + 1)
        PROVE  bind[d] = IF d = 0 THEN Bare(s) ELSE Item(bind[d - 1], s.frames[d])
    <3>1. CASE d = k + 1
      <4>1. d # 0 /\ d - 1 = k /\ k \in 0..(k + 1) /\ k # k + 1
        BY <3>1
      <4>2. bind[d] = last /\ bind[d - 1] = old[k]
        BY <3>1, <4>1
      <4> QED
        BY <3>1, <4>1, <4>2
    <3>2. CASE d # k + 1
      <4>1. d \in 0..k /\ bind[d] = old[d]
        BY <2>3, <3>2
      <4>2. d # 0 => bind[d - 1] = old[d - 1]
        <5>1. d # 0 => d - 1 \in 0..(k + 1) /\ d - 1 # k + 1
          BY <4>1
        <5> QED
          BY <5>1
      <4> HIDE DEF bind
      <4> QED
        BY <2>2, <4>1, <4>2
    <3> QED
      BY <3>1, <3>2
  <2>4. bind = [d \in 0..(k + 1) |-> IF d = 0 THEN Bare(s) ELSE Item(bind[d - 1], s.frames[d])]
    <3>1. bind = [d \in 0..(k + 1) |-> bind[d]]
      OBVIOUS
    <3> HIDE DEF bind
    <3> QED
      BY <2>3, <3>1
  <2>5. BindsTo(s, k + 1, bind)
    BY <2>4 DEF BindsTo
  <2> HIDE DEF bind
  <2> QED
    BY <2>5
<1> HIDE DEF T
<1>3. Nat \subseteq T
  BY <1>1, <1>2, SetInduction
<1> QED
  BY <1>3 DEF T

\* t is s with the items of its first d frames bound, and nothing else.
ReboundTo(s, d, t) ==
    /\ DOMAIN t = Fields /\ \A x \in Fields \ {"locals"} : t[x] = s[x]
    /\ Bound(wf, s.frames, d, t.locals)
    /\ RefusalsLeaveTrace(wf) => "input" \notin DOMAIN t.locals

LEMMA ItemStep ==
    ASSUME NEW s, Shape(wf, s.frames), NEW d \in 1..Len(s.frames), NEW t, ReboundTo(s, d - 1, t)
    PROVE  ReboundTo(s, d, Item(t, s.frames[d]))
<1> DEFINE f == s.frames[d]
           N == IterationNames(f)
           new == Bind(t.locals, N, <<f.owner, f.index>>)
           r == BindIteration(t, f)
<1>1. CASE f.kind = "loop"
  <2>1. /\ DOMAIN r = Fields /\ \A x \in Fields \ {"locals"} : r[x] = s[x]
        /\ r.locals = new
    BY DEF BindIteration, ReboundTo, Fields
  <2>2. /\ Bound(wf, s.frames, d, new)
        /\ DOMAIN new = DOMAIN t.locals \cup N
        /\ RefusalsLeaveTrace(wf) => "input" \notin N
    BY <1>1, BindingBound DEF ReboundTo
  <2>3. Item(t, f) = r
    BY <1>1 DEF Item
  <2> HIDE DEF r, new, N
  <2>4. ReboundTo(s, d, r)
    BY <2>1, <2>2 DEF ReboundTo
  <2> QED
    BY <2>3, <2>4
<1>2. CASE f.kind # "loop"
  <2>1. Item(t, f) = t
    BY <1>2 DEF Item
  <2>2. d \in Nat /\ \A e \in 1..d : e \in 1..(d - 1) \/ e = d
    BY DEF Shape
  <2>3. Bound(wf, s.frames, d, t.locals)
    BY <1>2, <2>2 DEF ReboundTo, Bound, HoldsItem
  <2> QED
    BY <2>1, <2>3 DEF ReboundTo
<1> QED
  BY <1>1, <1>2

LEMMA ReboundFacts ==
    ASSUME NEW s, DOMAIN s = Fields, Shape(wf, s.frames)
    PROVE  ReboundTo(s, Len(s.frames), Rebound(s))
<1> DEFINE N == Len(s.frames)
           bind == CHOOSE bind : BindsTo(s, N, bind)
<1>1. N \in Nat
  BY FrameFacts DEF Shape
<1>2. Rebound(s) = bind[N]
  BY DEF Rebound, BindsTo, Bare, Item
<1>3. BindsTo(s, N, bind)
  BY <1>1, BindExists
<1> HIDE DEF bind
<1>4. \A d \in 0..N : bind[d] = IF d = 0 THEN Bare(s) ELSE Item(bind[d - 1], s.frames[d])
  BY <1>3, Zenon DEF BindsTo
<1> DEFINE T == {d \in Nat : d <= N => ReboundTo(s, d, bind[d])}
<1>5. 0 \in T
  <2>1. bind[0] = Bare(s)
    BY <1>1, <1>4
  <2>2. /\ DOMAIN Bare(s) = Fields /\ \A x \in Fields \ {"locals"} : Bare(s)[x] = s[x]
        /\ DOMAIN Bare(s).locals = {}
    BY DEF Bare, Fields
  <2>3. ReboundTo(s, 0, Bare(s))
    BY <2>2 DEF ReboundTo, Bound
  <2> QED
    BY <2>1, <2>3
<1>6. ASSUME NEW d \in Nat, d \in T
      PROVE  d + 1 \in T
  <2>1. SUFFICES ASSUME d + 1 <= N
                 PROVE  ReboundTo(s, d + 1, bind[d + 1])
    OBVIOUS
  <2>2. d + 1 \in 0..N /\ d + 1 # 0 /\ d + 1 - 1 = d /\ d + 1 \in 1..N /\ d <= N
    BY <1>1, <2>1
  <2>3. bind[d + 1] = Item(bind[d], s.frames[d + 1])
    BY <1>4, <2>2
  <2>4. ReboundTo(s, d, bind[d])
    BY <1>6, <2>2
  <2> DEFINE e == d + 1
  <2>5. e \in 1..N /\ ReboundTo(s, e - 1, bind[d])
    BY <2>2, <2>4
  <2> HIDE DEF e
  <2>6. ReboundTo(s, e, Item(bind[d], s.frames[e]))
    BY <2>5, ItemStep
  <2> QED
    BY <2>3, <2>6 DEF e
<1>7. Nat \subseteq T
  <2> HIDE DEF T, N
  <2> QED
    BY <1>5, <1>6, SetInduction
<1> QED
  BY <1>1, <1>2, <1>7

--------------------------------------------------------------------------------
LEMMA ResumedSound ==
    ASSUME WellFormed(wf), NEW s, Sound(wf, s), Waits(s),
           NEW how \in {"answer", "empty", "timeout"}, how = "timeout" => s.reason = "input"
    PROVE  /\ Sound(wf, Resumed(s, how)) /\ Resumed(s, how).pc = "drive"
<1> DEFINE new == NewRun(s.cursor, s.frames, s.ctx, s.locals, Budget, s.visits)
           b == Rebound(new)
           cursor == IF how = "timeout" \/ (how = "answer" /\ s.reason = "input")
                     THEN s.waiting ELSE s.cursor
           r == [b EXCEPT !.visited = s.visited, !.cursor = cursor]
           e == [r EXCEPT !.current = r.cursor]
           over == [r EXCEPT !.status = "completed", !.finished = TRUE]
           late == [e EXCEPT !.pending = "TIMEOUT"]
           answered == [e EXCEPT !.locals = Bind(@, {s.reason}, <<s.waiting, s.visits>>),
                                 !.resumeNode = IF s.reason = "input" THEN s.waiting ELSE Empty]
           t == Resumed(s, how)
<1>1. /\ Shape(wf, s.frames) /\ s.visits \in Nat /\ Empty \notin DOMAIN wf.nodes
      /\ s.reason \in {"input", "timer", "event"}
      /\ s.cursor # Empty => Here(wf, s.frames, s.cursor)
      /\ Here(wf, s.frames, s.waiting) /\ s.waiting \in DOMAIN wf.nodes
      /\ s.reason = "input" => Asks(wf, s.waiting)
  BY DEF Sound, Typed, Placed, WellFormed, Here
<1>2. \/ r.cursor = Empty /\ t = over
      \/ r.cursor # Empty /\ how = "timeout" /\ t = late
      \/ r.cursor # Empty /\ how = "answer" /\ t = answered
      \/ r.cursor # Empty /\ how = "empty" /\ t = e
  BY DEF Resumed
<1>3. /\ DOMAIN new = Fields /\ new.frames = s.frames /\ new.ctx = s.ctx /\ new.visits = s.visits
      /\ new.pc = "drive" /\ new.status = "running" /\ new.finished = FALSE
      /\ new.pending = Empty /\ new.changed = {} /\ new.attempt = 1
  BY DEF NewRun, Fields
<1> HIDE DEF new, t
<1>4. ReboundTo(new, Len(new.frames), b)
  BY <1>1, <1>3, ReboundFacts
<1>5. /\ DOMAIN b = Fields /\ Bound(wf, s.frames, Len(s.frames), b.locals)
      /\ RefusalsLeaveTrace(wf) => "input" \notin DOMAIN b.locals
      /\ b.frames = s.frames /\ b.ctx = s.ctx /\ b.visits = s.visits
      /\ b.pc = "drive" /\ b.status = "running" /\ b.finished = FALSE
      /\ b.pending = Empty /\ b.changed = {} /\ b.attempt = 1
  BY <1>3, <1>4 DEF ReboundTo, Fields
<1> HIDE DEF b, cursor
<1>6. /\ DOMAIN r = Fields /\ r.cursor = cursor /\ r.frames = s.frames /\ r.locals = b.locals
      /\ r.ctx = s.ctx /\ r.visits = s.visits
      /\ r.pc = "drive" /\ r.status = "running" /\ r.finished = FALSE
      /\ r.pending = Empty /\ r.changed = {} /\ r.attempt = 1
  BY <1>5 DEF Fields
<1> HIDE DEF r
<1>7. /\ cursor # Empty => Here(wf, s.frames, cursor)
      /\ cursor \in DOMAIN wf.nodes \cup {Empty}
      /\ how = "answer" /\ s.reason = "input" => cursor = s.waiting
  BY <1>1 DEF cursor, Here
<1>8. Ready(wf, r)
  <2>1. r.pending \in Texts
    BY <1>6 DEF Texts
  <2>2. Typed(r)
    BY <1>1, <1>6, <2>1, FreshTyped
  <2>3. Moving(wf, r)
    BY <1>1, <1>6, <1>7, <2>2 DEF Moving
  <2> QED
    BY <1>5, <1>6, <2>3 DEF Ready, Quiet
<1>9. /\ DOMAIN e = Fields /\ e.cursor = cursor /\ e.frames = s.frames /\ e.locals = b.locals
      /\ e.ctx = s.ctx /\ e.visits = s.visits
      /\ e.pc = "drive" /\ e.status = "running" /\ e.finished = FALSE
      /\ e.pending = Empty /\ e.changed = {} /\ e.attempt = 1
  BY <1>6 DEF Fields
<1>10. CASE r.cursor = Empty /\ t = over
  <2>1. /\ DOMAIN over = Fields /\ over.pc = "drive" /\ over.frames = r.frames
        /\ over.locals = r.locals /\ over.finished = TRUE /\ over.status = "completed"
        /\ over.visits = r.visits /\ over.attempt = r.attempt /\ over.pending = r.pending
        /\ over.changed = r.changed /\ over.ctx = r.ctx
    BY <1>6 DEF Fields
  <2> HIDE DEF over
  <2>2. ~Waits(over) /\ over.status \in Statuses
    BY <2>1 DEF Waits, Statuses
  <2>3. Sound(wf, over)
    BY <1>8, <2>1, <2>2, EndSound DEF Ready
  <2> QED
    BY <1>10, <2>1, <2>3 DEF t
<1> HIDE DEF e
<1>11. CASE r.cursor # Empty /\ t = late
  <2>1. /\ DOMAIN late = Fields /\ late.cursor = cursor /\ late.frames = s.frames
        /\ late.locals = b.locals /\ late.ctx = s.ctx /\ late.visits = s.visits
        /\ late.pc = "drive" /\ late.status = "running" /\ late.finished = FALSE
        /\ late.pending = "TIMEOUT" /\ late.changed = {} /\ late.attempt = 1
    BY <1>9 DEF Fields
  <2> HIDE DEF late
  <2>2. Typed(late)
    <3>1. late.pending \in Texts
      BY <2>1 DEF Texts
    <3> QED
      BY <1>1, <2>1, <3>1, FreshTyped
  <2>3. Placed(wf, late)
    BY <1>6, <1>7, <1>11, <2>1 DEF Placed, Waits
  <2>4. Answered(wf, late)
    BY <1>5, <2>1 DEF Answered, Quiet
  <2>5. Sound(wf, late)
    BY <1>1, <1>5, <2>1, <2>2, <2>3, <2>4 DEF Sound
  <2> QED
    BY <1>11, <2>1, <2>5 DEF t
<1>12. CASE r.cursor # Empty /\ how = "answer" /\ t = answered
  <2> DEFINE locals == Bind(b.locals, {s.reason}, <<s.waiting, s.visits>>)
  <2>1. /\ DOMAIN answered = Fields /\ answered.cursor = cursor /\ answered.frames = s.frames
        /\ answered.locals = locals /\ answered.ctx = s.ctx /\ answered.visits = s.visits
        /\ answered.pc = "drive" /\ answered.status = "running" /\ answered.finished = FALSE
        /\ answered.pending = Empty /\ answered.changed = {} /\ answered.attempt = 1
        /\ answered.resumeNode = (IF s.reason = "input" THEN s.waiting ELSE Empty)
    BY <1>9 DEF Fields
  <2>2. /\ DOMAIN locals = DOMAIN b.locals \cup {s.reason}
        /\ locals[s.reason] = <<s.waiting, s.visits>>
        /\ \A x \in DOMAIN b.locals \ {s.reason} : locals[x] = b.locals[x]
    BY DEF Bind
  <2> HIDE DEF answered, locals
  <2>3. Typed(answered)
    <3>1. answered.pending \in Texts
      BY <2>1 DEF Texts
    <3> QED
      BY <1>1, <2>1, <3>1, FreshTyped
  <2>4. Placed(wf, answered)
    BY <1>6, <1>7, <1>12, <2>1 DEF Placed, Waits
  <2>5. Bound(wf, s.frames, Len(s.frames), locals)
    <3>1. s.reason \in Reserved
      BY <1>1 DEF Reserved
    <3>2. /\ Reserved \cup DOMAIN locals = Reserved \cup DOMAIN b.locals
          /\ \A x \in DOMAIN b.locals \ Reserved : locals[x] = b.locals[x]
      BY <2>2, <3>1
    <3>3. Len(s.frames) \in 0..Len(s.frames)
      BY <1>1, FrameFacts DEF Shape
    <3> QED
      BY <1>1, <1>5, <3>2, <3>3, ReservedNames
  <2>6. Answered(wf, answered)
    <3>1. CASE s.reason = "input"
      BY <1>1, <1>6, <1>7, <1>12, <2>1, <2>2, <3>1 DEF Answered
    <3>2. CASE s.reason # "input"
      BY <1>5, <2>1, <2>2, <3>2 DEF Answered, Quiet
    <3> QED
      BY <3>1, <3>2
  <2>7. Sound(wf, answered)
    BY <1>1, <2>1, <2>3, <2>4, <2>5, <2>6 DEF Sound
  <2> QED
    BY <1>12, <2>1, <2>7 DEF t
<1>13. CASE r.cursor # Empty /\ t = e
  <2>1. Typed(e)
    <3>1. e.pending \in Texts
      BY <1>9 DEF Texts
    <3> QED
      BY <1>1, <1>9, <3>1, FreshTyped
  <2>2. Placed(wf, e)
    BY <1>6, <1>7, <1>9, <1>13 DEF Placed, Waits
  <2>3. Answered(wf, e)
    BY <1>5, <1>9 DEF Answered, Quiet
  <2>4. Sound(wf, e)
    BY <1>1, <1>5, <1>9, <2>1, <2>2, <2>3 DEF Sound
  <2> QED
    BY <1>9, <1>13, <2>4 DEF t
<1> QED
  BY <1>2, <1>10, <1>11, <1>12, <1>13

--------------------------------------------------------------------------------
(***************************************************************************)
(* Where control goes on, no run waits for branches that are not there     *)
(***************************************************************************)
Settled(s) == s.finished \/ s.pc # "join"

LEMMA FieldsKept ==
    ASSUME NEW s, DOMAIN s = Fields, NEW d, NEW f
    PROVE  /\ DOMAIN Resize(s, d) = Fields /\ DOMAIN SetTop(s, f) = Fields
           /\ DOMAIN BindIteration(s, f) = Fields /\ DOMAIN EraseIterationLocals(s, f) = Fields
           /\ Resize(s, d).pc = s.pc
BY DEF Resize, SetTop, BindIteration, EraseIterationLocals, Fields

LEMMA LeavesSettle ==
    ASSUME NEW s, DOMAIN s = Fields, NEW x
    PROVE  /\ Settled(Goto(s, x)) /\ Settled(Advance(s)) /\ Settled(Fail(s, x))
           /\ Settled(Complete(s)) /\ Settled(Thrown(s))
<1>1. /\ Goto(s, x).pc = "drive" /\ Advance(s).pc = "advance"
      /\ Fail(s, x).finished = TRUE /\ Complete(s).finished = TRUE /\ Thrown(s).finished = TRUE
  BY DEF Goto, Advance, Fail, Complete, Thrown, Fields
<1> QED
  BY <1>1 DEF Settled

LEMMA RoutingSettles ==
    ASSUME NEW s, DOMAIN s = Fields, NEW target, NEW d, NEW guard
    PROVE  /\ Settled(ResolveJump(s, target)) /\ Settled(CloseFrame(s))
           /\ Settled(NextIteration(s, d, guard)) /\ Settled(AdvanceTryPhase(s))
<1>1. Settled(ResolveJump(s, target))
  BY FieldsKept, LeavesSettle DEF ResolveJump
<1>2. ASSUME NEW r, DOMAIN r = Fields
      PROVE  Settled(CloseFrame(r))
  <2> DEFINE e == [EraseIterationLocals(Resize(r, Len(r.frames) - 1), Top(r))
                       EXCEPT !.current = Top(r).owner]
  <2>1. DOMAIN e = Fields
    BY <1>2, FieldsKept
  <2>2. CloseFrame(r) = IF r.frames = <<>> THEN Complete(r) ELSE Advance(e)
    BY DEF CloseFrame
  <2> HIDE DEF e
  <2> QED
    BY <1>2, <2>1, <2>2, LeavesSettle
<1>3. Settled(NextIteration(s, d, guard))
  <2> DEFINE r == Resize(s, d)
             f == [Top(r) EXCEPT !.index = @ + 1]
             b == BindIteration(SetTop(r, f), f)
  <2>1. /\ DOMAIN r = Fields /\ DOMAIN b = Fields
    BY FieldsKept
  <2>2. \/ NextIteration(s, d, guard) = Thrown(r)
        \/ NextIteration(s, d, guard) = Goto(b, f.ids[1])
        \/ NextIteration(s, d, guard) = CloseFrame(r)
    BY DEF NextIteration
  <2> HIDE DEF r, f, b
  <2> QED
    BY <1>2, <2>1, <2>2, LeavesSettle
<1>4. Settled(AdvanceTryPhase(s))
  <2> DEFINE f == Top(s)
             finally == Node(f.owner).finally
             g == SetTop(s, [f EXCEPT !.phase = "finally", !.ids = finally])
             e == [s EXCEPT !.pending = f.propagate, !.locals = Bind(@, {"error"}, f.propagate)]
  <2>1. DOMAIN g = Fields /\ DOMAIN e = Fields
    BY FieldsKept
  <2>2. \/ AdvanceTryPhase(s) = Goto(g, finally[1])
        \/ AdvanceTryPhase(s) = CloseFrame(s)
        \/ AdvanceTryPhase(s) = CloseFrame(e)
    BY DEF AdvanceTryPhase
  <2> HIDE DEF f, finally, g, e
  <2> QED
    BY <1>2, <2>1, <2>2, LeavesSettle
<1> QED
  BY <1>1, <1>2, <1>3, <1>4

LEMMA AdvanceSettles ==
    ASSUME NEW s, Ready(wf, s), s.pc = "advance", NEW guard
    PROVE  Settled(AdvanceAfterNode(s, guard))
<1> DEFINE f == Top(s)
           r == Resize(s, Len(s.frames) - 1)
           o == [s EXCEPT !.cursor = Empty, !.finished = TRUE, !.pc = "drive"]
           u == [r EXCEPT !.at = f.owner]
           t == AdvanceAfterNode(s, guard)
<1>1. DOMAIN s = Fields /\ (s.frames # <<>> => f.kind \in {"loop", "try", "body", "branch"})
  <2>1. DOMAIN s = Fields /\ s.frames \in Seq(FrameRecords(wf))
    BY DEF Ready, Moving, Typed, Shape
  <2> QED
    BY <2>1, FrameFacts DEF Top
<1>2. DOMAIN r = Fields /\ r.pc = "advance"
  BY <1>1, FieldsKept
<1>3. Settled(o)
  BY <1>1 DEF Settled, Fields
<1>4. Settled(u)
  <2>1. u.pc = "advance"
    BY <1>2 DEF Fields
  <2> QED
    BY <2>1 DEF Settled
<1> HIDE DEF r, o, u
<1>5. \/ \E x : t = Goto(s, x) \/ t = Goto(r, x) \/ t = ResolveJump(s, x)
      \/ t = Complete(s)
      \/ \E d : t = NextIteration(s, d, guard)
      \/ t = AdvanceTryPhase(s)
      \/ t = o \/ t = u
  <2>1. CASE s.frames = <<>>
    BY <2>1 DEF AdvanceAfterNode
  <2>2. CASE s.frames # <<>>
    BY <1>1, <2>2 DEF AdvanceAfterNode, r, o, u
  <2> QED
    BY <2>1, <2>2
<1> HIDE DEF t
<1>6. Settled(t)
  BY <1>1, <1>2, <1>3, <1>4, <1>5, LeavesSettle, RoutingSettles
<1> QED
  BY <1>6 DEF t

LEMMA ErrorSettles ==
    ASSUME NEW s, DOMAIN s = Fields, NEW S, s.frames \in Seq(S), NEW code, NEW guard
    PROVE  Settled(HandleError(s, code, guard))
<1> DEFINE d == DeepestOf(Recovering(s, code))
           r == Resize(s, d)
           f == s.frames[d]
           n == Node(f.owner)
           handlers == IF Routed(n, code) # <<>> THEN Routed(n, code) ELSE n.catch
           onError == IF Known(s.current) THEN Node(s.current).on_error ELSE Empty
           e == [s EXCEPT !.locals = Bind(@, {"error"}, code)]
           p == [r EXCEPT !.pending = code]
           x == SetTop(r, [f EXCEPT !.phase = "finally", !.ids = n.finally, !.propagate = code])
           t == HandleError(s, code, guard)
<1>1. Deepest(s, LAMBDA g : Recovers(g, code)) = d
  BY DEF Deepest, DeepestOf, Recovering
<1>2. d # 0 => f.kind \in {"try", "loop"}
  BY RecoveringFacts DEF Recovers
<1>3. DOMAIN r = Fields /\ DOMAIN e = Fields /\ DOMAIN p = Fields /\ DOMAIN x = Fields
  BY FieldsKept
<1>4. Caught(s, d, handlers, code).pc = "drive"
  <2> DEFINE g == SetTop(r, [f EXCEPT !.phase = "catch", !.ids = handlers])
  <2>1. DOMAIN g = Fields
    BY <1>3, FieldsKept
  <2> HIDE DEF g
  <2>2. DOMAIN Goto(g, handlers[1]) = Fields /\ Goto(g, handlers[1]).pc = "drive"
    BY <2>1 DEF Goto, Fields
  <2> HIDE DEF handlers
  <2> QED
    BY <2>2 DEF Caught, g, Fields
<1> HIDE DEF d
<1>5. \/ t = ResolveJump(e, onError)
      \/ t = Fail(s, code)
      \/ \E k : t = NextIteration(s, k, guard)
      \/ t = Caught(s, d, handlers, code)
      \/ t = Goto(x, n.finally[1])
      \/ t = CloseFrame(p)
  BY <1>1, <1>2 DEF HandleError, Caught
<1> HIDE DEF r, handlers, onError, e, p, x, t
<1>6. Settled(t)
  BY <1>3, <1>4, <1>5, LeavesSettle, RoutingSettles DEF Settled
<1> QED
  BY <1>6 DEF t

--------------------------------------------------------------------------------
LEMMA DispatchSettles ==
    ASSUME WellFormed(wf), NEW s, DOMAIN s = Fields, NEW id \in DOMAIN wf.nodes,
           NEW r, NEW sig \in Signals(r, wf.nodes[id]), sig.k # "error", NEW guard
    PROVE  Settled(Dispatch(s, wf.nodes[id], sig, guard))
<1> DEFINE n == wf.nodes[id]
           over == [s EXCEPT !.status = "terminated", !.finished = TRUE, !.pc = "drive"]
           u == Suspend(s, n, sig.k, sig.to)
           t == Dispatch(s, n, sig, guard)
<1>1. Settled(over) /\ Settled(u)
  <2>1. over.pc = "drive" /\ u.pc = "drive"
    BY DEF Suspend, Fields
  <2> QED
    BY <2>1 DEF Settled
<1>2. sig.k \in {"jump", "timer", "input", "event", "break_loop", "continue_loop", "terminate",
                 "continue"}
  BY SignalFacts
<1> HIDE DEF over, u
<1>3. \/ t = ResolveJump(s, sig.to) \/ t = u \/ t = over
      \/ \E code : t = Fail(s, code)
      \/ \E d : t = CloseFrame(Resize(s, d))
      \/ \E d : t = NextIteration(s, d, guard)
      \/ t = Advance(s)
  BY <1>2 DEF Dispatch, over, u
<1>4. \A d : DOMAIN Resize(s, d) = Fields
  BY FieldsKept
<1> HIDE DEF t
<1>5. Settled(t)
  BY <1>1, <1>3, <1>4, LeavesSettle, RoutingSettles
<1> QED
  BY <1>5 DEF t

LEMMA JoinSettles ==
    ASSUME NEW s, Typed(s), NEW S, s.frames \in Seq(S), NEW n,
           NEW bs, NEW N \in Nat, DOMAIN bs = 1..N, Len(bs) = N,
           \A i \in 1..N : Typed(bs[i]), NEW guard
    PROVE  Settled(Join(s, n, bs, guard))
<1> DEFINE r == JoinUpTo(s, n, bs).run
           over == [r EXCEPT !.status = "terminated", !.finished = TRUE, !.pc = "drive"]
           t == Join(s, n, bs, guard)
<1>1. DOMAIN r = Fields /\ r.frames = s.frames
  BY JoinUpToFacts DEF JoinedTo, Continues, Fields
<1>2. Settled(over)
  BY <1>1 DEF Settled, Fields
<1>3. \/ \E code : t = HandleError(r, code, guard)
      \/ t = over
      \/ t = Advance(r)
  BY DEF Join
<1> HIDE DEF r, over, t
<1>4. Settled(t)
  BY <1>1, <1>2, <1>3, LeavesSettle, ErrorSettles
<1> QED
  BY <1>4 DEF t

--------------------------------------------------------------------------------
(***************************************************************************)
(* The initial state and the actions                                       *)
(***************************************************************************)
LEMMA InitSound ==
    ASSUME Init, \A w \in Workflows : WellFormed(w), MaxAnswers \in Nat
    PROVE  IInv
<1> DEFINE none == [x \in {} |-> 0]
           given == [k \in {"input"} |-> "given"]
<1>1. /\ wf \in Workflows /\ WellFormed(wf) /\ answers \in 0..MaxAnswers
      /\ Empty \notin DOMAIN wf.nodes
  BY DEF Init, WellFormed
<1>2. ASSUME NEW c \in DOMAIN wf.nodes \cup {Empty}
      PROVE  LET s == NewRun(c, <<>>, given, none, Budget, 0)
             IN  Ready(wf, s) /\ s.cursor = c /\ s.pc = "drive" /\ s.finished = FALSE
  <2> DEFINE s == NewRun(c, <<>>, given, none, Budget, 0)
  <2>1. /\ DOMAIN s = Fields /\ s.cursor = c /\ s.pc = "drive" /\ s.frames = <<>>
        /\ s.status = "running" /\ s.finished = FALSE /\ s.visits = 0 /\ s.pending = Empty
        /\ s.locals = none /\ s.changed = {} /\ s.attempt = 1
    BY DEF NewRun, Fields
  <2>2. DOMAIN s.locals = {}
    BY <2>1
  <2> HIDE DEF s
  <2>3. s.pending \in Texts /\ s.visits \in Nat
    BY <2>1 DEF Texts
  <2>4. Typed(s)
    BY <2>1, <2>3, FreshTyped
  <2>5. <<>> \in Seq(FrameRecords(wf)) /\ Len(<<>>) = 0 /\ DOMAIN <<>> = {}
    OBVIOUS
  <2>6. Shape(wf, s.frames) /\ Bound(wf, s.frames, Len(s.frames), s.locals)
    BY <2>1, <2>5 DEF Shape, Nested, Bound
  <2> QED
    BY <1>2, <2>1, <2>2, <2>4, <2>6 DEF Ready, Moving, Quiet, s
<1>3. PICK start \in Starts :
          LET cursor == IF start = Empty THEN wf.entry ELSE start
              s == NewRun(cursor, <<>>, given, none, Budget, 0)
          IN  runs = [p \in {<<>>} |->
                         CASE cursor # Empty /\ Known(cursor) -> s
                           [] start # Empty /\ ~Known(start) -> Fail(s, "ROUTING_ERROR")
                           [] OTHER -> Complete(s)]
  BY DEF Init
<1> DEFINE cursor == IF start = Empty THEN wf.entry ELSE start
           s == NewRun(cursor, <<>>, given, none, Budget, 0)
<1>4. /\ DOMAIN runs = {<<>>}
      /\ \/ cursor # Empty /\ Known(cursor) /\ runs[<<>>] = s
         \/ runs[<<>>] = Fail(s, "ROUTING_ERROR")
         \/ runs[<<>>] = Complete(s)
  BY <1>3
<1>5. Sound(wf, runs[<<>>]) /\ (runs[<<>>].finished \/ runs[<<>>].pc = "drive")
  <2>1. CASE Known(cursor) /\ runs[<<>>] = s
    <3>1. Ready(wf, s) /\ s.cursor = cursor /\ s.pc = "drive" /\ s.finished = FALSE
      BY <1>2, <2>1 DEF Known
    <3>2. s.frames = <<>>
      BY DEF NewRun
    <3> HIDE DEF s, cursor
    <3>3. Here(wf, s.frames, s.cursor)
      BY <2>1, <3>1, <3>2 DEF Here, Known
    <3>4. Placed(wf, s) /\ Answered(wf, s)
      BY <3>1, <3>3 DEF Placed, Answered, Ready, Moving, Waits
    <3> QED
      BY <2>1, <3>1, <3>4 DEF Sound, Ready, Moving
  <2>2. CASE runs[<<>>] = Fail(s, "ROUTING_ERROR") \/ runs[<<>>] = Complete(s)
    <3> DEFINE e == NewRun(Empty, <<>>, given, none, Budget, 0)
               t == runs[<<>>]
    <3>1. Moving(wf, e) /\ Bound(wf, e.frames, Len(e.frames), e.locals)
      BY <1>2 DEF Ready
    <3>2. /\ DOMAIN s = Fields /\ s.status = "running" /\ s.frames = e.frames
          /\ s.locals = e.locals /\ s.visits = e.visits /\ s.attempt = e.attempt
          /\ s.pending = e.pending /\ s.changed = e.changed /\ s.ctx = e.ctx
      BY DEF NewRun, Fields
    <3> HIDE DEF e, s, cursor
    <3>3. /\ DOMAIN t = Fields /\ t.finished = TRUE /\ t.status \in {"failed", "completed"}
          /\ t.pc = "drive" /\ t.frames = s.frames /\ t.locals = s.locals /\ t.visits = s.visits
          /\ t.attempt = s.attempt /\ t.pending = s.pending /\ t.changed = s.changed
          /\ t.ctx = s.ctx
      BY <2>2, <3>2 DEF Fail, Complete, Fields
    <3> HIDE DEF t
    <3>4. t.status \in Statuses /\ ~Waits(t)
      BY <3>3 DEF Statuses, Waits
    <3>5. Sound(wf, t)
      BY <3>1, <3>2, <3>3, <3>4, EndSound
    <3> QED
      BY <3>3, <3>5 DEF t
  <2> QED
    BY <1>4, <2>1, <2>2
<1>6. <<>> \in Seq(Nat)
  OBVIOUS
<1> QED
  BY <1>1, <1>4, <1>5, <1>6 DEF IInv

--------------------------------------------------------------------------------
\* A step that leaves one run sound and all others alone.
LEMMA SetKeeps ==
    ASSUME IInv, NEW p \in DOMAIN runs, NEW t, Set(p, t), Sound(wf, t), Settled(t)
    PROVE  IInv'
<1>1. /\ DOMAIN runs' = DOMAIN runs /\ runs'[p] = t /\ wf' = wf /\ answers' = answers
      /\ \A q \in DOMAIN runs \ {p} : runs'[q] = runs[q]
  BY DEF Set
<1>2. /\ wf' \in Workflows /\ WellFormed(wf') /\ answers' \in 0..MaxAnswers
      /\ <<>> \in DOMAIN runs'
  BY <1>1 DEF IInv
<1>3. ASSUME NEW q \in DOMAIN runs'
      PROVE  /\ q \in Seq(Nat)
             /\ Sound(wf', runs'[q])
             /\ ~runs'[q].finished /\ runs'[q].pc = "join" =>
                    \A i \in DOMAIN wf'.nodes[runs'[q].current].branches : Append(q, i) \in DOMAIN runs'
  <2>1. CASE q = p
    BY <1>1, <2>1 DEF IInv, Settled
  <2>2. CASE q # p
    BY <1>1, <1>3, <2>2 DEF IInv
  <2> QED
    BY <2>1, <2>2
<1> QED
  BY <1>2, <1>3 DEF IInv

LEMMA RouteErrorKeeps ==
    ASSUME IInv, NEW p \in DOMAIN runs, RouteError(p)
    PROVE  IInv'
<1> DEFINE s == runs[p]
           e == [s EXCEPT !.pending = Empty]
<1>1. PICK g \in Guards : Set(p, HandleError(e, s.pending, g))
  BY DEF RouteError
<1>2. WellFormed(wf) /\ Sound(wf, s) /\ s.pending # Empty /\ s.pc = "drive" /\ ~s.finished
  BY DEF IInv, RouteError, Live
<1> HIDE DEF s
<1>3. Ready(wf, s)
  BY <1>2, ReadyElsewhere
<1>4. /\ DOMAIN e = Fields /\ e.pending = Empty /\ e.frames = s.frames /\ e.locals = s.locals
      /\ e.ctx = s.ctx /\ e.changed = s.changed /\ e.visits = s.visits /\ e.attempt = s.attempt
      /\ e.pc = s.pc /\ e.status = s.status /\ e.finished = s.finished /\ e.cursor = s.cursor
  BY <1>3 DEF Ready, Moving, Typed, Fields
<1> HIDE DEF e
<1>5. Ready(wf, e)
  <2>1. e.pending \in Texts
    BY <1>4 DEF Texts
  <2> QED
    BY <1>3, <1>4, <2>1 DEF Ready, Moving, Typed
<1>6. Troubled(wf, e) /\ s.pending \in Texts
  BY <1>3, <1>5 DEF Ready, Moving, Typed, Troubled
<1>7. Sound(wf, HandleError(e, s.pending, g))
  BY <1>2, <1>6, HandleErrorSound
<1>8. Settled(HandleError(e, s.pending, g))
  <2>1. DOMAIN e = Fields /\ e.frames \in Seq(FrameRecords(wf))
    BY <1>4, <1>5, MovingFrames
  <2> QED
    BY <2>1, ErrorSettles
<1> QED
  BY <1>1, <1>7, <1>8, SetKeeps

LEMMA TakeCursorKeeps ==
    ASSUME IInv, NEW p \in DOMAIN runs, TakeCursor(p)
    PROVE  IInv'
<1> DEFINE s == runs[p]
           r == [s EXCEPT !.current = s.cursor, !.visits = @ + 1]
           v == [r EXCEPT !.visited = Append(@, r.current)]
           u == [v EXCEPT !.pc = "node"]
           t == runs'[p]
<1>1. /\ WellFormed(wf) /\ Sound(wf, s) /\ s.pending = Empty /\ s.pc = "drive" /\ ~s.finished
      /\ DOMAIN s = Fields /\ s.visits \in Nat
      /\ s.cursor \in DOMAIN wf.nodes \cup {Empty}
      /\ s.cursor # Empty => Here(wf, s.frames, s.cursor)
  BY DEF IInv, TakeCursor, Live, Sound, Typed, Placed
<1>2. /\ Set(p, t)
      /\ \/ s.cursor = Empty /\ t = Complete(s)
         \/ s.cursor # Empty /\ t = Fail(r, "LIMIT_EXCEEDED")
         \/ s.cursor # Empty /\ Node(r.current).enabled /\ t = u
         \/ s.cursor # Empty /\ ~Node(r.current).enabled /\ t = Advance(v)
  <2>1. Set(p, t)
    BY DEF TakeCursor, Set
  <2>2. s.cursor # Empty <=> Known(s.cursor)
    BY <1>1 DEF Known, WellFormed
  <2>3. PICK g \in Guards :
            t = CASE s.cursor = Empty -> Complete(s)
                  [] s.cursor # Empty /\ ~Known(s.cursor) ->
                         HandleError([s EXCEPT !.cursor = Empty], "ROUTING_ERROR", g)
                  [] Known(s.cursor) /\ r.visits > r.budget -> Fail(r, "LIMIT_EXCEEDED")
                  [] OTHER -> IF Node(r.current).enabled THEN u ELSE Advance(v)
    BY DEF TakeCursor, Set
  <2> HIDE DEF s, r, v, u, t
  <2> QED
    BY <2>1, <2>2, <2>3
<1> HIDE DEF s, t
<1>3. /\ DOMAIN r = Fields /\ r.current = s.cursor /\ r.visits = s.visits + 1
      /\ r.pending = s.pending /\ r.frames = s.frames /\ r.locals = s.locals
      /\ r.ctx = s.ctx /\ r.changed = s.changed /\ r.attempt = s.attempt
      /\ r.pc = s.pc /\ r.status = s.status /\ r.finished = s.finished /\ r.cursor = s.cursor
      /\ r.resumeNode = s.resumeNode
  BY <1>1 DEF Fields
<1> HIDE DEF r
<1>4. /\ DOMAIN v = Fields /\ v.current = s.cursor /\ v.visits = s.visits + 1
      /\ v.pending = s.pending /\ v.frames = s.frames /\ v.locals = s.locals
      /\ v.ctx = s.ctx /\ v.changed = s.changed /\ v.attempt = s.attempt
      /\ v.pc = s.pc /\ v.status = s.status /\ v.finished = s.finished /\ v.cursor = s.cursor
      /\ v.resumeNode = s.resumeNode
  BY <1>3 DEF Fields
<1> HIDE DEF v
<1>5. /\ DOMAIN u = Fields /\ u.current = s.cursor /\ u.visits = s.visits + 1
      /\ u.pending = s.pending /\ u.frames = s.frames /\ u.locals = s.locals
      /\ u.ctx = s.ctx /\ u.changed = s.changed /\ u.attempt = s.attempt
      /\ u.pc = "node" /\ u.status = s.status /\ u.finished = s.finished /\ u.cursor = s.cursor
      /\ u.resumeNode = s.resumeNode
  BY <1>4 DEF Fields
<1> HIDE DEF u
<1>6. /\ s.visits + 1 \in Nat /\ s.visits + 1 - 1 = s.visits
      /\ Shape(wf, s.frames) /\ Bound(wf, s.frames, Len(s.frames), s.locals)
      /\ Answered(wf, s) /\ Typed(s) /\ s.status = "running"
  BY <1>1 DEF Sound, Placed
<1>7. Moving(wf, r) /\ Moving(wf, v)
  BY <1>1, <1>3, <1>4, <1>6 DEF Moving, Typed
<1>8. CASE s.cursor = Empty /\ t = Complete(s)
  <2>1. Ready(wf, s)
    BY <1>1, <1>8, ReadyElsewhere
  <2>2. Sound(wf, Complete(s)) /\ Settled(Complete(s))
    BY <1>1, <2>1, CompleteSound, LeavesSettle
  <2> QED
    BY <1>2, <1>8, <2>2, SetKeeps
<1>9. CASE t = Fail(r, "LIMIT_EXCEEDED")
  <2>1. Sound(wf, Fail(r, "LIMIT_EXCEEDED")) /\ Settled(Fail(r, "LIMIT_EXCEEDED"))
    BY <1>3, <1>6, <1>7, FailSound, LeavesSettle
  <2> QED
    BY <1>2, <1>9, <2>1, SetKeeps
<1>10. CASE s.cursor # Empty /\ Node(r.current).enabled /\ t = u
  <2>1. Typed(u)
    BY <1>5, <1>6 DEF Typed
  <2>2. Placed(wf, u)
    BY <1>1, <1>3, <1>5, <1>6, <1>10 DEF Placed, Waits, Node
  <2>3. Answered(wf, u)
    BY <1>1, <1>5, <1>6 DEF Answered
  <2>4. Sound(wf, u) /\ Settled(u)
    BY <1>5, <1>6, <2>1, <2>2, <2>3 DEF Sound, Settled
  <2> QED
    BY <1>2, <1>10, <2>4, SetKeeps
<1>11. CASE s.cursor # Empty /\ ~Node(r.current).enabled /\ t = Advance(v)
  <2>1. Quiet(wf, s.locals)
    BY <1>1, <1>3, <1>6, <1>11 DEF Answered, Asks, Node
  <2>2. Ready(wf, v)
    BY <1>4, <1>6, <1>7, <2>1 DEF Ready
  <2>3. Sound(wf, Advance(v)) /\ Settled(Advance(v))
    BY <1>4, <2>2, AdvanceSound, LeavesSettle
  <2> QED
    BY <1>2, <1>11, <2>3, SetKeeps
<1> QED
  BY <1>2, <1>8, <1>9, <1>10, <1>11

--------------------------------------------------------------------------------
\* A construct opens a frame for one of its lists.
LEMMA PushReady ==
    ASSUME WellFormed(wf), NEW s, Ready(wf, s), Here(wf, s.frames, s.current),
           NEW kind \in {"loop", "try", "body"}, NEW ids \in Lists(wf.nodes[s.current]),
           NEW total \in Nat,
           wf.nodes[s.current].type = CASE kind = "loop" -> "loop" [] kind = "try" -> "try"
                                        [] kind = "body" -> "condition"
    PROVE  LET f == Frame(kind, wf.nodes[s.current].id, ids, total)
               t == PushFrame(s, f)
           IN  /\ Moving(wf, t) /\ t.frames # <<>> /\ Top(t) = f /\ f.kind = kind
               /\ Bound(wf, t.frames, Len(t.frames) - 1, t.locals) /\ Quiet(wf, t.locals)
               /\ kind # "loop" => Ready(wf, t)
               /\ ids[1] \in DOMAIN wf.nodes
<1> DEFINE n == wf.nodes[s.current]
           f == Frame(kind, n.id, ids, total)
           t == PushFrame(s, f)
<1>1. /\ s.current \in DOMAIN wf.nodes /\ n.id = s.current
      /\ ids \in Seq(DOMAIN wf.nodes) /\ ids # <<>> /\ ids[1] \in DOMAIN wf.nodes
  BY NodeFacts DEF Here
<1>2. /\ f \in FrameRecords(wf) /\ Opened(wf, f) /\ f.owner = s.current /\ f.kind = kind
  <2>1. /\ f.kind = kind /\ f.owner = s.current /\ f.ids = ids
    BY <1>1 DEF Frame
  <2>2. f \in FrameRecords(wf)
    BY <1>1 DEF Frame, FrameRecords, Texts
  <2> HIDE DEF f, n
  <2>3. Opened(wf, f)
    BY <2>1 DEF Opened, n
  <2> QED
    BY <2>1, <2>2, <2>3
<1> HIDE DEF f
<1>3. /\ DOMAIN t = Fields /\ t.frames = Append(s.frames, f) /\ t.locals = s.locals
      /\ t.cursor = s.cursor /\ t.finished = s.finished /\ t.status = s.status
      /\ t.visits = s.visits /\ t.attempt = s.attempt /\ t.pending = s.pending /\ t.pc = s.pc
      /\ t.changed = s.changed /\ t.ctx = s.ctx
  BY DEF PushFrame, Ready, Moving, Typed, Fields
<1> HIDE DEF t
<1>4. /\ Shape(wf, s.frames) /\ s.frames \in Seq(FrameRecords(wf)) /\ Len(s.frames) \in Nat
  BY MovingFrames
<1> DEFINE gs == Append(s.frames, f)
<1>5. /\ Shape(wf, gs) /\ Len(gs) = Len(s.frames) + 1 /\ gs[Len(gs)] = f
      /\ \A d \in 1..Len(s.frames) : gs[d] = s.frames[d]
  BY <1>2, <1>4, PushedShape
<1> HIDE DEF gs
<1>6. t.frames = gs /\ Len(gs) \in Nat /\ Len(gs) - 1 = Len(s.frames) /\ gs # <<>>
  <2>1. t.frames = gs /\ Len(gs) \in Nat /\ Len(gs) - 1 = Len(s.frames)
    BY <1>3, <1>4, <1>5 DEF gs
  <2> QED
    BY <1>4, <2>1, <1>5
<1>7. Moving(wf, t)
  BY <1>3, <1>5, <1>6 DEF Ready, Moving, Typed
<1>8. Bound(wf, gs, Len(gs) - 1, t.locals) /\ Quiet(wf, t.locals)
  BY <1>3, <1>5, <1>6 DEF Ready, Bound
<1>9. kind # "loop" => Bound(wf, gs, Len(gs), t.locals)
  <2>1. \A d \in 1..Len(gs) : d \in 1..(Len(gs) - 1) \/ d = Len(gs)
    BY <1>6
  <2> QED
    BY <1>2, <1>5, <1>8, <2>1 DEF Bound, HoldsItem
<1> QED
  BY <1>1, <1>2, <1>5, <1>6, <1>7, <1>8, <1>9 DEF Top, Ready, t, f, n

\* What a construct finds when it is executed.
LEMMA AtConstruct ==
    ASSUME IInv, NEW p \in DOMAIN runs, Live(p, "node"),
           wf.nodes[runs[p].current].type # "action"
    PROVE  LET s == runs[p]
           IN  /\ WellFormed(wf) /\ Ready(wf, s) /\ Troubled(wf, s) /\ DOMAIN s = Fields
               /\ s.frames \in Seq(FrameRecords(wf)) /\ Here(wf, s.frames, s.current)
               /\ s.current \in DOMAIN wf.nodes /\ Empty \notin DOMAIN wf.nodes
               /\ \A c \in wf.nodes[s.current].may : c \in Texts
<1> DEFINE s == runs[p]
<1>1. WellFormed(wf) /\ Sound(wf, s) /\ ~s.finished /\ s.pc = "node"
  BY DEF IInv, Live
<1>2. Here(wf, s.frames, s.current) /\ s.current \in DOMAIN wf.nodes
  BY <1>1 DEF Sound, Placed, Here
<1> HIDE DEF s
<1>3. Ready(wf, s)
  BY <1>1, ReadyElsewhere DEF s
<1>4. Troubled(wf, s) /\ DOMAIN s = Fields /\ s.frames \in Seq(FrameRecords(wf))
  BY <1>3, MovingFrames DEF Troubled, Ready, Moving, Typed
<1>5. wf.nodes[s.current].may \subseteq Texts /\ Empty \notin DOMAIN wf.nodes
  BY <1>1, <1>2, NodeFacts DEF Texts
<1> QED
  BY <1>1, <1>2, <1>3, <1>4, <1>5 DEF s

LEMMA TroubleKeeps ==
    ASSUME IInv, NEW p \in DOMAIN runs, NEW s, Troubled(wf, s), NEW code \in Texts, NEW g,
           Set(p, HandleError(s, code, g))
    PROVE  IInv'
<1>1. Sound(wf, HandleError(s, code, g))
  BY HandleErrorSound DEF IInv
<1>2. Settled(HandleError(s, code, g))
  <2>1. DOMAIN s = Fields /\ s.frames \in Seq(FrameRecords(wf))
    BY MovingFrames DEF Troubled, Moving, Typed
  <2> QED
    BY <2>1, ErrorSettles
<1> QED
  BY <1>1, <1>2, SetKeeps

LEMMA JumpKeeps ==
    ASSUME IInv, NEW p \in DOMAIN runs, NEW s, Ready(wf, s),
           NEW target \in DOMAIN wf.nodes \cup {Empty}, Set(p, ResolveJump(s, target))
    PROVE  IInv'
<1>1. Sound(wf, ResolveJump(s, target))
  BY ResolveJumpSound DEF IInv, WellFormed
<1>2. Settled(ResolveJump(s, target))
  BY RoutingSettles DEF Ready, Moving, Typed
<1> QED
  BY <1>1, <1>2, SetKeeps

LEMMA AdvanceKeeps ==
    ASSUME IInv, NEW p \in DOMAIN runs, NEW s, Ready(wf, s), Set(p, Advance(s))
    PROVE  IInv'
<1>1. Sound(wf, Advance(s)) /\ Settled(Advance(s))
  BY AdvanceSound, LeavesSettle DEF Ready, Moving, Typed
<1> QED
  BY <1>1, SetKeeps

LEMMA StepLoopKeeps ==
    ASSUME IInv, NEW p \in DOMAIN runs, StepLoop(p)
    PROVE  IInv'
<1> DEFINE s == runs[p]
           n == wf.nodes[s.current]
           f(total) == Frame("loop", n.id, n.body, total)
           u(total) == PushFrame(s, f(total))
           b(total) == BindIteration(u(total), f(total))
<1>1. /\ n.type = "loop"
      /\ \/ Set(p, Advance(s))
         \/ \E total \in n.totals : Set(p, ResolveJump(b(total), n.body[1]))
         \/ \E c \in n.may, g \in Guards : Set(p, HandleError(s, c, g))
  BY DEF StepLoop, Node
<1>2. /\ WellFormed(wf) /\ Ready(wf, s) /\ Troubled(wf, s) /\ Here(wf, s.frames, s.current)
      /\ s.current \in DOMAIN wf.nodes /\ \A c \in n.may : c \in Texts
  BY <1>1, AtConstruct DEF StepLoop
<1> HIDE DEF s
<1>3. n.body \in Lists(n) /\ n.totals \subseteq Nat
  BY <1>1, <1>2, NodeFacts DEF Lists
<1>4. ASSUME NEW total \in n.totals
      PROVE  Ready(wf, b(total)) /\ n.body[1] \in DOMAIN wf.nodes
  <2> DEFINE g == f(total)
             t == u(total)
  <2>1. ASSUME NEW ids \in Lists(n), NEW k \in Nat
        PROVE  LET h == Frame("loop", n.id, ids, k)
                   v == PushFrame(s, h)
               IN  /\ Moving(wf, v) /\ v.frames # <<>> /\ Top(v) = h /\ h.kind = "loop"
                   /\ Bound(wf, v.frames, Len(v.frames) - 1, v.locals) /\ Quiet(wf, v.locals)
                   /\ ids[1] \in DOMAIN wf.nodes
    BY <1>1, <1>2, PushReady
  <2>2. /\ Moving(wf, t) /\ t.frames # <<>> /\ Top(t) = g /\ g.kind = "loop"
        /\ Bound(wf, t.frames, Len(t.frames) - 1, t.locals) /\ Quiet(wf, t.locals)
        /\ n.body[1] \in DOMAIN wf.nodes
    BY <1>3, <2>1
  <2>3. b(total) = BindIteration(t, g)
    OBVIOUS
  <2> HIDE DEF t, g, b
  <2> QED
    BY <2>2, <2>3, BindingReady
<1> HIDE DEF b, n
<1> QED
  BY <1>1, <1>2, <1>4, AdvanceKeeps, JumpKeeps, TroubleKeeps

LEMMA StepTryKeeps ==
    ASSUME IInv, NEW p \in DOMAIN runs, StepTry(p)
    PROVE  IInv'
<1> DEFINE s == runs[p]
           n == wf.nodes[s.current]
           u == PushFrame(s, Frame("try", n.id, n.body, 0))
<1>1. n.type = "try" /\ Set(p, ResolveJump(u, n.body[1]))
  BY DEF StepTry, Node
<1>2. /\ WellFormed(wf) /\ Ready(wf, s) /\ Here(wf, s.frames, s.current)
  BY <1>1, AtConstruct DEF StepTry
<1>3. n.body \in Lists(n)
  BY <1>1, TryLists
<1>4. Ready(wf, u) /\ n.body[1] \in DOMAIN wf.nodes
  BY <1>1, <1>2, <1>3, PushReady
<1> HIDE DEF u, n
<1> QED
  BY <1>1, <1>4, JumpKeeps

LEMMA StepConditionKeeps ==
    ASSUME IInv, NEW p \in DOMAIN runs, StepCondition(p)
    PROVE  IInv'
<1> DEFINE s == runs[p]
           n == wf.nodes[s.current]
           push(body) == PushFrame(s, Frame("body", n.id, body, 0))
<1>1. n.type = "condition"
  BY DEF StepCondition, Node
<1>2. /\ WellFormed(wf) /\ Ready(wf, s) /\ Troubled(wf, s) /\ Here(wf, s.frames, s.current)
      /\ s.current \in DOMAIN wf.nodes /\ \A c \in n.may : c \in Texts
  BY <1>1, AtConstruct DEF StepCondition
<1>3. /\ \A body \in {n.then, n.else} : body # <<>> => body \in Lists(n)
      /\ {n.on_true, n.on_false} \subseteq DOMAIN wf.nodes \cup {Empty}
  <2>1. Edges(n) \subseteq DOMAIN wf.nodes \cup {Empty}
    BY <1>2, NodeFacts
  <2>2. {n.on_true, n.on_false} \subseteq Edges(n)
    BY <1>1 DEF Edges
  <2>3. \A body \in {n.then, n.else} : body # <<>> => body \in Lists(n)
    BY <1>1 DEF Lists
  <2> QED
    BY <2>1, <2>2, <2>3
<1>4. ASSUME NEW body \in Lists(n)
      PROVE  Ready(wf, push(body)) /\ body[1] \in DOMAIN wf.nodes
  BY <1>1, <1>2, <1>4, PushReady
<1>5. CASE \E c \in n.may, g \in Guards : Set(p, HandleError(s, c, g))
  BY <1>2, <1>5, TroubleKeeps
<1>6. CASE \E taken \in BOOLEAN :
               LET body == IF taken THEN n.then ELSE n.else
                   target == IF taken THEN n.on_true ELSE n.on_false
               IN  Set(p, CASE body # <<>> -> ResolveJump(push(body), body[1])
                            [] body = <<>> /\ target # Empty -> ResolveJump(s, target)
                            [] body = <<>> /\ target = Empty -> Advance(s))
  <2>1. PICK body \in {n.then, n.else}, target \in {n.on_true, n.on_false} :
            Set(p, CASE body # <<>> -> ResolveJump(push(body), body[1])
                     [] body = <<>> /\ target # Empty -> ResolveJump(s, target)
                     [] body = <<>> /\ target = Empty -> Advance(s))
    BY <1>6
  <2>2. CASE body # <<>>
    <3>1. Set(p, ResolveJump(push(body), body[1]))
      BY <2>1, <2>2
    <3>2. Ready(wf, push(body)) /\ body[1] \in DOMAIN wf.nodes
      BY <1>3, <1>4, <2>2
    <3> HIDE DEF push
    <3> QED
      BY <3>1, <3>2, JumpKeeps
  <2>3. CASE body = <<>> /\ target # Empty
    <3>1. Set(p, ResolveJump(s, target))
      BY <2>1, <2>3
    <3> QED
      BY <1>2, <1>3, <3>1, JumpKeeps
  <2>4. CASE body = <<>> /\ target = Empty
    <3>1. Set(p, Advance(s))
      BY <2>1, <2>4
    <3> QED
      BY <1>2, <3>1, AdvanceKeeps
  <2> QED
    BY <2>2, <2>3, <2>4
<1> QED
  BY <1>5, <1>6 DEF StepCondition, Node

--------------------------------------------------------------------------------
LEMMA ActivateKeeps ==
    ASSUME IInv, NEW p \in DOMAIN runs, Activate(p)
    PROVE  IInv'
<1> DEFINE s == runs[p]
           n == wf.nodes[s.current]
           again == [s EXCEPT !.attempt = @ + 1]
           e == [s EXCEPT !.attempt = 1]
           c == Consumed(s, n)
<1>1. PICK sig \in Signals(s, n), g \in Guards :
          Set(p, CASE sig.k = "error" /\ Retries(s, n, sig.to) -> again
                   [] sig.k = "error" /\ ~Retries(s, n, sig.to) -> HandleError(e, sig.to, g)
                   [] sig.k # "error" -> Dispatch(c, n, sig, g))
  BY DEF Activate, Node
<1>2. /\ WellFormed(wf) /\ Sound(wf, s) /\ ~s.finished /\ s.pc = "node"
      /\ n.type \notin {"loop", "try", "condition", "parallel"}
  BY DEF IInv, Activate, Live, Node
<1>3. /\ s.current \in DOMAIN wf.nodes /\ Here(wf, s.frames, s.current) /\ n.enabled
      /\ Moving(wf, s) /\ Bound(wf, s.frames, Len(s.frames), s.locals)
      /\ s.frames \in Seq(FrameRecords(wf)) /\ Typed(s) /\ Answered(wf, s)
  BY <1>2, MovingFrames DEF Sound, Placed, Here, Moving
<1>4. CASE sig.k = "error" /\ Retries(s, n, sig.to)
  <2>1. Set(p, again)
    BY <1>1, <1>4
  <2>2. /\ DOMAIN again = Fields /\ again.attempt = s.attempt + 1
        /\ \A x \in Fields \ {"attempt"} : again[x] = s[x]
    BY <1>3 DEF Typed, Fields
  <2>3. again.attempt \in Nat \ {0}
    BY <1>3, <2>2 DEF Typed
  <2> HIDE DEF again, s
  <2>4. /\ again.frames = s.frames /\ again.locals = s.locals /\ again.cursor = s.cursor
        /\ again.pc = s.pc /\ again.status = s.status /\ again.finished = s.finished
        /\ again.visits = s.visits /\ again.pending = s.pending /\ again.ctx = s.ctx
        /\ again.changed = s.changed /\ again.current = s.current
        /\ again.resumeNode = s.resumeNode
    BY <2>2 DEF Fields
  <2>5. Typed(again)
    BY <1>3, <2>2, <2>3, <2>4 DEF Typed
  <2>6. Placed(wf, again)
    BY <1>2, <2>4 DEF Sound, Placed, Waits
  <2>7. Answered(wf, again)
    BY <1>3, <2>4 DEF Answered
  <2>8. Sound(wf, again) /\ Settled(again)
    BY <1>2, <2>4, <2>5, <2>6, <2>7 DEF Sound, Settled
  <2> QED
    BY <2>1, <2>8, SetKeeps
<1>5. CASE sig.k = "error" /\ ~Retries(s, n, sig.to)
  <2>1. Set(p, HandleError(e, sig.to, g))
    BY <1>1, <1>5
  <2>2. /\ DOMAIN e = Fields /\ e.attempt = 1 /\ e.frames = s.frames /\ e.locals = s.locals
        /\ e.cursor = s.cursor /\ e.pc = s.pc /\ e.status = s.status /\ e.finished = s.finished
        /\ e.visits = s.visits /\ e.pending = s.pending /\ e.ctx = s.ctx
        /\ e.changed = s.changed /\ e.current = s.current
    BY <1>3 DEF Typed, Fields
  <2> HIDE DEF e
  <2>3. Moving(wf, e)
    BY <1>3, <2>2 DEF Moving, Typed
  <2>4. Refuses(wf, s.current) \/ Quiet(wf, s.locals)
    <3>1. CASE Quiet(wf, s.locals)
      BY <3>1
    <3>2. CASE ~Quiet(wf, s.locals)
      <4>1. n.type = "action" /\ n.prompt /\ ~n.on_event
        BY <1>2, <1>3, <3>2 DEF Answered, Asks
      <4>2. sig \in ActionSignals(s, n)
        BY <1>1, <4>1 DEF Signals
      <4>3. \A k, to : Sig(k, to).k = k
        BY DEF Sig
      <4>4. n.may # {} \/ n.validated
        BY <1>5, <4>1, <4>2, <4>3 DEF ActionSignals, Errors
      <4> QED
        BY <1>3, <4>1, <4>4 DEF Refuses
    <3> QED
      BY <3>1, <3>2
  <2>5. Troubled(wf, e)
    BY <1>3, <2>2, <2>3, <2>4 DEF Troubled
  <2>6. sig.to \in Texts
    <3>1. n.may \subseteq Texts
      BY <1>2, <1>3, NodeFacts DEF Texts
    <3>2. \A k, to : Sig(k, to).k = k /\ Sig(k, to).to = to
      BY DEF Sig
    <3>3. sig \in Errors(n) \/ sig.to \in {"ROUTING_ERROR", "VALIDATION_ERROR"}
      <4>1. CASE n.type = "choice"
        BY <1>1, <1>5, <3>2, <4>1 DEF Signals, ChoiceSignals
      <4>2. CASE n.type = "loop_control"
        <5>1. sig \in LoopControlSignals(n)
          BY <1>1, <4>2 DEF Signals
        <5>2. sig.k \in {n.action, "continue"}
          BY <3>2, <5>1 DEF LoopControlSignals
        <5>3. n.action \in {"break_loop", "continue_loop"}
          BY <1>2, <1>3, <4>2, NodeFacts
        <5> QED
          BY <1>5, <5>2, <5>3
      <4>3. CASE n.type = "terminate"
        BY <1>1, <1>5, <3>2, <4>3 DEF Signals
      <4>4. CASE n.type = "wait"
        BY <1>1, <1>5, <3>2, <4>4 DEF Signals, WaitSignals
      <4>5. CASE n.type = "action"
        <5>1. sig \in ActionSignals(s, n)
          BY <1>1, <4>5 DEF Signals
        <5> QED
          BY <1>5, <3>2, <5>1 DEF ActionSignals
      <4>6. CASE n.type \notin {"choice", "loop_control", "terminate", "wait", "action"}
        <5>1. sig \in {Sig("continue", Empty)} \cup Errors(n)
          BY <1>1, <4>6 DEF Signals
        <5> QED
          BY <1>5, <3>2, <5>1
      <4> QED
        BY <4>1, <4>2, <4>3, <4>4, <4>5, <4>6
    <3> QED
      BY <3>1, <3>2, <3>3 DEF Errors, Texts
  <2> QED
    BY <2>1, <2>5, <2>6, TroubleKeeps
<1>6. CASE sig.k # "error"
  <2> DEFINE t == Dispatch(c, n, sig, g)
  <2>1. Set(p, t)
    BY <1>1, <1>6
  <2>2. Ready(wf, c) /\ c.frames = s.frames /\ c.current = s.current /\ c.pc = "node"
    BY <1>2, ConsumedReady
  <2> HIDE DEF c, s
  <2>3. Sound(wf, t)
    BY <1>1, <1>2, <1>3, <1>6, <2>2, DispatchSound
  <2>4. Settled(t)
    BY <1>1, <1>2, <1>3, <1>6, <2>2, DispatchSettles DEF Ready, Moving, Typed
  <2> HIDE DEF t
  <2> QED
    BY <2>1, <2>3, <2>4, SetKeeps
<1> QED
  BY <1>4, <1>5, <1>6

LEMMA AdvanceStepKeeps ==
    ASSUME IInv, NEW p \in DOMAIN runs, AdvanceStep(p)
    PROVE  IInv'
<1> DEFINE s == runs[p]
<1>1. PICK g \in Guards : Set(p, AdvanceAfterNode(s, g))
  BY DEF AdvanceStep
<1>2. WellFormed(wf) /\ Sound(wf, s) /\ ~s.finished /\ s.pc = "advance"
  BY DEF IInv, AdvanceStep, Live
<1>3. Ready(wf, s)
  BY <1>2, ReadyElsewhere
<1>4. Sound(wf, AdvanceAfterNode(s, g)) /\ Settled(AdvanceAfterNode(s, g))
  BY <1>2, <1>3, AdvanceAfterNodeSound, AdvanceSettles
<1> QED
  BY <1>1, <1>4, SetKeeps

LEMMA ResumeSessionKeeps ==
    ASSUME IInv, NEW how \in {"answer", "empty", "timeout"}, ResumeSession(how), MaxAnswers \in Nat
    PROVE  IInv'
<1> DEFINE s == runs[<<>>]
           t == Resumed(s, how)
<1>1. /\ wf' = wf /\ runs' = [runs EXCEPT ![<<>>] = t] /\ answers < MaxAnswers
      /\ answers' = answers + 1
  BY DEF ResumeSession
<1>2. <<>> \in DOMAIN runs /\ WellFormed(wf) /\ Sound(wf, s)
  BY DEF IInv
<1>3. (how = "timeout" => s.reason = "input") /\ Waits(s)
  BY DEF ResumeSession, Waits
<1>4. Sound(wf, t) /\ t.pc = "drive"
  BY <1>2, <1>3, ResumedSound
<1> HIDE DEF t, s
<1>5. /\ DOMAIN runs' = DOMAIN runs /\ runs'[<<>>] = t
      /\ \A q \in DOMAIN runs \ {<<>>} : runs'[q] = runs[q]
  BY <1>1, <1>2
<1>6. answers' \in 0..MaxAnswers
  BY <1>1 DEF IInv
<1>7. ASSUME NEW q \in DOMAIN runs'
      PROVE  /\ q \in Seq(Nat)
             /\ Sound(wf', runs'[q])
             /\ ~runs'[q].finished /\ runs'[q].pc = "join" =>
                    \A i \in DOMAIN wf'.nodes[runs'[q].current].branches :
                        Append(q, i) \in DOMAIN runs'
  <2>1. CASE q = <<>>
    BY <1>1, <1>4, <1>5, <2>1 DEF IInv
  <2>2. CASE q # <<>>
    BY <1>1, <1>5, <1>7, <2>2 DEF IInv
  <2> QED
    BY <2>1, <2>2
<1> QED
  BY <1>1, <1>2, <1>5, <1>6, <1>7 DEF IInv

--------------------------------------------------------------------------------
LEMMA RunParallelKeeps ==
    ASSUME IInv, NEW p \in DOMAIN runs, RunParallel(p)
    PROVE  IInv'
<1> DEFINE s == runs[p]
           n == wf.nodes[s.current]
           B == {Append(p, i) : i \in DOMAIN n.branches}
           w == [s EXCEPT !.pc = "join"]
<1>1. /\ n.type = "parallel" /\ wf' = wf /\ answers' = answers /\ s.pc = "node" /\ ~s.finished
      /\ DOMAIN runs' = DOMAIN runs \cup B
      /\ runs'[p] = w
      /\ \A q \in DOMAIN runs \ {p} : runs'[q] = runs[q]
      /\ \A q \in B \ DOMAIN runs : runs'[q] = Branch(s, n, q[Len(q)])
  BY DEF RunParallel, Live, Node
<1>2. /\ WellFormed(wf) /\ Ready(wf, s) /\ DOMAIN s = Fields
      /\ Here(wf, s.frames, s.current) /\ s.current \in DOMAIN wf.nodes
      /\ Sound(wf, s) /\ p \in Seq(Nat)
  BY <1>1, AtConstruct DEF IInv, RunParallel
<1>3. DOMAIN n.branches = 1..Len(n.branches) /\ Len(n.branches) \in Nat
  BY <1>1, <1>2, BranchesFacts
<1>4. \A i \in DOMAIN n.branches :
          Append(p, i) \in Seq(Nat) /\ Append(p, i)[Len(Append(p, i))] = i
  BY <1>2, <1>3
<1>5. Sound(wf, w)
  <2>1. /\ DOMAIN w = Fields /\ w.pc = "join" /\ w.frames = s.frames /\ w.locals = s.locals
        /\ w.cursor = s.cursor /\ w.status = s.status /\ w.finished = s.finished
        /\ w.visits = s.visits /\ w.pending = s.pending /\ w.ctx = s.ctx
        /\ w.attempt = s.attempt /\ w.changed = s.changed /\ w.current = s.current
    BY <1>2 DEF Fields
  <2> HIDE DEF w
  <2>2. Typed(w)
    BY <1>2, <2>1 DEF Sound, Typed
  <2>3. Placed(wf, w)
    BY <1>1, <1>2, <2>1 DEF Sound, Placed, Waits
  <2>4. Answered(wf, w)
    BY <1>2, <2>1 DEF Answered, Ready
  <2> QED
    BY <1>2, <2>1, <2>2, <2>3, <2>4 DEF Sound
<1>6. w.current = s.current
  BY <1>2 DEF Fields
<1>7. ASSUME NEW i \in DOMAIN n.branches
      PROVE  Sound(wf, Branch(s, n, i)) /\ Branch(s, n, i).pc = "drive"
  <2>1. Branch(s, n, i).pc = "drive"
    BY DEF Branch, NewRun
  <2>2. Sound(wf, Branch(s, n, i))
    BY <1>1, <1>2, BranchSound
  <2> QED
    BY <2>1, <2>2
<1> HIDE DEF s, w
<1>8. ASSUME NEW q \in DOMAIN runs'
      PROVE  /\ q \in Seq(Nat)
             /\ Sound(wf', runs'[q])
             /\ ~runs'[q].finished /\ runs'[q].pc = "join" =>
                    \A i \in DOMAIN wf'.nodes[runs'[q].current].branches :
                        Append(q, i) \in DOMAIN runs'
  <2>1. CASE q = p
    BY <1>1, <1>2, <1>5, <1>6, <2>1
  <2>2. CASE q # p /\ q \in DOMAIN runs
    BY <1>1, <2>2 DEF IInv
  <2>3. CASE q \in B \ DOMAIN runs
    <3>1. PICK i \in DOMAIN n.branches : q = Append(p, i)
      BY <2>3
    <3>2. runs'[q] = Branch(s, n, i) /\ q \in Seq(Nat)
      BY <1>1, <1>4, <2>3, <3>1
    <3> QED
      BY <1>1, <1>7, <3>2
  <2> QED
    BY <1>1, <2>1, <2>2, <2>3
<1>9. wf' \in Workflows /\ answers' \in 0..MaxAnswers /\ <<>> \in DOMAIN runs'
  BY <1>1 DEF IInv
<1> QED
  BY <1>1, <1>2, <1>8, <1>9 DEF IInv

\* A join keeps the invariant, and a join that succeeds has merged.
LEMMA JoinParallelKeeps ==
    ASSUME IInv, NEW p \in DOMAIN runs, JoinParallel(p)
    PROVE  LET s == runs[p]
               n == wf.nodes[s.current]
               bs == [i \in DOMAIN n.branches |-> runs[Append(p, i)]]
           IN  /\ IInv'
               /\ \A q \in DOMAIN runs' \ {p} : runs'[q] = runs[q]
               /\ DOMAIN n.branches = 1..Len(n.branches) /\ Len(n.branches) \in Nat
               /\ runs'[p].pc = "advance" /\ runs'[p].current = s.current =>
                      Merged(s, n, bs, Len(n.branches), runs'[p].ctx)
<1> DEFINE s == runs[p]
           n == wf.nodes[s.current]
           B == {Append(p, i) : i \in DOMAIN n.branches}
           bs == [i \in DOMAIN n.branches |-> runs[Append(p, i)]]
           N == Len(n.branches)
<1>1. PICK g \in Guards :
          /\ wf' = wf /\ answers' = answers /\ s.pc = "join" /\ ~s.finished
          /\ runs' = [q \in DOMAIN runs \ B |-> IF q = p THEN Join(s, n, bs, g) ELSE runs[q]]
  BY DEF JoinParallel, Live, Node
<1> DEFINE j == Join(s, n, bs, g)
<1>2. /\ WellFormed(wf) /\ Sound(wf, s) /\ Typed(s) /\ s.frames \in Seq(FrameRecords(wf))
      /\ n.type = "parallel" /\ s.current \in DOMAIN wf.nodes /\ p \in Seq(Nat)
      /\ \A i \in DOMAIN n.branches : Append(p, i) \in DOMAIN runs
  BY <1>1 DEF IInv, Sound, Placed, Shape, Here
<1>3. DOMAIN n.branches = 1..N /\ N \in Nat
  BY <1>2, BranchesFacts
<1>4. DOMAIN bs = 1..N /\ Len(bs) = N
  <2>1. DOMAIN bs = 1..N
    BY <1>3
  <2>2. bs \in Seq({bs[i] : i \in 1..N})
    BY <1>3, <2>1
  <2> HIDE DEF bs, N
  <2> QED
    BY <1>3, <2>1, <2>2
<1>5. \A i \in 1..N : Typed(bs[i])
  BY <1>2, <1>3 DEF IInv, Sound
<1> HIDE DEF bs, N
<1>6. /\ Sound(wf, j)
      /\ j.pc = "advance" /\ j.current = s.current => Merged(s, n, bs, N, j.ctx)
  BY <1>1, <1>2, <1>3, <1>4, <1>5, JoinSound
<1>7. Settled(j)
  BY <1>2, <1>3, <1>4, <1>5, JoinSettles
<1> HIDE DEF j
<1>8. /\ <<>> \notin B /\ p \notin B
      /\ \A i \in DOMAIN n.branches : i \in Nat
  BY <1>2, <1>3
<1>9. /\ DOMAIN runs' = DOMAIN runs \ B /\ runs'[p] = j
      /\ \A q \in DOMAIN runs' \ {p} : runs'[q] = runs[q]
  BY <1>1, <1>8 DEF j
<1> HIDE DEF s
<1>10. ASSUME NEW q \in DOMAIN runs'
       PROVE  /\ q \in Seq(Nat)
              /\ Sound(wf', runs'[q])
              /\ ~runs'[q].finished /\ runs'[q].pc = "join" =>
                     \A i \in DOMAIN wf'.nodes[runs'[q].current].branches :
                         Append(q, i) \in DOMAIN runs'
  <2>1. CASE q = p
    BY <1>1, <1>2, <1>6, <1>7, <1>9, <2>1 DEF Settled
  <2>2. CASE q # p
    <3>1. q \in DOMAIN runs /\ runs'[q] = runs[q] /\ q \in Seq(Nat) /\ Sound(wf, runs[q])
      BY <1>9, <2>2 DEF IInv
    <3>2. ASSUME ~runs[q].finished, runs[q].pc = "join",
                 NEW i \in DOMAIN wf.nodes[runs[q].current].branches
          PROVE  Append(q, i) \in DOMAIN runs'
      <4>1. Append(q, i) \in DOMAIN runs
        BY <3>1, <3>2 DEF IInv
      <4>2. i \in Nat
        <5>1. /\ runs[q].current \in DOMAIN wf.nodes
              /\ wf.nodes[runs[q].current].type = "parallel"
          BY <3>1, <3>2 DEF Sound, Placed, Here
        <5>2. LET m == wf.nodes[runs[q].current]
              IN  DOMAIN m.branches = 1..Len(m.branches) /\ Len(m.branches) \in Nat
          BY <1>2, <5>1, BranchesFacts
        <5> QED
          BY <3>2, <5>2
      <4>3. Append(q, i) \notin B
        BY <1>2, <1>8, <2>2, <3>1, <4>2, AppendInjective
      <4> QED
        BY <1>9, <4>1, <4>3
    <3> QED
      BY <1>1, <3>1, <3>2
  <2> QED
    BY <2>1, <2>2
<1>11. wf' \in Workflows /\ answers' \in 0..MaxAnswers /\ <<>> \in DOMAIN runs'
  BY <1>1, <1>8, <1>9 DEF IInv
<1>12. IInv'
  BY <1>1, <1>2, <1>10, <1>11 DEF IInv
<1> QED
  BY <1>3, <1>6, <1>9, <1>12 DEF bs, N, s

--------------------------------------------------------------------------------
LEMMA StepKeeps ==
    ASSUME IInv, [Next]_vars, MaxAnswers \in Nat
    PROVE  IInv'
<1>1. CASE Next
  <2>1. CASE Step
    <3>1. PICK p \in DOMAIN runs :
              \/ RouteError(p) \/ TakeCursor(p)
              \/ StepLoop(p) \/ StepTry(p) \/ StepCondition(p)
              \/ RunParallel(p) \/ JoinParallel(p) \/ Activate(p) \/ AdvanceStep(p)
      BY <2>1 DEF Step
    <3> QED
      BY <3>1, RouteErrorKeeps, TakeCursorKeeps, StepLoopKeeps, StepTryKeeps, StepConditionKeeps,
         RunParallelKeeps, JoinParallelKeeps, ActivateKeeps, AdvanceStepKeeps
  <2>2. CASE \E how \in {"answer", "empty", "timeout"} : ResumeSession(how)
    BY <2>2, ResumeSessionKeeps
  <2> QED
    BY <1>1, <2>1, <2>2 DEF Next
<1>2. CASE UNCHANGED vars
  BY <1>2 DEF vars, IInv
<1> QED
  BY <1>1, <1>2

LEMMA Invariance ==
    ASSUME \A w \in Workflows : WellFormed(w), MaxAnswers \in Nat
    PROVE  Spec => []IInv
<1>1. Init => IInv
  BY InitSound
<1>2. IInv /\ [Next]_vars => IInv'
  BY StepKeeps
<1> QED
  BY <1>1, <1>2, PTL DEF Spec

--------------------------------------------------------------------------------
(***************************************************************************)
(* Theorems: for all workflows, well formed, of any size                   *)
(***************************************************************************)
(* Every run, at every moment, is of one of drive's states, and a frame    *)
(* belongs to a node of the workflow and steps through a nonempty list.    *)
THEOREM FramesOfKnownNodes ==
    ASSUME \A w \in Workflows : WellFormed(w), MaxAnswers \in Nat
    PROVE  Spec => []TypeOK
<1>1. ASSUME IInv
      PROVE  TypeOK
  <2>1. ASSUME NEW p \in DOMAIN runs, NEW d \in DOMAIN runs[p].frames
        PROVE  LET f == runs[p].frames[d]
               IN  /\ f.kind \in {"loop", "try", "body", "branch"}
                   /\ f.phase \in {"body", "catch", "finally"}
                   /\ Known(f.owner) /\ f.ids # <<>>
    <3>1. runs[p].frames \in Seq(FrameRecords(wf))
      BY <1>1 DEF IInv, Sound, Shape
    <3> QED
      BY <3>1, FrameFacts DEF Known
  <2> QED
    BY <1>1, <2>1 DEF IInv, TypeOK, Sound, Typed
<1> QED
  BY <1>1, Invariance, PTL

(* A workflow the validator accepts never sends drive to an id that is not *)
(* a node: not by an edge, a jump, a handler, a frame or a resumption.     *)
THEOREM ControlStaysInTheWorkflow ==
    ASSUME \A w \in Workflows : WellFormed(w), MaxAnswers \in Nat
    PROVE  Spec => []NeverLost
<1>1. ASSUME IInv
      PROVE  NeverLost
  <2>1. ASSUME NEW p \in DOMAIN runs
        PROVE  runs[p].finished \/ runs[p].cursor = Empty \/ Known(runs[p].cursor)
    BY <1>1 DEF IInv, Sound, Placed, Known
  <2> QED
    BY <1>1, <2>1 DEF IInv, NeverLost
<1> QED
  BY <1>1, Invariance, PTL

(* Whatever jumps, errors, breaks, prompts and resumptions happen, a frame *)
(* is on the stack only while its construct is in the body of the frame    *)
(* below it.                                                               *)
THEOREM FramesMirrorTheNesting ==
    ASSUME \A w \in Workflows : WellFormed(w), MaxAnswers \in Nat
    PROVE  Spec => []FramesNest
<1>1. ASSUME IInv, StaysInBody(wf), NEW p \in DOMAIN runs, NEW d \in DOMAIN runs[p].frames, d > 1
      PROVE  IndexOfId(runs[p].frames[d - 1].ids, runs[p].frames[d].owner) # 0
  <2> DEFINE fs == runs[p].frames
  <2>1. Shape(wf, fs)
    BY <1>1 DEF IInv, Sound
  <2> HIDE DEF fs
  <2>2. PICK e \in DOMAIN fs : e = d - 1
    BY <1>1, <2>1 DEF Shape, fs
  <2>3. fs[e].ids \in Seq(DOMAIN wf.nodes)
    BY <2>1, FrameFacts DEF Shape
  <2>4. fs[d].owner \in Members(fs[d - 1].ids)
    BY <1>1, <2>1 DEF Shape, Nested, fs
  <2>5. IndexOfId(fs[e].ids, fs[d].owner) # 0
    BY <2>2, <2>3, <2>4, IndexOfIdFacts
  <2> QED
    BY <2>2, <2>5 DEF fs
<1>2. IInv => FramesNest
  BY <1>1 DEF FramesNest
<1> QED
  BY <1>2, Invariance, PTL

(* A node in the bodies of several loops sees the current item of each of  *)
(* them: binding, erasing, error routing and resumption keep them.         *)
THEOREM LoopsKeepTheirItem ==
    ASSUME \A w \in Workflows : WellFormed(w), MaxAnswers \in Nat
    PROVE  Spec => []IteratorBound
<1>1. ASSUME IInv, StaysInBody(wf), LoopsApart(wf),
             NEW p \in DOMAIN runs, NEW d \in DOMAIN runs[p].frames
      PROVE  HoldsItem(wf, runs[p].frames[d], runs[p].locals)
  <2>1. /\ DOMAIN runs[p].frames = 1..Len(runs[p].frames)
        /\ Bound(wf, runs[p].frames, Len(runs[p].frames), runs[p].locals)
    BY <1>1, FrameFacts DEF IInv, Sound, Shape
  <2> QED
    BY <1>1, <2>1 DEF Bound
<1>2. IInv => IteratorBound
  BY <1>1 DEF IteratorBound, HoldsItem, Node
<1> QED
  BY <1>2, Invariance, PTL

(* An answer is used by the prompt it was given to, in the visit it was    *)
(* given for, and by no other one unless an error came between.            *)
THEOREM AnswersReachTheirPrompt ==
    ASSUME \A w \in Workflows : WellFormed(w), MaxAnswers \in Nat
    PROVE  Spec => []AnswersBelongToPrompt
<1>1. ASSUME IInv, RefusalsLeaveTrace(wf), NEW p \in DOMAIN runs,
             runs[p].pc = "node", ~runs[p].finished, "input" \in DOMAIN runs[p].locals
      PROVE  \/ runs[p].locals["input"] = <<runs[p].current, runs[p].visits - 1>>
             \/ "error" \in DOMAIN runs[p].locals
  BY <1>1 DEF IInv, Sound, Answered, Quiet
<1>2. IInv => AnswersBelongToPrompt
  BY <1>1 DEF AnswersBelongToPrompt
<1> QED
  BY <1>2, Invariance, PTL

--------------------------------------------------------------------------------
\* A run leaves its join in one way only.
LEMMA JoinsLeaveByJoining ==
    ASSUME IInv, [Next]_vars, NEW p \in DOMAIN runs, p \in DOMAIN runs',
           runs[p].pc = "join", runs'[p].pc = "advance"
    PROVE  JoinParallel(p)
<1>1. runs' # runs
  OBVIOUS
<1>2. Next
  BY <1>1 DEF vars
<1>3. CASE \E how \in {"answer", "empty", "timeout"} : ResumeSession(how)
  <2>1. PICK how \in {"answer", "empty", "timeout"} : ResumeSession(how)
    BY <1>3
  <2> DEFINE s == runs[<<>>]
             t == Resumed(s, how)
  <2>2. /\ runs' = [runs EXCEPT ![<<>>] = t]
        /\ (how = "timeout" => s.reason = "input") /\ Waits(s)
    BY <2>1 DEF ResumeSession, Waits
  <2>3. t.pc = "drive"
    BY <2>2, ResumedSound DEF IInv
  <2> HIDE DEF t
  <2> QED
    BY <2>2, <2>3
<1>4. CASE Step
  <2>1. PICK q \in DOMAIN runs :
            \/ RouteError(q) \/ TakeCursor(q)
            \/ StepLoop(q) \/ StepTry(q) \/ StepCondition(q)
            \/ RunParallel(q) \/ JoinParallel(q) \/ Activate(q) \/ AdvanceStep(q)
    BY <1>4 DEF Step
  <2>2. CASE JoinParallel(q)
    <3>1. q # p => runs'[p] = runs[p]
      BY <2>2, JoinParallelKeeps
    <3> QED
      BY <2>2, <3>1
  <2>3. CASE RunParallel(q)
    <3>1. runs'[p] = IF p = q THEN [runs[p] EXCEPT !.pc = "join"] ELSE runs[p]
      BY <2>3 DEF RunParallel
    <3>2. DOMAIN runs[p] = Fields
      BY DEF IInv, Sound, Typed
    <3>3. [runs[p] EXCEPT !.pc = "join"].pc = "join"
      BY <3>2 DEF Fields
    <3> QED
      BY <3>1, <3>3
  <2>4. CASE \/ RouteError(q) \/ TakeCursor(q) \/ StepLoop(q) \/ StepTry(q) \/ StepCondition(q)
             \/ Activate(q) \/ AdvanceStep(q)
    <3>1. runs[q].pc # "join"
      BY <2>4 DEF RouteError, TakeCursor, StepLoop, StepTry, StepCondition, Activate,
                  AdvanceStep, Live
    <3>2. \A r \in DOMAIN runs : r # q => runs'[r] = runs[r]
      BY <2>4 DEF RouteError, TakeCursor, StepLoop, StepTry, StepCondition, Activate,
                  AdvanceStep, Set
    <3> QED
      BY <3>1, <3>2
  <2> QED
    BY <2>1, <2>2, <2>3, <2>4
<1> QED
  BY <1>2, <1>3, <1>4 DEF Next

(* A join that succeeds takes from each branch what that branch alone      *)
(* wrote, and nothing that no branch wrote, whatever the branches did and  *)
(* in whatever order they ended.                                           *)
THEOREM JoinsTakeWhatBranchesWrote ==
    ASSUME \A w \in Workflows : WellFormed(w), MaxAnswers \in Nat
    PROVE  Spec => BranchWritesSurvive
<1>1. ASSUME IInv, [Next]_vars, NEW p \in DOMAIN runs, p \in DOMAIN runs',
             runs[p].pc = "join", runs'[p].pc = "advance", runs'[p].current = runs[p].current,
             NEW k \in DOMAIN runs'[p].ctx
      PROVE  LET n == Node(runs[p].current)
                 b(i) == runs[Append(p, i)]
                 writers == {i \in DOMAIN n.branches : k \in b(i).changed}
                 old == runs[p].ctx
                 new == runs'[p].ctx
             IN  /\ writers = {} => k \in DOMAIN old /\ new[k] = old[k]
                 /\ \A i \in DOMAIN n.branches :
                      /\ writers = {i}
                      /\ k \notin DOMAIN old \/ n.merge_policy # "skip_conflicts"
                      => new[k] = b(i).ctx[k]
  <2> DEFINE s == runs[p]
             n == wf.nodes[s.current]
             N == Len(n.branches)
             bs == [i \in DOMAIN n.branches |-> runs[Append(p, i)]]
             writers == {i \in DOMAIN n.branches : k \in runs[Append(p, i)].changed}
  <2>1. Merged(s, n, bs, N, runs'[p].ctx) /\ DOMAIN n.branches = 1..N
    BY <1>1, JoinsLeaveByJoining, JoinParallelKeeps
  <2>2. \A i \in 1..N : bs[i] = runs[Append(p, i)] /\ (Writes(bs, k, i) <=> i \in writers)
    BY <2>1 DEF Writes
  <2>3. writers = {} => Unwritten(bs, k, N)
    BY <2>2 DEF Unwritten
  <2>4. \A i \in 1..N : writers = {i} => WrittenOnly(bs, k, N, i)
    BY <2>2 DEF WrittenOnly
  <2> HIDE DEF bs, N, writers
  <2>5. writers = {} => k \in DOMAIN s.ctx /\ runs'[p].ctx[k] = s.ctx[k]
    BY <1>1, <2>1, <2>3 DEF Merged
  <2>6. \A i \in 1..N : /\ writers = {i}
                        /\ k \notin DOMAIN s.ctx \/ n.merge_policy # "skip_conflicts"
                        => runs'[p].ctx[k] = bs[i].ctx[k]
    BY <1>1, <2>1, <2>4 DEF Merged
  <2> QED
    BY <2>1, <2>2, <2>5, <2>6 DEF Node, writers
<1> DEFINE Joins ==
             \A p \in DOMAIN runs :
                LET n == Node(runs[p].current)
                    b(i) == runs[Append(p, i)]
                    writers(k) == {i \in DOMAIN n.branches : k \in b(i).changed}
                    old == runs[p].ctx
                    new == runs'[p].ctx
                IN  /\ p \in DOMAIN runs' /\ runs[p].pc = "join" /\ runs'[p].pc = "advance"
                    /\ runs'[p].current = runs[p].current
                    =>
                       \A k \in DOMAIN new :
                           /\ writers(k) = {} => k \in DOMAIN old /\ new[k] = old[k]
                           /\ \A i \in DOMAIN n.branches :
                                /\ writers(k) = {i}
                                /\ k \notin DOMAIN old \/ n.merge_policy # "skip_conflicts"
                                => new[k] = b(i).ctx[k]
<1>2. IInv /\ [Next]_vars => [Joins]_vars
  BY <1>1
<1>3. BranchWritesSurvive <=> [][Joins]_vars
  BY DEF BranchWritesSurvive
<1> HIDE DEF Joins
<1> QED
  BY <1>2, <1>3, Invariance, PTL DEF Spec
================================================================================
