------------------------ MODULE SessionEngineProofs ------------------------
(***************************************************************************)
(* Proofs about SessionEngine for any sessions, callers and workflow       *)
(* length.                                                                 *)
(***************************************************************************)
EXTENDS SessionEngine, FiniteSetTheorems, TLAPS

\* What a caller holds between operations, and while it is in one.
JobShape ==
    \A t \in Callers :
        /\ pc[t] = "idle" => job[t] = NoJob /\ cp[t] = Absent
        /\ pc[t] # "idle" => job[t].sess \in Sessions
        /\ pc[t] = "lock" => job[t].op = "resume"
        /\ pc[t] \in {"disarm", "unsubscribe", "cancelTimers"} =>
              job[t].op \in {"resume", "cancel"}
        /\ pc[t] \notin {"register", "unsubscribe"} => mine[t] = {}

\* A suspended checkpoint names a suspension point.
LiveStep ==
    /\ \A s \in Sessions : store[s].status \in Live => store[s].step \in 1..N
    /\ \A t \in Callers : cp[t].status \in Live => cp[t].step \in 1..N

\* SubscriptionsAccounted, id by id.
Accounts ==
    \A s \in Sessions : \A id \in Nat :
        id \in subs[s] <=>
            \/ id \in registered[s]
            \/ \E t \in Callers : job[t].sess = s /\ id \in mine[t]

\* An id is in one place: recorded, or in the hands of one caller.
OneHolder ==
    \A t \in Callers : \A id \in mine[t] :
        /\ \A s \in Sessions : s = job[t].sess => id \notin registered[s]
        /\ \A u \in Callers : u # t /\ job[u].sess = job[t].sess => id \notin mine[u]

IInv == TypeOK /\ Accounts /\ OneHolder /\ JobShape /\ LiveStep

LEMMA AccountsSuffice ==
    ASSUME TypeOK, Accounts PROVE SubscriptionsAccounted
<1> SUFFICES ASSUME NEW s \in Sessions
             PROVE  subs[s] = registered[s] \cup Held(s)
  BY DEF SubscriptionsAccounted
<1>1. subs[s] \subseteq Nat /\ registered[s] \subseteq Nat
  BY DEF TypeOK
<1>2. \A id : id \in Held(s) <=> \E t \in Callers : job[t].sess = s /\ id \in mine[t]
  BY DEF Held
<1>3. Held(s) \subseteq Nat
  BY <1>2 DEF TypeOK
<1> QED
  BY <1>1, <1>2, <1>3 DEF Accounts

\* checkpointFor yields timers of the session it is called for.
LEMMA TimersForType ==
    ASSUME NEW s \in Sessions, NEW c \in Checkpoint,
           c.status \in Live => c.step \in 1..N
    PROVE  /\ TimersFor(s, c) \in SUBSET Timer
           /\ TimersFor(s, c) # {} => c.status \in Live
BY EngineAssumption DEF TimersFor, Timer, Checkpoint, Live

\* Every checkpoint drive can leave behind is well formed, and of the execution
\* that it started from.
LEMMA OutcomesType ==
    ASSUME NEW c \in Checkpoint, NEW wake \in Reasons, NEW d \in Outcomes(c, wake)
    PROVE  /\ d \in Checkpoint
           /\ d.status \in Live => d.step \in 1..N
           /\ d.run = c.run
BY EngineAssumption
   DEF Outcomes, PromptOutcomes, WaitOutcomes, Segments, Reasons, Checkpoint, Statuses, Live, Terminal,
       After, Parked, FailedAt, Ended

\* The state a new execution starts from.
LEMMA FreshCopy ==
    ASSUME NEW s \in Sessions, TypeOK, runs[s] < IF s \in Children THEN 1 ELSE MaxRuns
    PROVE  /\ runs[s] + 1 \in 1..MaxRuns
           /\ Begun(runs[s] + 1) \in Checkpoint
           /\ Begun(runs[s] + 1).status \notin Live
<1>1. runs[s] \in Nat /\ runs[s] + 1 \in 1..MaxRuns
  BY EngineAssumption DEF TypeOK
<1> QED
  BY <1>1, EngineAssumption DEF Begun, Checkpoint, Statuses, Segments, Live

LEMMA NothingInHand == /\ Absent \in Checkpoint /\ Absent.status \notin Live /\ Absent.run = 0
                       /\ NoJob \in Job /\ "idle" \in PCs
BY EngineAssumption
   DEF NoJob, Job, Ops, Reasons, PCs, Absent, Begun, Checkpoint, Statuses, Segments, Live

\* The end of an execution keeps its place and its number.
LEMMA EndedType ==
    ASSUME NEW c \in Checkpoint, NEW status \in Terminal
    PROVE  Ended(c, status) \in Checkpoint /\ Ended(c, status).status \notin Live
BY DEF Ended, Checkpoint, Statuses, Terminal, Live

LEMMA InitIInv == Init => IInv
<1> SUFFICES ASSUME Init PROVE IInv
  OBVIOUS
<1>1. TypeOK
  BY EngineAssumption
     DEF Init, TypeOK, Absent, Begun, Checkpoint, Statuses, Segments, NoJob, Job, Ops,
         Reasons, PCs, EffectCap
<1>2. Accounts /\ OneHolder
  BY DEF Init, Accounts, OneHolder
<1>3. JobShape /\ LiveStep
  BY DEF Init, JobShape, LiveStep, Absent, Begun, Live
<1> QED
  BY <1>1, <1>2, <1>3 DEF IInv

\* A step that leaves the bus and m_event_subscriptions alone, by a caller
\* that holds no id before or after it, keeps the accounts.
LEMMA AccountsFrame ==
    ASSUME NEW t \in Callers, TypeOK, Accounts, OneHolder,
           NEW j, job' = [job EXCEPT ![t] = j],
           mine[t] = {}, mine' = mine \/ mine' = [mine EXCEPT ![t] = {}],
           UNCHANGED <<subs, registered>>
    PROVE  Accounts' /\ OneHolder'
<1>1. mine' = mine
  BY DEF TypeOK
<1>2. \A u \in Callers : mine[u] # {} => job'[u] = job[u]
  BY DEF TypeOK
<1>3. Accounts'
  BY <1>1, <1>2 DEF Accounts
<1>4. OneHolder'
  BY <1>1, <1>2 DEF OneHolder
<1> QED
  BY <1>3, <1>4

\* The same for a step that leaves the jobs and what is held alone too.
LEMMA AccountsSame ==
    ASSUME Accounts, OneHolder, UNCHANGED <<subs, registered, mine, job>>
    PROVE  Accounts' /\ OneHolder'
BY DEF Accounts, OneHolder

\* The steps that begin an operation or deliver a wake-up preserve IInv.
LEMMA BeginIInv ==
    ASSUME IInv, NEW t \in Callers,
           \/ Request(t) \/ Tick(t) \/ Deliver(t) \/ Lock(t)
    PROVE  IInv'
<1> USE DEF IInv
<1>a. ASSUME NEW s \in Sessions, StartSession(t, s)
      PROVE  IInv'
  <2>0. PICK c \in Checkpoint : c.status \notin Live /\ cp' = [cp EXCEPT ![t] = c]
    BY <1>a, FreshCopy DEF StartSession, TypeOK
  <2>1. TypeOK'
    <3>1. runs' \in [Sessions -> 0..MaxRuns] /\ over' \in [Sessions -> BOOLEAN]
      BY <1>a, FreshCopy, EngineAssumption DEF StartSession, TypeOK
    <3>2. job' \in [Callers -> Job] /\ pc' \in [Callers -> PCs]
      BY <1>a DEF StartSession, Begin, TypeOK, Job, Ops, Reasons, PCs
    <3>3. cp' \in [Callers -> Checkpoint]
      BY <2>0 DEF TypeOK
    <3>4. UNCHANGED <<store, timers, subs, registered, mine, mutex, todo, effects, crashes>>
      BY <1>a DEF StartSession
    <3> QED
      BY <3>1, <3>2, <3>3, <3>4 DEF TypeOK
  <2>2. Accounts' /\ OneHolder'
    BY <1>a, AccountsFrame DEF StartSession, Begin, Free, JobShape
  <2>3. JobShape' /\ LiveStep'
    BY <1>a, <2>0 DEF StartSession, Begin, Free, JobShape, LiveStep, TypeOK
  <2> QED  BY <2>1, <2>2, <2>3
<1>b. ASSUME NEW s \in Sessions, NEW wake \in {"input", "null"}, ResumeSession(t, s, wake)
      PROVE  IInv'
  <2>1. TypeOK'
    BY <1>b DEF ResumeSession, Begin, TypeOK, Job, Ops, Reasons, PCs
  <2>2. Accounts' /\ OneHolder'
    BY <1>b, AccountsFrame DEF ResumeSession, Begin, Free, JobShape
  <2>3. JobShape' /\ LiveStep'
    BY <1>b DEF ResumeSession, Begin, Free, JobShape, LiveStep, TypeOK
  <2> QED  BY <2>1, <2>2, <2>3
<1>c. ASSUME NEW s \in Sessions, CancelSession(t, s)
      PROVE  IInv'
  <2>1. TypeOK'
    BY <1>c DEF CancelSession, Begin, TypeOK, Job, Ops, Reasons, PCs
  <2>2. Accounts' /\ OneHolder'
    BY <1>c, AccountsFrame DEF CancelSession, Begin, Free, JobShape
  <2>3. JobShape' /\ LiveStep'
    BY <1>c DEF CancelSession, Begin, Free, JobShape, LiveStep, TypeOK
  <2> QED  BY <2>1, <2>2, <2>3
<1>d. ASSUME Publish(t)
      PROVE  IInv'
  <2>1. TypeOK'
    BY <1>d DEF Publish, TypeOK, Wakeup
  <2>2. Accounts' /\ OneHolder'
    BY <1>d, AccountsSame DEF Publish
  <2>3. JobShape' /\ LiveStep'
    BY <1>d DEF Publish, JobShape, LiveStep
  <2> QED  BY <2>1, <2>2, <2>3
<1>e. ASSUME Tick(t)
      PROVE  IInv'
  <2>1. TypeOK'
    BY <1>e, EngineAssumption DEF Tick, Due, TypeOK, Wakeup, Timer
  <2>2. Accounts' /\ OneHolder'
    BY <1>e, AccountsSame DEF Tick
  <2>3. JobShape' /\ LiveStep'
    BY <1>e DEF Tick, JobShape, LiveStep
  <2> QED  BY <2>1, <2>2, <2>3
<1>f. ASSUME Deliver(t)
      PROVE  IInv'
  <2>1. PICK w \in todo[t] :
          /\ todo' = [todo EXCEPT ![t] = @ \ {w}]
          /\ Begin(t, "resume", w.sess, w.wake, w.n, IF w.wake = "event" THEN "lock" ELSE "load")
    BY <1>f DEF Deliver
  <2>2. w \in Wakeup
    BY <2>1 DEF TypeOK
  <2>3. TypeOK'
    BY <1>f, <2>1, <2>2 DEF Deliver, Begin, TypeOK, Job, Ops, Reasons, PCs, Wakeup
  <2>4. Accounts' /\ OneHolder'
    BY <1>f, <2>1, AccountsFrame DEF Deliver, Begin, JobShape
  <2>5. JobShape' /\ LiveStep'
    BY <1>f, <2>1, <2>2 DEF Deliver, Begin, JobShape, LiveStep, TypeOK, Wakeup
  <2> QED  BY <2>3, <2>4, <2>5
<1>g. ASSUME Lock(t)
      PROVE  IInv'
  <2>1. TypeOK'
    BY <1>g DEF Lock, TypeOK, PCs
  <2>2. Accounts' /\ OneHolder'
    BY <1>g, AccountsSame DEF Lock
  <2>3. JobShape' /\ LiveStep'
    BY <1>g DEF Lock, JobShape, LiveStep, TypeOK
  <2> QED  BY <2>1, <2>2, <2>3
<1> QED
  BY <1>a, <1>b, <1>c, <1>d, <1>e, <1>f, <1>g DEF Request

\* A return from a caller that is not registering keeps the accounts.
LEMMA ReturnFrame ==
    ASSUME IInv, NEW t \in Callers, pc[t] \notin {"register", "unsubscribe"}, Return(t),
           UNCHANGED <<store, subs, registered, todo, runs, effects, crashes>>,
           timers' \in SUBSET Timer, over' \in [Sessions -> BOOLEAN]
    PROVE  IInv'
<1>1. TypeOK'
  <2>1. NoJob \in Job /\ Absent \in Checkpoint /\ "idle" \in PCs
    BY NothingInHand
  <2>2. mutex' \in Callers \cup {NoCaller}
    BY DEF IInv, TypeOK, Return
  <2> QED
    BY <2>1, <2>2 DEF IInv, Return, TypeOK
<1>2. Accounts' /\ OneHolder'
  BY AccountsFrame DEF IInv, Return, JobShape
<1>3. JobShape' /\ LiveStep'
  BY DEF IInv, Return, JobShape, LiveStep, TypeOK, Absent, Begun, Live
<1> QED
  BY <1>1, <1>2, <1>3 DEF IInv

\* The steps of an operation up to drive's return preserve IInv.
LEMMA DriveIInv ==
    ASSUME IInv, NEW t \in Callers,
           \/ Load(t) \/ Disarm(t) \/ Unsubscribe(t) \/ CancelTimers(t) \/ Drive(t)
    PROVE  IInv'
<1>a. ASSUME Load(t)
      PROVE  IInv'
  <2>1. CASE Return(t)
    BY <1>a, <2>1, ReturnFrame DEF Load, IInv, TypeOK
  <2>r. CASE job[t].op = "run" /\ Goto(t, "drive") /\ UNCHANGED <<cp, mine>>
    <3>2. TypeOK'
      BY <1>a, <2>r DEF Load, Goto, IInv, TypeOK, PCs
    <3>3. Accounts' /\ OneHolder'
      BY <1>a, <2>r, AccountsSame DEF Load, Goto, IInv
    <3>4. JobShape' /\ LiveStep'
      BY <1>a, <2>r DEF Load, Goto, IInv, JobShape, LiveStep, TypeOK
    <3> QED  BY <3>2, <3>3, <3>4 DEF IInv
  <2>2. CASE /\ job[t].op \in {"cancel", "resume"}
             /\ cp' = [cp EXCEPT ![t] = store[job[t].sess]]
             /\ Goto(t, "disarm") /\ UNCHANGED mine
    <3>1. job[t].sess \in Sessions /\ job[t].op \in Ops
      BY <1>a DEF Load, IInv, JobShape, TypeOK, Job
    <3>2. TypeOK'
      BY <1>a, <2>2, <3>1 DEF Load, Goto, IInv, TypeOK, PCs
    <3>3. Accounts' /\ OneHolder'
      BY <1>a, <2>2, AccountsSame DEF Load, Goto, IInv
    <3>4. JobShape' /\ LiveStep'
      BY <1>a, <2>2, <3>1 DEF Load, Goto, IInv, JobShape, LiveStep, TypeOK
    <3> QED  BY <3>2, <3>3, <3>4 DEF IInv
  <2> QED
    BY <1>a, <2>r, <2>1, <2>2 DEF Load
<1>b. ASSUME Disarm(t)
      PROVE  IInv'
  <2>1. job[t].sess \in Sessions /\ mine[t] = {} /\ job[t].op \in {"resume", "cancel"}
    BY <1>b DEF Disarm, IInv, JobShape
  <2>2. CASE registered' = registered /\ mine' = mine /\ Goto(t, "cancelTimers")
    <3>1. TypeOK'
      BY <1>b, <2>2 DEF Disarm, Goto, IInv, TypeOK, PCs
    <3>2. Accounts' /\ OneHolder'
      BY <1>b, <2>2, AccountsSame DEF Disarm, Goto, IInv
    <3>3. JobShape' /\ LiveStep'
      BY <1>b, <2>1, <2>2 DEF Disarm, Goto, IInv, JobShape, LiveStep, TypeOK
    <3> QED  BY <3>1, <3>2, <3>3 DEF IInv
  <2>3. CASE /\ mine' = [mine EXCEPT ![t] = registered[job[t].sess]]
             /\ registered' = [registered EXCEPT ![job[t].sess] = {}]
             /\ Goto(t, "unsubscribe")
    <3>0. job' = job /\ subs' = subs
      BY <1>b, <2>3 DEF Disarm, Goto
    <3>1. TypeOK'
      BY <1>b, <2>1, <2>3 DEF Disarm, Goto, IInv, TypeOK, PCs
    <3>2. Accounts'
      BY <2>1, <2>3, <3>0 DEF IInv, TypeOK, Accounts
    <3>3. OneHolder'
      BY <2>1, <2>3, <3>0 DEF IInv, TypeOK, OneHolder
    <3>4. JobShape' /\ LiveStep'
      BY <1>b, <2>1, <2>3 DEF Disarm, Goto, IInv, JobShape, LiveStep, TypeOK
    <3> QED  BY <3>1, <3>2, <3>3, <3>4 DEF IInv
  <2> QED
    BY <1>b, <2>2, <2>3 DEF Disarm, Forget
<1>u. ASSUME Unsubscribe(t)
      PROVE  IInv'
  <2>1. PICK id \in mine[t] :
          /\ subs' = [subs EXCEPT ![job[t].sess] = @ \ {id}]
          /\ mine' = [mine EXCEPT ![t] = @ \ {id}]
          /\ Goto(t, IF mine[t] = {id} THEN "cancelTimers" ELSE "unsubscribe")
    BY <1>u DEF Unsubscribe
  <2>2. job[t].sess \in Sessions /\ job[t].op \in {"resume", "cancel"} /\ id \in Nat
    BY <1>u DEF Unsubscribe, IInv, JobShape, TypeOK
  <2>3. job' = job /\ registered' = registered
    BY <1>u, <2>1 DEF Unsubscribe, Goto
  <2>4. TypeOK'
    BY <1>u, <2>1 DEF Unsubscribe, Goto, IInv, TypeOK, PCs
  <2>5. Accounts'
    <3> SUFFICES ASSUME NEW s \in Sessions, NEW x \in Nat
                 PROVE  x \in subs'[s] <=>
                          \/ x \in registered[s]
                          \/ \E v \in Callers : job[v].sess = s /\ x \in mine'[v]
      BY <2>3 DEF Accounts
    <3>1. x \in subs[s] <=> \/ x \in registered[s]
                           \/ \E v \in Callers : job[v].sess = s /\ x \in mine[v]
      BY DEF IInv, Accounts
    <3>2. CASE x = id /\ s = job[t].sess
      BY <2>1, <2>2, <3>1, <3>2 DEF IInv, TypeOK, OneHolder
    <3>3. CASE ~(x = id /\ s = job[t].sess)
      <4>1. x \in subs'[s] <=> x \in subs[s]
        BY <2>1, <2>2, <3>3 DEF IInv, TypeOK
      <4>2. \A v \in Callers : job[v].sess = s => (x \in mine'[v] <=> x \in mine[v])
        BY <2>1, <3>3 DEF IInv, TypeOK
      <4> QED  BY <3>1, <4>1, <4>2
    <3> QED  BY <3>2, <3>3
  <2>6. OneHolder'
    BY <2>1, <2>3 DEF IInv, TypeOK, OneHolder
  <2>7. JobShape' /\ LiveStep'
    BY <1>u, <2>1, <2>2 DEF Unsubscribe, Goto, IInv, JobShape, LiveStep, TypeOK
  <2> QED  BY <2>4, <2>5, <2>6, <2>7 DEF IInv
<1>c. ASSUME CancelTimers(t)
      PROVE  IInv'
  <2>1. timers' \in SUBSET Timer /\ over' \in [Sessions -> BOOLEAN]
    BY <1>c DEF CancelTimers, CancelTimersForSession, IInv, TypeOK
  <2>4. CancelledAt(cp[t]) \in Checkpoint /\ CancelledAt(cp[t]).status \notin Live
    BY EndedType DEF CancelledAt, Terminal, IInv, TypeOK
  <2>2. CASE Return(t)
    BY <1>c, <2>1, <2>2, ReturnFrame DEF CancelTimers
  <2>3. CASE /\ cp' = cp \/ cp' = [cp EXCEPT ![t] = CancelledAt(@)]
             /\ Goto(t, "drive") \/ Goto(t, "save")
             /\ UNCHANGED mine
    <3>0. cp' \in [Callers -> Checkpoint]
      BY <2>3, <2>4 DEF IInv, TypeOK
    <3>1. TypeOK'
      BY <1>c, <2>1, <2>3, <3>0 DEF CancelTimers, Goto, IInv, TypeOK, PCs
    <3>2. Accounts' /\ OneHolder'
      BY <1>c, <2>3, AccountsSame DEF CancelTimers, Goto, IInv
    <3>3. JobShape' /\ LiveStep'
      BY <1>c, <2>3, <2>4
         DEF CancelTimers, Goto, IInv, JobShape, LiveStep, TypeOK
    <3> QED  BY <3>1, <3>2, <3>3 DEF IInv
  <2> QED
    BY <1>c, <2>2, <2>3 DEF CancelTimers
<1>d. ASSUME Drive(t)
      PROVE  IInv'
  <2>1. PICK c \in Outcomes(cp[t], job[t].wake) :
          /\ cp' = [cp EXCEPT ![t] = c]
          /\ \/ effects' = effects
             \/ effects' = [effects EXCEPT ![job[t].sess][cp[t].run][cp[t].step] = Bump(@)]
    BY <1>d DEF Drive
  <2>2. /\ cp[t] \in Checkpoint /\ cp[t].step \in Segments
        /\ job[t].wake \in Reasons
        /\ job[t].sess \in Sessions
    BY <1>d DEF Drive, IInv, TypeOK, JobShape, Job, Checkpoint
  <2>3. c \in Checkpoint /\ (c.status \in Live => c.step \in 1..N)
    BY <2>1, <2>2, OutcomesType
  <2>4. effects' \in [Sessions -> [1..MaxRuns -> [Segments -> 0..EffectCap]]]
    <3> DEFINE one == effects[job[t].sess]
    <3>1. \A n \in 0..EffectCap : Bump(n) \in 0..EffectCap
      BY DEF Bump, EffectCap
    <3>2. effects \in [Sessions -> [1..MaxRuns -> [Segments -> 0..EffectCap]]]
      BY DEF IInv, TypeOK
    <3>3. one \in [1..MaxRuns -> [Segments -> 0..EffectCap]]
      BY <2>2, <3>2
    <3>4. ASSUME cp[t].run \in 1..MaxRuns
          PROVE  [one[cp[t].run] EXCEPT ![cp[t].step] = Bump(@)] \in [Segments -> 0..EffectCap]
      BY <2>2, <3>1, <3>3, <3>4
    <3>5. [one EXCEPT ![cp[t].run][cp[t].step] = Bump(@)]
            \in [1..MaxRuns -> [Segments -> 0..EffectCap]]
      BY <3>3, <3>4
    <3> QED  BY <2>1, <2>2, <3>2, <3>5
  <2>5. TypeOK'
    BY <1>d, <2>1, <2>3, <2>4 DEF Drive, Goto, IInv, TypeOK, PCs
  <2>6. Accounts' /\ OneHolder'
    BY <1>d, AccountsSame DEF Drive, Goto, IInv
  <2>7. JobShape' /\ LiveStep'
    BY <1>d, <2>1, <2>3 DEF Drive, Goto, IInv, JobShape, LiveStep, TypeOK
  <2> QED  BY <2>5, <2>6, <2>7 DEF IInv
<1> QED
  BY <1>a, <1>b, <1>u, <1>c, <1>d

\* saving, arming, registering, a store failure and a crash preserve IInv.
LEMMA FinishIInv ==
    ASSUME IInv, NEW t \in Callers,
           \/ Save(t) \/ Arm(t) \/ Subscribe(t) \/ Register(t) \/ StoreFails(t)
    PROVE  IInv'
<1>0. pc[t] # "idle" => job[t].sess \in Sessions
  BY DEF IInv, JobShape
<1>a. ASSUME Save(t)
      PROVE  IInv'
  <2>1. store' \in [Sessions -> Checkpoint] /\ (\A s \in Sessions :
          store'[s].status \in Live => store'[s].step \in 1..N)
    BY <1>0, <1>a DEF Save, IInv, TypeOK, LiveStep
  <2>2. CASE Return(t)
    <3>1. NoJob \in Job /\ Absent \in Checkpoint /\ "idle" \in PCs
      BY NothingInHand
    <3>2. mutex' \in Callers \cup {NoCaller}
      BY <2>2 DEF IInv, TypeOK, Return
    <3>3. TypeOK'
      BY <1>a, <2>1, <2>2, <3>1, <3>2 DEF Save, IInv, Return, TypeOK
    <3>4. Accounts' /\ OneHolder'
      BY <1>a, <2>2, AccountsFrame DEF Save, IInv, Return, JobShape
    <3>5. JobShape' /\ LiveStep'
      BY <2>1, <2>2 DEF IInv, Return, JobShape, LiveStep, TypeOK, Absent, Begun, Live
    <3> QED  BY <3>3, <3>4, <3>5 DEF IInv
  <2>3. CASE /\ Goto(t, "arm") \/ Goto(t, "subscribe")
             /\ UNCHANGED <<cp, mine>>
    <3>1. TypeOK'
      BY <1>a, <2>1, <2>3 DEF Save, IInv, Goto, TypeOK, PCs
    <3>2. Accounts' /\ OneHolder'
      BY <1>a, <2>3, AccountsSame DEF Save, Goto, IInv
    <3>3. JobShape' /\ LiveStep'
      BY <1>a, <2>1, <2>3 DEF Save, Goto, IInv, JobShape, LiveStep, TypeOK
    <3> QED  BY <3>1, <3>2, <3>3 DEF IInv
  <2> QED
    BY <1>a, <2>2, <2>3 DEF Save
<1>b. ASSUME Arm(t)
      PROVE  IInv'
  <2>1. cp[t] \in Checkpoint /\ (cp[t].status \in Live => cp[t].step \in 1..N)
    BY DEF IInv, TypeOK, LiveStep
  <2>2. TimersFor(job[t].sess, cp[t]) \in SUBSET Timer
    BY <1>0, <1>b, <2>1, TimersForType DEF Arm
  <2>3. timers' \in SUBSET Timer
    BY <1>b, <2>2 DEF Arm, AddTimer, IInv, TypeOK
  <2> QED
    BY <1>b, <2>3, ReturnFrame DEF Arm, IInv, TypeOK
<1>c. ASSUME Subscribe(t)
      PROVE  IInv'
  <2>1. PICK id \in 1..(Cardinality(subs[job[t].sess]) + 1) :
          /\ id \notin subs[job[t].sess]
          /\ subs' = [subs EXCEPT ![job[t].sess] = @ \cup {id}]
          /\ mine' = [mine EXCEPT ![t] = {id}]
    BY <1>c DEF Subscribe
  <2>2. id \in Nat /\ job[t].sess \in Sessions /\ mine[t] = {}
    BY <1>0, <1>c DEF Subscribe, IInv, JobShape
  <2>3. job' = job /\ registered' = registered
    BY <1>c DEF Subscribe, Goto
  <2>4. TypeOK'
    BY <1>c, <2>1, <2>2 DEF Subscribe, Goto, IInv, TypeOK, PCs
  <2>5. Accounts'
    BY <2>1, <2>2, <2>3 DEF IInv, TypeOK, Accounts
  <2>6. OneHolder'
    <3>1. \A s \in Sessions : s = job[t].sess => id \notin registered[s]
      BY <2>1, <2>2 DEF IInv, Accounts
    <3>2. \A u \in Callers : job[u].sess = job[t].sess => id \notin mine[u]
      BY <2>1, <2>2 DEF IInv, Accounts
    <3> QED
      BY <2>1, <2>3, <3>1, <3>2 DEF IInv, TypeOK, OneHolder
  <2>7. JobShape' /\ LiveStep'
    BY <1>c, <2>1 DEF Subscribe, Goto, IInv, JobShape, LiveStep, TypeOK
  <2> QED  BY <2>4, <2>5, <2>6, <2>7 DEF IInv
<1>d. ASSUME Register(t)
      PROVE  IInv'
  <2>1. /\ registered' = [registered EXCEPT ![job[t].sess] = @ \cup mine[t]]
        /\ mine' = [mine EXCEPT ![t] = {}]
        /\ job' = [job EXCEPT ![t] = NoJob]
        /\ subs' = subs
    BY <1>d DEF Register, Return
  <2>2. job[t].sess \in Sessions
    BY <1>0, <1>d DEF Register
  <2>3. \A s \in Sessions : \A x :
          x \in registered'[s] <=> x \in registered[s] \/ (s = job[t].sess /\ x \in mine[t])
    BY <2>1, <2>2 DEF IInv, TypeOK
  <2>4. \A u \in Callers : IF u = t THEN mine'[u] = {} ELSE mine'[u] = mine[u] /\ job'[u] = job[u]
    BY <2>1 DEF IInv, TypeOK
  <2>5. Accounts'
    BY <2>1, <2>2, <2>3, <2>4 DEF IInv, Accounts
  <2>6. OneHolder'
    BY <2>2, <2>3, <2>4 DEF IInv, OneHolder
  <2>7. TypeOK'
    <3>1. NoJob \in Job /\ Absent \in Checkpoint /\ "idle" \in PCs
      BY NothingInHand
    <3>2. mutex' \in Callers \cup {NoCaller}
      BY <1>d DEF IInv, TypeOK, Register, Return
    <3> QED
      BY <1>d, <2>2, <3>1, <3>2 DEF Register, IInv, Return, TypeOK
  <2>8. JobShape' /\ LiveStep'
    BY <1>d DEF Register, Return, IInv, JobShape, LiveStep, TypeOK, Absent, Begun, Live
  <2> QED  BY <2>5, <2>6, <2>7, <2>8 DEF IInv
<1>e. ASSUME StoreFails(t)
      PROVE  IInv'
  BY <1>e, ReturnFrame DEF StoreFails, IInv, TypeOK
<1> QED
  BY <1>a, <1>b, <1>c, <1>d, <1>e

LEMMA CrashIInv ==
    ASSUME IInv, Crash
    PROVE  IInv'
<1>1. TypeOK'
  BY NothingInHand, EngineAssumption DEF Crash, IInv, TypeOK
<1>2. Accounts' /\ OneHolder'
  BY DEF Crash, Accounts, OneHolder
<1>3. JobShape' /\ LiveStep'
  BY DEF Crash, IInv, JobShape, LiveStep, Absent, Begun, Live
<1> QED
  BY <1>1, <1>2, <1>3 DEF IInv

LEMMA NextIInv == IInv /\ [Next]_vars => IInv'
<1> SUFFICES ASSUME IInv, [Next]_vars PROVE IInv'
  OBVIOUS
<1>1. CASE UNCHANGED vars
  BY <1>1 DEF vars, IInv, TypeOK, Accounts, OneHolder, JobShape, LiveStep
<1>2. CASE Next
  BY <1>2, BeginIInv, DriveIInv, FinishIInv, CrashIInv DEF Next, Step
<1> QED
  BY <1>1, <1>2

\* Every caller, checkpoint, timer and wake-up of the engine stays well typed,
\* in particular a suspended session always names a suspension point, whatever
\* the interleaving of run, resumeSession, cancelSession, ticks and publishes.
THEOREM TypeCorrect == Spec => []TypeOK
<1>1. IInv => TypeOK
  BY DEF IInv
<1> QED
  BY InitIInv, NextIInv, <1>1, PTL DEF Spec

\* armWakeup and disarmWakeup never lose an event subscription: what is live on
\* the bus is in m_event_subscriptions or in the hands of a caller about to put
\* it there or to unsubscribe it, for any number of concurrent callers, failures and restarts.
THEOREM NoSubscriptionLeaks == Spec => []SubscriptionsAccounted
<1>1. IInv => SubscriptionsAccounted
  BY AccountsSuffice DEF IInv
<1> QED
  BY InitIInv, NextIInv, <1>1, PTL DEF Spec
----------------------------------------------------------------------------
(***************************************************************************)
(* NoStepSkipped is inductive only together with where each copy of a      *)
(* checkpoint came from: a suspended checkpoint, in the store or in the    *)
(* hands of a caller, lies behind an executed segment.                     *)
(***************************************************************************)
StoreReached ==
    \A s \in Sessions : store[s].status \in Live =>
        store[s].run # 0 /\ effects[s][store[s].run][store[s].step - 1] > 0

CallerReached ==
    \A t \in Callers : cp[t].status \in Live =>
        cp[t].run # 0 /\ effects[job[t].sess][cp[t].run][cp[t].step - 1] > 0

DriveFrom ==
    \A t \in Callers :
        /\ pc[t] \in {"idle", "lock", "load"} => cp[t].status = "Absent" /\ cp[t].step = 0
        /\ pc[t] \in {"disarm", "unsubscribe", "cancelTimers"} /\ job[t].op = "resume" =>
              cp[t].status \in Live
        /\ pc[t] = "drive" =>
              \/ cp[t].status \in Live
              \/ job[t].op = "run" /\ cp[t].status = "Absent" /\ cp[t].step = 0
        /\ job[t].op = "run" => cp[t].run # 0

OrderInv == NoStepSkipped /\ StoreReached /\ CallerReached /\ DriveFrom

LEMMA InitOrder == Init => OrderInv
BY EngineAssumption
   DEF Init, OrderInv, NoStepSkipped, StoreReached, CallerReached, DriveFrom,
       Absent, Begun, Live, Segments, NoJob

\* Every step but drive leaves the executed segments alone.
LEMMA OthersOrder ==
    ASSUME IInv, OrderInv, NEW t \in Callers,
           \/ Request(t) \/ Tick(t) \/ StoreFails(t)
           \/ Deliver(t) \/ Lock(t) \/ Load(t) \/ Disarm(t) \/ Unsubscribe(t)
           \/ CancelTimers(t) \/ Save(t) \/ Arm(t) \/ Subscribe(t) \/ Register(t)
    PROVE  OrderInv'
<1> USE DEF OrderInv
<1>0. Absent.status = "Absent" /\ Absent.step = 0 /\ "Absent" \notin Live /\ NoJob.op = "none"
  BY DEF Absent, Begun, Live, NoJob
<1>1. effects' = effects /\ NoStepSkipped'
  <2>1. effects' = effects
    BY DEF Request, Tick, StoreFails, Deliver, Lock, Load, Disarm, Unsubscribe,
           CancelTimers, Save, Arm, Subscribe, Register, StartSession, ResumeSession, CancelSession, Publish
  <2> QED  BY <2>1 DEF NoStepSkipped
<1>2. CASE Return(t) /\ UNCHANGED store
  BY <1>0, <1>1, <1>2
     DEF Return, IInv, TypeOK, StoreReached, CallerReached, DriveFrom
<1>3. CASE Request(t)
  <2>1. CASE Publish(t)
    BY <1>1, <2>1 DEF Publish, StoreReached, CallerReached, DriveFrom
  <2>2. ASSUME NEW op \in {"resume", "cancel"}, NEW s, NEW wake, NEW n,
               Begin(t, op, s, wake, n, "load"), Free(t), UNCHANGED <<store, cp>>
        PROVE  OrderInv'
    BY <1>0, <1>1, <2>2
       DEF Begin, Free, IInv, TypeOK, StoreReached, CallerReached, DriveFrom
  <2>3. ASSUME NEW s \in Sessions, StartSession(t, s)
        PROVE  OrderInv'
    <3>1. PICK c : /\ c.status = "Absent" /\ c.step = 0 /\ c.run # 0
                   /\ cp' = [cp EXCEPT ![t] = c]
      <4>1. runs[s] + 1 # 0
        BY <2>3, FreshCopy DEF StartSession, IInv
      <4>2. /\ Begun(runs[s] + 1).status = "Absent" /\ Begun(runs[s] + 1).step = 0
            /\ Begun(runs[s] + 1).run = runs[s] + 1
        BY DEF Begun
      <4>3. cp' = [cp EXCEPT ![t] = Begun(runs[s] + 1)]
        BY <2>3 DEF StartSession
      <4> QED  BY <4>1, <4>2, <4>3
    <3>2. PICK at \in {"load", "drive"} : Begin(t, "run", s, "null", 0, at)
      BY <2>3 DEF StartSession
    <3>3. Free(t) /\ store' = store
      BY <2>3 DEF StartSession
    <3> QED
      BY <1>0, <1>1, <3>1, <3>2, <3>3
         DEF Begin, Free, IInv, TypeOK, StoreReached, CallerReached, DriveFrom
  <2> QED
    BY <1>3, <2>1, <2>2, <2>3 DEF Request, ResumeSession, CancelSession
<1>4. CASE Tick(t)
  BY <1>1, <1>4 DEF Tick, StoreReached, CallerReached, DriveFrom
<1>5. CASE Deliver(t)
  <2>1. PICK w \in todo[t] :
          Begin(t, "resume", w.sess, w.wake, w.n, IF w.wake = "event" THEN "lock" ELSE "load")
    BY <1>5 DEF Deliver
  <2> QED
    BY <1>0, <1>1, <1>5, <2>1
       DEF Deliver, Begin, IInv, TypeOK, StoreReached, CallerReached, DriveFrom
<1>6. CASE Lock(t)
  BY <1>1, <1>6 DEF Lock, IInv, TypeOK, StoreReached, CallerReached, DriveFrom
<1>7. CASE Load(t)
  <2>1. job[t].sess \in Sessions
    BY <1>7 DEF Load, IInv, JobShape
  <2>2. CASE /\ job[t].op = "cancel" \/ (job[t].op = "resume" /\ Resumable(store[job[t].sess]))
             /\ cp' = [cp EXCEPT ![t] = store[job[t].sess]]
             /\ Goto(t, "disarm")
    BY <1>1, <1>7, <2>1, <2>2
       DEF Load, Goto, Resumable, IInv, TypeOK, StoreReached, CallerReached, DriveFrom
  <2>3. CASE job[t].op = "run" /\ Goto(t, "drive") /\ UNCHANGED cp
    BY <1>1, <1>7, <2>3 DEF Load, Goto, IInv, TypeOK, StoreReached, CallerReached, DriveFrom
  <2> QED
    BY <1>2, <1>7, <2>2, <2>3 DEF Load
<1>8. CASE Disarm(t) \/ Unsubscribe(t)
  <2>1. PICK at \in {"unsubscribe", "cancelTimers"} :
          pc' = [pc EXCEPT ![t] = at] /\ UNCHANGED <<store, cp, job>>
    BY <1>8 DEF Disarm, Unsubscribe, Goto
  <2>2. pc[t] \in {"disarm", "unsubscribe"}
    BY <1>8 DEF Disarm, Unsubscribe
  <2> QED
    BY <1>1, <2>1, <2>2 DEF IInv, TypeOK, StoreReached, CallerReached, DriveFrom
<1>9. CASE CancelTimers(t)
  <2>1. CASE job[t].op = "resume" /\ Goto(t, "drive") /\ UNCHANGED cp
    BY <1>1, <1>9, <2>1
       DEF CancelTimers, Goto, IInv, TypeOK, StoreReached, CallerReached, DriveFrom
  <2>2. CASE /\ job[t].op = "cancel" /\ Goto(t, "save")
             /\ cp' = [cp EXCEPT ![t] = CancelledAt(@)]
    <3>1. CancelledAt(cp[t]).status \notin Live
      BY EndedType DEF CancelledAt, Terminal, IInv, TypeOK
    <3> QED
      BY <1>1, <1>9, <2>2, <3>1
         DEF CancelTimers, Goto, IInv, TypeOK, StoreReached, CallerReached, DriveFrom
  <2> QED
    BY <1>2, <1>9, <2>1, <2>2 DEF CancelTimers
<1>10. CASE Save(t)
  <2>1. job[t].sess \in Sessions
    BY <1>10 DEF Save, IInv, JobShape
  <2>2. StoreReached'
    BY <1>1, <1>10, <2>1 DEF Save, IInv, TypeOK, StoreReached, CallerReached
  <2>3. CASE UNCHANGED cp /\ (Goto(t, "arm") \/ Goto(t, "subscribe"))
    BY <1>1, <1>10, <2>2, <2>3 DEF Goto, IInv, TypeOK, CallerReached, DriveFrom
  <2>4. CASE Return(t)
    BY <1>0, <1>1, <1>10, <2>2, <2>4 DEF Return, IInv, TypeOK, CallerReached, DriveFrom
  <2> QED
    BY <1>10, <2>3, <2>4 DEF Save
<1>11. CASE Arm(t) \/ Register(t) \/ StoreFails(t)
  BY <1>2, <1>11 DEF Arm, Register, StoreFails
<1>12. CASE Subscribe(t)
  BY <1>1, <1>12 DEF Subscribe, Goto, IInv, TypeOK, StoreReached, CallerReached, DriveFrom
<1> QED
  BY <1>3, <1>4, <1>5, <1>6, <1>7, <1>8, <1>9, <1>10, <1>11, <1>12

\* What drive leaves behind of a session: parked where it was, or one further on.
LEMMA OutcomeSteps ==
    ASSUME NEW c \in Checkpoint, NEW wake, NEW d \in Outcomes(c, wake), d.status \in Live
    PROVE  /\ d.run = c.run /\ d = Parked(c, d.step) /\ d = Parked(d, d.step)
           /\ (c.step > 0 /\ d.step = c.step) \/ d.step = c.step + 1
BY EngineAssumption
   DEF Outcomes, PromptOutcomes, WaitOutcomes, Segments, Live, Checkpoint, After, Parked,
       FailedAt, Ended

\* What drive executes: one segment of one execution, or nothing if the session
\* parks where it was.
LEMMA DriveEffects ==
    ASSUME IInv, NEW t \in Callers, Drive(t),
           NEW s \in Sessions, s = job[t].sess,
           NEW r \in 1..MaxRuns, r = cp[t].run,
           NEW k \in Segments, k = cp[t].step
    PROVE  \E d \in Outcomes(cp[t], job[t].wake) :
              /\ cp' = [cp EXCEPT ![t] = d]
              /\ \A q \in Sessions, x \in 1..MaxRuns, j \in Segments :
                    effects'[q][x][j] =
                       IF d # cp[t] /\ q = s /\ x = r /\ j = k
                       THEN Bump(effects[q][x][j]) ELSE effects[q][x][j]
<1>1. PICK d \in Outcomes(cp[t], job[t].wake) :
        /\ cp' = [cp EXCEPT ![t] = d]
        /\ effects' = IF d = cp[t] THEN effects
                      ELSE [effects EXCEPT ![s][r][k] = Bump(@)]
  BY DEF Drive
<1>2. effects \in [Sessions -> [1..MaxRuns -> [Segments -> 0..EffectCap]]]
  BY DEF IInv, TypeOK
<1>3. ASSUME NEW q \in Sessions, NEW x \in 1..MaxRuns, NEW j \in Segments
      PROVE  effects'[q][x][j] = IF d # cp[t] /\ q = s /\ x = r /\ j = k
                                 THEN Bump(effects[q][x][j]) ELSE effects[q][x][j]
  BY <1>1, <1>2
<1> QED
  BY <1>1, <1>3

LEMMA DriveOrder ==
    ASSUME IInv, OrderInv, NEW t \in Callers, Drive(t)
    PROVE  OrderInv'
<1>1. PICK s \in Sessions : s = job[t].sess
  BY DEF Drive, IInv, JobShape
<1>2. cp[t] \in Checkpoint
  BY DEF IInv, TypeOK
<1>3. PICK k \in Segments : k = cp[t].step
  BY <1>2 DEF Checkpoint
<1>4. PICK r \in 1..MaxRuns : r = cp[t].run
  BY <1>2, EngineAssumption DEF Drive, OrderInv, DriveFrom, CallerReached, Checkpoint
<1>5. PICK d \in Outcomes(cp[t], job[t].wake) :
        /\ cp' = [cp EXCEPT ![t] = d]
        /\ \A q \in Sessions, x \in 1..MaxRuns, j \in Segments :
              effects'[q][x][j] = IF d # cp[t] /\ q = s /\ x = r /\ j = k
                                  THEN Bump(effects[q][x][j]) ELSE effects[q][x][j]
  BY <1>1, <1>3, <1>4, DriveEffects
<1>e. effects \in [Sessions -> [1..MaxRuns -> [Segments -> 0..EffectCap]]]
  BY DEF IInv, TypeOK
<1>6. k > 0 => effects[s][r][k - 1] > 0
  BY <1>1, <1>3, <1>4 DEF Drive, OrderInv, DriveFrom, CallerReached
<1>7. \A q \in Sessions, x \in 1..MaxRuns, j \in Segments :
        /\ effects[q][x][j] > 0 => effects'[q][x][j] > 0
        /\ effects'[q][x][j] > 0 => effects[q][x][j] > 0 \/ (q = s /\ x = r /\ j = k)
  <2> SUFFICES ASSUME NEW q \in Sessions, NEW x \in 1..MaxRuns, NEW j \in Segments
               PROVE  /\ effects[q][x][j] > 0 => effects'[q][x][j] > 0
                      /\ effects'[q][x][j] > 0 =>
                            effects[q][x][j] > 0 \/ (q = s /\ x = r /\ j = k)
    OBVIOUS
  <2>1. effects[q][x][j] \in 0..EffectCap
    BY <1>e
  <2>2. \/ effects'[q][x][j] = effects[q][x][j]
        \/ q = s /\ x = r /\ j = k /\ effects'[q][x][j] = Bump(effects[q][x][j])
    BY <1>5, Zenon
  <2> QED
    BY <2>1, <2>2 DEF Bump, EffectCap
<1>8. d # cp[t] => effects'[s][r][k] > 0
  <2>1. effects[s][r][k] \in 0..EffectCap
    BY <1>e
  <2>2. d # cp[t] => effects'[s][r][k] = Bump(effects[s][r][k])
    BY <1>5, Zenon
  <2> QED
    BY <2>1, <2>2 DEF Bump, EffectCap
<1>n. \A j \in 1..N : j \in Segments /\ j - 1 \in Segments
  BY EngineAssumption DEF Segments
<1>9. NoStepSkipped'
  BY <1>6, <1>7, <1>n DEF OrderInv, NoStepSkipped
<1>10. StoreReached'
  <2> SUFFICES ASSUME NEW q \in Sessions, store[q].status \in Live
               PROVE  store[q].run # 0 /\ effects'[q][store[q].run][store[q].step - 1] > 0
    BY DEF StoreReached, Drive
  <2>1. store[q].step - 1 \in Segments /\ store[q].run \in 0..MaxRuns
    BY <1>n DEF IInv, TypeOK, LiveStep, Checkpoint
  <2>2. store[q].run # 0 /\ effects[q][store[q].run][store[q].step - 1] > 0
    BY DEF OrderInv, StoreReached
  <2> QED
    BY <1>7, <2>1, <2>2, EngineAssumption
<1>11. CallerReached'
  <2> SUFFICES ASSUME NEW u \in Callers, cp'[u].status \in Live
               PROVE  cp'[u].run # 0 /\ effects'[job[u].sess][cp'[u].run][cp'[u].step - 1] > 0
    BY DEF CallerReached, Drive, Goto
  <2>1. CASE u = t
    <3>1. cp'[u] = d
      BY <1>5, <2>1 DEF IInv, TypeOK
    <3>2. d.run = r /\ ((k > 0 /\ d.step = k) \/ d.step = k + 1)
      BY <1>2, <1>3, <1>4, <1>5, <3>1, OutcomeSteps
    <3>3. CASE k > 0 /\ d.step = k
      <4>1. k - 1 \in Segments
        BY <3>3, EngineAssumption DEF Segments
      <4>2. effects'[s][r][k - 1] > 0
        BY <1>6, <1>7, <3>3, <4>1
      <4> QED
        BY <1>1, <2>1, <3>1, <3>2, <3>3, <4>2
    <3>4. CASE d.step = k + 1
      <4>1. k + 1 # k /\ k + 1 - 1 = k
        BY EngineAssumption DEF Segments
      <4>0. d # cp[t]
        BY <1>3, <3>4, <4>1
      <4>2. effects'[s][r][k] > 0
        BY <1>8, <4>0
      <4>3. cp'[u].step = k + 1
        BY <3>1, <3>4
      <4> QED
        <5>1. cp'[u].step - 1 = k
          BY <4>3, EngineAssumption DEF Segments
        <5>2. cp'[u].run = r /\ job[u].sess = s /\ r # 0
          BY <1>1, <2>1, <3>1, <3>2
        <5> QED
          BY <4>2, <5>1, <5>2
    <3> QED  BY <3>2, <3>3, <3>4
  <2>2. CASE u # t
    <3>1. cp'[u] = cp[u]
      BY <1>5, <2>2 DEF IInv, TypeOK
    <3>2. cp[u].step - 1 \in Segments /\ cp[u].run \in 0..MaxRuns
      BY <1>n, <3>1 DEF IInv, TypeOK, LiveStep, Checkpoint
    <3>3. job[u].sess \in Sessions
      BY <3>1, NothingInHand DEF IInv, JobShape
    <3>4. cp[u].run # 0 /\ effects[job[u].sess][cp[u].run][cp[u].step - 1] > 0
      BY <3>1 DEF OrderInv, CallerReached
    <3> QED
      BY <1>7, <3>1, <3>2, <3>3, <3>4, EngineAssumption
  <2> QED  BY <2>1, <2>2
<1>12. DriveFrom'
  <2>1. job' = job /\ pc' = [pc EXCEPT ![t] = "save"]
    BY DEF Drive, Goto
  <2>2. job[t].op = "run" => d.run # 0
    BY <1>2, <1>4, OutcomesType DEF IInv, TypeOK, Job
  <2> QED
    BY <1>5, <2>1, <2>2 DEF IInv, TypeOK, OrderInv, DriveFrom
<1> QED
  BY <1>9, <1>10, <1>11, <1>12 DEF OrderInv

LEMMA NextOrder == IInv /\ OrderInv /\ [Next]_vars => OrderInv'
<1> SUFFICES ASSUME IInv, OrderInv, [Next]_vars PROVE OrderInv'
  OBVIOUS
<1>1. CASE UNCHANGED vars
  BY <1>1 DEF vars, OrderInv, NoStepSkipped, StoreReached, CallerReached, DriveFrom
<1>2. CASE Crash
  BY <1>2 DEF Crash, OrderInv, NoStepSkipped, StoreReached, CallerReached, DriveFrom,
              Absent, Begun, Live, NoJob
<1>3. ASSUME NEW t \in Callers, Request(t) \/ Tick(t) \/ Step(t) \/ StoreFails(t)
      PROVE  OrderInv'
  BY <1>3, OthersOrder, DriveOrder DEF Step
<1> QED
  BY <1>1, <1>2, <1>3 DEF Next

\* A resume continues only behind a segment that was executed: no concurrency
\* of callers, no failing store and no restart lets a session jump over a
\* prompt, a wait or an event.
THEOREM StepsInOrder == Spec => []NoStepSkipped
<1>1. Init => IInv /\ OrderInv
  BY InitIInv, InitOrder
<1>2. (IInv /\ OrderInv) /\ [Next]_vars => (IInv /\ OrderInv)'
  BY NextIInv, NextOrder
<1>3. IInv /\ OrderInv => NoStepSkipped
  BY DEF OrderInv
<1> QED
  BY <1>1, <1>2, <1>3, PTL DEF Spec
----------------------------------------------------------------------------
(***************************************************************************)
(* A host that never overlaps two calls on one session: the copy a caller  *)
(* works on is then the stored checkpoint, so no save overwrites a session *)
(* that ended, even when the store fails or the process is restarted.      *)
(***************************************************************************)
Sole ==
    \A t, u \in Callers : job[t].sess = job[u].sess => t = u \/ job[t].sess = NoSession

CopyIsFresh ==
    \A t \in Callers :
        /\ pc[t] \in {"disarm", "unsubscribe", "cancelTimers"} => cp[t] = store[job[t].sess]
        /\ pc[t] = "drive" /\ job[t].op # "run" => cp[t] = store[job[t].sess]
        /\ pc[t] \in {"drive", "save"} /\ job[t].op # "run" =>
              store[job[t].sess].status \notin Terminal
        /\ pc[t] \in {"load", "drive", "save"} /\ job[t].op = "run" =>
              store[job[t].sess].run < cp[t].run

\* No checkpoint is of an execution that has not begun.
Numbered ==
    /\ \A s \in Sessions : store[s].run <= runs[s]
    /\ \A t \in Callers : pc[t] # "idle" => cp[t].run <= runs[job[t].sess]

SerialInv == Sole /\ CopyIsFresh /\ Numbered

LEMMA InitSerial == Init => SerialInv
BY DEF Init, SerialInv, Sole, CopyIsFresh, Numbered, NoJob, Absent, Begun

\* A caller that returns gives its session up.
LEMMA ReturnSerial ==
    ASSUME IInv, SerialInv, NEW t \in Callers, Return(t), runs' = runs,
           \A s \in Sessions : store'[s].run <= runs[s],
           \A u \in Callers \ {t} : job[u].sess \in Sessions =>
               store'[job[u].sess] = store[job[u].sess]
    PROVE  SerialInv'
BY DEF Return, IInv, TypeOK, JobShape, SerialInv, Sole, CopyIsFresh, Numbered, NoJob

\* A caller that goes on keeps its session.
LEMMA GotoSerial ==
    ASSUME IInv, SerialInv, NEW t \in Callers, NEW at, Goto(t, at), UNCHANGED <<store, runs>>,
           NEW c, cp' = [cp EXCEPT ![t] = c],
           /\ at \in {"disarm", "unsubscribe", "cancelTimers"} => c = store[job[t].sess]
           /\ at = "drive" /\ job[t].op # "run" => c = store[job[t].sess]
           /\ at \in {"drive", "save"} /\ job[t].op # "run" =>
                 store[job[t].sess].status \notin Terminal
           /\ at \in {"load", "drive", "save"} /\ job[t].op = "run" =>
                 store[job[t].sess].run < c.run
           /\ at # "idle" => c.run <= runs[job[t].sess]
    PROVE  SerialInv'
BY DEF Goto, IInv, TypeOK, SerialInv, Sole, CopyIsFresh, Numbered

LEMMA NextSerial ==
    ASSUME Exclusive, IInv, OrderInv, SerialInv, [Next]_vars
    PROVE  SerialInv'
<1>0. /\ Live \cap Terminal = {}
      /\ Absent.status \notin Live \cup Terminal /\ Absent.run = 0
  BY DEF Live, Terminal, Absent, Begun
<1>r. \A s \in Sessions : 0 <= runs[s] /\ store[s].run <= runs[s]
  BY DEF IInv, TypeOK, SerialInv, Numbered
<1>1. CASE UNCHANGED vars
  BY <1>1 DEF vars, SerialInv, Sole, CopyIsFresh, Numbered
<1>2. CASE Crash
  BY <1>2 DEF Crash, SerialInv, Sole, CopyIsFresh, Numbered, NoJob
<1>3. ASSUME NEW t \in Callers, Request(t) \/ Tick(t) \/ Deliver(t) \/ Lock(t)
      PROVE  SerialInv'
  <2>1. CASE Publish(t) \/ Tick(t) \/ Lock(t)
    <3>1. UNCHANGED <<store, job, cp, runs>> /\ \A u \in Callers :
            pc'[u] = pc[u] \/ (pc[u] = "lock" /\ pc'[u] = "load")
      BY <2>1 DEF Publish, Tick, Lock, IInv, TypeOK
    <3>2. \A u \in Callers : pc[u] = "lock" => job[u].op = "resume"
      BY DEF IInv, JobShape
    <3> QED
      BY <3>1, <3>2 DEF SerialInv, Sole, CopyIsFresh, Numbered
  <2>2. ASSUME NEW op \in {"resume", "cancel"}, NEW s \in Sessions, NEW wake, NEW n,
               NEW at \in {"load", "lock"},
               Begin(t, op, s, wake, n, at), pc[t] = "idle", UNCHANGED <<store, cp, runs>>,
               \A u \in Callers \ {t} : job[u].sess # s
        PROVE  SerialInv'
    <3>1. cp[t] = Absent
      BY <2>2 DEF IInv, JobShape
    <3>2. Sole'
      BY <2>2 DEF Begin, IInv, TypeOK, SerialInv, Sole
    <3>3. CopyIsFresh'
      BY <1>0, <2>2, <3>1 DEF Begin, IInv, TypeOK, SerialInv, CopyIsFresh
    <3>4. Numbered'
      BY <1>0, <1>r, <2>2, <3>1 DEF Begin, IInv, TypeOK, SerialInv, Numbered
    <3> QED  BY <3>2, <3>3, <3>4 DEF SerialInv
  <2>5. ASSUME NEW s \in Sessions, StartSession(t, s)
        PROVE  SerialInv'
    <3>1. PICK at \in {"load", "drive"} : Begin(t, "run", s, "null", 0, at)
      BY <2>5 DEF StartSession
    <3>2. PICK c : /\ c.run = runs[s] + 1 /\ cp' = [cp EXCEPT ![t] = c]
      BY <2>5 DEF StartSession, Begun
    <3>3. /\ pc[t] = "idle" /\ store' = store /\ runs' = [runs EXCEPT ![s] = @ + 1]
          /\ \A u \in Callers \ {t} : job[u].sess # s
      BY <2>5 DEF StartSession, Free, MayStart
    <3>4. job'[t].sess = s /\ job'[t].op = "run" /\ pc'[t] = at /\ cp'[t] = c
          /\ \A u \in Callers \ {t} : job'[u] = job[u] /\ pc'[u] = pc[u] /\ cp'[u] = cp[u]
      BY <3>1, <3>2 DEF Begin, IInv, TypeOK
    <3>5. runs[s] \in Nat /\ runs'[s] = runs[s] + 1
          /\ \A q \in Sessions \ {s} : runs'[q] = runs[q]
      BY <3>3, EngineAssumption DEF IInv, TypeOK
    <3>6. Sole'
      BY <3>3, <3>4 DEF SerialInv, Sole
    <3>7. store[s].run \in Nat /\ store[s].run < runs[s] + 1
      <4>1. store[s].run \in 0..MaxRuns
        BY DEF IInv, TypeOK, Checkpoint
      <4> QED  BY <1>r, <3>5, <4>1, EngineAssumption
    <3>8. CopyIsFresh'
      BY <3>2, <3>3, <3>4, <3>7 DEF SerialInv, CopyIsFresh
    <3>9. Numbered'
      <4>1. \A q \in Sessions : store'[q].run <= runs'[q]
        BY <1>r, <3>3, <3>5, <3>7
      <4>2. \A u \in Callers \ {t} : pc'[u] # "idle" => job'[u].sess \in Sessions \ {s}
        BY <3>3, <3>4 DEF IInv, JobShape
      <4>3. \A u \in Callers \ {t} : pc'[u] # "idle" => cp'[u].run <= runs'[job'[u].sess]
        BY <3>4, <3>5, <4>2 DEF SerialInv, Numbered
      <4>4. cp'[t].run <= runs'[job'[t].sess]
        BY <3>2, <3>4, <3>5
      <4> QED  BY <4>1, <4>3, <4>4 DEF Numbered
    <3> QED  BY <3>6, <3>8, <3>9 DEF SerialInv
  <2>3. ASSUME NEW s \in Sessions, NEW wake,
               StartSession(t, s) \/ ResumeSession(t, s, wake) \/ CancelSession(t, s)
        PROVE  SerialInv'
    BY <2>2, <2>3, <2>5 DEF ResumeSession, CancelSession, Free, MayStart
  <2>4. CASE Deliver(t)
    <3>1. PICK w \in todo[t] :
            /\ MayStart(t, w.sess)
            /\ Begin(t, "resume", w.sess, w.wake, w.n,
                     IF w.wake = "event" THEN "lock" ELSE "load")
      BY <2>4 DEF Deliver
    <3>2. w.sess \in Sessions
      BY DEF IInv, TypeOK, Wakeup
    <3> QED
      BY <2>2, <2>4, <3>1, <3>2 DEF Deliver, MayStart
  <2> QED
    BY <1>3, <2>1, <2>3, <2>4 DEF Request
<1>4. ASSUME NEW t \in Callers,
             \/ Load(t) \/ Disarm(t) \/ Unsubscribe(t) \/ CancelTimers(t)
             \/ Drive(t) \/ Subscribe(t)
      PROVE  SerialInv'
  <2>0. cp = [cp EXCEPT ![t] = cp[t]]
    BY DEF IInv, TypeOK
  <2>r. /\ \A s \in Sessions : store'[s].run <= runs'[s]
        /\ store' = store /\ runs' = runs
    BY <1>4, <1>r DEF Load, Disarm, Unsubscribe, CancelTimers, Drive, Subscribe
  <2>s. /\ job[t].sess \in Sessions
        /\ cp[t].run <= runs[job[t].sess]
    BY <1>4 DEF Load, Disarm, Unsubscribe, CancelTimers, Drive, Subscribe, IInv, JobShape,
                SerialInv, Numbered
  <2>1. CASE Load(t)
    <3>1. CASE Return(t)
      BY <2>r, <3>1, ReturnSerial
    <3>2. CASE cp' = [cp EXCEPT ![t] = store[job[t].sess]] /\ Goto(t, "disarm")
      <4>1. PICK c : c = store[job[t].sess]
        OBVIOUS
      <4>2. cp' = [cp EXCEPT ![t] = c] /\ c.run <= runs[job[t].sess]
        BY <1>r, <2>s, <3>2, <4>1
      <4>3. \E at : at = "disarm" /\ Goto(t, at)
        BY <3>2
      <4>4. UNCHANGED <<store, runs>>
        BY <2>r
      <4> QED
        BY <4>1, <4>2, <4>3, <4>4, GotoSerial
    <3>3. CASE job[t].op = "run" /\ Goto(t, "drive") /\ UNCHANGED cp
      <4>1. store[job[t].sess].run < cp[t].run
        BY <2>1, <3>3 DEF Load, SerialInv, CopyIsFresh
      <4> QED
        BY <2>0, <2>r, <2>s, <3>3, <4>1, GotoSerial
    <3> QED
      BY <2>1, <3>1, <3>2, <3>3 DEF Load
  <2>2. CASE Disarm(t) \/ Unsubscribe(t)
    <3>1. PICK at \in {"unsubscribe", "cancelTimers"} :
            Goto(t, at) /\ UNCHANGED <<store, cp>>
      BY <2>2 DEF Disarm, Unsubscribe
    <3>2. cp[t] = store[job[t].sess]
      BY <2>2 DEF Disarm, Unsubscribe, SerialInv, CopyIsFresh
    <3> QED
      BY <2>0, <2>r, <2>s, <3>1, <3>2, GotoSerial
  <2>3. CASE CancelTimers(t)
    <3>1. /\ cp[t] = store[job[t].sess] /\ job[t].op \in {"resume", "cancel"}
          /\ job[t].op = "resume" => cp[t].status \in Live
      BY <2>3 DEF CancelTimers, SerialInv, CopyIsFresh, OrderInv, DriveFrom, IInv, JobShape
    <3>2. CASE job[t].op = "resume" /\ Goto(t, "drive") /\ UNCHANGED cp
      BY <1>0, <2>0, <2>r, <2>s, <3>1, <3>2, GotoSerial
    <3>3. CASE /\ Cancellable(cp[t]) /\ Goto(t, "save")
               /\ cp' = [cp EXCEPT ![t] = CancelledAt(@)]
      <4>1. PICK c : c = CancelledAt(cp[t]) /\ cp' = [cp EXCEPT ![t] = c]
        BY <3>3
      <4>2. store[job[t].sess].status \notin Terminal
        BY <1>0, <3>1, <3>3 DEF Cancellable
      <4>3. c.run <= runs[job[t].sess]
        BY <2>s, <4>1 DEF CancelledAt, Ended
      <4>4. job[t].op # "run" /\ \E at : at = "save" /\ Goto(t, at)
        BY <3>1, <3>3
      <4> QED
        BY <2>r, <4>1, <4>2, <4>3, <4>4, GotoSerial
    <3>4. CASE Return(t)
      BY <2>r, <3>4, ReturnSerial
    <3> QED
      BY <2>3, <3>2, <3>3, <3>4 DEF CancelTimers
  <2>4. CASE Drive(t)
    <3>1. PICK c \in Outcomes(cp[t], job[t].wake) : cp' = [cp EXCEPT ![t] = c]
      BY <2>4 DEF Drive
    <3>2. c.run = cp[t].run
      BY <3>1, OutcomesType DEF IInv, TypeOK, Job
    <3>3. /\ job[t].op # "run" => store[job[t].sess].status \notin Terminal
          /\ job[t].op = "run" => store[job[t].sess].run < c.run
          /\ c.run <= runs[job[t].sess]
      BY <2>4, <2>s, <3>2 DEF Drive, SerialInv, CopyIsFresh
    <3>4. /\ \E at : at = "save" /\ Goto(t, at)
          /\ UNCHANGED <<store, runs>>
      BY <2>4 DEF Drive
    <3> QED
      BY <3>1, <3>3, <3>4, GotoSerial
  <2>5. CASE Subscribe(t)
    BY <2>0, <2>5, <2>r, <2>s, GotoSerial DEF Subscribe
  <2> QED
    BY <1>4, <2>1, <2>2, <2>3, <2>4, <2>5
<1>5. ASSUME NEW t \in Callers, Save(t)
      PROVE  SerialInv'
  <2>1. job[t].sess \in Sessions /\ runs' = runs /\ cp[t].run <= runs[job[t].sess]
    BY <1>5 DEF Save, IInv, JobShape, SerialInv, Numbered
  <2>2. \A u \in Callers \ {t} : job[u].sess \in Sessions =>
          job[u].sess # job[t].sess /\ store'[job[u].sess] = store[job[u].sess]
    BY <1>5, <2>1, EngineAssumption DEF Save, IInv, TypeOK, SerialInv, Sole
  <2>r. \A s \in Sessions : store'[s].run <= runs[s]
    BY <1>5, <1>r, <2>1 DEF Save, IInv, TypeOK
  <2>3. CASE Return(t)
    BY <2>1, <2>2, <2>r, <2>3, ReturnSerial
  <2>4. CASE UNCHANGED cp /\ (Goto(t, "arm") \/ Goto(t, "subscribe"))
    <3>1. PICK at \in {"arm", "subscribe"} : job' = job /\ pc' = [pc EXCEPT ![t] = at]
      BY <2>4 DEF Goto
    <3>2. Sole'
      BY <3>1 DEF SerialInv, Sole
    <3>3. CopyIsFresh'
      BY <2>2, <2>4, <3>1 DEF IInv, TypeOK, JobShape, SerialInv, CopyIsFresh
    <3>4. Numbered'
      BY <2>1, <2>r, <2>4, <3>1 DEF IInv, TypeOK, JobShape, SerialInv, Numbered
    <3> QED  BY <3>2, <3>3, <3>4 DEF SerialInv
  <2> QED
    BY <1>5, <2>3, <2>4 DEF Save
<1>6. ASSUME NEW t \in Callers, Arm(t) \/ Register(t) \/ StoreFails(t)
      PROVE  SerialInv'
  BY <1>6, <1>r, ReturnSerial DEF Arm, Register, StoreFails
<1> QED
  BY <1>1, <1>2, <1>3, <1>4, <1>5, <1>6 DEF Next, Step

\* Under a host that serialises its calls per session, a completed, failed or
\* cancelled session keeps that checkpoint: no timer, event or late resume
\* brings it back, across store failures and restarts; it gives way only to a
\* later execution, begun by the host on the same id.
THEOREM EndedSessionsStayEnded == ASSUME Exclusive PROVE Spec => TerminalIsFinal
<1> DEFINE I == IInv /\ OrderInv /\ SerialInv
<1>1. Init => I
  BY InitIInv, InitOrder, InitSerial
<1>2. I /\ [Next]_vars => I'
  BY NextIInv, NextOrder, NextSerial
<1>3. I /\ [Next]_vars =>
        [\A s \in Sessions : store[s].status \in Terminal =>
            store'[s] = store[s] \/ store'[s].run > store[s].run]_vars
  <2> SUFFICES ASSUME I, [Next]_vars, NEW s \in Sessions, store[s].status \in Terminal
               PROVE  store'[s] = store[s] \/ store'[s].run > store[s].run
    BY DEF vars
  <2>1. CASE UNCHANGED vars \/ Crash
    BY <2>1 DEF vars, Crash
  <2>2. ASSUME NEW t \in Callers, Save(t)
        PROVE  store'[s] = store[s] \/ store'[s].run > store[s].run
    <3>1. store'[s] = store[s] \/ (s = job[t].sess /\ store'[s] = cp[t])
      BY <2>2 DEF Save, IInv, TypeOK
    <3>2. s = job[t].sess => job[t].op = "run" /\ store[s].run < cp[t].run
      BY <2>2 DEF Save, SerialInv, CopyIsFresh
    <3>3. store[s].run \in 0..MaxRuns /\ cp[t].run \in 0..MaxRuns
      BY DEF IInv, TypeOK, Checkpoint
    <3> QED  BY <3>1, <3>2, <3>3, EngineAssumption
  <2>3. ASSUME NEW t \in Callers, ~Save(t),
               Request(t) \/ Tick(t) \/ Step(t) \/ StoreFails(t)
        PROVE  store' = store
    BY <2>3 DEF Request, Tick, StoreFails, Step, Deliver, Lock, Load, Disarm,
                Unsubscribe, CancelTimers, Drive, Arm, Subscribe, Register, StartSession,
                ResumeSession, CancelSession, Publish
  <2> QED
    BY <2>1, <2>2, <2>3 DEF Next
<1> QED
  BY <1>1, <1>2, <1>3, PTL DEF Spec, TerminalIsFinal
----------------------------------------------------------------------------
(***************************************************************************)
(* Under the same host, with a store that does not fail and no crash, the  *)
(* checkpoint a caller resumes from lies exactly at the frontier of what   *)
(* was executed: nothing from its suspension point on has run yet.         *)
(***************************************************************************)
Untouched(s, r, k) == \A j \in Segments : j >= k => effects[s][r][j] = 0

AtFrontier(s, c) == Untouched(s, c.run, c.step) /\ c = Parked(c, c.step)

StoreAtFrontier ==
    \A s \in Sessions :
        /\ store[s].status \in Live
        /\ \A t \in Callers : job[t].sess = s => pc[t] # "save"
        => AtFrontier(s, store[s])

CallerAtFrontier ==
    \A t \in Callers :
        /\ pc[t] = "save" /\ cp[t].status \in Live => AtFrontier(job[t].sess, cp[t])
        /\ pc[t] \in {"load", "drive"} /\ job[t].op = "run" =>
              Untouched(job[t].sess, cp[t].run, 0)

\* Nothing has run of an execution that has not begun.
NotBegun == \A s \in Sessions, r \in 1..MaxRuns : r > runs[s] => Untouched(s, r, 0)

ChildrenUnsaved == \A s \in Children : store[s] = Absent

OnceInv ==
    /\ EffectsAtMostOnce
    /\ StoreAtFrontier
    /\ CallerAtFrontier
    /\ NotBegun
    /\ ChildrenUnsaved

LEMMA InitOnce == Init => OnceInv
BY EngineAssumption
   DEF Init, OnceInv, EffectsAtMostOnce, StoreAtFrontier, CallerAtFrontier,
       NotBegun, ChildrenUnsaved, Untouched, Absent, Begun, Live, Segments

\* A step that executes nothing and writes nothing to the store.
LEMMA OnceFrame ==
    ASSUME IInv, OnceInv, NEW t \in Callers, UNCHANGED <<store, effects>>,
           \A s \in Sessions, r \in 1..MaxRuns : r > runs'[s] => r > runs[s],
           NEW at, NEW j, NEW c,
           pc' = [pc EXCEPT ![t] = at], job' = [job EXCEPT ![t] = j],
           cp' = [cp EXCEPT ![t] = c],
           pc[t] # "save",
           at = "save" => c.status \notin Live,
           at \in {"load", "drive"} /\ j.op = "run" => Untouched(j.sess, c.run, 0)
    PROVE  OnceInv'
<1>1. EffectsAtMostOnce' /\ NotBegun' /\ ChildrenUnsaved'
  BY DEF OnceInv, EffectsAtMostOnce, NotBegun, ChildrenUnsaved, Untouched
<1>2. StoreAtFrontier'
  BY DEF OnceInv, StoreAtFrontier, AtFrontier, Untouched, IInv, TypeOK
<1>3. CallerAtFrontier'
  <2>1. /\ cp'[t] = c /\ pc'[t] = at /\ job'[t] = j
        /\ \A u \in Callers \ {t} : cp'[u] = cp[u] /\ pc'[u] = pc[u] /\ job'[u] = job[u]
    BY DEF IInv, TypeOK
  <2> QED
    BY <2>1 DEF OnceInv, CallerAtFrontier, AtFrontier, Untouched
<1> QED
  BY <1>1, <1>2, <1>3 DEF OnceInv

\* A caller that goes on within its operation, on the same copy.
LEMMA OnceGoto ==
    ASSUME IInv, OnceInv, NEW t \in Callers, UNCHANGED <<store, effects, job, cp, runs>>,
           NEW at, pc' = [pc EXCEPT ![t] = at],
           pc[t] # "save", at # "save",
           at \in {"load", "drive"} /\ job[t].op = "run" => pc[t] \in {"load", "drive"}
    PROVE  OnceInv'
<1>1. job' = [job EXCEPT ![t] = job[t]] /\ cp' = [cp EXCEPT ![t] = cp[t]]
  BY DEF IInv, TypeOK
<1>2. at \in {"load", "drive"} /\ job[t].op = "run" => Untouched(job[t].sess, cp[t].run, 0)
  BY DEF OnceInv, CallerAtFrontier
<1> QED
  BY <1>1, <1>2, OnceFrame

LEMMA OthersOnce ==
    ASSUME IInv, OrderInv, OnceInv, NEW t \in Callers,
           \/ Request(t) \/ Tick(t) \/ Deliver(t) \/ Lock(t) \/ Load(t) \/ Disarm(t)
           \/ Unsubscribe(t) \/ CancelTimers(t) \/ Arm(t) \/ Subscribe(t) \/ Register(t)
    PROVE  OnceInv'
<1>0. /\ cp = [cp EXCEPT ![t] = cp[t]] /\ job = [job EXCEPT ![t] = job[t]]
      /\ pc = [pc EXCEPT ![t] = pc[t]]
  BY DEF IInv, TypeOK
<1>1. CASE Publish(t) \/ Tick(t)
  BY <1>1 DEF Publish, Tick, OnceInv, EffectsAtMostOnce, StoreAtFrontier, AtFrontier,
              CallerAtFrontier, NotBegun, ChildrenUnsaved, Untouched
<1>2. CASE Return(t) /\ pc[t] # "save" /\ UNCHANGED <<store, effects, runs>>
  BY <1>2, OnceFrame DEF Return
<1>3. ASSUME NEW s \in Sessions, NEW wake, ResumeSession(t, s, wake) \/ CancelSession(t, s)
      PROVE  OnceInv'
  <2>1. PICK op \in {"resume", "cancel"} : \E w : job' =
          [job EXCEPT ![t] = [op |-> op, sess |-> s, wake |-> w, n |-> 0]]
    BY <1>3 DEF ResumeSession, CancelSession, Begin
  <2>2. PICK j : j.op # "run" /\ job' = [job EXCEPT ![t] = j]
    BY <2>1
  <2>3. /\ pc[t] # "save" /\ UNCHANGED <<store, effects, cp, runs>>
        /\ \E at : at = "load" /\ pc' = [pc EXCEPT ![t] = at]
    BY <1>3 DEF ResumeSession, CancelSession, Free, Begin
  <2> QED
    BY <1>0, <2>2, <2>3, OnceFrame
<1>b. ASSUME NEW s \in Sessions, StartSession(t, s)
      PROVE  OnceInv'
  <2>1. PICK at \in {"load", "drive"} : pc' = [pc EXCEPT ![t] = at]
    BY <1>b DEF StartSession, Begin
  <2>2. PICK j : j.sess = s /\ job' = [job EXCEPT ![t] = j]
    <3>1. job' = [job EXCEPT ![t] = [op |-> "run", sess |-> s, wake |-> "null", n |-> 0]]
      BY <1>b DEF StartSession, Begin
    <3> QED  BY <3>1
  <2>3. PICK c : c.run = runs[s] + 1 /\ cp' = [cp EXCEPT ![t] = c]
    BY <1>b DEF StartSession, Begun
  <2>5. runs \in [Sessions -> 0..MaxRuns]
    BY DEF IInv, TypeOK
  <2>e. runs[s] < MaxRuns
    <3>1. runs[s] < 1 \/ runs[s] < MaxRuns
      BY <1>b DEF StartSession
    <3> QED  BY <2>5, <3>1, EngineAssumption
  <2>4. /\ pc[t] # "save" /\ UNCHANGED <<store, effects>>
        /\ runs[s] < MaxRuns /\ runs' = [runs EXCEPT ![s] = @ + 1]
    BY <1>b, <2>e DEF StartSession, Free
  <2>6. \A q \in Sessions, r \in 1..MaxRuns : r > runs'[q] => r > runs[q]
    BY <2>4, <2>5, EngineAssumption
  <2>7. Untouched(s, c.run, 0)
    <3>1. runs[s] + 1 \in 1..MaxRuns /\ runs[s] + 1 > runs[s]
      BY <2>4, <2>5, EngineAssumption
    <3> QED  BY <2>3, <3>1 DEF OnceInv, NotBegun
  <2>8. /\ at = "save" => c.status \notin Live
        /\ at \in {"load", "drive"} /\ j.op = "run" => Untouched(j.sess, c.run, 0)
    BY <2>2, <2>7
  <2> QED
    BY <2>1, <2>2, <2>3, <2>4, <2>6, <2>8, OnceFrame
<1>4. CASE Deliver(t)
  <2>1. PICK w \in todo[t] :
          Begin(t, "resume", w.sess, w.wake, w.n, IF w.wake = "event" THEN "lock" ELSE "load")
    BY <1>4 DEF Deliver
  <2>2. PICK at \in {"lock", "load"} : pc' = [pc EXCEPT ![t] = at]
    BY <2>1 DEF Begin
  <2>3. PICK j : j.op # "run" /\ job' = [job EXCEPT ![t] = j]
    BY <2>1 DEF Begin
  <2>4. pc[t] # "save" /\ UNCHANGED <<store, effects, cp, runs>>
    BY <1>4 DEF Deliver
  <2> QED
    BY <1>0, <2>2, <2>3, <2>4, OnceFrame
<1>5. CASE Lock(t)
  <2>1. job[t].op # "run"
    BY <1>5 DEF Lock, IInv, JobShape
  <2> QED  BY <1>5, <2>1, OnceGoto DEF Lock
<1>6. CASE Load(t)
  <2>1. CASE Goto(t, "disarm") /\ cp' = [cp EXCEPT ![t] = store[job[t].sess]]
    <3>1. /\ pc' = [pc EXCEPT ![t] = "disarm"] /\ job' = [job EXCEPT ![t] = job[t]]
          /\ pc[t] # "save" /\ UNCHANGED <<store, effects, runs>>
      BY <1>0, <1>6, <2>1 DEF Load, Goto
    <3> QED
      BY <2>1, <3>1, OnceFrame
  <2>2. CASE Goto(t, "drive") /\ UNCHANGED cp
    <3>1. /\ \E at : at = "drive" /\ pc' = [pc EXCEPT ![t] = at]
          /\ pc[t] = "load" /\ UNCHANGED <<store, effects, job, cp, runs>>
      BY <1>6, <2>2 DEF Load, Goto
    <3> QED
      BY <3>1, OnceGoto
  <2>3. CASE Return(t)
    BY <1>2, <1>6, <2>3 DEF Load
  <2> QED
    BY <1>6, <2>1, <2>2, <2>3 DEF Load
<1>7. CASE Disarm(t) \/ Unsubscribe(t) \/ Subscribe(t)
  <2>1. PICK at \in {"unsubscribe", "cancelTimers", "register"} : pc' = [pc EXCEPT ![t] = at]
    BY <1>7 DEF Disarm, Unsubscribe, Subscribe, Goto
  <2>2. pc[t] # "save" /\ UNCHANGED <<store, effects, job, cp, runs>>
    BY <1>7 DEF Disarm, Unsubscribe, Subscribe, Goto
  <2> QED
    BY <2>1, <2>2, OnceGoto
<1>8. CASE CancelTimers(t)
  <2>1. CASE job[t].op = "resume" /\ Goto(t, "drive") /\ UNCHANGED cp
    <3>1. /\ \E at : at = "drive" /\ pc' = [pc EXCEPT ![t] = at]
          /\ pc[t] # "save" /\ UNCHANGED <<store, effects, job, cp, runs>>
          /\ job[t].op # "run"
      BY <1>8, <2>1 DEF CancelTimers, Goto
    <3> QED
      BY <3>1, OnceGoto
  <2>2. CASE Goto(t, "save") /\ cp' = [cp EXCEPT ![t] = CancelledAt(@)]
    <3>1. CancelledAt(cp[t]).status \notin Live
      BY DEF CancelledAt, Ended, Live
    <3>2. cp' = [cp EXCEPT ![t] = CancelledAt(cp[t])]
      BY <2>2
    <3>3. PICK c : c.status \notin Live /\ cp' = [cp EXCEPT ![t] = c]
      BY <3>1, <3>2
    <3>4. /\ pc' = [pc EXCEPT ![t] = "save"] /\ job' = [job EXCEPT ![t] = job[t]]
          /\ pc[t] # "save" /\ UNCHANGED <<store, effects, runs>>
      BY <1>0, <1>8, <2>2 DEF CancelTimers, Goto
    <3> QED
      BY <3>3, <3>4, OnceFrame
  <2>3. CASE Return(t)
    BY <1>2, <1>8, <2>3 DEF CancelTimers
  <2> QED
    BY <1>8, <2>1, <2>2, <2>3 DEF CancelTimers
<1>9. CASE Arm(t) \/ Register(t)
  BY <1>2, <1>9 DEF Arm, Register
<1> QED
  BY <1>1, <1>3, <1>b, <1>4, <1>5, <1>6, <1>7, <1>8, <1>9 DEF Request

LEMMA DriveOnce ==
    ASSUME IInv, OrderInv, SerialInv, OnceInv, NEW t \in Callers, Drive(t)
    PROVE  OnceInv'
<1>1. PICK s \in Sessions : s = job[t].sess
  BY DEF Drive, IInv, JobShape
<1>2. PICK k \in Segments : k = cp[t].step
  BY DEF IInv, TypeOK, Checkpoint
<1>c. cp[t] \in Checkpoint /\ job[t] \in Job
  BY DEF IInv, TypeOK
<1>d. cp[t].status \in Live \/ (job[t].op = "run" /\ k = 0)
  BY <1>2 DEF Drive, OrderInv, DriveFrom
<1>r. PICK r \in 1..MaxRuns : r = cp[t].run
  <2>1. cp[t].run # 0
    BY <1>d DEF OrderInv, DriveFrom, CallerReached
  <2> QED  BY <1>c, <2>1, EngineAssumption DEF Checkpoint
<1>s. \A u \in Callers \ {t} : job[u].sess # s
  BY <1>1, EngineAssumption DEF SerialInv, Sole
<1>3. PICK d \in Outcomes(cp[t], job[t].wake) :
        /\ cp' = [cp EXCEPT ![t] = d]
        /\ \A q \in Sessions, x \in 1..MaxRuns, j \in Segments :
              effects'[q][x][j] =
                 IF d # cp[t] /\ q = s /\ x = r /\ j = k
                 THEN Bump(effects[q][x][j]) ELSE effects[q][x][j]
  BY <1>1, <1>2, <1>r, DriveEffects
<1>4. Untouched(s, r, k)
  <2>1. CASE job[t].op = "run"
    <3>1. Untouched(s, r, 0)
      BY <1>1, <1>r, <2>1 DEF Drive, OnceInv, CallerAtFrontier
    <3> QED  BY <3>1, EngineAssumption DEF Untouched, Segments
  <2>2. CASE job[t].op # "run"
    <3>1. cp[t] = store[s] /\ cp[t].status \in Live
      BY <1>1, <1>d, <2>2 DEF Drive, SerialInv, CopyIsFresh
    <3>2. \A u \in Callers : job[u].sess = s => pc[u] # "save"
      BY <1>s DEF Drive
    <3> QED
      BY <1>2, <1>r, <3>1, <3>2 DEF OnceInv, StoreAtFrontier, AtFrontier
  <2> QED  BY <2>1, <2>2
<1>5. effects[s][r][k] = 0
  BY <1>2, <1>4, EngineAssumption DEF Untouched, Segments
<1>6. /\ effects'[s][r][k] <= 1
      /\ \A q \in Sessions, x \in 1..MaxRuns, j \in Segments :
            q # s \/ x # r \/ j # k => effects'[q][x][j] = effects[q][x][j]
  BY <1>3, <1>5 DEF Bump, EffectCap
<1>7. /\ pc'[t] = "save" /\ job' = job /\ store' = store /\ runs' = runs /\ cp'[t] = d
      /\ \A u \in Callers \ {t} : pc'[u] = pc[u] /\ cp'[u] = cp[u]
  BY <1>3 DEF Drive, Goto, IInv, TypeOK
<1>8. EffectsAtMostOnce'
  BY <1>6 DEF OnceInv, EffectsAtMostOnce
<1>9. NotBegun'
  <2>1. r <= runs[s]
    BY <1>1, <1>r DEF Drive, SerialInv, Numbered
  <2>2. \A q \in Sessions, x \in 1..MaxRuns : x > runs[q] => q # s \/ x # r
    BY <2>1, EngineAssumption DEF IInv, TypeOK
  <2> QED  BY <1>6, <1>7, <2>2 DEF OnceInv, NotBegun, Untouched
<1>10. ChildrenUnsaved'
  BY <1>7 DEF OnceInv, ChildrenUnsaved
<1>11. StoreAtFrontier'
  <2> SUFFICES ASSUME NEW q \in Sessions, store[q].status \in Live,
                      \A u \in Callers : job[u].sess = q => pc'[u] # "save"
               PROVE  AtFrontier(q, store[q])'
    BY <1>7 DEF StoreAtFrontier, AtFrontier, Untouched
  <2>1. q # s
    BY <1>1, <1>7
  <2>2. AtFrontier(q, store[q])
    BY <1>1, <1>7, <2>1 DEF Drive, OnceInv, StoreAtFrontier
  <2>3. store[q].run \in 1..MaxRuns
    <3>1. store[q] \in Checkpoint /\ store[q].run # 0
      BY DEF OrderInv, StoreReached, IInv, TypeOK
    <3> QED  BY <3>1, EngineAssumption DEF Checkpoint
  <2>4. ASSUME NEW j \in Segments, j >= store[q].step
        PROVE  effects'[q][store[q].run][j] = 0
    BY <1>6, <2>1, <2>2, <2>3, <2>4 DEF AtFrontier, Untouched
  <2> QED  BY <1>7, <2>2, <2>4 DEF AtFrontier, Untouched
<1>12. ASSUME d.status \in Live
       PROVE  AtFrontier(s, d)'
  <2>1. d.run = r /\ d = Parked(d, d.step) /\ ((k > 0 /\ d.step = k) \/ d.step = k + 1)
        /\ d = Parked(cp[t], d.step)
    BY <1>2, <1>c, <1>r, <1>12, OutcomeSteps
  <2>2. CASE d.step = k + 1
    <3>1. \A j \in Segments : j >= k + 1 => j >= k /\ j # k
      BY <1>2, EngineAssumption DEF Segments
    <3> QED  BY <1>4, <1>6, <2>1, <2>2, <3>1 DEF AtFrontier, Untouched, Parked
  <2>3. CASE k > 0 /\ d.step = k
    <3>1. cp[t].status \in Live
      BY <1>d, <2>3
    <3>2. job[t].op # "run"
      <4>1. effects[s][r][k - 1] > 0
        BY <1>1, <1>2, <1>r, <3>1 DEF OrderInv, CallerReached
      <4>2. k - 1 \in Segments /\ k - 1 >= 0
        BY <1>2, <2>3, EngineAssumption DEF Segments
      <4>3. ~Untouched(s, r, 0)
        BY <4>1, <4>2 DEF Untouched
      <4> QED  BY <1>1, <1>r, <4>3 DEF Drive, OnceInv, CallerAtFrontier
    <3>3. cp[t] = store[s]
      BY <1>1, <3>2 DEF Drive, SerialInv, CopyIsFresh
    <3>4. cp[t] = Parked(cp[t], k)
      <4>1. \A u \in Callers : job[u].sess = s => pc[u] # "save"
        BY <1>s DEF Drive
      <4> QED  BY <1>2, <3>1, <3>3, <4>1 DEF OnceInv, StoreAtFrontier, AtFrontier
    <3>5. d = cp[t]
      BY <2>1, <2>3, <3>4
    <3>6. \A j \in Segments : effects'[s][r][j] = effects[s][r][j]
      BY <1>3, <3>5
    <3> QED  BY <1>4, <2>1, <2>3, <3>6 DEF AtFrontier, Untouched, Parked
  <2> QED  BY <2>1, <2>2, <2>3
<1>13. CallerAtFrontier'
  <2> SUFFICES ASSUME NEW u \in Callers
               PROVE  /\ pc'[u] = "save" /\ cp'[u].status \in Live =>
                            AtFrontier(job[u].sess, cp[u])'
                      /\ pc'[u] \in {"load", "drive"} /\ job[u].op = "run" =>
                            Untouched(job[u].sess, cp[u].run, 0)'
    BY <1>7 DEF CallerAtFrontier
  <2>1. CASE u = t
    <3>1. d.status \in Live => AtFrontier(job[t].sess, cp[t])'
      BY <1>1, <1>7, <1>12 DEF AtFrontier, Untouched
    <3> QED  BY <1>7, <2>1, <3>1
  <2>2. CASE u # t
    <3>1. pc[u] # "idle" => job[u].sess \in Sessions \ {s}
      BY <1>s, <2>2 DEF IInv, JobShape
    <3>2. cp[u].run = 0 \/ cp[u].run \in 1..MaxRuns
      BY EngineAssumption DEF IInv, TypeOK, Checkpoint
    <3>3. /\ cp[u].status \in Live => cp[u].run \in 1..MaxRuns
          /\ job[u].op = "run" => cp[u].run \in 1..MaxRuns
      BY <3>2 DEF OrderInv, CallerReached, DriveFrom
    <3>4. pc'[u] = pc[u] /\ cp'[u] = cp[u] /\ job'[u] = job[u]
      BY <1>7, <2>2
    <3>5. ASSUME pc[u] = "save", cp[u].status \in Live
          PROVE  AtFrontier(job[u].sess, cp[u])'
      <4>1. AtFrontier(job[u].sess, cp[u])
        BY <3>5 DEF OnceInv, CallerAtFrontier
      <4> QED  BY <1>6, <3>1, <3>3, <3>4, <3>5, <4>1 DEF AtFrontier, Untouched
    <3>6. ASSUME pc[u] \in {"load", "drive"}, job[u].op = "run"
          PROVE  Untouched(job[u].sess, cp[u].run, 0)'
      <4>1. Untouched(job[u].sess, cp[u].run, 0)
        BY <3>6 DEF OnceInv, CallerAtFrontier
      <4> QED  BY <1>6, <3>1, <3>3, <3>4, <3>6, <4>1 DEF Untouched
    <3> QED  BY <3>4, <3>5, <3>6
  <2> QED  BY <2>1, <2>2
<1> QED
  BY <1>8, <1>9, <1>10, <1>11, <1>13 DEF OnceInv

LEMMA SaveOnce ==
    ASSUME IInv, SerialInv, OnceInv, NEW t \in Callers, Save(t)
    PROVE  OnceInv'
<1>1. PICK s \in Sessions : s = job[t].sess
  BY DEF Save, IInv, JobShape
<1>2. effects' = effects /\ runs' = runs
  BY DEF Save
<1>3. /\ \A u \in Callers \ {t} :
             /\ pc'[u] = pc[u] /\ cp'[u] = cp[u] /\ job'[u] = job[u]
             /\ job[u].sess # s
      /\ pc'[t] \notin {"save", "load", "drive"}
      /\ \A q \in Sessions \ {s} : store'[q] = store[q]
      /\ store'[s] = IF s \in Children THEN store[s] ELSE cp[t]
  BY <1>1, EngineAssumption DEF Save, Goto, Return, IInv, TypeOK, SerialInv, Sole
<1>4. EffectsAtMostOnce' /\ NotBegun'
  BY <1>2 DEF OnceInv, EffectsAtMostOnce, NotBegun, Untouched
<1>5. ChildrenUnsaved'
  BY <1>3, EngineAssumption DEF OnceInv, ChildrenUnsaved
<1>6. CallerAtFrontier'
  BY <1>2, <1>3 DEF OnceInv, CallerAtFrontier, AtFrontier, Untouched
<1>7. StoreAtFrontier'
  <2> SUFFICES ASSUME NEW q \in Sessions, store'[q].status \in Live,
                      \A u \in Callers : job'[u].sess = q => pc'[u] # "save"
               PROVE  AtFrontier(q, store'[q])
    BY <1>2 DEF StoreAtFrontier, AtFrontier, Untouched
  <2>1. CASE q = s
    <3>1. s \notin Children
      BY <1>3, <2>1 DEF OnceInv, ChildrenUnsaved, Absent, Begun, Live
    <3> QED
      BY <1>1, <1>3, <2>1, <3>1 DEF Save, OnceInv, CallerAtFrontier
  <2>2. CASE q # s
    <3>1. \A u \in Callers : job[u].sess = q => pc[u] # "save"
      BY <1>1, <1>3, <2>2
    <3> QED
      BY <1>3, <2>2, <3>1 DEF OnceInv, StoreAtFrontier
  <2> QED  BY <2>1, <2>2
<1> QED
  BY <1>4, <1>5, <1>6, <1>7 DEF OnceInv

LEMMA NextOnce ==
    ASSUME ~MayFail, MaxCrashes = 0, IInv, OrderInv, SerialInv, OnceInv, [Next]_vars
    PROVE  OnceInv'
<1>1. CASE UNCHANGED vars
  BY <1>1 DEF vars, OnceInv, EffectsAtMostOnce, StoreAtFrontier, CallerAtFrontier,
              AtFrontier, NotBegun, ChildrenUnsaved, Untouched
<1>2. ~Crash /\ \A t \in Callers : ~StoreFails(t)
  BY DEF Crash, StoreFails, IInv, TypeOK
<1>3. ASSUME NEW t \in Callers, Request(t) \/ Tick(t) \/ Step(t)
      PROVE  OnceInv'
  BY <1>3, OthersOnce, DriveOnce, SaveOnce DEF Step
<1> QED
  BY <1>1, <1>2, <1>3 DEF Next

\* Under a host that serialises its calls per session, over a store that does
\* not fail and without a crash, no segment executes twice in one execution,
\* whatever mix of requests, prompt timeouts, timers and events resumes it, and
\* however often the session id is run again over an older execution.
THEOREM SegmentsRunOnce ==
    ASSUME Exclusive, ~MayFail, MaxCrashes = 0
    PROVE  Spec => []EffectsAtMostOnce
<1> DEFINE I == IInv /\ OrderInv /\ SerialInv /\ OnceInv
<1>1. Init => I
  BY InitIInv, InitOrder, InitSerial, InitOnce
<1>2. I /\ [Next]_vars => I'
  BY NextIInv, NextOrder, NextSerial, NextOnce
<1>3. I => EffectsAtMostOnce
  BY DEF OnceInv
<1> QED
  BY <1>1, <1>2, <1>3, PTL DEF Spec
----------------------------------------------------------------------------
(***************************************************************************)
(* The same host again: where the wake-ups of a session are while a caller *)
(* works on it.  disarmWakeup takes the subscriptions, then the timers;    *)
(* until armWakeup puts one back the session has none, unless a run began  *)
(* over a parked session: then those of the old execution stay beside it.  *)
(***************************************************************************)
Tidy(s) ==
    \/ over[s]
    \/ /\ TimersOf(s) \subseteq TimersFor(s, store[s])
       /\ IF NeedsSubscription(store[s]) THEN \E id : subs[s] \subseteq {id} ELSE subs[s] = {}

Clear(s) == over[s] \/ (TimersOf(s) = {} /\ subs[s] = {})

AtRest(s) == registered[s] = subs[s] /\ WakeupsPresent(s) /\ Tidy(s)

Underway(t, s) ==
    /\ pc[t] \in {"lock", "load", "disarm"} /\ job[t].op # "run" =>
          registered[s] = subs[s] /\ Tidy(s)
    /\ pc[t] = "unsubscribe" => registered[s] = {} /\ subs[s] = mine[t]
    /\ pc[t] = "cancelTimers" => registered[s] = {} /\ subs[s] = {}
    /\ pc[t] \in {"drive", "save", "arm", "subscribe"} \/ (pc[t] = "load" /\ job[t].op = "run") =>
          registered[s] = subs[s] /\ Clear(s)
    /\ pc[t] \in {"arm", "subscribe", "register"} => store[s] = cp[t]
    /\ pc[t] = "arm" => TimersFor(s, cp[t]) # {}
    /\ pc[t] \in {"subscribe", "register"} => NeedsSubscription(cp[t])
    /\ pc[t] = "register" =>
          /\ subs[s] = registered[s] \cup mine[t]
          /\ \E id \in mine[t] : mine[t] = {id}
          /\ over[s] \/ (TimersOf(s) = {} /\ registered[s] = {})

Woken(s) ==
    /\ InFlight(s) \/ AtRest(s)
    /\ \A t \in Callers : job[t].sess = s => Underway(t, s)

WakeInv == \A s \in Sessions \ Children : Woken(s)

\* No step calls back the timers of s.
KeepsTaken(s) == \A tm \in Timer : tm.sess = s /\ OnItsWay(tm) => OnItsWay(tm)'

\* A checkpoint asks for one timer of its own session, or for a subscription, or
\* for nothing.
LEMMA OneWakeup ==
    ASSUME NEW s \in Sessions, NEW c \in Checkpoint, c.status \in Live => c.step \in 1..N
    PROVE  /\ \/ TimersFor(s, c) = {}
              \/ \E tm \in Timer : TimersFor(s, c) = {tm} /\ tm.sess = s /\ tm.wake # "event"
           /\ NeedsSubscription(c) => TimersFor(s, c) = {}
           /\ c.status \notin Live => TimersFor(s, c) = {} /\ ~NeedsSubscription(c)
<1>1. TimersFor(s, c) \in SUBSET Timer
  BY TimersForType
<1> QED
  BY <1>1, EngineAssumption DEF TimersFor, NeedsSubscription

LEMMA StoredWakeup ==
    ASSUME IInv, NEW s \in Sessions
    PROVE  /\ \/ TimersFor(s, store[s]) = {}
              \/ \E tm \in Timer : TimersFor(s, store[s]) = {tm} /\ tm.sess = s /\ tm.wake # "event"
           /\ NeedsSubscription(store[s]) => TimersFor(s, store[s]) = {}
           /\ store[s].status \notin Live =>
                 TimersFor(s, store[s]) = {} /\ ~NeedsSubscription(store[s])
<1>1. store[s] \in Checkpoint /\ (store[s].status \in Live => store[s].step \in 1..N)
  BY DEF IInv, TypeOK, LiveStep
<1> QED
  BY <1>1, OneWakeup

\* What is stored of r, and what is armed for it, stay as they are.
SameWakeups(r) ==
    /\ store'[r] = store[r] /\ subs'[r] = subs[r] /\ registered'[r] = registered[r]
    /\ over'[r] = over[r] /\ TimersOf(r)' = TimersOf(r)

\* A session that does not move keeps its wake-ups.
LEMMA RestKept ==
    ASSUME NEW r \in Sessions, IInv, SameWakeups(r), KeepsTaken(r), AtRest(r)
    PROVE  AtRest(r)'
<1>1. registered'[r] = subs'[r] /\ Tidy(r)'
  BY DEF AtRest, Tidy, SameWakeups
<1>2. (NeedsSubscription(store[r]) => subs[r] # {})'
  BY DEF AtRest, WakeupsPresent, SameWakeups
<1>3. ASSUME NEW tm \in TimersFor(r, store'[r])
      PROVE  tm \in timers' \/ OnItsWay(tm)'
  <2>1. tm \in Timer /\ tm.sess = r /\ tm \in TimersFor(r, store[r])
    BY <1>3, StoredWakeup DEF SameWakeups
  <2>2. tm \in TimersOf(r) => tm \in TimersOf(r)'
    BY DEF SameWakeups
  <2> QED
    BY <2>1, <2>2 DEF AtRest, WakeupsPresent, KeepsTaken, TimersOf
<1> QED
  BY <1>1, <1>2, <1>3 DEF AtRest, WakeupsPresent

\* A session with nothing in flight, and those whose callers did not move, keep
\* their wake-ups while t works on s.
LEMMA WokenElsewhere ==
    ASSUME IInv, WakeInv, NEW t \in Callers, NEW s,
           job[t].sess \in {s, NoSession}, job'[t].sess \in {s, NoSession},
           \A u \in Callers \ {t} : /\ pc'[u] = pc[u] /\ job'[u] = job[u]
                                    /\ cp'[u] = cp[u] /\ mine'[u] = mine[u],
           NEW r \in Sessions \ Children, r # s, SameWakeups(r), KeepsTaken(r)
    PROVE  Woken(r)'
<1>1. r # NoSession /\ Woken(r)
  BY EngineAssumption DEF WakeInv
<1>2. \A u \in Callers : job'[u].sess = r <=> job[u].sess = r
  BY <1>1
<1>3. InFlight(r)' <=> InFlight(r)
  BY <1>2 DEF InFlight
<1>4. AtRest(r) => AtRest(r)'
  BY RestKept
<1>5. \A u \in Callers : job[u].sess = r => u # t
  BY <1>1
<1>6. \A u \in Callers : job[u].sess = r /\ Underway(u, r) => Underway(u, r)'
  BY <1>5 DEF Underway, SameWakeups, Tidy, Clear
<1> QED
  BY <1>1, <1>2, <1>3, <1>4, <1>6 DEF Woken

\* The session that t has worked on, and works on no longer.
LEMMA WokenAtRest ==
    ASSUME NEW s, \A u \in Callers : job'[u].sess # s, AtRest(s)'
    PROVE  Woken(s)'
BY DEF Woken, InFlight

\* The session t works on, alone.
LEMMA WokenUnderway ==
    ASSUME NEW t \in Callers, NEW s, job'[t].sess = s,
           \A u \in Callers \ {t} : job'[u].sess # s, Underway(t, s)'
    PROVE  Woken(s)'
BY DEF Woken, InFlight

LEMMA InitWake == Init => WakeInv
<1> SUFFICES ASSUME Init, NEW s \in Sessions \ Children PROVE Woken(s)
  BY DEF WakeInv
<1>1. TimersFor(s, store[s]) = {} /\ ~NeedsSubscription(store[s])
  BY DEF Init, TimersFor, NeedsSubscription, Absent, Begun, Live
<1>2. TimersOf(s) = {} /\ subs[s] = {} /\ registered[s] = {}
  BY DEF Init, TimersOf
<1>3. \A u \in Callers : job[u].sess # s
  BY EngineAssumption DEF Init, NoJob
<1> QED
  BY <1>1, <1>2, <1>3 DEF Woken, InFlight, AtRest, WakeupsPresent, Tidy

\* A step of t that concerns no session but s.
LEMMA WokenStep ==
    ASSUME IInv, WakeInv, NEW t \in Callers, NEW s \in Sessions,
           job[t].sess \in {s, NoSession}, job'[t].sess \in {s, NoSession},
           \A u \in Callers \ {t} : /\ pc'[u] = pc[u] /\ job'[u] = job[u]
                                    /\ cp'[u] = cp[u] /\ mine'[u] = mine[u],
           \A r \in Sessions \ {s} : SameWakeups(r) /\ KeepsTaken(r),
           s \notin Children => Woken(s)'
    PROVE  WakeInv'
<1> SUFFICES ASSUME NEW r \in Sessions \ Children PROVE Woken(r)'
  BY DEF WakeInv
<1> QED
  BY WokenElsewhere

\* An operation begins on a session nobody else works on.
LEMMA BeginWoken ==
    ASSUME IInv, WakeInv, NEW t \in Callers, NEW s \in Sessions,
           NEW op, NEW wake, NEW n, NEW at \in {"lock", "load", "drive"},
           pc[t] = "idle", Begin(t, op, s, wake, n, at),
           \A u \in Callers \ {t} : job[u].sess # s,
           at = "drive" => s \in Children,
           op = "run" => over'[s] = (over[s] \/ store[s].status \in Live),
           op # "run" => over'[s] = over[s],
           op = "run" => at # "lock",
           UNCHANGED <<store, timers, subs, registered, mine>>,
           \A u \in Callers \ {t} : cp'[u] = cp[u],
           \A r \in Sessions \ {s} : over'[r] = over[r] /\ KeepsTaken(r)
    PROVE  WakeInv'
<1>1. job[t].sess = NoSession
  BY DEF IInv, JobShape, NoJob
<1>2. job'[t].sess = s /\ pc'[t] = at /\ job'[t].op = op
  BY DEF Begin, IInv, TypeOK
<1>3. \A u \in Callers \ {t} : /\ pc'[u] = pc[u] /\ job'[u] = job[u]
                               /\ cp'[u] = cp[u] /\ mine'[u] = mine[u]
  BY DEF Begin, IInv, TypeOK
<1>4. \A r : TimersOf(r)' = TimersOf(r)
  BY DEF TimersOf
<1>5. ASSUME s \notin Children PROVE Woken(s)'
  <2>1. AtRest(s) /\ at # "drive"
    BY <1>1, <1>5, EngineAssumption DEF WakeInv, Woken, InFlight
  <2>2. registered'[s] = subs'[s]
    BY <2>1 DEF AtRest
  <2>3. op # "run" => Tidy(s)'
    BY <1>4, <2>1 DEF AtRest, Tidy
  <2>4. op = "run" => Clear(s)'
    <3>1. CASE over[s] \/ store[s].status \in Live
      BY <3>1 DEF Clear
    <3>2. CASE ~over[s] /\ store[s].status \notin Live
      <4>1. TimersOf(s) = {} /\ subs[s] = {}
        BY <2>1, <3>2, StoredWakeup DEF AtRest, Tidy
      <4> QED  BY <1>4, <4>1 DEF Clear
    <3> QED  BY <3>1, <3>2
  <2>5. Underway(t, s)'
    BY <1>2, <2>1, <2>2, <2>3, <2>4 DEF Underway
  <2>6. \A u \in Callers \ {t} : job'[u].sess # s
    BY <1>3
  <2> QED
    BY <1>2, <2>5, <2>6, WokenUnderway
<1>6. \A r \in Sessions \ {s} : SameWakeups(r)
  BY <1>4 DEF SameWakeups
<1> QED
  BY <1>1, <1>2, <1>3, <1>5, <1>6, WokenStep

\* Requests, ticks and callbacks.
LEMMA CallsWoken ==
    ASSUME Exclusive, IInv, WakeInv, NEW t \in Callers,
           \/ Request(t) \/ Tick(t) \/ Deliver(t)
    PROVE  WakeInv'
<1>t. over \in [Sessions -> BOOLEAN]
  BY DEF IInv, TypeOK
<1>1. ASSUME NEW s \in Sessions, NEW wake, ResumeSession(t, s, wake) \/ CancelSession(t, s)
      PROVE  WakeInv'
  <2>1. \A r : KeepsTaken(r)
    BY <1>1 DEF ResumeSession, CancelSession, KeepsTaken, OnItsWay
  <2>2. \A u \in Callers \ {t} : job[u].sess # s
    BY <1>1 DEF ResumeSession, CancelSession, MayStart
  <2>3. pc[t] = "idle" /\ UNCHANGED <<store, timers, subs, registered, mine, cp, over>>
    BY <1>1 DEF ResumeSession, CancelSession, Free
  <2>4. PICK op \in {"resume", "cancel"} : \E w : Begin(t, op, s, w, 0, "load")
    BY <1>1 DEF ResumeSession, CancelSession
  <2>5. PICK w, at : at = "load" /\ Begin(t, op, s, w, 0, at)
    BY <2>4
  <2>6. op # "run" /\ at \in {"lock", "load", "drive"} /\ at # "drive"
    BY <2>4, <2>5
  <2> QED
    BY <2>1, <2>2, <2>3, <2>5, <2>6, BeginWoken
<1>b. ASSUME NEW s \in Sessions, StartSession(t, s)
      PROVE  WakeInv'
  <2>1. \A r : KeepsTaken(r)
    BY <1>b DEF StartSession, KeepsTaken, OnItsWay
  <2>2. \A u \in Callers \ {t} : job[u].sess # s
    BY <1>b DEF StartSession, MayStart
  <2>3. pc[t] = "idle" /\ UNCHANGED <<store, timers, subs, registered, mine>>
    BY <1>b DEF StartSession, Free
  <2>4. \A u \in Callers \ {t} : cp'[u] = cp[u]
    BY <1>b DEF StartSession, IInv, TypeOK
  <2>5. over'[s] = (over[s] \/ store[s].status \in Live)
        /\ \A r \in Sessions \ {s} : over'[r] = over[r]
    BY <1>b, <1>t DEF StartSession
  <2>a. PICK at : at = IF s \in Children THEN "drive" ELSE "load"
    OBVIOUS
  <2>b. PICK op : op = "run"
    OBVIOUS
  <2>6. /\ op = "run" /\ at \in {"load", "drive"} /\ (at = "drive" => s \in Children)
        /\ \E w, n : Begin(t, op, s, w, n, at)
    <3>1. Begin(t, op, s, "null", 0, at)
      BY <1>b, <2>a, <2>b DEF StartSession
    <3>2. \E w, n : Begin(t, op, s, w, n, at)
      BY <3>1
    <3> QED  BY <2>a, <2>b, <3>2
  <2> QED
    BY <2>1, <2>2, <2>3, <2>4, <2>5, <2>6, BeginWoken
<1>2. CASE Publish(t)
  <2>1. \A r : KeepsTaken(r)
    <3>1. todo[t] = {} /\ \A u \in Callers \ {t} : todo'[u] = todo[u]
      BY <1>2 DEF Publish, Free, IInv, TypeOK
    <3> QED  BY <3>1 DEF KeepsTaken, OnItsWay
  <2>2. UNCHANGED <<store, timers, subs, registered, mine, pc, job, cp, over>>
    BY <1>2 DEF Publish
  <2>3. \A r : InFlight(r)' = InFlight(r) /\ SameWakeups(r)
    BY <2>2 DEF InFlight, SameWakeups, TimersOf
  <2> SUFFICES ASSUME NEW s \in Sessions \ Children PROVE Woken(s)'
    BY DEF WakeInv
  <2>4. AtRest(s) => AtRest(s)'
    BY <2>1, <2>3, RestKept
  <2>5. \A u \in Callers : Underway(u, s) => Underway(u, s)'
    BY <2>2, <2>3 DEF Underway, Tidy, Clear, SameWakeups
  <2> QED
    BY <2>2, <2>3, <2>4, <2>5 DEF WakeInv, Woken
<1>3. CASE Tick(t)
  <2>1. PICK due \in SUBSET timers : timers' = timers \ due /\ todo' = [todo EXCEPT ![t] = due]
    BY <1>3 DEF Tick, Due
  <2>2. UNCHANGED <<store, subs, registered, mine, pc, job, cp, over>>
    BY <1>3 DEF Tick
  <2> SUFFICES ASSUME NEW s \in Sessions \ Children PROVE Woken(s)'
    BY DEF WakeInv
  <2>3. Woken(s)
    BY DEF WakeInv
  <2>4. TimersOf(s)' \subseteq TimersOf(s)
    BY <2>1 DEF TimersOf
  <2>5. todo'[t] = due /\ todo[t] = {} /\ \A u \in Callers \ {t} : todo'[u] = todo[u]
    BY <1>3, <2>1 DEF Tick, Free, IInv, TypeOK
  <2>6. \A tm : tm \in timers \/ OnItsWay(tm) => tm \in timers' \/ OnItsWay(tm)'
    BY <2>1, <2>5 DEF OnItsWay
  <2>7. Tidy(s) => Tidy(s)'
    BY <2>2, <2>4 DEF Tidy
  <2>8. InFlight(s)' = InFlight(s)
    BY <2>2 DEF InFlight
  <2>9. AtRest(s) => AtRest(s)'
    BY <2>2, <2>6, <2>7 DEF AtRest, WakeupsPresent
  <2>10. \A u \in Callers : Underway(u, s) => Underway(u, s)'
    BY <2>2, <2>4, <2>7 DEF Underway, Clear
  <2> QED
    BY <2>2, <2>3, <2>8, <2>9, <2>10 DEF Woken
<1>4. CASE Deliver(t)
  <2>1. PICK w \in todo[t] :
          /\ MayStart(t, w.sess)
          /\ todo' = [todo EXCEPT ![t] = @ \ {w}]
          /\ Begin(t, "resume", w.sess, w.wake, w.n, IF w.wake = "event" THEN "lock" ELSE "load")
    BY <1>4 DEF Deliver
  <2>2. w.sess \in Sessions
    BY <2>1 DEF IInv, TypeOK, Wakeup
  <2>3. \A r \in Sessions \ {w.sess} : KeepsTaken(r)
    <3>1. todo'[t] = todo[t] \ {w} /\ \A u \in Callers \ {t} : todo'[u] = todo[u]
      BY <2>1 DEF IInv, TypeOK
    <3> QED  BY <3>1 DEF KeepsTaken, OnItsWay
  <2>4. \A u \in Callers \ {t} : job[u].sess # w.sess
    BY <2>1 DEF MayStart
  <2>5. pc[t] = "idle" /\ UNCHANGED <<store, timers, subs, registered, mine, cp, over>>
    BY <1>4 DEF Deliver
  <2>a. PICK at : at = IF w.wake = "event" THEN "lock" ELSE "load"
    OBVIOUS
  <2>b. PICK op : op = "resume"
    OBVIOUS
  <2>6. /\ op # "run" /\ at \in {"lock", "load"}
        /\ Begin(t, op, w.sess, w.wake, w.n, at)
    <3>1. Begin(t, op, w.sess, w.wake, w.n, at)
      BY <2>1, <2>a, <2>b
    <3> QED  BY <2>a, <2>b, <3>1
  <2> QED
    BY <2>2, <2>3, <2>4, <2>5, <2>6, BeginWoken
<1> QED
  BY <1>1, <1>b, <1>2, <1>3, <1>4 DEF Request

\* A step of t concerns no other caller, and no session but s.
OthersStay(t) ==
    \A u \in Callers \ {t} :
        pc'[u] = pc[u] /\ job'[u] = job[u] /\ cp'[u] = cp[u] /\ mine'[u] = mine[u]

ElsewhereSame(s) == \A r \in Sessions \ {s} : SameWakeups(r)

\* The caller of s goes on with its operation.
LEMMA GoesOnWoken ==
    ASSUME IInv, SerialInv, WakeInv, NEW t \in Callers, NEW s \in Sessions, s = job[t].sess,
           OthersStay(t), ElsewhereSame(s), todo' = todo, job'[t] = job[t],
           s \notin Children => Underway(t, s)'
    PROVE  WakeInv'
<1>1. \A u \in Callers \ {t} : job'[u].sess # s
  BY EngineAssumption DEF SerialInv, Sole, OthersStay
<1>2. \A r : KeepsTaken(r)
  BY DEF KeepsTaken, OnItsWay
<1>3. s \notin Children => Woken(s)'
  BY <1>1, WokenUnderway
<1> QED
  BY <1>1, <1>2, <1>3, WokenStep DEF OthersStay, ElsewhereSame

\* The caller of s returns.
LEMMA EndsWoken ==
    ASSUME IInv, SerialInv, WakeInv, NEW t \in Callers, NEW s \in Sessions, s = job[t].sess,
           Return(t), ElsewhereSame(s), todo' = todo,
           s \notin Children => AtRest(s)'
    PROVE  WakeInv'
<1>1. job'[t].sess = NoSession /\ s # NoSession /\ OthersStay(t)
  BY EngineAssumption DEF Return, NoJob, IInv, TypeOK, OthersStay
<1>2. \A u \in Callers : job'[u].sess # s
  BY <1>1, EngineAssumption DEF SerialInv, Sole, OthersStay
<1>3. \A r : KeepsTaken(r)
  BY DEF KeepsTaken, OnItsWay
<1>4. s \notin Children => Woken(s)'
  BY <1>2, WokenAtRest
<1> QED
  BY <1>1, <1>3, <1>4, WokenStep DEF OthersStay, ElsewhereSame

\* What is known of the session t works on.
LEMMA AtWork ==
    ASSUME IInv, WakeInv, NEW t \in Callers, pc[t] # "idle"
    PROVE  /\ job[t].sess \in Sessions
           /\ job[t].sess \notin Children => Underway(t, job[t].sess)
BY DEF IInv, TypeOK, JobShape, WakeInv, Woken

\* Finding the subscriptions and taking them away.
LEMMA DisarmWoken ==
    ASSUME IInv, SerialInv, WakeInv, NEW t \in Callers,
           Lock(t) \/ Load(t) \/ Disarm(t) \/ Unsubscribe(t)
    PROVE  WakeInv'
<1>0. /\ pc[t] # "idle" /\ UNCHANGED <<store, timers, todo, over>>
      /\ \A r : TimersOf(r)' = TimersOf(r)
  BY DEF Lock, Load, Disarm, Unsubscribe, TimersOf
<1>1. PICK s \in Sessions : s = job[t].sess /\ (s \notin Children => Underway(t, s))
  BY <1>0, AtWork
<1>2. \A r \in Sessions \ {s} :
        subs'[r] = subs[r] /\ registered'[r] = registered[r] => SameWakeups(r)
  BY <1>0 DEF SameWakeups
<1>3. CASE Lock(t)
  <2>1. UNCHANGED <<subs, registered, mine, cp, job>> /\ pc'[t] = "load" /\ pc[t] = "lock"
        /\ OthersStay(t) /\ job[t].op # "run"
    BY <1>3 DEF Lock, IInv, TypeOK, OthersStay, JobShape
  <2>2. s \notin Children => Underway(t, s)'
    BY <1>0, <1>1, <2>1 DEF Underway, Tidy
  <2> QED
    BY <1>0, <1>1, <1>2, <2>1, <2>2, GoesOnWoken DEF ElsewhereSame
<1>4. CASE Load(t)
  <2>1. UNCHANGED <<subs, registered>> /\ pc[t] = "load"
    BY <1>4 DEF Load
  <2>e. ElsewhereSame(s)
    BY <1>2, <2>1 DEF ElsewhereSame
  <2>2. CASE /\ job[t].op # "run" /\ cp' = [cp EXCEPT ![t] = store[s]]
             /\ Goto(t, "disarm") /\ UNCHANGED mine
    <3>1. job' = job /\ pc'[t] = "disarm" /\ OthersStay(t)
      BY <2>2 DEF Goto, IInv, TypeOK, OthersStay
    <3>2. s \notin Children => Underway(t, s)'
      BY <1>0, <1>1, <2>1, <2>2, <3>1 DEF Underway, Tidy
    <3> QED
      BY <1>0, <1>1, <2>e, <3>1, <3>2, GoesOnWoken
  <2>3. CASE job[t].op # "run" /\ ~Resumable(store[s]) /\ Return(t)
    <3>1. TimersFor(s, store[s]) = {} /\ ~NeedsSubscription(store[s])
      BY <1>1, <2>3, StoredWakeup DEF Resumable
    <3>2. s \notin Children => registered[s] = subs[s] /\ Tidy(s)
      BY <1>1, <2>1, <2>3 DEF Underway
    <3>3. s \notin Children => AtRest(s)'
      BY <1>0, <2>1, <3>1, <3>2 DEF AtRest, WakeupsPresent, Tidy
    <3> QED
      BY <1>0, <1>1, <2>e, <2>3, <3>3, EndsWoken
  <2>4. CASE job[t].op = "run" /\ Goto(t, "drive") /\ UNCHANGED <<cp, mine>>
    <3>1. job' = job /\ pc'[t] = "drive" /\ OthersStay(t)
      BY <2>4 DEF Goto, IInv, TypeOK, OthersStay
    <3>2. s \notin Children => Underway(t, s)'
      BY <1>0, <1>1, <2>1, <2>4, <3>1 DEF Underway, Clear
    <3> QED
      BY <1>0, <1>1, <2>e, <3>1, <3>2, GoesOnWoken
  <2> QED
    BY <1>1, <1>4, <2>2, <2>3, <2>4 DEF Load
<1>5. CASE Disarm(t)
  <2>1. UNCHANGED <<subs, cp>> /\ pc[t] = "disarm" /\ job[t].op # "run"
    BY <1>5 DEF Disarm, IInv, JobShape
  <2>2. CASE registered[s] = {} /\ Goto(t, "cancelTimers") /\ UNCHANGED <<registered, mine>>
    <3>1. job' = job /\ pc'[t] = "cancelTimers" /\ OthersStay(t)
      BY <2>1, <2>2 DEF Goto, IInv, TypeOK, OthersStay
    <3>2. s \notin Children => Underway(t, s)'
      BY <1>0, <1>1, <2>1, <2>2, <3>1 DEF Underway
    <3> QED
      BY <1>0, <1>1, <1>2, <2>1, <2>2, <3>1, <3>2, GoesOnWoken DEF ElsewhereSame
  <2>3. CASE /\ mine' = [mine EXCEPT ![t] = registered[s]] /\ Forget(s)
             /\ Goto(t, "unsubscribe")
    <3>1. job' = job /\ pc'[t] = "unsubscribe" /\ OthersStay(t)
      BY <2>1, <2>3 DEF Goto, IInv, TypeOK, OthersStay
    <3>2. registered'[s] = {} /\ mine'[t] = registered[s]
          /\ \A r \in Sessions \ {s} : registered'[r] = registered[r]
      BY <1>1, <2>3 DEF Forget, IInv, TypeOK
    <3>3. s \notin Children => Underway(t, s)'
      BY <1>0, <1>1, <2>1, <3>1, <3>2 DEF Underway
    <3> QED
      BY <1>0, <1>1, <1>2, <2>1, <3>1, <3>2, <3>3, GoesOnWoken DEF ElsewhereSame
  <2> QED
    BY <1>1, <1>5, <2>2, <2>3 DEF Disarm
<1>6. CASE Unsubscribe(t)
  <2>1. UNCHANGED <<registered, cp>> /\ pc[t] = "unsubscribe"
    BY <1>6 DEF Unsubscribe
  <2>2. PICK id \in mine[t] :
          /\ subs' = [subs EXCEPT ![s] = @ \ {id}] /\ mine' = [mine EXCEPT ![t] = @ \ {id}]
          /\ Goto(t, IF mine[t] = {id} THEN "cancelTimers" ELSE "unsubscribe")
    BY <1>1, <1>6 DEF Unsubscribe
  <2>3. /\ job' = job /\ OthersStay(t)
        /\ pc'[t] = IF mine[t] = {id} THEN "cancelTimers" ELSE "unsubscribe"
    BY <2>1, <2>2 DEF Goto, IInv, TypeOK, OthersStay
  <2>4. subs'[s] = subs[s] \ {id} /\ mine'[t] = mine[t] \ {id}
        /\ \A r \in Sessions \ {s} : subs'[r] = subs[r]
    BY <1>1, <2>2 DEF IInv, TypeOK
  <2>5. s \notin Children => Underway(t, s)'
    BY <1>0, <1>1, <2>1, <2>3, <2>4 DEF Underway
  <2> QED
    BY <1>0, <1>1, <1>2, <2>1, <2>3, <2>4, <2>5, GoesOnWoken DEF ElsewhereSame
<1> QED
  BY <1>3, <1>4, <1>5, <1>6

\* The timers go: nothing is left of the session's wake-ups.
LEMMA CancelTimersWoken ==
    ASSUME IInv, SerialInv, WakeInv, NEW t \in Callers, CancelTimers(t)
    PROVE  WakeInv'
<1>0. pc[t] = "cancelTimers" /\ UNCHANGED <<store, subs, registered, todo>>
  BY DEF CancelTimers
<1>1. PICK s \in Sessions : s = job[t].sess /\ (s \notin Children => Underway(t, s))
  BY <1>0, AtWork
<1>2. TimersOf(s)' = {} /\ \A r \in Sessions \ {s} : TimersOf(r)' = TimersOf(r)
  BY <1>1 DEF CancelTimers, CancelTimersForSession, TimersOf
<1>o. \A r \in Sessions \ {s} : over'[r] = over[r]
  BY <1>1 DEF CancelTimers, IInv, TypeOK
<1>3. ElsewhereSame(s)
  BY <1>0, <1>2, <1>o DEF ElsewhereSame, SameWakeups
<1>4. cp[t] = store[s]
  BY <1>0, <1>1 DEF SerialInv, CopyIsFresh
<1>s. s \notin Children => subs[s] = {} /\ registered[s] = {}
  BY <1>0, <1>1 DEF Underway
<1>5. ASSUME (Goto(t, "drive") /\ UNCHANGED cp) \/ Goto(t, "save"), UNCHANGED mine,
             \A u \in Callers \ {t} : cp'[u] = cp[u]
      PROVE  WakeInv'
  <2>1. job' = job /\ pc'[t] \in {"drive", "save"} /\ OthersStay(t)
    BY <1>5 DEF Goto, IInv, TypeOK, OthersStay
  <2>2. s \notin Children => Underway(t, s)'
    BY <1>0, <1>s, <1>2, <2>1 DEF Underway, Clear
  <2> QED
    BY <1>0, <1>1, <1>3, <2>1, <2>2, GoesOnWoken
<1>6. ASSUME ~Cancellable(cp[t]), Return(t)
      PROVE  WakeInv'
  <2>1. TimersFor(s, store[s]) = {} /\ ~NeedsSubscription(store[s])
    BY <1>4, <1>6, StoredWakeup DEF Cancellable
  <2>3. TimersFor(s, store[s])' = {} /\ ~NeedsSubscription(store'[s])
    BY <1>0, <2>1
  <2>4. s \notin Children => AtRest(s)'
    BY <1>0, <1>2, <1>s, <2>3 DEF AtRest, WakeupsPresent, Tidy
  <2> QED
    BY <1>0, <1>1, <1>3, <1>6, <2>4, EndsWoken
<1>7. \/ Goto(t, "drive") /\ UNCHANGED <<cp, mine>>
      \/ (\E c : cp' = [cp EXCEPT ![t] = c]) /\ Goto(t, "save") /\ UNCHANGED mine
      \/ ~Cancellable(cp[t]) /\ Return(t)
  BY DEF CancelTimers
<1>8. (\E c : cp' = [cp EXCEPT ![t] = c]) => \A u \in Callers \ {t} : cp'[u] = cp[u]
  BY DEF IInv, TypeOK
<1> QED
  BY <1>5, <1>6, <1>7, <1>8

\* Execution, and the save that decides what is armed.
LEMMA SaveWoken ==
    ASSUME IInv, SerialInv, WakeInv, NEW t \in Callers, Drive(t) \/ Save(t)
    PROVE  WakeInv'
<1>0. /\ pc[t] \in {"drive", "save"} /\ UNCHANGED <<timers, subs, registered, todo, over>>
      /\ \A r : TimersOf(r)' = TimersOf(r)
  BY DEF Drive, Save, TimersOf
<1>1. PICK s \in Sessions : s = job[t].sess /\ (s \notin Children => Underway(t, s))
  BY <1>0, AtWork
<1>2. s \notin Children => registered[s] = subs[s] /\ Clear(s) /\ Clear(s)'
  BY <1>0, <1>1 DEF Underway, Clear
<1>3. CASE Drive(t)
  <2>1. PICK c : cp' = [cp EXCEPT ![t] = c]
    BY <1>3 DEF Drive
  <2>2. UNCHANGED <<store, mine>> /\ Goto(t, "save")
    BY <1>3 DEF Drive
  <2>3. job' = job /\ pc'[t] = "save" /\ OthersStay(t)
    BY <2>1, <2>2 DEF Goto, IInv, TypeOK, OthersStay
  <2>4. s \notin Children => Underway(t, s)'
    BY <1>0, <1>2, <2>3 DEF Underway
  <2> QED
    BY <1>0, <1>1, <2>2, <2>3, <2>4, GoesOnWoken DEF ElsewhereSame, SameWakeups
<1>4. CASE Save(t)
  <2>1. \A r \in Sessions \ {s} : store'[r] = store[r]
    BY <1>1, <1>4 DEF Save, IInv, TypeOK
  <2>2. s \notin Children => store'[s] = cp[t]
    BY <1>1, <1>4 DEF Save, IInv, TypeOK
  <2>3. ElsewhereSame(s)
    BY <1>0, <2>1 DEF ElsewhereSame, SameWakeups
  <2>4. ASSUME UNCHANGED <<cp, mine>>,
               \/ Goto(t, "arm") /\ TimersFor(s, cp[t]) # {}
               \/ Goto(t, "subscribe") /\ NeedsSubscription(cp[t])
        PROVE  WakeInv'
    <3>1. job' = job /\ OthersStay(t) /\ \/ pc'[t] = "arm" /\ TimersFor(s, cp[t]) # {}
                                         \/ pc'[t] = "subscribe" /\ NeedsSubscription(cp[t])
      BY <2>4 DEF Goto, IInv, TypeOK, OthersStay
    <3>2. s \notin Children => Underway(t, s)'
      BY <1>0, <1>2, <2>2, <2>4, <3>1 DEF Underway
    <3> QED
      BY <1>0, <1>1, <2>3, <3>1, <3>2, GoesOnWoken
  <2>5. ASSUME TimersFor(s, cp[t]) = {}, ~NeedsSubscription(cp[t]), Return(t)
        PROVE  WakeInv'
    <3>1. s \notin Children => TimersFor(s, store[s])' = {} /\ ~NeedsSubscription(store'[s])
      BY <2>2, <2>5
    <3>2. s \notin Children => AtRest(s)'
      BY <1>0, <1>2, <3>1 DEF AtRest, WakeupsPresent, Tidy, Clear
    <3> QED
      BY <1>0, <1>1, <2>3, <2>5, <3>2, EndsWoken
  <2> QED
    BY <1>1, <1>4, <2>4, <2>5 DEF Save
<1> QED
  BY <1>3, <1>4

\* armWakeup: the timer, or the subscription and then its id.
LEMMA ArmWoken ==
    ASSUME IInv, SerialInv, WakeInv, NEW t \in Callers, Arm(t) \/ Subscribe(t) \/ Register(t)
    PROVE  WakeInv'
<1>0. pc[t] \in {"arm", "subscribe", "register"} /\ UNCHANGED <<store, todo, over>>
  BY DEF Arm, Subscribe, Register
<1>1. PICK s \in Sessions : s = job[t].sess /\ (s \notin Children => Underway(t, s))
  BY <1>0, AtWork
<1>2. s \notin Children => store[s] = cp[t]
  BY <1>0, <1>1 DEF Underway
<1>3. CASE Arm(t)
  <2>1. UNCHANGED <<subs, registered>> /\ pc[t] = "arm" /\ Return(t)
    BY <1>3 DEF Arm
  <2>2. PICK tm \in TimersFor(s, cp[t]) : AddTimer(tm)
    BY <1>1, <1>3 DEF Arm
  <2>3. TimersFor(s, cp[t]) = {tm} /\ tm.sess = s /\ ~NeedsSubscription(cp[t])
    <3>1. cp[t] \in Checkpoint /\ (cp[t].status \in Live => cp[t].step \in 1..N)
      BY DEF IInv, TypeOK, LiveStep
    <3> QED
      BY <2>2, <3>1, OneWakeup
  <2>4. \A r \in Sessions \ {s} : TimersOf(r)' = TimersOf(r)
    BY <2>2, <2>3 DEF AddTimer, TimersOf
  <2>5. tm \in timers' /\ (TimersOf(s) = {} => TimersOf(s)' = {tm})
    BY <2>2, <2>3 DEF AddTimer, TimersOf
  <2>6. s \notin Children => TimersFor(s, store[s])' = {tm} /\ ~NeedsSubscription(store'[s])
    BY <1>0, <1>2, <2>3
  <2>7. s \notin Children => registered[s] = subs[s] /\ Clear(s)
    BY <1>1, <2>1 DEF Underway
  <2>8. s \notin Children => AtRest(s)'
    BY <1>0, <2>1, <2>5, <2>6, <2>7 DEF AtRest, WakeupsPresent, Tidy, Clear
  <2>9. ElsewhereSame(s)
    BY <1>0, <2>1, <2>4 DEF ElsewhereSame, SameWakeups
  <2> QED
    BY <1>0, <1>1, <2>1, <2>8, <2>9, EndsWoken
<1>4. CASE Subscribe(t)
  <2>1. UNCHANGED <<timers, registered, cp>> /\ pc[t] = "subscribe" /\ Goto(t, "register")
    BY <1>4 DEF Subscribe
  <2>2. PICK id : subs' = [subs EXCEPT ![s] = @ \cup {id}] /\ mine' = [mine EXCEPT ![t] = {id}]
    BY <1>1, <1>4 DEF Subscribe
  <2>3. /\ subs'[s] = subs[s] \cup {id} /\ mine'[t] = {id}
        /\ \A r \in Sessions \ {s} : subs'[r] = subs[r]
    BY <1>1, <2>2 DEF IInv, TypeOK
  <2>4. job' = job /\ pc'[t] = "register" /\ OthersStay(t)
    BY <2>1, <2>2 DEF Goto, IInv, TypeOK, OthersStay
  <2>5. \A r : TimersOf(r)' = TimersOf(r)
    BY <2>1 DEF TimersOf
  <2>6. s \notin Children => registered[s] = subs[s] /\ Clear(s) /\ NeedsSubscription(cp[t])
    BY <1>1, <2>1 DEF Underway
  <2>7. s \notin Children => Underway(t, s)'
    BY <1>0, <1>2, <2>1, <2>3, <2>4, <2>5, <2>6 DEF Underway, Clear
  <2> QED
    BY <1>0, <1>1, <2>1, <2>3, <2>4, <2>5, <2>7, GoesOnWoken DEF ElsewhereSame, SameWakeups
<1>5. CASE Register(t)
  <2>1. UNCHANGED <<timers, subs>> /\ pc[t] = "register" /\ Return(t)
    BY <1>5 DEF Register
  <2>2. /\ registered'[s] = registered[s] \cup mine[t]
        /\ \A r \in Sessions \ {s} : registered'[r] = registered[r]
    BY <1>1, <1>5 DEF Register, IInv, TypeOK
  <2>3. \A r : TimersOf(r)' = TimersOf(r)
    BY <2>1 DEF TimersOf
  <2>4. s \notin Children =>
          /\ subs[s] = registered[s] \cup mine[t] /\ NeedsSubscription(store[s])
          /\ \E id \in mine[t] : mine[t] = {id}
          /\ over[s] \/ (TimersOf(s) = {} /\ registered[s] = {})
    BY <1>1, <1>2, <2>1 DEF Underway
  <2>5. s \notin Children => TimersFor(s, store[s])' = {}
    BY <1>0, <2>4, StoredWakeup
  <2>6. s \notin Children => AtRest(s)'
    BY <1>0, <2>1, <2>2, <2>3, <2>4, <2>5 DEF AtRest, WakeupsPresent, Tidy
  <2> QED
    BY <1>0, <1>1, <2>1, <2>2, <2>3, <2>6, EndsWoken DEF ElsewhereSame, SameWakeups
<1> QED
  BY <1>3, <1>4, <1>5

LEMMA NextWake ==
    ASSUME Exclusive, ~MayFail, MaxCrashes = 0, IInv, SerialInv, WakeInv, [Next]_vars
    PROVE  WakeInv'
<1>1. CASE UNCHANGED vars
  <2>1. \A r : TimersOf(r)' = TimersOf(r) /\ InFlight(r)' = InFlight(r)
    BY <1>1 DEF vars, TimersOf, InFlight
  <2>2. \A r : AtRest(r) => AtRest(r)'
    BY <1>1, <2>1 DEF vars, AtRest, WakeupsPresent, OnItsWay, Tidy
  <2>3. \A u \in Callers, r \in Sessions : Underway(u, r) => Underway(u, r)'
    BY <1>1, <2>1 DEF vars, Underway, Tidy, Clear
  <2>4. UNCHANGED job
    BY <1>1 DEF vars
  <2> QED
    BY <2>1, <2>2, <2>3, <2>4 DEF WakeInv, Woken
<1>2. ~Crash /\ \A t \in Callers : ~StoreFails(t)
  BY DEF Crash, StoreFails, IInv, TypeOK
<1>3. ASSUME NEW t \in Callers, Request(t) \/ Tick(t) \/ Step(t)
      PROVE  WakeInv'
  BY <1>3, CallsWoken, DisarmWoken, CancelTimersWoken, SaveWoken, ArmWoken DEF Step
<1> QED
  BY <1>1, <1>2, <1>3 DEF Next

\* Under a host that serialises its calls per session, over a store that does
\* not fail and without a crash: whenever no call is inside a session, what its
\* stored checkpoint asks for is armed, and disarmWakeup knows every
\* subscription.  Something else is armed only where a run began over the
\* parked session, and no resume or cancel has disarmed both since.
THEOREM WakeupsArmed ==
    ASSUME Exclusive, ~MayFail, MaxCrashes = 0
    PROVE  Spec => []WakeupsMatchCheckpoint
<1> DEFINE I == IInv /\ OrderInv /\ SerialInv /\ WakeInv
<1>1. Init => I
  BY InitIInv, InitOrder, InitSerial, InitWake
<1>2. I /\ [Next]_vars => I'
  BY NextIInv, NextOrder, NextSerial, NextWake
<1>3. ASSUME WakeInv PROVE WakeupsMatchCheckpoint
  <2> SUFFICES ASSUME NEW s \in Sessions \ Children, ~InFlight(s)
               PROVE  /\ registered[s] = subs[s]
                      /\ WakeupsPresent(s)
                      /\ over[s] \/ NothingLeftOver(s)
    BY DEF WakeupsMatchCheckpoint
  <2>1. AtRest(s)
    BY <1>3 DEF WakeInv, Woken
  <2>2. Tidy(s) => over[s] \/ NothingLeftOver(s)
    <3>1. Cardinality({}) = 0 /\ \A id : Cardinality({id}) = 1
      BY FS_Singleton, FS_EmptySet
    <3>2. \A id : subs[s] \subseteq {id} => subs[s] = {} \/ subs[s] = {id}
      OBVIOUS
    <3> QED  BY <3>1, <3>2 DEF Tidy, NothingLeftOver
  <2> QED
    BY <2>1, <2>2 DEF AtRest
<1> QED
  BY <1>1, <1>2, <1>3, PTL DEF Spec
============================================================================
