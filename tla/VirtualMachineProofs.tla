------------------------ MODULE VirtualMachineProofs ------------------------
(***************************************************************************)
(* Proofs about VirtualMachine for any blueprints, directory and events:   *)
(* child runs stay within the depth that runChild checks, a parked session *)
(* finds its blueprint again, and an event starts what it triggers once.   *)
(***************************************************************************)
EXTENDS VirtualMachine, FiniteSetTheorems, TLAPS

\* Every id a workflow is ever registered under.
Ids == {NameOf[b] : b \in Blueprints} \cup {f.stem : f \in Directory}
           \cup {Private(k) : k \in 0..MaxCalls}

Registries == UNION {[S -> Blueprints] : S \in SUBSET Ids}

Machines ==
    [started : BOOLEAN, interpreter : 0..MaxStarts, registry : Registries,
     store : {"memory", "file", "redis", "shared"}, pool : BOOLEAN,
     problems : SUBSET {"config", "workflow", "dangling"}]

Subscriptions ==
    [pattern : [name : Seq(NameParts), wild : BOOLEAN], interpreter : Nat]

PublishFrame ==
    [kind : {"publish"}, event : Seq(NameParts), n : Nat, todo : SUBSET Nat,
     handler : Nat, starting : SUBSET Ids]
RunFrame ==
    [kind : {"run"}, id : Ids, blueprint : Blueprints, depth : Nat, todo : SUBSET Seq(NameParts)]
Frame == PublishFrame \cup RunFrame

Job == [id : Ids, depth : Nat, interpreter : Nat]
Debt == [workflows : SUBSET Ids, interpreter : Nat]

Typed ==
    /\ vm \in Machines
    /\ subs \in Seq(Subscriptions)
    /\ stack \in Seq(Frame) /\ jobs \in Seq(Job)
    /\ parked \in SUBSET [id : Ids, blueprint : Blueprints]
    /\ calls \in 0..MaxCalls /\ events \in Nat
    /\ triggered \in Seq(Seq(Nat \X Ids)) /\ Len(triggered) = events
    /\ owed \in Seq(Debt) /\ Len(owed) = events

\* The blueprint a start registers under a stem.
FileFor(x) == (CHOOSE f \in ParsedFiles(Directory) : f.stem = x).blueprint

\* Before the first start there is nothing; after it, the directory is
\* registered, as it was read or as the host replaced it.
DirectoryKept ==
    /\ vm.started => vm.interpreter > 0
    /\ vm.interpreter = 0 => DOMAIN vm.registry = {} /\ parked = {} /\ subs = <<>>
    /\ vm.interpreter > 0 => \A f \in ParsedFiles(Directory) :
          /\ f.stem \in DOMAIN vm.registry
          /\ f.stem \notin loaded => vm.registry[f.stem] = FileFor(f.stem)

\* An open run is one of the registered blueprint, within the limit, and what
\* is still to be called or started exists.
Known(f) ==
    /\ f.kind = "run" => /\ f.id \in DOMAIN vm.registry /\ vm.registry[f.id] = f.blueprint
                         /\ f.depth < MaxDepth
    /\ f.kind = "publish" => f.todo \subseteq DOMAIN subs /\ f.starting \subseteq DOMAIN vm.registry

\* So is what the pool has still to run.
JobsKnown ==
    \A i \in DOMAIN jobs : jobs[i].id \in DOMAIN vm.registry /\ jobs[i].depth < MaxDepth

\* A private id is new.
RunsRegistered ==
    /\ JobsKnown
    /\ \A k \in 0..MaxCalls : k >= calls => Private(k) \notin DOMAIN vm.registry
    /\ \A i \in DOMAIN stack : Known(stack[i])

\* A chain of child runs counts its levels.
DepthCounts ==
    \A i, j \in DOMAIN stack :
        (i <= j /\ \A k \in i..j : stack[k].kind = "run") =>
            stack[j].depth = stack[i].depth + (j - i)

RegistryInv == Typed /\ DirectoryKept /\ RunsRegistered /\ DepthCounts /\ ParkedKeepBlueprint
----------------------------------------------------------------------------
(***************************************************************************)
(* The stack without its last frame, and with two others instead           *)
(***************************************************************************)
LEMMA PopFacts ==
    ASSUME NEW S, NEW s \in Seq(S), s # <<>>
    PROVE  /\ Len(s) \in Nat /\ Len(s) >= 1 /\ DOMAIN s = 1..Len(s)
           /\ SubSeq(s, 1, Len(s) - 1) \in Seq(S)
           /\ Len(SubSeq(s, 1, Len(s) - 1)) = Len(s) - 1
           /\ \A i \in 1..(Len(s) - 1) : SubSeq(s, 1, Len(s) - 1)[i] = s[i]
<1>1. Len(s) \in Nat /\ DOMAIN s = 1..Len(s)
  OBVIOUS
<1>2. Len(s) >= 1
  BY <1>1
<1>3. /\ SubSeq(s, 1, Len(s) - 1) \in Seq(S)
      /\ Len(SubSeq(s, 1, Len(s) - 1)) = Len(s) - 1
  BY <1>1, <1>2
<1>4. \A i \in 1..(Len(s) - 1) : SubSeq(s, 1, Len(s) - 1)[i] = s[i]
  BY <1>1, <1>2
<1> QED
  BY <1>1, <1>2, <1>3, <1>4

LEMMA PushFacts ==
    ASSUME NEW S, NEW s \in Seq(S), NEW a \in S
    PROVE  /\ Append(s, a) \in Seq(S) /\ Len(Append(s, a)) = Len(s) + 1
           /\ \A i \in 1..Len(s) : Append(s, a)[i] = s[i]
           /\ Append(s, a)[Len(s) + 1] = a
OBVIOUS

LEMMA TwoMoreFacts ==
    ASSUME NEW S, NEW s \in Seq(S), NEW a \in S, NEW b \in S
    PROVE  /\ s \o <<a, b>> \in Seq(S) /\ Len(s \o <<a, b>>) = Len(s) + 2
           /\ \A i \in 1..Len(s) : (s \o <<a, b>>)[i] = s[i]
           /\ (s \o <<a, b>>)[Len(s) + 1] = a
           /\ (s \o <<a, b>>)[Len(s) + 2] = b
OBVIOUS
LEMMA ExceptFacts ==
    ASSUME NEW S, NEW s \in Seq(S), NEW k, NEW x, k \in DOMAIN s => x \in S
    PROVE  /\ [s EXCEPT ![k] = x] \in Seq(S) /\ Len([s EXCEPT ![k] = x]) = Len(s)
           /\ DOMAIN [s EXCEPT ![k] = x] = DOMAIN s
<1>1. s \in [1..Len(s) -> S] /\ DOMAIN s = 1..Len(s) /\ Len(s) \in Nat
  OBVIOUS
<1>2. PICK t : t = [s EXCEPT ![k] = x]
  OBVIOUS
<1>3. t \in [1..Len(s) -> S]
  <2>1. \A i \in 1..Len(s) : t[i] \in S
    BY <1>1, <1>2
  <2>2. t = [i \in 1..Len(s) |-> t[i]]
    BY <1>1, <1>2
  <2> QED
    BY <2>1, <2>2
<1>4. t \in Seq(S) /\ Len(t) = Len(s) /\ DOMAIN t = DOMAIN s
  BY <1>1, <1>3
<1> QED
  BY <1>2, <1>4
----------------------------------------------------------------------------
(***************************************************************************)
(* The registry a call goes on with, whether or not it starts the machine  *)
(***************************************************************************)
Follows(m) ==
    /\ m \in Machines /\ m.interpreter > 0
    /\ \A f \in ParsedFiles(Directory) :
          f.stem \in DOMAIN m.registry /\ (f.stem \notin loaded => m.registry[f.stem] = FileFor(f.stem))
    /\ \A x \in DOMAIN vm.registry :
          x \in DOMAIN m.registry /\ (x \notin loaded => m.registry[x] = vm.registry[x])
    /\ \A k \in 0..MaxCalls : k >= calls => Private(k) \notin DOMAIN m.registry

LEMMA RegistryType ==
    ASSUME NEW m \in Machines
    PROVE  /\ m.registry \in [DOMAIN m.registry -> Blueprints] /\ DOMAIN m.registry \subseteq Ids
           /\ \A x \in DOMAIN m.registry : m.registry[x] \in Blueprints
BY DEF Machines, Registries

LEMMA StartedFollows ==
    ASSUME Typed, DirectoryKept, RunsRegistered, vm.interpreter < MaxStarts, NEW c \in Configs
    PROVE  Follows(Started(vm, c))
<1> DEFINE D == DOMAIN vm.registry
           P == ParsedFiles(Directory)
           m == Started(vm, c)
           reg == WithDirectory(vm.registry, Directory)
<1>1. /\ D \subseteq Ids /\ vm.registry \in [D -> Blueprints] /\ vm.interpreter \in Nat
      /\ vm \in Machines
  <2>1. vm \in Machines
    BY DEF Typed
  <2>2. vm.interpreter \in Nat
    BY <2>1, MachineAssumption DEF Machines
  <2> QED
    BY <2>1, <2>2, RegistryType
<1>2. \A f \in P : f.stem \in Ids /\ FileFor(f.stem) \in Blueprints
  <2> SUFFICES ASSUME NEW f \in P PROVE f.stem \in Ids /\ FileFor(f.stem) \in Blueprints
    OBVIOUS
  <2>1. (CHOOSE g \in P : g.stem = f.stem) \in P
    OBVIOUS
  <2> QED
    BY <2>1, MachineAssumption DEF FileFor, ParsedFiles, Ids
<1>3. /\ DOMAIN reg = D \cup {f.stem : f \in P}
      /\ \A f \in P : reg[f.stem] = FileFor(f.stem)
      /\ \A x \in D : (\A f \in P : f.stem # x) => reg[x] = vm.registry[x]
  BY DEF WithDirectory, FileFor
<1>4. reg \in Registries
  <2>1. reg \in [DOMAIN reg -> Blueprints]
    BY <1>1, <1>2, <1>3 DEF WithDirectory, FileFor
  <2>2. DOMAIN reg \in SUBSET Ids
    BY <1>1, <1>2, <1>3
  <2> QED
    BY <2>1, <2>2 DEF Registries
<1>5. m.interpreter = vm.interpreter + 1 /\ m.registry = reg
  BY DEF Started
<1>6. m \in Machines
  BY <1>1, <1>4, MachineAssumption DEF Started, StoreFor, Machines
<1>7. \A f \in P : f.stem \in DOMAIN m.registry /\ m.registry[f.stem] = FileFor(f.stem)
  BY <1>3, <1>5
<1>8. \A x \in D : x \in DOMAIN m.registry /\ (x \notin loaded => m.registry[x] = vm.registry[x])
  <2> SUFFICES ASSUME NEW x \in D, x \notin loaded PROVE m.registry[x] = vm.registry[x]
    BY <1>3, <1>5
  <2>1. vm.interpreter > 0
    BY <1>1 DEF DirectoryKept
  <2>2. CASE \E f \in P : f.stem = x
    BY <1>7, <2>1, <2>2 DEF DirectoryKept
  <2>3. CASE \A f \in P : f.stem # x
    BY <1>3, <1>5, <2>3
  <2> QED
    BY <2>2, <2>3
<1>9. \A k \in 0..MaxCalls : k >= calls => Private(k) \notin DOMAIN m.registry
  BY <1>3, <1>5, MachineAssumption DEF RunsRegistered, ParsedFiles
<1> QED
  BY <1>1, <1>5, <1>6, <1>7, <1>8, <1>9 DEF Follows

LEMMA InstalledType ==
    ASSUME NEW m \in Machines
    PROVE  /\ Installed(m) = <<[pattern |-> Wildcard, interpreter |-> m.interpreter]>>
           /\ [pattern |-> Wildcard, interpreter |-> m.interpreter] \in Subscriptions
BY MachineAssumption DEF Installed, Subscriptions, Wildcard, Machines

LEMMA ReadyFollows ==
    ASSUME Typed, DirectoryKept, RunsRegistered, NEW r \in Ready
    PROVE  Follows(r.m) /\ r.s \in Seq(Subscriptions)
<1>1. CASE vm.started
  BY <1>1 DEF Ready, Follows, Typed, DirectoryKept, RunsRegistered
<1>2. CASE ~vm.started
  <2>1. vm.interpreter < MaxStarts
    BY <1>2, MachineAssumption DEF Ready, Typed, Machines
  <2>2. PICK c \in Configs : r = [m |-> Started(vm, c), s |-> subs \o Installed(Started(vm, c))]
    BY <1>2 DEF Ready
  <2>3. Follows(Started(vm, c))
    BY <2>1, StartedFollows
  <2>4. Installed(Started(vm, c)) \in Seq(Subscriptions)
    <3>1. Started(vm, c) \in Machines
      BY <2>3 DEF Follows
    <3> DEFINE s == [pattern |-> Wildcard, interpreter |-> Started(vm, c).interpreter]
    <3>2. Installed(Started(vm, c)) = <<s>> /\ s \in Subscriptions
      BY <3>1, InstalledType
    <3> HIDE DEF s
    <3> QED
      BY <3>2
  <2> QED
    BY <2>2, <2>3, <2>4 DEF Typed
<1> QED
  BY <1>1, <1>2
----------------------------------------------------------------------------
(***************************************************************************)
(* What a call of the host leaves of the registry and of the stack         *)
(***************************************************************************)
RegistryKept ==
    /\ JobsKnown
    /\ vm \in Machines /\ DirectoryKept /\ ParkedKeepBlueprint
    /\ \A k \in 0..MaxCalls : k >= calls => Private(k) \notin DOMAIN vm.registry

StackKept ==
    /\ stack \in Seq(Frame) /\ DepthCounts
    /\ \A i \in DOMAIN stack : Known(stack[i])

LEMMA CallKeepsRegistry ==
    ASSUME RegistryInv, NEW m, Follows(m), vm' = m, calls' = calls + 1, jobs' = jobs,
           loaded \subseteq loaded', parked' \subseteq parked
    PROVE  RegistryKept'
<1>1. vm' \in Machines /\ vm'.interpreter > 0
  BY DEF Follows
<1>2. DirectoryKept'
  BY <1>1 DEF Follows, DirectoryKept, ParsedFiles
<1>3. ParkedKeepBlueprint'
  BY DEF Follows, RegistryInv, ParkedKeepBlueprint
<1>4. calls \in Nat
  BY MachineAssumption DEF RegistryInv, Typed
<1>5. \A k \in 0..MaxCalls : k >= calls' => Private(k) \notin DOMAIN vm'.registry
  BY <1>4 DEF Follows
<1>6. JobsKnown'
  BY DEF Follows, RegistryInv, RunsRegistered, JobsKnown
<1> QED
  BY <1>1, <1>2, <1>3, <1>5, <1>6 DEF RegistryKept

LEMMA WithType ==
    ASSUME NEW R \in Registries, NEW id \in Ids, NEW b \in Blueprints
    PROVE  /\ With(R, id, b) \in Registries
           /\ DOMAIN With(R, id, b) = DOMAIN R \cup {id} /\ With(R, id, b)[id] = b
           /\ \A x \in DOMAIN R : x # id => With(R, id, b)[x] = R[x]
<1>1. PICK S \in SUBSET Ids : R \in [S -> Blueprints]
  BY DEF Registries
<1>2. With(R, id, b) \in [S \cup {id} -> Blueprints]
  BY <1>1 DEF With
<1>3. S \cup {id} \in SUBSET Ids
  BY <1>1
<1>4. With(R, id, b) \in Registries
  BY <1>2, <1>3 DEF Registries
<1> QED
  BY <1>1, <1>4 DEF With

LEMMA CallRegisters ==
    ASSUME RegistryInv, NEW m, Follows(m), NEW id \in Ids, NEW b \in Blueprints,
           vm' = [m EXCEPT !.registry = With(@, id, b)], calls' = calls + 1, jobs' = jobs,
           loaded \subseteq loaded', parked' \subseteq parked,
           id \in loaded' \/ id \notin DOMAIN m.registry,
           \A k \in 0..MaxCalls : k > calls => id # Private(k)
    PROVE  RegistryKept' /\ id \in DOMAIN vm'.registry /\ vm'.registry[id] = b
<1>1. /\ vm' \in Machines /\ vm'.interpreter = m.interpreter
      /\ DOMAIN vm'.registry = DOMAIN m.registry \cup {id} /\ vm'.registry[id] = b
      /\ \A x \in DOMAIN m.registry : x # id => vm'.registry[x] = m.registry[x]
  <2>1. m \in Machines
    BY DEF Follows
  <2>2. PICK R \in Registries : R = m.registry
    BY <2>1 DEF Machines
  <2>3. PICK w : w = With(R, id, b)
    OBVIOUS
  <2>4. /\ w \in Registries
        /\ DOMAIN w = DOMAIN R \cup {id} /\ w[id] = b
        /\ \A x \in DOMAIN R : x # id => w[x] = R[x]
    BY <2>3, WithType
  <2>5. vm' = [m EXCEPT !.registry = w]
    BY <2>2, <2>3
  <2>6. vm' \in Machines /\ vm'.interpreter = m.interpreter /\ vm'.registry = w
    BY <2>1, <2>4, <2>5 DEF Machines
  <2> QED
    BY <2>2, <2>4, <2>6
<1>2. vm'.interpreter > 0
  BY <1>1 DEF Follows
<1>3. DirectoryKept'
  <2>1. \A f \in ParsedFiles(Directory) :
           f.stem \in DOMAIN vm'.registry /\ (f.stem \notin loaded' => vm'.registry[f.stem] = FileFor(f.stem))
    BY <1>1 DEF Follows
  <2> QED
    BY <1>2, <2>1 DEF DirectoryKept
<1>4. ParkedKeepBlueprint'
  BY <1>1 DEF Follows, RegistryInv, ParkedKeepBlueprint
<1>5. calls \in Nat
  BY MachineAssumption DEF RegistryInv, Typed
<1>6. \A k \in 0..MaxCalls : k >= calls' => Private(k) \notin DOMAIN vm'.registry
  BY <1>1, <1>5 DEF Follows
<1>7. JobsKnown'
  BY <1>1 DEF Follows, RegistryInv, RunsRegistered, JobsKnown
<1> QED
  BY <1>1, <1>3, <1>4, <1>6, <1>7 DEF RegistryKept

LEMMA NoFrames ==
    ASSUME stack' = <<>>
    PROVE  StackKept'
BY DEF StackKept, DepthCounts

LEMMA OneFrame ==
    ASSUME NEW f \in Frame, stack' = <<f>>, Known(f)'
    PROVE  StackKept'
<1>1. stack' \in Seq(Frame) /\ DOMAIN stack' = {1} /\ stack'[1] = f
  OBVIOUS
<1>2. f.kind = "run" => f.depth \in Nat
  BY DEF Frame, PublishFrame, RunFrame
<1>3. DepthCounts'
  BY <1>1, <1>2 DEF DepthCounts
<1>4. (\A i \in DOMAIN stack : Known(stack[i]))'
  BY <1>1 DEF Known
<1> QED
  BY <1>1, <1>3, <1>4 DEF StackKept

LEMMA RunIsFrame ==
    ASSUME NEW id \in Ids, NEW b \in Blueprints, NEW d \in Nat
    PROVE  Run(id, b, d) \in RunFrame
BY MachineAssumption DEF Run, RunFrame

LEMMA OneRun ==
    ASSUME NEW id \in Ids, NEW b \in Blueprints, NEW d \in Nat, d < MaxDepth, stack' = <<Run(id, b, d)>>,
           id \in DOMAIN vm'.registry, vm'.registry[id] = b
    PROVE  StackKept'
<1>1. PICK f : f = Run(id, b, d)
  OBVIOUS
<1>2. f \in Frame
  BY <1>1, RunIsFrame DEF Frame
<1>3. f.kind = "run" /\ f.id = id /\ f.blueprint = b /\ f.depth = d
  BY <1>1 DEF Run
<1>4. Known(f)'
  BY <1>3, MachineAssumption DEF Known
<1> QED
  BY <1>1, <1>2, <1>4, OneFrame
----------------------------------------------------------------------------
(***************************************************************************)
(* RegistryInv holds at first and after every call of the host             *)
(***************************************************************************)
LEMMA InitRegistry == MachineInit => RegistryInv
<1> SUFFICES ASSUME MachineInit PROVE RegistryInv
  OBVIOUS
<1>1. <<>> \in Registries /\ DOMAIN <<>> = {}
  BY DEF Registries
<1>2. vm \in Machines
  BY <1>1, MachineAssumption DEF MachineInit, Machines
<1>3. Typed
  BY <1>2, MachineAssumption DEF MachineInit, Typed
<1> QED
  BY <1>1, <1>3 DEF MachineInit, RegistryInv, DirectoryKept, RunsRegistered, JobsKnown, DepthCounts, ParkedKeepBlueprint

\* The parts of the invariant that a call of the host leaves alone.
SameHistory ==
    /\ UNCHANGED <<jobs, events, triggered, owed>>
    /\ calls' = calls + 1 /\ calls < MaxCalls

LEMMA PartsSuffice ==
    ASSUME RegistryInv, SameHistory, RegistryKept', StackKept',
           subs' \in Seq(Subscriptions), parked' \subseteq parked
    PROVE  RegistryInv'
<1>1. Typed'
  BY MachineAssumption DEF RegistryInv, Typed, SameHistory, RegistryKept, StackKept
<1> QED
  BY <1>1 DEF RegistryInv, RunsRegistered, RegistryKept, StackKept

LEMMA SubscriptionsGrow ==
    ASSUME NEW m \in Machines, NEW s \in Seq(Subscriptions)
    PROVE  s \o Installed(m) \in Seq(Subscriptions)
<1> DEFINE a == [pattern |-> Wildcard, interpreter |-> m.interpreter]
<1>1. Installed(m) = <<a>> /\ a \in Subscriptions
  BY InstalledType
<1> HIDE DEF a
<1> QED
  BY <1>1

LEMMA StartRegistry == RegistryInv /\ Start => RegistryInv'
<1> SUFFICES ASSUME RegistryInv, Start PROVE RegistryInv'
  OBVIOUS
<1>1. PICK c \in Configs : vm' = Started(vm, c) /\ subs' = subs \o Installed(Started(vm, c))
  BY DEF Start
<1>2. Follows(Started(vm, c))
  BY StartedFollows DEF Start, RegistryInv
<1>3. SameHistory /\ stack' = <<>> /\ parked' = parked /\ loaded \subseteq loaded'
  BY DEF Start, Host, SameHistory
<1>4. RegistryKept'
  BY <1>1, <1>2, <1>3, CallKeepsRegistry DEF SameHistory
<1>5. subs' \in Seq(Subscriptions)
  BY <1>1, <1>2, SubscriptionsGrow DEF Follows, RegistryInv, Typed
<1> QED
  BY <1>3, <1>4, <1>5, NoFrames, PartsSuffice

LEMMA StopRegistry == RegistryInv /\ Stop => RegistryInv'
<1> SUFFICES ASSUME RegistryInv, Stop PROVE RegistryInv'
  OBVIOUS
<1>1. SameHistory /\ stack' = <<>> /\ UNCHANGED <<subs, parked, loaded>>
  BY DEF Stop, Host, SameHistory
<1>2. /\ vm' \in Machines /\ vm'.registry = vm.registry
      /\ vm'.interpreter = vm.interpreter /\ vm'.started = FALSE
  BY DEF Stop, RegistryInv, Typed, Machines
<1>3. calls \in Nat
  BY MachineAssumption DEF RegistryInv, Typed
<1>4. RegistryKept'
  BY <1>1, <1>2, <1>3 DEF RegistryInv, RegistryKept, DirectoryKept, ParkedKeepBlueprint, RunsRegistered, JobsKnown, SameHistory
<1> QED
  BY <1>1, <1>4, NoFrames, PartsSuffice DEF RegistryInv, Typed

LEMMA AddRegistry ==
    ASSUME RegistryInv, NEW b \in Blueprints, AddBlueprint(b, NameOf[b])
    PROVE  RegistryInv'
<1>1. PICK r \in Ready :
         vm' = [r.m EXCEPT !.registry = With(@, NameOf[b], b)] /\ subs' = r.s
  BY DEF AddBlueprint
<1>2. Follows(r.m) /\ r.s \in Seq(Subscriptions)
  BY ReadyFollows DEF RegistryInv
<1>3. /\ SameHistory /\ stack' = <<>> /\ parked' = parked
      /\ loaded \subseteq loaded' /\ NameOf[b] \in loaded'
  BY DEF AddBlueprint, Host, SameHistory
<1>4. NameOf[b] \in Ids /\ \A k \in 0..MaxCalls : NameOf[b] # Private(k)
  BY MachineAssumption DEF Ids
<1>5. RegistryKept'
  <2>1. calls' = calls + 1 /\ jobs' = jobs
    BY <1>3 DEF SameHistory
  <2> QED
    BY <1>1, <1>2, <1>3, <1>4, <2>1, CallRegisters
<1> QED
  BY <1>1, <1>2, <1>3, <1>5, NoFrames, PartsSuffice

LEMMA RunRegistry ==
    ASSUME RegistryInv, NEW b \in Blueprints, RunBlueprint(b)
    PROVE  RegistryInv'
<1>1. PICK r \in Ready :
         /\ vm' = [r.m EXCEPT !.registry = With(@, InlineId(r.m.registry, b), b)]
         /\ subs' = r.s
         /\ stack' = <<Run(InlineId(r.m.registry, b), b, 0)>>
  BY DEF RunBlueprint
<1>2. PICK id : id = InlineId(r.m.registry, b)
  OBVIOUS
<1>3. Follows(r.m) /\ r.s \in Seq(Subscriptions)
  BY ReadyFollows DEF RegistryInv
<1>4. SameHistory /\ parked' = parked /\ loaded' = loaded
  BY DEF RunBlueprint, Host, SameHistory
<1>5. calls \in 0..MaxCalls
  BY DEF RegistryInv, Typed
<1>6. /\ id \in Ids /\ id \notin DOMAIN r.m.registry
      /\ \A k \in 0..MaxCalls : k > calls => id # Private(k)
  <2>1. CASE NameOf[b] \in DOMAIN r.m.registry
    <3>1. id = Private(calls)
      BY <1>2, <2>1 DEF InlineId
    <3>2. \A k \in 0..MaxCalls : k > calls => Private(calls) # Private(k)
      BY <1>5 DEF Private
    <3>3. Private(calls) \notin DOMAIN r.m.registry
      BY <1>3, <1>5 DEF Follows
    <3> QED
      BY <1>5, <3>1, <3>2, <3>3 DEF Ids
  <2>2. CASE NameOf[b] \notin DOMAIN r.m.registry
    BY <1>2, <2>2, MachineAssumption DEF InlineId, Ids
  <2> QED
    BY <2>1, <2>2
<1>7. RegistryKept' /\ id \in DOMAIN vm'.registry /\ vm'.registry[id] = b
  <2>1. calls' = calls + 1 /\ jobs' = jobs
    BY <1>4 DEF SameHistory
  <2>2. vm' = [r.m EXCEPT !.registry = With(@, id, b)]
    BY <1>1, <1>2
  <2> QED
    BY <1>3, <1>4, <1>6, <2>1, <2>2, CallRegisters
<1>8. StackKept'
  <2>1. stack' = <<Run(id, b, 0)>>
    BY <1>1, <1>2
  <2> QED
    BY <1>6, <1>7, <2>1, OneRun, MachineAssumption
<1> QED
  BY <1>1, <1>3, <1>4, <1>7, <1>8, PartsSuffice

LEMMA StartSessionRegistry == RegistryInv /\ StartSession => RegistryInv'
<1> SUFFICES ASSUME RegistryInv, StartSession PROVE RegistryInv'
  OBVIOUS
<1>1. PICK r \in Ready : \E id \in DOMAIN r.m.registry :
         vm' = r.m /\ subs' = r.s /\ stack' = <<Run(id, r.m.registry[id], 0)>>
  BY DEF StartSession
<1>2. PICK id \in DOMAIN r.m.registry :
         vm' = r.m /\ subs' = r.s /\ stack' = <<Run(id, r.m.registry[id], 0)>>
  BY <1>1
<1>3. Follows(r.m) /\ r.s \in Seq(Subscriptions)
  BY ReadyFollows DEF RegistryInv
<1>4. SameHistory /\ parked' = parked /\ loaded' = loaded
  BY DEF StartSession, Host, SameHistory
<1>5. RegistryKept'
  BY <1>2, <1>3, <1>4, CallKeepsRegistry DEF SameHistory
<1>6. StackKept'
  <2>1. id \in Ids /\ r.m.registry[id] \in Blueprints
    BY <1>3, RegistryType DEF Follows
  <2> QED
    BY <1>2, <2>1, OneRun, MachineAssumption
<1> QED
  BY <1>2, <1>3, <1>4, <1>5, <1>6, PartsSuffice

LEMMA ResumeRegistry == RegistryInv /\ ResumeParked => RegistryInv'
<1> SUFFICES ASSUME RegistryInv, ResumeParked PROVE RegistryInv'
  OBVIOUS
<1>1. PICK r \in Ready, s \in parked :
         /\ s.id \in DOMAIN r.m.registry
         /\ vm' = r.m /\ subs' = r.s
         /\ stack' = <<Run(s.id, r.m.registry[s.id], 0)>>
         /\ parked' = parked \ {s}
  BY DEF ResumeParked
<1>2. Follows(r.m) /\ r.s \in Seq(Subscriptions)
  BY ReadyFollows DEF RegistryInv
<1>3. SameHistory /\ parked' \subseteq parked /\ loaded' = loaded
  BY <1>1 DEF ResumeParked, Host, SameHistory
<1>4. RegistryKept'
  BY <1>1, <1>2, <1>3, CallKeepsRegistry DEF SameHistory
<1>5. StackKept'
  <2>1. s.id \in Ids /\ r.m.registry[s.id] \in Blueprints
    BY <1>1, <1>2, RegistryType DEF Follows
  <2> QED
    BY <1>1, <2>1, OneRun, MachineAssumption
<1> QED
  BY <1>1, <1>2, <1>3, <1>4, <1>5, PartsSuffice
----------------------------------------------------------------------------
(***************************************************************************)
(* RegistryInv and the frames on the stack                                 *)
(***************************************************************************)
\* The invariant of a stack by its length.
LEMMA StackFacts ==
    ASSUME RegistryInv, stack # <<>>
    PROVE  /\ stack \in Seq(Frame) /\ Len(stack) \in Nat /\ Len(stack) >= 1
           /\ DOMAIN stack = 1..Len(stack) /\ Innermost = stack[Len(stack)]
           /\ Below \in Seq(Frame) /\ Len(Below) = Len(stack) - 1
           /\ \A i \in 1..(Len(stack) - 1) : Below[i] = stack[i]
           /\ \A i \in 1..Len(stack) : Known(stack[i])
           /\ \A i \in 1..Len(stack) : stack[i].kind = "run" => stack[i].depth \in Nat
           /\ \A i, j \in 1..Len(stack) :
                 (i <= j /\ \A k \in i..j : stack[k].kind = "run") =>
                     stack[j].depth = stack[i].depth + (j - i)
<1>1. /\ stack \in Seq(Frame) /\ Len(stack) \in Nat /\ Len(stack) >= 1 /\ DOMAIN stack = 1..Len(stack)
      /\ Below \in Seq(Frame) /\ Len(Below) = Len(stack) - 1
      /\ \A i \in 1..(Len(stack) - 1) : Below[i] = stack[i]
  BY PopFacts DEF Below, RegistryInv, Typed
<1>2. \A i \in 1..Len(stack) : stack[i].kind = "run" => stack[i].depth \in Nat
  BY <1>1 DEF Frame, PublishFrame, RunFrame
<1>3. \A i \in 1..Len(stack) : Known(stack[i])
  BY <1>1 DEF RegistryInv, RunsRegistered
<1>4. \A i, j \in 1..Len(stack) :
         (i <= j /\ \A k \in i..j : stack[k].kind = "run") =>
             stack[j].depth = stack[i].depth + (j - i)
  BY <1>1 DEF RegistryInv, DepthCounts
<1> QED
  BY <1>1, <1>2, <1>3, <1>4 DEF Innermost

LEMMA InnermostFacts ==
    ASSUME RegistryInv, stack # <<>>
    PROVE  /\ Innermost \in Frame /\ Known(Innermost)
           /\ Innermost.kind = "publish" => Innermost \in PublishFrame
           /\ Innermost.kind = "run" => Innermost \in RunFrame
<1>1. Innermost \in Frame /\ Known(Innermost)
  BY StackFacts
<1> QED
  BY <1>1 DEF Frame, PublishFrame, RunFrame

\* A stack of n frames satisfies the parts of the invariant.
LEMMA StackKeptIf ==
    ASSUME UNCHANGED <<vm, subs>>, NEW n \in Nat, stack' \in Seq(Frame), DOMAIN stack' = 1..n,
           \A i \in 1..n : Known(stack'[i]),
           \A i, j \in 1..n :
               (i <= j /\ \A k \in i..j : stack'[k].kind = "run") =>
                   stack'[j].depth = stack'[i].depth + (j - i)
    PROVE  StackKept'
<1>1. DepthCounts'
  BY DEF DepthCounts
<1> QED
  BY <1>1 DEF StackKept, Known

\* Without the innermost frame.
LEMMA FramePopped ==
    ASSUME RegistryInv, stack # <<>>, stack' = Below, UNCHANGED <<vm, subs>>
    PROVE  StackKept'
<1> DEFINE L == Len(stack)
<1>1. /\ L \in Nat /\ L >= 1 /\ stack' \in Seq(Frame) /\ DOMAIN stack' = 1..(L - 1)
      /\ \A i \in 1..(L - 1) : stack'[i] = stack[i]
  BY StackFacts
<1>2. \A i \in 1..L : Known(stack[i])
  BY StackFacts
<1>3. \A i, j \in 1..L : (i <= j /\ \A k \in i..j : stack[k].kind = "run") =>
         stack[j].depth = stack[i].depth + (j - i)
  BY StackFacts
<1> HIDE DEF L
<1>4. ASSUME NEW i \in 1..(L - 1), NEW j \in 1..(L - 1), i <= j,
             \A k \in i..j : stack'[k].kind = "run"
      PROVE  stack'[j].depth = stack'[i].depth + (j - i)
  <2>1. \A k \in i..j : k \in 1..(L - 1) /\ stack[k].kind = "run"
    BY <1>1, <1>4
  <2>2. stack[j].depth = stack[i].depth + (j - i)
    BY <1>1, <1>3, <1>4, <2>1
  <2> QED
    BY <1>1, <2>2
<1>5. \A i \in 1..(L - 1) : Known(stack'[i])
  BY <1>1, <1>2
<1>6. L - 1 \in Nat
  BY <1>1
<1> QED
  BY <1>1, <1>4, <1>5, <1>6, StackKeptIf

\* Two frames in place of the innermost one.
LEMMA ReplacedFacts ==
    ASSUME RegistryInv, stack # <<>>, NEW a \in Frame, NEW b \in Frame, stack' = Below \o <<a, b>>
    PROVE  /\ Len(stack) \in Nat /\ Len(stack) >= 1 /\ stack[Len(stack)] = Innermost
           /\ stack' \in Seq(Frame) /\ DOMAIN stack' = 1..(Len(stack) + 1)
           /\ \A i \in 1..(Len(stack) - 1) : stack'[i] = stack[i]
           /\ stack'[Len(stack)] = a /\ stack'[Len(stack) + 1] = b
<1> DEFINE L == Len(stack)
<1>1. /\ L \in Nat /\ L >= 1 /\ Innermost = stack[L]
      /\ Below \in Seq(Frame) /\ Len(Below) = L - 1
      /\ \A i \in 1..(L - 1) : Below[i] = stack[i]
  BY StackFacts
<1>2. PICK p \in Seq(Frame) : p = Below
  BY <1>1
<1>3. PICK t : t = p \o <<a, b>>
  OBVIOUS
<1>4. /\ t \in Seq(Frame) /\ Len(t) = Len(p) + 2
      /\ \A i \in 1..Len(p) : t[i] = p[i]
      /\ t[Len(p) + 1] = a /\ t[Len(p) + 2] = b
  BY <1>3, TwoMoreFacts
<1>5. stack' = t
  BY <1>2, <1>3
<1> HIDE DEF L
<1>6. Len(p) + 1 = L /\ Len(p) + 2 = L + 1 /\ Len(p) = L - 1
  BY <1>1, <1>2
<1>7. DOMAIN t = 1..Len(t)
  BY <1>4
<1>8. stack' \in Seq(Frame) /\ DOMAIN stack' = 1..(L + 1)
  BY <1>4, <1>5, <1>6, <1>7
<1>9. \A i \in 1..(L - 1) : stack'[i] = stack[i]
  BY <1>1, <1>2, <1>4, <1>5, <1>6
<1>10. stack'[L] = a /\ stack'[L + 1] = b
  BY <1>4, <1>5, <1>6
<1> QED
  BY <1>1, <1>8, <1>9, <1>10 DEF L

\* Another frame of its kind in place of the innermost one, and one on top.
LEMMA FrameReplaced ==
    ASSUME RegistryInv, stack # <<>>, UNCHANGED <<vm, subs>>, NEW a \in Frame, NEW b \in Frame,
           stack' = Below \o <<a, b>>, a.kind = Innermost.kind,
           Known(a), Known(b), a.kind = "run" => a.depth = Innermost.depth /\ b.kind # "run",
           b.kind = "run" => b.depth = 0
    PROVE  StackKept'
<1> DEFINE L == Len(stack)
<1>1. L \in Nat /\ L >= 1 /\ Innermost = stack[L]
  BY StackFacts
<1>2. /\ stack' \in Seq(Frame) /\ DOMAIN stack' = 1..(L + 1)
      /\ \A i \in 1..(L - 1) : stack'[i] = stack[i]
      /\ stack'[L] = a /\ stack'[L + 1] = b
  BY ReplacedFacts
<1>3. \A i \in 1..L : Known(stack[i])
  BY StackFacts
<1>4. \A i, j \in 1..L : (i <= j /\ \A k \in i..j : stack[k].kind = "run") =>
         stack[j].depth = stack[i].depth + (j - i)
  BY StackFacts
<1> HIDE DEF L
<1>5. ASSUME NEW i \in 1..(L + 1), NEW j \in 1..(L + 1), i <= j,
             \A k \in i..j : stack'[k].kind = "run"
      PROVE  stack'[j].depth = stack'[i].depth + (j - i)
  <2>1. CASE j <= L
    <3>1. \A k \in i..j : k \in 1..L /\ stack[k].kind = "run" /\ stack'[k].depth = stack[k].depth
      <4> SUFFICES ASSUME NEW k \in i..j
                   PROVE  k \in 1..L /\ stack[k].kind = "run" /\ stack'[k].depth = stack[k].depth
        OBVIOUS
      <4>1. k \in 1..(L - 1) \/ k = L
        BY <1>1, <2>1
      <4> QED
        BY <1>1, <1>2, <1>5, <4>1
    <3>2. i \in 1..L /\ j \in 1..L /\ i \in i..j /\ j \in i..j
      BY <1>1, <1>5, <2>1
    <3>3. stack[j].depth = stack[i].depth + (j - i)
      BY <1>4, <1>5, <3>1, <3>2
    <3> QED
      BY <3>1, <3>2, <3>3
  <2>2. CASE j = L + 1
    <3>1. b.kind = "run" /\ a.kind # "run"
      BY <1>1, <1>2, <1>5, <2>2
    <3>2. i = L + 1
      BY <1>1, <1>2, <1>5, <2>2, <3>1
    <3>3. stack'[i].depth = 0 /\ stack'[j].depth = 0
      BY <1>2, <2>2, <3>1, <3>2
    <3>4. i \in Int /\ j = i
      BY <1>1, <2>2, <3>2
    <3>5. 0 = 0 + (i - i)
      BY <3>4
    <3> QED
      BY <3>3, <3>4, <3>5
  <2>3. j <= L \/ j = L + 1
    BY <1>1, <1>5
  <2> QED
    BY <2>1, <2>2, <2>3
<1>6. \A i \in 1..(L + 1) : Known(stack'[i])
  <2> SUFFICES ASSUME NEW i \in 1..(L + 1) PROVE Known(stack'[i])
    OBVIOUS
  <2>1. i \in 1..(L - 1) \/ i = L \/ i = L + 1
    BY <1>1
  <2> QED
    BY <1>1, <1>2, <1>3, <2>1
<1>7. L + 1 \in Nat
  BY <1>1
<1> QED
  BY <1>2, <1>5, <1>6, <1>7, StackKeptIf

\* A child is one level below its caller.
LEMMA ChildPushed ==
    ASSUME RegistryInv, stack # <<>>, UNCHANGED <<vm, subs>>, Innermost.kind = "run", NEW b \in RunFrame,
           stack' = Append(stack, b), b.depth = Innermost.depth + 1,
           Known(b)
    PROVE  StackKept'
<1> DEFINE L == Len(stack)
<1>1. stack \in Seq(Frame) /\ L \in Nat /\ L >= 1 /\ Innermost = stack[L]
  BY StackFacts
<1>2. /\ stack' \in Seq(Frame) /\ DOMAIN stack' = 1..(L + 1)
      /\ \A i \in 1..L : stack'[i] = stack[i]
      /\ stack'[L + 1] = b
  <2>1. b \in Frame
    BY DEF Frame
  <2> QED
    BY <1>1, <2>1
<1>0. \A i \in 1..L : Known(stack[i])
  BY StackFacts
<1>3. \A i \in 1..L : stack[i].kind = "run" => stack[i].depth \in Nat
  BY StackFacts
<1>4. \A i, j \in 1..L : (i <= j /\ \A k \in i..j : stack[k].kind = "run") =>
         stack[j].depth = stack[i].depth + (j - i)
  BY StackFacts
<1>5. b.depth \in Nat /\ b.kind = "run"
  BY DEF RunFrame
<1> HIDE DEF L
<1>6. ASSUME NEW i \in 1..(L + 1), NEW j \in 1..(L + 1), i <= j,
             \A k \in i..j : stack'[k].kind = "run"
      PROVE  stack'[j].depth = stack'[i].depth + (j - i)
  <2>1. CASE i = L + 1
    BY <1>1, <1>2, <1>5, <1>6, <2>1
  <2>2. CASE i <= L
    <3>1. \A k \in i..j : k \in 1..L => stack'[k] = stack[k] /\ stack[k].kind = "run"
      BY <1>2, <1>6
    <3>2. i \in 1..L
      BY <1>1, <2>2
    <3>3. CASE j <= L
      <4>1. j \in 1..L /\ \A k \in i..j : stack[k].kind = "run"
        BY <1>1, <1>6, <3>1, <3>3
      <4> QED
        BY <1>2, <1>4, <1>6, <3>2, <4>1
    <3>4. CASE j = L + 1
      <4>1. L \in 1..L /\ i <= L /\ \A k \in i..L : stack[k].kind = "run"
        BY <1>1, <1>6, <2>2, <3>1, <3>4
      <4>2. stack[L].depth = stack[i].depth + (L - i)
        BY <1>4, <3>2, <4>1
      <4>3. i \in i..L
        BY <1>1, <2>2
      <4>4. stack[i].depth \in Nat
        BY <1>3, <3>2, <4>1, <4>3
      <4>5. stack'[i].depth = stack[i].depth /\ stack'[j].depth = stack[L].depth + 1
        BY <1>1, <1>2, <3>2, <3>4
      <4>6. stack[i].depth + (L - i) + 1 = stack[i].depth + (L + 1 - i)
        BY <1>1, <4>4
      <4>7. j - i = L + 1 - i
        BY <1>1, <3>4
      <4> QED
        BY <1>1, <3>4, <4>2, <4>4, <4>5, <4>6, <4>7
    <3>5. j <= L \/ j = L + 1
      BY <1>1
    <3> QED
      BY <3>3, <3>4, <3>5
  <2>3. i <= L \/ i = L + 1
    BY <1>1
  <2> QED
    BY <2>1, <2>2, <2>3
<1>7. \A i \in 1..(L + 1) : Known(stack'[i])
  BY <1>0, <1>1, <1>2
<1>8. L + 1 \in Nat
  BY <1>1
<1> QED
  BY <1>2, <1>6, <1>7, <1>8, StackKeptIf

\* Another publication frame in place of the innermost one.
LEMMA TopFacts ==
    ASSUME RegistryInv, stack # <<>>, NEW a \in Frame, stack' = Below \o <<a>>
    PROVE  /\ Len(stack) \in Nat /\ Len(stack) >= 1 /\ stack[Len(stack)] = Innermost
           /\ stack' \in Seq(Frame) /\ DOMAIN stack' = 1..Len(stack)
           /\ \A i \in 1..(Len(stack) - 1) : stack'[i] = stack[i]
           /\ stack'[Len(stack)] = a
<1> DEFINE L == Len(stack)
<1>1. /\ L \in Nat /\ L >= 1 /\ Innermost = stack[L]
      /\ Below \in Seq(Frame) /\ Len(Below) = L - 1
      /\ \A i \in 1..(L - 1) : Below[i] = stack[i]
  BY StackFacts
<1>2. PICK p \in Seq(Frame) : p = Below
  BY <1>1
<1>3. PICK t : t = Append(p, a)
  OBVIOUS
<1>4. /\ t \in Seq(Frame) /\ Len(t) = Len(p) + 1
      /\ \A i \in 1..Len(p) : t[i] = p[i]
      /\ t[Len(p) + 1] = a
  BY <1>3, PushFacts
<1>5. stack' = t
  BY <1>2, <1>3
<1> HIDE DEF L
<1>6. Len(p) + 1 = L /\ Len(p) = L - 1
  BY <1>1, <1>2
<1>7. DOMAIN t = 1..Len(t)
  BY <1>4
<1>8. stack' \in Seq(Frame) /\ DOMAIN stack' = 1..L
  BY <1>4, <1>5, <1>6, <1>7
<1>9. \A i \in 1..(L - 1) : stack'[i] = stack[i]
  BY <1>1, <1>2, <1>4, <1>5, <1>6
<1>10. stack'[L] = a
  BY <1>4, <1>5, <1>6
<1> QED
  BY <1>1, <1>8, <1>9, <1>10 DEF L

LEMMA TopReplaced ==
    ASSUME RegistryInv, stack # <<>>, UNCHANGED <<vm, subs>>, Innermost.kind = "publish",
           NEW a \in PublishFrame, stack' = Below \o <<a>>, Known(a)
    PROVE  StackKept'
<1> DEFINE L == Len(stack)
<1>0. a \in Frame /\ a.kind = "publish"
  BY DEF Frame, PublishFrame
<1>1. /\ L \in Nat /\ L >= 1 /\ stack[L] = Innermost
      /\ stack' \in Seq(Frame) /\ DOMAIN stack' = 1..L
      /\ \A i \in 1..(L - 1) : stack'[i] = stack[i]
      /\ stack'[L] = a
  BY <1>0, TopFacts
<1>2. \A i \in 1..L : Known(stack[i])
  BY StackFacts
<1>3. \A i, j \in 1..L : (i <= j /\ \A k \in i..j : stack[k].kind = "run") =>
         stack[j].depth = stack[i].depth + (j - i)
  BY StackFacts
<1> HIDE DEF L
<1>4. \A i \in 1..L : i \in 1..(L - 1) \/ i = L
  BY <1>1
<1>5. ASSUME NEW i \in 1..L, NEW j \in 1..L, i <= j, \A k \in i..j : stack'[k].kind = "run"
      PROVE  stack'[j].depth = stack'[i].depth + (j - i)
  <2>1. i \in i..j /\ j \in i..j
    BY <1>5
  <2>2. \A k \in i..j : k \in 1..L
    BY <1>1, <1>5
  <2>3. \A k \in i..j : k \in 1..(L - 1) /\ stack[k] = stack'[k]
    BY <1>0, <1>1, <1>4, <1>5, <2>2
  <2>4. stack[j].depth = stack[i].depth + (j - i)
    BY <1>3, <1>5, <2>3
  <2> QED
    BY <2>1, <2>3, <2>4
<1>6. \A i \in 1..L : Known(stack'[i])
  BY <1>1, <1>2, <1>4
<1> QED
  BY <1>1, <1>5, <1>6, StackKeptIf

\* What a step of an open frame leaves alone.
SameMachine == UNCHANGED <<vm, subs, calls, loaded>>

Histories ==
    /\ events \in Nat
    /\ triggered \in Seq(Seq(Nat \X Ids)) /\ Len(triggered) = events
    /\ owed \in Seq(Debt) /\ Len(owed) = events

LEMMA StepSuffices ==
    ASSUME RegistryInv, SameMachine, StackKept', Histories', parked' = parked,
           jobs' \in Seq(Job), JobsKnown'
    PROVE  RegistryInv'
<1>1. Typed'
  BY DEF RegistryInv, Typed, SameMachine, Histories, StackKept
<1>2. vm' = vm /\ calls' = calls /\ loaded' = loaded /\ subs' = subs
  BY DEF SameMachine
<1>3. DirectoryKept' /\ ParkedKeepBlueprint'
  BY <1>2 DEF RegistryInv, DirectoryKept, ParkedKeepBlueprint
<1>4. RunsRegistered'
  BY <1>2 DEF RegistryInv, RunsRegistered, StackKept
<1> QED
  BY <1>1, <1>3, <1>4 DEF RegistryInv, StackKept

LEMMA FramesSuffice ==
    ASSUME RegistryInv, SameMachine, StackKept', Histories', parked' = parked, jobs' = jobs
    PROVE  RegistryInv'
<1>1. jobs' \in Seq(Job) /\ JobsKnown'
  BY DEF RegistryInv, Typed, RunsRegistered, JobsKnown, SameMachine
<1> QED
  BY <1>1, StepSuffices

LEMMA TriggeredByType ==
    ASSUME Typed, NEW event
    PROVE  /\ TriggeredBy(vm.registry, event) \in SUBSET Ids
           /\ TriggeredBy(vm.registry, event) \subseteq DOMAIN vm.registry
BY RegistryType DEF TriggeredBy, Typed

LEMMA OpenedTypes ==
    ASSUME RegistryInv, NEW event \in Seq(NameParts), Opened(event)
    PROVE  /\ Histories' /\ events' = events + 1 /\ Publication(event) \in PublishFrame
           /\ Publication(event).todo \subseteq DOMAIN subs /\ Publication(event).starting = {}
<1>1. TriggeredBy(vm.registry, event) \in SUBSET Ids
  BY TriggeredByType DEF RegistryInv
<1>2. Histories'
  <2>1. Len(Append(triggered, <<>>)) = events + 1 /\ Append(triggered, <<>>) \in Seq(Seq(Nat \X Ids))
    <3>1. <<>> \in Seq(Nat \X Ids)
      OBVIOUS
    <3>2. PICK S : S = Seq(Nat \X Ids)
      OBVIOUS
    <3> QED
      BY <3>1, <3>2 DEF RegistryInv, Typed
  <2>2. PICK d : d = [workflows |-> TriggeredBy(vm.registry, event), interpreter |-> vm.interpreter]
    OBVIOUS
  <2>3. d \in Debt
    BY <1>1, <2>2, MachineAssumption DEF Debt, RegistryInv, Typed, Machines
  <2>4. Len(Append(owed, d)) = events + 1 /\ Append(owed, d) \in Seq(Debt)
    BY <2>3 DEF RegistryInv, Typed
  <2> QED
    BY <2>1, <2>2, <2>4 DEF Opened, Histories, RegistryInv, Typed
<1>3. Publication(event) \in PublishFrame
  BY DEF Publication, PublishFrame, RegistryInv, Typed
<1> QED
  BY <1>2, <1>3 DEF Opened, Publication

LEMMA PublishRegistry ==
    ASSUME RegistryInv, NEW e \in Events, PublishEvent(e)
    PROVE  RegistryInv'
<1>1. e \in Seq(NameParts) /\ Opened(e)
  BY MachineAssumption DEF PublishEvent
<1>2. /\ Histories' /\ Publication(e) \in Frame /\ Publication(e).kind = "publish"
      /\ Publication(e).todo \subseteq DOMAIN subs /\ Publication(e).starting = {}
  BY <1>1, OpenedTypes DEF Frame, Publication
<1>3. /\ stack' = <<Publication(e)>> /\ UNCHANGED <<vm, subs, jobs, parked, loaded>>
      /\ calls' = calls + 1 /\ calls < MaxCalls
  BY DEF PublishEvent, Host
<1>4. StackKept'
  <2>1. PICK f : f = Publication(e)
    OBVIOUS
  <2>2. f \in Frame /\ stack' = <<f>> /\ Known(f)'
    BY <1>2, <1>3, <2>1 DEF Known
  <2> QED
    BY <2>2, OneFrame
<1>5. calls \in Nat
  BY MachineAssumption DEF RegistryInv, Typed
<1>6. Typed'
  BY <1>2, <1>3, <1>4, <1>5, MachineAssumption DEF RegistryInv, Typed, StackKept, Histories
<1>7. DirectoryKept' /\ ParkedKeepBlueprint' /\ JobsKnown'
  BY <1>3 DEF RegistryInv, RunsRegistered, DirectoryKept, ParkedKeepBlueprint, JobsKnown
<1>8. \A k \in 0..MaxCalls : k >= calls' => Private(k) \notin DOMAIN vm'.registry
  BY <1>3, <1>5 DEF RegistryInv, RunsRegistered
<1> QED
  BY <1>4, <1>6, <1>7, <1>8 DEF RegistryInv, StackKept, RunsRegistered

\* The publication frame a handler goes on with.
GoesOn(a, i, ids) ==
    /\ a.n = Innermost.n /\ a.event = Innermost.event /\ a.todo = Innermost.todo \ {i}
    /\ a.handler = subs[i].interpreter /\ a.starting = ids
    /\ ids \subseteq TriggeredBy(vm.registry, Innermost.event)

LEMMA HandlerFacts ==
    ASSUME RegistryInv, stack # <<>>, Innermost.kind = "publish", NEW i \in Innermost.todo,
           NEW ids \in HandlerStarts(subs[i].interpreter, Innermost.event),
           NEW a, a = [Innermost EXCEPT !.todo = @ \ {i}, !.handler = subs[i].interpreter, !.starting = ids]
    PROVE  a \in PublishFrame /\ Known(a) /\ GoesOn(a, i, ids)
<1>1. Innermost \in PublishFrame /\ Innermost.todo \subseteq DOMAIN subs
  BY InnermostFacts DEF Known
<1>2. subs[i].interpreter \in Nat
  <2>1. subs \in Seq(Subscriptions) /\ i \in DOMAIN subs
    BY <1>1 DEF RegistryInv, Typed
  <2>2. subs[i] \in Subscriptions
    BY <2>1
  <2> QED
    BY <2>2 DEF Subscriptions
<1>3. ids \subseteq TriggeredBy(vm.registry, Innermost.event)
  BY DEF HandlerStarts
<1>4. ids \in SUBSET Ids /\ ids \subseteq DOMAIN vm.registry
  BY <1>3, TriggeredByType DEF RegistryInv
<1>5. /\ a.kind = "publish" /\ a.n = Innermost.n /\ a.event = Innermost.event
      /\ a.todo = Innermost.todo \ {i} /\ a.handler = subs[i].interpreter /\ a.starting = ids
      /\ a \in PublishFrame
  BY <1>1, <1>2, <1>4 DEF PublishFrame
<1>6. Known(a)
  BY <1>1, <1>4, <1>5 DEF Known
<1> QED
  BY <1>3, <1>5, <1>6 DEF GoesOn

LEMMA CallHandlerRegistry == RegistryInv /\ CallHandler => RegistryInv'
<1> SUFFICES ASSUME RegistryInv, CallHandler PROVE RegistryInv'
  OBVIOUS
<1>1. /\ stack # <<>> /\ Innermost.kind = "publish" /\ SameMachine
      /\ UNCHANGED <<vm, subs>> /\ parked' = parked /\ jobs' = jobs /\ Histories'
  BY DEF CallHandler, SameMachine, Histories, RegistryInv, Typed
<1>2. CASE Innermost.todo = {} /\ stack' = Below
  BY <1>1, <1>2, FramePopped, FramesSuffice
<1>3. ASSUME NEW i \in Innermost.todo,
             NEW ids \in HandlerStarts(subs[i].interpreter, Innermost.event),
             stack' = Below \o <<[Innermost EXCEPT !.todo = @ \ {i}, !.handler = subs[i].interpreter,
                                                  !.starting = ids]>>
      PROVE  RegistryInv'
  <2>1. PICK a : a = [Innermost EXCEPT !.todo = @ \ {i}, !.handler = subs[i].interpreter, !.starting = ids]
    OBVIOUS
  <2>2. a \in PublishFrame /\ Known(a)
    BY <1>1, <2>1, HandlerFacts
  <2>3. StackKept'
    BY <1>1, <1>3, <2>1, <2>2, TopReplaced
  <2> QED
    BY <1>1, <2>3, FramesSuffice
<1> QED
  BY <1>2, <1>3 DEF CallHandler

\* The frames and the history after a workflow was started.
LEMMA StartedFacts ==
    ASSUME RegistryInv, stack # <<>>, Innermost.kind = "publish", NEW id \in Innermost.starting,
           NEW a, a = [Innermost EXCEPT !.starting = @ \ {id}],
           NEW b, b = Run(id, vm.registry[id], 0)
    PROVE  /\ a \in PublishFrame /\ a.kind = "publish" /\ Known(a)
           /\ a.n = Innermost.n /\ a.event = Innermost.event /\ a.todo = Innermost.todo
           /\ a.handler = Innermost.handler /\ a.starting = Innermost.starting \ {id}
           /\ b \in RunFrame /\ b.kind = "run" /\ b.depth = 0 /\ Known(b)
           /\ <<Innermost.handler, id>> \in Nat \X Ids
<1>1. /\ Innermost \in PublishFrame /\ Innermost.starting \subseteq DOMAIN vm.registry
      /\ Innermost.todo \subseteq DOMAIN subs
  BY InnermostFacts DEF Known
<1>2. /\ a \in PublishFrame /\ a.kind = "publish"
      /\ a.n = Innermost.n /\ a.event = Innermost.event /\ a.todo = Innermost.todo
      /\ a.handler = Innermost.handler /\ a.starting = Innermost.starting \ {id}
  BY <1>1 DEF PublishFrame
<1>3. Known(a)
  BY <1>1, <1>2 DEF Known
<1>4. id \in Ids /\ id \in DOMAIN vm.registry /\ Innermost.handler \in Nat
  BY <1>1 DEF PublishFrame
<1>5. vm.registry[id] \in Blueprints
  BY <1>4, RegistryType DEF RegistryInv, Typed
<1>6. b \in RunFrame
  BY <1>4, <1>5, RunIsFrame
<1>7. b.kind = "run" /\ b.depth = 0 /\ Known(b)
  BY <1>4, MachineAssumption DEF Known, Run
<1> QED
  BY <1>2, <1>3, <1>4, <1>6, <1>7

LEMMA StartTriggeredRegistry == RegistryInv /\ StartTriggered => RegistryInv'
<1> SUFFICES ASSUME RegistryInv, StartTriggered PROVE RegistryInv'
  OBVIOUS
<1>1. /\ stack # <<>> /\ Innermost.kind = "publish" /\ SameMachine
      /\ UNCHANGED <<vm, subs>> /\ parked' = parked /\ UNCHANGED <<jobs, events, owed>>
  BY DEF StartTriggered, SameMachine
<1>2. PICK id \in Innermost.starting :
         /\ stack' = Below \o <<[Innermost EXCEPT !.starting = @ \ {id}], Run(id, vm.registry[id], 0)>>
         /\ triggered' = [triggered EXCEPT ![Innermost.n] = Append(@, <<Innermost.handler, id>>)]
  BY DEF StartTriggered
<1>3. PICK a : a = [Innermost EXCEPT !.starting = @ \ {id}]
  OBVIOUS
<1>4. PICK b : b = Run(id, vm.registry[id], 0)
  OBVIOUS
<1>5. /\ a \in Frame /\ a.kind = "publish" /\ Known(a)
      /\ b \in Frame /\ b.kind = "run" /\ b.depth = 0 /\ Known(b)
      /\ <<Innermost.handler, id>> \in Nat \X Ids
  BY <1>1, <1>3, <1>4, StartedFacts DEF Frame
<1>6. stack' = Below \o <<a, b>>
  BY <1>2, <1>3, <1>4
<1>7. StackKept'
  BY <1>1, <1>5, <1>6, FrameReplaced
<1>8. Histories'
  <2>1. PICK S : S = Nat \X Ids
    OBVIOUS
  <2>2. PICK y \in S : y = <<Innermost.handler, id>>
    BY <1>5, <2>1
  <2>3. triggered \in Seq(Seq(S)) /\ Len(triggered) = events /\ events \in Nat
    BY <2>1 DEF RegistryInv, Typed
  <2>4. PICK k, x : k = Innermost.n /\ x = Append(triggered[k], y)
    OBVIOUS
  <2>5. triggered' = [triggered EXCEPT ![k] = x]
    BY <1>2, <2>2, <2>4
  <2>6. k \in DOMAIN triggered => x \in Seq(S)
    BY <2>3, <2>4
  <2>7. triggered' \in Seq(Seq(S)) /\ Len(triggered') = Len(triggered)
    BY <2>3, <2>5, <2>6, ExceptFacts
  <2> QED
    BY <1>1, <2>1, <2>3, <2>7 DEF Histories, RegistryInv, Typed
<1> QED
  BY <1>1, <1>7, <1>8, FramesSuffice

LEMMA RunPublishesRegistry == RegistryInv /\ RunPublishes => RegistryInv'
<1> SUFFICES ASSUME RegistryInv, RunPublishes PROVE RegistryInv'
  OBVIOUS
<1>1. /\ stack # <<>> /\ Innermost.kind = "run" /\ SameMachine
      /\ UNCHANGED <<vm, subs>> /\ parked' = parked /\ jobs' = jobs
  BY DEF RunPublishes, SameMachine
<1>2. PICK event \in Innermost.todo :
         Opened(event) /\ stack' = Below \o <<[Innermost EXCEPT !.todo = @ \ {event}], Publication(event)>>
  BY DEF RunPublishes
<1>3. Innermost \in RunFrame /\ Known(Innermost)
  BY <1>1, InnermostFacts
<1>4. event \in Seq(NameParts)
  BY <1>2, <1>3 DEF RunFrame
<1>5. PICK a : a = [Innermost EXCEPT !.todo = @ \ {event}]
  OBVIOUS
<1>6. PICK b : b = Publication(event)
  OBVIOUS
<1>7. a \in Frame /\ a.kind = "run" /\ a.depth = Innermost.depth /\ Known(a)
  BY <1>3, <1>5 DEF Frame, RunFrame, Known
<1>8. /\ Histories' /\ b \in Frame /\ b.kind = "publish" /\ Known(b)
  BY <1>2, <1>4, <1>6, OpenedTypes DEF Frame, Publication, Known
<1>9. stack' = Below \o <<a, b>>
  BY <1>2, <1>5, <1>6
<1>10. StackKept'
  BY <1>1, <1>7, <1>8, <1>9, FrameReplaced
<1> QED
  BY <1>1, <1>8, <1>10, FramesSuffice

LEMMA RunChildRegistry == RegistryInv /\ RunChild => RegistryInv'
<1> SUFFICES ASSUME RegistryInv, RunChild PROVE RegistryInv'
  OBVIOUS
<1>1. /\ stack # <<>> /\ Innermost.kind = "run" /\ SameMachine
      /\ UNCHANGED <<vm, subs>> /\ parked' = parked /\ jobs' = jobs /\ Histories'
  BY DEF RunChild, SameMachine, Histories, RegistryInv, Typed
<1>2. PICK id \in CallsOf[Innermost.blueprint] :
         /\ MayDescend(Innermost.depth + 1) /\ id \in DOMAIN vm.registry
         /\ stack' = Append(stack, Run(id, vm.registry[id], Innermost.depth + 1))
  BY DEF RunChild
<1>3. PICK d \in Nat : d = Innermost.depth + 1
  BY <1>1, InnermostFacts DEF RunFrame
<1>4. PICK b : b = Run(id, vm.registry[id], d)
  OBVIOUS
<1>5. id \in Ids /\ vm.registry[id] \in Blueprints
  BY <1>2, RegistryType DEF RegistryInv, Typed
<1>6. b \in RunFrame
  BY <1>4, <1>5, RunIsFrame
<1>7. b.depth = Innermost.depth + 1 /\ Known(b)
  BY <1>2, <1>3, <1>4 DEF Run, Known, MayDescend
<1>8. StackKept'
  <2>1. stack' = Append(stack, b)
    BY <1>2, <1>3, <1>4
  <2> QED
    BY <1>1, <1>6, <1>7, <2>1, ChildPushed
<1> QED
  BY <1>1, <1>8, FramesSuffice

LEMMA LaunchChildRegistry == RegistryInv /\ LaunchChild => RegistryInv'
<1> SUFFICES ASSUME RegistryInv, LaunchChild PROVE RegistryInv'
  OBVIOUS
<1>1. /\ stack # <<>> /\ Innermost.kind = "run" /\ SameMachine /\ stack' = stack
      /\ vm' = vm /\ subs' = subs /\ parked' = parked /\ Histories'
  BY DEF LaunchChild, SameMachine, Histories, RegistryInv, Typed
<1>2. PICK id \in LaunchesOf[Innermost.blueprint] :
         /\ MayDescend(Innermost.depth + 1) /\ id \in DOMAIN vm.registry
         /\ jobs' = Append(jobs, [id |-> id, depth |-> Innermost.depth + 1, interpreter |-> vm.interpreter])
  BY DEF LaunchChild
<1>3. PICK x : x = [id |-> id, depth |-> Innermost.depth + 1, interpreter |-> vm.interpreter]
  OBVIOUS
<1>4. Innermost.depth + 1 \in Nat
  BY <1>1, InnermostFacts DEF RunFrame
<1>5. id \in Ids /\ vm.interpreter \in Nat
  <2>1. vm \in Machines
    BY DEF RegistryInv, Typed
  <2>2. vm.interpreter \in Nat
    BY <2>1, MachineAssumption DEF Machines
  <2> QED
    BY <1>2, <2>1, <2>2, RegistryType
<1>6. x \in Job /\ x.id = id /\ x.depth < MaxDepth
  BY <1>2, <1>3, <1>4, <1>5 DEF Job, MayDescend
<1>7. jobs \in Seq(Job) /\ jobs' = Append(jobs, x)
  BY <1>2, <1>3 DEF RegistryInv, Typed
<1>8. /\ jobs' \in Seq(Job) /\ DOMAIN jobs' = 1..(Len(jobs) + 1) /\ jobs'[Len(jobs) + 1] = x
      /\ Len(jobs) \in Nat /\ \A i \in 1..Len(jobs) : i \in DOMAIN jobs /\ jobs'[i] = jobs[i]
  BY <1>6, <1>7
<1>9. JobsKnown'
  <2> SUFFICES ASSUME NEW i \in 1..(Len(jobs) + 1)
               PROVE  jobs'[i].id \in DOMAIN vm.registry /\ jobs'[i].depth < MaxDepth
    BY <1>1, <1>8 DEF JobsKnown
  <2>1. i \in 1..Len(jobs) \/ i = Len(jobs) + 1
    BY <1>8
  <2> QED
    BY <1>2, <1>6, <1>8, <2>1 DEF RegistryInv, RunsRegistered, JobsKnown
<1>10. StackKept'
  BY <1>1 DEF StackKept, RegistryInv, RunsRegistered, Typed, DepthCounts, Known
<1> QED
  BY <1>1, <1>8, <1>9, <1>10, StepSuffices

\* The queue without its first job.
LEMMA QueueFacts ==
    ASSUME RegistryInv, jobs # <<>>
    PROVE  /\ Head(jobs) \in Job /\ Head(jobs).id \in DOMAIN vm.registry /\ Head(jobs).depth < MaxDepth
           /\ Tail(jobs) \in Seq(Job)
           /\ \A i \in DOMAIN Tail(jobs) : \E j \in DOMAIN jobs : Tail(jobs)[i] = jobs[j]
<1>1. jobs \in Seq(Job) /\ Len(jobs) \in Nat /\ Len(jobs) >= 1 /\ DOMAIN jobs = 1..Len(jobs)
  BY DEF RegistryInv, Typed
<1>2. Head(jobs) = jobs[1] /\ 1 \in DOMAIN jobs /\ jobs[1] \in Job
  BY <1>1
<1>3. /\ Tail(jobs) \in Seq(Job) /\ DOMAIN Tail(jobs) = 1..(Len(jobs) - 1)
      /\ \A i \in 1..(Len(jobs) - 1) : Tail(jobs)[i] = jobs[i + 1]
  BY <1>1
<1>4. \A i \in 1..(Len(jobs) - 1) : i + 1 \in 1..Len(jobs)
  BY <1>1
<1> QED
  BY <1>1, <1>2, <1>3, <1>4 DEF RegistryInv, RunsRegistered, JobsKnown

LEMMA RunDetachedRegistry == RegistryInv /\ RunDetached => RegistryInv'
<1> SUFFICES ASSUME RegistryInv, RunDetached PROVE RegistryInv'
  OBVIOUS
<1>1. /\ SameMachine /\ jobs # <<>> /\ jobs' = Tail(jobs) /\ stack = <<>>
      /\ vm' = vm /\ subs' = subs /\ parked' = parked /\ Histories'
  BY DEF RunDetached, SameMachine, Histories, RegistryInv, Typed
<1>2. /\ Head(jobs) \in Job /\ Head(jobs).id \in DOMAIN vm.registry /\ Head(jobs).depth < MaxDepth
      /\ jobs' \in Seq(Job)
  BY <1>1, QueueFacts
<1>3. JobsKnown'
  BY <1>1, QueueFacts DEF JobsKnown, RegistryInv, RunsRegistered
<1>4. StackKept'
  <2>1. CASE stack' = <<Run(Head(jobs).id, vm.registry[Head(jobs).id], Head(jobs).depth)>>
    <3>1. PICK id, b, d : id = Head(jobs).id /\ b = vm.registry[id] /\ d = Head(jobs).depth
      OBVIOUS
    <3>2. id \in Ids /\ d \in Nat
      BY <1>2, <3>1 DEF Job
    <3>3. b \in Blueprints
      BY <1>2, <3>1, RegistryType DEF RegistryInv, Typed
    <3>4. stack' = <<Run(id, b, d)>> /\ d < MaxDepth /\ id \in DOMAIN vm'.registry /\ vm'.registry[id] = b
      BY <1>1, <1>2, <2>1, <3>1
    <3> QED
      BY <3>2, <3>3, <3>4, OneRun
  <2>2. CASE stack' = stack
    BY <1>1, <2>2, NoFrames
  <2> QED
    BY <2>1, <2>2 DEF RunDetached
<1> QED
  BY <1>1, <1>2, <1>3, <1>4, StepSuffices

LEMMA RunEndsRegistry == RegistryInv /\ RunEnds => RegistryInv'
<1> SUFFICES ASSUME RegistryInv, RunEnds PROVE RegistryInv'
  OBVIOUS
<1>1. /\ stack # <<>> /\ Innermost.kind = "run" /\ SameMachine /\ stack' = Below
      /\ UNCHANGED <<vm, subs>> /\ jobs' = jobs /\ Histories'
  BY DEF RunEnds, SameMachine, Histories, RegistryInv, Typed
<1>2. StackKept'
  BY <1>1, FramePopped
<1>3. CASE parked' = parked
  BY <1>1, <1>2, <1>3, FramesSuffice
<1>4. CASE parked' = parked \cup {[id |-> Innermost.id, blueprint |-> Innermost.blueprint]}
  <2>1. /\ Innermost.id \in Ids /\ Innermost.blueprint \in Blueprints
        /\ Innermost.id \in DOMAIN vm.registry /\ vm.registry[Innermost.id] = Innermost.blueprint
    BY <1>1, InnermostFacts DEF RunFrame, Known
  <2>2. Typed'
    BY <1>1, <1>2, <1>4, <2>1 DEF RegistryInv, Typed, SameMachine, Histories, StackKept
  <2>3. ParkedKeepBlueprint'
    BY <1>1, <1>4, <2>1 DEF RegistryInv, ParkedKeepBlueprint, SameMachine
  <2>4. vm.interpreter # 0
    BY <2>1 DEF RegistryInv, DirectoryKept
  <2>5. DirectoryKept' /\ RunsRegistered'
    BY <1>1, <1>2, <2>4 DEF RegistryInv, DirectoryKept, RunsRegistered, JobsKnown, SameMachine, StackKept
  <2> QED
    BY <1>2, <2>2, <2>3, <2>5 DEF RegistryInv, StackKept
<1> QED
  BY <1>3, <1>4 DEF RunEnds
----------------------------------------------------------------------------
(***************************************************************************)
(* What follows for every reachable state                                  *)
(***************************************************************************)
LEMMA NextRegistry == RegistryInv /\ [MachineNext]_machineVars => RegistryInv'
<1> SUFFICES ASSUME RegistryInv, [MachineNext]_machineVars PROVE RegistryInv'
  OBVIOUS
<1>1. CASE Start \/ Stop
  BY <1>1, StartRegistry, StopRegistry
<1>2. CASE StartSession \/ ResumeParked
  BY <1>2, StartSessionRegistry, ResumeRegistry
<1>3. ASSUME NEW b \in Blueprints, RunBlueprint(b) \/ AddBlueprint(b, NameOf[b]) PROVE RegistryInv'
  BY <1>3, RunRegistry, AddRegistry
<1>4. ASSUME NEW e \in Events, PublishEvent(e) PROVE RegistryInv'
  BY <1>4, PublishRegistry
<1>5. CASE CallHandler \/ StartTriggered
  BY <1>5, CallHandlerRegistry, StartTriggeredRegistry
<1>6. CASE RunPublishes \/ RunEnds
  BY <1>6, RunPublishesRegistry, RunEndsRegistry
<1>7. CASE RunChild \/ LaunchChild \/ RunDetached
  BY <1>7, RunChildRegistry, LaunchChildRegistry, RunDetachedRegistry
<1>8. CASE UNCHANGED machineVars
  BY <1>8 DEF machineVars, RegistryInv, Typed, DirectoryKept, RunsRegistered, JobsKnown, Known, DepthCounts,
              ParkedKeepBlueprint
<1> QED
  BY <1>1, <1>2, <1>3, <1>4, <1>5, <1>6, <1>7, <1>8 DEF MachineNext

LEMMA RegistryAlways == MachineSpec => []RegistryInv
<1>1. MachineInit => RegistryInv
  BY InitRegistry
<1>2. RegistryInv /\ [MachineNext]_machineVars => RegistryInv'
  BY NextRegistry
<1> QED
  BY <1>1, <1>2, PTL DEF MachineSpec

\* runChild compares the depth it is given with limits.max_depth: every open
\* chain of subflows is shorter, for any limit and any workflows, though
\* events start other chains in between and the pool goes on with the
\* launched ones; and the rest of the state has its type.
THEOREM MachineTypes == MachineSpec => []MachineTypeOK
<1>1. RegistryInv => MachineTypeOK
  <2> SUFFICES ASSUME RegistryInv PROVE MachineTypeOK
    OBVIOUS
  <2>1. DepthBounded
    <3>1. ASSUME NEW i \in DOMAIN stack, NEW j \in DOMAIN stack, i <= j,
                 \A k \in i..j : stack[k].kind = "run"
          PROVE  stack[i].depth + (j - i) < MaxDepth
      <4>1. i \in Int /\ j \in Int /\ stack \in Seq(Frame)
        BY DEF RegistryInv, Typed
      <4>2. j \in i..j
        BY <3>1, <4>1
      <4>3. stack[j].depth = stack[i].depth + (j - i)
        BY <3>1 DEF RegistryInv, DepthCounts
      <4>4. stack[j].depth < MaxDepth
        BY <3>1, <4>2 DEF RegistryInv, RunsRegistered, Known
      <4> QED
        BY <4>3, <4>4
    <3> QED
      BY <3>1 DEF DepthBounded, RegistryInv, RunsRegistered, JobsKnown
  <2>2. \A id \in DOMAIN vm.registry : vm.registry[id] \in Blueprints
    BY RegistryType DEF RegistryInv, Typed
  <2>3. vm.started \in BOOLEAN /\ vm.interpreter \in 0..MaxStarts
        /\ vm.store \in {"memory", "file", "redis", "shared"}
    BY DEF RegistryInv, Typed, Machines
  <2>4. \A n \in 1..events : n \in DOMAIN triggered /\ n \in DOMAIN owed
    BY DEF RegistryInv, Typed
  <2> QED
    BY <2>1, <2>2, <2>3, <2>4 DEF MachineTypeOK
<1> QED
  BY <1>1, RegistryAlways, PTL

\* runBlueprint and ensureStarted: whatever the host runs, registers, starts
\* and resumes, a parked session finds the blueprint it was running.
THEOREM ResumedAsParked == MachineSpec => []ParkedKeepBlueprint
<1>1. RegistryInv => ParkedKeepBlueprint
  BY DEF RegistryInv
<1> QED
  BY <1>1, RegistryAlways, PTL
----------------------------------------------------------------------------
(***************************************************************************)
(* The publications of a stack, built frame by frame                       *)
(***************************************************************************)
Publications(s) == {s[i] : i \in {j \in DOMAIN s : s[j].kind = "publish"}}

\* They are different ones, of the first m.
Numbered(s, m) ==
    /\ \A i \in DOMAIN s : s[i].kind = "publish" => s[i].n \in 1..m
    /\ \A i, j \in DOMAIN s :
          (i # j /\ s[i].kind = "publish" /\ s[j].kind = "publish") => s[i].n # s[j].n

LEMMA NoPublications ==
    ASSUME NEW m
    PROVE  /\ Publications(<<>>) = {} /\ Numbered(<<>>, m)
BY DEF Publications, Numbered

LEMMA PublicationsOf ==
    ASSUME NEW p \in Seq(Frame), NEW a \in Frame
    PROVE  Publications(Append(p, a)) = Publications(p) \cup {f \in {a} : f.kind = "publish"}
<1> DEFINE t == Append(p, a)
<1>1. /\ Len(p) \in Nat /\ DOMAIN p = 1..Len(p) /\ DOMAIN t = 1..(Len(p) + 1)
      /\ \A i \in 1..Len(p) : t[i] = p[i]
      /\ t[Len(p) + 1] = a
  BY PushFacts
<1> HIDE DEF t
<1>2. ASSUME NEW i \in DOMAIN t, t[i].kind = "publish"
      PROVE  t[i] \in Publications(p) \/ t[i] = a
  <2>1. i \in 1..Len(p) \/ i = Len(p) + 1
    BY <1>1
  <2> QED
    BY <1>1, <1>2, <2>1 DEF Publications
<1>3. ASSUME NEW i \in DOMAIN p, p[i].kind = "publish" PROVE p[i] \in Publications(t)
  <2>1. i \in DOMAIN t /\ t[i] = p[i]
    BY <1>1
  <2> QED
    BY <1>3, <2>1 DEF Publications
<1>4. a.kind = "publish" => a \in Publications(t)
  <2>1. Len(p) + 1 \in DOMAIN t
    BY <1>1
  <2> QED
    BY <1>1, <2>1 DEF Publications
<1>5. Publications(t) \subseteq Publications(p) \cup {f \in {a} : f.kind = "publish"}
  BY <1>2 DEF Publications
<1>6. Publications(p) \subseteq Publications(t)
  BY <1>3 DEF Publications
<1> QED
  BY <1>4, <1>5, <1>6 DEF t

LEMMA NumberedOf ==
    ASSUME NEW p \in Seq(Frame), NEW a \in Frame, NEW m
    PROVE  Numbered(Append(p, a), m) <=>
               /\ Numbered(p, m)
               /\ a.kind = "publish" => a.n \in 1..m /\ \A f \in Publications(p) : f.n # a.n
<1> DEFINE t == Append(p, a)
<1>1. /\ Len(p) \in Nat /\ DOMAIN p = 1..Len(p) /\ DOMAIN t = 1..(Len(p) + 1)
      /\ \A i \in 1..Len(p) : t[i] = p[i]
      /\ t[Len(p) + 1] = a
  BY PushFacts
<1> HIDE DEF t
<1>2. /\ Len(p) + 1 \in DOMAIN t
      /\ \A i \in DOMAIN p : i \in DOMAIN t /\ t[i] = p[i] /\ i # Len(p) + 1
      /\ \A i \in DOMAIN t : i \in DOMAIN p \/ i = Len(p) + 1
  BY <1>1
<1>3. ASSUME Numbered(t, m)
      PROVE  /\ Numbered(p, m)
             /\ a.kind = "publish" => a.n \in 1..m /\ \A f \in Publications(p) : f.n # a.n
  <2>1. Numbered(p, m)
    BY <1>2, <1>3 DEF Numbered
  <2>2. ASSUME a.kind = "publish" PROVE a.n \in 1..m /\ \A f \in Publications(p) : f.n # a.n
    BY <1>1, <1>2, <1>3, <2>2 DEF Numbered, Publications
  <2> QED
    BY <2>1, <2>2
<1>4. ASSUME Numbered(p, m),
             a.kind = "publish" => a.n \in 1..m /\ \A f \in Publications(p) : f.n # a.n
      PROVE  Numbered(t, m)
  <2>1. \A i \in DOMAIN t : t[i].kind = "publish" => t[i].n \in 1..m
    BY <1>1, <1>2, <1>4 DEF Numbered
  <2>2. ASSUME NEW i \in DOMAIN t, NEW j \in DOMAIN t, i # j,
               t[i].kind = "publish", t[j].kind = "publish"
        PROVE  t[i].n # t[j].n
    <3>1. CASE i \in DOMAIN p /\ j \in DOMAIN p
      BY <1>2, <1>4, <2>2, <3>1 DEF Numbered
    <3>2. CASE i = Len(p) + 1 /\ j \in DOMAIN p
      BY <1>1, <1>2, <1>4, <2>2, <3>2 DEF Publications
    <3>3. CASE j = Len(p) + 1 /\ i \in DOMAIN p
      BY <1>1, <1>2, <1>4, <2>2, <3>3 DEF Publications
    <3> QED
      BY <1>2, <2>2, <3>1, <3>2, <3>3
  <2> QED
    BY <2>1, <2>2 DEF Numbered
<1> QED
  BY <1>3, <1>4 DEF t

\* A run on top is no publication.
LEMMA RunPushed ==
    ASSUME NEW p \in Seq(Frame), NEW a \in Frame, a.kind = "run", NEW m, Numbered(p, m)
    PROVE  /\ Append(p, a) \in Seq(Frame)
           /\ Publications(Append(p, a)) = Publications(p) /\ Numbered(Append(p, a), m)
<1>1. {f \in {a} : f.kind = "publish"} = {} /\ a.kind # "publish"
  OBVIOUS
<1>2. Publications(Append(p, a)) = Publications(p) \cup {f \in {a} : f.kind = "publish"}
  BY PublicationsOf
<1>3. Publications(Append(p, a)) = Publications(p)
  BY <1>1, <1>2
<1>4. Numbered(Append(p, a), m)
  BY <1>1, NumberedOf
<1> QED
  BY <1>3, <1>4

\* A later publication leaves the numbers in range.
LEMMA NumberedMore ==
    ASSUME NEW s, NEW m \in Nat, Numbered(s, m)
    PROVE  Numbered(s, m + 1) /\ \A f \in Publications(s) : f.n # m + 1
<1>1. \A k \in 1..m : k \in 1..(m + 1) /\ k # m + 1
  OBVIOUS
<1> QED
  BY <1>1 DEF Numbered, Publications

\* The stack is the innermost frame on those below it.
LEMMA StackIsPushed ==
    ASSUME RegistryInv, stack # <<>>
    PROVE  /\ Below \in Seq(Frame) /\ Innermost \in Frame /\ stack \in Seq(Frame)
           /\ stack = Append(Below, Innermost)
<1>1. /\ stack \in Seq(Frame) /\ Len(stack) \in Nat /\ Len(stack) >= 1 /\ Innermost = stack[Len(stack)]
      /\ DOMAIN stack = 1..Len(stack) /\ Below \in Seq(Frame) /\ Len(Below) = Len(stack) - 1
      /\ \A i \in 1..(Len(stack) - 1) : Below[i] = stack[i]
  BY StackFacts
<1>2. Innermost \in Frame
  BY InnermostFacts
<1>3. PICK p \in Seq(Frame), a \in Frame :
         p = Below /\ a = Innermost /\ Len(p) = Len(stack) - 1
  BY <1>1, <1>2
<1>4. PICK t : t = Append(p, a)
  OBVIOUS
<1>5. /\ t \in Seq(Frame) /\ Len(t) = Len(p) + 1 /\ DOMAIN t = 1..Len(t)
      /\ \A i \in 1..Len(p) : t[i] = p[i]
      /\ t[Len(p) + 1] = a
  BY <1>4, PushFacts
<1>6. Len(t) = Len(stack) /\ DOMAIN t = DOMAIN stack
  BY <1>1, <1>3, <1>5
<1>7. \A i \in 1..Len(stack) : t[i] = stack[i]
  <2>1. PICK m \in Nat : m = Len(stack)
    BY <1>1
  <2>2. \A i \in 1..m : i \in 1..(m - 1) \/ i = m
    OBVIOUS
  <2>3. Len(p) = m - 1 /\ Len(p) + 1 = m
    <3>1. PICK l : l = Len(p)
      OBVIOUS
    <3>2. l = m - 1
      BY <1>3, <2>1, <3>1
    <3> QED
      BY <3>1, <3>2
  <2>4. \A i \in 1..(m - 1) : t[i] = stack[i]
    BY <1>1, <1>3, <1>5, <2>1, <2>3
  <2>5. t[m] = stack[m]
    BY <1>1, <1>3, <1>5, <2>1, <2>3
  <2> QED
    BY <2>1, <2>2, <2>4, <2>5
<1>8. t = stack
  BY <1>1, <1>5, <1>6, <1>7
<1> QED
  BY <1>1, <1>2, <1>3, <1>4, <1>8

LEMMA PutOn ==
    ASSUME NEW S, NEW p \in Seq(S), NEW a \in S, NEW b \in S
    PROVE  p \o <<a>> = Append(p, a) /\ p \o <<a, b>> = Append(Append(p, a), b)
OBVIOUS
----------------------------------------------------------------------------
(***************************************************************************)
(* What an event starts                                                    *)
(***************************************************************************)
\* The subscribers are the interpreters of all the starts, in their order.
OnePerStart ==
    /\ Len(subs) = vm.interpreter
    /\ \A i \in 1..vm.interpreter : subs[i] = [pattern |-> Wildcard, interpreter |-> i]

\* A publication that owes d and has started t, with the subscribers todo to
\* call and the workflows starting to be started by the handler's interpreter:
\* the last interpreter has started what it owes or still will, none starts a
\* workflow twice, and those to come have started nothing.
Sofar(t, d, todo, handler, starting) ==
    /\ IsInjective(t)
    /\ ToSet(t) \subseteq (1..d.interpreter) \X d.workflows
    /\ todo \subseteq 1..d.interpreter /\ starting \subseteq d.workflows
    /\ starting # {} => handler \in (1..d.interpreter) \ todo
    /\ \A k \in todo : \A id \in d.workflows : <<k, id>> \notin ToSet(t)
    /\ \A id \in starting : <<handler, id>> \notin ToSet(t)
    /\ \A id \in d.workflows : \/ d.interpreter \in todo
                               \/ <<d.interpreter, id>> \in ToSet(t)
                               \/ handler = d.interpreter /\ id \in starting

Going(f) ==
    /\ Sofar(triggered[f.n], owed[f.n], f.todo, f.handler, f.starting)
    /\ owed[f.n] = [workflows |-> TriggeredBy(vm.registry, f.event), interpreter |-> vm.interpreter]

Done(n) == Sofar(triggered[n], owed[n], {}, 0, {})

Progress ==
    /\ \A f \in Publications(stack) : Going(f)
    /\ \A n \in 1..events : (\A f \in Publications(stack) : f.n # n) => Done(n)

TriggerInv == OnePerStart /\ Numbered(stack, events) /\ Progress

LEMMA NothingStarted ==
    ASSUME NEW d \in Debt, d.interpreter = 0 => d.workflows = {}
    PROVE  Sofar(<<>>, d, 1..d.interpreter, 0, {})
<1>1. ToSet(<<>>) = {} /\ IsInjective(<<>>) /\ d.interpreter \in Nat
  BY DEF ToSet, IsInjective, Debt
<1>2. \A id \in d.workflows : d.interpreter \in 1..d.interpreter
  BY <1>1
<1> QED
  BY <1>1, <1>2 DEF Sofar

LEMMA HandlerCalled ==
    ASSUME NEW t, NEW d, NEW todo, NEW h, Sofar(t, d, todo, h, {}), NEW i \in todo,
           NEW ids \in SUBSET d.workflows, i = d.interpreter => ids = d.workflows
    PROVE  Sofar(t, d, todo \ {i}, i, ids)
BY DEF Sofar

LEMMA AllStarted ==
    ASSUME NEW t, NEW d, NEW h, Sofar(t, d, {}, h, {})
    PROVE  Sofar(t, d, {}, 0, {})
BY DEF Sofar

LEMMA AppendSet ==
    ASSUME NEW S, NEW e \in Seq(S), NEW x \in S
    PROVE  /\ ToSet(Append(e, x)) = ToSet(e) \cup {x}
           /\ IsInjective(e) /\ x \notin ToSet(e) => IsInjective(Append(e, x))
<1> DEFINE t == Append(e, x)
<1>1. /\ Len(e) \in Nat /\ DOMAIN e = 1..Len(e) /\ DOMAIN t = 1..(Len(e) + 1)
      /\ \A i \in 1..Len(e) : t[i] = e[i]
      /\ t[Len(e) + 1] = x
  BY PushFacts
<1> HIDE DEF t
<1>2. /\ Len(e) + 1 \in DOMAIN t
      /\ \A i \in DOMAIN e : i \in DOMAIN t /\ t[i] = e[i]
      /\ \A i \in DOMAIN t : i \in DOMAIN e \/ i = Len(e) + 1
  BY <1>1
<1>3. ToSet(t) \subseteq ToSet(e) \cup {x}
  BY <1>1, <1>2 DEF ToSet
<1>4. ToSet(e) \subseteq ToSet(t) /\ x \in ToSet(t)
  BY <1>1, <1>2 DEF ToSet
<1>5. ASSUME IsInjective(e), x \notin ToSet(e) PROVE IsInjective(t)
  <2> SUFFICES ASSUME NEW a \in DOMAIN t, NEW b \in DOMAIN t, t[a] = t[b] PROVE a = b
    BY DEF IsInjective
  <2>1. \A i \in DOMAIN e : e[i] # x
    BY <1>5 DEF ToSet
  <2> QED
    BY <1>1, <1>2, <1>5, <2>1 DEF IsInjective
<1> QED
  BY <1>3, <1>4, <1>5 DEF t

LEMMA OneStarted ==
    ASSUME NEW S, NEW t \in Seq(S), NEW d, NEW todo, NEW h, NEW starting,
           Sofar(t, d, todo, h, starting), NEW id \in starting, <<h, id>> \in S
    PROVE  Sofar(Append(t, <<h, id>>), d, todo, h, starting \ {id})
<1>1. PICK x \in S : x = <<h, id>>
  OBVIOUS
<1>2. PICK u : u = Append(t, x)
  OBVIOUS
<1>3. x \notin ToSet(t) /\ h \in (1..d.interpreter) \ todo /\ id \in d.workflows
  BY <1>1 DEF Sofar
<1>4. ToSet(u) = ToSet(t) \cup {<<h, id>>}
  BY <1>1, <1>2, AppendSet
<1>5. IsInjective(u)
  BY <1>2, <1>3, AppendSet DEF Sofar
<1>6. /\ ToSet(u) \subseteq (1..d.interpreter) \X d.workflows
      /\ todo \subseteq 1..d.interpreter /\ starting \ {id} \subseteq d.workflows
  BY <1>3, <1>4 DEF Sofar
<1>7. \A k \in todo : \A y \in d.workflows : <<k, y>> \notin ToSet(u)
  BY <1>3, <1>4 DEF Sofar
<1>8. \A y \in starting \ {id} : <<h, y>> \notin ToSet(u)
  BY <1>4 DEF Sofar
<1>9. ASSUME NEW y \in d.workflows
      PROVE  \/ d.interpreter \in todo
             \/ <<d.interpreter, y>> \in ToSet(u)
             \/ h = d.interpreter /\ y \in starting \ {id}
  <2>1. \/ d.interpreter \in todo
        \/ <<d.interpreter, y>> \in ToSet(t)
        \/ h = d.interpreter /\ y \in starting
    BY DEF Sofar
  <2> QED
    BY <1>4, <2>1
<1>10. Sofar(u, d, todo, h, starting \ {id})
  BY <1>3, <1>5, <1>6, <1>7, <1>8, <1>9 DEF Sofar
<1> QED
  BY <1>1, <1>2, <1>10
----------------------------------------------------------------------------
(***************************************************************************)
(* TriggerInv holds at first and after every step                          *)
(***************************************************************************)
LEMMA GoingKept ==
    ASSUME NEW f, Going(f), vm' = vm, triggered'[f.n] = triggered[f.n], owed'[f.n] = owed[f.n]
    PROVE  Going(f)'
BY DEF Going

LEMMA DoneKept ==
    ASSUME NEW n, Done(n), triggered'[n] = triggered[n], owed'[n] = owed[n]
    PROVE  Done(n)'
BY DEF Done

\* The histories of the publications there were are unchanged, but for one.
LEMMA OthersKept ==
    ASSUME RegistryInv, TriggerInv, vm' = vm, NEW k,
           \A n \in 1..events : n # k => triggered'[n] = triggered[n] /\ owed'[n] = owed[n]
    PROVE  /\ \A f \in Publications(stack) : f.n # k => Going(f)'
           /\ \A n \in 1..events : (n # k /\ \A f \in Publications(stack) : f.n # n) => Done(n)'
<1>1. ASSUME NEW f \in Publications(stack), f.n # k PROVE Going(f)'
  <2>1. f.n \in 1..events
    BY DEF TriggerInv, Numbered, Publications
  <2>2. Going(f)
    BY DEF TriggerInv, Progress
  <2> QED
    BY <1>1, <2>1, <2>2, GoingKept
<1>2. ASSUME NEW n \in 1..events, n # k, \A f \in Publications(stack) : f.n # n PROVE Done(n)'
  <2>1. Done(n)
    BY <1>2 DEF TriggerInv, Progress
  <2> QED
    BY <1>2, <2>1, DoneKept
<1> QED
  BY <1>1, <1>2

LEMMA InitTrigger == MachineInit => TriggerInv
<1> SUFFICES ASSUME MachineInit PROVE TriggerInv
  OBVIOUS
<1>1. stack = <<>> /\ events = 0 /\ vm.interpreter = 0 /\ subs = <<>>
  BY DEF MachineInit
<1>2. OnePerStart
  BY <1>1 DEF OnePerStart
<1> QED
  BY <1>1, <1>2, NoPublications DEF TriggerInv, Progress

\* A call goes on with as many subscribers as starts.
OnePer(m, s) ==
    /\ Len(s) = m.interpreter
    /\ \A i \in 1..m.interpreter : s[i] = [pattern |-> Wildcard, interpreter |-> i]

LEMMA StartedOnePer ==
    ASSUME RegistryInv, OnePerStart, NEW c \in Configs
    PROVE  OnePer(Started(vm, c), subs \o Installed(Started(vm, c)))
<1>1. subs \in Seq(Subscriptions) /\ vm.interpreter \in Nat
  <2>1. vm \in Machines /\ subs \in Seq(Subscriptions)
    BY DEF RegistryInv, Typed
  <2>2. vm.interpreter \in Nat
    BY <2>1, MachineAssumption DEF Machines
  <2> QED
    BY <2>1, <2>2
<1>2. PICK k \in Nat : k = vm.interpreter
  BY <1>1
<1>3. PICK a : a = [pattern |-> Wildcard, interpreter |-> k + 1]
  OBVIOUS
<1>4. a \in Subscriptions
  BY <1>3, MachineAssumption DEF Subscriptions, Wildcard
<1>5. Started(vm, c).interpreter = k + 1 /\ Installed(Started(vm, c)) = <<a>>
  BY <1>2, <1>3 DEF Started, Installed
<1>6. PICK s : s = Append(subs, a)
  OBVIOUS
<1>7. subs \o <<a>> = s
  BY <1>1, <1>4, <1>6
<1>8. Len(s) = Len(subs) + 1 /\ (\A i \in 1..Len(subs) : s[i] = subs[i]) /\ s[Len(subs) + 1] = a
  BY <1>1, <1>4, <1>6, PushFacts
<1>9. Len(subs) = k /\ \A i \in 1..k : subs[i] = [pattern |-> Wildcard, interpreter |-> i]
  BY <1>2 DEF OnePerStart
<1>10. \A i \in 1..(k + 1) : i \in 1..k \/ i = k + 1
  OBVIOUS
<1>11. Len(s) = k + 1 /\ \A i \in 1..(k + 1) : s[i] = [pattern |-> Wildcard, interpreter |-> i]
  BY <1>3, <1>8, <1>9, <1>10
<1> QED
  BY <1>5, <1>7, <1>11 DEF OnePer

LEMMA ReadyOnePer ==
    ASSUME RegistryInv, OnePerStart, NEW r \in Ready
    PROVE  OnePer(r.m, r.s)
<1>1. CASE vm.started
  BY <1>1 DEF Ready, OnePerStart, OnePer
<1>2. CASE ~vm.started
  <2>1. PICK c \in Configs : r = [m |-> Started(vm, c), s |-> subs \o Installed(Started(vm, c))]
    BY <1>2 DEF Ready
  <2>2. OnePer(Started(vm, c), subs \o Installed(Started(vm, c)))
    BY StartedOnePer
  <2> QED
    BY <2>1, <2>2
<1> QED
  BY <1>1, <1>2

\* With no publication before and after.
LEMMA QuietStep ==
    ASSUME RegistryInv, TriggerInv, stack = <<>>, UNCHANGED <<events, triggered, owed>>,
           stack' = <<>> \/ \E f \in Frame : f.kind = "run" /\ stack' = <<f>>
    PROVE  Numbered(stack, events)' /\ Progress'
<1>1. Publications(stack) = {}
  BY NoPublications
<1>2. Publications(stack') = {} /\ Numbered(stack', events')
  <2>1. CASE stack' = <<>>
    BY <2>1, NoPublications
  <2>2. ASSUME NEW f \in Frame, f.kind = "run", stack' = <<f>>
        PROVE  Publications(stack') = {} /\ Numbered(stack', events')
    <3>1. PICK p : p = <<>>
      OBVIOUS
    <3>2. p \in Seq(Frame) /\ Publications(p) = {} /\ Numbered(p, events')
      BY <3>1, NoPublications
    <3>3. stack' = Append(p, f)
      BY <2>2, <3>1
    <3> QED
      BY <2>2, <3>2, <3>3, RunPushed
  <2> QED
    BY <2>1, <2>2
<1>3. ASSUME NEW n \in 1..events' PROVE Done(n)'
  <2>1. Done(n)
    BY <1>1, <1>3 DEF TriggerInv, Progress
  <2> QED
    BY <2>1, DoneKept
<1>4. Progress'
  BY <1>2, <1>3 DEF Progress
<1> QED
  BY <1>2, <1>4

LEMMA HostTrigger ==
    ASSUME RegistryInv, RegistryInv', TriggerInv,
           \/ Start \/ Stop \/ StartSession \/ ResumeParked
           \/ \E b \in Blueprints : RunBlueprint(b) \/ AddBlueprint(b, NameOf[b])
    PROVE  TriggerInv'
<1>1. stack = <<>> /\ UNCHANGED <<events, triggered, owed>>
  BY DEF Start, Stop, StartSession, ResumeParked, RunBlueprint, AddBlueprint, Host
<1>2. stack' = <<>> \/ \E f : f.kind = "run" /\ stack' = <<f>>
  <2>1. \A id, b, d : Run(id, b, d).kind = "run"
    BY DEF Run
  <2> QED
    BY <2>1 DEF Start, Stop, StartSession, ResumeParked, RunBlueprint, AddBlueprint, Host
<1>3. stack' = <<>> \/ \E f \in Frame : f.kind = "run" /\ stack' = <<f>>
  <2>1. ASSUME NEW f, stack' = <<f>> PROVE f \in Frame
    <3>1. stack' \in Seq(Frame) /\ Len(stack') = 1 /\ stack'[1] = f
      BY <2>1 DEF RegistryInv, Typed
    <3> QED
      BY <3>1
  <2> QED
    BY <1>2, <2>1
<1>4. Numbered(stack, events)' /\ Progress'
  BY <1>1, <1>3, QuietStep
<1>5. OnePerStart'
  <2>1. ASSUME NEW m, NEW s, OnePer(m, s), vm'.interpreter = m.interpreter, subs' = s PROVE OnePerStart'
    BY <2>1 DEF OnePer, OnePerStart
  <2>2. CASE Start
    <3>1. PICK c \in Configs : vm' = Started(vm, c) /\ subs' = subs \o Installed(Started(vm, c))
      BY <2>2 DEF Start
    <3> QED
      BY <2>1, <3>1, StartedOnePer DEF TriggerInv
  <2>3. CASE Stop
    <3>1. vm'.interpreter = vm.interpreter /\ subs' = subs
      BY <2>3 DEF Stop, RegistryInv, Typed, Machines
    <3> QED
      BY <3>1 DEF TriggerInv, OnePerStart
  <2>4. ASSUME NEW r \in Ready, vm' = r.m, subs' = r.s PROVE OnePerStart'
    BY <2>1, <2>4, ReadyOnePer DEF TriggerInv
  <2>5. ASSUME NEW r \in Ready, NEW w, vm' = [r.m EXCEPT !.registry = w], subs' = r.s PROVE OnePerStart'
    <3>1. Follows(r.m)
      BY ReadyFollows DEF RegistryInv
    <3>2. vm'.interpreter = r.m.interpreter
      BY <2>5, <3>1 DEF Follows, Machines
    <3> QED
      BY <2>1, <2>5, <3>2, ReadyOnePer DEF TriggerInv
  <2>6. CASE StartSession \/ ResumeParked
    BY <2>4, <2>6 DEF StartSession, ResumeParked
  <2>7. ASSUME NEW b \in Blueprints, RunBlueprint(b) PROVE OnePerStart'
    <3>1. PICK r \in Ready : \E w : vm' = [r.m EXCEPT !.registry = w] /\ subs' = r.s
      BY <2>7 DEF RunBlueprint
    <3> QED
      BY <2>5, <3>1
  <2>8. ASSUME NEW b \in Blueprints, AddBlueprint(b, NameOf[b]) PROVE OnePerStart'
    <3>1. PICK r \in Ready : \E w : vm' = [r.m EXCEPT !.registry = w] /\ subs' = r.s
      BY <2>8 DEF AddBlueprint
    <3> QED
      BY <2>5, <3>1
  <2> QED
    BY <2>2, <2>3, <2>6, <2>7, <2>8
<1> QED
  BY <1>4, <1>5 DEF TriggerInv

LEMMA RunDetachedTrigger ==
    ASSUME RegistryInv, TriggerInv, RunDetached, RegistryInv'
    PROVE  TriggerInv'
<1>1. stack = <<>> /\ UNCHANGED <<vm, subs, events, triggered, owed>>
  BY DEF RunDetached
<1>2. stack' = <<>> \/ \E f \in Frame : f.kind = "run" /\ stack' = <<f>>
  <2>1. PICK f : f = Run(Head(jobs).id, vm.registry[Head(jobs).id], Head(jobs).depth)
    OBVIOUS
  <2>2. CASE stack' = <<f>>
    <3>1. stack' \in Seq(Frame) /\ Len(stack') = 1 /\ stack'[1] = f
      BY <2>2 DEF RegistryInv, Typed
    <3>2. f \in Frame
      BY <3>1
    <3>3. f.kind = "run"
      BY <2>1 DEF Run
    <3> QED
      BY <2>2, <3>2, <3>3
  <2> QED
    BY <1>1, <2>1, <2>2 DEF RunDetached
<1> QED
  BY <1>1, <1>2, QuietStep DEF TriggerInv, OnePerStart

\* What every subscriber is called with.
LEMMA OpenedProgress ==
    ASSUME RegistryInv, OnePerStart, NEW event \in Seq(NameParts), Opened(event), vm' = vm,
           NEW f, f = Publication(event)
    PROVE  /\ \A n \in 1..events : triggered'[n] = triggered[n] /\ owed'[n] = owed[n]
           /\ Going(f)' /\ f.kind = "publish" /\ f.n = events + 1
<1>1. /\ triggered \in Seq(Seq(Nat \X Ids)) /\ Len(triggered) = events
      /\ owed \in Seq(Debt) /\ Len(owed) = events /\ events \in Nat
  BY DEF RegistryInv, Typed
<1>2. PICK d : d = [workflows |-> TriggeredBy(vm.registry, event), interpreter |-> vm.interpreter]
  OBVIOUS
<1>3. vm.interpreter \in Nat /\ d \in Debt /\ d.interpreter = vm.interpreter
      /\ d.workflows = TriggeredBy(vm.registry, event)
  <2>1. vm \in Machines
    BY DEF RegistryInv, Typed
  <2>2. vm.interpreter \in Nat
    BY <2>1, MachineAssumption DEF Machines
  <2>3. TriggeredBy(vm.registry, event) \in SUBSET Ids
    BY TriggeredByType DEF RegistryInv
  <2> QED
    BY <1>2, <2>2, <2>3 DEF Debt
<1>4. /\ \A n \in 1..events : triggered'[n] = triggered[n] /\ owed'[n] = owed[n]
      /\ triggered'[events + 1] = <<>> /\ owed'[events + 1] = d
  <2>1. PICK S : S = Seq(Nat \X Ids)
    OBVIOUS
  <2>2. PICK none : none = <<>> /\ none \in S
    <3>1. \A T : <<>> \in Seq(T)
      OBVIOUS
    <3> QED
      BY <2>1, <3>1, Zenon
  <2>3. triggered' = Append(triggered, none) /\ owed' = Append(owed, d)
    BY <1>2, <2>2 DEF Opened
  <2>4. /\ \A n \in 1..Len(triggered) : triggered'[n] = triggered[n]
        /\ triggered'[Len(triggered) + 1] = <<>>
    <3>1. triggered \in Seq(S)
      BY <1>1, <2>1
    <3>2. triggered'[Len(triggered) + 1] = none
      BY <2>3, <3>1, PushFacts
    <3> QED
      BY <2>2, <2>3, <3>1, <3>2, PushFacts
  <2>5. (\A n \in 1..Len(owed) : owed'[n] = owed[n]) /\ owed'[Len(owed) + 1] = d
    BY <1>1, <1>3, <2>3, PushFacts
  <2> QED
    BY <1>1, <2>4, <2>5
<1>5. /\ f.kind = "publish" /\ f.n = events + 1 /\ f.event = event
      /\ f.todo = {i \in DOMAIN subs : Hits(subs[i].pattern, event)}
      /\ f.handler = 0 /\ f.starting = {}
  BY DEF Publication
<1>6. f.todo = 1..vm.interpreter
  <2>1. subs \in Seq(Subscriptions)
    BY DEF RegistryInv, Typed
  <2>2. PICK k : k = vm.interpreter
    OBVIOUS
  <2>3. Len(subs) = k /\ \A i \in 1..k : subs[i] = [pattern |-> Wildcard, interpreter |-> i]
    BY <2>2 DEF OnePerStart
  <2>4. DOMAIN subs = 1..k /\ \A i \in 1..k : subs[i].pattern = Wildcard
    BY <2>1, <2>3
  <2>5. Hits(Wildcard, event)
    BY DEF Hits, Wildcard, IsPrefix
  <2> QED
    BY <1>5, <2>2, <2>4, <2>5
<1>7. d.interpreter = 0 => d.workflows = {}
  BY <1>3 DEF RegistryInv, DirectoryKept, TriggeredBy
<1>8. Sofar(<<>>, d, 1..d.interpreter, 0, {})
  BY <1>3, <1>7, NothingStarted
<1>9. Sofar(triggered'[f.n], owed'[f.n], f.todo, f.handler, f.starting)
  BY <1>3, <1>4, <1>5, <1>6, <1>8
<1>10. Going(f)'
  BY <1>2, <1>4, <1>5, <1>9 DEF Going
<1> QED
  BY <1>4, <1>5, <1>10

\* A publication that is opened on a stack.
LEMMA OpenedTrigger ==
    ASSUME RegistryInv, TriggerInv, NEW event \in Seq(NameParts), Opened(event), vm' = vm, subs' = subs,
           NEW p \in Seq(Frame), Publications(p) = Publications(stack), Numbered(p, events),
           stack' = Append(p, Publication(event))
    PROVE  TriggerInv'
<1>1. PICK f : f = Publication(event)
  OBVIOUS
<1>2. f \in Frame /\ events' = events + 1 /\ events \in Nat
  BY <1>1, OpenedTypes DEF Frame, RegistryInv, Typed
<1>3. /\ \A n \in 1..events : triggered'[n] = triggered[n] /\ owed'[n] = owed[n]
      /\ Going(f)' /\ f.kind = "publish" /\ f.n = events + 1
  BY <1>1, OpenedProgress DEF TriggerInv
<1>4. Publications(stack') = Publications(stack) \cup {f}
  BY <1>1, <1>2, <1>3, PublicationsOf
<1>5. Numbered(stack', events')
  <2>1. Numbered(p, events + 1) /\ \A g \in Publications(p) : g.n # events + 1
    BY <1>2, NumberedMore
  <2>2. events + 1 \in 1..(events + 1)
    BY <1>2
  <2> QED
    BY <1>1, <1>2, <1>3, <2>1, <2>2, NumberedOf
<1>6. Progress'
  <2>1. /\ \A g \in Publications(stack) : g.n # events + 1 => Going(g)'
        /\ \A n \in 1..events : (n # events + 1 /\ \A g \in Publications(stack) : g.n # n) => Done(n)'
    BY <1>3, OthersKept
  <2>2. \A n \in 1..events' : (n \in 1..events /\ n # events + 1) \/ n = f.n
    BY <1>2, <1>3
  <2>3. \A g \in Publications(stack) : g.n # events + 1
    BY <1>2, NumberedMore DEF TriggerInv
  <2>4. \A g \in Publications(stack') : Going(g)'
    BY <1>3, <1>4, <2>1, <2>3
  <2>5. \A n \in 1..events' : (\A g \in Publications(stack') : g.n # n) => Done(n)'
    BY <1>4, <2>1, <2>2
  <2> QED
    BY <2>4, <2>5 DEF Progress
<1> QED
  BY <1>5, <1>6 DEF TriggerInv, OnePerStart

LEMMA PublishTrigger ==
    ASSUME RegistryInv, TriggerInv, NEW e \in Events, PublishEvent(e)
    PROVE  TriggerInv'
<1>1. /\ e \in Seq(NameParts) /\ Opened(e) /\ vm' = vm /\ subs' = subs /\ stack = <<>>
      /\ stack' = <<Publication(e)>>
  BY MachineAssumption DEF PublishEvent, Host
<1>2. <<>> \in Seq(Frame) /\ stack' = Append(<<>>, Publication(e))
  BY <1>1
<1>3. Publications(<<>>) = Publications(stack) /\ Numbered(<<>>, events)
  BY <1>1, NoPublications
<1> QED
  BY <1>1, <1>2, <1>3, OpenedTrigger

\* What is below the innermost frame.
LEMMA BelowFacts ==
    ASSUME RegistryInv, TriggerInv, stack # <<>>
    PROVE  /\ Below \in Seq(Frame) /\ Innermost \in Frame /\ Numbered(Below, events)
           /\ Publications(stack) = Publications(Below) \cup {f \in {Innermost} : f.kind = "publish"}
           /\ Innermost.kind = "publish" =>
                 Innermost.n \in 1..events /\ \A f \in Publications(Below) : f.n # Innermost.n
<1>1. PICK p \in Seq(Frame), a \in Frame : p = Below /\ a = Innermost /\ stack = Append(p, a)
  BY StackIsPushed
<1>2. Publications(stack) = Publications(p) \cup {f \in {a} : f.kind = "publish"}
  BY <1>1, PublicationsOf
<1>3. /\ Numbered(p, events)
      /\ a.kind = "publish" => a.n \in 1..events /\ \A f \in Publications(p) : f.n # a.n
  BY <1>1, NumberedOf DEF TriggerInv
<1> QED
  BY <1>1, <1>2, <1>3

\* The innermost publication goes on as a, with runs above it.
LEMMA PublicationGoesOn ==
    ASSUME RegistryInv, TriggerInv, stack # <<>>, Innermost.kind = "publish",
           UNCHANGED <<vm, subs, events, owed>>, NEW a \in PublishFrame, a.n = Innermost.n,
           \A n \in 1..events : n # Innermost.n => triggered'[n] = triggered[n], Going(a)',
           \/ stack' = Below \o <<a>>
           \/ \E b \in RunFrame : stack' = Below \o <<a, b>>
    PROVE  TriggerInv'
<1>1. PICK p \in Seq(Frame) : p = Below
  BY BelowFacts
<1>2. /\ Numbered(p, events) /\ Innermost.n \in 1..events
      /\ \A f \in Publications(p) : f.n # Innermost.n /\ f \in Publications(stack)
      /\ Publications(stack) = Publications(p) \cup {Innermost}
  BY <1>1, BelowFacts
<1>3. a \in Frame /\ a.kind = "publish"
  BY DEF Frame, PublishFrame
<1>4. PICK q : q = Append(p, a)
  OBVIOUS
<1>5. q \in Seq(Frame) /\ Publications(q) = Publications(p) \cup {a} /\ Numbered(q, events)
  BY <1>2, <1>3, <1>4, PublicationsOf, NumberedOf
<1>6. Publications(stack') = Publications(p) \cup {a} /\ Numbered(stack', events')
  <2>1. CASE stack' = Below \o <<a>>
    <3>1. stack' = q
      BY <1>1, <1>3, <1>4, <2>1, PutOn
    <3> QED
      BY <1>5, <3>1
  <2>2. ASSUME NEW b \in RunFrame, stack' = Below \o <<a, b>>
        PROVE  Publications(stack') = Publications(p) \cup {a} /\ Numbered(stack', events')
    <3>1. b \in Frame /\ b.kind = "run"
      BY DEF Frame, RunFrame
    <3>2. stack' = Append(q, b)
      BY <1>1, <1>3, <1>4, <2>2, <3>1, PutOn
    <3> QED
      BY <1>5, <3>1, <3>2, PublicationsOf, NumberedOf
  <2> QED
    BY <2>1, <2>2
<1>7. Progress'
  <2>1. /\ \A f \in Publications(stack) : f.n # a.n => Going(f)'
        /\ \A n \in 1..events : (n # a.n /\ \A f \in Publications(stack) : f.n # n) => Done(n)'
    BY OthersKept
  <2>2. \A f \in Publications(stack') : Going(f)'
    BY <1>2, <1>6, <2>1
  <2>3. \A n \in 1..events' : (\A f \in Publications(stack') : f.n # n) => Done(n)'
    BY <1>2, <1>6, <2>1
  <2> QED
    BY <2>2, <2>3 DEF Progress
<1> QED
  BY <1>6, <1>7 DEF TriggerInv, OnePerStart

\* The innermost frame is done.
LEMMA TopDone ==
    ASSUME RegistryInv, TriggerInv, stack # <<>>, stack' = Below,
           UNCHANGED <<vm, subs, events, triggered, owed>>,
           Innermost.kind = "publish" => Done(Innermost.n)
    PROVE  TriggerInv'
<1>1. PICK p : p = Below
  OBVIOUS
<1>2. /\ Numbered(p, events) /\ stack' = p
      /\ Publications(stack) = Publications(p) \cup {f \in {Innermost} : f.kind = "publish"}
  BY <1>1, BelowFacts
<1>3. /\ \A f \in Publications(stack) : f.n # 0 => Going(f)'
      /\ \A n \in 1..events : (n # 0 /\ \A f \in Publications(stack) : f.n # n) => Done(n)'
  BY OthersKept
<1>4. \A f \in Publications(stack) : f.n \in 1..events
  BY DEF TriggerInv, Numbered, Publications
<1>5. events \in Nat /\ \A n \in 1..events : n # 0
  BY DEF RegistryInv, Typed
<1>6. ASSUME NEW n \in 1..events, \A f \in Publications(p) : f.n # n PROVE Done(n)'
  <2>1. CASE Innermost.kind = "publish" /\ Innermost.n = n
    <3>1. Done(n)
      BY <2>1
    <3> QED
      BY <3>1, DoneKept
  <2>2. CASE ~(Innermost.kind = "publish" /\ Innermost.n = n)
    BY <1>2, <1>3, <1>5, <1>6, <2>2
  <2> QED
    BY <2>1, <2>2
<1>7. Progress'
  BY <1>2, <1>3, <1>4, <1>5, <1>6 DEF Progress
<1> QED
  BY <1>2, <1>7 DEF TriggerInv, OnePerStart

LEMMA CallHandlerTrigger ==
    ASSUME RegistryInv, TriggerInv, CallHandler
    PROVE  TriggerInv'
<1>1. /\ stack # <<>> /\ Innermost.kind = "publish" /\ Innermost.starting = {}
      /\ UNCHANGED <<vm, subs, events, triggered, owed>>
  BY DEF CallHandler
<1>2. Innermost \in Publications(stack) /\ Innermost \in PublishFrame /\ Innermost.todo \subseteq DOMAIN subs
  BY <1>1, BelowFacts, InnermostFacts DEF Known
<1>3. /\ Sofar(triggered[Innermost.n], owed[Innermost.n], Innermost.todo, Innermost.handler, {})
      /\ owed[Innermost.n] = [workflows |-> TriggeredBy(vm.registry, Innermost.event),
                              interpreter |-> vm.interpreter]
  BY <1>1, <1>2 DEF TriggerInv, Progress, Going
<1>4. CASE Innermost.todo = {} /\ stack' = Below
  <2>1. Done(Innermost.n)
    BY <1>3, <1>4, AllStarted DEF Done
  <2> QED
    BY <1>1, <1>4, <2>1, TopDone
<1>5. ASSUME NEW i \in Innermost.todo,
             NEW ids \in HandlerStarts(subs[i].interpreter, Innermost.event),
             stack' = Below \o <<[Innermost EXCEPT !.todo = @ \ {i}, !.handler = subs[i].interpreter,
                                                  !.starting = ids]>>
      PROVE  TriggerInv'
  <2>1. PICK a : a = [Innermost EXCEPT !.todo = @ \ {i}, !.handler = subs[i].interpreter, !.starting = ids]
    OBVIOUS
  <2>2. /\ a \in PublishFrame /\ a.n = Innermost.n /\ a.event = Innermost.event
        /\ a.todo = Innermost.todo \ {i} /\ a.handler = subs[i].interpreter /\ a.starting = ids
        /\ ids \subseteq TriggeredBy(vm.registry, Innermost.event)
    <3>1. a \in PublishFrame /\ GoesOn(a, i, ids)
      BY <1>1, <2>1, HandlerFacts
    <3> QED
      BY <3>1 DEF GoesOn
  <2>3. subs[i].interpreter = i
    <3>1. PICK k : k = vm.interpreter
      OBVIOUS
    <3>2. Len(subs) = k /\ \A j \in 1..k : subs[j] = [pattern |-> Wildcard, interpreter |-> j]
      BY <3>1 DEF TriggerInv, OnePerStart
    <3>3. subs \in Seq(Subscriptions)
      BY DEF RegistryInv, Typed
    <3>4. i \in 1..k
      BY <1>2, <3>2, <3>3
    <3> QED
      BY <3>2, <3>4
  <2>4. i = vm.interpreter => ids = TriggeredBy(vm.registry, Innermost.event)
    BY <2>3 DEF HandlerStarts
  <2>5. PICK t, d, todo, h : /\ t = triggered[Innermost.n] /\ d = owed[Innermost.n]
                             /\ todo = Innermost.todo /\ h = Innermost.handler
    OBVIOUS
  <2>6. d.workflows = TriggeredBy(vm.registry, Innermost.event) /\ d.interpreter = vm.interpreter
    BY <1>3, <2>5
  <2>7. Sofar(t, d, todo, h, {}) /\ i \in todo /\ ids \in SUBSET d.workflows
    BY <1>3, <2>2, <2>5, <2>6
  <2>8. Sofar(t, d, todo \ {i}, i, ids)
    BY <2>4, <2>6, <2>7, HandlerCalled
  <2>9. Going(a)'
    BY <1>1, <1>3, <2>2, <2>3, <2>5, <2>8 DEF Going
  <2>10. stack' = Below \o <<a>>
    BY <1>5, <2>1
  <2> QED
    BY <1>1, <2>2, <2>9, <2>10, PublicationGoesOn
<1> QED
  BY <1>4, <1>5 DEF CallHandler

LEMMA StartTriggeredTrigger ==
    ASSUME RegistryInv, TriggerInv, StartTriggered
    PROVE  TriggerInv'
<1>1. /\ stack # <<>> /\ Innermost.kind = "publish" /\ UNCHANGED <<vm, subs, events, owed>>
  BY DEF StartTriggered
<1>2. PICK id \in Innermost.starting :
         /\ stack' = Below \o <<[Innermost EXCEPT !.starting = @ \ {id}], Run(id, vm.registry[id], 0)>>
         /\ triggered' = [triggered EXCEPT ![Innermost.n] = Append(@, <<Innermost.handler, id>>)]
  BY DEF StartTriggered
<1>3. PICK a : a = [Innermost EXCEPT !.starting = @ \ {id}]
  OBVIOUS
<1>4. PICK b : b = Run(id, vm.registry[id], 0)
  OBVIOUS
<1>5. /\ a \in PublishFrame /\ a.n = Innermost.n /\ a.event = Innermost.event /\ a.todo = Innermost.todo
      /\ a.handler = Innermost.handler /\ a.starting = Innermost.starting \ {id}
      /\ b \in RunFrame /\ <<Innermost.handler, id>> \in Nat \X Ids
  BY <1>1, <1>3, <1>4, StartedFacts
<1>6. stack' = Below \o <<a, b>>
  BY <1>2, <1>3, <1>4
<1>7. Innermost \in Publications(stack) /\ Innermost.n \in 1..events
  BY <1>1, BelowFacts
<1>8. /\ Sofar(triggered[Innermost.n], owed[Innermost.n], Innermost.todo, Innermost.handler, Innermost.starting)
      /\ owed[Innermost.n] = [workflows |-> TriggeredBy(vm.registry, Innermost.event),
                              interpreter |-> vm.interpreter]
  BY <1>7 DEF TriggerInv, Progress, Going
<1>9. PICK S, k, x : S = Nat \X Ids /\ k = Innermost.n /\ x = <<Innermost.handler, id>>
  OBVIOUS
<1>10. PICK t : t = triggered[k]
  OBVIOUS
<1>11. /\ triggered \in Seq(Seq(S)) /\ DOMAIN triggered = 1..events
       /\ triggered' = [triggered EXCEPT ![k] = Append(triggered[k], x)]
  BY <1>2, <1>9 DEF RegistryInv, Typed
<1>12. t \in Seq(S)
  <2>1. PICK T : T = Seq(S)
    OBVIOUS
  <2>2. triggered \in Seq(T) /\ k \in DOMAIN triggered
    BY <1>7, <1>9, <1>11, <2>1
  <2> QED
    BY <1>10, <2>1, <2>2
<1>13. triggered'[k] = Append(t, x) /\ \A n \in 1..events : n # k => triggered'[n] = triggered[n]
  BY <1>7, <1>9, <1>10, <1>11
<1>14. PICK d, todo, h, starting : /\ d = owed[k] /\ todo = Innermost.todo
                                   /\ h = Innermost.handler /\ starting = Innermost.starting
  OBVIOUS
<1>15. Sofar(t, d, todo, h, starting) /\ id \in starting /\ <<h, id>> \in S /\ x = <<h, id>>
  BY <1>5, <1>8, <1>9, <1>10, <1>14
<1>16. Sofar(Append(t, x), d, todo, h, starting \ {id})
  BY <1>12, <1>15, OneStarted
<1>17. Going(a)'
  BY <1>1, <1>5, <1>8, <1>9, <1>13, <1>14, <1>16 DEF Going
<1> QED
  BY <1>1, <1>5, <1>6, <1>9, <1>13, <1>17, PublicationGoesOn

LEMMA RunPublishesTrigger ==
    ASSUME RegistryInv, TriggerInv, RunPublishes
    PROVE  TriggerInv'
<1>1. stack # <<>> /\ Innermost.kind = "run" /\ vm' = vm /\ subs' = subs
  BY DEF RunPublishes
<1>2. PICK event \in Innermost.todo :
         Opened(event) /\ stack' = Below \o <<[Innermost EXCEPT !.todo = @ \ {event}], Publication(event)>>
  BY DEF RunPublishes
<1>3. Innermost \in RunFrame /\ event \in Seq(NameParts)
  BY <1>1, <1>2, InnermostFacts DEF RunFrame
<1>4. PICK a : a = [Innermost EXCEPT !.todo = @ \ {event}]
  OBVIOUS
<1>5. PICK b : b = Publication(event)
  OBVIOUS
<1>6. a \in Frame /\ a.kind = "run" /\ b \in Frame
  BY <1>2, <1>3, <1>4, <1>5, OpenedTypes DEF Frame, RunFrame
<1>7. PICK p \in Seq(Frame) : p = Below
  BY <1>1, BelowFacts
<1>8. Numbered(p, events) /\ Publications(stack) = Publications(p)
  BY <1>1, <1>7, BelowFacts
<1>9. PICK q : q = Append(p, a)
  OBVIOUS
<1>10. q \in Seq(Frame) /\ Publications(q) = Publications(stack) /\ Numbered(q, events)
  BY <1>6, <1>8, <1>9, RunPushed
<1>11. stack' = Append(q, Publication(event))
  <2>1. stack' = p \o <<a, b>>
    BY <1>2, <1>4, <1>5, <1>7
  <2> QED
    BY <1>5, <1>6, <1>9, <2>1, PutOn
<1> QED
  BY <1>1, <1>2, <1>3, <1>10, <1>11, OpenedTrigger

LEMMA RunChildTrigger ==
    ASSUME RegistryInv, TriggerInv, RunChild
    PROVE  TriggerInv'
<1>1. stack # <<>> /\ Innermost.kind = "run" /\ UNCHANGED <<vm, subs, events, triggered, owed>>
  BY DEF RunChild
<1>2. PICK id \in DOMAIN vm.registry :
         stack' = Append(stack, Run(id, vm.registry[id], Innermost.depth + 1))
  BY DEF RunChild
<1>3. PICK d \in Nat : d = Innermost.depth + 1
  BY <1>1, InnermostFacts DEF RunFrame
<1>4. PICK b : b = Run(id, vm.registry[id], d)
  OBVIOUS
<1>5. id \in Ids /\ vm.registry[id] \in Blueprints
  BY RegistryType DEF RegistryInv, Typed
<1>6. b \in Frame /\ b.kind = "run"
  BY <1>4, <1>5, RunIsFrame DEF Frame, Run
<1>7. stack \in Seq(Frame) /\ stack' = Append(stack, b)
  BY <1>2, <1>3, <1>4 DEF RegistryInv, Typed
<1>8. Publications(stack') = Publications(stack) /\ Numbered(stack', events')
  BY <1>1, <1>6, <1>7, RunPushed DEF TriggerInv
<1>9. /\ \A f \in Publications(stack) : f.n # 0 => Going(f)'
      /\ \A n \in 1..events : (n # 0 /\ \A f \in Publications(stack) : f.n # n) => Done(n)'
  BY <1>1, OthersKept
<1>10. \A f \in Publications(stack) : f.n \in 1..events
  BY DEF TriggerInv, Numbered, Publications
<1>11. events \in Nat /\ \A n \in 1..events : n # 0
  BY DEF RegistryInv, Typed
<1>12. Progress'
  BY <1>1, <1>8, <1>9, <1>10, <1>11 DEF Progress
<1> QED
  BY <1>1, <1>8, <1>12 DEF TriggerInv, OnePerStart

LEMMA RunEndsTrigger ==
    ASSUME RegistryInv, TriggerInv, RunEnds
    PROVE  TriggerInv'
BY TopDone DEF RunEnds

LEMMA NextTrigger ==
    ASSUME RegistryInv, RegistryInv', TriggerInv, [MachineNext]_machineVars
    PROVE  TriggerInv'
<1>1. CASE Start \/ Stop \/ StartSession \/ ResumeParked
               \/ \E b \in Blueprints : RunBlueprint(b) \/ AddBlueprint(b, NameOf[b])
  BY <1>1, HostTrigger
<1>2. ASSUME NEW e \in Events, PublishEvent(e) PROVE TriggerInv'
  BY <1>2, PublishTrigger
<1>3. CASE CallHandler \/ StartTriggered
  BY <1>3, CallHandlerTrigger, StartTriggeredTrigger
<1>4. CASE RunPublishes \/ RunEnds
  BY <1>4, RunPublishesTrigger, RunEndsTrigger
<1>5. CASE RunChild \/ RunDetached
  BY <1>5, RunChildTrigger, RunDetachedTrigger
<1>6. CASE LaunchChild \/ UNCHANGED machineVars
  BY <1>6 DEF LaunchChild, machineVars, TriggerInv, OnePerStart, Progress, Going, Done, Publications, Numbered
<1> QED
  BY <1>1, <1>2, <1>3, <1>4, <1>5, <1>6 DEF MachineNext

\* EventBus::publish with the handlers of installRunners, which each start of
\* the machine subscribes anew and none takes back: the interpreter of the
\* last start starts every workflow an event triggers exactly once, each one
\* before it at most once, and nothing else is started, whatever the
\* workflows publish, call and launch in turn.  Of a machine started once, an
\* event starts what it triggers exactly once.
THEOREM TriggeredOnce == MachineSpec => []TriggersOnce
<1>1. MachineInit => TriggerInv
  BY InitTrigger
<1>2. RegistryInv /\ RegistryInv' /\ TriggerInv /\ [MachineNext]_machineVars => TriggerInv'
  BY NextTrigger
<1>3. RegistryInv /\ TriggerInv => TriggersOnce
  <2> SUFFICES ASSUME RegistryInv, TriggerInv, NEW n \in Ended
               PROVE  /\ IsInjective(triggered[n])
                      /\ {owed[n].interpreter} \X owed[n].workflows \subseteq ToSet(triggered[n])
                      /\ ToSet(triggered[n]) \subseteq (1..owed[n].interpreter) \X owed[n].workflows
    BY DEF TriggersOnce
  <2>1. n \in 1..events /\ \A f \in Publications(stack) : f.n # n
    BY DEF Ended, Publications
  <2>2. Done(n)
    BY <2>1 DEF TriggerInv, Progress
  <2> QED
    BY <2>2 DEF Done, Sofar
<1> QED
  BY <1>1, <1>2, <1>3, RegistryAlways, PTL DEF MachineSpec
=============================================================================
