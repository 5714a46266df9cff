------------------------------ MODULE MCRuntime ------------------------------
(***************************************************************************)
(* What a machine runs: the workflows of MCWorkflows, the expressions of   *)
(* MCLanguage, the rows of MCData, and the machine itself, with its        *)
(* registry and its event bus.  Each behaviour runs one of them and leaves *)
(* the others where they start.                                            *)
(***************************************************************************)
EXTENDS MCWorkflows, VirtualMachine

VARIABLES
    part,          \* the component that runs
    request, result

workflow == vars
language == <<request, result>>
allVars == <<part, workflow, language, machineVars>>
----------------------------------------------------------------------------
\* The two strings that programs use as predicates, item > x and itm > x.
Greater(x) == << <<"id", x>>, <<"op", ">">>, <<"id", "x">> >>
L == INSTANCE MCLanguage WITH
        Quoted <- ("item > x" :> Greater("item")) @@ ("itm > x" :> Greater("itm")),
        Kinds <- {"tree", "program", "template"}, job <- request, out <- result

D == INSTANCE MCData WITH Quoted <- <<>>, job <- request, out <- result

\* Blueprints a and c have one name; a and b call each other; what c publishes
\* triggers a by its name and b by its prefix, and what a publishes b alone;
\* b also launches a without waiting.
Names == [a |-> <<"a">>, b |-> <<"b">>, c |-> <<"a">>]
Triggers ==
    [a |-> [name |-> <<"pay", "done">>, wild |-> FALSE], b |-> [name |-> <<"pay">>, wild |-> TRUE],
     c |-> NoTrigger] @@ (Broken :> NoTrigger)
Subflows == [a |-> {<<"b">>}, b |-> {<<"a">>}, c |-> {}] @@ (Broken :> {})
Launches == [a |-> {}, b |-> {<<"a">>}, c |-> {}] @@ (Broken :> {})
Publishes == [a |-> {<<"pay", "sent">>}, b |-> {}, c |-> {<<"pay", "done">>}] @@ (Broken :> {})
Files == {[stem |-> <<"b">>, blueprint |-> "b"], [stem |-> <<"x">>, blueprint |-> Broken]}
HostEvents == {<<"pay", "done">>, <<"other">>}
Configurations ==
    {[ok |-> TRUE, stateDir |-> TRUE, redis |-> "bad"], [ok |-> FALSE, stateDir |-> FALSE, redis |-> "none"]}
----------------------------------------------------------------------------
\* Where a component is that does not run.
NoWorkflow ==
    /\ wf = CHOOSE w \in Workflows : TRUE
    /\ runs = [p \in {<<>>} |-> Complete(NewRun("", <<>>, <<>>, <<>>, Budget, 0))] /\ answers = 0
NoJob == request = [kind |-> "none"] /\ result = <<>>
NoMachine ==
    /\ vm = [interpreter |-> 0] /\ subs = <<>> /\ stack = <<>> /\ jobs = <<>> /\ parked = {}
    /\ calls = 0 /\ events = 0 /\ triggered = <<>> /\ owed = <<>> /\ loaded = {}

RuntimeInit ==
    \/ part = "workflow" /\ Init /\ NoJob /\ NoMachine
    \/ part = "language" /\ NoWorkflow /\ L!Init /\ NoMachine
    \/ part = "data" /\ NoWorkflow /\ D!DataInit /\ NoMachine
    \/ part = "machine" /\ NoWorkflow /\ NoJob /\ MachineInit

Runs == part = "workflow" /\ Step /\ UNCHANGED <<part, language, machineVars>>

RuntimeNext ==
    \/ Runs
    \/ /\ part = "workflow"
       /\ \E how \in {"answer", "empty", "timeout"} : ResumeSession(how)
       /\ UNCHANGED <<part, language, machineVars>>
    \/ part = "language" /\ L!Next /\ UNCHANGED <<part, workflow, machineVars>>
    \/ part = "data" /\ D!DataNext /\ UNCHANGED <<part, workflow, machineVars>>
    \/ part = "machine" /\ MachineNext /\ UNCHANGED <<part, workflow, language>>

RuntimeSpec == RuntimeInit /\ [][RuntimeNext]_allVars /\ WF_allVars(Runs)
----------------------------------------------------------------------------
\* The properties of the parts, which their modules discuss; those of
\* Interpreter and VirtualMachine need no new name.

\* Type invariant: the runs of drive() keep their shape, and so does the
\* machine, whose chains of runChild and of event triggers stay within the
\* depth that runChild checks.
TypesOK == TypeOK /\ (part = "machine" => MachineTypeOK)

\* The parser of Sel.cpp reads every written expression back as the tree it
\* was written from: precedence, associativity and the forms of a primary.
ParsesBack == part = "language" => L!ParsesBack

\* An expression evaluates, through evalPredicate, LocalScope and the
\* function table, to what its text means.
MeansItsText == part = "language" => L!MeansItsText

\* The pages of a query hold every row that its filter describes, once and in
\* order, and a transform that sorts, groups or selects loses and doubles none:
\* DataSourceRegistry::run and validate, TransformTask::apply.
EveryRowOnce == part = "data" => D!EveryRowOnce
=============================================================================
