---------------------------- MODULE WorkflowGraph ----------------------------
(***************************************************************************)
(* The dependency graph of a workflow: what validateWorkflowDefinition     *)
(* (src/src/core/workflow.ts) lets through, and the order resolveStepOrder *)
(* (src/src/core/references.ts) gives the engine.  A workflow is a list of *)
(* steps; dependsOn is a list, and the recursive functions below visit it  *)
(* in the order of the list, as the code does.                             *)
(***************************************************************************)
EXTENDS Naturals, SequencesExt

CONSTANTS stepA, stepB, stepC,     \* ids of steps
          ghost                    \* an id no step has

Mentioned == {stepA, stepB, stepC, ghost}

VARIABLES
    workflow,       \* sequence of [id, dependsOn, sources]
    phase,          \* "submitted", "rejected", "accepted" or "ordered"
    order           \* what resolveStepOrder returned, as step ids

vars == <<workflow, phase, order>>

-----------------------------------------------------------------------------
(* stepsById: of two steps with one id the later one wins *)

StepIds == {workflow[i].id : i \in 1..Len(workflow)}

StepOf(id) ==
    workflow[CHOOSE i \in 1..Len(workflow) :
                /\ workflow[i].id = id
                /\ \A j \in i + 1..Len(workflow) : workflow[j].id # id]

DependsOn(id) == IF id \in StepIds THEN StepOf(id).dependsOn ELSE <<>>

\* stepsById.keys(): the order of first insertion
Keys == FoldLeft(LAMBDA keys, s : IF s.id \in Range(keys) THEN keys
                                  ELSE Append(keys, s.id), <<>>, workflow)

-----------------------------------------------------------------------------
(* Validation *)

\* A walk of hasDependencyCycle: its two sets and its answer in one record.
Walks == [cycle : BOOLEAN, visiting : SUBSET Mentioned, visited : SUBSET Mentioned]

\* Mutant: ids stay in `visiting` after their dependencies were visited.
Visited_KeepVisiting(walk, id) == [walk EXCEPT !.visited = @ \cup {id}]

\* visiting.delete, visited.add
Visited(walk, id) == [walk EXCEPT !.visiting = @ \ {id}, !.visited = @ \cup {id}]

\* visit of hasDependencyCycle
VisitCycle[walk \in Walks, id \in Mentioned] ==
    IF walk.cycle \/ id \in walk.visiting THEN [walk EXCEPT !.cycle = TRUE]
    ELSE IF id \in walk.visited THEN walk
    ELSE Visited(FoldLeft(LAMBDA w, d : VisitCycle[w, d],
                          [walk EXCEPT !.visiting = @ \cup {id}], DependsOn(id)), id)

HasDependencyCycle ==
    FoldLeft(LAMBDA w, id : VisitCycle[w, id],
             [cycle |-> FALSE, visiting |-> {}, visited |-> {}], Keys).cycle

\* The while loop of reachableDependencies, which pops from the end.
PopReachable[reachable \in SUBSET Mentioned, stack \in Seq(Mentioned)] ==
    IF stack = <<>> THEN reachable
    ELSE IF Last(stack) \in reachable THEN PopReachable[reachable, Front(stack)]
    ELSE PopReachable[reachable \cup {Last(stack)},
                      Front(stack) \o DependsOn(Last(stack))]

ReachableDependencies(id) == PopReachable[{}, DependsOn(id)]

\* A step alone: no self dependency, no duplicate dependency.
StepOK(s) == s.id \notin Range(s.dependsOn) /\ IsInjective(s.dependsOn)

\* A step among the others.
LinksOK(s) ==
    /\ Range(s.dependsOn) \subseteq StepIds
    /\ \A source \in s.sources :
          source \in StepIds /\ source \in ReachableDependencies(s.id)

Valid ==
    /\ \A i \in 1..Len(workflow) : StepOK(workflow[i])
    /\ Cardinality(StepIds) = Len(workflow)
    /\ \A id \in StepIds : LinksOK(StepOf(id))
    /\ ~HasDependencyCycle

-----------------------------------------------------------------------------
(* Order *)

\* visit of resolveStepOrder; `visited` is the range of `ordered`.
VisitStep[ordered \in Seq(Mentioned), id \in Mentioned] ==
    IF id \in Range(ordered) THEN ordered
    ELSE Append(FoldLeft(LAMBDA o, d : VisitStep[o, d], ordered, DependsOn(id)), id)

\* Mutant: steps run as they are declared.
ResolveStepOrder_Declared == [i \in 1..Len(workflow) |-> workflow[i].id]

ResolveStepOrder == FoldLeft(LAMBDA o, s : VisitStep[o, s.id], <<>>, workflow)

-----------------------------------------------------------------------------
(* All workflows of three steps with at most two dependencies each *)

Dependencies ==
    {<<>>, <<ghost>>, <<stepA, stepA>>} \cup
    {<<x>> : x \in {stepA, stepB, stepC}} \cup
    {pair \in {stepA, stepB, stepC} \X {stepA, stepB, stepC} : pair[1] # pair[2]}

StepAs(id) ==
    {[id |-> id, dependsOn |-> d, sources |-> {}] : d \in Dependencies}

\* The last step also refers to the output of at most one step; the middle
\* one may repeat the id of the first.
Init ==
    /\ \E first \in StepAs(stepA), middle \in StepAs(stepB) \cup StepAs(stepA),
          last \in StepAs(stepC), sources \in {{}} \cup {{x} : x \in Mentioned} :
         workflow = <<first, middle, [last EXCEPT !.sources = sources]>>
    /\ phase = "submitted"
    /\ order = <<>>

-----------------------------------------------------------------------------

Validate ==
    /\ phase = "submitted"
    /\ phase' = IF Valid THEN "accepted" ELSE "rejected"
    /\ UNCHANGED <<workflow, order>>

\* executeSequential validates a definition before it asks for the order.
Resolve ==
    /\ phase = "accepted"
    /\ order' = ResolveStepOrder
    /\ phase' = "ordered"
    /\ UNCHANGED workflow

Next == Validate \/ Resolve

Spec == Init /\ [][Next]_vars

-----------------------------------------------------------------------------
(* Properties *)

\* Reference definitions, from sets and quantifiers only.
Edges(id) == Range(DependsOn(id))

Closed(T) == \A id \in T : Edges(id) \subseteq T

Below(id) ==
    {x \in Mentioned : \A T \in SUBSET Mentioned : Edges(id) \subseteq T /\ Closed(T) => x \in T}

\* Validation accepts exactly the workflows whose dependencies are known,
\* distinct and acyclic and whose step-output references lie below the step:
\* a diamond is not taken for a cycle, a cycle behind other steps is found.
AcceptsExactlySound ==
    phase # "submitted" =>
        (phase # "rejected" <=>
            /\ \A i, j \in 1..Len(workflow) :
                  workflow[i].id = workflow[j].id => i = j
            /\ \A i \in 1..Len(workflow) : IsInjective(workflow[i].dependsOn)
            /\ \A id \in StepIds :
                  /\ Edges(id) \subseteq StepIds
                  /\ id \notin Below(id)
                  /\ StepOf(id).sources \subseteq Below(id))

\* The order has every step once, after all it depends on, so the artifact a
\* reference names has been produced, or its step settled, before it is read;
\* and steps whose declared order already respects dependsOn run in it.
OrderIsSound ==
    phase = "ordered" =>
        /\ Range(order) = StepIds /\ IsInjective(order)
        /\ \A i, j \in 1..Len(order) : order[j] \in Below(order[i]) => j < i
        /\ (\A i, j \in 1..Len(workflow) : workflow[j].id \in Edges(workflow[i].id) => j < i)
             => order = [i \in 1..Len(workflow) |-> workflow[i].id]
=============================================================================
