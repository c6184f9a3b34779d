------------------------------ MODULE TaskScope ------------------------------
(***************************************************************************)
(* What the documents of a task contract say about files, from the plan a  *)
(* planner publishes to the paths that are staged for a commit: the checks *)
(* of the two documents, the scope of the TODO within its plan (src/src/   *)
(* application/task-contract.ts), what the user authorizes (previewStart   *)
(* in guided-execution-operations.ts) and what the executor accepts of it  *)
(* when a phase ends (validatePaths, stagePaths in src/src/workspace/      *)
(* git-workspace.ts).  TaskContract has the versions and the approvals,    *)
(* GuidedExecution the work of a phase; here both are one step each.       *)
(*                                                                         *)
(* A path is named by its form: two that can be used, and one of each form *)
(* that one of the checks refuses.                                         *)
(***************************************************************************)
EXTENDS Naturals, Sequences, FiniteSets

CONSTANTS
    PlanIds, TaskIds,  \* ids of plan items, of tasks
    Forms,             \* the forms of the paths in documents
    MaxPaths,          \* MAX_GIT_PATHS of one phase
    MaxTouches         \* bound: changes of the workspace by anybody

VARIABLES
    plan, todo,   \* the documents: items, phases of tasks, or <<>>
    agreed,       \* "nothing", "plan" (approved), "todo", "review" (out of scope)
    authorized,   \* the files of the authorization a start was confirmed for
    tree,         \* tree[p]: what is there; "tracked" is deleted but committed
    index,        \* paths that were staged
    linked,       \* those of them that were links then
    phase,        \* the phase that ends next
    stage,        \* "preparing", "working", "validated", "blocked" or "done"
    raced,        \* the workspace was changed between the check and the staging
    touches

scopeVars == <<plan, todo, agreed, authorized, tree, index, linked, phase, stage, raced, touches>>

Usable == {"plain", "nested"}
Reserved == {"reserved"}   \* .git and .binaflow

\* Mutant: segments are not looked at.
RelativePath_Segments(p) == p \notin {"absolute", "backslash", "home", "drive", "glob", "brace"}
\* assertRelativeWorkspacePath
RelativePath(p) == p \notin {"absolute", "backslash", "home", "drive", "glob", "brace", "parent"}

\* validateRelativePath, which lets some pass that the documents may not have
GitPath(p) == p \notin {"absolute", "backslash", "glob", "parent"}

-----------------------------------------------------------------------------
(* The documents *)

\* Mutant: the ids are not compared.
UniqueIds_Any(list) == TRUE
UniqueIds(list) == \A i, j \in DOMAIN list : list[i].id = list[j].id => i = j

FileSets == {{}} \cup {{p} : p \in Forms} \cup {Usable}
Items == [id : PlanIds, files : FileSets]
Tasks == [id : TaskIds, item : PlanIds, files : FileSets]

\* The bodies a planner may send: one or two items, one or two tasks in their phases.
Plans == {<<a>> : a \in Items} \cup {<<a, b>> : a, b \in Items}
Todos == {<< <<t>> >> : t \in Tasks}
           \cup {<< <<t, u>> >> : t, u \in Tasks} \cup {<< <<t>>, <<u>> >> : t, u \in Tasks}

TasksOf(body) == IF Len(body) = 1 THEN body[1] ELSE body[1] \o body[2]
Entries(list) == {list[i] : i \in DOMAIN list}
FilesOf(list) == UNION {entry.files : entry \in Entries(list)}

\* parseTaskContractPlan, parseTaskContractTodo
PlanIsValid(items) == UniqueIds(items) /\ \A p \in FilesOf(items) : RelativePath(p)
TodoIsValid(body) == UniqueIds(TasksOf(body)) /\ \A p \in FilesOf(TasksOf(body)) : RelativePath(p)

\* Mutant: the files of any item will do.
Extra_Any(task) == task.files \ FilesOf(plan)
\* What a task adds to the files of its item; the last of the items with one id counts.
Extra(task) == LET named == {i \in DOMAIN plan : plan[i].id = task.item}
               IN task.files \ plan[CHOOSE i \in named : \A j \in named : j <= i].files

\* validateTaskContractTodoScope
Compatible(body, scopeChanges) ==
    /\ ~scopeChanges
    /\ \A t \in Entries(TasksOf(body)) : t.item \in {i.id : i \in Entries(plan)} /\ Extra(t) = {}
    /\ \A i \in Entries(plan) : \E t \in Entries(TasksOf(body)) : t.item = i.id

-----------------------------------------------------------------------------
ScopeInit ==
    /\ plan = <<>> /\ todo = <<>> /\ agreed = "nothing" /\ authorized = {}
    /\ tree = [p \in Usable \cup Reserved |-> IF p = "plain" THEN "file" ELSE "absent"]
    /\ index = {} /\ linked = {} /\ phase = 1 /\ stage = "preparing" /\ raced = FALSE /\ touches = 0

\* publishPlan, then approvePlan
ApprovePlan ==
    /\ stage = "preparing" /\ agreed = "nothing" /\ plan = <<>>
    /\ \E items \in Plans : PlanIsValid(items) /\ plan' = items
    /\ agreed' = "plan"
    /\ UNCHANGED <<todo, authorized, tree, index, linked, phase, stage, raced, touches>>

PublishTodo ==
    /\ stage = "preparing" /\ agreed = "plan"
    /\ \E body \in Todos, scopeChanges \in BOOLEAN :
         /\ TodoIsValid(body)
         /\ todo' = body
         /\ agreed' = IF Compatible(body, scopeChanges) THEN "todo" ELSE "review"
    /\ UNCHANGED <<plan, authorized, tree, index, linked, phase, stage, raced, touches>>

\* previewStart and the start that confirms its digest
Start ==
    /\ stage = "preparing" /\ agreed = "todo"
    /\ authorized' = FilesOf(TasksOf(todo))
    /\ stage' = "working"
    /\ UNCHANGED <<plan, todo, agreed, tree, index, linked, phase, raced, touches>>

\* The agent, or anybody else, makes, replaces or removes a file.
Touch ==
    /\ stage \in {"working", "validated", "blocked"} /\ touches < MaxTouches
    /\ touches' = touches + 1
    /\ \E p \in Usable, kind \in {"file", "link", "gone"} :
         tree' = [tree EXCEPT ![p] = IF kind # "gone" THEN kind
                                     ELSE IF p = "plain" \/ p \in index THEN "tracked" ELSE "absent"]
    /\ tree' # tree
    /\ raced' = (raced \/ stage = "validated")
    /\ UNCHANGED <<plan, todo, agreed, authorized, index, linked, phase, stage>>

PhasePaths == FilesOf(todo[phase])

\* validatePaths: forms, reserved places, links
PathsAreUsable ==
    /\ Cardinality(PhasePaths) <= MaxPaths
    /\ \A p \in PhasePaths : GitPath(p) /\ p \notin Reserved /\ tree[p] # "link"

ValidatePaths ==
    /\ stage = "working"
    /\ stage' = IF PathsAreUsable THEN "validated" ELSE "blocked"
    /\ UNCHANGED <<plan, todo, agreed, authorized, tree, index, linked, phase, raced, touches>>

\* git add, which refuses a path that is neither there nor known; then the commit.
StagePaths ==
    /\ stage = "validated"
    /\ IF \E p \in PhasePaths : tree[p] = "absent"
       THEN stage' = "blocked" /\ UNCHANGED <<index, linked, phase>>
       ELSE /\ index' = index \cup PhasePaths
            /\ linked' = linked \cup {p \in PhasePaths : tree[p] = "link"}
            /\ phase' = phase + 1
            /\ stage' = IF phase = Len(todo) THEN "done" ELSE "working"
    /\ UNCHANGED <<plan, todo, agreed, authorized, tree, raced, touches>>

\* A person resumes the phase.
Resume ==
    /\ stage = "blocked" /\ touches < MaxTouches
    /\ stage' = "working"
    /\ UNCHANGED <<plan, todo, agreed, authorized, tree, index, linked, phase, raced, touches>>

ScopeNext == ApprovePlan \/ PublishTodo \/ Start \/ Touch \/ ValidatePaths \/ StagePaths \/ Resume

-----------------------------------------------------------------------------
\* What is staged was authorized, and belongs to the item of a task that is done:
\* to every item with that id, so that the documents cannot be read in two ways.
StagedIsAgreed ==
    /\ index \subseteq authorized
    /\ index \cap Reserved = {}
    /\ stage # "preparing" =>
          \A k \in 1..Len(todo) : \A t \in Entries(todo[k]) :
             \A i \in Entries(plan) : i.id = t.item => t.files \subseteq i.files

\* A link is staged only when it was made after the check.
NoLinkStaged == linked # {} => raced

\* When the last phase is committed there is a task for every item of the plan.
NothingIsLeft ==
    stage = "done" =>
        \A i \in DOMAIN plan :
            \E t \in Entries(TasksOf(todo)) :
                t.item = plan[i].id /\ t.files \subseteq plan[i].files /\ t.files \subseteq index

\* What the documents were allowed to name has a form the executor takes: a phase is
\* blocked by the place of a file or by what is there, never by how it is written.
FormsAreAccepted == \A p \in authorized : GitPath(p)

ScopeInv == StagedIsAgreed /\ NoLinkStaged /\ NothingIsLeft /\ FormsAreAccepted
=============================================================================
