----------------------------- MODULE TaskContract -----------------------------
(***************************************************************************)
(* The agreement on one task: the task_contracts row with its documents    *)
(* and actions (storage/sqlite-run-store.ts, application/task-contract.ts).*)
(* A brief, a plan for it, the plan's approval and a TODO for the approved *)
(* plan; comments and blocks withdraw the approval.  An operator is one    *)
(* transaction, guarded by the revision the caller expects; a refusal      *)
(* throws and changes nothing, so it is no step.                           *)
(*                                                                         *)
(* Versions are per kind and consecutive, hence a document is its index:   *)
(* the current brief is always the latest one, plans[v] is plan version v. *)
(* What the documents say is abstracted to what decides: the versions they *)
(* refer to, and whether a TODO stays within the scope of its plan.        *)
(***************************************************************************)
EXTENDS Naturals, Sequences

VARIABLES
    contract,   \* the row of task_contracts, or NoContract
    plans,      \* plans[v]: the brief version the plan was made for
    todos,      \* todos[v]: [plan, compatible, after], after: actions before it
    actions,    \* task_contract_actions: [kind, plan], plan: the one it is about
    execution   \* the guided execution's documents, or NoExecution

contractVars == <<contract, plans, todos, actions, execution>>

NoContract == [revision |-> 0]
NoExecution == [plan |-> 0]

ContractPhases == {"exploration", "planning", "todo"}
ActionKinds == {"comment", "approve-plan", "block", "scope-review", "resolve-block"}

Created == contract # NoContract

ContractTypeOK ==
    /\ Created =>
        /\ contract.revision \in Nat \ {0}
        /\ contract.phase \in ContractPhases
        /\ contract.brief \in Nat \ {0}
        /\ {contract.plan, contract.approved} \subseteq 0..Len(plans)
        /\ contract.todo \in 0..Len(todos)
        /\ contract.block \in 0..Len(actions)
        /\ contract.block # 0 => actions[contract.block].kind \in {"block", "scope-review"}
    /\ \A v \in DOMAIN todos : todos[v].plan \in 1..Len(plans)
    /\ \A i \in DOMAIN actions : actions[i].kind \in ActionKinds

ContractInit ==
    /\ contract = NoContract
    /\ plans = <<>> /\ todos = <<>> /\ actions = <<>>
    /\ execution = NoExecution

\* A second create with the same data returns what is there.
CreateTaskContract ==
    /\ ~Created
    /\ contract' = [revision |-> 1, phase |-> "exploration", brief |-> 1,
                    plan |-> 0, approved |-> 0, todo |-> 0, block |-> 0]
    /\ UNCHANGED <<plans, todos, actions, execution>>

Executing == execution # NoExecution

\* assertExpectedTaskContractRevision, and updateTaskContract's own conditions.
MayWrite(expected) ==
    /\ Created
    /\ contract.revision = expected
    /\ ~Executing

\* updateTaskContract: the given columns, and the next revision.
Update(columns) ==
    contract' = [f \in DOMAIN contract |->
                    IF f = "revision" THEN contract.revision + 1
                    ELSE IF f \in DOMAIN columns THEN columns[f] ELSE contract[f]]

Unblocked == contract.block = 0

Note(kind) == actions' = Append(actions, [kind |-> kind, plan |-> contract.plan])

-----------------------------------------------------------------------------
(* Transactions *)

\* The columns of a contract that starts over with a new brief.
NewBrief ==
    [brief |-> contract.brief + 1, plan |-> 0, approved |-> 0, todo |-> 0,
     block |-> 0, phase |-> "exploration"]

ReviseBrief(expected) ==
    /\ MayWrite(expected)
    /\ Update(NewBrief)
    /\ UNCHANGED <<plans, todos, actions, execution>>

PublishPlan(expected, brief) ==
    /\ MayWrite(expected)
    /\ brief = contract.brief
    /\ plans' = Append(plans, brief)
    /\ Update([plan |-> Len(plans) + 1, approved |-> 0, todo |-> 0, block |-> 0,
               phase |-> "planning"])
    /\ UNCHANGED <<todos, actions, execution>>

\* Mutant: a comment leaves the approval as it is.
CommentPlan_KeepsApproval(expected, plan) ==
    /\ MayWrite(expected)
    /\ contract.plan # 0 /\ plan = contract.plan
    /\ Unblocked
    /\ Note("comment")
    /\ Update(<<>>)
    /\ UNCHANGED <<plans, todos, execution>>

CommentPlan(expected, plan) ==
    /\ MayWrite(expected)
    /\ contract.plan # 0 /\ plan = contract.plan
    /\ Unblocked
    /\ Note("comment")
    /\ Update([approved |-> 0, todo |-> 0, phase |-> "planning"])
    /\ UNCHANGED <<plans, todos, execution>>

ApprovePlan(expected, plan) ==
    /\ MayWrite(expected)
    /\ contract.plan # 0 /\ plan = contract.plan
    /\ plans[plan] = contract.brief
    /\ Unblocked
    /\ Note("approve-plan")
    /\ Update([approved |-> plan, todo |-> 0, phase |-> "todo"])
    /\ UNCHANGED <<plans, todos, execution>>

\* A TODO outside the scope of its plan is kept as a candidate, blocked until a
\* new plan or brief; compatible is what validateTaskContractTodoScope finds.
PublishTodo(expected, plan, compatible) ==
    /\ MayWrite(expected)
    /\ contract.plan # 0 /\ contract.approved = contract.plan
    /\ plan = contract.plan
    /\ Unblocked
    /\ todos' = Append(todos, [plan |-> plan, compatible |-> compatible, after |-> Len(actions)])
    /\ \/ /\ compatible
          /\ Update([todo |-> Len(todos) + 1, phase |-> "todo"])
          /\ UNCHANGED actions
       \/ /\ ~compatible
          /\ Note("scope-review")
          /\ Update([todo |-> Len(todos) + 1, approved |-> 0, block |-> Len(actions) + 1,
                     phase |-> "planning"])
    /\ UNCHANGED <<plans, execution>>

\* A block names a current document; which one changes nothing else.
BlockContract(expected) ==
    /\ MayWrite(expected)
    /\ Unblocked
    /\ Note("block")
    /\ Update([approved |-> 0, todo |-> 0, block |-> Len(actions) + 1,
               phase |-> IF contract.plan # 0 THEN "planning" ELSE "exploration"])
    /\ UNCHANGED <<plans, todos, execution>>

\* Mutant: any block can be resolved.
Resolvable_Any == contract.block # 0

Resolvable ==
    /\ contract.block # 0
    /\ actions[contract.block].kind # "scope-review"

ResolveBlock(expected) ==
    /\ MayWrite(expected)
    /\ Resolvable
    /\ Note("resolve-block")
    /\ Update([block |-> 0])
    /\ UNCHANGED <<plans, todos, execution>>

\* confirmGuidedBrief writes the row without the caller's revision.
ConfirmBrief ==
    /\ ~Executing
    /\ Update(NewBrief)
    /\ UNCHANGED <<plans, todos, actions, execution>>

\* createGuidedExecution: the contract row is not read again.
LinkExecution(documents) ==
    /\ ~Executing
    /\ execution' = documents
    /\ UNCHANGED <<contract, plans, todos, actions>>

-----------------------------------------------------------------------------
(* getTaskContractReadiness *)

Readiness ==
    CASE contract.block # 0 -> "blocked"
      [] contract.plan = 0 \/ (contract.plan # 0 /\ plans[contract.plan] # contract.brief) -> "needs-plan"
      [] contract.approved # contract.plan -> "needs-approval"
      [] contract.todo = 0 \/ (contract.todo # 0 /\ todos[contract.todo].plan # contract.approved) -> "needs-todo"
      [] OTHER -> "ready"

-----------------------------------------------------------------------------
(* Properties *)

\* "ready" means that everybody agreed on what is about to be executed: the TODO
\* is for the current plan, the plan for the current brief, the TODO stays in
\* the plan's scope, and the last word on the plan before the TODO was written,
\* and since, is its approval, whatever comments, blocks, resolutions and new
\* versions came in between.
ReadyMeansAgreed ==
    Created /\ Readiness = "ready" =>
        /\ plans[contract.plan] = contract.brief
        /\ todos[contract.todo].plan = contract.plan
        /\ todos[contract.todo].compatible
        /\ Len(actions) = todos[contract.todo].after
        /\ actions[Len(actions)] = [kind |-> "approve-plan", plan |-> contract.plan]

\* A block for a TODO out of scope ends only with a new plan or a new brief, and
\* an approval that was withdrawn does not come back without another approval.
ScopeReviewStands ==
    [][Created =>
        /\ contract.block # 0 /\ actions[contract.block].kind = "scope-review"
               /\ contract'.block # contract.block
             => contract'.brief # contract.brief \/ Len(plans') > Len(plans)
        /\ contract.approved = 0 /\ contract'.approved # 0
             => /\ Len(actions') > Len(actions)
                /\ actions'[Len(actions')].kind = "approve-plan"]_contractVars

=============================================================================
