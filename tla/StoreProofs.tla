----------------------------- MODULE StoreProofs ------------------------------
(***************************************************************************)
(* Proofs about what a device keeps (module Store).  The first part is     *)
(* about GuidedPreparation and the contract it leads to (TaskContract),    *)
(* for any clients, any number of requests and any limits: Agreed is the   *)
(* invariant of the contract, whoever writes it; Recorded adds what        *)
(* requests, the slot of the host and the conversation know.  The second   *)
(* part is about GuidedExecution, for every plan, any number of calls and  *)
(* any bounds.  The files beside the database are in FilesProofs.          *)
(***************************************************************************)
EXTENDS Store, WellFoundedInduction, TLAPS

-----------------------------------------------------------------------------
(* Least numbers *)

NatLess == {ss \in Nat \X Nat : ss[1] < ss[2]}

\* Every set of numbers that is not empty has a least one.
LEMMA LeastExists ==
    ASSUME NEW S \in SUBSET Nat, S # {}
    PROVE  \E x \in S : \A y \in S : x <= y
<1>1. IsWellFoundedOn(NatLess, Nat)
  BY NatLessThanWellFounded DEF OpToRel, NatLess
<1>2. PICK x \in S : \A y \in S : ~(<<y, x>> \in NatLess)
  BY <1>1, WFMin
<1>3. ASSUME NEW y \in S
      PROVE  x <= y
  <2>1. y < x => <<y, x>> \in NatLess
    <3>1. <<y, x>> \in Nat \X Nat /\ <<y, x>>[1] = y /\ <<y, x>>[2] = x
      OBVIOUS
    <3> QED
      BY <3>1, Zenon DEF NatLess
  <2> QED
    BY <1>2, <2>1
<1> QED
  BY <1>3

-----------------------------------------------------------------------------
(* The contract *)

ContractRow == [revision : Nat \ {0}, phase : ContractPhases, brief : Nat \ {0},
                plan : Nat, approved : Nat, todo : Nat, block : Nat]
Todo == [plan : Nat, compatible : BOOLEAN, after : Nat]
Action == [kind : ActionKinds, plan : Nat]

\* The rows are rows, and refer to versions there are.
ContractRows ==
    /\ contract \in ContractRow \cup {NoContract}
    /\ plans \in Seq(Nat) /\ todos \in Seq(Todo) /\ actions \in Seq(Action)
    /\ ContractTypeOK

\* An approval is the last action, of the current plan, which is for the current
\* brief, with no block; a TODO under it was written after it, for it, in its scope.
ApprovalStands ==
    Created /\ contract.approved # 0 =>
        /\ contract.block = 0
        /\ contract.approved = contract.plan
        /\ plans[contract.plan] = contract.brief
        /\ actions # <<>>
        /\ actions[Len(actions)] = [kind |-> "approve-plan", plan |-> contract.plan]
        /\ contract.todo # 0 =>
             /\ todos[contract.todo].plan = contract.plan
             /\ todos[contract.todo].compatible
             /\ todos[contract.todo].after = Len(actions)

Agreed == ContractRows /\ ApprovalStands

\* One transaction on the contract, as the columns it leaves.
Row(phase, brief, plan, approved, todo, block) ==
    [revision |-> contract.revision + 1, phase |-> phase, brief |-> brief, plan |-> plan,
     approved |-> approved, todo |-> todo, block |-> block]

Noted(kind) == actions' = Append(actions, [kind |-> kind, plan |-> contract.plan])

Revised ==
    /\ contract' = Row("exploration", contract.brief + 1, 0, 0, 0, 0)
    /\ UNCHANGED <<plans, todos, actions>>
Planned ==
    /\ contract' = Row("planning", contract.brief, Len(plans) + 1, 0, 0, 0)
    /\ plans' = Append(plans, contract.brief)
    /\ UNCHANGED <<todos, actions>>
Commented ==
    /\ contract.block = 0
    /\ contract' = Row("planning", contract.brief, contract.plan, 0, 0, 0)
    /\ Noted("comment")
    /\ UNCHANGED <<plans, todos>>
Approved ==
    /\ contract.plan # 0 /\ plans[contract.plan] = contract.brief /\ contract.block = 0
    /\ contract' = Row("todo", contract.brief, contract.plan, contract.plan, 0, 0)
    /\ Noted("approve-plan")
    /\ UNCHANGED <<plans, todos>>
TodoWritten(compatible) ==
    /\ contract.plan # 0 /\ contract.approved = contract.plan /\ contract.block = 0
    /\ todos' = Append(todos, [plan |-> contract.plan, compatible |-> compatible, after |-> Len(actions)])
    /\ UNCHANGED plans
TodoAccepted ==
    /\ TodoWritten(TRUE)
    /\ contract' = Row("todo", contract.brief, contract.plan, contract.plan, Len(todos) + 1, 0)
    /\ UNCHANGED actions
TodoRefused ==
    /\ TodoWritten(FALSE)
    /\ contract' = Row("planning", contract.brief, contract.plan, 0, Len(todos) + 1, Len(actions) + 1)
    /\ Noted("scope-review")
Halting ==
    /\ contract.block = 0
    /\ contract' = Row(IF contract.plan # 0 THEN "planning" ELSE "exploration", contract.brief,
                       contract.plan, 0, 0, Len(actions) + 1)
    /\ Noted("block")
    /\ UNCHANGED <<plans, todos>>
Resolved ==
    /\ contract.block # 0 /\ actions[contract.block].kind # "scope-review"
    /\ contract' = Row(contract.phase, contract.brief, contract.plan, contract.approved, contract.todo, 0)
    /\ Noted("resolve-block")
    /\ UNCHANGED <<plans, todos>>

\* A transaction on the contract that is there, while nothing is executed.
Transaction ==
    /\ Created /\ UNCHANGED execution /\ ~Executing
    /\ \/ Revised
       \/ Planned
       \/ Commented
       \/ Approved
       \/ TodoAccepted
       \/ TodoRefused
       \/ Halting
       \/ Resolved

\* What the operations of TaskContract do to the columns.
LEMMA OperationsAreTransactions ==
    ASSUME contract \in ContractRow, NEW expected
    PROVE  /\ ReviseBrief(expected) => Revised
           /\ \A brief : PublishPlan(expected, brief) => Planned
           /\ \A plan : CommentPlan(expected, plan) => Commented
           /\ \A plan : ApprovePlan(expected, plan) => Approved
           /\ \A plan, ok : ok \in BOOLEAN /\ PublishTodo(expected, plan, ok) => TodoAccepted \/ TodoRefused
           /\ BlockContract(expected) => Halting
           /\ ResolveBlock(expected) => Resolved
           /\ ConfirmBrief => Revised
<1>1. ReviseBrief(expected) => Revised
  BY DEF ReviseBrief, NewBrief, Update, Revised, Row, ContractRow
<1>2. ASSUME NEW brief, PublishPlan(expected, brief)
      PROVE  Planned
  BY <1>2 DEF PublishPlan, Update, Planned, Row, ContractRow
<1>3. ASSUME NEW plan, CommentPlan(expected, plan)
      PROVE  Commented
  BY <1>3 DEF CommentPlan, Update, Commented, Row, Note, Noted, Unblocked, ContractRow
<1>4. ASSUME NEW plan, ApprovePlan(expected, plan)
      PROVE  Approved
  BY <1>4 DEF ApprovePlan, Update, Approved, Row, Note, Noted, Unblocked, ContractRow
<1>5. ASSUME NEW plan, NEW ok \in BOOLEAN, PublishTodo(expected, plan, ok)
      PROVE  TodoAccepted \/ TodoRefused
  <2>1. TodoWritten(ok)
    BY <1>5 DEF PublishTodo, TodoWritten, Unblocked
  <2>2. CASE ok
    BY <1>5, <2>1, <2>2 DEF PublishTodo, Update, TodoAccepted, TodoWritten, Row, ContractRow
  <2>3. CASE ~ok
    BY <1>5, <2>1, <2>3 DEF PublishTodo, Update, TodoRefused, TodoWritten, Row, Note, Noted, ContractRow
  <2> QED
    BY <2>2, <2>3
<1>6. BlockContract(expected) => Halting
  BY DEF BlockContract, Update, Halting, Row, Note, Noted, Unblocked, ContractRow
<1>7. ResolveBlock(expected) => Resolved
  BY DEF ResolveBlock, Resolvable, Update, Resolved, Row, Note, Noted, ContractRow
<1>8. ConfirmBrief => Revised
  BY DEF ConfirmBrief, NewBrief, Update, Revised, Row, ContractRow
<1> QED
  BY <1>1, <1>2, <1>3, <1>4, <1>5, <1>6, <1>7, <1>8

\* The parts of the types that are about one row each.
LEMMA RowIsTyped ==
    ASSUME contract \in ContractRow, NEW phase \in ContractPhases, NEW brief \in Nat \ {0},
           NEW plan \in Nat, NEW approved \in Nat, NEW todo \in Nat, NEW block \in Nat,
           contract' = Row(phase, brief, plan, approved, todo, block)
    PROVE  /\ contract' \in ContractRow /\ contract' # NoContract
           /\ contract'.revision = contract.revision + 1
BY DEF Row, ContractRow, NoContract

\* An appended action leaves the others where they are.
LEMMA NotedActions ==
    ASSUME actions \in Seq(Action), contract \in ContractRow, NEW kind \in ActionKinds, Noted(kind)
    PROVE  /\ actions' \in Seq(Action) /\ Len(actions') = Len(actions) + 1
           /\ actions'[Len(actions')] = [kind |-> kind, plan |-> contract.plan]
           /\ \A i \in 1..Len(actions) : actions'[i] = actions[i]
<1>1. [kind |-> kind, plan |-> contract.plan] \in Action
  BY DEF Action, ContractRow
<1> QED
  BY <1>1 DEF Noted

\* What a transaction says about the rows it adds.
LEMMA TransactionAdds ==
    ASSUME ContractRows, Transaction
    PROVE  /\ contract \in ContractRow /\ contract' \in ContractRow /\ contract' # NoContract
           /\ contract'.revision = contract.revision + 1
           /\ plans' \in Seq(Nat) /\ todos' \in Seq(Todo) /\ actions' \in Seq(Action)
           /\ Len(plans') >= Len(plans) /\ \A v \in 1..Len(plans) : plans'[v] = plans[v]
           /\ Len(todos') >= Len(todos) /\ \A v \in 1..Len(todos) : todos'[v] = todos[v]
           /\ Len(actions') >= Len(actions) /\ \A i \in 1..Len(actions) : actions'[i] = actions[i]
<1>1. contract \in ContractRow
  BY DEF Transaction, Created, ContractRows
<1>2. /\ contract.revision \in Nat \ {0} /\ contract.phase \in ContractPhases
      /\ contract.brief \in Nat \ {0} /\ contract.plan \in Nat /\ contract.approved \in Nat
      /\ contract.todo \in Nat /\ contract.block \in Nat
  BY <1>1 DEF ContractRow
<1>3. Len(plans) \in Nat /\ Len(todos) \in Nat /\ Len(actions) \in Nat
  BY DEF ContractRows
<1>4. {"exploration", "planning", "todo"} = ContractPhases
  BY DEF ContractPhases
<1>5. /\ contract' \in ContractRow /\ contract' # NoContract
      /\ contract'.revision = contract.revision + 1
  <2> DEFINE goal == /\ contract' \in ContractRow /\ contract' # NoContract
                     /\ contract'.revision = contract.revision + 1
  <2>1. ASSUME NEW phase \in ContractPhases, NEW brief \in Nat \ {0}, NEW plan \in Nat,
               NEW approved \in Nat, NEW todo \in Nat, NEW block \in Nat,
               contract' = Row(phase, brief, plan, approved, todo, block)
        PROVE  goal
    BY <1>1, <2>1, RowIsTyped
  <2>2. contract.brief + 1 \in Nat \ {0} /\ 0 \in Nat /\ Len(plans) + 1 \in Nat
        /\ Len(todos) + 1 \in Nat /\ Len(actions) + 1 \in Nat
        /\ (IF contract.plan # 0 THEN "planning" ELSE "exploration") \in ContractPhases
    BY <1>2, <1>3, <1>4
  <2> HIDE DEF goal
  <2>3. Revised => goal
    BY <1>4, <2>1, <2>2 DEF Revised
  <2>4. Planned => goal
    BY <1>2, <1>4, <2>1, <2>2 DEF Planned
  <2>5. (Commented \/ Approved) => goal
    BY <1>2, <1>4, <2>1, <2>2 DEF Commented, Approved
  <2>6. (TodoAccepted \/ TodoRefused) => goal
    BY <1>2, <1>4, <2>1, <2>2 DEF TodoAccepted, TodoRefused
  <2>7. (Halting \/ Resolved) => goal
    BY <1>2, <1>4, <2>1, <2>2 DEF Halting, Resolved
  <2>8. goal
    BY <2>3, <2>4, <2>5, <2>6, <2>7 DEF Transaction
  <2> QED
    BY <2>8 DEF goal
<1>7. plans' \in Seq(Nat) /\ Len(plans') >= Len(plans) /\ \A v \in 1..Len(plans) : plans'[v] = plans[v]
  <2>1. CASE UNCHANGED plans
    BY <1>3, <2>1 DEF ContractRows
  <2>2. CASE plans' = Append(plans, contract.brief)
    BY <1>2, <1>3, <2>2 DEF ContractRows
  <2> QED
    BY <2>1, <2>2 DEF Transaction, Revised, Planned, Commented, Approved, TodoAccepted, TodoRefused,
                      TodoWritten, Halting, Resolved
<1>8. todos' \in Seq(Todo) /\ Len(todos') >= Len(todos) /\ \A v \in 1..Len(todos) : todos'[v] = todos[v]
  <2>1. CASE UNCHANGED todos
    BY <1>3, <2>1 DEF ContractRows
  <2>2. CASE \E ok \in BOOLEAN : TodoWritten(ok)
    <3>1. PICK ok \in BOOLEAN : TodoWritten(ok)
      BY <2>2
    <3>2. [plan |-> contract.plan, compatible |-> ok, after |-> Len(actions)] \in Todo
      BY <1>2, <1>3 DEF Todo
    <3> QED
      BY <1>3, <3>1, <3>2 DEF TodoWritten, ContractRows
  <2> QED
    BY <2>1, <2>2 DEF Transaction, Revised, Planned, Commented, Approved, TodoAccepted, TodoRefused,
                      Halting, Resolved
<1>9. actions' \in Seq(Action) /\ Len(actions') >= Len(actions)
      /\ \A i \in 1..Len(actions) : actions'[i] = actions[i]
  <2>1. CASE UNCHANGED actions
    BY <1>3, <2>1 DEF ContractRows
  <2>2. CASE \E kind \in ActionKinds : Noted(kind)
    <3>1. PICK kind \in ActionKinds : Noted(kind)
      BY <2>2
    <3> QED
      <4>1. actions \in Seq(Action)
        BY DEF ContractRows
      <4>2. /\ actions' \in Seq(Action) /\ Len(actions') = Len(actions) + 1
            /\ \A i \in 1..Len(actions) : actions'[i] = actions[i]
        BY <1>1, <3>1, <4>1, NotedActions
      <4> QED
        BY <1>3, <4>2
  <2> QED
    BY <2>1, <2>2 DEF Transaction, Revised, Planned, Commented, Approved, TodoAccepted, TodoRefused,
                      Halting, Resolved, ActionKinds
<1> QED
  BY <1>1, <1>5, <1>7, <1>8, <1>9

\* The columns point to what there is.
LEMMA PointersStep ==
    ASSUME ContractRows, Transaction
    PROVE  /\ {contract'.plan, contract'.approved} \subseteq 0..Len(plans')
           /\ contract'.todo \in 0..Len(todos')
           /\ contract'.block \in 0..Len(actions')
           /\ contract'.block # 0 => actions'[contract'.block].kind \in {"block", "scope-review"}
           /\ \A v \in DOMAIN todos' : todos'[v].plan \in 1..Len(plans')
<1>0. /\ contract \in ContractRow /\ Created
      /\ contract.plan \in 0..Len(plans) /\ contract.approved \in 0..Len(plans)
      /\ contract.todo \in 0..Len(todos) /\ contract.block \in 0..Len(actions)
      /\ contract.block # 0 => actions[contract.block].kind \in {"block", "scope-review"}
      /\ \A v \in DOMAIN todos : todos[v].plan \in 1..Len(plans)
      /\ Len(plans) \in Nat /\ Len(todos) \in Nat /\ Len(actions) \in Nat
      /\ plans \in Seq(Nat) /\ todos \in Seq(Todo) /\ actions \in Seq(Action)
  BY DEF Transaction, Created, ContractRows, ContractTypeOK
<1>1. CASE Revised
  BY <1>0, <1>1 DEF Revised, Row
<1>2. CASE Planned
  <2>1. Len(plans') = Len(plans) + 1
    BY <1>0, <1>2 DEF Planned, ContractRow
  <2> QED
    BY <1>0, <1>2, <2>1 DEF Planned, Row
<1>3. CASE Commented
  BY <1>0, <1>3 DEF Commented, Row, Noted
<1>4. CASE Approved
  BY <1>0, <1>4 DEF Approved, Row, Noted
<1>5. ASSUME NEW ok \in BOOLEAN, TodoWritten(ok)
      PROVE  Len(todos') = Len(todos) + 1 /\ \A v \in DOMAIN todos' : todos'[v].plan \in 1..Len(plans')
  <2>1. todos' = Append(todos, [plan |-> contract.plan, compatible |-> ok, after |-> Len(actions)])
        /\ plans' = plans /\ contract.plan # 0
    BY <1>5 DEF TodoWritten
  <2>2. /\ DOMAIN todos' = 1..(Len(todos) + 1) /\ Len(todos') = Len(todos) + 1
        /\ \A v \in 1..Len(todos) : todos'[v] = todos[v]
        /\ todos'[Len(todos) + 1].plan = contract.plan
    BY <1>0, <2>1
  <2> QED
    BY <1>0, <2>1, <2>2
<1>6. CASE TodoAccepted
  BY <1>0, <1>5, <1>6 DEF TodoAccepted, TodoWritten, Row
<1>7. CASE TodoRefused
  <2>1. Len(actions') = Len(actions) + 1 /\ actions'[Len(actions) + 1].kind = "scope-review"
    BY <1>0, <1>7, NotedActions DEF TodoRefused, ActionKinds
  <2> QED
    BY <1>0, <1>5, <1>7, <2>1 DEF TodoRefused, TodoWritten, Row
<1>8. CASE Halting
  <2>1. Len(actions') = Len(actions) + 1 /\ actions'[Len(actions) + 1].kind = "block"
    BY <1>0, <1>8, NotedActions DEF Halting, ActionKinds
  <2> QED
    BY <1>0, <1>8, <2>1 DEF Halting, Row
<1>9. CASE Resolved
  BY <1>0, <1>9 DEF Resolved, Row, Noted
<1> QED
  BY <1>1, <1>2, <1>3, <1>4, <1>6, <1>7, <1>8, <1>9 DEF Transaction

\* Whatever is written, an approval in force is about what there is now.
LEMMA ApprovalStep ==
    ASSUME Agreed, Transaction
    PROVE  ApprovalStands'
<1>0. /\ contract \in ContractRow /\ Created
      /\ contract.plan \in 0..Len(plans) /\ contract.block \in 0..Len(actions)
      /\ Len(plans) \in Nat /\ Len(todos) \in Nat /\ Len(actions) \in Nat
      /\ plans \in Seq(Nat) /\ todos \in Seq(Todo) /\ actions \in Seq(Action)
  BY DEF Transaction, Created, Agreed, ContractRows, ContractTypeOK
<1>1. CASE contract'.approved = 0
  BY <1>1 DEF ApprovalStands, Created
<1>2. CASE Approved
  <2>1. /\ actions' \in Seq(Action) /\ Len(actions') = Len(actions) + 1
        /\ actions'[Len(actions')] = [kind |-> "approve-plan", plan |-> contract.plan]
    BY <1>0, <1>2, NotedActions DEF Approved, ActionKinds
  <2>2. actions' # <<>>
    BY <1>0, <2>1
  <2>3. /\ contract'.block = 0 /\ contract'.approved = contract.plan /\ contract'.plan = contract.plan
        /\ contract'.brief = contract.brief /\ contract'.todo = 0 /\ plans' = plans
        /\ plans[contract.plan] = contract.brief
    BY <1>2 DEF Approved, Row
  <2> QED
    BY <2>1, <2>2, <2>3 DEF ApprovalStands
<1>3. CASE TodoAccepted
  <2>1. /\ contract.approved # 0 /\ plans' = plans /\ actions' = actions
        /\ contract'.block = 0 /\ contract'.approved = contract.plan /\ contract'.plan = contract.plan
        /\ contract'.brief = contract.brief /\ contract'.todo = Len(todos) + 1
    BY <1>3 DEF TodoAccepted, TodoWritten, Row
  <2>2. todos' = Append(todos, [plan |-> contract.plan, compatible |-> TRUE, after |-> Len(actions)])
    BY <1>3 DEF TodoAccepted, TodoWritten
  <2>3. todos'[Len(todos) + 1] = [plan |-> contract.plan, compatible |-> TRUE, after |-> Len(actions)]
    BY <1>0, <2>2
  <2>4. ApprovalStands /\ Created
    BY <1>0 DEF Agreed
  <2> QED
    BY <2>1, <2>3, <2>4 DEF ApprovalStands
<1>4. CASE Resolved
  <2>1. contract.block # 0 /\ contract'.approved = contract.approved
    BY <1>4 DEF Resolved, Row
  <2> QED
    BY <1>0, <1>1, <2>1 DEF Agreed, ApprovalStands
<1>5. CASE Revised \/ Planned \/ Commented \/ TodoRefused \/ Halting
  <2>1. Revised \/ Planned => contract'.approved = 0
    BY DEF Revised, Planned, Row
  <2>2. Commented => contract'.approved = 0
    BY DEF Commented, Row
  <2>3. TodoRefused => contract'.approved = 0
    BY DEF TodoRefused, Row
  <2>4. Halting => contract'.approved = 0
    BY DEF Halting, Row
  <2> QED
    BY <1>1, <1>5, <2>1, <2>2, <2>3, <2>4
<1> QED
  BY <1>2, <1>3, <1>4, <1>5 DEF Transaction

\* The contract is created once, empty.
LEMMA CreatedStep ==
    ASSUME Agreed, CreateTaskContract
    PROVE  Agreed' /\ contract' \in ContractRow
<1>1. contract' = [revision |-> 1, phase |-> "exploration", brief |-> 1,
                   plan |-> 0, approved |-> 0, todo |-> 0, block |-> 0]
      /\ UNCHANGED <<plans, todos, actions>>
  BY DEF CreateTaskContract
<1>2. contract' \in ContractRow
  BY <1>1 DEF ContractRow, ContractPhases
<1>3. /\ contract'.revision = 1 /\ contract'.brief = 1 /\ contract'.phase \in ContractPhases
      /\ contract'.plan = 0 /\ contract'.approved = 0 /\ contract'.todo = 0 /\ contract'.block = 0
  BY <1>1 DEF ContractPhases
<1>4. plans \in Seq(Nat) /\ todos \in Seq(Todo) /\ actions \in Seq(Action) /\ ContractTypeOK
  BY DEF Agreed, ContractRows
<1>5. ContractTypeOK'
  BY <1>1, <1>3, <1>4 DEF ContractTypeOK
<1> QED
  BY <1>1, <1>2, <1>3, <1>4, <1>5 DEF Agreed, ContractRows, ApprovalStands

LEMMA AgreedStep ==
    ASSUME Agreed, Transaction \/ CreateTaskContract \/ UNCHANGED <<contract, plans, todos, actions>>
    PROVE  Agreed'
<1>1. CASE Transaction
  <2>1. /\ contract' \in ContractRow
        /\ plans' \in Seq(Nat) /\ todos' \in Seq(Todo) /\ actions' \in Seq(Action)
    BY <1>1, TransactionAdds DEF Agreed
  <2>2. /\ contract'.revision \in Nat \ {0} /\ contract'.phase \in ContractPhases
        /\ contract'.brief \in Nat \ {0}
    BY <2>1 DEF ContractRow
  <2>3. \A i \in DOMAIN actions' : actions'[i].kind \in ActionKinds
    <3>1. \A i \in DOMAIN actions' : actions'[i] \in Action
      BY <2>1
    <3> QED
      BY <3>1 DEF Action
  <2>4. ContractTypeOK'
    BY <1>1, <2>2, <2>3, PointersStep DEF Agreed, ContractTypeOK
  <2> QED
    BY <1>1, <2>1, <2>4, ApprovalStep DEF Agreed, ContractRows
<1>2. CASE UNCHANGED <<contract, plans, todos, actions>>
  BY <1>2 DEF Agreed, ContractRows, ContractTypeOK, ApprovalStands, Created
<1> QED
  BY <1>1, <1>2, CreatedStep

\* What getTaskContractReadiness calls ready has an approval in force.
LEMMA AgreedIsReady ==
    ASSUME Agreed
    PROVE  ReadyMeansAgreed
<1> SUFFICES ASSUME Created, Readiness = "ready"
             PROVE  /\ plans[contract.plan] = contract.brief
                    /\ todos[contract.todo].plan = contract.plan
                    /\ todos[contract.todo].compatible
                    /\ Len(actions) = todos[contract.todo].after
                    /\ actions[Len(actions)] = [kind |-> "approve-plan", plan |-> contract.plan]
  BY DEF ReadyMeansAgreed
<1>1. /\ contract.plan # 0 /\ contract.approved = contract.plan /\ contract.todo # 0
  BY DEF Readiness
<1> QED
  BY <1>1 DEF Agreed, ApprovalStands

\* A block for a TODO out of scope, and a withdrawn approval, through a transaction.
LEMMA TransactionsKeepReviews ==
    ASSUME Agreed, Transaction
    PROVE  /\ contract.block # 0 /\ actions[contract.block].kind = "scope-review"
                /\ contract'.block # contract.block
              => contract'.brief # contract.brief \/ Len(plans') > Len(plans)
           /\ contract.approved = 0 /\ contract'.approved # 0
              => /\ Len(actions') > Len(actions)
                 /\ actions'[Len(actions')].kind = "approve-plan"
<1>0. /\ contract \in ContractRow
      /\ Len(plans) \in Nat /\ plans \in Seq(Nat) /\ Len(actions) \in Nat /\ actions \in Seq(Action)
  BY DEF Transaction, Created, Agreed, ContractRows
<1>1. contract.brief \in Nat
  BY <1>0 DEF ContractRow
<1>2. CASE Revised
  BY <1>1, <1>2 DEF Revised, Row
<1>3. CASE Planned
  <2>1. Len(plans') = Len(plans) + 1
    BY <1>0, <1>1, <1>3 DEF Planned
  <2> QED
    BY <1>0, <1>3, <2>1 DEF Planned, Row
<1>4. CASE Approved
  <2>1. Len(actions') = Len(actions) + 1 /\ actions'[Len(actions')].kind = "approve-plan"
    BY <1>0, <1>4, NotedActions DEF Approved, ActionKinds
  <2> QED
    BY <1>0, <1>4, <2>1 DEF Approved, Row
<1>5. CASE Commented \/ TodoAccepted \/ TodoRefused \/ Resolved
  BY <1>5 DEF Commented, TodoAccepted, TodoRefused, TodoWritten, Resolved, Row
<1>6. CASE Halting
  BY <1>6 DEF Halting, Row
<1> QED
  BY <1>2, <1>3, <1>4, <1>5, <1>6 DEF Transaction

-----------------------------------------------------------------------------
(* Requests, the slot and the conversation *)

PrepRow == [revision : Nat \ {0}, last : Nat, confirmed : Nat, active : Requests \cup {0},
            synced : Nat]
Once == Writers \ {"confirm-brief"}
Bodies ==
    {NoBody} \cup [kind : {"reply", "search"}]
             \cup [kind : {"confirm-brief"}, preparation : Nat, through : Nat]
             \cup [kind : Once, revision : Nat, plan : Nat]
Rows == [status : {"none", "pending", "completed", "failed", "interrupted"}, owner : Nat]
Documents == [brief : Nat, plan : Nat, todo : Nat]
Slots ==
    {Idle} \cup [work : {"perform", "completed", "failed"}, request : Requests, owner : Nat]
           \cup [work : {"saving"}, request : Requests, owner : Nat, sequence : Nat \ {0}]
           \cup [work : {"planned"}, request : Requests, owner : Nat, brief : Nat]
           \cup [work : {"starting"}, documents : Documents]

PrepTypes ==
    /\ clients \in Clients
    /\ prep \in PrepRow \cup {NoPreparation}
    /\ messages \subseteq 1..MaxSequence /\ sources \subseteq 1..MaxSequence
    /\ body \in [Requests -> Bodies] /\ row \in [Requests -> Rows]
    /\ slot \in Slots
    /\ attempts \in [Requests -> Nat] /\ effects \in [Requests -> Nat]

\* What belongs together: a preparation to a task, requests to a preparation.
Linked ==
    /\ Prepared => Created
    /\ Prepared => prep.confirmed <= prep.last /\ prep.synced <= prep.last
    /\ ~Prepared => messages = {} /\ sources = {} /\ \A r \in Requests : row[r] = NoRow
    /\ \A r \in Requests :
         /\ row[r] = NoRow => body[r] = NoBody /\ attempts[r] = 0 /\ effects[r] = 0
         /\ row[r] # NoRow => body[r].kind \in clients.asks[r]
         /\ row[r].owner <= attempts[r]

\* An operation in the slot is the latest performance of its request, which is
\* still open; what is saved or published is of the kind that does it.
Live == slot.work \notin {"none", "starting"}
Performed ==
    Live => /\ row[slot.request].status \in {"pending", "interrupted"}
            /\ slot.owner = attempts[slot.request] /\ slot.owner > 0
            /\ InSlot("saving") => body[slot.request].kind = "search"
            /\ InSlot("planned") => body[slot.request].kind = "generate-plan"

\* The performance that may finish the request has done what it will say, and a
\* request on the contract that was done is older than the contract.
Effective ==
    /\ OutcomeIsTrue
    /\ Live /\ row[slot.request] = [status |-> "pending", owner |-> slot.owner] =>
         /\ ~InSlot("completed") => effects[slot.request] = 0
         /\ InSlot("completed") /\ body[slot.request].kind \in Writers => effects[slot.request] > 0
    /\ \A r \in Requests :
         /\ body[r].kind = "reply" => effects[r] = 0
         /\ body[r].kind \in Once /\ effects[r] > 0 => contract.revision > body[r].revision

\* The session of the planner, also while a request without a message is performed.
SessionKnows ==
    Prepared /\ prep.synced # 0 /\ (prep.active = 0 \/ body[prep.active].kind # "reply") =>
        \A s \in messages : s <= prep.synced

\* These documents are what there is, and it is ready to be executed.
AgreedOn(documents) ==
    /\ Created
    /\ documents = [brief |-> contract.brief, plan |-> contract.plan, todo |-> contract.todo]
    /\ Readiness = "ready"
    /\ Prepared => prep.active = 0 /\ prep.confirmed >= prep.last

\* An execution, or the start of one, nobody interfered with.
StartedFrom ==
    /\ Executing => slot = Idle
    /\ InSlot("starting") /\ ~raced => AgreedOn(slot.documents)
    /\ Executing /\ ~raced => AgreedOn(execution)

Recorded == PrepTypes /\ Linked /\ Performed /\ Effective /\ SequencesUnique /\ SessionKnows
            /\ StartedFrom

\* The performance in the slot and the preparation it is for.
LEMMA BusyKnows ==
    ASSUME PrepTypes, Linked, Performed, Live
    PROVE  /\ slot.request \in Requests /\ slot.owner \in Nat
           /\ row[slot.request] # NoRow /\ Prepared /\ Created /\ prep \in PrepRow
           /\ body[slot.request] \in Bodies /\ body[slot.request].kind \in clients.asks[slot.request]
<1>1. slot.request \in Requests /\ slot.owner \in Nat
  BY DEF PrepTypes, Slots, Live, Idle
<1>2. row[slot.request] # NoRow
  BY <1>1 DEF Performed, NoRow
<1> QED
  BY <1>1, <1>2 DEF Linked, PrepTypes, Prepared

LEMMA BodyTyped ==
    ASSUME NEW kind \in AllKinds, Prepared, Created, prep \in PrepRow, contract \in ContractRow
    PROVE  Body(kind) \in Bodies /\ Body(kind).kind = kind /\ Body(kind) # NoBody
           /\ (kind \in Once => Body(kind).revision = contract.revision)
<1>1. kind \in {"reply", "search"} \/ kind = "confirm-brief" \/ kind \in Once
  BY DEF AllKinds, Once, Writers
<1>2. prep.revision \in Nat /\ prep.last \in Nat /\ contract.revision \in Nat /\ contract.plan \in Nat
  BY DEF PrepRow, ContractRow
<1>3. CASE kind \in {"reply", "search"}
  BY <1>3 DEF Body, Bodies, NoBody, Once, Writers
<1>4. CASE kind = "confirm-brief"
  BY <1>2, <1>4 DEF Body, Bodies, NoBody, Once, Writers
<1>5. CASE kind \in Once
  <2>1. Body(kind) = [kind |-> kind, revision |-> contract.revision, plan |-> contract.plan]
    BY <1>5 DEF Body, Once, Writers
  <2> QED
    BY <1>2, <1>5, <2>1 DEF Bodies, NoBody, Once, Writers
<1> QED
  BY <1>1, <1>3, <1>4, <1>5

-----------------------------------------------------------------------------
(* What the steps do to the contract *)

LEMMA OperationsWrite ==
    ASSUME Agreed, Created, NEW expected
    PROVE  /\ ReviseBrief(expected) => Transaction
           /\ \A brief : PublishPlan(expected, brief) => Transaction
           /\ \A plan : CommentPlan(expected, plan) => Transaction
           /\ \A plan : ApprovePlan(expected, plan) => Transaction
           /\ \A plan, ok : ok \in BOOLEAN /\ PublishTodo(expected, plan, ok) => Transaction
           /\ BlockContract(expected) => Transaction
           /\ ResolveBlock(expected) => Transaction
           /\ ConfirmBrief => Transaction
<1>0. contract \in ContractRow
  BY DEF Agreed, ContractRows, Created
<1> DEFINE Still == ~Executing /\ UNCHANGED execution
<1>1. /\ ReviseBrief(expected) => Still
      /\ \A brief : PublishPlan(expected, brief) => Still
      /\ \A plan : CommentPlan(expected, plan) => Still
      /\ \A plan : ApprovePlan(expected, plan) => Still
      /\ \A plan, ok : PublishTodo(expected, plan, ok) => Still
      /\ BlockContract(expected) => Still
      /\ ResolveBlock(expected) => Still
      /\ ConfirmBrief => Still
  BY DEF ReviseBrief, PublishPlan, CommentPlan, ApprovePlan, PublishTodo, BlockContract, ResolveBlock,
         ConfirmBrief, MayWrite
<1>2. ASSUME Still, \/ Revised \/ Planned \/ Commented \/ Approved \/ TodoAccepted \/ TodoRefused
                    \/ Halting \/ Resolved
      PROVE  Transaction
  BY <1>2 DEF Transaction
<1> HIDE DEF Still
<1> QED
  BY <1>0, <1>1, <1>2, OperationsAreTransactions

\* Which of the operations in the slot write the contract.
Publishes ==
    \/ PublishAnswer
    \/ \E ok \in BOOLEAN : OfContract("generate-todo", PublishTodo(Sent.revision, contract.plan, ok))
    \/ OfContract("comment-plan", CommentPlan(Sent.revision, Sent.plan))
    \/ OfContract("approve-plan", ApprovePlan(Sent.revision, Sent.plan))

LEMMA PublishesWrites ==
    ASSUME Agreed, PrepTypes, Linked, Performed, Publishes
    PROVE  /\ Live /\ Transaction /\ contract.revision = Sent.revision
           /\ body[slot.request].kind \in Once
           /\ effects' = [effects EXCEPT ![slot.request] = @ + 1]
           /\ UNCHANGED <<prep, messages, sources, body, row, attempts, raced, clients>>
<1>1. Live /\ body[slot.request].kind \in Once
  BY DEF Publishes, PublishAnswer, OfContract, Doing, InSlot, Live, Performed, Once, Writers
<1>2. Created
  BY <1>1, BusyKnows
<1>3. contract.revision = Sent.revision
  BY DEF Publishes, PublishAnswer, OfContract, PublishPlan, PublishTodo, CommentPlan, ApprovePlan, MayWrite
<1>4. Transaction
  BY <1>2, OperationsWrite DEF Publishes, PublishAnswer, OfContract
<1>5. /\ effects' = [effects EXCEPT ![slot.request] = @ + 1]
      /\ UNCHANGED <<prep, messages, sources, body, row, attempts, raced, clients>>
  BY DEF Publishes, PublishAnswer, OfContract, Applied
<1> QED
  BY <1>1, <1>3, <1>4, <1>5

LEMMA ConfirmsWrites ==
    ASSUME Agreed, PrepTypes, Linked, Performed, ConfirmGuidedBrief
    PROVE  Live /\ Transaction /\ body[slot.request].kind = "confirm-brief"
<1>1. Live /\ body[slot.request].kind = "confirm-brief"
  BY DEF ConfirmGuidedBrief, Doing, InSlot, Live
<1> QED
  BY <1>1, BusyKnows, OperationsWrite DEF ConfirmGuidedBrief

LEMMA OthersWrite ==
    ASSUME Agreed, Contract
    PROVE  Transaction
BY OperationsWrite DEF Contract

LEMMA ContractMoves ==
    ASSUME Agreed, PrepTypes, Linked, Performed, TaskNext
    PROVE  Transaction \/ CreateTaskContract \/ UNCHANGED <<contract, plans, todos, actions>>
<1>1. CASE Publishes \/ ConfirmGuidedBrief \/ Contract
  BY <1>1, PublishesWrites, ConfirmsWrites, OthersWrite
<1>2. CASE Create
  BY <1>2 DEF Create
<1>3. CASE \/ Answered \/ OperationThrows \/ FoundSources \/ SaveSources \/ AskForPlan \/ AnswerRefused
  BY <1>3 DEF Answered, OperationThrows, FoundSources, SaveSources, AskForPlan, AnswerRefused, contractVars
<1>4. CASE \E answered \in BOOLEAN : Finish(answered)
  BY <1>4 DEF Finish, contractVars
<1>5. CASE \E r \in Requests : AdmitAgain(r) \/ Recover(r) \/ \E kind \in clients.asks[r] : AdmitRequest(r, kind)
  BY <1>5 DEF AdmitRequest, AdmitAgain, Recover, contractVars
<1>6. CASE CreatePreparation \/ FinishFails \/ FinishRefused \/ ProcessDies \/ StartExecution
           \/ CreateGuidedExecution
  BY <1>6 DEF CreatePreparation, FinishFails, FinishRefused, ProcessDies, StartExecution,
              CreateGuidedExecution, LinkExecution, contractVars
<1> QED
  BY <1>1, <1>2, <1>3, <1>4, <1>5, <1>6 DEF TaskNext, Operation, Publishes

-----------------------------------------------------------------------------
(* Messages and their numbers *)

\* pruneGuidedPreparationMessages takes a message the brief covers, if any.
LEMMA MakeRoomTakes ==
    ASSUME messages \subseteq Nat, HasRoom
    PROVE  /\ MakeRoom \subseteq messages
           /\ \A s \in messages \ MakeRoom : s <= prep.confirmed
<1>1. CASE Cardinality(messages) < MaxMessages
  BY <1>1 DEF MakeRoom
<1>2. CASE ~(Cardinality(messages) < MaxMessages)
  <2>1. Removable # {} /\ Removable \in SUBSET Nat
    BY <1>2 DEF HasRoom, Removable
  <2>2. \E s \in Removable : \A t \in Removable : s <= t
    BY <2>1, LeastExists
  <2> DEFINE oldest == CHOOSE s \in Removable : \A t \in Removable : s <= t
  <2>3. oldest \in Removable
    BY <2>2
  <2>4. MakeRoom = messages \ {oldest}
    BY <1>2 DEF MakeRoom
  <2> HIDE DEF oldest
  <2> QED
    BY <2>3, <2>4 DEF Removable
<1> QED
  BY <1>1, <1>2

LEMMA LastOfTwo ==
    ASSUME NEW a \in Nat, NEW b \in Nat
    PROVE  /\ LastOf({a, b}) \in {a, b, 0}
           /\ LastOf({a, b}) >= a /\ LastOf({a, b}) >= b
<1>1. \E x \in {a, b} \cup {0} : \A y \in {a, b} : y <= x
  <2>1. CASE a <= b
    BY <2>1
  <2>2. CASE b <= a
    BY <2>2
  <2> QED
    BY <2>1, <2>2
<1> DEFINE last == CHOOSE x \in {a, b} \cup {0} : \A y \in {a, b} : y <= x
<1>2. last \in {a, b} \cup {0} /\ \A y \in {a, b} : y <= last
  BY <1>1
<1>3. LastOf({a, b}) = last
  BY DEF LastOf
<1> HIDE DEF last
<1> QED
  BY <1>2, <1>3

\* What happens to the conversation: messages and sources get the next numbers, in
\* steps that admit or finish a request or save what a search found.
Said == \* one more message
    /\ HasRoom
    /\ messages' = MakeRoom \cup {NextSequence} /\ NextSequence <= MaxSequence
    /\ prep'.last = NextSequence
    /\ UNCHANGED sources

Found == \* one more source
    /\ slot.sequence \notin messages \cup sources /\ slot.sequence <= MaxSequence
    /\ sources' = sources \cup {slot.sequence}
    /\ prep'.last = LastOf({prep.last, slot.sequence})
    /\ slot.sequence \in Nat \ {0}
    /\ UNCHANGED messages

Quiet == UNCHANGED <<messages, sources>> /\ (Prepared => prep'.last = prep.last)

LEMMA ConversationMoves ==
    ASSUME PrepTypes, Linked, Performed, TaskNext
    PROVE  /\ Prepared => Prepared'
           /\ Prepared => prep \in PrepRow
           /\ \/ Prepared /\ Said
              \/ Prepared /\ Found
              \/ Quiet
<1>0. Prepared => prep \in PrepRow
  BY DEF PrepTypes, Prepared
<1> DEFINE goal ==
      /\ Prepared => Prepared'
      /\ \/ Prepared /\ Said
         \/ Prepared /\ Found
         \/ Quiet
<1>1. ASSUME NEW r \in Requests, NEW kind, AdmitRequest(r, kind)
      PROVE  goal
  BY <1>0, <1>1 DEF AdmitRequest, Prepared, NoPreparation, PrepRow, Said, Quiet
<1>2. ASSUME NEW answered \in BOOLEAN, Finish(answered)
      PROVE  goal
  <2>1. Prepared
    BY <1>2, BusyKnows DEF Finish, Live
  <2> QED
    BY <1>0, <1>2, <2>1 DEF Finish, Prepared, NoPreparation, PrepRow, Said, Quiet
<1>3. ASSUME SaveSources
      PROVE  goal
  <2>1. Prepared /\ slot.sequence \in Nat \ {0}
    BY <1>3, BusyKnows DEF SaveSources, InSlot, Live, PrepTypes, Slots, Idle
  <2> QED
    BY <1>0, <1>3, <2>1 DEF SaveSources, Prepared, NoPreparation, PrepRow, Found, Quiet
<1>4. ASSUME \/ ConfirmGuidedBrief \/ \E r \in Requests : Recover(r)
      PROVE  goal
  BY <1>0, <1>4 DEF ConfirmGuidedBrief, Recover, Prepared, NoPreparation, PrepRow, Quiet
<1>5. CreatePreparation => goal
  BY DEF CreatePreparation, Quiet
<1>6. UNCHANGED <<prep, messages, sources>> => goal
  BY <1>0 DEF Quiet, Prepared
<1>7. \/ \E r \in Requests : \E kind \in clients.asks[r] : AdmitRequest(r, kind)
      \/ \E answered \in BOOLEAN : Finish(answered)
      \/ SaveSources
      \/ ConfirmGuidedBrief
      \/ \E r \in Requests : Recover(r)
      \/ CreatePreparation
      \/ UNCHANGED <<prep, messages, sources>>
  BY DEF TaskNext, Operation, Create, AdmitAgain, Answered, OperationThrows, FoundSources, AskForPlan,
         PublishAnswer, AnswerRefused, OfContract, FinishFails, FinishRefused, ProcessDies, Contract,
         StartExecution, CreateGuidedExecution, prepVars
<1> HIDE DEF goal
<1>8. goal
  BY <1>1, <1>2, <1>3, <1>4, <1>5, <1>6, <1>7
<1> QED
  BY <1>0, <1>8 DEF goal

\* No message is compacted that the brief does not cover.
LEMMA CompactionStep ==
    ASSUME PrepTypes, Linked, Performed, TaskNext
    PROVE  Prepared => \A s \in messages : s \notin messages' => s <= prep.confirmed
<1>1. messages \subseteq Nat
  BY DEF PrepTypes
<1> QED
  BY <1>1, ConversationMoves, MakeRoomTakes DEF Said, Found, Quiet

\* The numbers that are there stay below the last one, in every step.
LEMMA NumbersStep ==
    ASSUME PrepTypes, Linked, Performed, SequencesUnique, TaskNext
    PROVE  /\ messages' \subseteq 1..MaxSequence /\ sources' \subseteq 1..MaxSequence
           /\ SequencesUnique'
           /\ Prepared /\ prep'.last # prep.last => prep'.last \in Nat /\ prep'.last >= prep.last
<1>0. messages \subseteq 1..MaxSequence /\ sources \subseteq 1..MaxSequence /\ MaxSequence \in Nat
  BY BoundsAssumption DEF PrepTypes
<1>1. Prepared => Prepared' /\ prep \in PrepRow /\ prep.last \in Nat
  BY ConversationMoves DEF PrepRow
<1>2. CASE Prepared /\ Said
  <2>1. /\ messages' = MakeRoom \cup {prep.last + 1} /\ prep.last + 1 <= MaxSequence
        /\ prep'.last = prep.last + 1 /\ sources' = sources /\ MakeRoom \subseteq messages
    BY <1>0, <1>2, MakeRoomTakes DEF Said, NextSequence
  <2>2. messages \subseteq 1..prep.last /\ sources \subseteq 1..prep.last /\ messages \cap sources = {}
    BY <1>2 DEF SequencesUnique
  <2>3. /\ prep.last \in Nat /\ prep.last + 1 \in 1..MaxSequence
        /\ prep.last + 1 \notin 1..prep.last
        /\ \A n \in 1..prep.last : n \in 1..(prep.last + 1)
    BY <1>0, <1>1, <1>2, <2>1
  <2>4. messages' \subseteq 1..prep'.last /\ sources' \subseteq 1..prep'.last
    <3> DEFINE before == 1..prep.last
               after == 1..prep'.last
    <3>1. /\ before \subseteq after /\ prep.last + 1 \in after
          /\ messages \subseteq before /\ sources \subseteq before
      BY <2>1, <2>2, <2>3
    <3> HIDE DEF before, after
    <3>2. messages' \subseteq after /\ sources' \subseteq after
      BY <2>1, <3>1
    <3> QED
      BY <3>2 DEF after
  <2>5. messages' \cap sources' = {}
    BY <2>1, <2>2, <2>3
  <2>6. messages' \subseteq 1..MaxSequence /\ sources' \subseteq 1..MaxSequence
    <3> DEFINE numbers == 1..MaxSequence
    <3>1. messages \subseteq numbers /\ sources \subseteq numbers /\ prep.last + 1 \in numbers
      BY <1>0, <2>3
    <3> HIDE DEF numbers
    <3>2. messages' \subseteq numbers /\ sources' \subseteq numbers
      BY <2>1, <3>1
    <3> QED
      BY <3>2 DEF numbers
  <2>7. prep'.last \in Nat /\ prep'.last >= prep.last
    BY <2>1, <2>3
  <2>8. SequencesUnique'
    BY <2>4, <2>5 DEF SequencesUnique
  <2> QED
    BY <2>6, <2>7, <2>8
<1>3. CASE Prepared /\ Found
  <2>1. /\ sources' = sources \cup {slot.sequence} /\ slot.sequence \notin messages \cup sources
        /\ slot.sequence \in 1..MaxSequence /\ messages' = messages
        /\ prep'.last \in {prep.last, slot.sequence, 0}
        /\ prep'.last >= prep.last /\ prep'.last >= slot.sequence
    BY <1>0, <1>1, <1>3, LastOfTwo DEF Found
  <2>2. messages \subseteq 1..prep.last /\ sources \subseteq 1..prep.last /\ messages \cap sources = {}
    BY <1>3 DEF SequencesUnique
  <2>3. prep.last \in Nat /\ slot.sequence \in Nat \ {0} /\ prep'.last \in Nat
    BY <1>0, <1>1, <1>3, <2>1
  <2>4. messages' \subseteq 1..prep'.last /\ sources' \subseteq 1..prep'.last
    <3>1. (\A n \in 1..prep.last : n \in 1..prep'.last) /\ slot.sequence \in 1..prep'.last
      BY <2>1, <2>3
    <3> QED
      BY <2>1, <2>2, <3>1
  <2> QED
    BY <1>0, <2>1, <2>2, <2>3, <2>4 DEF SequencesUnique
<1>4. CASE Quiet
  <2>1. ~Prepared => messages = {} /\ sources = {}
    BY DEF Linked
  <2> QED
    BY <1>0, <1>1, <1>4, <2>1 DEF Quiet, SequencesUnique
<1> QED
  BY <1>2, <1>3, <1>4, ConversationMoves

-----------------------------------------------------------------------------
(* What the steps do to requests and to the slot *)

Same == UNCHANGED <<body, row, attempts, clients>>
Still == slot'.request = slot.request /\ slot'.owner = slot.owner

\* The slot is free, or starts an execution, having been free.
Rested ==
    /\ Same /\ UNCHANGED effects
    /\ slot'.work \in {"none", "starting"}
    /\ Live => slot'.work = "none"

\* Nothing of the slot.
Besides == Same /\ UNCHANGED <<effects, slot>>

\* The performance goes on, and has changed nothing.
Advanced ==
    /\ Live /\ Same /\ UNCHANGED effects /\ Still
    /\ InSlot("completed") => body[slot.request].kind = "reply"
    /\ \/ slot'.work = "failed"
       \/ slot'.work = "completed" /\ body[slot.request].kind \in {"reply", "search"}
       \/ slot'.work = "saving" /\ body[slot.request].kind = "search"
       \/ slot'.work = "planned" /\ body[slot.request].kind = "generate-plan"

\* The performance has changed the contract, or the sources.
Effected ==
    /\ Live /\ Same /\ Still /\ slot'.work = "completed" /\ ~InSlot("completed")
    /\ effects' = [effects EXCEPT ![slot.request] = @ + 1]
    /\ body[slot.request].kind \in Writers \cup {"search"}
    /\ body[slot.request].kind \in Once => Transaction /\ contract.revision = Sent.revision

Held(r) == slot'.work = "perform" /\ slot'.request = r /\ slot'.owner = attempts'[r]

Opens(r, kind) ==
    /\ Prepared /\ prep.active = 0 /\ row[r] = NoRow
    /\ body' = [body EXCEPT ![r] = Body(kind)]
    /\ attempts' = [attempts EXCEPT ![r] = @ + 1]
    /\ row' = [row EXCEPT ![r] = [status |-> "pending", owner |-> attempts'[r]]]
    /\ Held(r)
    /\ UNCHANGED <<contract, effects, clients>>

Repeated(r) ==
    /\ row[r].status = "pending"
    /\ attempts' = [attempts EXCEPT ![r] = @ + 1]
    /\ Held(r)
    /\ UNCHANGED <<contract, body, row, effects, clients>>

Recovered(r) ==
    /\ Prepared /\ row[r].status = "pending"
    /\ row' = [row EXCEPT ![r] = [status |-> "interrupted", owner |-> 0]]
    /\ UNCHANGED <<body, slot, attempts, effects, clients>>

Ended ==
    /\ slot.work \in {"completed", "failed"}
    /\ row[slot.request] = [status |-> "pending", owner |-> slot.owner]
    /\ row' = [row EXCEPT ![slot.request] = [status |-> slot.work, owner |-> slot.owner]]
    /\ slot'.work = "none"
    /\ UNCHANGED <<body, attempts, effects, clients>>

\* A performance that is done.
LEMMA DoneSlot ==
    ASSUME PrepTypes, Live, NEW ok \in BOOLEAN, Done(ok), InSlot("perform")
    PROVE  slot' = [work |-> IF ok THEN "completed" ELSE "failed", request |-> slot.request,
                    owner |-> slot.owner]
<1>1. slot \in [work : {"perform", "completed", "failed"}, request : Requests, owner : Nat]
  BY DEF PrepTypes, Slots, InSlot, Idle
<1> QED
  BY <1>1 DEF Done

LEMMA RequestsMove ==
    ASSUME Agreed, PrepTypes, Linked, Performed, TaskNext
    PROVE  /\ slot' \in Slots
           /\ \/ Rested
              \/ Besides
              \/ Advanced
              \/ Effected
              \/ \E r \in Requests : \E kind \in clients.asks[r] : Opens(r, kind)
              \/ \E r \in Requests : Repeated(r) \/ Recovered(r)
              \/ Ended
<1> DEFINE moves ==
      /\ slot' \in Slots
      /\ \/ Rested
         \/ Besides
         \/ Advanced
         \/ Effected
         \/ \E r \in Requests : \E kind \in clients.asks[r] : Opens(r, kind)
         \/ \E r \in Requests : Repeated(r) \/ Recovered(r)
         \/ Ended
<1>0. /\ Idle \in Slots /\ slot \in Slots
      /\ \A r \in Requests, owner \in Nat : \A work \in {"perform", "completed", "failed"} :
           [work |-> work, request |-> r, owner |-> owner] \in Slots
  BY DEF PrepTypes, Slots
<1>1. FinishRefused \/ ProcessDies \/ CreateGuidedExecution => moves
  BY <1>0 DEF FinishRefused, ProcessDies, CreateGuidedExecution, LinkExecution, Rested, Same, Idle
<1>2. StartExecution => moves
  <2> SUFFICES ASSUME StartExecution
               PROVE  moves
    OBVIOUS
  <2>1. contract \in ContractRow
    BY DEF StartExecution, MayStart, Agreed, ContractRows, Created
  <2>2. [brief |-> contract.brief, plan |-> contract.plan, todo |-> contract.todo] \in Documents
    BY <2>1 DEF ContractRow, Documents
  <2>3. slot' \in Slots /\ slot'.work = "starting" /\ ~Live
    BY <2>2 DEF StartExecution, Slots, Live, Idle
  <2> QED
    BY <2>3 DEF StartExecution, Rested, Same
<1>3. Create \/ CreatePreparation \/ Contract => moves
  BY <1>0 DEF Create, CreatePreparation, Contract, Besides, Same, prepVars
<1>4. (\/ Answered \/ OperationThrows) => moves
  <2> SUFFICES ASSUME Answered \/ OperationThrows
               PROVE  moves
    OBVIOUS
  <2>1. Live /\ InSlot("perform")
    BY DEF Answered, OperationThrows, InSlot, Live
  <2>2. slot.request \in Requests /\ slot.owner \in Nat
    BY <2>1, BusyKnows
  <2>3. PICK ok \in BOOLEAN : Done(ok) /\ (ok => body[slot.request].kind \in {"reply", "search"})
    BY DEF Answered, OperationThrows
  <2>4. slot' = [work |-> IF ok THEN "completed" ELSE "failed", request |-> slot.request,
                 owner |-> slot.owner]
    BY <2>1, <2>3, DoneSlot
  <2>5. slot' \in Slots
    BY <1>0, <2>2, <2>4
  <2>6. Advanced
    BY <2>1, <2>3, <2>4 DEF Answered, OperationThrows, Advanced, Same, Still, InSlot
  <2> QED
    BY <2>5, <2>6
<1>5. FinishFails => moves
  <2> SUFFICES ASSUME FinishFails
               PROVE  moves
    OBVIOUS
  <2>1. Live /\ InSlot("completed")
    BY DEF FinishFails, InSlot, Live
  <2>2. slot.request \in Requests /\ slot.owner \in Nat
    BY <2>1, BusyKnows
  <2>3. slot' = [work |-> "failed", request |-> slot.request, owner |-> slot.owner]
    <3>1. slot \in [work : {"perform", "completed", "failed"}, request : Requests, owner : Nat]
      BY <2>1 DEF PrepTypes, Slots, InSlot, Idle
    <3> QED
      BY <3>1 DEF FinishFails
  <2>4. slot' \in Slots
    BY <1>0, <2>2, <2>3
  <2>5. Advanced
    BY <2>1, <2>3 DEF FinishFails, Advanced, Same, Still, InSlot
  <2> QED
    BY <2>4, <2>5
<1>6. FoundSources => moves
  <2> SUFFICES ASSUME FoundSources
               PROVE  moves
    OBVIOUS
  <2>1. Live /\ InSlot("perform") /\ body[slot.request].kind = "search"
    BY DEF FoundSources, Doing, InSlot, Live
  <2>2. slot.request \in Requests /\ slot.owner \in Nat /\ prep.last + 1 \in Nat \ {0}
    BY <2>1, BusyKnows DEF PrepRow
  <2>3. slot' = [work |-> "saving", request |-> slot.request, owner |-> slot.owner,
                 sequence |-> prep.last + 1]
    BY DEF FoundSources
  <2>4. slot' \in Slots
    BY <2>2, <2>3 DEF Slots
  <2>5. Advanced
    BY <2>1, <2>3 DEF FoundSources, Advanced, Same, Still, InSlot
  <2> QED
    BY <2>4, <2>5
<1>7. AskForPlan => moves
  <2> SUFFICES ASSUME AskForPlan
               PROVE  moves
    OBVIOUS
  <2>1. Live /\ InSlot("perform") /\ body[slot.request].kind = "generate-plan"
    BY DEF AskForPlan, Doing, InSlot, Live
  <2>2. slot.request \in Requests /\ slot.owner \in Nat /\ contract.brief \in Nat
    BY <2>1, BusyKnows DEF Agreed, ContractRows, ContractRow, Created
  <2>3. slot' = [work |-> "planned", request |-> slot.request, owner |-> slot.owner,
                 brief |-> contract.brief]
    BY DEF AskForPlan
  <2>4. slot' \in Slots
    BY <2>2, <2>3 DEF Slots
  <2>5. Advanced
    BY <2>1, <2>3 DEF AskForPlan, Advanced, Same, Still, InSlot
  <2> QED
    BY <2>4, <2>5
<1>8. AnswerRefused => moves
  <2> SUFFICES ASSUME AnswerRefused
               PROVE  moves
    OBVIOUS
  <2>1. Live /\ ~InSlot("completed")
    BY DEF AnswerRefused, InSlot, Live
  <2>2. slot' = [work |-> "failed", request |-> slot.request, owner |-> slot.owner]
    BY DEF AnswerRefused
  <2>3. slot' \in Slots
    BY <1>0, <2>1, <2>2, BusyKnows
  <2>4. Advanced
    BY <2>1, <2>2 DEF AnswerRefused, Advanced, Same, Still
  <2> QED
    BY <2>3, <2>4
<1>9. SaveSources => moves
  <2> SUFFICES ASSUME SaveSources
               PROVE  moves
    OBVIOUS
  <2>1. Live /\ ~InSlot("completed") /\ body[slot.request].kind = "search"
    BY DEF SaveSources, InSlot, Live, Performed
  <2>2. slot.request \in Requests /\ slot.owner \in Nat
    BY <2>1, BusyKnows
  <2>3. CASE /\ Applied
             /\ slot' = [work |-> "completed", request |-> slot.request, owner |-> slot.owner]
    <3>1. slot' \in Slots
      BY <1>0, <2>2, <2>3
    <3>2. Effected
      BY <2>1, <2>3 DEF SaveSources, Effected, Same, Still, Applied, Once, Writers
    <3> QED
      BY <3>1, <3>2
  <2>4. CASE /\ slot' = [work |-> "failed", request |-> slot.request, owner |-> slot.owner]
             /\ UNCHANGED effects
    <3>1. slot' \in Slots
      BY <1>0, <2>2, <2>4
    <3>2. Advanced
      BY <2>1, <2>4 DEF SaveSources, Advanced, Same, Still
    <3> QED
      BY <3>1, <3>2
  <2> QED
    BY <2>3, <2>4 DEF SaveSources
<1>10. Publishes \/ ConfirmGuidedBrief => moves
  <2> SUFFICES ASSUME Publishes \/ ConfirmGuidedBrief
               PROVE  moves
    OBVIOUS
  <2>1. /\ Live /\ ~InSlot("completed") /\ Same
        /\ effects' = [effects EXCEPT ![slot.request] = @ + 1]
        /\ body[slot.request].kind \in Writers
        /\ body[slot.request].kind \in Once => Transaction /\ contract.revision = Sent.revision
    <3>1. CASE Publishes
      <4>1. ~InSlot("completed")
        BY <3>1 DEF Publishes, PublishAnswer, OfContract, Doing, InSlot
      <4> QED
        BY <3>1, <4>1, PublishesWrites DEF Same, Once
    <3>2. CASE ConfirmGuidedBrief
      BY <3>2, ConfirmsWrites DEF ConfirmGuidedBrief, Doing, InSlot, Applied, Same, Once, Writers
    <3> QED
      BY <3>1, <3>2
  <2>2. slot.request \in Requests /\ slot.owner \in Nat
    BY <2>1, BusyKnows
  <2>3. slot' = [work |-> "completed", request |-> slot.request, owner |-> slot.owner]
    <3>1. CASE PublishAnswer
      BY <3>1 DEF PublishAnswer
    <3>2. CASE ~PublishAnswer
      <4>1. InSlot("perform") /\ Done(TRUE)
        BY <3>2 DEF Publishes, OfContract, ConfirmGuidedBrief, Doing
      <4> QED
        BY <2>1, <4>1, DoneSlot
    <3> QED
      BY <3>1, <3>2
  <2>4. slot' \in Slots
    BY <1>0, <2>2, <2>3
  <2>5. Effected
    BY <2>1, <2>3 DEF Effected, Still
  <2> QED
    BY <2>4, <2>5
<1>11. ASSUME NEW r \in Requests, NEW kind \in clients.asks[r], AdmitRequest(r, kind)
       PROVE  moves
  <2>1. attempts' = [attempts EXCEPT ![r] = @ + 1] /\ attempts'[r] \in Nat
    BY <1>11 DEF AdmitRequest, PrepTypes
  <2>2. slot' = [work |-> "perform", request |-> r, owner |-> attempts'[r]]
    BY <1>11 DEF AdmitRequest, Perform
  <2>3. slot' \in Slots /\ Held(r)
    BY <1>0, <2>1, <2>2 DEF Held
  <2>4. Opens(r, kind)
    BY <1>11, <2>3 DEF AdmitRequest, Opens, contractVars
  <2> QED
    BY <2>3, <2>4
<1>12. ASSUME NEW r \in Requests, AdmitAgain(r)
       PROVE  moves
  <2>1. attempts' = [attempts EXCEPT ![r] = @ + 1] /\ attempts'[r] \in Nat
    BY <1>12 DEF AdmitAgain, PrepTypes
  <2>2. slot' = [work |-> "perform", request |-> r, owner |-> attempts'[r]]
    BY <1>12 DEF AdmitAgain, Perform
  <2>3. slot' \in Slots /\ Held(r)
    BY <1>0, <2>1, <2>2 DEF Held
  <2>4. Repeated(r)
    BY <1>12, <2>3 DEF AdmitAgain, Repeated, contractVars
  <2> QED
    BY <2>3, <2>4
<1>13. ASSUME NEW r \in Requests, Recover(r)
       PROVE  moves
  BY <1>0, <1>13 DEF Recover, Recovered
<1>14. ASSUME NEW answered \in BOOLEAN, Finish(answered)
       PROVE  moves
  <2>1. Live
    BY <1>14 DEF Finish, Live
  <2>2. slot.request \in Requests /\ row[slot.request] \in Rows
    BY <2>1, BusyKnows DEF PrepTypes
  <2>3. row[slot.request].status = "pending" /\ row[slot.request].owner = slot.owner
    BY <1>14 DEF Finish, MayFinish
  <2>4. row[slot.request] = [status |-> "pending", owner |-> slot.owner]
    BY <2>2, <2>3 DEF Rows
  <2>5. row' = [row EXCEPT ![slot.request].status = slot.work]
    BY <1>14 DEF Finish
  <2>6. [row[slot.request] EXCEPT !.status = slot.work] = [status |-> slot.work, owner |-> slot.owner]
    BY <2>4
  <2>7. row' = [row EXCEPT ![slot.request] = [status |-> slot.work, owner |-> slot.owner]]
    BY <2>5, <2>6, Zenon
  <2>8. /\ slot' = Idle /\ slot'.work = "none" /\ slot.work \in {"completed", "failed"}
        /\ UNCHANGED <<body, attempts, effects, clients>>
    BY <1>14 DEF Finish, Idle
  <2>9. Ended
    BY <2>4, <2>7, <2>8 DEF Ended
  <2> QED
    BY <1>0, <2>8, <2>9
<1> HIDE DEF moves
<1>15. moves
  BY <1>1, <1>2, <1>3, <1>4, <1>5, <1>6, <1>7, <1>8, <1>9, <1>10, <1>11, <1>12, <1>13, <1>14
     DEF TaskNext, Operation, Publishes
<1> QED
  BY <1>15 DEF moves

-----------------------------------------------------------------------------
(* The preparation *)

Preparation(revision, last, confirmed, active, synced) ==
    [revision |-> revision, last |-> last, confirmed |-> confirmed, active |-> active,
     synced |-> synced]

PrepOK ==
    /\ prep \in PrepRow \cup {NoPreparation}
    /\ Prepared => prep.confirmed <= prep.last /\ prep.synced <= prep.last

LEMMA PreparationTyped ==
    ASSUME NEW revision \in Nat \ {0}, NEW last \in Nat, NEW confirmed \in Nat,
           NEW active \in Requests \cup {0}, NEW synced \in Nat,
           confirmed <= last, synced <= last,
           prep' = Preparation(revision, last, confirmed, active, synced)
    PROVE  PrepOK' /\ Prepared'
BY DEF PrepOK, Prepared, PrepRow, NoPreparation, Preparation

\* A row of the preparation is its columns.
LEMMA PreparationRow ==
    ASSUME PrepTypes, Linked, Prepared
    PROVE  /\ prep = Preparation(prep.revision, prep.last, prep.confirmed, prep.active, prep.synced)
           /\ prep.revision \in Nat \ {0} /\ prep.last \in Nat /\ prep.confirmed \in Nat
           /\ prep.active \in Requests \cup {0} /\ prep.synced \in Nat
           /\ prep.confirmed <= prep.last /\ prep.synced <= prep.last
BY DEF PrepTypes, Prepared, PrepRow, Linked, Preparation

\* How the steps write the preparation.
Opened == ~Prepared /\ Created /\ ~Executing /\ prep' = Preparation(1, 0, 0, 0, 0)
Activated(r) ==
    prep' = Preparation(prep.revision + 1, IF body'[r].kind = "reply" THEN prep.last + 1 ELSE prep.last,
                        prep.confirmed, r, prep.synced)
Closed(synced) ==
    prep' = Preparation(prep.revision + 1, prep'.last, prep.confirmed, 0, synced)
Extended ==
    prep' = Preparation(prep.revision + 1, prep'.last, prep.confirmed, prep.active, prep.synced)

LEMMA AdmitActivates ==
    ASSUME PrepTypes, Linked, NEW r \in Requests, NEW kind \in clients.asks[r], AdmitRequest(r, kind),
           body'[r].kind = kind
    PROVE  Prepared /\ prep.active = 0 /\ Activated(r) /\ (kind # "reply" => UNCHANGED messages)
<1>1. Prepared /\ prep.active = 0
  BY DEF AdmitRequest
<1>2. prep = Preparation(prep.revision, prep.last, prep.confirmed, prep.active, prep.synced)
  BY <1>1, PreparationRow
<1>3. CASE kind = "reply"
  <2>1. prep' = [prep EXCEPT !.revision = @ + 1, !.active = r, !.last = prep.last + 1]
    BY <1>3 DEF AdmitRequest, NextSequence
  <2> QED
    BY <1>1, <1>2, <1>3, <2>1 DEF Activated, Preparation
<1>4. CASE kind # "reply"
  <2>1. prep' = [prep EXCEPT !.revision = @ + 1, !.active = r] /\ UNCHANGED messages
    BY <1>4 DEF AdmitRequest
  <2> QED
    BY <1>1, <1>2, <1>4, <2>1 DEF Activated, Preparation
<1> QED
  BY <1>3, <1>4

LEMMA FinishCloses ==
    ASSUME PrepTypes, Linked, Performed, NEW answered \in BOOLEAN, Finish(answered)
    PROVE  /\ Prepared /\ prep.active = slot.request
           /\ \E synced \in {prep'.last, prep.synced, 0} :
                /\ Closed(synced)
                /\ \/ synced = prep'.last
                   \/ synced = 0
                   \/ body[slot.request].kind # "reply" /\ UNCHANGED messages
           /\ prep'.last = prep.last \/ prep'.last = prep.last + 1
<1>1. Prepared
  BY BusyKnows DEF Finish, Live
<1>2. prep = Preparation(prep.revision, prep.last, prep.confirmed, prep.active, prep.synced)
  BY <1>1, PreparationRow
<1> DEFINE kind == body[slot.request].kind
           ok   == slot.work = "completed"
           last == IF ok /\ kind = "reply" THEN NextSequence ELSE prep.last
           session == SessionAfter(kind, ok, answered, last)
<1>3. /\ prep' = [prep EXCEPT !.revision = @ + 1, !.active = 0, !.last = last, !.synced = session]
      /\ messages' = IF ok /\ kind = "reply" THEN MakeRoom \cup {NextSequence} ELSE messages
      /\ prep.active = slot.request
  BY DEF Finish, MayFinish
<1>4. \/ session = last
      \/ session = 0
      \/ session = prep.synced /\ kind # "reply"
  BY DEF SessionAfter
<1>5. last = prep.last \/ last = prep.last + 1
  BY DEF NextSequence
<1>6. kind # "reply" => UNCHANGED messages
  BY <1>3
<1> HIDE DEF kind, last, session
<1>7. prep' = Preparation(prep.revision + 1, last, prep.confirmed, 0, session)
  BY <1>2, <1>3 DEF Preparation
<1>8. prep'.last = last
  BY <1>7 DEF Preparation
<1> QED
  BY <1>1, <1>3, <1>4, <1>5, <1>6, <1>7, <1>8 DEF Closed, kind

\* A preparation stays well formed, and its session keeps knowing every message.
LEMMA PreparationStep ==
    ASSUME Agreed, PrepTypes, Linked, Performed, SequencesUnique, SessionKnows, TaskNext
    PROVE  PrepOK' /\ SessionKnows'
<1> USE BoundsAssumption
<1>0. /\ SequencesUnique'
      /\ Prepared => Prepared'
      /\ Prepared /\ prep'.last # prep.last => prep'.last \in Nat /\ prep'.last >= prep.last
  BY NumbersStep, ConversationMoves
<1>1. Prepared =>
        /\ prep = Preparation(prep.revision, prep.last, prep.confirmed, prep.active, prep.synced)
        /\ prep.revision + 1 \in Nat \ {0} /\ prep.last \in Nat /\ prep.confirmed \in Nat
        /\ prep.active \in Requests \cup {0} /\ prep.synced \in Nat
        /\ prep.confirmed <= prep.last /\ prep.synced <= prep.last
        /\ 0 \in Nat /\ 0 \in Requests \cup {0} /\ 0 <= prep.last
        /\ prep'.last \in Nat /\ prep'.last >= prep.last
        /\ prep.confirmed <= prep'.last /\ prep.synced <= prep'.last /\ 0 <= prep'.last
  <2>1. Prepared => prep'.last \in Nat /\ prep'.last >= prep.last /\ prep.last \in Nat
    BY <1>0, PreparationRow
  <2> QED
    BY <2>1, PreparationRow
<1> DEFINE goal == PrepOK' /\ SessionKnows'
<1>2. ASSUME NEW r \in Requests, NEW kind \in clients.asks[r], AdmitRequest(r, kind)
      PROVE  goal
  <2>0. clients.asks[r] \subseteq AllKinds /\ Created /\ contract \in ContractRow
    BY <1>2, ClientsAssumption DEF PrepTypes, AdmitRequest, Linked, Agreed, ContractRows, Created
  <2>1. body' = [body EXCEPT ![r] = Body(kind)] /\ body'[r].kind = kind
    BY <1>1, <1>2, <2>0, BodyTyped DEF AdmitRequest, PrepTypes, Prepared
  <2>2. Prepared /\ prep.active = 0 /\ Activated(r) /\ (kind # "reply" => UNCHANGED messages)
    BY <1>2, <2>1, AdmitActivates
  <2>3. /\ prep'.last = (IF kind = "reply" THEN prep.last + 1 ELSE prep.last)
        /\ prep'.active = r /\ prep'.synced = prep.synced
        /\ prep' = Preparation(prep.revision + 1, prep'.last, prep.confirmed, r, prep.synced)
    BY <2>1, <2>2 DEF Activated, Preparation
  <2>4. PrepOK'
    BY <1>1, <2>2, <2>3, PreparationTyped
  <2>5. SessionKnows'
    BY <2>1, <2>2, <2>3 DEF SessionKnows
  <2> QED
    BY <2>4, <2>5
<1>3. ASSUME NEW answered \in BOOLEAN, Finish(answered)
      PROVE  goal
  <2>1. Prepared /\ prep.active = slot.request
    BY <1>3, FinishCloses
  <2>2. PICK synced \in {prep'.last, prep.synced, 0} :
          /\ Closed(synced)
          /\ \/ synced = prep'.last
             \/ synced = 0
             \/ body[slot.request].kind # "reply" /\ UNCHANGED messages
    BY <1>3, FinishCloses
  <2>3. prep' = Preparation(prep.revision + 1, prep'.last, prep.confirmed, 0, synced)
        /\ prep'.synced = synced
    BY <2>2 DEF Closed, Preparation
  <2>4. PrepOK' /\ Prepared'
    BY <1>1, <2>1, <2>2, <2>3, PreparationTyped
  <2>5. \A s \in messages' : s <= prep'.last
    <3>1. messages' \subseteq 1..prep'.last /\ prep'.last \in Nat
      BY <1>0, <1>1, <2>1, <2>4 DEF SequencesUnique
    <3> QED
      BY <3>1
  <2>6. synced = prep'.last => SessionKnows'
    BY <2>3, <2>5 DEF SessionKnows
  <2>7. synced = 0 => SessionKnows'
    BY <2>3 DEF SessionKnows
  <2>8. synced = prep.synced /\ body[slot.request].kind # "reply" /\ UNCHANGED messages => SessionKnows'
    BY <2>1, <2>3 DEF SessionKnows
  <2> QED
    BY <2>2, <2>4, <2>6, <2>7, <2>8
<1>4. ASSUME NEW r \in Requests, Recover(r)
      PROVE  goal
  <2>1. Prepared /\ prep' = [prep EXCEPT !.revision = @ + 1, !.active = 0, !.synced = 0]
    BY <1>4 DEF Recover
  <2>2. prep' = Preparation(prep.revision + 1, prep.last, prep.confirmed, 0, 0)
    BY <1>1, <2>1 DEF Preparation
  <2>3. prep'.synced = 0
    BY <2>2 DEF Preparation
  <2> QED
    BY <1>1, <2>1, <2>2, <2>3, PreparationTyped DEF SessionKnows
<1>5. ConfirmGuidedBrief => goal
  <2> SUFFICES ASSUME ConfirmGuidedBrief
               PROVE  goal
    OBVIOUS
  <2>1. Live /\ body[slot.request].kind = "confirm-brief"
    BY DEF ConfirmGuidedBrief, Doing, InSlot, Live
  <2>2. Prepared /\ Sent \in [kind : {"confirm-brief"}, preparation : Nat, through : Nat]
    BY <2>1, BusyKnows DEF Sent, Bodies, NoBody, Once, Writers
  <2>3. Sent.through \in Nat /\ Sent.through <= prep.last
    BY <2>2 DEF ConfirmGuidedBrief
  <2> DEFINE revision == IF prep.active = slot.request THEN prep.revision ELSE prep.revision + 1
  <2>4. prep' = [prep EXCEPT !.confirmed = Sent.through, !.revision = revision]
    BY DEF ConfirmGuidedBrief
  <2>5. revision \in Nat \ {0}
    BY <2>2, PreparationRow
  <2> HIDE DEF revision
  <2>6. prep' = Preparation(revision, prep.last, Sent.through, prep.active, prep.synced)
    BY <1>1, <2>2, <2>4 DEF Preparation
  <2>7. PrepOK'
    BY <1>1, <2>2, <2>3, <2>5, <2>6, PreparationTyped
  <2>8. prep'.synced = prep.synced /\ prep'.active = prep.active /\ UNCHANGED <<messages, body>>
    BY <2>6 DEF ConfirmGuidedBrief, Preparation
  <2> QED
    BY <2>2, <2>7, <2>8 DEF SessionKnows
<1>6. SaveSources => goal
  <2> SUFFICES ASSUME SaveSources
               PROVE  goal
    OBVIOUS
  <2>1. Prepared /\ UNCHANGED <<messages, body>>
    BY BusyKnows DEF SaveSources, InSlot, Live
  <2>2. CASE UNCHANGED prep
    BY <1>1, <2>1, <2>2 DEF SessionKnows, PrepOK, Prepared, PrepTypes
  <2>3. CASE ~UNCHANGED prep
    <3> DEFINE last == LastOf({prep.last, slot.sequence})
    <3>1. prep' = [prep EXCEPT !.revision = @ + 1, !.last = last]
      BY <2>3 DEF SaveSources
    <3> HIDE DEF last
    <3>2. prep' = Preparation(prep.revision + 1, last, prep.confirmed, prep.active, prep.synced)
      BY <1>1, <2>1, <3>1 DEF Preparation
    <3>3. prep'.last = last /\ prep'.synced = prep.synced /\ prep'.active = prep.active
      BY <3>2 DEF Preparation
    <3>4. PrepOK'
      BY <1>1, <2>1, <3>2, <3>3, PreparationTyped
    <3> QED
      BY <2>1, <3>3, <3>4 DEF SessionKnows
  <2> QED
    BY <2>2, <2>3
<1>7. CreatePreparation => goal
  <2> SUFFICES ASSUME CreatePreparation
               PROVE  goal
    OBVIOUS
  <2>1. prep' = Preparation(1, 0, 0, 0, 0) /\ prep'.synced = 0
    BY DEF CreatePreparation, Preparation
  <2> QED
    BY <2>1, PreparationTyped DEF SessionKnows
<1>8. UNCHANGED <<prep, messages, body>> => goal
  <2>1. UNCHANGED prep => PrepOK'
    BY <1>1 DEF PrepTypes, PrepOK, Prepared
  <2>2. UNCHANGED <<prep, messages, body>> => SessionKnows'
    BY DEF SessionKnows, Prepared
  <2> QED
    BY <2>1, <2>2
<1>9. \/ \E r \in Requests : \E kind \in clients.asks[r] : AdmitRequest(r, kind)
      \/ \E answered \in BOOLEAN : Finish(answered)
      \/ SaveSources
      \/ ConfirmGuidedBrief
      \/ \E r \in Requests : Recover(r)
      \/ CreatePreparation
      \/ UNCHANGED <<prep, messages, body>>
  BY DEF TaskNext, Operation, Create, AdmitAgain, Answered, OperationThrows, FoundSources, AskForPlan,
         PublishAnswer, AnswerRefused, OfContract, FinishFails, FinishRefused, ProcessDies, Contract,
         StartExecution, CreateGuidedExecution, prepVars
<1> HIDE DEF goal
<1>10. goal
  BY <1>2, <1>3, <1>4, <1>5, <1>6, <1>7, <1>8, <1>9
<1> QED
  BY <1>10 DEF goal

-----------------------------------------------------------------------------
(* Each part of the invariant is kept *)

LEMMA ContractGrows ==
    ASSUME Agreed, PrepTypes, Linked, Performed, TaskNext, Created
    PROVE  /\ Created' /\ contract.revision \in Nat
           /\ contract'.revision \in Nat /\ contract'.revision >= contract.revision
<1>1. contract \in ContractRow /\ contract.revision \in Nat
  BY DEF Agreed, ContractRows, Created, ContractRow
<1>2. CASE Transaction
  <2>1. contract' # NoContract /\ contract'.revision = contract.revision + 1
    BY <1>2, TransactionAdds DEF Agreed
  <2> QED
    BY <1>1, <2>1 DEF Created
<1>3. CASE UNCHANGED contract
  BY <1>1, <1>3 DEF Created
<1> QED
  BY <1>2, <1>3, ContractMoves DEF CreateTaskContract

\* A body, a row and a token are written when the request is admitted.
LEMMA BegunWrites ==
    ASSUME Agreed, PrepTypes, Linked, NEW r \in Requests, NEW kind \in clients.asks[r], Opens(r, kind)
    PROVE  /\ Created /\ contract.revision \in Nat
           /\ kind \in AllKinds /\ Body(kind) \in Bodies /\ Body(kind).kind = kind
           /\ kind \in Once => Body(kind).revision = contract.revision
           /\ attempts' = [attempts EXCEPT ![r] = 1] /\ attempts'[r] = 1 /\ effects[r] = 0
           /\ row' = [row EXCEPT ![r] = [status |-> "pending", owner |-> 1]]
<1>1. Prepared /\ Created /\ prep \in PrepRow /\ contract \in ContractRow
  BY DEF Opens, Linked, PrepTypes, Prepared, Agreed, ContractRows, Created
<1>2. kind \in AllKinds /\ contract.revision \in Nat
  BY <1>1, ClientsAssumption DEF PrepTypes, ContractRow
<1>3. attempts[r] = 0 /\ effects[r] = 0
  BY DEF Opens, Linked
<1>4. attempts' = [attempts EXCEPT ![r] = 1] /\ attempts'[r] = 1
  BY <1>3 DEF Opens, PrepTypes
<1>5. row' = [row EXCEPT ![r] = [status |-> "pending", owner |-> 1]]
  BY <1>4 DEF Opens
<1> QED
  BY <1>1, <1>2, <1>3, <1>4, <1>5, BodyTyped

LEMMA PrepTypesStep ==
    ASSUME Agreed, Recorded, TaskNext
    PROVE  PrepTypes'
<1> USE DEF Recorded
<1>1. prep' \in PrepRow \cup {NoPreparation} /\ slot' \in Slots
      /\ messages' \subseteq 1..MaxSequence /\ sources' \subseteq 1..MaxSequence
  BY PreparationStep, NumbersStep, RequestsMove DEF PrepOK
<1> DEFINE goal ==
      /\ clients' \in Clients
      /\ body' \in [Requests -> Bodies] /\ row' \in [Requests -> Rows]
      /\ attempts' \in [Requests -> Nat] /\ effects' \in [Requests -> Nat]
<1>2. Rested \/ Besides \/ Advanced => goal
  BY DEF Rested, Besides, Advanced, Same, PrepTypes
<1>3. Effected => goal
  <2>1. Live => slot.request \in Requests
    BY BusyKnows
  <2> QED
    BY <2>1 DEF Effected, Same, PrepTypes
<1>4. ASSUME NEW r \in Requests, NEW kind \in clients.asks[r], Opens(r, kind)
      PROVE  goal
  <2>1. [status |-> "pending", owner |-> 1] \in Rows
    BY DEF Rows
  <2>2. /\ body' = [body EXCEPT ![r] = Body(kind)] /\ Body(kind) \in Bodies
        /\ row' = [row EXCEPT ![r] = [status |-> "pending", owner |-> 1]]
        /\ attempts' = [attempts EXCEPT ![r] = 1]
        /\ UNCHANGED <<effects, clients>>
    BY <1>4, BegunWrites DEF Opens
  <2> QED
    BY <2>1, <2>2 DEF PrepTypes
<1>5. ASSUME NEW r \in Requests, Repeated(r)
      PROVE  goal
  BY <1>5 DEF Repeated, PrepTypes
<1>6. ASSUME NEW r \in Requests, Recovered(r)
      PROVE  goal
  <2>1. [status |-> "interrupted", owner |-> 0] \in Rows
    BY DEF Rows
  <2> QED
    BY <1>6, <2>1 DEF Recovered, PrepTypes
<1>7. Ended => goal
  <2> SUFFICES ASSUME Ended
               PROVE  goal
    OBVIOUS
  <2>1. slot.request \in Requests /\ slot.owner \in Nat
    BY BusyKnows DEF Ended, Live
  <2>2. [status |-> slot.work, owner |-> slot.owner] \in Rows
    BY <2>1 DEF Ended, Rows
  <2> QED
    BY <2>1, <2>2 DEF Ended, PrepTypes
<1> HIDE DEF goal
<1>8. goal
  BY <1>2, <1>3, <1>4, <1>5, <1>6, <1>7, RequestsMove
<1> QED
  BY <1>1, <1>8 DEF goal, PrepTypes

LEMMA LinkedStep ==
    ASSUME Agreed, Recorded, TaskNext
    PROVE  Linked'
<1> USE DEF Recorded
<1>1. Prepared' => Created'
  <2>1. CASE Prepared
    BY <2>1, ContractGrows DEF Linked
  <2>2. CASE UNCHANGED prep
    BY <2>1, <2>2 DEF Prepared
  <2>3. CASE CreatePreparation
    BY <2>3, ContractGrows DEF CreatePreparation
  <2>4. ~Prepared => UNCHANGED prep \/ CreatePreparation
    BY BusyKnows DEF TaskNext, Operation, Create, AdmitRequest, AdmitAgain, Recover, Answered,
       OperationThrows, FoundSources, SaveSources, AskForPlan, PublishAnswer, AnswerRefused,
       ConfirmGuidedBrief, OfContract, Finish, FinishFails, FinishRefused, ProcessDies, Contract,
       StartExecution, CreateGuidedExecution, prepVars, InSlot, Doing, Live
  <2> QED
    BY <2>1, <2>2, <2>3, <2>4
<1>2. Prepared' => prep'.confirmed <= prep'.last /\ prep'.synced <= prep'.last
  BY PreparationStep DEF PrepOK
<1> DEFINE after == \A r \in Requests :
      /\ row'[r] = NoRow => body'[r] = NoBody /\ attempts'[r] = 0 /\ effects'[r] = 0
      /\ row'[r] # NoRow => body'[r].kind \in clients'.asks[r]
      /\ row'[r].owner <= attempts'[r]
    goal == after /\ (~Prepared => UNCHANGED row)
<1>3. \A r \in Requests :
        /\ row[r] = NoRow => body[r] = NoBody /\ attempts[r] = 0 /\ effects[r] = 0
        /\ row[r] # NoRow => body[r].kind \in clients.asks[r]
        /\ row[r].owner <= attempts[r]
  BY DEF Linked
<1>4. Rested \/ Besides \/ Advanced => goal
  BY <1>3 DEF Rested, Besides, Advanced, Same
<1>5. Effected => goal
  <2>1. Live => slot.request \in Requests /\ row[slot.request] # NoRow
    BY BusyKnows
  <2> QED
    BY <1>3, <2>1 DEF Effected, Same, PrepTypes
<1>6. ASSUME NEW r \in Requests, NEW kind \in clients.asks[r], Opens(r, kind)
      PROVE  goal
  <2>1. /\ body' = [body EXCEPT ![r] = Body(kind)] /\ Body(kind).kind = kind
        /\ row' = [row EXCEPT ![r] = [status |-> "pending", owner |-> 1]]
        /\ attempts' = [attempts EXCEPT ![r] = 1]
        /\ UNCHANGED <<effects, clients>> /\ Prepared
    BY <1>6, BegunWrites DEF Opens
  <2>2. /\ row'[r].owner = 1 /\ row'[r] # NoRow
        /\ body'[r].kind \in clients'.asks[r] /\ attempts'[r] = 1
    BY <2>1 DEF PrepTypes, NoRow
  <2>3. \A q \in Requests \ {r} : row'[q] = row[q] /\ body'[q] = body[q] /\ attempts'[q] = attempts[q]
    BY <2>1 DEF PrepTypes
  <2> QED
    BY <1>3, <2>1, <2>2, <2>3
<1>7. ASSUME NEW r \in Requests, Repeated(r)
      PROVE  goal
  <2>1. row[r] # NoRow /\ attempts[r] \in Nat /\ row[r].owner \in Nat
    BY <1>7 DEF Repeated, NoRow, PrepTypes, Rows
  <2> QED
    BY <1>3, <1>7, <2>1 DEF Repeated, PrepTypes
<1>8. ASSUME NEW r \in Requests, Recovered(r)
      PROVE  goal
  <2>1. row[r] # NoRow /\ attempts[r] \in Nat
    BY <1>8 DEF Recovered, NoRow, PrepTypes
  <2> QED
    BY <1>3, <1>8, <2>1 DEF Recovered, PrepTypes, NoRow
<1>9. Ended => goal
  <2> SUFFICES ASSUME Ended
               PROVE  goal
    OBVIOUS
  <2>1. slot.request \in Requests /\ row[slot.request] # NoRow /\ Prepared
    BY BusyKnows DEF Ended, Live
  <2> QED
    BY <1>3, <2>1 DEF Ended, PrepTypes, NoRow
<1> HIDE DEF goal
<1>10. goal
  BY <1>4, <1>5, <1>6, <1>7, <1>8, <1>9, RequestsMove
<1>11. ~Prepared' => messages' = {} /\ sources' = {} /\ \A r \in Requests : row'[r] = NoRow
  <2> SUFFICES ASSUME ~Prepared'
               PROVE  messages' = {} /\ sources' = {} /\ \A r \in Requests : row'[r] = NoRow
    OBVIOUS
  <2>1. ~Prepared /\ Quiet
    BY ConversationMoves
  <2> QED
    BY <1>10, <2>1 DEF Quiet, goal, Linked
<1> QED
  BY <1>1, <1>2, <1>10, <1>11 DEF Linked, goal

LEMMA PerformedStep ==
    ASSUME Agreed, Recorded, TaskNext
    PROVE  Performed'
<1> USE DEF Recorded
<1>0. Live => slot.request \in Requests
  BY BusyKnows
<1>1. Rested \/ Ended => Performed'
  BY DEF Rested, Ended, Performed, Live
<1>2. Besides => Performed'
  BY DEF Besides, Same, Performed, Live, InSlot
<1>3. Advanced \/ Effected => Performed'
  BY DEF Advanced, Effected, Same, Still, Performed, Live, InSlot
<1>4. ASSUME NEW r \in Requests, NEW kind \in clients.asks[r], Opens(r, kind)
      PROVE  Performed'
  <2>1. /\ slot'.work = "perform" /\ slot'.request = r /\ slot'.owner = attempts'[r] /\ attempts'[r] = 1
        /\ row' = [row EXCEPT ![r] = [status |-> "pending", owner |-> 1]]
    BY <1>4, BegunWrites DEF Opens, Held
  <2>2. row'[r].status = "pending"
    BY <2>1 DEF PrepTypes
  <2> QED
    BY <2>1, <2>2 DEF Performed, Live, InSlot
<1>5. ASSUME NEW r \in Requests, Repeated(r)
      PROVE  Performed'
  <2>1. slot'.work = "perform" /\ slot'.request = r /\ slot'.owner = attempts'[r]
        /\ row'[r].status = "pending"
    BY <1>5 DEF Repeated, Held
  <2>2. attempts'[r] = attempts[r] + 1 /\ attempts[r] \in Nat
    BY <1>5 DEF Repeated, PrepTypes
  <2>3. attempts'[r] > 0
    BY <2>2
  <2> QED
    BY <2>1, <2>3 DEF Performed, Live, InSlot
<1>6. ASSUME NEW r \in Requests, Recovered(r)
      PROVE  Performed'
  <2>1. /\ row' = [row EXCEPT ![r] = [status |-> "interrupted", owner |-> 0]]
        /\ UNCHANGED <<body, slot, attempts>>
    BY <1>6 DEF Recovered
  <2>2. row'[r].status = "interrupted" /\ \A q \in Requests \ {r} : row'[q] = row[q]
    BY <2>1 DEF PrepTypes
  <2> QED
    BY <1>0, <2>1, <2>2 DEF Performed, Live, InSlot
<1> QED
  BY <1>1, <1>2, <1>3, <1>4, <1>5, <1>6, RequestsMove

\* The parts of Effective, for one request and for the one in the slot.
LEMMA EffectiveStep ==
    ASSUME Agreed, Recorded, TaskNext
    PROVE  Effective'
<1> USE DEF Recorded
<1>0. /\ Live => slot.request \in Requests /\ Created
      /\ effects \in [Requests -> Nat]
      /\ Once \subseteq Writers /\ "search" \notin Writers /\ "reply" \notin Writers \cup {"search"}
  BY BusyKnows DEF PrepTypes, Once, Writers
<1> DEFINE before == \A r \in Requests :
             /\ row[r].status = "completed" /\ body[r].kind \in Writers => effects[r] > 0
             /\ row[r].status = "failed" => effects[r] = 0
             /\ body[r].kind \in Once => effects[r] <= 1
             /\ body[r].kind = "reply" => effects[r] = 0
             /\ body[r].kind \in Once /\ effects[r] > 0 => contract.revision > body[r].revision
    after == \A r \in Requests :
             /\ row'[r].status = "completed" /\ body'[r].kind \in Writers => effects'[r] > 0
             /\ row'[r].status = "failed" => effects'[r] = 0
             /\ body'[r].kind \in Once => effects'[r] <= 1
             /\ body'[r].kind = "reply" => effects'[r] = 0
             /\ body'[r].kind \in Once /\ effects'[r] > 0 => contract'.revision > body'[r].revision
    doing == Live /\ row[slot.request] = [status |-> "pending", owner |-> slot.owner] =>
             /\ ~InSlot("completed") => effects[slot.request] = 0
             /\ InSlot("completed") /\ body[slot.request].kind \in Writers => effects[slot.request] > 0
    done == Live' /\ row'[slot'.request] = [status |-> "pending", owner |-> slot'.owner] =>
             /\ slot'.work # "completed" => effects'[slot'.request] = 0
             /\ slot'.work = "completed" /\ body'[slot'.request].kind \in Writers
                => effects'[slot'.request] > 0
<1>1. before /\ doing
  BY DEF Effective, OutcomeIsTrue, Once
<1>2. ASSUME after, done
      PROVE  Effective'
  BY <1>2 DEF Effective, OutcomeIsTrue, Once, InSlot
<1> DEFINE goal == after /\ done
\* An effect that is counted belongs to a task there is, whose revision grows.
<1>3. ASSUME NEW r \in Requests, effects[r] > 0, body[r].kind \in Once
      PROVE  contract'.revision > body[r].revision
  <2>1. effects[r] # 0
    BY <1>0, <1>3
  <2>2. Prepared /\ Created
    BY <2>1 DEF Linked
  <2>3. body[r].revision \in Nat
    <3>1. body[r] \in Bodies
      BY DEF PrepTypes
    <3> QED
      BY <1>3, <3>1 DEF Bodies, NoBody, Once, Writers
  <2>4. contract.revision > body[r].revision
    BY <1>1, <1>3
  <2> QED
    BY <2>2, <2>3, <2>4, ContractGrows
<1>4. Rested => goal
  BY <1>1, <1>3 DEF Rested, Same, Live
<1>5. Besides => goal
  BY <1>1, <1>3 DEF Besides, Same, Live, InSlot
<1>6. Advanced => goal
  <2> SUFFICES ASSUME Advanced
               PROVE  goal
    OBVIOUS
  <2>1. after
    BY <1>1, <1>3 DEF Advanced, Same
  <2>2. /\ Live /\ slot'.request = slot.request /\ slot'.owner = slot.owner
        /\ UNCHANGED <<row, body, effects>>
        /\ InSlot("completed") => body[slot.request].kind = "reply"
        /\ slot'.work = "completed" => body[slot.request].kind \notin Writers
    BY <1>0 DEF Advanced, Still, Same, Writers
  <2>3. done
    BY <1>0, <1>1, <2>2
  <2> QED
    BY <2>1, <2>3
<1>7. Effected => goal
  <2> SUFFICES ASSUME Effected
               PROVE  goal
    OBVIOUS
  <2> DEFINE r == slot.request
  <2>1. /\ Live /\ r \in Requests /\ Created
        /\ effects' = [effects EXCEPT ![r] = @ + 1] /\ UNCHANGED <<row, body>>
        /\ row[r].status \in {"pending", "interrupted"} /\ body[r].kind # "reply"
        /\ slot'.request = r /\ slot'.work = "completed"
        /\ body[r].kind \in Once => Transaction /\ contract.revision = body[r].revision
    BY <1>0, BusyKnows DEF Effected, Same, Still, Performed, Sent
  <2>2. effects'[r] = effects[r] + 1 /\ effects'[r] > 0
        /\ \A q \in Requests \ {r} : effects'[q] = effects[q]
    BY <1>0, <2>1
  <2>3. ASSUME body[r].kind \in Once
        PROVE  effects'[r] <= 1 /\ contract'.revision > body[r].revision
    <3>1. contract.revision \in Nat /\ contract.revision = body[r].revision
      BY <2>1, <2>3, ContractGrows
    <3>2. effects[r] = 0
      BY <1>0, <1>1, <2>1, <2>3, <3>1
    <3>3. contract'.revision = contract.revision + 1
      BY <2>1, <2>3, TransactionAdds DEF Agreed
    <3> QED
      BY <2>2, <3>1, <3>2, <3>3
  <2> HIDE DEF r
  <2>4. done
    BY <2>1, <2>2
  <2>5. ASSUME NEW q \in Requests
        PROVE  /\ row'[q].status = "completed" /\ body'[q].kind \in Writers => effects'[q] > 0
               /\ row'[q].status = "failed" => effects'[q] = 0
               /\ body'[q].kind \in Once => effects'[q] <= 1
               /\ body'[q].kind = "reply" => effects'[q] = 0
               /\ body'[q].kind \in Once /\ effects'[q] > 0 => contract'.revision > body'[q].revision
    <3>1. CASE q = r
      BY <2>1, <2>2, <2>3, <3>1
    <3>2. CASE q # r
      BY <1>1, <1>3, <2>1, <2>2, <3>2
    <3> QED
      BY <3>1, <3>2
  <2> QED
    BY <2>4, <2>5
<1>8. ASSUME NEW r \in Requests, NEW kind \in clients.asks[r], Opens(r, kind)
      PROVE  goal
  <2>1. /\ body' = [body EXCEPT ![r] = Body(kind)]
        /\ row' = [row EXCEPT ![r] = [status |-> "pending", owner |-> 1]]
        /\ UNCHANGED <<contract, effects>> /\ effects[r] = 0
        /\ slot'.work = "perform" /\ slot'.request = r
    BY <1>8, BegunWrites DEF Opens, Held
  <2>2. row'[r].status = "pending" /\ effects'[r] = 0
    BY <2>1 DEF PrepTypes
  <2>3. \A q \in Requests \ {r} : row'[q] = row[q] /\ body'[q] = body[q]
    BY <2>1 DEF PrepTypes
  <2>4. done
    BY <2>1, <2>2
  <2>5. after
    BY <1>1, <2>1, <2>2, <2>3
  <2> QED
    BY <2>4, <2>5
<1>9. ASSUME NEW r \in Requests, Repeated(r)
      PROVE  goal
  <2>1. /\ UNCHANGED <<contract, body, row, effects>> /\ slot'.request = r
        /\ slot'.owner = attempts'[r] /\ attempts'[r] = attempts[r] + 1
        /\ attempts[r] \in Nat /\ row[r].owner \in Nat /\ row[r].owner <= attempts[r]
    BY <1>9 DEF Repeated, Held, PrepTypes, Rows, Linked
  <2>2. row'[slot'.request].owner # slot'.owner
    BY <2>1
  <2>3. done
    BY <2>2
  <2> QED
    BY <1>1, <2>1, <2>3
<1>10. ASSUME NEW r \in Requests, Recovered(r)
       PROVE  goal
  <2>1. /\ row' = [row EXCEPT ![r] = [status |-> "interrupted", owner |-> 0]]
        /\ UNCHANGED <<body, slot, effects>>
    BY <1>10 DEF Recovered
  <2>2. row'[r].status = "interrupted" /\ \A q \in Requests \ {r} : row'[q] = row[q]
    BY <2>1 DEF PrepTypes
  <2>3. after
    BY <1>1, <1>3, <2>1, <2>2
  <2>4. done
    BY <1>0, <1>1, <2>1, <2>2 DEF Live, InSlot
  <2> QED
    BY <2>3, <2>4
<1>11. Ended => goal
  <2> SUFFICES ASSUME Ended
               PROVE  goal
    OBVIOUS
  <2> DEFINE r == slot.request
  <2>1. /\ Live /\ r \in Requests /\ slot.work \in {"completed", "failed"}
        /\ row[r] = [status |-> "pending", owner |-> slot.owner]
        /\ row' = [row EXCEPT ![r] = [status |-> slot.work, owner |-> slot.owner]]
        /\ slot'.work = "none" /\ UNCHANGED <<body, effects>>
    BY <1>0 DEF Ended, Live
  <2>2. row'[r].status = slot.work /\ \A q \in Requests \ {r} : row'[q] = row[q]
    BY <2>1 DEF PrepTypes
  <2>3. /\ slot.work = "failed" => effects[r] = 0
        /\ slot.work = "completed" /\ body[r].kind \in Writers => effects[r] > 0
    BY <1>1, <2>1 DEF InSlot
  <2> HIDE DEF r
  <2>4. after
    BY <1>1, <1>3, <2>1, <2>2, <2>3
  <2>5. done
    BY <2>1 DEF Live
  <2> QED
    BY <2>4, <2>5
<1> HIDE DEF goal
<1>12. goal
  BY <1>4, <1>5, <1>6, <1>7, <1>8, <1>9, <1>10, <1>11, RequestsMove
<1> QED
  BY <1>2, <1>12 DEF goal

\* What was agreed on stays agreed on while the contract and the preparation stay.
LEMMA AgreedStays ==
    ASSUME NEW documents, AgreedOn(documents), UNCHANGED <<contract, plans, todos, actions>>,
           UNCHANGED prep \/ CreatePreparation
    PROVE  /\ Created' /\ Readiness' = "ready"
           /\ documents = [brief |-> contract'.brief, plan |-> contract'.plan, todo |-> contract'.todo]
           /\ Prepared' => prep'.active = 0 /\ prep'.confirmed >= prep'.last
<1>1. Created' /\ Readiness' = Readiness
  BY DEF AgreedOn, Created, Readiness
<1>2. Prepared' => prep'.active = 0 /\ prep'.confirmed >= prep'.last
  <2>1. CASE UNCHANGED prep
    BY <2>1 DEF AgreedOn, Prepared
  <2>2. CASE CreatePreparation
    BY <2>2 DEF CreatePreparation
  <2> QED
    BY <2>1, <2>2
<1> QED
  BY <1>1, <1>2 DEF AgreedOn

\* Others than the host itself change what an execution rests on only by writing the
\* contract, and then only before the execution is there.
LEMMA StartedFromStep ==
    ASSUME Agreed, Recorded, TaskNext
    PROVE  StartedFrom'
<1> USE DEF Recorded
<1>0. 0 \notin Requests
  BY BoundsAssumption
<1>1. CASE StartExecution
  <2>1. /\ slot'.work = "starting"
        /\ slot'.documents = [brief |-> contract.brief, plan |-> contract.plan, todo |-> contract.todo]
        /\ ~Executing /\ MayStart /\ UNCHANGED <<contract, plans, todos, actions, execution, prep>>
    BY <1>1 DEF StartExecution, contractVars
  <2>2. AgreedOn(slot'.documents)
    BY <2>1 DEF MayStart, AgreedOn
  <2>3. ~Executing'
    BY <2>1 DEF Executing
  <2> QED
    BY <2>1, <2>2, <2>3, AgreedStays DEF StartedFrom, InSlot, AgreedOn
<1>2. CASE CreateGuidedExecution
  <2>1. /\ slot.work = "starting" /\ execution' = slot.documents /\ slot' = Idle
        /\ UNCHANGED <<contract, plans, todos, actions, prep, raced>>
    BY <1>2 DEF CreateGuidedExecution, LinkExecution, InSlot
  <2>2. ~raced' => AgreedOn(execution')
    BY <2>1 DEF StartedFrom, InSlot
  <2> QED
    BY <2>1, <2>2, AgreedStays DEF StartedFrom, InSlot, Idle, AgreedOn
<1>3. CASE Contract
  <2>1. /\ ~Executing /\ ~Executing' /\ UNCHANGED slot
        /\ raced' = (raced \/ InSlot("starting"))
    BY <1>3, OthersWrite DEF Contract, Transaction, Executing
  <2>2. ~raced' => ~InSlot("starting")
    BY <2>1
  <2> QED
    BY <2>1, <2>2 DEF StartedFrom, InSlot
\* In a step of a request or a conversation nothing is being executed or started.
<1>4. ASSUME /\ ~Executing /\ UNCHANGED execution
             /\ slot'.work # "starting"
      PROVE  StartedFrom'
  BY <1>4 DEF StartedFrom, Executing, InSlot
<1>5. CASE Create \/ CreatePreparation \/ \E r \in Requests : Recover(r)
  <2>1. UNCHANGED <<slot, execution, raced>> /\ (Executing' <=> Executing)
    BY <1>5 DEF Create, CreateTaskContract, CreatePreparation, Recover, prepVars, contractVars, Executing
  <2>2. ASSUME NEW documents, AgreedOn(documents)
        PROVE  UNCHANGED <<contract, plans, todos, actions>> /\ (UNCHANGED prep \/ CreatePreparation)
    <3>1. ~Create
      BY <2>2 DEF AgreedOn, Create, CreateTaskContract
    <3>2. ASSUME NEW r \in Requests, Recover(r)
          PROVE  FALSE
      BY <1>0, <2>2, <3>2 DEF AgreedOn, Recover
    <3>3. CreatePreparation
      BY <1>5, <3>1, <3>2
    <3> QED
      BY <3>3 DEF CreatePreparation, contractVars
  <2>3. ASSUME InSlot("starting"), ~raced
        PROVE  AgreedOn(slot.documents)'
    <3>1. AgreedOn(slot.documents)
      BY <2>3 DEF StartedFrom
    <3> QED
      BY <2>1, <2>2, <3>1, AgreedStays DEF AgreedOn
  <2>4. ASSUME Executing, ~raced
        PROVE  AgreedOn(execution)'
    <3>1. AgreedOn(execution)
      BY <2>4 DEF StartedFrom
    <3> QED
      BY <2>1, <2>2, <3>1, AgreedStays DEF AgreedOn
  <2> QED
    BY <2>1, <2>3, <2>4 DEF StartedFrom, InSlot
<1>6. CASE ProcessDies
  <2>1. /\ slot' = Idle /\ slot # Idle
        /\ UNCHANGED <<contract, plans, todos, actions, execution, prep, raced>>
    BY <1>6 DEF ProcessDies, contractVars
  <2>2. ~Executing
    BY <2>1 DEF StartedFrom
  <2> QED
    BY <1>4, <2>1, <2>2 DEF Idle
<1>7. ASSUME NEW r \in Requests, AdmitAgain(r) \/ \E kind \in clients.asks[r] : AdmitRequest(r, kind)
      PROVE  StartedFrom'
  <2>1. ~Executing /\ UNCHANGED execution /\ slot'.work = "perform"
    BY <1>7 DEF AdmitAgain, AdmitRequest, Perform, contractVars
  <2> QED
    BY <1>4, <2>1
<1>8. CASE Operation \/ FinishFails \/ FinishRefused \/ \E answered \in BOOLEAN : Finish(answered)
  <2>1. Live
    <3>1. Publishes \/ ConfirmGuidedBrief => Live
      BY PublishesWrites, ConfirmsWrites
    <3> QED
      BY <1>8, <3>1 DEF Operation, Publishes, Answered, OperationThrows, FoundSources, SaveSources,
         AskForPlan, AnswerRefused, FinishFails, FinishRefused, Finish, Doing, InSlot, Live
  <2>2. ~Executing
    BY <2>1 DEF StartedFrom, Live, Idle
  <2>3. UNCHANGED execution
    <3>1. Publishes \/ ConfirmGuidedBrief => UNCHANGED execution
      BY PublishesWrites, ConfirmsWrites DEF Transaction
    <3> QED
      BY <1>8, <3>1 DEF Operation, Publishes, Answered, OperationThrows, FoundSources, SaveSources,
         AskForPlan, AnswerRefused, FinishFails, FinishRefused, Finish, contractVars
  <2>4. slot'.work # "starting"
    BY <2>1, RequestsMove DEF Rested, Besides, Advanced, Effected, Opens, Repeated, Recovered, Ended, Held,
                             Live
  <2> QED
    BY <1>4, <2>2, <2>3, <2>4
<1> QED
  BY <1>1, <1>2, <1>3, <1>5, <1>6, <1>7, <1>8 DEF TaskNext

-----------------------------------------------------------------------------
(* The invariant, and the properties *)

Invariant == Agreed /\ Recorded

LEMMA InitialState == TaskInit => Invariant
<1> SUFFICES ASSUME TaskInit
             PROVE  Invariant
  OBVIOUS
<1>1. /\ contract = NoContract /\ ~Created /\ ~Executing /\ execution = NoExecution
      /\ plans = <<>> /\ todos = <<>> /\ actions = <<>>
  BY DEF TaskInit, ContractInit, Created, Executing
<1>2. /\ clients \in Clients /\ prep = NoPreparation /\ ~Prepared /\ messages = {} /\ sources = {}
      /\ body = [r \in Requests |-> NoBody] /\ row = [r \in Requests |-> NoRow]
      /\ slot = Idle
      /\ attempts = [r \in Requests |-> 0] /\ effects = [r \in Requests |-> 0]
  BY DEF TaskInit, Prepared
<1>3. /\ plans \in Seq(Nat) /\ todos \in Seq(Todo) /\ actions \in Seq(Action)
      /\ DOMAIN todos = {} /\ DOMAIN actions = {}
  BY <1>1
<1>4. Agreed
  BY <1>1, <1>3 DEF Agreed, ContractRows, ContractTypeOK, ApprovalStands
<1>5. /\ NoBody \in Bodies /\ NoRow \in Rows /\ Idle \in Slots
      /\ NoRow.status = "none" /\ NoRow.owner = 0 /\ NoBody.kind = "none"
  BY DEF Bodies, Rows, Slots, NoRow, NoBody
<1>6. PrepTypes
  BY <1>2, <1>5 DEF PrepTypes
<1>7. Linked
  BY <1>2, <1>5 DEF Linked
<1>8. ~Live /\ ~InSlot("starting")
  BY <1>2 DEF Live, InSlot, Idle
<1>9. Performed /\ StartedFrom
  BY <1>1, <1>8 DEF Performed, StartedFrom
<1>10. Effective
  BY <1>2, <1>5, <1>8 DEF Effective, OutcomeIsTrue, Once, Writers
<1>11. SequencesUnique /\ SessionKnows
  BY <1>2 DEF SequencesUnique, SessionKnows
<1> QED
  BY <1>4, <1>6, <1>7, <1>9, <1>10, <1>11 DEF Invariant, Recorded

LEMMA InvariantStep == Invariant /\ [TaskNext]_taskVars => Invariant'
<1> SUFFICES ASSUME Invariant, [TaskNext]_taskVars
             PROVE  Invariant'
  OBVIOUS
<1>1. CASE TaskNext
  <2>1. Agreed /\ Recorded
    BY DEF Invariant
  <2>2. PrepTypes /\ Linked /\ Performed /\ SequencesUnique /\ SessionKnows
    BY <2>1 DEF Recorded
  <2>3. Agreed'
    BY <1>1, <2>1, <2>2, ContractMoves, AgreedStep
  <2>4. SequencesUnique' /\ SessionKnows'
    BY <1>1, <2>1, <2>2, NumbersStep, PreparationStep
  <2> QED
    BY <1>1, <2>1, <2>3, <2>4, PrepTypesStep, LinkedStep, PerformedStep, EffectiveStep, StartedFromStep
       DEF Invariant, Recorded
<1>2. CASE UNCHANGED taskVars
  <2>1. UNCHANGED <<contract, plans, todos, actions, execution, clients, prep, messages, sources, body,
                    row, slot, attempts, effects, raced>>
    BY <1>2 DEF taskVars, contractVars, prepVars
  <2>2. Agreed'
    BY <2>1, AgreedStep DEF Invariant
  <2>3. PrepTypes' /\ Linked'
    BY <2>1 DEF Invariant, Recorded, PrepTypes, Linked, Prepared, Created
  <2>4. Performed' /\ Effective'
    BY <2>1 DEF Invariant, Recorded, Performed, Effective, OutcomeIsTrue, Live, InSlot
  <2>5. SequencesUnique' /\ SessionKnows'
    BY <2>1 DEF Invariant, Recorded, SequencesUnique, SessionKnows, Prepared
  <2>6. StartedFrom'
    <3>1. Executing' = Executing /\ Readiness' = Readiness
      BY <2>1 DEF Executing, Readiness
    <3> QED
      BY <2>1, <3>1 DEF Invariant, Recorded, StartedFrom, AgreedOn, InSlot, Created, Prepared
  <2> QED
    BY <2>2, <2>3, <2>4, <2>5, <2>6 DEF Invariant, Recorded
<1> QED
  BY <1>1, <1>2

LEMMA AlwaysInvariant == TaskSpec => []Invariant
BY InitialState, InvariantStep, PTL DEF TaskSpec

\* States are well formed, and messages and sources share one numbering without a
\* number given twice, although a search reads the last number in one await and
\* saves in another (saveSources, beginGuidedPreparationRequest).
THEOREM TaskInvHolds == TaskSpec => []TaskInv
<1>1. Invariant => TaskInv
  <2> SUFFICES ASSUME Invariant
               PROVE  TaskInv
    OBVIOUS
  <2>1. ContractTypeOK /\ SequencesUnique
    BY DEF Invariant, Agreed, ContractRows, Recorded
  <2>2. Prepared => /\ prep.revision \in Nat /\ prep.confirmed \in 0..prep.last
                    /\ prep.active \in Requests \cup {0} /\ prep.synced \in 0..prep.last
    BY DEF Invariant, Recorded, PrepTypes, Prepared, PrepRow, Linked
  <2>3. \A r \in Requests :
          /\ row[r].status \in {"none", "pending", "completed", "failed", "interrupted"}
          /\ row[r].owner \in 0..attempts[r]
          /\ row[r] # NoRow => body[r].kind \in clients.asks[r]
    BY DEF Invariant, Recorded, PrepTypes, Rows, Linked
  <2>4. messages \subseteq 1..MaxSequence /\ sources \subseteq 1..MaxSequence
    BY DEF Invariant, Recorded, PrepTypes
  <2> QED
    BY <2>1, <2>2, <2>3, <2>4 DEF TaskInv, TaskTypeOK
<1> QED
  BY <1>1, AlwaysInvariant, PTL

\* Whatever comments, blocks, resolutions and versions came in between, a task that
\* getTaskContractReadiness calls ready has a TODO in scope for the current plan,
\* that plan for the current brief, and its approval as the last word on it.
THEOREM ReadyMeansAgreedHolds == TaskSpec => []ReadyMeansAgreed
<1>1. Invariant => ReadyMeansAgreed
  BY AgreedIsReady DEF Invariant
<1> QED
  BY <1>1, AlwaysInvariant, PTL

\* A block for a TODO out of scope ends only with a new plan or brief, and an approval
\* that was withdrawn comes back only with another one (updateTaskContract).
THEOREM ScopeReviewStandsHolds == TaskSpec => ScopeReviewStands
<1> DEFINE Kept ==
      Created =>
        /\ contract.block # 0 /\ actions[contract.block].kind = "scope-review"
               /\ contract'.block # contract.block
             => contract'.brief # contract.brief \/ Len(plans') > Len(plans)
        /\ contract.approved = 0 /\ contract'.approved # 0
             => /\ Len(actions') > Len(actions)
                /\ actions'[Len(actions')].kind = "approve-plan"
<1>1. Invariant /\ [TaskNext]_taskVars => [Kept]_contractVars
  <2> SUFFICES ASSUME Invariant, [TaskNext]_taskVars
               PROVE  [Kept]_contractVars
    OBVIOUS
  <2>1. CASE TaskNext
    <3>1. Agreed /\ PrepTypes /\ Linked /\ Performed
      BY DEF Invariant, Recorded
    <3>2. Transaction => Kept
      BY <3>1, TransactionsKeepReviews
    <3>3. CreateTaskContract => Kept
      BY DEF CreateTaskContract
    <3>4. UNCHANGED <<contract, plans, todos, actions>> => Kept
      OBVIOUS
    <3> QED
      BY <2>1, <3>1, <3>2, <3>3, <3>4, ContractMoves
  <2>2. CASE UNCHANGED taskVars
    BY <2>2 DEF taskVars
  <2> QED
    BY <2>1, <2>2
<1>2. TaskSpec => [][Kept]_contractVars
  BY <1>1, AlwaysInvariant, PTL DEF TaskSpec
<1> QED
  BY <1>2 DEF ScopeReviewStands

\* The outcome on record is true, although the change and the record are two
\* transactions and the process may die between them: a request is performed for
\* whoever holds its owner token, and changes the contract at most once.
THEOREM OutcomeIsTrueHolds == TaskSpec => []OutcomeIsTrue
<1>1. Invariant => OutcomeIsTrue
  BY DEF Invariant, Recorded, Effective
<1> QED
  BY <1>1, AlwaysInvariant, PTL

\* A message is compacted only when a confirmed brief covers it
\* (pruneGuidedPreparationMessages), whatever the numbers of messages and sources.
THEOREM NothingUnreadCompactedHolds == TaskSpec => NothingUnreadCompacted
<1> DEFINE Kept == Prepared => \A s \in messages : s \notin messages' => s <= prep.confirmed
<1>1. Invariant /\ [TaskNext]_taskVars => [Kept]_taskVars
  BY CompactionStep DEF Invariant, Recorded
<1>2. TaskSpec => [][Kept]_taskVars
  BY <1>1, AlwaysInvariant, PTL DEF TaskSpec
<1> QED
  BY <1>2 DEF NothingUnreadCompacted

\* A session of the planner that the next reply continues knows every message: it
\* ends with every failure, recovery and answer that was not stored.
THEOREM SessionKnowsConversationHolds == TaskSpec => []SessionKnowsConversation
<1>1. Invariant => SessionKnowsConversation
  BY DEF Invariant, Recorded, SessionKnows, SessionKnowsConversation
<1> QED
  BY <1>1, AlwaysInvariant, PTL

\* What is executed is what was agreed on, although the documents are read in one
\* await and the execution is created from them in another, with artifacts written
\* in between (start, createGuidedExecution).
THEOREM ExecutedIsAgreedHolds == TaskSpec => []ExecutedIsAgreed
<1>1. Invariant => ExecutedIsAgreed
  BY DEF Invariant, Recorded, StartedFrom, AgreedOn, ExecutedIsAgreed
<1> QED
  BY <1>1, AlwaysInvariant, PTL

-----------------------------------------------------------------------------
(*  Guided execution  *)

-----------------------------------------------------------------------------
(* The place of the coordinator *)

LEMMA LeastIsIn ==
    ASSUME NEW S \in SUBSET Nat, S # {}
    PROVE  Least(S) \in S /\ \A y \in S : Least(S) <= y
  BY LeastExists DEF Least

\* The same for what is stored: phase and task the loops of execute would stand at.
OpenPhasesOf(p) == {q \in Phases : p.commit[q] = 0}
PhaseIn(p) == Least(OpenPhasesOf(p))
OpenTasksOf(p) == {t \in Tasks : PhaseOf[t] = PhaseIn(p) /\ p.task[t] # "completed"}
TaskIn(p) == Least(OpenTasksOf(p))

LEMMA PlacesAreOfLocal ==
    ASSUME NEW c \in Calls, NEW p, calls[c].local = p
    PROVE  /\ OpenPhases(c) = OpenPhasesOf(p) /\ Phase(c) = PhaseIn(p)
           /\ OpenTasks(c) = OpenTasksOf(p) /\ Task(c) = TaskIn(p)
BY DEF OpenPhases, Phase, OpenTasks, Task, OpenPhasesOf, PhaseIn, OpenTasksOf, TaskIn

LEMMA PhaseIsOpen ==
    ASSUME PlanAssumption, NEW p, OpenPhasesOf(p) # {}
    PROVE  /\ PhaseIn(p) \in Phases /\ p.commit[PhaseIn(p)] = 0
           /\ \A q \in Phases : q < PhaseIn(p) => p.commit[q] # 0
<1>1. Phases \subseteq Nat
  BY DEF PlanAssumption
<1>2. OpenPhasesOf(p) \in SUBSET Nat
  BY <1>1 DEF OpenPhasesOf
<1>3. PhaseIn(p) \in OpenPhasesOf(p) /\ \A q \in OpenPhasesOf(p) : PhaseIn(p) <= q
  BY <1>2, LeastIsIn DEF PhaseIn
<1>4. PhaseIn(p) \in Phases /\ p.commit[PhaseIn(p)] = 0
  BY <1>3 DEF OpenPhasesOf
<1>5. ASSUME NEW q \in Phases, q < PhaseIn(p), p.commit[q] = 0
      PROVE  FALSE
  <2>1. PhaseIn(p) <= q
    BY <1>3, <1>5 DEF OpenPhasesOf
  <2>2. q \in Nat /\ PhaseIn(p) \in Nat
    BY <1>1, <1>4
  <2> QED
    BY <1>5, <2>1, <2>2
<1> QED
  BY <1>4, <1>5

LEMMA TaskIsOpen ==
    ASSUME PlanAssumption, NEW p, OpenTasksOf(p) # {}
    PROVE  /\ TaskIn(p) \in Tasks /\ TaskIn(p) # NoTask
           /\ PhaseOf[TaskIn(p)] = PhaseIn(p) /\ p.task[TaskIn(p)] # "completed"
<1>1. Tasks \subseteq Nat \ {0}
  BY DEF PlanAssumption, Tasks
<1>2. OpenTasksOf(p) \in SUBSET Nat
  BY <1>1 DEF OpenTasksOf
<1>3. TaskIn(p) \in OpenTasksOf(p)
  BY <1>2, LeastIsIn DEF TaskIn
<1> QED
  BY <1>1, <1>3 DEF OpenTasksOf, NoTask

-----------------------------------------------------------------------------
(* Types *)

Status == {"pending", "running", "waiting", "completed", "cancelled"}
TaskStatus == {"pending", "running", "waiting", "completed"}
StepStatus == {"absent", "running", "completed", "failed", "cancelled", "interrupted"}
Block0 == {NoBlock} \cup [type : BlockTypes, task : Tasks \cup {NoTask}, files : SUBSET Files]

\* Progress without the bound on attempts
ProgressRow ==
    [status : Status, stage : {"execution", "changes-review"}, revision : Nat, block : Block0,
     task : [Tasks -> TaskStatus], attempt : [Tasks -> Nat \ {0}],
     commit : [Phases -> Nat], changeSet : BOOLEAN]

Call ==
    [op : {"none", "start", "resume", "cancel"}, at : Points,
     seen : ProgressRow \cup {NoProgress}, local : ProgressRow \cup {NoProgress},
     decision : Decisions \cup {"none"}, then : {"free", "admit"}, start : Nat,
     tree : Tree, sha : Nat, aborted : BOOLEAN]

RowTypes ==
    /\ run \in Status \cup {"interrupted"}
    /\ progress \in ProgressRow
    /\ intent \in [Phases -> {NoIntent} \cup [parent : Nat \ {0}, tree : Tree]]
    /\ step \in [Tasks -> [1..MaxAttempt -> StepStatus]]

GitTypes ==
    /\ log \in Seq([phase : Phases \cup {NoPhase}, tree : Tree, late : SUBSET Files]) /\ Len(log) > 0
    /\ index \in Tree /\ worktree \in Tree /\ unseen \subseteq Files

CallTypes ==
    /\ lock \in Calls \cup {0, Orphan} /\ claim \in Calls \cup {0}
    /\ calls \in [Calls -> Call]
    /\ failed \in BOOLEAN
    /\ used \in [calls : 0..MaxCalls, faults : 0..MaxFaults]

\* Numbers of commits are those of the log.
Numbered ==
    /\ \A c \in Calls : calls[c].start <= Len(log) /\ calls[c].sha <= Len(log)
    /\ \A p \in Phases : intent[p] # NoIntent => intent[p].parent <= Len(log)

-----------------------------------------------------------------------------
(* Who owns what *)

Leased == {"claim", "decide", "take", "release", "unlock"} \cup Coordinator
Asked == {"lock", "claim", "decide"}
AtTask == {"step", "agent", "inspect", "verify", "reinspect", "checkpoint", "settle"}
AtGate == {"gate", "stage", "intent", "commit", "confirm", "complete"}
InPhase == {"task"} \cup AtTask \cup AtGate

Owner ==
    \A c \in Calls :
        /\ calls[c].at \in Leased => lock = c
        /\ Holds(c) => claim = c

\* What the coordinator remembers is stored, and not the end.
Follows ==
    \A c \in Calls : calls[c].at \in Coordinator =>
        calls[c].local = progress /\ progress.status \notin {"completed", "cancelled"}

\* What the coordinator stands at exists; a request remembers what it saw and chose.
Placed ==
    \A c \in Calls :
        /\ calls[c].at \in InPhase => OpenPhasesOf(progress) # {} /\ calls[c].start > 0
        /\ calls[c].at \in AtTask => OpenTasksOf(progress) # {}
        /\ calls[c].at \in Asked =>
             calls[c].seen \in ProgressRow /\ calls[c].decision \in AllowedDecisions(calls[c].seen)
        /\ calls[c].at \in {"confirm", "complete"} => calls[c].sha > 1

Base == RowTypes /\ GitTypes /\ CallTypes /\ Numbered /\ Owner /\ Follows /\ Placed

-----------------------------------------------------------------------------
(* What the coordinator stores: one definition per kind of step *)

\* The row stored next; what is not named is as it was.
NextRow(status, stage, block, task, commit, changeSet) ==
    [status |-> status, stage |-> stage, revision |-> progress.revision + 1, block |-> block,
     task |-> task, attempt |-> progress.attempt, commit |-> commit, changeSet |-> changeSet]

Writes(c, next, point) ==
    /\ calls[c].at \in Coordinator /\ claim = c
    /\ progress' = next
    /\ run' = IF next.status = progress.status THEN run ELSE next.status
    /\ calls' = [calls EXCEPT ![c].local = next, ![c].at = point]
    /\ UNCHANGED <<git, lock, claim, failed, used>>

Begun(c) ==
    /\ calls[c].at = "task" /\ OpenTasksOf(progress) # {}
    /\ Writes(c, NextRow("running", progress.stage, progress.block,
                         [progress.task EXCEPT ![TaskIn(progress)] = "running"],
                         progress.commit, progress.changeSet), "step")
    /\ UNCHANGED <<intent, step>>

Cancelled(c) ==
    /\ calls[c].at = "task"
    /\ Writes(c, NextRow("cancelled", progress.stage, progress.block, progress.task,
                         progress.commit, progress.changeSet), "release")
    /\ UNCHANGED <<intent, step>>

\* Of a step that is not running any more, or whose row ends with the block.
BlockedRow(c, t) ==
    \/ /\ calls[c].at \in AtTask \ {"agent"} /\ step' = step
       /\ calls[c].at = "step" => step[t][progress.attempt[t]] \in {"completed", "cancelled"}
    \/ /\ calls[c].at = "agent"
       /\ \E status \in {"completed", "cancelled", "failed"} :
             step' = [step EXCEPT ![t][progress.attempt[t]] = status]

Blocked(c, type, t, paths) ==
    /\ \/ t = TaskIn(progress) /\ BlockedRow(c, t)
       \/ t = NoTask /\ calls[c].at \in AtGate \cup {"review"} /\ step' = step
    /\ Writes(c, NextRow("waiting", progress.stage, [type |-> type, task |-> t, files |-> paths],
                         [u \in Tasks |-> IF u = t THEN "waiting" ELSE progress.task[u]],
                         progress.commit, progress.changeSet), "release")
    /\ UNCHANGED intent

Checked(c) ==
    /\ calls[c].at = "checkpoint"
    /\ Writes(c, NextRow(progress.status, progress.stage, progress.block, progress.task,
                         progress.commit, progress.changeSet), "settle")
    /\ UNCHANGED <<intent, step>>

Finished(c) ==
    /\ calls[c].at = "settle"
    /\ Writes(c, NextRow(progress.status, progress.stage, progress.block,
                         [progress.task EXCEPT ![TaskIn(progress)] = "completed"],
                         progress.commit, progress.changeSet), "task")
    /\ UNCHANGED <<intent, step>>

Announced(c) ==
    /\ calls[c].at = "intent"
    /\ Writes(c, NextRow(progress.status, progress.stage, progress.block, progress.task,
                         progress.commit, progress.changeSet), "commit")
    /\ intent' = [intent EXCEPT ![PhaseIn(progress)] =
                    [parent |-> calls[c].start, tree |-> calls[c].tree]]
    /\ UNCHANGED step

Committed(c) ==
    /\ calls[c].at = "complete"
    /\ Writes(c, NextRow(progress.status, progress.stage, progress.block, progress.task,
                         [progress.commit EXCEPT ![PhaseIn(progress)] = calls[c].sha],
                         progress.changeSet), "phase")
    /\ UNCHANGED <<intent, step>>

Reviewed(c, found) ==
    /\ calls[c].at = "review"
    /\ Writes(c, NextRow("waiting", "changes-review", progress.block, progress.task,
                         progress.commit, found), "release")
    /\ UNCHANGED <<intent, step>>

Written(c) ==
    \/ Begun(c) \/ Cancelled(c) \/ Checked(c) \/ Finished(c) \/ Announced(c) \/ Committed(c)
    \/ \E type \in BlockTypes, t \in Tasks \cup {NoTask}, paths \in SUBSET Files : Blocked(c, type, t, paths)
    \/ \E found \in BOOLEAN : Reviewed(c, found)

LEMMA RowIsRecord ==
    ASSUME NEW p \in ProgressRow
    PROVE  p = [status |-> p.status, stage |-> p.stage, revision |-> p.revision, block |-> p.block,
                task |-> p.task, attempt |-> p.attempt, commit |-> p.commit,
                changeSet |-> p.changeSet]
BY DEF ProgressRow

\* What a coordinator passes to the store is the next row.
LEMMA StoredIsNext ==
    ASSUME NEW c \in Calls, calls[c].at \in Coordinator, NEW point,
           NEW rec \in ProgressRow, Store(c, rec, point),
           rec.revision = progress.revision + 1, rec.attempt = progress.attempt,
           UNCHANGED <<git, lock, claim, failed, used>>
    PROVE  Writes(c, NextRow(rec.status, rec.stage, rec.block, rec.task, rec.commit,
                             rec.changeSet), point)
<1>1. rec = NextRow(rec.status, rec.stage, rec.block, rec.task, rec.commit, rec.changeSet)
  BY RowIsRecord DEF NextRow
<1> QED
  BY <1>1, Zenon DEF Store, Writes

\* It saves what it remembers, which is what is stored: the revision is counted up.
LEMMA SavedIsNext ==
    ASSUME NEW c \in Calls, calls[c].at \in Coordinator, NEW point,
           NEW rec \in ProgressRow, Save(c, rec, point),
           rec.revision = progress.revision, rec.attempt = progress.attempt,
           UNCHANGED <<git, lock, claim, failed, used>>
    PROVE  Writes(c, NextRow(rec.status, rec.stage, rec.block, rec.task, rec.commit,
                             rec.changeSet), point)
<1> DEFINE next == [rec EXCEPT !.revision = @ + 1]
<1>1. next \in ProgressRow
  BY DEF ProgressRow
<1>2. /\ next.revision = progress.revision + 1 /\ next.attempt = progress.attempt
      /\ next.status = rec.status /\ next.stage = rec.stage /\ next.block = rec.block
      /\ next.task = rec.task /\ next.commit = rec.commit /\ next.changeSet = rec.changeSet
  BY DEF ProgressRow
<1>3. Store(c, next, point)
  BY DEF Save
<1> HIDE DEF next
<1>4. Writes(c, NextRow(next.status, next.stage, next.block, next.task, next.commit,
                        next.changeSet), point)
  BY <1>1, <1>2, <1>3, StoredIsNext
<1> QED
  BY <1>2, <1>4

\* What block stores, whatever the reason.
LEMMA BlockWrites ==
    ASSUME Base, NEW c \in Calls, calls[c].at \in Coordinator,
           NEW type \in BlockTypes, NEW t \in Tasks \cup {NoTask}, NEW paths \in SUBSET Files,
           Block(c, type, t, paths),
           UNCHANGED <<git, lock, claim, failed, used>>
    PROVE  Writes(c, NextRow("waiting", progress.stage, [type |-> type, task |-> t, files |-> paths],
                             [u \in Tasks |-> IF u = t THEN "waiting" ELSE progress.task[u]],
                             progress.commit, progress.changeSet), "release")
<1>1. progress \in ProgressRow /\ calls[c].local = progress
  BY DEF Base, RowTypes, Follows
<1> DEFINE block == [type |-> type, task |-> t, files |-> paths]
           task == [u \in Tasks |-> IF u = t THEN "waiting" ELSE progress.task[u]]
           rec == [progress EXCEPT !.status = "waiting", !.block = block, !.task = task]
<1>2. Save(c, rec, "release")
  BY <1>1 DEF Block
<1>3. block \in Block0 /\ task \in [Tasks -> TaskStatus]
  BY <1>1 DEF Block0, ProgressRow, TaskStatus
<1> HIDE DEF block, task
<1>4. /\ rec \in ProgressRow
      /\ rec.status = "waiting" /\ rec.stage = progress.stage /\ rec.revision = progress.revision
      /\ rec.block = block /\ rec.task = task /\ rec.attempt = progress.attempt
      /\ rec.commit = progress.commit /\ rec.changeSet = progress.changeSet
  BY <1>1, <1>3 DEF ProgressRow, Status
<1> HIDE DEF rec
<1>5. Writes(c, NextRow(rec.status, rec.stage, rec.block, rec.task, rec.commit,
                        rec.changeSet), "release")
  BY <1>2, <1>4, SavedIsNext
<1> QED
  BY <1>4, <1>5 DEF block, task

\* What a coordinator knows where it stands.
LEMMA AtWork ==
    ASSUME PlanAssumption, Base, NEW c \in Calls, calls[c].at \in Coordinator
    PROVE  /\ progress \in ProgressRow /\ calls[c].local = progress
           /\ lock = c /\ claim = c
           /\ Phase(c) = PhaseIn(progress) /\ Task(c) = TaskIn(progress)
           /\ OpenPhases(c) = OpenPhasesOf(progress) /\ OpenTasks(c) = OpenTasksOf(progress)
           /\ calls[c].at \in InPhase => PhaseIn(progress) \in Phases
           /\ OpenTasksOf(progress) # {} => TaskIn(progress) \in Tasks
           /\ calls[c].at \in AtTask => TaskIn(progress) \in Tasks
<1>1. calls[c].local = progress /\ progress \in ProgressRow
  BY DEF Base, RowTypes, Follows
<1>2. lock = c /\ claim = c
  BY DEF Base, Owner, Leased, Holds
<1>3. calls[c].at \in InPhase => OpenPhasesOf(progress) # {}
  BY DEF Base, Placed
<1>4. calls[c].at \in AtTask => OpenTasksOf(progress) # {}
  BY DEF Base, Placed
<1> QED
  BY <1>1, <1>2, <1>3, <1>4, PlacesAreOfLocal, PhaseIsOpen, TaskIsOpen

LEMMA TaskStepsWrite ==
    ASSUME PlanAssumption, Base, NEW c \in Calls,
           BeginTask(c) \/ FinishCancelled(c) \/ CompleteTask(c) \/ Checkpoint(c)
    PROVE  Written(c)
<1> DEFINE T == TaskIn(progress)
<1>1. CASE BeginTask(c)
  <2>1. calls[c].at \in Coordinator /\ calls[c].at = "task"
    BY <1>1 DEF BeginTask, At, Coordinator
  <2>2. OpenTasksOf(progress) # {}
    BY <1>1, <2>1, AtWork DEF BeginTask
  <2> DEFINE task == [progress.task EXCEPT ![T] = "running"]
             rec == [progress EXCEPT !.status = "running", !.task = task]
  <2>3. Save(c, rec, "step") /\ T \in Tasks
    BY <1>1, <2>1, <2>2, AtWork DEF BeginTask, ProgressRow
  <2>4. task \in [Tasks -> TaskStatus] /\ progress \in ProgressRow
    BY <2>1, AtWork DEF ProgressRow, TaskStatus
  <2> HIDE DEF task
  <2>5. /\ rec \in ProgressRow
        /\ rec.status = "running" /\ rec.stage = progress.stage /\ rec.revision = progress.revision
        /\ rec.block = progress.block /\ rec.task = task /\ rec.attempt = progress.attempt
        /\ rec.commit = progress.commit /\ rec.changeSet = progress.changeSet
    BY <2>4 DEF ProgressRow, Status
  <2> HIDE DEF rec
  <2>6. Writes(c, NextRow(rec.status, rec.stage, rec.block, rec.task, rec.commit, rec.changeSet), "step")
    BY <1>1, <2>1, <2>3, <2>5, SavedIsNext DEF BeginTask
  <2> QED
    BY <1>1, <2>1, <2>2, <2>5, <2>6 DEF BeginTask, Begun, Written, task
<1>2. CASE FinishCancelled(c)
  <2>1. calls[c].at \in Coordinator /\ calls[c].at = "task"
    BY <1>2 DEF FinishCancelled, At, Coordinator
  <2> DEFINE rec == [progress EXCEPT !.status = "cancelled"]
  <2>2. Save(c, rec, "release") /\ progress \in ProgressRow
    BY <1>2, <2>1, AtWork DEF FinishCancelled
  <2>3. /\ rec \in ProgressRow
        /\ rec.status = "cancelled" /\ rec.stage = progress.stage /\ rec.revision = progress.revision
        /\ rec.block = progress.block /\ rec.task = progress.task /\ rec.attempt = progress.attempt
        /\ rec.commit = progress.commit /\ rec.changeSet = progress.changeSet
    BY <2>2 DEF ProgressRow, Status
  <2> HIDE DEF rec
  <2>4. Writes(c, NextRow(rec.status, rec.stage, rec.block, rec.task, rec.commit, rec.changeSet), "release")
    BY <1>2, <2>1, <2>2, <2>3, SavedIsNext DEF FinishCancelled
  <2> QED
    BY <1>2, <2>1, <2>3, <2>4 DEF FinishCancelled, Cancelled, Written
<1>3. CASE CompleteTask(c)
  <2>1. calls[c].at \in Coordinator /\ calls[c].at = "settle" /\ calls[c].at \in AtTask
    BY <1>3 DEF CompleteTask, At, Coordinator, AtTask
  <2> DEFINE task == [progress.task EXCEPT ![T] = "completed"]
             rec == [progress EXCEPT !.task = task]
  <2>3. Save(c, rec, "task") /\ T \in Tasks
    BY <1>3, <2>1, AtWork DEF CompleteTask, ProgressRow
  <2>4. task \in [Tasks -> TaskStatus] /\ progress \in ProgressRow
    BY <2>1, AtWork DEF ProgressRow, TaskStatus
  <2> HIDE DEF task
  <2>5. /\ rec \in ProgressRow
        /\ rec.status = progress.status /\ rec.stage = progress.stage /\ rec.revision = progress.revision
        /\ rec.block = progress.block /\ rec.task = task /\ rec.attempt = progress.attempt
        /\ rec.commit = progress.commit /\ rec.changeSet = progress.changeSet
    BY <2>4 DEF ProgressRow
  <2> HIDE DEF rec
  <2>6. Writes(c, NextRow(rec.status, rec.stage, rec.block, rec.task, rec.commit, rec.changeSet), "task")
    BY <1>3, <2>1, <2>3, <2>5, SavedIsNext DEF CompleteTask
  <2> QED
    BY <1>3, <2>1, <2>5, <2>6 DEF CompleteTask, Finished, Written, task
<1>4. CASE Checkpoint(c)
  <2>1. calls[c].at \in Coordinator /\ calls[c].at = "checkpoint"
    BY <1>4 DEF Checkpoint, At, Coordinator
  <2> DEFINE rec == [progress EXCEPT !.revision = @ + 1]
  <2>2. Store(c, rec, "settle") /\ progress \in ProgressRow
    BY <1>4, <2>1, AtWork DEF Checkpoint
  <2>3. /\ rec \in ProgressRow
        /\ rec.status = progress.status /\ rec.stage = progress.stage
        /\ rec.revision = progress.revision + 1
        /\ rec.block = progress.block /\ rec.task = progress.task /\ rec.attempt = progress.attempt
        /\ rec.commit = progress.commit /\ rec.changeSet = progress.changeSet
    BY <2>2 DEF ProgressRow
  <2> HIDE DEF rec
  <2>4. Writes(c, NextRow(rec.status, rec.stage, rec.block, rec.task, rec.commit, rec.changeSet), "settle")
    BY <1>4, <2>1, <2>2, <2>3, StoredIsNext DEF Checkpoint
  <2> QED
    BY <1>4, <2>1, <2>3, <2>4 DEF Checkpoint, Checked, Written
<1> QED
  BY <1>1, <1>2, <1>3, <1>4

\* A block is about the task at hand, or about none.
LEMMA BlockIsBlocked ==
    ASSUME PlanAssumption, Base, NEW c \in Calls, calls[c].at \in Coordinator,
           NEW type \in BlockTypes, NEW t \in Tasks \cup {NoTask}, NEW paths \in SUBSET Files,
           Block(c, type, t, paths),
           UNCHANGED <<intent, git, lock, claim, failed, used>>,
           \/ t = TaskIn(progress) /\ BlockedRow(c, t)
           \/ t = NoTask /\ calls[c].at \in AtGate \cup {"review"} /\ step' = step
    PROVE  Written(c)
<1>1. Writes(c, NextRow("waiting", progress.stage, [type |-> type, task |-> t, files |-> paths],
                        [u \in Tasks |-> IF u = t THEN "waiting" ELSE progress.task[u]],
                        progress.commit, progress.changeSet), "release")
  BY BlockWrites
<1>2. Blocked(c, type, t, paths)
  BY <1>1 DEF Blocked
<1> QED
  BY <1>2 DEF Written

LEMMA BlockingStepsWrite ==
    ASSUME PlanAssumption, Base, NEW c \in Calls,
           \/ StepRefused(c) \/ AgentBlocked(c) \/ AgentFails(c) \/ WorkspaceChanged(c)
           \/ VerificationFailed(c) \/ CommitUnconfirmed(c) \/ ChangeSetInvalid(c)
    PROVE  Written(c)
<1> DEFINE T == TaskIn(progress)
<1>1. ASSUME calls[c].at \in AtTask
      PROVE  /\ calls[c].at \in Coordinator
             /\ T \in Tasks /\ Task(c) = T /\ Attempt(c) = progress.attempt[T]
             /\ StepRow(c) = step[T][progress.attempt[T]]
             /\ \A s : SetStep(c, s) => step' = [step EXCEPT ![T][progress.attempt[T]] = s]
  BY <1>1, AtWork DEF AtTask, Coordinator, Attempt, StepRow, SetStep
<1>2. CASE StepRefused(c)
  <2>1. calls[c].at = "step" /\ calls[c].at \in AtTask
    BY <1>2 DEF StepRefused, At, AtTask
  <2>2. Block(c, "agent-blocked", T, {}) /\ BlockedRow(c, T)
    BY <1>1, <1>2, <2>1 DEF StepRefused, BlockedRow
  <2>3. UNCHANGED <<intent, git, lock, claim, failed, used>>
    BY <1>2 DEF StepRefused
  <2> QED
    BY <1>1, <2>1, <2>2, <2>3, BlockIsBlocked DEF BlockTypes
<1>3. CASE AgentBlocked(c)
  <2>1. calls[c].at = "agent" /\ calls[c].at \in AtTask
    BY <1>3 DEF AgentBlocked, At, AtTask
  <2>2. Block(c, "agent-blocked", T, {}) /\ BlockedRow(c, T)
    BY <1>1, <1>3, <2>1 DEF AgentBlocked, BlockedRow
  <2>3. UNCHANGED <<intent, git, lock, claim, failed, used>>
    BY <1>3 DEF AgentBlocked
  <2> QED
    BY <1>1, <2>1, <2>2, <2>3, BlockIsBlocked DEF BlockTypes
<1>4. CASE AgentFails(c)
  <2>1. calls[c].at = "agent" /\ calls[c].at \in AtTask
    BY <1>4 DEF AgentFails, At, AtTask
  <2>2. PICK s \in {"completed", "cancelled", "failed"} : SetStep(c, s)
    BY <1>4 DEF AgentFails
  <2>3. Block(c, "agent-blocked", T, {}) /\ BlockedRow(c, T)
    BY <1>1, <1>4, <2>1, <2>2 DEF AgentFails, BlockedRow
  <2>4. UNCHANGED <<intent, git, lock, claim, failed, used>>
    BY <1>4 DEF AgentFails
  <2> QED
    BY <1>1, <2>1, <2>3, <2>4, BlockIsBlocked DEF BlockTypes
<1>5. CASE WorkspaceChanged(c)
  <2>1. calls[c].at \in {"inspect", "reinspect"} /\ calls[c].at \in AtTask
    BY <1>5 DEF WorkspaceChanged, AtTask
  <2>2. Block(c, "workspace-changed", T, OutOfScope(T)) /\ BlockedRow(c, T)
    BY <1>1, <1>5, <2>1 DEF WorkspaceChanged, BlockedRow, AtTask
  <2>3. UNCHANGED <<intent, git, lock, claim, failed, used>>
    BY <1>5 DEF WorkspaceChanged
  <2>4. OutOfScope(T) \in SUBSET Files
    BY DEF OutOfScope, Changed
  <2> QED
    BY <1>1, <2>1, <2>2, <2>3, <2>4, BlockIsBlocked DEF BlockTypes
<1>6. CASE VerificationFailed(c) /\ calls[c].at = "verify"
  <2>1. calls[c].at \in AtTask
    BY <1>6 DEF AtTask
  <2>2. Block(c, "verification-failed", T, {}) /\ BlockedRow(c, T)
    BY <1>1, <1>6, <2>1 DEF VerificationFailed, BlockedRow, AtTask, At
  <2>3. UNCHANGED <<intent, git, lock, claim, failed, used>>
    BY <1>6 DEF VerificationFailed
  <2> QED
    BY <1>1, <2>1, <2>2, <2>3, BlockIsBlocked DEF BlockTypes
<1>7. CASE VerificationFailed(c) /\ calls[c].at # "verify"
  <2>1. calls[c].at \in AtGate /\ calls[c].at \in Coordinator
    BY <1>7 DEF VerificationFailed, AtGate, Coordinator
  <2>2. Block(c, "verification-failed", NoTask, {})
    BY <1>7 DEF VerificationFailed, At
  <2>3. UNCHANGED <<intent, step, git, lock, claim, failed, used>>
    BY <1>7 DEF VerificationFailed
  <2> QED
    BY <2>1, <2>2, <2>3, BlockIsBlocked DEF BlockTypes
<1>8. CASE CommitUnconfirmed(c)
  <2>1. calls[c].at \in AtGate /\ calls[c].at \in Coordinator
    BY <1>8 DEF CommitUnconfirmed, AtGate, Coordinator
  <2>2. Block(c, "commit-unconfirmed", NoTask, {})
    BY <1>8 DEF CommitUnconfirmed
  <2>3. UNCHANGED <<intent, step, git, lock, claim, failed, used>>
    BY <1>8 DEF CommitUnconfirmed
  <2> QED
    BY <2>1, <2>2, <2>3, BlockIsBlocked DEF BlockTypes
<1>9. CASE ChangeSetInvalid(c)
  <2>1. calls[c].at = "review" /\ calls[c].at \in Coordinator
    BY <1>9 DEF ChangeSetInvalid, At, Coordinator
  <2>2. Block(c, "change-set-invalid", NoTask, {})
    BY <1>9 DEF ChangeSetInvalid
  <2>3. UNCHANGED <<intent, step, git, lock, claim, failed, used>>
    BY <1>9 DEF ChangeSetInvalid
  <2> QED
    BY <2>1, <2>2, <2>3, BlockIsBlocked DEF BlockTypes
<1> QED
  BY <1>2, <1>3, <1>4, <1>5, <1>6, <1>7, <1>8, <1>9

LEMMA PhaseStepsWrite ==
    ASSUME PlanAssumption, Base, NEW c \in Calls,
           SaveIntent(c) \/ CompletePhase(c) \/ ReviewChanges(c)
    PROVE  Written(c)
<1> DEFINE P == PhaseIn(progress)
<1>1. CASE SaveIntent(c)
  <2>1. calls[c].at \in Coordinator /\ calls[c].at = "intent"
    BY <1>1 DEF SaveIntent, At, Coordinator
  <2> DEFINE rec == [progress EXCEPT !.revision = @ + 1]
  <2>2. /\ Store(c, rec, "commit") /\ progress \in ProgressRow
        /\ intent' = [intent EXCEPT ![P] = [parent |-> calls[c].start, tree |-> calls[c].tree]]
    BY <1>1, <2>1, AtWork DEF SaveIntent
  <2>3. /\ rec \in ProgressRow
        /\ rec.status = progress.status /\ rec.stage = progress.stage
        /\ rec.revision = progress.revision + 1
        /\ rec.block = progress.block /\ rec.task = progress.task /\ rec.attempt = progress.attempt
        /\ rec.commit = progress.commit /\ rec.changeSet = progress.changeSet
    BY <2>2 DEF ProgressRow
  <2> HIDE DEF rec
  <2>4. Writes(c, NextRow(rec.status, rec.stage, rec.block, rec.task, rec.commit, rec.changeSet), "commit")
    BY <1>1, <2>1, <2>2, <2>3, StoredIsNext DEF SaveIntent
  <2> QED
    BY <1>1, <2>1, <2>2, <2>3, <2>4 DEF SaveIntent, Announced, Written
<1>2. CASE CompletePhase(c)
  <2>1. calls[c].at \in Coordinator /\ calls[c].at = "complete" /\ calls[c].at \in InPhase
    BY <1>2 DEF CompletePhase, At, Coordinator, InPhase, AtGate
  <2> DEFINE commit == [progress.commit EXCEPT ![P] = calls[c].sha]
             rec == [progress EXCEPT !.commit = commit, !.revision = @ + 1]
  <2>2. Store(c, rec, "phase") /\ P \in Phases /\ progress \in ProgressRow
    BY <1>2, <2>1, AtWork DEF CompletePhase, ProgressRow
  <2>3. commit \in [Phases -> Nat]
    <3>1. calls[c].sha \in Nat
      BY DEF Base, CallTypes, Call
    <3> QED
      BY <2>2, <3>1 DEF ProgressRow
  <2> HIDE DEF commit
  <2>4. /\ rec \in ProgressRow
        /\ rec.status = progress.status /\ rec.stage = progress.stage
        /\ rec.revision = progress.revision + 1
        /\ rec.block = progress.block /\ rec.task = progress.task /\ rec.attempt = progress.attempt
        /\ rec.commit = commit /\ rec.changeSet = progress.changeSet
    <3>1. progress \in ProgressRow
      BY <2>2
    <3> DEFINE old == [progress EXCEPT !.commit = commit]
    <3>2. /\ old \in ProgressRow
          /\ old.status = progress.status /\ old.stage = progress.stage
          /\ old.revision = progress.revision
          /\ old.block = progress.block /\ old.task = progress.task /\ old.attempt = progress.attempt
          /\ old.commit = commit /\ old.changeSet = progress.changeSet
      BY <2>3, <3>1 DEF ProgressRow
    <3>3. rec = [old EXCEPT !.revision = progress.revision + 1]
      BY <3>1 DEF ProgressRow
    <3>4. progress.revision \in Nat
      BY <3>1 DEF ProgressRow
    <3> HIDE DEF old, rec
    <3>5. rec \in ProgressRow
      BY <3>2, <3>3, <3>4 DEF ProgressRow
    <3> QED
      BY <3>2, <3>3, <3>5 DEF ProgressRow
  <2> HIDE DEF rec
  <2>5. Writes(c, NextRow(rec.status, rec.stage, rec.block, rec.task, rec.commit, rec.changeSet), "phase")
    BY <1>2, <2>1, <2>2, <2>4, StoredIsNext DEF CompletePhase
  <2> QED
    BY <1>2, <2>1, <2>4, <2>5 DEF CompletePhase, Committed, Written, commit
<1>3. CASE ReviewChanges(c)
  <2>1. calls[c].at \in Coordinator /\ calls[c].at = "review"
    BY <1>3 DEF ReviewChanges, At, Coordinator
  <2> DEFINE found == progress.changeSet \/ (Len(log) > 1 /\ HeadTree # BaseTree)
             rec == [progress EXCEPT !.status = "waiting", !.stage = "changes-review",
                                     !.changeSet = found]
  <2>2. Save(c, rec, "release") /\ progress \in ProgressRow
    BY <1>3, <2>1, AtWork DEF ReviewChanges
  <2>3. found \in BOOLEAN
    OBVIOUS
  <2> HIDE DEF found
  <2>4. /\ rec \in ProgressRow
        /\ rec.status = "waiting" /\ rec.stage = "changes-review" /\ rec.revision = progress.revision
        /\ rec.block = progress.block /\ rec.task = progress.task /\ rec.attempt = progress.attempt
        /\ rec.commit = progress.commit /\ rec.changeSet = found
    BY <2>2, <2>3 DEF ProgressRow, Status
  <2> HIDE DEF rec
  <2>5. Writes(c, NextRow(rec.status, rec.stage, rec.block, rec.task, rec.commit, rec.changeSet), "release")
    BY <1>3, <2>1, <2>2, <2>4, SavedIsNext DEF ReviewChanges
  <2>6. Reviewed(c, found)
    BY <1>3, <2>1, <2>4, <2>5 DEF ReviewChanges, Reviewed
  <2> QED
    BY <2>3, <2>6 DEF Written
<1> QED
  BY <1>1, <1>2, <1>3

LEMMA CoordinatorWrites ==
    ASSUME PlanAssumption, Base, NEW c \in Calls,
           \/ BeginTask(c) \/ FinishCancelled(c) \/ CompleteTask(c) \/ Checkpoint(c)
           \/ StepRefused(c) \/ AgentBlocked(c) \/ AgentFails(c) \/ WorkspaceChanged(c)
           \/ VerificationFailed(c) \/ CommitUnconfirmed(c) \/ ChangeSetInvalid(c)
           \/ SaveIntent(c) \/ CompletePhase(c) \/ ReviewChanges(c)
    PROVE  Written(c)
BY TaskStepsWrite, BlockingStepsWrite, PhaseStepsWrite

\* A row of the kinds above is a row of progress.
LEMMA NextRowTyped ==
    ASSUME progress \in ProgressRow,
           NEW status \in Status, NEW stage \in {"execution", "changes-review"}, NEW block \in Block0,
           NEW task \in [Tasks -> TaskStatus], NEW commit \in [Phases -> Nat],
           NEW changeSet \in BOOLEAN
    PROVE  NextRow(status, stage, block, task, commit, changeSet) \in ProgressRow
BY DEF NextRow, ProgressRow

\* What all of them do.
Stores(c, point) ==
    /\ calls[c].at \in Coordinator /\ claim = c /\ point \in {"step", "release", "settle", "task", "commit", "phase"}
    /\ progress' \in ProgressRow /\ progress'.revision = progress.revision + 1
    /\ progress'.attempt = progress.attempt
    /\ run' = IF progress'.status = progress.status THEN run ELSE progress'.status
    /\ calls' = [calls EXCEPT ![c].local = progress', ![c].at = point]
    /\ UNCHANGED <<git, lock, claim, failed, used>>

LEMMA NextIsStored ==
    ASSUME NEW c \in Calls, NEW point \in {"step", "release", "settle", "task", "commit", "phase"},
           NEW status, NEW stage, NEW block, NEW task, NEW commit, NEW changeSet,
           NextRow(status, stage, block, task, commit, changeSet) \in ProgressRow,
           Writes(c, NextRow(status, stage, block, task, commit, changeSet), point)
    PROVE  /\ Stores(c, point)
           /\ progress'.status = status /\ progress'.stage = stage /\ progress'.block = block
           /\ progress'.task = task /\ progress'.commit = commit /\ progress'.changeSet = changeSet
<1> DEFINE rec == NextRow(status, stage, block, task, commit, changeSet)
<1>1. /\ rec.status = status /\ rec.stage = stage /\ rec.block = block
      /\ rec.task = task /\ rec.commit = commit /\ rec.changeSet = changeSet
      /\ rec.revision = progress.revision + 1 /\ rec.attempt = progress.attempt
  BY DEF NextRow
<1> QED
  BY <1>1 DEF Writes, Stores

\* Each kind by what it makes of the row.
SameRow(p) ==
    /\ p.stage = progress.stage /\ p.block = progress.block /\ p.task = progress.task
    /\ p.commit = progress.commit /\ p.changeSet = progress.changeSet

LEMMA WrittenKinds ==
    ASSUME PlanAssumption, Base, NEW c \in Calls, Written(c)
    PROVE  \/ /\ Begun(c) /\ Stores(c, "step")
              /\ progress'.status = "running" /\ progress'.stage = progress.stage
              /\ progress'.block = progress.block /\ progress'.commit = progress.commit
              /\ progress'.task = [progress.task EXCEPT ![TaskIn(progress)] = "running"]
           \/ Cancelled(c) /\ Stores(c, "release") /\ progress'.status = "cancelled" /\ SameRow(progress')
           \/ Checked(c) /\ Stores(c, "settle") /\ progress'.status = progress.status /\ SameRow(progress')
           \/ /\ Finished(c) /\ Stores(c, "task")
              /\ progress'.status = progress.status /\ progress'.stage = progress.stage
              /\ progress'.block = progress.block /\ progress'.commit = progress.commit
              /\ progress'.task = [progress.task EXCEPT ![TaskIn(progress)] = "completed"]
           \/ Announced(c) /\ Stores(c, "commit") /\ progress'.status = progress.status /\ SameRow(progress')
           \/ /\ Committed(c) /\ Stores(c, "phase")
              /\ progress'.status = progress.status /\ progress'.stage = progress.stage
              /\ progress'.block = progress.block /\ progress'.task = progress.task
              /\ progress'.commit = [progress.commit EXCEPT ![PhaseIn(progress)] = calls[c].sha]
           \/ \E type \in BlockTypes, t \in Tasks \cup {NoTask}, paths \in SUBSET Files :
              /\ Blocked(c, type, t, paths) /\ Stores(c, "release")
              /\ progress'.status = "waiting" /\ progress'.stage = progress.stage
              /\ progress'.block = [type |-> type, task |-> t, files |-> paths]
              /\ progress'.commit = progress.commit
              /\ progress'.task = [u \in Tasks |-> IF u = t THEN "waiting" ELSE progress.task[u]]
           \/ /\ \E found \in BOOLEAN : Reviewed(c, found)
              /\ Stores(c, "release")
              /\ progress'.status = "waiting" /\ progress'.stage = "changes-review"
              /\ progress'.block = progress.block /\ progress'.task = progress.task
              /\ progress'.commit = progress.commit
<1>1. /\ progress \in ProgressRow
      /\ progress.status \in Status /\ progress.stage \in {"execution", "changes-review"}
      /\ progress.block \in Block0 /\ progress.task \in [Tasks -> TaskStatus]
      /\ progress.commit \in [Phases -> Nat] /\ progress.changeSet \in BOOLEAN
  BY DEF Base, RowTypes, ProgressRow
<1>2. CASE Begun(c)
  <2>1. [progress.task EXCEPT ![TaskIn(progress)] = "running"] \in [Tasks -> TaskStatus]
    BY <1>1 DEF TaskStatus
  <2>2. "running" \in Status
    BY DEF Status
  <2> QED
    BY <1>1, <1>2, <2>1, <2>2, NextRowTyped, NextIsStored DEF Begun
<1>3. CASE Cancelled(c)
  <2>1. "cancelled" \in Status
    BY DEF Status
  <2> QED
    BY <1>1, <1>3, <2>1, NextRowTyped, NextIsStored DEF Cancelled, SameRow
<1>4. CASE Checked(c)
  BY <1>1, <1>4, NextRowTyped, NextIsStored DEF Checked, SameRow
<1>5. CASE Finished(c)
  <2>1. [progress.task EXCEPT ![TaskIn(progress)] = "completed"] \in [Tasks -> TaskStatus]
    BY <1>1 DEF TaskStatus
  <2> QED
    BY <1>1, <1>5, <2>1, NextRowTyped, NextIsStored DEF Finished
<1>6. CASE Announced(c)
  BY <1>1, <1>6, NextRowTyped, NextIsStored DEF Announced, SameRow
<1>7. CASE Committed(c)
  <2>1. calls[c].sha \in Nat
    BY DEF Base, CallTypes, Call
  <2>2. [progress.commit EXCEPT ![PhaseIn(progress)] = calls[c].sha] \in [Phases -> Nat]
    BY <1>1, <2>1
  <2> QED
    BY <1>1, <1>7, <2>2, NextRowTyped, NextIsStored DEF Committed
<1>8. ASSUME NEW type \in BlockTypes, NEW t \in Tasks \cup {NoTask}, NEW paths \in SUBSET Files,
             Blocked(c, type, t, paths)
      PROVE  /\ Stores(c, "release")
             /\ progress'.status = "waiting" /\ progress'.stage = progress.stage
             /\ progress'.block = [type |-> type, task |-> t, files |-> paths]
             /\ progress'.commit = progress.commit
             /\ progress'.task = [u \in Tasks |-> IF u = t THEN "waiting" ELSE progress.task[u]]
  <2>1. [u \in Tasks |-> IF u = t THEN "waiting" ELSE progress.task[u]] \in [Tasks -> TaskStatus]
    BY <1>1 DEF TaskStatus
  <2>2. [type |-> type, task |-> t, files |-> paths] \in Block0 /\ "waiting" \in Status
    BY DEF Block0, Status
  <2> QED
    BY <1>1, <1>8, <2>1, <2>2, NextRowTyped, NextIsStored DEF Blocked
<1>9. ASSUME NEW found \in BOOLEAN, Reviewed(c, found)
      PROVE  /\ Stores(c, "release")
             /\ progress'.status = "waiting" /\ progress'.stage = "changes-review"
             /\ progress'.block = progress.block /\ progress'.task = progress.task
             /\ progress'.commit = progress.commit
  <2>1. "waiting" \in Status
    BY DEF Status
  <2> QED
    BY <1>1, <1>9, <2>1, NextRowTyped, NextIsStored DEF Reviewed
<1> QED
  BY <1>2, <1>3, <1>4, <1>5, <1>6, <1>7, <1>8, <1>9 DEF Written

-----------------------------------------------------------------------------
(* The types are kept *)

CallNext(c) == Client(c) \/ Recovery(c) \/ DoTask(c) \/ DoPhase(c)

\* What a step does to the rows.
LEMMA RowShapes ==
    ASSUME PlanAssumption, Base, Next
    PROVE  \/ \E c \in Calls : Written(c)
           \/ \E c \in Calls : Decide(c)
           \/ \E c \in Calls : ClaimWaiting(c) \/ Take(c)
           \/ \E c \in Calls : StartStep(c) \/ AgentDone(c)
           \/ MarkInterrupted
           \/ UNCHANGED durable
<1>1. ASSUME NEW c \in Calls, Client(c)
      PROVE  UNCHANGED durable
  BY <1>1 DEF Client, Start, Resume, CancelWaiting, Abort, Admit, Begin
<1>2. ASSUME NEW c \in Calls, Recovery(c)
      PROVE  Decide(c) \/ ClaimWaiting(c) \/ Take(c) \/ UNCHANGED durable
  BY <1>2 DEF Recovery, Acquire, Busy, ClaimRefused, DecideRefused, NothingToTake, TakeRefused,
              Release, Unlock, durable
<1>3. ASSUME NEW c \in Calls, DoTask(c)
      PROVE  Written(c) \/ StartStep(c) \/ AgentDone(c) \/ UNCHANGED durable
  BY <1>3, CoordinatorWrites DEF DoTask, OpenPhase, TasksDone, InspectTask, Verified, Throws,
              AgentWrites, CommandWrites, Write, durable
<1>4. ASSUME NEW c \in Calls, DoPhase(c)
      PROVE  Written(c) \/ UNCHANGED durable
  BY <1>4, CoordinatorWrites DEF DoPhase, StagePhase, Commit, Confirm, durable
<1>5. ASSUME Outside
      PROVE  MarkInterrupted \/ UNCHANGED durable
  BY <1>5 DEF Outside, HandEdit, HandRevert, HandCommit, ByHand, Crash, ClearLock, durable
<1> QED
  BY <1>1, <1>2, <1>3, <1>4, <1>5 DEF Next

LEMMA DecisionTyped ==
    ASSUME NEW p \in ProgressRow, NEW d \in Decisions
    PROVE  Decided(p, d) \in ProgressRow /\ Decided(p, d).revision = p.revision + 1
<1> DEFINE next == [p EXCEPT !.revision = @ + 1]
           task == [t \in Tasks |-> IF Retried(p, t) THEN "pending" ELSE p.task[t]]
           attempt == [t \in Tasks |-> p.attempt[t] + IF Retried(p, t) THEN 1 ELSE 0]
<1>1. next \in ProgressRow /\ next.revision = p.revision + 1
  BY DEF ProgressRow
<1>2. task \in [Tasks -> TaskStatus] /\ attempt \in [Tasks -> Nat \ {0}]
  <2>1. p.task \in [Tasks -> TaskStatus] /\ p.attempt \in [Tasks -> Nat \ {0}]
    BY DEF ProgressRow
  <2>2. task \in [Tasks -> TaskStatus]
    BY <2>1 DEF TaskStatus
  <2>3. \A t \in Tasks : p.attempt[t] + (IF Retried(p, t) THEN 1 ELSE 0) \in Nat \ {0}
    BY <2>1
  <2> QED
    BY <2>2, <2>3
<1>3. Decided(p, d) =
        CASE d = "approve-changes" -> [next EXCEPT !.status = "completed"]
          [] d = "cancel" -> [next EXCEPT !.status = "cancelled"]
          [] d = "continue" -> [next EXCEPT !.status = "running", !.block = NoBlock]
          [] d = "retry-task" -> [next EXCEPT !.status = "running", !.block = NoBlock,
                                               !.task = task, !.attempt = attempt]
  BY DEF Decided
<1>4. NoBlock \in Block0
  BY DEF Block0
<1> HIDE DEF next, task, attempt
<1>5. CASE d = "approve-changes"
  BY <1>1, <1>3, <1>5 DEF ProgressRow, Status
<1>6. CASE d = "cancel"
  BY <1>1, <1>3, <1>6 DEF ProgressRow, Status
<1>7. CASE d = "continue"
  BY <1>1, <1>3, <1>4, <1>7 DEF ProgressRow, Status
<1>8. CASE d = "retry-task"
  BY <1>1, <1>2, <1>3, <1>4, <1>8 DEF ProgressRow, Status
<1> QED
  BY <1>5, <1>6, <1>7, <1>8 DEF Decisions

\* What a decision starts from and leads to.
LEMMA DecideIsTyped ==
    ASSUME Base, NEW c \in Calls, Decide(c)
    PROVE  /\ calls[c].decision \in Decisions /\ progress' = Decided(progress, calls[c].decision)
           /\ progress' \in ProgressRow /\ progress'.revision = progress.revision + 1
           /\ progress.status = "waiting" /\ run' = progress'.status
<1>1. calls[c].decision \in AllowedDecisions(calls[c].seen)
  BY DEF Base, Placed, Decide, At, Asked
<1>2. calls[c].decision \in Decisions
  BY <1>1 DEF AllowedDecisions, Decisions
<1>3. progress \in ProgressRow /\ progress' = Decided(progress, calls[c].decision)
  BY DEF Base, RowTypes, Decide
<1> QED
  BY <1>2, <1>3, DecisionTyped DEF Decide, Unchanged

LEMMA StepTyped ==
    ASSUME step \in [Tasks -> [1..MaxAttempt -> StepStatus]],
           NEW t, NEW n, NEW s \in StepStatus
    PROVE  [step EXCEPT ![t][n] = s] \in [Tasks -> [1..MaxAttempt -> StepStatus]]
<1> DEFINE rows == [step[t] EXCEPT ![n] = s]
<1>1. [step EXCEPT ![t][n] = s] = [step EXCEPT ![t] = rows]
  OBVIOUS
<1>2. t \in Tasks => rows \in [1..MaxAttempt -> StepStatus]
  OBVIOUS
<1> HIDE DEF rows
<1> QED
  BY <1>1, <1>2

LEMMA RowTypesStep ==
    ASSUME PlanAssumption, Base, Next
    PROVE  RowTypes'
<1>1. RowTypes
  BY DEF Base
<1>2. ASSUME NEW c \in Calls, Written(c)
      PROVE  RowTypes'
  <2>1. progress' \in ProgressRow /\ run' \in Status \cup {"interrupted"}
    <3>1. \E point : Stores(c, point)
      BY <1>2, WrittenKinds
    <3>2. progress' \in ProgressRow /\ (run' = run \/ run' = progress'.status)
      BY <3>1 DEF Stores
    <3> QED
      BY <1>1, <3>2 DEF RowTypes, ProgressRow
  <2>2. intent' \in [Phases -> {NoIntent} \cup [parent : Nat \ {0}, tree : Tree]]
    <3>1. CASE Announced(c)
      <4>1. calls[c].start \in Nat \ {0} /\ calls[c].tree \in Tree
        BY <3>1 DEF Announced, Base, CallTypes, Call, Placed, InPhase, AtGate
      <4> DEFINE new == [parent |-> calls[c].start, tree |-> calls[c].tree]
      <4>2. new \in [parent : Nat \ {0}, tree : Tree]
        BY <4>1
      <4>3. intent' = [intent EXCEPT ![PhaseIn(progress)] = new]
        BY <3>1 DEF Announced
      <4> HIDE DEF new
      <4> QED
        BY <1>1, <4>2, <4>3 DEF RowTypes
    <3>2. CASE ~Announced(c)
      <4>1. intent' = intent
        BY <1>2, <3>2 DEF Written, Begun, Cancelled, Checked, Finished, Committed, Blocked, Reviewed
      <4> QED
        BY <1>1, <4>1 DEF RowTypes
    <3> QED
      BY <3>1, <3>2
  <2>3. step' \in [Tasks -> [1..MaxAttempt -> StepStatus]]
    <3>1. \/ step' = step
          \/ \E t, n : \E s \in {"completed", "cancelled", "failed"} : step' = [step EXCEPT ![t][n] = s]
      BY <1>2 DEF Written, Begun, Cancelled, Checked, Finished, Announced, Committed, Blocked,
                  BlockedRow, Reviewed
    <3>2. ASSUME NEW t, NEW n, NEW s \in {"completed", "cancelled", "failed"},
                 step' = [step EXCEPT ![t][n] = s]
          PROVE  step' \in [Tasks -> [1..MaxAttempt -> StepStatus]]
      <4>1. s \in StepStatus
        BY DEF StepStatus
      <4> QED
        BY <1>1, <3>2, <4>1, StepTyped DEF RowTypes
    <3> QED
      BY <1>1, <3>1, <3>2 DEF RowTypes
  <2> QED
    BY <2>1, <2>2, <2>3 DEF RowTypes
<1>3. ASSUME NEW c \in Calls, Decide(c)
      PROVE  RowTypes'
  BY <1>1, <1>3, DecideIsTyped DEF Decide, RowTypes, ProgressRow
<1>4. ASSUME NEW c \in Calls, ClaimWaiting(c) \/ Take(c)
      PROVE  RowTypes'
  BY <1>1, <1>4 DEF ClaimWaiting, Take, Claim, RowTypes, Status
<1>5. ASSUME NEW c \in Calls, StartStep(c) \/ AgentDone(c)
      PROVE  RowTypes'
  <2>1. \E t, n : \E s \in {"running", "completed"} : step' = [step EXCEPT ![t][n] = s]
    BY <1>5 DEF StartStep, AgentDone, SetStep
  <2>2. UNCHANGED <<run, progress, intent>>
    BY <1>5 DEF StartStep, AgentDone
  <2>3. step' \in [Tasks -> [1..MaxAttempt -> StepStatus]]
    BY <1>1, <2>1, StepTyped DEF RowTypes, StepStatus
  <2> QED
    BY <1>1, <2>2, <2>3 DEF RowTypes
<1>6. CASE MarkInterrupted
  BY <1>1, <1>6 DEF MarkInterrupted, RowTypes, StepStatus
<1>7. CASE UNCHANGED durable
  BY <1>1, <1>7 DEF durable, RowTypes
<1> QED
  BY <1>2, <1>3, <1>4, <1>5, <1>6, <1>7, RowShapes



LEMMA WorkPoints == {"phase", "task", "intent", "confirm"} \subseteq Points
BY DEF Points, Coordinator

LEMMA FreeIsCall == Free \in Call
BY DEF Free, Call, Points, Tree, Contents, Files0, NoProgress

\* Going to another point changes nothing else of the call.
LEMMA CallGoes ==
    ASSUME NEW c \in Calls, calls \in [Calls -> Call], NEW point \in Points, Go(c, point)
    PROVE  calls' \in [Calls -> Call] /\ calls' = [calls EXCEPT ![c].at = point]
BY DEF Go, Call

LEMMA CallEnds ==
    ASSUME NEW c \in Calls, calls \in [Calls -> Call], NEW then \in {"free", "admit", "run"},
           Ends(c, then)
    PROVE  calls' \in [Calls -> Call]
<1>1. CASE then = "free"
  BY <1>1, FreeIsCall DEF Ends
<1>2. CASE then # "free"
  <2> DEFINE call == [calls[c] EXCEPT !.at = then]
  <2>1. call \in Call
    BY <1>2 DEF Call, Points, Service, Runner
  <2>2. calls' = [calls EXCEPT ![c] = call]
    BY <1>2 DEF Ends
  <2> HIDE DEF call
  <2> QED
    BY <2>1, <2>2
<1> QED
  BY <1>1, <1>2

\* A step of a call moves that call alone.
Alone(c) == calls' \in [Calls -> Call] /\ \A d \in Calls \ {c} : calls'[d] = calls[d]

AllPoints == Service \cup Runner \cup Coordinator \cup {"free", "release", "unlock"}

LEMMA BeginIsAlone ==
    ASSUME Base, NEW c \in Calls, Client(c)
    PROVE  Alone(c)
<1>1. calls \in [Calls -> Call] /\ progress \in ProgressRow
  BY DEF Base, CallTypes, RowTypes
<1>2. ASSUME NEW call \in Call, Begin(c, call)
      PROVE  Alone(c)
  BY <1>1, <1>2 DEF Begin, Alone
<1>3. CASE Start(c)
  <2>1. [Free EXCEPT !.op = "start", !.at = "admit"] \in Call
    BY FreeIsCall DEF Call, Points, Service
  <2> QED
    BY <1>2, <1>3, <2>1 DEF Start
<1>4. ASSUME NEW op \in {"resume", "cancel"}, NEW d \in Decisions
      PROVE  Resuming(op, d) \in Call
  BY <1>1, FreeIsCall DEF Resuming, Call, Points, Service
<1>5. CASE Resume(c)
  BY <1>2, <1>4, <1>5 DEF Resume, AllowedDecisions, Decisions
<1>6. CASE CancelWaiting(c)
  BY <1>2, <1>4, <1>6 DEF CancelWaiting, Decisions
<1>7. CASE Abort(c)
  BY <1>1, <1>7 DEF Abort, Alone, Call
<1>8. CASE Admit(c)
  <2>1. calls' \in [Calls -> Call]
    BY <1>1, <1>8, CallEnds DEF Admit
  <2> QED
    BY <1>1, <1>8, <2>1 DEF Admit, Ends, Alone
<1> QED
  BY <1>3, <1>5, <1>6, <1>7, <1>8 DEF Client

LEMMA GoIsAlone ==
    ASSUME Base, NEW c \in Calls, NEW point \in AllPoints, Go(c, point)
    PROVE  Alone(c)
<1>1. calls \in [Calls -> Call] /\ point \in Points
  BY DEF Base, CallTypes, AllPoints, Points
<1> QED
  BY <1>1, CallGoes DEF Alone

LEMMA EndsIsAlone ==
    ASSUME Base, NEW c \in Calls, NEW then \in {"free", "admit", "run"}, Ends(c, then)
    PROVE  Alone(c)
<1>1. calls \in [Calls -> Call]
  BY DEF Base, CallTypes
<1>2. calls' \in [Calls -> Call]
  BY <1>1, CallEnds
<1> QED
  BY <1>1, <1>2 DEF Ends, Alone

LEMMA RecoveryIsAlone ==
    ASSUME Base, NEW c \in Calls, Recovery(c)
    PROVE  Alone(c)
<1>1. calls \in [Calls -> Call] /\ progress \in ProgressRow
  BY DEF Base, CallTypes, RowTypes
<1>2. CASE Acquire(c) \/ ClaimWaiting(c) \/ ClaimRefused(c) \/ DecideRefused(c) \/ Release(c)
  BY <1>2, GoIsAlone DEF Acquire, ClaimWaiting, ClaimRefused, DecideRefused, Release, AllPoints,
                         Service, Runner
<1>3. CASE Busy(c)
  BY <1>3, EndsIsAlone DEF Busy
<1>4. CASE Unlock(c)
  <2>1. calls[c].then \in {"free", "admit"}
    BY <1>1 DEF Call
  <2> QED
    BY <1>4, <2>1, EndsIsAlone DEF Unlock
<1>5. CASE Decide(c)
  <2> DEFINE then == IF calls[c].then = "free" /\ calls[c].op = "resume" THEN "admit" ELSE calls[c].then
             call == [calls[c] EXCEPT !.at = "release", !.seen = NoProgress, !.then = then]
  <2>1. call \in Call
    BY <1>1 DEF Call, Points
  <2>2. calls' = [calls EXCEPT ![c] = call]
    BY <1>1, <1>5 DEF Decide
  <2> HIDE DEF call
  <2> QED
    BY <1>1, <2>1, <2>2 DEF Alone
<1>6. CASE Take(c)
  <2> DEFINE call == [calls[c] EXCEPT !.at = "phase", !.local = progress, !.then = "free"]
  <2>1. call \in Call
    BY <1>1, WorkPoints DEF Call
  <2>2. calls' = [calls EXCEPT ![c] = call]
    BY <1>1, <1>6 DEF Take
  <2> HIDE DEF call
  <2> QED
    BY <1>1, <2>1, <2>2 DEF Alone
<1>7. CASE NothingToTake(c) \/ TakeRefused(c)
  BY <1>1, <1>7 DEF NothingToTake, TakeRefused, Alone, Call, Points
<1> QED
  BY <1>2, <1>3, <1>4, <1>5, <1>6, <1>7 DEF Recovery

LEMMA WrittenIsAlone ==
    ASSUME PlanAssumption, Base, NEW c \in Calls, Written(c)
    PROVE  Alone(c)
<1>1. calls \in [Calls -> Call]
  BY DEF Base, CallTypes
<1>2. PICK point : Stores(c, point)
  BY WrittenKinds
<1>3. point \in Points /\ progress' \in ProgressRow
  BY <1>2 DEF Stores, Points, Coordinator
<1>4. calls' = [calls EXCEPT ![c].local = progress', ![c].at = point]
  BY <1>2 DEF Stores
<1> DEFINE call == [calls[c] EXCEPT !.local = progress', !.at = point]
<1>5. call \in Call
  BY <1>1, <1>3 DEF Call
<1>6. calls' = [calls EXCEPT ![c] = call]
  BY <1>1, <1>4
<1> HIDE DEF call
<1> QED
  BY <1>1, <1>5, <1>6 DEF Alone

\* What the work on tasks and phases does besides storing progress.
LEMMA WorkIsAlone ==
    ASSUME PlanAssumption, Base, NEW c \in Calls, DoTask(c) \/ DoPhase(c)
    PROVE  Alone(c)
<1>1. calls \in [Calls -> Call]
  BY DEF Base, CallTypes
<1>2. CASE TasksDone(c) \/ StartStep(c) \/ AgentDone(c) \/ InspectTask(c) \/ Verified(c)
           \/ Throws(c) \/ Confirm(c)
  BY <1>2, GoIsAlone DEF TasksDone, StartStep, AgentDone, InspectTask, Verified, Throws, Confirm,
                         AllPoints, Coordinator
<1>3. CASE OpenPhase(c)
  <2>1. CASE OpenPhases(c) = {}
    BY <1>3, <2>1, GoIsAlone DEF OpenPhase, AllPoints, Coordinator
  <2>2. CASE OpenPhases(c) # {}
    <3>1. calls' = [calls EXCEPT ![c].at = "task", ![c].start = Len(log)] /\ Len(log) \in Nat
      BY <1>3, <2>2 DEF OpenPhase, Base, GitTypes
    <3> DEFINE call == [calls[c] EXCEPT !.at = "task", !.start = Len(log)]
    <3>2. call \in Call
      BY <1>1, <3>1, WorkPoints DEF Call
    <3>3. calls' = [calls EXCEPT ![c] = call]
      BY <1>1, <3>1
    <3> HIDE DEF call
    <3> QED
      BY <1>1, <3>2, <3>3 DEF Alone
  <2> QED
    BY <2>1, <2>2
<1>4. CASE StagePhase(c)
  <2>1. index' \in Tree
    BY <1>4 DEF StagePhase, Base, GitTypes, Tree
  <2>2. calls' = [calls EXCEPT ![c].at = "intent", ![c].tree = index']
    BY <1>4 DEF StagePhase
  <2> DEFINE call == [calls[c] EXCEPT !.at = "intent", !.tree = index']
  <2>3. call \in Call
    BY <1>1, <2>1, WorkPoints DEF Call
  <2>4. calls' = [calls EXCEPT ![c] = call]
    BY <1>1, <2>2
  <2> HIDE DEF call
  <2> QED
    BY <1>1, <2>3, <2>4 DEF Alone
<1>5. CASE Commit(c)
  <2>1. Len(log') \in Nat
    BY <1>5 DEF Commit, Base, GitTypes, HeadTree, Tree
  <2>2. calls' = [calls EXCEPT ![c].at = "confirm", ![c].sha = Len(log')]
    BY <1>5 DEF Commit
  <2> DEFINE call == [calls[c] EXCEPT !.at = "confirm", !.sha = Len(log')]
  <2>3. call \in Call
    BY <1>1, <2>1, WorkPoints DEF Call
  <2>4. calls' = [calls EXCEPT ![c] = call]
    BY <1>1, <2>2
  <2> HIDE DEF call
  <2> QED
    BY <1>1, <2>3, <2>4 DEF Alone
<1>6. CASE AgentWrites(c) \/ CommandWrites(c)
  BY <1>1, <1>6 DEF AgentWrites, CommandWrites, Write, Alone
<1> QED
  BY <1>2, <1>3, <1>4, <1>5, <1>6, CoordinatorWrites, WrittenIsAlone DEF DoTask, DoPhase

LEMMA StepIsAlone ==
    ASSUME PlanAssumption, Base, NEW c \in Calls, CallNext(c)
    PROVE  Alone(c)
BY BeginIsAlone, RecoveryIsAlone, WorkIsAlone DEF CallNext

\* Who takes and gives back lease and claim.
Leases(c) ==
    \/ UNCHANGED <<lock, claim>>
    \/ Acquire(c) \/ ClaimWaiting(c) \/ Take(c) \/ Release(c) \/ Unlock(c)

LEMMA StepLeases ==
    ASSUME PlanAssumption, Base, NEW c \in Calls, CallNext(c)
    PROVE  Leases(c)
<1>1. CASE Client(c)
  BY <1>1 DEF Client, Start, Resume, CancelWaiting, Abort, Admit, Begin, Leases
<1>2. CASE Recovery(c)
  BY <1>2 DEF Recovery, Busy, ClaimRefused, Decide, DecideRefused, NothingToTake, TakeRefused, Leases
<1>3. ASSUME Written(c)
      PROVE  UNCHANGED <<lock, claim>>
  BY <1>3, WrittenKinds DEF Stores
<1>4. CASE DoTask(c)
  BY <1>3, <1>4, CoordinatorWrites
     DEF DoTask, OpenPhase, TasksDone, StartStep, AgentDone, InspectTask, Verified, Throws,
         AgentWrites, CommandWrites, Write, Leases
<1>5. CASE DoPhase(c)
  BY <1>3, <1>5, CoordinatorWrites DEF DoPhase, StagePhase, Commit, Confirm, Leases
<1> QED
  BY <1>1, <1>2, <1>4, <1>5 DEF CallNext

LEMMA UsedTyped ==
    ASSUME CallsAssumption, PlanAssumption, Base, Next
    PROVE  used' \in [calls : 0..MaxCalls, faults : 0..MaxFaults] /\ failed' \in BOOLEAN
<1> USE DEF CallsAssumption
<1>1. used \in [calls : 0..MaxCalls, faults : 0..MaxFaults] /\ failed \in BOOLEAN
  BY DEF Base, CallTypes
<1>0. ASSUME Fault
      PROVE  used' \in [calls : 0..MaxCalls, faults : 0..MaxFaults]
  BY <1>0, <1>1 DEF Fault
<1>2. ASSUME NEW c \in Calls, Client(c)
      PROVE  /\ used' \in [calls : 0..MaxCalls, faults : 0..MaxFaults]
             /\ failed' = failed
  BY <1>1, <1>2 DEF Client, Start, Resume, CancelWaiting, Abort, Admit, Begin, Fault
<1>3. ASSUME NEW c \in Calls, Recovery(c)
      PROVE  used' = used /\ failed' \in BOOLEAN
  BY <1>1, <1>3 DEF Recovery, Acquire, Busy, ClaimWaiting, ClaimRefused, Decide, DecideRefused, Take,
                    NothingToTake, TakeRefused, Release, Unlock
<1>4. ASSUME NEW c \in Calls, Written(c)
      PROVE  used' = used /\ failed' = failed
  BY <1>4, WrittenKinds DEF Stores
<1>5. ASSUME NEW c \in Calls, DoTask(c)
      PROVE  used' \in [calls : 0..MaxCalls, faults : 0..MaxFaults] /\ failed' \in BOOLEAN
  BY <1>0, <1>1, <1>4, <1>5, CoordinatorWrites
     DEF DoTask, OpenPhase, TasksDone, StartStep, AgentDone, InspectTask, Verified, Throws,
         AgentWrites, CommandWrites, Write
<1>6. ASSUME NEW c \in Calls, DoPhase(c)
      PROVE  used' \in [calls : 0..MaxCalls, faults : 0..MaxFaults] /\ failed' = failed
  BY <1>0, <1>1, <1>4, <1>6, CoordinatorWrites DEF DoPhase, StagePhase, Commit, Confirm
<1>7. CASE Outside
  BY <1>0, <1>1, <1>7 DEF Outside, HandEdit, HandRevert, HandCommit, ByHand, Crash, ClearLock,
                          MarkInterrupted
<1> QED
  BY <1>1, <1>2, <1>3, <1>4, <1>5, <1>6, <1>7 DEF Next

LEMMA CallTypesStep ==
    ASSUME CallsAssumption, PlanAssumption, Base, Next
    PROVE  CallTypes'
<1>1. CallTypes
  BY DEF Base
<1>2. ASSUME NEW c \in Calls, CallNext(c)
      PROVE  CallTypes'
  <2>1. calls' \in [Calls -> Call]
    BY <1>2, StepIsAlone DEF Alone
  <2>2. lock' \in Calls \cup {0, Orphan} /\ claim' \in Calls \cup {0}
    BY <1>1, <1>2, StepLeases
       DEF Leases, Acquire, ClaimWaiting, Take, Claim, Release, Unlock, CallTypes
  <2> QED
    BY <2>1, <2>2, UsedTyped DEF CallTypes
<1>3. CASE Outside
  <2>1. calls' \in [Calls -> Call] /\ lock' \in Calls \cup {0, Orphan} /\ claim' \in Calls \cup {0}
    BY <1>1, <1>3, FreeIsCall
       DEF Outside, HandEdit, HandRevert, HandCommit, ByHand, Crash, ClearLock, MarkInterrupted, CallTypes
  <2> QED
    BY <2>1, UsedTyped DEF CallTypes
<1> QED
  BY <1>2, <1>3 DEF Next, CallNext

-----------------------------------------------------------------------------
(* Lease and claim *)

\* A call that comes to a point where it owns something took it, or owned it before.
LEMMA PointsFollowLeases ==
    ASSUME PlanAssumption, Base, NEW c \in Calls, CallNext(c)
    PROVE  \/ /\ UNCHANGED <<lock, claim>>
              /\ calls'[c].at \in Leased => calls[c].at \in Leased
              /\ Holds(c)' => Holds(c)
           \/ lock = 0 /\ lock' = c /\ claim' = claim /\ calls'[c].at \in {"claim", "take"}
           \/ lock = c /\ lock' = c /\ claim' = c
           \/ /\ calls[c].at = "release" /\ calls'[c].at = "unlock"
              /\ lock' = lock /\ claim' = 0
           \/ calls[c].at = "unlock" /\ calls'[c].at \in {"free", "admit"} /\ lock' = 0 /\ claim' = claim
<1> USE DEF Leased, Holds
<1>1. calls \in [Calls -> Call] /\ (calls[c].at \in Leased => lock = c)
  BY DEF Base, CallTypes, Owner
<1>2. CASE Client(c)
  <2>1. CASE Start(c) \/ Resume(c) \/ CancelWaiting(c)
    <3>1. UNCHANGED <<lock, claim>>
      BY <2>1 DEF Start, Resume, CancelWaiting, Begin
    <3>2. calls'[c].at \in {"lock", "admit"}
      BY <1>1, <2>1 DEF Start, Resume, CancelWaiting, Begin, Resuming, Free
    <3> QED
      BY <3>1, <3>2 DEF Coordinator
  <2>2. CASE Abort(c)
    BY <1>1, <2>2 DEF Abort
  <2>3. CASE Admit(c)
    <3>1. calls'[c].at \in {"free", "run"} /\ UNCHANGED <<lock, claim>>
      BY <1>1, <2>3 DEF Admit, Ends, Free
    <3> QED
      BY <3>1 DEF Coordinator
  <2> QED
    BY <1>2, <2>1, <2>2, <2>3 DEF Client
<1>3. CASE Acquire(c)
  BY <1>1, <1>3 DEF Acquire, LockFree, Go, At
<1>4. CASE ClaimWaiting(c) \/ Take(c)
  BY <1>1, <1>4 DEF ClaimWaiting, Take, Claim, At
<1>5. CASE Release(c)
  BY <1>1, <1>5 DEF Release, Go, At
<1>6. CASE Unlock(c)
  <2>1. calls[c].then \in {"free", "admit"}
    BY <1>1 DEF Call
  <2> QED
    BY <1>1, <1>6, <2>1 DEF Unlock, Ends, At, Free
<1>7. CASE Busy(c)
  BY <1>1, <1>7 DEF Busy, Ends, Free, Coordinator
<1>11. CASE ClaimRefused(c) \/ DecideRefused(c)
  <2>1. /\ UNCHANGED <<lock, claim>>
        /\ \/ calls[c].at = "claim" /\ calls'[c].at = "unlock"
           \/ calls[c].at = "decide" /\ calls'[c].at = "release"
    BY <1>1, <1>11 DEF ClaimRefused, DecideRefused, Go, At, Call
  <2> QED
    BY <2>1 DEF Coordinator
<1>12. CASE Decide(c) \/ NothingToTake(c) \/ TakeRefused(c)
  <2>1. /\ UNCHANGED <<lock, claim>>
        /\ \/ calls[c].at = "take" /\ calls'[c].at = "unlock"
           \/ calls[c].at = "decide" /\ calls'[c].at = "release"
    BY <1>1, <1>12 DEF Decide, NothingToTake, TakeRefused, At, Call
  <2> QED
    BY <2>1 DEF Coordinator
<1>8. ASSUME Written(c)
      PROVE  UNCHANGED <<lock, claim>> /\ Holds(c)
  BY <1>8, WrittenKinds DEF Stores
<1>9. CASE DoTask(c)
  <2>1. CASE OpenPhase(c) \/ TasksDone(c) \/ StartStep(c) \/ AgentDone(c) \/ InspectTask(c)
             \/ Verified(c) \/ Throws(c) \/ AgentWrites(c) \/ CommandWrites(c)
    BY <1>1, <2>1 DEF OpenPhase, TasksDone, StartStep, AgentDone, InspectTask, Verified, Throws,
         AgentWrites, CommandWrites, Write, Go, At, Coordinator
  <2> QED
    BY <1>8, <1>9, <2>1, CoordinatorWrites DEF DoTask
<1>10. CASE DoPhase(c)
  <2>1. CASE StagePhase(c) \/ Commit(c) \/ Confirm(c)
    BY <1>1, <2>1 DEF StagePhase, Commit, Confirm, Go, At, Coordinator
  <2> QED
    BY <1>8, <1>10, <2>1, CoordinatorWrites DEF DoPhase
<1> QED
  BY <1>2, <1>3, <1>4, <1>5, <1>6, <1>7, <1>9, <1>10, <1>11, <1>12 DEF CallNext, Recovery

LEMMA OwnerStep ==
    ASSUME CallsAssumption, PlanAssumption, Base, Next
    PROVE  Owner'
<1> USE DEF Holds
<1>1. \A d \in Calls : /\ d # 0 /\ d # Orphan
                       /\ calls[d].at \in Leased => lock = d
                       /\ calls[d].at \in {"decide", "release"} \cup Coordinator => claim = d
  BY DEF CallsAssumption, Orphan, Base, Owner
<1>2. {"decide", "release"} \cup Coordinator \subseteq Leased
  BY DEF Leased
<1>3. ASSUME NEW c \in Calls, CallNext(c)
      PROVE  Owner'
  <2> SUFFICES ASSUME NEW d \in Calls
               PROVE  /\ calls'[d].at \in Leased => lock' = d
                      /\ calls'[d].at \in {"decide", "release"} \cup Coordinator => claim' = d
    BY DEF Owner
  <2>1. d # c => calls'[d] = calls[d]
    BY <1>3, StepIsAlone DEF Alone
  <2>2. CASE /\ UNCHANGED <<lock, claim>>
             /\ calls'[c].at \in Leased => calls[c].at \in Leased
             /\ Holds(c)' => Holds(c)
    BY <1>1, <2>1, <2>2
  <2>3. CASE lock = 0 /\ lock' = c /\ claim' = claim /\ calls'[c].at \in {"claim", "take"}
    <3>1. calls'[c].at \notin {"decide", "release"} \cup Coordinator
      BY <2>3 DEF Coordinator
    <3> QED
      BY <1>1, <1>2, <2>1, <2>3, <3>1
  <2>4. CASE lock = c /\ lock' = c /\ claim' = c
    BY <1>1, <1>2, <2>1, <2>4
  <2>5. CASE calls[c].at = "release" /\ calls'[c].at = "unlock" /\ lock' = lock /\ claim' = 0
    <3>1. calls'[c].at \notin {"decide", "release"} \cup Coordinator
      BY <2>5 DEF Coordinator
    <3>2. calls[c].at \in Leased
      BY <2>5 DEF Leased
    <3> QED
      BY <1>1, <1>2, <2>1, <2>5, <3>1, <3>2
  <2>6. CASE calls[c].at = "unlock" /\ calls'[c].at \in {"free", "admit"} /\ lock' = 0 /\ claim' = claim
    <3>1. calls'[c].at \notin Leased
      BY <2>6 DEF Leased, Coordinator
    <3>2. calls[c].at \in Leased
      BY <2>6 DEF Leased
    <3> QED
      BY <1>1, <1>2, <2>1, <2>6, <3>1, <3>2
  <2> QED
    BY <1>3, <2>2, <2>3, <2>4, <2>5, <2>6, PointsFollowLeases
<1>4. CASE Crash
  <2>1. \A d \in Calls : calls'[d].at = "free"
    BY <1>4 DEF Crash, Free
  <2> QED
    BY <2>1 DEF Owner, Leased, Coordinator
<1>5. CASE ClearLock
  BY <1>1, <1>5 DEF ClearLock, Owner
<1>6. CASE HandEdit \/ HandRevert \/ HandCommit \/ MarkInterrupted
  BY <1>1, <1>6 DEF HandEdit, HandRevert, HandCommit, ByHand, MarkInterrupted, Owner
<1> QED
  BY <1>3, <1>4, <1>5, <1>6 DEF Next, CallNext, Outside

-----------------------------------------------------------------------------
(* Where a coordinator goes *)

\* Only the point changes, and what has no bearing on where the coordinator is.
Steady(c, from, to) ==
    /\ calls[c].at = from /\ calls'[c].at = to
    /\ calls'[c].local = calls[c].local /\ calls'[c].start = calls[c].start
    /\ calls'[c].tree = calls[c].tree /\ calls'[c].sha = calls[c].sha
    /\ UNCHANGED <<run, progress, intent>>

LEMMA GoIsSteady ==
    ASSUME NEW c \in Calls, calls \in [Calls -> Call], NEW to, Go(c, to),
           UNCHANGED <<run, progress, intent>>
    PROVE  Steady(c, calls[c].at, to)
BY DEF Go, Steady, Call

LEMMA WorkMoves ==
    ASSUME PlanAssumption, Base, NEW c \in Calls, CallNext(c), calls'[c].at \in Coordinator
    PROVE  \/ Take(c) \/ Written(c) \/ OpenPhase(c) \/ StagePhase(c) \/ Commit(c)
           \/ TasksDone(c) /\ Steady(c, "task", "gate")
           \/ StartStep(c) /\ Steady(c, "step", "agent")
           \/ AgentDone(c) /\ Steady(c, "agent", "inspect")
           \/ InspectTask(c) /\ (Steady(c, "inspect", "verify") \/ Steady(c, "reinspect", "checkpoint"))
           \/ Verified(c) /\ (Steady(c, "verify", "reinspect") \/ Steady(c, "gate", "stage"))
           \/ Confirm(c) /\ Steady(c, "confirm", "complete")
           \/ Steady(c, calls[c].at, calls[c].at) /\ step' = step
<1>1. calls \in [Calls -> Call]
  BY DEF Base, CallTypes
<1>2. CASE Client(c)
  <2>1. CASE Start(c) \/ Resume(c) \/ CancelWaiting(c)
    <3>1. calls'[c].at \in {"lock", "admit"}
      BY <1>1, <2>1 DEF Start, Resume, CancelWaiting, Begin, Resuming, Free
    <3> QED
      BY <3>1 DEF Coordinator
  <2>2. CASE Abort(c)
    BY <1>1, <2>2 DEF Abort, Steady, Call, durable
  <2>3. CASE Admit(c)
    <3>1. calls'[c].at \in {"free", "run"}
      BY <1>1, <2>3 DEF Admit, Ends, Free
    <3> QED
      BY <3>1 DEF Coordinator
  <2> QED
    BY <1>2, <2>1, <2>2, <2>3 DEF Client
<1>3. CASE Recovery(c)
  <2>1. CASE Busy(c)
    <3>1. calls'[c].at = "free"
      BY <1>1, <2>1 DEF Busy, Ends, Free
    <3> QED
      BY <3>1 DEF Coordinator
  <2>2. CASE Unlock(c)
    <3>1. calls'[c].at \in {"free", "admit"}
      BY <1>1, <2>2 DEF Unlock, Ends, Free, Call
    <3> QED
      BY <3>1 DEF Coordinator
  <2>3. CASE Acquire(c)
    <3>1. calls'[c].at \in {"claim", "take"}
      BY <1>1, <2>3 DEF Acquire, Go, Call
    <3> QED
      BY <3>1 DEF Coordinator
  <2>4. CASE ClaimWaiting(c) \/ ClaimRefused(c) \/ DecideRefused(c) \/ Release(c)
    <3>1. calls'[c].at \in {"decide", "unlock", "release"}
      BY <1>1, <2>4 DEF ClaimWaiting, ClaimRefused, DecideRefused, Release, Go, Call
    <3> QED
      BY <3>1 DEF Coordinator
  <2>5. CASE Decide(c) \/ NothingToTake(c) \/ TakeRefused(c)
    <3>1. calls'[c].at \in {"unlock", "release"}
      BY <1>1, <2>5 DEF Decide, NothingToTake, TakeRefused, Call
    <3> QED
      BY <3>1 DEF Coordinator
  <2> QED
    BY <1>3, <2>1, <2>2, <2>3, <2>4, <2>5 DEF Recovery
<1>4. CASE DoTask(c)
  <2> USE DEF At, durable
  <2>1. CASE TasksDone(c)
    BY <1>1, <2>1, GoIsSteady DEF TasksDone
  <2>2. CASE StartStep(c)
    BY <1>1, <2>2, GoIsSteady DEF StartStep
  <2>3. CASE AgentDone(c)
    BY <1>1, <2>3, GoIsSteady DEF AgentDone
  <2>4. CASE InspectTask(c)
    BY <1>1, <2>4, GoIsSteady DEF InspectTask
  <2>5. CASE Verified(c)
    BY <1>1, <2>5, GoIsSteady DEF Verified
  <2>6. CASE Throws(c)
    BY <1>1, <2>6 DEF Throws, Go, Coordinator
  <2>7. CASE AgentWrites(c) \/ CommandWrites(c)
    BY <2>7 DEF AgentWrites, CommandWrites, Write, Steady, durable
  <2> QED
    BY <1>4, <2>1, <2>2, <2>3, <2>4, <2>5, <2>6, <2>7, CoordinatorWrites DEF DoTask
<1>5. CASE DoPhase(c)
  <2>1. CASE Confirm(c)
    BY <1>1, <2>1, GoIsSteady DEF Confirm, At, durable
  <2> QED
    BY <1>5, <2>1, CoordinatorWrites DEF DoPhase
<1> QED
  BY <1>2, <1>3, <1>4, <1>5 DEF CallNext

\* Progress is stored by who holds the claim, and by nobody else.
LEMMA OnlyOwnerStores ==
    ASSUME PlanAssumption, Base, Next, progress' # progress
    PROVE  \E c \in Calls : claim = c /\ Holds(c) /\ (Written(c) \/ Decide(c))
<1>1. ASSUME NEW c \in Calls, Written(c)
      PROVE  claim = c /\ Holds(c)
  BY <1>1, WrittenKinds DEF Stores, Holds
<1>2. ASSUME NEW c \in Calls, Decide(c)
      PROVE  claim = c /\ Holds(c)
  BY <1>2 DEF Decide, At, Base, Owner, Holds
<1>3. ASSUME NEW c \in Calls, ClaimWaiting(c) \/ Take(c) \/ StartStep(c) \/ AgentDone(c)
      PROVE  FALSE
  BY <1>3 DEF ClaimWaiting, Take, StartStep, AgentDone
<1> QED
  BY <1>1, <1>2, <1>3, RowShapes DEF MarkInterrupted, durable

LEMMA FollowsStep ==
    ASSUME PlanAssumption, Base, Next
    PROVE  Follows'
<1> SUFFICES ASSUME NEW d \in Calls, calls'[d].at \in Coordinator
             PROVE  /\ calls'[d].local = progress'
                    /\ progress'.status \notin {"completed", "cancelled"}
  BY DEF Follows
<1>1. /\ calls \in [Calls -> Call]
      /\ calls[d].at \in Coordinator =>
           /\ calls[d].local = progress /\ progress.status \notin {"completed", "cancelled"}
           /\ claim = d
  BY DEF Base, CallTypes, Follows, Owner, Holds
<1>2. ASSUME Written(d)
      PROVE  /\ calls'[d].local = progress'
             /\ progress'.status \notin {"completed", "cancelled"}
  <2>1. ASSUME NEW point, Stores(d, point)
        PROVE  /\ calls'[d].local = progress' /\ calls'[d].at = point
               /\ calls[d].at \in Coordinator
    BY <1>1, <2>1 DEF Stores, Call
  <2>2. ~Stores(d, "release")
    BY <2>1 DEF Coordinator
  <2> QED
    BY <1>1, <1>2, <2>1, <2>2, WrittenKinds
<1>3. ASSUME Decide(d)
      PROVE  FALSE
  <2>1. calls'[d].at = "release"
    BY <1>1, <1>3 DEF Decide, Call
  <2> QED
    BY <2>1 DEF Coordinator
<1>4. ASSUME calls[d].at \in Coordinator, progress' # progress
      PROVE  Written(d)
  BY <1>1, <1>3, <1>4, OnlyOwnerStores
<1>5. ASSUME calls[d].at \in Coordinator, calls'[d].local = calls[d].local
      PROVE  /\ calls'[d].local = progress'
             /\ progress'.status \notin {"completed", "cancelled"}
  BY <1>1, <1>2, <1>4, <1>5
<1>6. CASE CallNext(d)
  <2>1. CASE Take(d)
    BY <1>1, <2>1 DEF Take, Call
  <2>2. CASE OpenPhase(d) \/ StagePhase(d) \/ Commit(d)
    <3>1. calls[d].at \in Coordinator
      BY <2>2 DEF OpenPhase, StagePhase, Commit, At, Coordinator
    <3>2. calls'[d].local = calls[d].local
      BY <1>1, <2>2 DEF OpenPhase, StagePhase, Commit, Go, Call
    <3> QED
      BY <1>5, <3>1, <3>2
  <2>3. ASSUME NEW from \in Coordinator, NEW to, Steady(d, from, to)
        PROVE  /\ calls'[d].local = progress'
               /\ progress'.status \notin {"completed", "cancelled"}
    BY <1>5, <2>3 DEF Steady
  <2>4. {"task", "step", "agent", "inspect", "reinspect", "verify", "gate", "confirm"} \subseteq Coordinator
    BY DEF Coordinator
  <2>5. Steady(d, calls[d].at, calls[d].at) => calls[d].at \in Coordinator
    BY DEF Steady
  <2> QED
    BY <1>2, <1>6, <2>1, <2>2, <2>3, <2>4, <2>5, WorkMoves
<1>7. ASSUME NEW c \in Calls, CallNext(c), c # d
      PROVE  /\ calls'[d].local = progress'
             /\ progress'.status \notin {"completed", "cancelled"}
  <2>1. calls'[d] = calls[d]
    BY <1>7, StepIsAlone DEF Alone
  <2> QED
    BY <1>5, <2>1
<1>8. CASE Outside
  <2>1. calls'[d] = calls[d]
    <3>1. CASE Crash
      BY <3>1 DEF Crash, Free, Coordinator
    <3> QED
      BY <1>8, <3>1 DEF Outside, HandEdit, HandRevert, HandCommit, ByHand, ClearLock, MarkInterrupted
  <2> QED
    BY <1>5, <2>1
<1> QED
  BY <1>6, <1>7, <1>8 DEF Next, CallNext

-----------------------------------------------------------------------------
(* The repository *)

LEMMA GitShapes ==
    ASSUME PlanAssumption, Base, Next
    PROVE  \/ UNCHANGED git
           \/ \E c \in Calls : StagePhase(c) \/ Commit(c) \/ InspectTask(c)
           \/ \E c \in Calls : AgentWrites(c) \/ CommandWrites(c)
           \/ HandEdit \/ HandRevert \/ HandCommit
<1>1. ASSUME NEW c \in Calls, Client(c) \/ Recovery(c)
      PROVE  UNCHANGED git
  BY <1>1 DEF Client, Start, Resume, CancelWaiting, Abort, Admit, Begin, Recovery, Acquire, Busy,
              ClaimWaiting, ClaimRefused, Decide, DecideRefused, Take, NothingToTake, TakeRefused,
              Release, Unlock
<1>2. ASSUME NEW c \in Calls, Written(c)
      PROVE  UNCHANGED git
  BY <1>2, WrittenKinds DEF Stores
<1>3. ASSUME NEW c \in Calls, DoTask(c)
      PROVE  UNCHANGED git \/ AgentWrites(c) \/ CommandWrites(c) \/ InspectTask(c)
  BY <1>2, <1>3, CoordinatorWrites
     DEF DoTask, OpenPhase, TasksDone, StartStep, AgentDone, Verified, Throws
<1>4. ASSUME NEW c \in Calls, DoPhase(c)
      PROVE  UNCHANGED git \/ StagePhase(c) \/ Commit(c)
  BY <1>2, <1>4, CoordinatorWrites DEF DoPhase, Confirm
<1>5. CASE Outside
  BY <1>5 DEF Outside, Crash, ClearLock, MarkInterrupted
<1> QED
  BY <1>1, <1>3, <1>4, <1>5 DEF Next

CommitRow == [phase : Phases \cup {NoPhase}, tree : Tree, late : SUBSET Files]

LEMMA HeadIsTree ==
    ASSUME GitTypes
    PROVE  Len(log) \in Nat \ {0} /\ log[Len(log)] \in CommitRow /\ HeadTree \in Tree
<1>1. log \in Seq(CommitRow) /\ Len(log) > 0
  BY DEF GitTypes, CommitRow
<1>2. Len(log) \in Nat \ {0} /\ log[Len(log)] \in CommitRow
  BY <1>1
<1> QED
  BY <1>2 DEF CommitRow, HeadTree

\* What an agent or a command writes is the work of a task.
LEMMA AuthorIsKnown ==
    ASSUME PlanAssumption, Base, NEW c \in Calls, calls[c].at \in {"agent", "verify", "gate"}
    PROVE  Author(c) \in Contents
<1>1. calls[c].at \in Coordinator /\ calls[c].at \in InPhase
  BY DEF Coordinator, InPhase, AtTask, AtGate
<1>2. CASE calls[c].at = "gate"
  <2>1. OpenPhasesOf(progress) # {}
    BY <1>1 DEF Base, Placed
  <2>2. Tasks # {} /\ Tasks = 1..Len(PhaseOf) /\ Len(PhaseOf) \in Nat
    BY <2>1 DEF OpenPhasesOf, Phases, Tasks, PlanAssumption
  <2>3. Len(PhaseOf) \in Tasks
    BY <2>2
  <2> QED
    BY <1>2, <2>3 DEF Author, At, Contents
<1>3. CASE calls[c].at \in {"agent", "verify"}
  <2>1. Task(c) \in Tasks
    BY <1>1, <1>3, AtWork DEF AtTask
  <2> QED
    BY <1>3, <2>1 DEF Author, At, Contents
<1> QED
  BY <1>2, <1>3

\* A hook of the repository adds files as they are.
LEMMA CommitTree ==
    ASSUME GitTypes, NEW c, Commit(c)
    PROVE  index' \in Tree /\ unseen' = {}
<1>1. \/ index' = index
      \/ \E f \in Files : index' = [index EXCEPT ![f] = worktree[f]]
  BY DEF Commit
<1> QED
  BY <1>1 DEF Commit, GitTypes, Tree

\* Whoever writes a file, adds it, or both, leaves a tree; what is added now is not seen yet.
LEMMA TouchMoves ==
    ASSUME GitTypes, NEW f \in Files, NEW by \in Contents, Touch(f, by)
    PROVE  /\ worktree' \in Tree /\ index' \in Tree /\ unseen' \subseteq Files
           /\ unseen \subseteq unseen'
           /\ \A g \in Files : index'[g] = index[g] \/ g \in unseen'
<1>1. PICK content \in {by, worktree[f]} :
        /\ worktree' = [worktree EXCEPT ![f] = content]
        /\ \/ index' = index /\ unseen' = unseen
           \/ index' = [index EXCEPT ![f] = content] /\ unseen' = unseen \cup {f}
  BY DEF Touch
<1>2. content \in Contents
  BY <1>1 DEF GitTypes, Tree
<1> QED
  BY <1>1, <1>2 DEF GitTypes, Tree

LEMMA WriteTouches ==
    ASSUME PlanAssumption, Base, Next,
           HandEdit \/ \E c \in Calls : AgentWrites(c) \/ CommandWrites(c)
    PROVE  \E f \in Files, by \in Contents : Touch(f, by)
<1>1. ASSUME NEW c \in Calls, AgentWrites(c) \/ CommandWrites(c)
      PROVE  \E f \in Files, by \in Contents : Touch(f, by)
  <2>1. Author(c) \in Contents
    BY <1>1, AuthorIsKnown DEF AgentWrites, CommandWrites, At
  <2> QED
    BY <1>1, <2>1 DEF AgentWrites, CommandWrites, Write
<1>2. HandWork \in Contents
  BY DEF Contents
<1> QED
  BY <1>1, <1>2 DEF HandEdit

\* Commits are only added.
LEMMA LogGrows ==
    ASSUME PlanAssumption, Base, Next
    PROVE  \/ log' = log
           \/ \E e \in CommitRow : log' = Append(log, e)
<1>1. GitTypes
  BY DEF Base
<1>2. ASSUME NEW c \in Calls, Commit(c)
      PROVE  \E e \in CommitRow : log' = Append(log, e)
  <2>1. Phase(c) \in Phases
    <3>1. calls[c].at \in Coordinator /\ calls[c].at \in InPhase
      BY <1>2 DEF Commit, At, Coordinator, InPhase, AtGate
    <3> QED
      BY <3>1, AtWork
  <2> DEFINE late == unseen \cup {f \in Files : index'[f] # index[f]}
  <2>2. index' \in Tree /\ late \in SUBSET Files
    BY <1>1, <1>2, CommitTree DEF GitTypes
  <2>3. log' = Append(log, [phase |-> Phase(c), tree |-> index', late |-> late])
    BY <1>2 DEF Commit
  <2> HIDE DEF late
  <2>4. [phase |-> Phase(c), tree |-> index', late |-> late] \in CommitRow
    BY <2>1, <2>2 DEF CommitRow
  <2> QED
    BY <2>3, <2>4
<1>3. ASSUME HandCommit
      PROVE  \E e \in CommitRow : log' = Append(log, e)
  <2>1. [phase |-> NoPhase, tree |-> worktree, late |-> {}] \in CommitRow
    BY <1>1 DEF GitTypes, CommitRow
  <2> QED
    BY <1>3, <2>1 DEF HandCommit
<1>4. ASSUME NEW c \in Calls, StagePhase(c) \/ InspectTask(c) \/ AgentWrites(c) \/ CommandWrites(c)
      PROVE  log' = log
  BY <1>4 DEF StagePhase, InspectTask, AgentWrites, CommandWrites, Write
<1> QED
  BY <1>2, <1>3, <1>4, GitShapes DEF HandEdit, HandRevert, git

LEMMA LogKept ==
    ASSUME PlanAssumption, Base, Next
    PROVE  /\ log' \in Seq(CommitRow)
           /\ Len(log) \in Nat \ {0} /\ Len(log') \in Nat /\ Len(log) <= Len(log')
           /\ \A n \in 1..Len(log) : log'[n] = log[n]
<1>1. log \in Seq(CommitRow) /\ Len(log) > 0
  BY DEF Base, GitTypes, CommitRow
<1>2. ASSUME NEW e \in CommitRow, log' = Append(log, e)
      PROVE  /\ log' \in Seq(CommitRow) /\ Len(log') = Len(log) + 1
             /\ \A n \in 1..Len(log) : log'[n] = log[n]
  BY <1>1, <1>2
<1> QED
  BY <1>1, <1>2, LogGrows

LEMMA GitTypesStep ==
    ASSUME PlanAssumption, Base, Next
    PROVE  GitTypes'
<1>1. GitTypes
  BY DEF Base
<1>2. log' \in Seq(CommitRow) /\ Len(log') > 0
  BY LogKept
<1>3. index \in Tree /\ worktree \in Tree /\ HeadTree \in Tree
  BY <1>1, HeadIsTree DEF GitTypes
<1>4. index' \in Tree /\ worktree' \in Tree /\ unseen' \subseteq Files
  <2>1. CASE UNCHANGED git
    BY <1>1, <2>1 DEF git, GitTypes
  <2>2. ASSUME NEW c \in Calls, StagePhase(c) \/ InspectTask(c)
        PROVE  index' \in Tree /\ worktree' \in Tree /\ unseen' \subseteq Files
    BY <1>1, <2>2 DEF StagePhase, InspectTask, GitTypes, Tree
  <2>3. CASE HandEdit \/ \E c \in Calls : AgentWrites(c) \/ CommandWrites(c)
    BY <1>1, <2>3, WriteTouches, TouchMoves
  <2>4. ASSUME NEW c \in Calls, Commit(c)
        PROVE  index' \in Tree /\ worktree' \in Tree /\ unseen' \subseteq Files
    BY <1>1, <1>3, <2>4, CommitTree DEF Commit
  <2> QED
    BY <1>3, <2>1, <2>2, <2>3, <2>4, GitShapes DEF HandRevert, HandCommit
<1> QED
  BY <1>2, <1>4 DEF GitTypes, CommitRow

\* The start and the commit a call remembers change at three places only.
LEMMA NumbersMove ==
    ASSUME PlanAssumption, Base, NEW c \in Calls, CallNext(c)
    PROVE  \/ calls'[c].start = calls[c].start /\ calls'[c].sha = calls[c].sha
           \/ calls'[c].start = 0 /\ calls'[c].sha = 0
           \/ calls'[c].start = Len(log) /\ calls'[c].sha = calls[c].sha
           \/ calls'[c].start = calls[c].start /\ calls'[c].sha = Len(log')
<1>1. calls \in [Calls -> Call]
  BY DEF Base, CallTypes
<1>2. CASE Client(c)
  <2>1. CASE Start(c) \/ Resume(c) \/ CancelWaiting(c)
    BY <1>1, <2>1 DEF Start, Resume, CancelWaiting, Begin, Resuming, Free
  <2>2. CASE Abort(c)
    BY <1>1, <2>2 DEF Abort, Call
  <2>3. CASE Admit(c)
    BY <1>1, <2>3 DEF Admit, Ends, Free, Call
  <2> QED
    BY <1>2, <2>1, <2>2, <2>3 DEF Client
<1>3. CASE Recovery(c)
  <2>1. CASE Busy(c) \/ Unlock(c)
    BY <1>1, <2>1 DEF Busy, Unlock, Ends, Free, Call
  <2>2. CASE Acquire(c) \/ ClaimWaiting(c) \/ ClaimRefused(c) \/ DecideRefused(c) \/ Release(c)
    BY <1>1, <2>2 DEF Acquire, ClaimWaiting, ClaimRefused, DecideRefused, Release, Go, Call
  <2>3. CASE Decide(c) \/ Take(c) \/ NothingToTake(c) \/ TakeRefused(c)
    BY <1>1, <2>3 DEF Decide, Take, NothingToTake, TakeRefused, Call
  <2> QED
    BY <1>3, <2>1, <2>2, <2>3 DEF Recovery
<1>4. ASSUME Written(c)
      PROVE  calls'[c].start = calls[c].start /\ calls'[c].sha = calls[c].sha
  <2>1. PICK point : Stores(c, point)
    BY <1>4, WrittenKinds
  <2> QED
    BY <1>1, <2>1 DEF Stores, Call
<1>5. CASE DoTask(c)
  <2>1. CASE TasksDone(c) \/ StartStep(c) \/ AgentDone(c) \/ InspectTask(c) \/ Verified(c) \/ Throws(c)
             \/ AgentWrites(c) \/ CommandWrites(c)
    BY <1>1, <2>1 DEF TasksDone, StartStep, AgentDone, InspectTask, Verified, Throws, AgentWrites,
                      CommandWrites, Write, Go, Call
  <2>2. CASE OpenPhase(c)
    BY <1>1, <2>2 DEF OpenPhase, Go, Call
  <2> QED
    BY <1>4, <1>5, <2>1, <2>2, CoordinatorWrites DEF DoTask
<1>6. CASE DoPhase(c)
  <2>1. CASE StagePhase(c) \/ Commit(c) \/ Confirm(c)
    BY <1>1, <2>1 DEF StagePhase, Commit, Confirm, Go, Call
  <2> QED
    BY <1>4, <1>6, <2>1, CoordinatorWrites DEF DoPhase
<1> QED
  BY <1>2, <1>3, <1>5, <1>6 DEF CallNext

LEMMA NumberedStep ==
    ASSUME PlanAssumption, Base, Next
    PROVE  Numbered'
<1>1. /\ \A c \in Calls : calls[c].start <= Len(log) /\ calls[c].sha <= Len(log)
      /\ \A p \in Phases : intent[p] # NoIntent => intent[p].parent <= Len(log)
  BY DEF Base, Numbered
<1>2. calls \in [Calls -> Call] /\ intent \in [Phases -> {NoIntent} \cup [parent : Nat \ {0}, tree : Tree]]
  BY DEF Base, CallTypes, RowTypes
<1>3. Len(log) \in Nat \ {0} /\ Len(log') \in Nat /\ Len(log) <= Len(log')
  BY LogKept
<1>4. ASSUME NEW d \in Calls
      PROVE  calls'[d].start <= Len(log') /\ calls'[d].sha <= Len(log')
  <2>1. /\ calls[d].start \in Nat /\ calls[d].sha \in Nat
        /\ calls[d].start <= Len(log) /\ calls[d].sha <= Len(log)
    BY <1>1, <1>2 DEF Call
  <2>2. CASE CallNext(d)
    BY <1>3, <2>1, <2>2, NumbersMove
  <2>3. CASE calls'[d] = calls[d]
    BY <1>3, <2>1, <2>3
  <2>4. CASE Crash
    BY <1>3, <2>4 DEF Crash, Free
  <2> QED
    BY <2>2, <2>3, <2>4, StepIsAlone
       DEF Next, CallNext, Alone, Outside, HandEdit, HandRevert, HandCommit, ByHand, ClearLock, MarkInterrupted
<1>5. ASSUME NEW p \in Phases, intent'[p] # NoIntent
      PROVE  intent'[p].parent <= Len(log')
  <2>1. CASE intent' = intent
    <3>1. intent[p].parent \in Nat /\ intent[p].parent <= Len(log)
      BY <1>1, <1>2, <1>5, <2>1
    <3> QED
      BY <1>3, <2>1, <3>1
  <2>2. ASSUME NEW c \in Calls, Announced(c)
        PROVE  intent'[p].parent <= Len(log')
    <3>1. calls[c].start \in Nat /\ calls[c].start <= Len(log)
      BY <1>1, <1>2 DEF Call
    <3>2. intent' = [intent EXCEPT ![PhaseIn(progress)] = [parent |-> calls[c].start, tree |-> calls[c].tree]]
      BY <2>2 DEF Announced
    <3>3. CASE p = PhaseIn(progress)
      <4>1. intent'[p].parent = calls[c].start
        BY <1>2, <3>2, <3>3
      <4> QED
        BY <1>3, <3>1, <4>1
    <3>4. CASE p # PhaseIn(progress)
      <4>1. intent'[p] = intent[p]
        BY <1>2, <3>2, <3>4
      <4>2. intent[p].parent \in Nat /\ intent[p].parent <= Len(log)
        BY <1>1, <1>2, <1>5, <4>1
      <4> QED
        BY <1>3, <4>1, <4>2
    <3> QED
      BY <3>3, <3>4
  <2>3. ASSUME NEW c \in Calls, Written(c)
        PROVE  intent' = intent \/ Announced(c)
    BY <2>3 DEF Written, Begun, Cancelled, Checked, Finished, Committed, Blocked, Reviewed
  <2> QED
    BY <2>1, <2>2, <2>3, RowShapes
       DEF Decide, ClaimWaiting, Take, StartStep, AgentDone, MarkInterrupted, durable
<1> QED
  BY <1>4, <1>5 DEF Numbered

-----------------------------------------------------------------------------
(* Places and requests *)

LEMMA SamePlaces ==
    ASSUME NEW p, NEW q, p.commit = q.commit
    PROVE  /\ OpenPhasesOf(p) = OpenPhasesOf(q) /\ PhaseIn(p) = PhaseIn(q)
           /\ p.task = q.task => OpenTasksOf(p) = OpenTasksOf(q) /\ TaskIn(p) = TaskIn(q)
BY DEF OpenPhasesOf, PhaseIn, OpenTasksOf, TaskIn

\* What another call does leaves a coordinator's row alone.
LEMMA OthersKeep ==
    ASSUME PlanAssumption, Base, Next, NEW d \in Calls, calls[d].at \in Coordinator,
           calls'[d] = calls[d]
    PROVE  progress' = progress
<1>1. /\ calls \in [Calls -> Call] /\ progress \in ProgressRow
      /\ calls[d].local = progress /\ claim = d
  BY DEF Base, CallTypes, RowTypes, Follows, Owner, Holds
<1>2. ASSUME Written(d)
      PROVE  FALSE
  <2>1. PICK point : Stores(d, point)
    BY <1>2, WrittenKinds
  <2>2. progress'.revision = progress.revision + 1 /\ calls'[d].local = progress'
    BY <1>1, <2>1 DEF Stores, Call
  <2>3. progress.revision \in Nat
    BY <1>1 DEF ProgressRow
  <2> QED
    BY <1>1, <2>2, <2>3
<1>3. ASSUME Decide(d)
      PROVE  FALSE
  BY <1>3 DEF Decide, At, Coordinator
<1> QED
  BY <1>1, <1>2, <1>3, OnlyOwnerStores

\* A request comes from the row its client saw, or goes on as it was.
LEMMA AskMoves ==
    ASSUME PlanAssumption, Base, NEW c \in Calls, CallNext(c), calls'[c].at \in Asked
    PROVE  /\ progress' = progress
           /\ calls'[c].at = "decide" => calls[c].at = "decide" \/ run' = "running"
           /\ \/ /\ calls[c].at \in Asked
                 /\ calls'[c].seen = calls[c].seen /\ calls'[c].decision = calls[c].decision
              \/ /\ calls'[c].seen = progress /\ calls'[c].decision \in AllowedDecisions(progress)
                 /\ used'.calls = used.calls + 1
<1>1. calls \in [Calls -> Call]
  BY DEF Base, CallTypes
<1>2. CASE Client(c)
  <2>1. CASE Start(c)
    BY <1>1, <2>1 DEF Start, Begin, Free, Asked
  <2>2. CASE Resume(c) \/ CancelWaiting(c)
    <3>1. used'.calls = used.calls + 1
      BY <2>2 DEF Resume, CancelWaiting, Begin, Base, CallTypes
    <3> QED
      BY <1>1, <2>2, <3>1 DEF Resume, CancelWaiting, Begin, Resuming, Free, durable
  <2>3. CASE Abort(c)
    BY <1>1, <2>3 DEF Abort, Call, durable
  <2>4. CASE Admit(c)
    BY <1>1, <2>4 DEF Admit, Ends, Free, Call, Asked
  <2> QED
    BY <1>2, <2>1, <2>2, <2>3, <2>4 DEF Client
<1>3. CASE Recovery(c)
  <2>1. CASE Busy(c) \/ Unlock(c)
    BY <1>1, <2>1 DEF Busy, Unlock, Ends, Free, Call, Asked
  <2>2. CASE Acquire(c)
    <3>1. calls[c].at = "lock"
      BY <1>1, <2>2 DEF Acquire, Go, At, Call, Asked
    <3> QED
      BY <1>1, <2>2, <3>1 DEF Acquire, Go, Call, Asked, durable
  <2>3. CASE ClaimWaiting(c)
    BY <1>1, <2>3 DEF ClaimWaiting, Claim, Go, At, Call, Asked
  <2>4. CASE ClaimRefused(c) \/ DecideRefused(c) \/ Release(c)
    BY <1>1, <2>4 DEF ClaimRefused, DecideRefused, Release, Go, Call, Asked
  <2>5. CASE Decide(c) \/ Take(c) \/ NothingToTake(c) \/ TakeRefused(c)
    BY <1>1, <2>5 DEF Decide, Take, NothingToTake, TakeRefused, Call, Asked
  <2> QED
    BY <1>3, <2>1, <2>2, <2>3, <2>4, <2>5 DEF Recovery
<1>4. ASSUME Written(c)
      PROVE  FALSE
  <2>1. PICK point : Stores(c, point)
    BY <1>4, WrittenKinds
  <2>2. calls'[c].at = point
    BY <1>1, <2>1 DEF Stores, Call
  <2> QED
    BY <2>1, <2>2 DEF Stores, Asked
<1>5. CASE DoTask(c)
  <2>1. CASE TasksDone(c) \/ StartStep(c) \/ AgentDone(c) \/ InspectTask(c) \/ Verified(c) \/ Throws(c)
    BY <1>1, <2>1 DEF TasksDone, StartStep, AgentDone, InspectTask, Verified, Throws, Go, Call, Asked
  <2>2. CASE AgentWrites(c) \/ CommandWrites(c)
    BY <1>1, <2>2 DEF AgentWrites, CommandWrites, Write, At, Asked
  <2>3. CASE OpenPhase(c)
    BY <1>1, <2>3 DEF OpenPhase, Go, Call, Asked
  <2> QED
    BY <1>4, <1>5, <2>1, <2>2, <2>3, CoordinatorWrites DEF DoTask
<1>6. CASE DoPhase(c)
  <2>1. CASE StagePhase(c) \/ Commit(c) \/ Confirm(c)
    BY <1>1, <2>1 DEF StagePhase, Commit, Confirm, Go, Call, Asked
  <2> QED
    BY <1>4, <1>6, <2>1, CoordinatorWrites DEF DoPhase
<1> QED
  BY <1>2, <1>3, <1>5, <1>6 DEF CallNext

\* Where a coordinator comes to, its phase and its task are there.
LEMMA PlacesStep ==
    ASSUME PlanAssumption, Base, NEW c \in Calls, CallNext(c), Next, calls'[c].at \in Coordinator
    PROVE  /\ calls'[c].at \in InPhase => OpenPhasesOf(progress') # {} /\ calls'[c].start > 0
           /\ calls'[c].at \in AtTask => OpenTasksOf(progress') # {}
           /\ calls'[c].at \in {"confirm", "complete"} => calls'[c].sha > 1
<1> USE DEF InPhase, AtTask, AtGate
<1>1. /\ calls \in [Calls -> Call] /\ progress \in ProgressRow
      /\ calls[c].at \in InPhase => OpenPhasesOf(progress) # {} /\ calls[c].start > 0
      /\ calls[c].at \in AtTask => OpenTasksOf(progress) # {}
      /\ calls[c].at \in {"confirm", "complete"} => calls[c].sha > 1
  BY DEF Base, CallTypes, RowTypes, Placed
<1>2. Len(log) \in Nat \ {0} /\ Len(log') \in Nat
  BY LogKept
<1>3. CASE Take(c)
  BY <1>1, <1>3 DEF Take, Call
<1>4. CASE Written(c)
  <2>1. ASSUME NEW point, Stores(c, point)
        PROVE  calls'[c].at = point /\ calls'[c].start = calls[c].start /\ calls'[c].sha = calls[c].sha
    BY <1>1, <2>1 DEF Stores, Call
  <2>2. ASSUME progress'.commit = progress.commit
        PROVE  /\ OpenPhasesOf(progress') = OpenPhasesOf(progress) /\ PhaseIn(progress') = PhaseIn(progress)
               /\ progress'.task = progress.task => OpenTasksOf(progress') = OpenTasksOf(progress)
    BY <2>2, SamePlaces
  <2>3. CASE /\ Begun(c) /\ Stores(c, "step")
             /\ progress'.task = [progress.task EXCEPT ![TaskIn(progress)] = "running"]
             /\ progress'.commit = progress.commit
    <3>1. calls[c].at = "task" /\ OpenTasksOf(progress) # {}
      BY <2>3 DEF Begun
    <3>2. TaskIn(progress) \in Tasks /\ PhaseOf[TaskIn(progress)] = PhaseIn(progress)
      BY <3>1, TaskIsOpen
    <3>3. progress'.task[TaskIn(progress)] = "running"
      BY <1>1, <2>3, <3>2 DEF ProgressRow
    <3>4. TaskIn(progress) \in OpenTasksOf(progress')
      BY <2>2, <2>3, <3>2, <3>3 DEF OpenTasksOf
    <3> QED
      BY <1>1, <2>1, <2>2, <2>3, <3>1, <3>4
  <2>4. CASE Checked(c) /\ Stores(c, "settle") /\ SameRow(progress')
    BY <1>1, <2>1, <2>2, <2>4 DEF Checked, SameRow
  <2>5. CASE Finished(c) /\ Stores(c, "task") /\ progress'.commit = progress.commit
    BY <1>1, <2>1, <2>2, <2>5 DEF Finished
  <2>6. CASE Announced(c) /\ Stores(c, "commit") /\ SameRow(progress')
    BY <1>1, <2>1, <2>2, <2>6 DEF Announced, SameRow
  <2>7. CASE Stores(c, "phase") \/ Stores(c, "release")
    BY <2>1, <2>7
  <2> QED
    BY <1>4, <2>3, <2>4, <2>5, <2>6, <2>7, WrittenKinds
<1>5. CASE OpenPhase(c)
  <2>1. OpenPhases(c) = OpenPhasesOf(progress) /\ progress' = progress
    BY <1>5, AtWork DEF OpenPhase, At, Coordinator, durable
  <2>2. \/ calls'[c].at = "review"
        \/ OpenPhases(c) # {} /\ calls'[c].at = "task" /\ calls'[c].start = Len(log)
    BY <1>1, <1>5 DEF OpenPhase, Go, Call
  <2> QED
    BY <1>2, <2>1, <2>2
<1>6. CASE StagePhase(c)
  <2>1. /\ calls[c].at = "stage" /\ calls'[c].at = "intent" /\ calls'[c].start = calls[c].start
        /\ progress' = progress
    BY <1>1, <1>6 DEF StagePhase, At, Call, durable
  <2> QED
    BY <1>1, <2>1
<1>7. CASE Commit(c)
  <2>1. /\ calls[c].at = "commit" /\ calls'[c].at = "confirm" /\ calls'[c].start = calls[c].start
        /\ calls'[c].sha = Len(log') /\ progress' = progress
    BY <1>1, <1>7 DEF Commit, At, Call, durable
  <2>2. /\ \E e : log' = Append(log, e)
        /\ log \in Seq(CommitRow)
    BY <1>7 DEF Commit, Base, GitTypes, CommitRow
  <2>3. Len(log') = Len(log) + 1
    BY <2>2
  <2> QED
    BY <1>1, <1>2, <2>1, <2>3
<1>8. ASSUME NEW from, NEW to, Steady(c, from, to)
      PROVE  /\ calls[c].at = from /\ calls'[c].at = to /\ progress' = progress
             /\ calls'[c].start = calls[c].start /\ calls'[c].sha = calls[c].sha
  BY <1>8 DEF Steady
<1> QED
  BY <1>1, <1>3, <1>4, <1>5, <1>6, <1>7, <1>8, WorkMoves

LEMMA PlacedStep ==
    ASSUME PlanAssumption, Base, Next
    PROVE  Placed'
<1>1. progress \in ProgressRow
  BY DEF Base, RowTypes
<1>2. InPhase \subseteq Coordinator /\ AtTask \subseteq Coordinator
      /\ {"confirm", "complete"} \subseteq Coordinator
  BY DEF InPhase, AtTask, AtGate, Coordinator
<1> SUFFICES ASSUME NEW d \in Calls
             PROVE  /\ calls'[d].at \in InPhase => OpenPhasesOf(progress') # {} /\ calls'[d].start > 0
                    /\ calls'[d].at \in AtTask => OpenTasksOf(progress') # {}
                    /\ calls'[d].at \in Asked =>
                         /\ calls'[d].seen \in ProgressRow
                         /\ calls'[d].decision \in AllowedDecisions(calls'[d].seen)
                    /\ calls'[d].at \in {"confirm", "complete"} => calls'[d].sha > 1
  BY DEF Placed
<1>3. /\ calls[d].at \in InPhase => OpenPhasesOf(progress) # {} /\ calls[d].start > 0
      /\ calls[d].at \in AtTask => OpenTasksOf(progress) # {}
      /\ calls[d].at \in Asked =>
           calls[d].seen \in ProgressRow /\ calls[d].decision \in AllowedDecisions(calls[d].seen)
      /\ calls[d].at \in {"confirm", "complete"} => calls[d].sha > 1
  BY DEF Base, Placed
<1>4. CASE CallNext(d)
  <2>1. calls'[d].at \in Asked =>
           /\ calls'[d].seen \in ProgressRow
           /\ calls'[d].decision \in AllowedDecisions(calls'[d].seen)
    BY <1>1, <1>3, <1>4, AskMoves
  <2> QED
    BY <1>2, <1>4, <2>1, PlacesStep
<1>5. CASE calls'[d] = calls[d]
  <2>1. calls[d].at \in Coordinator => progress' = progress
    BY <1>5, OthersKeep
  <2> QED
    BY <1>2, <1>3, <1>5, <2>1
<1>6. CASE Crash
  <2>1. calls'[d].at = "free"
    BY <1>6 DEF Crash, Free
  <2> QED
    BY <2>1 DEF InPhase, AtTask, AtGate, Asked
<1> QED
  BY <1>4, <1>5, <1>6, StepIsAlone
     DEF Next, CallNext, Alone, Outside, HandEdit, HandRevert, HandCommit, ByHand, ClearLock, MarkInterrupted

-----------------------------------------------------------------------------
(* Well-formed states, and who owns them *)

LEMMA BaseInit ==
    ASSUME PlanAssumption, CallsAssumption, Init
    PROVE  Base
<1>1. RowTypes
  <2>1. progress \in ProgressRow
    <3>1. /\ "pending" \in Status /\ "pending" \in TaskStatus /\ NoBlock \in Block0
      BY DEF Status, TaskStatus, Block0
    <3> QED
      BY <3>1 DEF Init, ProgressRow
  <2> QED
    BY <2>1 DEF Init, RowTypes, Status, StepStatus
<1>2. Files0 \in Tree
  BY DEF Files0, Tree, Contents
<1>3. GitTypes
  <2>1. [phase |-> NoPhase, tree |-> Files0, late |-> {}] \in
          [phase : Phases \cup {NoPhase}, tree : Tree, late : SUBSET Files]
    BY <1>2
  <2> QED
    BY <1>2, <2>1 DEF Init, GitTypes
<1>4. CallTypes
  <2>1. calls \in [Calls -> Call]
    BY FreeIsCall DEF Init
  <2>2. MaxCalls \in Nat /\ MaxFaults \in Nat
    BY DEF CallsAssumption
  <2>3. used \in [calls : 0..MaxCalls, faults : 0..MaxFaults]
    BY <2>2 DEF Init
  <2> QED
    BY <2>1, <2>3 DEF Init, CallTypes
<1>5. Numbered
  BY DEF Init, Numbered, Free
<1>6. \A c \in Calls : calls[c].at = "free"
  BY DEF Init, Free
<1>7. Owner /\ Follows /\ Placed
  BY <1>6 DEF Owner, Follows, Placed, Leased, Holds, Coordinator, InPhase, AtTask, AtGate, Asked
<1> QED
  BY <1>1, <1>3, <1>4, <1>5, <1>7 DEF Base

LEMMA BaseStep ==
    ASSUME PlanAssumption, CallsAssumption, Base, [Next]_vars
    PROVE  Base'
<1>1. CASE Next
  BY <1>1, RowTypesStep, GitTypesStep, CallTypesStep, NumberedStep, OwnerStep, FollowsStep, PlacedStep
     DEF Base
<1>2. CASE UNCHANGED vars
  BY <1>2 DEF vars, durable, git, Base, RowTypes, GitTypes, CallTypes, Numbered, Owner, Follows,
              Placed, Holds
<1> QED
  BY <1>1, <1>2

\* Base: the row of the execution, the repository and the state of every call are well
\* formed; the lease of the workspace and the claim of the execution belong to the call
\* whose place in execute says so, one at a time; what that call remembers is the stored
\* row, and it stands where the loops of execute would find it from that row.
THEOREM BaseHolds == Spec => []Base
<1> USE Assumptions
<1>1. Init => Base
  BY BaseInit
<1>2. Base /\ [Next]_vars => Base'
  BY BaseStep
<1> QED
  BY <1>1, <1>2, PTL DEF Spec

\* OneWriter: whoever works on the workspace has the lease and the claim, hence is alone
\* (claimGuidedExecution and the workspace lock), and what it remembers is what is stored,
\* so that no save of the coordinator overwrites the decision or the result of another call.
THEOREM OneWriterHolds == Spec => []OneWriter
<1> USE Assumptions
<1>1. Base => OneWriter
  BY DEF Base, Owner, Follows, OneWriter, Leased, Holds
<1> QED
  BY <1>1, BaseHolds, PTL

-----------------------------------------------------------------------------
(* Decisions, attempts and what is done: the rest of the inductive invariant *)

\* The revision tells whether the row is the one a request saw.
Remembered ==
    \A c \in Calls : calls[c].at \in Asked =>
        /\ calls[c].seen.revision <= progress.revision
        /\ calls[c].seen.revision = progress.revision => calls[c].seen = progress

\* Every attempt but the first was asked for by a call, which saw the one before.
Attempts ==
    /\ \A t \in Tasks : progress.attempt[t] <= used.calls + 1
    /\ \A c \in Calls : calls[c].at \in Asked /\ calls[c].seen.revision = progress.revision =>
         \A t \in Tasks : progress.attempt[t] <= used.calls

\* The run is at work while somebody is, and has ended when the execution has.
RunFollows ==
    /\ RunAgrees
    /\ \A c \in Calls : calls[c].at \in {"decide"} \cup Coordinator => run = "running"
    /\ progress.status \in {"completed", "cancelled"} => run = progress.status

\* Only the last attempt of a task at work has a running row; a task that the
\* execution waits for waits with it.
TaskRows ==
    /\ \A t \in Tasks : \A n \in 1..MaxAttempt : step[t][n] = "running" =>
         n = progress.attempt[t] /\ progress.task[t] = "running"
    /\ \A c \in Calls : calls[c].at \in AtTask =>
         progress.status = "running" /\ progress.task[TaskIn(progress)] = "running"
    /\ \A c \in Calls : calls[c].at \in AtTask \ {"step", "agent"} =>
         step[TaskIn(progress)][progress.attempt[TaskIn(progress)]] = "completed"
    /\ progress.status = "waiting" /\ progress.stage = "execution" /\ progress.block # NoBlock =>
         \A t \in Tasks : t = progress.block.task => progress.task[t] = "waiting"

Firm == Base /\ Remembered /\ Attempts /\ RunFollows /\ TaskRows

\* The files a commit of a log changes, the tree of the last one, and what is staged on it.
ChangedIn(commits, n) == {f \in Files : commits[n].tree[f] # commits[n - 1].tree[f]}
LastTree(commits) == commits[Len(commits)].tree
Loose(commits, staged) == {f \in Files : staged[f] # LastTree(commits)[f]}

\* A completed phase of the row is its commit in a log, by the intents on record.
PhaseIsCommit(p, rec, commits, intents) ==
    LET n == rec.commit[p] IN
    /\ n \in 2..Len(commits)
    /\ commits[n].phase = p
    /\ intents[p] = [parent |-> n - 1, tree |-> commits[n].tree]
    /\ ChangedIn(commits, n) \subseteq PhaseScope(p) \cup commits[n].late
    /\ \A q \in 1..(p - 1) : rec.commit[q] \in 1..(n - 1)
    /\ \A t \in Tasks : PhaseOf[t] = p => rec.task[t] = "completed"

\* What is staged and not committed is of the phase at work, or nobody has inspected it.
Staged(rec, commits, staged, since) ==
    \A f \in Loose(commits, staged) \ since : OpenPhasesOf(rec) # {} /\ f \in PhaseScope(PhaseIn(rec))

\* From the gate on the tasks of the phase are done; then the intent is on record;
\* then the commit is made, of files of the phase and what nobody has inspected, and nothing
\* else is left staged.
AtCommit(call, rec, commits, intents, staged, since) ==
    /\ call.at \in AtGate => OpenTasksOf(rec) = {}
    /\ call.at \in InPhase => \A q \in Phases : q < PhaseIn(rec) => rec.commit[q] <= call.start
    /\ call.at \in {"commit", "confirm", "complete"} =>
         intents[PhaseIn(rec)] = [parent |-> call.start, tree |-> call.tree]
    /\ call.at \in {"confirm", "complete"} =>
         /\ commits[call.sha].phase = PhaseIn(rec)
         /\ ChangedIn(commits, call.sha) \subseteq PhaseScope(PhaseIn(rec)) \cup commits[call.sha].late
         /\ Loose(commits, staged) \subseteq since
    /\ call.at = "complete" => call.sha - 1 = call.start /\ commits[call.sha].tree = call.tree
    /\ call.at = "review" => OpenPhasesOf(rec) = {}

Committing ==
    /\ \A p \in Phases : progress.commit[p] # 0 => PhaseIsCommit(p, progress, log, intent)
    /\ progress.stage = "changes-review" => OpenPhasesOf(progress) = {}
    /\ Staged(progress, log, index, unseen)
    /\ \A c \in Calls : AtCommit(calls[c], progress, log, intent, index, unseen)

LEMMA RevisionGrows ==
    ASSUME PlanAssumption, Base, Next
    PROVE  /\ progress \in ProgressRow /\ progress' \in ProgressRow
           /\ progress' = progress \/ progress'.revision = progress.revision + 1
<1>1. progress \in ProgressRow /\ progress' \in ProgressRow
  BY RowTypesStep DEF Base, RowTypes
<1>2. ASSUME NEW c \in Calls, Written(c)
      PROVE  progress'.revision = progress.revision + 1
  BY <1>2, WrittenKinds DEF Stores
<1> QED
  BY <1>1, <1>2, OnlyOwnerStores, DecideIsTyped

\* What a request is after a step: new, or as it was; and the row, if changed, is of a new revision.
LEMMA RequestKept ==
    ASSUME PlanAssumption, CallsAssumption, Base, Next, NEW d \in Calls, calls'[d].at \in Asked
    PROVE  \/ /\ calls[d].at \in Asked /\ calls'[d].seen = calls[d].seen
              /\ calls[d].seen \in ProgressRow
           \/ progress' = progress /\ calls'[d].seen = progress /\ used'.calls = used.calls + 1
<1>1. calls[d].at \in Asked => calls[d].seen \in ProgressRow
  BY DEF Base, Placed
<1>2. CASE CallNext(d)
  BY <1>1, <1>2, AskMoves
<1>3. CASE calls'[d] = calls[d]
  BY <1>1, <1>3
<1>4. CASE Crash
  <2>1. calls'[d].at = "free"
    BY <1>4 DEF Crash, Free
  <2> QED
    BY <2>1 DEF Asked
<1> QED
  BY <1>2, <1>3, <1>4, StepIsAlone
     DEF Next, CallNext, Alone, Outside, HandEdit, HandRevert, HandCommit, ByHand, ClearLock, MarkInterrupted

LEMMA RememberedStep ==
    ASSUME PlanAssumption, CallsAssumption, Base, Remembered, Next
    PROVE  Remembered'
<1> SUFFICES ASSUME NEW d \in Calls, calls'[d].at \in Asked
             PROVE  /\ calls'[d].seen.revision <= progress'.revision
                    /\ calls'[d].seen.revision = progress'.revision => calls'[d].seen = progress'
  BY DEF Remembered
<1>1. calls[d].at \in Asked =>
        /\ calls[d].seen.revision <= progress.revision
        /\ calls[d].seen.revision = progress.revision => calls[d].seen = progress
  BY DEF Remembered
<1>2. progress' = progress \/ progress'.revision = progress.revision + 1
  BY RevisionGrows
<1>3. progress.revision \in Nat /\ (calls[d].seen \in ProgressRow => calls[d].seen.revision \in Nat)
  BY RevisionGrows DEF ProgressRow
<1>4. CASE calls[d].at \in Asked /\ calls'[d].seen = calls[d].seen /\ calls[d].seen \in ProgressRow
  BY <1>1, <1>2, <1>3, <1>4
<1>5. CASE progress' = progress /\ calls'[d].seen = progress
  BY <1>3, <1>5
<1> QED
  BY <1>4, <1>5, RequestKept

\* DecisionOnWhatWasSeen: previewResume and the claim of claimGuidedExecution leave time
\* for other calls, but a decision is applied to the row its client saw, or not at all.
THEOREM DecisionOnWhatWasSeenHolds == Spec => DecisionOnWhatWasSeen
<1> USE Assumptions
<1>1. Init => Base /\ Remembered
  <2>1. Init => \A c \in Calls : calls[c].at = "free"
    BY DEF Init, Free
  <2>2. Init => Remembered
    BY <2>1 DEF Remembered, Asked
  <2> QED
    BY <2>2, BaseInit
<1>2. Base /\ Remembered /\ [Next]_vars => (Base /\ Remembered)'
  <2>1. Base /\ Remembered /\ UNCHANGED vars => Remembered'
    BY DEF vars, durable, Remembered
  <2> QED
    BY <2>1, BaseStep, RememberedStep
<1>3. ASSUME Base, Remembered, [Next]_vars,
             NEW c \in Calls, At(c, "decide"), progress' # progress
      PROVE  progress = calls[c].seen
  <2>1. Next
    BY <1>3 DEF vars, durable
  <2>2. claim = c
    BY <1>3 DEF Base, Owner, Holds, At
  <2>3. ASSUME Written(c)
        PROVE  FALSE
    <3>1. calls[c].at \in Coordinator
      BY <1>3, <2>3, WrittenKinds DEF Stores
    <3> QED
      BY <1>3, <3>1 DEF At, Coordinator
  <2>4. Decide(c)
    BY <1>3, <2>1, <2>2, <2>3, OnlyOwnerStores
  <2>5. progress.revision = calls[c].seen.revision /\ calls[c].at \in Asked
    BY <1>3, <2>4 DEF Decide, Unchanged, At, Asked
  <2> QED
    BY <1>3, <2>5 DEF Remembered
<1>4. Base /\ Remembered /\ [Next]_vars =>
        [\A c \in Calls : At(c, "decide") /\ progress' # progress => progress = calls[c].seen]_vars
  BY <1>3
<1> QED
  BY <1>1, <1>2, <1>4, PTL DEF Spec, DecisionOnWhatWasSeen

\* What a decision makes of the row.
Retries(p, q) ==
    /\ q.status = "running"
    /\ \A t \in Tasks :
         /\ q.task[t] = IF Retried(p, t) THEN "pending" ELSE p.task[t]
         /\ q.attempt[t] = IF Retried(p, t) THEN p.attempt[t] + 1 ELSE p.attempt[t]

LEMMA DecisionMakes ==
    ASSUME NEW p \in ProgressRow, NEW d \in Decisions, NEW q, q = Decided(p, d)
    PROVE  /\ q.commit = p.commit /\ q.stage = p.stage
           /\ \/ d = "retry-task" /\ Retries(p, q)
              \/ /\ q.task = p.task /\ q.attempt = p.attempt
                 /\ \/ d = "approve-changes" /\ q.status = "completed"
                    \/ d = "cancel" /\ q.status = "cancelled"
                    \/ d = "continue" /\ q.status = "running"
<1> DEFINE next == [p EXCEPT !.revision = @ + 1]
           task == [t \in Tasks |-> IF Retried(p, t) THEN "pending" ELSE p.task[t]]
           attempt == [t \in Tasks |-> p.attempt[t] + IF Retried(p, t) THEN 1 ELSE 0]
<1>1. /\ next \in ProgressRow /\ next.commit = p.commit /\ next.stage = p.stage
      /\ next.task = p.task /\ next.attempt = p.attempt
  BY DEF ProgressRow
<1>2. /\ task \in [Tasks -> TaskStatus]
      /\ attempt \in [Tasks -> Nat \ {0}]
      /\ \A t \in Tasks : /\ task[t] = IF Retried(p, t) THEN "pending" ELSE p.task[t]
                          /\ attempt[t] = IF Retried(p, t) THEN p.attempt[t] + 1 ELSE p.attempt[t]
  <2>1. p.task \in [Tasks -> TaskStatus] /\ p.attempt \in [Tasks -> Nat \ {0}]
    BY DEF ProgressRow
  <2>2. task \in [Tasks -> TaskStatus]
    BY <2>1 DEF TaskStatus
  <2>3. \A t \in Tasks : p.attempt[t] + (IF Retried(p, t) THEN 1 ELSE 0) \in Nat \ {0}
    BY <2>1
  <2>4. \A t \in Tasks : attempt[t] = IF Retried(p, t) THEN p.attempt[t] + 1 ELSE p.attempt[t]
    BY <2>1
  <2> QED
    BY <2>2, <2>3, <2>4
<1>3. q = CASE d = "approve-changes" -> [next EXCEPT !.status = "completed"]
            [] d = "cancel" -> [next EXCEPT !.status = "cancelled"]
            [] d = "continue" -> [next EXCEPT !.status = "running", !.block = NoBlock]
            [] d = "retry-task" -> [next EXCEPT !.status = "running", !.block = NoBlock,
                                                 !.task = task, !.attempt = attempt]
  BY DEF Decided
<1> HIDE DEF next, task, attempt
<1>5. CASE d = "approve-changes"
  BY <1>1, <1>3, <1>5 DEF ProgressRow
<1>6. CASE d = "cancel"
  BY <1>1, <1>3, <1>6 DEF ProgressRow
<1>7. CASE d = "continue"
  BY <1>1, <1>3, <1>7 DEF ProgressRow
<1>8. CASE d = "retry-task"
  <2>1. /\ q.commit = p.commit /\ q.stage = p.stage /\ q.status = "running"
        /\ q.task = task /\ q.attempt = attempt
    BY <1>1, <1>3, <1>8 DEF ProgressRow
  <2> QED
    BY <1>2, <1>8, <2>1 DEF Retries
<1> QED
  BY <1>5, <1>6, <1>7, <1>8 DEF Decisions

\* The count of attempts goes up where a decision is applied.
LEMMA AttemptsMove ==
    ASSUME PlanAssumption, Base, Next
    PROVE  \/ progress'.attempt = progress.attempt
           \/ \E c \in Calls :
                /\ calls[c].at \in Asked /\ calls[c].seen.revision = progress.revision
                /\ progress'.revision = progress.revision + 1
                /\ \A t \in Tasks : progress'.attempt[t] = progress.attempt[t]
                                    \/ progress'.attempt[t] = progress.attempt[t] + 1
<1>1. ASSUME NEW c \in Calls, Written(c)
      PROVE  progress'.attempt = progress.attempt
  BY <1>1, WrittenKinds DEF Stores
<1>2. ASSUME NEW c \in Calls, Decide(c)
      PROVE  \/ progress'.attempt = progress.attempt
             \/ /\ calls[c].at \in Asked /\ calls[c].seen.revision = progress.revision
                /\ progress'.revision = progress.revision + 1
                /\ \A t \in Tasks : progress'.attempt[t] = progress.attempt[t]
                                    \/ progress'.attempt[t] = progress.attempt[t] + 1
  <2>1. calls[c].at \in Asked /\ calls[c].seen.revision = progress.revision
    BY <1>2 DEF Decide, Unchanged, At, Asked
  <2>2. /\ progress \in ProgressRow /\ calls[c].decision \in Decisions
        /\ progress' = Decided(progress, calls[c].decision)
        /\ progress'.revision = progress.revision + 1
    BY <1>2, DecideIsTyped DEF Base, RowTypes
  <2>3. Retries(progress, progress') \/ progress'.attempt = progress.attempt
    BY <2>2, DecisionMakes
  <2> QED
    BY <2>1, <2>2, <2>3 DEF Retries
<1> QED
  BY <1>1, <1>2, OnlyOwnerStores

LEMMA CallsCounted ==
    ASSUME PlanAssumption, CallsAssumption, Base, Next
    PROVE  used.calls \in Nat /\ used'.calls \in Nat /\ used.calls <= used'.calls
<1>1. used \in [calls : 0..MaxCalls, faults : 0..MaxFaults] /\ MaxCalls \in Nat /\ MaxFaults \in Nat
  BY DEF Base, CallTypes, CallsAssumption
<1>2. used.calls \in Nat
  BY <1>1
<1>0. ASSUME Fault
      PROVE  used'.calls = used.calls
  BY <1>0, <1>1 DEF Fault
<1>3. ASSUME NEW c \in Calls, Client(c)
      PROVE  used'.calls \in {used.calls, used.calls + 1}
  BY <1>0, <1>1, <1>3 DEF Client, Start, Resume, CancelWaiting, Abort, Admit, Begin
<1>4. ASSUME NEW c \in Calls, Recovery(c)
      PROVE  used' = used
  BY <1>4 DEF Recovery, Acquire, Busy, ClaimWaiting, ClaimRefused, Decide, DecideRefused, Take,
                    NothingToTake, TakeRefused, Release, Unlock
<1>5. ASSUME NEW c \in Calls, Written(c)
      PROVE  used' = used
  BY <1>5, WrittenKinds DEF Stores
<1>6. ASSUME NEW c \in Calls, DoTask(c)
      PROVE  used'.calls = used.calls
  BY <1>0, <1>5, <1>6, CoordinatorWrites
     DEF DoTask, OpenPhase, TasksDone, StartStep, AgentDone, InspectTask, Verified, Throws,
         AgentWrites, CommandWrites, Write
<1>7. ASSUME NEW c \in Calls, DoPhase(c)
      PROVE  used'.calls = used.calls
  BY <1>0, <1>5, <1>7, CoordinatorWrites DEF DoPhase, StagePhase, Commit, Confirm
<1>8. ASSUME Outside
      PROVE  used'.calls = used.calls
  BY <1>0, <1>8 DEF Outside, HandEdit, HandRevert, HandCommit, ByHand, Crash, ClearLock, MarkInterrupted
<1>9. used'.calls \in {used.calls, used.calls + 1}
  BY <1>3, <1>4, <1>6, <1>7, <1>8 DEF Next
<1> QED
  BY <1>2, <1>9

LEMMA AttemptsStep ==
    ASSUME PlanAssumption, CallsAssumption, Base, Remembered, Attempts, Next
    PROVE  Attempts'
<1>1. /\ \A t \in Tasks : progress.attempt[t] <= used.calls + 1
      /\ \A c \in Calls : calls[c].at \in Asked /\ calls[c].seen.revision = progress.revision =>
           \A t \in Tasks : progress.attempt[t] <= used.calls
  BY DEF Attempts
<1>2. used.calls \in Nat /\ used'.calls \in Nat /\ used.calls <= used'.calls
  BY CallsCounted
<1>3. /\ progress.revision \in Nat /\ progress'.revision \in Nat
      /\ \A t \in Tasks : progress.attempt[t] \in Nat /\ progress'.attempt[t] \in Nat
  BY RevisionGrows DEF ProgressRow
<1>4. progress' = progress \/ progress'.revision = progress.revision + 1
  BY RevisionGrows
<1>5. ASSUME NEW t \in Tasks
      PROVE  progress'.attempt[t] <= used'.calls + 1
  BY <1>1, <1>2, <1>3, AttemptsMove
<1>6. ASSUME NEW d \in Calls, calls'[d].at \in Asked, calls'[d].seen.revision = progress'.revision,
             NEW t \in Tasks
      PROVE  progress'.attempt[t] <= used'.calls
  <2>1. CASE calls[d].at \in Asked /\ calls'[d].seen = calls[d].seen /\ calls[d].seen \in ProgressRow
    <3>1. calls[d].seen.revision \in Nat /\ calls[d].seen.revision <= progress.revision
      BY <2>1 DEF Remembered, ProgressRow
    <3>2. progress' = progress
      BY <1>3, <1>4, <1>6, <2>1, <3>1
    <3>3. progress.attempt[t] <= used.calls
      BY <1>1, <1>6, <2>1, <3>2
    <3> QED
      BY <1>2, <1>3, <3>2, <3>3
  <2>2. CASE progress' = progress /\ used'.calls = used.calls + 1
    BY <1>1, <1>2, <1>3, <2>2
  <2> QED
    BY <1>6, <2>1, <2>2, RequestKept
<1> QED
  BY <1>5, <1>6 DEF Attempts

\* Who comes to decide or to work has set the run to running.
LEMMA WorkStarts ==
    ASSUME PlanAssumption, Base, NEW c \in Calls, CallNext(c),
           calls'[c].at \in {"decide"} \cup Coordinator,
           calls[c].at \notin {"decide"} \cup Coordinator
    PROVE  run' = "running"
<1>1. CASE calls'[c].at = "decide"
  BY <1>1, AskMoves DEF Asked
<1>2. CASE calls'[c].at \in Coordinator
  <2>1. ~Written(c)
    BY WrittenKinds DEF Stores
  <2>2. ~(OpenPhase(c) \/ StagePhase(c) \/ Commit(c))
    BY DEF OpenPhase, StagePhase, Commit, At, Coordinator
  <2>3. ASSUME NEW from \in Coordinator, NEW to
        PROVE  ~Steady(c, from, to)
    BY DEF Steady
  <2>4. {"task", "step", "agent", "inspect", "reinspect", "verify", "gate", "confirm"} \subseteq Coordinator
    BY DEF Coordinator
  <2>5. ~Steady(c, calls[c].at, calls[c].at)
    BY <1>2 DEF Steady
  <2>6. Take(c)
    BY <1>2, <2>1, <2>2, <2>3, <2>4, <2>5, WorkMoves
  <2> QED
    BY <2>6 DEF Take, Claim
<1> QED
  BY <1>1, <1>2

LEMMA RunFollowsStep ==
    ASSUME PlanAssumption, CallsAssumption, Base, RunFollows, Next
    PROVE  RunFollows'
<1> DEFINE Busy0 == {"decide"} \cup Coordinator
           Final == {"completed", "cancelled"}
<1>1. /\ run # progress.status =>
           run = "interrupted" \/ (run = "running" /\ progress.status \in {"pending", "waiting"})
      /\ \A c \in Calls : calls[c].at \in Busy0 => run = "running" /\ claim = c
      /\ \A c \in Calls : calls[c].at \in Coordinator => progress.status \notin Final
      /\ progress.status \in Final => run = progress.status
      /\ calls \in [Calls -> Call]
  BY DEF RunFollows, RunAgrees, Base, Owner, Holds, Follows, CallTypes
<1>2. progress \in ProgressRow /\ progress.status \in Status /\ progress'.status \in Status
  BY RevisionGrows DEF ProgressRow
<1>3. ASSUME NEW c \in Calls, Written(c)
      PROVE  /\ RunAgrees'
             /\ progress'.status \in Final => run' = progress'.status
             /\ \A d \in Calls : calls'[d].at \in Busy0 => run' = "running"
  <2>1. ASSUME NEW point, Stores(c, point)
        PROVE  /\ calls[c].at \in Coordinator /\ run = "running"
               /\ run' = IF progress'.status = progress.status THEN run ELSE progress'.status
               /\ calls'[c].at = point
               /\ \A d \in Calls \ {c} : calls'[d].at \notin Busy0
    <3>1. calls[c].at \in Coordinator /\ calls'[c].at = point
      BY <1>1, <2>1 DEF Stores, Call
    <3>2. ASSUME NEW d \in Calls \ {c}
          PROVE  calls'[d].at \notin Busy0
      <4>1. calls'[d] = calls[d] /\ claim = c
        BY <1>1, <2>1, <3>1 DEF Stores
      <4> QED
        BY <1>1, <4>1
    <3> QED
      BY <1>1, <2>1, <3>1, <3>2 DEF Stores
  <2>2. PICK point : Stores(c, point)
    BY <1>3, WrittenKinds
  <2>3. \/ calls'[c].at = "release"
        \/ progress'.status = "running" \/ progress'.status = progress.status
    BY <1>3, <2>1, WrittenKinds
  <2>4. RunAgrees' /\ (progress'.status \in Final => run' = progress'.status)
    BY <1>1, <2>1, <2>2 DEF RunAgrees
  <2>5. calls'[c].at \in Busy0 => run' = "running"
    <3>1. "release" \notin Busy0
      BY DEF Coordinator
    <3> QED
      BY <2>1, <2>2, <2>3, <3>1
  <2> QED
    BY <2>1, <2>2, <2>4, <2>5
<1>4. ASSUME NEW c \in Calls, Decide(c)
      PROVE  /\ RunAgrees'
             /\ progress'.status \in Final => run' = progress'.status
             /\ \A d \in Calls : calls'[d].at \in Busy0 => run' = "running"
  <2>1. run' = progress'.status
    BY <1>4, DecideIsTyped
  <2>2. calls'[c].at = "release" /\ \A d \in Calls \ {c} : calls'[d] = calls[d]
    BY <1>1, <1>4 DEF Decide, Call
  <2>3. \A d \in Calls \ {c} : calls[d].at \notin Busy0
    BY <1>1, <1>4 DEF Decide, At
  <2>4. \A d \in Calls : calls'[d].at \notin Busy0
    BY <2>2, <2>3 DEF Coordinator
  <2> QED
    BY <2>1, <2>4 DEF RunAgrees
<1>5. ASSUME progress' = progress, run' = run
      PROVE  RunFollows'
  <2>1. ASSUME NEW d \in Calls, calls'[d].at \in Busy0
        PROVE  run' = "running"
    <3>1. CASE calls'[d] = calls[d]
      BY <1>1, <1>5, <2>1, <3>1
    <3>2. CASE CallNext(d)
      BY <1>1, <1>5, <2>1, <3>2, WorkStarts
    <3>3. CASE Crash
      BY <2>1, <3>3 DEF Crash, Free, Coordinator
    <3> QED
      BY <3>1, <3>2, <3>3, StepIsAlone
         DEF Next, CallNext, Alone, Outside, HandEdit, HandRevert, HandCommit, ByHand, ClearLock,
             MarkInterrupted
  <2>2. RunAgrees' /\ (progress'.status \in Final => run' = progress'.status)
    BY <1>1, <1>5 DEF RunAgrees
  <2> QED
    BY <2>1, <2>2 DEF RunFollows
<1>6. ASSUME NEW c \in Calls, ClaimWaiting(c)
      PROVE  RunFollows'
  <2>1. progress' = progress /\ run' = "running" /\ run = "waiting"
    BY <1>6 DEF ClaimWaiting, Claim
  <2>2. progress.status = "waiting"
    BY <1>1, <2>1
  <2> QED
    BY <2>1, <2>2 DEF RunFollows, RunAgrees
<1>7. ASSUME NEW c \in Calls, Take(c)
      PROVE  RunFollows'
  <2>1. /\ progress' = progress /\ run' = "running" /\ run \in {"pending", "running"}
        /\ progress.status \notin Final
    BY <1>7 DEF Take, Claim
  <2>2. progress.status \in {"pending", "waiting", "running"}
    BY <1>2, <2>1 DEF Status
  <2> QED
    BY <2>1, <2>2 DEF RunFollows, RunAgrees
<1>8. CASE MarkInterrupted
  <2>1. /\ progress' = progress /\ run = "running" /\ run' = "interrupted"
        /\ \A c \in Calls : calls'[c].at = "free"
    BY <1>8 DEF MarkInterrupted, At
  <2>2. progress.status \notin Final
    BY <1>1, <2>1
  <2> QED
    BY <2>1, <2>2 DEF RunFollows, RunAgrees, Coordinator
<1>9. ASSUME NEW c \in Calls, StartStep(c) \/ AgentDone(c)
      PROVE  progress' = progress /\ run' = run
  BY <1>9 DEF StartStep, AgentDone
<1> QED
  BY <1>3, <1>4, <1>5, <1>6, <1>7, <1>8, <1>9, RowShapes DEF RunFollows, durable

-----------------------------------------------------------------------------
(* The rows of the tasks *)

\* Attempts have rows.
LEMMA AttemptHasRow ==
    ASSUME PlanAssumption, CallsAssumption, Base, Attempts, NEW t \in Tasks
    PROVE  progress.attempt[t] \in 1..MaxAttempt
<1>1. used.calls \in 0..MaxCalls /\ MaxCalls \in Nat
  BY DEF Base, CallTypes, CallsAssumption
<1>2. progress.attempt[t] \in Nat \ {0} /\ progress.attempt[t] <= used.calls + 1
  BY DEF Base, RowTypes, ProgressRow, Attempts
<1> QED
  BY <1>1, <1>2 DEF MaxAttempt

RowBecomes(t, n, s) == step' = [step EXCEPT ![t][n] = s]

LEMMA RowSet ==
    ASSUME step \in [Tasks -> [1..MaxAttempt -> StepStatus]], NEW t \in Tasks, NEW n \in 1..MaxAttempt,
           NEW s, RowBecomes(t, n, s)
    PROVE  /\ step'[t][n] = s
           /\ \A u \in Tasks, m \in 1..MaxAttempt : u # t \/ m # n => step'[u][m] = step[u][m]
           /\ \A u \in Tasks : u # t => step'[u] = step[u]
<1> DEFINE rows == [step[t] EXCEPT ![n] = s]
<1>1. step' = [step EXCEPT ![t] = rows]
  BY DEF RowBecomes
<1>2. rows[n] = s /\ \A m \in 1..MaxAttempt : m # n => rows[m] = step[t][m]
  OBVIOUS
<1> HIDE DEF rows
<1> QED
  BY <1>1, <1>2

\* What a coordinator at a task knows of it.
LEMMA AtTaskKnows ==
    ASSUME PlanAssumption, CallsAssumption, Firm, NEW c \in Calls, calls[c].at \in AtTask
    PROVE  /\ calls[c].at \in Coordinator /\ claim = c
           /\ TaskIn(progress) \in Tasks /\ TaskIn(progress) # NoTask
           /\ Task(c) = TaskIn(progress) /\ Attempt(c) = progress.attempt[TaskIn(progress)]
           /\ progress.attempt[TaskIn(progress)] \in 1..MaxAttempt
           /\ progress.status = "running" /\ progress.task[TaskIn(progress)] = "running"
           /\ PhaseOf[TaskIn(progress)] = PhaseIn(progress)
           /\ calls[c].at \notin {"step", "agent"} =>
                step[TaskIn(progress)][progress.attempt[TaskIn(progress)]] = "completed"
<1>1. Base /\ Attempts /\ TaskRows
  BY DEF Firm
<1>2. calls[c].at \in Coordinator
  BY DEF AtTask, Coordinator
<1>3. OpenTasksOf(progress) # {}
  BY <1>1 DEF Base, Placed
<1>4. /\ TaskIn(progress) \in Tasks /\ TaskIn(progress) # NoTask
      /\ PhaseOf[TaskIn(progress)] = PhaseIn(progress)
  BY <1>3, TaskIsOpen
<1>5. Task(c) = TaskIn(progress) /\ calls[c].local = progress /\ claim = c
  BY <1>1, <1>2, AtWork
<1>6. Attempt(c) = progress.attempt[TaskIn(progress)]
  BY <1>5 DEF Attempt
<1>7. progress.attempt[TaskIn(progress)] \in 1..MaxAttempt
  BY <1>1, <1>4, AttemptHasRow
<1>8. progress.status = "running" /\ progress.task[TaskIn(progress)] = "running"
  BY <1>1 DEF TaskRows
<1>9. calls[c].at \notin {"step", "agent"} =>
        step[TaskIn(progress)][progress.attempt[TaskIn(progress)]] = "completed"
  BY <1>1 DEF TaskRows
<1> QED
  BY <1>2, <1>4, <1>5, <1>6, <1>7, <1>8, <1>9

\* How a coordinator comes to where it is at a task.
LEMMA AtTaskMoves ==
    ASSUME PlanAssumption, CallsAssumption, Base, Next, NEW d \in Calls, calls'[d].at \in AtTask
    PROVE  \/ Written(d)
           \/ StartStep(d) /\ calls'[d].at = "agent"
           \/ AgentDone(d) /\ calls'[d].at = "inspect"
           \/ /\ progress' = progress /\ step' = step /\ calls[d].at \in AtTask
              /\ calls[d].at \in {"step", "agent"} => calls'[d].at \in {"step", "agent"}
<1>1. calls \in [Calls -> Call] /\ AtTask \subseteq Coordinator
  BY DEF Base, CallTypes, AtTask, Coordinator
<1>2. CASE CallNext(d)
  <2> USE DEF AtTask
  <2>1. ~Take(d) /\ ~OpenPhase(d) /\ ~StagePhase(d) /\ ~Commit(d)
    BY <1>1 DEF Take, OpenPhase, StagePhase, Commit, Go, Call
  <2>2. ASSUME NEW from, NEW to, Steady(d, from, to)
        PROVE  calls[d].at = from /\ calls'[d].at = to /\ progress' = progress
    BY <2>2 DEF Steady
  <2>3. ~Steady(d, "task", "gate") /\ ~Steady(d, "gate", "stage") /\ ~Steady(d, "confirm", "complete")
    BY <2>2
  <2>4. InspectTask(d) \/ Verified(d) => step' = step
    BY DEF InspectTask, Verified, durable
  <2> QED
    BY <1>1, <1>2, <2>1, <2>2, <2>3, <2>4, WorkMoves
<1>3. CASE calls'[d] = calls[d]
  <2>1. progress' = progress
    BY <1>1, <1>3, OthersKeep
  <2>2. claim = d /\ calls[d].at \in AtTask
    BY <1>1, <1>3 DEF Base, Owner, Holds
  <2>3. ASSUME step' # step
        PROVE  Written(d) \/ StartStep(d) \/ AgentDone(d)
    <3>1. ASSUME NEW c \in Calls, Written(c) \/ StartStep(c) \/ AgentDone(c)
          PROVE  c = d
      <4>1. calls[c].at \in Coordinator
        BY <3>1, WrittenKinds DEF Stores, StartStep, AgentDone, At, Coordinator
      <4> QED
        BY <2>2, <4>1 DEF Base, Owner, Holds
    <3>2. ~MarkInterrupted
      BY <2>2 DEF MarkInterrupted, At, AtTask
    <3> QED
      BY <2>3, <3>1, <3>2, RowShapes DEF Decide, ClaimWaiting, Take, durable
  <2>4. ~StartStep(d) /\ ~AgentDone(d)
    BY <1>1, <1>3 DEF StartStep, AgentDone, Go, At, Call
  <2> QED
    BY <1>3, <2>1, <2>2, <2>3, <2>4
<1>4. CASE Crash
  <2>1. calls'[d].at = "free"
    BY <1>4 DEF Crash, Free
  <2> QED
    BY <2>1 DEF AtTask
<1> QED
  BY <1>2, <1>3, <1>4, StepIsAlone
     DEF Next, CallNext, Alone, Outside, HandEdit, HandRevert, HandCommit, ByHand, ClearLock, MarkInterrupted

LEMMA AtTaskStep ==
    ASSUME PlanAssumption, CallsAssumption, Firm, Next, NEW d \in Calls, calls'[d].at \in AtTask
    PROVE  /\ progress'.status = "running" /\ progress'.task[TaskIn(progress')] = "running"
           /\ calls'[d].at \notin {"step", "agent"} =>
                step'[TaskIn(progress')][progress'.attempt[TaskIn(progress')]] = "completed"
<1> DEFINE T == TaskIn(progress)
<1>1. /\ Base /\ calls \in [Calls -> Call] /\ progress \in ProgressRow
      /\ step \in [Tasks -> [1..MaxAttempt -> StepStatus]]
  BY DEF Firm, Base, CallTypes, RowTypes
<1>2. CASE Written(d)
  <2>1. ASSUME NEW point, Stores(d, point)
        PROVE  calls'[d].at = point /\ progress'.attempt = progress.attempt
    BY <1>1, <2>1 DEF Stores, Call
  <2>2. CASE /\ Begun(d) /\ Stores(d, "step") /\ progress'.status = "running"
             /\ progress'.task = [progress.task EXCEPT ![T] = "running"]
             /\ progress'.commit = progress.commit
    <3>1. OpenTasksOf(progress) # {}
      BY <2>2 DEF Begun
    <3>2. T \in Tasks /\ PhaseOf[T] = PhaseIn(progress) /\ progress.task[T] # "completed"
      BY <3>1, TaskIsOpen
    <3>3. progress.task \in [Tasks -> TaskStatus]
      BY <1>1 DEF ProgressRow
    <3>4. PhaseIn(progress') = PhaseIn(progress)
      BY <2>2, SamePlaces
    <3>5. \A t \in Tasks : progress'.task[t] = "completed" <=> progress.task[t] = "completed"
      BY <2>2, <3>2, <3>3
    <3>6. OpenTasksOf(progress') = OpenTasksOf(progress)
      BY <3>4, <3>5 DEF OpenTasksOf
    <3>7. TaskIn(progress') = T
      BY <3>6 DEF TaskIn
    <3> QED
      BY <2>1, <2>2, <3>2, <3>3, <3>7
  <2>3. CASE Checked(d) /\ Stores(d, "settle") /\ progress'.status = progress.status /\ SameRow(progress')
    <3>1. calls[d].at = "checkpoint" /\ step' = step
      BY <2>3 DEF Checked
    <3>2. calls[d].at \in AtTask /\ calls[d].at \notin {"step", "agent"}
      BY <3>1 DEF AtTask
    <3>3. TaskIn(progress') = T
      BY <2>3, SamePlaces DEF SameRow
    <3> QED
      BY <2>1, <2>3, <3>1, <3>2, <3>3, AtTaskKnows DEF SameRow
  <2>4. CASE Stores(d, "release") \/ Stores(d, "task") \/ Stores(d, "commit") \/ Stores(d, "phase")
    BY <2>1, <2>4 DEF AtTask
  <2> QED
    BY <1>1, <1>2, <2>2, <2>3, <2>4, WrittenKinds
<1>3. CASE StartStep(d) /\ calls'[d].at = "agent"
  <2>1. calls[d].at \in AtTask /\ progress' = progress
    BY <1>3 DEF StartStep, At, AtTask
  <2> QED
    BY <1>3, <2>1, AtTaskKnows
<1>4. CASE AgentDone(d) /\ calls'[d].at = "inspect"
  <2>1. calls[d].at \in AtTask /\ progress' = progress
    BY <1>4 DEF AgentDone, At, AtTask
  <2>2. step' = [step EXCEPT ![T][progress.attempt[T]] = "completed"]
    BY <1>4, <2>1, AtTaskKnows DEF AgentDone, SetStep
  <2>3. step'[T][progress.attempt[T]] = "completed"
    <3>1. T \in Tasks /\ progress.attempt[T] \in 1..MaxAttempt
      BY <2>1, AtTaskKnows
    <3>2. RowBecomes(T, progress.attempt[T], "completed")
      BY <2>2 DEF RowBecomes
    <3> QED
      BY <1>1, <3>1, <3>2, RowSet
  <2> QED
    BY <2>1, <2>3, AtTaskKnows
<1>5. CASE /\ progress' = progress /\ step' = step /\ calls[d].at \in AtTask
           /\ calls[d].at \in {"step", "agent"} => calls'[d].at \in {"step", "agent"}
  BY <1>5, AtTaskKnows
<1> QED
  BY <1>1, <1>2, <1>3, <1>4, <1>5, AtTaskMoves

\* What a block does to the rows of the task it is about: none is left running.
LEMMA BlockedRows ==
    ASSUME PlanAssumption, CallsAssumption, Firm, NEW c \in Calls, NEW t \in Tasks \cup {NoTask},
           NEW type, NEW paths, Blocked(c, type, t, paths)
    PROVE  /\ \A u \in Tasks : u # t => step'[u] = step[u]
           /\ t \in Tasks => /\ t = TaskIn(progress) /\ progress.task[t] = "running"
                             /\ \A n \in 1..MaxAttempt : step'[t][n] # "running"
<1>1. /\ Base /\ TaskRows /\ step \in [Tasks -> [1..MaxAttempt -> StepStatus]]
  BY DEF Firm, Base, RowTypes
<1>2. CASE t = TaskIn(progress) /\ BlockedRow(c, t)
  <2>1. calls[c].at \in AtTask
    BY <1>2 DEF BlockedRow, AtTask
  <2>2. t \in Tasks /\ progress.attempt[t] \in 1..MaxAttempt /\ progress.task[t] = "running"
    BY <1>2, <2>1, AtTaskKnows
  <2>3. \A n \in 1..MaxAttempt : n # progress.attempt[t] => step[t][n] # "running"
    BY <1>1, <2>2 DEF TaskRows
  <2>4. CASE calls[c].at \in AtTask \ {"agent"} /\ step' = step
    <3>1. step[t][progress.attempt[t]] \in {"completed", "cancelled"}
      BY <1>2, <2>1, <2>4, AtTaskKnows DEF BlockedRow
    <3> QED
      BY <1>2, <2>2, <2>3, <2>4, <3>1
  <2>5. ASSUME NEW status \in {"completed", "cancelled", "failed"},
               step' = [step EXCEPT ![t][progress.attempt[t]] = status]
        PROVE  /\ \A u \in Tasks : u # t => step'[u] = step[u]
               /\ \A n \in 1..MaxAttempt : step'[t][n] # "running"
    <3>0. RowBecomes(t, progress.attempt[t], status)
      BY <2>5 DEF RowBecomes
    <3>1. /\ step'[t][progress.attempt[t]] = status
          /\ \A n \in 1..MaxAttempt : n # progress.attempt[t] => step'[t][n] = step[t][n]
          /\ \A u \in Tasks : u # t => step'[u] = step[u]
      BY <1>1, <2>2, <3>0, RowSet
    <3> QED
      BY <2>3, <3>1
  <2> QED
    BY <1>2, <2>2, <2>4, <2>5 DEF BlockedRow
<1>3. CASE t = NoTask /\ step' = step
  <2>1. NoTask \notin Tasks
    BY DEF NoTask, PlanAssumption, Tasks
  <2> QED
    BY <1>3, <2>1
<1> QED
  BY <1>2, <1>3 DEF Blocked

\* A decision is about the row as it is.
LEMMA DecideKnows ==
    ASSUME PlanAssumption, Firm, NEW c \in Calls, Decide(c)
    PROVE  /\ calls[c].seen = progress /\ progress.status = "waiting"
           /\ calls[c].decision \in Decisions
           /\ progress.stage = "changes-review" => calls[c].decision \in {"approve-changes", "cancel"}
           /\ progress' = Decided(progress, calls[c].decision) /\ step' = step
<1>1. Base /\ Remembered
  BY DEF Firm
<1>2. calls[c].at \in Asked /\ calls[c].seen.revision = progress.revision
  BY DEF Decide, Unchanged, At, Asked
<1>3. calls[c].seen = progress /\ calls[c].decision \in AllowedDecisions(calls[c].seen)
  BY <1>1, <1>2 DEF Base, Placed, Remembered
<1> QED
  BY <1>1, <1>3, DecideIsTyped DEF AllowedDecisions, Decide

RunningIsLast(p, rows) ==
    \A t \in Tasks : \A n \in 1..MaxAttempt : rows[t][n] = "running" =>
        n = p.attempt[t] /\ p.task[t] = "running"

BlockWaits(p) ==
    p.status = "waiting" /\ p.stage = "execution" /\ p.block # NoBlock =>
        \A t \in Tasks : t = p.block.task => p.task[t] = "waiting"

LEMMA WrittenRows ==
    ASSUME PlanAssumption, CallsAssumption, Firm, NEW c \in Calls, Written(c)
    PROVE  RunningIsLast(progress', step') /\ BlockWaits(progress')
<1> DEFINE T == TaskIn(progress)
<1>1. /\ Base /\ progress \in ProgressRow /\ progress.task \in [Tasks -> TaskStatus]
      /\ RunningIsLast(progress, step) /\ BlockWaits(progress)
  BY DEF Firm, Base, RowTypes, ProgressRow, TaskRows, RunningIsLast, BlockWaits
<1>2. \E point : Stores(c, point)
  BY <1>1, WrittenKinds
<1>3. progress'.attempt = progress.attempt
  BY <1>2 DEF Stores
<1>4. ASSUME step' = step, SameRow(progress')
      PROVE  /\ RunningIsLast(progress', step')
             /\ progress'.status = progress.status => BlockWaits(progress')
  BY <1>1, <1>3, <1>4 DEF SameRow, RunningIsLast, BlockWaits
<1>5. CASE /\ Begun(c) /\ progress'.status = "running"
           /\ progress'.task = [progress.task EXCEPT ![T] = "running"]
  <2>1. step' = step
    BY <1>5 DEF Begun
  <2> QED
    BY <1>1, <1>3, <1>5, <2>1 DEF RunningIsLast, BlockWaits
<1>6. CASE Cancelled(c) /\ progress'.status = "cancelled" /\ SameRow(progress')
  BY <1>4, <1>6 DEF Cancelled, BlockWaits
<1>7. CASE (Checked(c) \/ Announced(c)) /\ progress'.status = progress.status /\ SameRow(progress')
  BY <1>4, <1>7 DEF Checked, Announced
<1>8. CASE /\ Finished(c) /\ progress'.status = progress.status
           /\ progress'.task = [progress.task EXCEPT ![T] = "completed"]
  <2>1. step' = step /\ calls[c].at \in AtTask /\ calls[c].at \notin {"step", "agent"}
    BY <1>8 DEF Finished, AtTask
  <2>2. /\ progress.status = "running" /\ T \in Tasks
        /\ step[T][progress.attempt[T]] = "completed"
    BY <2>1, AtTaskKnows
  <2>3. \A n \in 1..MaxAttempt : step[T][n] # "running"
    BY <1>1, <2>2 DEF RunningIsLast
  <2> QED
    BY <1>1, <1>3, <1>8, <2>1, <2>2, <2>3 DEF RunningIsLast, BlockWaits
<1>9. CASE /\ Committed(c) /\ progress'.status = progress.status /\ progress'.stage = progress.stage
           /\ progress'.block = progress.block /\ progress'.task = progress.task
  BY <1>1, <1>3, <1>9 DEF Committed, RunningIsLast, BlockWaits
<1>10. ASSUME NEW type \in BlockTypes, NEW t \in Tasks \cup {NoTask}, NEW paths \in SUBSET Files,
              Blocked(c, type, t, paths),
              progress'.block = [type |-> type, task |-> t, files |-> paths],
              progress'.task = [u \in Tasks |-> IF u = t THEN "waiting" ELSE progress.task[u]]
       PROVE  RunningIsLast(progress', step') /\ BlockWaits(progress')
  <2>1. /\ \A u \in Tasks : u # t => step'[u] = step[u]
        /\ t \in Tasks => \A n \in 1..MaxAttempt : step'[t][n] # "running"
    BY <1>10, BlockedRows
  <2>2. progress'.block.task = t
    BY <1>10
  <2>3. \A u \in Tasks : progress'.task[u] = IF u = t THEN "waiting" ELSE progress.task[u]
    BY <1>10
  <2> QED
    BY <1>1, <1>3, <2>1, <2>2, <2>3 DEF RunningIsLast, BlockWaits
<1>11. CASE /\ \E found \in BOOLEAN : Reviewed(c, found)
            /\ progress'.stage = "changes-review" /\ progress'.task = progress.task
  BY <1>1, <1>3, <1>11 DEF Reviewed, RunningIsLast, BlockWaits
<1> QED
  BY <1>1, <1>5, <1>6, <1>7, <1>8, <1>9, <1>10, <1>11, WrittenKinds

LEMMA TaskRowsStep ==
    ASSUME PlanAssumption, CallsAssumption, Firm, Next
    PROVE  TaskRows'
<1>1. /\ Base /\ RunningIsLast(progress, step) /\ BlockWaits(progress)
      /\ progress \in ProgressRow /\ step \in [Tasks -> [1..MaxAttempt -> StepStatus]]
  BY DEF Firm, Base, RowTypes, TaskRows, RunningIsLast, BlockWaits
<1>2. ASSUME NEW c \in Calls, Decide(c)
      PROVE  RunningIsLast(progress', step') /\ BlockWaits(progress')
  <2>1. /\ step' = step /\ progress.status = "waiting" /\ calls[c].decision \in Decisions
        /\ progress' = Decided(progress, calls[c].decision)
        /\ calls[c].decision = "retry-task" => progress.stage # "changes-review"
    BY <1>2, DecideKnows
  <2>2. CASE calls[c].decision = "retry-task" /\ Retries(progress, progress')
    <3>1. progress.stage = "execution"
      BY <1>1, <2>1, <2>2 DEF ProgressRow
    <3>2. \A t \in Tasks : Retried(progress, t) => progress.task[t] = "waiting"
      BY <1>1, <2>1, <3>1 DEF BlockWaits, Retried
    <3>3. \A t \in Tasks : Retried(progress, t) => \A n \in 1..MaxAttempt : step[t][n] # "running"
      BY <1>1, <3>2 DEF RunningIsLast
    <3> QED
      BY <1>1, <2>1, <2>2, <3>3 DEF Retries, RunningIsLast, BlockWaits
  <2>3. CASE /\ progress'.task = progress.task /\ progress'.attempt = progress.attempt
             /\ progress'.status \in {"completed", "cancelled", "running"}
    BY <1>1, <2>1, <2>3 DEF RunningIsLast, BlockWaits
  <2> QED
    BY <1>1, <2>1, <2>2, <2>3, DecisionMakes
<1>3. ASSUME progress' = progress, step' = step
      PROVE  RunningIsLast(progress', step') /\ BlockWaits(progress')
  BY <1>1, <1>3
<1>4. ASSUME NEW c \in Calls, StartStep(c) \/ AgentDone(c)
      PROVE  RunningIsLast(progress', step') /\ BlockWaits(progress')
  <2> DEFINE T == TaskIn(progress)
             N == progress.attempt[T]
  <2>1. calls[c].at \in AtTask /\ progress' = progress
    BY <1>4 DEF StartStep, AgentDone, At, AtTask
  <2>2. T \in Tasks /\ N \in 1..MaxAttempt /\ progress.task[T] = "running"
    BY <2>1, AtTaskKnows
  <2>3. PICK s \in {"running", "completed"} : RowBecomes(T, N, s)
    BY <1>4, <2>1, AtTaskKnows DEF StartStep, AgentDone, SetStep, RowBecomes
  <2>4. \A u \in Tasks, m \in 1..MaxAttempt : u # T \/ m # N => step'[u][m] = step[u][m]
    BY <1>1, <2>2, <2>3, RowSet
  <2> QED
    BY <1>1, <2>1, <2>2, <2>4 DEF RunningIsLast
<1>5. ASSUME MarkInterrupted
      PROVE  RunningIsLast(progress', step') /\ BlockWaits(progress')
  <2>1. /\ progress' = progress
        /\ step' = [t \in Tasks |-> [n \in 1..MaxAttempt |->
                      IF step[t][n] = "running" THEN "interrupted" ELSE step[t][n]]]
    BY <1>5 DEF MarkInterrupted
  <2>2. \A t \in Tasks : \A n \in 1..MaxAttempt : step'[t][n] # "running"
    BY <2>1
  <2> QED
    BY <1>1, <2>1, <2>2 DEF RunningIsLast
<1>6. RunningIsLast(progress', step') /\ BlockWaits(progress')
  BY <1>1, <1>2, <1>3, <1>4, <1>5, WrittenRows, RowShapes DEF ClaimWaiting, Take, durable
<1>7. \A d \in Calls : calls'[d].at \in AtTask =>
        /\ progress'.status = "running" /\ progress'.task[TaskIn(progress')] = "running"
        /\ calls'[d].at \notin {"step", "agent"} =>
             step'[TaskIn(progress')][progress'.attempt[TaskIn(progress')]] = "completed"
  BY AtTaskStep
<1>8. TaskRows' <=>
        /\ RunningIsLast(progress', step') /\ BlockWaits(progress')
        /\ \A d \in Calls : calls'[d].at \in AtTask =>
             progress'.status = "running" /\ progress'.task[TaskIn(progress')] = "running"
        /\ \A d \in Calls : calls'[d].at \in AtTask \ {"step", "agent"} =>
             step'[TaskIn(progress')][progress'.attempt[TaskIn(progress')]] = "completed"
  BY DEF TaskRows, RunningIsLast, BlockWaits
<1> QED
  BY <1>6, <1>7, <1>8

\* The copies calls keep of the row are copies of what was stored.
LEMMA CopiesMove ==
    ASSUME PlanAssumption, Base, NEW c \in Calls, CallNext(c)
    PROVE  /\ calls'[c].seen \in {calls[c].seen, progress, NoProgress}
           /\ calls'[c].local \in {calls[c].local, progress, progress', NoProgress}
<1>1. calls \in [Calls -> Call]
  BY DEF Base, CallTypes
<1>2. CASE Client(c)
  <2>1. CASE Start(c) \/ Resume(c) \/ CancelWaiting(c)
    BY <1>1, <2>1 DEF Start, Resume, CancelWaiting, Begin, Resuming, Free
  <2>2. CASE Abort(c)
    BY <1>1, <2>2 DEF Abort, Call
  <2>3. CASE Admit(c)
    BY <1>1, <2>3 DEF Admit, Ends, Free, Call
  <2> QED
    BY <1>2, <2>1, <2>2, <2>3 DEF Client
<1>3. CASE Recovery(c)
  <2>1. CASE Busy(c) \/ Unlock(c)
    BY <1>1, <2>1 DEF Busy, Unlock, Ends, Free, Call
  <2>2. CASE Acquire(c) \/ ClaimWaiting(c) \/ ClaimRefused(c) \/ DecideRefused(c) \/ Release(c)
    BY <1>1, <2>2 DEF Acquire, ClaimWaiting, ClaimRefused, DecideRefused, Release, Go, Call
  <2>3. CASE Decide(c) \/ Take(c) \/ NothingToTake(c) \/ TakeRefused(c)
    BY <1>1, <2>3 DEF Decide, Take, NothingToTake, TakeRefused, Call
  <2> QED
    BY <1>3, <2>1, <2>2, <2>3 DEF Recovery
<1>4. ASSUME Written(c)
      PROVE  calls'[c].seen = calls[c].seen /\ calls'[c].local = progress'
  <2>1. PICK point : Stores(c, point)
    BY <1>4, WrittenKinds
  <2> QED
    BY <1>1, <2>1 DEF Stores, Call
<1>5. CASE DoTask(c)
  <2>1. CASE TasksDone(c) \/ StartStep(c) \/ AgentDone(c) \/ InspectTask(c) \/ Verified(c) \/ Throws(c)
             \/ AgentWrites(c) \/ CommandWrites(c)
    BY <1>1, <2>1 DEF TasksDone, StartStep, AgentDone, InspectTask, Verified, Throws, AgentWrites,
                      CommandWrites, Write, Go, Call
  <2>2. CASE OpenPhase(c)
    BY <1>1, <2>2 DEF OpenPhase, Go, Call
  <2> QED
    BY <1>4, <1>5, <2>1, <2>2, CoordinatorWrites DEF DoTask
<1>6. CASE DoPhase(c)
  <2>1. CASE StagePhase(c) \/ Commit(c) \/ Confirm(c)
    BY <1>1, <2>1 DEF StagePhase, Commit, Confirm, Go, Call
  <2> QED
    BY <1>4, <1>6, <2>1, CoordinatorWrites DEF DoPhase
<1> QED
  BY <1>2, <1>3, <1>5, <1>6 DEF CallNext

\* Their attempts have rows, too.
Copies ==
    \A c \in Calls : {calls[c].seen, calls[c].local} \subseteq Progress \cup {NoProgress}

LEMMA StoredHasRows ==
    ASSUME PlanAssumption, CallsAssumption, Base, Attempts
    PROVE  progress \in Progress
<1>1. progress \in ProgressRow /\ \A t \in Tasks : progress.attempt[t] \in 1..MaxAttempt
  BY AttemptHasRow DEF Base, RowTypes
<1>2. progress.attempt \in [Tasks -> 1..MaxAttempt]
  BY <1>1 DEF ProgressRow
<1> QED
  BY <1>1, <1>2 DEF ProgressRow, Progress, Status, TaskStatus, Block0

LEMMA CopiesStep ==
    ASSUME PlanAssumption, CallsAssumption, Base, Attempts, Copies, Base', Attempts', Next
    PROVE  Copies'
<1>1. progress \in Progress
  BY StoredHasRows
<1>2. progress' \in Progress
  <2>1. progress' \in ProgressRow /\ \A t \in Tasks : progress'.attempt[t] \in 1..MaxAttempt
    <3>1. used'.calls \in 0..MaxCalls /\ MaxCalls \in Nat
      BY DEF Base, CallTypes, CallsAssumption
    <3>2. /\ progress' \in ProgressRow
          /\ \A t \in Tasks : progress'.attempt[t] \in Nat \ {0} /\ progress'.attempt[t] <= used'.calls + 1
      BY DEF Base, RowTypes, ProgressRow, Attempts
    <3> QED
      BY <3>1, <3>2 DEF MaxAttempt
  <2>2. progress'.attempt \in [Tasks -> 1..MaxAttempt]
    BY <2>1 DEF ProgressRow
  <2> QED
    BY <2>1, <2>2 DEF ProgressRow, Progress, Status, TaskStatus, Block0
<1>3. ASSUME NEW d \in Calls
      PROVE  {calls'[d].seen, calls'[d].local} \subseteq Progress \cup {NoProgress}
  <2>1. {calls[d].seen, calls[d].local} \subseteq Progress \cup {NoProgress}
    BY DEF Copies
  <2>2. CASE CallNext(d)
    BY <1>1, <1>2, <2>1, <2>2, CopiesMove
  <2>3. CASE Crash
    BY <2>3 DEF Crash, Free
  <2> QED
    BY <2>1, <2>2, <2>3, StepIsAlone
       DEF Next, CallNext, Alone, Outside, HandEdit, HandRevert, HandCommit, ByHand, ClearLock, MarkInterrupted
<1> QED
  BY <1>3 DEF Copies

-----------------------------------------------------------------------------
(* The states are well formed, and what is done stays done *)

LEMMA DoneInit ==
    ASSUME PlanAssumption, CallsAssumption, Init
    PROVE  Firm /\ Copies
<1>1. Base
  BY BaseInit
<1>2. \A c \in Calls : calls[c].at = "free" /\ calls[c].seen = NoProgress /\ calls[c].local = NoProgress
  BY DEF Init, Free
<1>3. Remembered /\ Copies
  BY <1>2 DEF Remembered, Copies, Asked
<1>4. Attempts
  BY <1>2 DEF Attempts, Asked, Init
<1>5. RunFollows
  BY <1>2 DEF RunFollows, RunAgrees, Coordinator, Init
<1>6. TaskRows
  BY <1>2 DEF TaskRows, AtTask, Init
<1> QED
  BY <1>1, <1>3, <1>4, <1>5, <1>6 DEF Firm

LEMMA DoneStep ==
    ASSUME PlanAssumption, CallsAssumption, Firm, Copies, [Next]_vars
    PROVE  (Firm /\ Copies)'
<1>1. CASE Next
  <2>1. Base' /\ Remembered' /\ Attempts' /\ RunFollows' /\ TaskRows'
    BY <1>1, BaseStep, RememberedStep, AttemptsStep, RunFollowsStep, TaskRowsStep DEF Firm
  <2> QED
    BY <1>1, <2>1, CopiesStep DEF Firm
<1>2. CASE UNCHANGED vars
  <2>1. /\ UNCHANGED <<run, progress, intent, step>> /\ UNCHANGED <<log, index, worktree>>
        /\ UNCHANGED <<lock, claim, calls, failed, used>>
    BY <1>2 DEF vars, durable, git
  <2>2. Base'
    BY BaseStep DEF Firm
  <2>3. Remembered' /\ Attempts' /\ Copies'
    BY <2>1 DEF Firm, Remembered, Attempts, Copies
  <2>4. RunFollows'
    BY <2>1 DEF Firm, RunFollows, RunAgrees
  <2>5. TaskRows'
    BY <2>1 DEF Firm, TaskRows
  <2> QED
    BY <2>2, <2>3, <2>4, <2>5 DEF Firm
<1> QED
  BY <1>1, <1>2

LEMMA DoneHolds == Spec => [](Firm /\ Copies)
<1> USE Assumptions
<1>1. Init => Firm /\ Copies
  BY DoneInit
<1>2. (Firm /\ Copies) /\ [Next]_vars => (Firm /\ Copies)'
  BY DoneStep
<1> QED
  BY <1>1, <1>2, PTL DEF Spec

LEMMA DoneIsTyped ==
    ASSUME PlanAssumption, CallsAssumption, Firm, Copies
    PROVE  TypeOK
<1>1. RowTypes /\ GitTypes /\ CallTypes /\ Numbered
  BY DEF Firm, Base
<1>2. progress \in Progress
  BY StoredHasRows DEF Firm
<1>3. Len(log) \in Nat
  BY <1>1 DEF GitTypes
<1>4. intent \in [Phases -> {NoIntent} \cup [parent : 1..Len(log), tree : Tree]]
  <2>1. ASSUME NEW p \in Phases
        PROVE  intent[p] \in {NoIntent} \cup [parent : 1..Len(log), tree : Tree]
    <3>1. CASE intent[p] = NoIntent
      BY <3>1
    <3>2. CASE intent[p] # NoIntent
      <4>1. intent[p] \in [parent : Nat \ {0}, tree : Tree] /\ intent[p].parent <= Len(log)
        BY <1>1, <3>2 DEF RowTypes, Numbered
      <4>2. intent[p].parent \in 1..Len(log)
        BY <1>3, <4>1
      <4> QED
        BY <4>1, <4>2
    <3> QED
      BY <3>1, <3>2
  <2> QED
    BY <1>1, <2>1 DEF RowTypes
<1>5. calls \in [Calls ->
         [op : {"none", "start", "resume", "cancel"}, at : Points,
          seen : Progress \cup {NoProgress}, local : Progress \cup {NoProgress},
          decision : Decisions \cup {"none"}, then : {"free", "admit"}, start : 0..Len(log),
          tree : Tree, sha : 0..Len(log), aborted : BOOLEAN]]
  <2>1. ASSUME NEW c \in Calls
        PROVE  calls[c] \in
                 [op : {"none", "start", "resume", "cancel"}, at : Points,
                  seen : Progress \cup {NoProgress}, local : Progress \cup {NoProgress},
                  decision : Decisions \cup {"none"}, then : {"free", "admit"}, start : 0..Len(log),
                  tree : Tree, sha : 0..Len(log), aborted : BOOLEAN]
    <3>1. calls[c] \in Call
      BY <1>1 DEF CallTypes
    <3>2. calls[c].seen \in Progress \cup {NoProgress} /\ calls[c].local \in Progress \cup {NoProgress}
      BY DEF Copies
    <3>3. calls[c].start \in 0..Len(log) /\ calls[c].sha \in 0..Len(log)
      BY <1>1, <1>3, <3>1 DEF Call, Numbered
    <3> QED
      BY <3>1, <3>2, <3>3 DEF Call
  <2> QED
    BY <1>1, <2>1 DEF CallTypes
<1> QED
  BY <1>1, <1>2, <1>4, <1>5 DEF TypeOK, RowTypes, GitTypes, CallTypes, Status, StepStatus

\* Inv: the rows and the state of every call are well formed (an attempt has a step row,
\* an intent and a commit number are of the log), and the run shows the status of its
\* execution but while a recovery is decided or after it was marked interrupted.
THEOREM InvHolds == Spec => []Inv
<1> USE Assumptions
<1>1. Firm /\ Copies => Inv
  BY DoneIsTyped DEF Inv, Firm, RunFollows
<1> QED
  BY <1>1, DoneHolds, PTL

\* A completed task stays completed, with its rows.
LEMMA TasksKept ==
    ASSUME PlanAssumption, CallsAssumption, Firm, Next,
           NEW t \in Tasks, progress.task[t] = "completed"
    PROVE  progress'.task[t] = "completed" /\ step'[t] = step[t]
<1> DEFINE T == TaskIn(progress)
<1>1. /\ Base /\ progress \in ProgressRow /\ progress.task \in [Tasks -> TaskStatus]
      /\ step \in [Tasks -> [1..MaxAttempt -> StepStatus]]
      /\ RunningIsLast(progress, step) /\ BlockWaits(progress)
  BY DEF Firm, Base, RowTypes, ProgressRow, TaskRows, RunningIsLast, BlockWaits
<1>2. ASSUME NEW c \in Calls, Written(c)
      PROVE  progress'.task[t] = "completed" /\ step'[t] = step[t]
  <2>1. CASE /\ Begun(c) /\ progress'.task = [progress.task EXCEPT ![T] = "running"]
    <3>1. T # t /\ step' = step
      BY <2>1, TaskIsOpen DEF Begun
    <3> QED
      BY <1>1, <2>1, <3>1
  <2>2. CASE /\ Finished(c) /\ progress'.task = [progress.task EXCEPT ![T] = "completed"]
    BY <1>1, <2>2 DEF Finished
  <2>3. CASE (Cancelled(c) \/ Checked(c) \/ Announced(c)) /\ SameRow(progress')
    BY <2>3 DEF Cancelled, Checked, Announced, SameRow
  <2>4. CASE (Committed(c) \/ \E found \in BOOLEAN : Reviewed(c, found)) /\ progress'.task = progress.task
    BY <2>4 DEF Committed, Reviewed
  <2>5. ASSUME NEW type \in BlockTypes, NEW u \in Tasks \cup {NoTask}, NEW paths \in SUBSET Files,
               Blocked(c, type, u, paths),
               progress'.task = [v \in Tasks |-> IF v = u THEN "waiting" ELSE progress.task[v]]
        PROVE  progress'.task[t] = "completed" /\ step'[t] = step[t]
    <3>1. t # u
      BY <2>5, BlockedRows
    <3>2. step'[t] = step[t]
      BY <2>5, <3>1, BlockedRows
    <3> QED
      BY <2>5, <3>1, <3>2
  <2> QED
    BY <1>1, <1>2, <2>1, <2>2, <2>3, <2>4, <2>5, WrittenKinds
<1>3. ASSUME NEW c \in Calls, Decide(c)
      PROVE  progress'.task[t] = "completed" /\ step'[t] = step[t]
  <2>1. /\ step' = step /\ progress.status = "waiting" /\ calls[c].decision \in Decisions
        /\ progress' = Decided(progress, calls[c].decision)
        /\ calls[c].decision = "retry-task" => progress.stage # "changes-review"
    BY <1>3, DecideKnows
  <2>2. CASE calls[c].decision = "retry-task" /\ Retries(progress, progress')
    <3>1. progress.stage = "execution"
      BY <1>1, <2>1, <2>2 DEF ProgressRow
    <3>2. ~Retried(progress, t)
      BY <2>1, <3>1, <1>1 DEF BlockWaits, Retried
    <3> QED
      BY <2>1, <2>2, <3>2 DEF Retries
  <2> QED
    BY <1>1, <2>1, <2>2, DecisionMakes
<1>4. ASSUME NEW c \in Calls, StartStep(c) \/ AgentDone(c)
      PROVE  progress'.task[t] = "completed" /\ step'[t] = step[t]
  <2>1. calls[c].at \in AtTask /\ progress' = progress
    BY <1>4 DEF StartStep, AgentDone, At, AtTask
  <2>2. T \in Tasks /\ progress.attempt[T] \in 1..MaxAttempt /\ progress.task[T] = "running"
    BY <2>1, AtTaskKnows
  <2>3. PICK s \in {"running", "completed"} : RowBecomes(T, progress.attempt[T], s)
    BY <1>4, <2>1, AtTaskKnows DEF StartStep, AgentDone, SetStep, RowBecomes
  <2>4. \A u \in Tasks : u # T => step'[u] = step[u]
    BY <1>1, <2>2, <2>3, RowSet
  <2> QED
    BY <2>1, <2>2, <2>4
<1>5. ASSUME MarkInterrupted
      PROVE  progress'.task[t] = "completed" /\ step'[t] = step[t]
  <2>1. /\ progress' = progress
        /\ step' = [u \in Tasks |-> [n \in 1..MaxAttempt |->
                      IF step[u][n] = "running" THEN "interrupted" ELSE step[u][n]]]
    BY <1>5 DEF MarkInterrupted
  <2>2. \A n \in 1..MaxAttempt : step[t][n] # "running"
    BY <1>1 DEF RunningIsLast
  <2>3. step'[t] = [n \in 1..MaxAttempt |-> step[t][n]]
    BY <2>1, <2>2
  <2>4. step[t] \in [1..MaxAttempt -> StepStatus]
    BY <1>1
  <2>5. step[t] = [n \in 1..MaxAttempt |-> step[t][n]]
    BY <2>4
  <2> QED
    BY <2>1, <2>3, <2>5
<1> QED
  BY <1>1, <1>2, <1>3, <1>4, <1>5, RowShapes DEF ClaimWaiting, Take, durable

\* A committed phase stays committed; only the phase at work is committed next.
LEMMA CommitsKept ==
    ASSUME PlanAssumption, CallsAssumption, Firm, Next
    PROVE  \/ progress'.commit = progress.commit
           \/ \E c \in Calls :
                /\ Committed(c) /\ PhaseIn(progress) \in Phases /\ progress.commit[PhaseIn(progress)] = 0
                /\ progress'.task = progress.task /\ progress'.stage = progress.stage
                /\ progress'.commit = [progress.commit EXCEPT ![PhaseIn(progress)] = calls[c].sha]
<1>1. Base /\ progress \in ProgressRow
  BY DEF Firm, Base, RowTypes
<1>2. ASSUME NEW c \in Calls, Written(c)
      PROVE  \/ progress'.commit = progress.commit
             \/ /\ Committed(c) /\ progress'.task = progress.task /\ progress'.stage = progress.stage
                /\ progress'.commit = [progress.commit EXCEPT ![PhaseIn(progress)] = calls[c].sha]
  BY <1>1, <1>2, WrittenKinds DEF SameRow
<1>3. ASSUME NEW c \in Calls, Committed(c)
      PROVE  PhaseIn(progress) \in Phases /\ progress.commit[PhaseIn(progress)] = 0
  <2>1. calls[c].at \in InPhase
    BY <1>3 DEF Committed, InPhase, AtGate
  <2>2. OpenPhasesOf(progress) # {}
    BY <1>1, <2>1 DEF Base, Placed
  <2> QED
    BY <2>2, PhaseIsOpen
<1>4. ASSUME NEW c \in Calls, Decide(c)
      PROVE  progress'.commit = progress.commit
  BY <1>1, <1>4, DecideKnows, DecisionMakes
<1> QED
  BY <1>1, <1>2, <1>3, <1>4, RowShapes DEF ClaimWaiting, Take, StartStep, AgentDone, MarkInterrupted, durable

LEMMA PhaseStaysCommitted ==
    ASSUME PlanAssumption, CallsAssumption, Firm, Next, NEW p \in Phases, progress.commit[p] # 0
    PROVE  progress'.commit[p] = progress.commit[p]
<1>1. progress.commit \in [Phases -> Nat]
  BY DEF Firm, Base, RowTypes, ProgressRow
<1> QED
  BY <1>1, CommitsKept

LEMMA EndKept ==
    ASSUME PlanAssumption, CallsAssumption, Firm, Next, progress.status \in {"completed", "cancelled"}
    PROVE  progress' = progress /\ run' = run
<1>1. Base /\ run = progress.status
  BY DEF Firm, RunFollows
<1>2. ASSUME NEW c \in Calls, Written(c)
      PROVE  FALSE
  <2>1. calls[c].at \in Coordinator
    BY <1>1, <1>2, WrittenKinds DEF Stores
  <2> QED
    BY <1>1, <2>1 DEF Base, Follows
<1>3. ASSUME NEW c \in Calls, Decide(c)
      PROVE  FALSE
  BY <1>3, DecideKnows
<1>4. ASSUME NEW c \in Calls, ClaimWaiting(c) \/ Take(c)
      PROVE  FALSE
  BY <1>1, <1>4 DEF ClaimWaiting, Take, Claim
<1>5. ~MarkInterrupted
  BY <1>1 DEF MarkInterrupted
<1> QED
  BY <1>1, <1>2, <1>3, <1>4, <1>5, RowShapes DEF StartStep, AgentDone, durable

\* DoneStaysDone: neither a retry (applyResumeDecision), a block, a crash and what is done
\* again after it, nor marking interrupted steps undoes a completed task and its step rows,
\* a committed phase, an approval or a cancellation.
THEOREM DoneStaysDoneHolds == Spec => DoneStaysDone
<1> USE Assumptions
<1>1. ASSUME Firm, [Next]_vars
      PROVE  [/\ \A t \in Tasks : progress.task[t] = "completed" =>
                   progress'.task[t] = "completed" /\ step'[t] = step[t]
              /\ \A p \in Phases : progress.commit[p] # 0 => progress'.commit[p] = progress.commit[p]
              /\ progress.status \in {"completed", "cancelled"} => progress' = progress /\ run' = run]_vars
  BY <1>1, TasksKept, PhaseStaysCommitted, EndKept
<1>2. Firm /\ [Next]_vars =>
        [/\ \A t \in Tasks : progress.task[t] = "completed" =>
              progress'.task[t] = "completed" /\ step'[t] = step[t]
         /\ \A p \in Phases : progress.commit[p] # 0 => progress'.commit[p] = progress.commit[p]
         /\ progress.status \in {"completed", "cancelled"} => progress' = progress /\ run' = run]_vars
  BY <1>1
<1> QED
  BY <1>2, DoneHolds, PTL DEF Spec, DoneStaysDone

-----------------------------------------------------------------------------
(* The commits are the phases *)

\* An intent is replaced for the phase at work only, which is not committed.
LEMMA IntentKept ==
    ASSUME PlanAssumption, CallsAssumption, Firm, Next
    PROVE  \/ intent' = intent
           \/ \E c \in Calls :
                /\ Announced(c) /\ progress.commit[PhaseIn(progress)] = 0
                /\ \A p \in Phases : p # PhaseIn(progress) => intent'[p] = intent[p]
<1>1. Base /\ intent \in [Phases -> {NoIntent} \cup [parent : Nat \ {0}, tree : Tree]]
  BY DEF Firm, Base, RowTypes
<1>2. ASSUME NEW c \in Calls, Announced(c)
      PROVE  /\ progress.commit[PhaseIn(progress)] = 0
             /\ \A p \in Phases : p # PhaseIn(progress) => intent'[p] = intent[p]
  <2>1. calls[c].at \in InPhase
    BY <1>2 DEF Announced, InPhase, AtGate
  <2>2. progress.commit[PhaseIn(progress)] = 0
    BY <1>1, <2>1, PhaseIsOpen DEF Base, Placed
  <2> DEFINE new == [parent |-> calls[c].start, tree |-> calls[c].tree]
  <2>3. intent' = [intent EXCEPT ![PhaseIn(progress)] = new]
    BY <1>2 DEF Announced
  <2> HIDE DEF new
  <2> QED
    BY <1>1, <2>2, <2>3
<1>3. ASSUME NEW c \in Calls, Written(c)
      PROVE  intent' = intent \/ Announced(c)
  BY <1>3 DEF Written, Begun, Cancelled, Checked, Finished, Committed, Blocked, Reviewed
<1> QED
  BY <1>1, <1>2, <1>3, RowShapes DEF Decide, ClaimWaiting, Take, StartStep, AgentDone, MarkInterrupted, durable

\* A commit of a phase is what it was.
LEMMA PhaseCommitKept ==
    ASSUME PlanAssumption, CallsAssumption, Firm, Next, NEW p \in Phases, progress.commit[p] # 0,
           PhaseIsCommit(p, progress, log, intent)
    PROVE  PhaseIsCommit(p, progress', log', intent')
<1> DEFINE n == progress.commit[p]
<1>1. /\ n \in 2..Len(log) /\ log[n].phase = p
      /\ intent[p] = [parent |-> n - 1, tree |-> log[n].tree]
      /\ ChangedIn(log, n) \subseteq PhaseScope(p) \cup log[n].late
      /\ \A q \in 1..(p - 1) : progress.commit[q] \in 1..(n - 1)
      /\ \A t \in Tasks : PhaseOf[t] = p => progress.task[t] = "completed"
  BY DEF PhaseIsCommit
<1>2. /\ Len(log) \in Nat /\ Len(log') \in Nat /\ Len(log) <= Len(log')
      /\ \A m \in 1..Len(log) : log'[m] = log[m]
  BY LogKept DEF Firm
<1>3. progress'.commit[p] = n
  BY PhaseStaysCommitted
<1>4. /\ n \in 2..Len(log') /\ n \in 1..Len(log) /\ n - 1 \in 1..Len(log)
  BY <1>1, <1>2
<1>5. log'[n] = log[n] /\ log'[n - 1] = log[n - 1]
  BY <1>2, <1>4
<1>6. intent'[p] = intent[p]
  BY IntentKept
<1>7. ASSUME NEW q \in 1..(p - 1)
      PROVE  progress'.commit[q] \in 1..(n - 1)
  <2>1. q \in Phases
    BY DEF PlanAssumption
  <2>2. progress.commit[q] \in 1..(n - 1)
    BY <1>1
  <2>3. progress.commit[q] # 0
    BY <2>2
  <2> QED
    BY <2>1, <2>2, <2>3, PhaseStaysCommitted
<1>8. \A t \in Tasks : PhaseOf[t] = p => progress'.task[t] = "completed"
  BY <1>1, TasksKept
<1>9. ChangedIn(log', n) = ChangedIn(log, n)
  BY <1>5 DEF ChangedIn
<1> HIDE DEF n
<1> QED
  BY <1>1, <1>3, <1>4, <1>5, <1>6, <1>7, <1>8, <1>9 DEF PhaseIsCommit

\* The phase at work becomes its commit.
LEMMA PhaseCommits ==
    ASSUME PlanAssumption, CallsAssumption, Firm, Committing, NEW c \in Calls, Committed(c),
           NEW p \in Phases, p = PhaseIn(progress), progress.commit[p] = 0,
           progress'.task = progress.task,
           progress'.commit = [progress.commit EXCEPT ![p] = calls[c].sha],
           intent' = intent, log' = log
    PROVE  PhaseIsCommit(p, progress', log', intent')
<1> DEFINE n == calls[c].sha
<1>1. /\ calls[c].at = "complete" /\ calls[c].at \in InPhase /\ calls[c].at \in AtGate
  BY DEF Committed, InPhase, AtGate
<1>2. /\ Base /\ progress.commit \in [Phases -> Nat] /\ calls[c] \in Call /\ Len(log) \in Nat
  BY DEF Firm, Base, RowTypes, ProgressRow, CallTypes, GitTypes
<1>3. n \in Nat /\ n > 1 /\ n <= Len(log)
  BY <1>1, <1>2 DEF Base, Placed, Numbered, Call
<1>4. /\ OpenTasksOf(progress) = {}
      /\ \A q \in Phases : q < p => progress.commit[q] <= calls[c].start
      /\ intent[p] = [parent |-> calls[c].start, tree |-> calls[c].tree]
      /\ log[n].phase = p /\ ChangedIn(log, n) \subseteq PhaseScope(p) \cup log[n].late
      /\ n - 1 = calls[c].start /\ log[n].tree = calls[c].tree
  BY <1>1 DEF Committing, AtCommit
<1>5. progress'.commit[p] = n /\ \A q \in Phases : q # p => progress'.commit[q] = progress.commit[q]
  BY <1>2
<1>6. \A q \in Phases : q < p => progress.commit[q] # 0
  BY <1>1, <1>2, PhaseIsOpen DEF Base, Placed
<1>7. ASSUME NEW q \in 1..(p - 1)
      PROVE  progress'.commit[q] \in 1..(n - 1)
  <2>1. q \in Phases /\ q < p /\ q # p
    BY DEF PlanAssumption
  <2>2. progress.commit[q] \in Nat /\ progress.commit[q] # 0 /\ progress.commit[q] <= n - 1
    BY <1>2, <1>4, <1>6, <2>1
  <2> QED
    BY <1>3, <1>5, <2>1, <2>2
<1>8. \A t \in Tasks : PhaseOf[t] = p => progress'.task[t] = "completed"
  BY <1>4 DEF OpenTasksOf
<1>9. n \in 2..Len(log)
  BY <1>2, <1>3
<1> HIDE DEF n
<1> QED
  BY <1>4, <1>5, <1>7, <1>8, <1>9 DEF PhaseIsCommit

\* Where the head and what is staged go: by the hand of a coordinator, or together; what
\* others stage is not seen until the next inspection, which finds files of its task only.
LEMMA StagingMoves ==
    ASSUME PlanAssumption, Base, Next
    PROVE  \/ log' = log /\ Loose(log', index') \ unseen' \subseteq Loose(log, index) \ unseen
           \/ Loose(log', index') = {}
           \/ \E c \in Calls : calls[c].at = "stage" /\ StagePhase(c)
           \/ \E c \in Calls : calls[c].at \in {"inspect", "reinspect"} /\ InspectTask(c)
<1>1. log \in Seq(CommitRow) /\ GitTypes
  BY DEF Base, GitTypes, CommitRow
<1>2. ASSUME NEW e, log' = Append(log, e)
      PROVE  LastTree(log') = e.tree
  BY <1>1, <1>2 DEF LastTree
<1>3. ASSUME NEW c \in Calls, Commit(c)
      PROVE  Loose(log', index') = {}
  BY <1>2, <1>3 DEF Commit, Loose
<1>4. CASE HandCommit
  <2>1. PICK e : log' = Append(log, e) /\ e.tree = index'
    BY <1>4 DEF HandCommit
  <2> QED
    BY <1>2, <2>1 DEF Loose
<1>5. CASE HandRevert
  BY <1>5 DEF HandRevert, HeadTree, LastTree, Loose
<1>6. CASE HandEdit \/ \E c \in Calls : AgentWrites(c) \/ CommandWrites(c)
  <2>1. log' = log
    BY <1>6 DEF HandEdit, AgentWrites, CommandWrites, Write
  <2>2. PICK f \in Files, by \in Contents : Touch(f, by)
    BY <1>6, WriteTouches
  <2>3. unseen \subseteq unseen' /\ \A g \in Files : index'[g] = index[g] \/ g \in unseen'
    BY <1>1, <2>2, TouchMoves
  <2> QED
    BY <2>1, <2>3 DEF Loose
<1>7. CASE UNCHANGED git
  BY <1>7 DEF git, Loose
<1> QED
  BY <1>3, <1>4, <1>5, <1>6, <1>7, GitShapes DEF StagePhase, InspectTask, At

\* After a commit nothing is left staged but what nobody has inspected.
LEMMA CleanKept ==
    ASSUME PlanAssumption, Base, Next, NEW d \in Calls, calls[d].at \in {"confirm", "complete"},
           Loose(log, index) \subseteq unseen
    PROVE  Loose(log', index') \subseteq unseen'
<1>1. claim = d
  BY DEF Base, Owner, Holds, Coordinator
<1>2. ASSUME NEW c \in Calls, calls[c].at \in {"stage", "inspect", "reinspect"}
      PROVE  FALSE
  <2>1. c = d
    BY <1>1, <1>2 DEF Base, Owner, Holds, Coordinator
  <2> QED
    BY <1>2, <2>1
<1> QED
  BY <1>2, StagingMoves

LEMMA StagedStep ==
    ASSUME PlanAssumption, CallsAssumption, Firm, Committing, Next
    PROVE  Staged(progress', log', index', unseen')
<1>1. Base /\ Staged(progress, log, index, unseen) /\ GitTypes
  BY DEF Firm, Base, Committing
<1>2. CASE Loose(log', index') = {}
  BY <1>2 DEF Staged
<1>3. ASSUME NEW c \in Calls, calls[c].at = "stage", StagePhase(c)
      PROVE  Staged(progress', log', index', unseen')
  <2>1. /\ progress' = progress /\ log' = log /\ unseen' = unseen
        /\ calls[c].at \in Coordinator /\ calls[c].at \in InPhase
        /\ index' = [f \in Files |-> IF f \in PhaseScope(Phase(c)) THEN worktree[f] ELSE index[f]]
    BY <1>3 DEF StagePhase, Added, durable, Coordinator, InPhase, AtGate
  <2>2. Phase(c) = PhaseIn(progress) /\ OpenPhasesOf(progress) # {}
    BY <1>1, <2>1, AtWork DEF Base, Placed
  <2>3. \A f \in Files \ PhaseScope(PhaseIn(progress)) : index'[f] = index[f]
    BY <2>1, <2>2
  <2> QED
    BY <1>1, <2>1, <2>2, <2>3 DEF Staged, Loose
<1>4. ASSUME NEW c \in Calls, calls[c].at \in {"inspect", "reinspect"}, InspectTask(c)
      PROVE  Staged(progress', log', index', unseen')
  <2>1. /\ progress' = progress /\ log' = log /\ index' = index
        /\ calls[c].at \in Coordinator /\ calls[c].at \in InPhase /\ calls[c].at \in AtTask
        /\ Changed \subseteq Scope[Task(c)]
    BY <1>4 DEF InspectTask, OutOfScope, durable, Coordinator, InPhase, AtTask
  <2>2. /\ Phase(c) = PhaseIn(progress) /\ OpenPhasesOf(progress) # {}
        /\ Task(c) \in Tasks /\ PhaseOf[Task(c)] = Phase(c)
    BY <1>1, <2>1, AtWork, TaskIsOpen DEF Base, Placed
  <2>3. Scope[Task(c)] \subseteq PhaseScope(PhaseIn(progress))
    BY <2>2 DEF PhaseScope
  <2>4. Loose(log, index) \subseteq Changed
    BY DEF Loose, LastTree, Changed, HeadTree
  <2> QED
    BY <2>1, <2>2, <2>3, <2>4 DEF Staged
<1>5. CASE log' = log /\ Loose(log', index') \ unseen' \subseteq Loose(log, index) \ unseen
  <2>1. CASE progress'.commit = progress.commit
    BY <1>1, <1>5, <2>1, SamePlaces DEF Staged
  <2>2. ASSUME NEW c \in Calls, Committed(c)
        PROVE  Loose(log, index) \subseteq unseen
    BY <2>2 DEF Committed, Committing, AtCommit
  <2>3. CASE Loose(log, index) \subseteq unseen
    BY <1>5, <2>3 DEF Staged
  <2> QED
    BY <1>1, <2>1, <2>2, <2>3, CommitsKept
<1> QED
  BY <1>1, <1>2, <1>3, <1>4, <1>5, StagingMoves

\* A commit that is made is of the phase, and of files that were staged for it or that
\* nobody has inspected.
LEMMA CommitIsOfPhase ==
    ASSUME PlanAssumption, CallsAssumption, Firm, Committing, Next, NEW c \in Calls, Commit(c)
    PROVE  /\ calls'[c].sha = Len(log') /\ log'[calls'[c].sha].phase = PhaseIn(progress)
           /\ ChangedIn(log', calls'[c].sha) \subseteq
                PhaseScope(PhaseIn(progress)) \cup log'[calls'[c].sha].late
           /\ Loose(log', index') = {}
<1>1. /\ Base /\ calls \in [Calls -> Call] /\ log \in Seq(CommitRow) /\ Len(log) \in Nat \ {0}
  BY LogKept DEF Firm, Base, CallTypes, GitTypes, CommitRow
<1>2. calls[c].at \in Coordinator /\ calls[c].at \in InPhase
  BY DEF Commit, At, Coordinator, InPhase, AtGate
<1>3. Phase(c) = PhaseIn(progress)
  BY <1>1, <1>2, AtWork
<1> DEFINE late == unseen \cup {f \in Files : index'[f] # index[f]}
           e == [phase |-> Phase(c), tree |-> index', late |-> late]
<1>4. /\ log' = Append(log, e) /\ calls'[c].sha = Len(log')
      /\ e.tree = index' /\ e.phase = Phase(c) /\ e.late = late
  BY <1>1 DEF Commit, Call
<1>5. /\ unseen \subseteq e.late
      /\ \A f \in Files : index'[f] # index[f] => f \in e.late
  BY <1>4
<1> HIDE DEF e, late
<1>6. Len(log') = Len(log) + 1 /\ log'[Len(log')] = e /\ log'[Len(log') - 1] = log[Len(log)]
  BY <1>1, <1>4
<1>7. ChangedIn(log', Len(log')) = {f \in Files : index'[f] # LastTree(log)[f]}
  BY <1>4, <1>6 DEF ChangedIn, LastTree
<1>8. \A f \in Files : index[f] # LastTree(log)[f] => f \in PhaseScope(PhaseIn(progress)) \cup unseen
  BY DEF Committing, Staged, Loose
<1>9. Loose(log', index') = {}
  BY <1>4, <1>6 DEF Loose, LastTree
<1>10. \A f \in Files : index'[f] # LastTree(log)[f] => f \in PhaseScope(PhaseIn(progress)) \cup e.late
  BY <1>5, <1>8
<1> QED
  BY <1>3, <1>4, <1>6, <1>7, <1>9, <1>10

\* What holds of a commit and what is staged goes on to hold while a coordinator stays, or
\* goes on, with the same row, intents, start, tree and commit.
LEMMA StandsStill ==
    ASSUME PlanAssumption, CallsAssumption, Firm, Committing, Next, NEW d \in Calls,
           progress' = progress, intent' = intent,
           calls'[d].start = calls[d].start, calls'[d].tree = calls[d].tree,
           calls'[d].sha = calls[d].sha,
           calls'[d].at \in AtGate => calls[d].at \in AtGate \/ OpenTasksOf(progress) = {},
           calls'[d].at \in InPhase => calls[d].at \in InPhase,
           calls'[d].at = "commit" => calls[d].at = "commit",
           calls'[d].at = "confirm" => calls[d].at = "confirm",
           calls'[d].at = "complete" => calls[d].at = "complete" \/ Confirm(d),
           calls'[d].at = "review" => calls[d].at = "review"
    PROVE  AtCommit(calls'[d], progress', log', intent', index', unseen')
<1>1. /\ Base /\ calls[d] \in Call /\ Len(log) \in Nat
      /\ AtCommit(calls[d], progress, log, intent, index, unseen)
  BY DEF Firm, Base, CallTypes, GitTypes, Committing
<1>2. calls'[d].at \in AtGate => OpenTasksOf(progress) = {}
  BY <1>1 DEF AtCommit
<1>3. calls'[d].at \in InPhase => \A q \in Phases : q < PhaseIn(progress) => progress.commit[q] <= calls[d].start
  BY <1>1 DEF AtCommit
<1>4. Confirm(d) => calls[d].at = "confirm"
  BY DEF Confirm, At
<1>5. calls'[d].at \in {"commit", "confirm", "complete"} =>
        intent[PhaseIn(progress)] = [parent |-> calls[d].start, tree |-> calls[d].tree]
  BY <1>1, <1>4 DEF AtCommit
<1>6. ASSUME calls'[d].at \in {"confirm", "complete"}
      PROVE  /\ log'[calls[d].sha].phase = PhaseIn(progress)
             /\ ChangedIn(log', calls[d].sha) \subseteq PhaseScope(PhaseIn(progress)) \cup log'[calls[d].sha].late
             /\ Loose(log', index') \subseteq unseen'
             /\ log'[calls[d].sha] = log[calls[d].sha]
  <2>1. calls[d].at \in {"confirm", "complete"}
    BY <1>4, <1>6
  <2>2. /\ log[calls[d].sha].phase = PhaseIn(progress)
        /\ ChangedIn(log, calls[d].sha) \subseteq PhaseScope(PhaseIn(progress)) \cup log[calls[d].sha].late
        /\ Loose(log, index) \subseteq unseen
    BY <1>1, <2>1 DEF AtCommit
  <2>3. calls[d].sha \in Nat /\ calls[d].sha > 1 /\ calls[d].sha <= Len(log)
    BY <1>1, <2>1 DEF Base, Placed, Numbered, Call
  <2>4. calls[d].sha \in 1..Len(log) /\ calls[d].sha - 1 \in 1..Len(log)
    BY <1>1, <2>3
  <2>5. log'[calls[d].sha] = log[calls[d].sha] /\ log'[calls[d].sha - 1] = log[calls[d].sha - 1]
    BY <1>1, <2>4, LogKept
  <2>6. ChangedIn(log', calls[d].sha) = ChangedIn(log, calls[d].sha)
    BY <2>5 DEF ChangedIn
  <2>7. Loose(log', index') \subseteq unseen'
    BY <1>1, <2>1, <2>2, CleanKept
  <2> QED
    BY <2>2, <2>5, <2>6, <2>7
<1>7. ASSUME calls'[d].at = "complete"
      PROVE  calls[d].sha - 1 = calls[d].start /\ log'[calls[d].sha].tree = calls[d].tree
  <2>1. calls[d].sha - 1 = calls[d].start /\ log[calls[d].sha].tree = calls[d].tree
    BY <1>1, <1>7 DEF AtCommit, Confirm, Confirmed
  <2> QED
    BY <1>6, <1>7, <2>1
<1>8. calls'[d].at = "review" => OpenPhasesOf(progress) = {}
  BY <1>1 DEF AtCommit
<1> QED
  BY <1>2, <1>3, <1>5, <1>6, <1>7, <1>8 DEF AtCommit

LEMMA WorkCommits ==
    ASSUME PlanAssumption, CallsAssumption, Firm, Committing, Next, NEW c \in Calls, CallNext(c),
           calls'[c].at \in Coordinator
    PROVE  AtCommit(calls'[c], progress', log', intent', index', unseen')
<1> USE DEF InPhase, AtTask, AtGate
<1>1. /\ Base /\ calls \in [Calls -> Call] /\ Len(log) \in Nat
      /\ progress.commit \in [Phases -> Nat]
      /\ intent \in [Phases -> {NoIntent} \cup [parent : Nat \ {0}, tree : Tree]]
      /\ AtCommit(calls[c], progress, log, intent, index, unseen)
  BY DEF Firm, Base, CallTypes, RowTypes, ProgressRow, GitTypes, Committing
<1>2. CASE Take(c)
  <2>1. calls'[c].at = "phase"
    BY <1>1, <1>2 DEF Take, Call
  <2> QED
    BY <2>1 DEF AtCommit
<1>3. CASE Written(c)
  <2>1. ASSUME NEW point, Stores(c, point)
        PROVE  /\ calls'[c].at = point /\ calls'[c].start = calls[c].start
               /\ calls'[c].tree = calls[c].tree
    BY <1>1, <2>1 DEF Stores, Call
  <2>2. ASSUME progress'.commit = progress.commit
        PROVE  /\ PhaseIn(progress') = PhaseIn(progress)
               /\ progress'.task = progress.task => OpenTasksOf(progress') = OpenTasksOf(progress)
    BY <2>2, SamePlaces
  <2>3. CASE Begun(c) /\ Stores(c, "step") /\ progress'.commit = progress.commit
    <3>1. calls[c].at \in InPhase
      BY <2>3 DEF Begun
    <3> QED
      BY <1>1, <2>1, <2>2, <2>3, <3>1 DEF AtCommit
  <2>4. CASE Checked(c) /\ Stores(c, "settle") /\ SameRow(progress')
    <3>1. calls[c].at \in InPhase
      BY <2>4 DEF Checked
    <3> QED
      BY <1>1, <2>1, <2>2, <2>4, <3>1 DEF AtCommit, SameRow
  <2>5. CASE Finished(c) /\ Stores(c, "task") /\ progress'.commit = progress.commit
    <3>1. calls[c].at \in InPhase
      BY <2>5 DEF Finished
    <3> QED
      BY <1>1, <2>1, <2>2, <2>5, <3>1 DEF AtCommit
  <2>6. CASE Announced(c) /\ Stores(c, "commit") /\ SameRow(progress')
    <3>1. calls[c].at \in InPhase /\ calls[c].at \in AtGate
      BY <2>6 DEF Announced
    <3>2. PhaseIn(progress) \in Phases
      BY <1>1, <3>1, PhaseIsOpen DEF Base, Placed
    <3> DEFINE new == [parent |-> calls[c].start, tree |-> calls[c].tree]
    <3>3. intent' = [intent EXCEPT ![PhaseIn(progress)] = new]
      BY <2>6 DEF Announced
    <3>4. intent'[PhaseIn(progress)] = new
      BY <1>1, <3>2, <3>3, Zenon
    <3> QED
      BY <1>1, <2>1, <2>2, <2>6, <3>1, <3>4 DEF AtCommit, SameRow
  <2>7. CASE Stores(c, "phase") \/ Stores(c, "release")
    BY <2>1, <2>7 DEF AtCommit
  <2> QED
    BY <1>1, <1>3, <2>3, <2>4, <2>5, <2>6, <2>7, WrittenKinds
<1>4. CASE OpenPhase(c)
  <2>1. OpenPhases(c) = OpenPhasesOf(progress) /\ progress' = progress
    BY <1>1, <1>4, AtWork DEF OpenPhase, At, Coordinator, durable
  <2>2. \/ calls'[c].at = "review" /\ OpenPhases(c) = {}
        \/ calls'[c].at = "task" /\ calls'[c].start = Len(log)
    BY <1>1, <1>4 DEF OpenPhase, Go, Call
  <2>3. ASSUME NEW q \in Phases
        PROVE  progress.commit[q] <= Len(log)
    <3>1. progress.commit[q] \in Nat /\ (progress.commit[q] # 0 => progress.commit[q] \in 2..Len(log))
      BY <1>1 DEF Committing, PhaseIsCommit
    <3> QED
      BY <1>1, <3>1
  <2> QED
    BY <2>1, <2>2, <2>3 DEF AtCommit
<1>5. CASE StagePhase(c)
  <2>1. /\ calls[c].at = "stage" /\ calls'[c].at = "intent" /\ calls'[c].start = calls[c].start
        /\ progress' = progress
    BY <1>1, <1>5 DEF StagePhase, At, Call, durable
  <2> QED
    BY <1>1, <2>1 DEF AtCommit
<1>6. CASE Commit(c)
  <2>1. /\ calls[c].at = "commit" /\ calls'[c].at = "confirm" /\ calls'[c].start = calls[c].start
        /\ calls'[c].tree = calls[c].tree /\ progress' = progress /\ intent' = intent
    BY <1>1, <1>6 DEF Commit, At, Call, durable
  <2> QED
    BY <1>1, <1>6, <2>1, CommitIsOfPhase DEF AtCommit
<1>7. ASSUME NEW from, NEW to, Steady(c, from, to)
      PROVE  /\ calls[c].at = from /\ calls'[c].at = to /\ progress' = progress /\ intent' = intent
             /\ calls'[c].start = calls[c].start /\ calls'[c].tree = calls[c].tree
             /\ calls'[c].sha = calls[c].sha
  BY <1>7 DEF Steady
<1>8. CASE TasksDone(c) /\ Steady(c, "task", "gate")
  <2>1. OpenTasksOf(progress) = {}
    BY <1>1, <1>8, AtWork DEF TasksDone, At, Coordinator
  <2> QED
    BY <1>7, <1>8, <2>1, StandsStill
<1>9. CASE \/ Steady(c, "step", "agent") \/ Steady(c, "agent", "inspect") \/ Steady(c, "inspect", "verify")
           \/ Steady(c, "reinspect", "checkpoint") \/ Steady(c, "verify", "reinspect")
           \/ Steady(c, "gate", "stage")
           \/ Confirm(c) /\ Steady(c, "confirm", "complete")
           \/ Steady(c, calls[c].at, calls[c].at)
  BY <1>7, <1>9, StandsStill
<1>10. \/ Take(c) \/ Written(c) \/ OpenPhase(c) \/ StagePhase(c) \/ Commit(c)
       \/ TasksDone(c) /\ Steady(c, "task", "gate")
       \/ Steady(c, "step", "agent") \/ Steady(c, "agent", "inspect") \/ Steady(c, "inspect", "verify")
       \/ Steady(c, "reinspect", "checkpoint") \/ Steady(c, "verify", "reinspect")
       \/ Steady(c, "gate", "stage")
       \/ Confirm(c) /\ Steady(c, "confirm", "complete")
       \/ Steady(c, calls[c].at, calls[c].at)
  <2>1. Base
    BY <1>1
  <2> QED
    BY <2>1, WorkMoves
<1> QED
  BY <1>2, <1>3, <1>4, <1>5, <1>6, <1>8, <1>9, <1>10, Zenon

LEMMA CommittingStep ==
    ASSUME PlanAssumption, CallsAssumption, Firm, Committing, Next
    PROVE  Committing'
<1>1. /\ Base /\ calls \in [Calls -> Call] /\ progress.commit \in [Phases -> Nat]
      /\ \A p \in Phases : progress.commit[p] # 0 => PhaseIsCommit(p, progress, log, intent)
      /\ progress.stage = "changes-review" => OpenPhasesOf(progress) = {}
      /\ \A c \in Calls : AtCommit(calls[c], progress, log, intent, index, unseen)
  BY DEF Firm, Base, RowTypes, ProgressRow, CallTypes, Committing
<1>2. ASSUME NEW p \in Phases, progress'.commit[p] # 0
      PROVE  PhaseIsCommit(p, progress', log', intent')
  <2>1. CASE progress.commit[p] # 0
    BY <1>1, <2>1, PhaseCommitKept
  <2>2. CASE progress.commit[p] = 0
    <3>1. PICK c \in Calls :
            /\ Committed(c) /\ progress'.task = progress.task
            /\ progress'.commit = [progress.commit EXCEPT ![PhaseIn(progress)] = calls[c].sha]
      BY <1>2, <2>2, CommitsKept
    <3>2. p = PhaseIn(progress)
      BY <1>1, <1>2, <2>2, <3>1
    <3>3. intent' = intent /\ log' = log
      BY <3>1 DEF Committed, Writes, git
    <3> QED
      BY <2>2, <3>1, <3>2, <3>3, PhaseCommits
  <2> QED
    BY <2>1, <2>2
<1>3. ASSUME progress'.stage = "changes-review"
      PROVE  OpenPhasesOf(progress') = {}
  <2>1. ASSUME OpenPhasesOf(progress) = {}
        PROVE  OpenPhasesOf(progress') = {}
    BY <2>1, PhaseStaysCommitted DEF OpenPhasesOf
  <2>2. ASSUME NEW c \in Calls, Written(c)
        PROVE  progress'.stage = progress.stage \/ calls[c].at = "review"
    BY <1>1, <2>2, WrittenKinds DEF SameRow, Reviewed
  <2>3. ASSUME NEW c \in Calls, Decide(c)
        PROVE  progress'.stage = progress.stage
    BY <1>1, <2>3, DecideKnows, DecisionMakes DEF Base, RowTypes
  <2>4. \A c \in Calls : calls[c].at = "review" => OpenPhasesOf(progress) = {}
    BY <1>1 DEF AtCommit
  <2> QED
    BY <1>1, <1>3, <2>1, <2>2, <2>3, <2>4, OnlyOwnerStores
<1>4. ASSUME NEW d \in Calls
      PROVE  AtCommit(calls'[d], progress', log', intent', index', unseen')
  <2>1. CASE calls'[d].at \notin Coordinator
    BY <2>1 DEF AtCommit, Coordinator, InPhase, AtTask, AtGate
  <2>2. CASE CallNext(d) /\ calls'[d].at \in Coordinator
    BY <2>2, WorkCommits
  <2>3. CASE calls'[d] = calls[d] /\ calls'[d].at \in Coordinator
    <3>1. progress' = progress
      BY <1>1, <2>3, OthersKeep
    <3>2. intent' = intent
      <4>1. ASSUME NEW c \in Calls, Announced(c)
            PROVE  FALSE
        <5>1. Written(c)
          BY <4>1 DEF Written
        <5>2. progress'.revision = progress.revision + 1 /\ progress.revision \in Nat
          BY <1>1, <5>1, WrittenKinds, RevisionGrows DEF Stores, ProgressRow
        <5> QED
          BY <3>1, <5>2
      <4> QED
        BY <4>1, IntentKept
    <3> QED
      BY <2>3, <3>1, <3>2, StandsStill
  <2>4. CASE Crash
    <3>1. calls'[d].at = "free"
      BY <2>4 DEF Crash, Free
    <3> QED
      BY <2>1, <3>1 DEF Coordinator
  <2> QED
    BY <1>1, <2>1, <2>2, <2>3, <2>4, StepIsAlone
       DEF Next, CallNext, Alone, Outside, HandEdit, HandRevert, HandCommit, ByHand, ClearLock, MarkInterrupted
<1>5. Staged(progress', log', index', unseen')
  BY StagedStep
<1>6. Committing' <=>
        /\ \A p \in Phases : progress'.commit[p] # 0 => PhaseIsCommit(p, progress', log', intent')
        /\ progress'.stage = "changes-review" => OpenPhasesOf(progress') = {}
        /\ Staged(progress', log', index', unseen')
        /\ \A c \in Calls : AtCommit(calls'[c], progress', log', intent', index', unseen')
  BY DEF Committing
<1> QED
  BY <1>2, <1>3, <1>4, <1>5, <1>6

\* CommitsAreThePhases: a completed phase (inspectCommit against the intent, then
\* completeGuidedPhase) is one commit with its label, made on the commit its work began at
\* and of the tree of the recorded intent, after those of the phases before, when all of its
\* tasks are done, of files they declare and such that were staged after the last inspection
\* of a task (the phase's own commands, a hook or a person may do that: commitPhase commits
\* the whole index); the review begins when all phases are.
THEOREM CommitsAreThePhasesHolds == Spec => []CommitsAreThePhases
<1> USE Assumptions
<1>1. Init => Committing
  <2>1. ASSUME Init
        PROVE  Committing
    <3>1. \A c \in Calls : calls[c].at = "free"
      BY <2>1 DEF Init, Free
    <3>2. \A c \in Calls : AtCommit(calls[c], progress, log, intent, index, unseen)
      BY <3>1 DEF AtCommit, InPhase, AtTask, AtGate
    <3>3. progress.stage = "execution" /\ \A p \in Phases : progress.commit[p] = 0
      BY <2>1 DEF Init
    <3>4. Loose(log, index) = {}
      BY <2>1 DEF Init, LastTree, Loose
    <3> QED
      BY <3>2, <3>3, <3>4 DEF Committing, Staged
  <2> QED
    BY <2>1
<1>2. (Firm /\ Copies /\ Committing) /\ [Next]_vars => (Firm /\ Copies /\ Committing)'
  <2>1. Committing /\ UNCHANGED vars => Committing'
    BY DEF vars, durable, git, Committing
  <2> QED
    BY <2>1, DoneStep, CommittingStep
<1>3. Committing => CommitsAreThePhases
  <2> SUFFICES ASSUME Committing
               PROVE  CommitsAreThePhases
    OBVIOUS
  <2>1. ASSUME NEW p \in Phases, progress.commit[p] # 0
        PROVE  /\ log[progress.commit[p]].phase = p
               /\ intent[p] = [parent |-> progress.commit[p] - 1, tree |-> log[progress.commit[p]].tree]
               /\ ChangedBy(progress.commit[p]) \subseteq PhaseScope(p) \cup log[progress.commit[p]].late
               /\ \A q \in 1..(p - 1) : progress.commit[q] \in 1..(progress.commit[p] - 1)
               /\ \A t \in Tasks : PhaseOf[t] = p => progress.task[t] = "completed"
    BY <2>1 DEF Committing, PhaseIsCommit, ChangedIn, ChangedBy
  <2>2. progress.stage = "changes-review" => \A p \in Phases : progress.commit[p] # 0
    BY DEF Committing, OpenPhasesOf
  <2> QED
    BY <2>1, <2>2 DEF CommitsAreThePhases
<1>4. Init => Firm /\ Copies
  BY DoneInit
<1> QED
  BY <1>1, <1>2, <1>3, <1>4, PTL DEF Spec

-----------------------------------------------------------------------------
(* A guided task in what a device keeps *)

LEMMA TaskSteps == [StoreNext]_storeVars => [TaskNext]_taskVars
  BY DEF StoreNext, storeVars

LEMMA ExecutionSteps == [StoreNext]_storeVars => [Next]_vars
  BY DEF StoreNext, storeVars

LEMMA GuidedPart == StoreSpec => TaskSpec /\ Spec
<1>1. StoreInit => TaskInit /\ Init
  BY DEF StoreInit
<1> QED
  BY <1>1, TaskSteps, ExecutionSteps, PTL DEF StoreSpec, TaskSpec, Spec

\* In the store of a device, whatever its other documents go through, messages keep
\* their numbers, the row of a request tells what became of it, the planner's session has
\* the conversation it needs, and the rows of a run and of its execution agree: for any
\* clients, every plan and any number of calls.
THEOREM GuidedHolds == StoreSpec => []GuidedInv
<1>1. TaskInv /\ OutcomeIsTrue /\ SessionKnowsConversation /\ Inv => GuidedInv
  BY DEF GuidedInv
<1> QED
  BY <1>1, GuidedPart, TaskInvHolds, OutcomeIsTrueHolds, SessionKnowsConversationHolds, InvHolds, PTL

===============================================================================
