------------------------ MODULE WorkflowRuntimeProofs ------------------------
(***************************************************************************)
(* Proofs about WorkflowRuntime, for any number of processes, process ids, *)
(* steps and dependencies.  TypeCorrect is proved first; Safe is the       *)
(* inductive invariant from which mutual exclusion, the freshness of the   *)
(* in-memory rows and the implementation of ExclusiveRun follow; Ordered   *)
(* is the one on top of it for the order of steps and their history.       *)
(* Then about Processes, what the runtime starts for a step: AgentIInv and *)
(* CommandIInv are the inductive invariants of its two parts.              *)
(***************************************************************************)
EXTENDS WorkflowRuntime, Processes, SequenceTheorems, WellFoundedInduction, TLAPS

-----------------------------------------------------------------------------
(* Types *)

\* A process between the head of the loop and the end of a step has a step.
AtInRange ==
    \A p \in Procs :
        pc[p] \in Working \ {"loop"} => at[p] \in 1..Len(Order)

Types == TypeOK /\ AtInRange

\* The rows the runtime builds are rows, with the status they were built with.
LEMMA NewStepType ==
    ASSUME NEW status \in StepStatus, NEW n \in Nat
    PROVE  NewStep(status, n) \in StepRun /\ NewStep(status, n).status = status
BY DEF NewStep, NoStep, StepRun

\* A row taken over with another status, or with a flag changed, is a row.
LEMMA UpdatedStepType ==
    ASSUME NEW r \in StepRun, NEW status \in StepStatus, NEW flag \in BOOLEAN
    PROVE  /\ [r EXCEPT !.status = status] \in StepRun
           /\ [r EXCEPT !.status = status].status = status
           /\ [r EXCEPT !.status = status, !.stop = flag] \in StepRun
           /\ [r EXCEPT !.status = status, !.stop = flag].status = status
           /\ [r EXCEPT !.status = status, !.retryable = flag] \in StepRun
           /\ [r EXCEPT !.status = status, !.retryable = flag].status = status
BY DEF StepRun

\* The current step of a process that is at one is a step, its row a row.
LEMMA CurrentType ==
    ASSUME Types, NEW p \in Procs, at[p] \in 1..Len(Order)
    PROVE  Current(p) \in Steps /\ CurrentRow(p) \in StepRun
<1>1. Current(p) \in Steps
  BY OrderAssumption DEF Current
<1>2. snap[p] \in [Steps -> StepRun]
  BY DEF Types, TypeOK
<1> QED
  BY <1>1, <1>2 DEF CurrentRow

\* Saving a row keeps the types of everything a save touches.
LEMMA SaveType ==
    ASSUME Types, NEW p \in Procs, NEW r \in StepRun, Save(p, r),
           r.status \in StepStatus
    PROVE  /\ StoreTypeOK'
           /\ snap' \in [Procs -> [Steps -> StepRun]]
<1>1. step' \in [Steps -> StepRun]
  BY DEF Types, TypeOK, StoreTypeOK, Save, SaveStepRun, WriteStepRun
<1>2. attempts' \in [Steps -> [1..MaxAttempt -> StepStatus \cup {"absent"}]]
  <2>1. attempts \in [Steps -> [1..MaxAttempt -> StepStatus \cup {"absent"}]]
    BY DEF Types, TypeOK, StoreTypeOK
  <2>2. CASE attempts' = attempts
    BY <2>1, <2>2
  <2>3. CASE attempts' = [attempts EXCEPT ![Current(p)][r.attempt] = r.status]
    BY <2>1, <2>3
  <2> QED
    BY <2>2, <2>3 DEF Save, SaveStepRun, WriteStepRun
<1>3. snap' \in [Procs -> [Steps -> StepRun]]
  BY DEF Types, TypeOK, Save
<1> QED
  BY <1>1, <1>2, <1>3
  DEF Types, TypeOK, StoreTypeOK, Save, SaveStepRun, WriteStepRun

\* markRunInterrupted rewrites statuses to statuses.
LEMMA InterruptType ==
    ASSUME Types, NEW p \in Procs, InterruptRun(p), UNCHANGED <<proc, pid>>
    PROVE  StoreTypeOK'
<1>1. step' \in [Steps -> StepRun]
  <2>1. ASSUME NEW s \in Steps
        PROVE  [step[s] EXCEPT !.status = Interrupted(step[s].status)] \in StepRun
    <3>1. step[s] \in StepRun
      BY DEF Types, TypeOK, StoreTypeOK
    <3>2. Interrupted(step[s].status) \in StepStatus \cup {"absent"}
      BY <3>1 DEF StepRun, Interrupted, StepStatus
    <3> QED
      BY <3>1, <3>2 DEF StepRun
  <2>2. step' = [s \in Steps |->
                  [step[s] EXCEPT !.status = Interrupted(step[s].status)]]
    BY DEF InterruptRun
  <2> HIDE DEF Interrupted
  <2> QED
    BY <2>1, <2>2
<1>2. attempts' \in [Steps -> [1..MaxAttempt -> StepStatus \cup {"absent"}]]
  BY DEF InterruptRun, Types, TypeOK, StoreTypeOK, Interrupted, StepStatus
<1> QED
  BY <1>1, <1>2 DEF InterruptRun, Types, TypeOK, StoreTypeOK, RunStatus

\* Any way out of an execution.
LEMMA UnwoundType ==
    ASSUME Types, NEW p \in Procs, NEW label \in {"idle", "thrown"},
           Unwound(p, label), StoreTypeOK'
    PROVE  Types'
<1>1. [s \in Steps |-> NoStep] \in [Steps -> StepRun]
  BY DEF NoStep, StepRun
<1>2. snap' \in [Procs -> [Steps -> StepRun]]
  BY <1>1 DEF Unwound, Types, TypeOK
<1>3. AtInRange'
  BY DEF Unwound, Goto, AtInRange, Types, TypeOK, Working
<1> QED
  BY <1>2, <1>3 DEF Unwound, Goto, Types, TypeOK, Executing

\* saveRun keeps the store's types.
LEMMA SaveRunType ==
    ASSUME Types, NEW p \in Procs, NEW status \in RunStatus, SaveRun(p, status),
           UNCHANGED <<proc, pid>>
    PROVE  StoreTypeOK'
BY DEF SaveRun, Types, TypeOK, StoreTypeOK

\* Any action that saves a row of the current step and goes on in the loop.
LEMMA SavingKeepsTypes ==
    ASSUME Types, NEW p \in Procs, NEW r \in StepRun, Save(p, r),
           r.status \in StepStatus,
           NEW label \in Working, Goto(p, label),
           \/ label = "loop" /\ at' = [at EXCEPT ![p] = @ + 1]
           \/ at[p] \in 1..Len(Order) /\ at' = at,
           verdict' \in [Procs -> {"completed", "failed", "cancelled"}],
           repaired' \in [Procs -> BOOLEAN],
           aborted' = aborted
    PROVE  Types'
<1>1. StoreTypeOK' /\ snap' \in [Procs -> [Steps -> StepRun]]
  BY SaveType
<1>2. pc' \in [Procs -> Executing \cup {"idle", "claim", "thrown", "released"}]
  BY DEF Goto, Types, TypeOK, Executing
<1>3. at' \in [Procs -> Nat]
  BY DEF Types, TypeOK
<1>4. AtInRange'
  BY DEF AtInRange, Types, TypeOK, Goto
<1> QED
  BY <1>1, <1>2, <1>3, <1>4 DEF Types, TypeOK

\* Every reachable state is typed; the proof has one step per action.
LEMMA TypesInvariant == Spec => []Types
<1>1. Init => Types
  BY DEF Init, StoreInit, Types, TypeOK, StoreTypeOK, AtInRange, NoStep,
         StepRun, Working, Executing
<1>2. Types /\ [Next]_vars => Types'
  <2> SUFFICES ASSUME Types, [Next]_vars
               PROVE  Types'
    OBVIOUS
  <2>1. CASE UNCHANGED vars
    BY <2>1 DEF vars, storeVars, localVars, Types, TypeOK, StoreTypeOK, AtInRange
  <2>2. ASSUME NEW p \in Procs, Prepare(p)
        PROVE  Types'
    <3>1. CASE ClaimGranted(p) \/ AssertClaim(p)
      BY <3>1 DEF ClaimGranted, AssertClaim, ClaimRun, RunStatus,
         Goto, storeVars, Types, TypeOK, StoreTypeOK, AtInRange, Working,
         Executing
    <3>4. CASE BeginLoop(p)
      <4>1. StoreTypeOK' /\ step \in [Steps -> StepRun]
        BY <3>4 DEF BeginLoop, storeVars, Types, TypeOK, StoreTypeOK
      <4>2. snap' \in [Procs -> [Steps -> StepRun]]
        BY <3>4, <4>1 DEF BeginLoop, Types, TypeOK
      <4>3. at' \in [Procs -> Nat]
        BY <3>4 DEF BeginLoop, Types, TypeOK
      <4>4. verdict' \in [Procs -> {"completed", "failed", "cancelled"}]
        BY <3>4 DEF BeginLoop, Types, TypeOK
      <4>5. pc' = [pc EXCEPT ![p] = "loop"] /\ UNCHANGED <<repaired, aborted>>
        BY <3>4 DEF BeginLoop, Goto
      <4>6. AtInRange'
        BY <3>4, <4>5 DEF BeginLoop, Types, TypeOK, AtInRange, Working
      <4> QED
        BY <4>1, <4>2, <4>3, <4>4, <4>5, <4>6 DEF Types, TypeOK, Working, Executing
    <3>2. CASE ClaimRefused(p)
      <4>1. StoreTypeOK'
        BY <3>2 DEF ClaimRefused, storeVars, Types, TypeOK, StoreTypeOK
      <4> QED
        BY <3>2, <4>1, UnwoundType DEF ClaimRefused, Leave
    <3>3. CASE StartRefused(p)
      BY <3>3, SaveRunType, UnwoundType DEF StartRefused, RunStatus
    <3> QED
      BY <2>2, <3>1, <3>2, <3>3, <3>4 DEF Prepare
  <2>3. ASSUME NEW p \in Procs, Loop(p)
        PROVE  Types'
    <3>1. CASE StopAtAbort(p) \/ Finish(p)
      <4>1. verdict[p] \in RunStatus
        BY DEF Types, TypeOK, RunStatus
      <4> QED
        BY <3>1, <4>1, SaveRunType, UnwoundType
        DEF StopAtAbort, Finish, Leave, RunStatus
    <3>2. CASE ReuseCompleted(p) \/ KeepSkipped(p) \/ NotRetryable(p)
      <4>1. StoreTypeOK'
        BY <3>2 DEF ReuseCompleted, KeepSkipped, NotRetryable, storeVars, Types,
           TypeOK, StoreTypeOK
      <4>2. /\ verdict' \in [Procs -> {"completed", "failed", "cancelled"}]
            /\ UNCHANGED <<snap, repaired, aborted>>
        BY <3>2 DEF ReuseCompleted, KeepSkipped, NotRetryable, Worse, Types, TypeOK
      <4>3. Advance(p)
        BY <3>2 DEF ReuseCompleted, KeepSkipped, NotRetryable
      <4> QED
        BY <4>1, <4>2, <4>3 DEF Advance, Goto, Types, TypeOK, AtInRange, Working,
           Executing
    <3>0. /\ pc[p] \in Working \ {"loop"} => at[p] \in 1..Len(Order)
          /\ verdict \in [Procs -> {"completed", "failed", "cancelled"}]
          /\ repaired \in [Procs -> BOOLEAN]
      BY DEF Types, TypeOK, AtInRange
    <3>3. CASE ResetForSkip(p)
      <4>1. at[p] \in 1..Len(Order)
        BY <3>3 DEF ResetForSkip, Visit, AtStep
      <4>2. PICK n \in Nat : Save(p, NewStep("pending", n))
        BY <3>3, <4>1, CurrentType DEF ResetForSkip, StepRun
      <4> QED
        BY <3>0, <3>3, <4>1, <4>2, NewStepType, SavingKeepsTypes
        DEF ResetForSkip, StepStatus, Working
    <3>4. CASE SaveSkipped(p)
      <4>1. at[p] \in 1..Len(Order)
        BY <3>0, <3>4 DEF SaveSkipped, Visit, AtStep, Working
      <4>2. CurrentRow(p).attempt \in Nat
        BY <4>1, CurrentType DEF StepRun
      <4> QED
        BY <3>0, <3>4, <4>2, NewStepType, SavingKeepsTypes
        DEF SaveSkipped, Advance, StepStatus, Working
    <3>5. CASE PrepareStep(p)
      <4>1. at[p] \in 1..Len(Order)
        BY <3>5 DEF PrepareStep, Visit, AtStep
      <4>2. NextAttempt(CurrentRow(p)) \in Nat
        BY <4>1, CurrentType DEF NextAttempt, StepRun
      <4>3. repaired' \in [Procs -> BOOLEAN]
        BY <3>0, <3>5 DEF PrepareStep
      <4> QED
        BY <3>0, <3>5, <4>1, <4>2, <4>3, NewStepType, SavingKeepsTypes
        DEF PrepareStep, StepStatus, Working
    <3>6. CASE InvokeDriver(p)
      <4>1. at[p] \in 1..Len(Order)
        BY <3>0, <3>6 DEF InvokeDriver, Working
      <4>2. PICK r \in StepRun : r.status = "running" /\ Save(p, r)
        <5>1. CurrentRow(p) \in StepRun /\ "running" \in StepStatus
          BY <4>1, CurrentType DEF StepStatus
        <5>2. /\ [CurrentRow(p) EXCEPT !.status = "running"] \in StepRun
              /\ [CurrentRow(p) EXCEPT !.status = "running"].status = "running"
          BY <5>1, UpdatedStepType
        <5> QED
          BY <3>6, <5>2 DEF InvokeDriver
      <4> QED
        BY <3>0, <3>6, <4>1, <4>2, SavingKeepsTypes
        DEF InvokeDriver, StepStatus, Working
    <3>7. CASE CompleteStep(p)
      <4>1. at[p] \in 1..Len(Order)
        BY <3>0, <3>7 DEF CompleteStep, Working
      <4>2. PICK r \in StepRun : r.status = "completed" /\ Save(p, r)
        <5>1. PICK stop \in BOOLEAN :
                Save(p, [CurrentRow(p) EXCEPT !.status = "completed",
                                              !.stop = stop])
          BY <3>7 DEF CompleteStep
        <5>2. CurrentRow(p) \in StepRun /\ "completed" \in StepStatus
          BY <4>1, CurrentType DEF StepStatus
        <5> DEFINE row == [CurrentRow(p) EXCEPT !.status = "completed",
                                                !.stop = stop]
        <5>3. row \in StepRun /\ row.status = "completed"
          BY <5>2, UpdatedStepType
        <5> QED
          BY <5>1, <5>3
      <4> QED
        BY <3>0, <3>7, <4>1, <4>2, SavingKeepsTypes
        DEF CompleteStep, Advance, StepStatus, Working
    <3>8. CASE RejectOutput(p)
      <4>1. at[p] \in 1..Len(Order)
        BY <3>0, <3>8 DEF RejectOutput, Working
      <4>2. repaired' \in [Procs -> BOOLEAN]
        BY <3>0, <3>8 DEF RejectOutput
      <4>3. PICK r \in StepRun : r.status = "failed" /\ Save(p, r)
        <5>1. CurrentRow(p) \in StepRun /\ "failed" \in StepStatus
          BY <4>1, CurrentType DEF StepStatus
        <5> QED
          BY <3>8, <5>1, UpdatedStepType DEF RejectOutput
      <4> QED
        BY <3>0, <3>8, <4>1, <4>2, <4>3, SavingKeepsTypes
        DEF RejectOutput, StepStatus, Working
    <3>9. CASE PrepareRepair(p)
      <4>1. at[p] \in 1..Len(Order)
        BY <3>0, <3>9 DEF PrepareRepair, Working
      <4>2. CurrentRow(p).attempt + 1 \in Nat
        BY <4>1, CurrentType DEF StepRun
      <4> QED
        BY <3>0, <3>9, <4>1, <4>2, NewStepType, SavingKeepsTypes
        DEF PrepareRepair, StepStatus, Working
    <3>10. CASE FailStep(p)
      <4>1. at[p] \in 1..Len(Order)
        BY <3>0, <3>10 DEF FailStep, Working
      <4>2. PICK status \in {"cancelled", "failed"}, flag \in BOOLEAN :
              /\ Save(p, [CurrentRow(p) EXCEPT !.status = status,
                                               !.retryable = flag])
              /\ verdict' = [verdict EXCEPT ![p] = Worse(@, status)]
        BY <3>10 DEF FailStep
      <4>3. verdict' \in [Procs -> {"completed", "failed", "cancelled"}]
        BY <3>0, <4>2 DEF Worse
      <4>4. PICK r \in StepRun : r.status \in StepStatus /\ Save(p, r)
        <5>1. CurrentRow(p) \in StepRun /\ status \in StepStatus
          BY <4>1, CurrentType DEF StepStatus
        <5> QED
          BY <4>2, <5>1, UpdatedStepType
      <4> QED
        BY <3>0, <3>10, <4>1, <4>3, <4>4, SavingKeepsTypes
        DEF FailStep, Advance, StepStatus, Working
    <3> QED
      BY <2>3, <3>1, <3>2, <3>3, <3>4, <3>5, <3>6, <3>7, <3>8, <3>9, <3>10
      DEF Loop
  <2>4. ASSUME NEW p \in Procs, Unwind(p)
        PROVE  Types'
    <3>1. CASE Throw(p) \/ ReleaseFails(p)
      <4>1. StoreTypeOK'
        BY <3>1 DEF Throw, ReleaseFails, storeVars, Types, TypeOK, StoreTypeOK
      <4> QED
        BY <3>1, <4>1, UnwoundType DEF Throw, ReleaseFails, Leave
    <3>3. CASE Release(p)
      BY <3>3 DEF Release, ReleaseExecution, Goto, Types, TypeOK, StoreTypeOK,
         AtInRange, Working, Executing
    <3>2. CASE InterruptReleased(p)
      <4>1. CASE InterruptRun(p)
        BY <3>2, <4>1, InterruptType, UnwoundType DEF InterruptReleased, Leave
      <4>2. CASE UNCHANGED <<run, owner, step, attempts, claim>>
        <5>1. StoreTypeOK'
          BY <3>2, <4>2 DEF InterruptReleased, Types, TypeOK, StoreTypeOK
        <5> QED
          BY <3>2, <5>1, UnwoundType DEF InterruptReleased, Leave
      <4> QED
        BY <3>2, <4>1, <4>2 DEF InterruptReleased
    <3> QED
      BY <2>4, <3>1, <3>2, <3>3 DEF Unwind
  <2>5. ASSUME NEW p \in Procs, Environment(p)
        PROVE  Types'
    <3>1. CASE Start(p) \/ Create(p) \/ CheckResume(p) \/ Abort(p)
      BY <3>1 DEF Start, Create, CheckResume, Abort, CreateRun, Goto,
         RunStatus, storeVars, localVars,
         Types, TypeOK, StoreTypeOK, AtInRange, Working, Executing
    <3>3. CASE Die(p)
      BY <3>3 DEF Die, Goto, Leave, Unwound, NoStep, StepRun,
         Types, TypeOK, StoreTypeOK, AtInRange, Working, Executing
    <3>2. CASE MarkInterrupted(p)
      BY <3>2, InterruptType DEF MarkInterrupted, localVars, Types, TypeOK,
         AtInRange
    <3> QED
      BY <2>5, <3>1, <3>2, <3>3 DEF Environment
  <2> QED
    BY <2>1, <2>2, <2>3, <2>4, <2>5 DEF Next, Proceed
<1> QED
  BY <1>1, <1>2, PTL DEF Spec

\* The types of WorkflowRuntime hold in every reachable state.
THEOREM TypeCorrect == Spec => []TypeOK
<1>1. Types => TypeOK
  BY DEF Types
<1> QED
  BY <1>1, TypesInvariant, PTL

-----------------------------------------------------------------------------
(* Ownership *)

\* No two running processes share a process id.
PidsUnique ==
    \A p, q \in Procs : Up(p) /\ Up(q) /\ pid[p] = pid[q] => p = q

\* Only a running process is in the middle of something.
ActiveUp == \A p \in Procs : pc[p] # "idle" => Up(p)

\* An executing process holds the running run.
HoldsRun == \A p \in Procs : pc[p] \in Executing => run = "running" /\ owner = p

\* An owner row names a process that exists or existed.
OwnerBorn == owner # NoOwner => proc[owner] # "unborn"

Safe ==
    /\ PidsUnique
    /\ ActiveUp
    /\ HoldsRun
    /\ OwnerBorn
    /\ OwnerMeansRunning
    /\ SnapshotFresh

\* Seen by any running process, a running owner is a live owner: the signal
\* finds its process id, and nobody else can take that id for its own.
LEMMA RunningOwnerIsLive ==
    ASSUME PidsUnique, NEW p \in Procs, Up(p), owner = p, NEW q \in Procs, Up(q)
    PROVE  LiveOwner(q)
BY NoOwnerAssumption DEF PidsUnique, LiveOwner, Up

\* markRunInterrupted only succeeds while nobody executes the run.
LEMMA InterruptMeansIdle ==
    ASSUME Safe, NEW p \in Procs, Up(p), InterruptRun(p)
    PROVE  \A q \in Procs : pc[q] \notin Executing
<1> SUFFICES ASSUME NEW q \in Procs, pc[q] \in Executing
             PROVE  FALSE
  OBVIOUS
<1>1. owner = q /\ Up(q)
  BY DEF Safe, HoldsRun, ActiveUp, Executing, Working
<1>2. LiveOwner(p)
  BY <1>1, RunningOwnerIsLive DEF Safe
<1> QED
  BY <1>2 DEF InterruptRun

\* A save writes the same row to the database and to the only memory in use.
LEMMA SaveKeepsSafe ==
    ASSUME Types, Safe, NEW p \in Procs, NEW r, Save(p, r),
           at[p] \in 1..Len(Order), pc[p] \in Working,
           NEW label \in Working, Goto(p, label)
    PROVE  Safe'
<1> DEFINE c == Current(p)
<1>1. /\ run = "running" /\ owner = p
      /\ UNCHANGED <<run, owner, proc, pid>>
      /\ step' = [step EXCEPT ![c] = r]
      /\ snap' = [snap EXCEPT ![p] = [snap[p] EXCEPT ![c] = r]]
  BY DEF Save, SaveStepRun, WriteStepRun
<1>2. pc'[p] = label /\ \A q \in Procs \ {p} : pc'[q] = pc[q]
  BY DEF Goto, Types, TypeOK, Executing, Working
<1>3. SnapshotFresh'
  <2> SUFFICES ASSUME NEW q \in Procs, pc'[q] \in Working
               PROVE  snap'[q] = step'
    BY DEF SnapshotFresh
  <2>1. q = p
    BY <1>1, <1>2 DEF Safe, HoldsRun, Executing
  <2>2. snap[p] = step
    BY DEF Safe, SnapshotFresh
  <2> QED
    BY <1>1, <2>1, <2>2 DEF Types, TypeOK
<1>4. HoldsRun'
  BY <1>1, <1>2 DEF Safe, HoldsRun, Executing
<1>5. ActiveUp'
  BY <1>1, <1>2 DEF Safe, ActiveUp, Up, Working
<1> QED
  BY <1>1, <1>3, <1>4, <1>5
  DEF Safe, PidsUnique, OwnerBorn, OwnerMeansRunning, Up

\* Whoever stops executing without touching the rows of others keeps Safe.
LEMMA LeavingKeepsSafe ==
    ASSUME Types, Safe, NEW p \in Procs, NEW label \in {"idle", "thrown"},
           Unwound(p, label), UNCHANGED <<proc, pid, step>>,
           label = "idle" \/ Up(p),
           \/ UNCHANGED <<run, owner>>
           \/ owner' = NoOwner /\ \A q \in Procs \ {p} : pc[q] \notin Executing
    PROVE  Safe'
<1>1. /\ pc'[p] = label /\ \A q \in Procs \ {p} : pc'[q] = pc[q]
      /\ \A q \in Procs \ {p} : snap'[q] = snap[q]
  BY DEF Unwound, Goto, Types, TypeOK, Executing, Working
<1>2. label \notin Executing /\ label \notin Working
  BY DEF Executing, Working
<1>3. ActiveUp'
  BY <1>1 DEF Safe, ActiveUp, Up
<1>4. HoldsRun'
  BY <1>1, <1>2 DEF Safe, HoldsRun
<1>5. SnapshotFresh'
  BY <1>1, <1>2 DEF Safe, SnapshotFresh
<1> QED
  BY <1>3, <1>4, <1>5 DEF Safe, PidsUnique, OwnerBorn, OwnerMeansRunning, Up

\* A step of the loop saves a row, ends the run or only moves on.
LEMMA LoopShape ==
    ASSUME Types, NEW p \in Procs, Loop(p)
    PROVE  \/ \E r : \E label \in Working :
                 /\ Save(p, r) /\ Goto(p, label)
                 /\ at[p] \in 1..Len(Order) /\ pc[p] \in Working
           \/ \E status \in {"completed", "failed", "cancelled"} :
                 SaveRun(p, status) /\ Leave(p) /\ UNCHANGED <<proc, pid>>
           \/ /\ pc[p] = "loop" /\ Advance(p)
              /\ UNCHANGED <<storeVars, snap>>
<1> USE DEF Working
<1>0. /\ verdict[p] \in {"completed", "failed", "cancelled"}
      /\ pc[p] \in Working \ {"loop"} => at[p] \in 1..Len(Order)
  BY DEF Types, TypeOK, AtInRange
<1>1. CASE StopAtAbort(p) \/ Finish(p)
  BY <1>0, <1>1 DEF StopAtAbort, Finish
<1>2. CASE ReuseCompleted(p) \/ KeepSkipped(p) \/ NotRetryable(p)
  BY <1>2 DEF ReuseCompleted, KeepSkipped, NotRetryable, Visit, AtStep
<1>3. CASE ResetForSkip(p) \/ PrepareStep(p)
  <2>1. PICK r : Save(p, r)
    BY <1>3 DEF ResetForSkip, PrepareStep
  <2>2. at[p] \in 1..Len(Order) /\ pc[p] \in Working
    BY <1>3 DEF ResetForSkip, PrepareStep, Visit, AtStep
  <2>3. \E label \in Working : Goto(p, label)
    BY <1>3 DEF ResetForSkip, PrepareStep
  <2> QED
    BY <2>1, <2>2, <2>3
<1>4. CASE SaveSkipped(p)
  BY <1>0, <1>4 DEF SaveSkipped, Visit, AtStep, Advance
<1>5. CASE InvokeDriver(p) \/ RejectOutput(p) \/ PrepareRepair(p)
  <2>1. PICK r : Save(p, r)
    BY <1>5 DEF InvokeDriver, RejectOutput, PrepareRepair
  <2>2. at[p] \in 1..Len(Order) /\ pc[p] \in Working
    BY <1>0, <1>5 DEF InvokeDriver, RejectOutput, PrepareRepair
  <2>3. \E label \in Working : Goto(p, label)
    BY <1>5 DEF InvokeDriver, RejectOutput, PrepareRepair
  <2> QED
    BY <2>1, <2>2, <2>3
<1>6. CASE CompleteStep(p) \/ FailStep(p)
  <2>1. PICK r : Save(p, r)
    BY <1>6 DEF CompleteStep, FailStep
  <2>2. at[p] \in 1..Len(Order) /\ pc[p] \in Working
    BY <1>0, <1>6 DEF CompleteStep, FailStep
  <2>3. \E label \in Working : Goto(p, label)
    BY <1>6 DEF CompleteStep, FailStep, Advance
  <2> QED
    BY <2>1, <2>2, <2>3
<1> QED
  BY <1>1, <1>2, <1>3, <1>4, <1>5, <1>6 DEF Loop

\* Ownership is safe in every reachable state.
LEMMA SafeInvariant == Spec => []Safe
<1>1. Init => Safe
  BY DEF Init, StoreInit, Safe, PidsUnique, ActiveUp, HoldsRun, OwnerBorn,
         OwnerMeansRunning, SnapshotFresh, Up, Executing, Working
<1>2. Types /\ Safe /\ [Next]_vars => Safe'
  <2> SUFFICES ASSUME Types, Safe, [Next]_vars
               PROVE  Safe'
    OBVIOUS
  <2>1. CASE UNCHANGED vars
    BY <2>1 DEF vars, storeVars, localVars, Safe, PidsUnique, ActiveUp, HoldsRun,
       OwnerBorn, OwnerMeansRunning, SnapshotFresh, Up
  <2>2. ASSUME NEW p \in Procs, Prepare(p)
        PROVE  Safe'
    <3>1. CASE ClaimGranted(p)
      <4>1. /\ \A q \in Procs : pc[q] \notin Executing /\ pc[q] \notin Working
            /\ Up(p)
        BY <3>1 DEF ClaimGranted, ClaimRun, Claimable, Safe, HoldsRun, ActiveUp,
           Executing
      <4>2. /\ pc'[p] = "claimed" /\ \A q \in Procs \ {p} : pc'[q] = pc[q]
            /\ run' = "running" /\ owner' = p /\ UNCHANGED <<proc, pid>>
        BY <3>1 DEF ClaimGranted, ClaimRun, Goto, Types, TypeOK
      <4> QED
        BY <4>1, <4>2 DEF Safe, PidsUnique, ActiveUp, HoldsRun, OwnerBorn,
           OwnerMeansRunning, SnapshotFresh, Up, Working
    <3>2. CASE ClaimRefused(p)
      BY <3>2, LeavingKeepsSafe DEF ClaimRefused, Leave, storeVars
    <3>3. CASE AssertClaim(p)
      BY <3>3 DEF AssertClaim, Goto, storeVars, Types, TypeOK, Safe, PidsUnique,
         ActiveUp, HoldsRun, OwnerBorn, OwnerMeansRunning, SnapshotFresh, Up,
         Executing, Working
    <3>4. CASE BeginLoop(p)
      BY <3>4 DEF BeginLoop, Goto, storeVars, Types, TypeOK, Safe, PidsUnique,
         ActiveUp, HoldsRun, OwnerBorn, OwnerMeansRunning, SnapshotFresh, Up,
         Executing, Working
    <3>5. CASE StartRefused(p)
      <4>1. \A q \in Procs \ {p} : pc[q] \notin Executing
        BY <3>5 DEF StartRefused, SaveRun, Safe, HoldsRun
      <4>2. Up(p)
        BY <3>5 DEF StartRefused, Safe, ActiveUp
      <4> QED
        BY <3>5, <4>1, <4>2, LeavingKeepsSafe DEF StartRefused, SaveRun
    <3> QED
      BY <2>2, <3>1, <3>2, <3>3, <3>4, <3>5 DEF Prepare
  <2>3. ASSUME NEW p \in Procs, Loop(p)
        PROVE  Safe'
    <3>1. ASSUME NEW r, NEW label \in Working, Save(p, r), Goto(p, label),
                 at[p] \in 1..Len(Order), pc[p] \in Working
          PROVE  Safe'
      BY <3>1, SaveKeepsSafe
    <3>2. ASSUME NEW status, SaveRun(p, status), Leave(p), UNCHANGED <<proc, pid>>
          PROVE  Safe'
      <4>1. \A q \in Procs \ {p} : pc[q] \notin Executing
        BY <3>2 DEF SaveRun, Safe, HoldsRun
      <4> QED
        BY <3>2, <4>1, LeavingKeepsSafe DEF SaveRun, Leave
    <3>3. CASE pc[p] = "loop" /\ Advance(p) /\ UNCHANGED <<storeVars, snap>>
      BY <3>3 DEF Advance, Goto, storeVars, Types, TypeOK, Safe, PidsUnique,
         ActiveUp, HoldsRun, OwnerBorn, OwnerMeansRunning, SnapshotFresh, Up,
         Executing, Working
    <3> QED
      BY <2>3, <3>1, <3>2, <3>3, LoopShape
  <2>4. ASSUME NEW p \in Procs, Unwind(p)
        PROVE  Safe'
    <3>0. Up(p)
      BY <2>4 DEF Unwind, Throw, Release, ReleaseFails, InterruptReleased, Safe,
         ActiveUp, Executing, Working
    <3>1. CASE Throw(p) \/ ReleaseFails(p)
      BY <3>0, <3>1, LeavingKeepsSafe DEF Throw, ReleaseFails, Leave, storeVars
    <3>2. CASE Release(p)
      <4>1. \A q \in Procs : pc[q] \in Executing => q # p
        BY <3>2 DEF Release, Executing, Working
      <4>2. /\ pc'[p] = "released" /\ \A q \in Procs \ {p} : pc'[q] = pc[q]
            /\ UNCHANGED <<run, step, snap, proc, pid>>
            /\ owner' = IF owner = p THEN NoOwner ELSE owner
        BY <3>2 DEF Release, ReleaseExecution, Goto, Types, TypeOK
      <4> QED
        BY <3>0, <4>1, <4>2 DEF Safe, PidsUnique, ActiveUp, HoldsRun, OwnerBorn,
           OwnerMeansRunning, SnapshotFresh, Up, Executing, Working
    <3>3. CASE InterruptReleased(p)
      <4>1. CASE InterruptRun(p)
        <5>1. \A q \in Procs : pc[q] \notin Executing
          BY <3>0, <4>1, InterruptMeansIdle
        <5>2. /\ pc'[p] = "idle" /\ \A q \in Procs \ {p} : pc'[q] = pc[q]
              /\ owner' = NoOwner /\ UNCHANGED <<proc, pid>>
          BY <3>3, <4>1 DEF InterruptReleased, InterruptRun, Leave, Unwound, Goto,
             Types, TypeOK
        <5>3. "idle" \notin Executing
          BY DEF Executing, Working
        <5> QED
          BY <5>1, <5>2, <5>3 DEF Safe, PidsUnique, ActiveUp, HoldsRun,
             OwnerBorn, OwnerMeansRunning, SnapshotFresh, Up, Executing
      <4>2. CASE UNCHANGED <<run, owner, step, attempts, claim>>
        BY <3>3, <4>2, LeavingKeepsSafe DEF InterruptReleased, Leave
      <4> QED
        BY <3>3, <4>1, <4>2 DEF InterruptReleased
    <3> QED
      BY <2>4, <3>1, <3>2, <3>3 DEF Unwind
  <2>5. ASSUME NEW p \in Procs, Environment(p)
        PROVE  Safe'
    <3>1. CASE Start(p)
      BY <3>1 DEF Start, localVars, Types, TypeOK, StoreTypeOK, Safe, PidsUnique,
         ActiveUp, HoldsRun, OwnerBorn, OwnerMeansRunning, SnapshotFresh, Up
    <3>2. CASE Create(p)
      <4>1. \A q \in Procs : pc[q] \notin Executing /\ pc[q] \notin Working
        BY <3>2 DEF Create, CreateRun, Safe, HoldsRun, Executing
      <4>2. /\ pc'[p] = "started" /\ \A q \in Procs \ {p} : pc'[q] = pc[q]
            /\ run' = "running" /\ owner' = p /\ UNCHANGED <<proc, pid>> /\ Up(p)
        BY <3>2 DEF Create, CreateRun, Goto, Types, TypeOK
      <4> QED
        BY <4>1, <4>2 DEF Safe, PidsUnique, ActiveUp, HoldsRun, OwnerBorn,
           OwnerMeansRunning, SnapshotFresh, Up, Working
    <3>3. CASE CheckResume(p) \/ Abort(p)
      BY <3>3 DEF CheckResume, Abort, Goto, storeVars, Types, TypeOK, Safe,
         PidsUnique, ActiveUp, HoldsRun, OwnerBorn, OwnerMeansRunning,
         SnapshotFresh, Up, Executing, Working
    <3>4. CASE MarkInterrupted(p)
      <4>1. \A q \in Procs : pc[q] \notin Executing
        BY <3>4, InterruptMeansIdle DEF MarkInterrupted
      <4> QED
        BY <3>4, <4>1 DEF MarkInterrupted, InterruptRun, localVars, Safe,
           PidsUnique, ActiveUp, HoldsRun, OwnerBorn, OwnerMeansRunning,
           SnapshotFresh, Up, Executing
    <3>5. CASE Die(p)
      <4>1. /\ pc'[p] = "idle" /\ \A q \in Procs \ {p} : pc'[q] = pc[q]
            /\ \A q \in Procs \ {p} : snap'[q] = snap[q]
            /\ \A q \in Procs \ {p} : proc'[q] = proc[q]
            /\ proc'[p] = "dead"
            /\ UNCHANGED <<pid, run, owner, step>>
        BY <3>5 DEF Die, Leave, Unwound, Goto, Types, TypeOK, StoreTypeOK
      <4>2. PidsUnique' /\ ActiveUp'
        BY <4>1 DEF Safe, PidsUnique, ActiveUp, Up
      <4>3. HoldsRun' /\ SnapshotFresh'
        BY <4>1 DEF Safe, HoldsRun, SnapshotFresh, Executing, Working
      <4>4. OwnerBorn' /\ OwnerMeansRunning'
        BY <4>1 DEF Safe, OwnerBorn, OwnerMeansRunning, Types, TypeOK, StoreTypeOK
      <4> QED
        BY <4>2, <4>3, <4>4 DEF Safe
    <3> QED
      BY <2>5, <3>1, <3>2, <3>3, <3>4, <3>5 DEF Environment
  <2> QED
    BY <2>1, <2>2, <2>3, <2>4, <2>5 DEF Next, Proceed
<1> QED
  BY <1>1, <1>2, TypesInvariant, PTL DEF Spec

\* Mutual exclusion: at any time at most one process executes the run, and it
\* is the one the owner row names (assertCurrentExecutionOwner never rejects
\* a write of the executing process).
THEOREM MutualExclusion == Spec => []ExclusiveExecution
<1>1. Safe => ExclusiveExecution
  BY DEF Safe, HoldsRun, ExclusiveExecution
<1> QED
  BY <1>1, SafeInvariant, PTL

\* The rows an execution read before its loop are the rows of the database
\* until the loop ends: nothing it decides from them is stale.
THEOREM RowsStayFresh == Spec => []SnapshotFresh
<1>1. Safe => SnapshotFresh
  BY DEF Safe
<1> QED
  BY <1>1, SafeInvariant, PTL

\* No owner row is left on a run that no longer runs.
THEOREM NoStrayOwner == Spec => []OwnerMeansRunning
<1>1. Safe => OwnerMeansRunning
  BY DEF Safe
<1> QED
  BY <1>1, SafeInvariant, PTL

\* Whoever crashes, recovers or resumes: the rows are well formed, and an owner row means
\* that the run is running.
THEOREM RunHolds == Spec => []RunInv
<1>1. TypeOK /\ OwnerMeansRunning => RunInv
  BY DEF RunInv
<1> QED
  BY <1>1, TypeCorrect, NoStrayOwner, PTL

-----------------------------------------------------------------------------
(* The order of the steps *)

\* An attempt at s has reached a driver.
Ran(s, rows) == rows[s].status \in {"running"} \cup SettledStatus

\* All that s depends on has completed and nothing of it said stop.
Ready(s, rows) ==
    \A d \in Deps[s] : rows[d].status = "completed" /\ ~rows[d].stop

\* Something s depends on blocks or stops it.
Barred(s, rows) == Blocked(s, rows) \/ Stopped(s, rows)

\* s is done as a completed run wants it.
Concluded(s, rows) ==
    \/ rows[s].status = "completed"
    \/ /\ rows[s].status = "skipped"
       /\ \E d \in Deps[s] : rows[d].stop \/ rows[d].status = "skipped"

\* What reached a driver was ready, and stays so.
RanWasReady == \A s \in Steps : Ran(s, step) => Ready(s, step)

AbsentIsNoStep == \A s \in Steps : step[s].status = "absent" => step[s] = NoStep

\* A row is running only under a driver call of the process that executes the
\* run, or while the run still waits to be marked interrupted.
RunningIsDriven ==
    \A s \in Steps : step[s].status = "running" =>
        /\ run = "running"
        /\ \A p \in Procs : pc[p] \in Executing =>
              pc[p] = "driving" /\ Current(p) = s

\* The row of the current step says where its process is.
RowFollowsProcess ==
    \A p \in Procs :
        /\ pc[p] \in {"prepared", "driving", "repairing"} => Ready(Current(p), step)
        /\ pc[p] = "skipping" => Barred(Current(p), step)
        /\ pc[p] \in {"prepared", "skipping"} =>
              step[Current(p)].status = "pending"
        /\ pc[p] = "driving" => step[Current(p)].status = "running"
        /\ pc[p] = "repairing" => step[Current(p)].status = "failed"

\* The steps a loop has passed are settled in the database.
PassedSettled ==
    \A p \in Procs : pc[p] \in Working =>
        \A i \in 1..Len(Order) : i < at[p] =>
            step[Order[i]].status \in {"completed", "failed", "cancelled", "skipped"}

\* While the verdict is still completed, the passed steps are done.
PassedDone ==
    \A p \in Procs : pc[p] \in Working /\ verdict[p] = "completed" =>
        \A i \in 1..Len(Order) : i < at[p] => Concluded(Order[i], step)

\* Attempt rows never run ahead of the step row: a settled one is the current
\* attempt only if the step row is settled too, a running one is the current.
AttemptsFollowRow ==
    \A s \in Steps : \A n \in 1..MaxAttempt :
        /\ attempts[s][n] \in SettledStatus =>
              /\ n <= step[s].attempt
              /\ n = step[s].attempt => step[s].status \in SettledStatus
        /\ attempts[s][n] = "running" =>
              n = step[s].attempt /\ step[s].status = "running"

Ordered ==
    /\ RanWasReady
    /\ AbsentIsNoStep
    /\ RunningIsDriven
    /\ RowFollowsProcess
    /\ PassedSettled
    /\ PassedDone
    /\ AttemptsFollowRow
    /\ CompletedRunIsDone

\* What a step depends on comes before it in the order, and is not the step.
LEMMA Earlier ==
    ASSUME NEW i \in 1..Len(Order), NEW d \in Deps[Order[i]]
    PROVE  /\ d \in Steps
           /\ d # Order[i]
           /\ \E j \in 1..Len(Order) : j < i /\ Order[j] = d
<1>1. Len(Order) \in Nat /\ Order[i] \in Steps
  BY OrderAssumption
<1>2. PICK j \in 1..(i - 1) : Order[j] = d
  BY DepsAssumption
<1>3. j \in 1..Len(Order) /\ j < i
  BY <1>1, <1>2
<1> QED
  BY <1>1, <1>2, <1>3, OrderAssumption, DepsAssumption

\* One saved row r of the current step, after which the process is at label.
\* Every saving action of the loop is of this kind: it never replaces a
\* completed row, gives a driver only what is ready, passes the step with a
\* settled row or stays at it with the row the label stands for, and takes a
\* new attempt number for an attempt that was settled.
OrderlySave(p, r, label) ==
    /\ Save(p, r) /\ Goto(p, label)
    /\ r.status \in StepStatus
    /\ pc[p] \in Working /\ at[p] \in 1..Len(Order)
    /\ step[Current(p)].status # "completed"
    /\ r.status \in {"running"} \cup SettledStatus => Ready(Current(p), step)
    /\ \/ /\ label = "loop" /\ at' = [at EXCEPT ![p] = @ + 1]
          /\ r.status \in {"completed", "failed", "cancelled", "skipped"}
          /\ verdict'[p] = "completed" =>
                /\ verdict[p] = "completed"
                /\ \/ r.status = "completed"
                   \/ r.status = "skipped" /\ Barred(Current(p), step)
       \/ /\ label # "loop" /\ at' = at /\ verdict' = verdict
          /\ label = "skipping" => Barred(Current(p), step)
          /\ label # "skipping" => Ready(Current(p), step)
          /\ r.status = CASE label = "driving" -> "running"
                          [] label = "repairing" -> "failed"
                          [] OTHER -> "pending"
    /\ \/ /\ r.status = "pending"
          /\ step[Current(p)].status # "running"
          /\ r.attempt >= step[Current(p)].attempt
          /\ step[Current(p)].status \in SettledStatus =>
                r.attempt > step[Current(p)].attempt
       \/ /\ r.status # "pending"
          /\ r.attempt = step[Current(p)].attempt
          /\ step[Current(p)].status \in {"pending", "running"}

\* Such a save keeps every part of Ordered.
LEMMA SaveKeepsOrdered ==
    ASSUME Types, Safe, Ordered, NEW p \in Procs, NEW r \in StepRun,
           NEW label \in Working, OrderlySave(p, r, label)
    PROVE  Ordered'
<1> USE DEF OrderlySave
<1> DEFINE c == Current(p)
<1>0. c \in Steps /\ c = Order[at[p]]
  BY CurrentType DEF Current
<1>1. /\ run = "running" /\ run' = "running" /\ owner = p /\ UNCHANGED proc
      /\ step'[c] = r /\ \A s \in Steps \ {c} : step'[s] = step[s]
      /\ attempts' = IF r.status = "pending" THEN attempts
                     ELSE [attempts EXCEPT ![c][r.attempt] = r.status]
  BY <1>0 DEF Save, SaveStepRun, WriteStepRun, Types, TypeOK, StoreTypeOK
<1>2. /\ pc'[p] = label
      /\ \A q \in Procs \ {p} : pc[q] \notin Executing /\ pc'[q] \notin Executing
  BY <1>1 DEF Goto, Types, TypeOK, Safe, HoldsRun
<1>3. \A s \in Steps : s # c => step'[s] = step[s]
  BY <1>1
<1>4. \A s \in Steps : Ready(s, step) => Ready(s, step')
  BY <1>1, DepsAssumption DEF Ready
<1>5. \A d \in Deps[c] : d \in Steps /\ step'[d] = step[d]
  BY <1>0, <1>1, Earlier
<1>6. Barred(c, step) <=> Barred(c, step')
  BY <1>5 DEF Barred, Blocked, Stopped
<1>7. /\ pc'[p] \in Working /\ label \in Executing /\ pc'[p] \in Executing
      /\ ("skipping" \in Executing /\ "prepared" \in Executing
          /\ "driving" \in Executing /\ "repairing" \in Executing)
  BY <1>2 DEF Executing, Working
<1>8. at[p] \in Nat /\ at'[p] \in Nat /\ at'[p] <= at[p] + 1 /\ Len(Order) \in Nat
  BY OrderAssumption DEF Types, TypeOK
<1>9. label # "loop" => at'[p] = at[p] /\ Order[at'[p]] = c
  BY DEF Current
<1>10. \A i \in 1..Len(Order) :
         i < at[p] => Order[i] \in Steps /\ Order[i] # c
                      /\ step'[Order[i]] = step[Order[i]]
  <2> SUFFICES ASSUME NEW i \in 1..Len(Order), i < at[p]
               PROVE  Order[i] \in Steps /\ Order[i] # c
    BY <1>3
  <2> QED
    BY <1>0, <1>8, OrderAssumption
<1>11. RanWasReady'
  <2> SUFFICES ASSUME NEW s \in Steps, Ran(s, step')
               PROVE  Ready(s, step')
    BY DEF RanWasReady
  <2>1. CASE s = c
    BY <1>0, <1>1, <1>4, <2>1 DEF Ran
  <2>2. CASE s # c
    BY <1>3, <1>4, <2>2 DEF Ran, Ordered, RanWasReady
  <2> QED
    BY <2>1, <2>2
<1>12. AbsentIsNoStep'
  BY <1>1 DEF Ordered, AbsentIsNoStep, StepStatus
<1>13. RunningIsDriven'
  <2> SUFFICES ASSUME NEW s \in Steps, step'[s].status = "running"
               PROVE  \A q \in Procs : pc'[q] \in Executing =>
                         pc'[q] = "driving" /\ Order[at'[q]] = s
    BY <1>1 DEF RunningIsDriven, Current
  <2>1. s = c
    <3> SUFFICES ASSUME s # c
                 PROVE  FALSE
      OBVIOUS
    <3>1. step[s].status = "running"
      BY <1>3
    <3>2. pc[p] \in Executing
      BY DEF Executing
    <3> QED
      BY <3>1, <3>2 DEF Ordered, RunningIsDriven
  <2>2. label = "driving"
    BY <1>1, <2>1 DEF Working
  <2> QED
    BY <1>2, <1>9, <2>1, <2>2
<1>14. RowFollowsProcess'
  <2> SUFFICES ASSUME NEW q \in Procs, pc'[q] \in Executing
               PROVE  /\ pc'[q] \in {"prepared", "driving", "repairing"} =>
                            Ready(Order[at'[q]], step')
                      /\ pc'[q] = "skipping" => Barred(Order[at'[q]], step')
                      /\ pc'[q] \in {"prepared", "skipping"} =>
                            step'[Order[at'[q]]].status = "pending"
                      /\ pc'[q] = "driving" => step'[Order[at'[q]]].status = "running"
                      /\ pc'[q] = "repairing" => step'[Order[at'[q]]].status = "failed"
    BY DEF RowFollowsProcess, Executing, Working, Current
  <2>1. q = p
    BY <1>2
  <2>2. CASE label = "loop"
    BY <1>2, <2>1, <2>2
  <2>3. CASE label # "loop"
    <3>1. /\ label = "skipping" => Barred(c, step')
          /\ label # "skipping" => Ready(c, step')
      BY <1>0, <1>4, <1>6, <2>3
    <3>2. Order[at'[q]] = c /\ pc'[q] = label /\ step'[c] = r
      BY <1>1, <1>2, <1>9, <2>1, <2>3
    <3>3. /\ label \in {"prepared", "driving", "repairing"} => Ready(Order[at'[q]], step')
          /\ label = "skipping" => Barred(Order[at'[q]], step')
      BY <3>1, <3>2 DEF Ready, Barred, Blocked, Stopped
    <3> QED
      BY <2>3, <3>2, <3>3 DEF Ready, Barred, Blocked, Stopped, Current
  <2> QED
    BY <2>2, <2>3
<1>15. PassedSettled'
  <2> SUFFICES ASSUME NEW i \in 1..Len(Order), i < at'[p]
               PROVE  step'[Order[i]].status \in
                        {"completed", "failed", "cancelled", "skipped"}
    BY <1>2 DEF PassedSettled, Executing
  <2>1. CASE i < at[p]
    BY <1>10, <2>1 DEF Ordered, PassedSettled
  <2>2. CASE ~(i < at[p])
    <3>1. label = "loop" /\ i = at[p]
      BY <1>8, <1>9, <2>2
    <3> QED
      BY <1>0, <1>1, <3>1
  <2> QED
    BY <2>1, <2>2
<1>16. PassedDone'
  <2> SUFFICES ASSUME verdict'[p] = "completed",
                      NEW i \in 1..Len(Order), i < at'[p]
               PROVE  Concluded(Order[i], step')
    BY <1>2 DEF PassedDone, Executing
  <2>1. verdict[p] = "completed"
    OBVIOUS
  <2>2. \A j \in 1..Len(Order) : j < at[p] => Concluded(Order[j], step)
    BY <2>1 DEF Ordered, PassedDone
  <2>3. CASE i < at[p]
    <3>1. ASSUME NEW d \in Deps[Order[i]]
          PROVE  step'[d] = step[d]
      <4>1. PICK j \in 1..Len(Order) : j < i /\ Order[j] = d
        BY Earlier
      <4> QED
        BY <1>8, <1>10, <2>3, <4>1
    <3> QED
      BY <1>10, <2>2, <2>3, <3>1 DEF Concluded
  <2>4. CASE ~(i < at[p])
    <3>1. label = "loop" /\ i = at[p] /\ Order[i] = c
      BY <1>0, <1>8, <1>9, <2>4
    <3>2. CASE r.status = "completed"
      BY <1>1, <3>1, <3>2 DEF Concluded
    <3>3. CASE r.status = "skipped" /\ Barred(c, step)
      <4>1. PICK d \in Deps[c] : step[d].status \in Blocking \/ step[d].stop
        BY <3>3 DEF Barred, Blocked, Stopped
      <4>2. PICK j \in 1..Len(Order) : j < at[p] /\ Order[j] = d
        BY <1>0, Earlier
      <4>3. step[d].status \in {"completed", "skipped"}
        BY <2>2, <4>2 DEF Concluded
      <4>4. step'[d].stop \/ step'[d].status = "skipped"
        BY <1>5, <4>1, <4>3 DEF Blocking
      <4> QED
        BY <1>1, <3>1, <3>3, <4>4 DEF Concluded
    <3> QED
      BY <3>1, <3>2, <3>3
  <2> QED
    BY <2>3, <2>4
<1>17. AttemptsFollowRow'
  <2> SUFFICES ASSUME NEW s \in Steps, NEW n \in 1..MaxAttempt
               PROVE  /\ attempts'[s][n] \in SettledStatus =>
                            /\ n <= step'[s].attempt
                            /\ n = step'[s].attempt =>
                                  step'[s].status \in SettledStatus
                      /\ attempts'[s][n] = "running" =>
                            n = step'[s].attempt /\ step'[s].status = "running"
    BY DEF AttemptsFollowRow
  <2>0. /\ step[s] \in StepRun /\ n \in Nat
        /\ attempts[s] \in [1..MaxAttempt -> StepStatus \cup {"absent"}]
    BY DEF Types, TypeOK, StoreTypeOK
  <2>1. /\ attempts[s][n] \in SettledStatus =>
              /\ n <= step[s].attempt
              /\ n = step[s].attempt => step[s].status \in SettledStatus
        /\ attempts[s][n] = "running" =>
              n = step[s].attempt /\ step[s].status = "running"
    BY DEF Ordered, AttemptsFollowRow
  <2>2. CASE s # c
    <3>1. attempts'[s] = attempts[s]
      BY <1>1, <2>2 DEF Types, TypeOK, StoreTypeOK
    <3> QED
      BY <1>3, <2>1, <2>2, <3>1
  <2>3. CASE s = c /\ r.status = "pending"
    <3>1. attempts' = attempts /\ step'[s] = r /\ r.attempt \in Nat
          /\ step[s].attempt \in Nat
      BY <1>1, <2>0, <2>3 DEF StepRun
    <3> QED
      BY <2>0, <2>1, <2>3, <3>1 DEF SettledStatus
  <2>4. CASE s = c /\ r.status # "pending"
    <3>1. step'[s] = r /\ step[s].attempt \in Nat /\ r.attempt = step[s].attempt
      BY <1>1, <2>0, <2>4 DEF StepRun
    <3>2. attempts'[s] = [attempts[s] EXCEPT ![r.attempt] = r.status]
      BY <1>0, <1>1, <2>4 DEF Types, TypeOK, StoreTypeOK
    <3>3. CASE n = r.attempt
      <4>1. attempts'[s][n] = r.status
        BY <2>0, <3>2, <3>3
      <4> QED
        BY <2>0, <3>1, <3>3, <4>1
    <3>4. CASE n # r.attempt
      <4>1. attempts'[s][n] = attempts[s][n]
        BY <2>0, <3>2, <3>4
      <4> QED
        BY <2>1, <3>1, <3>4, <4>1
    <3> QED
      BY <3>3, <3>4
  <2> QED
    BY <2>2, <2>3, <2>4
<1>18. CompletedRunIsDone'
  BY <1>1 DEF CompletedRunIsDone
<1> QED
  BY <1>11, <1>12, <1>13, <1>14, <1>15, <1>16, <1>17, <1>18 DEF Ordered

\* Whoever stops executing without writing a step keeps the order.
LEMMA LeavingKeepsOrdered ==
    ASSUME Types, Safe, Ordered, NEW p \in Procs,
           NEW label \in {"idle", "thrown"}, Unwound(p, label),
           UNCHANGED <<step, attempts>>,
           run' = run \/ \A s \in Steps : step[s].status # "running",
           CompletedRunIsDone'
    PROVE  Ordered'
<1>1. /\ pc'[p] = label /\ label \notin Executing /\ label \notin Working
      /\ \A q \in Procs \ {p} : /\ pc'[q] = pc[q] /\ at'[q] = at[q]
                                /\ verdict'[q] = verdict[q]
  BY DEF Unwound, Goto, Types, TypeOK, Executing, Working
<1>2. RanWasReady' /\ AbsentIsNoStep' /\ AttemptsFollowRow'
  BY DEF Ordered, RanWasReady, AbsentIsNoStep, AttemptsFollowRow, Ran, Ready
<1>3. RunningIsDriven'
  BY <1>1 DEF Ordered, RunningIsDriven, Current
<1>4. RowFollowsProcess'
  BY <1>1 DEF Ordered, RowFollowsProcess, Current, Executing, Working
<1>5. PassedSettled' /\ PassedDone'
  BY <1>1 DEF Ordered, PassedSettled, PassedDone, Concluded
<1> QED
  BY <1>2, <1>3, <1>4, <1>5 DEF Ordered

\* markRunInterrupted turns running rows into interrupted ones, and nobody is
\* at any step then.
LEMMA InterruptKeepsOrdered ==
    ASSUME Types, Ordered, NEW p \in Procs, InterruptRun(p),
           \A q \in Procs : pc'[q] \notin Executing
    PROVE  Ordered'
<1>1. \A s \in Steps :
        /\ step'[s].status = Interrupted(step[s].status)
        /\ step'[s].attempt = step[s].attempt /\ step'[s].stop = step[s].stop
        /\ step[s].status # "running" => step'[s] = step[s]
        /\ \A n \in 1..MaxAttempt : attempts'[s][n] = Interrupted(attempts[s][n])
  <2> SUFFICES ASSUME NEW s \in Steps
               PROVE  /\ step'[s].status = Interrupted(step[s].status)
                      /\ step'[s].attempt = step[s].attempt
                      /\ step'[s].stop = step[s].stop
                      /\ step[s].status # "running" => step'[s] = step[s]
                      /\ \A n \in 1..MaxAttempt :
                            attempts'[s][n] = Interrupted(attempts[s][n])
    OBVIOUS
  <2>1. step[s] \in StepRun
    BY DEF Types, TypeOK, StoreTypeOK
  <2>2. step'[s] = [step[s] EXCEPT !.status = Interrupted(step[s].status)]
    BY DEF InterruptRun
  <2>3. step[s].status # "running" => step'[s] = step[s]
    BY <2>1, <2>2 DEF Interrupted, StepRun
  <2>4. \A n \in 1..MaxAttempt : attempts'[s][n] = Interrupted(attempts[s][n])
    BY DEF InterruptRun
  <2> QED
    BY <2>1, <2>2, <2>3, <2>4 DEF StepRun
<1>2. \A s \in Steps : Ready(s, step) => Ready(s, step')
  BY <1>1, DepsAssumption DEF Ready, Interrupted
<1>3. RanWasReady'
  BY <1>1, <1>2 DEF Ordered, RanWasReady, Ran, Interrupted, SettledStatus
<1>4. AbsentIsNoStep' /\ RunningIsDriven'
  BY <1>1 DEF Ordered, AbsentIsNoStep, RunningIsDriven, Interrupted
<1>5. RowFollowsProcess' /\ PassedSettled' /\ PassedDone'
  BY DEF RowFollowsProcess, PassedSettled, PassedDone, Executing, Working
<1>6. AttemptsFollowRow'
  <2> SUFFICES ASSUME NEW s \in Steps, NEW n \in 1..MaxAttempt
               PROVE  /\ attempts'[s][n] \in SettledStatus =>
                            /\ n <= step'[s].attempt
                            /\ n = step'[s].attempt =>
                                  step'[s].status \in SettledStatus
                      /\ attempts'[s][n] = "running" =>
                            n = step'[s].attempt /\ step'[s].status = "running"
    BY DEF AttemptsFollowRow
  <2>1. step[s].attempt \in Nat /\ n \in Nat
    BY DEF Types, TypeOK, StoreTypeOK, StepRun
  <2>2. /\ attempts[s][n] \in SettledStatus =>
              /\ n <= step[s].attempt
              /\ n = step[s].attempt => step[s].status \in SettledStatus
        /\ attempts[s][n] = "running" =>
              n = step[s].attempt /\ step[s].status = "running"
    BY DEF Ordered, AttemptsFollowRow
  <2> QED
    BY <1>1, <2>1, <2>2 DEF Interrupted, SettledStatus
<1>7. CompletedRunIsDone'
  BY DEF InterruptRun, CompletedRunIsDone
<1> QED
  BY <1>3, <1>4, <1>5, <1>6, <1>7 DEF Ordered

\* A process in its loop that is not under a driver call finds no row running.
LEMMA NoneRunning ==
    ASSUME Ordered, NEW p \in Procs, pc[p] \in Executing, pc[p] # "driving"
    PROVE  \A s \in Steps : step[s].status # "running"
BY DEF Ordered, RunningIsDriven

\* A step that is not barred when the loop comes to it is ready.
LEMMA UnbarredIsReady ==
    ASSUME Types, Ordered, NEW p \in Procs, pc[p] \in Working,
           at[p] \in 1..Len(Order), ~Barred(Current(p), step)
    PROVE  Ready(Current(p), step)
<1> SUFFICES ASSUME NEW d \in Deps[Current(p)]
             PROVE  step[d].status = "completed" /\ ~step[d].stop
  BY DEF Ready
<1>1. PICK j \in 1..Len(Order) : j < at[p] /\ Order[j] = d
  BY Earlier DEF Current
<1>2. step[d].status \in {"completed", "failed", "cancelled", "skipped"}
  BY <1>1 DEF Ordered, PassedSettled
<1> QED
  BY <1>2 DEF Barred, Blocked, Stopped, Blocking

\* What each action of the loop does: an orderly save, the end of the run, or
\* a move past a step that is settled already.
LEMMA LoopIsOrderly ==
    ASSUME Types, Safe, Ordered, NEW p \in Procs, Loop(p)
    PROVE  \/ \E r \in StepRun : \E label \in Working : OrderlySave(p, r, label)
           \/ \E status \in {"completed", "failed", "cancelled"} :
                 /\ SaveRun(p, status) /\ Leave(p) /\ UNCHANGED <<proc, pid>>
                 /\ pc[p] = "loop"
                 /\ status = "completed" =>
                       at[p] > Len(Order) /\ verdict[p] = "completed"
           \/ /\ pc[p] = "loop" /\ at[p] \in 1..Len(Order) /\ Advance(p)
              /\ UNCHANGED <<storeVars, snap>>
              /\ step[Current(p)].status \in
                    {"completed", "failed", "cancelled", "skipped"}
              /\ verdict'[p] = "completed" =>
                    /\ verdict[p] = "completed"
                    /\ \/ step[Current(p)].status = "completed"
                       \/ /\ step[Current(p)].status = "skipped"
                          /\ Barred(Current(p), step)
<1> DEFINE c == Current(p)
<1>0. /\ pc[p] \in Working \ {"loop"} => at[p] \in 1..Len(Order)
      /\ verdict[p] \in {"completed", "failed", "cancelled"}
      /\ pc[p] \in Working => snap[p] = step
      /\ MustSkip(p) <=> Blocked(c, snap[p]) \/ Stopped(c, snap[p])
  BY DEF Types, TypeOK, AtInRange, Safe, SnapshotFresh, MustSkip
<1>1. pc[p] \in Working =>
        /\ CurrentRow(p) = step[c]
        /\ MustSkip(p) <=> Barred(c, step)
  BY <1>0 DEF CurrentRow, Barred
<1>2. at[p] \in 1..Len(Order) =>
        c \in Steps /\ step[c] \in StepRun /\ step[c].attempt \in Nat
  BY CurrentType DEF Types, TypeOK, StoreTypeOK, StepRun
<1>3. CASE StopAtAbort(p)
  BY <1>3 DEF StopAtAbort, AtStep
<1>4. CASE Finish(p)
  BY <1>0, <1>4 DEF Finish
<1>5. CASE ReuseCompleted(p)
  <2>1. /\ pc[p] = "loop" /\ at[p] \in 1..Len(Order) /\ Advance(p)
        /\ UNCHANGED <<storeVars, snap>> /\ verdict' = verdict
        /\ CurrentRow(p).status = "completed"
    BY <1>5 DEF ReuseCompleted, AtStep
  <2>2. step[c].status = "completed"
    BY <1>1, <2>1 DEF Working
  <2> QED
    BY <2>1, <2>2
<1>6. CASE KeepSkipped(p)
  <2>1. /\ pc[p] = "loop" /\ at[p] \in 1..Len(Order) /\ Advance(p)
        /\ UNCHANGED <<storeVars, snap>> /\ verdict' = verdict
        /\ CurrentRow(p).status \in {"skipped", "cancelled"} /\ MustSkip(p)
    BY <1>6 DEF KeepSkipped, Visit, AtStep
  <2>2. step[c].status \in {"skipped", "cancelled"} /\ Barred(c, step)
    BY <1>1, <2>1 DEF Working
  <2>3. step[c].status # "cancelled"
    <3> SUFFICES ASSUME step[c].status = "cancelled"
                 PROVE  FALSE
      OBVIOUS
    <3>1. Ready(c, step)
      BY <1>2, <2>1 DEF Ordered, RanWasReady, Ran, SettledStatus
    <3> QED
      BY <2>2, <3>1 DEF Ready, Barred, Blocked, Stopped, Blocking
  <2> QED
    BY <2>1, <2>2, <2>3
<1>7. CASE NotRetryable(p)
  <2>1. /\ pc[p] = "loop" /\ at[p] \in 1..Len(Order) /\ Advance(p)
        /\ UNCHANGED <<storeVars, snap>>
        /\ verdict' = [verdict EXCEPT ![p] = Worse(@, "failed")]
        /\ CurrentRow(p).status # "completed" /\ CurrentRow(p) # NoStep
        /\ ~RetryEligible(CurrentRow(p))
    BY <1>7 DEF NotRetryable, Visit, AtStep
  <2>2. verdict'[p] # "completed"
    BY <2>1 DEF Worse, Types, TypeOK
  <2>3. step[c].status \in {"failed", "cancelled"}
    <3>1. step[c] # NoStep /\ ~RetryEligible(step[c]) /\ step[c].status # "completed"
      BY <1>1, <2>1 DEF Working
    <3>2. step[c].status # "running" /\ step[c].status # "absent"
      BY <1>2, <2>1, <3>1, NoneRunning
      DEF Ordered, AbsentIsNoStep, Executing, Working
    <3> QED
      BY <1>2, <2>1, <3>1, <3>2 DEF RetryEligible, StepRun, StepStatus
  <2> QED
    BY <2>1, <2>2, <2>3
<1>8. CASE ResetForSkip(p)
  <2>1. /\ pc[p] = "loop" /\ at[p] \in 1..Len(Order) /\ MustSkip(p)
        /\ CurrentRow(p).status \notin {"skipped", "cancelled", "pending"}
        /\ CurrentRow(p).status # "completed"
        /\ Save(p, NewStep("pending",
                           IF CurrentRow(p) = NoStep THEN 1 ELSE CurrentRow(p).attempt))
        /\ Goto(p, "skipping") /\ at' = at /\ verdict' = verdict
    BY <1>8 DEF ResetForSkip, Visit, AtStep
  <2>2. Barred(c, step) /\ CurrentRow(p) = step[c]
    BY <1>1, <2>1 DEF Working
  <2>3. step[c] = NoStep
    <3>1. ~Ready(c, step)
      BY <2>2 DEF Ready, Barred, Blocked, Stopped, Blocking
    <3>2. ~Ran(c, step)
      BY <1>2, <2>1, <3>1 DEF Ordered, RanWasReady
    <3>3. step[c].status = "absent"
      BY <1>2, <2>1, <2>2, <3>2 DEF Ran, SettledStatus, StepRun, StepStatus
    <3> QED
      BY <1>2, <2>1, <3>3 DEF Ordered, AbsentIsNoStep
  <2>4. Save(p, NewStep("pending", 1))
    BY <2>1, <2>2, <2>3
  <2>5. /\ NewStep("pending", 1) \in StepRun
        /\ NewStep("pending", 1).status = "pending"
        /\ NewStep("pending", 1).attempt = 1
    BY DEF NewStep, NoStep, StepRun, StepStatus
  <2>6. step[c].status = "absent" /\ step[c].attempt = 0
    BY <2>3 DEF NoStep
  <2>7. OrderlySave(p, NewStep("pending", 1), "skipping")
    BY <2>1, <2>2, <2>4, <2>5, <2>6
    DEF OrderlySave, Working, StepStatus, SettledStatus
  <2> QED
    BY <2>5, <2>7 DEF Working
<1>9. CASE SaveSkipped(p)
  <2> DEFINE r == NewStep("skipped", CurrentRow(p).attempt)
  <2>1. /\ pc[p] \in {"loop", "skipping"} /\ at[p] \in 1..Len(Order)
        /\ pc[p] = "loop" => MustSkip(p) /\ CurrentRow(p).status = "pending"
        /\ Save(p, r) /\ Advance(p) /\ verdict' = verdict
    BY <1>0, <1>9 DEF SaveSkipped, Visit, AtStep, Working
  <2>2. CurrentRow(p) = step[c]
    BY <1>1, <2>1 DEF Working
  <2>3. Barred(c, step) /\ step[c].status = "pending"
    BY <1>1, <2>1, <2>2 DEF Ordered, RowFollowsProcess, Working
  <2>4. r \in StepRun /\ r.status = "skipped" /\ r.attempt = step[c].attempt
    BY <1>2, <2>1, <2>2 DEF NewStep, NoStep, StepRun, StepStatus
  <2>5. OrderlySave(p, r, "loop")
    <3> HIDE DEF r
    <3> QED
      BY <2>1, <2>3, <2>4
      DEF OrderlySave, Advance, Working, StepStatus, SettledStatus
  <2> QED
    BY <2>4, <2>5 DEF Working
<1>10. CASE PrepareStep(p)
  <2> DEFINE r == NewStep("pending", NextAttempt(CurrentRow(p)))
  <2>1. /\ pc[p] = "loop" /\ at[p] \in 1..Len(Order) /\ ~MustSkip(p)
        /\ CurrentRow(p).status # "completed"
        /\ CurrentRow(p) = NoStep \/ RetryEligible(CurrentRow(p))
        /\ Save(p, r) /\ Goto(p, "prepared") /\ at' = at /\ verdict' = verdict
    BY <1>10 DEF PrepareStep, Visit, AtStep
  <2>2. ~Barred(c, step) /\ CurrentRow(p) = step[c]
    BY <1>1, <2>1 DEF Working
  <2>3. Ready(c, step)
    BY <2>1, <2>2, UnbarredIsReady DEF Working
  <2>4. /\ NextAttempt(step[c]) \in Nat /\ NextAttempt(step[c]) >= step[c].attempt
        /\ step[c].status \in SettledStatus => NextAttempt(step[c]) > step[c].attempt
        /\ step[c].status # "running"
    <3>1. step[c].attempt \in Nat
      BY <1>2, <2>1
    <3>2. step[c] = NoStep \/ RetryEligible(step[c])
      BY <2>1, <2>2
    <3>3. CASE step[c] = NoStep
      BY <3>3 DEF NextAttempt, NoStep, SettledStatus
    <3>4. CASE step[c] # NoStep /\ RetryEligible(step[c])
      BY <3>1, <3>4 DEF NextAttempt, RetryEligible, SettledStatus
    <3> QED
      BY <3>2, <3>3, <3>4
  <2>5. r \in StepRun /\ r.status = "pending" /\ r.attempt = NextAttempt(step[c])
    BY <2>2, <2>4 DEF NewStep, NoStep, StepRun, StepStatus
  <2>6. OrderlySave(p, r, "prepared")
    <3> HIDE DEF r
    <3> QED
      BY <2>1, <2>2, <2>3, <2>4, <2>5
      DEF OrderlySave, Working, StepStatus, SettledStatus
  <2> QED
    BY <2>5, <2>6 DEF Working
<1>11. CASE PrepareRepair(p)
  <2> DEFINE r == NewStep("pending", CurrentRow(p).attempt + 1)
  <2>1. /\ pc[p] = "repairing" /\ at[p] \in 1..Len(Order)
        /\ Save(p, r) /\ Goto(p, "prepared") /\ at' = at /\ verdict' = verdict
    BY <1>0, <1>11 DEF PrepareRepair, Working
  <2>2. CurrentRow(p) = step[c] /\ Ready(c, step) /\ step[c].status = "failed"
    BY <1>1, <2>1 DEF Ordered, RowFollowsProcess, Working
  <2>3. step[c].attempt \in Nat /\ CurrentRow(p).attempt + 1 = step[c].attempt + 1
    BY <1>2, <2>1, <2>2
  <2>4. r \in StepRun /\ r.status = "pending" /\ r.attempt = step[c].attempt + 1
    <3>1. CurrentRow(p).attempt + 1 \in Nat
      BY <2>3
    <3> QED
      BY <2>3, <3>1 DEF NewStep, NoStep, StepRun, StepStatus
  <2>5. OrderlySave(p, r, "prepared")
    <3> HIDE DEF r
    <3> QED
      BY <2>1, <2>2, <2>3, <2>4
      DEF OrderlySave, Working, StepStatus, SettledStatus
  <2> QED
    BY <2>4, <2>5 DEF Working
<1>12. CASE InvokeDriver(p)
  <2> DEFINE r == [CurrentRow(p) EXCEPT !.status = "running"]
  <2>1. /\ pc[p] = "prepared" /\ at[p] \in 1..Len(Order)
        /\ Save(p, r) /\ Goto(p, "driving") /\ at' = at /\ verdict' = verdict
    BY <1>0, <1>12 DEF InvokeDriver, Working
  <2>2. CurrentRow(p) = step[c] /\ Ready(c, step) /\ step[c].status = "pending"
    BY <1>1, <2>1 DEF Ordered, RowFollowsProcess, Working
  <2>3. r \in StepRun /\ r.status = "running" /\ r.attempt = step[c].attempt
    BY <1>2, <2>1, <2>2 DEF StepRun, StepStatus
  <2>4. OrderlySave(p, r, "driving")
    <3> HIDE DEF r
    <3> QED
      BY <2>1, <2>2, <2>3
      DEF OrderlySave, Working, StepStatus, SettledStatus
  <2> QED
    BY <2>3, <2>4 DEF Working
<1>13. pc[p] = "driving" =>
         /\ CurrentRow(p) = step[c] /\ Ready(c, step) /\ step[c].status = "running"
         /\ at[p] \in 1..Len(Order) /\ step[c] \in StepRun
  BY <1>0, <1>1, <1>2 DEF Ordered, RowFollowsProcess, Working
<1>14. CASE RejectOutput(p)
  <2> DEFINE r == [CurrentRow(p) EXCEPT !.status = "failed", !.retryable = TRUE]
  <2>1. /\ pc[p] = "driving" /\ Save(p, r) /\ Goto(p, "repairing")
        /\ at' = at /\ verdict' = verdict
    BY <1>14 DEF RejectOutput
  <2>2. r \in StepRun /\ r.status = "failed" /\ r.attempt = step[c].attempt
    BY <1>13, <2>1 DEF StepRun, StepStatus
  <2>3. OrderlySave(p, r, "repairing")
    <3> HIDE DEF r
    <3> QED
      BY <1>13, <2>1, <2>2
      DEF OrderlySave, Working, StepStatus, SettledStatus
  <2> QED
    BY <2>2, <2>3 DEF Working
<1>15. CASE CompleteStep(p)
  <2>1. /\ pc[p] = "driving" /\ Advance(p) /\ verdict' = verdict
        /\ \E stop \in BOOLEAN :
              Save(p, [CurrentRow(p) EXCEPT !.status = "completed", !.stop = stop])
    BY <1>15 DEF CompleteStep
  <2>2. PICK stop \in BOOLEAN :
          Save(p, [CurrentRow(p) EXCEPT !.status = "completed", !.stop = stop])
    BY <2>1
  <2> DEFINE r == [CurrentRow(p) EXCEPT !.status = "completed", !.stop = stop]
  <2>3. r \in StepRun /\ r.status = "completed" /\ r.attempt = step[c].attempt
    BY <1>13, <2>1 DEF StepRun, StepStatus
  <2>4. Save(p, r)
    BY <2>2
  <2>5. OrderlySave(p, r, "loop")
    <3> HIDE DEF r
    <3> QED
      BY <1>13, <2>1, <2>3, <2>4
      DEF OrderlySave, Advance, Working, StepStatus, SettledStatus
  <2> QED
    BY <2>3, <2>5 DEF Working
<1>16. CASE FailStep(p)
  <2>1. pc[p] = "driving" /\ Advance(p)
    BY <1>16 DEF FailStep
  <2>2. PICK status \in {"cancelled", "failed"}, flag \in BOOLEAN :
          /\ Save(p, [CurrentRow(p) EXCEPT !.status = status, !.retryable = flag])
          /\ verdict' = [verdict EXCEPT ![p] = Worse(@, status)]
    BY <1>16 DEF FailStep
  <2> DEFINE r == [CurrentRow(p) EXCEPT !.status = status, !.retryable = flag]
  <2>3. r \in StepRun /\ r.status \in {"cancelled", "failed"}
        /\ r.attempt = step[c].attempt
    BY <1>13, <2>1 DEF StepRun, StepStatus
  <2>4. Save(p, r) /\ verdict'[p] # "completed"
    BY <2>2 DEF Worse, Types, TypeOK
  <2>5. OrderlySave(p, r, "loop")
    <3> HIDE DEF r
    <3> QED
      BY <1>13, <2>1, <2>3, <2>4
      DEF OrderlySave, Advance, Working, StepStatus, SettledStatus
  <2> QED
    BY <2>3, <2>5 DEF Working
<1> QED
  BY <1>3, <1>4, <1>5, <1>6, <1>7, <1>8, <1>9, <1>10, <1>11, <1>12, <1>14,
     <1>15, <1>16 DEF Loop

\* Ordered in every reachable state.
LEMMA OrderedInvariant == Spec => []Ordered
<1>1. Init => Ordered
  BY DEF Init, StoreInit, NoStep, Ordered, RanWasReady, Ran, AbsentIsNoStep,
         RunningIsDriven, RowFollowsProcess, PassedSettled, PassedDone,
         AttemptsFollowRow, CompletedRunIsDone, Working, Executing, SettledStatus
<1>2. Types /\ Safe /\ Ordered /\ [Next]_vars => Ordered'
  <2> SUFFICES ASSUME Types, Safe, Ordered, [Next]_vars
               PROVE  Ordered'
    OBVIOUS
  <2>0. ASSUME UNCHANGED <<run, step, attempts>>,
               \A q \in Procs : pc'[q] \in Executing =>
                  pc'[q] = pc[q] /\ at'[q] = at[q] /\ verdict'[q] = verdict[q]
        PROVE  Ordered'
    <3>1. /\ RanWasReady' /\ AbsentIsNoStep' /\ AttemptsFollowRow'
          /\ CompletedRunIsDone'
      BY <2>0 DEF Ordered, RanWasReady, AbsentIsNoStep, AttemptsFollowRow, Ran,
         Ready, CompletedRunIsDone
    <3>2. RunningIsDriven' /\ RowFollowsProcess'
      BY <2>0 DEF Ordered, RunningIsDriven, RowFollowsProcess, Current, Executing,
         Working
    <3>3. PassedSettled' /\ PassedDone'
      BY <2>0 DEF Ordered, PassedSettled, PassedDone, Concluded, Executing
    <3> QED
      BY <3>1, <3>2, <3>3 DEF Ordered
  <2>1. CASE UNCHANGED vars
    BY <2>0, <2>1 DEF vars, storeVars, localVars
  <2>2. ASSUME NEW p \in Procs, Prepare(p)
        PROVE  Ordered'
    <3>1. CASE ClaimGranted(p)
      <4>1. /\ run \in Claimable /\ run' = "running" /\ UNCHANGED <<step, attempts>>
            /\ \A q \in Procs : pc[q] \notin Executing
            /\ \A q \in Procs : pc'[q] \in Executing => pc'[q] = "claimed"
        BY <3>1 DEF ClaimGranted, ClaimRun, Claimable, Safe, HoldsRun, Goto, Types,
           TypeOK
      <4>2. \A s \in Steps : step[s].status # "running"
        BY <4>1 DEF Ordered, RunningIsDriven, Claimable
      <4>3. /\ RanWasReady' /\ AbsentIsNoStep' /\ AttemptsFollowRow'
            /\ CompletedRunIsDone'
        BY <4>1 DEF Ordered, RanWasReady, AbsentIsNoStep, AttemptsFollowRow, Ran,
           Ready, CompletedRunIsDone
      <4>4. RunningIsDriven' /\ RowFollowsProcess' /\ PassedSettled' /\ PassedDone'
        BY <4>1, <4>2 DEF RunningIsDriven, RowFollowsProcess, PassedSettled,
           PassedDone, Executing, Working
      <4> QED
        BY <4>3, <4>4 DEF Ordered
    <3>2. CASE ClaimRefused(p)
      BY <2>0, <3>2 DEF ClaimRefused, Leave, Unwound, Goto, storeVars, Types,
         TypeOK, Executing, Working
    <3>3. CASE AssertClaim(p) \/ BeginLoop(p)
      <4>1. /\ UNCHANGED <<run, step, attempts>>
            /\ pc[p] \in {"claimed", "started"} /\ pc'[p] \in {"started", "loop"}
            /\ \A q \in Procs \ {p} : pc[q] \notin Executing /\ pc'[q] = pc[q]
            /\ pc'[p] = "loop" => at'[p] = 1
        BY <3>3 DEF AssertClaim, BeginLoop, storeVars, Safe, HoldsRun, Goto, Types,
           TypeOK, Executing
      <4>2. \A s \in Steps : step[s].status # "running"
        BY <4>1, NoneRunning DEF Executing
      <4>3. /\ RanWasReady' /\ AbsentIsNoStep' /\ AttemptsFollowRow'
            /\ CompletedRunIsDone' /\ RunningIsDriven'
        BY <4>1, <4>2 DEF Ordered, RanWasReady, AbsentIsNoStep, AttemptsFollowRow,
           Ran, Ready, CompletedRunIsDone, RunningIsDriven
      <4>4. RowFollowsProcess'
        BY <4>1 DEF RowFollowsProcess, Executing, Working
      <4>5. \A q \in Procs : pc'[q] \in Working => at'[q] = 1
        BY <4>1 DEF Executing, Working
      <4>6. PassedSettled' /\ PassedDone'
        BY <4>5 DEF PassedSettled, PassedDone
      <4> QED
        BY <4>3, <4>4, <4>6 DEF Ordered
    <3>4. CASE StartRefused(p)
      <4>1. \A s \in Steps : step[s].status # "running"
        BY <3>4, NoneRunning DEF StartRefused, Executing
      <4> QED
        BY <3>4, <4>1, LeavingKeepsOrdered
        DEF StartRefused, SaveRun, CompletedRunIsDone
    <3> QED
      BY <2>2, <3>1, <3>2, <3>3, <3>4 DEF Prepare
  <2>3. ASSUME NEW p \in Procs, Loop(p)
        PROVE  Ordered'
    <3>1. ASSUME NEW r \in StepRun, NEW label \in Working, OrderlySave(p, r, label)
          PROVE  Ordered'
      BY <3>1, SaveKeepsOrdered
    <3>2. ASSUME NEW status, SaveRun(p, status), Leave(p), pc[p] = "loop",
                 status = "completed" =>
                    at[p] > Len(Order) /\ verdict[p] = "completed"
          PROVE  Ordered'
      <4>1. \A s \in Steps : step[s].status # "running"
        BY <3>2, NoneRunning DEF Executing, Working
      <4>2. UNCHANGED <<step, attempts>> /\ run' = status
        BY <3>2 DEF SaveRun
      <4>3. ASSUME status = "completed", NEW s \in Steps
            PROVE  Concluded(s, step)
        <5>1. PICK i \in 1..Len(Order) : Order[i] = s
          BY OrderAssumption
        <5>2. i < at[p]
          BY <3>2, <4>3, OrderAssumption DEF Types, TypeOK
        <5> QED
          BY <3>2, <4>3, <5>1, <5>2 DEF Ordered, PassedDone, Working
      <4>4. CompletedRunIsDone'
        BY <4>2, <4>3 DEF CompletedRunIsDone, Concluded
      <4> QED
        BY <3>2, <4>1, <4>2, <4>4, LeavingKeepsOrdered DEF Leave
    <3>3. ASSUME pc[p] = "loop", at[p] \in 1..Len(Order), Advance(p),
                 UNCHANGED <<storeVars, snap>>,
                 step[Current(p)].status \in
                    {"completed", "failed", "cancelled", "skipped"},
                 verdict'[p] = "completed" =>
                    /\ verdict[p] = "completed"
                    /\ \/ step[Current(p)].status = "completed"
                       \/ /\ step[Current(p)].status = "skipped"
                          /\ Barred(Current(p), step)
          PROVE  Ordered'
      <4>1. /\ UNCHANGED <<run, step, attempts>>
            /\ pc'[p] = "loop" /\ at'[p] = at[p] + 1
            /\ \A q \in Procs \ {p} : pc[q] \notin Executing /\ pc'[q] = pc[q]
        BY <3>3 DEF Advance, Goto, storeVars, Safe, HoldsRun, Types, TypeOK,
           Executing, Working
      <4>2. \A s \in Steps : step[s].status # "running"
        BY <3>3, NoneRunning DEF Executing, Working
      <4>3. /\ RanWasReady' /\ AbsentIsNoStep' /\ AttemptsFollowRow'
            /\ CompletedRunIsDone' /\ RunningIsDriven'
        BY <4>1, <4>2 DEF Ordered, RanWasReady, AbsentIsNoStep, AttemptsFollowRow,
           Ran, Ready, CompletedRunIsDone, RunningIsDriven
      <4>4. RowFollowsProcess'
        BY <4>1 DEF RowFollowsProcess, Executing, Working
      <4>5. ASSUME NEW i \in 1..Len(Order), i < at'[p]
            PROVE  i < at[p] \/ Order[i] = Current(p)
        BY <4>1, <4>5 DEF Current, Types, TypeOK
      <4>6. PassedSettled'
        <5> SUFFICES ASSUME NEW i \in 1..Len(Order), i < at'[p]
                     PROVE  step[Order[i]].status \in
                              {"completed", "failed", "cancelled", "skipped"}
          BY <4>1 DEF PassedSettled, Executing
        <5> QED
          BY <3>3, <4>5 DEF Ordered, PassedSettled, Working
      <4>7. PassedDone'
        <5> SUFFICES ASSUME NEW i \in 1..Len(Order), i < at'[p],
                            verdict'[p] = "completed"
                     PROVE  Concluded(Order[i], step)
          BY <4>1 DEF PassedDone, Concluded, Executing
        <5>1. \A j \in 1..Len(Order) : j < at[p] => Concluded(Order[j], step)
          BY <3>3 DEF Ordered, PassedDone, Working
        <5>2. ASSUME step[Current(p)].status = "skipped", Barred(Current(p), step)
              PROVE  Concluded(Current(p), step)
          <6>1. PICK d \in Deps[Current(p)] :
                  step[d].status \in Blocking \/ step[d].stop
            BY <5>2 DEF Barred, Blocked, Stopped
          <6>2. PICK j \in 1..Len(Order) : j < at[p] /\ Order[j] = d
            BY <3>3, Earlier DEF Current
          <6> QED
            BY <5>1, <5>2, <6>1, <6>2 DEF Concluded, Blocking
        <5>3. Concluded(Current(p), step)
          BY <3>3, <5>2 DEF Concluded
        <5> QED
          BY <4>5, <5>1, <5>3
      <4> QED
        BY <4>3, <4>4, <4>6, <4>7 DEF Ordered
    <3> QED
      BY <2>3, <3>1, <3>2, <3>3, LoopIsOrderly
  <2>4. ASSUME NEW p \in Procs, Unwind(p)
        PROVE  Ordered'
    <3>0. Up(p)
      BY <2>4 DEF Unwind, Throw, Release, ReleaseFails, InterruptReleased, Safe,
         ActiveUp, Executing, Working
    <3>1. CASE Throw(p) \/ ReleaseFails(p)
      BY <2>0, <3>1 DEF Throw, ReleaseFails, Leave, Unwound, Goto, storeVars,
         Types, TypeOK, Executing, Working
    <3>2. CASE Release(p)
      BY <2>0, <3>2 DEF Release, ReleaseExecution, Goto, Types, TypeOK,
         Executing, Working
    <3>3. CASE InterruptReleased(p)
      <4>1. CASE InterruptRun(p)
        <5>1. \A q \in Procs : pc'[q] \notin Executing
          BY <3>0, <3>3, <4>1, InterruptMeansIdle
          DEF InterruptReleased, Leave, Unwound, Goto, Types, TypeOK, Executing,
              Working
        <5> QED
          BY <4>1, <5>1, InterruptKeepsOrdered
      <4>2. CASE UNCHANGED <<run, owner, step, attempts, claim>>
        BY <2>0, <3>3, <4>2 DEF InterruptReleased, Leave, Unwound, Goto, Types,
           TypeOK, Executing, Working
      <4> QED
        BY <3>3, <4>1, <4>2 DEF InterruptReleased
    <3> QED
      BY <2>4, <3>1, <3>2, <3>3 DEF Unwind
  <2>5. ASSUME NEW p \in Procs, Environment(p)
        PROVE  Ordered'
    <3>1. CASE Start(p)
      BY <2>0, <3>1 DEF Start, localVars
    <3>2. CASE Create(p)
      <4>1. /\ run = "absent" /\ run' = "running" /\ UNCHANGED <<step, attempts>>
            /\ \A q \in Procs : pc[q] \notin Executing
            /\ \A q \in Procs : pc'[q] \in Executing => pc'[q] = "started"
        BY <3>2 DEF Create, CreateRun, Safe, HoldsRun, Goto, Types, TypeOK
      <4>2. \A s \in Steps : step[s].status # "running"
        BY <4>1 DEF Ordered, RunningIsDriven
      <4>3. /\ RanWasReady' /\ AbsentIsNoStep' /\ AttemptsFollowRow'
            /\ CompletedRunIsDone'
        BY <4>1 DEF Ordered, RanWasReady, AbsentIsNoStep, AttemptsFollowRow, Ran,
           Ready, CompletedRunIsDone
      <4>4. RunningIsDriven' /\ RowFollowsProcess' /\ PassedSettled' /\ PassedDone'
        BY <4>1, <4>2 DEF RunningIsDriven, RowFollowsProcess, PassedSettled,
           PassedDone, Executing, Working
      <4> QED
        BY <4>3, <4>4 DEF Ordered
    <3>3. CASE CheckResume(p) \/ Abort(p)
      BY <2>0, <3>3 DEF CheckResume, Abort, Goto, storeVars, Types, TypeOK,
         Executing, Working
    <3>4. CASE MarkInterrupted(p)
      <4>1. \A q \in Procs : pc'[q] \notin Executing
        BY <3>4, InterruptMeansIdle DEF MarkInterrupted, localVars
      <4> QED
        BY <3>4, <4>1, InterruptKeepsOrdered DEF MarkInterrupted
    <3>5. CASE Die(p)
      BY <2>0, <3>5 DEF Die, Leave, Unwound, Goto, Types, TypeOK, Executing, Working
    <3> QED
      BY <2>5, <3>1, <3>2, <3>3, <3>4, <3>5 DEF Environment
  <2> QED
    BY <2>1, <2>2, <2>3, <2>4, <2>5 DEF Next, Proceed
<1> QED
  BY <1>1, <1>2, TypesInvariant, SafeInvariant, PTL DEF Spec

\* A driver only ever ran a step all of whose dependencies had completed
\* without asking to stop; through crashes, resumes and repairs this stays
\* true of every row a driver has left behind.
THEOREM DependenciesFirst == Spec => []DependencyOrder
<1>1. Ordered => DependencyOrder
  BY DEF Ordered, RanWasReady, Ran, Ready, DependencyOrder, SettledStatus
<1> QED
  BY <1>1, OrderedInvariant, PTL

\* No failed, cancelled or unfinished step hides in a completed run.
THEOREM CompletedMeansDone == Spec => []CompletedRunIsDone
<1>1. Ordered => CompletedRunIsDone
  BY DEF Ordered
<1> QED
  BY <1>1, OrderedInvariant, PTL

\* No step of any process writes the row of a completed step again, or
\* replaces the status an attempt ended with.
THEOREM HistoryIsKept == Spec => HistoryKept
<1> DEFINE Kept == \A s \in Steps :
                     /\ step[s].status = "completed" => step'[s] = step[s]
                     /\ \A n \in 1..MaxAttempt :
                           attempts[s][n] \in SettledStatus =>
                              attempts'[s][n] = attempts[s][n]
<1>1. Types /\ Safe /\ Ordered /\ [Next]_vars => Kept
  <2> SUFFICES ASSUME Types, Safe, Ordered, [Next]_vars
               PROVE  Kept
    OBVIOUS
  <2>1. CASE UNCHANGED <<step, attempts>>
    BY <2>1
  <2>2. ASSUME NEW p \in Procs, InterruptRun(p)
        PROVE  Kept
    <3> SUFFICES ASSUME NEW s \in Steps
                 PROVE  /\ step[s].status = "completed" => step'[s] = step[s]
                        /\ \A n \in 1..MaxAttempt :
                              attempts[s][n] \in SettledStatus =>
                                 attempts'[s][n] = attempts[s][n]
      OBVIOUS
    <3>1. step[s] \in StepRun
      BY DEF Types, TypeOK, StoreTypeOK
    <3>2. step'[s] = [step[s] EXCEPT !.status = Interrupted(step[s].status)]
      BY <2>2 DEF InterruptRun
    <3>3. step[s].status = "completed" => step'[s] = step[s]
      BY <3>1, <3>2 DEF Interrupted, StepRun
    <3>4. \A n \in 1..MaxAttempt : attempts'[s][n] = Interrupted(attempts[s][n])
      BY <2>2 DEF InterruptRun
    <3> QED
      BY <3>3, <3>4 DEF Interrupted, SettledStatus
  <2>3. ASSUME NEW p \in Procs, NEW r \in StepRun, NEW label \in Working,
               OrderlySave(p, r, label)
        PROVE  Kept
    <3> SUFFICES ASSUME NEW s \in Steps
                 PROVE  /\ step[s].status = "completed" => step'[s] = step[s]
                        /\ \A n \in 1..MaxAttempt :
                              attempts[s][n] \in SettledStatus =>
                                 attempts'[s][n] = attempts[s][n]
      OBVIOUS
    <3> DEFINE c == Current(p)
    <3>1. /\ at[p] \in 1..Len(Order) /\ step[c].status # "completed"
          /\ step' = [step EXCEPT ![c] = r]
          /\ attempts' = IF r.status = "pending" THEN attempts
                         ELSE [attempts EXCEPT ![c][r.attempt] = r.status]
          /\ r.status # "pending" => /\ r.attempt = step[c].attempt
                                     /\ step[c].status \in {"pending", "running"}
      BY <2>3 DEF OrderlySave, Save, SaveStepRun, WriteStepRun
    <3>2. c \in Steps
      BY <3>1, CurrentType
    <3>3. step[s].status = "completed" => step'[s] = step[s]
      BY <3>1, <3>2 DEF Types, TypeOK, StoreTypeOK
    <3>4. ASSUME NEW n \in 1..MaxAttempt, attempts[s][n] \in SettledStatus
          PROVE  attempts'[s][n] = attempts[s][n]
      <4>1. n = step[s].attempt => step[s].status \in SettledStatus
        BY <3>4 DEF Ordered, AttemptsFollowRow
      <4>2. attempts[s] \in [1..MaxAttempt -> StepStatus \cup {"absent"}]
        BY DEF Types, TypeOK, StoreTypeOK
      <4>3. CASE r.status = "pending" \/ s # c
        BY <3>1, <3>2, <4>3 DEF Types, TypeOK, StoreTypeOK
      <4>4. CASE r.status # "pending" /\ s = c
        <5>1. n # r.attempt
          BY <3>1, <4>1, <4>4 DEF SettledStatus
        <5>2. attempts'[s] = [attempts[s] EXCEPT ![r.attempt] = r.status]
          BY <3>1, <3>2, <4>4 DEF Types, TypeOK, StoreTypeOK
        <5> QED
          BY <4>2, <5>1, <5>2
      <4> QED
        BY <4>3, <4>4
    <3> QED
      BY <3>3, <3>4
  <2>4. ASSUME NEW p \in Procs, Loop(p)
        PROVE  \/ UNCHANGED <<step, attempts>>
               \/ \E r \in StepRun : \E label \in Working : OrderlySave(p, r, label)
    BY <2>4, LoopIsOrderly DEF SaveRun, storeVars
  <2>5. ASSUME NEW p \in Procs, Proceed(p) \/ Environment(p), ~Loop(p)
        PROVE  UNCHANGED <<step, attempts>> \/ InterruptRun(p)
    BY <2>5 DEF Proceed, Prepare, Unwind, Environment, ClaimGranted, ClaimRun,
       ClaimRefused, AssertClaim, BeginLoop, StartRefused, SaveRun, Throw, Release,
       ReleaseExecution, ReleaseFails, InterruptReleased, Start, Create, CreateRun,
       CheckResume, MarkInterrupted, Abort, Die, storeVars
  <2> HIDE DEF Kept
  <2>6. CASE UNCHANGED vars
    BY <2>1, <2>6 DEF vars, storeVars
  <2>7. CASE Next
    BY <2>1, <2>2, <2>3, <2>4, <2>5, <2>7 DEF Next, Proceed
  <2> QED
    BY <2>6, <2>7
<1> QED
  BY <1>1, TypesInvariant, SafeInvariant, OrderedInvariant, PTL
  DEF Spec, HistoryKept

-----------------------------------------------------------------------------
(* The implementation of ExclusiveRun *)

\* A saved row never takes a completed step back: stepTransitions allows no
\* way out of completed.  The save is a step of the holder's work.
LEMMA SaveIsWork ==
    ASSUME Types, Safe, NEW p \in Procs, NEW r, Save(p, r), pc[p] \in Working
    PROVE  Promise!Work(p)
<1>1. /\ run = "running" /\ owner = p /\ UNCHANGED <<run, owner, proc>>
      /\ r.status \in StepTransitions(step[Current(p)].status)
      /\ step' = [step EXCEPT ![Current(p)] = r]
  BY DEF Save, SaveStepRun, WriteStepRun
<1>2. proc[p] = "up"
  BY DEF Safe, ActiveUp, Working, Up
<1>3. Phase = "taken" /\ Phase' = "taken"
  BY <1>1 DEF Phase, Claimable
<1>4. Done \subseteq Done'
  <2> SUFFICES ASSUME NEW s \in Steps, step[s].status = "completed"
               PROVE  step'[s].status = "completed"
    BY DEF Done
  <2>1. CASE s = Current(p)
    BY <1>1, <2>1 DEF StepTransitions, Types, TypeOK, StoreTypeOK
  <2>2. CASE s # Current(p)
    BY <1>1, <2>2 DEF Types, TypeOK, StoreTypeOK
  <2> QED
    BY <2>1, <2>2
<1>5. Done' \in SUBSET Steps
  BY DEF Done
<1> QED
  BY <1>1, <1>2, <1>3, <1>4, <1>5 DEF Promise!Work

\* A saved end of the run gives the run back, open or closed.
LEMMA SaveRunIsSettle ==
    ASSUME Safe, NEW p \in Procs, Up(p), UNCHANGED <<proc, pid>>,
           NEW status \in {"completed", "failed", "cancelled"}, SaveRun(p, status)
    PROVE  Promise!Settle(p)
<1>1. Phase = "taken" /\ Phase' \in {"open", "closed"}
  BY DEF SaveRun, Phase, Claimable
<1>2. Done' = Done
  BY DEF SaveRun, Done
<1> QED
  BY <1>1, <1>2 DEF SaveRun, Promise!Settle, Up

\* markRunInterrupted succeeds only when the holder is gone.
LEMMA InterruptIsRecover ==
    ASSUME Types, Safe, NEW p \in Procs, Up(p), InterruptRun(p),
           UNCHANGED <<proc, pid>>
    PROVE  Promise!Recover
<1>1. owner # NoOwner => proc[owner] = "dead"
  <2> SUFFICES ASSUME owner \in Procs
               PROVE  proc[owner] = "dead"
    BY DEF Types, TypeOK, StoreTypeOK
  <2>1. ~Up(owner)
    BY RunningOwnerIsLive DEF Safe, InterruptRun
  <2> QED
    BY <2>1, NoOwnerAssumption
    DEF Safe, OwnerBorn, Up, Types, TypeOK, StoreTypeOK
<1>2. Phase = "taken" /\ Phase' = "open"
  BY DEF InterruptRun, Phase, Claimable
<1>3. Done' = Done
  <2>1. \A s \in Steps : step'[s].status = Interrupted(step[s].status)
    <3> SUFFICES ASSUME NEW s \in Steps
                 PROVE  step'[s].status = Interrupted(step[s].status)
      OBVIOUS
    <3>1. step[s] \in StepRun
      BY DEF Types, TypeOK, StoreTypeOK
    <3> QED
      BY <3>1 DEF InterruptRun, StepRun
  <2>2. \A s \in Steps :
          Interrupted(step[s].status) = "completed" <=> step[s].status = "completed"
    BY DEF Interrupted
  <2> QED
    BY <2>1, <2>2 DEF Done
<1> QED
  BY <1>1, <1>2, <1>3 DEF InterruptRun, Promise!Recover

\* Steps that leave the run, its owner, its steps and the processes alone.
LEMMA Stutter ==
    ASSUME UNCHANGED <<proc, run, owner, step>>
    PROVE  UNCHANGED Promise!vars
BY DEF Promise!vars, Phase, Claimable, Done

\* Every behaviour of the runtime and the store is a behaviour of ExclusiveRun:
\* one living holder at a time, progress by the holder alone and never lost,
\* hand-over only after release or death, closed runs closed for good.
THEOREM Implementation == Spec => ImplementsExclusiveRun
<1>1. Init => Promise!Init
  BY DEF Init, StoreInit, Promise!Init, Phase, Done, NoStep, Claimable
<1>2. Types /\ Safe /\ [Next]_vars => [Promise!Next]_Promise!vars
  <2> SUFFICES ASSUME Types, Safe, [Next]_vars
               PROVE  Promise!Next \/ UNCHANGED Promise!vars
    OBVIOUS
  <2>1. CASE UNCHANGED vars
    BY <2>1, Stutter DEF vars, storeVars
  <2>2. ASSUME NEW p \in Procs, Prepare(p)
        PROVE  Promise!Next \/ UNCHANGED Promise!vars
    <3>0. Up(p)
      BY <2>2 DEF Prepare, ClaimGranted, ClaimRefused, AssertClaim, BeginLoop,
         StartRefused, Safe, ActiveUp
    <3>1. CASE ClaimGranted(p)
      <4>1. run \in Claimable /\ owner = NoOwner
        BY <3>1 DEF ClaimGranted, ClaimRun, Claimable, Safe, OwnerMeansRunning
      <4>2. Phase = "open" /\ Phase' = "taken" /\ Done' = Done
        BY <3>1, <4>1 DEF ClaimGranted, ClaimRun, Phase, Claimable, Done
      <4>3. Promise!Take(p)
        BY <3>0, <3>1, <4>1, <4>2 DEF ClaimGranted, ClaimRun, Promise!Take, Up
      <4> QED
        BY <4>3 DEF Promise!Next
    <3>2. CASE StartRefused(p)
      BY <3>0, <3>2, SaveRunIsSettle DEF StartRefused, Promise!Next
    <3>3. CASE ClaimRefused(p) \/ AssertClaim(p) \/ BeginLoop(p)
      BY <3>3, Stutter DEF ClaimRefused, AssertClaim, BeginLoop, storeVars
    <3> QED
      BY <2>2, <3>1, <3>2, <3>3 DEF Prepare
  <2>3. ASSUME NEW p \in Procs, Loop(p)
        PROVE  Promise!Next \/ UNCHANGED Promise!vars
    <3>1. ASSUME NEW r, Save(p, r), pc[p] \in Working
          PROVE  Promise!Next
      BY <3>1, SaveIsWork DEF Promise!Next
    <3>2. ASSUME NEW status \in {"completed", "failed", "cancelled"},
                 SaveRun(p, status), UNCHANGED <<proc, pid>>
          PROVE  Promise!Next
      <4>1. Up(p)
        BY <2>3 DEF Loop, StopAtAbort, ReuseCompleted, KeepSkipped, ResetForSkip,
           SaveSkipped, NotRetryable, PrepareStep, InvokeDriver, CompleteStep,
           RejectOutput, PrepareRepair, FailStep, Finish, Visit, AtStep, Safe,
           ActiveUp
      <4> QED
        BY <3>2, <4>1, SaveRunIsSettle DEF Promise!Next
    <3>3. CASE UNCHANGED storeVars
      BY <3>3, Stutter DEF storeVars
    <3> QED
      BY <2>3, <3>1, <3>2, <3>3, LoopShape
  <2>4. ASSUME NEW p \in Procs, Unwind(p)
        PROVE  Promise!Next \/ UNCHANGED Promise!vars
    <3>0. Up(p)
      BY <2>4 DEF Unwind, Throw, Release, ReleaseFails, InterruptReleased, Safe,
         ActiveUp, Executing, Working
    <3>1. CASE Throw(p) \/ ReleaseFails(p)
      BY <3>1, Stutter DEF Throw, ReleaseFails, storeVars
    <3>2. CASE Release(p)
      <4>1. CASE owner = p
        <5>1. run = "running"
          BY <4>1, NoOwnerAssumption DEF Safe, OwnerMeansRunning
        <5>2. Phase = "taken" /\ Phase' = Phase /\ Done' = Done
          BY <3>2, <5>1 DEF Release, ReleaseExecution, Phase, Done, Claimable
        <5>3. Promise!LetGo(p)
          BY <3>0, <3>2, <4>1, <5>2
          DEF Release, ReleaseExecution, Promise!LetGo, Up
        <5> QED
          BY <5>3 DEF Promise!Next
      <4>2. CASE owner # p
        BY <3>2, <4>2, Stutter DEF Release, ReleaseExecution
      <4> QED
        BY <4>1, <4>2
    <3>3. CASE InterruptReleased(p)
      <4>1. CASE InterruptRun(p)
        BY <3>0, <3>3, <4>1, InterruptIsRecover DEF InterruptReleased, Promise!Next
      <4>2. CASE UNCHANGED <<run, owner, step, attempts, claim>>
        BY <3>3, <4>2, Stutter DEF InterruptReleased
      <4> QED
        BY <3>3, <4>1, <4>2 DEF InterruptReleased
    <3> QED
      BY <2>4, <3>1, <3>2, <3>3 DEF Unwind
  <2>5. ASSUME NEW p \in Procs, Environment(p)
        PROVE  Promise!Next \/ UNCHANGED Promise!vars
    <3>1. CASE Start(p)
      <4>1. Promise!Join(p)
        BY <3>1 DEF Start, Promise!Join, Phase, Claimable, Done
      <4> QED
        BY <4>1 DEF Promise!Next
    <3>2. CASE Create(p)
      <4>1. run = "absent" /\ owner = NoOwner
        BY <3>2 DEF Create, CreateRun, Safe, OwnerMeansRunning
      <4>2. Phase = "new" /\ Phase' = "taken" /\ Done' = Done
        BY <3>2, <4>1 DEF Create, CreateRun, Phase, Done, Claimable
      <4>3. Promise!Take(p)
        BY <3>2, <4>1, <4>2 DEF Create, CreateRun, Promise!Take, Up
      <4> QED
        BY <4>3 DEF Promise!Next
    <3>3. CASE CheckResume(p) \/ Abort(p)
      BY <3>3, Stutter DEF CheckResume, Abort, storeVars
    <3>4. CASE MarkInterrupted(p)
      BY <3>4, InterruptIsRecover DEF MarkInterrupted, Promise!Next
    <3>5. CASE Die(p)
      <4>1. Promise!Leave(p)
        BY <3>5 DEF Die, Up, Promise!Leave, Phase, Claimable, Done
      <4> QED
        BY <4>1 DEF Promise!Next
    <3> QED
      BY <2>5, <3>1, <3>2, <3>3, <3>4, <3>5 DEF Environment
  <2> QED
    BY <2>1, <2>2, <2>3, <2>4, <2>5 DEF Next, Proceed
<1> QED
  BY <1>1, <1>2, TypesInvariant, SafeInvariant, PTL
  DEF Spec, ImplementsExclusiveRun, Promise!Spec

-----------------------------------------------------------------------------
(* The processes of an execution: the invariant of the agent of an attempt *)

\* What is accepted of the events: processed in order, read, and none in question.
Processed == Len(stored) + Len(buffer)
EventsRead == Processed + Len(chain)
Clean == ~queueFailed /\ ~eventError

Lines == [is : {"good", "bad", "garbage", "event"}, n : Nat]

AgentTypes ==
    /\ A!AgentTypeOK
    /\ out \in Seq(Lines)
    /\ chain \in Seq(Nat) /\ stored \in Seq(Nat) /\ buffer \in Seq(Nat)

\* What was told to the store, or waits in the buffer, is the beginning of what was written.
ToldInOrder ==
    /\ \A i \in 1..Len(stored) : stored[i] = i
    /\ \A i \in 1..Len(buffer) : buffer[i] = Len(stored) + i

\* As long as nothing failed the chain goes on where the buffer ends, and what is not read yet
\* goes on where the chain ends, without a gap while events are accepted.
InTurn ==
    Clean =>
        /\ \A i \in 1..Len(chain) : chain[i] = Processed + i
        /\ EventsRead <= Len(written)
        /\ \A i \in 1..Len(out) : out[i].is = "event" => out[i].n \in EventsRead + 1..Len(written)
        /\ \A i, j \in 1..Len(out) :
              i < j /\ out[i].is = "event" /\ out[j].is = "event" => out[i].n < out[j].n
        /\ accepting => \A m \in EventsRead + 1..Len(written) :
                            \E i \in 1..Len(out) : out[i].is = "event" /\ out[i].n = m

\* What the flags of execute say of the events processed.
Observed ==
    Clean =>
        /\ settled => \E i \in 1..Processed : written[i] = "settled"
        /\ \A i \in 1..Processed : written[i] # "huge"
        /\ ~terminalError => \A i \in 1..Processed : written[i] # "error"

\* The group is dead from the second signal on, and execute ends with nothing left to process.
GroupEnds ==
    /\ term \in {"forced", "done", "failed"} => leader = "dead" /\ helper \notin A!HelperAlive
    /\ phase \in {"terminating", "over"} => chain = <<>>
    /\ phase = "over" => term \in {"done", "failed"}
    /\ phase \in {"finally", "terminating", "over"} => ~accepting

\* The agent settled, and no event up to there was an error.
SettledWell ==
    \E s \in 1..Processed :
        written[s] = "settled" /\ \A i \in 1..s : written[i] \notin {"error", "huge"}

\* The way to the end that throws nothing leads through an agent that settled well.
Course ==
    /\ phase = "draining" => settled
    /\ phase = "grace" => failure # "none"
    /\ Clean /\ \/ phase \in {"get_state_again", "get_session_stats"}
                \/ phase \in {"finally", "terminating", "over"} /\ failure = "none"
         => SettledWell
    /\ phase = "over" /\ failure = "none" => ~eventError
    /\ attempt # "running" => phase = "over"
    /\ attempt = "succeeded" => failure = "none" /\ ~queueFailed /\ buffer = <<>>

AgentIInv == AgentTypes /\ ToldInOrder /\ InTurn /\ Observed /\ GroupEnds /\ Course

\* A command that was ended early has the mark of what ended it.
CommandIInv ==
    /\ CommandTypeOK
    /\ pipesClosed => shell = "dead" /\ job # "pipes" /\ unread = 0
    /\ stops["timer"] # "none" => timedOut
    /\ stops["abort"] # "none" => stopped
    /\ stops["output"] # "none" => truncated
    /\ result = "ok" => pipesClosed /\ ~truncated /\ ~timedOut /\ ~stopped


LEMMA AskingIs ==
    A!Asking = {"get_state", "get_commands", "prompt", "get_state_again", "get_session_stats"}
<1> DEFINE s == A!Requests
<1>1. /\ DOMAIN s = {1, 2, 3, 4, 5}
      /\ s[1] = "get_state" /\ s[2] = "get_commands" /\ s[3] = "prompt"
      /\ s[4] = "get_state_again" /\ s[5] = "get_session_stats"
  BY DEF A!Requests
<1> HIDE DEF s
<1>2. {s[i] : i \in {1, 2, 3, 4, 5}} = {s[1], s[2], s[3], s[4], s[5]}
  OBVIOUS
<1> QED
  BY <1>1, <1>2 DEF A!Asking, A!ToSet, s

LEMMA AgentStart == A!AgentInit => AgentIInv
<1> SUFFICES ASSUME A!AgentInit PROVE AgentIInv
  OBVIOUS
<1> USE AskingIs DEF A!AgentInit
<1>1. AgentTypes
  BY ProcessesAssumption DEF AgentTypes, A!AgentTypeOK, A!HelperAlive
<1>2. ToldInOrder /\ GroupEnds /\ Course
  BY DEF ToldInOrder, GroupEnds, Course
<1>3. InTurn /\ Observed
  BY DEF InTurn, Observed, Processed, EventsRead
<1> QED
  BY <1>1, <1>2, <1>3 DEF AgentIInv

\* Where a request, a failure or a catch clause leaves execute.
LEMMA ThrowType ==
    ASSUME AgentTypes, NEW b, NEW why \in {"timeout", "failed", "cancelled"}, A!ThrowIf(b, why)
    PROVE  /\ phase' \in {"grace", "finally"} /\ failure' \in {"cancelled", "timeout", "failed"}
           /\ phase' = "finally" => ~accepting'
           /\ accepting' => accepting
  BY DEF A!ThrowIf

LEMMA AskType ==
    ASSUME AgentTypes, NEW r \in A!Asking, A!Ask(r)
    PROVE  \/ /\ phase' \in {"grace", "finally"} /\ failure' \in {"cancelled", "timeout", "failed"}
              /\ phase' = "finally" => ~accepting'
              /\ accepting' => accepting
           \/ phase' = r /\ UNCHANGED <<failure, accepting>>
  BY ThrowType DEF A!Ask, A!Throw

-----------------------------------------------------------------------------
(* Types *)

LEMMA LineType == \A is \in {"good", "bad", "garbage", "event"}, n \in Nat : A!Line(is, n) \in Lines
  BY DEF A!Line, Lines

LEMMA AgentTyped == AgentIInv /\ A!AgentProcessNext => AgentTypes'
<1> SUFFICES ASSUME AgentIInv, A!AgentProcessNext PROVE AgentTypes'
  OBVIOUS
<1> USE AskingIs, ProcessesAssumption
<1> USE DEF AgentIInv, A!HelperAlive, A!agentVars, A!eventVars, A!processVars, A!sinkVars
<1>1. CASE A!ReadAnswer
  <2>1. /\ out # <<>> /\ out' = Tail(out)
        /\ UNCHANGED <<leader, helper, written, chain, term, buffer, stored, queueFailed, attempt>>
    BY <1>1 DEF A!ReadAnswer
  <2>2. /\ phase' \in A!Asking \cup {"settling", "grace", "finally"} \cup {phase}
        /\ failure' \in {"cancelled", "timeout", "failed", failure}
    BY <1>1, ThrowType, AskType DEF A!ReadAnswer, A!Throw, A!Following
  <2> QED
    BY <2>1, <2>2 DEF AgentTypes, A!AgentTypeOK
<1>2. CASE A!ReadEvent
  <2>1. Head(out) \in Lines /\ out' \in Seq(Lines)
    BY <1>2 DEF A!ReadEvent, AgentTypes
  <2>2. Head(out).n \in Nat
    BY <2>1 DEF Lines
  <2>3. chain' \in Seq(Nat)
    BY <1>2, <2>2 DEF A!ReadEvent, AgentTypes
  <2> QED
    BY <1>2, <2>1, <2>3 DEF AgentTypes, A!AgentTypeOK, A!ReadEvent
<1>3. CASE A!ReadGarbage
  <2>1. /\ phase' \in {"grace", "finally", "get_state_again", phase}
        /\ failure' \in {"cancelled", "timeout", "failed", failure}
    BY <1>3, ThrowType, AskType DEF A!ReadGarbage, A!Throw, A!FailProcess
  <2> QED
    BY <1>3, <2>1 DEF AgentTypes, A!AgentTypeOK, A!ReadGarbage, A!FailProcess, A!BeginTermination
<1>4. CASE A!Close
  <2>1. /\ phase' \in {"grace", "finally", "get_state_again", phase}
        /\ failure' \in {"cancelled", "timeout", "failed", failure}
    BY <1>4, ThrowType, AskType DEF A!Close, A!Throw, A!FailProcess
  <2> QED
    BY <1>4, <2>1 DEF AgentTypes, A!AgentTypeOK, A!Close, A!FailProcess, A!BeginTermination
<1>5. CASE A!Settle
  BY <1>5 DEF AgentTypes, A!AgentTypeOK, A!Settle
<1>6. CASE A!Drained
  <2>1. /\ phase' \in {"grace", "finally", "get_state_again", phase}
        /\ failure' \in {"cancelled", "timeout", "failed", failure}
    BY <1>6, ThrowType, AskType DEF A!Drained, A!Throw
  <2> QED
    BY <1>6, <2>1 DEF AgentTypes, A!AgentTypeOK, A!Drained
<1>7. CASE A!Timeout
  <2>1. /\ phase' \in {"grace", "finally", "get_state_again", phase}
        /\ failure' \in {"cancelled", "timeout", "failed", failure}
    BY <1>7, ThrowType, AskType DEF A!Timeout, A!Throw
  <2> QED
    BY <1>7, <2>1 DEF AgentTypes, A!AgentTypeOK, A!Timeout
<1>8. CASE A!GraceOver
  BY <1>8 DEF AgentTypes, A!AgentTypeOK, A!GraceOver
<1>9. CASE A!Finally
  BY <1>9 DEF AgentTypes, A!AgentTypeOK, A!Finally, A!BeginTermination
<1>10. CASE A!Terminated
  BY <1>10 DEF AgentTypes, A!AgentTypeOK, A!Terminated
<1>11. CASE A!ClosedInTime
  BY <1>11 DEF AgentTypes, A!AgentTypeOK, A!ClosedInTime, A!KillGroup
<1>12. CASE A!TermGraceOver
  BY <1>12 DEF AgentTypes, A!AgentTypeOK, A!TermGraceOver, A!KillGroup
<1>13. CASE A!ProcessEvent
  <2>1. Head(chain) \in Nat /\ chain' \in Seq(Nat)
    BY <1>13 DEF A!ProcessEvent, AgentTypes
  <2>2. UNCHANGED <<phase, leader, helper, out, written, term, failure, attempt>>
    BY <1>13 DEF A!ProcessEvent
  <2>3. CASE UNCHANGED A!sinkVars
    BY <2>1, <2>2, <2>3 DEF AgentTypes, A!AgentTypeOK
  <2>4. CASE A!Emit(Head(chain))
    <3> DEFINE n == Head(chain)
    <3>1. n \in Nat
      BY <2>1
    <3> HIDE DEF n
    <3>2. CASE UNCHANGED <<buffer, stored, queueFailed>>
      BY <2>1, <2>2, <3>2 DEF AgentTypes, A!AgentTypeOK
    <3>3. CASE buffer' = A!Sunk(n)[1] /\ stored' = A!Sunk(n)[2] /\ ~queueFailed /\ UNCHANGED queueFailed
      BY <2>1, <2>2, <3>1, <3>3 DEF AgentTypes, A!AgentTypeOK, A!Sunk
    <3>4. CASE queueFailed' = TRUE /\ buffer' = A!Unsunk(n) /\ UNCHANGED stored
      BY <2>1, <2>2, <3>1, <3>4 DEF AgentTypes, A!AgentTypeOK, A!Unsunk
    <3> QED
      BY <2>4, <3>2, <3>3, <3>4 DEF A!Emit, n
  <2> QED
    BY <1>13, <2>3, <2>4 DEF A!ProcessEvent
<1>14. CASE A!EndAttempt
  <2>1. stored \o buffer \in Seq(Nat) /\ <<>> \in Seq(Nat) /\ Len(<<>>) = 0
    BY DEF AgentTypes
  <2>2. /\ stored' \in Seq(Nat) /\ buffer' \in Seq(Nat) /\ (buffer' = buffer \/ Len(buffer') = 0)
        /\ attempt' \in {"succeeded", "failed"}
    BY <1>14, <2>1 DEF AgentTypes, A!EndAttempt
  <2> QED
    BY <1>14, <2>2 DEF AgentTypes, A!AgentTypeOK, A!EndAttempt
<1>15. CASE A!Abort
  <2>1. /\ phase' \in {"grace", "finally", "get_state_again", phase}
        /\ failure' \in {"cancelled", "timeout", "failed", failure}
    BY <1>15, ThrowType, AskType DEF A!Abort, A!Throw
  <2> QED
    BY <1>15, <2>1 DEF AgentTypes, A!AgentTypeOK, A!Abort
<1>16. CASE A!Answer
  BY <1>16, LineType DEF AgentTypes, A!AgentTypeOK, A!Answer
<1>17. CASE A!WriteGarbage
  BY <1>17, LineType DEF AgentTypes, A!AgentTypeOK, A!WriteGarbage
<1>18. CASE A!StartHelper
  BY <1>18 DEF AgentTypes, A!AgentTypeOK, A!StartHelper
<1>19. CASE A!Exit
  BY <1>19 DEF AgentTypes, A!AgentTypeOK, A!Exit
<1>20. ASSUME NEW kind \in A!Kinds, A!Report(kind) PROVE AgentTypes'
  <2>1. Len(written) + 1 \in Nat /\ written' \in Seq(A!Kinds) /\ Len(written') <= MaxEvents
    BY <1>20 DEF AgentTypes, A!AgentTypeOK, A!Report
  <2>2. out' \in Seq(Lines)
    BY <1>20, <2>1, LineType DEF AgentTypes, A!Report
  <2> QED
    BY <1>20, <2>1, <2>2 DEF AgentTypes, A!AgentTypeOK, A!Report
<1> QED
  BY <1>1, <1>2, <1>3, <1>4, <1>5, <1>6, <1>7, <1>8, <1>9, <1>10, <1>11, <1>12, <1>13, <1>14,
     <1>15, <1>16, <1>17, <1>18, <1>19, <1>20 DEF A!AgentProcessNext, A!DriverStep

-----------------------------------------------------------------------------
(* The events, from the agent to the store *)

\* Lines that are no events come and go, and events may no longer be accepted.
LEMMA QuietKept ==
    ASSUME AgentTypes, ToldInOrder, InTurn, Observed,
           UNCHANGED <<written, chain, settled, terminalError, eventError, queueFailed, buffer, stored>>,
           accepting' => accepting,
           \/ out' = out
           \/ out # <<>> /\ Head(out).is # "event" /\ out' = Tail(out)
           \/ \E l \in Lines : l.is # "event" /\ out' = Append(out, l)
    PROVE  ToldInOrder' /\ InTurn' /\ Observed'
<1>1. ToldInOrder' /\ Observed'
  BY DEF ToldInOrder, Observed, Clean, Processed
<1>2. /\ Processed' = Processed /\ EventsRead' = EventsRead /\ Clean' = Clean
  BY DEF Clean, Processed, EventsRead
<1>3. CASE out' = out
  BY <1>1, <1>2, <1>3 DEF InTurn
<1>4. CASE out # <<>> /\ Head(out).is # "event" /\ out' = Tail(out)
  <2>1. /\ Len(out) \in Nat /\ Len(out') = Len(out) - 1
        /\ \A i \in 1..Len(out') : i + 1 \in 1..Len(out) /\ out'[i] = out[i + 1]
        /\ out[1].is # "event"
        /\ \A i \in 1..Len(out) : i # 1 => i - 1 \in 1..Len(out') /\ out'[i - 1] = out[i]
    BY <1>4 DEF AgentTypes
  <2> SUFFICES ASSUME Clean PROVE InTurn'
    BY <1>1, <1>2 DEF InTurn
  <2>2. /\ \A i \in 1..Len(out) : out[i].is = "event" => out[i].n \in EventsRead + 1..Len(written)
        /\ \A i, j \in 1..Len(out) :
              i < j /\ out[i].is = "event" /\ out[j].is = "event" => out[i].n < out[j].n
        /\ accepting => \A m \in EventsRead + 1..Len(written) :
                            \E i \in 1..Len(out) : out[i].is = "event" /\ out[i].n = m
    BY DEF InTurn
  <2>3. \A i \in 1..Len(out') : out'[i].is = "event" => out'[i].n \in EventsRead + 1..Len(written)
    BY <2>1, <2>2
  <2>4. \A i, j \in 1..Len(out') :
              i < j /\ out'[i].is = "event" /\ out'[j].is = "event" => out'[i].n < out'[j].n
    <3> SUFFICES ASSUME NEW i \in 1..Len(out'), NEW j \in 1..Len(out'), i < j,
                        out'[i].is = "event", out'[j].is = "event"
                 PROVE  out'[i].n < out'[j].n
      OBVIOUS
    <3>1. i + 1 \in 1..Len(out) /\ j + 1 \in 1..Len(out) /\ i + 1 < j + 1
      BY <2>1
    <3> QED
      BY <2>1, <2>2, <3>1
  <2>5. accepting => \A m \in EventsRead + 1..Len(written) :
                        \E i \in 1..Len(out') : out'[i].is = "event" /\ out'[i].n = m
    BY <2>1, <2>2
  <2> QED
    BY <1>2, <2>3, <2>4, <2>5 DEF InTurn
<1>5. ASSUME NEW l \in Lines, l.is # "event", out' = Append(out, l) PROVE InTurn'
  <2>1. /\ Len(out) \in Nat /\ Len(out') = Len(out) + 1
        /\ \A i \in 1..Len(out) : out'[i] = out[i]
        /\ out'[Len(out) + 1].is # "event"
    BY <1>5 DEF AgentTypes
  <2>2. \A i \in 1..Len(out') : out'[i].is = "event" => i \in 1..Len(out) /\ out'[i] = out[i]
    BY <2>1
  <2>3. \A i \in 1..Len(out) : i \in 1..Len(out') /\ out'[i] = out[i]
    BY <2>1
  <2> HIDE <1>5
  <2> QED
    BY <1>2, <2>2, <2>3 DEF InTurn
<1> QED
  BY <1>1, <1>3, <1>4, <1>5

\* An event is written behind the others.
LEMMA ReportKept ==
    ASSUME AgentTypes, ToldInOrder, InTurn, Observed, NEW kind \in A!Kinds, A!Report(kind)
    PROVE  ToldInOrder' /\ InTurn' /\ Observed' /\ (SettledWell /\ EventsRead <= Len(written) => SettledWell')
<1> DEFINE n == Len(written) + 1
           l == A!Line("event", n)
<1>1. /\ written' = Append(written, kind) /\ out' = Append(out, l)
      /\ UNCHANGED <<chain, accepting, settled, terminalError, eventError, queueFailed, buffer, stored>>
  BY DEF A!Report, A!eventVars, A!sinkVars
<1>2. /\ n \in Nat /\ l.is = "event" /\ l.n = n /\ Len(written) \in Nat
  BY DEF AgentTypes, A!AgentTypeOK, A!Line
<1> HIDE DEF l
<1>3. /\ Len(written') = n /\ \A i \in 1..Len(written) : written'[i] = written[i]
      /\ Len(out) \in Nat /\ Len(out') = Len(out) + 1
      /\ \A i \in 1..Len(out) : out'[i] = out[i]
      /\ out'[Len(out) + 1] = l
  BY <1>1, <1>2 DEF AgentTypes, A!AgentTypeOK
<1>4. /\ Processed' = Processed /\ EventsRead' = EventsRead /\ Clean' = Clean
      /\ Processed \in Nat /\ EventsRead \in Nat /\ Processed <= EventsRead
  BY <1>1 DEF Clean, Processed, EventsRead, AgentTypes
<1> HIDE DEF n
<1>5. ToldInOrder'
  BY <1>1 DEF ToldInOrder
<1>6. InTurn'
  <2> SUFFICES ASSUME Clean' PROVE
        /\ \A i \in 1..Len(chain') : chain'[i] = Processed' + i
        /\ EventsRead' <= Len(written')
        /\ \A i \in 1..Len(out') : out'[i].is = "event" => out'[i].n \in EventsRead' + 1..Len(written')
        /\ \A i, j \in 1..Len(out') :
              i < j /\ out'[i].is = "event" /\ out'[j].is = "event" => out'[i].n < out'[j].n
        /\ accepting' => \A m \in EventsRead' + 1..Len(written') :
                            \E i \in 1..Len(out') : out'[i].is = "event" /\ out'[i].n = m
    BY DEF InTurn
  <2>1. /\ \A i \in 1..Len(chain) : chain[i] = Processed + i
        /\ EventsRead <= Len(written)
        /\ \A i \in 1..Len(out) : out[i].is = "event" => out[i].n \in EventsRead + 1..Len(written)
        /\ \A i, j \in 1..Len(out) :
              i < j /\ out[i].is = "event" /\ out[j].is = "event" => out[i].n < out[j].n
        /\ accepting => \A m \in EventsRead + 1..Len(written) :
                            \E i \in 1..Len(out) : out[i].is = "event" /\ out[i].n = m
    BY <1>4 DEF InTurn
  <2>2. n = Len(written) + 1
    BY DEF n
  <2>3. \A i \in 1..Len(out') : out'[i].is = "event" => out'[i].n \in EventsRead' + 1..Len(written')
    BY <1>2, <1>3, <1>4, <2>1, <2>2
  <2>4. \A i, j \in 1..Len(out') :
              i < j /\ out'[i].is = "event" /\ out'[j].is = "event" => out'[i].n < out'[j].n
    BY <1>2, <1>3, <1>4, <2>1, <2>2
  <2>5. ASSUME accepting', NEW m \in EventsRead' + 1..Len(written')
        PROVE  \E i \in 1..Len(out') : out'[i].is = "event" /\ out'[i].n = m
    <3>1. CASE m = n
      BY <1>2, <1>3, <3>1
    <3>2. CASE m # n
      <4>1. m \in EventsRead + 1..Len(written) /\ accepting
        BY <1>1, <1>2, <1>3, <1>4, <2>2, <2>5, <3>2
      <4>2. PICK i \in 1..Len(out) : out[i].is = "event" /\ out[i].n = m
        BY <2>1, <4>1
      <4> QED
        BY <1>3, <4>2
    <3> QED
      BY <3>1, <3>2
  <2> QED
    BY <1>1, <1>2, <1>3, <1>4, <2>1, <2>2, <2>3, <2>4, <2>5
<1>7. Observed'
  <2>1. Clean => EventsRead <= Len(written)
    BY DEF InTurn
  <2>2. Clean => \A i \in 1..Processed : written'[i] = written[i]
    BY <1>2, <1>3, <1>4, <2>1
  <2> QED
    BY <1>1, <1>4, <2>2 DEF Observed
<1>8. SettledWell /\ EventsRead <= Len(written) => SettledWell'
  <2> SUFFICES ASSUME SettledWell, EventsRead <= Len(written) PROVE SettledWell'
    OBVIOUS
  <2>1. PICK s \in 1..Processed : written[s] = "settled" /\ \A i \in 1..s : written[i] \notin {"error", "huge"}
    BY DEF SettledWell
  <2>2. \A i \in 1..s : written'[i] = written[i]
    BY <1>2, <1>3, <1>4, <2>1
  <2> QED
    BY <1>4, <2>1, <2>2 DEF SettledWell
<1> QED
  BY <1>5, <1>6, <1>7, <1>8

\* The event read is the one that follows those read before.
LEMMA ReadKept ==
    ASSUME AgentTypes, ToldInOrder, InTurn, Observed, A!ReadEvent
    PROVE  ToldInOrder' /\ InTurn' /\ Observed'
<1> DEFINE n == Head(out).n
<1>1. /\ out # <<>> /\ Head(out).is = "event" /\ out' = Tail(out)
      /\ chain' = IF accepting THEN Append(chain, n) ELSE chain
      /\ UNCHANGED <<written, accepting, settled, terminalError, eventError, queueFailed, buffer, stored>>
  BY DEF A!ReadEvent, A!sinkVars
<1>2. ToldInOrder' /\ Observed' /\ Clean' = Clean /\ Processed' = Processed /\ Processed \in Nat
  BY <1>1 DEF ToldInOrder, Observed, Clean, Processed, AgentTypes
<1>3. /\ Len(out) \in Nat /\ Len(out') = Len(out) - 1
      /\ \A i \in 1..Len(out') : i + 1 \in 1..Len(out) /\ out'[i] = out[i + 1]
      /\ out[1].is = "event" /\ out[1].n = n /\ 1 \in 1..Len(out)
      /\ \A i \in 1..Len(out) : i # 1 => i - 1 \in 1..Len(out') /\ out'[i - 1] = out[i]
  BY <1>1 DEF AgentTypes
<1> HIDE DEF n
<1>4. InTurn'
  <2> SUFFICES ASSUME Clean PROVE InTurn'
    BY <1>2 DEF InTurn
  <2>1. /\ \A i \in 1..Len(chain) : chain[i] = Processed + i
        /\ EventsRead <= Len(written)
        /\ \A i \in 1..Len(out) : out[i].is = "event" => out[i].n \in EventsRead + 1..Len(written)
        /\ \A i, j \in 1..Len(out) :
              i < j /\ out[i].is = "event" /\ out[j].is = "event" => out[i].n < out[j].n
        /\ accepting => \A m \in EventsRead + 1..Len(written) :
                            \E i \in 1..Len(out) : out[i].is = "event" /\ out[i].n = m
    BY DEF InTurn
  <2>2. /\ EventsRead = Processed + Len(chain) /\ EventsRead \in Nat /\ Len(chain) \in Nat
        /\ Len(written) \in Nat /\ n \in EventsRead + 1..Len(written)
    BY <1>2, <1>3, <2>1 DEF EventsRead, AgentTypes, A!AgentTypeOK
  <2>3. \A i \in 1..Len(out') : out'[i].is = "event" => out'[i].n \in n + 1..Len(written)
    <3> SUFFICES ASSUME NEW i \in 1..Len(out'), out'[i].is = "event" PROVE out'[i].n \in n + 1..Len(written)
      OBVIOUS
    <3>1. i + 1 \in 1..Len(out) /\ 1 < i + 1 /\ out[i + 1].is = "event" /\ out'[i].n = out[i + 1].n
      BY <1>3
    <3> QED
      BY <1>3, <2>1, <2>2, <3>1
  <2>4. \A i, j \in 1..Len(out') :
              i < j /\ out'[i].is = "event" /\ out'[j].is = "event" => out'[i].n < out'[j].n
    BY <1>3, <2>1
  <2>5. CASE ~accepting
    <3>1. chain' = chain /\ ~accepting' /\ EventsRead' = EventsRead /\ Len(written') = Len(written)
      BY <1>1, <1>2, <2>2, <2>5 DEF EventsRead
    <3>2. \A i \in 1..Len(out') : out'[i].is = "event" => out'[i].n \in EventsRead + 1..Len(written)
      BY <2>2, <2>3
    <3> QED
      BY <1>2, <2>1, <2>4, <3>1, <3>2 DEF InTurn
  <2>6. CASE accepting
    <3>1. n = EventsRead + 1
      <4>1. EventsRead + 1 \in EventsRead + 1..Len(written)
        BY <2>2
      <4>2. PICK i \in 1..Len(out) : out[i].is = "event" /\ out[i].n = EventsRead + 1
        BY <2>1, <2>6, <4>1
      <4>3. i = 1 \/ 1 < i
        BY <4>2
      <4> QED
        <5>1. CASE i = 1
          BY <1>3, <4>2, <5>1
        <5>2. CASE 1 < i
          <6>1. out[1].n < out[i].n
            BY <1>3, <2>1, <4>2, <5>2
          <6> QED
            BY <1>3, <2>2, <4>2, <6>1
        <5> QED
          BY <4>3, <5>1, <5>2
    <3>2. /\ Len(chain') = Len(chain) + 1 /\ EventsRead' = n /\ written' = written
          /\ \A i \in 1..Len(chain) : chain'[i] = chain[i]
          /\ chain'[Len(chain) + 1] = n
      BY <1>1, <1>2, <2>2, <2>6, <3>1 DEF EventsRead, AgentTypes
    <3>3. \A i \in 1..Len(chain') : chain'[i] = Processed + i
      <4>1. \A i \in 1..Len(chain) : chain'[i] = Processed + i
        BY <2>1, <3>2
      <4>2. chain'[Len(chain) + 1] = Processed + (Len(chain) + 1)
        BY <1>2, <2>2, <3>1, <3>2
      <4>3. \A i \in 1..Len(chain') : i \in 1..Len(chain) \/ i = Len(chain) + 1
        BY <2>2, <3>2
      <4> QED
        BY <4>1, <4>2, <4>3
    <3>4. \A m \in n + 1..Len(written) : \E i \in 1..Len(out') : out'[i].is = "event" /\ out'[i].n = m
      <4> SUFFICES ASSUME NEW m \in n + 1..Len(written)
                   PROVE  \E i \in 1..Len(out') : out'[i].is = "event" /\ out'[i].n = m
        OBVIOUS
      <4>1. PICK i \in 1..Len(out) : out[i].is = "event" /\ out[i].n = m
        BY <2>1, <2>2, <2>6, <3>1
      <4>2. i # 1
        BY <1>3, <2>2, <4>1
      <4> QED
        BY <1>3, <4>1, <4>2
    <3>5. EventsRead' <= Len(written')
      BY <2>2, <3>1, <3>2
    <3> QED
      BY <1>2, <2>3, <2>4, <3>2, <3>3, <3>4, <3>5 DEF InTurn
  <2> QED
    BY <2>5, <2>6
<1> QED
  BY <1>2, <1>4

\* Two runs of numbers, the second going on where the first ends.
LEMMA JoinedRuns ==
    ASSUME NEW s \in Seq(Nat), NEW t \in Seq(Nat),
           \A i \in 1..Len(s) : s[i] = i, \A i \in 1..Len(t) : t[i] = Len(s) + i
    PROVE  s \o t \in Seq(Nat) /\ Len(s \o t) = Len(s) + Len(t) /\ \A i \in 1..Len(s \o t) : (s \o t)[i] = i
<1>1. /\ s \o t \in Seq(Nat) /\ Len(s \o t) = Len(s) + Len(t) /\ Len(s) \in Nat /\ Len(t) \in Nat
      /\ \A i \in 1..Len(s) + Len(t) : (s \o t)[i] = IF i <= Len(s) THEN s[i] ELSE t[i - Len(s)]
  BY ConcatProperties
<1>2. ASSUME NEW i \in 1..Len(s) + Len(t) PROVE (s \o t)[i] = i
  <2>1. CASE i <= Len(s)
    <3>1. i \in 1..Len(s)
      BY <1>1, <2>1
    <3> QED
      BY <1>1, <2>1, <3>1
  <2>2. CASE ~(i <= Len(s))
    <3>1. i - Len(s) \in 1..Len(t) /\ Len(s) + (i - Len(s)) = i
      BY <1>1, <2>2
    <3> QED
      BY <1>1, <2>2, <3>1
  <2> QED
    BY <2>1, <2>2
<1> QED
  BY <1>1, <1>2

LEMMA LongerRun ==
    ASSUME NEW s \in Seq(Nat), NEW k \in Nat, \A i \in 1..Len(s) : s[i] = k + i
    PROVE  LET t == Append(s, k + Len(s) + 1) IN
              t \in Seq(Nat) /\ Len(t) = Len(s) + 1 /\ \A i \in 1..Len(t) : t[i] = k + i
<1> DEFINE t == Append(s, k + Len(s) + 1)
<1>1. /\ Len(s) \in Nat /\ t \in Seq(Nat) /\ Len(t) = Len(s) + 1
      /\ \A i \in 1..Len(s) : t[i] = s[i]
      /\ t[Len(s) + 1] = k + (Len(s) + 1)
  OBVIOUS
<1> HIDE DEF t
<1>2. \A i \in 1..Len(t) : i \in 1..Len(s) \/ i = Len(s) + 1
  BY <1>1
<1> QED
  BY <1>1, <1>2 DEF t

\* What the sink does with the next event leaves the beginning of what was written.
LEMMA SunkTold ==
    ASSUME AgentTypes, ToldInOrder, NEW n \in Nat, n = Processed + 1,
           \/ buffer' = A!Sunk(n)[1] /\ stored' = A!Sunk(n)[2]
           \/ buffer' = A!Unsunk(n) /\ stored' = stored
    PROVE  /\ ToldInOrder'
           /\ buffer' = A!Sunk(n)[1] /\ stored' = A!Sunk(n)[2] => Processed' = Processed + 1
<1> DEFINE b == Append(buffer, n)
<1>1. /\ Len(stored) \in Nat /\ Len(buffer) \in Nat /\ stored \in Seq(Nat) /\ buffer \in Seq(Nat)
      /\ n = Len(stored) + Len(buffer) + 1
  BY DEF AgentTypes, Processed
<1>2. b \in Seq(Nat) /\ Len(b) = Len(buffer) + 1 /\ \A i \in 1..Len(b) : b[i] = Len(stored) + i
  <2>1. b = Append(buffer, Len(stored) + Len(buffer) + 1)
    BY <1>1
  <2>2. \A i \in 1..Len(buffer) : buffer[i] = Len(stored) + i
    BY DEF ToldInOrder
  <2> HIDE DEF b
  <2> QED
    BY <1>1, <2>1, <2>2, LongerRun
<1> HIDE DEF b
<1>3. CASE buffer' = b /\ stored' = stored
  <2>1. Len(buffer') = Len(b) /\ Len(stored') = Len(stored)
    BY <1>3
  <2>2. \A i \in 1..Len(buffer') : buffer'[i] = Len(stored') + i
    BY <1>2, <1>3, <2>1
  <2>3. \A i \in 1..Len(stored') : stored'[i] = i
    BY <1>3, <2>1 DEF ToldInOrder
  <2> QED
    BY <1>1, <1>2, <2>1, <2>2, <2>3 DEF ToldInOrder, Processed
<1>4. CASE buffer' = <<>> /\ stored' = stored \o b
  <2>1. stored' \in Seq(Nat) /\ Len(stored') = Len(stored) + Len(b) /\ \A i \in 1..Len(stored') : stored'[i] = i
    BY <1>1, <1>2, <1>4, JoinedRuns DEF ToldInOrder
  <2>2. Len(buffer') = 0
    BY <1>4
  <2> QED
    BY <1>1, <1>2, <2>1, <2>2 DEF ToldInOrder, Processed
<1>5. CASE buffer' = <<>> /\ stored' = Append(stored \o buffer, n)
  <2> DEFINE told == stored \o buffer
  <2>1. told \in Seq(Nat) /\ Len(told) = Len(stored) + Len(buffer) /\ \A i \in 1..Len(told) : told[i] = i
    BY <1>1, JoinedRuns DEF ToldInOrder
  <2>2. stored' = Append(told, n)
    BY <1>5
  <2> HIDE DEF told
  <2>3. \A i \in 1..Len(told) : told[i] = 0 + i
    BY <2>1
  <2>4. n = 0 + Len(told) + 1
    BY <1>1, <2>1
  <2>5. Len(stored') = Len(told) + 1 /\ \A i \in 1..Len(stored') : stored'[i] = 0 + i
    BY <2>1, <2>2, <2>3, <2>4, LongerRun
  <2>6. Len(buffer') = 0
    BY <1>5
  <2> QED
    BY <1>1, <2>1, <2>5, <2>6 DEF ToldInOrder, Processed
<1>6. CASE buffer' = buffer /\ stored' = stored /\ written[n] # "text" /\ A!Sunk(n)[1] = <<>>
           /\ A!Sunk(n)[2] = Append(stored \o buffer, n)
  <2>1. stored' # A!Sunk(n)[2]
    <3>1. stored \o buffer \in Seq(Nat) /\ Len(stored \o buffer) = Len(stored) + Len(buffer)
      BY <1>1, ConcatProperties
    <3>2. Len(Append(stored \o buffer, n)) = Len(stored) + Len(buffer) + 1
      BY <1>1, <3>1
    <3>3. Len(stored') < Len(stored) + Len(buffer) + 1
      <4>1. stored' = stored
        BY <1>6
      <4> QED
        BY <1>1, <4>1
    <3> QED
      <4>1. A!Sunk(n)[2] = Append(stored \o buffer, n)
        BY <1>6
      <4>2. Len(stored') # Len(Append(stored \o buffer, n))
        BY <1>1, <3>2, <3>3
      <4> QED
        BY <4>1, <4>2
  <2> QED
    BY <1>6, <2>1 DEF ToldInOrder
<1> QED
  BY <1>3, <1>4, <1>5, <1>6 DEF A!Sunk, A!Unsunk, b

\* The event processed is the next one; after a failure none is.
LEMMA ProcessKept ==
    ASSUME AgentTypes, ToldInOrder, InTurn, Observed, A!ProcessEvent
    PROVE  ToldInOrder' /\ InTurn' /\ Observed' /\ (SettledWell /\ Clean' => SettledWell')
<1> DEFINE n == Head(chain)
<1>1. /\ chain # <<>> /\ chain' = Tail(chain)
      /\ IF eventError \/ written[n] = "huge"
           THEN eventError' = TRUE /\ UNCHANGED <<queueFailed, buffer, stored>>
           ELSE /\ A!Emit(n) /\ UNCHANGED eventError
                /\ terminalError' = (terminalError \/ written[n] = "error")
                /\ settled' = (settled \/ written[n] = "settled")
      /\ UNCHANGED <<out, written, accepting>>
  BY DEF A!ProcessEvent, A!agentVars, A!sinkVars
<1>2. /\ Len(chain) \in Nat /\ Len(chain') = Len(chain) - 1
      /\ \A i \in 1..Len(chain') : i + 1 \in 1..Len(chain) /\ chain'[i] = chain[i + 1]
      /\ n \in Nat /\ n = chain[1] /\ 1 \in 1..Len(chain)
  BY <1>1 DEF AgentTypes
<1> HIDE DEF n
<1>3. Processed \in Nat /\ EventsRead \in Nat /\ EventsRead = Processed + Len(chain) /\ Len(written) \in Nat
  BY DEF AgentTypes, A!AgentTypeOK, Processed, EventsRead
<1>4. CASE ~Clean
  <2>1. ~Clean'
    BY <1>1, <1>4 DEF Clean, A!Emit
  <2>2. UNCHANGED <<buffer, stored>>
    BY <1>1, <1>4 DEF Clean, A!Emit
  <2> QED
    BY <2>1, <2>2 DEF ToldInOrder, InTurn, Observed
<1>5. CASE Clean /\ written[n] = "huge"
  <2>1. ~Clean' /\ UNCHANGED <<buffer, stored>>
    BY <1>1, <1>5 DEF Clean
  <2> QED
    BY <2>1 DEF ToldInOrder, InTurn, Observed
<1>6. CASE Clean /\ written[n] # "huge"
  <2>1. /\ A!Emit(n) /\ UNCHANGED eventError
        /\ terminalError' = (terminalError \/ written[n] = "error")
        /\ settled' = (settled \/ written[n] = "settled")
    BY <1>1, <1>6 DEF Clean
  <2>2. n = Processed + 1 /\ n \in 1..Len(written)
    BY <1>2, <1>3, <1>6 DEF InTurn
  <2>3. ToldInOrder'
    BY <1>2, <1>6, <2>1, <2>2, SunkTold DEF A!Emit, Clean
  <2>4. CASE ~Clean'
    BY <2>3, <2>4 DEF InTurn, Observed
  <2>5. CASE Clean'
    <3>1. Processed' = Processed + 1
      BY <1>2, <1>6, <2>1, <2>2, <2>5, SunkTold DEF A!Emit, Clean
    <3>2. EventsRead' = EventsRead
      BY <1>2, <1>3, <3>1 DEF EventsRead
    <3>3. InTurn'
      <4>1. /\ \A i \in 1..Len(chain) : chain[i] = Processed + i
            /\ EventsRead <= Len(written)
            /\ \A i \in 1..Len(out) : out[i].is = "event" => out[i].n \in EventsRead + 1..Len(written)
            /\ \A i, j \in 1..Len(out) :
                  i < j /\ out[i].is = "event" /\ out[j].is = "event" => out[i].n < out[j].n
            /\ accepting => \A m \in EventsRead + 1..Len(written) :
                                \E i \in 1..Len(out) : out[i].is = "event" /\ out[i].n = m
        BY <1>6 DEF InTurn
      <4>2. \A i \in 1..Len(chain') : chain'[i] = Processed' + i
        <5> SUFFICES ASSUME NEW i \in 1..Len(chain') PROVE chain'[i] = Processed' + i
          OBVIOUS
        <5>1. i + 1 \in 1..Len(chain) /\ chain'[i] = chain[i + 1] /\ i \in Nat
          BY <1>2
        <5>2. chain[i + 1] = Processed + (i + 1)
          BY <4>1, <5>1
        <5> QED
          BY <1>3, <3>1, <5>1, <5>2
      <4> QED
        BY <1>1, <3>2, <4>1, <4>2 DEF InTurn
    <3>4. Observed'
      <4>1. /\ settled => \E i \in 1..Processed : written[i] = "settled"
            /\ \A i \in 1..Processed : written[i] # "huge"
            /\ ~terminalError => \A i \in 1..Processed : written[i] # "error"
        BY <1>6 DEF Observed
      <4>2. /\ n \in 1..Processed' /\ written' = written
            /\ \A i \in 1..Processed' : i \in 1..Processed \/ i = n
            /\ \A i \in 1..Processed : i \in 1..Processed'
        BY <1>1, <1>3, <2>2, <3>1
      <4>3. /\ settled' => \E i \in 1..Processed' : written[i] = "settled"
        BY <2>1, <4>1, <4>2
      <4>4. \A i \in 1..Processed' : written[i] # "huge"
        BY <1>6, <4>1, <4>2
      <4>5. ~terminalError' => \A i \in 1..Processed' : written[i] # "error"
        BY <2>1, <4>1, <4>2
      <4> QED
        BY <4>2, <4>3, <4>4, <4>5 DEF Observed
    <3>5. SettledWell => SettledWell'
      BY <1>1, <1>3, <3>1 DEF SettledWell
    <3> QED
      BY <2>3, <3>3, <3>4, <3>5
  <2> QED
    BY <2>4, <2>5
<1> QED
  BY <1>4, <1>5, <1>6

\* What the buffer had goes to the store, or stays.
LEMMA EndKept ==
    ASSUME AgentTypes, ToldInOrder, InTurn, Observed, A!EndAttempt
    PROVE  ToldInOrder' /\ InTurn' /\ Observed' /\ (SettledWell => SettledWell')
<1>1. UNCHANGED <<out, written, chain, accepting, settled, terminalError, eventError, queueFailed>>
  BY DEF A!EndAttempt, A!agentVars, A!eventVars
<1>2. ToldInOrder' /\ Processed' = Processed
  <2>1. CASE UNCHANGED <<buffer, stored>>
    BY <2>1 DEF ToldInOrder, Processed
  <2>2. CASE stored' = stored \o buffer /\ buffer' = <<>>
    <3>1. /\ stored \in Seq(Nat) /\ buffer \in Seq(Nat)
          /\ \A i \in 1..Len(stored) : stored[i] = i
          /\ \A i \in 1..Len(buffer) : buffer[i] = Len(stored) + i
      BY DEF AgentTypes, ToldInOrder
    <3>2. Len(stored') = Len(stored) + Len(buffer) /\ \A i \in 1..Len(stored') : stored'[i] = i
      BY <2>2, <3>1, JoinedRuns
    <3>3. Len(buffer') = 0 /\ Len(stored) \in Nat /\ Len(buffer) \in Nat
      BY <2>2, <3>1
    <3> QED
      BY <3>2, <3>3 DEF ToldInOrder, Processed
  <2> QED
    BY <2>1, <2>2 DEF A!EndAttempt
<1>3. EventsRead' = EventsRead /\ Clean' = Clean
  BY <1>1, <1>2 DEF EventsRead, Clean
<1> QED
  BY <1>1, <1>2, <1>3 DEF InTurn, Observed, SettledWell

LEMMA EventsKept ==
    AgentIInv /\ A!AgentProcessNext =>
        ToldInOrder' /\ InTurn' /\ Observed' /\ (SettledWell /\ Clean' => Clean /\ SettledWell')
<1> SUFFICES ASSUME AgentIInv, A!AgentProcessNext
             PROVE  ToldInOrder' /\ InTurn' /\ Observed' /\ (SettledWell /\ Clean' => Clean /\ SettledWell')
  OBVIOUS
<1> USE AskingIs DEF AgentIInv
<1> DEFINE Quiet == /\ UNCHANGED <<written, chain, settled, terminalError, eventError, queueFailed, buffer, stored>>
                    /\ accepting' => accepting
                    /\ \/ out' = out
                       \/ out # <<>> /\ Head(out).is # "event" /\ out' = Tail(out)
                       \/ \E l \in Lines : l.is # "event" /\ out' = Append(out, l)
<1>1. ASSUME Quiet PROVE ToldInOrder' /\ InTurn' /\ Observed' /\ (SettledWell /\ Clean' => Clean /\ SettledWell')
  BY <1>1, QuietKept DEF SettledWell, Processed, Clean
<1> HIDE DEF Quiet
<1> USE DEF A!agentVars, A!eventVars, A!sinkVars
<1>2. CASE A!Settle
  BY <1>1, <1>2 DEF Quiet, A!Settle
<1>3. CASE A!GraceOver
  BY <1>1, <1>3 DEF Quiet, A!GraceOver
<1>4. CASE A!Finally
  BY <1>1, <1>4 DEF Quiet, A!Finally
<1>5. CASE A!Terminated
  BY <1>1, <1>5 DEF Quiet, A!Terminated
<1>6. CASE A!ClosedInTime
  BY <1>1, <1>6 DEF Quiet, A!ClosedInTime, A!KillGroup
<1>7. CASE A!TermGraceOver
  BY <1>1, <1>7 DEF Quiet, A!TermGraceOver, A!KillGroup
<1>8. CASE A!StartHelper
  BY <1>1, <1>8 DEF Quiet, A!StartHelper
<1>9. CASE A!Exit
  BY <1>1, <1>9 DEF Quiet, A!Exit
<1>10. CASE A!Answer
  <2>1. \E l \in Lines : l.is # "event" /\ out' = Append(out, l)
    BY <1>10, LineType DEF A!Answer, A!Line
  <2> QED
    BY <1>1, <1>10, <2>1 DEF Quiet, A!Answer
<1>11. CASE A!WriteGarbage
  <2>1. \E l \in Lines : l.is # "event" /\ out' = Append(out, l)
    BY <1>11, LineType DEF A!WriteGarbage, A!Line
  <2> QED
    BY <1>1, <1>11, <2>1 DEF Quiet, A!WriteGarbage
<1>12. CASE A!ReadAnswer
  <2>1. accepting' => accepting
    BY <1>12, ThrowType, AskType DEF A!ReadAnswer, A!Throw, A!Following
  <2> QED
    BY <1>1, <1>12, <2>1 DEF Quiet, A!ReadAnswer
<1>13. CASE A!ReadGarbage
  <2>1. accepting' => accepting
    BY <1>13, ThrowType, AskType DEF A!ReadGarbage, A!Throw, A!FailProcess
  <2> QED
    BY <1>1, <1>13, <2>1 DEF Quiet, A!ReadGarbage
<1>14. CASE A!Close
  <2>1. accepting' => accepting
    BY <1>14, ThrowType, AskType DEF A!Close, A!Throw, A!FailProcess
  <2> QED
    BY <1>1, <1>14, <2>1 DEF Quiet, A!Close
<1>15. CASE A!Drained
  <2>1. accepting' => accepting
    BY <1>15, ThrowType, AskType DEF A!Drained, A!Throw
  <2> QED
    BY <1>1, <1>15, <2>1 DEF Quiet, A!Drained
<1>16. CASE A!Timeout
  <2>1. accepting' => accepting
    BY <1>16, ThrowType, AskType DEF A!Timeout, A!Throw
  <2> QED
    BY <1>1, <1>16, <2>1 DEF Quiet, A!Timeout
<1>17. CASE A!Abort
  <2>1. accepting' => accepting
    BY <1>17, ThrowType, AskType DEF A!Abort
  <2> QED
    BY <1>1, <1>17, <2>1 DEF Quiet, A!Abort
<1>18. CASE A!ReadEvent
  BY <1>18, ReadKept DEF A!ReadEvent, SettledWell, Processed, Clean
<1>19. CASE A!ProcessEvent
  BY <1>19, ProcessKept DEF A!ProcessEvent, A!Emit, Clean
<1>20. CASE A!EndAttempt
  BY <1>20, EndKept DEF A!EndAttempt, Clean
<1>21. ASSUME NEW kind \in A!Kinds, A!Report(kind)
       PROVE  ToldInOrder' /\ InTurn' /\ Observed' /\ (SettledWell /\ Clean' => Clean /\ SettledWell')
  <2>1. Clean' => Clean /\ EventsRead <= Len(written)
    BY <1>21 DEF A!Report, Clean, InTurn
  <2> QED
    BY <1>21, <2>1, ReportKept
<1> QED
  BY <1>2, <1>3, <1>4, <1>5, <1>6, <1>7, <1>8, <1>9, <1>10, <1>11, <1>12, <1>13, <1>14, <1>15,
     <1>16, <1>17, <1>18, <1>19, <1>20, <1>21 DEF A!AgentProcessNext, A!DriverStep

-----------------------------------------------------------------------------
(* The end of an attempt *)

LEMMA GroupEndsKept == AgentIInv /\ A!AgentProcessNext => GroupEnds'
<1> SUFFICES ASSUME AgentIInv, A!AgentProcessNext PROVE GroupEnds'
  OBVIOUS
<1> USE AskingIs DEF AgentIInv, GroupEnds, A!HelperAlive
<1> USE DEF A!agentVars, A!eventVars, A!processVars, A!sinkVars
<1>1. CASE A!ReadAnswer
  <2>1. /\ phase' \in {"grace", "finally", "settling", phase} \cup A!Asking
        /\ phase' = "finally" => ~accepting' /\ (accepting' => accepting)
    BY <1>1, ThrowType, AskType DEF A!ReadAnswer, A!Throw, A!Following
  <2> QED
    BY <1>1, <2>1 DEF A!ReadAnswer
<1>2. CASE A!ReadEvent
  BY <1>2 DEF A!ReadEvent
<1>3. CASE A!ReadGarbage
  <2>1. /\ phase' \in {"grace", "finally", "settling", phase} \cup A!Asking
        /\ phase' = "finally" => ~accepting' /\ (accepting' => accepting)
    BY <1>3, ThrowType, AskType DEF A!ReadGarbage, A!Throw, A!FailProcess
  <2> QED
    BY <1>3, <2>1 DEF A!ReadGarbage, A!FailProcess, A!BeginTermination
<1>4. CASE A!Close
  <2>1. /\ phase' \in {"grace", "finally", "settling", phase} \cup A!Asking
        /\ phase' = "finally" => ~accepting' /\ (accepting' => accepting)
    BY <1>4, ThrowType, AskType DEF A!Close, A!Throw, A!FailProcess
  <2> QED
    BY <1>4, <2>1 DEF A!Close, A!FailProcess, A!BeginTermination
<1>5. CASE A!Settle
  BY <1>5 DEF A!Settle
<1>6. CASE A!Drained
  <2>1. /\ phase' \in {"grace", "finally", "settling", phase} \cup A!Asking
        /\ phase' = "finally" => ~accepting' /\ (accepting' => accepting)
    BY <1>6, ThrowType, AskType DEF A!Drained, A!Throw
  <2> QED
    BY <1>6, <2>1 DEF A!Drained
<1>7. CASE A!Timeout
  <2>1. /\ phase' \in {"grace", "finally", "settling", phase} \cup A!Asking
        /\ phase' = "finally" => ~accepting' /\ (accepting' => accepting)
    BY <1>7, ThrowType, AskType DEF A!Timeout, A!Throw
  <2> QED
    BY <1>7, <2>1 DEF A!Timeout
<1>8. CASE A!GraceOver
  BY <1>8 DEF A!GraceOver
<1>9. CASE A!Finally
  BY <1>9 DEF A!Finally, A!BeginTermination
<1>10. CASE A!Terminated
  BY <1>10 DEF A!Terminated
<1>11. CASE A!ClosedInTime
  BY <1>11 DEF A!ClosedInTime, A!KillGroup
<1>12. CASE A!TermGraceOver
  BY <1>12 DEF A!TermGraceOver, A!KillGroup
<1>13. CASE A!ProcessEvent
  BY <1>13 DEF A!ProcessEvent
<1>14. CASE A!EndAttempt
  BY <1>14 DEF A!EndAttempt
<1>15. CASE A!Abort
  <2>1. /\ phase' \in {"grace", "finally", "settling", phase} \cup A!Asking
        /\ phase' = "finally" => ~accepting' /\ (accepting' => accepting)
    BY <1>15, ThrowType, AskType DEF A!Abort
  <2> QED
    BY <1>15, <2>1 DEF A!Abort
<1>16. CASE A!Answer
  BY <1>16 DEF A!Answer
<1>17. CASE A!WriteGarbage
  BY <1>17 DEF A!WriteGarbage
<1>18. CASE A!StartHelper
  BY <1>18 DEF A!StartHelper
<1>19. CASE A!Exit
  BY <1>19 DEF A!Exit
<1>20. ASSUME NEW kind \in A!Kinds, A!Report(kind) PROVE GroupEnds'
  BY <1>20 DEF A!Report
<1> QED
  BY <1>1, <1>2, <1>3, <1>4, <1>5, <1>6, <1>7, <1>8, <1>9, <1>10, <1>11, <1>12, <1>13, <1>14,
     <1>15, <1>16, <1>17, <1>18, <1>19, <1>20 DEF A!AgentProcessNext, A!DriverStep

LEMMA CourseKept == AgentIInv /\ A!AgentProcessNext => Course'
<1> SUFFICES ASSUME AgentIInv, A!AgentProcessNext PROVE Course'
  OBVIOUS
<1> USE AskingIs DEF AgentIInv, Course
<1> USE DEF A!agentVars, A!eventVars, A!processVars, A!sinkVars
<1>0. SettledWell /\ Clean' => Clean /\ SettledWell'
  BY EventsKept
<1>1. CASE A!ReadAnswer
  <2>1. UNCHANGED <<chain, settled, eventError, queueFailed, buffer, attempt>> /\ Clean' = Clean
    BY <1>1 DEF A!ReadAnswer, Clean
  <2>2. \/ UNCHANGED <<phase, failure>>
        \/ phase' \in {"grace", "finally"} /\ failure' # "none" /\ phase # "over"
        \/ phase \in {"get_state", "get_commands", "prompt"} /\ phase' \in {"get_commands", "prompt", "settling"}
        \/ phase = "get_state_again" /\ phase' = "get_session_stats"
        \/ phase = "get_session_stats" /\ phase' = "finally" /\ UNCHANGED failure
    BY <1>1, ThrowType, AskType DEF A!ReadAnswer, A!Throw, A!Following
  <2> QED
    BY <1>0, <2>1, <2>2
<1>2. CASE A!ReadEvent
  BY <1>0, <1>2 DEF A!ReadEvent, Clean
<1>3. CASE A!ReadGarbage
  <2>1. UNCHANGED <<chain, settled, eventError, queueFailed, buffer, attempt>> /\ Clean' = Clean
    BY <1>3 DEF A!ReadGarbage, Clean
  <2>2. \/ UNCHANGED <<phase, failure>>
        \/ phase' \in {"grace", "finally"} /\ failure' # "none" /\ phase # "over"
    BY <1>3, ThrowType DEF A!ReadGarbage, A!Throw, A!FailProcess
  <2> QED
    BY <1>0, <2>1, <2>2
<1>4. CASE A!Close
  <2>1. UNCHANGED <<chain, settled, eventError, queueFailed, buffer, attempt>> /\ Clean' = Clean
    BY <1>4 DEF A!Close, Clean
  <2>2. \/ UNCHANGED <<phase, failure>>
        \/ phase' \in {"grace", "finally"} /\ failure' # "none" /\ phase # "over"
    BY <1>4, ThrowType DEF A!Close, A!Throw, A!FailProcess
  <2> QED
    BY <1>0, <2>1, <2>2
<1>5. CASE A!Settle
  BY <1>0, <1>5 DEF A!Settle, Clean
<1>6. CASE A!Drained
  <2>1. UNCHANGED <<written, chain, settled, eventError, queueFailed, buffer, stored, attempt>> /\ Clean' = Clean
        /\ phase = "draining" /\ attempt = "running"
    BY <1>6 DEF A!Drained, Clean, AgentTypes, A!AgentTypeOK
  <2>2. CASE eventError \/ terminalError
    <3>1. phase' \in {"grace", "finally"} /\ failure' # "none"
      BY <1>6, <2>2, ThrowType DEF A!Drained, A!Throw
    <3> QED
      BY <2>1, <3>1
  <2>3. CASE ~(eventError \/ terminalError)
    <3>1. \/ phase' \in {"grace", "finally"} /\ failure' # "none"
          \/ phase' = "get_state_again"
      BY <1>6, <2>3, AskType DEF A!Drained
    <3>2. Clean => SettledWell
      <4> SUFFICES ASSUME Clean PROVE SettledWell
        OBVIOUS
      <4>1. Processed \in Nat
        BY DEF AgentTypes, Processed
      <4>2. PICK s \in 1..Processed : written[s] = "settled"
        BY <2>1 DEF Observed
      <4>3. \A i \in 1..s : i \in 1..Processed
        BY <4>1, <4>2
      <4> QED
        BY <2>3, <4>2, <4>3 DEF Observed, SettledWell
    <3>3. SettledWell => SettledWell'
      BY <2>1 DEF SettledWell, Processed
    <3> QED
      BY <2>1, <3>1, <3>2, <3>3
  <2> QED
    BY <2>2, <2>3
<1>7. CASE A!Timeout
  <2>1. UNCHANGED <<chain, settled, eventError, queueFailed, buffer, attempt>> /\ Clean' = Clean
    BY <1>7 DEF A!Timeout, Clean
  <2>2. \/ UNCHANGED <<phase, failure>>
        \/ phase' \in {"grace", "finally"} /\ failure' # "none" /\ phase # "over"
    BY <1>7, ThrowType DEF A!Timeout, A!Throw
  <2> QED
    BY <1>0, <2>1, <2>2
<1>8. CASE A!GraceOver
  BY <1>0, <1>8 DEF A!GraceOver, Clean
<1>9. CASE A!Finally
  BY <1>0, <1>9 DEF A!Finally, Clean, A!BeginTermination
<1>10. CASE A!Terminated
  BY <1>0, <1>10 DEF A!Terminated, Clean
<1>11. CASE A!ClosedInTime
  BY <1>0, <1>11 DEF A!ClosedInTime, Clean, A!KillGroup
<1>12. CASE A!TermGraceOver
  BY <1>0, <1>12 DEF A!TermGraceOver, Clean, A!KillGroup
<1>13. CASE A!ProcessEvent
  <2>1. chain # <<>> /\ UNCHANGED <<phase, failure, attempt>> /\ (settled => settled')
    BY <1>13 DEF A!ProcessEvent
  <2>2. phase \notin {"terminating", "over"}
    BY <2>1 DEF GroupEnds
  <2>3. Clean' => Clean
    BY <1>13 DEF A!ProcessEvent, A!Emit, Clean
  <2>4. attempt = "running"
    BY <2>1, <2>2 DEF AgentTypes, A!AgentTypeOK
  <2> QED
    BY <1>0, <2>1, <2>2, <2>3, <2>4
<1>14. CASE A!EndAttempt
  <2>1. UNCHANGED <<phase, settled, eventError, failure, queueFailed>> /\ phase = "over"
    BY <1>14 DEF A!EndAttempt
  <2>2. attempt' = "succeeded" => failure = "none" /\ ~queueFailed /\ buffer' = <<>>
    BY <1>14 DEF A!EndAttempt
  <2>3. Clean' = Clean
    BY <2>1 DEF Clean
  <2> QED
    BY <1>0, <2>1, <2>2, <2>3
<1>15. CASE A!Abort
  <2>1. UNCHANGED <<chain, settled, eventError, queueFailed, buffer, attempt>> /\ Clean' = Clean
    BY <1>15 DEF A!Abort, Clean
  <2>2. \/ UNCHANGED <<phase, failure>>
        \/ phase' \in {"grace", "finally"} /\ failure' # "none" /\ phase # "over"
    BY <1>15, ThrowType DEF A!Abort
  <2> QED
    BY <1>0, <2>1, <2>2
<1>16. CASE A!Answer
  BY <1>0, <1>16 DEF A!Answer, Clean
<1>17. CASE A!WriteGarbage
  BY <1>0, <1>17 DEF A!WriteGarbage, Clean
<1>18. CASE A!StartHelper
  BY <1>0, <1>18 DEF A!StartHelper, Clean
<1>19. CASE A!Exit
  BY <1>0, <1>19 DEF A!Exit, Clean
<1>20. ASSUME NEW kind \in A!Kinds, A!Report(kind) PROVE Course'
  BY <1>0, <1>20 DEF A!Report, Clean
<1> QED
  BY <1>1, <1>2, <1>3, <1>4, <1>5, <1>6, <1>7, <1>8, <1>9, <1>10, <1>11, <1>12, <1>13, <1>14,
     <1>15, <1>16, <1>17, <1>18, <1>19, <1>20 DEF A!AgentProcessNext, A!DriverStep

NatLess == {ss \in Nat \X Nat : ss[1] < ss[2]}

\* Every set of numbers that is not empty has a least one.
LEMMA LeastExists ==
    ASSUME NEW S \in SUBSET Nat, S # {}
    PROVE  \E x \in S : \A y \in S : x <= y
<1>1. IsWellFoundedOn(NatLess, Nat)
  BY NatLessThanWellFounded DEF OpToRel, NatLess
<1>2. PICK x \in S : \A y \in S : ~(<<y, x>> \in NatLess)
  BY <1>1, WFMin
<1>3. ASSUME NEW y \in S
      PROVE  x <= y
  <2>1. y < x => <<y, x>> \in NatLess
    <3>1. <<y, x>> \in Nat \X Nat /\ <<y, x>>[1] = y /\ <<y, x>>[2] = x
      OBVIOUS
    <3> QED
      BY <3>1, Zenon DEF NatLess
  <2> QED
    BY <1>2, <2>1
<1> QED
  BY <1>3

\* In a step that succeeded the agent settled, and the events up to there are the
\* beginning of what is in the store.
LEMMA AgentMeans == AgentIInv => A!AgentInv
<1> SUFFICES ASSUME AgentIInv PROVE A!AgentInv
  OBVIOUS
<1> USE DEF AgentIInv
<1>1. A!AgentTypeOK /\ A!NothingLeftBehind
  BY DEF AgentTypes, GroupEnds, A!NothingLeftBehind
<1>2. /\ stored \in Seq(Nat) /\ buffer \in Seq(Nat) /\ Len(stored) \in Nat /\ Len(buffer) \in Nat
      /\ \A i \in 1..Len(stored \o buffer) : (stored \o buffer)[i] = i
  <2>1. /\ stored \in Seq(Nat) /\ buffer \in Seq(Nat)
        /\ \A i \in 1..Len(stored) : stored[i] = i
        /\ \A i \in 1..Len(buffer) : buffer[i] = Len(stored) + i
    BY DEF AgentTypes, ToldInOrder
  <2> QED
    BY <2>1, JoinedRuns
<1>3. A!StoredInOrder
  BY <1>2 DEF A!StoredInOrder
<1>4. A!SuccessIsComplete
  <2> SUFFICES ASSUME attempt = "succeeded"
               PROVE  /\ A!SettledAt > 0
                      /\ \A n \in 1..A!SettledAt : written[n] \notin {"error", "huge"}
                      /\ A!IsPrefix([n \in 1..A!SettledAt |-> n], stored)
                      /\ buffer = <<>>
    BY DEF A!SuccessIsComplete
  <2>1. phase = "over" /\ failure = "none" /\ ~queueFailed /\ buffer = <<>> /\ ~eventError
    BY DEF Course
  <2>2. SettledWell /\ Processed = Len(stored)
    BY <1>2, <2>1 DEF Course, Clean, Processed
  <2>3. PICK s \in 1..Len(stored) : written[s] = "settled" /\ \A i \in 1..s : written[i] \notin {"error", "huge"}
    BY <2>2 DEF SettledWell
  <2>4. Len(stored) <= Len(written) /\ Len(written) \in Nat
    BY <1>2, <2>1, <2>2 DEF InTurn, Clean, EventsRead, AgentTypes, A!AgentTypeOK
  <2> DEFINE ends == {i \in 1..Len(written) : written[i] = "settled"}
  <2>5. s \in ends /\ ends \subseteq Nat
    BY <1>2, <2>3, <2>4
  <2>6. PICK k \in ends : \A i \in ends : k <= i
    BY <2>5, LeastExists
  <2>7. A!SettledAt = k
    <3>1. A!SettledAt = IF ends # {} THEN A!Min(ends) ELSE 0
      BY DEF A!SettledAt, A!SelectInSeq
    <3>2. A!Min(ends) = k
      BY <2>5, <2>6 DEF A!Min
    <3> QED
      BY <2>5, <3>1, <3>2
  <2> HIDE DEF ends
  <2>8. k \in 1..s /\ s \in 1..Len(stored) /\ k \in Nat /\ k > 0
    BY <2>5, <2>6 DEF ends
  <2>9. \A i \in 1..k : i \in 1..s /\ i \in 1..Len(stored)
    BY <1>2, <2>8
  <2>10. A!IsPrefix([n \in 1..k |-> n], stored)
    <3> DEFINE f == [n \in 1..k |-> n]
    <3>1. f \in Seq(Nat) /\ Len(f) = k /\ \A i \in 1..k : f[i] = i
      BY <2>8
    <3>2. k <= Len(stored)
      BY <1>2, <2>8
    <3>3. SubSeq(f, 1, k) = SubSeq(stored, 1, k)
      <4>1. \A i \in 1..k : stored[i] = i
        BY <2>9 DEF ToldInOrder
      <4> HIDE DEF f
      <4>2. SubSeq(f, 1, k) \in Seq(Nat) /\ SubSeq(stored, 1, k) \in Seq(Nat)
            /\ Len(SubSeq(f, 1, k)) = k /\ Len(SubSeq(stored, 1, k)) = k
            /\ \A i \in 1..k : SubSeq(f, 1, k)[i] = f[i] /\ SubSeq(stored, 1, k)[i] = stored[i]
        BY <1>2, <2>8, <3>1, <3>2
      <4> QED
        BY <3>1, <4>1, <4>2
    <3> HIDE DEF f
    <3> QED
      BY <3>1, <3>2, <3>3 DEF A!IsPrefix, f
  <2> QED
    BY <2>1, <2>3, <2>7, <2>8, <2>9, <2>10
<1> QED
  BY <1>1, <1>3, <1>4 DEF A!AgentInv

-----------------------------------------------------------------------------
(* The command *)

LEMMA CommandKept == CommandIInv /\ CommandNext => CommandIInv'
<1> SUFFICES ASSUME CommandIInv, CommandNext PROVE CommandIInv'
  OBVIOUS
<1> USE ProcessesAssumption
<1> USE DEF CommandIInv, CommandTypeOK, JobAlive, Reasons, groupVars
<1>1. CASE TimerFires
  BY <1>1 DEF TimerFires, Stop, Terminated
<1>2. CASE ReadOutput
  BY <1>2 DEF ReadOutput, Stop, Terminated
<1>3. CASE Closed
  BY <1>3 DEF Closed
<1>4. CASE Return
  BY <1>4 DEF Return, Verdict
<1>5. ASSUME NEW r \in Reasons, Settled(r) PROVE CommandIInv'
  BY <1>5 DEF Settled
<1>6. ASSUME NEW r \in Reasons, StopGraceOver(r) PROVE CommandIInv'
  BY <1>6 DEF StopGraceOver, Terminated
<1>7. CASE Aborted
  BY <1>7 DEF Aborted, Stop, Terminated
<1>8. CASE ShellExits
  BY <1>8 DEF ShellExits
<1>9. CASE StartJob
  BY <1>9 DEF StartJob
<1>10. CASE JobExits
  BY <1>10 DEF JobExits
<1>11. CASE WriteOutput
  BY <1>11 DEF WriteOutput
<1> QED
  BY <1>1, <1>2, <1>3, <1>4, <1>5, <1>6, <1>7, <1>8, <1>9, <1>10, <1>11 DEF CommandNext, RunStep

LEMMA CommandMeans == CommandIInv => CommandInv
  BY DEF CommandIInv, CommandInv, CommandTypeOK, PassedIsComplete, Reasons

-----------------------------------------------------------------------------
(* Both *)

ProcessesIInv == AgentIInv /\ CommandIInv

LEMMA AgentStays == AgentIInv /\ UNCHANGED agentVars => AgentIInv'
  BY DEF agentVars, AgentIInv, AgentTypes, A!AgentTypeOK, ToldInOrder, InTurn, Observed, GroupEnds,
         Course, Clean, Processed, EventsRead, SettledWell

LEMMA CommandStays == CommandIInv /\ UNCHANGED commandVars => CommandIInv'
  BY DEF commandVars, CommandIInv, CommandTypeOK

\* Whatever an agent and its helpers do, at any number of events, failed writes and
\* faults: when execute returns nothing of the process group lives on, and a step that
\* succeeded has its events in the store, in order and without an error before the agent
\* settled (pi-rpc.ts, jsonl-process.ts).  A command reported as passed was not cut short
\* and left nothing that holds its pipes (workspace-process.ts).
THEOREM ProcessesHold == ProcessesSpec => []Inv
<1>1. ProcessesInit => ProcessesIInv
  <2>1. CommandInit => CommandIInv
    BY ProcessesAssumption DEF CommandInit, CommandIInv, CommandTypeOK, Reasons, JobAlive
  <2> QED
    BY <2>1, AgentStart DEF ProcessesInit, ProcessesIInv
<1>2. ProcessesIInv /\ [ProcessesNext]_processesVars => ProcessesIInv'
  <2> SUFFICES ASSUME ProcessesIInv, [ProcessesNext]_processesVars PROVE ProcessesIInv'
    OBVIOUS
  <2>1. AgentIInv /\ A!AgentProcessNext => AgentIInv'
    BY AgentTyped, EventsKept, GroupEndsKept, CourseKept DEF AgentIInv
  <2> QED
    BY <2>1, CommandKept, AgentStays, CommandStays DEF ProcessesNext, processesVars, ProcessesIInv
<1>3. ProcessesIInv => Inv
  BY AgentMeans, CommandMeans DEF Inv, ProcessesIInv
<1> QED
  BY <1>1, <1>2, <1>3, PTL DEF ProcessesSpec
==============================================================================
