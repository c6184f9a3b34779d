--------------------------- MODULE WorkflowRuntime ---------------------------
(***************************************************************************)
(* The processes that execute one workflow run: runWorkflow, resumeWorkflow*)
(* and markRunInterrupted (src/src/application/execution-operations.ts,    *)
(* run-operations.ts) around WorkflowRuntime.executeSequential             *)
(* (src/src/core/workflow-runtime.ts).  Between two transactions of        *)
(* RunStore every other process may take steps, the process may die and    *)
(* its abort signal may fire; pc[p] says which transaction comes next:     *)
(*                                                                         *)
(*   idle       nothing in progress, or the process is not up              *)
(*   claim      eligibility was read, claimRunForExecution comes next      *)
(*   claimed    the claim was granted, prepareRun checks it                *)
(*   started    the run is ours, onRunStarted is called                    *)
(*   loop       at the head of the step loop, at[p] is the position        *)
(*   skipping   a step was reset to pending and will be saved as skipped   *)
(*   prepared   an attempt was saved as pending                            *)
(*   driving    the attempt was saved as running, the driver has it        *)
(*   repairing  a malformed output was saved as failed, one repair follows *)
(*   thrown     the engine threw; the caller's catch clause runs           *)
(*   released   the catch clause gave up ownership of the run              *)
(***************************************************************************)
EXTENDS RunStore, Sequences

CONSTANTS
    Deps,         \* Deps[s]: step.dependsOn
    Order,        \* resolveStepOrder(workflow)
    Stoppers,     \* steps with an output that carries a disposition
    RetryLimit    \* profile.retryLimit

\* resolveStepOrder lists every step once, after all it depends on; that it
\* does is checked in WorkflowGraph (OrderIsSound).
ASSUME OrderAssumption ==
    /\ Order \in Seq(Steps)
    /\ \A s \in Steps : \E i \in 1..Len(Order) : Order[i] = s
    /\ \A i, j \in 1..Len(Order) : Order[i] = Order[j] => i = j

ASSUME DepsAssumption ==
    /\ Deps \in [Steps -> SUBSET Steps]
    /\ \A i \in 1..Len(Order) : \A d \in Deps[Order[i]] :
          \E j \in 1..(i - 1) : Order[j] = d

VARIABLES
    pc,
    at,         \* at[p]: index of the current step in Order
    snap,       \* snap[p]: the step rows p holds in memory
    verdict,    \* verdict[p]: the status the run gets if the loop ends now
    repaired,   \* repaired[p]: the current step has used its repair
    aborted     \* aborted[p]: the request's abort signal has fired

localVars == <<pc, at, snap, verdict, repaired, aborted>>
vars == <<storeVars, localVars>>

Working == {"loop", "skipping", "prepared", "driving", "repairing"}
Executing == Working \cup {"claimed", "started"}

TypeOK ==
    /\ StoreTypeOK
    /\ pc \in [Procs -> Executing \cup {"idle", "claim", "thrown", "released"}]
    /\ at \in [Procs -> Nat]
    /\ snap \in [Procs -> [Steps -> StepRun]]
    /\ verdict \in [Procs -> {"completed", "failed", "cancelled"}]
    /\ repaired \in [Procs -> BOOLEAN]
    /\ aborted \in [Procs -> BOOLEAN]

Init ==
    /\ StoreInit
    /\ pc = [p \in Procs |-> "idle"]
    /\ at = [p \in Procs |-> 1]
    /\ snap = [p \in Procs |-> [s \in Steps |-> NoStep]]
    /\ verdict = [p \in Procs |-> "completed"]
    /\ repaired = [p \in Procs |-> FALSE]
    /\ aborted = [p \in Procs |-> FALSE]

Goto(p, label) == pc' = [pc EXCEPT ![p] = label]

\* The loop's local variables go out of scope.
Unwound(p, label) ==
    /\ Goto(p, label)
    /\ at' = [at EXCEPT ![p] = 1]
    /\ snap' = [snap EXCEPT ![p] = [s \in Steps |-> NoStep]]
    /\ verdict' = [verdict EXCEPT ![p] = "completed"]
    /\ repaired' = [repaired EXCEPT ![p] = FALSE]
    /\ aborted' = [aborted EXCEPT ![p] = FALSE]

Leave(p) == Unwound(p, "idle")

Up(p) == proc[p] = "up"

-----------------------------------------------------------------------------
(* Steps seen from the loop *)

\* Mutant: a skipped step does not block the steps that depend on it.
Blocking_NotSkipped == {"failed", "cancelled", "interrupted"}

Blocking == {"failed", "cancelled", "interrupted", "skipped"}

RetryEligible(r) ==
    \/ r.status \in {"pending", "interrupted", "skipped"}
    \/ r.status = "failed" /\ r.retryable

Blocked(s, rows) == \E d \in Deps[s] : rows[d].status \in Blocking
Stopped(s, rows) == \E d \in Deps[s] : rows[d].stop

\* retryableWorkflowStepIds is not empty, or workflowStepsCompleted
Resumable(rows) ==
    \/ \E s \in Steps : /\ rows[s] = NoStep \/ RetryEligible(rows[s])
                        /\ ~Blocked(s, rows)
    \/ \A s \in Steps : rows[s].status = "completed"

AtStep(p) == pc[p] = "loop" /\ at[p] \in 1..Len(Order)

\* The step under way and its row in p's memory.
Current(p) == Order[at[p]]
CurrentRow(p) == snap[p][Current(p)]

\* A step p must look at: the loop is there and p was not told to stop.
Visit(p) == AtStep(p) /\ ~aborted[p] /\ CurrentRow(p).status # "completed"

MustSkip(p) == Blocked(Current(p), snap[p]) \/ Stopped(Current(p), snap[p])

Advance(p) ==
    /\ at' = [at EXCEPT ![p] = @ + 1]
    /\ Goto(p, "loop")

\* Mutant: stepRuns.set and statuses.set are forgotten.
Save_Forget(p, r) ==
    /\ SaveStepRun(p, Current(p), r)
    /\ UNCHANGED <<snap, proc, pid>>

\* Save a row of the current step, and remember it.
Save(p, r) ==
    /\ SaveStepRun(p, Current(p), r)
    /\ snap' = [snap EXCEPT ![p][Current(p)] = r]
    /\ UNCHANGED <<proc, pid>>

\* cancelled ||= ..., failed ||= ..., and the choice made after the loop
Worse(v, status) == IF "cancelled" \in {v, status} THEN "cancelled" ELSE "failed"

-----------------------------------------------------------------------------
(* Starting and resuming *)

\* A process opens the database; its pid belongs to no running process.
Start(p) ==
    /\ proc[p] = "unborn"
    /\ \A q \in Procs : Up(q) => pid[q] # pid[p]
    /\ proc' = [proc EXCEPT ![p] = "up"]
    /\ UNCHANGED <<pid, run, owner, step, attempts, claim, localVars>>

\* runWorkflow up to createRun.  The catch clause has nothing to undo before.
Create(p) ==
    /\ Up(p) /\ pc[p] = "idle"
    /\ CreateRun(p)
    /\ Goto(p, "started")
    /\ UNCHANGED <<proc, pid, at, snap, verdict, repaired, aborted>>

\* The bound on resumes: one execution adds at most two attempts to a step.
RoomForResume == \A s \in Steps : step[s].attempt + 2 <= MaxAttempt

\* resumeWorkflow reads the run and its steps and finds them resumable.
CheckResume(p) ==
    /\ Up(p) /\ pc[p] = "idle"
    /\ run \in Claimable
    /\ RoomForResume
    /\ Resumable(step)
    /\ Goto(p, "claim")
    /\ UNCHANGED <<storeVars, at, snap, verdict, repaired, aborted>>

ClaimGranted(p) ==
    /\ pc[p] = "claim"
    /\ RoomForResume
    /\ ClaimRun(p)
    /\ Goto(p, "claimed")
    /\ UNCHANGED <<proc, pid, at, snap, verdict, repaired, aborted>>

\* The claim is refused before anything is owned, so nothing is undone.
ClaimRefused(p) ==
    /\ pc[p] = "claim"
    /\ ~(run \in Claimable /\ CanAcquire(p) /\ RoomForResume)
    /\ Leave(p)
    /\ UNCHANGED storeVars

\* prepareRun on a run that is already running: assertExecutionClaim
AssertClaim(p) ==
    /\ pc[p] = "claimed"
    /\ run = "running" /\ claim[p] /\ owner = p
    /\ Goto(p, "started")
    /\ UNCHANGED <<storeVars, at, snap, verdict, repaired, aborted>>

\* onRunStarted returned; the step rows are read once for the whole loop.
BeginLoop(p) ==
    /\ pc[p] = "started"
    /\ snap' = [snap EXCEPT ![p] = step]
    /\ at' = [at EXCEPT ![p] = 1]
    /\ verdict' = [verdict EXCEPT ![p] = "completed"]
    /\ Goto(p, "loop")
    /\ UNCHANGED <<storeVars, repaired, aborted>>

\* onRunStarted threw: the run is saved as failed and the error rethrown.
StartRefused(p) ==
    /\ pc[p] = "started"
    /\ SaveRun(p, "failed")
    /\ Unwound(p, "thrown")
    /\ UNCHANGED <<proc, pid>>

-----------------------------------------------------------------------------
(* The step loop *)

StopAtAbort(p) ==
    /\ AtStep(p) /\ aborted[p]
    /\ SaveRun(p, "cancelled")
    /\ Leave(p)
    /\ UNCHANGED <<proc, pid>>

ReuseCompleted(p) ==
    /\ AtStep(p) /\ ~aborted[p]
    /\ CurrentRow(p).status = "completed"
    /\ Advance(p)
    /\ UNCHANGED <<storeVars, snap, verdict, repaired, aborted>>

\* skipStep on a row that is already skipped or cancelled
KeepSkipped(p) ==
    /\ Visit(p) /\ MustSkip(p)
    /\ CurrentRow(p).status \in {"skipped", "cancelled"}
    /\ Advance(p)
    /\ UNCHANGED <<storeVars, snap, verdict, repaired, aborted>>

\* skipStep first brings any other row to pending, keeping its attempt number
ResetForSkip(p) ==
    /\ Visit(p) /\ MustSkip(p)
    /\ CurrentRow(p).status \notin {"skipped", "cancelled", "pending"}
    /\ LET old == CurrentRow(p)
           n == IF old = NoStep THEN 1 ELSE old.attempt
       IN  Save(p, NewStep("pending", n))
    /\ Goto(p, "skipping")
    /\ UNCHANGED <<at, verdict, repaired, aborted>>

SaveSkipped(p) ==
    /\ \/ pc[p] = "skipping"
       \/ Visit(p) /\ MustSkip(p) /\ CurrentRow(p).status = "pending"
    /\ Save(p, NewStep("skipped", CurrentRow(p).attempt))
    /\ Advance(p)
    /\ UNCHANGED <<verdict, repaired, aborted>>

\* Mutant: a step that may not be retried does not fail the run.
NotRetryable_Ignored(p) ==
    /\ Visit(p) /\ ~MustSkip(p)
    /\ CurrentRow(p) # NoStep
    /\ ~RetryEligible(CurrentRow(p))
    /\ Advance(p)
    /\ UNCHANGED <<storeVars, snap, verdict, repaired, aborted>>

NotRetryable(p) ==
    /\ Visit(p) /\ ~MustSkip(p)
    /\ CurrentRow(p) # NoStep
    /\ ~RetryEligible(CurrentRow(p))
    /\ verdict' = [verdict EXCEPT ![p] = Worse(@, "failed")]
    /\ Advance(p)
    /\ UNCHANGED <<storeVars, snap, repaired, aborted>>

\* Mutant: an interrupted attempt is taken up again under its number.
NextAttempt_SameAfterInterrupt(r) ==
    CASE r = NoStep -> 1
      [] r.status = "failed" -> r.attempt + 1
      [] OTHER -> r.attempt

\* prepareStep: a failed or interrupted attempt is never written again.
NextAttempt(r) ==
    CASE r = NoStep -> 1
      [] r.status \in {"failed", "interrupted"} -> r.attempt + 1
      [] OTHER -> r.attempt

PrepareStep(p) ==
    /\ Visit(p) /\ ~MustSkip(p)
    /\ CurrentRow(p) = NoStep \/ RetryEligible(CurrentRow(p))
    /\ Save(p, NewStep("pending", NextAttempt(CurrentRow(p))))
    /\ repaired' = [repaired EXCEPT ![p] = FALSE]
    /\ Goto(p, "prepared")
    /\ UNCHANGED <<at, verdict, aborted>>

\* executeStep hands the attempt to the driver; the second save of the same
\* row only adds the profile snapshot.
InvokeDriver(p) ==
    /\ pc[p] = "prepared"
    /\ Save(p, [CurrentRow(p) EXCEPT !.status = "running"])
    /\ Goto(p, "driving")
    /\ UNCHANGED <<at, verdict, repaired, aborted>>

\* The driver returned a usable result; a step with a disposition may stop.
CompleteStep(p) ==
    /\ pc[p] = "driving"
    /\ \E stop \in BOOLEAN :
         /\ stop => Current(p) \in Stoppers
         /\ Save(p, [CurrentRow(p) EXCEPT !.status = "completed", !.stop = stop])
    /\ Advance(p)
    /\ UNCHANGED <<verdict, repaired, aborted>>

\* The first output that does not match its schema earns one repair attempt.
RejectOutput(p) ==
    /\ pc[p] = "driving" /\ ~repaired[p]
    /\ Save(p, [CurrentRow(p) EXCEPT !.status = "failed", !.retryable = TRUE])
    /\ repaired' = [repaired EXCEPT ![p] = TRUE]
    /\ Goto(p, "repairing")
    /\ UNCHANGED <<at, verdict, aborted>>

PrepareRepair(p) ==
    /\ pc[p] = "repairing"
    /\ Save(p, NewStep("pending", CurrentRow(p).attempt + 1))
    /\ Goto(p, "prepared")
    /\ UNCHANGED <<at, verdict, repaired, aborted>>

\* recordFailure, whether the driver or the repaired output failed
FailStep(p) ==
    /\ pc[p] = "driving"
    /\ \E driverRetryable \in BOOLEAN :
         LET status == IF aborted[p] THEN "cancelled" ELSE "failed"
             retryable == /\ ~aborted[p]
                          /\ CurrentRow(p).attempt <= RetryLimit
                          /\ driverRetryable
         IN  /\ Save(p, [CurrentRow(p) EXCEPT !.status = status,
                                              !.retryable = retryable])
             /\ verdict' = [verdict EXCEPT ![p] = Worse(@, status)]
    /\ Advance(p)
    /\ UNCHANGED <<repaired, aborted>>

Finish(p) ==
    /\ pc[p] = "loop" /\ at[p] > Len(Order)
    /\ SaveRun(p, verdict[p])
    /\ Leave(p)
    /\ UNCHANGED <<proc, pid>>

-----------------------------------------------------------------------------
(* Errors *)

\* A transaction, an artifact file, an event sink or the driver's queue fails.
Throw(p) ==
    /\ pc[p] \in Executing
    /\ Unwound(p, "thrown")
    /\ UNCHANGED storeVars

Release(p) ==
    /\ pc[p] = "thrown"
    /\ ReleaseExecution(p)
    /\ Goto(p, "released")
    /\ UNCHANGED <<proc, pid, at, snap, verdict, repaired, aborted>>

\* releaseExecution itself failed: runWorkflow then finds its own live owner
\* row and resumeWorkflow rethrows, so either way the row stays.
ReleaseFails(p) ==
    /\ pc[p] = "thrown"
    /\ Leave(p)
    /\ UNCHANGED storeVars

\* Mutant: it waits until the run can be marked interrupted.
InterruptReleased_Wait(p) ==
    /\ pc[p] = "released"
    /\ InterruptRun(p)
    /\ Leave(p)
    /\ UNCHANGED <<proc, pid>>

\* The second half of the catch clause, in a transaction of its own.
InterruptReleased(p) ==
    /\ pc[p] = "released"
    /\ \/ InterruptRun(p)
       \/ /\ run # "running" \/ LiveOwner(p)
          /\ UNCHANGED <<run, owner, step, attempts, claim>>
    /\ Leave(p)
    /\ UNCHANGED <<proc, pid>>

-----------------------------------------------------------------------------
(* The environment: the operator, the abort signal, the operating system *)

\* markRunInterrupted from the recovery view, by any process with the database
MarkInterrupted(p) ==
    /\ Up(p) /\ pc[p] = "idle"
    /\ InterruptRun(p)
    /\ UNCHANGED <<proc, pid, localVars>>

Abort(p) ==
    /\ pc[p] \in Executing /\ ~aborted[p]
    /\ aborted' = [aborted EXCEPT ![p] = TRUE]
    /\ UNCHANGED <<storeVars, pc, at, snap, verdict, repaired>>

\* A crash, a kill or an ordinary exit: what is in memory is gone.
Die(p) ==
    /\ Up(p)
    /\ proc' = [proc EXCEPT ![p] = "dead"]
    /\ claim' = [claim EXCEPT ![p] = FALSE]
    /\ Leave(p)
    /\ UNCHANGED <<pid, run, owner, step, attempts>>

-----------------------------------------------------------------------------

Prepare(p) ==
    \/ ClaimGranted(p) \/ ClaimRefused(p) \/ AssertClaim(p)
    \/ BeginLoop(p) \/ StartRefused(p)

Loop(p) ==
    \/ StopAtAbort(p) \/ ReuseCompleted(p) \/ KeepSkipped(p)
    \/ ResetForSkip(p) \/ SaveSkipped(p) \/ NotRetryable(p)
    \/ PrepareStep(p) \/ InvokeDriver(p) \/ CompleteStep(p)
    \/ RejectOutput(p) \/ PrepareRepair(p) \/ FailStep(p) \/ Finish(p)

Unwind(p) == Throw(p) \/ Release(p) \/ ReleaseFails(p) \/ InterruptReleased(p)

\* What the process does of itself once an operation has begun.
Proceed(p) == Prepare(p) \/ Loop(p) \/ Unwind(p)

Environment(p) ==
    \/ Start(p) \/ Create(p) \/ CheckResume(p)
    \/ MarkInterrupted(p) \/ Abort(p) \/ Die(p)

Next == \E p \in Procs : Proceed(p) \/ Environment(p)

\* Every await settles: the database is local and every driver call has the
\* profile's timeoutMs.  Operators, signals and crashes owe nothing.
Fairness == \A p \in Procs : WF_vars(Proceed(p))

Spec == Init /\ [][Next]_vars
FairSpec == Spec /\ Fairness

-----------------------------------------------------------------------------
(* Properties *)

\* Two processes never execute the run at the same time, whatever crashes,
\* reused process ids and refused or granted claims came before; an executing
\* process is also the one the database names (assertCurrentExecutionOwner).
ExclusiveExecution ==
    \A p \in Procs : pc[p] \in Executing =>
        /\ \A q \in Procs \ {p} : pc[q] \notin Executing
        /\ run = "running" /\ owner = p

\* The rows read once before the loop stay true until its end: no other
\* process, and no mark-interrupted, writes under an executing process.
SnapshotFresh ==
    \A p \in Procs : pc[p] \in Working => snap[p] = step

\* Whatever ends an execution (a saved result, a thrown error, a crash followed
\* by recovery), no owner row is left on a run that is not running.
OwnerMeansRunning == owner # NoOwner => run = "running"

\* The rows are those the store can have, also after recoveries, and nobody is left
\* as the owner of a run that does not run.
RunInv == TypeOK /\ OwnerMeansRunning

\* A driver only ever ran a step whose dependencies had all completed and
\* none of which asked the workflow to stop.
DependencyOrder ==
    \A s \in Steps :
        step[s].status \in {"running", "completed", "failed", "interrupted"} =>
            \A d \in Deps[s] : step[d].status = "completed" /\ ~step[d].stop

\* A run is completed only when every step completed or was skipped because
\* a step above it asked to stop: no failure is hidden in a completed run.
CompletedRunIsDone ==
    run = "completed" =>
        \A s \in Steps :
            \/ step[s].status = "completed"
            \/ /\ step[s].status = "skipped"
               /\ \E d \in Deps[s] : step[d].stop \/ step[d].status = "skipped"

\* What was done is kept: whatever fails, is interrupted or resumed later, the
\* row of a completed step, with its disposition, is not written again, and the
\* status an attempt ended with is never replaced.
HistoryKept ==
    [][\A s \in Steps :
          /\ step[s].status = "completed" => step'[s] = step[s]
          /\ \A n \in 1..MaxAttempt :
                attempts[s][n] \in SettledStatus => attempts'[s][n] = attempts[s][n]]_vars

\* An operation that began on a process ends: with a result, with an error
\* after the catch clause has run, or with the process.
ExecutionEnds == \A p \in Procs : (pc[p] # "idle") ~> (pc[p] = "idle")

-----------------------------------------------------------------------------
(* The promise of ExclusiveRun, kept by this system *)

Phase ==
    CASE run = "absent" -> "new"
      [] run = "running" -> "taken"
      [] run \in Claimable -> "open"
      [] OTHER -> "closed"

Done == {s \in Steps : step[s].status = "completed"}

Promise == INSTANCE ExclusiveRun
    WITH Workers <- Procs, Tasks <- Steps, Nobody <- NoOwner,
         phase <- Phase, holder <- owner, life <- proc, done <- Done

\* Seen through the run row, the owner row and the completed steps, every
\* execution, crash and recovery is a behaviour of ExclusiveRun.
ImplementsExclusiveRun == Promise!Spec

-----------------------------------------------------------------------------
(* Instances *)

PairDeps == [s \in {"plan", "build"} |-> IF s = "plan" THEN {} ELSE {"plan"}]
PairOrder == <<"plan", "build">>

\* Two branches under the plan and a step that needs both.
DiamondDeps ==
    [s \in {"plan", "build", "docs", "review"} |->
        CASE s = "plan" -> {}
          [] s \in {"build", "docs"} -> {"plan"}
          [] s = "review" -> {"build", "docs"}]
DiamondOrder == <<"plan", "build", "docs", "review">>

\* The plan is the step whose failure stops the workflow.
PlanStops == {"plan"}
=============================================================================
