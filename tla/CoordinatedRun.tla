--------------------------- MODULE CoordinatedRun ---------------------------
(***************************************************************************)
(* What the four coordinators of src/src/application share: one run of a  *)
(* workflow whose phases a coordinator, and not the generic engine, puts   *)
(* in order.  A coordinator reads the step rows once, walks through its    *)
(* phases, reuses each completed step and gives each other one to the     *)
(* driver; after a crash, an error or a refusal the same walk starts again *)
(* from the rows.                                                         *)
(*                                                                         *)
(* The transactions of the run store, the attempts and the repair of a     *)
(* malformed output are in RunStore and WorkflowRuntime, which also show   *)
(* that one process at a time executes a run; here there is one process,   *)
(* which may die and come back, and a step's row keeps its status only.    *)
(*                                                                         *)
(* pc is "idle", the label of a phase (each coordinator has its own),      *)
(* "drive" (the driver has mem.cur), "failed" (StepExecutionFailure was    *)
(* thrown for mem.cur), "report" and "close" (finish), or "clean" (an     *)
(* input row was replaced and the file of the old one is to be removed).   *)
(***************************************************************************)
EXTENDS Naturals, FiniteSets

CONSTANTS
    MaxIterations,   \* MAX_QA_ITERATIONS, MAX_RESEARCH_ITERATIONS
    MaxFaults        \* bound: failed steps, errors, aborts and crashes

\* Steps names the phases of at most three iterations.
ASSUME MaxIterationsAssumption == MaxIterations \in 1..3

VARIABLES
    workflow,  \* the workflow the run belongs to
    run,       \* runs.status
    owner,     \* its owner row: "none", or of a "live" or a "dead" process
    step,      \* step[s]: step_runs.status; "fatal" is failed, not retryable
    out,       \* out[s]: what the artifact of a completed step says
    input,     \* the run's input artifact: iteration, feedback, file version
    files,     \* file versions of it on disk
    pc,
    mem,       \* the coordinator's local variables
    aborted,   \* the request's abort signal has fired
    faults

runVars == <<workflow, run, owner, step, out, input, files, pc, mem, aborted, faults>>

Steps ==
    {"research", "research-review", "scope", "validate-todo", "prepare", "plan",
     "build", "qa", "fix", "qa-2", "qa-3", "fix-1", "fix-2"}

\* workflow.steps, in order
StepsOf(w) ==
    CASE w = "research-plan-build" -> {"research", "research-review", "plan", "build"}
      [] w = "todo-build-qa" -> {"validate-todo", "prepare", "build", "qa", "fix"}
      [] OTHER -> {"scope", "plan", "build", "qa", "fix"}

\* dependsOn
DependsOn(w, s) ==
    CASE s = "research-review" -> {"research"}
      [] s = "plan" -> {IF w = "research-plan-build" THEN "research-review" ELSE "scope"}
      [] s = "prepare" -> {"validate-todo"}
      [] s = "build" -> IF w = "todo-build-qa" THEN {"validate-todo", "prepare"} ELSE {"plan"}
      [] s = "qa" -> {"build"}
      [] s = "fix" -> {"qa"}
      [] OTHER -> {}

\* What the parsed artifact of a step may say.
Answers(s) ==
    CASE s = "research-review" -> {"sufficient", "more"}
      [] s \in {"scope", "plan"} -> {"go", "stop"}
      [] s = "validate-todo" -> {"ready", "prepare", "blocked"}
      [] s \in {"qa", "qa-2", "qa-3"} -> {"pass", "block"}
      [] OTHER -> {"done"}

Idle == [cur |-> "none", after |-> "idle", iter |-> 0, feedback |-> "none",
         occ |-> <<>>, verdict |-> "none", caught |-> TRUE]

-----------------------------------------------------------------------------
(* The run and its owner *)

Goto(label) == pc' = label

\* The operation is over: what it held in memory is gone.
Leave == /\ pc' = "idle" /\ mem' = Idle /\ aborted' = FALSE

\* saveRunStatus at the end of an execution
SaveRunStatus(status) ==
    /\ run' = status /\ owner' = "none"
    /\ UNCHANGED <<workflow, step, out, input, files, faults>>
    /\ Leave

\* A claim of the run: it runs again, owned by the process at hand.
Claim(statuses) ==
    /\ pc = "idle" /\ run \in statuses
    /\ run' = "running" /\ owner' = "live"

\* Statuses isStepRetryEligible accepts on a resume; "absent" has no row yet.
Eligible == {"absent", "pending", "interrupted", "skipped", "failed"}

\* retryableWorkflowStepIds is not empty, or workflowStepsCompleted
Resumable ==
    \/ \E s \in StepsOf(workflow) :
         /\ step[s] \in Eligible
         /\ \A d \in DependsOn(workflow, s) :
               step[d] \notin {"failed", "fatal", "cancelled", "interrupted", "skipped"}
    \/ \A s \in StepsOf(workflow) : step[s] = "completed"

\* resumeWorkflow's checks; two of the workflows skip the one on the steps.
MayResume ==
    /\ input.iter < MaxIterations
    /\ \/ workflow \in {"plan-build-qa", "todo-build-qa"}
       \/ run = "pending"
       \/ Resumable

Resume(first) ==
    /\ Claim({"pending", "failed", "interrupted"}) /\ MayResume
    /\ pc' = first
    /\ mem' = [Idle EXCEPT !.iter = input.iter, !.feedback = input.feedback]
    /\ UNCHANGED <<workflow, step, out, input, files, aborted, faults>>

-----------------------------------------------------------------------------
(* Steps *)

Drive(s, after) ==
    /\ step' = [step EXCEPT ![s] = "running"]
    /\ Goto("drive")
    /\ mem' = [mem EXCEPT !.cur = s, !.after = after]
    /\ UNCHANGED <<workflow, run, owner, out, input, files, aborted, faults>>

\* Mutant: the row of the step is not looked at.
Phase_Always(label, s, after) ==
    /\ pc = label
    /\ Drive(s, after)

\* runStep: a completed step is reused, one that may not be retried fails
\* again, every other one is driven.
Phase(label, s, after) ==
    /\ pc = label
    /\ \/ /\ step[s] = "completed"
          /\ Goto(after)
          /\ UNCHANGED <<workflow, run, owner, step, out, input, files, mem, aborted, faults>>
       \/ /\ step[s] \in Eligible
          /\ Drive(s, after)
       \/ /\ step[s] \notin Eligible \cup {"completed"}
          /\ Goto("failed")
          /\ mem' = [mem EXCEPT !.cur = s]
          /\ UNCHANGED <<workflow, run, owner, step, out, input, files, aborted, faults>>

\* executeStep returned: the result and its artifacts are one transaction.
Return ==
    /\ pc = "drive"
    /\ step' = [step EXCEPT ![mem.cur] = "completed"]
    /\ \E a \in Answers(mem.cur) : out' = [out EXCEPT ![mem.cur] = a]
    /\ Goto(mem.after)
    /\ UNCHANGED <<workflow, run, owner, input, files, mem, aborted, faults>>

\* recordFailure
Fail ==
    /\ pc = "drive" /\ faults < MaxFaults
    /\ faults' = faults + 1
    /\ \E status \in IF aborted THEN {"cancelled"} ELSE {"failed", "fatal"} :
         step' = [step EXCEPT ![mem.cur] = status]
    /\ Goto("failed")
    /\ UNCHANGED <<workflow, run, owner, out, input, files, mem, aborted>>

\* skipStep on each of these steps: skipped and cancelled rows stay.
Skipped(skip) ==
    [s \in Steps |-> IF s \in skip /\ step[s] # "cancelled" THEN "skipped" ELSE step[s]]

\* The status the catch clauses give a run whose step mem.cur failed.
FailureStatus == IF step[mem.cur] = "cancelled" THEN "cancelled" ELSE "failed"

-----------------------------------------------------------------------------
(* The input artifact, which carries the iteration across a crash *)

\* artifactStore.write: the new file is there before its row.
WriteInput(iter, feedback) ==
    /\ files' = files \cup {input.ver + 1}
    /\ Goto("input")
    /\ mem' = [mem EXCEPT !.iter = iter, !.feedback = feedback]
    /\ UNCHANGED <<workflow, run, owner, step, out, input, aborted, faults>>

\* The transaction that replaces the row.
CommitInput ==
    /\ pc = "input"
    /\ input' = [iter |-> mem.iter, feedback |-> mem.feedback, ver |-> input.ver + 1]

\* The file of the replaced row is removed; a failure to do so is ignored.
CleanInput(after) ==
    /\ pc = "clean"
    /\ files' \in {files, files \ {input.ver - 1}}
    /\ Goto(after)
    /\ UNCHANGED <<workflow, run, owner, step, out, input, mem, aborted, faults>>

-----------------------------------------------------------------------------
(* Errors, signals, crashes *)

Abort ==
    /\ pc # "idle" /\ ~aborted /\ faults < MaxFaults
    /\ aborted' = TRUE /\ faults' = faults + 1
    /\ UNCHANGED <<workflow, run, owner, step, out, input, files, pc, mem>>

Interrupted == [s \in Steps |-> IF step[s] = "running" THEN "interrupted" ELSE step[s]]

\* A transaction, a file or the event sink fails.  executeClaimedWorkflow and
\* the catch clauses of the review operations release the run and mark it
\* interrupted; an error after continueReview returned the coordinator's
\* promise without awaiting it passes them by.
Throw ==
    /\ pc # "idle" /\ faults < MaxFaults
    /\ faults' = faults + 1
    /\ IF mem.caught
       THEN run' = "interrupted" /\ owner' = "none" /\ step' = Interrupted
       ELSE UNCHANGED <<run, owner, step>>
    /\ Leave
    /\ UNCHANGED <<workflow, out, input, files>>

\* The process dies and another one opens the database later.
Crash ==
    /\ owner = "live" /\ faults < MaxFaults
    /\ faults' = faults + 1
    /\ owner' = "dead"
    /\ Leave
    /\ UNCHANGED <<workflow, run, step, out, input, files>>

\* markRunInterrupted, which refuses while the owner lives.
MarkInterrupted ==
    /\ pc = "idle" /\ run = "running" /\ owner # "live"
    /\ run' = "interrupted" /\ owner' = "none" /\ step' = Interrupted
    /\ UNCHANGED <<workflow, out, input, files, pc, mem, aborted, faults>>
=============================================================================
