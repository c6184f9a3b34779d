------------------------------ MODULE RunStore ------------------------------
(***************************************************************************)
(* The durable side of one workflow run: its row in `runs`, its row in     *)
(* `run_execution_owners`, its rows in `step_runs` and `step_attempts`     *)
(* (src/src/storage/sqlite-run-store.ts), and the processes that open the  *)
(* database.  Each operator below is one SQLite transaction: its guard is  *)
(* what the transaction checks before it commits, its primed variables are *)
(* what it writes.  A transaction whose guard is false rejects, and leaves *)
(* the database as it was.                                                 *)
(*                                                                         *)
(* A process is one life of one operating-system process with one store   *)
(* instance, so it stands for `ownerId`, and `process.pid` together with   *)
(* PROCESS_STARTED_AT.  A restart is another element of Procs, which may   *)
(* have been given the process id of a dead one.                           *)
(***************************************************************************)
EXTENDS Naturals, FiniteSets

CONSTANTS
    Procs,        \* process lives
    Pids,         \* process ids the operating system hands out
    Steps,        \* step ids of the workflow
    MaxAttempt,   \* bound: attempts of one step that the model follows
    NoOwner       \* no row in run_execution_owners

ASSUME NoOwnerAssumption == NoOwner \notin Procs

VARIABLES
    proc,       \* proc[p]: "unborn", "up" or "dead"
    pid,        \* pid[p]: the process id p has when it is up
    run,        \* runs.status, or "absent" before the row is inserted
    owner,      \* run_execution_owners.owner_id, or NoOwner
    step,       \* step[s]: the step_runs row of s
    attempts,   \* attempts[s][n]: step_attempts.status of attempt n of s
    claim       \* claim[p]: p's store holds an execution claim token

storeVars == <<proc, pid, run, owner, step, attempts, claim>>

RunStatus == {"running", "completed", "failed", "cancelled", "interrupted"}

StepStatus ==
    {"pending", "running", "completed", "failed", "cancelled",
     "interrupted", "skipped"}

\* Statuses no later write may touch in an attempt row that a driver ran.
SettledStatus == {"completed", "failed", "cancelled", "interrupted"}

StepRun ==
    [status : StepStatus \cup {"absent"}, attempt : Nat,
     retryable : BOOLEAN, stop : BOOLEAN]

NoStep ==
    [status |-> "absent", attempt |-> 0, retryable |-> FALSE, stop |-> FALSE]

NewStep(status, attempt) == [NoStep EXCEPT !.status = status, !.attempt = attempt]

\* stepTransitions, without the "waiting" status of the approval gate.
StepTransitions(from) ==
    CASE from = "absent"      -> StepStatus
      [] from = "pending"     -> StepStatus \ {"failed", "interrupted"}
      [] from = "running"     -> {"running"} \cup SettledStatus
      [] from = "completed"   -> {"completed"}
      [] from = "cancelled"   -> {"cancelled"}
      [] from \in {"failed", "interrupted", "skipped"} -> {from, "pending"}

StoreTypeOK ==
    /\ proc \in [Procs -> {"unborn", "up", "dead"}]
    /\ pid \in [Procs -> Pids]
    /\ run \in RunStatus \cup {"absent"}
    /\ owner \in Procs \cup {NoOwner}
    /\ step \in [Steps -> StepRun]
    /\ attempts \in [Steps -> [1..MaxAttempt -> StepStatus \cup {"absent"}]]
    /\ claim \in [Procs -> BOOLEAN]

StoreInit ==
    /\ proc = [p \in Procs |-> "unborn"]
    /\ pid \in [Procs -> Pids]
    /\ run = "absent"
    /\ owner = NoOwner
    /\ step = [s \in Steps |-> NoStep]
    /\ attempts = [s \in Steps |-> [n \in 1..MaxAttempt |-> "absent"]]
    /\ claim = [p \in Procs |-> FALSE]

-----------------------------------------------------------------------------
(* Ownership *)

\* Mutant: only a process's own owner rows count as live.
LiveOwner_OwnOnly(q) == owner = q

\* isLiveOwner, as process q evaluates it: signal 0 reaches some process with
\* the owner's pid, and q does not recognise that pid as its own, reused.
LiveOwner(q) ==
    /\ owner # NoOwner
    /\ \E x \in Procs : proc[x] = "up" /\ pid[x] = pid[owner]
    /\ pid[q] = pid[owner] => q = owner

\* acquireExecutionOwner succeeds for q.
CanAcquire(q) == owner = q \/ ~LiveOwner(q)

-----------------------------------------------------------------------------
(* Transactions *)

\* createRun with status running
CreateRun(q) ==
    /\ run = "absent"
    /\ CanAcquire(q)
    /\ run' = "running"
    /\ owner' = q
    /\ UNCHANGED <<step, attempts, claim>>

\* The statuses resumeWorkflow claims from that a run can have here.
Claimable == {"failed", "interrupted"}

\* claimRunForExecution: the UPDATE ... WHERE status IN, then the owner row.
ClaimRun(q) ==
    /\ run \in Claimable
    /\ CanAcquire(q)
    /\ run' = "running"
    /\ owner' = q
    /\ claim' = [claim EXCEPT ![q] = TRUE]
    /\ UNCHANGED <<step, attempts>>

\* Mutant: the owner row stays when the run stops running.
SaveRun_KeepOwner(q, status) ==
    /\ run = "running"
    /\ owner = q
    /\ run' = status
    /\ claim' = [claim EXCEPT ![q] = FALSE]
    /\ UNCHANGED <<owner, step, attempts>>

\* saveRun from the expected status running to a final or failed one
SaveRun(q, status) ==
    /\ run = "running"
    /\ owner = q
    /\ run' = status
    /\ owner' = NoOwner
    /\ claim' = [claim EXCEPT ![q] = FALSE]
    /\ UNCHANGED <<step, attempts>>

\* writeStepRun: the step row, and the attempt row unless it is a plain pending
WriteStepRun(s, r) ==
    /\ r.status \in StepTransitions(step[s].status)
    /\ step' = [step EXCEPT ![s] = r]
    /\ attempts' = IF r.status = "pending"
                   THEN attempts
                   ELSE [attempts EXCEPT ![s][r.attempt] = r.status]

\* saveStepRun and completeStep
SaveStepRun(q, s, r) ==
    /\ run = "running"
    /\ owner = q
    /\ WriteStepRun(s, r)
    /\ UNCHANGED <<run, owner, claim>>

\* Mutant: the step is parked in the status of the approval gate.
Interrupted_Waiting(status) == IF status = "running" THEN "waiting" ELSE status

Interrupted(status) == IF status = "running" THEN "interrupted" ELSE status

\* markRunInterrupted
InterruptRun(q) ==
    /\ run = "running"
    /\ ~LiveOwner(q)
    /\ run' = "interrupted"
    /\ owner' = NoOwner
    /\ step' = [s \in Steps |->
                  [step[s] EXCEPT !.status = Interrupted(step[s].status)]]
    /\ attempts' = [s \in Steps |->
                      [n \in 1..MaxAttempt |-> Interrupted(attempts[s][n])]]
    /\ claim' = [claim EXCEPT ![q] = FALSE]

\* Mutant: the DELETE without its AND owner_id = ?.
ReleaseExecution_Any(q) ==
    /\ owner' = NoOwner
    /\ claim' = [claim EXCEPT ![q] = FALSE]
    /\ UNCHANGED <<run, step, attempts>>

\* releaseExecution: only the caller's own owner row goes away.
ReleaseExecution(q) ==
    /\ owner' = IF owner = q THEN NoOwner ELSE owner
    /\ claim' = [claim EXCEPT ![q] = FALSE]
    /\ UNCHANGED <<run, step, attempts>>
=============================================================================
