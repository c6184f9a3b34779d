--------------------------- MODULE GuidedExecution ---------------------------
(***************************************************************************)
(* One guided execution: the handoff is on record, and its phases are      *)
(* carried out on a Git workspace (guided-execution-operations.ts,         *)
(* guided-execution-coordinator.ts, workspace/git-workspace.ts and the     *)
(* guided part of sqlite-run-store.ts, under src/src/).                    *)
(*                                                                         *)
(* Tasks are numbered through all phases.  The content of a file is the    *)
(* number of the task that wrote it last, 0 for the original, HandWork for *)
(* a person's.  A commit is the phase it is labelled with, NoPhase for a   *)
(* commit of anybody else, its tree, and the files that others staged for  *)
(* it after the last inspection; its parent is the one before it.          *)
(* Calls of the execution host are start (which also replays a start),     *)
(* resume and cancelWaiting; the first two share the slot of the host      *)
(* (module ExecutionHost), the last is an admitted query.  Every action is *)
(* what one call does between two awaits, or a transaction.                *)
(***************************************************************************)
EXTENDS Integers, Sequences, FiniteSets

CONSTANTS
    Files,
    PhaseOf,    \* PhaseOf[t]: the phase of task t; tasks are 1..Len(PhaseOf)
    Scope,      \* Scope[t]: the files task t declares
    Calls,      \* places for calls in progress
    MaxCalls,   \* bound: calls ever made
    MaxFaults   \* bound: ends of the process, aborts, uncaught failures, files staged by
                \* agents and hooks, changes made by commands and by others than the
                \* program, together

Tasks == DOMAIN PhaseOf
Phases == {PhaseOf[t] : t \in Tasks}
NoPhase == 0
NoTask == 0
HandWork == -1
Orphan == -1
Files0 == [f \in Files |-> 0]

\* What a plan is: phases in order, of files of the workspace.
PlanAssumption ==
    /\ PhaseOf \in Seq(Nat)
    /\ \E n \in 0..Len(PhaseOf) : Phases = 1..n
    /\ \A t, u \in Tasks : t < u => PhaseOf[t] <= PhaseOf[u]
    /\ \A t \in Tasks : Scope[t] \subseteq Files

\* The places are numbered, and 0 and Orphan are none of them.
CallsAssumption == Calls \subseteq Nat \ {0} /\ {MaxCalls, MaxFaults} \subseteq Nat

ASSUME Assumptions == PlanAssumption /\ CallsAssumption

VARIABLES
    run,        \* status of the row in runs
    progress,   \* progress_json of the execution, and the rows written with it
    intent,     \* commit_intent_json of each phase
    step,       \* step[t][n]: step row of attempt n of task t
    log,        \* the commits on the branch
    index, worktree,
    unseen,     \* files staged by anybody else since the last inspection that passed
    lock,       \* workspace lock: a call, 0, or Orphan: left by a dead process
    claim,      \* execution owner and token: a call, or 0
    calls,
    failed,     \* internalFailure of the host
    used        \* how much of each bound is used up

durable == <<run, progress, intent, step>>
git == <<log, index, worktree, unseen>>
vars == <<durable, git, lock, claim, calls, failed, used>>

MaxAttempt == MaxCalls + 1
Contents == {HandWork, 0} \cup Tasks
Tree == [Files -> Contents]
Decisions == {"approve-changes", "retry-task", "continue", "cancel"}
BlockTypes == {"agent-blocked", "workspace-changed", "verification-failed",
               "commit-unconfirmed", "change-set-invalid"}
NoBlock == [type |-> "none"]
NoProgress == [status |-> "none"]
NoIntent == [parent |-> 0]
Free == [op |-> "none", at |-> "free", seen |-> NoProgress, local |-> NoProgress,
         decision |-> "none", then |-> "free", start |-> 0, tree |-> Files0, sha |-> 0,
         aborted |-> FALSE]

Progress ==
    [status : {"pending", "running", "waiting", "completed", "cancelled"},
     stage : {"execution", "changes-review"},
     revision : Nat,
     block : {NoBlock} \cup [type : BlockTypes, task : Tasks \cup {NoTask}, files : SUBSET Files],
     task : [Tasks -> {"pending", "running", "waiting", "completed"}],
     attempt : [Tasks -> 1..MaxAttempt],
     commit : [Phases -> Nat],
     changeSet : BOOLEAN]

\* Where a call is: in the service, in the runner, in the coordinator.
Service == {"lock", "claim", "decide", "admit"}
Runner == {"run", "take"}
Coordinator == {"phase", "task", "step", "agent", "inspect", "verify", "reinspect", "checkpoint",
                "settle", "gate", "stage", "intent", "commit", "confirm", "complete", "review"}
Points == Service \cup Runner \cup Coordinator \cup {"free", "release", "unlock"}

TypeOK ==
    /\ run \in {"pending", "running", "waiting", "completed", "cancelled", "interrupted"}
    /\ progress \in Progress
    /\ intent \in [Phases -> {NoIntent} \cup [parent : 1..Len(log), tree : Tree]]
    /\ step \in [Tasks -> [1..MaxAttempt ->
                  {"absent", "running", "completed", "failed", "cancelled", "interrupted"}]]
    /\ log \in Seq([phase : Phases \cup {NoPhase}, tree : Tree, late : SUBSET Files])
    /\ index \in Tree /\ worktree \in Tree /\ unseen \subseteq Files
    /\ lock \in Calls \cup {0, Orphan}
    /\ claim \in Calls \cup {0}
    /\ calls \in [Calls ->
         [op : {"none", "start", "resume", "cancel"}, at : Points,
          seen : Progress \cup {NoProgress}, local : Progress \cup {NoProgress},
          decision : Decisions \cup {"none"}, then : {"free", "admit"}, start : 0..Len(log),
          tree : Tree, sha : 0..Len(log), aborted : BOOLEAN]]
    /\ failed \in BOOLEAN
    /\ used \in [calls : 0..MaxCalls, faults : 0..MaxFaults]

\* createGuidedExecution committed, on a clean workspace (previewStart).
Init ==
    /\ run = "pending"
    /\ progress = [status |-> "pending", stage |-> "execution", revision |-> 1, block |-> NoBlock,
                   task |-> [t \in Tasks |-> "pending"], attempt |-> [t \in Tasks |-> 1],
                   commit |-> [p \in Phases |-> 0], changeSet |-> FALSE]
    /\ intent = [p \in Phases |-> NoIntent]
    /\ step = [t \in Tasks |-> [n \in 1..MaxAttempt |-> "absent"]]
    /\ log = <<[phase |-> NoPhase, tree |-> Files0, late |-> {}]>>
    /\ index = Files0 /\ worktree = Files0 /\ unseen = {}
    /\ lock = 0 /\ claim = 0
    /\ calls = [c \in Calls |-> Free]
    /\ failed = FALSE
    /\ used = [calls |-> 0, faults |-> 0]

At(c, point) == calls[c].at = point
Go(c, point) == calls' = [calls EXCEPT ![c].at = point]
InProgress(c) == ~At(c, "free")
SlotTaken == \E c \in Calls : calls[c].op \in {"start", "resume"}
Ends(c, then) == calls' = [calls EXCEPT ![c] = IF then = "free" THEN Free ELSE [@ EXCEPT !.at = then]]
Fault == used.faults < MaxFaults /\ used' = [used EXCEPT !.faults = @ + 1]

-----------------------------------------------------------------------------
(* Calls of the client *)

Begin(c, call) ==
    /\ At(c, "free") /\ \A d \in Calls : At(d, "free") => c <= d
    /\ used.calls < MaxCalls
    /\ used' = [used EXCEPT !.calls = @ + 1]
    /\ calls' = [calls EXCEPT ![c] = call]
    /\ UNCHANGED <<durable, git, lock, claim, failed>>

\* The request is on record already: start answers with its execution.
Start(c) ==
    /\ ~failed /\ ~SlotTaken
    /\ Begin(c, [Free EXCEPT !.op = "start", !.at = "admit"])

AllowedDecisions(p) ==
    IF p.status # "waiting" THEN {}
    ELSE IF p.stage = "changes-review" THEN {"approve-changes", "cancel"}
    ELSE {"retry-task", "continue", "cancel"}

Resuming(op, decision) ==
    [Free EXCEPT !.op = op, !.at = "lock", !.seen = progress, !.decision = decision]

\* previewResume agrees with the preview the client has decided on.
Resume(c) ==
    /\ ~failed /\ ~SlotTaken
    /\ \E d \in AllowedDecisions(progress) : Begin(c, Resuming("resume", d))

CancelWaiting(c) ==
    /\ ~SlotTaken
    /\ "cancel" \in AllowedDecisions(progress)
    /\ Begin(c, Resuming("cancel", "cancel"))

\* cancel and close abort the signal of the call in the slot
Abort(c) ==
    /\ calls[c].op \in {"start", "resume"} /\ ~calls[c].aborted
    /\ Fault
    /\ calls' = [calls EXCEPT ![c].aborted = TRUE]
    /\ UNCHANGED <<durable, git, lock, claim, failed>>

\* executeGuided: the receipt is given, or refused to an aborted call.
Admit(c) ==
    /\ At(c, "admit")
    /\ Ends(c, IF calls[c].aborted THEN "free" ELSE "run")
    /\ UNCHANGED <<durable, git, lock, claim, failed, used>>

-----------------------------------------------------------------------------
(* Lease and claim *)

\* Mutant: mkdir with recursive: true, which does not fail on an existing directory.
LockFree_Always == TRUE

LockFree == lock = 0

Acquire(c) ==
    /\ calls[c].at \in {"lock", "run"}
    /\ LockFree
    /\ lock' = c
    /\ Go(c, IF At(c, "lock") THEN "claim" ELSE "take")
    /\ UNCHANGED <<durable, git, claim, failed, used>>

\* WorkspaceExecutionBusyError: a resume is rejected, a runner breaks the host.
Busy(c) ==
    /\ calls[c].at \in {"lock", "run"}
    /\ ~LockFree
    /\ failed' = (failed \/ At(c, "run"))
    /\ Ends(c, "free")
    /\ UNCHANGED <<durable, git, lock, claim, used>>

\* Mutant: the status is not compared.
Claim_Any(c, eligible) ==
    /\ run' = "running"
    /\ claim' = c

\* claimGuidedExecution: the status is compared and the row set to running.
Claim(c, eligible) ==
    /\ run \in eligible
    /\ run' = "running"
    /\ claim' = c

ClaimWaiting(c) ==
    /\ At(c, "claim")
    /\ Claim(c, {"waiting"})
    /\ Go(c, "decide")
    /\ UNCHANGED <<progress, intent, step, git, lock, failed, used>>

ClaimRefused(c) ==
    /\ At(c, "claim") /\ run # "waiting"
    /\ Go(c, "unlock")
    /\ UNCHANGED <<durable, git, lock, claim, failed, used>>

\* Mutant: retry-task starts the phase of the blocked task again.
Retried_Phase(p, t) ==
    p.block # NoBlock /\ p.block.task # NoTask /\ PhaseOf[t] = PhaseOf[p.block.task]

Retried(p, t) == p.block # NoBlock /\ p.block.task = t

\* applyResumeDecision; continue, retry-verification and reconcile-commit are alike
Decided(p, d) ==
    LET next == [p EXCEPT !.revision = @ + 1] IN
    CASE d = "approve-changes" -> [next EXCEPT !.status = "completed"]
      [] d = "cancel" -> [next EXCEPT !.status = "cancelled"]
      [] d = "continue" -> [next EXCEPT !.status = "running", !.block = NoBlock]
      [] d = "retry-task" ->
           [next EXCEPT !.status = "running", !.block = NoBlock,
              !.task = [t \in Tasks |-> IF Retried(p, t) THEN "pending" ELSE p.task[t]],
              !.attempt = [t \in Tasks |-> p.attempt[t] + IF Retried(p, t) THEN 1 ELSE 0]]

\* Mutant: the execution is not read again after the claim.
Unchanged_Assumed(c) == progress.status = "waiting"

Unchanged(c) == progress.revision = calls[c].seen.revision /\ progress.status = "waiting"

Decide(c) ==
    /\ At(c, "decide")
    /\ Unchanged(c)
    /\ progress' = Decided(progress, calls[c].decision)
    /\ run' = progress'.status
    /\ calls' = [calls EXCEPT ![c].at = "release", ![c].seen = NoProgress,
                              ![c].then = IF @ = "free" /\ calls[c].op = "resume" THEN "admit" ELSE @]
    /\ UNCHANGED <<intent, step, git, lock, claim, failed, used>>

\* "Guided execution changed during recovery": the row stays as claimed.
DecideRefused(c) ==
    /\ At(c, "decide")
    /\ ~Unchanged(c)
    /\ Go(c, "release")
    /\ UNCHANGED <<durable, git, lock, claim, failed, used>>

Take(c) ==
    /\ At(c, "take")
    /\ progress.status \notin {"completed", "cancelled"}
    /\ Claim(c, {"pending", "running"})
    /\ calls' = [calls EXCEPT ![c].at = "phase", ![c].local = progress, ![c].then = "free"]
    /\ UNCHANGED <<progress, intent, step, git, lock, failed, used>>

NothingToTake(c) ==
    /\ At(c, "take")
    /\ progress.status \in {"completed", "cancelled"}
    /\ calls' = [calls EXCEPT ![c].at = "unlock", ![c].then = "free"]
    /\ UNCHANGED <<durable, git, lock, claim, failed, used>>

\* "already owned or not executable" reaches the host after the receipt.
TakeRefused(c) ==
    /\ At(c, "take")
    /\ progress.status \notin {"completed", "cancelled"}
    /\ run \notin {"pending", "running"}
    /\ failed' = TRUE
    /\ calls' = [calls EXCEPT ![c].at = "unlock", ![c].then = "free"]
    /\ UNCHANGED <<durable, git, lock, claim, used>>

Release(c) ==
    /\ At(c, "release")
    /\ claim = c
    /\ claim' = 0
    /\ Go(c, "unlock")
    /\ UNCHANGED <<durable, git, lock, failed, used>>

Unlock(c) ==
    /\ At(c, "unlock")
    /\ lock = c
    /\ lock' = 0
    /\ Ends(c, calls[c].then)
    /\ UNCHANGED <<durable, git, claim, failed, used>>

-----------------------------------------------------------------------------
(* The coordinator *)

HeadTree == log[Len(log)].tree
Changed == {f \in Files : worktree[f] # HeadTree[f] \/ index[f] # HeadTree[f]}
PhaseScope(p) == UNION {Scope[t] : t \in {u \in Tasks : PhaseOf[u] = p}}
Least(S) == CHOOSE x \in S : \A y \in S : x <= y

\* The phase and the task the loops of execute stand at.
OpenPhases(c) == {p \in Phases : calls[c].local.commit[p] = 0}
Phase(c) == Least(OpenPhases(c))
OpenTasks(c) == {t \in Tasks : PhaseOf[t] = Phase(c) /\ calls[c].local.task[t] # "completed"}
Task(c) == Least(OpenTasks(c))
Attempt(c) == calls[c].local.attempt[Task(c)]
StepRow(c) == step[Task(c)][Attempt(c)]

\* A transaction under the claim: what is stored is what the caller passes.
Store(c, next, point) ==
    /\ claim = c
    /\ progress' = next
    /\ run' = IF next.status = progress.status THEN run ELSE next.status
    /\ calls' = [calls EXCEPT ![c].local = next, ![c].at = point]

\* saveProgress: a copy of another revision is stored under that revision.
Save(c, next, point) ==
    Store(c, IF next.revision = progress.revision THEN [next EXCEPT !.revision = @ + 1] ELSE next, point)

\* block: the task it is about, if any, waits with the execution
Block(c, type, task, files) ==
    Save(c, [calls[c].local EXCEPT
               !.status = "waiting",
               !.block = [type |-> type, task |-> task, files |-> files],
               !.task = [t \in Tasks |-> IF t = task THEN "waiting" ELSE @[t]]],
         "release")

OpenPhase(c) ==
    /\ At(c, "phase")
    /\ IF OpenPhases(c) = {} THEN Go(c, "review")
       ELSE calls' = [calls EXCEPT ![c].at = "task", ![c].start = Len(log)]
    /\ UNCHANGED <<durable, git, lock, claim, failed, used>>

BeginTask(c) ==
    /\ At(c, "task") /\ OpenTasks(c) # {}
    /\ ~calls[c].aborted
    /\ Save(c, [calls[c].local EXCEPT !.status = "running", !.task[Task(c)] = "running"], "step")
    /\ UNCHANGED <<intent, step, git, lock, claim, failed, used>>

FinishCancelled(c) ==
    /\ At(c, "task") /\ OpenTasks(c) # {}
    /\ calls[c].aborted
    /\ Save(c, [calls[c].local EXCEPT !.status = "cancelled"], "release")
    /\ UNCHANGED <<intent, step, git, lock, claim, failed, used>>

TasksDone(c) ==
    /\ At(c, "task") /\ OpenTasks(c) = {}
    /\ Go(c, "gate")
    /\ UNCHANGED <<durable, git, lock, claim, failed, used>>

SetStep(c, status) == step' = [step EXCEPT ![Task(c)][Attempt(c)] = status]

\* executeStep: prepareStep and the rows up to "running"
StartStep(c) ==
    /\ At(c, "step")
    /\ StepRow(c) \notin {"completed", "cancelled"}
    /\ SetStep(c, "running")
    /\ Go(c, "agent")
    /\ UNCHANGED <<run, progress, intent, git, lock, claim, failed, used>>

\* prepareStep: a completed or cancelled row has no transition to pending.
StepRefused(c) ==
    /\ At(c, "step")
    /\ StepRow(c) \in {"completed", "cancelled"}
    /\ Block(c, "agent-blocked", Task(c), {})
    /\ UNCHANGED <<intent, step, git, lock, claim, failed, used>>

AgentDone(c) ==
    /\ At(c, "agent")
    /\ SetStep(c, "completed")
    /\ Go(c, "inspect")
    /\ UNCHANGED <<run, progress, intent, git, lock, claim, failed, used>>

\* The result says blocked, or is missing or malformed: the step is completed.
AgentBlocked(c) ==
    /\ At(c, "agent")
    /\ SetStep(c, "completed")
    /\ Block(c, "agent-blocked", Task(c), {})
    /\ UNCHANGED <<intent, git, lock, claim, failed, used>>

AgentFails(c) ==
    /\ At(c, "agent")
    /\ SetStep(c, IF calls[c].aborted THEN "cancelled" ELSE "failed")
    /\ Block(c, "agent-blocked", Task(c), {})
    /\ UNCHANGED <<intent, git, lock, claim, failed, used>>

\* changedPathsForTask: what is staged or not, and not as in the last commit
OutOfScope(t) == Changed \ Scope[t]

InspectTask(c) ==
    /\ calls[c].at \in {"inspect", "reinspect"}
    /\ OutOfScope(Task(c)) = {}
    /\ Go(c, IF At(c, "inspect") THEN "verify" ELSE "checkpoint")
    /\ unseen' = {}
    /\ UNCHANGED <<durable, log, index, worktree, lock, claim, failed, used>>

WorkspaceChanged(c) ==
    /\ calls[c].at \in {"inspect", "reinspect"}
    /\ OutOfScope(Task(c)) # {}
    /\ Block(c, "workspace-changed", Task(c), OutOfScope(Task(c)))
    /\ UNCHANGED <<intent, step, git, lock, claim, failed, used>>

\* The commands of the task, and later those of its phase; aborted ones fail.
Verified(c) ==
    /\ calls[c].at \in {"verify", "gate"} /\ ~calls[c].aborted
    /\ Go(c, IF At(c, "verify") THEN "reinspect" ELSE "stage")
    /\ UNCHANGED <<durable, git, lock, claim, failed, used>>

VerificationFailed(c) ==
    /\ calls[c].at \in {"verify", "gate"}
    /\ Block(c, "verification-failed", IF At(c, "verify") THEN Task(c) ELSE NoTask, {})
    /\ UNCHANGED <<intent, step, git, lock, claim, failed, used>>

\* saveGuidedCheckpoint, and in another transaction the completed task
Checkpoint(c) ==
    /\ At(c, "checkpoint")
    /\ Store(c, [progress EXCEPT !.revision = @ + 1], "settle")
    /\ UNCHANGED <<intent, step, git, lock, claim, failed, used>>

CompleteTask(c) ==
    /\ At(c, "settle")
    /\ Save(c, [calls[c].local EXCEPT !.task[Task(c)] = "completed"], "task")
    /\ UNCHANGED <<intent, step, git, lock, claim, failed, used>>

\* Mutant: git add of everything that is changed.
Added_All(p) == Files

Added(p) == PhaseScope(p)

\* git add of the files of the phase; write-tree of the whole index, which is not
\* inspected again after the commands of the phase
StagePhase(c) ==
    /\ At(c, "stage")
    /\ index' = [f \in Files |-> IF f \in Added(Phase(c)) THEN worktree[f] ELSE index[f]]
    /\ calls' = [calls EXCEPT ![c].at = "intent", ![c].tree = index']
    /\ UNCHANGED <<durable, log, worktree, unseen, lock, claim, failed, used>>

SaveIntent(c) ==
    /\ At(c, "intent")
    /\ intent' = [intent EXCEPT ![Phase(c)] = [parent |-> calls[c].start, tree |-> calls[c].tree]]
    /\ Store(c, [progress EXCEPT !.revision = @ + 1], "commit")
    /\ UNCHANGED <<step, git, lock, claim, failed, used>>

\* commitPhase: the whole index, to which a hook of the repository may add a file;
\* git refuses a commit that changes nothing
Commit(c) ==
    /\ At(c, "commit")
    /\ index = calls[c].tree /\ index # HeadTree
    /\ \/ UNCHANGED <<index, used>>
       \/ Fault /\ \E f \in Files : index' = [index EXCEPT ![f] = worktree[f]]
    /\ log' = Append(log, [phase |-> Phase(c), tree |-> index',
                          late |-> unseen \cup {f \in Files : index'[f] # index[f]}])
    /\ unseen' = {}
    /\ calls' = [calls EXCEPT ![c].at = "confirm", ![c].sha = Len(log')]
    /\ UNCHANGED <<durable, worktree, lock, claim, failed>>

\* Mutant: only the tree of the commit is compared.
Confirmed_TreeOnly(c) == log[calls[c].sha].tree = calls[c].tree

\* inspectCommit against the intent
Confirmed(c) ==
    /\ calls[c].sha - 1 = calls[c].start
    /\ log[calls[c].sha].tree = calls[c].tree

Confirm(c) ==
    /\ At(c, "confirm")
    /\ Confirmed(c)
    /\ Go(c, "complete")
    /\ UNCHANGED <<durable, git, lock, claim, failed, used>>

CompletePhase(c) ==
    /\ At(c, "complete")
    /\ Store(c, [progress EXCEPT !.commit[Phase(c)] = calls[c].sha, !.revision = @ + 1], "phase")
    /\ UNCHANGED <<intent, step, git, lock, claim, failed, used>>

\* The commit does not match, or anything threw on the way from staging to here:
\* Git refused or failed, also after it committed, or the store did.
CommitUnconfirmed(c) ==
    /\ calls[c].at \in {"stage", "intent", "commit", "confirm", "complete"}
    /\ Block(c, "commit-unconfirmed", NoTask, {})
    /\ UNCHANGED <<intent, step, git, lock, claim, failed, used>>

BaseTree == log[1].tree

ReviewChanges(c) ==
    /\ At(c, "review")
    /\ Save(c, [calls[c].local EXCEPT !.status = "waiting", !.stage = "changes-review",
                  !.changeSet = @ \/ (Len(log) > 1 /\ HeadTree # BaseTree)], "release")
    /\ UNCHANGED <<intent, step, git, lock, claim, failed, used>>

ChangeSetInvalid(c) ==
    /\ At(c, "review")
    /\ ~calls[c].local.changeSet /\ Len(log) > 1
    /\ Block(c, "change-set-invalid", NoTask, {})
    /\ UNCHANGED <<intent, step, git, lock, claim, failed, used>>

\* Git, the artifact store or the database throws where nothing catches it:
\* claim and lease are given back and the host has failed.
Throws(c) ==
    /\ calls[c].at \in {"phase", "task", "inspect", "verify", "reinspect", "checkpoint", "settle", "review"}
    /\ Fault
    /\ failed' = TRUE
    /\ Go(c, "release")
    /\ UNCHANGED <<durable, git, lock, claim>>

-----------------------------------------------------------------------------
(* Agents, commands, people and the operating system *)

Author(c) == IF At(c, "gate") THEN Len(PhaseOf) ELSE Task(c)

\* A file is written, added with git add as it is, or both.
Touch(f, by) ==
    \E content \in {by, worktree[f]} :
        /\ worktree' = [worktree EXCEPT ![f] = content]
        /\ \/ UNCHANGED <<index, unseen>>
           \/ index' = [index EXCEPT ![f] = content] /\ unseen' = unseen \cup {f}

Write(c) ==
    /\ \E f \in Files : Touch(f, Author(c))
    /\ UNCHANGED <<durable, log, lock, claim, calls, failed>>

\* The agent writes any file, in its scope or not, and may stage it.
AgentWrites(c) ==
    /\ At(c, "agent") /\ Write(c)
    /\ UNCHANGED <<index, unseen, used>> \/ (Fault /\ index' # index)

\* A verification command that does not leave the workspace alone.
CommandWrites(c) == calls[c].at \in {"verify", "gate"} /\ Fault /\ Write(c)

ByHand ==
    /\ Fault
    /\ UNCHANGED <<durable, lock, claim, calls, failed>>

\* Somebody else, a person at any time or an agent, edits or stages, reverts or commits.
HandEdit ==
    /\ ByHand
    /\ \E f \in Files : Touch(f, HandWork)
    /\ UNCHANGED log

HandRevert ==
    /\ ByHand
    /\ Changed # {}
    /\ worktree' = HeadTree /\ index' = HeadTree /\ unseen' = {}
    /\ UNCHANGED log

HandCommit ==
    /\ ByHand
    /\ worktree # HeadTree
    /\ index' = worktree /\ unseen' = {}
    /\ log' = Append(log, [phase |-> NoPhase, tree |-> worktree, late |-> {}])
    /\ UNCHANGED worktree

\* The process ends: the lease stays, and its owner row is one of a dead process.
Crash ==
    /\ Fault
    /\ calls' = [c \in Calls |-> Free]
    /\ claim' = 0
    /\ lock' = IF lock = 0 THEN 0 ELSE Orphan
    /\ failed' = FALSE
    /\ UNCHANGED <<durable, git>>

\* A person removes the lease of a dead process; nothing in the program does.
ClearLock ==
    /\ lock = Orphan
    /\ lock' = 0
    /\ UNCHANGED <<durable, git, claim, calls, failed, used>>

\* The attention view of the TUI, which has the data directory for itself.
MarkInterrupted ==
    /\ \A c \in Calls : At(c, "free")
    /\ run = "running" /\ claim = 0
    /\ run' = "interrupted"
    /\ step' = [t \in Tasks |-> [n \in 1..MaxAttempt |->
                  IF step[t][n] = "running" THEN "interrupted" ELSE step[t][n]]]
    /\ UNCHANGED <<progress, intent, git, lock, claim, calls, failed, used>>

Client(c) == Start(c) \/ Resume(c) \/ CancelWaiting(c) \/ Abort(c) \/ Admit(c)

Recovery(c) ==
    \/ Acquire(c) \/ Busy(c) \/ ClaimWaiting(c) \/ ClaimRefused(c) \/ Decide(c) \/ DecideRefused(c)
    \/ Take(c) \/ NothingToTake(c) \/ TakeRefused(c) \/ Release(c) \/ Unlock(c)

DoTask(c) ==
    \/ OpenPhase(c) \/ BeginTask(c) \/ FinishCancelled(c) \/ TasksDone(c)
    \/ StartStep(c) \/ StepRefused(c) \/ AgentDone(c) \/ AgentBlocked(c) \/ AgentFails(c)
    \/ InspectTask(c) \/ WorkspaceChanged(c) \/ Verified(c) \/ VerificationFailed(c)
    \/ Checkpoint(c) \/ CompleteTask(c) \/ Throws(c)
    \/ AgentWrites(c) \/ CommandWrites(c)

DoPhase(c) ==
    \/ StagePhase(c) \/ SaveIntent(c) \/ Commit(c) \/ Confirm(c) \/ CompletePhase(c)
    \/ CommitUnconfirmed(c) \/ ReviewChanges(c) \/ ChangeSetInvalid(c)

Outside == HandEdit \/ HandRevert \/ HandCommit \/ Crash \/ ClearLock \/ MarkInterrupted

Next == (\E c \in Calls : Client(c) \/ Recovery(c) \/ DoTask(c) \/ DoPhase(c)) \/ Outside

Spec == Init /\ [][Next]_vars

-----------------------------------------------------------------------------
(* Properties *)

\* The run every list shows and the execution's own status differ only while a
\* recovery is decided, or after one that did not come to a decision, and never
\* about the end of the execution, unless it was marked interrupted.
RunAgrees ==
    run # progress.status =>
        run = "interrupted" \/ (run = "running" /\ progress.status \in {"pending", "waiting"})

\* States are well formed, and the two rows agree.
Inv == TypeOK /\ RunAgrees

Holds(c) == calls[c].at \in {"decide", "release"} \cup Coordinator

\* Whoever works on the workspace has lease and claim, hence is alone; and what
\* the coordinator remembers, and stores as a whole, is what is stored: no
\* decision and no result is overwritten by an older copy.
OneWriter ==
    \A c \in Calls :
        /\ Holds(c) => lock = c /\ claim = c
        /\ calls[c].at \in Coordinator => calls[c].local = progress

ChangedBy(n) == {f \in Files : log[n].tree[f] # log[n - 1].tree[f]}

\* A completed phase is one commit: labelled with it, made on the commit its
\* work began at and of the tree that was announced, after those of the phases
\* before, when all its tasks are done; of files it declares, and of no other that
\* was staged when a task was inspected, by its agent, its commands or anybody:
\* only what was staged after that gets in.  A review of the changes begins when
\* that holds of every phase.
CommitsAreThePhases ==
    /\ \A p \in Phases : progress.commit[p] # 0 =>
         LET n == progress.commit[p] IN
         /\ log[n].phase = p
         /\ intent[p] = [parent |-> n - 1, tree |-> log[n].tree]
         /\ ChangedBy(n) \subseteq PhaseScope(p) \cup log[n].late
         /\ \A q \in 1..(p - 1) : progress.commit[q] \in 1..(n - 1)
         /\ \A t \in Tasks : PhaseOf[t] = p => progress.task[t] = "completed"
    /\ progress.stage = "changes-review" => \A p \in Phases : progress.commit[p] # 0

\* A decision is taken on the state its client saw, block and attempt included,
\* whatever another call did in between.
DecisionOnWhatWasSeen ==
    [][\A c \in Calls : At(c, "decide") /\ progress' # progress => progress = calls[c].seen]_vars

\* What is done is done: no recovery, retry, crash or mark makes a completed
\* task or a committed phase, an approval or a cancellation undone.
DoneStaysDone ==
    [][/\ \A t \in Tasks : progress.task[t] = "completed" =>
            progress'.task[t] = "completed" /\ step'[t] = step[t]
       /\ \A p \in Phases : progress.commit[p] # 0 => progress'.commit[p] = progress.commit[p]
       /\ progress.status \in {"completed", "cancelled"} => progress' = progress /\ run' = run]_vars

\* A block that says "Agent changed files outside task scope" names a file that
\* was changed during that task (not one an earlier task of the phase declared,
\* wrote and had verified, which stays changed until the phase is committed).
WorkspaceBlockIsTrue ==
    progress.block # NoBlock /\ progress.block.type = "workspace-changed" =>
        \E f \in progress.block.files : worktree[f] \in {progress.block.task, HandWork}

-----------------------------------------------------------------------------
(* Instances *)

\* A phase of two tasks and a phase of one; every task has a file of its own.
ThreeTasks == <<1, 1, 2>>
OwnFiles == <<{"a"}, {"b"}, {"c"}>>
=============================================================================
