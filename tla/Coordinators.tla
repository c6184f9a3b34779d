---------------------------- MODULE Coordinators ----------------------------
(***************************************************************************)
(* One run of any of the four coordinated workflows, with the operations   *)
(* that start it, resume it and decide what it waits for.  The workflow is *)
(* chosen once; the variables of the coordinators that do not run it keep  *)
(* their initial values.                                                   *)
(***************************************************************************)
EXTENDS CoordinatedRun, Sequences, SequencesExt

CONSTANT Findings

\* A finding's thread is not one of the checkpoints'.
ASSUME FindingsAssumption == Findings \cap {"scope", "changes", "qa"} = {}

VARIABLES approval, rounds,                        \* ResearchLoop
          found, occ, events, final,               \* QaLoop
          thread, corrects, adjudicated, shadowed, reported  \* InteractiveReview

R == INSTANCE ResearchLoop
Q == INSTANCE QaLoop
I == INSTANCE InteractiveReview

researchVars == <<approval, rounds>>
qaVars == <<found, occ, events, final>>
reviewVars == <<thread, corrects, adjudicated, shadowed, reported>>

vars == <<runVars, researchVars, qaVars, reviewVars>>

Research == workflow = "research-plan-build"
Interactive == workflow = "plan-build-qa-interactive"
Qa == workflow \in {"plan-build-qa", "todo-build-qa"}

First(w) ==
    CASE w = "research-plan-build" -> "research"
      [] w = "plan-build-qa" -> "scope"
      [] w = "todo-build-qa" -> "validate-todo"
      [] w = "plan-build-qa-interactive" -> "advance"

Workflows ==
    {"research-plan-build", "plan-build-qa", "todo-build-qa", "plan-build-qa-interactive"}

\* A run that was just created, or one an approved preparation created: the
\* interactive workflow then has its scope and plan, and the scope is decided.
Init ==
    /\ workflow \in Workflows
    /\ \E prepared \in BOOLEAN :
         /\ prepared => Interactive
         /\ run = IF prepared THEN "pending" ELSE "running"
         /\ owner = IF prepared THEN "none" ELSE "live"
         /\ step = [s \in Steps |->
                      IF prepared /\ s \in {"scope", "plan"} THEN "completed" ELSE "absent"]
         /\ out = [s \in Steps |-> IF step[s] = "completed" THEN "go" ELSE "none"]
         /\ thread = [t \in I!Threads |->
                        IF prepared /\ t = "scope" THEN "decided" ELSE "absent"]
         /\ pc = IF prepared THEN "idle" ELSE First(workflow)
    /\ input = [iter |-> 0, feedback |-> "none", ver |-> 0]
    /\ files = {0}
    /\ mem = Idle /\ aborted = FALSE /\ faults = 0
    /\ approval = R!NoApproval /\ rounds = [done |-> 0, approved |-> 0]
    /\ found = [i \in 1..MaxIterations |-> {}]
    /\ occ = {} /\ events = {} /\ final = "none"
    /\ corrects = {} /\ adjudicated = {} /\ shadowed = {} /\ reported = {}

\* What a coordinator does of itself.
Work ==
    \/ Research /\ R!ResearchNext /\ UNCHANGED <<qaVars, reviewVars>>
    \/ Qa /\ Q!QaNext /\ UNCHANGED <<researchVars, reviewVars>>
    \/ Interactive /\ I!ReviewNext /\ UNCHANGED <<researchVars, qaVars>>

\* What a person or the operating system does.
Decide ==
    \/ Research /\ R!DecideApproval /\ UNCHANGED <<qaVars, reviewVars>>
    \/ Interactive /\ I!ReviewOperation /\ UNCHANGED <<researchVars, qaVars>>

Disturb ==
    /\ \/ Resume(First(workflow))
       \/ MarkInterrupted
       \/ Abort
       \/ Crash
       \/ Throw
       \/ Fail
    /\ UNCHANGED <<researchVars, qaVars, reviewVars>>

Next == Work \/ Decide \/ Disturb

Spec == Init /\ [][Next]_vars

\* Every driver call has the profile's timeout and every other await is local.
FairSpec == Spec /\ WF_vars(Work)

-----------------------------------------------------------------------------
(***************************************************************************)
(* What a client is shown of the run (getRunView in src/src/application/   *)
(* run-view.ts, getTaskOutcome in task-outcome.ts): its phases and the     *)
(* current one, the rounds of QA, and the actions it offers.  All of it is *)
(* computed from the rows and from the run's input artifact, by other code *)
(* than what accepts the action later.                                     *)
(***************************************************************************)

(* Reports and rounds *)

QaSteps == <<"qa", "qa-2", "qa-3">>
FixSteps == <<"fix-1", "fix-2">>
HasReport(s) == out[s] # "none"

\* qaRoundIds: the iterations with a report, and the last of them
Rounds == {i \in DOMAIN QaSteps : HasReport(QaSteps[i])}
LastReport == QaSteps[Max(Rounds)]

\* isBuilderPhase: the phases whose results the outcome declares
BuilderPhases == {s \in {"build", "fix-1", "fix-2"} : HasReport(s)}

Blocks == Rounds # {} /\ out[LastReport] = "block"

\* buildQaView: the phase of the last report, or the first one
QaPhaseId == IF Rounds = {} THEN "qa" ELSE LastReport
QaAction ==
    CASE run \in {"failed", "interrupted"} /\ Blocks -> "resume"
      [] run = "running" /\ Blocks -> "fix"
      [] OTHER -> "none"

-----------------------------------------------------------------------------
(* Phases *)

\* workflowPhaseDefinitions, as buildPhases lists them: the approval after its
\* step, and instead of the "fix" of the QA workflows the numbered rows.
Defined(w) ==
    CASE w = "research-plan-build" ->
           <<"research", "research-review", "research-approval", "plan", "build">>
      [] w = "todo-build-qa" ->
           <<"validate-todo", "prepare", "build", "qa", "fix-1", "qa-2", "fix-2", "qa-3">>
      [] w = "plan-build-qa" ->
           <<"scope", "plan", "build", "qa", "fix-1", "qa-2", "fix-2", "qa-3">>
      [] OTHER -> <<"scope", "plan", "build", "qa", "fix">>
Phases == Defined(workflow)

\* A numbered phase is shown once it has a row.
Numbered == {"fix-1", "qa-2", "fix-2", "qa-3"}
Shown(s) == s \in Numbered => step[s] # "absent"

StatusOf(s) ==
    LET row == IF s = "research-approval" THEN approval.status ELSE step[s]
    IN CASE row = "absent" -> "pending" [] row = "fatal" -> "failed" [] OTHER -> row

\* currentPhaseId looks for the first phase with one of these statuses, in turn.
Wanted == <<{"running"}, {"waiting"}, {"failed", "interrupted"}, {"pending"}>>
With(statuses) == {i \in DOMAIN Phases : Shown(Phases[i]) /\ StatusOf(Phases[i]) \in statuses}
Found == {k \in DOMAIN Wanted : With(Wanted[k]) # {}}

CurrentPhase ==
    CASE run \in {"completed", "cancelled"} \/ (Found = {} /\ ~Qa) -> "none"
      [] Qa /\ run \in {"failed", "interrupted"} -> QaPhaseId
      [] OTHER -> IF Found = {} THEN "none" ELSE Phases[Min(With(Wanted[Min(Found)]))]

-----------------------------------------------------------------------------
(* Actions *)

\* planBuildQaRecoveryState, researchRecoveryState
RecoveryState ==
    CASE Qa /\ input.iter >= MaxIterations -> "invalid"
      [] Qa /\ HasReport("qa-3") -> "exhausted"
      [] Research /\ input.iter >= MaxIterations -> "exhausted"
      [] OTHER -> "none"

\* retryableWorkflowStepIds
Retryable ==
    {s \in StepsOf(workflow) :
        /\ step[s] \in Eligible
        /\ \A d \in DependsOn(workflow, s) :
              step[d] \notin {"failed", "fatal", "cancelled", "interrupted", "skipped"}}
CanFinalize == \A s \in StepsOf(workflow) : step[s] = "completed"

\* Mutant: a run whose steps are all done is taken for one without anything to do.
RecoveryActions_NoFinalize ==
    CASE RecoveryState # "none" \/ run \in {"cancelled", "completed", "waiting"} -> {}
      [] run = "running" -> {"mark-interrupted"}
      [] run \in {"failed", "interrupted"} /\ Retryable = {} -> {}
      [] OTHER -> {"resume"}
\* buildRunRecoveryExplanation
RecoveryActions ==
    CASE RecoveryState # "none" \/ run \in {"cancelled", "completed", "waiting"} -> {}
      [] run = "running" -> {"mark-interrupted"}
      [] run \in {"failed", "interrupted"} /\ Retryable = {} /\ ~CanFinalize -> {}
      [] OTHER -> {"resume"}

\* buildPendingAction, approvalActions
ApprovalActions ==
    IF Research /\ run = "waiting" /\ approval.status = "waiting" THEN {"approve", "reject"} ELSE {}

Offered == RecoveryActions \cup ApprovalActions

-----------------------------------------------------------------------------
(* Properties *)

Driven(s) == step[s] \in {"running", "completed", "failed", "fatal", "interrupted", "cancelled"}

\* The input artifact a resume starts from always names a file that is there:
\* the file is written before its row and the old one removed after it.
InputReadable == input.ver \in files

\* The plan and the build follow an approval of the research as it now is: no
\* crash, rejection or further round in between leaves an old approval in force.
BuildIsApproved ==
    Research /\ (Driven("plan") \/ Driven("build")) =>
        approval.decision = "approved" /\ rounds.approved = rounds.done

\* The research workflow never drives a fourth round.
RoundsBounded ==
    input.iter <= MaxIterations /\ (Research /\ pc = "drive" => mem.iter < MaxIterations)

\* The persisted iteration counts the fixes that completed: a resume neither
\* repeats a fix nor reviews the same build twice.
IterationFollowsFixes ==
    Qa => \A i \in 0..1 :
            /\ input.iter > i => step[Q!FixStep(i)] = "completed"
            /\ Driven(Q!FixStep(i)) => /\ input.iter >= i
                                       /\ out[Q!QaStep(i)] = "block"

\* Whatever is resumed, the iteration is not left behind before the history
\* says which findings it fixed, and a run of the workflow that keeps a history
\* completes only when every earlier finding is marked verified.
HistoryKeepsUp ==
    workflow = "plan-build-qa" =>
        /\ \A i \in 1..input.iter : Q!With({i} \X found[i], "fixed") \subseteq events
        /\ run = "completed" =>
              Q!With({o \in occ : o[1] < input.iter + 1}, "verified") \subseteq events

\* A completed run was accepted: by its last report, by an answer that stopped
\* it before anything was built, or by the people who reviewed it.  An
\* adjudicated finding is excepted: its later decision is not seen.
Accepted ==
    CASE Research -> \/ step["build"] = "completed"
                     \/ out["plan"] = "stop" /\ ~Driven("build")
      [] Qa -> \/ out[Q!QaStep(input.iter)] = "pass"
               \/ "stop" \in {out["scope"]} /\ ~Driven("build")
               \/ out["validate-todo"] = "blocked" /\ ~Driven("build")
      [] Interactive -> /\ \A t \in {"scope", "changes"} \cup I!QaThreads :
                              thread[t] \in {"decided", "finalized"} \/ t \in adjudicated
                        /\ corrects \ adjudicated # {} => step["fix"] = "completed"

CompletedIsAccepted == run = "completed" \/ final = "completed" => Accepted

\* A run that waits has something a person can decide: otherwise neither the
\* decision nor a resume, which refuses waiting runs, could move it.
WaitingCanBeDecided ==
    run = "waiting" =>
        IF Research THEN approval.status = "waiting"
                    ELSE \E t \in I!Threads : thread[t] = "waiting"

Inv ==
    /\ InputReadable /\ BuildIsApproved /\ RoundsBounded /\ IterationFollowsFixes
    /\ HistoryKeepsUp /\ CompletedIsAccepted /\ WaitingCanBeDecided
    /\ owner # "none" => run = "running"

\* What is offered is accepted: nothing but the owner's process, which the view
\* does not ask for, can make the operation refuse it.
OfferedIsAccepted ==
    /\ "resume" \in Offered => run \in {"pending", "failed", "interrupted"} /\ MayResume
    /\ "mark-interrupted" \in Offered => run = "running"
    /\ ApprovalActions # {} => input.iter < MaxIterations

\* And what would be accepted is offered, except after the last report of QA and for
\* a QA run with a failed or cancelled step that may not be retried, which a resume
\* would fail again.
AcceptedIsOffered ==
    run \in {"pending", "failed", "interrupted"} /\ MayResume =>
        \/ "resume" \in Offered
        \/ Qa /\ (HasReport("qa-3") \/ \E s \in Steps : step[s] \in {"fatal", "cancelled"})

\* The phase shown as current is the one at work, whichever round it belongs to.
CurrentIsAtWork == pc = "drive" => CurrentPhase = mem.cur

\* The rounds shown are those the persisted iteration counts, without a gap, each
\* but the last one followed by a fix whose result is shown, too.
RoundsAreCounted ==
    Qa => /\ Rounds \in {1..input.iter, 1..input.iter + 1}
          /\ \A i \in 1..input.iter : FixSteps[i] \in BuilderPhases /\ out[QaSteps[i]] = "block"
          /\ run = "completed" => QaAction = "none" /\ ~Blocks

ViewInv == OfferedIsAccepted /\ AcceptedIsOffered /\ CurrentIsAtWork /\ RoundsAreCounted

\* Completed work is never redone, except that a research checkpoint, which
\* moves the persisted iteration on in the same transaction, resets its loop.
NothingRedone ==
    [][\A s \in Steps : step[s] = "completed" /\ step'[s] # "completed" =>
          s \in {"research", "research-review"} /\ input'.iter = input.iter + 1]_vars

\* A coordinator that runs ends: it completes, fails, waits or is interrupted.
ExecutionSettles == (pc # "idle") ~> (pc = "idle")
=============================================================================
