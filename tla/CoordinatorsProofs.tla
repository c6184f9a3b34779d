-------------------------- MODULE CoordinatorsProofs --------------------------
(***************************************************************************)
(* What TLAPS proves of Coordinators, for any findings, any number of      *)
(* faults and up to three iterations.  The coordinator has no memory of    *)
(* its own of what was accepted or approved: the invariant says which rows *)
(* and documents justify standing at each of its phases.                   *)
(***************************************************************************)
EXTENDS Coordinators, TLAPS

Walking == "plan-build-qa"
Todo == "todo-build-qa"

\* The steps that report, and those that fix.
QaRounds == {"qa", "qa-2", "qa-3"}
Fixes == {"fix-1", "fix-2"}

\* The step of a round, and of the fix after it.
QaAt == [i \in 0..2 |-> CASE i = 0 -> "qa" [] i = 1 -> "qa-2" [] OTHER -> "qa-3"]
FixAt == [i \in 0..1 |-> IF i = 0 THEN "fix-1" ELSE "fix-2"]

\* The phase the coordinator stands at, the driver's work included.
PhaseOf(s) ==
    CASE s = "research-review" -> "review"
      [] s \in QaRounds -> "qa"
      [] s \in Fixes -> "fix"
      [] OTHER -> s

\* Where the walk is.
Spot == IF pc = "drive" THEN PhaseOf(mem.cur) ELSE pc

\* What rows and local variables may hold.
Statuses == {"absent", "pending", "running", "completed", "failed", "fatal", "interrupted",
             "cancelled", "skipped"}
Runs == {"pending", "running", "waiting", "completed", "failed", "interrupted", "cancelled"}
Verdicts == {"none", "completed", "failed", "cancelled"}
Outs == {"none", "sufficient", "more", "go", "stop", "ready", "prepare", "blocked", "pass",
         "block", "done"}
Threads == I!Threads
ThreadStates == {"absent", "waiting", "decided", "finalized"}
Decided == {"decided", "finalized"}
DrivenStatus == {"running", "completed", "failed", "fatal", "interrupted", "cancelled"}

\* The phases that follow a step.
Afters == {"idle", "review", "judge", "dispose", "built", "scoped", "build", "loop", "record", "fixed",
           "assessed", "changes", "findings", "finish"}

\* Which of them follows which.
Follows ==
    CASE Research ->
           {<<"research", "review">>, <<"research-review", "judge">>, <<"plan", "dispose">>,
            <<"build", "built">>}
      [] workflow = Walking ->
           {<<"scope", "scoped">>, <<"plan", "build">>, <<"build", "loop">>}
             \cup {<<QaAt[mem.iter], "record">>}
             \cup (IF mem.iter < 2 THEN {<<FixAt[mem.iter], "fixed">>} ELSE {})
      [] workflow = Todo ->
           {<<"validate-todo", "assessed">>, <<"prepare", "build">>, <<"build", "loop">>}
             \cup {<<QaAt[mem.iter], "record">>}
             \cup (IF mem.iter < 2 THEN {<<FixAt[mem.iter], "fixed">>} ELSE {})
      [] OTHER ->
           {<<"scope", "scoped">>, <<"plan", "build">>, <<"build", "changes">>,
            <<"qa", "findings">>, <<"fix", "finish">>}

-----------------------------------------------------------------------------
(* Of all workflows *)

\* What a row, the input and the files may hold.
RunTypes ==
    /\ workflow \in Workflows /\ run \in Runs /\ owner \in {"none", "live", "dead"}
    /\ step \in [Steps -> Statuses] /\ out \in [Steps -> Outs]
    /\ input \in [iter : Nat, feedback : {"none", "review", "human"}, ver : Nat]
    /\ files \subseteq Nat

\* What the coordinator may hold in memory.
MemRecords ==
    [cur : Steps \cup Threads \cup {"none"}, after : Afters, iter : Nat,
     feedback : {"none", "review", "human"}, occ : {<<>>} \cup (Nat \X Findings),
     verdict : Verdicts, caught : BOOLEAN]

MemTypes == mem \in MemRecords

\* The step at the driver has a row that says so.
AtDriver == pc = "drive" => mem.cur \in Steps /\ step[mem.cur] = "running" /\ <<mem.cur, mem.after>> \in Follows

\* A coordinator walks in a run that is running, and an owner owns such a one.
Alive == (pc # "idle" => run = "running") /\ (owner # "none" => run = "running")

\* The iteration in memory is the one persisted, or the next one while that is written.
Iteration ==
    /\ input.iter <= MaxIterations
    /\ pc \notin {"idle", "input", "explain"} => mem.iter = input.iter
    /\ pc = "input" => input.iter < MaxIterations /\ mem.iter > input.iter /\ mem.iter <= MaxIterations

\* The input's file is there; the one being written, too.
InputFile == input.ver \in files /\ (pc = "input" => input.ver + 1 \in files)

-----------------------------------------------------------------------------
(* research-plan-build *)

\* The approval, and how many researches were made and approved.
ApprovalTypes ==
    /\ approval \in [status : {"absent", "pending", "waiting", "completed"},
                     decision : {"none", "approved", "rejected"}]
    /\ rounds \in [done : Nat, approved : Nat]
    /\ approval.status = "waiting" => approval.decision = "none"
    /\ final = "none"

\* Who is asked, or approved, has research that is done and suffices.
Sufficient ==
    /\ step["research"] = "completed" /\ step["research-review"] = "completed"
    /\ out["research-review"] # "more"

\* A person is asked, or has approved.
InForce == approval.decision = "approved" \/ approval.status = "waiting"

\* What justifies standing at a phase: the steps before it and the approval.
ResearchWalk ==
    /\ Spot \in {"idle", "research", "review", "judge", "input", "clean", "exhausted", "plan",
                 "dispose", "build", "built", "failed"}
    /\ Spot \in {"research", "review", "judge", "plan", "dispose", "build", "built"}
         => input.iter < MaxIterations
    /\ Spot \in {"review", "judge"} => step["research"] = "completed"
    /\ Spot = "judge" => step["research-review"] = "completed"
    /\ Spot = "input" => ~InForce /\ mem.iter \in {input.iter + 1, MaxIterations}
    /\ Spot \in {"plan", "dispose", "build", "built"} => approval.decision = "approved"
    /\ Spot \in {"dispose", "build", "built"} => step["plan"] = "completed"
    /\ Spot \in {"build", "built"} => out["plan"] # "stop"
    /\ Spot = "built" => step["build"] = "completed"

\* What an approval in force, a plan, a build and an end rely on.
ApprovalStands ==
    /\ InForce => Sufficient
    /\ approval.decision = "approved" => rounds.approved = rounds.done
    /\ step["plan"] \in DrivenStatus => approval.decision = "approved"
    /\ step["build"] \in DrivenStatus => step["plan"] = "completed" /\ out["plan"] # "stop"
    /\ run = "waiting" => approval.status = "waiting"
    /\ run = "completed" =>
         \/ step["build"] = "completed"
         \/ out["plan"] = "stop" /\ step["build"] \notin DrivenStatus

ResearchInv == Research => ApprovalTypes /\ ResearchWalk /\ ApprovalStands

-----------------------------------------------------------------------------
(* plan-build-qa and todo-build-qa *)

\* Findings, history and report.
QaTypes ==
    /\ found \in [1..MaxIterations -> SUBSET Findings]
    /\ occ \subseteq Nat \X Findings
    /\ final \in Verdicts
    /\ pc \in {"report", "close"} => mem.verdict # "none"
    /\ run # "waiting"

\* What the answer before the build says lets it be built.
MayBuild ==
    IF workflow = Walking THEN step["scope"] = "completed" /\ out["scope"] # "stop"
    ELSE step["validate-todo"] = "completed" /\ out["validate-todo"] # "blocked"

\* The steps that need a scope that may be built.
BuildSteps == {"build"} \cup QaRounds \cup Fixes

\* What justifies standing at a phase.
QaWalk ==
    /\ Spot \in {"idle", "scope", "scoped", "validate-todo", "assessed", "prepare", "plan", "build",
                 "loop", "qa", "record", "event", "fix", "fixed", "input", "clean", "failed",
                 "report", "close"}
    /\ workflow = Todo => Spot \notin {"scope", "scoped", "plan"}
    /\ workflow = Walking => Spot \notin {"validate-todo", "assessed", "prepare"}
    /\ Spot = "scoped" => step["scope"] = "completed"
    /\ Spot = "assessed" => step["validate-todo"] = "completed"
    /\ Spot = "prepare" => out["validate-todo"] = "prepare" /\ step["validate-todo"] = "completed"
    /\ Spot \in {"plan", "build", "loop", "qa", "record", "event", "fix", "fixed", "input", "clean"}
         => MayBuild
    /\ input.iter < MaxIterations
    /\ Spot \in {"record", "event", "fix", "fixed"} => step[QaAt[mem.iter]] = "completed"
    /\ Spot \in {"fix", "fixed"} => mem.iter + 1 < MaxIterations /\ out[QaAt[mem.iter]] = "block"
    /\ Spot = "fixed" => step[FixAt[mem.iter]] = "completed"
    /\ Spot = "input" =>
         /\ mem.iter = input.iter + 1 /\ mem.iter < MaxIterations
         /\ out[QaAt[input.iter]] = "block" /\ step[FixAt[input.iter]] = "completed"

\* The rows follow from each other.
QaRows ==
    /\ \A s \in BuildSteps : step[s] \in DrivenStatus => MayBuild
    /\ step["fix"] \notin DrivenStatus
    /\ workflow = Walking /\ step["plan"] \in DrivenStatus => MayBuild
    /\ workflow = Todo /\ step["prepare"] \in DrivenStatus =>
         step["validate-todo"] = "completed" /\ out["validate-todo"] = "prepare"
    /\ input.iter > 0 => step["fix-1"] = "completed"
    /\ input.iter > 1 => step["fix-2"] = "completed"
    /\ step["fix-1"] \in DrivenStatus => out["qa"] = "block" /\ step["qa"] = "completed"
    /\ step["fix-2"] \in DrivenStatus =>
         out["qa-2"] = "block" /\ step["qa-2"] = "completed" /\ input.iter > 0

\* Why the run may be said to be completed.
QaAccepted ==
    \/ out[QaAt[input.iter]] = "pass" /\ step[QaAt[input.iter]] = "completed"
    \/ out["scope"] = "stop" /\ step["scope"] = "completed" /\ step["build"] \notin DrivenStatus
         /\ workflow = Walking
    \/ out["validate-todo"] = "blocked" /\ step["validate-todo"] = "completed"
         /\ step["build"] \notin DrivenStatus /\ workflow = Todo

\* The run, its report or the report to be written says that it is completed.
Claimed ==
    \/ run = "completed"
    \/ final = "completed"
    \/ pc \in {"report", "close"} /\ mem.verdict = "completed"

QaStands == Claimed => QaAccepted

\* Every earlier finding is marked verified.
VerifiedUpTo == \A o \in occ : o[1] < input.iter + 1 => Append(o, "verified") \in events

\* What the history says of the rounds the input counts.
History ==
    workflow = Walking =>
      /\ occ # {} => MayBuild
      /\ \A i \in 1..input.iter : \A f \in found[i] : Append(<<i, f>>, "fixed") \in events
      /\ pc = "input" => \A f \in found[mem.iter] : Append(<<mem.iter, f>>, "fixed") \in events
      /\ run = "completed" \/ (pc \in {"report", "close"} /\ mem.verdict = "completed") => VerifiedUpTo

QaInv == Qa => QaTypes /\ QaWalk /\ QaRows /\ QaStands /\ History

-----------------------------------------------------------------------------
(* plan-build-qa-interactive *)

\* Threads, adjudications and findings.
ReviewTypes ==
    /\ thread \in [Threads -> ThreadStates]
    /\ corrects \subseteq Threads /\ shadowed \subseteq adjudicated
    /\ adjudicated \subseteq Findings \cup {"qa"} /\ reported \subseteq Findings
    /\ input.iter = 0 /\ final = "none"

\* Nothing of the report is left to be decided.
Reviewed == \A t \in I!QaThreads : thread[t] \in Decided \/ t \in shadowed

\* What justifies standing at a phase: the threads before it are decided.
ReviewWalk ==
    /\ Spot \in {"idle", "advance", "scope", "scoped", "scope-review", "plan", "build", "changes", "qa",
                 "findings", "corrections", "fix", "finish", "failed", "claimed", "explain"}
    /\ Spot \in {"scope", "scoped"} => thread["scope"] = "waiting"
    /\ Spot = "scope-review" => thread["scope"] # "absent"
    /\ Spot \in {"plan", "build", "changes", "qa", "findings", "corrections", "fix", "finish"}
         => thread["scope"] \in Decided
    /\ Spot \in {"qa", "findings", "corrections", "fix", "finish"} => thread["changes"] \in Decided
    /\ Spot \in {"corrections", "fix", "finish"} => Reviewed
    /\ Spot = "finish" => corrects \subseteq shadowed \/ step["fix"] = "completed"
    /\ pc = "claimed" => mem.cur \in Threads /\ thread[mem.cur] = "waiting"
    /\ pc = "scoped" => step["scope"] = "completed"
    /\ run = "waiting" \/ pc = "explain" => \E t \in Threads : thread[t] = "waiting"

\* What the end and the threads rely on.
ReviewRows ==
    /\ thread["scope"] \in Decided => step["scope"] = "completed"
    /\ run = "waiting" \/ pc \in {"explain", "claimed"} => step["scope"] = "completed"
    /\ run = "completed" =>
         /\ thread["scope"] \in Decided /\ thread["changes"] \in Decided
         /\ \A t \in I!QaThreads : thread[t] \in Decided \/ t \in adjudicated
         /\ corrects \subseteq adjudicated \/ step["fix"] = "completed"

ReviewInv == Interactive => ReviewTypes /\ ReviewWalk /\ ReviewRows

\* The inductive invariant.
CommonInv == RunTypes /\ MemTypes /\ AtDriver /\ Alive /\ Iteration /\ InputFile

IInv == CommonInv /\ ResearchInv /\ QaInv /\ ReviewInv

-----------------------------------------------------------------------------
(* The shapes of steps *)

\* The coordinator walks on.
Moved(label) ==
    /\ pc' = label
    /\ UNCHANGED <<workflow, run, owner, step, out, input, files, mem>>

\* No completed row is lost and none becomes completed or driven.
Weakened ==
    /\ step' \in [Steps -> Statuses]
    /\ \A s \in Steps : step'[s] = "completed" <=> step[s] = "completed"
    /\ \A s \in Steps : step'[s] \in DrivenStatus => step[s] \in DrivenStatus

\* The execution is over.
Ended ==
    /\ pc' = "idle" /\ mem' \in MemRecords
    /\ run' \in Runs /\ owner' \in {"none", "live", "dead"} /\ (owner' # "none" => run' = "running")
    /\ Weakened
    /\ UNCHANGED <<workflow, out, input, files>>

\* It is over with a status that is saved.
SavedAs(status) ==
    /\ run' = status /\ owner' = "none" /\ pc' = "idle" /\ mem' = Idle
    /\ UNCHANGED <<workflow, step, out, input, files>>

\* The driver gets a step.
Driving(s, after) ==
    /\ pc' = "drive" /\ mem' \in MemRecords
    /\ mem'.cur = s /\ mem'.after = after /\ mem'.iter = mem.iter
    /\ step' = [step EXCEPT ![s] = "running"]
    /\ UNCHANGED <<workflow, run, owner, out, input, files>>

\* A step that may not be retried fails again.
FailedAgain(s) ==
    /\ pc' = "failed" /\ mem' \in MemRecords /\ mem'.iter = mem.iter /\ mem'.cur = s
    /\ UNCHANGED <<workflow, run, owner, step, out, input, files>>

\* The driver has returned.
Returned(s, after) ==
    /\ pc = "drive" /\ pc' = after
    /\ step' = [step EXCEPT ![s] = "completed"]
    /\ \E a \in Answers(s) : out' = [out EXCEPT ![s] = a]
    /\ UNCHANGED <<workflow, run, owner, input, files, mem>>

\* The final report is to be written.
Finished(status) ==
    /\ pc' = "report" /\ mem' \in MemRecords /\ mem'.iter = mem.iter /\ mem'.verdict = status
    /\ Weakened
    /\ UNCHANGED <<workflow, run, owner, out, input, files>>

\* An execution begins, for the input as it is.
Begun(label) ==
    /\ pc = "idle" /\ pc' = label
    /\ run' = "running" /\ owner' = "live"
    /\ mem' \in MemRecords /\ mem'.iter = input.iter
    /\ UNCHANGED <<workflow, step, out, input, files>>

\* The names of steps and threads are such.
LEMMA StepNames ==
    /\ {"research", "research-review", "scope", "validate-todo", "prepare", "plan", "build", "qa",
        "fix", "qa-2", "qa-3", "fix-1", "fix-2"} \subseteq Steps
    /\ {"scope", "changes", "qa"} \subseteq Threads
    /\ "none" \notin Steps
BY DEF Steps, Threads, I!Threads

\* The steps of the rounds, in order.
LEMMA IterationNames ==
    /\ QaAt[0] = "qa" /\ QaAt[1] = "qa-2" /\ QaAt[2] = "qa-3"
    /\ FixAt[0] = "fix-1" /\ FixAt[1] = "fix-2"
    /\ \A i \in 0..2 : Q!QaStep(i) = QaAt[i]
    /\ \A i \in 0..1 : Q!FixStep(i) = FixAt[i]
<1>1. /\ QaAt[0] = "qa" /\ QaAt[1] = "qa-2" /\ QaAt[2] = "qa-3"
      /\ FixAt[0] = "fix-1" /\ FixAt[1] = "fix-2"
  BY DEF QaAt, FixAt
<1>2. /\ Q!QaStep(0) = "qa" /\ Q!QaStep(1) = "qa-2" /\ Q!QaStep(2) = "qa-3"
      /\ Q!FixStep(0) = "fix-1" /\ Q!FixStep(1) = "fix-2"
  BY DEF Q!QaStep, Q!FixStep
<1> QED
  BY <1>1, <1>2

\* At most three iterations.
LEMMA Bounded == MaxIterations \in Nat /\ MaxIterations >= 1 /\ MaxIterations <= 3
BY MaxIterationsAssumption

\* The memory of an operation that is over.
LEMMA IdleMem ==
    /\ Idle \in MemRecords /\ Idle.iter = 0 /\ Idle.verdict = "none"
    /\ R!Idle = Idle /\ Q!Idle = Idle /\ I!Idle = Idle
<1>1. /\ "none" \in Steps \cup Threads \cup {"none"} /\ "idle" \in Afters /\ 0 \in Nat
      /\ "none" \in {"none", "review", "human"} /\ <<>> \in {<<>>} \cup (Nat \X Findings)
      /\ "none" \in Verdicts /\ TRUE \in BOOLEAN
  BY DEF Verdicts, Afters
<1>2. Idle \in MemRecords /\ Idle.iter = 0 /\ Idle.verdict = "none"
  BY <1>1 DEF Idle, MemRecords
<1>3. R!Idle = Idle /\ Q!Idle = Idle /\ I!Idle = Idle
  BY DEF R!Idle, Q!Idle, I!Idle, Idle
<1> QED
  BY <1>2, <1>3

\* The memory of one that begins.
LEMMA MemStarted ==
    ASSUME NEW i \in Nat, NEW f \in {"none", "review", "human"}, NEW n,
           n = [Idle EXCEPT !.iter = i, !.feedback = f]
    PROVE  n \in MemRecords /\ n.iter = i
BY IdleMem DEF MemRecords

\* The coordinator stays in the run it walks in.
LEMMA MovedCommon ==
    ASSUME CommonInv, NEW label, Moved(label), pc \notin {"idle", "input", "explain"},
           label \notin {"drive", "input"}
    PROVE  CommonInv'
BY DEF CommonInv, Moved, RunTypes, MemTypes, AtDriver, Alive, Iteration, InputFile

\* An execution that is over leaves what all workflows share as it should be.
LEMMA EndedCommon ==
    ASSUME CommonInv, Ended
    PROVE  CommonInv'
BY DEF CommonInv, Ended, Weakened, RunTypes, MemTypes, AtDriver, Alive, Iteration, InputFile

\* Saving a status is an end.
LEMMA SavedEnds ==
    ASSUME CommonInv, NEW status \in Runs, SavedAs(status)
    PROVE  Ended
BY IdleMem DEF CommonInv, SavedAs, Ended, Weakened, RunTypes

\* A step that goes to the driver has a row that says so.
LEMMA DrivingCommon ==
    ASSUME CommonInv, NEW s \in Steps, NEW a \in Afters, Driving(s, a),
           pc \notin {"idle", "input", "explain"}, <<s, a>> \in Follows
    PROVE  CommonInv'
<1> USE DEF CommonInv, Driving
<1>1. RunTypes' /\ MemTypes' /\ Alive' /\ Iteration' /\ InputFile'
  BY DEF RunTypes, MemTypes, Alive, Iteration, InputFile, Statuses
<1>2. Follows' = Follows
  BY DEF Follows, Research
<1>3. AtDriver'
  BY <1>2 DEF RunTypes, AtDriver
<1> QED
  BY <1>1, <1>3

\* A refused step changes no row.
LEMMA FailedCommon ==
    ASSUME CommonInv, NEW s, FailedAgain(s), pc \notin {"idle", "input", "explain"}
    PROVE  CommonInv'
BY DEF CommonInv, FailedAgain, RunTypes, MemTypes, AtDriver, Alive, Iteration, InputFile

\* A step that returns has its row and its answer.
LEMMA ReturnedCommon ==
    ASSUME CommonInv, NEW s \in Steps, NEW a, Returned(s, a), a \notin {"drive", "input"}
    PROVE  CommonInv'
<1> USE DEF CommonInv, Returned
<1>1. RunTypes'
  BY DEF RunTypes, Answers, Outs, Statuses
<1> QED
  BY <1>1 DEF RunTypes, MemTypes, AtDriver, Alive, Iteration, InputFile

\* An execution begins with the input as it is.
LEMMA BegunCommon ==
    ASSUME CommonInv, NEW label, Begun(label), label \notin {"idle", "drive", "input"}
    PROVE  CommonInv'
BY DEF CommonInv, Begun, RunTypes, MemTypes, AtDriver, Alive, Iteration, InputFile, Runs

-----------------------------------------------------------------------------
(* research-plan-build *)

\* A walk that ends, waits or is interrupted leaves the approval as it was.
LEMMA ResearchEnds ==
    ASSUME IInv, Research, Ended, UNCHANGED <<approval, rounds, final>>,
           run' = "waiting" => approval.status = "waiting",
           run' = "completed" => \/ step["build"] = "completed"
                                 \/ out["plan"] = "stop" /\ step'["build"] \notin DrivenStatus
    PROVE  CommonInv' /\ ResearchInv'
<1> USE DEF IInv, CommonInv, ResearchInv
<1>1. CommonInv'
  BY EndedCommon
<1>2. Spot' = "idle"
  BY DEF Ended, Spot
<1>3. /\ step'["research"] = "completed" <=> step["research"] = "completed"
      /\ step'["research-review"] = "completed" <=> step["research-review"] = "completed"
      /\ step'["plan"] = "completed" <=> step["plan"] = "completed"
      /\ step'["build"] = "completed" <=> step["build"] = "completed"
      /\ step'["plan"] \in DrivenStatus => step["plan"] \in DrivenStatus
      /\ step'["build"] \in DrivenStatus => step["build"] \in DrivenStatus
  BY StepNames DEF Ended, Weakened
<1>4. ApprovalTypes' /\ ResearchWalk'
  BY <1>2 DEF Ended, ApprovalTypes, ResearchWalk
<1>5. ApprovalStands'
  BY <1>3 DEF Ended, ApprovalStands, InForce, Sufficient
<1> QED
  BY <1>1, <1>4, <1>5

\* An end of the walk that saves a status only.
LEMMA ResearchSaves ==
    ASSUME IInv, Research, NEW status \in Runs, SavedAs(status), UNCHANGED <<approval, rounds, final>>,
           status = "waiting" => approval.status = "waiting",
           status = "completed" => step["build"] = "completed"
    PROVE  CommonInv' /\ ResearchInv'
<1>1. Ended
  BY SavedEnds DEF IInv
<1> QED
  BY <1>1, ResearchEnds DEF SavedAs

\* The phases, their steps and the phases after them.
ResearchPhases ==
    {<<"research", "research", "review">>, <<"review", "research-review", "judge">>,
     <<"plan", "plan", "dispose">>, <<"build", "build", "built">>}

\* A completed step is reused.
LEMMA ResearchPhaseReused ==
    ASSUME IInv, Research, NEW l, NEW s, NEW a, <<l, s, a>> \in ResearchPhases,
           pc = l, step[s] = "completed", Moved(a), UNCHANGED <<approval, rounds, final>>
    PROVE  CommonInv' /\ ResearchInv'
<1> USE DEF IInv, CommonInv, ResearchInv
<1>1. Spot = l /\ Spot' = a
  BY DEF Moved, Spot, ResearchPhases
<1>2. CommonInv'
  BY MovedCommon DEF ResearchPhases
<1>3. ApprovalTypes'
  BY <1>1 DEF ApprovalTypes, ResearchWalk, ApprovalStands, RunTypes, Alive, Iteration, Moved,
     ResearchPhases
<1>4. ResearchWalk'
  BY <1>1 DEF ResearchWalk, ApprovalTypes, ApprovalStands, InForce, Sufficient, RunTypes, Alive,
     Iteration, Moved, ResearchPhases
<1>5. ApprovalStands'
  BY <1>1 DEF ApprovalStands, ApprovalTypes, ResearchWalk, InForce, Sufficient, DrivenStatus, RunTypes,
     Alive, Iteration, Moved, ResearchPhases
<1> QED
  BY <1>2, <1>3, <1>4, <1>5

\* A step goes to the driver: the approval it relies on stands, or none does.
LEMMA ResearchPhaseDriven ==
    ASSUME IInv, Research, NEW l, NEW s, NEW a, <<l, s, a>> \in ResearchPhases,
           pc = l, step[s] \in Eligible, Driving(s, a), UNCHANGED <<approval, rounds, final>>
    PROVE  CommonInv' /\ ResearchInv'
<1> USE DEF IInv, CommonInv, ResearchInv
<1>1. s \in Steps /\ a \in Afters /\ <<s, a>> \in Follows
  BY StepNames DEF ResearchPhases, Afters, Follows, Research, Walking, Todo
<1>2. Spot = l /\ Spot' = l
  BY DEF Driving, Spot, PhaseOf, ResearchPhases, QaRounds, Fixes
<1>3. step[s] \notin {"completed", "running"}
  BY DEF Eligible
<1>4. CommonInv'
  BY <1>1, DrivingCommon DEF ResearchPhases
<1>5. ApprovalTypes'
  BY <1>1, <1>2, <1>3 DEF ApprovalTypes, ResearchWalk, ApprovalStands, RunTypes, Alive, Iteration,
     Driving, ResearchPhases, Eligible
<1>6. ResearchWalk'
  <2>1. \A t \in Steps : t # s => step'[t] = step[t]
    BY <1>1 DEF Driving, RunTypes
  <2> QED
    BY <1>2, <1>3, <2>1, StepNames DEF Driving, ResearchPhases, ResearchWalk
<1>7. ApprovalStands'
  <2>1. \A t \in Steps : t # s => step'[t] = step[t]
    BY <1>1 DEF Driving, RunTypes
  <2>2. step'[s] = "running"
    BY <1>1 DEF Driving, RunTypes
  <2> QED
    BY <1>2, <1>3, <2>1, <2>2, StepNames DEF Driving, ResearchPhases, ApprovalStands, ResearchWalk,
       ApprovalTypes, InForce,
       Sufficient, DrivenStatus, Eligible, Alive
<1> QED
  BY <1>4, <1>5, <1>6, <1>7

\* The phases of the walk.
LEMMA ResearchPhaseStep ==
    ASSUME IInv, Research, NEW l, NEW s, NEW a, <<l, s, a>> \in ResearchPhases,
           R!ResearchPhase(l, s, a), UNCHANGED <<qaVars, reviewVars>>
    PROVE  CommonInv' /\ ResearchInv'
<1>1. s \in Steps /\ a \in Afters /\ l # "drive"
  BY StepNames DEF ResearchPhases, Afters
<1>2. mem \in MemRecords
  BY DEF IInv, CommonInv, MemTypes
<1>3. CASE R!StopAtAbort(l)
  <2>1. SavedAs("cancelled") /\ UNCHANGED <<approval, rounds, final>>
    BY <1>3, IdleMem DEF SavedAs, qaVars, R!StopAtAbort, R!SaveRunStatus, R!researchVars, R!Leave
  <2> QED
    BY <2>1, ResearchSaves DEF Runs
<1>4. CASE /\ ~aborted /\ step[s] \in R!Eligible \cup {"completed"}
           /\ R!Phase(l, s, a) /\ UNCHANGED R!researchVars
  <2>1. UNCHANGED <<approval, rounds, final>> /\ pc = l /\ R!Eligible = Eligible
    BY <1>4 DEF R!researchVars, qaVars, R!Phase, R!Eligible, Eligible
  <2>2. \/ step[s] = "completed" /\ Moved(a)
        \/ step[s] \in Eligible /\ R!Drive(s, a)
    BY <1>4, <2>1 DEF R!Phase, R!Goto, Moved
  <2>3. R!Drive(s, a) => Driving(s, a)
    <3> SUFFICES ASSUME R!Drive(s, a) PROVE Driving(s, a)
      OBVIOUS
    <3>1. mem' = [mem EXCEPT !.cur = s, !.after = a]
      BY DEF R!Drive
    <3>2. mem' \in MemRecords /\ mem'.cur = s /\ mem'.after = a /\ mem'.iter = mem.iter
      BY <1>1, <1>2, <3>1 DEF MemRecords
    <3> QED
      BY <3>2 DEF R!Drive, R!Goto, Driving
  <2>4. CASE step[s] = "completed" /\ Moved(a)
    BY <2>1, <2>4, ResearchPhaseReused
  <2>5. CASE step[s] \in Eligible /\ R!Drive(s, a)
    BY <2>1, <2>3, <2>5, ResearchPhaseDriven
  <2> QED
    BY <2>2, <2>4, <2>5
<1>5. CASE /\ pc = l /\ R!SaveRunStatus("failed") /\ UNCHANGED R!researchVars
  <2>1. SavedAs("failed") /\ UNCHANGED <<approval, rounds, final>>
    BY <1>5, IdleMem DEF SavedAs, qaVars, R!SaveRunStatus, R!researchVars, R!Leave
  <2> QED
    BY <2>1, ResearchSaves DEF Runs
<1> QED
  BY <1>3, <1>4, <1>5 DEF R!ResearchPhase

\* The driver is done: research that is done again is not what was approved.
LEMMA ResearchReturnStep ==
    ASSUME IInv, Research, R!ResearchReturn,
           UNCHANGED <<qaVars, reviewVars>>
    PROVE  CommonInv' /\ ResearchInv'
<1> USE DEF IInv, CommonInv, ResearchInv
<1>1. /\ mem.cur \in Steps /\ step[mem.cur] = "running"
      /\ <<mem.cur, mem.after>> \in {<<"research", "review">>, <<"research-review", "judge">>,
                                  <<"plan", "dispose">>, <<"build", "built">>}
  BY DEF R!ResearchReturn, R!Return, AtDriver, Follows, Research, Walking, Todo
<1>2. Returned(mem.cur, mem.after)
  BY DEF Returned, Answers, R!ResearchReturn, R!Return, R!Answers, R!Goto
<1>3. Spot = PhaseOf(mem.cur) /\ Spot' = mem.after
  BY <1>1, <1>2 DEF Spot, Returned
<1>4. /\ approval' = approval /\ final' = final
      /\ rounds' = IF mem.cur = "research" THEN [rounds EXCEPT !.done = @ + 1] ELSE rounds
  BY DEF R!ResearchReturn, qaVars
<1>5. \A t \in Steps : t # mem.cur => step'[t] = step[t] /\ out'[t] = out[t]
  BY <1>1, <1>2 DEF Returned, RunTypes
<1>6. step'[mem.cur] = "completed"
  BY <1>1, <1>2 DEF Returned, RunTypes
<1>7. CommonInv'
  BY <1>1, <1>2, ReturnedCommon
<1>8. ApprovalTypes'
  BY <1>4 DEF ApprovalTypes
<1>9. ResearchWalk'
  BY <1>1, <1>2, <1>3, <1>4, <1>5, <1>6, StepNames DEF Returned, PhaseOf, QaRounds, Fixes, ResearchWalk,
     ApprovalTypes, ApprovalStands, DrivenStatus, InForce, Sufficient
<1>10. ApprovalStands'
  BY <1>1, <1>2, <1>3, <1>4, <1>5, <1>6, StepNames DEF Returned, PhaseOf, QaRounds, Fixes, ResearchWalk,
     ApprovalTypes, ApprovalStands, DrivenStatus, InForce, Sufficient, Alive
<1> QED
  BY <1>7, <1>8, <1>9, <1>10

\* The input of the next round is written, with nothing approved.
LEMMA NextRoundStep ==
    ASSUME IInv, Research, R!NextRound,
           UNCHANGED <<qaVars, reviewVars>>
    PROVE  CommonInv' /\ ResearchInv'
<1> USE DEF IInv, CommonInv, ResearchInv
<1>1. Spot = "judge" /\ pc = "judge"
  BY DEF Spot, R!NextRound
<1>2. mem \in MemRecords /\ mem.iter = input.iter /\ mem.feedback \in {"none", "review", "human"}
  BY <1>1 DEF Iteration, MemTypes, MemRecords
<1>3. input.iter < MaxIterations /\ input.iter \in Nat
  BY <1>1 DEF ResearchWalk, RunTypes
<1>4. /\ pc' = "input" /\ files' = files \cup {input.ver + 1}
      /\ UNCHANGED <<workflow, run, owner, step, out, input, approval, rounds, final>>
      /\ out["research-review"] = "more" \/ approval.decision = "rejected"
  BY DEF qaVars, R!NextRound, R!Wanted, R!AtLimit, R!WriteInput, R!researchVars, R!Goto
<1>5. \E i \in {input.iter + 1, MaxIterations}, f \in {"none", "review", "human"} : mem' = [mem EXCEPT !.iter = i, !.feedback = f]
  BY <1>2, <1>3, Bounded DEF R!NextRound, R!Wanted, R!AtLimit, R!WriteInput, R!researchVars, R!Goto
<1>6. mem' \in MemRecords /\ mem'.iter \in {input.iter + 1, MaxIterations}
  <2>1. PICK i \in {input.iter + 1, MaxIterations}, f \in {"none", "review", "human"} :
           mem' = [mem EXCEPT !.iter = i, !.feedback = f]
    BY <1>5
  <2>2. i \in Nat
    BY <1>3, Bounded
  <2> QED
    BY <1>2, <2>1, <2>2 DEF MemRecords
<1>7. ~InForce
  BY <1>4 DEF ApprovalStands, ApprovalTypes, InForce, Sufficient
<1>8. Spot' = "input"
  BY <1>4 DEF Spot
<1>9. mem'.iter > input.iter /\ mem'.iter <= MaxIterations
  BY <1>3, <1>6, Bounded
<1>10. input.ver \in Nat /\ input.ver + 1 \in Nat
  BY DEF RunTypes
<1>11. CommonInv'
  BY <1>1, <1>3, <1>4, <1>6, <1>9, <1>10 DEF RunTypes, MemTypes, AtDriver, Alive, Iteration, InputFile
<1>12. ApprovalTypes'
  BY <1>1, <1>2, <1>3, <1>4, <1>5, <1>6, <1>7, <1>8, <1>9, <1>10 DEF ApprovalTypes, ResearchWalk,
     ApprovalStands, RunTypes, Alive, Iteration
<1>13. ResearchWalk'
  BY <1>1, <1>2, <1>3, <1>4, <1>5, <1>6, <1>7, <1>8, <1>9, <1>10 DEF ResearchWalk, ApprovalTypes,
     ApprovalStands, InForce, Sufficient, RunTypes, Alive, Iteration
<1>14. ApprovalStands'
  BY <1>1, <1>2, <1>3, <1>4, <1>5, <1>6, <1>7, <1>8, <1>9, <1>10 DEF ApprovalStands, ApprovalTypes,
     ResearchWalk, InForce, Sufficient, DrivenStatus, RunTypes, Alive, Iteration
<1> QED
  BY <1>11, <1>12, <1>13, <1>14

\* The next round begins: research and review are pending, a rejection is over.
LEMMA CheckpointStep ==
    ASSUME IInv, Research, R!Checkpoint,
           UNCHANGED <<qaVars, reviewVars>>
    PROVE  CommonInv' /\ ResearchInv'
<1> USE DEF IInv, CommonInv, ResearchInv
<1>1. pc = "input" /\ Spot = "input"
  BY DEF Spot, R!Checkpoint, R!CommitInput
<1>2. ~InForce
  BY <1>1 DEF ResearchWalk
<1>3. /\ pc' = "clean" /\ UNCHANGED <<workflow, run, owner, out, files, mem, rounds, final>>
      /\ input' = [iter |-> mem.iter, feedback |-> mem.feedback, ver |-> input.ver + 1]
  BY DEF qaVars, R!Checkpoint, R!CommitInput, R!Reset, R!Goto
<1>4. /\ mem.iter \in Nat /\ mem.iter > input.iter /\ mem.iter <= MaxIterations
      /\ mem.feedback \in {"none", "review", "human"} /\ input.ver \in Nat
  BY <1>1 DEF Iteration, MemTypes, MemRecords, RunTypes
<1>5. /\ step' \in [Steps -> Statuses]
      /\ \A s \in Steps : step'[s] = step[s] \/ (s \in {"research", "research-review"} /\ step'[s] = "pending")
  BY DEF RunTypes, Statuses, R!Checkpoint, R!CommitInput, R!Reset, R!Goto
<1>6. approval' = approval \/ (approval.decision = "rejected" /\ approval' = [status |-> "pending", decision |-> "none"])
  BY DEF R!Checkpoint, R!CommitInput, R!Reset, R!Goto
<1>7. Spot' = "clean"
  BY <1>3 DEF Spot
<1>8. CommonInv'
  BY <1>1, <1>3, <1>4, <1>5 DEF RunTypes, MemTypes, AtDriver, Alive, Iteration, InputFile
<1>9. ApprovalTypes'
  BY <1>1, <1>2, <1>3, <1>4, <1>5, <1>6, <1>7 DEF ApprovalTypes, ResearchWalk, ApprovalStands, RunTypes,
     Alive, Iteration
<1>10. ResearchWalk'
  BY <1>1, <1>2, <1>3, <1>4, <1>5, <1>6, <1>7 DEF ResearchWalk, ApprovalTypes, ApprovalStands, InForce,
     Sufficient, RunTypes, Alive, Iteration
<1>11. ApprovalStands'
  BY <1>1, <1>2, <1>3, <1>5, <1>6, StepNames DEF ApprovalStands, ApprovalTypes, InForce, Sufficient,
     DrivenStatus, Alive
<1> QED
  BY <1>8, <1>9, <1>10, <1>11

\* The walk begins again, or the run ends.
LEMMA ContinueStep ==
    ASSUME IInv, Research, R!Continue,
           UNCHANGED <<qaVars, reviewVars>>
    PROVE  CommonInv' /\ ResearchInv'
<1> USE DEF IInv, CommonInv, ResearchInv
<1>1. pc = "clean" /\ Spot = "clean"
  BY DEF Spot, R!Continue, R!CleanInput
<1>2. /\ pc' = IF mem.iter = MaxIterations THEN "exhausted" ELSE "research"
      /\ files' \in {files, files \ {input.ver - 1}}
      /\ UNCHANGED <<workflow, run, owner, step, out, input, mem, approval, rounds, final>>
  BY DEF qaVars, R!Continue, R!CleanInput, R!researchVars, R!Goto
<1>3. mem.iter = input.iter /\ input.iter <= MaxIterations /\ input.iter \in Nat
  BY <1>1 DEF Iteration, RunTypes
<1>4. Spot' = pc'
  BY <1>2 DEF Spot
<1>5. input.ver \in files' /\ files' \subseteq Nat
  BY <1>2 DEF InputFile, RunTypes
<1>6. CommonInv'
  BY <1>1, <1>2, <1>3, <1>5 DEF RunTypes, MemTypes, AtDriver, Alive, Iteration, InputFile
<1>7. ApprovalTypes'
  BY <1>1, <1>2, <1>3, <1>4, <1>5 DEF ApprovalTypes, ResearchWalk, ApprovalStands, RunTypes, Alive,
     Iteration
<1>8. ResearchWalk'
  BY <1>1, <1>2, <1>3, <1>4, Bounded DEF ResearchWalk
<1>9. ApprovalStands'
  BY <1>1, <1>2, <1>3, <1>4, <1>5 DEF ApprovalStands, ApprovalTypes, ResearchWalk, InForce, Sufficient,
     DrivenStatus, RunTypes, Alive, Iteration
<1> QED
  BY <1>6, <1>7, <1>8, <1>9

\* The approval is asked for: research is done and suffices.
LEMMA AskStep ==
    ASSUME IInv, Research, R!AskApproval,
           UNCHANGED <<qaVars, reviewVars>>
    PROVE  CommonInv' /\ ResearchInv'
<1> USE DEF IInv, CommonInv, ResearchInv
<1>1. pc = "judge" /\ Spot = "judge"
  BY DEF Spot, R!AskApproval
<1>2. /\ UNCHANGED <<workflow, run, owner, step, out, input, files, mem, pc, rounds, final>>
      /\ approval.decision = "none" /\ approval.status # "waiting" /\ out["research-review"] # "more"
      /\ approval' = [approval EXCEPT !.status = IF approval.status = "absent" THEN "pending" ELSE "waiting"]
  BY DEF qaVars, R!AskApproval, R!Wanted, R!runVars
<1>3. /\ approval' \in [status : {"absent", "pending", "waiting", "completed"}, decision : {"none", "approved", "rejected"}]
      /\ approval'.decision = "none"
  BY <1>2 DEF ApprovalTypes
<1>4. Spot' = "judge"
  BY <1>1, <1>2 DEF Spot
<1>5. CommonInv'
  BY <1>2 DEF RunTypes, MemTypes, AtDriver, Alive, Iteration, InputFile, Follows, Research
<1>6. ApprovalTypes'
  BY <1>1, <1>2, <1>3, <1>4 DEF ApprovalTypes, ResearchWalk, ApprovalStands, RunTypes, Alive, Iteration
<1>7. ResearchWalk'
  BY <1>1, <1>2, <1>3, <1>4 DEF ResearchWalk, ApprovalTypes, ApprovalStands, InForce, Sufficient,
     RunTypes, Alive, Iteration
<1>8. ApprovalStands'
  BY <1>1, <1>2, <1>3, <1>4 DEF ApprovalStands, ApprovalTypes, ResearchWalk, InForce, Sufficient,
     DrivenStatus, RunTypes, Alive, Iteration
<1> QED
  BY <1>5, <1>6, <1>7, <1>8

\* The run waits for the person, or is over.
LEMMA ResearchOverStep ==
    ASSUME IInv, Research, R!AwaitApproval \/ R!Exhausted \/ R!Built, UNCHANGED <<qaVars, reviewVars>>
    PROVE  CommonInv' /\ ResearchInv'
<1>1. UNCHANGED <<approval, rounds, final>>
  BY DEF qaVars, R!AwaitApproval, R!Exhausted, R!Built, R!Wanted, R!SaveRunStatus, R!researchVars,
     R!Leave
<1>2. CASE R!AwaitApproval
  <2>1. SavedAs("waiting") /\ approval.status = "waiting"
    BY <1>2, IdleMem DEF SavedAs, R!AwaitApproval, R!Exhausted, R!Built, R!Wanted, R!SaveRunStatus,
       R!researchVars, R!Leave
  <2> QED
    BY <1>1, <2>1, ResearchSaves DEF Runs
<1>3. CASE R!Exhausted
  <2>1. SavedAs("failed")
    BY <1>3, IdleMem DEF SavedAs, R!AwaitApproval, R!Exhausted, R!Built, R!Wanted, R!SaveRunStatus,
       R!researchVars, R!Leave
  <2> QED
    BY <1>1, <2>1, ResearchSaves DEF Runs
<1>4. CASE R!Built
  <2>1. SavedAs("completed") /\ pc = "built"
    BY <1>4, IdleMem DEF SavedAs, R!AwaitApproval, R!Exhausted, R!Built, R!Wanted, R!SaveRunStatus,
       R!researchVars, R!Leave
  <2>2. step["build"] = "completed"
    BY <2>1 DEF IInv, ResearchInv, ResearchWalk, Spot
  <2> QED
    BY <1>1, <2>1, <2>2, ResearchSaves DEF Runs
<1> QED
  BY <1>2, <1>3, <1>4

\* The plan may be made.
LEMMA ApprovedStep ==
    ASSUME IInv, Research, R!Approved,
           UNCHANGED <<qaVars, reviewVars>>
    PROVE  CommonInv' /\ ResearchInv'
<1> USE DEF IInv, CommonInv, ResearchInv
<1>1. pc = "judge" /\ Spot = "judge"
  BY DEF Spot, R!Approved
<1>2. /\ Moved("plan") /\ UNCHANGED <<rounds, final>>
      /\ approval.decision = "approved" /\ approval' = [approval EXCEPT !.status = "completed"]
  BY DEF qaVars, Moved, R!Approved, R!Wanted, R!Goto
<1>3. approval' = [status |-> "completed", decision |-> "approved"]
  BY <1>2 DEF ApprovalTypes
<1>4. Spot' = "plan"
  BY <1>2 DEF Spot, Moved
<1>5. CommonInv'
  BY <1>1, <1>2, MovedCommon
<1>6. ApprovalTypes'
  BY <1>2, <1>3 DEF ApprovalTypes
<1>7. ResearchWalk'
  BY <1>1, <1>2, <1>3, <1>4 DEF ResearchWalk, ApprovalTypes, ApprovalStands, InForce, Sufficient,
     RunTypes, Alive, Iteration, Moved
<1>8. ApprovalStands'
  BY <1>1, <1>2, <1>3 DEF Moved, ApprovalStands, ApprovalTypes, InForce, Sufficient, Alive
<1> QED
  BY <1>5, <1>6, <1>7, <1>8

\* The build may begin.
LEMMA ProceedStep ==
    ASSUME IInv, Research, R!Proceed,
           UNCHANGED <<qaVars, reviewVars>>
    PROVE  CommonInv' /\ ResearchInv'
<1> USE DEF IInv, CommonInv, ResearchInv
<1>1. pc = "dispose" /\ Spot = "dispose"
  BY DEF Spot, R!Proceed
<1>2. Moved("build") /\ UNCHANGED <<approval, rounds, final>> /\ out["plan"] # "stop"
  BY DEF qaVars, Moved, R!Proceed, R!Goto, R!researchVars
<1>3. Spot' = "build"
  BY <1>2 DEF Spot, Moved
<1>4. CommonInv'
  BY <1>1, <1>2, MovedCommon
<1>5. ApprovalTypes'
  BY <1>1, <1>2, <1>3 DEF ApprovalTypes, ResearchWalk, ApprovalStands, RunTypes, Alive, Iteration, Moved
<1>6. ResearchWalk'
  BY <1>1, <1>2, <1>3 DEF ResearchWalk, ApprovalTypes, ApprovalStands, InForce, Sufficient, RunTypes,
     Alive, Iteration, Moved
<1>7. ApprovalStands'
  BY <1>1, <1>2, <1>3 DEF ApprovalStands, ApprovalTypes, ResearchWalk, InForce, Sufficient,
     DrivenStatus, RunTypes, Alive, Iteration, Moved
<1> QED
  BY <1>4, <1>5, <1>6, <1>7

\* A plan that stops completes the run, a step that failed fails it; steps that are
\* neither done nor driven are skipped.
LEMMA ResearchSkipsStep ==
    ASSUME IInv, Research, R!Dispose \/ R!ResearchFailed, UNCHANGED <<qaVars, reviewVars>>
    PROVE  CommonInv' /\ ResearchInv'
<1> USE DEF IInv, CommonInv, ResearchInv
<1>1. UNCHANGED <<approval, rounds, final, workflow, out, input, files>> /\ pc' = "idle" /\ mem' = Idle /\ owner' = "none"
  BY IdleMem DEF qaVars, R!Dispose, R!ResearchFailed, R!Leave, R!researchVars, R!Skipped, R!StepsOf,
     R!FailureStatus
<1>2. CASE R!Dispose
  <2>1. pc = "dispose" /\ Spot = "dispose" /\ run' = "completed" /\ out["plan"] = "stop"
    BY <1>2 DEF R!Dispose, Spot
  <2>2. step["build"] \notin DrivenStatus
    BY <2>1 DEF ApprovalStands
  <2>3. step' = [s \in Steps |-> IF s = "build" /\ step[s] # "cancelled" THEN "skipped" ELSE step[s]]
    BY <1>2 DEF R!Dispose, R!Skipped, R!Steps, Steps
  <2>4. Weakened /\ step'["build"] \notin DrivenStatus
    BY <2>2, <2>3, StepNames DEF Weakened, RunTypes, Statuses, DrivenStatus
  <2>5. Ended
    BY <1>1, <2>1, <2>4, IdleMem DEF Ended, Runs
  <2> QED
    BY <1>1, <2>1, <2>4, <2>5, ResearchEnds
<1>3. CASE R!ResearchFailed
  <2>1. run' \in {"cancelled", "failed"}
    BY <1>3 DEF R!ResearchFailed, R!FailureStatus
  <2> DEFINE Skip == {s \in R!StepsOf(workflow) : step[s] \notin {"completed", "pending"} /\ s # mem.cur}
  <2>2. step' = [s \in Steps |-> IF s \in Skip /\ step[s] # "cancelled" THEN "skipped" ELSE step[s]]
    BY <1>3 DEF R!ResearchFailed, R!Skipped, R!Steps, Steps
  <2>3. \A s \in Skip : step[s] # "completed"
    OBVIOUS
  <2> HIDE DEF Skip
  <2>4. Weakened
    BY <2>2, <2>3 DEF Weakened, RunTypes, Statuses, DrivenStatus
  <2>5. Ended
    BY <1>1, <2>1, <2>4, IdleMem DEF Ended, Runs
  <2> QED
    BY <1>1, <2>1, <2>5, ResearchEnds
<1> QED
  BY <1>2, <1>3

\* A person decides: what is approved is the research as it is.
LEMMA DecideStep ==
    ASSUME IInv, Research, R!DecideApproval,
           UNCHANGED <<qaVars, reviewVars>>
    PROVE  CommonInv' /\ ResearchInv'
<1> USE DEF IInv, CommonInv, ResearchInv
<1>1. /\ Begun("research") /\ final' = final /\ approval.status = "waiting" /\ input.iter < MaxIterations
      /\ mem' = [Idle EXCEPT !.iter = input.iter, !.feedback = input.feedback]
      /\ \E decision \in {"approved", "rejected"} :
           /\ approval' = [status |-> "pending", decision |-> decision]
           /\ rounds' = IF decision = "approved" THEN [rounds EXCEPT !.approved = rounds.done] ELSE rounds
  BY IdleMem, MemStarted DEF qaVars, Begun, RunTypes, R!DecideApproval, R!Claim, R!Idle
<1>2. Spot' = "research"
  BY <1>1 DEF Spot, Begun
<1>3. CommonInv'
  BY <1>1, BegunCommon
<1>4. ApprovalTypes'
  BY <1>1, <1>2 DEF ApprovalTypes, ResearchWalk, ApprovalStands, RunTypes, Alive, Iteration, Begun
<1>5. ResearchWalk'
  BY <1>1, <1>2 DEF ResearchWalk, ApprovalTypes, ApprovalStands, InForce, Sufficient, RunTypes, Alive,
     Iteration, Begun
<1>6. ApprovalStands'
  BY <1>1, <1>2 DEF ApprovalStands, ApprovalTypes, ResearchWalk, InForce, Sufficient, DrivenStatus,
     RunTypes, Alive, Iteration, Begun
<1> QED
  BY <1>3, <1>4, <1>5, <1>6

\* A resume walks from the beginning.
LEMMA ResearchResumes ==
    ASSUME IInv, Research, Begun("research"), input.iter < MaxIterations, UNCHANGED <<approval, rounds, final>>
    PROVE  CommonInv' /\ ResearchInv'
<1> USE DEF IInv, CommonInv, ResearchInv
<1>1. CommonInv'
  BY BegunCommon
<1>2. Spot' = "research"
  BY DEF Begun, Spot
<1>3. ApprovalTypes' /\ ResearchWalk'
  BY <1>2 DEF Begun, ApprovalTypes, ResearchWalk
<1>4. ApprovalStands'
  BY DEF Begun, ApprovalStands, InForce, Sufficient
<1> QED
  BY <1>1, <1>3, <1>4

\* Every step of the research coordinator and of the person it asks.
LEMMA ResearchStep ==
    ASSUME IInv, Research, R!ResearchNext \/ R!DecideApproval, UNCHANGED <<qaVars, reviewVars>>
    PROVE  CommonInv' /\ ResearchInv'
<1>1. CASE \E p \in ResearchPhases : R!ResearchPhase(p[1], p[2], p[3])
  BY <1>1, ResearchPhaseStep DEF ResearchPhases
<1>2. CASE R!ResearchReturn
  BY <1>2, ResearchReturnStep
<1>3. CASE R!NextRound \/ R!Checkpoint \/ R!Continue
  BY <1>3, NextRoundStep, CheckpointStep, ContinueStep
<1>4. CASE R!AskApproval \/ R!AwaitApproval \/ R!Exhausted \/ R!Built
  BY <1>4, AskStep, ResearchOverStep
<1>5. CASE R!Approved \/ R!Proceed \/ R!Dispose \/ R!ResearchFailed
  BY <1>5, ApprovedStep, ProceedStep, ResearchSkipsStep
<1>6. CASE R!DecideApproval
  BY <1>6, DecideStep
<1> QED
  BY <1>1, <1>2, <1>3, <1>4, <1>5, <1>6 DEF R!ResearchNext, ResearchPhases

-----------------------------------------------------------------------------
(* plan-build-qa and todo-build-qa *)

\* The rounds that there may be.
LEMMA QaNumbers ==
    ASSUME IInv, Qa
    PROVE  /\ input.iter \in 0..2 /\ input.iter < MaxIterations
           /\ QaAt[input.iter] \in Steps /\ (input.iter < 2 => FixAt[input.iter] \in Steps)
           /\ (pc \notin {"idle", "input", "explain"} => mem.iter = input.iter)
<1>1. input.iter \in Nat /\ input.iter < MaxIterations
  BY DEF IInv, CommonInv, QaInv, QaWalk, RunTypes
<1>2. input.iter = 0 \/ input.iter = 1 \/ input.iter = 2
  BY <1>1, Bounded
<1>3. pc \notin {"idle", "input", "explain"} => mem.iter = input.iter
  BY DEF IInv, CommonInv, Iteration
<1> QED
  BY <1>1, <1>2, <1>3, IterationNames, StepNames

\* What is completed stays so, with what its artifact says.
Kept == \A s \in Steps : step[s] = "completed" => step'[s] = "completed" /\ out'[s] = out[s]

\* What may be built may be built as long as nothing completed is lost.
LEMMA MayBuildStays ==
    ASSUME Kept, workflow' = workflow, MayBuild
    PROVE  MayBuild'
BY StepNames DEF Kept, MayBuild

\* What is accepted stays accepted.
LEMMA AcceptedStays ==
    ASSUME Kept, UNCHANGED <<workflow, input>>, QaAccepted, QaAt[input.iter] \in Steps,
           step'["build"] \in DrivenStatus => step["build"] \in DrivenStatus \/ MayBuild
    PROVE  QaAccepted'
BY StepNames DEF Kept, QaAccepted, MayBuild, Walking, Todo

\* Weakened rows keep what the walk relies on.
LEMMA WeakenedRows ==
    ASSUME IInv, Qa, Weakened, UNCHANGED <<workflow, input, out>>
    PROVE  /\ MayBuild => MayBuild'
           /\ QaAccepted => QaAccepted'
           /\ QaRows'
<1>1. Kept
  BY DEF Kept, Weakened
<1>2. QaAt[input.iter] \in Steps
  BY QaNumbers
<1>3. step'["build"] \in DrivenStatus => step["build"] \in DrivenStatus
  BY StepNames DEF Weakened
<1>4. (MayBuild => MayBuild') /\ (QaAccepted => QaAccepted')
  BY <1>1, <1>2, <1>3, MayBuildStays, AcceptedStays
<1>5. \A s \in Steps : step[s] = "completed" => step'[s] = "completed"
  BY <1>1 DEF Kept
<1>6. \A s \in Steps : step'[s] \in DrivenStatus => step[s] \in DrivenStatus
  BY DEF Weakened
<1>7. QaRows
  BY DEF IInv, QaInv
<1>8. QaRows'
  BY <1>4, <1>5, <1>6, <1>7, StepNames DEF QaRows, BuildSteps, QaRounds, Fixes
<1> QED
  BY <1>4, <1>8

\* A walk that ends leaves the rows and the history consistent.
LEMMA QaEnds ==
    ASSUME IInv, Qa, Ended, UNCHANGED <<found, occ, events, final>>, run' # "waiting",
           run' = "completed" => QaAccepted /\ (workflow = Walking => VerifiedUpTo)
    PROVE  CommonInv' /\ QaInv'
<1> USE DEF IInv, CommonInv, QaInv
<1>1. CommonInv'
  BY EndedCommon
<1>2. Spot' = "idle" /\ pc' = "idle" /\ UNCHANGED <<workflow, input, out>>
  BY DEF Ended, Spot
<1>3. (MayBuild => MayBuild') /\ (QaAccepted => QaAccepted') /\ QaRows'
  BY <1>2, WeakenedRows DEF Ended
<1>4. QaTypes' /\ QaWalk'
  BY <1>2 DEF QaTypes, QaWalk
<1>5. QaStands'
  BY <1>2, <1>3 DEF QaStands, Claimed
<1>6. History'
  BY <1>2, <1>3 DEF History, VerifiedUpTo
<1> QED
  BY <1>1, <1>3, <1>4, <1>5, <1>6

\* Walking on changes nothing but the position, and events may be added.
LEMMA QaMoves ==
    ASSUME IInv, Qa, NEW label, Moved(label), pc \notin {"idle", "input", "explain"},
           label \notin {"idle", "drive", "input", "report", "close"},
           UNCHANGED <<found, occ, final>>, events \subseteq events'
    PROVE  CommonInv' /\ QaTypes' /\ QaRows' /\ QaStands' /\ History' /\ Spot' = label
<1> USE DEF IInv, CommonInv, QaInv
<1>1. CommonInv'
  BY MovedCommon
<1>2. UNCHANGED <<workflow, run, step, out, input>> /\ pc' = label /\ run = "running"
  BY DEF Moved, Alive
<1>3. QaTypes' /\ Spot' = label
  BY <1>2 DEF QaTypes, Spot
<1>4. QaRows'
  BY <1>2 DEF QaRows, MayBuild
<1>5. QaStands'
  BY <1>2 DEF QaStands, Claimed, QaAccepted
<1>6. History'
  BY <1>2 DEF History, MayBuild
<1> QED
  BY <1>1, <1>3, <1>4, <1>5, <1>6

\* A report that is to be written claims no more than the rows say.
LEMMA QaFinishes ==
    ASSUME IInv, Qa, NEW status \in {"completed", "failed", "cancelled"}, Finished(status),
           pc \notin {"idle", "input", "explain"}, UNCHANGED <<found, occ, events, final>>,
           status = "completed" => QaAccepted /\ (workflow = Walking => VerifiedUpTo)
    PROVE  CommonInv' /\ QaInv'
<1> USE DEF IInv, CommonInv, QaInv
<1>1. CommonInv'
  BY DEF Finished, Weakened, RunTypes, MemTypes, AtDriver, Alive, Iteration, InputFile
<1>2. /\ Spot' = "report" /\ pc' = "report" /\ UNCHANGED <<workflow, run, input, out>> /\ run = "running"
      /\ mem'.verdict = status
  BY DEF Finished, Spot, Alive
<1>3. (MayBuild => MayBuild') /\ (QaAccepted => QaAccepted') /\ QaRows'
  BY <1>2, WeakenedRows DEF Finished
<1>4. QaTypes' /\ QaWalk'
  BY <1>2 DEF QaTypes, QaWalk
<1>5. QaStands'
  BY <1>2, <1>3 DEF QaStands, Claimed
<1>6. History'
  BY <1>2, <1>3 DEF History, VerifiedUpTo
<1> QED
  BY <1>1, <1>3, <1>4, <1>5, <1>6

\* A phase, its step and the phase after it.
QaPhase(l, s, a) ==
    \/ workflow = Walking /\ <<l, s, a>> \in {<<"scope", "scope", "scoped">>, <<"plan", "plan", "build">>}
    \/ workflow = Todo /\ <<l, s, a>> \in {<<"validate-todo", "validate-todo", "assessed">>,
                                           <<"prepare", "prepare", "build">>}
    \/ <<l, s, a>> = <<"build", "build", "loop">>
    \/ l = "qa" /\ s = QaAt[mem.iter] /\ a = "record"
    \/ l = "fix" /\ mem.iter < 2 /\ s = FixAt[mem.iter] /\ a = "fixed"

\* What the phases of the walk have in common.
LEMMA QaPhaseFacts ==
    ASSUME IInv, Qa, NEW l, NEW s, NEW a, QaPhase(l, s, a), 
           pc = l \/ (Spot = l /\ pc = "drive")
    PROVE  /\ s \in Steps /\ a \in Afters /\ <<s, a>> \in Follows /\ PhaseOf(s) = l
           /\ l \notin {"idle", "input", "explain", "drive", "report", "close", "event"}
           /\ a \notin {"idle", "input", "explain", "drive", "report", "close", "event"}
           /\ mem.iter = input.iter
<1>1. /\ l \notin {"idle", "input", "explain", "drive", "report", "close", "event"}
      /\ a \notin {"idle", "input", "explain", "drive", "report", "close", "event"} /\ a \in Afters
  BY DEF QaPhase, Afters
<1>2. mem.iter = input.iter /\ mem.iter \in {0, 1, 2}
  BY <1>1, QaNumbers
<1>3. s \in Steps /\ PhaseOf(s) = l
  BY <1>2, IterationNames, StepNames DEF QaPhase, PhaseOf, QaRounds, Fixes
<1>4. <<s, a>> \in Follows
  BY <1>2, IterationNames DEF QaPhase, Follows, Research, Walking, Todo, Qa
<1> QED
  BY <1>1, <1>2, <1>3, <1>4

\* A completed step is reused.
LEMMA QaPhaseReused ==
    ASSUME IInv, Qa, NEW l, NEW s, NEW a, QaPhase(l, s, a), pc = l, step[s] = "completed", Moved(a),
           UNCHANGED <<found, occ, events, final>>
    PROVE  CommonInv' /\ QaInv'
<1>1. /\ l \notin {"idle", "input", "explain", "drive"} /\ mem.iter = input.iter
      /\ a \notin {"idle", "input", "explain", "drive", "report", "close"}
  BY QaPhaseFacts
<1>2. CommonInv' /\ QaTypes' /\ QaRows' /\ QaStands' /\ History' /\ Spot' = a
  BY <1>1, QaMoves
<1>3. Spot = l
  BY <1>1 DEF Spot
<1>4. QaWalk'
  BY <1>1, <1>2, <1>3 DEF IInv, QaInv, QaWalk, QaPhase, Moved, MayBuild, Walking, Todo, Qa
<1> QED
  BY <1>2, <1>4 DEF QaInv

\* A step goes to the driver: what it builds on is completed.
LEMMA QaPhaseDriven ==
    ASSUME IInv, Qa, NEW l, NEW s, NEW a, QaPhase(l, s, a), pc = l, step[s] \in Eligible, Driving(s, a),
           UNCHANGED <<found, occ, events, final>>
    PROVE  CommonInv' /\ QaInv'
<1> USE DEF IInv, CommonInv, QaInv
<1>1. /\ l \notin {"idle", "input", "explain", "drive", "report", "close"} /\ mem.iter = input.iter
      /\ s \in Steps /\ a \in Afters /\ <<s, a>> \in Follows /\ PhaseOf(s) = l
  BY QaPhaseFacts
<1>2. CommonInv'
  BY <1>1, DrivingCommon
<1>3. Spot = l /\ Spot' = l /\ pc' = "drive"
  BY <1>1 DEF Spot, Driving
<1>4. /\ \A t \in Steps : t # s => step'[t] = step[t]
      /\ step'[s] = "running" /\ step[s] # "completed"
  BY <1>1 DEF Driving, RunTypes, Eligible
<1>5. UNCHANGED <<workflow, run, out, input>> /\ mem'.iter = mem.iter /\ run = "running"
  BY <1>1 DEF Driving, Alive
<1>6. Kept
  BY <1>4, <1>5 DEF Kept
<1>7. MayBuild => MayBuild'
  BY <1>5, <1>6, MayBuildStays
<1>8. s \in BuildSteps \/ s = "plan" => MayBuild
  BY <1>1, <1>3, IterationNames DEF QaPhase, QaWalk, BuildSteps, QaRounds, Fixes
<1>9. QaAccepted => QaAccepted'
  <2>1. step'["build"] \in DrivenStatus => step["build"] \in DrivenStatus \/ MayBuild
    BY <1>4, <1>8, StepNames DEF BuildSteps
  <2> QED
    BY <1>5, <1>6, <2>1, QaNumbers, AcceptedStays
<1>10. QaTypes'
  BY <1>3, <1>5 DEF QaTypes
<1>11. QaWalk'
  <2>1. \A t \in Steps : step[t] = "completed" => step'[t] = "completed"
    BY <1>6 DEF Kept
  <2>2. \A i \in 0..2 : QaAt[i] \in Steps
    BY IterationNames, StepNames
  <2>3. mem.iter \in 0..2
    BY <1>1, QaNumbers
  <2>4. l \in {"fix", "fixed", "record", "event"} => step'[QaAt[mem.iter]] = "completed"
    BY <1>3, <2>1, <2>2, <2>3 DEF QaWalk
  <2>5. l = "prepare" => step'["validate-todo"] = "completed"
    BY <1>3, <2>1, StepNames DEF QaWalk
  <2>6. l \in {"scope", "plan", "validate-todo", "prepare", "build", "qa", "fix"}
    BY DEF QaPhase
  <2> QED
    BY <1>3, <1>5, <1>7, <2>4, <2>5, <2>6 DEF QaWalk
<1>12. QaRows'
  <2>1. l = "fix" => /\ step[QaAt[mem.iter]] = "completed" /\ out[QaAt[mem.iter]] = "block"
                     /\ mem.iter < 2 /\ mem.iter \in {0, 1, 2} /\ s = FixAt[mem.iter]
    BY <1>1, <1>3, QaNumbers, Bounded DEF QaWalk, QaPhase
  <2>2. s = "fix-1" => step["qa"] = "completed" /\ out["qa"] = "block"
    BY <1>1, <2>1, IterationNames DEF PhaseOf, QaRounds, Fixes
  <2>3. s = "fix-2" => step["qa-2"] = "completed" /\ out["qa-2"] = "block" /\ input.iter > 0
    BY <1>1, <2>1, IterationNames DEF PhaseOf, QaRounds, Fixes
  <2>4. s = "prepare" => out["validate-todo"] = "prepare" /\ step["validate-todo"] = "completed"
    BY <1>1, <1>3 DEF QaWalk, PhaseOf, QaRounds, Fixes
  <2>5. \A t \in Steps : step[t] = "completed" => step'[t] = "completed"
    BY <1>6 DEF Kept
  <2>6. s # "fix"
    BY IterationNames, QaNumbers, <1>1 DEF QaPhase
  <2>7. \A t \in Steps : step'[t] \in DrivenStatus => t = s \/ step[t] \in DrivenStatus
    BY <1>4
  <2> QED
    BY <1>5, <1>7, <1>8, <2>2, <2>3, <2>4, <2>5, <2>6, <2>7, StepNames DEF QaRows, BuildSteps, QaRounds,
       Fixes
<1>13. QaStands'
  BY <1>3, <1>5, <1>9, <1>1 DEF QaStands, Claimed
<1>14. History'
  BY <1>3, <1>5, <1>7 DEF History
<1> QED
  BY <1>2, <1>10, <1>11, <1>12, <1>13, <1>14

\* A step that may not be retried fails again.
LEMMA QaPhaseFailed ==
    ASSUME IInv, Qa, NEW s, FailedAgain(s), pc \notin {"idle", "input", "explain", "drive"},
           UNCHANGED <<found, occ, events, final>>
    PROVE  CommonInv' /\ QaInv'
<1> USE DEF IInv, CommonInv, QaInv
<1>1. CommonInv'
  BY FailedCommon
<1>2. Spot' = "failed" /\ pc' = "failed" /\ UNCHANGED <<workflow, run, step, out, input>> /\ run = "running"
  BY DEF FailedAgain, Spot, Alive
<1>3. QaTypes' /\ QaWalk' /\ QaRows'
  BY <1>2 DEF QaTypes, QaWalk, QaRows, MayBuild
<1>4. QaStands' /\ History'
  BY <1>2 DEF QaStands, Claimed, QaAccepted, History, MayBuild
<1> QED
  BY <1>1, <1>3, <1>4

\* The phases of the walk.
LEMMA QaPhaseStep ==
    ASSUME IInv, Qa, NEW l, NEW s, NEW a, QaPhase(l, s, a), Q!QaPhase(l, s, a), UNCHANGED <<researchVars, reviewVars>>
    PROVE  CommonInv' /\ QaInv'
<1>1. /\ pc = l /\ UNCHANGED <<found, occ, events, final>>
      /\ l \notin {"idle", "input", "explain", "drive"} /\ s \in Steps /\ a \in Afters
  BY QaPhaseFacts DEF Q!QaPhase, Q!Phase, Q!qaVars
<1>2. mem \in MemRecords /\ Q!Eligible = Eligible
  BY DEF IInv, CommonInv, MemTypes, Q!Eligible, Eligible
<1>3. CASE step[s] = "completed" /\ Moved(a)
  BY <1>1, <1>3, QaPhaseReused
<1>4. CASE step[s] \in Eligible /\ Q!Drive(s, a)
  <2>1. mem' = [mem EXCEPT !.cur = s, !.after = a]
    BY <1>4 DEF Q!Drive
  <2>2. mem' \in MemRecords /\ mem'.cur = s /\ mem'.after = a /\ mem'.iter = mem.iter
    BY <1>1, <1>2, <2>1 DEF MemRecords
  <2>3. Driving(s, a)
    BY <1>4, <2>2 DEF Q!Drive, Q!Goto, Driving
  <2> QED
    BY <1>1, <1>4, <2>3, QaPhaseDriven
<1>5. CASE /\ pc' = "failed" /\ mem' = [mem EXCEPT !.cur = s]
           /\ UNCHANGED <<workflow, run, owner, step, out, input, files>>
  <2>1. mem' \in MemRecords /\ mem'.cur = s /\ mem'.iter = mem.iter
    BY <1>1, <1>2, <1>5 DEF MemRecords
  <2>2. FailedAgain(s)
    BY <1>5, <2>1 DEF FailedAgain
  <2> QED
    BY <1>1, <2>2, QaPhaseFailed
<1> QED
  BY <1>2, <1>3, <1>4, <1>5 DEF Q!QaPhase, Q!Phase, Q!Goto, Moved

\* The driver is done with a step that was running, so nothing relied on it yet.
LEMMA QaReturnStep ==
    ASSUME IInv, Qa, Q!QaReturn, UNCHANGED <<researchVars, reviewVars>>
    PROVE  CommonInv' /\ QaInv'
<1> USE DEF IInv, CommonInv, QaInv
<1>1. /\ pc = "drive" /\ mem.cur \in Steps /\ step[mem.cur] = "running"
      /\ <<mem.cur, mem.after>> \in Follows
  BY DEF Q!QaReturn, Q!Return, AtDriver
<1>2. Spot = PhaseOf(mem.cur) /\ mem.iter = input.iter /\ input.iter \in {0, 1, 2}
  BY <1>1, QaNumbers DEF Spot
<1>3. QaPhase(PhaseOf(mem.cur), mem.cur, mem.after)
  BY <1>1, <1>2, IterationNames DEF QaPhase, Follows, PhaseOf, QaRounds, Fixes, Research, Walking, Todo,
     Qa
<1>4. mem.after \notin {"idle", "input", "explain", "drive", "report", "close", "event"}
  BY <1>1, <1>2, <1>3, QaPhaseFacts
<1>5. Returned(mem.cur, mem.after)
  BY <1>1 DEF Returned, Answers, Q!QaReturn, Q!Return, Q!Answers, Q!Goto
<1>6. CommonInv'
  BY <1>1, <1>4, <1>5, ReturnedCommon
<1>7. Spot' = mem.after /\ pc' = mem.after
  BY <1>4, <1>5 DEF Spot, Returned
<1>8. /\ \A t \in Steps : t # mem.cur => step'[t] = step[t] /\ out'[t] = out[t]
      /\ step'[mem.cur] = "completed"
  BY <1>1, <1>5 DEF Returned, RunTypes
<1>9. UNCHANGED <<workflow, run, input, mem, occ, events, final>> /\ run = "running"
  BY <1>1, <1>5 DEF Returned, Q!QaReturn, Alive
<1>10. Kept
  BY <1>1, <1>8 DEF Kept
<1>11. (MayBuild => MayBuild') /\ (QaAccepted => QaAccepted')
  <2>1. step'["build"] \in DrivenStatus => step["build"] \in DrivenStatus
    BY <1>1, <1>8, StepNames DEF DrivenStatus
  <2> QED
    BY <1>9, <1>10, <2>1, QaNumbers, MayBuildStays, AcceptedStays
<1>12. /\ found' \in [1..MaxIterations -> SUBSET Findings]
       /\ \A i \in 1..input.iter : found'[i] = found[i]
  <2>1. CASE mem.after = "record"
    <3>1. PICK f \in SUBSET Findings : found' = [found EXCEPT ![mem.iter + 1] = f]
      BY <2>1 DEF Q!QaReturn
    <3>2. mem.iter + 1 \in Nat /\ \A i \in 1..input.iter : i # mem.iter + 1 /\ i \in 1..MaxIterations
      BY <1>2, QaNumbers, Bounded
    <3> QED
      BY <3>1, <3>2 DEF QaTypes
  <2>2. CASE mem.after # "record"
    BY <2>2, QaNumbers, Bounded DEF Q!QaReturn, QaTypes
  <2> QED
    BY <2>1, <2>2
<1>13. QaTypes'
  BY <1>4, <1>7, <1>9, <1>12 DEF QaTypes
<1>14. QaWalk'
  <2>1. QaWalk /\ PhaseOf(mem.cur) = Spot
    BY <1>2
  <2> QED
    BY <1>2, <1>3, <1>7, <1>8, <1>9, <1>11, <2>1, StepNames, IterationNames
       DEF QaWalk, QaPhase, MayBuild, Walking, Todo, Qa
<1>15. QaRows'
  <2>1. \A t \in Steps : step'[t] \in DrivenStatus => step[t] \in DrivenStatus
    BY <1>1, <1>8 DEF DrivenStatus
  <2>2. \A t \in Steps : step[t] = "completed" => step'[t] = "completed" /\ out'[t] = out[t]
    BY <1>10 DEF Kept
  <2> QED
    BY <1>9, <1>11, <2>1, <2>2, StepNames DEF QaRows, BuildSteps, QaRounds, Fixes
<1>16. QaStands'
  BY <1>4, <1>7, <1>9, <1>11 DEF QaStands, Claimed
<1>17. History'
  BY <1>4, <1>7, <1>9, <1>11, <1>12 DEF History
<1> QED
  BY <1>6, <1>13, <1>14, <1>15, <1>16, <1>17

\* Skipping steps that are not completed loses nothing.
LEMMA SkipWeakens ==
    ASSUME CommonInv, NEW skip, \A s \in skip : step[s] # "completed", step' = Q!Skipped(skip)
    PROVE  Weakened
<1>1. step' = [s \in Steps |-> IF s \in skip /\ step[s] # "cancelled" THEN "skipped" ELSE step[s]]
  BY DEF Q!Skipped, Q!Steps, Steps
<1> QED
  BY <1>1 DEF CommonInv, RunTypes, Weakened, Statuses, DrivenStatus

\* Nor does leaving the rows alone.
LEMMA SameWeakens ==
    ASSUME CommonInv, step' = step
    PROVE  Weakened
BY DEF CommonInv, RunTypes, Weakened

\* The first half of finish.
LEMMA FinishShape ==
    ASSUME CommonInv, NEW status \in {"completed", "failed", "cancelled"}, Q!Finish(status), Weakened
    PROVE  Finished(status)
<1>1. mem' = [mem EXCEPT !.verdict = status] /\ mem \in MemRecords /\ status \in Verdicts
  BY DEF Q!Finish, CommonInv, MemTypes, Verdicts
<1>2. mem' \in MemRecords /\ mem'.verdict = status /\ mem'.iter = mem.iter
  BY <1>1 DEF MemRecords
<1> QED
  BY <1>2 DEF Q!Finish, Q!Goto, Finished

\* The answer before the build: it stops the run, asks for preparation, or the
\* walk goes on.
LEMMA BeforeBuildStep ==
    ASSUME IInv, Qa, UNCHANGED <<researchVars, reviewVars>>,
           \/ Q!ScopeStops \/ Q!ScopeProceeds
           \/ Q!TodoBlocked \/ Q!TodoNeedsPreparation \/ Q!TodoReady
    PROVE  CommonInv' /\ QaInv'
<1> USE DEF IInv, CommonInv, QaInv
<1>1. UNCHANGED <<found, occ, events, final>>
  BY DEF Q!ScopeStops, Q!ScopeProceeds, Q!TodoBlocked, Q!TodoNeedsPreparation, Q!TodoReady,
         Q!Coordinates, Q!qaVars
<1>2. CASE Q!ScopeStops
  <2>1. /\ pc = "scoped" /\ Spot = "scoped" /\ workflow = Walking /\ out["scope"] = "stop"
        /\ step' = Q!Skipped({"plan", "build", "qa", "fix"}) /\ Q!Finish("completed")
    BY <1>2 DEF Q!ScopeStops, Q!Coordinates, Walking, Spot
  <2>2. step["scope"] = "completed" /\ ~MayBuild
    BY <2>1 DEF QaWalk, MayBuild
  <2>3. \A s \in {"plan", "build", "qa", "fix"} : step[s] \notin DrivenStatus
    BY <2>1, <2>2 DEF QaRows, BuildSteps, QaRounds
  <2>4. Weakened
    BY <2>1, <2>3, SkipWeakens DEF DrivenStatus
  <2>5. QaAccepted /\ VerifiedUpTo
    BY <2>1, <2>2, <2>3 DEF QaAccepted, History, VerifiedUpTo
  <2> QED
    BY <1>1, <2>1, <2>4, <2>5, FinishShape, QaFinishes
<1>3. CASE Q!TodoBlocked
  <2>1. /\ pc = "assessed" /\ Spot = "assessed" /\ workflow = Todo /\ out["validate-todo"] = "blocked"
        /\ step' = Q!Skipped({"prepare", "build", "qa"}) /\ Q!Finish("completed")
    BY <1>3 DEF Q!TodoBlocked, Q!Coordinates, Todo, Spot
  <2>2. step["validate-todo"] = "completed" /\ ~MayBuild /\ workflow # Walking
    BY <2>1 DEF QaWalk, MayBuild, Walking, Todo
  <2>3. \A s \in {"prepare", "build", "qa"} : step[s] \notin DrivenStatus
    BY <2>1, <2>2 DEF QaRows, BuildSteps, QaRounds
  <2>4. Weakened
    BY <2>1, <2>3, SkipWeakens DEF DrivenStatus
  <2>5. QaAccepted
    BY <2>1, <2>2, <2>3 DEF QaAccepted
  <2> QED
    BY <1>1, <2>1, <2>2, <2>4, <2>5, FinishShape, QaFinishes
<1>4. CASE Q!ScopeProceeds
  <2>1. pc = "scoped" /\ Spot = "scoped" /\ workflow = Walking /\ out["scope"] # "stop" /\ Moved("plan")
    BY <1>4 DEF Q!ScopeProceeds, Q!Coordinates, Q!Move, Q!Goto, Moved, Walking, Spot
  <2>2. CommonInv' /\ QaTypes' /\ QaRows' /\ QaStands' /\ History' /\ Spot' = "plan"
    BY <1>1, <2>1, QaMoves
  <2>3. QaWalk'
    BY <2>1, <2>2 DEF QaWalk, Moved, MayBuild
  <2> QED
    BY <2>2, <2>3
<1>5. CASE Q!TodoNeedsPreparation
  <2>1. /\ pc = "assessed" /\ Spot = "assessed" /\ workflow = Todo /\ out["validate-todo"] = "prepare"
        /\ Moved("prepare")
    BY <1>5 DEF Q!TodoNeedsPreparation, Q!Coordinates, Q!Move, Q!Goto, Moved, Todo, Spot
  <2>2. CommonInv' /\ QaTypes' /\ QaRows' /\ QaStands' /\ History' /\ Spot' = "prepare"
    BY <1>1, <2>1, QaMoves
  <2>3. QaWalk'
    BY <2>1, <2>2 DEF QaWalk, Moved, MayBuild
  <2> QED
    BY <2>2, <2>3
<1>6. CASE Q!TodoReady
  <2>1. /\ pc = "assessed" /\ Spot = "assessed" /\ workflow = Todo /\ out["validate-todo"] = "ready"
        /\ step' = Q!Skipped({"prepare"}) /\ pc' = "build"
        /\ UNCHANGED <<workflow, run, owner, out, input, files, mem>>
    BY <1>6 DEF Q!TodoReady, Q!Coordinates, Q!Goto, Todo, Spot
  <2>2. step["validate-todo"] = "completed" /\ MayBuild
    BY <2>1 DEF QaWalk, MayBuild, Walking, Todo
  <2>3. step["prepare"] \notin DrivenStatus
    BY <2>1 DEF QaRows
  <2>4. Weakened
    BY <2>1, <2>3, SkipWeakens DEF DrivenStatus
  <2>5. MayBuild' /\ (QaAccepted => QaAccepted') /\ QaRows'
    BY <2>1, <2>2, <2>4, WeakenedRows
  <2>6. CommonInv'
    BY <2>1, <2>4 DEF Weakened, RunTypes, MemTypes, AtDriver, Alive, Iteration, InputFile
  <2>7. Spot' = "build" /\ run = "running"
    BY <2>1 DEF Spot, Alive
  <2>8. QaTypes' /\ QaWalk'
    BY <1>1, <2>1, <2>5, <2>7 DEF QaTypes, QaWalk, Walking, Todo
  <2>9. QaStands' /\ History'
    BY <1>1, <2>1, <2>5, <2>7 DEF QaStands, Claimed, History
  <2> QED
    BY <2>5, <2>6, <2>8, <2>9
<1> QED
  BY <1>2, <1>3, <1>4, <1>5, <1>6

\* The top of the loop: another report, or the abort is seen.
LEMMA LoopTopStep ==
    ASSUME IInv, Qa, Q!LoopTop, UNCHANGED <<researchVars, reviewVars>>
    PROVE  CommonInv' /\ QaInv'
<1>1. pc = "loop" /\ Spot = "loop" /\ UNCHANGED <<found, occ, events, final>>
  BY DEF Q!LoopTop, Q!qaVars, Spot
<1>2. CASE aborted
  <2>1. Q!Finish("cancelled") /\ step' = step
    BY <1>2 DEF Q!LoopTop
  <2>2. Finished("cancelled")
    BY <2>1, SameWeakens, FinishShape DEF IInv
  <2> QED
    BY <1>1, <2>2, QaFinishes
<1>3. CASE ~aborted
  <2>1. Moved("qa")
    BY <1>3 DEF Q!LoopTop, Q!Move, Q!Goto, Moved
  <2>2. CommonInv' /\ QaTypes' /\ QaRows' /\ QaStands' /\ History' /\ Spot' = "qa"
    BY <1>1, <2>1, QaMoves
  <2>3. QaWalk'
    BY <1>1, <2>1, <2>2 DEF IInv, QaInv, QaWalk, Moved, MayBuild
  <2> QED
    BY <2>2, <2>3 DEF QaInv
<1> QED
  BY <1>2, <1>3

\* An occurrence is saved, and then its event; the history grows only while the
\* run is running.
LEMMA RecordStep ==
    ASSUME IInv, Qa, Q!RecordOccurrence \/ Q!RecordEvent, UNCHANGED <<researchVars, reviewVars>>
    PROVE  CommonInv' /\ QaInv'
<1> USE DEF IInv, CommonInv, QaInv
<1>1. CASE Q!RecordOccurrence
  <2>1. PICK o \in Q!Occurrences(Q!Round) \ occ : occ' = occ \cup {o} /\ mem' = [mem EXCEPT !.occ = o]
    BY <1>1 DEF Q!RecordOccurrence
  <2>2. /\ pc = "record" /\ Spot = "record" /\ pc' = "event" /\ Spot' = "event"
        /\ UNCHANGED <<workflow, run, owner, step, out, input, files, found, events, final>>
    BY <1>1 DEF Q!RecordOccurrence, Q!Goto, Spot
  <2>3. mem.iter = input.iter /\ input.iter \in Nat /\ input.iter + 1 \in 1..MaxIterations
    BY <2>2, QaNumbers, Bounded
  <2>4. o \in Nat \X Findings
    BY <2>1, <2>3 DEF Q!Occurrences, Q!Round, QaTypes
  <2>5. mem \in MemRecords
    BY DEF MemTypes
  <2>6. mem' \in MemRecords /\ mem'.iter = mem.iter
    BY <2>1, <2>4, <2>5 DEF MemRecords
  <2>7. CommonInv'
    BY <2>2, <2>6 DEF RunTypes, MemTypes, AtDriver, Alive, Iteration, InputFile
  <2>8. QaTypes' /\ QaRows'
    BY <2>1, <2>2, <2>4 DEF QaTypes, QaRows, MayBuild
  <2>9. QaWalk'
    BY <2>2, <2>6 DEF QaWalk, MayBuild
  <2>10. run = "running"
    BY <2>2 DEF Alive
  <2>11. QaStands'
    BY <2>2, <2>10 DEF QaStands, Claimed, QaAccepted
  <2>12. MayBuild /\ MayBuild'
    BY <2>2 DEF QaWalk, MayBuild
  <2>13. History'
    BY <2>2, <2>10, <2>12 DEF History
  <2> QED
    BY <2>7, <2>8, <2>9, <2>11, <2>13
<1>2. CASE Q!RecordEvent
  <2>1. pc = "event" /\ Spot = "event" /\ Moved("record") /\ UNCHANGED <<found, occ, final>> /\ events \subseteq events'
    BY <1>2 DEF Q!RecordEvent, Q!Move, Q!Goto, Moved, Spot
  <2>2. CommonInv' /\ QaTypes' /\ QaRows' /\ QaStands' /\ History' /\ Spot' = "record"
    BY <2>1, QaMoves
  <2>3. QaWalk'
    BY <2>1, <2>2 DEF QaWalk, Moved, MayBuild
  <2> QED
    BY <2>2, <2>3
<1> QED
  BY <1>1, <1>2

\* More events: what is said of findings stays said.
LEMMA EventStep ==
    ASSUME IInv, Qa, Q!Verify \/ Q!MarkFixed, UNCHANGED <<researchVars, reviewVars>>
    PROVE  CommonInv' /\ QaInv'
<1> USE DEF IInv, CommonInv, QaInv
<1>1. /\ UNCHANGED <<workflow, run, owner, step, out, input, files, pc, mem, found, occ, final>>
      /\ events \subseteq events'
  BY DEF Q!Verify, Q!MarkFixed, Q!runVars
<1>2. Spot' = Spot /\ Follows' = Follows
  BY <1>1 DEF Spot, PhaseOf, Follows, Research
<1>3. CommonInv'
  BY <1>1, <1>2 DEF RunTypes, MemTypes, AtDriver, Alive, Iteration, InputFile
<1>4. QaTypes' /\ QaWalk' /\ QaRows' /\ QaStands'
  BY <1>1, <1>2 DEF QaTypes, QaWalk, QaRows, QaStands, Claimed, QaAccepted, MayBuild
<1>5. History'
  BY <1>1 DEF History, MayBuild, VerifiedUpTo
<1> QED
  BY <1>3, <1>4, <1>5

\* A report that passes is accepted once every earlier finding is verified; one
\* that blocks is followed by a fix, or by nothing when it was the last one.
LEMMA JudgeStep ==
    ASSUME IInv, Qa, Q!Accept \/ Q!GiveUp \/ Q!Fix, UNCHANGED <<researchVars, reviewVars>>
    PROVE  CommonInv' /\ QaInv'
<1> USE DEF IInv, CommonInv, QaInv
<1>1. pc = "record" /\ Spot = "record" /\ UNCHANGED <<found, occ, events, final>>
  BY DEF Q!Accept, Q!GiveUp, Q!Fix, Q!qaVars, Spot
<1>2. /\ mem.iter = input.iter /\ input.iter \in 0..2 /\ Q!QaStep(mem.iter) = QaAt[mem.iter]
      /\ Q!Round = input.iter + 1
  BY <1>1, QaNumbers, IterationNames DEF Q!Round
<1>3. CASE Q!Accept
  <2>1. out[QaAt[input.iter]] = "pass" /\ step[QaAt[input.iter]] = "completed"
    BY <1>1, <1>2, <1>3 DEF Q!Accept, QaWalk
  <2>2. workflow = Walking => VerifiedUpTo
    BY <1>2, <1>3 DEF Q!Accept, Q!Verified, Q!Keeps, Q!With, Walking, VerifiedUpTo
  <2>3. Q!Finish("completed") /\ step' = step
    BY <1>3 DEF Q!Accept
  <2>4. Finished("completed")
    BY <2>3, SameWeakens, FinishShape
  <2> QED
    BY <1>1, <2>1, <2>2, <2>4, QaFinishes DEF QaAccepted
<1>4. CASE Q!GiveUp
  <2>1. Q!Finish("failed") /\ step' = step
    BY <1>4 DEF Q!GiveUp
  <2>2. Finished("failed")
    BY <2>1, SameWeakens, FinishShape
  <2> QED
    BY <1>1, <2>2, QaFinishes
<1>5. CASE Q!Fix
  <2>1. Moved("fix") /\ out[QaAt[mem.iter]] = "block" /\ mem.iter + 1 < MaxIterations
    BY <1>2, <1>5 DEF Q!Fix, Q!Move, Q!Goto, Moved
  <2>2. CommonInv' /\ QaTypes' /\ QaRows' /\ QaStands' /\ History' /\ Spot' = "fix"
    BY <1>1, <2>1, QaMoves
  <2>3. QaWalk'
    BY <1>1, <2>1, <2>2 DEF QaWalk, Moved, MayBuild
  <2> QED
    BY <2>2, <2>3
<1> QED
  BY <1>3, <1>4, <1>5

\* The next iteration is written once every finding of this one is marked as fixed.
LEMMA NextIterationStep ==
    ASSUME IInv, Qa, Q!NextIteration, UNCHANGED <<researchVars, reviewVars>>
    PROVE  CommonInv' /\ QaInv'
<1> USE DEF IInv, CommonInv, QaInv
<1>1. /\ pc = "fixed" /\ Spot = "fixed" /\ pc' = "input" /\ Spot' = "input"
      /\ files' = files \cup {input.ver + 1} /\ mem' = [mem EXCEPT !.iter = Q!Round, !.feedback = "none"]
      /\ UNCHANGED <<workflow, run, owner, step, out, input, found, occ, events, final>>
  BY DEF Q!NextIteration, Q!WriteInput, Q!Goto, Q!qaVars, Spot
<1>2. /\ mem.iter = input.iter /\ input.iter \in 0..2 /\ Q!Round = input.iter + 1 /\ Q!Round \in Nat
      /\ Q!Round < MaxIterations
  BY <1>1, QaNumbers, Bounded DEF Q!Round, QaWalk
<1>3. mem \in MemRecords
  BY DEF MemTypes
<1>4. mem' \in MemRecords /\ mem'.iter = input.iter + 1
  BY <1>1, <1>2, <1>3 DEF MemRecords
<1>5. /\ input.ver \in Nat /\ input.ver + 1 \in Nat
      /\ mem'.iter > input.iter /\ mem'.iter <= MaxIterations /\ input.iter < MaxIterations
  BY <1>2, <1>4, Bounded DEF RunTypes
<1>6. CommonInv'
  BY <1>1, <1>4, <1>5 DEF RunTypes, MemTypes, AtDriver, Alive, Iteration, InputFile
<1>7. run = "running" /\ run' = "running"
  BY <1>1 DEF Alive
<1>8. QaTypes' /\ QaRows' /\ QaStands'
  BY <1>1, <1>7 DEF QaTypes, QaRows, QaStands, Claimed, QaAccepted, MayBuild
<1>9. QaWalk'
  BY <1>1, <1>2, <1>4 DEF QaWalk, MayBuild
<1>10. workflow = Walking => \A f \in found[input.iter + 1] : Append(<<input.iter + 1, f>>, "fixed") \in events
  <2> SUFFICES ASSUME workflow = Walking, NEW f \in found[input.iter + 1]
               PROVE  Append(<<input.iter + 1, f>>, "fixed") \in events
    OBVIOUS
  <2>1. Q!With(Q!Occurrences(Q!Round), "fixed") \subseteq events
    BY DEF Q!NextIteration, Q!Marked, Q!Keeps, Walking
  <2>2. <<input.iter + 1, f>> \in Q!Occurrences(Q!Round)
    BY <1>2 DEF Q!Occurrences
  <2> QED
    BY <2>1, <2>2 DEF Q!With
<1>11. History'
  BY <1>1, <1>4, <1>7, <1>10 DEF History, MayBuild
<1> QED
  BY <1>6, <1>8, <1>9, <1>11

\* The row of the input is replaced: the fix it counts is completed.
LEMMA KeepIterationStep ==
    ASSUME IInv, Qa, Q!KeepIteration, UNCHANGED <<researchVars, reviewVars>>
    PROVE  CommonInv' /\ QaInv'
<1> USE DEF IInv, CommonInv, QaInv
<1>1. /\ pc = "input" /\ Spot = "input" /\ pc' = "clean" /\ Spot' = "clean"
      /\ input' = [iter |-> mem.iter, feedback |-> mem.feedback, ver |-> input.ver + 1]
      /\ UNCHANGED <<workflow, run, owner, step, out, files, mem, found, occ, events, final>>
  BY DEF Q!KeepIteration, Q!CommitInput, Q!Goto, Q!qaVars, Spot
<1>2. /\ mem.iter = input.iter + 1 /\ mem.iter < MaxIterations /\ input.iter \in {0, 1}
      /\ out[QaAt[input.iter]] = "block" /\ step[FixAt[input.iter]] = "completed" /\ MayBuild
  BY <1>1, QaNumbers, Bounded DEF QaWalk
<1>3. mem.feedback \in {"none", "review", "human"} /\ input.ver + 1 \in Nat /\ mem.iter \in Nat
  BY DEF MemTypes, MemRecords, RunTypes
<1>4. input'.iter = mem.iter /\ input'.ver = input.ver + 1
  BY <1>1
<1>5. CommonInv'
  BY <1>1, <1>2, <1>3, <1>4 DEF RunTypes, MemTypes, AtDriver, Alive, Iteration, InputFile
<1>6. run = "running" /\ run' = "running" /\ MayBuild'
  BY <1>1, <1>2 DEF Alive, MayBuild
<1>7. QaTypes' /\ QaWalk'
  BY <1>1, <1>2, <1>4, <1>6 DEF QaTypes, QaWalk
<1>8. QaRows'
  BY <1>1, <1>2, <1>4, <1>6, IterationNames DEF QaRows
<1>9. ~Claimed
  BY <1>1, <1>2, <1>6 DEF QaStands, QaAccepted, Claimed, MayBuild, Walking, Todo
<1>10. QaStands'
  BY <1>1, <1>6, <1>9 DEF QaStands, Claimed
<1>11. History'
  <2>1. workflow = Walking => \A i \in 1..input.iter + 1 : \A f \in found[i] : Append(<<i, f>>, "fixed") \in events
    <3> SUFFICES ASSUME workflow = Walking, NEW i \in 1..input.iter + 1, NEW f \in found[i]
                 PROVE  Append(<<i, f>>, "fixed") \in events
      OBVIOUS
    <3>1. i \in 1..input.iter \/ i = mem.iter
      BY <1>2
    <3> QED
      BY <1>1, <3>1 DEF History
  <2> QED
    BY <1>1, <1>2, <1>4, <1>6, <2>1 DEF History
<1> QED
  BY <1>5, <1>7, <1>8, <1>10, <1>11

\* The next iteration begins; the old input is gone, the new one is there.
LEMMA AgainStep ==
    ASSUME IInv, Qa, Q!Again, UNCHANGED <<researchVars, reviewVars>>
    PROVE  CommonInv' /\ QaInv'
<1> USE DEF IInv, CommonInv, QaInv
<1>1. /\ pc = "clean" /\ Spot = "clean" /\ pc' = "loop" /\ Spot' = "loop"
      /\ files' \in {files, files \ {input.ver - 1}}
      /\ UNCHANGED <<workflow, run, owner, step, out, input, mem, found, occ, events, final>>
  BY DEF Q!Again, Q!CleanInput, Q!Goto, Q!qaVars, Spot
<1>2. input.ver \in files' /\ files' \subseteq Nat
  BY <1>1 DEF InputFile, RunTypes
<1>3. CommonInv'
  BY <1>1, <1>2 DEF RunTypes, MemTypes, AtDriver, Alive, Iteration, InputFile
<1>4. run = "running" /\ run' = "running"
  BY <1>1 DEF Alive
<1>5. QaTypes' /\ QaWalk' /\ QaRows' /\ QaStands' /\ History'
  BY <1>1, <1>4 DEF QaTypes, QaWalk, QaRows, QaStands, Claimed, QaAccepted, MayBuild, History
<1> QED
  BY <1>3, <1>5

\* A step failed: what is not completed may be skipped.
LEMMA QaFailedStep ==
    ASSUME IInv, Qa, Q!QaFailed, UNCHANGED <<researchVars, reviewVars>>
    PROVE  CommonInv' /\ QaInv'
<1> DEFINE Skip == {s \in Q!StepsOf(workflow) \ {"scope"} :
                      /\ s # mem.cur /\ step[s] # "completed"
                      /\ workflow = "todo-build-qa" => s # "fix"}
<1>1. /\ pc = "failed" /\ UNCHANGED <<found, occ, events, final>>
      /\ step' = Q!Skipped(Skip) /\ Q!Finish(Q!FailureStatus)
  BY DEF Q!QaFailed, Q!qaVars
<1>2. \A s \in Skip : step[s] # "completed"
  OBVIOUS
<1> HIDE DEF Skip
<1>3. Weakened
  BY <1>1, <1>2, SkipWeakens DEF IInv
<1>4. Q!FailureStatus \in {"failed", "cancelled"}
  BY DEF Q!FailureStatus
<1>5. Finished(Q!FailureStatus)
  BY <1>1, <1>3, <1>4, FinishShape DEF IInv
<1> QED
  BY <1>1, <1>4, <1>5, QaFinishes

\* The report is written and the run is closed.
LEMMA CloseStep ==
    ASSUME IInv, Qa, Q!Report \/ Q!Close, UNCHANGED <<researchVars, reviewVars>>
    PROVE  CommonInv' /\ QaInv'
<1> USE DEF IInv, CommonInv, QaInv
<1>1. CASE Q!Report
  <2>1. /\ pc = "report" /\ pc' = "close" /\ Spot' = "close" /\ final' \in {final, mem.verdict}
        /\ UNCHANGED <<workflow, run, owner, step, out, input, files, mem, found, occ, events>>
    BY <1>1 DEF Q!Report, Q!Move, Q!Goto, Spot
  <2>2. Moved("close") /\ mem.verdict \in Verdicts
    BY <2>1 DEF Moved, MemTypes, MemRecords
  <2>3. CommonInv'
    BY <2>1, <2>2, MovedCommon
  <2>4. QaTypes' /\ QaWalk' /\ QaRows'
    BY <2>1, <2>2 DEF QaTypes, QaWalk, QaRows, MayBuild
  <2>5. QaStands'
    BY <2>1 DEF QaStands, Claimed, QaAccepted
  <2>6. History'
    BY <2>1 DEF History, MayBuild, VerifiedUpTo
  <2> QED
    BY <2>3, <2>4, <2>5, <2>6
<1>2. CASE Q!Close
  <2>1. pc = "close" /\ SavedAs(mem.verdict) /\ UNCHANGED <<found, occ, events, final>>
    BY <1>2, IdleMem DEF SavedAs, Q!Close, Q!SaveRunStatus, Q!qaVars, Q!Leave
  <2>2. mem.verdict \in Runs /\ mem.verdict # "waiting"
    BY <2>1 DEF QaTypes, MemTypes, MemRecords, Verdicts, Runs
  <2>3. Ended
    BY <2>1, <2>2, SavedEnds
  <2>4. mem.verdict = "completed" => QaAccepted /\ (workflow = Walking => VerifiedUpTo)
    BY <2>1 DEF QaStands, Claimed, History
  <2> QED
    BY <2>1, <2>2, <2>3, <2>4, QaEnds DEF SavedAs
<1> QED
  BY <1>1, <1>2

\* A resume walks from the beginning.
LEMMA QaResumes ==
    ASSUME IInv, Qa, NEW label, Begun(label), label = IF workflow = Walking THEN "scope" ELSE "validate-todo",
           UNCHANGED <<found, occ, events, final>>
    PROVE  CommonInv' /\ QaInv'
<1> USE DEF IInv, CommonInv, QaInv
<1>1. label \notin {"idle", "drive", "input", "report", "close"}
  OBVIOUS
<1>2. CommonInv'
  BY <1>1, BegunCommon
<1>3. /\ Spot' = label /\ pc' = label /\ run' = "running" /\ UNCHANGED <<workflow, step, out, input>>
  BY <1>1 DEF Begun, Spot
<1>4. QaTypes' /\ QaWalk' /\ QaRows'
  BY <1>1, <1>3 DEF QaTypes, QaWalk, QaRows, MayBuild, Walking, Todo, Qa
<1>5. QaStands' /\ History'
  BY <1>1, <1>3 DEF QaStands, Claimed, QaAccepted, History, MayBuild
<1> QED
  BY <1>2, <1>4, <1>5

\* Every step of the two QA coordinators.
LEMMA QaStepHolds ==
    ASSUME IInv, Qa, Q!QaNext, UNCHANGED <<researchVars, reviewVars>>
    PROVE  CommonInv' /\ QaInv'
<1>1. CASE \E l, s, a : QaPhase(l, s, a) /\ Q!QaPhase(l, s, a)
  BY <1>1, QaPhaseStep
<1>2. CASE Q!QaReturn
  BY <1>2, QaReturnStep
<1>3. CASE Q!ScopeStops \/ Q!ScopeProceeds \/ Q!TodoBlocked \/ Q!TodoNeedsPreparation \/ Q!TodoReady
  BY <1>3, BeforeBuildStep
<1>4. CASE Q!LoopTop \/ Q!RecordOccurrence \/ Q!RecordEvent \/ Q!Verify \/ Q!MarkFixed
  BY <1>4, LoopTopStep, RecordStep, EventStep
<1>5. CASE Q!Accept \/ Q!GiveUp \/ Q!Fix
  BY <1>5, JudgeStep
<1>6. CASE Q!NextIteration \/ Q!KeepIteration \/ Q!Again
  BY <1>6, NextIterationStep, KeepIterationStep, AgainStep
<1>7. CASE Q!QaFailed \/ Q!Report \/ Q!Close
  BY <1>7, QaFailedStep, CloseStep
<1>8. CASE workflow = "plan-build-qa" /\ (Q!QaPhase("scope", "scope", "scoped") \/ Q!QaPhase("plan", "plan", "build"))
  <2>1. workflow = Walking
    BY <1>8 DEF Walking
  <2> QED
    BY <1>1, <1>8, <2>1 DEF QaPhase
<1>9. CASE /\ workflow = "todo-build-qa"
           /\ Q!QaPhase("validate-todo", "validate-todo", "assessed") \/ Q!QaPhase("prepare", "prepare", "build")
  <2>1. workflow = Todo
    BY <1>9 DEF Todo
  <2> QED
    BY <1>1, <1>9, <2>1 DEF QaPhase
<1>10. CASE Q!QaPhase("build", "build", "loop")
  BY <1>1, <1>10 DEF QaPhase
<1>11. CASE Q!QaPhase("qa", Q!QaStep(mem.iter), "record")
  <2>1. pc = "qa"
    BY <1>11 DEF Q!QaPhase, Q!Phase
  <2>2. Q!QaStep(mem.iter) = QaAt[mem.iter]
    BY <2>1, QaNumbers, IterationNames
  <2> QED
    BY <1>1, <1>11, <2>2 DEF QaPhase
<1>12. CASE mem.iter < 2 /\ Q!QaPhase("fix", Q!FixStep(mem.iter), "fixed")
  <2>1. pc = "fix"
    BY <1>12 DEF Q!QaPhase, Q!Phase
  <2>2. Q!FixStep(mem.iter) = FixAt[mem.iter]
    BY <1>12, <2>1, QaNumbers, IterationNames
  <2> QED
    BY <1>1, <1>12, <2>2 DEF QaPhase
<1> QED
  BY <1>2, <1>3, <1>4, <1>5, <1>6, <1>7, <1>8, <1>9, <1>10, <1>11, <1>12 DEF Q!QaNext

-----------------------------------------------------------------------------
(* plan-build-qa-interactive *)

\* Threads that are not there are opened; no thread that is there changes.
Opens ==
    /\ thread' \in [Threads -> ThreadStates]
    /\ \A t \in Threads : thread'[t] = thread[t] \/ (thread[t] = "absent" /\ thread'[t] = "waiting")

\* Opening threads gives each a state, and those that had one keep it.
LEMMA OpenedOpens ==
    ASSUME ReviewTypes, NEW ts, thread' = I!Opened(ts)
    PROVE  Opens /\ \A t \in ts \cap Threads : thread'[t] # "absent"
BY DEF ReviewTypes, I!Opened, Opens, Threads, ThreadStates

\* So does leaving the threads alone.
LEMMA SameOpens ==
    ASSUME ReviewTypes, thread' = thread
    PROVE  Opens
BY DEF ReviewTypes, Opens

\* Everyone who was to decide has, and what was to be corrected is.
ReviewAccepted ==
    /\ thread["scope"] \in Decided /\ thread["changes"] \in Decided
    /\ \A t \in I!QaThreads : thread[t] \in Decided \/ t \in adjudicated
    /\ corrects \subseteq adjudicated \/ step["fix"] = "completed"

\* A walk that ends leaves somebody to decide, or everything decided.
LEMMA ReviewEnds ==
    ASSUME IInv, Interactive, Ended, Opens, UNCHANGED <<corrects, adjudicated, shadowed, reported, final>>,
           run' = "waiting" => (\E t \in Threads : thread'[t] = "waiting") /\ step["scope"] = "completed",
           run' = "completed" => ReviewAccepted
    PROVE  CommonInv' /\ ReviewInv'
<1> USE DEF IInv, CommonInv, ReviewInv
<1>1. CommonInv'
  BY EndedCommon
<1>2. Spot' = "idle" /\ pc' = "idle" /\ UNCHANGED <<workflow, input>>
  BY DEF Ended, Spot
<1>3. \A t \in Threads : thread[t] \in Decided <=> thread'[t] \in Decided
  BY DEF Opens, Decided
<1>4. /\ step'["scope"] = "completed" <=> step["scope"] = "completed"
      /\ step'["fix"] = "completed" <=> step["fix"] = "completed"
  BY StepNames DEF Ended, Weakened
<1>5. ReviewTypes' /\ ReviewWalk'
  BY <1>2 DEF ReviewTypes, ReviewWalk, Opens
<1>6. I!QaThreads' = I!QaThreads /\ I!QaThreads \subseteq Threads
  BY StepNames DEF I!QaThreads, ReviewTypes, Threads, I!Threads
<1>7. ReviewRows'
  BY <1>2, <1>3, <1>4, <1>6, StepNames DEF ReviewRows, ReviewAccepted
<1> QED
  BY <1>1, <1>5, <1>7

\* Walking on changes nothing but the position and the threads opened.
LEMMA ReviewMoves ==
    ASSUME IInv, Interactive, NEW label, Moved(label), pc \notin {"idle", "input", "explain"}, Opens,
           label \notin {"idle", "drive", "input", "explain", "claimed"},
           UNCHANGED <<corrects, adjudicated, shadowed, reported, final>>
    PROVE  CommonInv' /\ ReviewTypes' /\ ReviewRows' /\ Spot' = label
<1> USE DEF IInv, CommonInv, ReviewInv
<1>1. CommonInv'
  BY MovedCommon
<1>2. UNCHANGED <<workflow, run, step, input>> /\ pc' = label /\ run = "running"
  BY DEF Moved, Alive
<1>3. ReviewTypes' /\ Spot' = label
  BY <1>2 DEF ReviewTypes, Opens, Spot
<1>4. thread'["scope"] \in Decided => thread["scope"] \in Decided
  BY StepNames DEF Opens, Decided
<1>5. ReviewRows'
  BY <1>2, <1>4 DEF ReviewRows
<1> QED
  BY <1>1, <1>3, <1>5

\* The phases, their steps and the phases after them.
ReviewPhases ==
    {<<"scope", "scope", "scoped">>, <<"plan", "plan", "build">>, <<"build", "build", "changes">>,
     <<"qa", "qa", "findings">>, <<"fix", "fix", "finish">>}

\* A completed step is reused.
LEMMA ReviewPhaseReused ==
    ASSUME IInv, Interactive, NEW l, NEW s, NEW a, <<l, s, a>> \in ReviewPhases, pc = l,
           step[s] = "completed", Moved(a), UNCHANGED <<reviewVars, final>>
    PROVE  CommonInv' /\ ReviewInv'
<1> USE DEF IInv, CommonInv, ReviewInv
<1>1. /\ l \notin {"idle", "input", "explain", "drive"}
      /\ a \notin {"idle", "drive", "input", "explain", "claimed"}
  BY DEF ReviewPhases
<1>2. UNCHANGED <<thread, corrects, adjudicated, shadowed, reported>> /\ Opens
  BY SameOpens DEF reviewVars
<1>3. CommonInv' /\ ReviewTypes' /\ ReviewRows' /\ Spot' = a
  BY <1>1, <1>2, ReviewMoves
<1>4. Spot = l /\ pc' = a /\ run' = "running" /\ UNCHANGED step
  BY <1>1 DEF Spot, Moved, Alive
<1>5. ReviewWalk'
  BY <1>1, <1>2, <1>3, <1>4 DEF ReviewWalk, Reviewed, I!QaThreads, ReviewPhases
<1> QED
  BY <1>3, <1>5

\* A step goes to the driver.
LEMMA ReviewPhaseDriven ==
    ASSUME IInv, Interactive, NEW l, NEW s, NEW a, <<l, s, a>> \in ReviewPhases, pc = l,
           step[s] \in Eligible, Driving(s, a), UNCHANGED <<reviewVars, final>>
    PROVE  CommonInv' /\ ReviewInv'
<1> USE DEF IInv, CommonInv, ReviewInv
<1>1. /\ l \notin {"idle", "input", "explain", "drive", "claimed"} /\ s \in Steps /\ a \in Afters
      /\ PhaseOf(s) = l
  BY StepNames DEF ReviewPhases, Afters, PhaseOf, QaRounds, Fixes
<1>2. <<s, a>> \in Follows
  BY DEF ReviewPhases, Follows, Interactive, Research, Walking, Todo
<1>3. CommonInv'
  BY <1>1, <1>2, DrivingCommon
<1>4. UNCHANGED <<thread, corrects, adjudicated, shadowed, reported>>
  BY DEF reviewVars
<1>5. /\ Spot = l /\ Spot' = l /\ pc' = "drive" /\ UNCHANGED <<workflow, run, input>> /\ run = "running"
  BY <1>1 DEF Spot, Driving, Alive
<1>6. \A t \in Steps : step[t] = "completed" => step'[t] = "completed"
  BY <1>1 DEF Driving, RunTypes, Eligible
<1>7. ReviewTypes' /\ ReviewWalk'
  BY <1>4, <1>5 DEF ReviewTypes, ReviewWalk, Reviewed, I!QaThreads, ReviewPhases
<1>8. ReviewRows'
  BY <1>4, <1>5, <1>6, StepNames DEF ReviewRows
<1> QED
  BY <1>3, <1>7, <1>8

\* A step that may not be retried fails again.
LEMMA ReviewPhaseFailed ==
    ASSUME IInv, Interactive, NEW s, FailedAgain(s), pc \notin {"idle", "input", "explain"},
           UNCHANGED <<reviewVars, final>>
    PROVE  CommonInv' /\ ReviewInv'
<1> USE DEF IInv, CommonInv, ReviewInv
<1>1. CommonInv'
  BY FailedCommon
<1>2. UNCHANGED <<thread, corrects, adjudicated, shadowed, reported>>
  BY DEF reviewVars
<1>3. Spot' = "failed" /\ pc' = "failed" /\ UNCHANGED <<workflow, run, step, input>> /\ run = "running"
  BY DEF FailedAgain, Spot, Alive
<1>4. ReviewTypes' /\ ReviewWalk' /\ ReviewRows'
  BY <1>2, <1>3 DEF ReviewTypes, ReviewWalk, ReviewRows
<1> QED
  BY <1>1, <1>4

\* The phases of the walk.
LEMMA ReviewPhaseStep ==
    ASSUME IInv, Interactive, NEW l, NEW s, NEW a, <<l, s, a>> \in ReviewPhases, I!ReviewPhase(l, s, a),
           UNCHANGED <<researchVars, qaVars>>
    PROVE  CommonInv' /\ ReviewInv'
<1>1. /\ pc = l /\ UNCHANGED <<reviewVars, final>>
      /\ l \notin {"idle", "input", "explain", "drive"} /\ s \in Steps /\ a \in Afters
  BY StepNames DEF ReviewPhases, Afters, I!ReviewPhase, I!Phase, I!reviewVars, reviewVars, qaVars
<1>2. mem \in MemRecords /\ I!Eligible = Eligible
  BY DEF IInv, CommonInv, MemTypes, I!Eligible, Eligible
<1>3. CASE step[s] = "completed" /\ Moved(a)
  BY <1>1, <1>3, ReviewPhaseReused
<1>4. CASE step[s] \in Eligible /\ I!Drive(s, a)
  <2>1. mem' = [mem EXCEPT !.cur = s, !.after = a]
    BY <1>4 DEF I!Drive
  <2>2. mem' \in MemRecords /\ mem'.cur = s /\ mem'.after = a /\ mem'.iter = mem.iter
    BY <1>1, <1>2, <2>1 DEF MemRecords
  <2>3. Driving(s, a)
    BY <1>4, <2>2 DEF I!Drive, I!Goto, Driving
  <2> QED
    BY <1>1, <1>4, <2>3, ReviewPhaseDriven
<1>5. CASE /\ pc' = "failed" /\ mem' = [mem EXCEPT !.cur = s]
           /\ UNCHANGED <<workflow, run, owner, step, out, input, files>>
  <2>1. mem' \in MemRecords /\ mem'.cur = s /\ mem'.iter = mem.iter
    BY <1>1, <1>2, <1>5 DEF MemRecords
  <2>2. FailedAgain(s)
    BY <1>5, <2>1 DEF FailedAgain
  <2> QED
    BY <1>1, <2>2, ReviewPhaseFailed
<1> QED
  BY <1>2, <1>3, <1>4, <1>5 DEF I!ReviewPhase, I!Phase, I!Goto, Moved

\* The driver is done; a report is one of its own findings.
LEMMA ReviewReturnStep ==
    ASSUME IInv, Interactive, I!ReviewReturn, UNCHANGED <<researchVars, qaVars>>
    PROVE  CommonInv' /\ ReviewInv'
<1> USE DEF IInv, CommonInv, ReviewInv
<1>1. /\ pc = "drive" /\ mem.cur \in Steps /\ step[mem.cur] = "running"
      /\ <<mem.cur, mem.after>> \in Follows
  BY DEF I!ReviewReturn, I!Return, AtDriver
<1>2. <<PhaseOf(mem.cur), mem.cur, mem.after>> \in ReviewPhases
  BY <1>1 DEF ReviewPhases, Follows, PhaseOf, QaRounds, Fixes, Interactive, Research, Walking, Todo
<1>3. Spot = PhaseOf(mem.cur)
  BY <1>1 DEF Spot
<1>4. Returned(mem.cur, mem.after)
  BY <1>1 DEF Returned, Answers, I!ReviewReturn, I!Return, I!Answers, I!Goto
<1>5. mem.after \notin {"idle", "drive", "input", "explain", "claimed"}
  BY <1>2 DEF ReviewPhases
<1>6. CommonInv'
  BY <1>1, <1>4, <1>5, ReturnedCommon
<1>7. /\ UNCHANGED <<workflow, run, input, final, thread, corrects, adjudicated, shadowed>>
      /\ reported' \in IF mem.cur = "qa" THEN SUBSET Findings ELSE {reported}
      /\ Spot' = mem.after /\ pc' = mem.after /\ run = "running"
  BY <1>1, <1>4, <1>5 DEF Returned, I!ReviewReturn, qaVars, Spot, Alive
<1>8. /\ \A t \in Steps : step[t] = "completed" => step'[t] = "completed"
      /\ step'[mem.cur] = "completed"
  BY <1>1, <1>4 DEF Returned, RunTypes
<1>9. ReviewTypes'
  BY <1>7 DEF ReviewTypes
<1>10. ReviewWalk'
  BY <1>2, <1>3, <1>7, <1>8 DEF ReviewWalk, ReviewPhases, Reviewed, I!QaThreads
<1>11. ReviewRows'
  BY <1>5, <1>7, <1>8, StepNames DEF ReviewRows
<1> QED
  BY <1>6, <1>9, <1>10, <1>11

\* The review begins with the scope: a thread on it that is decided has its step done.
LEMMA OpenScopeStep ==
    ASSUME IInv, Interactive, I!OpenScope, UNCHANGED <<researchVars, qaVars>>
    PROVE  CommonInv' /\ ReviewInv'
<1> USE DEF IInv, CommonInv, ReviewInv
<1> DEFINE Next1 == IF step["scope"] = "completed" THEN "scope-review" ELSE "scope"
<1>1. /\ pc = "advance" /\ Moved(Next1) /\ thread' = I!Opened({"scope"})
      /\ UNCHANGED <<corrects, adjudicated, shadowed, reported, final>>
  BY DEF I!OpenScope, I!WalkOn, I!Goto, Moved, qaVars
<1>2. Opens /\ thread'["scope"] # "absent"
  BY <1>1, OpenedOpens, StepNames
<1>3. CommonInv' /\ ReviewTypes' /\ ReviewRows' /\ Spot' = Next1
  BY <1>1, <1>2, ReviewMoves
<1>4. pc' = Next1 /\ run' = "running"
  BY <1>1 DEF Moved, Alive
<1>5. step["scope"] # "completed" => thread'["scope"] = "waiting"
  BY <1>1, <1>2, <1>3, StepNames DEF ReviewRows, ReviewTypes, ThreadStates, Decided, Moved
<1>6. ReviewWalk'
  BY <1>2, <1>3, <1>4, <1>5 DEF ReviewWalk
<1> QED
  BY <1>3, <1>6

\* The scope was decided: the walk goes on to the plan.
LEMMA ScopeDecidedStep ==
    ASSUME IInv, Interactive, I!ScopeDecided, UNCHANGED <<researchVars, qaVars>>
    PROVE  CommonInv' /\ ReviewInv'
<1> USE DEF IInv, CommonInv, ReviewInv
<1>1. /\ pc = "scope-review" /\ Spot = "scope-review" /\ Moved("plan") /\ thread["scope"] # "waiting"
      /\ UNCHANGED <<thread, corrects, adjudicated, shadowed, reported, final>>
  BY DEF I!ScopeDecided, I!WalkOn, I!Goto, I!reviewVars, Moved, qaVars, Spot
<1>2. thread["scope"] \in Decided
  BY <1>1, StepNames DEF ReviewWalk, ReviewTypes, ThreadStates, Decided
<1>3. CommonInv' /\ ReviewTypes' /\ ReviewRows' /\ Spot' = "plan"
  BY <1>1, SameOpens, ReviewMoves
<1>4. pc' = "plan" /\ run' = "running"
  BY <1>1 DEF Moved, Alive
<1>5. ReviewWalk'
  BY <1>1, <1>2, <1>3, <1>4 DEF ReviewWalk
<1> QED
  BY <1>3, <1>5

\* While a thread of a checkpoint waits, so does the run; the walk goes on past
\* threads that are all decided or listed after their adjudication.
LEMMA CheckpointReached ==
    ASSUME IInv, Interactive, NEW l, NEW ts, NEW a, I!Checkpoint(l, ts, a), ts \subseteq Threads,
           <<l, ts, a>> = <<"changes", {"changes"}, "qa">> \/ <<l, ts, a>> = <<"findings", I!QaThreads, "corrections">>,
           UNCHANGED <<researchVars, qaVars>>
    PROVE  CommonInv' /\ ReviewInv'
<1> USE DEF IInv, CommonInv, ReviewInv
<1>1. /\ pc = l /\ Spot = l /\ thread' = I!Opened(ts) /\ l \in {"changes", "findings"}
      /\ UNCHANGED <<corrects, adjudicated, shadowed, reported, final>>
  BY DEF I!Checkpoint, qaVars, Spot
<1>2. Opens /\ \A t \in ts : thread'[t] # "absent"
  BY <1>1, OpenedOpens
<1>3. thread["scope"] \in Decided /\ step["scope"] = "completed"
  BY <1>1 DEF ReviewWalk, ReviewRows
<1>4. CASE \E t \in ts \ shadowed : thread'[t] = "waiting"
  <2>1. SavedAs("waiting") /\ \E t \in Threads : thread'[t] = "waiting"
    BY <1>4, IdleMem DEF I!Checkpoint, SavedAs, I!SaveRunStatus, I!Leave
  <2>2. Ended
    BY <2>1, SavedEnds DEF Runs
  <2> QED
    BY <1>1, <1>2, <1>3, <2>1, <2>2, ReviewEnds DEF SavedAs
<1>5. CASE ~ \E t \in ts \ shadowed : thread'[t] = "waiting"
  <2>1. Moved(a) /\ a \in {"qa", "corrections"}
    BY <1>5 DEF I!Checkpoint, I!WalkOn, I!Goto, Moved
  <2>2. CommonInv' /\ ReviewTypes' /\ ReviewRows' /\ Spot' = a
    BY <1>1, <1>2, <2>1, ReviewMoves
  <2>3. \A t \in ts : thread'[t] \in Decided \/ t \in shadowed
    BY <1>2, <1>5 DEF Opens, ThreadStates, Decided
  <2>4. "changes" \notin shadowed
    BY FindingsAssumption DEF ReviewTypes
  <2>5. \A t \in Threads : thread[t] \in Decided => thread'[t] \in Decided
    BY <1>2 DEF Opens, Decided
  <2>6. pc' = a /\ run' = "running"
    BY <1>1, <2>1 DEF Moved, Alive
  <2>7. I!QaThreads' = I!QaThreads
    BY <1>1 DEF I!QaThreads
  <2>8. ReviewWalk'
    BY <1>1, <2>1, <2>2, <2>3, <2>4, <2>5, <2>6, <2>7, StepNames DEF ReviewWalk, Reviewed
  <2> QED
    BY <2>2, <2>8
<1> QED
  BY <1>4, <1>5

\* The two checkpoints after the scope.
LEMMA CheckpointsStep ==
    ASSUME IInv, Interactive, UNCHANGED <<researchVars, qaVars>>,
           I!Checkpoint("changes", {"changes"}, "qa") \/ I!Checkpoint("findings", I!QaThreads, "corrections")
    PROVE  CommonInv' /\ ReviewInv'
<1>1. I!QaThreads \subseteq Threads /\ {"changes"} \subseteq Threads
  BY StepNames DEF IInv, ReviewInv, ReviewTypes, I!QaThreads, Threads, I!Threads
<1> QED
  BY <1>1, CheckpointReached

\* A correction that was asked for is made before the end.
LEMMA CorrectStep ==
    ASSUME IInv, Interactive, I!Correct, UNCHANGED <<researchVars, qaVars>>
    PROVE  CommonInv' /\ ReviewInv'
<1> USE DEF IInv, CommonInv, ReviewInv
<1>1. /\ pc = "corrections" /\ Spot = "corrections"
      /\ UNCHANGED <<thread, corrects, adjudicated, shadowed, reported, final>>
      /\ Moved("fix") \/ (Moved("finish") /\ corrects \subseteq shadowed)
  BY DEF I!Correct, I!WalkOn, I!Goto, I!reviewVars, Moved, qaVars, Spot
<1>2. PICK a \in {"fix", "finish"} : Moved(a) /\ (a = "finish" => corrects \subseteq shadowed)
  BY <1>1
<1>3. CommonInv' /\ ReviewTypes' /\ ReviewRows' /\ Spot' = a
  BY <1>1, <1>2, SameOpens, ReviewMoves
<1>4. pc' = a /\ run' = "running"
  BY <1>1, <1>2 DEF Moved, Alive
<1>5. ReviewWalk'
  BY <1>1, <1>2, <1>3, <1>4 DEF ReviewWalk, Reviewed, I!QaThreads
<1> QED
  BY <1>3, <1>5

\* The run waits, is over, or is left as it is.
LEMMA ReviewOverStep ==
    ASSUME IInv, Interactive, UNCHANGED <<researchVars, qaVars>>,
           \/ I!AwaitScope \/ I!ScopeStillOpen \/ I!FinishReview
           \/ I!ReviewedStepFailed \/ I!Explained \/ I!ExplainFailed
    PROVE  CommonInv' /\ ReviewInv'
<1> USE DEF IInv, CommonInv, ReviewInv
<1>1. UNCHANGED <<thread, corrects, adjudicated, shadowed, reported, final>> /\ Opens
  BY SameOpens DEF qaVars, I!reviewVars, I!AwaitScope, I!ScopeStillOpen, I!FinishReview,
     I!ReviewedStepFailed, I!Explained, I!ExplainFailed
<1>2. CASE I!AwaitScope
  <2>1. SavedAs("waiting") /\ pc = "scoped" /\ Spot = "scoped"
    BY <1>2, IdleMem DEF SavedAs, Spot, I!AwaitScope, I!SaveRunStatus, I!Leave
  <2>2. thread["scope"] = "waiting" /\ step["scope"] = "completed"
    BY <2>1 DEF ReviewWalk
  <2>3. Ended
    BY <2>1, SavedEnds DEF Runs
  <2> QED
    BY <1>1, <2>1, <2>2, <2>3, StepNames, ReviewEnds DEF SavedAs
<1>3. CASE I!Explained
  <2>1. SavedAs("waiting") /\ pc = "explain"
    BY <1>3, IdleMem DEF SavedAs, I!Explained, I!SaveRunStatus, I!Leave
  <2>2. (\E t \in Threads : thread[t] = "waiting") /\ step["scope"] = "completed"
    BY <2>1 DEF ReviewWalk, ReviewRows
  <2>3. Ended
    BY <2>1, SavedEnds DEF Runs
  <2> QED
    BY <1>1, <2>1, <2>2, <2>3, ReviewEnds DEF SavedAs
<1>4. CASE I!FinishReview
  <2>1. SavedAs("completed") /\ pc = "finish" /\ Spot = "finish"
    BY <1>4, IdleMem DEF SavedAs, Spot, I!FinishReview, I!SaveRunStatus, I!Leave
  <2>2. ReviewAccepted
    BY <2>1 DEF ReviewWalk, ReviewTypes, Reviewed, ReviewAccepted
  <2>3. Ended
    BY <2>1, SavedEnds DEF Runs
  <2> QED
    BY <1>1, <2>1, <2>2, <2>3, ReviewEnds DEF SavedAs
<1>5. CASE I!ReviewedStepFailed
  <2>1. SavedAs(I!FailureStatus) /\ I!FailureStatus \in {"failed", "cancelled"}
    BY <1>5, IdleMem DEF SavedAs, I!ReviewedStepFailed, I!FailureStatus, I!SaveRunStatus, I!Leave
  <2>2. Ended
    BY <2>1, SavedEnds DEF Runs
  <2> QED
    BY <1>1, <2>1, <2>2, ReviewEnds DEF SavedAs
<1>6. CASE I!ScopeStillOpen
  <2>1. pc = "scope-review" /\ pc' = "idle" /\ mem' = Idle /\ UNCHANGED <<workflow, run, owner, step, out, input, files>>
    BY <1>6, IdleMem DEF I!ScopeStillOpen, I!SaveRunStatus, I!Leave
  <2>2. run' = "running" /\ Weakened
    BY <2>1 DEF Alive, Weakened, RunTypes
  <2>3. Ended
    BY <2>1, <2>2, IdleMem DEF Ended, RunTypes
  <2> QED
    BY <1>1, <2>2, <2>3, ReviewEnds
<1>7. CASE I!ExplainFailed
  <2>1. /\ run' = "interrupted" /\ owner' = "none" /\ pc' = "idle" /\ mem' = Idle
        /\ UNCHANGED <<workflow, step, out, input, files>>
    BY <1>7, IdleMem DEF I!ExplainFailed, I!SaveRunStatus, I!Leave
  <2>2. Ended
    BY <2>1, SavedEnds DEF SavedAs, Runs
  <2> QED
    BY <1>1, <2>1, <2>2, ReviewEnds
<1> QED
  BY <1>2, <1>3, <1>4, <1>5, <1>6, <1>7

\* A decision that advances: the run is claimed, and then the decision is saved.
LEMMA DecisionStep ==
    ASSUME IInv, Interactive, I!ClaimDecision \/ I!SaveDecision, UNCHANGED <<researchVars, qaVars>>
    PROVE  CommonInv' /\ ReviewInv'
<1> USE DEF IInv, CommonInv, ReviewInv
<1>1. CASE I!ClaimDecision
  <2>1. PICK t \in Threads : thread[t] = "waiting" /\ mem' = [Idle EXCEPT !.cur = t, !.iter = input.iter]
    BY <1>1, IdleMem DEF I!ClaimDecision, Threads
  <2>2. mem' \in MemRecords /\ mem'.cur = t /\ mem'.iter = input.iter
    BY <2>1, IdleMem DEF MemRecords, RunTypes
  <2>3. /\ Begun("claimed") /\ run = "waiting"
        /\ UNCHANGED <<thread, corrects, adjudicated, shadowed, reported, final>>
    BY <1>1, <2>2 DEF I!ClaimDecision, I!Claim, I!Goto, I!reviewVars, qaVars, Begun
  <2>4. CommonInv'
    BY <2>3, BegunCommon
  <2>5. /\ pc' = "claimed" /\ Spot' = "claimed" /\ run' = "running"
        /\ UNCHANGED <<workflow, step, out, input>>
    BY <2>3 DEF Begun, Spot
  <2>6. ReviewTypes' /\ ReviewWalk' /\ ReviewRows'
    BY <2>1, <2>2, <2>3, <2>5 DEF ReviewTypes, ReviewWalk, ReviewRows
  <2> QED
    BY <2>4, <2>6
<1>2. CASE I!SaveDecision
  <2>1. /\ pc = "claimed" /\ Spot = "claimed" /\ pc' = "advance" /\ Spot' = "advance"
        /\ mem' = [mem EXCEPT !.caught = FALSE]
        /\ UNCHANGED <<workflow, run, owner, step, out, input, files, adjudicated, reported, final>>
        /\ I!Touch(mem.cur)
    BY <1>2 DEF I!SaveDecision, I!Goto, Spot, qaVars
  <2>2. PICK state \in {"decided", "finalized"} :
           /\ thread' = [thread EXCEPT ![mem.cur] = state]
           /\ corrects' = corrects \cup {mem.cur} \/ corrects' = corrects
    BY <1>2 DEF I!SaveDecision
  <2>3. mem.cur \in Threads /\ thread[mem.cur] = "waiting" /\ step["scope"] = "completed"
    BY <2>1 DEF ReviewWalk, ReviewRows
  <2>4. mem \in MemRecords
    BY DEF MemTypes
  <2>5. mem' \in MemRecords /\ mem'.iter = mem.iter
    BY <2>1, <2>4 DEF MemRecords
  <2>6. CommonInv'
    BY <2>1, <2>5 DEF RunTypes, MemTypes, AtDriver, Alive, Iteration, InputFile
  <2>7. ReviewTypes'
    BY <2>1, <2>2, <2>3 DEF ReviewTypes, ThreadStates, I!Touch
  <2>8. run = "running"
    BY <2>1 DEF Alive
  <2>9. ReviewWalk' /\ ReviewRows'
    BY <2>1, <2>3, <2>8 DEF ReviewWalk, ReviewRows
  <2> QED
    BY <2>6, <2>7, <2>9
<1> QED
  BY <1>1, <1>2

\* A decision that leaves the thread open and an adjudication change no row.
LEMMA BesideStep ==
    ASSUME IInv, Interactive, I!Stay \/ I!Adjudicate, UNCHANGED <<researchVars, qaVars>>
    PROVE  CommonInv' /\ ReviewInv'
<1> USE DEF IInv, CommonInv, ReviewInv
<1>1. /\ pc = "idle" /\ Spot = "idle"
      /\ UNCHANGED <<workflow, run, owner, step, out, input, files, pc, mem, thread, corrects, reported, final>>
      /\ shadowed' \subseteq adjudicated' /\ adjudicated \subseteq adjudicated'
      /\ adjudicated' \subseteq Findings \cup {"qa"}
  BY DEF I!Stay, I!Adjudicate, I!Touch, I!runVars, qaVars, ReviewTypes, Spot
<1>2. Spot' = "idle"
  BY <1>1 DEF Spot
<1>3. CommonInv'
  BY <1>1 DEF RunTypes, MemTypes, AtDriver, Alive, Iteration, InputFile
<1>4. I!QaThreads' = I!QaThreads
  BY <1>1 DEF I!QaThreads
<1>5. ReviewTypes' /\ ReviewWalk'
  BY <1>1, <1>2 DEF ReviewTypes, ReviewWalk
<1>6. ReviewRows'
  BY <1>1, <1>4 DEF ReviewRows
<1> QED
  BY <1>3, <1>5, <1>6

\* A question about a thread that waits.
LEMMA QuestionStep ==
    ASSUME IInv, Interactive, I!Ask, UNCHANGED <<researchVars, qaVars>>
    PROVE  CommonInv' /\ ReviewInv'
<1> USE DEF IInv, CommonInv, ReviewInv
<1>1. /\ pc = "idle" /\ run = "waiting" /\ pc' = "explain" /\ Spot' = "explain" /\ run' = "running" /\ owner' = "live"
      /\ UNCHANGED <<workflow, step, out, input, files, mem>>
      /\ UNCHANGED <<thread, corrects, adjudicated, shadowed, reported, final>>
      /\ \E t \in Threads : thread[t] = "waiting"
  BY DEF I!Ask, I!Claim, I!Goto, I!reviewVars, qaVars, Spot, Threads
<1>2. CommonInv'
  BY <1>1 DEF RunTypes, MemTypes, AtDriver, Alive, Iteration, InputFile, Runs
<1>3. ReviewTypes' /\ ReviewWalk' /\ ReviewRows'
  BY <1>1 DEF ReviewTypes, ReviewWalk, ReviewRows
<1> QED
  BY <1>2, <1>3

\* A resume walks from the beginning.
LEMMA ReviewResumes ==
    ASSUME IInv, Interactive, Begun("advance"),
           UNCHANGED <<thread, corrects, adjudicated, shadowed, reported, final>>
    PROVE  CommonInv' /\ ReviewInv'
<1> USE DEF IInv, CommonInv, ReviewInv
<1>1. CommonInv'
  BY BegunCommon
<1>2. Spot' = "advance" /\ pc' = "advance" /\ run' = "running" /\ UNCHANGED <<workflow, step, input>>
  BY DEF Begun, Spot
<1>3. ReviewTypes' /\ ReviewWalk' /\ ReviewRows'
  BY <1>2 DEF ReviewTypes, ReviewWalk, ReviewRows
<1> QED
  BY <1>1, <1>3

\* Every step of the review and of the people who review.
LEMMA ReviewStepHolds ==
    ASSUME IInv, Interactive, I!ReviewNext \/ I!ReviewOperation, UNCHANGED <<researchVars, qaVars>>
    PROVE  CommonInv' /\ ReviewInv'
<1>1. CASE \E p \in ReviewPhases : I!ReviewPhase(p[1], p[2], p[3])
  BY <1>1, ReviewPhaseStep DEF ReviewPhases
<1>2. CASE I!ReviewReturn \/ I!OpenScope \/ I!ScopeDecided \/ I!Correct
  BY <1>2, ReviewReturnStep, OpenScopeStep, ScopeDecidedStep, CorrectStep
<1>3. CASE I!Checkpoint("changes", {"changes"}, "qa") \/ I!Checkpoint("findings", I!QaThreads, "corrections")
  BY <1>3, CheckpointsStep
<1>4. CASE \/ I!AwaitScope \/ I!ScopeStillOpen \/ I!FinishReview
           \/ I!ReviewedStepFailed \/ I!Explained \/ I!ExplainFailed
  BY <1>4, ReviewOverStep
<1>5. CASE I!ClaimDecision \/ I!SaveDecision
  BY <1>5, DecisionStep
<1>6. CASE I!Stay \/ I!Adjudicate \/ I!Ask
  BY <1>6, BesideStep, QuestionStep
<1> QED
  BY <1>1, <1>2, <1>3, <1>4, <1>5, <1>6 DEF I!ReviewNext, I!ReviewOperation, ReviewPhases

-----------------------------------------------------------------------------
(* What is done stays done *)

\* The step keeps the run's workflow and every completed row.
KeepsDone ==
    /\ workflow' = workflow
    /\ \A s \in Steps : step[s] = "completed" => step'[s] = "completed"

\* Skipping keeps what is done, whichever coordinator skips.
LEMMA ResearchSkipKeeps ==
    ASSUME NEW skip, \A s \in skip : step[s] # "completed", step' = R!Skipped(skip), workflow' = workflow
    PROVE  KeepsDone
BY DEF KeepsDone, R!Skipped, R!Steps, Steps

LEMMA QaSkipKeeps ==
    ASSUME NEW skip, \A s \in skip : step[s] # "completed", step' = Q!Skipped(skip), workflow' = workflow
    PROVE  KeepsDone
BY DEF KeepsDone, Q!Skipped, Q!Steps, Steps

LEMMA ReviewSkipKeeps ==
    ASSUME NEW skip, \A s \in skip : step[s] # "completed", step' = I!Skipped(skip), workflow' = workflow
    PROVE  KeepsDone
BY DEF KeepsDone, I!Skipped, I!Steps, Steps

\* A phase drives only what is not done, and a return completes it.
LEMMA ResearchPhaseKeeps ==
    ASSUME IInv, NEW l, NEW s, NEW a, R!Phase(l, s, a)
    PROVE  KeepsDone
<1>1. step \in [Steps -> Statuses]
  BY DEF IInv, CommonInv, RunTypes
<1>2. step' = step \/ (step[s] # "completed" /\ step' = [step EXCEPT ![s] = "running"])
  BY DEF R!Phase, R!Drive, R!Eligible
<1>3. workflow' = workflow
  BY DEF R!Phase, R!Drive
<1> QED
  BY <1>1, <1>2, <1>3 DEF KeepsDone

LEMMA ResearchReturnKeeps ==
    ASSUME IInv, R!Return
    PROVE  KeepsDone
<1>1. step \in [Steps -> Statuses]
  BY DEF IInv, CommonInv, RunTypes
<1> QED
  BY <1>1 DEF KeepsDone, R!Return

\* The same of the QA coordinators.
LEMMA QaPhaseKeeps ==
    ASSUME IInv, NEW l, NEW s, NEW a, Q!Phase(l, s, a)
    PROVE  KeepsDone
<1>1. step \in [Steps -> Statuses]
  BY DEF IInv, CommonInv, RunTypes
<1>2. step' = step \/ (step[s] # "completed" /\ step' = [step EXCEPT ![s] = "running"])
  BY DEF Q!Phase, Q!Drive, Q!Eligible
<1>3. workflow' = workflow
  BY DEF Q!Phase, Q!Drive
<1> QED
  BY <1>1, <1>2, <1>3 DEF KeepsDone

LEMMA QaReturnKeeps ==
    ASSUME IInv, Q!Return
    PROVE  KeepsDone
<1>1. step \in [Steps -> Statuses]
  BY DEF IInv, CommonInv, RunTypes
<1> QED
  BY <1>1 DEF KeepsDone, Q!Return

\* The same of the review.
LEMMA ReviewPhaseKeeps ==
    ASSUME IInv, NEW l, NEW s, NEW a, I!Phase(l, s, a)
    PROVE  KeepsDone
<1>1. step \in [Steps -> Statuses]
  BY DEF IInv, CommonInv, RunTypes
<1>2. step' = step \/ (step[s] # "completed" /\ step' = [step EXCEPT ![s] = "running"])
  BY DEF I!Phase, I!Drive, I!Eligible
<1>3. workflow' = workflow
  BY DEF I!Phase, I!Drive
<1> QED
  BY <1>1, <1>2, <1>3 DEF KeepsDone

LEMMA ReviewReturnKeeps ==
    ASSUME IInv, I!Return
    PROVE  KeepsDone
<1>1. step \in [Steps -> Statuses]
  BY DEF IInv, CommonInv, RunTypes
<1> QED
  BY <1>1 DEF KeepsDone, I!Return

\* The checkpoint between two rounds of research is the one exception.
NoneRedone ==
    /\ workflow' = workflow
    /\ \A s \in Steps : step[s] = "completed" /\ step'[s] # "completed" =>
          s \in {"research", "research-review"} /\ input'.iter = input.iter + 1

\* Most steps change no row.
LEMMA SameKeeps == UNCHANGED <<workflow, step>> => KeepsDone
BY DEF KeepsDone

\* What keeps everything redoes nothing.
LEMMA KeepsNoneRedone == KeepsDone => NoneRedone
BY DEF KeepsDone, NoneRedone

\* Research redoes only the steps of a round that is to be repeated.
LEMMA ResearchKeeps ==
    ASSUME IInv, Research, R!ResearchNext \/ R!DecideApproval
    PROVE  NoneRedone
<1>1. ASSUME NEW l, NEW s, NEW a, R!ResearchPhase(l, s, a) PROVE KeepsDone
  <2>1. R!Phase(l, s, a) \/ UNCHANGED <<workflow, step>>
    BY <1>1 DEF R!ResearchPhase, R!StopAtAbort, R!SaveRunStatus
  <2> QED
    BY <2>1, ResearchPhaseKeeps, SameKeeps
<1>2. CASE R!ResearchReturn
  BY <1>2, ResearchReturnKeeps, KeepsNoneRedone DEF R!ResearchReturn
<1>3. CASE R!NextRound \/ R!Continue \/ R!Exhausted
  BY <1>3, SameKeeps, KeepsNoneRedone DEF R!NextRound, R!Continue, R!Exhausted, R!Wanted, R!AtLimit,
     R!WriteInput, R!researchVars, R!CleanInput, R!SaveRunStatus, R!Goto, R!Leave
<1>4. CASE R!AskApproval \/ R!AwaitApproval \/ R!Approved
  BY <1>4, SameKeeps, KeepsNoneRedone DEF R!AskApproval, R!AwaitApproval, R!Approved, R!Wanted,
     R!runVars, R!SaveRunStatus, R!researchVars, R!Goto, R!Leave
<1>5. CASE R!Proceed \/ R!Built \/ R!DecideApproval
  BY <1>5, SameKeeps, KeepsNoneRedone DEF R!Proceed, R!Built, R!DecideApproval, R!Goto, R!researchVars,
     R!SaveRunStatus, R!Claim, R!Leave
<1>6. CASE R!Dispose
  <2>1. pc = "dispose" /\ workflow' = workflow /\ step' = R!Skipped({"build"}) /\ Spot = "dispose"
    BY <1>6 DEF R!Dispose, Spot
  <2>2. out["plan"] = "stop"
    BY <1>6 DEF R!Dispose
  <2>3. step["build"] # "completed"
    BY <2>2 DEF IInv, ResearchInv, ApprovalStands, DrivenStatus
  <2> QED
    BY <2>1, <2>3, ResearchSkipKeeps, KeepsNoneRedone
<1>7. CASE R!ResearchFailed
  <2>1. workflow' = workflow /\ step' = R!Skipped({s \in R!StepsOf(workflow) :
                                       step[s] \notin {"completed", "pending"} /\ s # mem.cur})
    BY <1>7 DEF R!ResearchFailed
  <2> QED
    BY <2>1, ResearchSkipKeeps, KeepsNoneRedone
<1>8. CASE R!Checkpoint
  <2>1. pc = "input" /\ Spot = "input" /\ workflow' = workflow /\ input'.iter = mem.iter
    BY <1>8 DEF R!Checkpoint, R!CommitInput, Spot
  <2>2. mem.iter \in {input.iter + 1, MaxIterations}
    BY <2>1 DEF IInv, ResearchInv, ResearchWalk
  <2>3. step \in [Steps -> Statuses]
    BY DEF IInv, CommonInv, RunTypes
  <2>4. mem.iter = MaxIterations => step' = step
    BY <1>8 DEF R!Checkpoint
  <2>5. mem.iter # MaxIterations => step' = [step EXCEPT !["research"] = "pending", !["research-review"] = "pending"]
    BY <1>8 DEF R!Checkpoint
  <2> QED
    BY <2>1, <2>2, <2>3, <2>4, <2>5 DEF NoneRedone
<1> QED
  BY <1>1, <1>2, <1>3, <1>4, <1>5, <1>6, <1>7, <1>8, KeepsNoneRedone DEF R!ResearchNext

\* The QA coordinators redo nothing: their skips touch no completed step.
LEMMA QaKeeps ==
    ASSUME IInv, Qa, Q!QaNext
    PROVE  KeepsDone
<1>1. ASSUME NEW l, NEW s, NEW a, Q!QaPhase(l, s, a) PROVE KeepsDone
  BY <1>1, QaPhaseKeeps DEF Q!QaPhase
<1>2. CASE Q!QaReturn
  BY <1>2, QaReturnKeeps DEF Q!QaReturn
<1>3. CASE Q!ScopeStops
  <2>1. /\ pc = "scoped" /\ Spot = "scoped" /\ workflow = Walking /\ out["scope"] = "stop"
        /\ step' = Q!Skipped({"plan", "build", "qa", "fix"}) /\ workflow' = workflow
    BY <1>3 DEF Q!ScopeStops, Q!Finish, Q!Coordinates, Walking, Spot
  <2>2. \A s \in {"plan", "build", "qa", "fix"} : step[s] \notin DrivenStatus
    BY <2>1 DEF IInv, QaInv, QaWalk, QaRows, MayBuild, BuildSteps, QaRounds
  <2> QED
    BY <2>1, <2>2, QaSkipKeeps DEF DrivenStatus
<1>4. CASE Q!TodoBlocked
  <2>1. /\ pc = "assessed" /\ Spot = "assessed" /\ workflow # Walking /\ workflow = Todo /\ out["validate-todo"] = "blocked"
        /\ step' = Q!Skipped({"prepare", "build", "qa"}) /\ workflow' = workflow
    BY <1>4 DEF Q!TodoBlocked, Q!Finish, Q!Coordinates, Todo, Walking, Spot
  <2>2. \A s \in {"prepare", "build", "qa"} : step[s] \notin DrivenStatus
    BY <2>1 DEF IInv, QaInv, QaWalk, QaRows, MayBuild, BuildSteps, QaRounds
  <2> QED
    BY <2>1, <2>2, QaSkipKeeps DEF DrivenStatus
<1>5. CASE Q!TodoReady
  <2>1. /\ workflow = Todo /\ out["validate-todo"] = "ready" /\ step' = Q!Skipped({"prepare"}) /\ workflow' = workflow
    BY <1>5 DEF Q!TodoReady, Q!Coordinates, Todo
  <2>2. step["prepare"] \notin DrivenStatus
    BY <2>1 DEF IInv, QaInv, QaRows
  <2> QED
    BY <2>1, <2>2, QaSkipKeeps DEF DrivenStatus
<1>6. CASE Q!QaFailed
  <2> DEFINE Skip == {s \in Q!StepsOf(workflow) \ {"scope"} :
                        /\ s # mem.cur /\ step[s] # "completed"
                        /\ workflow = "todo-build-qa" => s # "fix"}
  <2>1. step' = Q!Skipped(Skip) /\ workflow' = workflow /\ \A s \in Skip : step[s] # "completed"
    BY <1>6 DEF Q!QaFailed, Q!Finish
  <2> HIDE DEF Skip
  <2> QED
    BY <2>1, QaSkipKeeps
<1>7. CASE Q!ScopeProceeds \/ Q!TodoNeedsPreparation \/ Q!LoopTop
  BY <1>7, SameKeeps DEF Q!ScopeProceeds, Q!TodoNeedsPreparation, Q!LoopTop, Q!Move, Q!Finish
<1>8. CASE Q!RecordOccurrence \/ Q!RecordEvent \/ Q!Verify \/ Q!MarkFixed
  BY <1>8, SameKeeps DEF Q!RecordOccurrence, Q!RecordEvent, Q!Verify, Q!MarkFixed, Q!Move, Q!runVars
<1>9. CASE Q!Accept \/ Q!GiveUp \/ Q!Fix
  BY <1>9, SameKeeps DEF Q!Accept, Q!GiveUp, Q!Fix, Q!Move, Q!Finish
<1>10. CASE Q!NextIteration \/ Q!KeepIteration \/ Q!Again
  BY <1>10, SameKeeps DEF Q!NextIteration, Q!WriteInput, Q!KeepIteration, Q!Again, Q!CleanInput
<1>11. CASE Q!Report \/ Q!Close
  BY <1>11, SameKeeps DEF Q!Report, Q!Close, Q!Move, Q!SaveRunStatus
<1> QED
  BY <1>1, <1>2, <1>3, <1>4, <1>5, <1>6, <1>7, <1>8, <1>9, <1>10, <1>11 DEF Q!QaNext

\* The review redoes nothing.
LEMMA ReviewKeeps ==
    ASSUME IInv, Interactive, I!ReviewNext \/ I!ReviewOperation
    PROVE  KeepsDone
<1>1. ASSUME NEW l, NEW s, NEW a, I!ReviewPhase(l, s, a) PROVE KeepsDone
  BY <1>1, ReviewPhaseKeeps DEF I!ReviewPhase
<1>2. CASE I!ReviewReturn
  BY <1>2, ReviewReturnKeeps DEF I!ReviewReturn
<1>3. ASSUME NEW l, NEW ts, NEW a, I!Checkpoint(l, ts, a) PROVE KeepsDone
  BY <1>3, SameKeeps DEF I!Checkpoint, I!SaveRunStatus, I!WalkOn
<1>4. CASE I!OpenScope \/ I!ScopeDecided \/ I!Correct \/ I!ScopeStillOpen
  BY <1>4, SameKeeps DEF I!OpenScope, I!ScopeDecided, I!Correct, I!ScopeStillOpen, I!WalkOn
<1>5. CASE I!AwaitScope \/ I!FinishReview \/ I!ReviewedStepFailed \/ I!Explained \/ I!ExplainFailed
  BY <1>5, SameKeeps DEF I!AwaitScope, I!FinishReview, I!ReviewedStepFailed, I!Explained,
     I!ExplainFailed,
     I!SaveRunStatus
<1>6. CASE I!ClaimDecision \/ I!SaveDecision \/ I!Ask
  BY <1>6, SameKeeps DEF I!ClaimDecision, I!SaveDecision, I!Ask, I!Claim
<1>7. CASE I!Stay \/ I!Adjudicate
  BY <1>7, SameKeeps DEF I!Stay, I!Adjudicate, I!runVars
<1> QED
  BY <1>1, <1>2, <1>3, <1>4, <1>5, <1>6, <1>7 DEF I!ReviewNext, I!ReviewOperation

-----------------------------------------------------------------------------
(* All of it *)

\* A new run and a prepared one.
LEMMA InitHolds ==
    ASSUME Init
    PROVE  IInv
<1> USE DEF Init
<1>1. PICK prepared \in BOOLEAN :
         /\ prepared => Interactive
         /\ run = IF prepared THEN "pending" ELSE "running"
         /\ owner = IF prepared THEN "none" ELSE "live"
         /\ step = [s \in Steps |->
                      IF prepared /\ s \in {"scope", "plan"} THEN "completed" ELSE "absent"]
         /\ out = [s \in Steps |-> IF step[s] = "completed" THEN "go" ELSE "none"]
         /\ thread = [t \in I!Threads |->
                        IF prepared /\ t = "scope" THEN "decided" ELSE "absent"]
         /\ pc = IF prepared THEN "idle" ELSE First(workflow)
  OBVIOUS
<1>2. /\ input.iter = 0 /\ input.feedback = "none" /\ input.ver = 0 /\ files = {0}
      /\ input \in [iter : Nat, feedback : {"none", "review", "human"}, ver : Nat]
  OBVIOUS
<1>3. First(workflow) \in {"research", "scope", "validate-todo", "advance"}
  BY DEF First, Workflows
<1>4. pc \in {"idle", "research", "scope", "validate-todo", "advance"} /\ Spot = pc
  BY <1>1, <1>3 DEF Spot
<1>5. mem \in MemRecords /\ mem.iter = 0
  BY IdleMem
<1>6. /\ step \in [Steps -> Statuses] /\ out \in [Steps -> Outs]
      /\ \A s \in Steps : step[s] \in {"absent", "completed"}
      /\ \A s \in Steps : ~Interactive => step[s] = "absent"
  BY <1>1 DEF Statuses, Outs
<1>7. CommonInv
  BY <1>1, <1>2, <1>4, <1>5, <1>6, Bounded
     DEF CommonInv, RunTypes, MemTypes, AtDriver, Alive, Iteration, InputFile, Runs
<1>8. ResearchInv
  <2> SUFFICES ASSUME Research PROVE ApprovalTypes /\ ResearchWalk /\ ApprovalStands
    BY DEF ResearchInv
  <2>1. ~Interactive /\ First(workflow) = "research"
    BY DEF Research, Interactive, First
  <2>2. /\ approval = [status |-> "absent", decision |-> "none"] /\ rounds = [done |-> 0, approved |-> 0]
        /\ final = "none"
    BY DEF R!NoApproval
  <2>3. ApprovalTypes
    BY <2>2 DEF ApprovalTypes
  <2>4. ResearchWalk
    BY <1>1, <1>2, <1>4, <2>1, Bounded DEF ResearchWalk
  <2>5. ApprovalStands
    BY <1>1, <1>6, <2>1, <2>2, StepNames DEF ApprovalStands, InForce, DrivenStatus
  <2> QED
    BY <2>3, <2>4, <2>5
<1>9. QaInv
  <2> SUFFICES ASSUME Qa PROVE QaTypes /\ QaWalk /\ QaRows /\ QaStands /\ History
    BY DEF QaInv
  <2>1. ~Interactive /\ First(workflow) = IF workflow = Walking THEN "scope" ELSE "validate-todo"
    BY DEF Qa, Interactive, First, Walking
  <2>2. run = "running" /\ pc = First(workflow)
    BY <1>1, <2>1
  <2>3. QaTypes
    BY <1>4, <2>2 DEF QaTypes, Verdicts
  <2>4. QaWalk
    BY <1>2, <1>4, <2>1, <2>2, Bounded DEF QaWalk, Walking, Todo, Qa
  <2>5. QaRows
    BY <1>2, <1>6, <2>1, StepNames DEF QaRows, BuildSteps, QaRounds, Fixes, DrivenStatus
  <2>6. QaStands
    BY <1>4, <2>2 DEF QaStands, Claimed
  <2>7. History
    BY <1>2, <1>4, <2>2 DEF History
  <2> QED
    BY <2>3, <2>4, <2>5, <2>6, <2>7
<1>10. ReviewInv
  <2> SUFFICES ASSUME Interactive PROVE ReviewTypes /\ ReviewWalk /\ ReviewRows
    BY DEF ReviewInv
  <2>1. pc \in {"idle", "advance"} /\ run \in {"pending", "running"}
    BY <1>1 DEF Interactive, First
  <2>2. ReviewTypes
    BY <1>1, <1>2 DEF ReviewTypes, ThreadStates, Threads
  <2>3. ReviewWalk
    BY <1>4, <2>1 DEF ReviewWalk
  <2>4. ReviewRows
    BY <1>1, <2>1, StepNames DEF ReviewRows, Decided, Threads
  <2> QED
    BY <2>2, <2>3, <2>4
<1> QED
  BY <1>7, <1>8, <1>9, <1>10 DEF IInv

\* A run is of one workflow.
LEMMA OneWorkflow ==
    ASSUME CommonInv
    PROVE  /\ Research \/ Qa \/ Interactive
           /\ ~(Research /\ Qa) /\ ~(Research /\ Interactive) /\ ~(Qa /\ Interactive)
BY DEF CommonInv, RunTypes, Workflows, Research, Qa, Interactive

\* What holds of its workflow and of the run is all there is to show.
LEMMA OneHolds ==
    ASSUME IInv, workflow' = workflow, CommonInv',
           Research => ResearchInv', Qa => QaInv', Interactive => ReviewInv'
    PROVE  IInv'
<1>1. Research' = Research /\ Qa' = Qa /\ Interactive' = Interactive
  BY DEF Research, Qa, Interactive
<1>2. ~Research => ResearchInv'
  BY <1>1 DEF ResearchInv
<1>3. ~Qa => QaInv'
  BY <1>1 DEF QaInv
<1>4. ~Interactive => ReviewInv'
  BY <1>1 DEF ReviewInv
<1> QED
  BY <1>2, <1>3, <1>4 DEF IInv

\* Every step of a coordinator, and every decision.
LEMMA WorkHolds ==
    ASSUME IInv, Work \/ Decide
    PROVE  IInv'
<1>1. CASE Research /\ (R!ResearchNext \/ R!DecideApproval) /\ UNCHANGED <<qaVars, reviewVars>>
  <2>1. CommonInv' /\ ResearchInv'
    BY <1>1, ResearchStep
  <2>2. workflow' = workflow
    BY <1>1, ResearchKeeps DEF NoneRedone
  <2> QED
    BY <1>1, <2>1, <2>2, OneWorkflow, OneHolds DEF IInv
<1>2. CASE Qa /\ Q!QaNext /\ UNCHANGED <<researchVars, reviewVars>>
  <2>1. CommonInv' /\ QaInv'
    BY <1>2, QaStepHolds
  <2>2. workflow' = workflow
    BY <1>2, QaKeeps DEF KeepsDone
  <2> QED
    BY <1>2, <2>1, <2>2, OneWorkflow, OneHolds DEF IInv
<1>3. CASE Interactive /\ (I!ReviewNext \/ I!ReviewOperation) /\ UNCHANGED <<researchVars, qaVars>>
  <2>1. CommonInv' /\ ReviewInv'
    BY <1>3, ReviewStepHolds
  <2>2. workflow' = workflow
    BY <1>3, ReviewKeeps DEF KeepsDone
  <2> QED
    BY <1>3, <2>1, <2>2, OneWorkflow, OneHolds DEF IInv
<1> QED
  BY <1>1, <1>2, <1>3 DEF Work, Decide

-----------------------------------------------------------------------------
(* Disturbances *)

\* Marking what runs as interrupted loses nothing.
LEMMA InterruptedWeakens ==
    ASSUME CommonInv, step' = Interrupted
    PROVE  Weakened
BY DEF CommonInv, RunTypes, Weakened, Interrupted, Statuses, DrivenStatus

\* A crash, an error and the mark of an interruption end the execution.
LEMMA DisturbanceEnds ==
    ASSUME IInv, MarkInterrupted \/ Throw \/ Crash
    PROVE  Ended /\ run' \in {"running", "interrupted"}
<1> USE DEF IInv, CommonInv
<1>1. CASE MarkInterrupted
  <2>1. /\ pc' = "idle" /\ mem' = mem /\ run' = "interrupted" /\ owner' = "none" /\ step' = Interrupted
        /\ UNCHANGED <<workflow, out, input, files>>
    BY <1>1 DEF MarkInterrupted
  <2> QED
    BY <2>1, InterruptedWeakens DEF Ended, MemTypes, Runs
<1>2. CASE Throw
  <2>1. /\ pc' = "idle" /\ mem' = Idle /\ UNCHANGED <<workflow, out, input, files>> /\ run = "running"
        /\ \/ run' = "interrupted" /\ owner' = "none" /\ step' = Interrupted
           \/ UNCHANGED <<run, owner, step>>
    BY <1>2 DEF Throw, Leave, Alive
  <2>2. Weakened
    BY <2>1, InterruptedWeakens, SameWeakens
  <2> QED
    BY <2>1, <2>2, IdleMem DEF Ended, RunTypes, Runs
<1>3. CASE Crash
  <2>1. /\ pc' = "idle" /\ mem' = Idle /\ UNCHANGED <<workflow, run, step, out, input, files>>
        /\ owner' = "dead" /\ run = "running"
    BY <1>3 DEF Crash, Leave, Alive
  <2> QED
    BY <2>1, SameWeakens, IdleMem DEF Ended, Runs
<1> QED
  BY <1>1, <1>2, <1>3

\* The driver gives up: the step was running, so nothing was built on it.
Stopped ==
    /\ pc' = "failed" /\ Weakened
    /\ UNCHANGED <<workflow, run, owner, out, input, files, mem>>

\* A failed step stops the walk.
LEMMA FailStops ==
    ASSUME IInv, Fail
    PROVE  Stopped /\ pc = "drive"
<1>1. /\ pc = "drive" /\ pc' = "failed" /\ UNCHANGED <<workflow, run, owner, out, input, files, mem>>
      /\ \E status \in {"cancelled", "failed", "fatal"} : step' = [step EXCEPT ![mem.cur] = status]
  BY DEF Fail, Goto
<1>2. mem.cur \in Steps /\ step[mem.cur] = "running" /\ step \in [Steps -> Statuses]
  BY <1>1 DEF IInv, CommonInv, AtDriver, RunTypes
<1>3. PICK status \in {"cancelled", "failed", "fatal"} : step' = [step EXCEPT ![mem.cur] = status]
  BY <1>1
<1>4. Weakened
  BY <1>2, <1>3 DEF Weakened, Statuses, DrivenStatus
<1> QED
  BY <1>1, <1>4 DEF Stopped

\* A walk that is stopped relies on nothing the step had still to give.
LEMMA StoppedHolds ==
    ASSUME IInv, Stopped, pc = "drive", UNCHANGED <<researchVars, qaVars, reviewVars>>
    PROVE  IInv'
<1> USE DEF IInv, CommonInv
<1>1. /\ pc' = "failed" /\ Spot' = "failed" /\ UNCHANGED <<workflow, run, owner, out, input, files, mem>>
      /\ run = "running" /\ Weakened
      /\ UNCHANGED <<approval, rounds, found, occ, events, final>>
      /\ UNCHANGED <<thread, corrects, adjudicated, shadowed, reported>>
  BY DEF Stopped, Spot, Alive, researchVars, qaVars, reviewVars
<1>2. CommonInv'
  BY <1>1 DEF Weakened, RunTypes, MemTypes, AtDriver, Alive, Iteration, InputFile
<1>3. ASSUME Research PROVE ResearchInv'
  <2>1. ApprovalTypes' /\ ResearchWalk'
    BY <1>1, <1>3 DEF ResearchInv, ApprovalTypes, ResearchWalk
  <2>2. \A s \in Steps : step'[s] = "completed" <=> step[s] = "completed"
    BY <1>1 DEF Weakened
  <2>3. \A s \in Steps : step'[s] \in DrivenStatus => step[s] \in DrivenStatus
    BY <1>1 DEF Weakened
  <2>4. ApprovalStands'
    BY <1>1, <1>3, <2>2, <2>3, StepNames DEF ResearchInv, ApprovalStands, InForce, Sufficient
  <2> QED
    BY <2>1, <2>4 DEF ResearchInv
<1>4. ASSUME Qa PROVE QaInv'
  <2>1. (MayBuild => MayBuild') /\ (QaAccepted => QaAccepted') /\ QaRows'
    BY <1>1, <1>4, WeakenedRows
  <2>2. QaTypes' /\ QaWalk'
    BY <1>1, <1>4 DEF QaInv, QaTypes, QaWalk
  <2>3. QaStands' /\ History'
    BY <1>1, <1>4, <2>1 DEF QaInv, QaStands, Claimed, History
  <2> QED
    BY <2>1, <2>2, <2>3 DEF QaInv
<1>5. ASSUME Interactive PROVE ReviewInv'
  <2>1. step'["scope"] = "completed" <=> step["scope"] = "completed"
    BY <1>1, StepNames DEF Weakened
  <2>2. ReviewTypes' /\ ReviewWalk' /\ ReviewRows'
    BY <1>1, <1>5, <2>1 DEF ReviewInv, ReviewTypes, ReviewWalk, ReviewRows
  <2> QED
    BY <2>2 DEF ReviewInv
<1> QED
  BY <1>1, <1>2, <1>3, <1>4, <1>5, OneHolds

\* An abort changes nothing yet.
LEMMA UnmovedHolds ==
    ASSUME IInv, UNCHANGED <<workflow, run, owner, step, out, input, files, pc, mem>>,
           UNCHANGED <<researchVars, qaVars, reviewVars>>
    PROVE  IInv'
<1> USE DEF IInv
<1>1. /\ UNCHANGED <<approval, rounds, found, occ, events, final>>
      /\ UNCHANGED <<thread, corrects, adjudicated, shadowed, reported>>
  BY DEF researchVars, qaVars, reviewVars
<1>2. Spot' = Spot /\ Follows' = Follows /\ MayBuild' = MayBuild /\ I!QaThreads' = I!QaThreads
  BY <1>1 DEF Spot, PhaseOf, Follows, Research, MayBuild, I!QaThreads
<1>3. CommonInv'
  BY <1>1, <1>2 DEF CommonInv, RunTypes, MemTypes, AtDriver, Alive, Iteration, InputFile
<1>4. ASSUME Research PROVE ResearchInv'
  BY <1>1, <1>2, <1>4 DEF ResearchInv, ApprovalTypes, ResearchWalk, ApprovalStands, InForce, Sufficient
<1>5. ASSUME Qa PROVE QaInv'
  <2>1. QaTypes' /\ QaWalk' /\ QaRows'
    BY <1>1, <1>2, <1>5 DEF QaInv, QaTypes, QaWalk, QaRows
  <2>2. QaStands' /\ History'
    BY <1>1, <1>2, <1>5 DEF QaInv, QaStands, Claimed, QaAccepted, History, VerifiedUpTo
  <2> QED
    BY <2>1, <2>2 DEF QaInv
<1>6. ASSUME Interactive PROVE ReviewInv'
  BY <1>1, <1>2, <1>6 DEF ReviewInv, ReviewTypes, ReviewWalk, ReviewRows, Reviewed
<1> QED
  BY <1>3, <1>4, <1>5, <1>6, OneHolds

\* A resume walks from the beginning.
LEMMA ResumeHolds ==
    ASSUME IInv, Resume(First(workflow)), UNCHANGED <<researchVars, qaVars, reviewVars>>
    PROVE  IInv'
<1>1. /\ Begun(First(workflow)) /\ input.iter < MaxIterations /\ workflow' = workflow
      /\ UNCHANGED <<approval, rounds, found, occ, events, final>>
      /\ UNCHANGED <<thread, corrects, adjudicated, shadowed, reported>>
  <2>1. mem' = [Idle EXCEPT !.iter = input.iter, !.feedback = input.feedback]
    BY DEF Resume
  <2>2. input.iter \in Nat /\ input.feedback \in {"none", "review", "human"}
    BY DEF IInv, CommonInv, RunTypes
  <2>3. mem' \in MemRecords /\ mem'.iter = input.iter
    BY <2>1, <2>2, MemStarted
  <2> QED
    BY <2>3 DEF Resume, Claim, MayResume, Begun, researchVars, qaVars, reviewVars
<1>2. CASE Research
  <2>1. First(workflow) = "research"
    BY <1>2 DEF Research, First
  <2>2. CommonInv' /\ ResearchInv'
    BY <1>1, <1>2, <2>1, ResearchResumes
  <2> QED
    BY <1>1, <1>2, <2>2, OneWorkflow, OneHolds DEF IInv
<1>3. CASE Qa
  <2>1. First(workflow) = IF workflow = Walking THEN "scope" ELSE "validate-todo"
    BY <1>3 DEF Qa, First, Walking
  <2>2. CommonInv' /\ QaInv'
    BY <1>1, <1>3, <2>1, QaResumes
  <2> QED
    BY <1>1, <1>3, <2>2, OneWorkflow, OneHolds DEF IInv
<1>4. CASE Interactive
  <2>1. First(workflow) = "advance"
    BY <1>4 DEF Interactive, First
  <2>2. CommonInv' /\ ReviewInv'
    BY <1>1, <1>4, <2>1, ReviewResumes
  <2> QED
    BY <1>1, <1>4, <2>2, OneWorkflow, OneHolds DEF IInv
<1> QED
  BY <1>2, <1>3, <1>4, OneWorkflow DEF IInv

\* An execution may end anywhere without a status of its own.
LEMMA EndedHolds ==
    ASSUME IInv, Ended, run' \in {"running", "interrupted"}, UNCHANGED <<researchVars, qaVars, reviewVars>>
    PROVE  IInv'
<1>1. /\ workflow' = workflow /\ UNCHANGED <<approval, rounds, found, occ, events, final>>
      /\ UNCHANGED <<thread, corrects, adjudicated, shadowed, reported>>
  BY DEF Ended, researchVars, qaVars, reviewVars
<1>2. CASE Research
  <2>1. CommonInv' /\ ResearchInv'
    BY <1>1, <1>2, ResearchEnds
  <2> QED
    BY <1>1, <1>2, <2>1, OneWorkflow, OneHolds DEF IInv
<1>3. CASE Qa
  <2>1. CommonInv' /\ QaInv'
    BY <1>1, <1>3, QaEnds
  <2> QED
    BY <1>1, <1>3, <2>1, OneWorkflow, OneHolds DEF IInv
<1>4. CASE Interactive
  <2>1. Opens
    BY <1>1, <1>4, SameOpens DEF IInv, ReviewInv
  <2>2. CommonInv' /\ ReviewInv'
    BY <1>1, <1>4, <2>1, ReviewEnds
  <2> QED
    BY <1>1, <1>4, <2>2, OneWorkflow, OneHolds DEF IInv
<1> QED
  BY <1>2, <1>3, <1>4, OneWorkflow DEF IInv

\* Every disturbance.
LEMMA DisturbHolds ==
    ASSUME IInv, Disturb
    PROVE  IInv'
<1>1. UNCHANGED <<researchVars, qaVars, reviewVars>>
  BY DEF Disturb
<1>2. CASE Resume(First(workflow))
  BY <1>1, <1>2, ResumeHolds
<1>3. CASE MarkInterrupted \/ Throw \/ Crash
  BY <1>1, <1>3, DisturbanceEnds, EndedHolds
<1>4. CASE Abort
  BY <1>1, <1>4, UnmovedHolds DEF Abort
<1>5. CASE Fail
  BY <1>1, <1>5, FailStops, StoppedHolds
<1> QED
  BY <1>2, <1>3, <1>4, <1>5 DEF Disturb

\* The invariant is inductive.
LEMMA StepHolds == IInv /\ [Next]_vars => IInv'
<1> SUFFICES ASSUME IInv, [Next]_vars PROVE IInv'
  OBVIOUS
<1>1. CASE Work \/ Decide
  BY <1>1, WorkHolds
<1>2. CASE Disturb
  BY <1>2, DisturbHolds
<1>3. CASE UNCHANGED vars
  BY <1>3, UnmovedHolds DEF vars, runVars
<1> QED
  BY <1>1, <1>2, <1>3 DEF Next

\* What is claimed of a run follows from where it stands.
LEMMA InvFollows == IInv => Inv
<1> SUFFICES ASSUME IInv PROVE Inv
  OBVIOUS
<1> USE DEF IInv, CommonInv
<1>1. InputReadable
  BY DEF InputFile, InputReadable
<1>2. BuildIsApproved
  <2> SUFFICES ASSUME Research, Driven("plan") \/ Driven("build")
               PROVE  approval.decision = "approved" /\ rounds.approved = rounds.done
    BY DEF BuildIsApproved
  <2>1. step["plan"] \in DrivenStatus
    BY DEF Driven, DrivenStatus, ResearchInv, ApprovalStands
  <2> QED
    BY <2>1 DEF ResearchInv, ApprovalStands
<1>3. RoundsBounded
  <2>1. ASSUME Research, pc = "drive" PROVE mem.iter < MaxIterations
    <3>1. mem.cur \in {"research", "research-review", "plan", "build"} /\ Spot = PhaseOf(mem.cur)
      BY <2>1 DEF AtDriver, Follows, Spot, Research, Walking, Todo
    <3>2. Spot \in {"research", "review", "plan", "build"}
      BY <3>1 DEF PhaseOf, QaRounds, Fixes
    <3>3. input.iter < MaxIterations /\ mem.iter = input.iter
      BY <2>1, <3>2 DEF ResearchInv, ResearchWalk, Iteration
    <3> QED
      BY <3>3
  <2> QED
    BY <2>1 DEF RoundsBounded, Iteration
<1>4. IterationFollowsFixes
  <2> SUFFICES ASSUME Qa, NEW i \in 0..1
               PROVE  /\ input.iter > i => step[Q!FixStep(i)] = "completed"
                      /\ Driven(Q!FixStep(i)) => input.iter >= i /\ out[Q!QaStep(i)] = "block"
    BY DEF IterationFollowsFixes
  <2>1. Q!FixStep(i) = FixAt[i] /\ Q!QaStep(i) = QaAt[i] /\ (i = 0 \/ i = 1) /\ input.iter \in 0..2
    BY IterationNames, QaNumbers
  <2>2. step[FixAt[i]] \in DrivenStatus => input.iter >= i /\ out[QaAt[i]] = "block"
    BY <2>1, IterationNames DEF QaInv, QaRows
  <2>3. input.iter > i => step[FixAt[i]] = "completed"
    BY <2>1, IterationNames DEF QaInv, QaRows
  <2> QED
    BY <2>1, <2>2, <2>3 DEF Driven, DrivenStatus
<1>5. HistoryKeepsUp
  <2> SUFFICES ASSUME workflow = Walking
               PROVE  /\ \A i \in 1..input.iter : Q!With({i} \X found[i], "fixed") \subseteq events
                      /\ run = "completed" => Q!With({o \in occ : o[1] < input.iter + 1}, "verified") \subseteq events
    BY DEF HistoryKeepsUp, Walking
  <2>1. History
    BY DEF QaInv, Qa, Walking
  <2>2. \A i \in 1..input.iter : Q!With({i} \X found[i], "fixed") \subseteq events
    <3> SUFFICES ASSUME NEW i \in 1..input.iter, NEW o \in {i} \X found[i]
                 PROVE  Append(o, "fixed") \in events
      BY DEF Q!With
    <3>1. PICK f \in found[i] : o = <<i, f>>
      OBVIOUS
    <3> QED
      BY <2>1, <3>1 DEF History
  <2>3. run = "completed" => Q!With({o \in occ : o[1] < input.iter + 1}, "verified") \subseteq events
    BY <2>1 DEF History, VerifiedUpTo, Q!With
  <2> QED
    BY <2>2, <2>3
<1>6. CompletedIsAccepted
  <2> SUFFICES ASSUME run = "completed" \/ final = "completed" PROVE Accepted
    BY DEF CompletedIsAccepted
  <2>1. CASE Research
    BY <2>1, OneWorkflow DEF Accepted, ResearchInv, ApprovalTypes, ApprovalStands, Driven, DrivenStatus
  <2>2. CASE Qa
    <3>1. QaAccepted
      BY <2>2 DEF QaInv, QaStands, Claimed
    <3>2. Q!QaStep(input.iter) = QaAt[input.iter]
      BY <2>2, QaNumbers, IterationNames
    <3> QED
      BY <2>2, <3>1, <3>2, OneWorkflow DEF Accepted, QaAccepted, Driven, DrivenStatus
  <2>3. CASE Interactive
    <3>1. ReviewAccepted
      BY <2>3 DEF ReviewInv, ReviewTypes, ReviewRows, ReviewAccepted
    <3> QED
      BY <2>3, <3>1, OneWorkflow DEF Accepted, ReviewAccepted, Decided
  <2> QED
    BY <2>1, <2>2, <2>3, OneWorkflow
<1>7. WaitingCanBeDecided
  <2> SUFFICES ASSUME run = "waiting"
               PROVE  IF Research THEN approval.status = "waiting" ELSE \E t \in Threads : thread[t] = "waiting"
    BY DEF WaitingCanBeDecided, Threads
  <2>1. ~Qa
    BY DEF QaInv, QaTypes
  <2> QED
    BY <2>1, OneWorkflow DEF ResearchInv, ApprovalStands, ReviewInv, ReviewWalk
<1> QED
  BY <1>1, <1>2, <1>3, <1>4, <1>5, <1>6, <1>7 DEF Inv, Alive

\* It holds of every reachable state.
LEMMA IInvHolds == Spec => []IInv
<1>1. Init => IInv
  BY InitHolds
<1> QED
  BY <1>1, StepHolds, PTL DEF Spec

\* Whatever the four coordinators, the people who decide and the failures between
\* two of their steps do: the input a resume needs is there, what is built was
\* approved as it is, rounds are bounded and counted with their fixes, the history
\* keeps up, a completed run was accepted, and one that waits can be decided.
THEOREM InvHolds == Spec => []Inv
<1> QED
  BY IInvHolds, InvFollows, PTL

\* No disturbance redoes anything.
LEMMA DisturbKeeps ==
    ASSUME IInv, Disturb
    PROVE  NoneRedone
<1>1. CASE MarkInterrupted \/ Throw \/ Crash
  BY <1>1, DisturbanceEnds DEF Ended, Weakened, NoneRedone
<1>2. CASE Fail
  BY <1>2, FailStops DEF Stopped, Weakened, NoneRedone
<1>3. CASE Abort \/ Resume(First(workflow))
  BY <1>3, SameKeeps, KeepsNoneRedone DEF Abort, Resume
<1> QED
  BY <1>1, <1>2, <1>3 DEF Disturb

\* Completed work is never redone, but for a round of research that is to be
\* repeated, and then the persisted iteration moves on in the same step.
THEOREM NothingRedoneHolds == Spec => NothingRedone
<1>1. ASSUME IInv, [Next]_vars
      PROVE  [\A s \in Steps : step[s] = "completed" /\ step'[s] # "completed" =>
                s \in {"research", "research-review"} /\ input'.iter = input.iter + 1]_vars
  <2>1. CASE Research /\ (R!ResearchNext \/ R!DecideApproval)
    BY <1>1, <2>1, ResearchKeeps DEF NoneRedone
  <2>2. CASE Qa /\ Q!QaNext
    BY <1>1, <2>2, QaKeeps DEF KeepsDone
  <2>3. CASE Interactive /\ (I!ReviewNext \/ I!ReviewOperation)
    BY <1>1, <2>3, ReviewKeeps DEF KeepsDone
  <2>4. CASE Disturb
    BY <1>1, <2>4, DisturbKeeps DEF NoneRedone
  <2>5. CASE UNCHANGED vars
    BY <2>5
  <2> QED
    BY <1>1, <2>1, <2>2, <2>3, <2>4, <2>5 DEF Next, Work, Decide
<1> QED
  BY <1>1, IInvHolds, PTL DEF Spec, NothingRedone

-----------------------------------------------------------------------------
(* What a client is shown *)

\* A step is shown as running only while the driver has it, or after the coordinator
\* was lost and before the run is marked as interrupted.
RunningIsAtWork ==
    \A s \in Steps : step[s] = "running" => \/ pc = "drive" /\ s = mem.cur
                                            \/ pc = "idle" /\ run = "running"

\* Whatever is done has an artifact.
DoneSays == \A s \in Steps : step[s] = "completed" => out[s] # "none"

\* A person who is asked may still ask for a further round.
MayStillReject == Research => (InForce => input.iter < MaxIterations)

\* There are no reports of rounds to come, nor of a run that may not be built.
ReportsSoFar ==
    Qa => /\ \A j \in 0..2 : j > input.iter => out[QaAt[j]] = "none"
          /\ \A s \in QaRounds : out[s] # "none" => MayBuild

\* What the views rely on beyond what the coordinators do.
ViewIInv == RunningIsAtWork /\ DoneSays /\ MayStillReject /\ ReportsSoFar

\* What a step does to the rows: none starts to run or is completed,
Calm ==
    /\ pc # "drive" /\ UNCHANGED <<workflow, out>>
    /\ \A s \in Steps : step'[s] \in {"running", "completed"} => step'[s] = step[s]
    /\ pc = "idle" => run # "running" \/ UNCHANGED <<pc, run>>

\* or one is given to the driver,
Sent ==
    /\ pc \notin {"drive", "idle"} /\ pc' = "drive" /\ UNCHANGED <<workflow, out>>
    /\ step' = [step EXCEPT ![mem'.cur] = "running"]

\* or the driver's comes back with an artifact.
Came ==
    /\ pc = "drive" /\ workflow' = workflow
    /\ step' = [step EXCEPT ![mem.cur] = "completed"]
    /\ \E a \in Answers(mem.cur) : out' = [out EXCEPT ![mem.cur] = a]

RowStep == Calm \/ Sent \/ Came

\* None of them leaves a step running behind, nor completes one without an artifact.
LEMMA RowsShown ==
    ASSUME IInv, RunningIsAtWork, DoneSays, RowStep
    PROVE  RunningIsAtWork' /\ DoneSays'
<1>1. /\ step \in [Steps -> Statuses] /\ out \in [Steps -> Outs]
      /\ pc # "idle" => run = "running"
      /\ pc = "drive" => mem.cur \in Steps
  BY DEF IInv, CommonInv, RunTypes, Alive, AtDriver
<1>2. CASE Calm
  BY <1>1, <1>2 DEF Calm, RunningIsAtWork, DoneSays
<1>3. CASE Sent
  <2>1. \A s \in Steps : step[s] # "running"
    BY <1>3 DEF Sent, RunningIsAtWork
  <2> QED
    BY <1>1, <1>3, <2>1 DEF Sent, RunningIsAtWork, DoneSays
<1>4. CASE Came
  <2>1. PICK a \in Answers(mem.cur) : out' = [out EXCEPT ![mem.cur] = a]
    BY <1>4 DEF Came
  <2>2. a # "none"
    BY DEF Answers
  <2>3. \A s \in Steps : step'[s] # "running"
    BY <1>1, <1>4 DEF Came, RunningIsAtWork
  <2>4. DoneSays'
    BY <1>1, <1>4, <2>1, <2>2 DEF Came, DoneSays
  <2> QED
    BY <2>3, <2>4 DEF RunningIsAtWork
<1> QED
  BY <1>2, <1>3, <1>4 DEF RowStep

\* Skipping starts and completes nothing, whichever coordinator skips.
LEMMA SkipCalm ==
    ASSUME NEW skip, step' = R!Skipped(skip) \/ step' = Q!Skipped(skip) \/ step' = I!Skipped(skip)
    PROVE  \A s \in Steps : step'[s] \in {"running", "completed"} => step'[s] = step[s]
BY DEF R!Skipped, Q!Skipped, I!Skipped, R!Steps, Q!Steps, I!Steps, Steps

\* Nor does a step that leaves the rows as they are.
LEMMA SameCalm ==
    ASSUME UNCHANGED <<workflow, step, out>>, pc \notin {"drive", "idle"}
    PROVE  RowStep
BY DEF RowStep, Calm

\* What the coordinators do to the rows, research first.
LEMMA ResearchRowStep ==
    ASSUME IInv, Research, R!ResearchNext \/ R!DecideApproval
    PROVE  RowStep
<1>1. ASSUME NEW l \in {"research", "review", "plan", "build"}, NEW s, NEW a, R!ResearchPhase(l, s, a)
      PROVE  RowStep
  <2>1. CASE R!Phase(l, s, a)
    <3>0. mem \in MemRecords
      BY DEF IInv, CommonInv, MemTypes
    <3>1. \/ UNCHANGED <<workflow, step, out>> /\ pc = l
          \/ /\ pc = l /\ pc' = "drive" /\ UNCHANGED <<workflow, out>>
             /\ step' = [step EXCEPT ![s] = "running"] /\ mem' = [mem EXCEPT !.cur = s]
          \/ /\ pc = l /\ pc' = "drive" /\ UNCHANGED <<workflow, out>>
             /\ step' = [step EXCEPT ![s] = "running"] /\ mem' = [mem EXCEPT !.cur = s, !.after = a]
      BY <2>1 DEF R!Phase, R!Drive, R!Goto
    <3>2. pc' = "drive" /\ step' # step => mem'.cur = s
      BY <3>0, <3>1 DEF MemRecords
    <3> QED
      BY <1>1, <3>1, <3>2, SameCalm DEF RowStep, Sent
  <2>2. CASE R!StopAtAbort(l)
    BY <2>2, SameCalm DEF R!StopAtAbort, R!SaveRunStatus
  <2>3. CASE UNCHANGED <<workflow, step, out>> /\ pc = l
    BY <2>3, SameCalm
  <2> QED
    BY <1>1, <2>1, <2>2, <2>3 DEF R!ResearchPhase, R!SaveRunStatus
<1>2. CASE R!ResearchReturn
  BY <1>2 DEF R!ResearchReturn, R!Return, RowStep, Came, R!Answers, Answers
<1>3. CASE R!NextRound \/ R!Continue \/ R!Exhausted
  BY <1>3, SameCalm DEF R!NextRound, R!Continue, R!Exhausted, R!WriteInput, R!CleanInput, R!SaveRunStatus
<1>4. CASE R!AskApproval \/ R!AwaitApproval \/ R!Approved
  BY <1>4, SameCalm DEF R!AskApproval, R!AwaitApproval, R!Approved, R!runVars, R!SaveRunStatus
<1>5. CASE R!Proceed \/ R!Built
  BY <1>5, SameCalm DEF R!Proceed, R!Built, R!SaveRunStatus
<1>6. CASE R!DecideApproval
  BY <1>6 DEF R!DecideApproval, R!Claim, RowStep, Calm
<1>7. CASE R!Dispose
  <2>1. pc = "dispose" /\ step' = R!Skipped({"build"}) /\ UNCHANGED <<workflow, out>>
    BY <1>7 DEF R!Dispose
  <2> QED
    BY <2>1, SkipCalm DEF RowStep, Calm
<1>8. CASE R!ResearchFailed
  <2> DEFINE Skip == {s \in R!StepsOf(workflow) : step[s] \notin {"completed", "pending"} /\ s # mem.cur}
  <2>1. pc = "failed" /\ step' = R!Skipped(Skip) /\ UNCHANGED <<workflow, out>>
    BY <1>8 DEF R!ResearchFailed
  <2> HIDE DEF Skip
  <2> QED
    BY <2>1, SkipCalm DEF RowStep, Calm
<1>9. CASE R!Checkpoint
  <2>1. /\ pc = "input" /\ UNCHANGED <<workflow, out>>
        /\ \/ step' = step
           \/ step' = [step EXCEPT !["research"] = "pending", !["research-review"] = "pending"]
    BY <1>9 DEF R!Checkpoint, R!CommitInput
  <2>2. step \in [Steps -> Statuses]
    BY DEF IInv, CommonInv, RunTypes
  <2> QED
    BY <2>1, <2>2 DEF RowStep, Calm
<1> QED
  BY <1>1, <1>2, <1>3, <1>4, <1>5, <1>6, <1>7, <1>8, <1>9 DEF R!ResearchNext

\* The QA coordinators.
LEMMA QaRowStep ==
    ASSUME IInv, Qa, Q!QaNext
    PROVE  RowStep
<1>1. ASSUME NEW l \in {"scope", "plan", "validate-todo", "prepare", "build", "qa", "fix"},
             NEW s, NEW a, Q!QaPhase(l, s, a)
      PROVE  RowStep
  <2>0. mem \in MemRecords
    BY DEF IInv, CommonInv, MemTypes
  <2>1. \/ UNCHANGED <<workflow, step, out>> /\ pc = l
        \/ /\ pc = l /\ pc' = "drive" /\ UNCHANGED <<workflow, out>>
           /\ step' = [step EXCEPT ![s] = "running"] /\ mem' = [mem EXCEPT !.cur = s, !.after = a]
    BY <1>1 DEF Q!QaPhase, Q!Phase, Q!Drive, Q!Goto
  <2>2. pc' = "drive" /\ step' # step => mem'.cur = s
    BY <2>0, <2>1 DEF MemRecords
  <2> QED
    BY <1>1, <2>1, <2>2, SameCalm DEF RowStep, Sent
<1>2. CASE Q!QaReturn
  BY <1>2 DEF Q!QaReturn, Q!Return, RowStep, Came, Q!Answers, Answers
<1>3. CASE Q!ScopeStops
  <2>1. pc = "scoped" /\ step' = Q!Skipped({"plan", "build", "qa", "fix"}) /\ UNCHANGED <<workflow, out>>
    BY <1>3 DEF Q!ScopeStops, Q!Finish
  <2> QED
    BY <2>1, SkipCalm DEF RowStep, Calm
<1>4. CASE Q!TodoBlocked
  <2>1. pc = "assessed" /\ step' = Q!Skipped({"prepare", "build", "qa"}) /\ UNCHANGED <<workflow, out>>
    BY <1>4 DEF Q!TodoBlocked, Q!Finish
  <2> QED
    BY <2>1, SkipCalm DEF RowStep, Calm
<1>5. CASE Q!TodoReady
  <2>1. pc = "assessed" /\ step' = Q!Skipped({"prepare"}) /\ UNCHANGED <<workflow, out>>
    BY <1>5 DEF Q!TodoReady
  <2> QED
    BY <2>1, SkipCalm DEF RowStep, Calm
<1>6. CASE Q!QaFailed
  <2> DEFINE Skip == {s \in Q!StepsOf(workflow) \ {"scope"} :
                        /\ s # mem.cur /\ step[s] # "completed"
                        /\ workflow = "todo-build-qa" => s # "fix"}
  <2>1. pc = "failed" /\ step' = Q!Skipped(Skip) /\ UNCHANGED <<workflow, out>>
    BY <1>6 DEF Q!QaFailed, Q!Finish
  <2> HIDE DEF Skip
  <2> QED
    BY <2>1, SkipCalm DEF RowStep, Calm
<1>7. CASE Q!ScopeProceeds \/ Q!TodoNeedsPreparation \/ Q!LoopTop
  BY <1>7, SameCalm DEF Q!ScopeProceeds, Q!TodoNeedsPreparation, Q!LoopTop, Q!Move, Q!Finish
<1>8. CASE Q!RecordOccurrence \/ Q!RecordEvent \/ Q!Verify \/ Q!MarkFixed
  BY <1>8, SameCalm DEF Q!RecordOccurrence, Q!RecordEvent, Q!Verify, Q!MarkFixed, Q!Move, Q!runVars
<1>9. CASE Q!Accept \/ Q!GiveUp \/ Q!Fix
  BY <1>9, SameCalm DEF Q!Accept, Q!GiveUp, Q!Fix, Q!Move, Q!Finish
<1>10. CASE Q!NextIteration \/ Q!KeepIteration \/ Q!Again
  BY <1>10, SameCalm DEF Q!NextIteration, Q!WriteInput, Q!KeepIteration, Q!CommitInput, Q!Again, Q!CleanInput
<1>11. CASE Q!Report \/ Q!Close
  BY <1>11, SameCalm DEF Q!Report, Q!Close, Q!Move, Q!SaveRunStatus
<1> QED
  BY <1>1, <1>2, <1>3, <1>4, <1>5, <1>6, <1>7, <1>8, <1>9, <1>10, <1>11 DEF Q!QaNext

\* The review.
LEMMA ReviewRowStep ==
    ASSUME IInv, Interactive, I!ReviewNext \/ I!ReviewOperation
    PROVE  RowStep
<1>1. ASSUME NEW l \in {"scope", "plan", "build", "qa", "fix"}, NEW s, NEW a, I!ReviewPhase(l, s, a)
      PROVE  RowStep
  <2>0. mem \in MemRecords
    BY DEF IInv, CommonInv, MemTypes
  <2>1. \/ UNCHANGED <<workflow, step, out>> /\ pc = l
        \/ /\ pc = l /\ pc' = "drive" /\ UNCHANGED <<workflow, out>>
           /\ step' = [step EXCEPT ![s] = "running"] /\ mem' = [mem EXCEPT !.cur = s, !.after = a]
    BY <1>1 DEF I!ReviewPhase, I!Phase, I!Drive, I!Goto
  <2>2. pc' = "drive" /\ step' # step => mem'.cur = s
    BY <2>0, <2>1 DEF MemRecords
  <2> QED
    BY <1>1, <2>1, <2>2, SameCalm DEF RowStep, Sent
<1>2. CASE I!ReviewReturn
  BY <1>2 DEF I!ReviewReturn, I!Return, RowStep, Came, I!Answers, Answers
<1>3. ASSUME NEW l \in {"changes", "findings"}, NEW ts, NEW a, I!Checkpoint(l, ts, a) PROVE RowStep
  BY <1>3, SameCalm DEF I!Checkpoint, I!SaveRunStatus, I!WalkOn
<1>4. CASE I!OpenScope \/ I!ScopeDecided \/ I!Correct \/ I!ScopeStillOpen
  BY <1>4, SameCalm DEF I!OpenScope, I!ScopeDecided, I!Correct, I!ScopeStillOpen, I!WalkOn
<1>5. CASE I!AwaitScope \/ I!FinishReview \/ I!ReviewedStepFailed \/ I!Explained \/ I!ExplainFailed
  BY <1>5, SameCalm DEF I!AwaitScope, I!FinishReview, I!ReviewedStepFailed, I!Explained,
     I!ExplainFailed, I!SaveRunStatus
<1>6. CASE I!SaveDecision
  BY <1>6, SameCalm DEF I!SaveDecision
<1>7. CASE I!ClaimDecision \/ I!Ask
  BY <1>7 DEF I!ClaimDecision, I!Ask, I!Claim, RowStep, Calm
<1>8. CASE I!Stay \/ I!Adjudicate
  BY <1>8 DEF I!Stay, I!Adjudicate, I!runVars, RowStep, Calm
<1> QED
  BY <1>1, <1>2, <1>3, <1>4, <1>5, <1>6, <1>7, <1>8 DEF I!ReviewNext, I!ReviewOperation

\* A decision stays possible: the iteration moves on only when none is asked for.
LEMMA RejectStep ==
    ASSUME IInv, MayStillReject, Research, R!ResearchNext \/ R!DecideApproval
    PROVE  MayStillReject'
<1> SUFFICES ASSUME InForce' PROVE input'.iter < MaxIterations
  BY DEF MayStillReject
<1> USE DEF InForce
<1>1. ASSUME UNCHANGED <<approval, input>> PROVE input'.iter < MaxIterations
  BY <1>1 DEF MayStillReject
<1>2. ASSUME NEW l, NEW s, NEW a, R!ResearchPhase(l, s, a) PROVE input'.iter < MaxIterations
  BY <1>1, <1>2 DEF R!ResearchPhase, R!StopAtAbort, R!SaveRunStatus, R!Phase, R!Drive, R!researchVars
<1>3. CASE R!ResearchReturn \/ R!NextRound \/ R!Continue \/ R!Exhausted
  BY <1>1, <1>3 DEF R!ResearchReturn, R!Return, R!NextRound, R!WriteInput, R!Continue, R!CleanInput,
     R!Exhausted, R!SaveRunStatus, R!researchVars
<1>4. CASE R!AwaitApproval \/ R!Dispose \/ R!Proceed \/ R!Built \/ R!ResearchFailed
  BY <1>1, <1>4 DEF R!AwaitApproval, R!Dispose, R!Proceed, R!Built, R!ResearchFailed, R!SaveRunStatus,
     R!researchVars
<1>5. CASE R!AskApproval \/ R!Approved
  <2>1. pc = "judge" /\ Spot = "judge" /\ input' = input
    BY <1>5 DEF R!AskApproval, R!Approved, R!runVars, Spot
  <2> QED
    BY <2>1 DEF IInv, ResearchInv, ResearchWalk
<1>6. CASE R!DecideApproval
  BY <1>6 DEF R!DecideApproval
<1>7. CASE R!Checkpoint
  <2>1. /\ pc = "input" /\ Spot = "input"
        /\ approval' = approval \/ approval' = R!Reset(approval)
    BY <1>7 DEF R!Checkpoint, R!CommitInput, Spot
  <2>2. ~InForce
    BY <2>1 DEF IInv, ResearchInv, ResearchWalk
  <2>3. ~InForce'
    BY <2>1, <2>2 DEF R!Reset
  <2> QED
    BY <2>3
<1> QED
  BY <1>2, <1>3, <1>4, <1>5, <1>6, <1>7 DEF R!ResearchNext

\* A report is of the round the input counts, and of a run that may be built.
LEMMA ReportStep ==
    ASSUME IInv, ReportsSoFar, Qa, Q!QaNext
    PROVE  ReportsSoFar'
<1> USE DEF IInv, CommonInv
<1>0. /\ step \in [Steps -> Statuses] /\ out \in [Steps -> Outs] /\ input.iter \in 0..2
      /\ workflow' = workflow
  BY QaKeeps, QaNumbers DEF RunTypes, KeepsDone
<1>1. ASSUME out' = out, input' = input \/ input'.iter = input.iter + 1
      PROVE  ReportsSoFar'
  <2>1. Kept
    BY <1>1, QaKeeps DEF Kept, KeepsDone
  <2>2. MayBuild => MayBuild'
    BY <1>0, <2>1, MayBuildStays
  <2> QED
    BY <1>0, <1>1, <2>2 DEF ReportsSoFar, Qa
<1>2. CASE Q!QaReturn
  <2>1. /\ pc = "drive" /\ mem.cur \in Steps /\ step[mem.cur] = "running"
        /\ <<mem.cur, mem.after>> \in Follows
    BY <1>2 DEF Q!QaReturn, Q!Return, AtDriver
  <2>2. Spot = PhaseOf(mem.cur) /\ mem.iter = input.iter
    BY <2>1, QaNumbers DEF Spot
  <2>3. PICK a : /\ out' = [out EXCEPT ![mem.cur] = a]
                 /\ step' = [step EXCEPT ![mem.cur] = "completed"] /\ input' = input
    BY <1>2 DEF Q!QaReturn, Q!Return
  <2>4. Kept
    BY <1>0, <2>1, <2>3 DEF Kept
  <2>5. MayBuild => MayBuild'
    BY <1>0, <2>4, MayBuildStays
  <2>6. \A j \in 0..2 : j > input.iter => QaAt[j] # mem.cur
    BY <1>0, <2>1, <2>2, IterationNames DEF Follows, Research, Qa, Walking, Todo
  <2>7. mem.cur \in QaRounds => MayBuild
    BY <2>2 DEF PhaseOf, QaInv, QaWalk
  <2>8. \A s \in QaRounds : s # mem.cur => out'[s] = out[s]
    BY <1>0, <2>3, StepNames DEF QaRounds
  <2>9. \A j \in 0..2 : QaAt[j] \in QaRounds
    BY IterationNames DEF QaRounds
  <2> QED
    BY <1>0, <2>3, <2>5, <2>6, <2>7, <2>8, <2>9 DEF ReportsSoFar, Qa
<1>3. CASE Q!KeepIteration
  <2>1. pc = "input" /\ Spot = "input" /\ input'.iter = mem.iter /\ out' = out
    BY <1>3 DEF Q!KeepIteration, Q!CommitInput, Spot
  <2> QED
    BY <1>1, <2>1 DEF QaInv, QaWalk
<1>4. ASSUME NEW l, NEW s, NEW a, Q!QaPhase(l, s, a) PROVE ReportsSoFar'
  BY <1>1, <1>4 DEF Q!QaPhase, Q!Phase, Q!Drive
<1>5. CASE Q!ScopeStops \/ Q!ScopeProceeds \/ Q!TodoBlocked \/ Q!TodoNeedsPreparation \/ Q!TodoReady
  BY <1>1, <1>5 DEF Q!ScopeStops, Q!ScopeProceeds, Q!TodoBlocked, Q!TodoNeedsPreparation, Q!TodoReady,
     Q!Finish, Q!Move
<1>6. CASE Q!LoopTop \/ Q!RecordOccurrence \/ Q!RecordEvent \/ Q!Verify \/ Q!Accept \/ Q!GiveUp \/ Q!Fix
  BY <1>1, <1>6 DEF Q!LoopTop, Q!RecordOccurrence, Q!RecordEvent, Q!Verify, Q!Accept, Q!GiveUp, Q!Fix,
     Q!Finish, Q!Move, Q!runVars
<1>7. CASE Q!MarkFixed \/ Q!NextIteration \/ Q!Again
  BY <1>1, <1>7 DEF Q!MarkFixed, Q!NextIteration, Q!Again, Q!WriteInput, Q!CleanInput, Q!runVars
<1>8. CASE Q!QaFailed \/ Q!Report \/ Q!Close
  BY <1>1, <1>8 DEF Q!QaFailed, Q!Report, Q!Close, Q!Finish, Q!Move, Q!SaveRunStatus
<1> QED
  BY <1>2, <1>3, <1>4, <1>5, <1>6, <1>7, <1>8 DEF Q!QaNext

\* Whatever is disturbed, what is shown stays right.
LEMMA DisturbShown ==
    ASSUME IInv, ViewIInv, Disturb
    PROVE  ViewIInv'
<1> USE DEF ViewIInv
<1>0. /\ step \in [Steps -> Statuses] /\ out \in [Steps -> Outs]
      /\ pc # "idle" => run = "running"
      /\ pc = "drive" => mem.cur \in Steps
  BY DEF IInv, CommonInv, RunTypes, Alive, AtDriver
<1>1. out' = out /\ input' = input /\ approval' = approval /\ workflow' = workflow
  BY DEF Disturb, Resume, MarkInterrupted, Abort, Crash, Throw, Fail, researchVars
<1>2. \A s \in Steps : step'[s] = "completed" <=> step[s] = "completed"
  <2>1. CASE MarkInterrupted \/ Throw \/ Crash
    BY <2>1, DisturbanceEnds DEF Ended, Weakened
  <2>2. CASE Fail
    BY <2>2, FailStops DEF Stopped, Weakened
  <2>3. CASE Abort \/ Resume(First(workflow))
    BY <2>3 DEF Abort, Resume
  <2> QED
    BY <2>1, <2>2, <2>3 DEF Disturb
<1>3. MayStillReject' /\ DoneSays'
  BY <1>1, <1>2 DEF MayStillReject, InForce, Research, DoneSays
<1>4. MayBuild' = MayBuild
  BY <1>1, <1>2, StepNames DEF MayBuild
<1>5. ReportsSoFar'
  BY <1>1, <1>4 DEF ReportsSoFar, Qa
<1>6. RunningIsAtWork'
  <2>1. CASE Resume(First(workflow))
    BY <1>0, <2>1 DEF Resume, Claim, RunningIsAtWork
  <2>2. CASE MarkInterrupted
    BY <1>0, <2>2 DEF MarkInterrupted, Interrupted, RunningIsAtWork
  <2>3. CASE Throw \/ Crash
    <3>1. /\ pc' = "idle"
          /\ \/ step' = Interrupted
             \/ step' = step /\ run' = run
      BY <2>3 DEF Throw, Crash, Leave
    <3>2. CASE step' = Interrupted
      BY <1>0, <3>2 DEF Interrupted, RunningIsAtWork
    <3> QED
      BY <1>0, <3>1, <3>2 DEF RunningIsAtWork
  <2>4. CASE Abort
    BY <2>4 DEF Abort, RunningIsAtWork
  <2>5. CASE Fail
    <3>1. /\ pc = "drive"
          /\ \E status \in {"cancelled", "failed", "fatal"} : step' = [step EXCEPT ![mem.cur] = status]
      BY <2>5 DEF Fail
    <3> QED
      BY <1>0, <3>1 DEF RunningIsAtWork
  <2> QED
    BY <2>1, <2>2, <2>3, <2>4, <2>5 DEF Disturb
<1> QED
  BY <1>3, <1>5, <1>6

\* The strengthening is inductive.
LEMMA ViewStep ==
    ASSUME IInv, ViewIInv, [Next]_vars
    PROVE  ViewIInv'
<1> USE DEF ViewIInv
<1>1. CASE Research /\ (R!ResearchNext \/ R!DecideApproval)
  <2>1. workflow' = workflow
    BY <1>1, ResearchKeeps DEF NoneRedone
  <2>2. ReportsSoFar'
    BY <1>1, <2>1, OneWorkflow DEF IInv, ReportsSoFar, Research, Qa
  <2> QED
    BY <1>1, <2>2, ResearchRowStep, RowsShown, RejectStep
<1>2. CASE Qa /\ Q!QaNext
  <2>1. workflow' = workflow
    BY <1>2, QaKeeps DEF KeepsDone
  <2>2. MayStillReject'
    BY <1>2, <2>1, OneWorkflow DEF IInv, MayStillReject, Research, Qa
  <2> QED
    BY <1>2, <2>2, QaRowStep, RowsShown, ReportStep
<1>3. CASE Interactive /\ (I!ReviewNext \/ I!ReviewOperation)
  <2>1. workflow' = workflow
    BY <1>3, ReviewKeeps DEF KeepsDone
  <2>2. MayStillReject' /\ ReportsSoFar'
    BY <1>3, <2>1 DEF MayStillReject, ReportsSoFar, Research, Qa, Interactive
  <2> QED
    BY <1>3, <2>2, ReviewRowStep, RowsShown
<1>4. CASE Disturb
  BY <1>4, DisturbShown
<1>5. CASE UNCHANGED vars
  <2>1. UNCHANGED <<workflow, run, step, out, input, pc, mem, approval>>
    BY <1>5 DEF vars, runVars, researchVars
  <2>2. MayBuild' = MayBuild /\ InForce' = InForce /\ Qa' = Qa /\ Research' = Research
    BY <2>1 DEF MayBuild, InForce, Qa, Research
  <2> QED
    BY <2>1, <2>2 DEF RunningIsAtWork, DoneSays, MayStillReject, ReportsSoFar
<1> QED
  BY <1>1, <1>2, <1>3, <1>4, <1>5 DEF Next, Work, Decide

\* A new run and a prepared one are shown as they are.
LEMMA InitShown ==
    ASSUME Init
    PROVE  ViewIInv
<1> USE DEF Init
<1>1. /\ \A s \in Steps : step[s] \in {"absent", "completed"}
      /\ out = [s \in Steps |-> IF step[s] = "completed" THEN "go" ELSE "none"]
      /\ Qa => \A s \in Steps : step[s] = "absent"
  BY DEF Interactive, Qa
<1>2. RunningIsAtWork /\ DoneSays
  BY <1>1 DEF RunningIsAtWork, DoneSays
<1>3. MayStillReject
  BY Bounded DEF MayStillReject
<1>4. Qa => \A s \in QaRounds : out[s] = "none"
  BY <1>1, StepNames DEF QaRounds
<1>5. \A j \in 0..2 : QaAt[j] \in QaRounds
  BY IterationNames DEF QaRounds
<1>6. ReportsSoFar
  BY <1>4, <1>5 DEF ReportsSoFar
<1> QED
  BY <1>2, <1>3, <1>6 DEF ViewIInv

\* It holds of every reachable state.
LEMMA ViewIInvHolds == Spec => [](IInv /\ ViewIInv)
<1>1. Init => IInv /\ ViewIInv
  BY InitHolds, InitShown
<1>2. IInv /\ ViewIInv /\ [Next]_vars => IInv' /\ ViewIInv'
  BY StepHolds, ViewStep
<1> QED
  BY <1>1, <1>2, PTL DEF Spec

\* An action that is offered is accepted.
LEMMA OfferAccepted ==
    ASSUME IInv, ViewIInv
    PROVE  OfferedIsAccepted
<1> USE DEF IInv, CommonInv
<1>1. run \in Runs /\ workflow \in Workflows /\ input.iter \in Nat
  BY DEF RunTypes
<1>2. ASSUME "resume" \in Offered PROVE run \in {"pending", "failed", "interrupted"} /\ MayResume
  <2>1. "resume" \in RecoveryActions
    BY <1>2 DEF Offered, ApprovalActions
  <2>2. /\ RecoveryState = "none" /\ run \notin {"cancelled", "completed", "waiting", "running"}
        /\ run \in {"failed", "interrupted"} => Retryable # {} \/ CanFinalize
    BY <2>1 DEF RecoveryActions
  <2>3. run \in {"pending", "failed", "interrupted"}
    BY <1>1, <2>2 DEF Runs
  <2>4. input.iter < MaxIterations
    BY <1>1, <2>2, OneWorkflow, Bounded DEF RecoveryState, ReviewInv, ReviewTypes
  <2>5. Retryable # {} \/ CanFinalize => Resumable
    BY DEF Retryable, CanFinalize, Resumable
  <2> QED
    BY <2>2, <2>3, <2>4, <2>5 DEF MayResume
<1>3. "mark-interrupted" \in Offered => run = "running"
  BY DEF Offered, ApprovalActions, RecoveryActions
<1>4. ApprovalActions # {} => input.iter < MaxIterations
  BY DEF ApprovalActions, ViewIInv, MayStillReject, InForce
<1> QED
  BY <1>2, <1>3, <1>4 DEF OfferedIsAccepted

\* Of the steps that are neither done nor beyond a retry, the first may be retried.
LEMMA FirstIsRetryable ==
    ASSUME IInv, Qa, \A s \in Steps : step[s] \in Eligible \cup {"completed"}
    PROVE  Retryable # {} \/ CanFinalize
<1> SUFFICES ASSUME ~CanFinalize PROVE Retryable # {}
  OBVIOUS
<1> DEFINE Ready(s) == s \in StepsOf(workflow) /\ step[s] # "completed"
                         /\ \A d \in DependsOn(workflow, s) : step[d] = "completed"
<1>1. ASSUME NEW s \in Steps, Ready(s) PROVE s \in Retryable
  BY <1>1 DEF Retryable
<1>2. CASE workflow = Todo
  <2>1. StepsOf(workflow) = {"validate-todo", "prepare", "build", "qa", "fix"}
    BY <1>2 DEF StepsOf, Todo
  <2>2. /\ DependsOn(workflow, "validate-todo") = {} /\ DependsOn(workflow, "prepare") = {"validate-todo"}
        /\ DependsOn(workflow, "build") = {"validate-todo", "prepare"}
        /\ DependsOn(workflow, "qa") = {"build"} /\ DependsOn(workflow, "fix") = {"qa"}
    BY <1>2 DEF DependsOn, Todo
  <2>3. \E s \in StepsOf(workflow) : Ready(s)
    BY <2>1, <2>2 DEF CanFinalize
  <2> QED
    BY <1>1, <2>1, <2>3, StepNames
<1>3. CASE workflow = Walking
  <2>1. StepsOf(workflow) = {"scope", "plan", "build", "qa", "fix"}
    BY <1>3 DEF StepsOf, Walking
  <2>2. /\ DependsOn(workflow, "scope") = {} /\ DependsOn(workflow, "plan") = {"scope"}
        /\ DependsOn(workflow, "build") = {"plan"}
        /\ DependsOn(workflow, "qa") = {"build"} /\ DependsOn(workflow, "fix") = {"qa"}
    BY <1>3 DEF DependsOn, Walking
  <2>3. \E s \in StepsOf(workflow) : Ready(s)
    BY <2>1, <2>2 DEF CanFinalize
  <2> QED
    BY <1>1, <2>1, <2>3, StepNames
<1> QED
  BY <1>2, <1>3 DEF Qa, Todo, Walking

\* An action that would be accepted is offered.
LEMMA AcceptedOffer ==
    ASSUME IInv, ViewIInv
    PROVE  AcceptedIsOffered
<1> USE DEF IInv, CommonInv
<1> SUFFICES ASSUME run \in {"pending", "failed", "interrupted"}, MayResume,
                    Qa => ~HasReport("qa-3") /\ \A s \in Steps : step[s] \notin {"fatal", "cancelled"}
             PROVE  "resume" \in Offered
  BY DEF AcceptedIsOffered
<1>1. input.iter \in Nat /\ step \in [Steps -> Statuses] /\ input.iter < MaxIterations
  BY DEF RunTypes, MayResume
<1>2. RecoveryState = "none"
  BY <1>1, Bounded DEF RecoveryState
<1>3. run \in {"failed", "interrupted"} => Retryable # {} \/ CanFinalize
  <2>1. ASSUME run \in {"failed", "interrupted"}, Qa PROVE Retryable # {} \/ CanFinalize
    <3>1. \A s \in Steps : step[s] # "running"
      BY <2>1 DEF ViewIInv, RunningIsAtWork, Alive
    <3>2. \A s \in Steps : step[s] \in Eligible \cup {"completed"}
      BY <1>1, <2>1, <3>1 DEF Statuses, Eligible
    <3> QED
      BY <2>1, <3>2, FirstIsRetryable
  <2>2. ASSUME run \in {"failed", "interrupted"}, ~Qa PROVE Retryable # {} \/ CanFinalize
    <3>1. Resumable
      BY <2>2 DEF MayResume, Qa
    <3> QED
      BY <3>1 DEF Retryable, CanFinalize, Resumable
  <2> QED
    BY <2>1, <2>2
<1> QED
  BY <1>2, <1>3 DEF Offered, RecoveryActions

\* Where a step stands among the phases shown.
Place(s) ==
    CASE s \in {"research", "scope", "validate-todo"} -> 1
      [] s = "plan" -> IF Research THEN 4 ELSE 2
      [] s = "build" -> IF Research THEN 5 ELSE 3
      [] s \in {"research-review", "prepare"} -> 2
      [] s = "qa" -> 4
      [] s \in {"fix", "fix-1"} -> 5
      [] s = "qa-2" -> 6
      [] s = "fix-2" -> 7
      [] OTHER -> 8

\* The step at the driver is a phase of its workflow, at its place and no other.
LEMMA DrivenIsShown ==
    ASSUME IInv, pc = "drive"
    PROVE  /\ Place(mem.cur) \in DOMAIN Phases /\ Phases[Place(mem.cur)] = mem.cur
           /\ \A i \in DOMAIN Phases : Phases[i] = mem.cur => i = Place(mem.cur)
           /\ mem.cur # "research-approval"
<1>1. <<mem.cur, mem.after>> \in Follows /\ mem.cur \in Steps
  BY DEF IInv, CommonInv, AtDriver
<1>2. CASE Research
  <2>1. Phases = <<"research", "research-review", "research-approval", "plan", "build">>
    BY <1>2 DEF Phases, Defined, Research
  <2>2. mem.cur \in {"research", "research-review", "plan", "build"}
    BY <1>1, <1>2 DEF Follows, Research, Walking, Todo
  <2> QED
    BY <1>2, <2>1, <2>2 DEF Place
<1>3. CASE Qa
  <2>1. mem.iter = input.iter /\ (mem.iter = 0 \/ mem.iter = 1 \/ mem.iter = 2) /\ ~Research
    BY <1>3, QaNumbers, OneWorkflow DEF IInv
  <2>2. CASE workflow = Walking
    <3>1. Phases = <<"scope", "plan", "build", "qa", "fix-1", "qa-2", "fix-2", "qa-3">>
      BY <2>2 DEF Phases, Defined, Walking
    <3>2. mem.cur \in {"scope", "plan", "build", "qa", "fix-1", "qa-2", "fix-2", "qa-3"}
      BY <1>1, <2>1, <2>2, IterationNames DEF Follows, Walking, Todo
    <3> QED
      BY <2>1, <3>1, <3>2 DEF Place
  <2>3. CASE workflow = Todo
    <3>1. Phases = <<"validate-todo", "prepare", "build", "qa", "fix-1", "qa-2", "fix-2", "qa-3">>
      BY <2>3 DEF Phases, Defined, Todo
    <3>2. mem.cur \in {"validate-todo", "prepare", "build", "qa", "fix-1", "qa-2", "fix-2", "qa-3"}
      BY <1>1, <2>1, <2>3, IterationNames DEF Follows, Walking, Todo
    <3> QED
      BY <2>1, <3>1, <3>2 DEF Place
  <2> QED
    BY <1>3, <2>2, <2>3 DEF Qa, Walking, Todo
<1>4. CASE Interactive
  <2>1. ~Research /\ workflow \notin {"research-plan-build", "plan-build-qa", "todo-build-qa"}
    BY <1>4 DEF Interactive, Research
  <2>2. Phases = <<"scope", "plan", "build", "qa", "fix">>
    BY <2>1 DEF Phases, Defined
  <2>3. mem.cur \in {"scope", "plan", "build", "qa", "fix"}
    BY <1>1, <2>1 DEF Follows, Walking, Todo
  <2> QED
    BY <2>1, <2>2, <2>3 DEF Place
<1> QED
  BY <1>2, <1>3, <1>4, OneWorkflow DEF IInv

\* The step at the driver is the one shown as current.
LEMMA CurrentWorks ==
    ASSUME IInv, ViewIInv
    PROVE  CurrentIsAtWork
<1> SUFFICES ASSUME pc = "drive" PROVE CurrentPhase = mem.cur
  BY DEF CurrentIsAtWork
<1>1. run = "running" /\ mem.cur \in Steps /\ step[mem.cur] = "running"
  BY DEF IInv, CommonInv, Alive, AtDriver
<1>3. PICK p \in DOMAIN Phases : Phases[p] = mem.cur /\ \A i \in DOMAIN Phases : Phases[i] = mem.cur => i = p
  BY DrivenIsShown
<1>4. p \in Nat
  <2>1. DOMAIN Phases \subseteq Nat
    BY DEF Phases, Defined
  <2> QED
    BY <1>3, <2>1
<1>5. \A s \in Steps : s # mem.cur => step[s] # "running"
  BY DEF ViewIInv, RunningIsAtWork
<1>6. mem.cur # "research-approval" /\ "research-approval" \notin Steps
  BY <1>1 DEF Steps
<1>7. ASSUME NEW i \in DOMAIN Phases PROVE Phases[i] \in Steps \/ (Phases[i] = "research-approval" /\ Research)
  BY <1>7 DEF Phases, Defined, Steps, Research
<1>8. Research => approval.status # "running"
  BY DEF IInv, ResearchInv, ApprovalTypes
<1>9. With({"running"}) = {p}
  <2>1. p \in With({"running"})
    BY <1>1, <1>3, <1>6 DEF With, Shown, StatusOf
  <2>2. ASSUME NEW i \in With({"running"}) PROVE i = p
    <3>1. i \in DOMAIN Phases /\ StatusOf(Phases[i]) = "running"
      BY DEF With
    <3>2. CASE Phases[i] = "research-approval" /\ Research
      BY <1>8, <3>1, <3>2 DEF StatusOf
    <3>3. CASE Phases[i] \in Steps
      <4>1. step[Phases[i]] = "running"
        BY <1>6, <3>1, <3>3 DEF StatusOf
      <4> QED
        BY <1>3, <1>5, <3>1, <3>3, <4>1
    <3> QED
      BY <1>7, <3>1, <3>2, <3>3
  <2> QED
    BY <2>1, <2>2
<1>10. Min({p}) = p
  BY <1>4 DEF Min
<1>11. 1 \in Found /\ \A k \in Found : k \in Nat /\ 1 <= k
  BY <1>9 DEF Found, Wanted
<1>12. Min(Found) = 1
  BY <1>11 DEF Min
<1>13. Wanted[Min(Found)] = {"running"}
  BY <1>12 DEF Wanted
<1>14. CurrentPhase = Phases[Min(With(Wanted[Min(Found)]))]
  BY <1>1, <1>11 DEF CurrentPhase
<1> QED
  BY <1>3, <1>9, <1>10, <1>13, <1>14

\* The rounds are those the input counts, and perhaps the one at work.
LEMMA RoundsCounted ==
    ASSUME IInv, ViewIInv
    PROVE  RoundsAreCounted
<1> SUFFICES ASSUME Qa PROVE RoundsAreCounted
  BY DEF RoundsAreCounted
<1> USE DEF IInv, CommonInv
<1>1. input.iter = 0 \/ input.iter = 1 \/ input.iter = 2
  BY QaNumbers
<1>2. QaSteps[1] = QaAt[0] /\ QaSteps[2] = QaAt[1] /\ QaSteps[3] = QaAt[2] /\ DOMAIN QaSteps = {1, 2, 3}
  BY IterationNames DEF QaSteps
<1>3. FixSteps[1] = "fix-1" /\ FixSteps[2] = "fix-2"
  BY DEF FixSteps
<1>4. /\ input.iter > 0 => step["fix-1"] = "completed" /\ out["qa"] = "block"
      /\ input.iter > 1 => step["fix-2"] = "completed" /\ out["qa-2"] = "block"
  BY DEF QaInv, QaRows, DrivenStatus
<1>5. \A j \in 0..2 : j > input.iter => out[QaAt[j]] = "none"
  BY DEF ViewIInv, ReportsSoFar
<1>7. /\ 1 \in Rounds <=> out["qa"] # "none"
      /\ 2 \in Rounds <=> out["qa-2"] # "none"
      /\ 3 \in Rounds <=> out["qa-3"] # "none"
      /\ Rounds \subseteq {1, 2, 3}
  BY <1>2, IterationNames DEF Rounds, HasReport
<1>8. Rounds \in {1..input.iter, 1..input.iter + 1}
  <2>1. CASE input.iter = 0
    <3>1. 2 \notin Rounds /\ 3 \notin Rounds
      BY <1>5, <1>7, <2>1, IterationNames
    <3>2. 1..0 = {} /\ 1..0 + 1 = {1}
      OBVIOUS
    <3> QED
      BY <1>7, <2>1, <3>1, <3>2
  <2>2. CASE input.iter = 1
    <3>1. 1 \in Rounds /\ 3 \notin Rounds
      BY <1>4, <1>5, <1>7, <2>2, IterationNames
    <3>2. 1..1 = {1} /\ 1..1 + 1 = {1, 2}
      OBVIOUS
    <3> QED
      BY <1>7, <2>2, <3>1, <3>2
  <2>3. CASE input.iter = 2
    <3>1. 1 \in Rounds /\ 2 \in Rounds
      BY <1>4, <1>7, <2>3
    <3>2. 1..2 = {1, 2} /\ 1..2 + 1 = {1, 2, 3}
      OBVIOUS
    <3> QED
      BY <1>7, <2>3, <3>1, <3>2
  <2> QED
    BY <1>1, <2>1, <2>2, <2>3
<1>9. \A i \in 1..input.iter : FixSteps[i] \in BuilderPhases /\ out[QaSteps[i]] = "block"
  <2>1. \A i \in 1..input.iter : i = 1 \/ (i = 2 /\ input.iter = 2)
    BY <1>1
  <2>2. /\ step["fix-1"] = "completed" => "fix-1" \in BuilderPhases
        /\ step["fix-2"] = "completed" => "fix-2" \in BuilderPhases
    BY StepNames DEF ViewIInv, DoneSays, BuilderPhases, HasReport
  <2> QED
    BY <1>1, <1>2, <1>3, <1>4, <2>1, <2>2, IterationNames
<1>10. ASSUME run = "completed" PROVE QaAction = "none" /\ ~Blocks
  <2>1. QaAction = "none"
    BY <1>10 DEF QaAction
  <2>2. QaAccepted /\ QaRows
    BY <1>10 DEF QaInv, QaStands, Claimed
  <2>3. CASE out[QaAt[input.iter]] = "pass"
    <3>1. input.iter + 1 \in Rounds /\ QaSteps[input.iter + 1] = QaAt[input.iter]
      BY <1>1, <1>2, <1>7, <2>3, IterationNames
    <3>2. \A i \in Rounds : i \in Nat /\ i <= input.iter + 1
      <4>1. input.iter \in Nat
        BY <1>1
      <4>2. Rounds \subseteq 1..input.iter + 1
        BY <1>8, <4>1
      <4> QED
        BY <4>1, <4>2
    <3>3. Max(Rounds) = input.iter + 1
      BY <1>1, <3>1, <3>2 DEF Max
    <3> QED
      BY <2>1, <2>3, <3>1, <3>3 DEF Blocks, LastReport
  <2>4. CASE out[QaAt[input.iter]] # "pass"
    <3>1. ~MayBuild
      BY <2>2, <2>4 DEF QaAccepted, MayBuild, Walking, Todo
    <3>2. \A s \in QaRounds : out[s] = "none"
      BY <3>1 DEF ViewIInv, ReportsSoFar
    <3>3. Rounds = {}
      BY <1>7, <3>2 DEF QaRounds
    <3> QED
      BY <2>1, <3>3 DEF Blocks
  <2> QED
    BY <2>1, <2>3, <2>4
<1> QED
  BY <1>8, <1>9, <1>10 DEF RoundsAreCounted

\* Whatever happened to a run, and whatever a coordinator is in the middle of: an
\* action its view offers is accepted and one that would be accepted is offered, the
\* phase shown as current is the one at work, and the rounds shown are those the
\* persisted iteration counts.
THEOREM ViewHolds == Spec => []ViewInv
<1>1. IInv /\ ViewIInv => ViewInv
  BY OfferAccepted, AcceptedOffer, CurrentWorks, RoundsCounted DEF ViewInv
<1> QED
  BY <1>1, ViewIInvHolds, PTL
=============================================================================
