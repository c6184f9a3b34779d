---------------------------- MODULE ResearchLoop ----------------------------
(***************************************************************************)
(* ResearchPlanBuildCoordinator (src/src/application/research-plan-build-  *)
(* coordinator.ts) with decideApproval: research and its review repeat     *)
(* until the review is satisfied and a person approves, at most            *)
(* MaxIterations times; then the plan, then the build.  One transaction    *)
(* (checkpointResearchIteration) resets the loop's steps and replaces the  *)
(* input that carries the iteration and the feedback.                      *)
(***************************************************************************)
EXTENDS CoordinatedRun

VARIABLES
    approval,  \* the approval step: its status and the decision it records
    rounds     \* completions of the research step, and the one last approved

researchVars == <<approval, rounds>>

NoApproval == [status |-> "absent", decision |-> "none"]

\* if (request.signal?.aborted) return saveRunStatus(run, 'cancelled')
StopAtAbort(label) ==
    /\ pc = label /\ aborted
    /\ SaveRunStatus("cancelled")
    /\ UNCHANGED researchVars

\* The step is driven, reused, or ends the run when it may not be retried.
ResearchPhase(label, s, after) ==
    \/ StopAtAbort(label)
    \/ /\ ~aborted /\ step[s] \in Eligible \cup {"completed"}
       /\ Phase(label, s, after)
       /\ UNCHANGED researchVars
    \/ /\ pc = label /\ ~aborted /\ step[s] \notin Eligible \cup {"completed"}
       /\ SaveRunStatus("failed")
       /\ UNCHANGED researchVars

ResearchReturn ==
    /\ Return
    /\ rounds' = IF mem.cur = "research" THEN [rounds EXCEPT !.done = @ + 1] ELSE rounds
    /\ UNCHANGED approval

-----------------------------------------------------------------------------

\* Another round is wanted: by the review, or by a person's rejection.
Wanted ==
    CASE out["research-review"] = "more" -> "review"
      [] approval.decision = "rejected" -> "human"
      [] OTHER -> "none"

AtLimit == mem.iter >= MaxIterations - 1

NextRound ==
    /\ pc = "judge" /\ Wanted # "none"
    /\ IF AtLimit THEN WriteInput(MaxIterations, mem.feedback)
                  ELSE WriteInput(mem.iter + 1, Wanted)
    /\ UNCHANGED researchVars

\* The approval row a rejection leaves for the next round.
Reset(a) == IF a.decision = "rejected"
            THEN [status |-> "pending", decision |-> "none"] ELSE a

\* checkpointResearchIteration; persistExhaustedIteration resets nothing.
Checkpoint ==
    /\ CommitInput
    /\ IF mem.iter = MaxIterations
       THEN UNCHANGED <<step, approval>>
       ELSE /\ step' = [step EXCEPT !["research"] = "pending",
                                    !["research-review"] = "pending"]
            /\ approval' = Reset(approval)
    /\ Goto("clean")
    /\ UNCHANGED <<workflow, run, owner, out, files, mem, aborted, faults, rounds>>

Continue ==
    /\ CleanInput(IF mem.iter = MaxIterations THEN "exhausted" ELSE "research")
    /\ UNCHANGED researchVars

Exhausted ==
    /\ pc = "exhausted"
    /\ SaveRunStatus("failed")
    /\ UNCHANGED researchVars

\* The approval row is created, then saved as waiting, then the run is.
AskApproval ==
    /\ pc = "judge" /\ Wanted = "none" /\ approval.decision = "none"
    /\ approval.status # "waiting"
    /\ approval' = [approval EXCEPT !.status =
                       IF approval.status = "absent" THEN "pending" ELSE "waiting"]
    /\ UNCHANGED <<runVars, rounds>>

AwaitApproval ==
    /\ pc = "judge" /\ Wanted = "none" /\ approval.status = "waiting"
    /\ SaveRunStatus("waiting")
    /\ UNCHANGED researchVars

Approved ==
    /\ pc = "judge" /\ Wanted = "none" /\ approval.decision = "approved"
    /\ approval' = [approval EXCEPT !.status = "completed"]
    /\ Goto("plan")
    /\ UNCHANGED <<workflow, run, owner, step, out, input, files, mem, aborted, faults, rounds>>

\* A plan that stopped leaves nothing to build.
Dispose ==
    /\ pc = "dispose" /\ out["plan"] = "stop"
    /\ run' = "completed" /\ owner' = "none"
    /\ step' = Skipped({"build"})
    /\ Leave
    /\ UNCHANGED <<workflow, out, input, files, faults, researchVars>>

Proceed ==
    /\ pc = "dispose" /\ out["plan"] # "stop"
    /\ Goto("build")
    /\ UNCHANGED <<workflow, run, owner, step, out, input, files, mem, aborted, faults, researchVars>>

Built ==
    /\ pc = "built"
    /\ SaveRunStatus("completed")
    /\ UNCHANGED researchVars

\* The catch clause: what is neither done nor pending is skipped.
ResearchFailed ==
    /\ pc = "failed"
    /\ step' = Skipped({s \in StepsOf(workflow) :
                           step[s] \notin {"completed", "pending"} /\ s # mem.cur})
    /\ run' = FailureStatus /\ owner' = "none"
    /\ Leave
    /\ UNCHANGED <<workflow, out, input, files, faults, researchVars>>

\* decideApproval: the claim and the decision are one transaction.
DecideApproval ==
    /\ approval.status = "waiting"
    /\ Claim({"waiting"}) /\ input.iter < MaxIterations
    /\ \E decision \in {"approved", "rejected"} :
         /\ approval' = [status |-> "pending", decision |-> decision]
         /\ rounds' = IF decision = "approved" THEN [rounds EXCEPT !.approved = rounds.done] ELSE rounds
    /\ pc' = "research"
    /\ mem' = [Idle EXCEPT !.iter = input.iter, !.feedback = input.feedback]
    /\ UNCHANGED <<workflow, step, out, input, files, aborted, faults>>

ResearchNext ==
    \/ ResearchPhase("research", "research", "review")
    \/ ResearchPhase("review", "research-review", "judge")
    \/ ResearchPhase("plan", "plan", "dispose")
    \/ ResearchPhase("build", "build", "built")
    \/ ResearchReturn \/ NextRound \/ Checkpoint \/ Continue \/ Exhausted
    \/ AskApproval \/ AwaitApproval \/ Approved \/ Dispose \/ Proceed \/ Built
    \/ ResearchFailed
=============================================================================
