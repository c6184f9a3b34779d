-------------------------- MODULE InteractiveReview --------------------------
(***************************************************************************)
(* InteractivePlanBuildQaCoordinator and the review operations that drive  *)
(* it (src/src/application/interactive-plan-build-qa-coordinator.ts,       *)
(* review-operations.ts): the run stops for a person after the scope,     *)
(* after the changes and after the QA report, each time with a review      *)
(* thread (one for each finding of the report).  A decision on a thread    *)
(* claims the run and lets the coordinator walk on; a question about a     *)
(* thread claims it too, runs an explainer and gives it back.              *)
(*                                                                         *)
(* An adjudication of a finding is a thread of its own, finalized from the *)
(* start, with the target of the thread it is about.  The coordinator      *)
(* looks threads up by target and takes the first, and the store lists     *)
(* them by their last change: once the first thread of a finding changes   *)
(* again, it is the adjudication that is found.                            *)
(***************************************************************************)
EXTENDS CoordinatedRun

CONSTANT Findings   \* finding ids a QA report may contain

VARIABLES
    thread,       \* thread[t]: review_threads.state, or "absent"
    corrects,     \* threads with a decision "correct"
    adjudicated,  \* findings with a finalized adjudication
    shadowed,     \* findings listed after an adjudication of theirs
    reported      \* the findings of the QA report

reviewVars == <<thread, corrects, adjudicated, shadowed, reported>>

Threads == {"scope", "changes", "qa"} \cup Findings

\* A report without findings is reviewed as a whole.
QaThreads == IF reported = {} THEN {"qa"} ELSE reported

ReviewPhase(label, s, after) == Phase(label, s, after) /\ UNCHANGED reviewVars

WalkOn(label) ==
    /\ Goto(label)
    /\ UNCHANGED <<workflow, run, owner, step, out, input, files, mem, aborted, faults>>

\* thread(): each thread of ts that is not there yet is created as waiting.
Opened(ts) ==
    [t \in Threads |-> IF t \in ts /\ thread[t] = "absent" THEN "waiting" ELSE thread[t]]

\* executeStep of the QA step
ReviewReturn ==
    /\ Return
    /\ reported' \in IF mem.cur = "qa" THEN SUBSET Findings ELSE {reported}
    /\ UNCHANGED <<thread, corrects, adjudicated, shadowed>>

-----------------------------------------------------------------------------
(* advance *)

OpenScope ==
    /\ pc = "advance"
    /\ thread' = Opened({"scope"})
    /\ WalkOn(IF step["scope"] = "completed" THEN "scope-review" ELSE "scope")
    /\ UNCHANGED <<corrects, adjudicated, shadowed, reported>>

\* wait, when the scope was made just now
AwaitScope ==
    /\ pc = "scoped"
    /\ SaveRunStatus("waiting")
    /\ UNCHANGED reviewVars

\* ensureWaiting, when the scope was made before: the caller is told that the
\* run waits, the run itself keeps its status and its owner.
ScopeStillOpen ==
    /\ pc = "scope-review" /\ thread["scope"] = "waiting"
    /\ Leave
    /\ UNCHANGED <<workflow, run, owner, step, out, input, files, faults, reviewVars>>

ScopeDecided ==
    /\ pc = "scope-review" /\ thread["scope"] # "waiting"
    /\ WalkOn("plan") /\ UNCHANGED reviewVars

\* The threads of a checkpoint are opened; while one waits, so does the run.
Checkpoint(label, ts, after) ==
    /\ pc = label
    /\ thread' = Opened(ts)
    /\ IF \E t \in ts \ shadowed : thread'[t] = "waiting"
       THEN SaveRunStatus("waiting") ELSE WalkOn(after)
    /\ UNCHANGED <<corrects, adjudicated, shadowed, reported>>

\* A correction asked for on any thread that is found runs the fix.
Correct ==
    /\ pc = "corrections"
    /\ IF corrects \ shadowed # {} THEN WalkOn("fix") ELSE WalkOn("finish")
    /\ UNCHANGED reviewVars

FinishReview ==
    /\ pc = "finish"
    /\ SaveRunStatus("completed")
    /\ UNCHANGED reviewVars

ReviewedStepFailed ==
    /\ pc = "failed"
    /\ SaveRunStatus(FailureStatus)
    /\ UNCHANGED reviewVars

-----------------------------------------------------------------------------
(* The operations on a thread *)

\* The store moves a thread that changes behind its adjudications.
Touch(t) == shadowed' = IF t \in adjudicated THEN shadowed \cup {t} ELSE shadowed

\* A decision that leaves the thread open: reject, postpone.
Stay ==
    /\ pc = "idle"
    /\ \E t \in Threads : thread[t] = "waiting" /\ Touch(t)
    /\ UNCHANGED <<runVars, thread, corrects, adjudicated, reported>>

\* continueReview up to its claim, with a decision that advances
ClaimDecision ==
    /\ \E t \in Threads :
         /\ thread[t] = "waiting"
         /\ mem' = [Idle EXCEPT !.cur = t, !.iter = input.iter]
    /\ Claim({"waiting"})
    /\ Goto("claimed")
    /\ UNCHANGED <<workflow, step, out, input, files, aborted, faults, reviewVars>>

\* saveReviewDecision; a finding is finalized only once it was adjudicated.
\* From here on continueReview no longer awaits what it started.
SaveDecision ==
    /\ pc = "claimed"
    /\ \E state \in {"decided", "finalized"}, correct \in BOOLEAN :
         /\ correct => state = "decided" /\ mem.cur \notin {"scope", "changes"}
         /\ state = "finalized" /\ mem.cur \notin {"scope", "changes"} => mem.cur \in adjudicated
         /\ thread' = [thread EXCEPT ![mem.cur] = state]
         /\ corrects' = IF correct THEN corrects \cup {mem.cur} ELSE corrects
    /\ Touch(mem.cur)
    /\ mem' = [mem EXCEPT !.caught = FALSE]
    /\ Goto("advance")
    /\ UNCHANGED <<workflow, run, owner, step, out, input, files, aborted, faults>>
    /\ UNCHANGED <<adjudicated, reported>>

\* adjudicateReview, on a finding that may be of a thread already closed
Adjudicate ==
    /\ pc = "idle"
    /\ \E t \in (Findings \cup {"qa"}) \ adjudicated :
         /\ thread[t] # "absent"
         /\ adjudicated' = adjudicated \cup {t}
    /\ UNCHANGED <<runVars, thread, corrects, shadowed, reported>>

\* replyReview and explainReview up to the driver
Ask ==
    /\ \E t \in Threads : thread[t] = "waiting"
    /\ Claim({"waiting"})
    /\ Goto("explain")
    /\ UNCHANGED <<workflow, step, out, input, files, mem, aborted, faults, reviewVars>>

\* explain saves the run as waiting when the explainer is done.
Explained ==
    /\ pc = "explain"
    /\ SaveRunStatus("waiting")
    /\ UNCHANGED reviewVars

\* Any failure of the explainer, an abort included, interrupts the run.
ExplainFailed ==
    /\ pc = "explain" /\ faults < MaxFaults
    /\ faults' = faults + 1
    /\ run' = "interrupted" /\ owner' = "none"
    /\ Leave
    /\ UNCHANGED <<workflow, step, out, input, files, reviewVars>>

ReviewNext ==
    \/ OpenScope \/ ReviewPhase("scope", "scope", "scoped") \/ AwaitScope
    \/ ScopeStillOpen \/ ScopeDecided
    \/ ReviewPhase("plan", "plan", "build") \/ ReviewPhase("build", "build", "changes")
    \/ Checkpoint("changes", {"changes"}, "qa")
    \/ ReviewPhase("qa", "qa", "findings")
    \/ Checkpoint("findings", QaThreads, "corrections")
    \/ Correct \/ ReviewPhase("fix", "fix", "finish") \/ FinishReview
    \/ ReviewedStepFailed \/ ReviewReturn
    \/ SaveDecision \/ Explained \/ ExplainFailed

ReviewOperation == ClaimDecision \/ Stay \/ Adjudicate \/ Ask
=============================================================================
