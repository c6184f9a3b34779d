------------------------------- MODULE QaLoop -------------------------------
(***************************************************************************)
(* PlanBuildQaCoordinator and TodoBuildQaCoordinator (src/src/application/ *)
(* plan-build-qa-coordinator.ts, todo-build-qa-coordinator.ts): after the  *)
(* build, QA reports and fixes alternate until a report no longer blocks   *)
(* or MaxIterations reports did.  Each further report and fix has a step   *)
(* id of its own, and the iteration is kept in the run's input artifact.   *)
(* The first of them also records the findings in the QA history, one      *)
(* transaction per occurrence and per event.                               *)
(***************************************************************************)
EXTENDS CoordinatedRun, Sequences

CONSTANT Findings   \* finding fingerprints that a report may contain

VARIABLES
    found,    \* found[i]: the findings of report i
    occ,      \* qa_occurrences of this run: <<iteration, finding>>
    events,   \* qa_defect_events: <<iteration, finding, status>>
    final     \* the status the last FINAL-REPORT.md gives

qaVars == <<found, occ, events, final>>

QaStep(i) == <<"qa", "qa-2", "qa-3">>[i + 1]
FixStep(i) == <<"fix-1", "fix-2">>[i + 1]

Coordinates(w) == workflow = w /\ UNCHANGED qaVars

Move(label) ==
    /\ Goto(label)
    /\ UNCHANGED <<workflow, run, owner, step, out, input, files, mem, aborted, faults>>

\* finish, up to its first await
Finish(status) ==
    /\ Goto("report")
    /\ mem' = [mem EXCEPT !.verdict = status]
    /\ UNCHANGED <<workflow, run, owner, out, input, files, aborted, faults>>

QaPhase(label, s, after) == Phase(label, s, after) /\ UNCHANGED qaVars

\* executeStep returned; a report blocks only with a finding in it.
QaReturn ==
    /\ Return
    /\ IF mem.after = "record"
       THEN \E f \in SUBSET Findings :
              /\ out'[mem.cur] = "block" => f # {}
              /\ found' = [found EXCEPT ![mem.iter + 1] = f]
       ELSE UNCHANGED found
    /\ UNCHANGED <<occ, events, final>>

-----------------------------------------------------------------------------
(* Before the loop *)

\* The scope asks for clarification: nothing is built.
ScopeStops ==
    /\ pc = "scoped" /\ out["scope"] = "stop"
    /\ step' = Skipped({"plan", "build", "qa", "fix"})
    /\ Finish("completed")
    /\ Coordinates("plan-build-qa")

ScopeProceeds ==
    /\ pc = "scoped" /\ out["scope"] # "stop"
    /\ Move("plan") /\ Coordinates("plan-build-qa")

TodoBlocked ==
    /\ pc = "assessed" /\ out["validate-todo"] = "blocked"
    /\ step' = Skipped({"prepare", "build", "qa"})
    /\ Finish("completed")
    /\ Coordinates("todo-build-qa")

TodoNeedsPreparation ==
    /\ pc = "assessed" /\ out["validate-todo"] = "prepare"
    /\ Move("prepare") /\ Coordinates("todo-build-qa")

TodoReady ==
    /\ pc = "assessed" /\ out["validate-todo"] = "ready"
    /\ step' = Skipped({"prepare"})
    /\ Goto("build")
    /\ UNCHANGED <<workflow, run, owner, out, input, files, mem, aborted, faults>>
    /\ Coordinates("todo-build-qa")

-----------------------------------------------------------------------------
(* The loop *)

\* The abort signal is looked at once in each iteration.
LoopTop ==
    /\ pc = "loop"
    /\ IF aborted THEN Finish("cancelled") /\ UNCHANGED step ELSE Move("qa")
    /\ UNCHANGED qaVars

Keeps == workflow = "plan-build-qa"

Occurrences(i) == {i} \X found[i]
Round == mem.iter + 1

\* recordQaHistory: an occurrence that is already there keeps its events.
RecordOccurrence ==
    /\ pc = "record" /\ Keeps
    /\ \E o \in Occurrences(Round) \ occ :
         /\ occ' = occ \cup {o}
         /\ mem' = [mem EXCEPT !.occ = o]
    /\ Goto("event")
    /\ UNCHANGED <<workflow, run, owner, step, out, input, files, aborted, faults>>
    /\ UNCHANGED <<found, events, final>>

\* The event of the occurrence just saved: detected, or reopened.
RecordEvent ==
    /\ pc = "event"
    /\ events' = events \cup {Append(mem.occ, "detected")}
    /\ Move("record")
    /\ UNCHANGED <<found, occ, final>>

Recorded == ~Keeps \/ Occurrences(Round) \subseteq occ

With(os, status) == {Append(o, status) : o \in os}

\* verifyPreviousQaFindings, one event of an earlier occurrence at a time
Verify ==
    /\ pc = "record" /\ Recorded /\ Keeps /\ out[QaStep(mem.iter)] = "pass"
    /\ \E e \in With({o \in occ : o[1] < Round}, "verified") \ events :
         events' = events \cup {e}
    /\ UNCHANGED <<runVars, found, occ, final>>

Verified == Keeps => With({o \in occ : o[1] < Round}, "verified") \subseteq events

Accept ==
    /\ pc = "record" /\ Recorded /\ out[QaStep(mem.iter)] = "pass" /\ Verified
    /\ Finish("completed") /\ UNCHANGED <<step, qaVars>>

\* Mutant: a further report is expected after the last one.
GiveUp_Late ==
    /\ pc = "record" /\ Recorded /\ out[QaStep(mem.iter)] = "block"
    /\ Round = MaxIterations + 1
    /\ Finish("failed") /\ UNCHANGED <<step, qaVars>>

GiveUp ==
    /\ pc = "record" /\ Recorded /\ out[QaStep(mem.iter)] = "block"
    /\ Round = MaxIterations
    /\ Finish("failed") /\ UNCHANGED <<step, qaVars>>

Fix ==
    /\ pc = "record" /\ Recorded /\ out[QaStep(mem.iter)] = "block"
    /\ Round < MaxIterations
    /\ Move("fix") /\ UNCHANGED qaVars

\* markQaFindings(..., 'fixed'), one event at a time
MarkFixed ==
    /\ pc = "fixed" /\ Keeps
    /\ \E e \in With(Occurrences(Round), "fixed") \ events : events' = events \cup {e}
    /\ UNCHANGED <<runVars, found, occ, final>>

\* Mutant: the iteration is persisted before its findings are marked.
Marked_Any == TRUE

Marked == Keeps => With(Occurrences(Round), "fixed") \subseteq events

NextIteration ==
    /\ pc = "fixed" /\ Marked
    /\ WriteInput(Round, "none")
    /\ UNCHANGED qaVars

KeepIteration ==
    /\ CommitInput /\ Goto("clean")
    /\ UNCHANGED <<workflow, run, owner, step, out, files, mem, aborted, faults, qaVars>>

Again == CleanInput("loop") /\ UNCHANGED qaVars

-----------------------------------------------------------------------------
(* The end *)

\* The catch clause; the steps of later iterations are not among those skipped.
QaFailed ==
    /\ pc = "failed"
    /\ step' = Skipped({s \in StepsOf(workflow) \ {"scope"} :
                          /\ s # mem.cur /\ step[s] # "completed"
                          /\ workflow = "todo-build-qa" => s # "fix"})
    /\ Finish(FailureStatus)
    /\ UNCHANGED qaVars

\* The report is written; an error in that is only emitted.
Report ==
    /\ pc = "report"
    /\ final' \in {final, mem.verdict}
    /\ Move("close")
    /\ UNCHANGED <<found, occ, events>>

Close ==
    /\ pc = "close"
    /\ SaveRunStatus(mem.verdict)
    /\ UNCHANGED qaVars

QaNext ==
    \/ /\ workflow = "plan-build-qa"
       /\ \/ QaPhase("scope", "scope", "scoped")
          \/ QaPhase("plan", "plan", "build")
    \/ /\ workflow = "todo-build-qa"
       /\ \/ QaPhase("validate-todo", "validate-todo", "assessed")
          \/ QaPhase("prepare", "prepare", "build")
    \/ QaPhase("build", "build", "loop")
    \/ QaPhase("qa", QaStep(mem.iter), "record")
    \/ mem.iter < 2 /\ QaPhase("fix", FixStep(mem.iter), "fixed")
    \/ QaReturn \/ ScopeStops \/ ScopeProceeds
    \/ TodoBlocked \/ TodoNeedsPreparation \/ TodoReady
    \/ LoopTop \/ RecordOccurrence \/ RecordEvent \/ Verify \/ Accept \/ GiveUp \/ Fix
    \/ MarkFixed \/ NextIteration \/ KeepIteration \/ Again
    \/ QaFailed \/ Report \/ Close
=============================================================================
