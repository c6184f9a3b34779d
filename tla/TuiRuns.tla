------------------------------ MODULE TuiRuns ------------------------------
(***************************************************************************)
(* The runs on the terminal interface: a run is opened, launched, resumed  *)
(* or decided, and the answers of the application arrive later, when       *)
(* another run may be on the screen.  Answers carry no promise of order;   *)
(* a ticket, the run and the screen are compared when they arrive.         *)
(***************************************************************************)
EXTENDS Naturals, FiniteSets

CONSTANTS Runs,         \* the runs of the store
          MaxOpens,     \* how many times a run is opened
          MaxOps,       \* how many operations are begun
          MaxEdits      \* how many times the configuration file is edited

VARIABLES
    status,      \* the store: the status of every run
    config,      \* the version of the configuration file
    screen,      \* detail
    prompt,      \* the overlay: the confirmation of a recovery, or a feedback
    activeRun,   \* activeRunId
    view,        \* runView: the run and its status when it was read, or none
    previews,    \* approvalPreviews: the run they belong to
    ticket,      \* inspectionRequest
    inspections, \* the openings under way
    diagnosed,   \* the version of the diagnosis on the screen
    reviewed,    \* the version the launch was reviewed with
    op,          \* the attached operation
    begun,       \* how many operations were begun
    live,        \* the run shown live
    unseen,      \* history: a run could not be read
    crossed      \* history: an answer arrived after the screen had moved on

runsVars == <<status, config, screen, prompt, activeRun, view, previews, ticket, inspections,
              diagnosed, reviewed, op, begun, live, unseen, crossed>>

NoRun == "no run"
NoView == [run |-> NoRun, status |-> "none"]
NoOp == [kind |-> "none", run |-> NoRun, at |-> "idle", config |-> 0]
Over == {"completed", "failed"}

RunsInit ==
    /\ status \in [Runs -> {"absent", "waiting", "failed"}]
    /\ config = 1 /\ diagnosed = 1 /\ reviewed = 0
    /\ screen = "empty" /\ prompt = "none"
    /\ activeRun = NoRun /\ view = NoView /\ previews = NoRun
    /\ ticket = 0 /\ inspections = {} /\ op = NoOp /\ begun = 0 /\ live = NoRun
    /\ unseen = FALSE /\ crossed = FALSE

storeVars == <<status, config>>
launchVars == <<diagnosed, reviewed>>

\* What run-view-set shows for a run with this status.
ScreenFor(st) ==
    CASE st = "waiting" -> "approval"
      [] st = "failed" -> "inspect"
      [] st = "running" -> "inspect"
      [] OTHER -> "result"

Show(r, st) == view' = [run |-> r, status |-> st] /\ screen' = ScreenFor(st)

Idle == op = NoOp

(***************************************************************************)
(* Opening a run of the list.                                              *)
(***************************************************************************)
OpenRun(r) ==
    /\ screen \in {"empty", "diagnosis"} /\ prompt = "none"
    /\ status[r] # "absent" /\ ticket < MaxOpens
    /\ activeRun' = r /\ screen' = "inspect"
    /\ ticket' = ticket + 1
    /\ inspections' = inspections \union {[no |-> ticket', run |-> r, st |-> "none", at |-> "read"]}
    /\ UNCHANGED <<storeVars, launchVars, prompt, view, previews, op, live, unseen, crossed, begun>>

Move(i, j) == inspections' = (inspections \ {i}) \union {j}

\* getRunView and inspectRun answer; a failure is only reported.
Inspected(i) ==
    /\ i.at = "read"
    /\ \/ Move(i, [i EXCEPT !.st = status[i.run], !.at = "apply"]) /\ UNCHANGED unseen
       \/ inspections' = inspections \ {i} /\ unseen' = TRUE
    /\ UNCHANGED <<storeVars, launchVars, screen, prompt, activeRun, view, previews, ticket, op,
                   live, crossed, begun>>

Wanted(i) == i.no = ticket /\ activeRun = i.run

\* The previews were read and the run is still wanted: the view is shown.
ApplyView(i) ==
    /\ i.at = "apply"
    /\ IF Wanted(i)
         THEN /\ Show(i.run, i.st)
              /\ Move(i, [i EXCEPT !.at = "outcome"])
              /\ crossed' = (crossed \/ ~Idle)
         ELSE inspections' = inspections \ {i} /\ UNCHANGED <<screen, view, crossed>>
    /\ UNCHANGED <<storeVars, launchVars, prompt, activeRun, previews, ticket, op, live, unseen, begun>>

\* After the task outcome nothing is compared any more.
ApplyPreviews(i) ==
    /\ i.at = "outcome"
    /\ inspections' = inspections \ {i}
    /\ IF i.st = "waiting"
         THEN screen' = "approval" /\ previews' = i.run /\ crossed' = (crossed \/ view.run # i.run \/ ~Idle)
         ELSE /\ screen' = IF screen = "approval" THEN "inspect" ELSE screen
              /\ UNCHANGED <<previews, crossed>>
    /\ UNCHANGED <<storeVars, launchVars, prompt, activeRun, view, ticket, op, live, unseen, begun>>

Back ==
    /\ prompt = "none"
    /\ \/ screen = "approval" /\ screen' = "inspect"
       \/ screen \in {"inspect", "result", "launch", "diagnosis"} /\ screen' = "empty"
    /\ UNCHANGED <<storeVars, launchVars, prompt, activeRun, view, previews, ticket, inspections,
                   op, live, unseen, crossed, begun>>

(***************************************************************************)
(* The configuration, its diagnosis and the review of a launch.            *)
(***************************************************************************)
EditFile ==
    /\ config < MaxEdits
    /\ config' = config + 1
    /\ UNCHANGED <<status, launchVars, screen, prompt, activeRun, view, previews, ticket,
                   inspections, op, live, unseen, crossed, begun>>

Diagnose ==
    /\ screen \in {"empty", "diagnosis"} /\ prompt = "none"
    /\ diagnosed' = config /\ screen' = "diagnosis"
    /\ UNCHANGED <<storeVars, reviewed, prompt, activeRun, view, previews, ticket, inspections, op,
                   live, unseen, crossed, begun>>

\* new-run or "New run with revised objective": the profiles of the diagnosis are shown.
PrepareLaunch ==
    /\ screen \in {"empty", "diagnosis"} /\ prompt = "none" /\ Idle
    /\ screen' = "launch" /\ reviewed' = diagnosed
    /\ UNCHANGED <<storeVars, diagnosed, prompt, activeRun, view, previews, ticket, inspections,
                   op, live, unseen, crossed, begun>>

(***************************************************************************)
(* The attached execution.                                                 *)
(***************************************************************************)
Begin(kind, r) ==
    /\ begun < MaxOps
    /\ begun' = begun + 1
    /\ op' = [kind |-> kind, run |-> r, at |-> "open", config |-> 0]

StartLaunch ==
    /\ screen = "launch" /\ Idle
    /\ \E r \in Runs : status[r] = "absent" /\ Begin("launch", r)
    /\ UNCHANGED <<storeVars, launchVars, screen, prompt, activeRun, view, previews, ticket,
                   inspections, live, unseen, crossed>>

\* resume-run, approval-approve: the run is the one of the view.
StartContinuation ==
    /\ prompt = "none" /\ Idle
    /\ \/ screen = "inspect" /\ view.status = "failed" /\ Begin("resume", view.run)
       \/ screen = "approval" /\ view.status = "waiting" /\ Begin("decide", view.run)
    /\ UNCHANGED <<storeVars, launchVars, screen, prompt, activeRun, view, previews, ticket,
                   inspections, live, unseen, crossed>>

\* approval-reject asks for a feedback first; submitting it sends the decision.
Reject ==
    /\ screen = "approval" /\ view.status = "waiting" /\ prompt = "none"
    /\ prompt' = "feedback"
    /\ UNCHANGED <<storeVars, launchVars, screen, activeRun, view, previews, ticket, inspections,
                   op, live, unseen, crossed, begun>>

SubmitFeedback ==
    /\ prompt = "feedback"
    /\ prompt' = "none"
    /\ \/ Idle /\ Begin("decide", view.run)
       \/ UNCHANGED <<op, begun>>
    /\ UNCHANGED <<storeVars, launchVars, screen, activeRun, view, previews, ticket, inspections,
                   live, unseen, crossed>>

OpenContext == [op EXCEPT !.at = "opened", !.config = config]

\* The execution waits for the requests under way, then its own context reads
\* the configuration; for a launch the file is diagnosed again and compared with
\* what was reviewed.
Opened ==
    /\ op.at = "open" /\ inspections = {}
    /\ \/ op' = OpenContext
       \/ op' = NoOp
    /\ UNCHANGED <<storeVars, launchVars, screen, prompt, activeRun, view, previews, ticket,
                   inspections, live, unseen, crossed, begun>>

\* Mutant: the diagnosis on the screen is compared, not a new one.
SameReview_Screen == reviewed = diagnosed
SameReview == reviewed = config

CheckReview ==
    /\ op.at = "opened" /\ op.kind = "launch"
    /\ IF SameReview THEN op' = [op EXCEPT !.at = "start"] /\ UNCHANGED diagnosed
       ELSE op' = NoOp /\ diagnosed' = config
    /\ UNCHANGED <<storeVars, reviewed, screen, prompt, activeRun, view, previews, ticket,
                   inspections, live, unseen, crossed, begun>>

\* The application creates or claims the run and calls back, or refuses.
RunStarted ==
    /\ op.at = "start" \/ (op.at = "opened" /\ op.kind # "launch")
    /\ \/ /\ status[op.run] = (CASE op.kind = "launch" -> "absent" [] op.kind = "resume" -> "failed"
                                 [] OTHER -> "waiting")
          /\ status' = [status EXCEPT ![op.run] = "running"]
          /\ op' = [op EXCEPT !.at = "running"]
          /\ live' = op.run /\ activeRun' = op.run /\ screen' = "live"
       \/ op' = NoOp /\ UNCHANGED <<status, live, activeRun, screen>>
    /\ UNCHANGED <<config, launchVars, prompt, view, previews, ticket, inspections, unseen, crossed, begun>>

RunEnds ==
    /\ op.at = "running"
    /\ \E st \in Over \union {"waiting"} : status' = [status EXCEPT ![op.run] = st]
    /\ op' = [op EXCEPT !.at = "finish"]
    /\ UNCHANGED <<config, launchVars, screen, prompt, activeRun, view, previews, ticket,
                   inspections, live, unseen, crossed, begun>>

\* finishRun: the view is read again; when that fails the live screen stays.
FinishRun ==
    /\ op.at = "finish"
    /\ live' = NoRun
    /\ \/ Show(op.run, status[op.run]) /\ op' = [op EXCEPT !.at = "outcome"] /\ UNCHANGED unseen
       \/ op' = NoOp /\ unseen' = TRUE /\ UNCHANGED <<screen, view>>
    /\ UNCHANGED <<storeVars, launchVars, prompt, activeRun, previews, ticket, inspections, crossed, begun>>

FinishPreviews ==
    /\ op.at = "outcome"
    /\ IF status[op.run] = "waiting"
         THEN screen' = "approval" /\ previews' = op.run /\ crossed' = (crossed \/ view.run # op.run)
         ELSE UNCHANGED <<screen, previews, crossed>>
    /\ op' = NoOp
    /\ UNCHANGED <<storeVars, launchVars, prompt, activeRun, view, ticket, inspections, live, unseen, begun>>

RunsNext ==
    \/ \E r \in Runs : OpenRun(r)
    \/ \E i \in inspections : Inspected(i) \/ ApplyView(i) \/ ApplyPreviews(i)
    \/ Back \/ EditFile \/ Diagnose \/ PrepareLaunch
    \/ StartLaunch \/ StartContinuation \/ Reject \/ SubmitFeedback
    \/ Opened \/ CheckReview \/ RunStarted \/ RunEnds \/ FinishRun \/ FinishPreviews

RunsSpec == RunsInit /\ [][RunsNext]_runsVars

-----------------------------------------------------------------------------
\* A run is launched with the profiles that were reviewed.
LaunchedAsReviewed ==
    (op.kind = "launch" /\ op.at \in {"start", "running"}) => op.config = reviewed

\* At rest the run shown is the one that was opened last.
ViewIsOfActiveRun ==
    (view.run # NoRun /\ screen \in {"inspect", "approval", "result"} /\ inspections = {} /\ Idle
       /\ ~unseen /\ ~crossed)
       => view.run = activeRun

\* The live screen is shown only while the operation runs.
LiveHasOperation == screen = "live" => ~Idle \/ unseen

\* The previews beside a decision are those of the run that is decided.
PreviewsOfView == (screen = "approval" /\ previews # NoRun /\ ~crossed /\ Idle /\ inspections = {})
   => previews = view.run
============================================================================
