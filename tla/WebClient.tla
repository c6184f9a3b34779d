------------------------------ MODULE WebClient -------------------------------
(***************************************************************************)
(* The pages of the web client, one at a time: what each shows, what it    *)
(* sends, and what becomes of answers that are late, lost or overtaken.    *)
(* The page is chosen once; the variables of the others keep their initial *)
(* values.                                                                 *)
(***************************************************************************)
EXTENDS Naturals, FiniteSets

CONSTANTS Tasks, Texts, MaxRequests, MaxSelected, MaxPolls, Attempts, ViewLimit,  \* TaskPage
          MaxRevision, MaxLoads, MaxStarts, MaxAnswers,                        \* ExecutionPanel
          Names, MaxSaves,                                                     \* ProfilePage
          Workspaces, Loads, MaxSwitches,                                      \* WorkspacePage
          MaxDrafts, MaxReads, MaxReloads                                      \* HandoverPage

\* What is counted has a bound; pages and executions begin with the first of theirs.
ASSUME BoundsAssumption ==
    /\ {MaxRequests, Attempts, ViewLimit, MaxSaves, MaxDrafts} \subseteq Nat
    /\ {MaxSelected, MaxLoads, MaxRevision} \subseteq Nat \ {0}

VARIABLES
    page,
    shown, generation, detail, requestId, requestKey, flight, reads, server, request, made,
    crossed,
    run, gen, progress, offer, fetch, digest, startId, call, polls, approved,
    file, hash, known, selected, draft, confirmed, saving, switched,
    activeProject, switches, signedIn, settings, project, tasks, load, disturbed, choosing,
    transfer, ids, transferDraft, stored, preview, status, started, statusReads, reloads, late

T == INSTANCE TaskPage
E == INSTANCE ExecutionPanel
A == INSTANCE ProfilePage
W == INSTANCE WorkspacePage WITH Projects <- Workspaces, active <- activeProject,
                                 opening <- choosing
X == INSTANCE HandoverPage WITH made <- ids, draft <- transferDraft, reads <- statusReads

taskVars == <<shown, generation, detail, requestId, requestKey, flight, reads, server, request,
              made, crossed>>
panelVars == <<run, gen, progress, offer, fetch, digest, startId, call, polls, approved>>
profileVars == <<file, hash, known, selected, draft, confirmed, saving, switched>>
workspaceVars == <<activeProject, switches, signedIn, settings, project, tasks, load, disturbed,
                   choosing>>
handoverVars == <<transfer, ids, transferDraft, stored, preview, status, started, statusReads,
                  reloads, late>>
pagesVars == <<page, taskVars, panelVars, profileVars, workspaceVars, handoverVars>>

\* The pages not chosen stay in one initial state, in which nothing is awaited, so
\* that what is said of their fairness asks for nothing.
PagesInit ==
    /\ page \in {"task", "execution", "profiles", "workspace", "handover"}
    /\ IF page = "task" THEN T!PageInit
       ELSE T!PageBlank /\ reads = {} /\ shown = CHOOSE t \in Tasks : TRUE
    /\ IF page = "execution" THEN E!PanelInit ELSE E!PanelBlank /\ polls = {}
    /\ A!ProfileInit /\ W!WorkspaceInit /\ X!HandoverInit
    /\ page # "profiles" => selected = CHOOSE n \in Names : TRUE
    /\ page # "workspace" => activeProject = W!NoProject

PagesNext ==
    /\ UNCHANGED page
    /\ \/ page = "task" /\ T!PageStep
          /\ UNCHANGED <<panelVars, profileVars, workspaceVars, handoverVars>>
       \/ page = "execution" /\ E!PanelStep
          /\ UNCHANGED <<taskVars, profileVars, workspaceVars, handoverVars>>
       \/ page = "profiles" /\ A!ProfileStep
          /\ UNCHANGED <<taskVars, panelVars, workspaceVars, handoverVars>>
       \/ page = "workspace" /\ W!WorkspaceStep
          /\ UNCHANGED <<taskVars, panelVars, profileVars, handoverVars>>
       \/ page = "handover" /\ X!HandoverStep
          /\ UNCHANGED <<taskVars, panelVars, profileVars, workspaceVars>>

PagesSpec == PagesInit /\ [][PagesNext]_pagesVars /\ T!PageFairness /\ E!PanelFairness

-----------------------------------------------------------------------------
\* What holds of each page: what is shown is what it says it is, except after the
\* overlaps nothing orders, an id stands for one operation, and what is approved or
\* saved is what was shown.
Inv ==
    CASE page = "task" -> T!PageInv
      [] page = "execution" -> E!PanelInv
      [] page = "profiles" -> A!ProfileInv
      [] page = "workspace" -> W!WorkspaceInv
      [] page = "handover" -> X!HandoverInv

\* The pages catch up: a submission ends whatever becomes of its request, and what
\* is shown as running is seen to end, though answers are late, lost and out of
\* order.
PagesSettle == T!PageSettles /\ E!EndIsShown
=============================================================================
