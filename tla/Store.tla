-------------------------------- MODULE Store --------------------------------
(***************************************************************************)
(* What a device keeps, one section at a time: the lists read from its     *)
(* store and the documents in it, page by page (Pages); the changes of an  *)
(* execution (ChangeSets); the graph of a workflow definition              *)
(* (WorkflowGraph); the files in the documents of a task (TaskScope); the  *)
(* files beside the database (LocalFiles); and a guided task: the          *)
(* conversation about it and its contract (GuidedPreparation), and its     *)
(* execution (GuidedExecution).  They meet in documents that do not change *)
(* any more.                                                               *)
(***************************************************************************)
EXTENDS GuidedPreparation, GuidedExecution

CONSTANTS
    Ids, Limit, LastTick, Kinds, MaxBytes, MaxLines, MaxChars, MaxWrites,\* Pages
    Paths, OwnPaths, MaxChanges, TextLines,                              \* ChangeSets
    stepA, stepB, stepC, ghost,                                          \* WorkflowGraph
    PlanIds, TaskIds, Forms, MaxPaths, MaxTouches,                       \* TaskScope
    Savers, MaxEdits, Updates, Foreign, MaxCrashes, Catalogs, Changes,   \* LocalFiles
    Workspaces, Starts, MaxDeaths, Updaters, Newest, MaxKills

ASSUME ListsAssumption ==
    /\ Ids \subseteq Nat \ {0} /\ Limit \in Nat \ {0} /\ LastTick \in Nat
    /\ Kinds \subseteq {"newest", "thread", "log", "catalog"}
ASSUME FilesAssumption == Updates \cup Starts \cup Updaters \subseteq Nat \ {0} /\ Workspaces # {}

VARIABLES
    section,
    listKind, listRows, clock, listed, cursor, due, list,
    docFrom, document, version, page, reading, read, refused,
    diff, script, changeStage, files,
    workflow, verdict, order,
    planDoc, todoDoc, agreed, authorized, tree, scopeIndex, linked, scopePhase, scope, moved, touches,
    keeps,
    config, edits, writers, project, faults, lost,
    file, lastGood, tlsFiles, current, hash, launcher, update, foreign, crashes, overlapped, lostUpdates,
    projects, queue, change, disturbed, catalogTold,
    private, public, start, deaths, together,
    updateLock, aside, installed, links, latest, up, kills, hurried

PG == INSTANCE Pages WITH kind <- listKind, rows <- listRows, from <- docFrom, failed <- refused,
                          Writes <- MaxWrites
CS == INSTANCE ChangeSets WITH stage <- changeStage, Changes <- MaxChanges, MaxLines <- TextLines
WG == INSTANCE WorkflowGraph WITH phase <- verdict
TS == INSTANCE TaskScope WITH plan <- planDoc, todo <- todoDoc, phase <- scopePhase, stage <- scope,
                              index <- scopeIndex, raced <- moved
LF == INSTANCE LocalFiles WITH Writers <- Savers, call <- writers, answered <- catalogTold,
                               part <- keeps, lock <- updateLock, raced <- hurried

listVars == <<listKind, listRows, clock, listed, cursor, due, list>>
docVars == <<docFrom, document, version, page, reading, read, refused>>
changeVars == <<diff, script, changeStage, files>>
graphVars == <<workflow, verdict, order>>
scopeVars == <<planDoc, todoDoc, agreed, authorized, tree, scopeIndex, linked, scopePhase, scope, moved, touches>>
fileVars == <<keeps, config, edits, writers, project, faults, lost, file, lastGood, tlsFiles,
              current, hash, launcher, update, foreign, crashes, overlapped, lostUpdates, projects,
              queue, change, disturbed, catalogTold, private, public, start, deaths, together, updateLock,
              aside, installed, links, latest, up, kills, hurried>>
readVars == <<listVars, docVars, changeVars>>
declaredVars == <<graphVars, scopeVars>>
storeVars == <<section, readVars, declaredVars, fileVars, taskVars, vars>>

NoList == /\ listKind = "log" /\ listRows = {} /\ clock = 1 /\ listed = <<>> /\ cursor = PG!None
          /\ due = {} /\ list = "closed"
NoDocument == /\ docFrom = "artifact" /\ document = <<>> /\ version = 1 /\ page = PG!NoPage
              /\ reading = "closed" /\ read = <<>> /\ refused = FALSE
NoChanges == diff = {} /\ script = <<>> /\ changeStage = "committed" /\ files = {}
NoGraph == workflow = <<>> /\ verdict = "submitted" /\ order = <<>>

\* A section that is not explored rests in one state.
StoreInit ==
    /\ section \in {"list", "document", "changes", "workflow", "scope", "files", "task", "execution"}
    /\ IF section = "list" THEN PG!ListingInit ELSE NoList
    /\ IF section = "document" THEN PG!DocumentInit ELSE NoDocument
    /\ IF section = "changes" THEN CS!ChangesInit ELSE NoChanges
    /\ IF section = "workflow" THEN WG!Init ELSE NoGraph
    /\ TS!ScopeInit
    /\ LF!Init /\ (section # "files" => keeps = "catalog")
    /\ TaskInit /\ (section # "task" => clients = CHOOSE c \in Clients : TRUE)
    /\ Init

StoreNext ==
    /\ UNCHANGED section
    /\ \/ /\ \/ section = "list" /\ PG!ListingNext /\ UNCHANGED <<docVars, changeVars>>
             \/ section = "document" /\ PG!DocumentNext /\ UNCHANGED <<listVars, changeVars>>
             \/ section = "changes" /\ CS!ChangesNext /\ UNCHANGED <<listVars, docVars>>
          /\ UNCHANGED <<declaredVars, fileVars, taskVars, vars>>
       \/ /\ \/ section = "workflow" /\ WG!Next /\ UNCHANGED scopeVars
             \/ section = "scope" /\ TS!ScopeNext /\ UNCHANGED graphVars
          /\ UNCHANGED <<readVars, fileVars, taskVars, vars>>
       \/ section = "files" /\ LF!Next /\ UNCHANGED <<readVars, declaredVars, taskVars, vars>>
       \/ section = "task" /\ TaskNext /\ UNCHANGED <<readVars, declaredVars, fileVars, vars>>
       \/ section = "execution" /\ Next /\ UNCHANGED <<readVars, declaredVars, fileVars, taskVars>>

StoreSpec == StoreInit /\ [][StoreNext]_storeVars

-----------------------------------------------------------------------------
(* Instances *)

\* A phase of two tasks, of which the second may also write what the first one wrote,
\* and a phase of one.
TaskPhases == <<1, 1, 2>>
TaskFiles == <<{"a"}, {"a", "b"}, {"b"}>>

Nothing == <<{}, {}, {}>>

\* Three populations of clients.  Two browser tabs and the command line work on the
\* contract alone; one client talks, has the brief confirmed and talks again, so that
\* messages are compacted, while others make the task ready; one client has the
\* planner do everything, while others interfere.
MCClients == {
    [asks |-> Nothing, writes |-> AllWrites, revisions |-> 7],
    [asks |-> <<{"reply", "search"}, {"confirm-brief"}, {"reply", "generate-plan"}>>,
     writes |-> {"publish-plan", "approve", "publish-todo"}, revisions |-> 4],
    [asks |-> <<{"generate-plan", "search"}, {"approve-plan", "comment-plan"}, {"generate-todo", "reply"}>>,
     writes |-> {"revise-brief", "approve", "block"}, revisions |-> 5]}

-----------------------------------------------------------------------------
(* Properties *)

\* Who follows the cursors of a list sees every row that belonged to it all the
\* while once.
ListInv == section = "list" => PG!ListingInv

\* The pages of a document join without losing, doubling or cutting a character; a
\* preview that is not called truncated is the whole document; the files and lines
\* of a ChangeSet are those that differ.
ReadingInv ==
    /\ section = "document" => PG!DocumentInv /\ PG!PreviewIsTrue
    /\ section = "changes" => CS!ChangesInv

\* Validation accepts exactly the sound workflows; a step runs once, after all it
\* depends on.
GraphInv == section = "workflow" => WG!AcceptsExactlySound /\ WG!OrderIsSound

\* What is computed from a value or a document is right for each of them.
ComputedInv == ReadingInv /\ GraphInv

\* What is staged for a commit was agreed on and authorized, through the four checks
\* that read the paths of a task.
ScopeInv == section = "scope" => TS!ScopeInv

\* What was saved beside the database stays saved, and what those files name exists.
FilesInv == section = "files" => LF!Inv

\* Messages keep their numbers, a request's row tells what became of it, and the
\* planner's session has the conversation; the rows of a run and of its execution agree.
GuidedInv ==
    /\ section = "task" => TaskInv /\ OutcomeIsTrue /\ SessionKnowsConversation
    /\ section = "execution" => Inv

\* What the device keeps stays as it was agreed, saved and told: the task in the database,
\* the files its documents name, and those beside the database; its lists show all of it.
StoreInv == GuidedInv /\ ScopeInv /\ FilesInv /\ ListInv

\* test/git-workspace.test.ts:125: a file that the execution added is reviewed as added.
AddedFilesAreAdded == CS!AddedFilesAreAdded
=============================================================================
