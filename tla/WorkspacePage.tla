---------------------------- MODULE WorkspacePage -----------------------------
(***************************************************************************)
(* The frame of the web client (web/client/App.tsx, Projects.tsx): signing *)
(* in and out, the settings, the active project and its tasks.  They are   *)
(* loaded one after the other by refreshWorkspace, which several callers   *)
(* start and nothing orders; the active project is one of the server, and  *)
(* another browser may change it.                                          *)
(***************************************************************************)
EXTENDS Naturals, FiniteSets

CONSTANTS
    Projects,
    Loads,         \* refreshes of the workspace, 1..n, and refreshTasks alone
    MaxSwitches    \* bound: changes of the active project

VARIABLES
    active,      \* the active project on the server, or NoProject
    switches,
    signedIn,
    settings, project, tasks,   \* what is shown
    load,        \* load[l]: what the refresh waits for
    disturbed,  \* a refresh met another, a switch, or a failure (history)
    opening      \* select() of Projects.tsx: NoProject or the project

workspaceVars == <<active, switches, signedIn, settings, project, tasks, load, disturbed, opening>>

NoProject == "none"
NoTasks == "none"
Under(l) == load[l] # "idle"
Loading == {l \in Loads : Under(l)}

WorkspaceTypeOK ==
    /\ active \in Projects \cup {NoProject}
    /\ project \in Projects \cup {NoProject}
    /\ tasks \in Projects \cup {NoTasks}
    /\ \A l \in Loads : load[l] \in {"idle", "settings", "project", "tasks"}

WorkspaceInit ==
    /\ active \in Projects \cup {NoProject}
    /\ switches = 0
    /\ signedIn = FALSE /\ settings = FALSE /\ project = NoProject /\ tasks = NoTasks
    /\ load = [l \in Loads |-> "idle"]
    /\ disturbed = FALSE /\ opening = NoProject

Begin(l) ==
    /\ ~Under(l)
    /\ load' = [load EXCEPT ![l] = "settings"]
    /\ disturbed' = (disturbed \/ Loading # {})

\* The session, or a code that is right.
SignIn(l) ==
    /\ ~signedIn
    /\ signedIn' = TRUE
    /\ Begin(l)
    /\ UNCHANGED <<active, switches, settings, project, tasks, opening>>

\* What is being loaded goes on after it.
SignOut ==
    /\ signedIn
    /\ signedIn' = FALSE
    /\ settings' = FALSE /\ project' = NoProject
    /\ disturbed' = (disturbed \/ Loading # {})
    /\ UNCHANGED <<active, switches, tasks, load, opening>>

\* "Retry workspace loading", or the settings were saved.
Retry(l) ==
    /\ signedIn
    /\ Begin(l)
    /\ UNCHANGED <<active, switches, signedIn, settings, project, tasks, opening>>

\* select, then onProjectChanged.
Select(p) ==
    /\ signedIn /\ settings /\ opening = NoProject
    /\ switches < MaxSwitches
    /\ switches' = switches + 1
    /\ active' = p /\ opening' = p
    /\ disturbed' = (disturbed \/ Loading # {})
    /\ UNCHANGED <<signedIn, settings, project, tasks, load>>

Selected(l) ==
    /\ opening # NoProject
    /\ Begin(l)
    /\ opening' = NoProject
    /\ UNCHANGED <<active, switches, signedIn, settings, project, tasks>>

\* Another browser of this server.
SwitchElsewhere ==
    /\ switches < MaxSwitches
    /\ switches' = switches + 1
    /\ active' \in Projects \cup {NoProject}
    /\ disturbed' = (disturbed \/ Loading # {})
    /\ UNCHANGED <<signedIn, settings, project, tasks, load, opening>>

\* refreshTasks alone: the button of the list, a task that was created.
RefreshTasks(l) ==
    /\ signedIn /\ project # NoProject /\ ~Under(l)
    /\ load' = [load EXCEPT ![l] = "tasks"]
    /\ disturbed' = (disturbed \/ Loading # {} \/ active # project)
    /\ UNCHANGED <<active, switches, signedIn, settings, project, tasks, opening>>

Go(l, at) == load' = [load EXCEPT ![l] = at]
Ends(l) == load' = [load EXCEPT ![l] = "idle"]

\* Nothing of a project is shown that could not be loaded.
Shown == project' = NoProject /\ tasks' = NoTasks

SettingsAnswer(l) ==
    /\ load[l] = "settings"
    /\ \/ settings' = TRUE /\ Go(l, "project") /\ UNCHANGED <<project, tasks>>
       \/ settings' = FALSE /\ Ends(l) /\ Shown
       \/ settings' = TRUE /\ Ends(l) /\ Shown             \* setupRequired
    /\ UNCHANGED <<active, switches, signedIn, disturbed, opening>>

\* Mutant: the tasks of the project before are kept.
TasksAfterProject_Kept(l) == Ends(l) /\ UNCHANGED tasks

\* The tasks of the project are loaded, or there are none.
TasksAfterProject(l) ==
    IF active = NoProject THEN Ends(l) /\ tasks' = NoTasks
    ELSE Go(l, "tasks") /\ UNCHANGED tasks

ProjectAnswer(l) ==
    /\ load[l] = "project"
    /\ \/ project' = active /\ TasksAfterProject(l)
       \/ Ends(l) /\ Shown
    /\ UNCHANGED <<active, switches, signedIn, settings, disturbed, opening>>

\* listTasks answers for the project that is active then; a failure leaves the
\* tasks that are shown.
TasksAnswer(l) ==
    /\ load[l] = "tasks"
    /\ \/ tasks' = (IF active = NoProject THEN NoTasks ELSE active) /\ UNCHANGED disturbed
       \/ disturbed' = TRUE /\ UNCHANGED tasks
    /\ Ends(l)
    /\ UNCHANGED <<active, switches, signedIn, settings, project, opening>>

WorkspaceStep ==
    \/ SignOut \/ SwitchElsewhere
    \/ \E p \in Projects : Select(p)
    \/ \E l \in Loads : \/ SignIn(l) \/ Retry(l) \/ Selected(l) \/ RefreshTasks(l)
                        \/ SettingsAnswer(l) \/ ProjectAnswer(l) \/ TasksAnswer(l)

-----------------------------------------------------------------------------
\* The tasks in the list are of the project that is shown once nothing is being
\* loaded, if each refresh had the server and the page to itself and its tasks
\* were answered: nothing orders two refreshes, a switch in another browser falls
\* between the project and its tasks, and tasks that cannot be loaded leave those
\* of the project before in the list.
TasksOfProject ==
    Loading = {} /\ ~disturbed /\ tasks # NoTasks /\ project # NoProject
        => tasks = project

WorkspaceInv == WorkspaceTypeOK /\ TasksOfProject

WorkspaceSpec == WorkspaceInit /\ [][WorkspaceStep]_workspaceVars
=============================================================================
