------------------------------- MODULE Device --------------------------------
(***************************************************************************)
(* One device: the lease on a data directory, the schema of the store that *)
(* is opened under it, the host that executes operations, and the projects *)
(* of the web launcher.  They meet in calls that the modules treat as one  *)
(* step (the lease is what opening a host takes, a host is what a project  *)
(* opens), so that one part at a time is explored; the others stay as they *)
(* are.                                                                    *)
(***************************************************************************)
EXTENDS DataDirectory, Naturals

CONSTANTS
    Current, Versions, MaxCrashes,              \* Migrations
    Requests, MaxOps, MaxQueries, MaxLives, NoRow,   \* ExecutionHost
    Projects, MaxCalls,                         \* ProjectRuntime
    k1, k2, k3, x, y                            \* keys and contents of the instance below

\* A request is for a run of its key and content, in one of four forms; there is a
\* first host; no run is NoRow.
ASSUME HostAssumption ==
    /\ \A r \in Requests : r.form \in {"legacy", "guided", "resume", "preparation"}
    /\ {MaxOps, MaxQueries} \subseteq Nat /\ MaxLives \in Nat \ {0}
    /\ NoRow \notin [content : {r.content : r \in Requests}, active : BOOLEAN]

ASSUME ProjectsAssumption == MaxCalls \in Nat

VARIABLES
    part,
    origin, disk, work, todo, backups, opening, broken,
    rows, told, ops, slot, failed, closing, finishing, queries, storeOpen, lives,
    calls, host, busy, active, closed, closer, overlapped

M == INSTANCE Migrations WITH phase <- opening, crashes <- broken
H == INSTANCE ExecutionHost WITH closer <- finishing
R == INSTANCE ProjectRuntime

schemaVars == <<origin, disk, work, todo, backups, opening, broken>>
hostVars == <<rows, told, ops, slot, failed, closing, finishing, queries, storeOpen, lives>>
projectVars == <<calls, host, busy, active, closed, closer, overlapped>>
deviceVars == <<part, vars, schemaVars, hostVars, projectVars>>

NoDirectory == /\ lock = NoLock /\ phase = [p \in Processes |-> "done"]
               /\ marked = {} /\ mistaken = FALSE
NoSchema == /\ origin = M!NoDb /\ disk = M!NoDb /\ work = M!NoDb /\ todo = <<>>
            /\ backups = {} /\ opening = "closed" /\ broken = 0

DeviceInit ==
    /\ part \in {"directory", "schema", "host", "projects"}
    /\ IF part = "directory" THEN Init ELSE NoDirectory
    /\ IF part = "schema" THEN M!MigrationsInit ELSE NoSchema
    /\ H!Init /\ R!Init

DeviceNext ==
    /\ UNCHANGED part
    /\ \/ part = "directory" /\ Next /\ UNCHANGED <<schemaVars, hostVars, projectVars>>
       \/ part = "schema" /\ M!MigrationsNext /\ UNCHANGED <<vars, hostVars, projectVars>>
       \/ part = "host" /\ H!Next /\ UNCHANGED <<vars, schemaVars, projectVars>>
       \/ part = "projects" /\ R!Next /\ UNCHANGED <<vars, schemaVars, hostVars>>

DeviceSpec == DeviceInit /\ [][DeviceNext]_deviceVars /\ Fairness /\ H!Fairness

-----------------------------------------------------------------------------
(* Instance *)

\* Two contents under one legacy key, a guided run with its resume, and a preparation.
HostRequests ==
    {[key |-> k1, form |-> "legacy", content |-> x],
     [key |-> k1, form |-> "legacy", content |-> y],
     [key |-> k2, form |-> "guided", content |-> x],
     [key |-> k2, form |-> "resume", content |-> x],
     [key |-> k3, form |-> "preparation", content |-> x]}

-----------------------------------------------------------------------------
(* Properties *)

\* The lease is given back by whoever closes or is refused where it is caught, and a run
\* row says running only of a process that has the store open or died (TypeOK).
DirectoryInv == TypeOK /\ NoLockLeftBehind

\* A file of the database is whole, in the old form or in the current one.
SchemaInv == part = "schema" => M!MigrationsInv

\* The host: one operation at a time, the store closed after all of them, runs that
\* were answered are found again, what was cancelled does not run.
HostInv == part = "host" => H!Inv /\ H!StoreClosedLast /\ H!AnswerIsDurable /\ H!CancelHonoured

\* The launcher: one project unless requests overlap, no host without an owner.
ProjectsInv == part = "projects" => R!Inv /\ R!OwnsOneUnlessOverlapped /\ R!NoHostLeftOpen

\* The lease, the host and the launcher of a device keep what each of them promises.
DeviceInv == DirectoryInv /\ HostInv /\ ProjectsInv

\* A project whose host is busy is never given up.
BusyHostKept == R!BusyHostKept

\* Operations, cancels and close settle.
EverythingSettles == H!EverythingSettles
=============================================================================
