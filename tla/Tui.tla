-------------------------------- MODULE Tui --------------------------------
(***************************************************************************)
(* The terminal, one part at a time: of its interface the application      *)
(* context shared between requests, the operation and changes of the       *)
(* folder, the configuration wizard, and the runs on the screen; and an     *)
(* attached command of the command line.  The part is chosen once; the     *)
(* variables of the others keep their initial values.                      *)
(*                                                                         *)
(* The first part is this module's own (lifecycle.ts).  The attached       *)
(* interface keeps at most one application context (an open store) for     *)
(* the folder it shows.  Reads, the attached operation, changes of the     *)
(* folder and the shutdown share it: each of them is an asynchronous       *)
(* function of lifecycle.ts and shell-controller.tsx, cut at its awaits.   *)
(* A store of a folder that is open or still closing refuses a second one: *)
(* that is the lock of DataDirectory.                                      *)
(***************************************************************************)
EXTENDS Naturals, FiniteSets, Sequences

CONSTANTS Folders,       \* the working directories
          Reads,         \* requests the lifecycle tracks
          Drafts,        \* openings of a preparation, which nothing tracks
          Switches       \* changes of the folder (or of its configuration)

\* One folder at least, and every actor, of finitely many, has a name of its own.
ASSUME ActorsAssumption ==
    /\ Folders # {} /\ IsFiniteSet(Folders)
    /\ IsFiniteSet(Reads) /\ IsFiniteSet(Drafts) /\ IsFiniteSet(Switches)
    /\ Reads \cap Drafts = {} /\ Reads \cap Switches = {} /\ Drafts \cap Switches = {}
    /\ {"operation", "shutdown"} \cap (Reads \union Drafts \union Switches) = {}

Users == Reads \union Drafts
Actors == Users \union Switches \union {"operation", "shutdown"}
Openers == Users \union Switches \union {"operation"}

\* The stores that may exist at once: one in use for every folder, one opening
\* for every actor that waits for one.
Stores == 1..(Cardinality(Folders) + Cardinality(Openers))
NoStore == 0
InUse == {"open", "closing"}

VARIABLES
    store,       \* the stores that exist, their folder and their state
    context,     \* lifecycle.context
    ownsContext,
    opening,     \* lifecycle.openingContext
    requests,    \* the tracked requests that have not settled
    cwd,         \* the folder on the screen
    cancelled,   \* the operation's signal is aborted
    stopping,
    exited,      \* the interface is unmounted
    pc, held,    \* per actor: the next step, the store it waits for or uses
    want,        \* per actor: the folder it read before it opened
    overlapped   \* history: something else began while the context was replaced

lifeVars == <<store, context, ownsContext, opening, requests, cwd, cancelled, stopping,
              exited, pc, held, want, overlapped>>

OperationActive == pc["operation"] \notin {"idle", "done"}

AnyFolder == CHOOSE f \in Folders : TRUE
Gone == [folder |-> AnyFolder, lent |-> FALSE, st |-> "unused"]

LifeInit ==
    /\ \E injected \in BOOLEAN, f \in Folders :
         /\ cwd = f
         /\ store = [s \in Stores |-> IF injected /\ s = 1
                                        THEN [folder |-> f, lent |-> TRUE, st |-> "open"]
                                        ELSE Gone]
         /\ context = IF injected THEN 1 ELSE NoStore
         /\ want = [a \in Actors |-> f]
    /\ ownsContext = FALSE /\ opening = NoStore /\ requests = {}
    /\ cancelled = FALSE /\ stopping = FALSE /\ exited = FALSE
    /\ pc = [a \in Actors |-> "idle"]
    /\ held = [a \in Actors |-> NoStore]
    /\ overlapped = FALSE

StoresIn(st) == {s \in Stores : store[s].st = st}

At(a, l) == pc[a] = l
Goto(a, l) == pc' = [pc EXCEPT ![a] = l]
Settle(a, l) == Goto(a, l) /\ requests' = requests \ {a}

NextStore == CHOOSE s \in Stores : store[s].st \in {"unused", "failed"}

\* openFresh: refuse while stopping, join the opening under way, or create.
OpenFresh(a, folder) ==
    IF stopping THEN Settle(a, "done") /\ UNCHANGED <<store, opening, held>>
    ELSE /\ Goto(a, "awaiting")
         /\ UNCHANGED requests
         /\ opening' = IF opening # NoStore THEN opening ELSE NextStore
         /\ held' = [held EXCEPT ![a] = opening']
         /\ store' = IF opening # NoStore THEN store
                     ELSE [store EXCEPT ![NextStore] = [@ EXCEPT !.folder = folder, !.st = "opening"]]

Awaited(a) == At(a, "awaiting") /\ held[a] \notin StoresIn("opening")
\* Mutant: the requests under way are not waited for.
Drained_Now(a) == At(a, "drain")
Drained(a) == At(a, "drain") /\ requests = {}
OpeningSettled(a) == At(a, "settle") /\ held[a] \notin StoresIn("opening")
PreviousClosed(a) == At(a, "close") /\ held[a] \notin StoresIn("closing")
OperationOver(a) == At(a, "operation") /\ ~OperationActive

\* The event loop: what a settled promise wakes runs before the next event.
Quiet == \A a \in Actors : ~(Awaited(a) \/ Drained(a) \/ OpeningSettled(a) \/ PreviousClosed(a)
                              \/ OperationOver(a))

\* The factory answers: the context becomes the current one, or the folder's
\* store is taken and the opening fails.
Opened(s) ==
    /\ Quiet /\ store[s].st = "opening"
    /\ opening' = IF opening = s THEN NoStore ELSE opening
    /\ \/ /\ \A t \in Stores \ {s} : store[t].folder = store[s].folder => store[t].st \notin InUse
          /\ store' = [store EXCEPT ![s].st = "open"]
          /\ context' = s /\ ownsContext' = TRUE
       \/ /\ store' = [store EXCEPT ![s].st = "failed"]
          /\ UNCHANGED <<context, ownsContext>>
    /\ UNCHANGED <<requests, cwd, cancelled, stopping, exited, pc, held, want, overlapped>>

Closed(s) ==
    /\ Quiet /\ store[s].st = "closing"
    /\ store' = [store EXCEPT ![s] = Gone]
    /\ UNCHANGED <<context, ownsContext, opening, requests, cwd, cancelled, stopping, exited,
                   pc, held, want, overlapped>>

Close(s) == store' = [store EXCEPT ![s].st = IF @ = "open" THEN "closing" ELSE @]

(***************************************************************************)
(* A read, or the opening of a preparation: ensureContext, then the call.  *)
(***************************************************************************)
Ensure(a) ==
    IF context # NoStore
      THEN Goto(a, "using") /\ held' = [held EXCEPT ![a] = context]
      ELSE Goto(a, "factory") /\ UNCHANGED held

Running(A) == \E a \in A : pc[a] \notin {"idle", "done"}

StartRead(a) ==
    /\ Quiet /\ ~exited /\ At(a, "idle")
    /\ requests' = IF a \in Reads THEN requests \union {a} ELSE requests
    /\ Ensure(a)
    /\ overlapped' = (overlapped \/ (a \in Drafts /\ Running(Switches \union {"operation"})))
    /\ UNCHANGED <<store, context, ownsContext, opening, cwd, cancelled, stopping, exited, want>>

\* After the import of the factory: the folder is read, openContext looks again.
Join(a) ==
    /\ Quiet /\ At(a, "factory")
    /\ IF context # NoStore
         THEN /\ Goto(a, "using") /\ held' = [held EXCEPT ![a] = context]
              /\ UNCHANGED <<store, opening, requests>>
         ELSE OpenFresh(a, cwd)
    /\ UNCHANGED <<context, ownsContext, cwd, cancelled, stopping, exited, want, overlapped>>

\* The awaited opening settled: the caller goes on with that context, or fails.
Woken(a) ==
    /\ Awaited(a)
    /\ IF store[held[a]].st = "failed" \/ a \in Switches THEN Settle(a, "done")
       ELSE Goto(a, "using") /\ UNCHANGED requests
    /\ UNCHANGED <<store, context, ownsContext, opening, cwd, cancelled, stopping, exited,
                   held, want, overlapped>>

Answered(a) ==
    /\ Quiet /\ a \in Users /\ At(a, "using")
    /\ Settle(a, "done")
    /\ UNCHANGED <<store, context, ownsContext, opening, cwd, cancelled, stopping, exited,
                   held, want, overlapped>>

(***************************************************************************)
(* Replacing the context: a change of the folder (or, with the same        *)
(* folder, of the configuration) waits for the operation, the start of an  *)
(* operation does not.                                                     *)
(***************************************************************************)
StartSwitch(a) ==
    /\ Quiet /\ a \in Switches /\ ~exited /\ ~OperationActive
    /\ At(a, "idle")
    /\ cwd' \in Folders
    /\ Goto(a, "replace")
    /\ overlapped' = (overlapped \/ Running(Switches \union Drafts))
    /\ UNCHANGED <<store, context, ownsContext, opening, requests, cancelled, stopping, exited,
                   held, want>>

\* Mutant: the operation's own replacement of the context waits for it, too.
WaitsForOperation_Any(a) == a # "shutdown"
WaitsForOperation(a) == a \in Switches

Replace(a) ==
    /\ Quiet /\ At(a, "replace")
    /\ want' = [want EXCEPT ![a] = cwd]
    /\ Goto(a, IF stopping THEN "done" ELSE IF WaitsForOperation(a) THEN "operation" ELSE "drain")
    /\ UNCHANGED <<store, context, ownsContext, opening, requests, cwd, cancelled, stopping,
                   exited, held, overlapped>>

AwaitOperation(a) ==
    /\ OperationOver(a)
    /\ Goto(a, "drain")
    /\ UNCHANGED <<store, context, ownsContext, opening, requests, cwd, cancelled, stopping,
                   exited, held, want, overlapped>>

\* drainRequests, then the opening under way is awaited.
Drain(a) ==
    /\ Drained(a)
    /\ Goto(a, "settle")
    /\ held' = [held EXCEPT ![a] = opening]
    /\ UNCHANGED <<store, context, ownsContext, opening, requests, cwd, cancelled, stopping,
                   exited, want, overlapped>>

\* The previous context is given up before it is closed; one that was injected
\* is kept by an operation and detached by a change of the folder.
TakePrevious(a) ==
    /\ a # "shutdown" /\ OpeningSettled(a)
    /\ IF ownsContext
         THEN /\ Goto(a, "close")
              /\ context' = NoStore /\ ownsContext' = FALSE /\ opening' = NoStore
              /\ held' = [held EXCEPT ![a] = context]
              /\ Close(context)
              /\ UNCHANGED requests
         ELSE /\ opening' = NoStore
              /\ UNCHANGED <<ownsContext, requests, store>>
              /\ IF a = "operation" /\ context # NoStore
                   THEN /\ Goto(a, "using") /\ held' = [held EXCEPT ![a] = context]
                        /\ UNCHANGED context
                   ELSE Goto(a, "close") /\ context' = NoStore /\ held' = [held EXCEPT ![a] = NoStore]
    /\ UNCHANGED <<cwd, cancelled, stopping, exited, want, overlapped>>

OpenNext(a) ==
    /\ a # "shutdown" /\ PreviousClosed(a)
    /\ OpenFresh(a, want[a])
    /\ UNCHANGED <<context, ownsContext, cwd, cancelled, stopping, exited, want, overlapped>>

(***************************************************************************)
(* The attached operation and the end of the interface.                    *)
(***************************************************************************)
\* beginOperation: an execution replaces the context, a message to a
\* preparation uses the current one.
Begin ==
    /\ Quiet /\ ~stopping /\ ~exited /\ At("operation", "idle")
    /\ cancelled' = FALSE
    /\ \/ Goto("operation", "replace") /\ UNCHANGED held
       \/ Ensure("operation")
    /\ overlapped' = (overlapped \/ Running(Switches \union Drafts))
    /\ UNCHANGED <<store, context, ownsContext, opening, requests, cwd, stopping, exited, want>>

OperationEnds ==
    /\ Quiet /\ At("operation", "using")
    /\ Goto("operation", "done")
    /\ UNCHANGED <<store, context, ownsContext, opening, requests, cwd, cancelled, stopping,
                   exited, held, want, overlapped>>

OperationStops == cancelled /\ OperationEnds

\* q, Ctrl-C or a signal; the second one, or a quit, unmounts the interface.
RequestCancellation ==
    /\ Quiet /\ ~exited /\ OperationActive /\ ~cancelled
    /\ cancelled' = TRUE
    /\ UNCHANGED <<store, context, ownsContext, opening, requests, cwd, stopping, exited, pc,
                   held, want, overlapped>>

Exit ==
    /\ Quiet /\ ~exited
    /\ exited' = TRUE
    /\ Goto("shutdown", "operation")
    /\ stopping' = TRUE
    /\ cancelled' = (cancelled \/ OperationActive)
    /\ UNCHANGED <<store, context, ownsContext, opening, requests, cwd, held, want, overlapped>>

Shutdown ==
    /\ OpeningSettled("shutdown")
    /\ IF ownsContext
         THEN Close(context) /\ Goto("shutdown", "close") /\ held' = [held EXCEPT !["shutdown"] = context]
         ELSE Goto("shutdown", "done") /\ UNCHANGED <<store, held>>
    /\ UNCHANGED <<context, ownsContext, opening, requests, cwd, cancelled, stopping, exited, want, overlapped>>

ShutdownEnds ==
    /\ PreviousClosed("shutdown")
    /\ Goto("shutdown", "done")
    /\ UNCHANGED <<store, context, ownsContext, opening, requests, cwd, cancelled, stopping,
                   exited, held, want, overlapped>>

Steps(a) == Join(a) \/ Woken(a) \/ Answered(a) \/ Replace(a) \/ AwaitOperation(a) \/ Drain(a)
            \/ TakePrevious(a) \/ OpenNext(a)

LifeNext ==
    \/ \E s \in Stores : Opened(s) \/ Closed(s)
    \/ \E a \in Users : StartRead(a)
    \/ \E a \in Switches : StartSwitch(a)
    \/ \E a \in Actors : Steps(a)
    \/ Begin \/ OperationEnds \/ RequestCancellation
    \/ Exit \/ Shutdown \/ ShutdownEnds

LifeFairness ==
    /\ \A s \in Stores : WF_lifeVars(Opened(s)) /\ WF_lifeVars(Closed(s))
    /\ \A a \in Actors : WF_lifeVars(Steps(a))
    /\ WF_lifeVars(OperationStops) /\ WF_lifeVars(Shutdown) /\ WF_lifeVars(ShutdownEnds)

-----------------------------------------------------------------------------
(* The other parts *)

CONSTANTS Profiles, Providers, MaxOpened,       \* SetupWizard
          Runs, MaxOpens, MaxOps, MaxEdits,     \* TuiRuns
          Commands, Modes, MaxEvents, MaxSignals \* Cli

VARIABLES
    part,
    step, choosing, profile, field, settings, edited, editing, models, preview, building, saving,
    file, opened, overtaken,
    status, config, screen, prompt, activeRun, view, previews, ticket, inspections, diagnosed,
    reviewed, op, begun, live, unseen, crossed,
    command, mode, at, run, appOpen, started, events, received, reader, pending, lost, aborted,
    signals, force, failure, handled, cleanup, exitCode

S == INSTANCE SetupWizard
R == INSTANCE TuiRuns
C == INSTANCE Cli

setupVars == <<step, choosing, profile, field, settings, edited, editing, models, preview,
               building, saving, file, opened, overtaken>>
runsVars == <<status, config, screen, prompt, activeRun, view, previews, ticket, inspections,
              diagnosed, reviewed, op, begun, live, unseen, crossed>>
cliVars == <<command, mode, at, run, appOpen, started, events, received, reader, pending, lost,
             aborted, signals, force, failure, handled, cleanup, exitCode>>

vars == <<part, lifeVars, setupVars, runsVars, cliVars>>

\* The parts not chosen stay in one initial state.
Init ==
    /\ part \in {"lifecycle", "setup", "runs", "cli"}
    /\ LifeInit /\ S!SetupInit /\ R!RunsInit /\ C!CliInit
    /\ part # "lifecycle" => context = 0 /\ cwd = CHOOSE f \in Folders : TRUE
    /\ part # "setup" => file = S!NoFile
    /\ part # "runs" => \A r \in Runs : status[r] = "absent"
    /\ part # "cli" => command = "run" /\ mode = "human"

Next ==
    /\ UNCHANGED part
    /\ \/ part = "lifecycle" /\ LifeNext /\ UNCHANGED <<setupVars, runsVars, cliVars>>
       \/ part = "setup" /\ S!SetupStep /\ UNCHANGED <<lifeVars, runsVars, cliVars>>
       \/ part = "runs" /\ R!RunsNext /\ UNCHANGED <<lifeVars, setupVars, cliVars>>
       \/ part = "cli" /\ C!CliNext /\ UNCHANGED <<lifeVars, setupVars, runsVars>>

Spec == Init /\ [][Next]_vars /\ LifeFairness

-----------------------------------------------------------------------------
LifeTypeOK ==
    /\ store \in [Stores -> [folder : Folders, lent : BOOLEAN,
                             st : {"unused", "opening", "open", "closing", "failed"}]]
    /\ context \in Stores \union {NoStore} /\ opening \in Stores \union {NoStore}
    /\ requests \subseteq Reads

\* A tracked request or the attached operation never uses a store that was closed
\* under it, unless something else began while the context was being replaced.
NoUseAfterClose ==
    ~overlapped =>
    \A a \in Reads \union {"operation"} : At(a, "using") => store[held[a]].st = "open"

\* At most one store is open, apart from one that was injected.
OneContext ==
    ~overlapped => Cardinality({s \in StoresIn("open") : ~store[s].lent}) <= 1

\* Once a change of the folder is through, the context is the folder's.
ContextFollowsFolder ==
    (~overlapped /\ ~stopping /\ context # NoStore /\ ~Running(Switches)) => store[context].folder = cwd

\* The shutdown leaves no store open or opening that the lifecycle owns.
ClosedAtTheEnd ==
    (~overlapped /\ At("shutdown", "done"))
       => \A s \in StoresIn("open") \union StoresIn("opening") : store[s].lent

\* Leaving the interface ends: the requests, the operation that was cancelled and
\* the context opening are waited for, in that order, and the store is closed.
ShutdownSettles == exited ~> At("shutdown", "done")

\* What holds of each part: at most one store is open and it is the folder's,
\* none is left open at the end; the review of the wizard is complete and Save
\* writes what is shown; a run is launched with the profiles that were reviewed,
\* the run on the screen is the one last opened, the live screen has its operation;
\* a command ends after its run, its stream is whole and its exit code true.
Inv ==
    CASE part = "lifecycle" -> LifeTypeOK /\ OneContext /\ ContextFollowsFolder /\ ClosedAtTheEnd
      [] part = "setup" -> S!ReviewIsComplete /\ S!SavedIsShown
      [] part = "runs" -> R!LaunchedAsReviewed /\ R!ViewIsOfActiveRun /\ R!LiveHasOperation /\ R!PreviewsOfView
      [] part = "cli" -> C!CliInv

============================================================================
