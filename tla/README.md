# Binaflow: a TLA+ model of the program

Binaflow runs multi-step agent workflows from a terminal, a command line or a
local web launcher. A run is a row in SQLite with rows for its steps and attempts;
people prepare a task in a conversation, approve what comes out of it, and agents
carry it out as child processes on a Git workspace. Any process may be killed between
two transactions and another one then recovers and goes on. A data set can be exported,
carried to another device, imported there and brought back. This directory models the
parts of the program where the order of steps, crashes and actors decide what is right,
checks them with TLC on small instances, and proves the central facts with TLAPS for
instances of any size.

Contents: [system](#the-system), [modules](#the-modules-and-the-code),
[runs](#runs-bounds-and-what-they-show), [fairness](#fairness), [proofs](#proofs),
[findings](#findings), [observations](#what-the-modules-also-show),
[limits](#what-is-not-modelled), [plan](#plan).

Run a check with `tlc -config WorkflowOwnership.cfg WorkflowRuntime.tla`, a
proof with `tlapm PreparationProofs.tla`. `PROJECT.json` lists the runs, the
source lines each definition stands for, the mutants that show that each property
can fail, the hazards and the theorems.

## The system

Paths are relative to the repository's `src/`. "Hard" says what a test hardly reaches.

| component | state | operations and callers | hard | what makes it correct |
|---|---|---|---|---|
| Workflow definition (`core/workflow.ts`, `core/references.ts`) | none | validation, step order; called by the engine | cycles behind other steps, diamonds | accepts exactly the sound graphs, the order is topological |
| Run store (`storage/sqlite-run-store.ts`, `core/state-machine.ts`) | rows of runs, owners, steps, attempts; a claim token in memory | one SQLite transaction per operation | dead owners, reused process ids, upserts | one live owner, history is append only |
| Schema migrations (`storage/migrations/`) | the tables of the file | applied when the store is opened | rebuilding tables with foreign keys on, crashes | rows survive, a failed upgrade changes nothing |
| Lists and documents (`sqlite-run-store.ts`, `artifacts/`, `application/artifact-operations.ts`) | cursors in clients' hands | pages of rows and of documents | rows that come and go between pages, characters of several bytes | nothing missed, nothing twice, no broken character |
| Workflow runtime (`core/workflow-runtime.ts`, `application/execution-operations.ts`, `run-operations.ts`) | step rows in memory | run, resume, mark interrupted; calls the driver and the store | a crash between any two writes, stale reads, catch clauses | exclusive execution, order, reuse of completed steps, an end |
| Coordinators (`application/*-coordinator.ts`, `review-operations.ts`) | step rows, the run's input artifact, approvals, review threads, the QA history | the phases of four workflows; approve, reject, reply, decide | crashes between a fix and its record; which of two threads is found | iterations follow the fixes, nothing is built unapproved, completed means accepted |
| Run views (`application/run-view.ts`, `task-outcome.ts`) | none | what clients are shown and offered | computed by other code than what accepts it | offered exactly when accepted |
| Drivers and processes (`drivers/pi-rpc.ts`, `process/`, sink in `application/runtime.ts`) | a process group, pending requests, queues of events | an attempt, a verification command | a leader that exits while helpers hold the pipes, timers, aborts, failing stores | events stored once and in order, results are true, everything ends |
| Execution host (`application/execution-host.ts`) | the slot, admitted queries, closing and failure flags | start, guided operations, cancel, queries, close; called by web routes | cancel and close between the awaits of an operation | one operation, idempotent answers, the store closes last |
| Project runtime (`application/web-runtime.ts`) | the published project | select, close; called by web routes | overlapping requests, failing opens | the published host is open, nothing leaks |
| Data directory (`storage/data-directory-lock.ts`, `application/runtime.ts`) | a lock directory and its metadata | acquire, release around every open of the store | crashes, failing opens, locks removed by hand | one store, own release |
| Portability (`application/portability-operations.ts`, `portability/`, `storage/sqlite-portability.ts`) | `portability_state`, published packages | preview, export, cancel, import | a crash between publish and finalize, commits in between, returning data sets | one active directory, no lost work |
| Peer transfer (`cli/commands/web-transfer.ts`, `web/peer-transport.ts`, `application/project-transfer.ts`, `web/transfer-journal.ts`) | journals and catalogs of two devices, a partial download | preview, start, resume, receive | two receivers of one file, a project opened meanwhile | given away only when frozen, the file is whole |
| Preparation (`application/preparation*.ts`) | draft, messages, proposals, reviews, owner | turns, reviews, settings, approval | takeovers, repeated ids, reads before awaits | what is approved was reviewed and is on offer |
| Task contracts (`application/task-contract*.ts`) | one row with documents and actions | create, revise, publish, comment, approve, block, resolve | an approval that comes back after something in between | what is ready was agreed on; the files stay in scope |
| Guided preparation (`application/guided-preparation*.ts`) | session, messages, sources, requests | reply, search, confirm, generate, approve, recover; called by the host | admitted, performed and finished in separate transactions | the outcome on record is true, nothing unread is dropped |
| Guided execution (`application/guided-execution*.ts`, `change-set.ts`, `workspace/`) | progress and intents in rows and in memory, Git, the workspace lock | start, resume, cancel, phases and tasks | intent, commit and row are three steps; people use the repository too | a phase is one commit of its own work; what is done stays done |
| Configuration and catalogs (`config.ts`, `application/config-operations.ts`, `web/*-store.ts`, `web/project-catalog.ts`, `web/device-identity.ts`) | JSON and key files | read, preview, replace | several writers, crashes between two files | saved stays saved, what a file names exists |
| Update (`update/`) | installed versions, two links, a lock directory | install, rollback | stale locks, crashes between links | one updater, links into what is installed |
| Terminal interface (`tui/`) | one application context, screens | reads, one attached operation, change of folder, wizard, shutdown | answers that arrive on another screen, closing under a reader | no use after close, what is saved was shown |
| Command line (`cli/`) | an attached run, a stream of records | run, resume, approve, review | signals, a reader who goes away, failing close | joined before closed, the exit code is true |
| Web client (`web/client/`, `web/routes.ts`, `web/dto.ts`) | what the pages show, request ids | refresh, submit, decide, save, hand over | answers that are late, lost or overtaken | one id is one operation; a page shows what it is about |

How they interact. A command, the terminal or the web launcher opens an application
context, which takes the lock of the data directory and opens, and upgrades, the store
(`DataDirectory`, `Migrations`). The launcher owns a host per open project
(`ProjectRuntime`); the host serialises operations (`ExecutionHost`); an operation runs a
workflow (`WorkflowRuntime`, or `Coordinators` for the four coordinated ones), which is a
sequence of transactions (`RunStore`) and driver calls (`AgentProcess`) over an order computed
from the definition (`WorkflowGraph`). In the terminal a run starts from a conversation
(`Preparation`). In a guided task a conversation leads to a contract (`GuidedPreparation`,
`TaskContract`, `TaskScope`), whose start creates a guided execution, which the host carries
out on a Git workspace under a lock of its own (`GuidedExecution`, with `Processes` for
verification commands and `ChangeSets` for what a person reviews at its end). Transfer commands and
launchers take the lease of the directory and change `portability_state` (`Portability`,
`PeerTransfer`). The browser (`WebClient`) and the terminal (`Tui`) show what these modules model
and send the requests that their clients stand for.

The hazards, with the line where each bites and the properties that would catch it, are in
`PROJECT.json`.

## The modules and the code

**RunStore** is the durable side of one run. One operator is one transaction, its
guard the checks before the commit. `CreateRun`, `ClaimRun`, `SaveRun`,
`SaveStepRun`, `InterruptRun` and `ReleaseExecution` are the methods of that name;
`LiveOwner` is the liveness test on the owner row, with process ids that the
operating system gives again to later processes. An element of `Procs` is one life
of one process: a restart is another element.

**WorkflowRuntime** is the processes. `pc[p]` names the transaction that comes
next, so anything may happen between two of them: another process's step, an abort
signal, the death of `p`. The actions follow `executeSequential`: skip, reuse,
prepare, drive, complete, reject a malformed output, repair once, fail, end. The
catch clauses of `runWorkflow` and `resumeWorkflow` are `ReleaseFails`, `Release` and
`InterruptReleased`, which is two transactions as in the code. What a driver answers,
and what a step's output says about stopping, is nondeterministic. The data
directory lock is *not* assumed: exclusive execution is the store's own doing.

**ExclusiveRun** is the promise: a run is taken by one living worker, only the
holder makes progress, progress is not lost, and the run changes hands only after the
holder let go or died. `WorkflowRuntime!ImplementsExclusiveRun` instantiates it with
`Phase` (of the run row), the owner row, the process table and the set of completed steps.

**WorkflowGraph** computes validation and order as the code does (depth first
walks with their `visiting` and `visited` sets, a stack that pops from the end) and
compares them with definitions from sets alone (`Below`, `Edges`). Its walks are
recursive functions: what they compute is TLC's to check.

**ExecutionHost** is one host, on a database that outlives it. `ops[i].phase` is
the await an operation is in; `Unchecked` are the awaits that are followed by
`assertExecutionActive`. Two hosts live one after the other (`Restart` is a crash or an
orderly end). `rows` is the part of the runs table the host asks for; its guided
forms stand for the guided services by the row they make.

**ProjectRuntime** is `createPersonalWebRuntime`. A call moves from await to await
(`listing`, `leaving`, `opening`, `owning`, `undoing`); everything between two awaits is one
action, because JavaScript runs it in one turn. The history variable `overlapped`
remembers that a request arrived while another was in progress. Opening needs the
lease, which an open or closing host of the same project holds.

**DataDirectory** is `FileDataDirectoryLock` and its use: `mkdir`, then the
metadata file, then the store; released when the database is refused, which is the part of the open that is
caught, and when the context is closed; left behind by a crash. An open that throws later (`OpenBroken`: everything built
after the store, `realpathSync` of the folder for one) leaves store and lease with a process that goes on without them. What a person may do to a lock by hand is the
constant `Unlock`; the history variable `mistaken` remembers that the lock of a
process that still ran was removed.

**Migrations** runs the statements of `storage/migrations` that change tables with rows on
files of nine of the eighteen versions: tables that are renamed and rebuilt, rows that are copied with their
foreign keys checked, the sequence of approvals, the copy of the oldest form of the file. A crash or a
refused statement comes at any of them. Statements that only create an empty table are one step.
`PRAGMA foreign_keys = OFF` inside the transaction has no effect, in the model as in SQLite.

**Device** is the sum of DataDirectory, Migrations, ExecutionHost and ProjectRuntime (see
[runs](#runs-bounds-and-what-they-show) for what a sum is).

**Pages** has the keyset lists of the store (a page is a query of its own; rows are inserted, change
their status and are compacted in between) and the pages of documents (bytes, not characters, so
that a limit may fall inside one). **ChangeSets** reads what `git diff` prints into a ChangeSet; Git itself is
external, a file is a script of kept, added and removed lines. **TaskScope** follows the paths of a task from the
plan to what is staged, through the four places that check them. A path is named by its form.

**LocalFiles** has the files beside the database: the configuration with its six writers (the
web client makes one too, when it initializes a directory), the settings of the launcher with their last good copy and TLS files, the catalog of projects behind a queue of promises,
the two key files of the device. What a writer lost for another is kept in a history variable (`lost`, `lostUpdates`), so
that the invariant can say in which gaps alone that happens. **Update** is the updater: the lock directory
with the quarantine a stale one is moved to, versions, the two links. LocalFiles instantiates it.

**TaskContract** is the contract row with its documents and actions. One operator is
one transaction with the expected revision as guard. What documents say is reduced to
what decides: which version a plan or a TODO is for, and whether a TODO stays in the
scope of its plan. `Readiness` is `getTaskContractReadiness`.

**GuidedPreparation** extends it: requests of a client (`AdmitRequest`, the operation, `Finish`)
as separate transactions of the one slot of the host, `Recover` without the slot, repeated
requests after a crash, the planner's session and the compaction of messages,
other writers of the contract at any time, and the start of the execution, which reads the
contract, awaits and then creates (`StartExecution`, `CreateGuidedExecution`). The history variables are
`effects` (transactions a request made) and `raced` (the contract changed during a start).

**GuidedExecution** takes over from there. `calls[c]` is a call of start, resume or
cancelWaiting; its `at` names the await it is in, in the service (`lock`, `claim`,
`decide`), the runner or the coordinator's loops. `local` is the coordinator's copy of the
progress and `Save` is `saveProgress` with its peculiarity about revisions. Git is
`log`, `index` and `worktree`; a file's content is who wrote it last. Agents, commands and people write files, add
them to the index, or both (`Touch`), and a hook may add one to a commit; the history variable `unseen` is what was staged since the last
inspection that passed, and `late`, in a commit, what of that it took along. `Throws` is what nothing in the
coordinator catches; `CommitUnconfirmed` what the catch clause around the commit does.
`continue`, `retry-verification` and `reconcile-commit` are one decision, as in `applyResumeDecision`.

**Store** is the sum of all these: what a device keeps.

**Preparation** is the conversation that leads to a coordinated run. Every call is cut at its awaits
(`call[s].pc`): claim, begin, ask the agent, finish, release, for turns, reviews and the approval that
creates the run; several processes take over a draft from dead ones. A message and a proposal are numbers, a report
is its level. The revision is kept as the code counts it, because every write is refused or not by it.

**CoordinatedRun** is what four coordinators share: read the rows once, walk through the phases, reuse the
completed ones, drive the others; `pc` is the phase and `mem` what the process has in memory. **ResearchLoop**,
**QaLoop** (plan-build-qa and todo-build-qa, with the QA history) and **InteractiveReview** have the phases and
decisions of each. The transactions inside a step are WorkflowRuntime's, and exclusion of two processes is
shown there, so one process that dies and comes back is enough here. **Coordinators** chooses one of the four, computes what a
client is shown of the run, and compares the views with what the operations accept.

**Portability** and **PeerTransfer** are the two ways a project changes device.
Portability is the commands `preview-export`, `export`, `cancel-export` and `import`
on directories `<<device, number>>`. A digest is the record of what it is computed
from: request, contents, parent transfer, and what the repository is at (branch and HEAD, the
`gitFingerprint` of the code). `Commit` moves the repository of a device at any time, because no
lease keeps anybody from it; the code reads it again for the preview that an export repeats, for the bundle, for the
replay of an export whose package is there, and for an import, and each of these is a guard here. A preview
changes nothing and is no action: `Previewed` is what one may have shown. The export is the intent, the published
package, the final state, with a failure or a crash possible between any two, and
the repetition of a request is the same action as the first one. A command holds
the lease in one step, which `DataDirectory` justifies.
PeerTransfer is the launcher's transfer capability with the receiver of the other device: lease, freeze, package,
journal and catalog of A in the order of the code
(what the repository is at is not part of it: an export may always be refused for it, before or after its intent); ranges of a download written to one file by
one or more receivers of B. The receiver fails at the preview of the import, because the manifest is not among the
files it fetches; what would follow is not modelled. It instantiates Portability, and the run chooses between the two.

**AgentProcess** is one attempt seen from the child up to the store: a process group of a leader and a helper
that may keep its pipes, JSON lines, the chain of the driver, the queue of the attempt, the buffer of the
sink. **Processes** models a verification command, with three causes that may stop it, each with its own SIGTERM and
SIGKILL, and joins the two.

**Tui** has the shared application context (reads, one operation, change of folder, drafts, shutdown) and sums it with
**SetupWizard**, **TuiRuns** (runs opened, launched, resumed and decided while answers arrive in any order, with the tickets
the code compares) and **Cli** (attached commands, their stream of records, signals, a reader who goes away, the exit code).

**TaskPage**, **ExecutionPanel**, **ProfilePage**, **WorkspacePage** and **HandoverPage** are the pages of the browser: the state of
each component, its effects and handlers, a server reduced to the answers that matter, and requests that are lost,
late or overtaken. **WebClient** is their sum. Overlaps that the code leaves unordered are remembered in
history variables (`crossed`, `switched`, `disturbed`, `late`), and the invariants say that nothing goes wrong otherwise.

The values of constants that a cfg cannot write are in a section *Instances* at the end of a module.

## Runs, bounds and what they show

Every run finishes within a few minutes on two workers. Deadlock checking is off
everywhere because every one of these systems may stop for good: a run that is
finished, a host that is closed, processes that are dead, requests nobody repeats.

Components that share no state in the model are checked as a *sum*: a variable (`part`, `section`, `page`) says
which one is explored, is chosen in the initial state and never changes; the variables of the others stay in
one initial state; an invariant of a part is stated for that choice. A sum is the union of the state graphs of its
parts, nothing more, and a property of a part is checked exactly as it would be alone. Where parts do
meet, the meeting is inside one of them (the lease in ProjectRuntime, the contract in GuidedPreparation, the
store's transactions in WorkflowRuntime, the views in Coordinators).

| run | instance | question |
|---|---|---|
| `workflow_steps` | a diamond of four steps, two process lives one after the other, one retry, four attempts; weak fairness | what step and attempt rows may become through failures, repairs, aborts, crashes, resumes; that executions and catch clauses end |
| `workflow_ownership` | two steps, three processes, two process ids | who may execute; the refinement of `ExclusiveRun`; rows read once stay fresh |
| `device` | three processes and any lock removed by hand, opens that fail; files of versions 0, 1, 2, 8-11, 17 and 18, one crash or refused statement; five requests on three keys, two operations per host, two hosts; two projects and three requests; fairness | one store, own release, a directory kept from others only by a stale lock or a broken open, files upgraded whole or not at all, the slot, idempotency, cancel and close, published hosts, that everything settles |
| `store` | five rows, pages of two; documents of up to four characters, pages of four bytes or one line; four paths and three changes; every workflow of three steps; two plan and two TODO entries with up to two of five forms of path; two writers, two updates, three changes by two catalogs, four starts, three updaters, one crash each; the populations of `MCClients`; two phases of two and one tasks with nested scopes, two calls at once of three, one fault | whatever a device keeps stays readable, saved and agreed on; decisions, commits and approvals of guided tasks |
| `preparation` | two slots of two processes, two request ids, revisions to 8 and the limits `MaxEdit`, `MaxTalk` up to which settings and turns are begun; a prompt of two messages | what is approved, and that no draft stays locked |
| `coordinators` | three iterations, two findings, two faults; fairness | approvals, iterations, history, views; nothing is done twice; walks end |
| `transfer` | two devices, two directories each, two transfers, two commands; three calls, two chunks; one fault each | one active data set, no lost work, a package that is whole, an interrupted export can be repeated where its repository was |
| `processes` | three events, a buffer of two, one failing write; output of three units with a limit of one; fairness | nothing left behind, events once and in order, results true, an end |
| `tui` | two folders, a read, a draft and a switch, two contexts opened; two profiles, two edits; two runs, two opens, one operation; three signals, three output modes; fairness | the shared context, what Save writes, what the screen is about, the stream and the exit code, shutdown |
| `web_client` | two tasks, two requests, one poll, five revisions; two agents, three saves; two projects, two switches; two drafts, two reads, one reload; fairness | what a page shows, ids, decisions on what was shown; that pages catch up |
| `store_added` | Store with its instance in `store`; expected to fail | see Findings |
| `guided_execution_scope` | two phases of two and one tasks, a file per task, one start, no fault; expected to fail | see Findings |

Why the bounds are enough. *Processes of a run:* the ownership protocol compares a process
with the owner on record, so two are needed to compete and a third to take the id
of the first; the proofs remove this bound. *Steps:* the diamond is the smallest
graph with a shared dependency and a step with two; stopping, skipping and
retrying only look at direct dependencies. `MaxAttempt` bounds the attempts that the
model follows: two executions of two attempts each; a resume that has no room left
is not begun, so the bound never cuts an execution short (`ExecutionEnds` would fail).
*Graph:* three steps and one id that is not a step give cycles of length one to
three, diamonds as far as three steps have them, unknown and duplicate ids.
*Host:* two operations are one in progress and one that wants to begin or that comes
after; a second host sees what the first made durable. *Project runtime:* two calls
overlap, a third comes after them. *Versions:* each one at which a migration rebuilds a table, the one before it,
and the current one. *Lists:* five rows and pages of two give a first, a middle and a last page with rows
to come and go around both cursors. *Documents:* four characters of up to three bytes are more than a page in each kind
of limit. *Files:* one writer reads, one changes; a crash falls between any two files. *Updaters:* a stale lock, and two that find it.
*Guided task:* the populations split the questions, because all clients at once are too many; each
bound of revisions is the first at which an approval can be withdrawn, given again and
used. *Guided execution:* a phase of two tasks and one after it have a next task, a next phase
and a retry in a later one; of the two calls one starts and one decides, or both decide on the same block.
*Preparation:* two slots are two calls of one process or of two; a prompt of two messages (twelve in the code) leaves the first of the four out; `MaxRev` lets a proposal be made, reviewed, replaced,
reviewed and approved. *Coordinators:* the code has three iterations; the second fault hits the recovery from the
first. *Portability:* `MaxDirs = 2` and two transfers are what a journey there and back needs. *Peer transfer:* two receivers and
one other call; two chunks tell a hole from a short file. *Processes:* the buffer of two overflows with three events.
*Pages of the browser:* two answers are needed to overtake each other, two tasks or projects to mix. `MaxFaults` counts
crashes, aborts, uncaught failures, changes by commands, hooks and people, and what agents stage, together; in LocalFiles a project that does not open and a
data directory that cannot be made. One is enough for a commit that holds what it should not, or a directory that is undone.

Properties that are worth a reader's time: `ImplementsExclusiveRun`, `SnapshotFresh`
(no check in the code reads the rows again, so the protocol must keep them true),
`HistoryKept` (rows are upserted, so nothing but the numbering and the transitions
protects history), `CancelHonoured` and `AnswerIsDurable` (a client's view, across
hosts), `BusyHostKept` (idle must hold in the turn that unpublishes), `OnlyHolderReleases`,
`MigrationsInv` (whatever the version and whenever it dies), `NothingMissed`, `PagesJoin`, `ReadyMeansAgreed` (over any order of comments, blocks and versions),
`StagedIsAgreed` (four checks written at four places), `OutcomeIsTrue` (a change and its record are two transactions),
`OneWriter` and `CommitsAreThePhases` (whoever else commits or stages meanwhile), `ApprovalIsSound` (six reads and writes apart from each
other), `IterationFollowsFixes`, `BuildIsApproved` and `HistoryKeepsUp`
(a crash between any two), `ViewInv` (two pieces of code that must agree), `SuccessIsComplete` (an event passes four queues), `PassedIsComplete`,
`NoUseAfterClose`, `ExitIsTrue`, `IdIsOneOperation`, `ApprovedWasShown`, `PagesSettle`. A sum states the invariants of each part
under one name, which is a conjunction or a case distinction of the named ones: `DeviceInv` of the lease, the host and the launcher (`DirectoryInv`, `HostInv`, `ProjectsInv`),
`StoreInv` of the guided task, its paths, the files and the lists (`GuidedInv`, `ScopeInv`, `FilesInv`, `ListInv`), `ComputedInv` of what is computed from a value (`GraphInv`, `ReadingInv`).

## Fairness

- `WorkflowRuntime!Fairness` is weak fairness of each process's next step: a process that
  is up runs its promise chain to the end, drivers have timeouts, SQLite is local. No
  process is obliged to start, resume, abort or crash. `Coordinators!FairSpec` is the same for
  the coordinator's walk; no person is obliged to decide.
- `ExecutionHost!Fairness`: operations, admitted queries and the closing sequence settle,
  for the same reason. Clients owe nothing.
- `DataDirectory!Fairness`: opening never waits and a command refused by the lock is tried again (weak
  fairness of acquiring and opening by some process); runs end; the user of an attached process leaves
  it some day (strong fairness of `Close`, because runs begin and end meanwhile). Nobody has to remove a lock: `TurnComes`
  excepts a lock that the program will not give back (`Stranded`).
- `Processes`: timers fire, bytes that were written are read, callbacks run. Agents, helpers and shells owe nothing:
  they may ignore signals other than SIGKILL.
- `Tui!LifeFairness`: a store that is opening or closing gets there, every actor of the interface takes its next step, a
  cancelled operation stops. Nobody is obliged to leave.
- `TaskPage!PageFairness`, `ExecutionPanel!PanelFairness`: requests arrive or fail and are answered, the intervals of the page
  fire, an operation on the server ends. Reads are served and land with strong fairness: newer reads may discard
  an older one again and again, but of those that poll without end not every one is lost.

## Proofs

All proofs are for arbitrary sets of processes, calls, steps, ids and bounds and any plan, under
named assumptions. Those of `ASSUME` are evaluated by TLC on every run: `NoOwnerAssumption` (the missing owner
is no process), `OrderAssumption` (the order is a sequence that has each step once), `DepsAssumption`
(a dependency is a step that comes earlier in the order), `NoLockAssumption`, `UnlockAssumption`, `NoneAssumption` (no
process is called "none" or like a status of a request). That the order the code computes is such an order, with
`validateSteps` behind it, is what `WorkflowGraph!OrderIsSound` checks. Further `PlanAssumption` (phases and tasks are numbered, a
task belongs to a phase, files are declared), `CallsAssumption` (calls are numbered, the bounds are numbers),
`ClientsAssumption` (clients ask for operations there are), `BoundsAssumption` (requests are numbered from one, the limits are numbers),
`ActorsAssumption` (there is a folder, the actors of the interface are finitely many and no two have one name),
`HostAssumption` and `ProjectsAssumption` (the bounds are numbers, a request has one of four forms, no row is the absence of one), `ListsAssumption` (rows are numbered from one, a page has at least one, the lists are the four there are), `FilesAssumption` (versions, starts and updaters are positive numbers; there is a workspace), the `BoundsAssumption` of WebClient (the limits are numbers, those of selections, loads and revisions positive), `MaxIterationsAssumption` (one to three, as many as the steps have names for; the code has three) and `FindingsAssumption` (no finding is called like a checkpoint), `TransferAssumption` and `ProcessesAssumption` (the bounds are numbers, None is nothing else, a buffer holds an event).

`WorkflowRuntimeProofs`:

- `TypeCorrect` (with `NoStrayOwner` below, `RunHolds`). `TypeOK` is not inductive: to see that a row of the current step exists,
  the position must be in the order. `Types` adds `AtInRange`.
- `MutualExclusion`, `RowsStayFresh`, `NoStrayOwner`. The invariant is `Safe`, six facts that only
  hold together: live processes have different ids (`PidsUnique`), whoever is in an
  operation is up (`ActiveUp`), whoever executes is the owner of a running run
  (`HoldsRun`), the owner once was born (`OwnerBorn`), an owner row means running
  (`OwnerMeansRunning`), and rows in memory equal rows in the store (`SnapshotFresh`).
  The argument: a claim and a recovery need `~LiveOwner`; an executing owner is up,
  so its id is taken and `LiveOwner` holds; hence no other process gets past its
  guard, and no other process writes. Lemmas treat the shapes of steps: saving a
  row, saving the run, only moving on (`LoopShape`), so that the 25 actions need not
  be repeated per conjunct.
- `DependenciesFirst`, `CompletedMeansDone`, `HistoryIsKept`. The invariant on top of `Safe` is `Ordered`. A
  completed run is one whose loop has passed the last step, so the induction needs what the loop
  leaves behind it: the steps before the position of an executing process are settled (`PassedSettled`), and, while its verdict
  is still completed, completed or skipped for a reason (`PassedDone`). That this survives the next execution needs that a row which is running is the row of the step
  some executing process is driving, or of a process that died (`RunningIsDriven`), that
  the row agrees with where its process stands (`RowFollowsProcess`), and that the attempts agree with the row
  (`AttemptsFollowRow`), which is what keeps history: only the current attempt of the current step is ever written.
- `Implementation`. With `Types` and `Safe` every step of `Next` is a step of `ExclusiveRun` or
  leaves its variables alone: saved rows map to `Work` because completed rows are not
  left (state transitions), a saved run to `Settle`, the catch clause to `LetGo` and
  `Recover`.

- `ProcessesHold`, of Processes, for any number of events, faults and failed writes. *Agent* (`AgentIInv`): an event is written, read, chained, queued or buffered,
  and stored, and its number tells where it is: the store and then the buffer hold the beginning of what was written (`ToldInOrder`); as long as nothing
  failed, the chain goes on where the buffer ends and the pipe where the chain ends, without a gap while events are accepted (`InTurn`), so that the
  flags of execute speak of a beginning of what was written (`Observed`). The way to the end that throws nothing leads
  through a settled agent (`Course`), and the second signal leaves the group dead (`GroupEnds`). *Command* (`CommandIInv`): whatever ends
  a command early leaves a mark the verdict reads, since the exit code says nothing.

`DeviceProofs`, of the sum Device, and of the pages that ask it:

- `DeviceHolds` joins `DirectoryHolds`, `HostHolds` and `ProjectsHold`.
- `StoreExclusion`, `DirectoryHolds`, for any processes and any `Unlock`, from `Owns` (whoever
  is between acquire and close owns the lock directory), which stays true as long as
  no lock of a living process is removed, so that the inductive invariant is
  `Held == ~mistaken => Owns`; `ReleaseIsOwn`, from `Made` (a process that has not written its metadata still owns the
  directory, because a lock without metadata is not removed while its process lives).
- `HostHolds`, for any requests, operations, hosts and queries. `HostAgreed`: what an operation is, by the await it is in (`Stands`: an
  operation aborted before its last check never gets past it, and a cancel is answered when it is over); whoever was answered, or will be, has a row with
  the content asked for (`Answered`, `Operations`), since rows are neither lost nor rewritten (`RowsKept`); and close waits for the slot, then for the
  queries, then for the store (`ClosesInOrder`), which is what makes the store close last.
- `ProjectsHold`, `BusyHostIsKept`, for any projects and calls. Each host belongs to the call that opened it (`HostsOfCalls`); as long as requests did
  not overlap, somebody accounts for each host that is open or closing (`Accounted`): it is published, or its call still works on it, or the
  runtime's close does. Hence a rejected call, and the end of close, leave none.
- `PagesHold`, of the five pages of WebClient, for any number of tasks, names, projects, drafts, refreshes and requests. Each page has its own invariant. In all of them an answer carries what it
  was asked for, and the page keeps, or does not, a mark that tells it from what is shown now. *Task*: what will land in this generation is of the task shown (`OfTask`), and an
  id stands for the operation it was made for (`Named`). *Execution*: what is shown was read of this execution, before or now (`ReadOfRun`), and the call that
  is awaited is about something shown (`CallStands`). *Profiles*: a profile is of the name it stands under (`OwnNames`), and what is saved was confirmed (`Sent`).
  *Workspace*: a refresh that had the page to itself loads the tasks of the project shown (`Undisturbed`). *Hand-over*: what is started is the draft (`KeptDraft`).

`PreparationProofs`:

- `OwnerIsWorking`. The invariant is `OwnerWorks`: the process of a living owner also remembers the claim (`claims`), since
  a release and a takeover ask both. That a draft cannot stay locked is then a matter of every path out of a call.
- `Invariant` (which includes the above), `Approval`. A call of `approve` or of a review reads, awaits, and writes what it read. So the invariant says
  what each `call[s].pc` still knows, and the reason is the same everywhere: the revision only grows, every change of the draft but its becoming a run
  raises it, and a write is refused when it is not the one that was read. Hence a remembered draft, whose revision is
  the one stored, is the stored draft, and what was checked before the await holds after it. `GraveStands`
  is not inductive alone: when several reports are grave, the one that blocks must be about the newest content
  (`BlockIsNewest`), or answering it would leave an older one unanswered and unseen. What a planner was shown at its call (`Knows`) is enough
  as long as the revision stands, because what was sent stays sent and nothing else is said.

`StoreProofs`, of the sum Store: the guided task (`GuidedHolds` joins what is proved of `TaskSpec` and `Spec` for every state of the store).
The execution, for every plan of phases and tasks:

- `OneWriterHolds`. `Owner`: the lease of the workspace and the claim belong to the calls whose place says so, each to one;
  a call inside execute has both. `Follows`: then what the coordinator remembers is what is stored, because all that is
  written meanwhile is written by a call that has the claim. `Placed`: a call stands at a task or a phase its own row leads to.
- `DecisionOnWhatWasSeenHolds`. The decision is compared by revision only, not by contents. `Remembered`: a row seen with revision *r*
  is the stored row or the stored revision is greater, because each save raises it.
- `DoneStaysDoneHolds`, `InvHolds`. `Attempts` counts: a step row is numbered by the attempts of
  its task, so a new attempt never meets an old row. `TaskRows`: a task has at most one running row, of its last attempt, while a coordinator
  is at it, and a completed task has a completed one. `RunFollows`: run row and progress differ only between the claim and
  the decision of a recovery, or once the run was marked interrupted.
- `CommitsAreThePhasesHolds`. Between the intent, the commit and the row anybody may commit, and the program may die. `Committing`
  says what a call knows in each place: what is staged belongs to the phase at work or was staged since the last inspection (`Staged`; an
  inspection that passes has seen all of it, because it compares index and files with the head), the commit that was made has the
  tree of the intent on the head the intent names (`AtCommit`), and what is recorded is what was compared (`PhaseIsCommit`).
  The log only grows, which keeps this true of the phases before.

The preparation, for any clients, any number of requests and any limit of messages. The invariant is `Agreed`, of the contract,
and `Recorded`, of the requests, the slot and the conversation:

- `ReadyMeansAgreedHolds`, `ScopeReviewStandsHolds`. Every write of the contract, whoever makes it, is one of eight transactions
  (`Transaction`), each given by the columns it leaves. `ReadyMeansAgreed` is not inductive, since a TODO may be missing; `ApprovalStands`
  is: as long as the approval column is set, there is no block, the plan is for the brief, and the approval is the last of all actions.
- `OutcomeIsTrueHolds`. Change and record are two transactions. `Performed`: what is in the slot is the latest performance of its request,
  so its token is above the row's as soon as the request was sent again, and only a first performance can finish it. `Effective`: that
  performance has made its change exactly when it is done; and a change of the contract is made with the revision the client sent, which is then no
  longer current, so no repetition makes it again.
- `SessionKnowsConversationHolds`, `NothingUnreadCompactedHolds`, `TaskInvHolds`. Messages and sources get numbers in three ways (`Said`, `Found`, `Quiet`);
  the session must be right also while a request without a message is performed (`SessionKnows`).
- `ExecutedIsAgreedHolds`. `StartedFrom`: what a start read is still what there is, unless somebody wrote the contract, because
  the slot keeps requests out and `Executing` keeps out every write afterwards.

`FilesProofs`, of the files of Store, for any number of writers, calls, launchers and updaters, and of its lists; its last theorem, `StoreHolds`, joins `GuidedHolds`, `ScopeHolds`, `FilesHold` and `ListHolds`:

- `FilesHold`. Each of the five parts has an inductive invariant of its own, kept while another is explored (`FilesIInv`).
  *Configuration*: a writer that compared the hash replaces only what it compared with (`ConfigChecked`), an initialization that gets as far as
  its catch clause saw no configuration (`ConfigLooked`), and a closed project has a call that will open it again (`ConfigClosed`). *Settings*: what is in memory, on disk, in the copy and in the hands of every call
  names TLS files that are there (`NamedExist`), which needs that a refused call removes only files nobody else names (`FreshFiles`); while calls do
  not overlap, the file is what was answered (`Answering`). *Catalog*: a call that has begun stands in one queue, once, and saves at its head
  (`Queued`), and what it saves it read from the file as it is (`Undisturbed`). *Identity*: whoever makes keys makes a pair (`OwnPair`),
  alone (`OneMaker`). *Updater*: whoever works owns the lock, and whoever examines a stale one sees what is there (`LockOwned`), unless the lock was replaced under
  it (`hurried`); a version that a link names or will name is installed or its directory is being replaced
  by a newer version's updater (`Present`), and `previous` names another version than `current` before and after each change (`Settled`).
- `ScopeHolds`, for any ids, forms of paths, limit of paths and changes of the workspace. Four checks look at the same files, each at other documents. The documents are those that
  passed the first two (`Documented`), so the tasks of the phases are exactly what was authorized; and the phases that are done are staged, the
  one about to be was looked at (`PhasesStaged`). That nothing is left follows when the last is done, because the scope gave every item of the plan a task.

- `ListHolds`, for any number of rows, any size of a page and any changes between two pages. The ids of all that was listed do not come back, since what
  was listed is still there, or in the log something later is (`ListedStay`); and while there is another page the cursor stands behind every row that was listed
  and before every row that is due and was not (`CursorStands`). A page is the first rows beyond the cursor in order (`RowsInOrder`, `PageRead`), so it
  shows nothing again and leaves only what comes after its own cursor; the last page leaves nothing. It needs that the order is total (`Ordering`), which the
  id in the `ORDER BY` of every list gives, and that rows keep their time and id. The messages of a preparation skip the row that was fetched to look ahead,
  so for them only the second half holds.

`TuiProofs`, for any folders, requests, drafts and changes of the folder, any profiles, providers and runs, and any bound on how often
something is opened, begun, edited or signalled, of the whole sum `Tui`:

- `NoUseAfterCloseHolds`. The invariant is `LifeInv == ~overlapped => Undisturbed`: the property makes the same exception. Whoever replaces the
  context waits until no request is tracked, and from there to the close it does not give way, so none can begin (`Emptied`); a
  client uses what is the context (`Uses`), and the context stays open until the shutdown closes it (`ContextOpen`), which waits for the requests
  and the operation first (`Left`).
- `OneContextHolds`. A store that finishes opening becomes the context only if there is none, and there is none unless it is of
  the same folder (`SameFolder`), since the store opening is one (`Opening`) and those not yet closed are of different folders (`OnePerFolder`). For
  the same reason there is always a free store for the next opening (`FreeStore`), so the number of stores in the model never cuts such a behaviour short.
- `InvHolds`, the invariant of all four parts. Since the parts share no variable, each keeps its own invariant whichever is chosen (`PartsHold`).
  *Lifecycle*: `LifeTypes` holds also where the other two theorems make their exception, when something began while the context was
  being replaced. Several stores may be opening then; every one of them has an actor of its own that waits for it (`Room`), and each
  folder still has one store in use, so `Stores`, one per folder and one per opener, is large enough (`FreeStore`).
  *Wizard*: `SetupInv`. Every way into the review step builds the preview (`PreviewIsCurrent`), and it is the settings themselves because in a new
  configuration what is complete was asked (`AskedOnly`).
  *Runs*: `RunsInv`. What was reviewed is never newer than what the operation read, nor that than the file (`Versions`), so comparing the
  first with the last when the run is launched fixes the one in between. While the run on the screen is not the active one, an answer that
  will show it is on its way, or an operation on it runs (`ViewComes`); the same for the previews (`PreviewsCome`).
  *Command*: `CommandInv`. The stream has a shape in each phase (`Stream`, `Whole`), a reader who is there has lost nothing (`Known`), and an exit
  code of 0 has, from the report on, a delivered result, a known failure, or an error of the stream still to come behind it (`Exits`).

`CoordinatorsProofs`, for any findings, any number of faults and up to three iterations, of all four workflows:

- `InvHolds`. A coordinator keeps no record of what was approved, accepted or fixed; it walks from the beginning each time and
  reads the rows. So `IInv` says for each phase which rows, documents and threads justify standing there (`ResearchWalk`,
  `QaWalk`, `ReviewWalk`), where a step at the driver stands at its own phase (`Spot`, `AtDriver`), and what the rows say of each other
  whether or not anybody walks (`ApprovalStands`, `QaRows`, `ReviewRows`). Three parts are there only for the induction:
  a run that waits for a review has its scope done (else deciding the scope would let the plan begin without one); the iteration in memory is
  the persisted one, or the next while that is written (`Iteration`); and an end that is claimed, by the row, by the
  report or by what is about to be written, has its reason in the rows (`QaStands`). Failures of any kind only weaken rows: what is
  completed stays, and nothing else becomes driven (`Weakened`), so that one lemma per workflow covers every way to end.
- `NothingRedoneHolds`. Each skip names only steps that the walk shows are not completed; the one transaction that takes completed
  rows back, the checkpoint between two rounds of research, moves the persisted iteration on in the same step.
- `ViewHolds`. The views are computed by other code than what decides, and from the rows alone, so `IInv` has to be joined by what the
  rows say to someone who does not know the coordinator (`ViewIInv`): a row that says "running" is the driver's step or is left
  by a coordinator that was lost (`RunningIsAtWork`, hence the current phase); what is completed has an artifact (`DoneSays`); an approval
  asked for or given leaves a round to reject into (`MayStillReject`); reports are of rounds already counted, in a run that may be
  built (`ReportsSoFar`, hence the rounds). All coordinators change rows in three ways only, `Calm`, `Sent` and `Came`. That a
  resume which would be accepted is offered is an argument on the order of the steps: the first that is not completed may be retried
  (`FirstIsRetryable`), unless its row is failed for good or cancelled. The proof corrected the property: the run, with its two faults, had
  not met a third one that leaves a cancelled step, no other to retry, and an interrupted run of QA that may be resumed though nothing offers it.

`PeerTransferProofs`, for any number of commands, directories, requests, calls and receivers, of the sum of both ways:

- `HandedOverOnce`, of the commands. `OneActive` speaks of one moment and is far from inductive: what keeps a second branch from
  opening is the history of packages and imports, so `PInd` says what the rows tell of it. A directory is *frozen* once its package exists, which
  is before its state says so (a crash between the two is the hard case). Each package has the one frozen directory it was made from (`Packages`);
  each directory but the first was imported, from a package of its own for the device (`Imports`), on another device than
  the package was made on (`Elsewhere`). Hence the *branch* is one: either one directory is open, and everything published was imported, or
  one package is not imported yet, and nothing is open; and that one has the newest contents (`Branch`). A command checks, awaits and writes;
  its lease keeps what it read of its own directory true (`Knows`, `Leased`), and what it read of the others stays true because
  an import into a device continues the branch of that device or is its first (`Continuing`, `FirstImport`, `Configured`).
- `HandedOverOnce`, of the launchers. `Source`: the one package is that of the transfer the source is frozen for. `LeaseOfA` and `Given`: only the call that
  froze it, which has the lease, writes the catalog and the journal. That a shared file is whole needs what is not in the file:
  while nothing failed, each hole is ahead of a receiver that will come by, and so is what another receiver cut off by beginning anew (`HolesFilled`).
- `ExportsResume`. `Records`: a pending intent is what its directory holds, and its package, once published, is that intent:
  where the repository is at the head of the intent, the digest computed anew is the one on record; elsewhere nothing is claimed but
  that the package is the one of the intent, since without that condition the export is refused (see below).

TLC checked each of these invariants on a small instance before its proof.

Only model-checked: everything temporal under fairness (outside the prover's
reach, as is ENABLED); what is computed over data by recursion and folds, which would need an induction over the data: `GraphInv`
(validation and order; with `ReadingInv` the run checks it as `ComputedInv`), `SchemaInv` (what the migrations make of a file), `ReadingInv` (pages of documents, the diff that is read).

## Findings

1. *The second task of a phase is out of scope* (`guided_execution_scope`). `changedPathsForTask`
   (`application/guided-execution-coordinator.ts:442`) compares every uncommitted change with the files of the current task. What the
   first task of the phase wrote, in its scope and verified, is committed only with the
   phase, so the second task is blocked, as if its agent had changed that file,
   and deciding `retry-task` or `continue` leads to the same block.
   docs/guided-execution.md:35 promises a check of the declared scope. The tests
   have one task per phase.
2. *An added file is reviewed as a modified one* (`store_added`). `parsePatch` in `workspace/git-workspace.ts` looks up the status of a
   section by `item.path === path || item.oldPath === oldPath`. The section of an added file has no old path, and neither has any entry that is
   not a rename: the first such entry is taken, so an added file after a modified or deleted one gets that one's status.
   test/git-workspace.test.ts:125 expects `added`, in a commit of that one file.

## What the modules also show

Behaviour met while modelling that has no run of its own. The properties are stated so that they hold with
it; the exceptions they make (`~overlapped`, `~raced`, `crossed`, ...) are these.

Runs, hosts, directories:

- An open that throws behind its catch (`application/runtime.ts:242`, `:368`: an absolute configuration and a folder that is not there) keeps the store
  open and the lease taken; a TUI that lives on keeps everybody out, itself included, and the end of the process leaves the lock of a dead one.
- The attention view cannot be opened after a crash: nothing in the program removes the lock directory of a dead process (`storage/data-directory-lock.ts:41`;
  docs/data-portability.md:110 says that locks of others stay), so the TUI that README.md:501-503 sends the user to is refused the data directory until somebody
  deletes the lock by hand. `TurnComes` excepts such a lock, and no run assumes that it is deleted.
- Two overlapping `selectProject` requests both pass the check of `active` and open (`application/web-runtime.ts:105`; docs/web-workflow-vision.md:193 says one
  project); the later publication drops the first host, which holds its lease until the process ends. Overlapping with `close()`, a host stays open after it.
- Migrations: `PRAGMA foreign_keys = OFF` inside `BEGIN IMMEDIATE` does nothing; the statements come in an order for which that does not matter.

Guided tasks:

- The commit of a phase takes what others staged. `commitPhase` (`workspace/git-workspace.ts:134`) is `git commit` of the whole index, and the tree of the
  intent is `write-tree` of it, so the comparison with the intent finds nothing. Scopes are compared after each task and its verification only: what the
  verification of the phase (`application/guided-execution-coordinator.ts:228`) or anybody else adds to the index after the last of these is committed, against
  docs/guided-execution.md:35-37, which promises a check of the declared scope and an explicit stage. `CommitsAreThePhases` says exactly this: what was
  staged before an inspection is found by it, and a commit holds nothing else from outside the phase (`late`).
- A start that is sent again while its execution waits is answered, and then its runner is refused
  (`TakeRefused`), which marks the host as failed until it is restarted.
- After a crash between the commit of a phase and its row, or in a phase whose tasks change
  nothing, Git has nothing to commit: the phase is blocked as unconfirmed each time,
  because the code that would reconcile it (`reconcileCommitIntent`, `saveGuidedDecision`) is called
  by nothing.
- A recovery that dies between claim and decision, or finds another revision, leaves the run
  `running` and the progress `waiting` (`RunAgrees` allows exactly this); no decision is possible then. A guided run that was
  marked interrupted can be neither started nor resumed.
- `continue` after a completed step blocks again (`StepRefused`): its row cannot become pending; only
  `retry-task` helps, which numbers a new step.
- Recovering a request does not ask whether its performer is alive. It may publish
  afterwards, which `OutcomeIsTrue` accepts because the request is then neither completed nor failed.
- Documents may name paths under `.git` and `.binaflow`, and a phase more than `MAX_GIT_PATHS`, which the executor refuses when it commits; a declared file that
  neither exists nor is tracked makes `git add` fail, which is shown as `commit-unconfirmed`; a link made between the check and `git add` is staged (`NoLinkStaged`).
- Renames without content and changes of mode alone are shown as binary; blank context lines at the end of a section are cut; a rename out of `.binaflow` is not shown.

Preparation and coordinators:

- A planner is shown the last twelve messages that were sent (`application/preparation-operations.ts:900-903`) and the synthesis: what a person said before, and did not
  put into the synthesis, is unknown to a proposal, which is offered and approved all the same. `ProposalIsCurrent` says no more than that (`PromptMessages`).
- Drafts of mode `optional-auto` without a review pass the check of the application and are refused by `createRunFromPreparation`; with a global mode of
  `required-auto` and a draft in mode `human`, approval is refused for ever ("policy changed"). A failed turn cannot always be tried again (docs/tui-experience.md:422).
- The interactive coordinator may leave a run `running` with a live owner: when it finds a thread waiting without saving
  `waiting`, and when `return coordinator.continueAfterDecision(...)`, which is not awaited, throws past the catch clause.
- After an adjudication a decision to correct is not seen, and the fix is skipped (README.md:566; `thread()` at
  `application/interactive-plan-build-qa-coordinator.ts:278` takes the first thread of the target). `Accepted` excepts adjudicated findings.
- `planBuildQaRecoveryState` calls a run terminal once a third report exists, though a resume may complete it; a crash between an occurrence and its event
  loses the event; a reply whose process dies stays `pending`.
- The view of a QA run that failed before its first report shows phase `qa`; an exhausted run has `recoveryAction` `resume` with nothing offered.

Processes, terminal, command line:

- `agent_settled` may lose against exit or timeout while its event is being stored; the queue of an attempt hides the first failure of the
  store until it is flushed; a silent helper that ignores SIGTERM survives an abort once the pipes are closed.
- Terminal: reads begun while a change of the folder drains show the old folder's data under the new one (README.md:349-351); an operation begun in that
  gap has its store closed (test/tui-lifecycle.test.ts:6); two changes of the folder may end with the context of the wrong one. The
  preview of a wizard that was left may be what Save writes. A view that cannot be read after a run leaves the live screen (README.md:361).
- Command line: `review decide` and `review finalize` exit 0 when the continued run failed (README.md:444); a close that fails gives a stream a
  second end; a second signal ends the process or is swallowed.

Files and devices:

- A published export cannot be finished after a commit. A crash after the package was renamed to its place leaves the dataset `exporting`. Repeating the
  export computes the digest of that package with the fingerprint of the repository as it is now (`application/portability-operations.ts:231-246`): after a
  commit or a change of branch it is refused as stale; `cancel-export` is refused because the package exists (`:197-206`), and a new export because the
  dataset is exporting. docs/data-portability.md:104-106 promises that the same request and digest finish it. The way out is to check out the branch and HEAD
  of the preview again, which `InterruptedExportResumes` shows to be enough.
- A failed initialization removes the configuration of another writer. The catch clause of `initializeProjectAtPath` (`web/project-catalog.ts:280`) removes
  the file after any error, also after the `EEXIST` of its own exclusive write: a configuration made between its look and its write is deleted by the
  call that should have left it alone (test/project-catalog.test.ts:62: "without overwriting existing files"). `OnlyGapsLoseChanges` excepts this gap.
- Two changes of agents in the web client may both pass the comparison before one closes the project, and the second then replaces the file the first
  wrote (`SavesOverShown` counts what is written in that gap); a change that is written and whose project does not open again is reported as failed.
- The profile wizard's preview carries no hash (docs/tui-experience.md:211), so it takes back what others saved; the document and its hash are two reads.
- Two overlapping settings updates may publish in the other order, and later ones are refused until the launcher restarts; after a fall back to the last good copy, the
  next update copies the broken file over it. Two launchers that start at once may remove each other's key files; a crash between the two leaves an identity that is incomplete for ever.
- `staleLockOwner` reads the owner of a lock twice, so that a living updater's lock may be moved away and two work at once; installing the
  current version again leaves `current` dangling for a moment; a lock whose owner was never written stays for ever.
- Peer transfer: preview and start require the project to be open, hence its lease taken by this process, and then take the same lease
  (`cli/commands/web-transfer.ts:52`); the manifest never reaches the receiver, so receiving always fails; a resumed
  transfer tells the size that was sent, not that of the package; a file of full length with a hole is not fetched again.
- Lists and pages: the cursor of `listPreparationMessagesPage` skips a row (it has no caller); the cursor of a previous page may point inside a
  character, and that page cannot be read (docs/tui-experience.md:96).

Browser:

- One instance of `TaskPreparation` serves every task: a submission that ends after another task was selected refreshes its own under the new
  generation (`crossed`). A completed reply behind a full page of fifty messages is taken for running and sent again under a new id. The key of a request id
  contains revisions that a refresh changes (docs/personal-web.md:68-70). The same gap exists in the agents' page (`switched`), the list of tasks (`disturbed`) and the hand-over (`late`).
- `retry-task` may be accepted for a block that is not the one displayed; a review another client decided is not refreshed.

## What is not modelled

- Rendering, layout, wording, colours, argument parsing, prompts and the parsing of agents' answers into documents: a message is a model value, an answer
  one of the kinds the code tells apart. Public sources and downloads are inputs.
- Formats, hashes and file walks of packages: a digest is equal when
  what it is computed from is equal. A repository refused for its state (dirty, LFS files, submodules) is a command that fails. One device imports a package at most once (`Inv` of Portability is false otherwise), and packages stay where they were published.
- Pairing of devices (key agreement, signatures, nonces): the devices of PeerTransfer are paired.
- The counts, searches and archive of the QA history; browsing directories and choosing paths.
- In `GuidedExecution` a person who commits takes all changes along, branches are not switched, and process ids
  are not used again (that is in `RunStore`). `saveGuidedDecision` and `reconcileCommitIntent`, which nothing
  calls, are left out. Liveness is not claimed there: agents and people may block for ever.
- One run per `RunStore`: runs share no rows but the owner table, whose key is the run. The path of `Preparation` for stores without
  `beginPreparationTurn` is left out: the only store has it.
- An artifact's file is written before the row that names it; that write is part of an attempt.
- Parts that meet only through a lease, a row or an answer are checked apart, as said under [runs](#runs-bounds-and-what-they-show).

## Plan

Done: all modules above, and the proofs of WorkflowRuntime and Processes, Device (but for the schema), Preparation, the guided task, the files and the lists of Store, PeerTransfer
with Portability, Tui with its four parts, WebClient with its five pages, and Coordinators. Next:

1. `PagesJoin` of the documents: the end of a page is the end of a character, and the pages together are what was read.
2. An abstract promise of GuidedExecution (phases applied once and in order) and one of CoordinatedRun (phases in order, each accepted),
   as refinements in place of `CommitsAreThePhases` and `NothingRedone`.

A new component brings its properties in exchange for the weakest ones of the runs
above, so that the whole stays checkable in a few minutes per run.
