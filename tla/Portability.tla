----------------------------- MODULE Portability -----------------------------
(***************************************************************************)
(* Moving a dataset between devices: the export, cancel-export and import  *)
(* commands (src/src/application/portability-operations.ts) over           *)
(* portability_state (src/src/storage/sqlite-run-store.ts) and the         *)
(* published package (src/src/portability/directory-package.ts).  There is *)
(* no other coordination: a directory, a package and what the person in    *)
(* between does with them.                                                 *)
(*                                                                         *)
(* A directory is <<device, number>>.  Each command is a process that      *)
(* holds the lease on the configured directory (module DataDirectory) from *)
(* its first step to its last; a process that dies leaves the lease taken  *)
(* until somebody removes it.  A preview reads under the lease and changes *)
(* nothing but what the person has seen: it is no action.  Its digest      *)
(* stands for what it is computed from: the request (hence the             *)
(* destination), the contents, the parent transfer and what the repository *)
(* is at, which a person changes at any time.  A command that is refused   *)
(* before its first step is no action.                                     *)
(***************************************************************************)
EXTENDS Naturals

CONSTANTS
    Devices,
    Home,         \* the device that has the dataset at first
    Requests,     \* request ids, which become transfer ids
    Heads,        \* what a repository can be at: a branch and its HEAD
    Processes,
    MaxDirs,      \* bound: data directories of a device
    MaxContent,   \* bound: versions of the contents
    MaxFaults,    \* bound: failures and crashes of a command
    None

Dirs == Devices \X (1..MaxDirs)
Contents == 0..MaxContent
Digest == [request : Requests, content : Contents, parent : Requests \cup {None}, git : Heads]

VARIABLES
    dir,        \* the database of each directory, see Absent
    config,     \* config[v]: the directory device v is configured to use
    package,    \* package[r]: the published package of request r, or None
    imported,   \* imported[v]: packages device v has imported
    op,         \* op[p]: the command process p executes, see NoOp
    orphaned,   \* directories whose lease a dead process left behind
    repo,       \* repo[v]: what the project's repository on device v is at
    faults

vars == <<dir, config, package, imported, op, orphaned, repo, faults>>

Absent == [state |-> "absent", content |-> 0, last |-> None, pending |-> None]
NoOp == [kind |-> "none", at |-> None, digest |-> None, out |-> None, step |-> "none"]

TypeOK ==
    /\ \A d \in Dirs :
         /\ dir[d].state \in {"absent", "active", "exporting", "exported"}
         /\ dir[d].content \in Contents
         /\ dir[d].last \in Requests \cup {None}
         /\ dir[d].pending \in IF dir[d].state = "exporting" THEN Digest ELSE {None}
    /\ config \in [Devices -> 1..MaxDirs]
    /\ package \in [Requests -> Digest \cup {None}]
    /\ imported \in [Devices -> SUBSET Requests]
    /\ \A p \in Processes :
         op[p] # NoOp => op[p].at \in Dirs /\ op[p].digest \in Digest
    /\ orphaned \subseteq Dirs
    /\ repo \in [Devices -> Heads]
    /\ faults \in 0..MaxFaults

Init ==
    /\ dir = [d \in Dirs |->
                IF d = <<Home, 1>> THEN [Absent EXCEPT !.state = "active"] ELSE Absent]
    /\ config = [v \in Devices |-> 1]
    /\ package = [r \in Requests |-> None]
    /\ imported = [v \in Devices |-> {}]
    /\ op = [p \in Processes |-> NoOp]
    /\ orphaned = {}
    /\ \E h \in Heads : repo = [v \in Devices |-> h]
    /\ faults = 0

-----------------------------------------------------------------------------
(* Leases and commands *)

Configured(v) == <<v, config[v]>>

LeaseFree(d) == d \notin orphaned /\ \A p \in Processes : op[p].at # d

Start(p, kind, d, g, out) ==
    /\ op[p] = NoOp
    /\ LeaseFree(d)
    /\ op' = [op EXCEPT ![p] = [kind |-> kind, at |-> d, digest |-> g,
                                out |-> out, step |-> "checking"]]

\* The command is over and gives the lease back.
End(p) == op' = [op EXCEPT ![p] = NoOp]
Go(p, step) == op' = [op EXCEPT ![p].step = step]
At(p, kind, step) == op[p].kind = kind /\ op[p].step = step

Here(p) == dir[op[p].at]
Asked(p) == op[p].digest
Head(p) == repo[op[p].at[1]]
Published(r) == package[r] # None

Set(d, state, last, pending) ==
    dir' = [dir EXCEPT ![d] = [@ EXCEPT !.state = state, !.last = last, !.pending = pending]]

-----------------------------------------------------------------------------
(* Normal use *)

\* Runs and preparations change the dataset; the runtime opens active ones only.
Work(v) ==
    LET d == Configured(v) IN
    /\ LeaseFree(d)
    /\ dir[d].state = "active"
    /\ dir[d].content < MaxContent
    /\ dir' = [dir EXCEPT ![d].content = @ + 1]
    /\ UNCHANGED <<config, package, imported, op, orphaned, repo, faults>>

\* After an import the person changes the configuration of the device.
Configure(v, n) ==
    /\ n > config[v]
    /\ dir[<<v, n>>].state # "absent"
    /\ config' = [config EXCEPT ![v] = n]
    /\ UNCHANGED <<dir, package, imported, op, orphaned, repo, faults>>

\* A person (or a guided execution) commits, pulls or changes the branch; no lease
\* keeps anybody from it.
Commit(v, h) ==
    /\ h # repo[v]
    /\ repo' = [repo EXCEPT ![v] = h]
    /\ UNCHANGED <<dir, config, package, imported, op, orphaned, faults>>

-----------------------------------------------------------------------------
(* Export *)

\* Mutant: an export that was begun cannot be previewed again.
Exportable_ActiveOnly(s, r) == s.state = "active"

\* The state a preview of request r sees: its own intent counts as active.
Exportable(s, r) ==
    \/ s.state = "active"
    \/ s.state = "exporting" /\ s.pending.request = r

DigestOf(s, r, h) == [request |-> r, content |-> s.content, parent |-> s.last, git |-> h]

\* The digests that can be asked for of directory d with an effect: what a preview shows
\* of it as it is (with the repository where it is or comes to be), its intent, and the
\* packages there are.  One that was previewed before other work changes nothing.
Previewed(d) ==
    {DigestOf(dir[d], r, h) : r \in Requests, h \in Heads}
      \cup (({package[r] : r \in Requests} \cup {dir[d].pending}) \ {None})

StartExport(p, v, g) ==
    /\ Start(p, "export", Configured(v), g, None)
    /\ UNCHANGED <<dir, config, package, imported, orphaned, repo, faults>>

\* The package of a completed or interrupted export is there already, and its digest,
\* computed with the repository as it is now, is the one asked for.
Replayable(s, g, h) ==
    /\ \/ s.state = "exported" /\ s.last = g.request
       \/ s.state = "exporting" /\ s.pending = g
    /\ Published(g.request) /\ package[g.request] = g
    /\ g.git = h

ReplayExport(p) ==
    /\ At(p, "export", "checking")
    /\ Replayable(Here(p), Asked(p), Head(p))
    /\ IF Here(p).state = "exporting"
         THEN Set(op[p].at, "exported", Asked(p).request, None)
         ELSE UNCHANGED dir
    /\ End(p)
    /\ UNCHANGED <<config, package, imported, orphaned, repo, faults>>

\* The preview is computed anew and must still have the digest asked for.
CanBegin(s, g, h) ==
    /\ ~Published(g.request)
    /\ Exportable(s, g.request)
    /\ DigestOf(s, g.request, h) = g
    /\ s.state = "exporting" => s.pending = g

BeginExportIntent(p) ==
    /\ At(p, "export", "checking")
    /\ CanBegin(Here(p), Asked(p), Head(p))
    /\ Set(op[p].at, "exporting", Here(p).last, Asked(p))
    /\ Go(p, "building")
    /\ UNCHANGED <<config, package, imported, orphaned, repo, faults>>

\* What is built has the files of the preview, the bundle of the branch with them,
\* and its destination does not exist.
AsPreviewed(p) ==
    /\ Here(p).content = Asked(p).content
    /\ Head(p) = Asked(p).git
    /\ ~Published(Asked(p).request)

PublishPackage(p) ==
    /\ At(p, "export", "building")
    /\ AsPreviewed(p)
    /\ package' = [package EXCEPT ![Asked(p).request] =
                     [request |-> Asked(p).request, content |-> Here(p).content,
                      parent |-> Asked(p).parent, git |-> Head(p)]]
    /\ Go(p, "published")
    /\ UNCHANGED <<dir, config, imported, orphaned, repo, faults>>

FinalizeExport(p) ==
    /\ At(p, "export", "published")
    /\ Here(p).state = "exporting" /\ Here(p).pending = Asked(p)
    /\ Set(op[p].at, "exported", Asked(p).request, None)
    /\ End(p)
    /\ UNCHANGED <<config, package, imported, orphaned, repo, faults>>

-----------------------------------------------------------------------------
(* Cancel *)

StartCancel(p, v, g) ==
    /\ Start(p, "cancel", Configured(v), g, None)
    /\ UNCHANGED <<dir, config, package, imported, orphaned, repo, faults>>

\* Mutant: cancel-export without looking for the package.
CanCancel_Blind(s, g) == TRUE

\* Is the package of the intent published?  If so, the command is refused.
CanCancel(s, g) ==
    ~(s.state = "exporting" /\ s.pending = g /\ Published(g.request))

CheckCancel(p) ==
    /\ At(p, "cancel", "checking")
    /\ CanCancel(Here(p), Asked(p))
    /\ Go(p, "cancelling")
    /\ UNCHANGED <<dir, config, package, imported, orphaned, repo, faults>>

CancelExportIntent(p) ==
    /\ At(p, "cancel", "cancelling")
    /\ Here(p).state = "exporting" /\ Here(p).pending = Asked(p)
    /\ Set(op[p].at, "active", Here(p).last, None)
    /\ End(p)
    /\ UNCHANGED <<config, package, imported, orphaned, repo, faults>>

-----------------------------------------------------------------------------
(* Import *)

StartImport(p, v, r, n) ==
    /\ Published(r)
    /\ r \notin imported[v]
    /\ Start(p, "import", Configured(v), package[r], <<v, n>>)
    /\ UNCHANGED <<dir, config, package, imported, orphaned, repo, faults>>

\* Mutant: the import without the comparison with the baseline.
Continues_Any(s, g) == TRUE

\* A database under the configuration must be the exported parent of the package.
Continues(s, g) ==
    \/ s.state = "absent"
    \/ s.state = "exported" /\ s.last = g.parent

\* The repository must be at the branch and HEAD of the package, too.
CanImport(p) ==
    /\ dir[op[p].out].state = "absent"
    /\ Continues(Here(p), Asked(p))
    /\ Head(p) = Asked(p).git

PreviewImport(p) ==
    /\ At(p, "import", "checking")
    /\ CanImport(p)
    /\ Go(p, "importing")
    /\ UNCHANGED <<dir, config, package, imported, orphaned, repo, faults>>

\* The copy is made active in its staging directory and then renamed.
FinishImport(p) ==
    /\ At(p, "import", "importing")
    /\ dir[op[p].out].state = "absent"
    /\ dir' = [dir EXCEPT ![op[p].out] =
                 [state |-> "active", content |-> Asked(p).content,
                  last |-> Asked(p).request, pending |-> None]]
    /\ imported' = [imported EXCEPT ![op[p].out[1]] = @ \cup {Asked(p).request}]
    /\ End(p)
    /\ UNCHANGED <<config, package, orphaned, repo, faults>>

-----------------------------------------------------------------------------
(* Refusals, failures and crashes *)

\* A check of the command fails: it ends with an error and changes nothing, so that an
\* intent that was begun stays.
Refuse(p) ==
    /\ \/ /\ At(p, "export", "checking")
          /\ ~CanBegin(Here(p), Asked(p), Head(p))
          /\ ~Replayable(Here(p), Asked(p), Head(p))
       \/ At(p, "export", "building") /\ ~AsPreviewed(p)
       \/ At(p, "cancel", "checking") /\ ~CanCancel(Here(p), Asked(p))
       \/ At(p, "cancel", "cancelling") /\ ~(Here(p).state = "exporting" /\ Here(p).pending = Asked(p))
       \/ At(p, "import", "checking") /\ ~CanImport(p)
       \/ At(p, "import", "importing") /\ dir[op[p].out].state # "absent"
    /\ End(p)
    /\ UNCHANGED <<dir, config, package, imported, orphaned, repo, faults>>

\* Anything the command awaits may fail: the disk, Git, SQLite.
Fail(p) ==
    /\ op[p] # NoOp
    /\ faults < MaxFaults
    /\ faults' = faults + 1
    /\ End(p)
    /\ UNCHANGED <<dir, config, package, imported, orphaned, repo>>

Crash(p) ==
    /\ op[p] # NoOp
    /\ faults < MaxFaults
    /\ faults' = faults + 1
    /\ orphaned' = orphaned \cup {op[p].at}
    /\ End(p)
    /\ UNCHANGED <<dir, config, package, imported, repo>>

\* A person removes the lock of the dead process.
ClearLease(d) ==
    /\ d \in orphaned
    /\ orphaned' = orphaned \ {d}
    /\ UNCHANGED <<dir, config, package, imported, op, repo, faults>>

Step(p) ==
    \/ ReplayExport(p) \/ BeginExportIntent(p) \/ PublishPackage(p) \/ FinalizeExport(p)
    \/ CheckCancel(p) \/ CancelExportIntent(p)
    \/ PreviewImport(p) \/ FinishImport(p)
    \/ Refuse(p)

Next ==
    \/ \E v \in Devices :
         \/ Work(v)
         \/ \E n \in 1..MaxDirs : Configure(v, n)
         \/ \E h \in Heads : Commit(v, h)
         \/ \E p \in Processes :
              \/ \E g \in Previewed(Configured(v)) : StartExport(p, v, g) \/ StartCancel(p, v, g)
              \/ \E r \in Requests, n \in 1..MaxDirs : StartImport(p, v, r, n)
    \/ \E p \in Processes : Step(p) \/ Fail(p) \/ Crash(p)
    \/ \E d \in Dirs : ClearLease(d)

Spec == Init /\ [][Next]_vars

-----------------------------------------------------------------------------
(* Properties *)

\* Once the package of an export exists, the directory it was made from never
\* works on: no directory is active with the contents and the parent of a
\* published package while being the one that published it.  (An import makes
\* the request the last transfer of the new directory, hence parent differs.)
FrozenOncePublished ==
    \A d \in Dirs, r \in Requests :
        Published(r) /\ dir[d].state = "active" => dir[d].last # package[r].parent

\* At most one directory of all devices is active, and it has the newest contents
\* there are, so that no work is lost: whatever crashes, is repeated or cancelled,
\* provided no device imports a package twice.
OneActive ==
    \A d, e \in Dirs : dir[d].state = "active" =>
        /\ dir[e].state = "active" => d = e
        /\ dir[e].content <= dir[d].content

\* States are well formed, and one directory is active, with the newest work.
Inv == TypeOK /\ OneActive

\* An interrupted export is not stuck while its repository is at what was previewed:
\* whatever failed, died or was done in between, the request and digest on record
\* either lead to the same package again, or find it published as they would have made
\* it.  Elsewhere they are refused; a package of the request that is there is still the
\* one of the digest on record, and the way back is the branch and HEAD it names.
InterruptedExportResumes ==
    \A d \in Dirs : dir[d].state = "exporting" =>
        LET g == dir[d].pending IN
        /\ Published(g.request) => package[g.request] = g
        /\ repo[d[1]] = g.git =>
             IF Published(g.request) THEN Replayable(dir[d], g, g.git) ELSE CanBegin(dir[d], g, g.git)
=============================================================================
