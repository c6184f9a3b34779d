---------------------------- MODULE DataDirectory ----------------------------
(***************************************************************************)
(* The lease on a data directory: FileDataDirectoryLock                    *)
(* (src/src/storage/data-directory-lock.ts) as application/runtime.ts      *)
(* takes it, opens the store under it and gives it back.  The lock is a    *)
(* directory, made with mkdir, and a metadata file in it that carries the  *)
(* token of the lease.  Nothing in the program removes the lock of a       *)
(* process that died, so what a person may do about it by hand is a        *)
(* parameter.                                                              *)
(*                                                                         *)
(* A process opens the directory once (a command, the TUI).  A process     *)
(* that finds the lock taken gets DataDirectoryBusyError and nothing       *)
(* changes: that is no action.  While it has the store it may execute a    *)
(* run, whose row says "running" until the run ends; the row outlives the  *)
(* process, and another process may then mark it interrupted.  An open     *)
(* that throws once the store is there leaves it open, and the lease       *)
(* taken, with nobody to give either back.                                 *)
(***************************************************************************)
CONSTANTS
    Processes,
    Unlock,   \* "never", "dead" (of a dead process) or "any" (by mistake, too)
    NoLock

ASSUME UnlockAssumption == Unlock \in {"never", "dead", "any"}
ASSUME NoLockAssumption == NoLock \notin [owner : Processes, written : BOOLEAN]

VARIABLES
    lock,     \* the lock directory: NoLock, or who made it and its metadata
    phase,    \* phase[p]: how far the process is
    marked,   \* processes whose run row says "running"
    mistaken  \* the lock of a living process was once removed by hand

vars == <<lock, phase, marked, mistaken>>

\* "stuck": the open threw with the store open, and the process lives on.
Phases == {"idle", "made", "locked", "open", "stuck", "done", "dead"}

TypeOK ==
    /\ lock \in [owner : Processes, written : BOOLEAN] \cup {NoLock}
    /\ phase \in [Processes -> Phases]
    /\ marked \subseteq {p \in Processes : phase[p] \in {"open", "dead"}}
    /\ mistaken \in BOOLEAN

Init ==
    /\ lock = NoLock
    /\ phase = [p \in Processes |-> "idle"]
    /\ marked = {}
    /\ mistaken = FALSE

Move(p, from, to) ==
    /\ phase[p] = from
    /\ phase' = [phase EXCEPT ![p] = to]

-----------------------------------------------------------------------------
(* acquire *)

\* Mutant: mkdir with recursive: true, which does not fail on an existing directory.
MakeDirectory_Recursive(p) ==
    /\ Move(p, "idle", "made")
    /\ lock' = [owner |-> p, written |-> FALSE]
    /\ UNCHANGED <<marked, mistaken>>

MakeDirectory(p) ==
    /\ Move(p, "idle", "made")
    /\ lock = NoLock
    /\ lock' = [owner |-> p, written |-> FALSE]
    /\ UNCHANGED <<marked, mistaken>>

WriteMetadata(p) ==
    /\ Move(p, "made", "locked")
    /\ lock' = [owner |-> p, written |-> TRUE]
    /\ UNCHANGED <<marked, mistaken>>

\* The metadata cannot be written: the directory is removed again.
WriteFails(p) ==
    /\ Move(p, "made", "done")
    /\ lock' = NoLock
    /\ UNCHANGED <<marked, mistaken>>

-----------------------------------------------------------------------------
(* The store under the lease *)

\* Mutant: release that removes whatever lock is there.
Released_Blind(p) == NoLock

\* release: only a lock with the metadata of this lease is removed; any other
\* makes release throw and stays.
Released(p) ==
    IF lock # NoLock /\ lock.owner = p THEN NoLock ELSE lock

OpenStore(p) ==
    /\ Move(p, "locked", "open")
    /\ UNCHANGED <<lock, marked, mistaken>>

\* Mutant: the catch of the open that does not release.
OpenRefused_Leak(p) ==
    /\ Move(p, "locked", "done")
    /\ UNCHANGED <<lock, marked, mistaken>>

\* The database is not active, cannot be read or cannot be migrated: the one part of
\* the open that is caught.
OpenRefused(p) ==
    /\ Move(p, "locked", "done")
    /\ lock' = Released(p)
    /\ UNCHANGED <<marked, mistaken>>

\* What is built after the store throws (realpathSync of a folder that is not there):
\* nobody has a context to close.
OpenBroken(p) ==
    /\ Move(p, "locked", "stuck")
    /\ UNCHANGED <<lock, marked, mistaken>>

StartRun(p) ==
    /\ phase[p] = "open"
    /\ marked' = marked \cup {p}
    /\ UNCHANGED <<lock, phase, mistaken>>

EndRun(p) ==
    /\ phase[p] = "open"
    /\ marked' = marked \ {p}
    /\ UNCHANGED <<lock, phase, mistaken>>

\* markRunInterrupted is refused while the process of the owner row is alive.
MarkInterrupted(p, q) ==
    /\ phase[p] = "open"
    /\ phase[q] = "dead"
    /\ marked' = marked \ {q}
    /\ UNCHANGED <<lock, phase, mistaken>>

\* An attached process closes its context when nothing executes in it.
Close(p) ==
    /\ p \notin marked
    /\ Move(p, "open", "done")
    /\ lock' = Released(p)
    /\ UNCHANGED <<marked, mistaken>>

-----------------------------------------------------------------------------
(* The environment *)

\* A crash, and the end of a command whose open threw.
Crash(p) ==
    /\ phase[p] \in {"made", "locked", "open", "stuck"}
    /\ phase' = [phase EXCEPT ![p] = "dead"]
    /\ UNCHANGED <<lock, marked, mistaken>>

\* A person removes the lock directory of a process that died ...
ClearLock ==
    /\ Unlock # "never"
    /\ lock # NoLock /\ phase[lock.owner] = "dead"
    /\ lock' = NoLock
    /\ UNCHANGED <<phase, marked, mistaken>>

\* ... or one that was only thought dead.  A lock without metadata names no
\* process that could be taken for dead.
ClearMistaken ==
    /\ Unlock = "any"
    /\ lock # NoLock /\ lock.written /\ phase[lock.owner] # "dead"
    /\ lock' = NoLock
    /\ mistaken' = TRUE
    /\ UNCHANGED <<phase, marked>>

Acquire(p) == MakeDirectory(p) \/ WriteMetadata(p) \/ WriteFails(p)
OpenOrRefuse(p) == OpenStore(p) \/ OpenRefused(p) \/ OpenBroken(p)

Next ==
    \/ \E p \in Processes :
         \/ Acquire(p) \/ OpenOrRefuse(p)
         \/ StartRun(p) \/ EndRun(p) \/ Close(p) \/ Crash(p)
         \/ \E q \in Processes : MarkInterrupted(p, q)
    \/ ClearLock \/ ClearMistaken

Spec == Init /\ [][Next]_vars

\* acquire and the opening of the store never wait; a run ends, and who uses an
\* attached process leaves it some day; a command that found the lock taken is
\* tried again.  Nobody has to clear a lock.  A process comes this way once, so
\* that it is enough that some process always goes on.
Fairness ==
    /\ WF_vars(\E p \in Processes : Acquire(p) \/ OpenOrRefuse(p))
    /\ WF_vars(\E p \in marked : EndRun(p))
    /\ SF_vars(\E p \in Processes : Close(p))

FairSpec == Spec /\ Fairness

-----------------------------------------------------------------------------
(* Properties *)

HasStore(p) == phase[p] \in {"open", "stuck"}

\* Two processes never have the store of one data directory open, unless the
\* lock of a process that still ran was removed by hand.
OneStore ==
    ~mistaken => \A p, q \in Processes : HasStore(p) /\ HasStore(q) => p = q

\* A process that closed, or whose open was refused with an error that is caught,
\* leaves no lock behind: only a process has one that holds the lease, died with it,
\* or threw later in its open.
NoLockLeftBehind ==
    lock # NoLock => phase[lock.owner] \in {"made", "locked", "open", "stuck", "dead"}

\* Even when a lock was removed by mistake and taken by another process, the
\* first holder's release does not remove the lock of the second: a lock goes
\* away by a step of its owner, or by hand.
OnlyHolderReleases ==
    [][lock # NoLock /\ lock' = NoLock
         => phase'[lock.owner] # phase[lock.owner] \/ ClearLock \/ ClearMistaken]_vars

\* A lock that the program does not give back any more.
Stranded == lock # NoLock /\ phase[lock.owner] \in {"stuck", "dead"}

\* A process that finds the directory taken gets its turn once the others have ended,
\* closed or failed: the lease outlives them only by a crash or by an open that threw
\* behind the catch.
TurnComes ==
    \A q \in Processes : phase[q] = "idle" ~> phase[q] # "idle" \/ Stranded
=============================================================================
