------------------------------- MODULE Update --------------------------------
(* The updater of an installed program: one update or rollback at a time,    *)
(* kept apart by a lock directory that outlives a crash, and two links,      *)
(* `current` and `previous`, into the installed versions.                    *)
EXTENDS Integers

CONSTANTS Updaters,     \* processes `binaflow update`, numbered from 1
          Newest,       \* bound: versions published, numbered from 1
          MaxKills      \* bound: updaters that die at work

VARIABLES lock,         \* the lock directory: None, Bare (no owner yet) or its owner's token
          aside,        \* of each updater: what it moved to its quarantine directory
          installed,    \* complete directories under versions/
          links,        \* [current, previous]: the versions the links name, None if absent
          latest,       \* the newest published release
          up,           \* of each updater: [pc, version, look, stale, old, target]
          kills,
          raced         \* the lock was replaced under an updater that examined it

updateVars == <<lock, aside, installed, links, latest, up, kills, raced>>

None == 0
Bare == -1
Idle == {"off", "ended", "killed"}
Working == {"find", "stage", "remove", "put", "links", "previous", "current", "unlock"}
Alive(p) == up[p].pc \notin Idle
Set(p, r) == up' = [up EXCEPT ![p] = r]
Goto(p, pc) == Set(p, [up[p] EXCEPT !.pc = pc])
\* Whoever examined the lock and has not moved it yet now acts on what is gone.
Examining(p) == \E q \in Updaters \ {p} : up[q].pc \in {"token", "move"} \/ aside[q] # None
LockKept == UNCHANGED <<lock, aside, raced>>
FilesKept == UNCHANGED <<installed, links>>

UpdateInit == /\ lock = None /\ aside = [p \in Updaters |-> None]
              /\ installed = {1} /\ links = [current |-> 1, previous |-> None]
              /\ latest = 1 /\ kills = 0 /\ raced = FALSE
              /\ up = [p \in Updaters |-> [pc |-> "off", op |-> "install", version |-> None, look |-> None,
                                           stale |-> None, old |-> None, target |-> None]]

Publish == /\ latest < Newest /\ latest' = latest + 1
           /\ LockKept /\ FilesKept /\ UNCHANGED <<up, kills>>

\* The program runs from the version `current` names.  Updaters are numbered in the
\* order they start.
StartUpdate(p, op) == /\ up[p].pc = "off" /\ links.current \in installed
                      /\ \A q \in 1..(p - 1) : up[q].pc # "off"
                      /\ Set(p, [up[p] EXCEPT !.pc = "mkdir", !.op = op, !.version = links.current])
                      /\ LockKept /\ FilesKept /\ UNCHANGED <<latest, kills>>

MakeLock(p) == /\ up[p].pc = "mkdir"
               /\ IF lock = None THEN lock' = Bare /\ Goto(p, "own") ELSE UNCHANGED lock /\ Goto(p, "look")
               /\ FilesKept /\ UNCHANGED <<aside, raced, latest, kills>>

\* owner.json must be new; when the directory went away or is owned, it is removed.
WriteOwner(p) == /\ up[p].pc = "own"
                 /\ IF lock = Bare THEN lock' = p /\ Goto(p, "find")
                                   ELSE lock' = None /\ Goto(p, "ended")
                 /\ raced' = (raced \/ Examining(p))
                 /\ FilesKept /\ UNCHANGED <<aside, latest, kills>>

\* staleLockOwner reads the owner twice: once for the pid and once for the token.
LookPid(p) == /\ up[p].pc = "look"
              /\ IF lock \in Updaters THEN Set(p, [up[p] EXCEPT !.pc = "token", !.look = lock])
                                      ELSE Goto(p, "ended")
              /\ LockKept /\ FilesKept /\ UNCHANGED <<latest, kills>>

\* Mutant: the process that owns the lock is not looked up.
Stale_Always(owner) == owner \in Updaters
\* The owner on record names no living process.
Stale(owner) == owner \in Updaters /\ ~Alive(owner)

LookToken(p) == /\ up[p].pc = "token"
                /\ IF lock \in Updaters /\ Stale(up[p].look)
                   THEN Set(p, [up[p] EXCEPT !.pc = "move", !.stale = lock]) ELSE Goto(p, "ended")
                /\ LockKept /\ FilesKept /\ UNCHANGED <<latest, kills>>

Quarantine(p) == /\ up[p].pc = "move"
                 /\ IF lock = None THEN UNCHANGED <<lock, aside>> /\ Goto(p, "mkdir")
                    ELSE lock' = None /\ aside' = [aside EXCEPT ![p] = lock] /\ Goto(p, "compare")
                 /\ raced' = (raced \/ (lock # None /\ Examining(p)))
                 /\ FilesKept /\ UNCHANGED <<latest, kills>>

\* What was moved is removed if it is the stale lock, and put back otherwise: a rename
\* replaces a directory without an owner, and nothing is put back over an owned one.
Restored(p) == IF aside[p] # up[p].stale /\ lock \notin Updaters THEN aside[p] ELSE lock
Compare(p) == /\ up[p].pc = "compare"
              /\ lock' = Restored(p)
              /\ aside' = [aside EXCEPT ![p] = None] /\ Goto(p, "mkdir")
              /\ FilesKept /\ UNCHANGED <<raced, latest, kills>>

\* Mutant: a release that is not newer is installed again.
Wanted_Any(p) == TRUE
\* Only a newer release is installed.
Wanted(p) == latest > up[p].version

Find(p) == /\ up[p].pc = "find"
           /\ IF up[p].op = "rollback" THEN Goto(p, "links")
              ELSE IF Wanted(p) THEN Set(p, [up[p] EXCEPT !.pc = "stage", !.target = latest])
              ELSE Goto(p, "unlock")
           /\ LockKept /\ FilesKept /\ UNCHANGED <<latest, kills>>

\* Download, checksum, archive, manifest, payload and smoke test, in a directory aside.
Stage(p) == /\ up[p].pc = "stage" /\ \E pc \in {"remove", "unlock"} : Goto(p, pc)
            /\ LockKept /\ FilesKept /\ UNCHANGED <<latest, kills>>

RemoveTarget(p) == /\ up[p].pc = "remove" /\ Goto(p, "put")
                   /\ installed' = installed \ {up[p].target}
                   /\ LockKept /\ UNCHANGED <<links, latest, kills>>

PutTarget(p) == /\ up[p].pc = "put"
                /\ IF up[p].target \in installed THEN Goto(p, "unlock") /\ FilesKept
                   ELSE installed' = installed \cup {up[p].target} /\ Goto(p, "links") /\ UNCHANGED links
                /\ LockKept /\ UNCHANGED <<latest, kills>>

\* An install makes its version current, a rollback the one `previous` names.
ReadLinks(p) == /\ up[p].pc = "links"
                /\ LET target == IF up[p].op = "rollback" THEN links.previous ELSE up[p].target
                   IN Set(p, [up[p] EXCEPT !.target = target, !.old = links.current,
                                           !.pc = IF target = None THEN "unlock" ELSE "previous"])
                /\ LockKept /\ FilesKept /\ UNCHANGED <<latest, kills>>

\* Mutant: the version that is current is noted as the previous one, whatever is activated.
Previous_Always(p) == up[p].old
\* Activating the current version again leaves `previous` alone.
Previous(p) == IF up[p].old \notin {None, up[p].target} THEN up[p].old ELSE links.previous

LinkPrevious(p) == /\ up[p].pc = "previous" /\ Goto(p, "current")
                   /\ links' = [links EXCEPT !.previous = Previous(p)]
                   /\ LockKept /\ UNCHANGED <<installed, latest, kills>>
LinkCurrent(p) == /\ up[p].pc = "current" /\ Goto(p, "unlock")
                  /\ links' = [links EXCEPT !.current = up[p].target]
                  /\ LockKept /\ UNCHANGED <<installed, latest, kills>>

\* A lock of another owner stays.
Released(p) == IF lock = p THEN None ELSE lock

Unlock(p) == /\ up[p].pc = "unlock" /\ Goto(p, "ended") /\ lock' = Released(p)
             /\ raced' = (raced \/ (lock = p /\ Examining(p)))
             /\ FilesKept /\ UNCHANGED <<aside, latest, kills>>

Kill(p) == /\ Alive(p) /\ kills < MaxKills /\ kills' = kills + 1 /\ Goto(p, "killed")
           /\ LockKept /\ FilesKept /\ UNCHANGED latest

UpdateNext == \/ Publish
              \/ \E p \in Updaters : \/ \E op \in {"install", "rollback"} : StartUpdate(p, op)
                                     \/ MakeLock(p) \/ WriteOwner(p) \/ LookPid(p) \/ LookToken(p)
                                     \/ Quarantine(p) \/ Compare(p) \/ Find(p) \/ Stage(p)
                                     \/ RemoveTarget(p) \/ PutTarget(p) \/ ReadLinks(p)
                                     \/ LinkPrevious(p) \/ LinkCurrent(p) \/ Unlock(p) \/ Kill(p)

------------------------------------------------------------------------------
(* Two updaters change the installation at once only if the lock was replaced *)
(* while one of them examined it, between its two reads and its rename; the   *)
(* current version is installed unless an update that was started before it   *)
(* replaces it or was cut short; else `previous` names another version, except *)
(* after a crash or such a race.                                             *)
UpdateInv ==
  /\ raced \/ \A p \in Updaters : up[p].pc \in Working => lock = p
  /\ links.current \notin installed =>
       \E p \in Updaters : /\ up[p].pc \in {"put", "killed"} /\ up[p].target = links.current
                          /\ up[p].version < links.current
  /\ kills = 0 /\ ~raced /\ (\A p \in Updaters : up[p].pc # "current") => links.previous # links.current
==============================================================================
