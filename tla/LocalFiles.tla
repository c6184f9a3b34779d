----------------------------- MODULE LocalFiles ------------------------------
(***************************************************************************)
(* The files the program keeps outside its database: the configuration of  *)
(* a project, the settings of the web launcher, the projects it knows, the *)
(* identity of the device, and the installed versions of the program       *)
(* (module Update).  They share nothing; one of them at a time is explored.*)
(***************************************************************************)
EXTENDS Integers, Sequences, Functions

CONSTANTS Updaters, Newest, MaxKills      \* Update

VARIABLES
    part,           \* "config", "settings", "catalog", "identity" or "update"
    lock, aside, installed, links, latest, up, kills, raced      \* Update

U == INSTANCE Update

------------------------------------------------------------------------------
(* The configuration of a project, .binaflow/config.json, and those who    *)
(* write it: the wizard that creates it, the wizard that edits the         *)
(* profiles, an import that redirects the data directory, a change of the  *)
(* review mode, the web client's change of a profile, which closes the     *)
(* project and opens it again, and the web client that makes a project of  *)
(* a directory.  A writer reads the whole document, shows a preview, and   *)
(* later replaces the whole file; the first and the last make a new one.   *)

CONSTANTS Writers,     \* calls that write the configuration
          MaxEdits,    \* bound: changes a person makes with an editor
          MaxFaults    \* bound: failures to open the project again or to make its files

Fields == {"profiles", "dataDir", "preparation", "other"}
Absent == [f \in {} |-> 0]

VARIABLES config,   \* the file: a number for the content of each field, or Absent
          edits,    \* changes made with an editor
          call,     \* of each writer: [kind, pc, doc, hash, checked]
          project,  \* "open" or "closed": the active project of the web launcher
          faults,
          lost      \* changes of others a writer took back: [kind, seen]

configVars == <<config, edits, call, project, faults, lost>>

\* The field each kind of writer changes; the hash of the file is its content.
WriterKinds == {"create", "profiles", "dataDir", "preparation", "web", "initialize"}
FieldOf(kind) == IF kind \in {"profiles", "web"} THEN "profiles" ELSE kind
Idle == [kind |-> "create", pc |-> "idle", doc |-> Absent, hash |-> Absent, checked |-> Absent]

Go(w, pc) == call' = [call EXCEPT ![w].pc = pc]

\* Mutant: the hash is not compared before the file is replaced.
SourceUnchanged_Any(w) == call[w].pc = "previewed"

\* replaceConfigurationAtomically: previews with a hash demand that it is still the file's.
SourceUnchanged(w) == call[w].kind = "profiles" \/ call[w].hash = config

ConfigInit == /\ config \in {Absent, [f \in Fields |-> 0]} /\ edits = 0
              /\ call = [w \in Writers |-> Idle]
              /\ project = "open" /\ faults = 0 /\ lost = {}

\* generateConfiguration needs no file.  The others read it; the web client sends
\* the hash it was given and the file is read again to compare.
Read(w) == /\ call[w].pc = "idle"
           /\ \E kind \in WriterKinds \ {"initialize"} :
                /\ kind # "create" => config # Absent
                /\ kind = "web" => project = "open"
                /\ call' = [call EXCEPT ![w] = [Idle EXCEPT !.kind = kind, !.doc = config,
                              !.hash = IF kind = "web" THEN config ELSE Absent,
                              !.pc = IF kind \in {"dataDir", "preparation"} THEN "read" ELSE "previewed"]]
           /\ UNCHANGED <<config, edits, project, faults, lost>>

\* The hash is taken by a second read, which fails when the file is gone.
ReadHash(w) == /\ call[w].pc = "read"
               /\ IF config = Absent THEN Go(w, "refused")
                  ELSE call' = [call EXCEPT ![w].hash = config, ![w].pc = "previewed"]
               /\ UNCHANGED <<config, edits, project, faults, lost>>

\* The web launcher takes a change while the project is open, and awaits the file.
Accept(w) == /\ call[w].kind = "web" /\ call[w].pc = "previewed" /\ project = "open"
             /\ Go(w, IF call[w].hash = config THEN "accepted" ELSE "refused")
             /\ UNCHANGED <<config, edits, project, faults, lost>>

\* Then it closes the project, which another change may have done by now.
CloseProject(w) == /\ call[w].pc = "accepted" /\ Go(w, "closed") /\ project' = "closed"
                   /\ UNCHANGED <<config, edits, faults, lost>>

\* "Binaflow config changed since the preparation preview; confirm again"
Check(w) == /\ call[w].kind # "create"
            /\ call[w].pc = IF call[w].kind = "web" THEN "closed" ELSE "previewed"
            /\ IF SourceUnchanged(w) THEN call' = [call EXCEPT ![w].pc = "checked", ![w].checked = config]
               ELSE Go(w, IF call[w].kind = "web" THEN "retry" ELSE "refused")
            /\ UNCHANGED <<config, edits, project, faults, lost>>

\* The temporary file takes the name of the configuration, which may be gone, in one step.
Replace(w) ==
  LET c == call[w]
  IN /\ c.pc = "checked"
     /\ config' = [c.doc EXCEPT ![FieldOf(c.kind)] = w]
     /\ lost' = IF config \in {Absent, c.doc} THEN lost
                ELSE lost \cup {[kind |-> c.kind, seen |-> c.doc = c.hash /\ config = c.checked]}
     /\ Go(w, IF c.kind = "web" THEN "reopen" ELSE "written")
     /\ UNCHANGED <<edits, project, faults>>

\* Mutant: the first configuration is renamed into place like the others.
MayCreate_Rename == TRUE

\* link() fails on a name that exists.
MayCreate == config = Absent

\* The document of a new project.
Made(w) == [f \in Fields |-> IF f = "profiles" THEN w ELSE 0]

Create(w) == /\ call[w].kind = "create" /\ call[w].pc = "previewed"
             /\ IF MayCreate
                THEN /\ config' = Made(w)
                     /\ Go(w, "written")
                     /\ lost' = IF config = Absent THEN lost ELSE lost \cup {[kind |-> "create", seen |-> FALSE]}
                ELSE Go(w, "refused") /\ UNCHANGED <<config, lost>>
             /\ UNCHANGED <<edits, project, faults>>

\* initializeProjectAtPath refuses a configuration that is there when it looks.
Look(w) == /\ call[w].pc = "idle"
           /\ call' = [call EXCEPT ![w] = [Idle EXCEPT !.kind = "initialize", !.doc = config,
                                            !.pc = IF config = Absent THEN "looked" ELSE "refused"]]
           /\ UNCHANGED <<config, edits, project, faults, lost>>

\* A directory was made in between; a name that exists now is an error like any other.
MakeConfig(w) == /\ call[w].pc = "looked"
                 /\ IF config = Absent THEN config' = Made(w) /\ Go(w, "made")
                    ELSE Go(w, "undoing") /\ UNCHANGED config
                 /\ UNCHANGED <<edits, project, faults, lost>>

\* The rest of the write (nobody can parse the file before) and the data directory.
MakeData(w) == /\ call[w].pc = "made"
               /\ \/ Go(w, "written") /\ UNCHANGED faults
                  \/ faults < MaxFaults /\ faults' = faults + 1 /\ Go(w, "undoing")
               /\ UNCHANGED <<config, edits, project, lost>>

\* The catch clause removes whatever has the name now.
UndoMake(w) == /\ call[w].pc = "undoing" /\ config' = Absent /\ Go(w, "refused")
               /\ lost' = IF config \in {Absent, Made(w)} THEN lost
                          ELSE lost \cup {[kind |-> "initialize", seen |-> call[w].doc # Absent]}
               /\ UNCHANGED <<edits, project, faults>>

\* Mutant: a failure to open the project again is the end of the call.
AfterFailedReopen_End == "written"

\* A failure to select the project again is caught and it is selected once more;
\* without a configuration it can not be.
AfterFailedReopen == "retry"

Reopen(w) == /\ call[w].pc \in {"reopen", "retry"}
             /\ \/ config # Absent /\ project' = "open" /\ Go(w, "written") /\ UNCHANGED faults
                \/ /\ UNCHANGED project
                   /\ \/ config = Absent /\ UNCHANGED faults
                      \/ config # Absent /\ faults < MaxFaults /\ faults' = faults + 1
                   /\ Go(w, IF call[w].pc = "reopen" THEN AfterFailedReopen ELSE "unopened")
             /\ UNCHANGED <<config, edits, lost>>

\* A person edits the file, which no writer can prevent.
Edit == /\ config # Absent /\ edits < MaxEdits /\ edits' = edits + 1
        /\ config' = [config EXCEPT !.other = edits + 1]
        /\ UNCHANGED <<call, project, faults, lost>>

InitializeStep(w) == Look(w) \/ MakeConfig(w) \/ MakeData(w) \/ UndoMake(w)
ConfigStep(w) == \/ Read(w) \/ ReadHash(w) \/ Accept(w) \/ CloseProject(w) \/ Check(w) \/ Replace(w) \/ Create(w) \/ Reopen(w)
                 \/ InitializeStep(w)
ConfigNext == Edit \/ \E w \in Writers : ConfigStep(w)

(* A configuration is created only where there was none; a change of another *)
(* writer is taken back only by the wizard, whose preview carries no hash, or*)
(* when it fell between two reads of one preview, between the check and the  *)
(* rename, or between the moment an initialization saw no configuration and  *)
(* the moment its catch clause removes the one that is there.                *)
OnlyGapsLoseChanges == \A l \in lost : l.kind # "create" /\ (l.kind = "profiles" \/ ~l.seen)

(* A change of a profile, also one that is refused, leaves the project open  *)
(* unless the last attempt to open it failed.                                *)
ProjectReopened == project = "closed" =>
  \E w \in Writers : call[w].pc \in {"closed", "checked", "reopen", "retry", "unopened"}

ConfigInv == OnlyGapsLoseChanges /\ ProjectReopened

------------------------------------------------------------------------------
(* The settings of the web launcher (settings-store.ts): web.json, its     *)
(* last-good copy, the TLS files it names, and the controller that answers *)
(* from memory and saves.  Calls of one launcher overlap at every await;   *)
(* other launchers and people write the file too; the launcher crashes.    *)

CONSTANTS Updates,    \* calls of update, numbered from 1
          Foreign,    \* bound: writes by others
          MaxCrashes  \* bound

Torn == [by |-> -1, tls |-> 0]         \* not JSON
NoFile == [by |-> -2, tls |-> 0]
First == [by |-> 0, tls |-> 0]         \* defaultWebSettings

VARIABLES
  file, lastGood,   \* web.json and its copy: [by, tls]: who wrote it, which TLS files it names
  tlsFiles,         \* TLS files on disk; 0: none needed
  current, hash,    \* of the controller: what get() answers; the file it knows
  launcher,         \* "down" | "loaded" | "up"
  update,           \* of each call: [pc, next, read, known]
  foreign, crashes,
  overlapped,       \* two updates were between check and publication at once
  lostUpdates       \* writes of others that were overwritten: were they in a gap?

settingsVars == <<file, lastGood, tlsFiles, current, hash, launcher, update, foreign, crashes,
                  overlapped, lostUpdates>>

Saving == {"checked", "copying", "copied", "renamed"}
NoUpdate == [pc |-> "idle", next |-> First, read |-> NoFile, known |-> NoFile]
To(c, pc) == update' = [update EXCEPT ![c].pc = pc]

SettingsInit ==
  /\ file \in {NoFile, First} /\ lastGood = NoFile /\ tlsFiles = {0}
  /\ current = First /\ hash = NoFile /\ launcher = "down"
  /\ update = [c \in Updates |-> NoUpdate]
  /\ foreign = 0 /\ crashes = 0 /\ overlapped = FALSE /\ lostUpdates = {}

\* loadOrBootstrapWebSettings; a copy is used for a file that does not parse.
Load == /\ launcher = "down"
        /\ CASE file = NoFile -> current' = First /\ launcher' = "loaded"
             [] file = Torn -> current' = lastGood /\ lastGood \notin {NoFile, Torn} /\ launcher' = "loaded"
             [] OTHER -> current' = file /\ launcher' = "loaded"
        /\ UNCHANGED <<file, lastGood, tlsFiles, hash, update, foreign, crashes, overlapped, lostUpdates>>

\* The hash is that of another read.
Boot == /\ launcher = "loaded" /\ launcher' = "up" /\ hash' = file
        /\ UNCHANGED <<file, lastGood, tlsFiles, current, update, foreign, crashes, overlapped, lostUpdates>>

\* New settings with TLS material of their own, or naming the files of the current ones.
Request(c) ==
  /\ launcher = "up" /\ update[c].pc = "idle"
  /\ \/ /\ tlsFiles' = tlsFiles \cup {c}
        /\ update' = [update EXCEPT ![c] = [pc |-> "ready", next |-> [by |-> c, tls |-> c], read |-> NoFile, known |-> NoFile]]
     \/ /\ update' = [update EXCEPT ![c] = [pc |-> "ready", next |-> [by |-> c, tls |-> current.tls], read |-> NoFile, known |-> NoFile]]
        /\ UNCHANGED tlsFiles
  /\ UNCHANGED <<file, lastGood, current, hash, launcher, foreign, crashes, overlapped, lostUpdates>>

\* Mutant: the file is not compared with what the controller knows.
Stale_Never(seen) == FALSE

\* No hash is known while there was no file.
Stale(seen) == hash # NoFile /\ hash # seen

\* Mutant: a refused update removes the files its settings name.
Discarded_Named(c) == {update[c].next.tls}

\* The TLS files a refused update leaves behind are those it imported itself.
Discarded(c) == {c}

CheckHash(c) ==
  /\ update[c].pc = "ready"
  /\ IF Stale(file) THEN To(c, "refused") /\ tlsFiles' = tlsFiles \ Discarded(c) /\ UNCHANGED overlapped
     ELSE /\ update' = [update EXCEPT ![c].pc = "checked", ![c].read = file, ![c].known = hash]
          /\ overlapped' = (overlapped \/ \E d \in Updates : update[d].pc \in Saving)
          /\ UNCHANGED tlsFiles
  /\ UNCHANGED <<file, lastGood, current, hash, launcher, foreign, crashes, lostUpdates>>

\* The copy is written in place, from what was read.
CopyLastGood(c) ==
  /\ \/ update[c].pc = "checked" /\ update[c].read # NoFile /\ lastGood' = Torn /\ To(c, "copying")
     \/ update[c].pc = "copying" /\ lastGood' = update[c].read /\ To(c, "copied")
  /\ UNCHANGED <<file, tlsFiles, current, hash, launcher, foreign, crashes, overlapped, lostUpdates>>

Rename(c) ==
  /\ update[c].pc = IF update[c].read = NoFile THEN "checked" ELSE "copied"
  /\ file' = update[c].next /\ To(c, "renamed")
  /\ lostUpdates' = IF file \in {NoFile, update[c].known} THEN lostUpdates
                    ELSE lostUpdates \cup {update[c].known = NoFile \/ file # update[c].read}
  /\ UNCHANGED <<lastGood, tlsFiles, current, hash, launcher, foreign, crashes, overlapped>>

\* Back in update: the controller answers from memory.
Publish(c) == /\ update[c].pc = "renamed" /\ To(c, "done")
              /\ current' = update[c].next /\ hash' = update[c].next
              /\ UNCHANGED <<file, lastGood, tlsFiles, launcher, foreign, crashes, overlapped, lostUpdates>>

\* Another launcher replaces the file, or a person breaks it.
WriteForeign == /\ foreign < Foreign /\ foreign' = foreign + 1
                /\ file' \in {Torn, [by |-> 9, tls |-> 0]}
                /\ UNCHANGED <<lastGood, tlsFiles, current, hash, launcher, update, crashes, overlapped, lostUpdates>>

CrashLauncher == /\ launcher # "down" /\ crashes < MaxCrashes /\ crashes' = crashes + 1 /\ launcher' = "down"
                 /\ update' = [c \in Updates |-> IF update[c].pc \in {"idle", "refused", "done"} THEN update[c]
                                                 ELSE [update[c] EXCEPT !.pc = "refused"]]
                 /\ UNCHANGED <<file, lastGood, tlsFiles, current, hash, foreign, overlapped, lostUpdates>>

SettingsNext == \/ Load \/ Boot \/ WriteForeign \/ CrashLauncher
                \/ \E c \in Updates : Request(c) \/ CheckHash(c) \/ CopyLastGood(c) \/ Rename(c) \/ Publish(c)

(* The TLS files named by the settings in force and on disk exist.           *)
TlsFilesExist == {file.tls, lastGood.tls, current.tls} \subseteq tlsFiles

(* Settings somebody else saved are overwritten only when that happened      *)
(* between check and rename, or when there was no file when the launcher     *)
(* started.                                                                  *)
OnlyGapsLoseSettings == lostUpdates \subseteq {TRUE}

(* What get() answers is what was saved, when no two updates overlapped and  *)
(* nobody else wrote.                                                        *)
CurrentIsSaved == (launcher = "up" /\ ~overlapped /\ foreign = 0 /\ file # NoFile
                     /\ \A c \in Updates : update[c].pc \notin Saving)
                  => current = file

(* A crash leaves settings that can be loaded.                               *)
Loadable == foreign = 0 => file # Torn

SettingsInv == TlsFilesExist /\ OnlyGapsLoseSettings /\ CurrentIsSaved /\ Loadable

------------------------------------------------------------------------------
(* projects.json, the projects a launcher knows (FileProjectCatalog): every  *)
(* change reads the file, validates and replaces it, one after another in a  *)
(* queue of the process; another launcher has a queue of its own.            *)

CONSTANTS Catalogs,    \* FileProjectCatalog objects, each in its process
          Changes,     \* calls, numbered from 1
          Workspaces   \* directories of projects

VARIABLES projects,    \* the file: [workspace -> owner], by whom it was changed last
          queue,       \* of each catalog: the calls on mutationQueue
          change,      \* of each call: [pc, kind, workspace, read]
          disturbed,   \* another catalog saved between read and save of a call
          answered     \* what calls were told: [workspace -> call], 0 for removed

catalogVars == <<projects, queue, change, disturbed, answered>>

Empty == [w \in {} |-> 0]
With(f, w, v) == [x \in DOMAIN f \cup {w} |-> IF x = w THEN v ELSE f[x]]
Without(f, w) == [x \in DOMAIN f \ {w} |-> f[x]]

CatalogInit == /\ projects = Empty /\ queue = [k \in Catalogs |-> <<>>]
               /\ change = [c \in Changes |-> [pc |-> "idle", kind |-> "register", workspace |-> CHOOSE w \in Workspaces : TRUE,
                                                read |-> Empty]]
               /\ disturbed = FALSE /\ answered = Empty

Enqueue(c, k) == /\ change[c].pc = "idle"
                 /\ \E kind \in {"register", "remove", "ownership", "invalid"}, w \in Workspaces :
                      change' = [change EXCEPT ![c] = [pc |-> "queued", kind |-> kind, workspace |-> w, read |-> Empty]]
                 /\ queue' = [queue EXCEPT ![k] = Append(@, c)]
                 /\ UNCHANGED <<projects, disturbed, answered>>

\* Mutant: calls run as they come.
Turn_Any(c, k) == c \in Range(queue[k])
\* A call runs when all before it have settled, whether they failed or not.
Turn(c, k) == queue[k] # <<>> /\ Head(queue[k]) = c

End(c, k, pc) == /\ change' = [change EXCEPT ![c].pc = pc]
                 /\ queue' = [queue EXCEPT ![k] = Tail(@)]

\* The workspace is validated first; a known one is answered without a change,
\* and a change of an unknown project is an error or nothing to do.
ReadCatalog(c, k) ==
  LET x == change[c] known == x.workspace \in DOMAIN projects IN
  /\ Turn(c, k) /\ x.pc = "queued"
  /\ CASE x.kind = "invalid" -> End(c, k, "failed") /\ UNCHANGED answered
       [] x.kind = "register" /\ known -> End(c, k, "done") /\ answered' = With(answered, x.workspace, projects[x.workspace])
       [] x.kind = "ownership" /\ ~known -> End(c, k, "failed") /\ UNCHANGED answered
       [] x.kind = "remove" /\ ~known -> End(c, k, "done") /\ answered' = Without(answered, x.workspace)
       [] OTHER -> /\ change' = [change EXCEPT ![c].pc = "saving", ![c].read = projects]
                   /\ UNCHANGED <<queue, answered>>
  /\ UNCHANGED <<projects, disturbed>>

SaveCatalog(c, k) ==
  LET x == change[c] IN
  /\ Turn(c, k) /\ x.pc = "saving"
  /\ projects' = IF x.kind = "remove" THEN Without(x.read, x.workspace) ELSE With(x.read, x.workspace, c)
  /\ answered' = IF x.kind = "remove" THEN Without(answered, x.workspace) ELSE With(answered, x.workspace, c)
  /\ disturbed' = (disturbed \/ \E d \in Changes \ {c}, j \in Catalogs \ {k} : change[d].pc = "saving" /\ d \in Range(queue[j]))
  /\ End(c, k, "done")

\* The process ends in the middle of a save; its temporary file stays.
Stop(k) == /\ queue[k] # <<>>
           /\ change' = [c \in Changes |-> IF c \in Range(queue[k]) THEN [change[c] EXCEPT !.pc = "failed"] ELSE change[c]]
           /\ queue' = [queue EXCEPT ![k] = <<>>]
           /\ UNCHANGED <<projects, disturbed, answered>>

CatalogNext == \E k \in Catalogs : \/ Stop(k)
                                   \/ \E c \in Changes : Enqueue(c, k) \/ ReadCatalog(c, k) \/ SaveCatalog(c, k)

(* What calls were told is what the file holds: no change of one call takes  *)
(* back that of another, unless two launchers changed the catalog at once.   *)
CatalogInv == ~disturbed => projects = answered

------------------------------------------------------------------------------
(* The identity of a device is a pair of key files, loaded or made when a    *)
(* launcher starts (loadOrCreateDeviceIdentity); nothing keeps two launchers *)
(* from starting at once.                                                    *)

CONSTANTS Starts,       \* starts of a launcher, numbered from 1
          MaxDeaths     \* bound: launchers that die while they start

VARIABLES private, public,   \* the key files: the start that made them, 0 if absent
          start,             \* of each start: [pc, private, public]: what it read or made
          deaths,
          together           \* two launchers were making keys at once

identityVars == <<private, public, start, deaths, together>>

Making == {"make", "half"}
Step(s, r) == start' = [start EXCEPT ![s] = r]

IdentityInit == /\ private = 0 /\ public = 0 /\ deaths = 0 /\ together = FALSE
                /\ start = [s \in Starts |-> [pc |-> "off", private |-> 0, public |-> 0]]

ReadPrivate(s) == /\ start[s].pc = "off"
                  /\ Step(s, [start[s] EXCEPT !.pc = "read", !.private = private])
                  /\ UNCHANGED <<private, public, deaths, together>>

\* Mutant: the public key is not compared with the private one.
Matches_Any(a, b) == a # 0 /\ b # 0
\* Two files that are there, and the public key is the private one's.
Matches(a, b) == a # 0 /\ a = b

ReadPublic(s) ==
  /\ start[s].pc = "read"
  /\ LET r == [start[s] EXCEPT !.public = public]
         none == r.private = 0 /\ public = 0
     IN /\ Step(s, [r EXCEPT !.pc = IF none THEN "make" ELSE IF Matches(r.private, public) THEN "up" ELSE "failed",
                             !.private = IF none THEN s ELSE @, !.public = IF none THEN s ELSE @])
        /\ together' = (together \/ (none /\ \E t \in Starts \ {s} : start[t].pc \in Making \cup {"read"}))
  /\ UNCHANGED <<private, public, deaths>>

\* Each file must be new; when one is not, both are removed.
WritePrivate(s) == /\ start[s].pc = "make"
                   /\ IF private = 0
                      THEN private' = s /\ Step(s, [start[s] EXCEPT !.pc = "half"]) /\ UNCHANGED public
                      ELSE private' = 0 /\ public' = 0 /\ Step(s, [start[s] EXCEPT !.pc = "failed"])
                   /\ UNCHANGED <<deaths, together>>

WritePublic(s) == /\ start[s].pc = "half"
                  /\ IF public = 0
                     THEN public' = s /\ Step(s, [start[s] EXCEPT !.pc = "up"]) /\ UNCHANGED private
                     ELSE private' = 0 /\ public' = 0 /\ Step(s, [start[s] EXCEPT !.pc = "failed"])
                  /\ UNCHANGED <<deaths, together>>

Die(s) == /\ start[s].pc \in Making \cup {"read"} /\ deaths < MaxDeaths /\ deaths' = deaths + 1
          /\ Step(s, [start[s] EXCEPT !.pc = "failed"])
          /\ UNCHANGED <<private, public, together>>

IdentityNext == \E s \in Starts :
  ReadPrivate(s) \/ ReadPublic(s) \/ WritePrivate(s) \/ WritePublic(s) \/ Die(s)

(* A launcher never uses a public key that is not its private key's, and, if *)
(* no two made keys at once, all that run use the identity on disk: it is not*)
(* replaced by another, whoever died while making it.                        *)
IdentityInv == \A s \in Starts : start[s].pc = "up" =>
                 /\ start[s].private = start[s].public
                 /\ ~together => private = start[s].private /\ public = start[s].public

------------------------------------------------------------------------------
(* The parts together *)

updateVars == <<lock, aside, installed, links, latest, up, kills, raced>>
vars == <<part, configVars, settingsVars, catalogVars, identityVars, updateVars>>

\* The parts not chosen stay in one initial state.
Init == /\ part \in {"config", "settings", "catalog", "identity", "update"}
        /\ part # "config" => config = Absent
        /\ part # "settings" => file = First
        /\ ConfigInit /\ SettingsInit /\ CatalogInit /\ IdentityInit /\ U!UpdateInit

Next ==
    /\ UNCHANGED part
    /\ \/ part = "config" /\ ConfigNext /\ UNCHANGED <<settingsVars, catalogVars, identityVars, updateVars>>
       \/ part = "settings" /\ SettingsNext /\ UNCHANGED <<configVars, catalogVars, identityVars, updateVars>>
       \/ part = "catalog" /\ CatalogNext /\ UNCHANGED <<configVars, settingsVars, identityVars, updateVars>>
       \/ part = "identity" /\ IdentityNext /\ UNCHANGED <<configVars, settingsVars, catalogVars, updateVars>>
       \/ part = "update" /\ U!UpdateNext /\ UNCHANGED <<configVars, settingsVars, catalogVars, identityVars>>

Spec == Init /\ [][Next]_vars

-----------------------------------------------------------------------------
\* Nobody's saved change is taken back except in the gaps the code leaves; what the
\* files name exists; what was answered is what is on disk; the identity stays;
\* one update at a time changes the installed versions.
Inv ==
    CASE part = "config" -> ConfigInv
      [] part = "settings" -> SettingsInv
      [] part = "catalog" -> CatalogInv
      [] part = "identity" -> IdentityInv
      [] part = "update" -> U!UpdateInv
=============================================================================
