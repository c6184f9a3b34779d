----------------------------- MODULE FilesProofs ------------------------------
(***************************************************************************)
(* Proofs about the files of module Store: those a project and its device  *)
(* keep beside the database (LocalFiles), the program's own (Update), for  *)
(* any number of those who write them, and those the documents of a task   *)
(* name (TaskScope), in whatever forms of paths.  The files change apart,  *)
(* so each part has an invariant of its own; FilesIInv is all of them.     *)
(* Then the lists of the store (Pages), for any number of rows; and all    *)
(* the parts of the store together.                                        *)
(***************************************************************************)
EXTENDS StoreProofs, FiniteSetTheorems, SequenceTheorems

-----------------------------------------------------------------------------
(* The configuration of a project *)

Configurations == {LF!Absent} \cup [LF!Fields -> Nat \cup Savers]
ConfigPhases == {"idle", "read", "previewed", "accepted", "closed", "checked", "reopen", "retry", "written", "refused",
                 "unopened", "looked", "made", "undoing"}
ConfigCalls ==
    [kind : LF!WriterKinds, pc : ConfigPhases, doc : Configurations, hash : Configurations, checked : Configurations]

\* A preview with a hash is checked against it, and the project is closed by a change of
\* the web client that has not given up yet.
ConfigTypes ==
    /\ config \in Configurations /\ edits \in Nat
    /\ writers \in [Savers -> ConfigCalls]
    /\ project \in {"open", "closed"}
ConfigChecked ==
    \A w \in Savers : writers[w].pc = "checked" =>
        /\ writers[w].kind \notin {"create", "initialize"}
        /\ writers[w].kind # "profiles" => writers[w].hash = writers[w].checked
\* An initialization that saw a configuration is refused and removes none; the web client
\* alone closes the project.
ConfigLooked ==
    \A w \in Savers :
        /\ writers[w].pc \in {"looked", "made", "undoing"} =>
               writers[w].kind = "initialize" /\ writers[w].doc = LF!Absent
        /\ writers[w].pc = "accepted" => writers[w].kind = "web"
        /\ writers[w].kind = "initialize" => writers[w].pc \in {"looked", "made", "undoing", "written", "refused"}
ConfigClosed ==
    project = "closed" =>
        \E w \in Savers : /\ writers[w].kind = "web"
                          /\ writers[w].pc \in {"closed", "checked", "reopen", "retry", "unopened"}
ConfigIInv == ConfigTypes /\ ConfigChecked /\ ConfigLooked /\ ConfigClosed /\ LF!OnlyGapsLoseChanges

LEMMA ConfigStart == LF!ConfigInit => ConfigIInv
<1> SUFFICES ASSUME LF!ConfigInit PROVE ConfigIInv
  OBVIOUS
<1> USE DEF LF!ConfigInit
<1>1. config \in Configurations
  BY DEF Configurations, LF!Fields
<1>2. LF!Idle \in ConfigCalls
  BY DEF ConfigCalls, ConfigPhases, LF!Idle, LF!WriterKinds, Configurations
<1>3. ConfigTypes
  <2>1. writers \in [Savers -> ConfigCalls] /\ writers = [w \in Savers |-> LF!Idle]
    BY <1>2
  <2> QED
    BY <1>1, <2>1 DEF ConfigTypes
<1>4. ConfigChecked /\ ConfigLooked
  BY DEF ConfigChecked, ConfigLooked, LF!Idle
<1> QED
  BY <1>3, <1>4 DEF ConfigIInv, ConfigClosed, LF!OnlyGapsLoseChanges

LEMMA ConfigTypesKept == ConfigTypes /\ LF!ConfigNext => ConfigTypes'
<1> SUFFICES ASSUME ConfigTypes, LF!ConfigNext PROVE ConfigTypes'
  OBVIOUS
<1> USE DEF ConfigTypes
<1>0. LF!Absent \in Configurations
  BY DEF Configurations
<1>1. CASE LF!Edit
  <2>1. config \in [LF!Fields -> Nat \cup Savers]
    BY <1>1 DEF LF!Edit, Configurations
  <2> QED
    BY <1>1, <2>1 DEF LF!Edit, Configurations
<1>2. ASSUME NEW w \in Savers, LF!ConfigStep(w) PROVE ConfigTypes'
  <2>0. writers[w] \in ConfigCalls
    OBVIOUS
  <2>9. ASSUME NEW pc \in ConfigPhases, LF!Go(w, pc) PROVE writers' \in [Savers -> ConfigCalls]
    <3>1. [writers[w] EXCEPT !.pc = pc] \in ConfigCalls
      BY <2>0 DEF ConfigCalls
    <3> QED
      BY <3>1, <2>9 DEF LF!Go
  <2>8. LF!Made(w) \in Configurations
    BY DEF LF!Made, Configurations
  <2>1. CASE LF!Read(w)
    <3>1. PICK kind \in LF!WriterKinds : writers' = [writers EXCEPT ![w] =
             [LF!Idle EXCEPT !.kind = kind, !.doc = config,
                             !.hash = IF kind = "web" THEN config ELSE LF!Absent,
                             !.pc = IF kind \in {"dataDir", "preparation"} THEN "read" ELSE "previewed"]]
      BY <2>1 DEF LF!Read
    <3>2. writers'[w] \in ConfigCalls
      BY <1>0, <3>1 DEF ConfigCalls, ConfigPhases, LF!Idle
    <3> QED
      BY <2>1, <3>1, <3>2 DEF LF!Read
  <2>2. CASE LF!ReadHash(w)
    <3>1. [writers[w] EXCEPT !.hash = config, !.pc = "previewed"] \in ConfigCalls
      BY <2>0 DEF ConfigCalls, ConfigPhases
    <3>2. CASE config = LF!Absent
      BY <2>2, <2>9, <3>2 DEF LF!ReadHash, ConfigPhases
    <3>3. CASE config # LF!Absent
      BY <2>2, <3>1, <3>3 DEF LF!ReadHash
    <3> QED
      BY <3>2, <3>3
  <2>3. CASE LF!Accept(w) \/ LF!CloseProject(w)
    BY <2>3, <2>9 DEF LF!Accept, LF!CloseProject, ConfigPhases
  <2>4. CASE LF!Check(w)
    <3>1. [writers[w] EXCEPT !.pc = "checked", !.checked = config] \in ConfigCalls
      BY <2>0 DEF ConfigCalls, ConfigPhases
    <3>2. CASE LF!SourceUnchanged(w)
      BY <2>4, <3>1, <3>2 DEF LF!Check
    <3>3. CASE ~LF!SourceUnchanged(w)
      BY <2>4, <2>9, <3>3 DEF LF!Check, ConfigPhases
    <3> QED
      BY <3>2, <3>3
  <2>5. CASE LF!Replace(w)
    <3>1. config' \in Configurations
      <4>1. config' = [writers[w].doc EXCEPT ![LF!FieldOf(writers[w].kind)] = w]
        BY <2>5 DEF LF!Replace
      <4>2. writers[w].doc \in Configurations
        BY <2>0 DEF ConfigCalls
      <4>3. CASE writers[w].doc = LF!Absent
        BY <4>1, <4>3 DEF LF!Absent, Configurations
      <4>4. CASE writers[w].doc \in [LF!Fields -> Nat \cup Savers]
        BY <4>1, <4>4 DEF Configurations
      <4> QED
        BY <4>2, <4>3, <4>4 DEF Configurations
    <3> QED
      BY <2>5, <2>9, <3>1 DEF LF!Replace, ConfigPhases
  <2>6. CASE LF!Create(w)
    <3>1. config' \in Configurations
      BY <2>6, <2>8 DEF LF!Create, Configurations
    <3> QED
      BY <2>6, <2>9, <3>1 DEF LF!Create, ConfigPhases
  <2>7. CASE LF!Reopen(w)
    <3>1. LF!AfterFailedReopen \in ConfigPhases
      BY DEF LF!AfterFailedReopen, ConfigPhases
    <3> QED
      BY <2>7, <2>9, <3>1 DEF LF!Reopen, ConfigPhases
  <2>10. CASE LF!Look(w)
    <3>1. writers' = [writers EXCEPT ![w] = [LF!Idle EXCEPT !.kind = "initialize", !.doc = config,
                         !.pc = IF config = LF!Absent THEN "looked" ELSE "refused"]]
      BY <2>10 DEF LF!Look
    <3>2. writers'[w] \in ConfigCalls
      BY <1>0, <3>1 DEF ConfigCalls, ConfigPhases, LF!Idle, LF!WriterKinds
    <3> QED
      BY <2>10, <3>1, <3>2 DEF LF!Look
  <2>11. CASE LF!MakeConfig(w)
    BY <2>8, <2>9, <2>11 DEF LF!MakeConfig, ConfigPhases
  <2>12. CASE LF!MakeData(w)
    BY <2>9, <2>12 DEF LF!MakeData, ConfigPhases
  <2>13. CASE LF!UndoMake(w)
    BY <1>0, <2>9, <2>13 DEF LF!UndoMake, ConfigPhases
  <2> QED
    BY <1>2, <2>1, <2>2, <2>3, <2>4, <2>5, <2>6, <2>7, <2>10, <2>11, <2>12, <2>13
       DEF LF!ConfigStep, LF!InitializeStep
<1> QED
  BY <1>1, <1>2 DEF LF!ConfigNext

\* What a step makes of the call it takes, the others staying as they are.
LEMMA ConfigOthers ==
    ASSUME ConfigTypes, NEW w \in Savers, LF!ConfigStep(w)
    PROVE  /\ \A v \in Savers \ {w} : writers'[v] = writers[v]
           /\ writers[w].pc = "idle" \/ writers'[w].kind = writers[w].kind
<1> USE DEF ConfigTypes
<1>1. writers[w] \in ConfigCalls
  OBVIOUS
<1>2. \A pc \in ConfigPhases : LF!Go(w, pc) => /\ \A v \in Savers \ {w} : writers'[v] = writers[v]
                              /\ writers'[w].kind = writers[w].kind /\ writers'[w].pc = pc
  BY <1>1 DEF LF!Go, ConfigCalls
<1>3. CASE LF!Read(w)
  BY <1>3 DEF LF!Read
<1>5. CASE LF!ReadHash(w)
  BY <1>1, <1>2, <1>5 DEF LF!ReadHash, ConfigCalls, ConfigPhases
<1>6. CASE LF!Check(w)
  <2>1. CASE LF!SourceUnchanged(w)
    BY <1>1, <1>6, <2>1 DEF LF!Check, ConfigCalls
  <2>2. CASE ~LF!SourceUnchanged(w)
    BY <1>2, <1>6, <2>2 DEF LF!Check, ConfigPhases
  <2> QED
    BY <2>1, <2>2
<1>4. CASE LF!Accept(w) \/ LF!CloseProject(w) \/ LF!Replace(w) \/ LF!Create(w) \/ LF!Reopen(w)
  BY <1>2, <1>4 DEF LF!Accept, LF!CloseProject, LF!Replace, LF!Create, LF!Reopen, LF!AfterFailedReopen, ConfigPhases
<1>7. CASE LF!Look(w)
  BY <1>7 DEF LF!Look
<1>8. CASE LF!MakeConfig(w) \/ LF!MakeData(w) \/ LF!UndoMake(w)
  BY <1>2, <1>8 DEF LF!MakeConfig, LF!MakeData, LF!UndoMake, ConfigPhases
<1> QED
  BY <1>3, <1>4, <1>5, <1>6, <1>7, <1>8 DEF LF!ConfigStep, LF!InitializeStep

LEMMA ConfigKept == ConfigIInv /\ LF!ConfigNext => ConfigIInv'
<1> SUFFICES ASSUME ConfigIInv, LF!ConfigNext PROVE ConfigIInv'
  OBVIOUS
<1> USE DEF ConfigIInv
<1>1. ConfigTypes'
  BY ConfigTypesKept
<1>2. CASE LF!Edit
  BY <1>1, <1>2 DEF LF!Edit, ConfigChecked, ConfigLooked, ConfigClosed, LF!OnlyGapsLoseChanges
<1>3. ASSUME NEW w \in Savers, LF!ConfigStep(w)
      PROVE  ConfigChecked' /\ ConfigLooked' /\ ConfigClosed' /\ LF!OnlyGapsLoseChanges'
  <2>0. /\ writers[w] \in ConfigCalls /\ writers \in [Savers -> ConfigCalls]
        /\ \A v \in Savers \ {w} : writers'[v] = writers[v]
        /\ writers[w].pc = "idle" \/ writers'[w].kind = writers[w].kind
    BY <1>3, ConfigOthers DEF ConfigTypes
  <2>9. \A pc \in ConfigPhases : LF!Go(w, pc) => writers'[w].pc = pc
    BY <2>0 DEF LF!Go, ConfigCalls
  <2>1. ConfigChecked'
    <3>1. ASSUME writers'[w].pc = "checked"
          PROVE  /\ writers'[w].kind \notin {"create", "initialize"}
                 /\ writers'[w].kind # "profiles" => writers'[w].hash = writers'[w].checked
      <4>1. ~LF!Read(w) /\ ~LF!ReadHash(w) /\ ~LF!Look(w)
        <5>1. LF!Read(w) => writers'[w].pc \in {"read", "previewed"}
          BY <2>0 DEF LF!Read, LF!Idle
        <5>2. LF!ReadHash(w) => writers'[w].pc \in {"refused", "previewed"}
          <6>1. CASE config = LF!Absent
            BY <2>9, <6>1 DEF LF!ReadHash, ConfigPhases
          <6>2. CASE config # LF!Absent
            BY <2>0, <6>2 DEF LF!ReadHash, ConfigCalls
          <6> QED
            BY <6>1, <6>2
        <5>3. LF!Look(w) => writers'[w].pc \in {"looked", "refused"}
          BY <2>0 DEF LF!Look, LF!Idle
        <5> QED
          BY <3>1, <5>1, <5>2, <5>3
      <4>2. ~LF!Accept(w) /\ ~LF!CloseProject(w) /\ ~LF!Replace(w) /\ ~LF!Create(w) /\ ~LF!Reopen(w)
        BY <2>9, <3>1 DEF LF!Accept, LF!CloseProject, LF!Replace, LF!Create, LF!Reopen, LF!AfterFailedReopen, ConfigPhases
      <4>3. LF!Check(w)
        <5>1. ~LF!MakeConfig(w) /\ ~LF!MakeData(w) /\ ~LF!UndoMake(w)
          BY <2>9, <3>1 DEF LF!MakeConfig, LF!MakeData, LF!UndoMake, ConfigPhases
        <5> QED
          BY <1>3, <4>1, <4>2, <5>1 DEF LF!ConfigStep, LF!InitializeStep
      <4>4. LF!SourceUnchanged(w)
        BY <2>9, <3>1, <4>3 DEF LF!Check, ConfigPhases
      <4>5. writers[w].kind # "initialize"
        BY <4>3 DEF LF!Check, ConfigLooked
      <4> QED
        BY <2>0, <4>3, <4>4, <4>5 DEF LF!Check, LF!SourceUnchanged, ConfigCalls
    <3> QED
      BY <2>0, <3>1 DEF ConfigChecked
  <2>4. ConfigLooked'
    <3> SUFFICES /\ writers'[w].pc \in {"looked", "made", "undoing"} =>
                       writers'[w].kind = "initialize" /\ writers'[w].doc = LF!Absent
                 /\ writers'[w].kind = "initialize" =>
                       writers'[w].pc \in {"looked", "made", "undoing", "written", "refused"}
                 /\ writers'[w].pc = "accepted" => writers'[w].kind = "web"
      BY <2>0 DEF ConfigLooked
    <3>1. \A pc \in ConfigPhases : LF!Go(w, pc) =>
             writers'[w].kind = writers[w].kind /\ writers'[w].doc = writers[w].doc
      BY <2>0 DEF LF!Go, ConfigCalls
    <3>2. CASE LF!Read(w)
      BY <2>0, <3>2 DEF LF!Read, LF!Idle
    <3>3. CASE LF!ReadHash(w)
      BY <2>0, <2>9, <3>1, <3>3 DEF LF!ReadHash, ConfigCalls, ConfigPhases, ConfigLooked
    <3>4. CASE LF!Check(w)
      <4>1. CASE LF!SourceUnchanged(w)
        BY <2>0, <3>4, <4>1 DEF LF!Check, ConfigCalls, ConfigLooked
      <4>2. CASE ~LF!SourceUnchanged(w)
        BY <2>9, <3>1, <3>4, <4>2 DEF LF!Check, ConfigPhases, ConfigLooked
      <4> QED
        BY <4>1, <4>2
    <3>5. CASE LF!Accept(w) \/ LF!CloseProject(w) \/ LF!Replace(w) \/ LF!Create(w) \/ LF!Reopen(w)
      BY <2>9, <3>1, <3>5 DEF LF!Accept, LF!CloseProject, LF!Replace, LF!Create, LF!Reopen, LF!AfterFailedReopen,
                              ConfigPhases, ConfigLooked
    <3>6. CASE LF!Look(w)
      BY <2>0, <3>6 DEF LF!Look, LF!Idle
    <3>7. CASE LF!MakeConfig(w) \/ LF!MakeData(w) \/ LF!UndoMake(w)
      BY <2>9, <3>1, <3>7 DEF LF!MakeConfig, LF!MakeData, LF!UndoMake, ConfigPhases, ConfigLooked
    <3> QED
      BY <1>3, <3>2, <3>3, <3>4, <3>5, <3>6, <3>7 DEF LF!ConfigStep, LF!InitializeStep
  <2>2. ConfigClosed'
    <3> SUFFICES ASSUME project' = "closed"
                 PROVE  \E v \in Savers : /\ writers'[v].kind = "web"
                          /\ writers'[v].pc \in {"closed", "checked", "reopen", "retry", "unopened"}
      BY DEF ConfigClosed
    <3>1. CASE project = "open"
      <4>1. LF!CloseProject(w)
        BY <1>3, <3>1 DEF LF!ConfigStep, LF!Read, LF!ReadHash, LF!Accept, LF!Check, LF!Replace, LF!Create,
                          LF!Reopen, LF!InitializeStep, LF!Look, LF!MakeConfig, LF!MakeData, LF!UndoMake
      <4> QED
        BY <2>0, <2>9, <3>1, <4>1 DEF LF!CloseProject, ConfigPhases, ConfigLooked
    <3>2. CASE project = "closed"
      <4>1. PICK v \in Savers : /\ writers[v].kind = "web"
                                /\ writers[v].pc \in {"closed", "checked", "reopen", "retry", "unopened"}
        BY <3>2 DEF ConfigClosed
      <4>2. CASE v # w
        BY <2>0, <4>1, <4>2
      <4>3. CASE v = w
        <5>1. ~LF!Read(w) /\ ~LF!ReadHash(w) /\ ~LF!Accept(w) /\ ~LF!CloseProject(w) /\ ~LF!Create(w)
          BY <4>1, <4>3 DEF LF!Read, LF!ReadHash, LF!Accept, LF!CloseProject, LF!Create
        <5>2. CASE LF!Check(w)
          BY <2>0, <2>9, <4>1, <4>3, <5>2 DEF LF!Check, ConfigCalls, ConfigPhases
        <5>3. CASE LF!Replace(w)
          BY <2>0, <2>9, <4>1, <4>3, <5>3 DEF LF!Replace, ConfigPhases
        <5>4. CASE LF!Reopen(w)
          BY <2>0, <2>9, <4>1, <4>3, <5>4 DEF LF!Reopen, LF!AfterFailedReopen, ConfigPhases
        <5>5. ~LF!InitializeStep(w)
          BY <4>1, <4>3 DEF LF!InitializeStep, LF!Look, LF!MakeConfig, LF!MakeData, LF!UndoMake
        <5> QED
          BY <1>3, <5>1, <5>2, <5>3, <5>4, <5>5 DEF LF!ConfigStep
      <4> QED
        BY <4>2, <4>3
    <3> QED
      BY <3>1, <3>2 DEF ConfigTypes
  <2>3. LF!OnlyGapsLoseChanges'
    <3>1. CASE LF!Replace(w)
      <4> DEFINE loss == [kind |-> writers[w].kind,
                         seen |-> writers[w].doc = writers[w].hash /\ config = writers[w].checked]
      <4>1. lost' = IF config \in {LF!Absent, writers[w].doc} THEN lost ELSE lost \cup {loss}
        BY <3>1 DEF LF!Replace
      <4>2. writers[w].pc = "checked"
        BY <3>1 DEF LF!Replace
      <4>3. loss.kind # "create" /\ loss.kind = writers[w].kind
        BY <4>2 DEF ConfigChecked
      <4>4. ASSUME config # writers[w].doc, writers[w].kind # "profiles" PROVE ~loss.seen
        <5>1. writers[w].hash = writers[w].checked
          BY <4>2, <4>4 DEF ConfigChecked
        <5> QED
          BY <4>4, <5>1
      <4> HIDE DEF loss
      <4> QED
        BY <4>1, <4>3, <4>4 DEF LF!OnlyGapsLoseChanges
    <3>2. CASE LF!Create(w)
      BY <3>2 DEF LF!Create, LF!MayCreate, LF!OnlyGapsLoseChanges
    <3>3. CASE LF!UndoMake(w)
      <4>1. writers[w].doc = LF!Absent
        BY <3>3 DEF LF!UndoMake, ConfigLooked
      <4> DEFINE loss == [kind |-> "initialize", seen |-> writers[w].doc # LF!Absent]
      <4>2. lost' \subseteq lost \cup {loss}
        BY <3>3 DEF LF!UndoMake
      <4>3. loss.kind # "create" /\ ~loss.seen
        BY <4>1
      <4> HIDE DEF loss
      <4> QED
        BY <4>2, <4>3 DEF LF!OnlyGapsLoseChanges
    <3> QED
      BY <1>3, <3>1, <3>2, <3>3 DEF LF!ConfigStep, LF!Read, LF!ReadHash, LF!Accept, LF!CloseProject, LF!Check, LF!Reopen,
                              LF!OnlyGapsLoseChanges, LF!InitializeStep, LF!Look, LF!MakeConfig, LF!MakeData
  <2> QED
    BY <2>1, <2>2, <2>3, <2>4
<1> QED
  BY <1>1, <1>2, <1>3 DEF LF!ConfigNext

LEMMA ConfigMeans == ConfigIInv => LF!ConfigInv
  BY DEF ConfigIInv, ConfigClosed, LF!ConfigInv, LF!ProjectReopened

-----------------------------------------------------------------------------
(* The settings of the web launcher *)

Settings == [by : Int, tls : Int]
SettingsPhases == {"idle", "ready", "refused", "checked", "copying", "copied", "renamed", "done"}
SettingsCalls == [pc : SettingsPhases, next : Settings, read : Settings, known : Settings]
SettingsTypes ==
    /\ {file, lastGood, current, hash} \subseteq Settings
    /\ launcher \in {"down", "loaded", "up"}
    /\ update \in [Updates -> SettingsCalls]
    /\ foreign \in Nat /\ overlapped \in BOOLEAN

Going == LF!Saving \cup {"ready"}
\* The TLS files of the settings in memory, on disk and on the way there are kept.
NamedExist ==
    /\ {0, file.tls, lastGood.tls, current.tls} \subseteq tlsFiles
    /\ \A c \in Updates : /\ update[c].pc \in Going => update[c].next.tls \in tlsFiles
                          /\ update[c].pc \in LF!Saving => update[c].read.tls \in tlsFiles
\* Nobody else names the TLS files of a call that may still be refused.
FreshFiles ==
    \A c \in Updates : update[c].pc \in {"idle", "ready"} =>
        /\ c \notin {file.tls, lastGood.tls, current.tls}
        /\ \A d \in Updates : update[d].read.tls # c /\ (d # c => update[d].next.tls # c)
\* What a call compared the file with was in it.
KnownIsRead ==
    \A c \in Updates : update[c].pc \in LF!Saving => update[c].known \in {LF!NoFile, update[c].read}
WholeFile ==
    /\ LF!Loadable
    /\ \A c \in Updates : update[c].next.by \in Nat
Answering ==
    /\ launcher # "up" => \A c \in Updates : update[c].pc \notin Going
    /\ launcher = "loaded" /\ foreign = 0 /\ file # LF!NoFile => current = file
    /\ launcher = "up" /\ ~overlapped /\ foreign = 0 =>
          /\ \A c, d \in Updates : update[c].pc \in LF!Saving /\ update[d].pc \in LF!Saving => c = d
          /\ \A c \in Updates : update[c].pc = "renamed" => file = update[c].next
          /\ file # LF!NoFile /\ (\A c \in Updates : update[c].pc # "renamed") => current = file
SettingsIInv ==
    /\ SettingsTypes /\ NamedExist /\ FreshFiles /\ KnownIsRead /\ WholeFile /\ Answering
    /\ LF!OnlyGapsLoseSettings

LEMMA UpdateNumbers == \A c \in Updates : c \in Nat /\ c # 0
  BY FilesAssumption

LEMMA SettingsConstants == {LF!First, LF!NoFile, LF!Torn} \subseteq Settings
  BY DEF LF!First, LF!NoFile, LF!Torn, Settings

LEMMA SettingsStart == LF!SettingsInit => SettingsIInv
<1> SUFFICES ASSUME LF!SettingsInit PROVE SettingsIInv
  OBVIOUS
<1> USE DEF LF!SettingsInit
<1>1. LF!NoUpdate \in SettingsCalls
  BY SettingsConstants DEF LF!NoUpdate, SettingsCalls, SettingsPhases
<1>2. update = [c \in Updates |-> LF!NoUpdate]
  OBVIOUS
<1>3. SettingsTypes
  BY <1>1, <1>2, SettingsConstants DEF SettingsTypes
<1>4. \A c \in Updates : /\ update[c].pc = "idle" /\ update[c].next = LF!First
                         /\ update[c].read = LF!NoFile /\ update[c].known = LF!NoFile
  BY <1>2 DEF LF!NoUpdate
<1>5. /\ LF!First.tls = 0 /\ LF!First.by = 0 /\ LF!NoFile.tls = 0 /\ LF!NoFile # LF!Torn /\ LF!First # LF!Torn
      /\ LF!NoFile.by = -2 /\ LF!Torn.by = -1
  BY DEF LF!First, LF!NoFile, LF!Torn
<1>6. NamedExist
  BY <1>4, <1>5 DEF NamedExist, Going, LF!Saving
<1>7. FreshFiles
  BY <1>4, <1>5, UpdateNumbers DEF FreshFiles
<1>8. KnownIsRead /\ WholeFile
  BY <1>4, <1>5 DEF KnownIsRead, WholeFile, LF!Loadable, LF!Saving
<1>9. Answering
  BY <1>4 DEF Answering, Going, LF!Saving
<1> QED
  BY <1>3, <1>6, <1>7, <1>8, <1>9 DEF SettingsIInv, LF!OnlyGapsLoseSettings

\* A call moves on, or a new one is made; the others stay as they are.
LEMMA SettingsMove ==
    ASSUME SettingsTypes, NEW c \in Updates, NEW pc \in SettingsPhases, LF!To(c, pc)
    PROVE  /\ update' \in [Updates -> SettingsCalls]
           /\ \A d \in Updates \ {c} : update'[d] = update[d]
           /\ \A d \in Updates : /\ update'[d].next = update[d].next /\ update'[d].read = update[d].read
                                 /\ update'[d].known = update[d].known
           /\ update'[c].pc = pc
<1>1. update[c] \in SettingsCalls
  BY DEF SettingsTypes
<1>2. [update[c] EXCEPT !.pc = pc] \in SettingsCalls
  BY <1>1 DEF SettingsCalls
<1>3. update' = [update EXCEPT ![c] = [update[c] EXCEPT !.pc = pc]] /\ update \in [Updates -> SettingsCalls]
  BY DEF LF!To, SettingsTypes
<1>4. [update[c] EXCEPT !.pc = pc].pc = pc /\ [update[c] EXCEPT !.pc = pc].next = update[c].next
      /\ [update[c] EXCEPT !.pc = pc].read = update[c].read /\ [update[c] EXCEPT !.pc = pc].known = update[c].known
  BY <1>1 DEF SettingsCalls
<1> QED
  BY <1>2, <1>3, <1>4

\* A call begins with settings of its own.
LEMMA RequestMade ==
    ASSUME SettingsTypes, NEW c \in Updates, LF!Request(c)
    PROVE  /\ update' \in [Updates -> SettingsCalls]
           /\ \A d \in Updates \ {c} : update'[d] = update[d]
           /\ update'[c].pc = "ready" /\ update'[c].read = LF!NoFile /\ update'[c].known = LF!NoFile
           /\ update'[c].next.by = c
           /\ \/ update'[c].next.tls = c /\ tlsFiles' = tlsFiles \cup {c}
              \/ update'[c].next.tls = current.tls /\ tlsFiles' = tlsFiles
<1> DEFINE new(t) == [pc |-> "ready", next |-> [by |-> c, tls |-> t], read |-> LF!NoFile, known |-> LF!NoFile]
<1>1. /\ new(c) \in SettingsCalls /\ new(current.tls) \in SettingsCalls
  BY SettingsConstants, UpdateNumbers DEF SettingsTypes, SettingsCalls, SettingsPhases, Settings
<1>2. \/ update' = [update EXCEPT ![c] = new(c)] /\ tlsFiles' = tlsFiles \cup {c}
      \/ update' = [update EXCEPT ![c] = new(current.tls)] /\ tlsFiles' = tlsFiles
  BY DEF LF!Request
<1>3. update \in [Updates -> SettingsCalls]
  BY DEF SettingsTypes
<1> QED
  BY <1>1, <1>2, <1>3

\* The file is compared with what is known, and read.
LEMMA HashChecked ==
    ASSUME SettingsTypes, NEW c \in Updates, LF!CheckHash(c)
    PROVE  /\ update' \in [Updates -> SettingsCalls]
           /\ \A d \in Updates \ {c} : update'[d] = update[d]
           /\ update'[c].next = update[c].next
           /\ \/ /\ update'[c].pc = "refused" /\ tlsFiles' = tlsFiles \ {c} /\ overlapped' = overlapped
                 /\ update'[c].read = update[c].read
              \/ /\ update'[c].pc = "checked" /\ update'[c].read = file /\ update'[c].known = hash
                 /\ hash \in {LF!NoFile, file} /\ tlsFiles' = tlsFiles
                 /\ overlapped' = (overlapped \/ \E d \in Updates : update[d].pc \in LF!Saving)
<1>1. CASE LF!Stale(file)
  <2>1. LF!To(c, "refused") /\ "refused" \in SettingsPhases
    BY <1>1 DEF LF!CheckHash, SettingsPhases
  <2> QED
    BY <1>1, <2>1, SettingsMove DEF LF!CheckHash, LF!Discarded
<1>2. CASE ~LF!Stale(file)
  <2> DEFINE new == [update[c] EXCEPT !.pc = "checked", !.read = file, !.known = hash]
  <2>1. update[c] \in SettingsCalls /\ update \in [Updates -> SettingsCalls]
    BY DEF SettingsTypes
  <2>2. new \in SettingsCalls
    BY <2>1 DEF SettingsCalls, SettingsPhases, SettingsTypes
  <2>3. new.pc = "checked" /\ new.read = file /\ new.known = hash /\ new.next = update[c].next
    BY <2>1 DEF SettingsCalls
  <2>4. update' = [update EXCEPT ![c] = new]
    BY <1>2 DEF LF!CheckHash
  <2> HIDE DEF new
  <2>5. update' \in [Updates -> SettingsCalls] /\ update'[c] = new /\ \A d \in Updates \ {c} : update'[d] = update[d]
    BY <2>1, <2>2, <2>4
  <2> QED
    BY <1>2, <2>3, <2>5 DEF LF!CheckHash, LF!Stale
<1> QED
  BY <1>1, <1>2

\* The calls of a launcher that crashes are over.
LEMMA CrashMade ==
    ASSUME SettingsTypes, LF!CrashLauncher
    PROVE  /\ update' \in [Updates -> SettingsCalls]
           /\ \A c \in Updates :
                 /\ update'[c].pc \notin Going
                 /\ update'[c].pc = "idle" => update[c].pc = "idle"
                 /\ update'[c].next = update[c].next /\ update'[c].read = update[c].read
<1> DEFINE ended(c) == [update[c] EXCEPT !.pc = "refused"]
<1>1. ASSUME NEW c \in Updates
      PROVE  /\ ended(c) \in SettingsCalls /\ ended(c).pc = "refused"
             /\ ended(c).next = update[c].next /\ ended(c).read = update[c].read
  <2>1. update[c] \in SettingsCalls
    BY DEF SettingsTypes
  <2> QED
    BY <2>1 DEF SettingsCalls, SettingsPhases
<1>2. update' = [c \in Updates |-> IF update[c].pc \in {"idle", "refused", "done"} THEN update[c] ELSE ended(c)]
  BY DEF LF!CrashLauncher
<1> HIDE DEF ended
<1>3. update \in [Updates -> SettingsCalls]
  BY DEF SettingsTypes
<1> QED
  BY <1>1, <1>2, <1>3 DEF Going, LF!Saving


\* A call that copies, renames or answers goes on to its next phase.
LEMMA SavingMoves ==
    ASSUME SettingsTypes, NEW c \in Updates, LF!CopyLastGood(c) \/ LF!Rename(c) \/ LF!Publish(c)
    PROVE  /\ update' \in [Updates -> SettingsCalls]
           /\ \A d \in Updates \ {c} : update'[d] = update[d]
           /\ \A d \in Updates : /\ update'[d].next = update[d].next /\ update'[d].read = update[d].read
                                 /\ update'[d].known = update[d].known
           /\ LF!CopyLastGood(c) => update[c].pc \in {"checked", "copying"} /\ update'[c].pc \in {"copying", "copied"}
           /\ LF!Rename(c) => update[c].pc \in {"checked", "copied"} /\ update'[c].pc = "renamed"
           /\ LF!Publish(c) => update[c].pc = "renamed" /\ update'[c].pc = "done"
<1>1. \E pc \in SettingsPhases : LF!To(c, pc)
  BY DEF LF!CopyLastGood, LF!Rename, LF!Publish, SettingsPhases
<1>2. \A pc \in SettingsPhases : LF!To(c, pc) => update'[c].pc = pc
  BY SettingsMove
<1>3. LF!CopyLastGood(c) => update[c].pc \in {"checked", "copying"} /\ update'[c].pc \in {"copying", "copied"}
  BY <1>2 DEF LF!CopyLastGood, SettingsPhases
<1>4. LF!Rename(c) => update[c].pc \in {"checked", "copied"} /\ update'[c].pc = "renamed"
  BY <1>2 DEF LF!Rename, SettingsPhases
<1>5. LF!Publish(c) => update[c].pc = "renamed" /\ update'[c].pc = "done"
  BY <1>2 DEF LF!Publish, SettingsPhases
<1>6. PICK pc \in SettingsPhases : LF!To(c, pc)
  BY <1>1
<1> QED
  BY <1>3, <1>4, <1>5, <1>6, SettingsMove

LEMMA SettingsTypesKept == SettingsIInv /\ LF!SettingsNext => SettingsTypes'
<1> SUFFICES ASSUME SettingsIInv, LF!SettingsNext PROVE SettingsTypes'
  OBVIOUS
<1>0. SettingsTypes
  BY DEF SettingsIInv
<1>1. CASE LF!Load
  BY <1>0, <1>1, SettingsConstants DEF LF!Load, SettingsTypes
<1>2. CASE LF!Boot
  BY <1>0, <1>2 DEF LF!Boot, SettingsTypes
<1>3. CASE LF!WriteForeign
  <2>1. LF!Torn \in Settings /\ [by |-> 9, tls |-> 0] \in Settings
    BY SettingsConstants DEF Settings
  <2> QED
    BY <1>0, <1>3, <2>1 DEF LF!WriteForeign, SettingsTypes
<1>4. CASE LF!CrashLauncher
  BY <1>0, <1>4, CrashMade DEF LF!CrashLauncher, SettingsTypes
<1>5. ASSUME NEW c \in Updates, LF!Request(c) PROVE SettingsTypes'
  BY <1>0, <1>5, RequestMade DEF LF!Request, SettingsTypes
<1>6. ASSUME NEW c \in Updates, LF!CheckHash(c) PROVE SettingsTypes'
  <2>1. overlapped' \in BOOLEAN
    BY <1>0, <1>6 DEF LF!CheckHash, SettingsTypes
  <2> QED
    BY <1>0, <1>6, <2>1, HashChecked DEF LF!CheckHash, SettingsTypes
<1>7. ASSUME NEW c \in Updates, LF!CopyLastGood(c) \/ LF!Rename(c) \/ LF!Publish(c) PROVE SettingsTypes'
  <2>1. update[c] \in SettingsCalls
    BY <1>0 DEF SettingsTypes
  <2>2. {LF!Torn, update[c].read, update[c].next} \subseteq Settings
    BY <2>1, SettingsConstants DEF SettingsCalls
  <2>3. update' \in [Updates -> SettingsCalls]
    BY <1>0, <1>7, SavingMoves
  <2> QED
    BY <1>0, <1>7, <2>2, <2>3 DEF LF!CopyLastGood, LF!Rename, LF!Publish, SettingsTypes
<1> QED
  BY <1>1, <1>2, <1>3, <1>4, <1>5, <1>6, <1>7 DEF LF!SettingsNext

LEMMA NamedExistKept == SettingsIInv /\ LF!SettingsNext => NamedExist'
<1> SUFFICES ASSUME SettingsIInv, LF!SettingsNext PROVE NamedExist'
  OBVIOUS
<1>0. SettingsTypes /\ NamedExist /\ FreshFiles
  BY DEF SettingsIInv
<1>9. LF!First.tls = 0 /\ LF!NoFile.tls = 0 /\ LF!Torn.tls = 0
  BY DEF LF!First, LF!NoFile, LF!Torn
<1>1. CASE LF!Load
  BY <1>0, <1>1, <1>9 DEF LF!Load, NamedExist
<1>2. CASE LF!Boot
  BY <1>0, <1>2 DEF LF!Boot, NamedExist
<1>3. CASE LF!WriteForeign
  <2>1. file'.tls = 0
    BY <1>3, <1>9 DEF LF!WriteForeign
  <2> QED
    BY <1>0, <1>3, <2>1 DEF LF!WriteForeign, NamedExist
<1>4. CASE LF!CrashLauncher
  <2>1. \A c \in Updates : update'[c].pc \notin Going /\ update'[c].pc \notin LF!Saving
    BY <1>0, <1>4, CrashMade DEF Going
  <2> QED
    BY <1>0, <1>4, <2>1 DEF LF!CrashLauncher, NamedExist
<1>5. ASSUME NEW c \in Updates, LF!Request(c) PROVE NamedExist'
  <2>1. UNCHANGED <<file, lastGood, current>> /\ tlsFiles \subseteq tlsFiles'
    BY <1>0, <1>5, RequestMade DEF LF!Request
  <2>2. update'[c].next.tls \in tlsFiles' /\ update'[c].pc \notin LF!Saving
    BY <1>0, <1>5, RequestMade DEF NamedExist, LF!Saving
  <2>3. \A d \in Updates \ {c} : update'[d] = update[d]
    BY <1>0, <1>5, RequestMade
  <2> QED
    BY <1>0, <2>1, <2>2, <2>3 DEF NamedExist
<1>6. ASSUME NEW c \in Updates, LF!CheckHash(c) PROVE NamedExist'
  <2>1. UNCHANGED <<file, lastGood, current>> /\ update[c].pc = "ready"
    BY <1>6 DEF LF!CheckHash
  <2>2. CASE update'[c].pc = "refused"
    <3>1. tlsFiles' = tlsFiles \ {c}
      BY <1>0, <1>6, <2>2, HashChecked
    <3>2. c \notin {0, file.tls, lastGood.tls, current.tls}
      BY <1>0, <2>1, UpdateNumbers DEF FreshFiles
    <3>3. ASSUME NEW d \in Updates \ {c}
          PROVE  update'[d] = update[d] /\ update[d].next.tls # c /\ update[d].read.tls # c
      BY <1>0, <1>6, <2>1, <3>3, HashChecked DEF FreshFiles
    <3>4. update'[c].pc \notin Going /\ update'[c].pc \notin LF!Saving
      BY <2>2 DEF Going, LF!Saving
    <3> QED
      BY <1>0, <2>1, <3>1, <3>2, <3>3, <3>4 DEF NamedExist
  <2>3. CASE update'[c].pc # "refused"
    <3>1. tlsFiles' = tlsFiles /\ update'[c].read = file /\ update'[c].next = update[c].next
      BY <1>0, <1>6, <2>3, HashChecked
    <3>2. \A d \in Updates \ {c} : update'[d] = update[d]
      BY <1>0, <1>6, HashChecked
    <3>3. update[c].pc \in Going
      BY <2>1 DEF Going
    <3> QED
      BY <1>0, <2>1, <3>1, <3>2, <3>3 DEF NamedExist
  <2> QED
    BY <2>2, <2>3
<1>7. ASSUME NEW c \in Updates, LF!CopyLastGood(c) \/ LF!Rename(c) \/ LF!Publish(c) PROVE NamedExist'
  <2>1. /\ \A d \in Updates \ {c} : update'[d] = update[d]
        /\ update'[c].next = update[c].next /\ update'[c].read = update[c].read
        /\ update[c].pc \in LF!Saving
    BY <1>0, <1>7, SavingMoves DEF LF!Saving
  <2>2. update[c].next.tls \in tlsFiles /\ update[c].read.tls \in tlsFiles
    BY <1>0, <2>1 DEF NamedExist, Going
  <2>3. {file'.tls, lastGood'.tls, current'.tls} \subseteq tlsFiles /\ tlsFiles' = tlsFiles
    <3>1. CASE LF!CopyLastGood(c)
      BY <1>0, <1>9, <2>2, <3>1 DEF LF!CopyLastGood, NamedExist
    <3>2. CASE LF!Rename(c)
      BY <1>0, <2>2, <3>2 DEF LF!Rename, NamedExist
    <3>3. CASE LF!Publish(c)
      BY <1>0, <2>2, <3>3 DEF LF!Publish, NamedExist
    <3> QED
      BY <1>7, <3>1, <3>2, <3>3
  <2> QED
    BY <1>0, <2>1, <2>2, <2>3 DEF NamedExist
<1> QED
  BY <1>1, <1>2, <1>3, <1>4, <1>5, <1>6, <1>7 DEF LF!SettingsNext

LEMMA FreshFilesKept == SettingsIInv /\ LF!SettingsNext => FreshFiles'
<1> SUFFICES ASSUME SettingsIInv, LF!SettingsNext PROVE FreshFiles'
  OBVIOUS
<1>0. SettingsTypes /\ FreshFiles
  BY DEF SettingsIInv
<1>9. /\ LF!First.tls = 0 /\ LF!NoFile.tls = 0 /\ LF!Torn.tls = 0
      /\ \A c \in Updates : c # 0
  BY UpdateNumbers DEF LF!First, LF!NoFile, LF!Torn
<1>1. CASE LF!Load
  BY <1>0, <1>1, <1>9 DEF LF!Load, FreshFiles
<1>2. CASE LF!Boot
  BY <1>0, <1>2 DEF LF!Boot, FreshFiles
<1>3. CASE LF!WriteForeign
  <2>1. file'.tls = 0
    BY <1>3, <1>9 DEF LF!WriteForeign
  <2> QED
    BY <1>0, <1>3, <1>9, <2>1 DEF LF!WriteForeign, FreshFiles
<1>4. CASE LF!CrashLauncher
  <2>1. \A c \in Updates : /\ update'[c].pc \in {"idle", "ready"} => update[c].pc = "idle"
                           /\ update'[c].next = update[c].next /\ update'[c].read = update[c].read
    BY <1>0, <1>4, CrashMade DEF Going
  <2> QED
    BY <1>0, <1>4, <2>1 DEF LF!CrashLauncher, FreshFiles
<1>5. ASSUME NEW c \in Updates, LF!Request(c) PROVE FreshFiles'
  <2>1. UNCHANGED <<file, lastGood, current>> /\ update[c].pc = "idle"
    BY <1>5 DEF LF!Request
  <2>2. /\ \A d \in Updates \ {c} : update'[d] = update[d]
        /\ update'[c].pc = "ready" /\ update'[c].read = LF!NoFile /\ update'[c].next.tls \in {c, current.tls}
    BY <1>0, <1>5, RequestMade
  <2>3. ASSUME NEW e \in Updates, update'[e].pc \in {"idle", "ready"}
        PROVE  /\ e \notin {file.tls, lastGood.tls, current.tls}
               /\ \A d \in Updates : update'[d].read.tls # e /\ (d # e => update'[d].next.tls # e)
    <3>1. update[e].pc \in {"idle", "ready"}
      BY <2>1, <2>2, <2>3
    <3>2. /\ e \notin {file.tls, lastGood.tls, current.tls}
          /\ \A d \in Updates : update[d].read.tls # e /\ (d # e => update[d].next.tls # e)
      BY <1>0, <3>1 DEF FreshFiles
    <3> QED
      BY <1>9, <2>2, <3>2
  <2> QED
    BY <2>1, <2>3 DEF FreshFiles
<1>6. ASSUME NEW c \in Updates, LF!CheckHash(c) PROVE FreshFiles'
  <2>1. UNCHANGED <<file, lastGood, current>> /\ update[c].pc = "ready"
    BY <1>6 DEF LF!CheckHash
  <2>2. /\ \A d \in Updates \ {c} : update'[d] = update[d]
        /\ update'[c].pc \notin {"idle", "ready"} /\ update'[c].next = update[c].next
        /\ update'[c].read \in {update[c].read, file}
    BY <1>0, <1>6, HashChecked
  <2> QED
    BY <1>0, <2>1, <2>2 DEF FreshFiles
<1>7. ASSUME NEW c \in Updates, LF!CopyLastGood(c) \/ LF!Rename(c) \/ LF!Publish(c) PROVE FreshFiles'
  <2>1. /\ \A d \in Updates \ {c} : update'[d] = update[d]
        /\ update'[c].next = update[c].next /\ update'[c].read = update[c].read
        /\ update'[c].pc \notin {"idle", "ready"}
    BY <1>0, <1>7, SavingMoves
  <2>2. /\ file' \in {file, update[c].next} /\ current' \in {current, update[c].next}
        /\ lastGood' \in {lastGood, LF!Torn, update[c].read}
    BY <1>7 DEF LF!CopyLastGood, LF!Rename, LF!Publish
  <2>3. ASSUME NEW e \in Updates, update'[e].pc \in {"idle", "ready"}
        PROVE  /\ e \notin {file'.tls, lastGood'.tls, current'.tls}
               /\ \A d \in Updates : update'[d].read.tls # e /\ (d # e => update'[d].next.tls # e)
    <3>1. e # c /\ update[e].pc \in {"idle", "ready"}
      BY <2>1, <2>3
    <3>2. /\ e \notin {file.tls, lastGood.tls, current.tls}
          /\ \A d \in Updates : update[d].read.tls # e /\ (d # e => update[d].next.tls # e)
      BY <1>0, <3>1 DEF FreshFiles
    <3> QED
      BY <1>9, <2>1, <2>2, <3>1, <3>2
  <2> QED
    BY <2>3 DEF FreshFiles
<1> QED
  BY <1>1, <1>2, <1>3, <1>4, <1>5, <1>6, <1>7 DEF LF!SettingsNext

LEMMA KnownIsReadKept ==
    SettingsIInv /\ LF!SettingsNext => KnownIsRead' /\ LF!OnlyGapsLoseSettings'
<1> SUFFICES ASSUME SettingsIInv, LF!SettingsNext PROVE KnownIsRead' /\ LF!OnlyGapsLoseSettings'
  OBVIOUS
<1>0. SettingsTypes /\ KnownIsRead /\ LF!OnlyGapsLoseSettings
  BY DEF SettingsIInv
<1>1. CASE LF!Load \/ LF!Boot \/ LF!WriteForeign
  BY <1>0, <1>1 DEF LF!Load, LF!Boot, LF!WriteForeign, KnownIsRead, LF!OnlyGapsLoseSettings
<1>4. CASE LF!CrashLauncher
  <2>1. \A c \in Updates : update'[c].pc \notin LF!Saving
    BY <1>0, <1>4, CrashMade DEF Going
  <2> QED
    BY <1>0, <1>4, <2>1 DEF LF!CrashLauncher, KnownIsRead, LF!OnlyGapsLoseSettings
<1>5. ASSUME NEW c \in Updates, LF!Request(c) PROVE KnownIsRead' /\ LF!OnlyGapsLoseSettings'
  <2>1. update'[c].pc \notin LF!Saving /\ \A d \in Updates \ {c} : update'[d] = update[d]
    BY <1>0, <1>5, RequestMade DEF LF!Saving
  <2> QED
    BY <1>0, <1>5, <2>1 DEF LF!Request, KnownIsRead, LF!OnlyGapsLoseSettings
<1>6. ASSUME NEW c \in Updates, LF!CheckHash(c) PROVE KnownIsRead' /\ LF!OnlyGapsLoseSettings'
  <2>1. /\ \A d \in Updates \ {c} : update'[d] = update[d]
        /\ update'[c].pc \in LF!Saving => update'[c].known \in {LF!NoFile, update'[c].read}
    BY <1>0, <1>6, HashChecked DEF LF!Saving
  <2> QED
    BY <1>0, <1>6, <2>1 DEF LF!CheckHash, KnownIsRead, LF!OnlyGapsLoseSettings
<1>7. ASSUME NEW c \in Updates, LF!CopyLastGood(c) \/ LF!Rename(c) \/ LF!Publish(c)
      PROVE  KnownIsRead' /\ LF!OnlyGapsLoseSettings'
  <2>1. /\ \A d \in Updates \ {c} : update'[d] = update[d]
        /\ update'[c].known = update[c].known /\ update'[c].read = update[c].read
        /\ update[c].pc \in LF!Saving
    BY <1>0, <1>7, SavingMoves DEF LF!Saving
  <2>2. update[c].known \in {LF!NoFile, update[c].read}
    BY <1>0, <2>1 DEF KnownIsRead
  <2>3. KnownIsRead'
    BY <1>0, <2>1, <2>2 DEF KnownIsRead
  <2>4. CASE LF!Rename(c) /\ file \notin {LF!NoFile, update[c].known}
    <3>1. update[c].known = LF!NoFile \/ file # update[c].read
      BY <2>2, <2>4
    <3>2. lostUpdates' = lostUpdates \cup {update[c].known = LF!NoFile \/ file # update[c].read}
      BY <2>4 DEF LF!Rename
    <3>3. (update[c].known = LF!NoFile \/ file # update[c].read) = TRUE
      BY <3>1
    <3> QED
      BY <1>0, <2>3, <3>2, <3>3 DEF LF!OnlyGapsLoseSettings
  <2>5. CASE ~(LF!Rename(c) /\ file \notin {LF!NoFile, update[c].known})
    BY <1>0, <1>7, <2>3, <2>5 DEF LF!CopyLastGood, LF!Rename, LF!Publish, LF!OnlyGapsLoseSettings
  <2> QED
    BY <2>4, <2>5
<1> QED
  BY <1>1, <1>4, <1>5, <1>6, <1>7 DEF LF!SettingsNext

LEMMA WholeFileKept == SettingsIInv /\ LF!SettingsNext => WholeFile'
<1> SUFFICES ASSUME SettingsIInv, LF!SettingsNext PROVE WholeFile'
  OBVIOUS
<1>0. SettingsTypes /\ WholeFile
  BY DEF SettingsIInv
<1>1. CASE LF!Load \/ LF!Boot
  BY <1>0, <1>1 DEF LF!Load, LF!Boot, WholeFile, LF!Loadable
<1>2. CASE LF!WriteForeign
  <2>1. foreign' # 0
    BY <1>0, <1>2 DEF LF!WriteForeign, SettingsTypes
  <2> QED
    BY <1>0, <1>2, <2>1 DEF LF!WriteForeign, WholeFile, LF!Loadable
<1>4. CASE LF!CrashLauncher
  BY <1>0, <1>4, CrashMade DEF LF!CrashLauncher, WholeFile, LF!Loadable
<1>5. ASSUME NEW c \in Updates, LF!Request(c) PROVE WholeFile'
  BY <1>0, <1>5, RequestMade, UpdateNumbers DEF LF!Request, WholeFile, LF!Loadable
<1>6. ASSUME NEW c \in Updates, LF!CheckHash(c) PROVE WholeFile'
  BY <1>0, <1>6, HashChecked DEF LF!CheckHash, WholeFile, LF!Loadable
<1>7. ASSUME NEW c \in Updates, LF!CopyLastGood(c) \/ LF!Rename(c) \/ LF!Publish(c) PROVE WholeFile'
  <2>1. \A d \in Updates : update'[d].next = update[d].next
    BY <1>0, <1>7, SavingMoves
  <2>2. file' \in {file, update[c].next} /\ foreign' = foreign
    BY <1>7 DEF LF!CopyLastGood, LF!Rename, LF!Publish
  <2>3. LF!Torn.by = -1 /\ update[c].next.by \in Nat
    BY <1>0 DEF LF!Torn, WholeFile
  <2>4. update[c].next # LF!Torn
    BY <2>3
  <2> QED
    BY <1>0, <2>1, <2>2, <2>4 DEF WholeFile, LF!Loadable
<1> QED
  BY <1>1, <1>2, <1>4, <1>5, <1>6, <1>7 DEF LF!SettingsNext

LEMMA AnsweringKept == SettingsIInv /\ LF!SettingsNext => Answering'
<1> SUFFICES ASSUME SettingsIInv, LF!SettingsNext PROVE Answering'
  OBVIOUS
<1>0. SettingsTypes /\ WholeFile /\ Answering
  BY DEF SettingsIInv
<1>1. CASE LF!Load
  <2>1. foreign = 0 => file # LF!Torn
    BY <1>0 DEF WholeFile, LF!Loadable
  <2>2. launcher' = "loaded" /\ UNCHANGED <<file, foreign, update, overlapped>>
    BY <1>1 DEF LF!Load
  <2>3. foreign' = 0 /\ file' # LF!NoFile => current' = file'
    BY <1>1, <2>1, <2>2 DEF LF!Load
  <2>4. launcher # "up"
    BY <1>1 DEF LF!Load
  <2> QED
    BY <1>0, <2>2, <2>3, <2>4 DEF Answering
<1>2. CASE LF!Boot
  <2>1. \A c \in Updates : update[c].pc \notin LF!Saving /\ update[c].pc # "renamed"
    BY <1>0, <1>2 DEF LF!Boot, Answering, Going, LF!Saving
  <2>2. foreign = 0 /\ file # LF!NoFile => current = file
    BY <1>0, <1>2 DEF LF!Boot, Answering
  <2> QED
    BY <1>2, <2>1, <2>2 DEF LF!Boot, Answering
<1>3. CASE LF!WriteForeign
  <2>1. foreign' # 0
    BY <1>0, <1>3 DEF LF!WriteForeign, SettingsTypes
  <2> QED
    BY <1>0, <1>3, <2>1 DEF LF!WriteForeign, Answering
<1>4. CASE LF!CrashLauncher
  BY <1>0, <1>4, CrashMade DEF LF!CrashLauncher, Answering
<1>5. ASSUME NEW c \in Updates, LF!Request(c) PROVE Answering'
  <2>1. /\ \A d \in Updates \ {c} : update'[d] = update[d]
        /\ update'[c].pc = "ready" /\ update[c].pc = "idle"
    BY <1>0, <1>5, RequestMade DEF LF!Request
  <2> QED
    BY <1>0, <1>5, <2>1 DEF LF!Request, Answering, LF!Saving
<1>6. ASSUME NEW c \in Updates, LF!CheckHash(c) PROVE Answering'
  <2>1. /\ \A d \in Updates \ {c} : update'[d] = update[d]
        /\ update[c].pc = "ready" /\ update'[c].pc \in {"checked", "refused"}
        /\ update'[c].pc = "checked" => overlapped' = (overlapped \/ \E d \in Updates : update[d].pc \in LF!Saving)
        /\ update'[c].pc = "refused" => overlapped' = overlapped
    BY <1>0, <1>6, HashChecked DEF LF!CheckHash
  <2>2. launcher = "up" /\ UNCHANGED <<launcher, file, current, foreign>>
    BY <1>0, <1>6, <2>1 DEF LF!CheckHash, Answering, Going
  <2>3. \A d \in Updates : update[d].pc = "renamed" <=> update'[d].pc = "renamed"
    BY <2>1
  <2>4. ASSUME ~overlapped', foreign = 0
        PROVE  \A d, e \in Updates : update'[d].pc \in LF!Saving /\ update'[e].pc \in LF!Saving => d = e
    <3>1. CASE update'[c].pc = "checked"
      BY <2>1, <2>4, <3>1
    <3>2. CASE update'[c].pc = "refused"
      BY <1>0, <2>1, <2>2, <2>4, <3>2 DEF Answering, LF!Saving
    <3> QED
      BY <2>1, <3>1, <3>2
  <2>5. \A d \in Updates : update'[d].next = update[d].next
    BY <1>0, <1>6, HashChecked
  <2>6. overlapped => overlapped'
    BY <2>1
  <2> QED
    BY <1>0, <2>2, <2>3, <2>4, <2>5, <2>6 DEF Answering
<1>7. ASSUME NEW c \in Updates, LF!CopyLastGood(c) \/ LF!Rename(c) \/ LF!Publish(c) PROVE Answering'
  <2>1. /\ \A d \in Updates \ {c} : update'[d] = update[d]
        /\ \A d \in Updates : update'[d].next = update[d].next
        /\ update[c].pc \in LF!Saving /\ update[c].pc \in Going
        /\ LF!CopyLastGood(c) => update[c].pc # "renamed" /\ update'[c].pc \in LF!Saving \ {"renamed"}
        /\ LF!Rename(c) => update'[c].pc = "renamed"
        /\ LF!Publish(c) => update[c].pc = "renamed" /\ update'[c].pc = "done"
    BY <1>0, <1>7, SavingMoves DEF LF!Saving, Going
  <2>2. launcher = "up" /\ UNCHANGED <<launcher, foreign, overlapped>>
    BY <1>0, <1>7, <2>1 DEF LF!CopyLastGood, LF!Rename, LF!Publish, Answering
  <2>3. \A d \in Updates : update'[d].pc \in LF!Saving => update[d].pc \in LF!Saving
    BY <2>1
  <2> SUFFICES ASSUME ~overlapped, foreign = 0
               PROVE  /\ \A d \in Updates : update'[d].pc = "renamed" => file' = update'[d].next
                      /\ file' # LF!NoFile /\ (\A d \in Updates : update'[d].pc # "renamed") => current' = file'
    BY <1>0, <2>2, <2>3 DEF Answering
  <2>4. \A d \in Updates : update[d].pc \in LF!Saving => d = c
    BY <1>0, <2>1, <2>2 DEF Answering
  <2>5. \A d \in Updates \ {c} : update'[d].pc # "renamed"
    BY <2>1, <2>4 DEF LF!Saving
  <2>6. CASE LF!CopyLastGood(c)
    <3>1. \A d \in Updates : update'[d].pc # "renamed" /\ update[d].pc # "renamed"
      BY <2>1, <2>4, <2>5, <2>6 DEF LF!Saving
    <3> QED
      BY <1>0, <2>2, <2>6, <3>1 DEF LF!CopyLastGood, Answering
  <2>7. CASE LF!Rename(c)
    BY <2>1, <2>5, <2>7 DEF LF!Rename
  <2>8. CASE LF!Publish(c)
    <3>1. file = update[c].next
      BY <1>0, <2>1, <2>2, <2>8 DEF Answering
    <3> QED
      BY <2>1, <2>5, <2>8, <3>1 DEF LF!Publish
  <2> QED
    BY <1>7, <2>6, <2>7, <2>8
<1> QED
  BY <1>1, <1>2, <1>3, <1>4, <1>5, <1>6, <1>7 DEF LF!SettingsNext

LEMMA SettingsKept == SettingsIInv /\ LF!SettingsNext => SettingsIInv'
<1> SUFFICES ASSUME SettingsIInv, LF!SettingsNext PROVE SettingsIInv'
  OBVIOUS
<1>1. SettingsTypes' /\ NamedExist' /\ FreshFiles'
  BY SettingsTypesKept, NamedExistKept, FreshFilesKept
<1>2. KnownIsRead' /\ LF!OnlyGapsLoseSettings' /\ WholeFile' /\ Answering'
  BY KnownIsReadKept, WholeFileKept, AnsweringKept
<1> QED
  BY <1>1, <1>2 DEF SettingsIInv

LEMMA SettingsMean == SettingsIInv => LF!SettingsInv
<1> SUFFICES ASSUME SettingsIInv PROVE LF!SettingsInv
  OBVIOUS
<1>1. LF!TlsFilesExist
  BY DEF SettingsIInv, NamedExist, LF!TlsFilesExist
<1>2. LF!CurrentIsSaved
  BY DEF SettingsIInv, Answering, LF!CurrentIsSaved, LF!Saving
<1> QED
  BY <1>1, <1>2 DEF SettingsIInv, WholeFile, LF!SettingsInv

-----------------------------------------------------------------------------
(* The projects a launcher knows *)

ProjectMaps == UNION {[W -> Changes] : W \in SUBSET Workspaces}
ChangePhases == {"idle", "queued", "saving", "done", "failed"}
CatalogCalls == [pc : ChangePhases, kind : {"register", "remove", "ownership", "invalid"},
                 workspace : Workspaces, read : ProjectMaps]
CatalogTypes ==
    /\ {projects, catalogTold} \subseteq ProjectMaps
    /\ queue \in [Catalogs -> Seq(Changes)] /\ change \in [Changes -> CatalogCalls]
    /\ disturbed \in BOOLEAN

\* A call that has begun is in one queue, once, and saves when it is at the head of it.
Queued ==
    /\ \A k \in Catalogs : \A i \in 1..Len(queue[k]) :
          /\ change[queue[k][i]].pc \in {"queued", "saving"}
          /\ \A j \in Catalogs : \A n \in 1..Len(queue[j]) : queue[j][n] = queue[k][i] => j = k /\ n = i
    /\ \A c \in Changes : change[c].pc = "saving" => \E k \in Catalogs : LF!Turn(c, k)
\* What a call is about to save, it has read from the file as it is.
Undisturbed ==
    ~disturbed => /\ projects = catalogTold
                  /\ \A c \in Changes : change[c].pc = "saving" => change[c].read = projects
CatalogIInv == CatalogTypes /\ Queued /\ Undisturbed

LEMMA MapTypes ==
    ASSUME NEW f \in ProjectMaps, NEW w \in Workspaces, NEW c \in Changes
    PROVE  /\ LF!With(f, w, c) \in ProjectMaps /\ LF!Without(f, w) \in ProjectMaps
           /\ w \in DOMAIN f => f[w] \in Changes /\ LF!With(f, w, f[w]) = f
           /\ w \notin DOMAIN f => LF!Without(f, w) = f
<1>1. PICK W \in SUBSET Workspaces : f \in [W -> Changes]
  BY DEF ProjectMaps
<1>2. LF!With(f, w, c) \in [W \cup {w} -> Changes] /\ W \cup {w} \in SUBSET Workspaces
  BY <1>1 DEF LF!With
<1>3. LF!Without(f, w) \in [W \ {w} -> Changes] /\ W \ {w} \in SUBSET Workspaces
  BY <1>1 DEF LF!Without
<1>4. w \in DOMAIN f => f[w] \in Changes /\ LF!With(f, w, f[w]) = f
  BY <1>1 DEF LF!With
<1>5. w \notin DOMAIN f => LF!Without(f, w) = f
  BY <1>1 DEF LF!Without
<1> QED
  BY <1>2, <1>3, <1>4, <1>5 DEF ProjectMaps

LEMMA NoMap == LF!Empty \in ProjectMaps
<1>1. LF!Empty \in [{} -> Changes] /\ {} \in SUBSET Workspaces
  BY DEF LF!Empty
<1> QED
  BY <1>1 DEF ProjectMaps

LEMMA CatalogStart == LF!CatalogInit => CatalogIInv
<1> SUFFICES ASSUME LF!CatalogInit PROVE CatalogIInv
  OBVIOUS
<1> DEFINE new == [pc |-> "idle", kind |-> "register", workspace |-> CHOOSE w \in Workspaces : TRUE,
                   read |-> LF!Empty]
<1>1. new \in CatalogCalls
  BY NoMap, FilesAssumption DEF CatalogCalls, ChangePhases
<1>2. change = [c \in Changes |-> new] /\ queue = [k \in Catalogs |-> <<>>]
  BY DEF LF!CatalogInit
<1>3. CatalogTypes
  <2>1. <<>> \in Seq(Changes)
    OBVIOUS
  <2>2. queue \in [Catalogs -> Seq(Changes)]
    BY <1>2, <2>1
  <2>3. change \in [Changes -> CatalogCalls]
    BY <1>1, <1>2
  <2> QED
    BY <2>2, <2>3, NoMap DEF LF!CatalogInit, CatalogTypes
<1>4. Queued
  BY <1>2 DEF Queued
<1>5. Undisturbed
  BY <1>2 DEF Undisturbed, LF!CatalogInit
<1> QED
  BY <1>3, <1>4, <1>5 DEF CatalogIInv

\* The call at the head of a queue ends and leaves it.
LEMMA CallDone ==
    ASSUME CatalogTypes, Queued, NEW k \in Catalogs, NEW c \in Changes, NEW pc \in {"done", "failed"},
           LF!Turn(c, k), LF!End(c, k, pc)
    PROVE  /\ change' \in [Changes -> CatalogCalls] /\ queue' \in [Catalogs -> Seq(Changes)]
           /\ change'[c].pc = pc /\ \A d \in Changes \ {c} : change'[d] = change[d]
           /\ Queued'
<1>1. /\ change[c] \in CatalogCalls /\ change \in [Changes -> CatalogCalls]
      /\ queue \in [Catalogs -> Seq(Changes)] /\ queue[k] \in Seq(Changes)
  BY DEF CatalogTypes
<1>2. [change[c] EXCEPT !.pc = pc] \in CatalogCalls /\ [change[c] EXCEPT !.pc = pc].pc = pc
  BY <1>1 DEF CatalogCalls, ChangePhases
<1>3. change' = [change EXCEPT ![c] = [change[c] EXCEPT !.pc = pc]] /\ queue' = [queue EXCEPT ![k] = Tail(queue[k])]
  BY <1>1 DEF LF!End
<1>4. change' \in [Changes -> CatalogCalls] /\ change'[c].pc = pc /\ \A d \in Changes \ {c} : change'[d] = change[d]
  BY <1>1, <1>2, <1>3
<1>5. queue[k] # <<>> /\ queue[k][1] = c /\ Len(queue[k]) \in Nat \ {0}
  BY <1>1 DEF LF!Turn
<1>6. /\ Tail(queue[k]) \in Seq(Changes) /\ Len(Tail(queue[k])) = Len(queue[k]) - 1
      /\ \A i \in 1..(Len(queue[k]) - 1) : Tail(queue[k])[i] = queue[k][i + 1]
  BY <1>1, <1>5
<1>7. queue' \in [Catalogs -> Seq(Changes)] /\ queue'[k] = Tail(queue[k]) /\ \A j \in Catalogs \ {k} : queue'[j] = queue[j]
  BY <1>1, <1>3, <1>6
<1>8. ASSUME NEW j \in Catalogs, NEW i \in 1..Len(queue'[j])
      PROVE  \E n \in 1..Len(queue[j]) : /\ queue'[j][i] = queue[j][n]
                                         /\ n = IF j = k THEN i + 1 ELSE i
  <2>1. CASE j = k
    <3>1. i \in 1..(Len(queue[k]) - 1) /\ i + 1 \in 1..Len(queue[k])
      BY <1>5, <1>6, <1>7, <1>8, <2>1
    <3> QED
      BY <1>6, <1>7, <2>1, <3>1
  <2>2. CASE j # k
    BY <1>7, <1>8, <2>2
  <2> QED
    BY <2>1, <2>2
<1>9. ASSUME NEW j \in Catalogs, NEW i \in 1..Len(queue'[j])
      PROVE  change'[queue'[j][i]].pc \in {"queued", "saving"}
  <2>1. PICK n \in 1..Len(queue[j]) : queue'[j][i] = queue[j][n] /\ n = IF j = k THEN i + 1 ELSE i
    BY <1>8
  <2>2. 1 \in 1..Len(queue[k])
    BY <1>5
  <2>3. queue[j][n] # c
    <3> SUFFICES ASSUME queue[j][n] = queue[k][1] PROVE FALSE
      BY <1>5
    <3>1. j = k /\ n = 1
      BY <2>2 DEF Queued
    <3> QED
      BY <1>9, <2>1, <3>1
  <2>4. queue[j] \in Seq(Changes)
    BY <1>1
  <2>5. queue[j][n] \in Changes
    BY <2>4
  <2> QED
    BY <1>4, <2>1, <2>3, <2>5 DEF Queued
<1>10. ASSUME NEW j \in Catalogs, NEW i \in 1..Len(queue'[j]), NEW m \in Catalogs, NEW n \in 1..Len(queue'[m]),
              queue'[m][n] = queue'[j][i]
       PROVE  m = j /\ n = i
  <2>1. PICK x \in 1..Len(queue[j]) : queue'[j][i] = queue[j][x] /\ x = IF j = k THEN i + 1 ELSE i
    BY <1>8
  <2>2. PICK y \in 1..Len(queue[m]) : queue'[m][n] = queue[m][y] /\ y = IF m = k THEN n + 1 ELSE n
    BY <1>8
  <2>3. m = j /\ y = x
    BY <1>10, <2>1, <2>2 DEF Queued
  <2> QED
    BY <2>1, <2>2, <2>3
<1>11. ASSUME NEW d \in Changes, change'[d].pc = "saving" PROVE \E j \in Catalogs : LF!Turn(d, j)'
  <2>1. d # c /\ change[d].pc = "saving"
    BY <1>4, <1>11
  <2>2. PICK j \in Catalogs : LF!Turn(d, j)
    BY <2>1 DEF Queued
  <2>3. j # k
    BY <2>1, <2>2 DEF LF!Turn
  <2> QED
    BY <1>7, <2>2, <2>3 DEF LF!Turn
<1>12. Queued'
  BY <1>9, <1>10, <1>11 DEF Queued
<1> QED
  BY <1>4, <1>7, <1>12

LEMMA EnqueueKept ==
    ASSUME CatalogIInv, NEW c \in Changes, NEW k \in Catalogs, LF!Enqueue(c, k)
    PROVE  CatalogIInv'
<1> USE DEF CatalogIInv
<1>1. PICK kind \in {"register", "remove", "ownership", "invalid"}, w \in Workspaces :
        change' = [change EXCEPT ![c] = [pc |-> "queued", kind |-> kind, workspace |-> w, read |-> LF!Empty]]
  BY DEF LF!Enqueue
<1> DEFINE new == [pc |-> "queued", kind |-> kind, workspace |-> w, read |-> LF!Empty]
<1>2. new \in CatalogCalls /\ new.pc = "queued"
  BY NoMap DEF CatalogCalls, ChangePhases
<1>3. /\ change \in [Changes -> CatalogCalls] /\ queue \in [Catalogs -> Seq(Changes)]
      /\ queue[k] \in Seq(Changes) /\ change[c].pc = "idle"
  BY DEF CatalogTypes, LF!Enqueue
<1> HIDE DEF new
<1>4. /\ change' \in [Changes -> CatalogCalls] /\ change'[c].pc = "queued"
      /\ \A d \in Changes \ {c} : change'[d] = change[d]
  BY <1>1, <1>2, <1>3 DEF new
<1>5. /\ Append(queue[k], c) \in Seq(Changes) /\ Len(Append(queue[k], c)) = Len(queue[k]) + 1
      /\ Len(queue[k]) \in Nat
      /\ \A i \in 1..Len(queue[k]) : Append(queue[k], c)[i] = queue[k][i]
      /\ Append(queue[k], c)[Len(queue[k]) + 1] = c
  BY <1>3
<1>6. queue' = [queue EXCEPT ![k] = Append(queue[k], c)]
  BY <1>3 DEF LF!Enqueue
<1>7. queue' \in [Catalogs -> Seq(Changes)] /\ queue'[k] = Append(queue[k], c)
      /\ \A j \in Catalogs \ {k} : queue'[j] = queue[j]
  BY <1>3, <1>5, <1>6
<1>8. CatalogTypes'
  BY <1>4, <1>7 DEF CatalogTypes, LF!Enqueue
<1>9. ASSUME NEW j \in Catalogs, NEW i \in 1..Len(queue'[j])
      PROVE  \/ i \in 1..Len(queue[j]) /\ queue'[j][i] = queue[j][i] /\ queue[j][i] \in Changes \ {c}
             \/ j = k /\ i = Len(queue[k]) + 1 /\ queue'[j][i] = c
  <2>1. CASE i \in 1..Len(queue[j])
    <3>1. queue[j] \in Seq(Changes)
      BY <1>3
    <3>2. queue[j][i] \in Changes
      BY <2>1, <3>1
    <3>3. change[queue[j][i]].pc # "idle"
      BY <2>1 DEF Queued
    <3>4. queue'[j][i] = queue[j][i]
      BY <1>5, <1>7, <2>1
    <3> QED
      BY <1>3, <2>1, <3>2, <3>3, <3>4
  <2>2. CASE i \notin 1..Len(queue[j])
    <3>1. j = k
      BY <1>7, <1>9, <2>2
    <3>2. i = Len(queue[k]) + 1
      BY <1>5, <1>7, <1>9, <2>2, <3>1
    <3> QED
      BY <1>5, <1>7, <3>1, <3>2
  <2> QED
    BY <2>1, <2>2
<1>10. \A j \in Catalogs : \A i \in 1..Len(queue'[j]) : change'[queue'[j][i]].pc \in {"queued", "saving"}
  BY <1>4, <1>9 DEF Queued
<1>11. ASSUME NEW j \in Catalogs, NEW i \in 1..Len(queue'[j]), NEW m \in Catalogs, NEW n \in 1..Len(queue'[m]),
              queue'[m][n] = queue'[j][i]
       PROVE  m = j /\ n = i
  <2>1. CASE queue'[j][i] = c
    BY <1>9, <1>11, <2>1
  <2>2. CASE queue'[j][i] # c
    <3>1. i \in 1..Len(queue[j]) /\ queue'[j][i] = queue[j][i]
      BY <1>9, <2>2
    <3>2. n \in 1..Len(queue[m]) /\ queue'[m][n] = queue[m][n]
      BY <1>9, <1>11, <2>2
    <3> QED
      BY <1>11, <3>1, <3>2 DEF Queued
  <2> QED
    BY <2>1, <2>2
<1>12. ASSUME NEW d \in Changes, change'[d].pc = "saving" PROVE \E j \in Catalogs : LF!Turn(d, j)'
  <2>1. d # c /\ change[d].pc = "saving"
    BY <1>4, <1>12
  <2>2. PICK j \in Catalogs : LF!Turn(d, j)
    BY <2>1 DEF Queued
  <2>3. CASE j # k
    BY <1>7, <2>2, <2>3 DEF LF!Turn
  <2>4. CASE j = k
    <3>1. queue[k] # <<>> /\ queue[k][1] = d
      BY <1>3, <2>2, <2>4 DEF LF!Turn
    <3>2. 1 \in 1..Len(queue[k])
      BY <1>3, <3>1
    <3>3. queue'[k] \in Seq(Changes) /\ queue'[k] # <<>> /\ queue'[k][1] = d
      BY <1>5, <1>7, <3>1, <3>2
    <3> QED
      BY <2>4, <3>3 DEF LF!Turn
  <2> QED
    BY <2>3, <2>4
<1>13. Undisturbed'
  BY <1>4 DEF Undisturbed, LF!Enqueue
<1>14. Queued'
  BY <1>10, <1>11, <1>12 DEF Queued
<1> QED
  BY <1>8, <1>13, <1>14

LEMMA ReadCatalogKept ==
    ASSUME CatalogIInv, NEW c \in Changes, NEW k \in Catalogs, LF!ReadCatalog(c, k)
    PROVE  CatalogIInv'
<1> USE DEF CatalogIInv
<1> DEFINE x == change[c]
<1>1. /\ LF!Turn(c, k) /\ x.pc = "queued" /\ UNCHANGED <<projects, disturbed>>
      /\ change \in [Changes -> CatalogCalls] /\ x \in CatalogCalls
      /\ projects \in ProjectMaps /\ catalogTold \in ProjectMaps /\ x.workspace \in Workspaces
  BY DEF LF!ReadCatalog, CatalogTypes, CatalogCalls
<1>2. ASSUME NEW pc \in {"done", "failed"}, LF!End(c, k, pc),
             catalogTold' \in ProjectMaps, ~disturbed => catalogTold' = catalogTold
      PROVE  CatalogIInv'
  <2>1. /\ change' \in [Changes -> CatalogCalls] /\ queue' \in [Catalogs -> Seq(Changes)]
        /\ change'[c].pc = pc /\ \A d \in Changes \ {c} : change'[d] = change[d]
        /\ Queued'
    BY <1>1, <1>2, CallDone
  <2>2. CatalogTypes'
    BY <1>1, <1>2, <2>1 DEF CatalogTypes
  <2>3. Undisturbed'
    BY <1>1, <1>2, <2>1 DEF Undisturbed
  <2> QED
    BY <2>1, <2>2, <2>3
<1>3. CASE x.kind = "invalid" \/ (x.kind = "ownership" /\ x.workspace \notin DOMAIN projects)
  <2>1. LF!End(c, k, "failed") /\ catalogTold' = catalogTold
    BY <1>3 DEF LF!ReadCatalog
  <2> QED
    BY <1>1, <1>2, <2>1
<1>4. CASE x.kind = "register" /\ x.workspace \in DOMAIN projects
  <2>1. /\ LF!End(c, k, "done")
        /\ catalogTold' = LF!With(catalogTold, x.workspace, projects[x.workspace])
    BY <1>4 DEF LF!ReadCatalog
  <2>2. projects[x.workspace] \in Changes
    BY <1>1, <1>4, MapTypes
  <2>3. catalogTold' \in ProjectMaps
    BY <1>1, <2>1, <2>2, MapTypes
  <2>4. ~disturbed => catalogTold' = catalogTold
    BY <1>1, <1>4, <2>1, MapTypes DEF Undisturbed
  <2> QED
    BY <1>2, <2>1, <2>3, <2>4
<1>5. CASE x.kind = "remove" /\ x.workspace \notin DOMAIN projects
  <2>1. LF!End(c, k, "done") /\ catalogTold' = LF!Without(catalogTold, x.workspace)
    BY <1>5 DEF LF!ReadCatalog
  <2>2. catalogTold' \in ProjectMaps
    BY <1>1, <2>1, MapTypes
  <2>3. ~disturbed => catalogTold' = catalogTold
    BY <1>1, <1>5, <2>1, MapTypes DEF Undisturbed
  <2> QED
    BY <1>2, <2>1, <2>2, <2>3
<1>6. CASE \/ x.kind = "register" /\ x.workspace \notin DOMAIN projects
           \/ x.kind = "ownership" /\ x.workspace \in DOMAIN projects
           \/ x.kind = "remove" /\ x.workspace \in DOMAIN projects
  <2> DEFINE new == [x EXCEPT !.pc = "saving", !.read = projects]
  <2>1. change' = [change EXCEPT ![c] = new] /\ UNCHANGED <<queue, catalogTold>>
    BY <1>6 DEF LF!ReadCatalog
  <2>2. new \in CatalogCalls /\ new.pc = "saving" /\ new.read = projects
    BY <1>1 DEF CatalogCalls, ChangePhases
  <2> HIDE DEF new
  <2>3. /\ change' \in [Changes -> CatalogCalls] /\ change'[c] = new
        /\ \A d \in Changes \ {c} : change'[d] = change[d]
    BY <1>1, <2>1, <2>2
  <2>4. CatalogTypes'
    BY <1>1, <2>1, <2>3 DEF CatalogTypes
  <2>5. Undisturbed'
    BY <1>1, <2>1, <2>2, <2>3 DEF Undisturbed
  <2>6. ASSUME NEW j \in Catalogs, NEW i \in 1..Len(queue[j]) PROVE change'[queue[j][i]].pc \in {"queued", "saving"}
    <3>1. queue[j] \in Seq(Changes)
      BY DEF CatalogTypes
    <3>2. queue[j][i] \in Changes
      BY <3>1
    <3> QED
      BY <2>2, <2>3, <3>2 DEF Queued
  <2>7. \A d \in Changes : change'[d].pc = "saving" => \E j \in Catalogs : LF!Turn(d, j)
    BY <1>1, <2>3 DEF Queued
  <2>8. Queued'
    BY <2>1, <2>6, <2>7 DEF Queued, LF!Turn
  <2> QED
    BY <2>4, <2>5, <2>8
<1> QED
  BY <1>1, <1>3, <1>4, <1>5, <1>6 DEF CatalogCalls

LEMMA SaveCatalogKept ==
    ASSUME CatalogIInv, NEW c \in Changes, NEW k \in Catalogs, LF!SaveCatalog(c, k)
    PROVE  CatalogIInv'
<1> USE DEF CatalogIInv
<1> DEFINE x == change[c]
<1>1. /\ LF!Turn(c, k) /\ x.pc = "saving" /\ LF!End(c, k, "done")
      /\ x \in CatalogCalls /\ projects \in ProjectMaps /\ catalogTold \in ProjectMaps
      /\ x.workspace \in Workspaces /\ x.read \in ProjectMaps
  BY DEF LF!SaveCatalog, CatalogTypes, CatalogCalls
<1>2. /\ change' \in [Changes -> CatalogCalls] /\ queue' \in [Catalogs -> Seq(Changes)]
      /\ change'[c].pc = "done" /\ \A d \in Changes \ {c} : change'[d] = change[d]
      /\ Queued'
  BY <1>1, CallDone
<1>3. /\ projects' = IF x.kind = "remove" THEN LF!Without(x.read, x.workspace) ELSE LF!With(x.read, x.workspace, c)
      /\ catalogTold' = IF x.kind = "remove" THEN LF!Without(catalogTold, x.workspace)
                        ELSE LF!With(catalogTold, x.workspace, c)
      /\ disturbed' = (disturbed \/ \E d \in Changes \ {c}, j \in Catalogs \ {k} :
                                      change[d].pc = "saving" /\ d \in LF!Range(queue[j]))
  BY DEF LF!SaveCatalog
<1>4. projects' \in ProjectMaps /\ catalogTold' \in ProjectMaps
  BY <1>1, <1>3, MapTypes
<1>5. CatalogTypes'
  BY <1>2, <1>3, <1>4 DEF CatalogTypes
<1>6. ASSUME ~disturbed', NEW d \in Changes, change'[d].pc = "saving" PROVE FALSE
  <2>1. d # c /\ change[d].pc = "saving"
    BY <1>2, <1>6
  <2>2. PICK j \in Catalogs : LF!Turn(d, j)
    BY <2>1 DEF Queued
  <2>3. j # k
    BY <1>1, <2>1, <2>2 DEF LF!Turn
  <2>4. queue[j] \in Seq(Changes) /\ queue[j] # <<>> /\ Head(queue[j]) = d
    BY <2>2 DEF LF!Turn, CatalogTypes
  <2>5. d = queue[j][1] /\ 1 \in DOMAIN queue[j]
    BY <2>4
  <2>6. d \in LF!Range(queue[j])
    BY <2>5 DEF LF!Range
  <2> QED
    BY <1>3, <1>6, <2>1, <2>3, <2>6
<1>7. ~disturbed' => projects' = catalogTold'
  BY <1>1, <1>3 DEF Undisturbed
<1>8. Undisturbed'
  BY <1>6, <1>7 DEF Undisturbed
<1> QED
  BY <1>2, <1>5, <1>8

LEMMA StopKept == ASSUME CatalogIInv, NEW k \in Catalogs, LF!Stop(k) PROVE CatalogIInv'
<1> USE DEF CatalogIInv
<1> DEFINE ended(c) == [change[c] EXCEPT !.pc = "failed"]
<1>1. /\ change \in [Changes -> CatalogCalls] /\ queue \in [Catalogs -> Seq(Changes)]
      /\ change' = [c \in Changes |-> IF c \in LF!Range(queue[k]) THEN ended(c) ELSE change[c]]
      /\ queue' = [queue EXCEPT ![k] = <<>>] /\ UNCHANGED <<projects, disturbed, catalogTold>>
  BY DEF LF!Stop, CatalogTypes
<1>2. \A c \in Changes : ended(c) \in CatalogCalls /\ ended(c).pc = "failed"
  BY <1>1 DEF CatalogCalls, ChangePhases
<1> HIDE DEF ended
<1>3. change' \in [Changes -> CatalogCalls]
      /\ \A c \in Changes : change'[c] = IF c \in LF!Range(queue[k]) THEN ended(c) ELSE change[c]
  BY <1>1, <1>2
<1>4. queue' \in [Catalogs -> Seq(Changes)] /\ queue'[k] = <<>> /\ \A j \in Catalogs \ {k} : queue'[j] = queue[j]
  BY <1>1
<1>5. CatalogTypes'
  BY <1>1, <1>3, <1>4 DEF CatalogTypes
<1>6. Undisturbed'
  BY <1>1, <1>2, <1>3 DEF Undisturbed
<1>7. ASSUME NEW j \in Catalogs, NEW i \in 1..Len(queue'[j])
      PROVE  j # k /\ i \in 1..Len(queue[j]) /\ queue'[j][i] = queue[j][i]
  BY <1>4, <1>7
<1>8. ASSUME NEW j \in Catalogs, NEW i \in 1..Len(queue'[j])
      PROVE  change'[queue'[j][i]].pc \in {"queued", "saving"}
  <2>1. j # k /\ i \in 1..Len(queue[j]) /\ queue'[j][i] = queue[j][i]
    BY <1>7
  <2>2. queue[j] \in Seq(Changes) /\ queue[k] \in Seq(Changes)
    BY <1>1
  <2>3. queue[j][i] \in Changes
    BY <2>1, <2>2
  <2>4. queue[j][i] \notin LF!Range(queue[k])
    <3> SUFFICES ASSUME NEW n \in DOMAIN queue[k], queue[k][n] = queue[j][i] PROVE FALSE
      BY DEF LF!Range
    <3>1. n \in 1..Len(queue[k])
      BY <2>2
    <3> QED
      BY <2>1, <3>1 DEF Queued
  <2> QED
    BY <1>3, <2>1, <2>3, <2>4 DEF Queued
<1>9. ASSUME NEW j \in Catalogs, NEW i \in 1..Len(queue'[j]), NEW m \in Catalogs, NEW n \in 1..Len(queue'[m]),
             queue'[m][n] = queue'[j][i]
      PROVE  m = j /\ n = i
  <2>1. i \in 1..Len(queue[j]) /\ queue'[j][i] = queue[j][i]
    BY <1>7
  <2>2. n \in 1..Len(queue[m]) /\ queue'[m][n] = queue[m][n]
    BY <1>7
  <2> QED
    BY <1>9, <2>1, <2>2 DEF Queued
<1>10. ASSUME NEW d \in Changes, change'[d].pc = "saving" PROVE \E j \in Catalogs : LF!Turn(d, j)'
  <2>1. d \notin LF!Range(queue[k]) /\ change[d].pc = "saving"
    BY <1>2, <1>3, <1>10
  <2>2. PICK j \in Catalogs : LF!Turn(d, j)
    BY <2>1 DEF Queued
  <2>3. queue[j] \in Seq(Changes)
    BY <1>1
  <2>4. d = queue[j][1] /\ 1 \in DOMAIN queue[j]
    BY <2>2, <2>3 DEF LF!Turn
  <2>5. j # k
    BY <2>1, <2>4 DEF LF!Range
  <2> QED
    BY <1>4, <2>2, <2>5 DEF LF!Turn
<1>11. Queued'
  BY <1>8, <1>9, <1>10 DEF Queued
<1> QED
  BY <1>5, <1>6, <1>11

LEMMA CatalogKept == CatalogIInv /\ LF!CatalogNext => CatalogIInv'
  BY EnqueueKept, ReadCatalogKept, SaveCatalogKept, StopKept DEF LF!CatalogNext

LEMMA CatalogMeans == CatalogIInv => LF!CatalogInv
  BY DEF CatalogIInv, Undisturbed, LF!CatalogInv

-----------------------------------------------------------------------------
(* The identity of a device *)

StartPhases == {"off", "read", "make", "half", "up", "failed"}
Keys == {0} \cup Starts
IdentityTypes ==
    /\ private \in Keys /\ public \in Keys /\ together \in BOOLEAN
    /\ start \in [Starts -> [pc : StartPhases, private : Keys, public : Keys]]
\* Whoever makes keys makes a pair.
OwnPair ==
    \A s \in Starts : /\ start[s].pc \in LF!Making => start[s].private = s /\ start[s].public = s
                      /\ start[s].pc = "up" => start[s].private = start[s].public /\ start[s].public # 0
\* While no two make keys at once, the public key on disk is the private one's, and
\* whoever makes keys is alone, with no public key there yet.
OneMaker ==
    ~together =>
        /\ public # 0 => private = public
        /\ \A s \in Starts :
              /\ start[s].pc \in LF!Making => public = 0 /\ \A t \in Starts \ {s} : start[t].pc \notin LF!Making
              /\ start[s].pc = "half" => private = s
              /\ start[s].pc = "up" => private = start[s].private /\ public = start[s].public
IdentityIInv == IdentityTypes /\ OwnPair /\ OneMaker

LEMMA StartNumbers == \A s \in Starts : s # 0
  BY FilesAssumption

LEMMA IdentityStart == LF!IdentityInit => IdentityIInv
<1> SUFFICES ASSUME LF!IdentityInit PROVE IdentityIInv
  OBVIOUS
<1>1. start = [s \in Starts |-> [pc |-> "off", private |-> 0, public |-> 0]] /\ private = 0 /\ public = 0
      /\ together = FALSE
  BY DEF LF!IdentityInit
<1>2. IdentityTypes
  BY <1>1 DEF IdentityTypes, StartPhases, Keys
<1>3. OwnPair /\ OneMaker
  BY <1>1 DEF OwnPair, OneMaker, LF!Making
<1> QED
  BY <1>2, <1>3 DEF IdentityIInv

\* A step of one start leaves the others as they are.
LEMMA StartMoves ==
    ASSUME IdentityTypes, NEW s \in Starts,
           NEW r \in [pc : StartPhases, private : Keys, public : Keys], LF!Step(s, r)
    PROVE  /\ start' \in [Starts -> [pc : StartPhases, private : Keys, public : Keys]]
           /\ start'[s] = r /\ \A t \in Starts \ {s} : start'[t] = start[t]
  BY DEF LF!Step, IdentityTypes

LEMMA IdentityKept == IdentityIInv /\ LF!IdentityNext => IdentityIInv'
<1> SUFFICES ASSUME IdentityIInv, NEW s \in Starts,
                    \/ LF!ReadPrivate(s) \/ LF!ReadPublic(s) \/ LF!WritePrivate(s) \/ LF!WritePublic(s) \/ LF!Die(s)
             PROVE  IdentityIInv'
  BY DEF LF!IdentityNext
<1> USE DEF IdentityIInv
<1> DEFINE Recs == [pc : StartPhases, private : Keys, public : Keys]
<1>1. start[s] \in Recs /\ private \in Keys /\ public \in Keys /\ s \in Keys /\ s # 0 /\ 0 \in Keys
  BY StartNumbers DEF IdentityTypes, Keys
<1>2. \A pc \in StartPhases : /\ [start[s] EXCEPT !.pc = pc] \in Recs
                              /\ [start[s] EXCEPT !.pc = pc].pc = pc
                              /\ [start[s] EXCEPT !.pc = pc].private = start[s].private
                              /\ [start[s] EXCEPT !.pc = pc].public = start[s].public
  BY <1>1
<1>3. CASE LF!ReadPrivate(s)
  <2> DEFINE r == [start[s] EXCEPT !.pc = "read", !.private = private]
  <2>1. r \in Recs /\ r.pc = "read"
    BY <1>1 DEF StartPhases
  <2>2. LF!Step(s, r)
    BY <1>3 DEF LF!ReadPrivate
  <2> HIDE DEF r
  <2>3. start' \in [Starts -> Recs] /\ start'[s] = r /\ \A t \in Starts \ {s} : start'[t] = start[t]
    BY <2>1, <2>2, StartMoves
  <2>4. start'[s].pc \notin LF!Making /\ start'[s].pc # "up" /\ start'[s].pc # "half"
    BY <2>1, <2>3 DEF LF!Making
  <2>5. UNCHANGED <<private, public, together>>
    BY <1>3 DEF LF!ReadPrivate
  <2>6. IdentityTypes'
    BY <2>3, <2>5 DEF IdentityTypes
  <2>7. OwnPair'
    BY <2>3, <2>4 DEF OwnPair
  <2>8. OneMaker'
    BY <2>3, <2>4, <2>5 DEF OneMaker
  <2> QED
    BY <2>6, <2>7, <2>8
<1>4. CASE LF!ReadPublic(s)
  <2> DEFINE none == start[s].private = 0 /\ public = 0
             r == [start[s] EXCEPT !.public = public]
             made == [r EXCEPT !.pc = IF none THEN "make" ELSE IF LF!Matches(r.private, public) THEN "up" ELSE "failed",
                               !.private = IF none THEN s ELSE @, !.public = IF none THEN s ELSE @]
  <2>1. r \in Recs /\ r.private = start[s].private /\ r.public = public
    BY <1>1
  <2>2. LF!Step(s, made)
    BY <1>4, <2>1 DEF LF!ReadPublic
  <2>3. /\ made \in Recs
        /\ none => made.pc = "make" /\ made.private = s /\ made.public = s
        /\ ~none => /\ made.private = start[s].private /\ made.public = public
                    /\ made.pc = IF LF!Matches(start[s].private, public) THEN "up" ELSE "failed"
    <3>1. CASE none
      BY <1>1, <2>1, <3>1 DEF StartPhases
    <3>2. CASE ~none
      BY <1>1, <2>1, <3>2 DEF StartPhases
    <3> QED
      BY <3>1, <3>2
  <2>4. together' = (together \/ (none /\ \E t \in Starts \ {s} : start[t].pc \in LF!Making \cup {"read"}))
    BY <1>4, <2>1 DEF LF!ReadPublic
  <2> HIDE DEF made
  <2>5. start' \in [Starts -> Recs] /\ start'[s] = made /\ \A t \in Starts \ {s} : start'[t] = start[t]
    BY <2>2, <2>3, StartMoves
  <2>6. UNCHANGED <<private, public>>
    BY <1>4 DEF LF!ReadPublic
  <2>7. IdentityTypes'
    BY <1>1, <2>4, <2>5, <2>6 DEF IdentityTypes
  <2>8. CASE none
    <3>1. start'[s].pc = "make" /\ start'[s].private = s /\ start'[s].public = s
      BY <2>3, <2>5, <2>8
    <3>2. OwnPair'
      BY <2>5, <3>1 DEF OwnPair
    <3>3. ASSUME ~together' PROVE ~together /\ \A t \in Starts \ {s} : start[t].pc \notin LF!Making
      BY <2>4, <2>8, <3>3
    <3>4. ASSUME ~together', NEW t \in Starts PROVE start'[t].pc # "up"
      <4>1. CASE t = s
        BY <3>1, <4>1
      <4>2. CASE t # s
        BY <2>5, <2>8, <3>3, <3>4, <4>2 DEF OneMaker, OwnPair
      <4> QED
        BY <4>1, <4>2
    <3>5. OneMaker'
      BY <2>5, <2>6, <2>8, <3>1, <3>3, <3>4 DEF OneMaker, LF!Making
    <3> QED
      BY <2>7, <3>2, <3>5
  <2>9. CASE ~none
    <3>1. /\ start'[s].pc \notin LF!Making /\ start'[s].pc # "half" /\ together' = together
          /\ start'[s].pc = "up" => /\ public # 0 /\ start[s].private = public
                                    /\ start'[s].private = public /\ start'[s].public = public
      BY <1>1, <2>3, <2>4, <2>5, <2>9 DEF LF!Matches, LF!Making, IdentityTypes
    <3>2. OwnPair'
      BY <2>5, <3>1 DEF OwnPair
    <3>3. OneMaker'
      BY <2>5, <2>6, <3>1 DEF OneMaker
    <3> QED
      BY <2>7, <3>2, <3>3
  <2> QED
    BY <2>8, <2>9
<1>5. ASSUME NEW pc \in {"half", "up", "failed"}, LF!Step(s, [start[s] EXCEPT !.pc = pc])
      PROVE  /\ start' \in [Starts -> Recs] /\ start'[s].pc = pc
             /\ start'[s].private = start[s].private /\ start'[s].public = start[s].public
             /\ \A t \in Starts \ {s} : start'[t] = start[t]
  BY <1>2, <1>5, StartMoves DEF StartPhases
<1>6. CASE LF!WritePrivate(s) /\ private = 0
  <2>1. private' = s /\ UNCHANGED <<public, together>> /\ start[s].pc = "make"
        /\ LF!Step(s, [start[s] EXCEPT !.pc = "half"])
    BY <1>6 DEF LF!WritePrivate
  <2>2. IdentityTypes'
    BY <1>1, <1>5, <2>1 DEF IdentityTypes
  <2>3. OwnPair'
    BY <1>5, <2>1 DEF OwnPair, LF!Making
  <2>4. ASSUME ~together PROVE public = 0 /\ \A t \in Starts : t # s => start[t].pc \notin LF!Making /\ start[t].pc # "up"
    BY <2>1, <2>4 DEF OneMaker, OwnPair, LF!Making
  <2>5. OneMaker'
    BY <1>5, <2>1, <2>4 DEF OneMaker, LF!Making
  <2> QED
    BY <2>2, <2>3, <2>5
<1>7. CASE LF!WritePublic(s) /\ public = 0
  <2>1. public' = s /\ UNCHANGED <<private, together>> /\ start[s].pc = "half"
        /\ LF!Step(s, [start[s] EXCEPT !.pc = "up"])
    BY <1>7 DEF LF!WritePublic
  <2>2. IdentityTypes'
    BY <1>1, <1>5, <2>1 DEF IdentityTypes
  <2>3. start[s].private = s /\ start[s].public = s
    BY <2>1 DEF OwnPair, LF!Making
  <2>4. OwnPair'
    BY <1>1, <1>5, <2>1, <2>3 DEF OwnPair, LF!Making
  <2>5. ASSUME ~together
        PROVE  private = s /\ \A t \in Starts : t # s => start[t].pc \notin LF!Making /\ start[t].pc # "up"
    BY <1>7, <2>1, <2>5 DEF OneMaker, OwnPair, LF!Making
  <2>6. OneMaker'
    BY <1>5, <2>1, <2>3, <2>5 DEF OneMaker, LF!Making
  <2> QED
    BY <2>2, <2>4, <2>6
<1>8. CASE (LF!WritePrivate(s) /\ private # 0) \/ (LF!WritePublic(s) /\ public # 0)
  <2>1. /\ private' = 0 /\ public' = 0 /\ together' = together /\ start[s].pc \in LF!Making
        /\ LF!Step(s, [start[s] EXCEPT !.pc = "failed"])
    BY <1>8 DEF LF!WritePrivate, LF!WritePublic, LF!Making
  <2>2. IdentityTypes'
    BY <1>1, <1>5, <2>1 DEF IdentityTypes
  <2>3. OwnPair'
    BY <1>5, <2>1 DEF OwnPair, LF!Making
  <2>4. ASSUME ~together PROVE \A t \in Starts : t # s => start[t].pc \notin LF!Making /\ start[t].pc # "up"
    BY <2>1, <2>4 DEF OneMaker, OwnPair
  <2>5. OneMaker'
    BY <1>5, <2>1, <2>4 DEF OneMaker, LF!Making
  <2> QED
    BY <2>2, <2>3, <2>5
<1>9. CASE LF!Die(s)
  <2>1. UNCHANGED <<private, public, together>> /\ LF!Step(s, [start[s] EXCEPT !.pc = "failed"])
    BY <1>9 DEF LF!Die
  <2>2. IdentityTypes'
    BY <1>1, <1>5, <2>1 DEF IdentityTypes
  <2>3. OwnPair'
    BY <1>5, <2>1 DEF OwnPair, LF!Making
  <2>4. OneMaker'
    BY <1>5, <2>1 DEF OneMaker, LF!Making
  <2> QED
    BY <2>2, <2>3, <2>4
<1> QED
  BY <1>3, <1>4, <1>6, <1>7, <1>8, <1>9

LEMMA IdentityMeans == IdentityIInv => LF!IdentityInv
  BY DEF IdentityIInv, OwnPair, OneMaker, LF!IdentityInv

-----------------------------------------------------------------------------
(* The installed versions of the program *)

UpdaterPhases == {"off", "mkdir", "own", "look", "token", "move", "compare", "find", "stage", "remove", "put",
                  "links", "previous", "current", "unlock", "ended", "killed"}
UpdaterRows == [pc : UpdaterPhases, op : {"install", "rollback"}, version : Nat, look : Int, stale : Int,
                old : Nat, target : Nat]
UpdateTypes ==
    /\ updateLock \in Int /\ aside \in [Updaters -> Int]
    /\ installed \subseteq Nat /\ links \in [current : Nat, previous : Nat]
    /\ latest \in Nat /\ kills \in Nat /\ hurried \in BOOLEAN
    /\ up \in [Updaters -> UpdaterRows]

\* Unless the lock was replaced under somebody who examined it, whoever works owns it,
\* whoever is about to name itself in it is alone, and whoever examines it sees what is there.
LockOwned ==
    ~hurried =>
      /\ updateLock \in Updaters => up[updateLock].pc # "off"
      /\ \A p \in Updaters :
          /\ up[p].pc \in LF!U!Working => updateLock = p
          /\ up[p].pc = "own" => /\ updateLock = LF!U!Bare
                                 /\ \A q \in Updaters \ {p} : up[q].pc # "own"
          /\ up[p].pc = "token" => updateLock \in Updaters /\ up[p].look = updateLock
          /\ up[p].pc = "move" => /\ updateLock \in Updaters /\ up[p].stale = updateLock
                                  /\ up[updateLock].pc \in {"ended", "killed"}
          /\ up[p].pc = "compare" => aside[p] = up[p].stale
          /\ aside[p] # 0 => up[p].pc \in {"compare", "killed"}

\* A version is installed, or its directory is being replaced.
Kept(v) ==
    v \in installed \/ \E q \in Updaters : /\ up[q].pc \in {"put", "killed"} /\ up[q].target = v
                                           /\ up[q].version < v
\* So is every version that a link names or is about to name.
Present ==
    /\ links.current # 0 /\ Kept(links.current)
    /\ links.previous # 0 => Kept(links.previous)
    /\ \A p \in Updaters :
          /\ up[p].pc \in {"stage", "remove", "put"} => up[p].version < up[p].target
          /\ (up[p].pc = "links" /\ up[p].op = "install") \/ up[p].pc \in {"previous", "current"}
               => up[p].target # 0 /\ Kept(up[p].target)
          /\ up[p].pc = "previous" => up[p].old # 0 /\ Kept(up[p].old)
\* `previous` names another version before, and will after, `current` is changed.
Settled ==
    kills = 0 /\ ~hurried =>
      /\ \A p \in Updaters : /\ up[p].pc = "previous" => up[p].old = links.current
                             /\ up[p].pc = "current" => links.previous # up[p].target
      /\ (\A p \in Updaters : up[p].pc # "current") => links.previous # links.current
UpdateIInv == UpdateTypes /\ LockOwned /\ Present /\ Settled

LEMMA UpdaterNumbers ==
    /\ Updaters \subseteq Nat /\ 0 \notin Updaters
    /\ LF!U!Bare \in Int /\ LF!U!Bare \notin Updaters /\ LF!U!Bare # 0 /\ LF!U!None = 0
  BY FilesAssumption DEF LF!U!Bare, LF!U!None

LEMMA UpdateStart == LF!U!UpdateInit => UpdateIInv
<1> SUFFICES ASSUME LF!U!UpdateInit PROVE UpdateIInv
  OBVIOUS
<1> DEFINE new == [pc |-> "off", op |-> "install", version |-> 0, look |-> 0, stale |-> 0, old |-> 0, target |-> 0]
<1>1. /\ up = [p \in Updaters |-> new] /\ aside = [p \in Updaters |-> 0] /\ updateLock = 0
      /\ installed = {1} /\ links = [current |-> 1, previous |-> 0] /\ latest = 1 /\ kills = 0 /\ hurried = FALSE
  BY DEF LF!U!UpdateInit, LF!U!None
<1>2. new \in UpdaterRows /\ new.pc = "off"
  BY DEF UpdaterRows, UpdaterPhases
<1> HIDE DEF new
<1>3. up \in [Updaters -> UpdaterRows] /\ \A p \in Updaters : up[p].pc = "off"
  BY <1>1, <1>2
<1>4. UpdateTypes
  <2>1. links \in [current : Nat, previous : Nat]
    BY <1>1
  <2>2. aside \in [Updaters -> Int] /\ installed \subseteq Nat
    BY <1>1
  <2>3. updateLock \in Int /\ latest \in Nat /\ kills \in Nat
    BY <1>1
  <2>4. hurried \in BOOLEAN
    BY <1>1, Zenon
  <2> QED
    BY <1>3, <2>1, <2>2, <2>3, <2>4 DEF UpdateTypes
<1>5. LockOwned
  BY <1>1, <1>3, UpdaterNumbers DEF LockOwned, LF!U!Working
<1>6. Present
  <2>1. links.current = 1 /\ links.previous = 0 /\ 1 \in installed
    BY <1>1
  <2> QED
    BY <1>3, <2>1 DEF Present, Kept
<1>7. Settled
  <2>1. links.current = 1 /\ links.previous = 0
    BY <1>1
  <2> QED
    BY <1>3, <2>1 DEF Settled
<1> QED
  BY <1>4, <1>5, <1>6, <1>7 DEF UpdateIInv

LEMMA RowPut ==
    ASSUME UpdateTypes, NEW p \in Updaters, NEW r \in UpdaterRows, LF!U!Set(p, r)
    PROVE  /\ up' \in [Updaters -> UpdaterRows] /\ up'[p] = r
           /\ \A q \in Updaters \ {p} : up'[q] = up[q]
  BY DEF LF!U!Set, UpdateTypes

LEMMA UpdaterGoes ==
    ASSUME UpdateTypes, NEW p \in Updaters, NEW pc \in UpdaterPhases, LF!U!Goto(p, pc)
    PROVE  /\ up' \in [Updaters -> UpdaterRows] /\ \A q \in Updaters \ {p} : up'[q] = up[q]
           /\ up'[p].pc = pc /\ up'[p].op = up[p].op /\ up'[p].version = up[p].version
           /\ up'[p].look = up[p].look /\ up'[p].stale = up[p].stale
           /\ up'[p].old = up[p].old /\ up'[p].target = up[p].target
<1> DEFINE r == [up[p] EXCEPT !.pc = pc]
<1>1. up[p] \in UpdaterRows
  BY DEF UpdateTypes
<1>2. /\ r \in UpdaterRows /\ r.pc = pc /\ r.op = up[p].op /\ r.version = up[p].version
      /\ r.look = up[p].look /\ r.stale = up[p].stale /\ r.old = up[p].old /\ r.target = up[p].target
  BY <1>1 DEF UpdaterRows
<1>3. LF!U!Set(p, r)
  BY DEF LF!U!Goto
<1> HIDE DEF r
<1> QED
  BY <1>2, <1>3, RowPut

\* The other steps, and what they note.
LEMMA UpdaterNotes ==
    ASSUME UpdateTypes, NEW p \in Updaters
    PROVE  /\ \A op \in {"install", "rollback"} : LF!U!StartUpdate(p, op) =>
                /\ up' \in [Updaters -> UpdaterRows] /\ \A q \in Updaters \ {p} : up'[q] = up[q]
                /\ up'[p].pc = "mkdir"
           /\ LF!U!LookPid(p) =>
                /\ up' \in [Updaters -> UpdaterRows] /\ \A q \in Updaters \ {p} : up'[q] = up[q]
                /\ \/ updateLock \in Updaters /\ up'[p].pc = "token" /\ up'[p].look = updateLock
                   \/ up'[p].pc = "ended"
           /\ LF!U!LookToken(p) =>
                /\ up' \in [Updaters -> UpdaterRows] /\ \A q \in Updaters \ {p} : up'[q] = up[q]
                /\ \/ /\ updateLock \in Updaters /\ LF!U!Stale(up[p].look)
                      /\ up'[p].pc = "move" /\ up'[p].stale = updateLock
                   \/ up'[p].pc = "ended"
           /\ LF!U!Find(p) =>
                /\ up' \in [Updaters -> UpdaterRows] /\ \A q \in Updaters \ {p} : up'[q] = up[q]
                /\ \/ up'[p].pc = "links" /\ up'[p].op = "rollback"
                   \/ up'[p].pc = "stage" /\ up'[p].version < up'[p].target
                   \/ up'[p].pc = "unlock"
           /\ LF!U!ReadLinks(p) =>
                /\ up' \in [Updaters -> UpdaterRows] /\ \A q \in Updaters \ {p} : up'[q] = up[q]
                /\ \/ up'[p].pc = "unlock"
                   \/ /\ up'[p].pc = "previous" /\ up'[p].old = links.current
                      /\ up'[p].target = IF up[p].op = "rollback" THEN links.previous ELSE up[p].target
                      /\ up'[p].target # 0
<1>1. up[p] \in UpdaterRows /\ updateLock \in Int /\ latest \in Nat /\ links.current \in Nat /\ links.previous \in Nat
  BY DEF UpdateTypes
<1>2. ASSUME NEW op \in {"install", "rollback"}, LF!U!StartUpdate(p, op)
      PROVE  /\ up' \in [Updaters -> UpdaterRows] /\ \A q \in Updaters \ {p} : up'[q] = up[q]
             /\ up'[p].pc = "mkdir"
  <2> DEFINE r == [up[p] EXCEPT !.pc = "mkdir", !.op = op, !.version = links.current]
  <2>1. r \in UpdaterRows /\ r.pc = "mkdir"
    BY <1>1 DEF UpdaterRows, UpdaterPhases
  <2>2. LF!U!Set(p, r)
    BY <1>2 DEF LF!U!StartUpdate
  <2> HIDE DEF r
  <2> QED
    BY <2>1, <2>2, RowPut
<1>3. ASSUME LF!U!LookPid(p)
      PROVE  /\ up' \in [Updaters -> UpdaterRows] /\ \A q \in Updaters \ {p} : up'[q] = up[q]
             /\ \/ updateLock \in Updaters /\ up'[p].pc = "token" /\ up'[p].look = updateLock
                \/ up'[p].pc = "ended"
  <2> DEFINE r == [up[p] EXCEPT !.pc = "token", !.look = updateLock]
  <2>1. r \in UpdaterRows /\ r.pc = "token" /\ r.look = updateLock
    BY <1>1 DEF UpdaterRows, UpdaterPhases
  <2>2. CASE updateLock \in Updaters
    <3>1. LF!U!Set(p, r)
      BY <1>3, <2>2 DEF LF!U!LookPid
    <3> HIDE DEF r
    <3> QED
      BY <2>1, <2>2, <3>1, RowPut
  <2>3. CASE updateLock \notin Updaters
    <3>1. LF!U!Goto(p, "ended") /\ "ended" \in UpdaterPhases
      BY <1>3, <2>3 DEF LF!U!LookPid, UpdaterPhases
    <3> QED
      BY <3>1, UpdaterGoes
  <2> QED
    BY <2>2, <2>3
<1>4. ASSUME LF!U!LookToken(p)
      PROVE  /\ up' \in [Updaters -> UpdaterRows] /\ \A q \in Updaters \ {p} : up'[q] = up[q]
             /\ \/ /\ updateLock \in Updaters /\ LF!U!Stale(up[p].look)
                   /\ up'[p].pc = "move" /\ up'[p].stale = updateLock
                \/ up'[p].pc = "ended"
  <2> DEFINE r == [up[p] EXCEPT !.pc = "move", !.stale = updateLock]
  <2>1. r \in UpdaterRows /\ r.pc = "move" /\ r.stale = updateLock
    BY <1>1 DEF UpdaterRows, UpdaterPhases
  <2>2. CASE updateLock \in Updaters /\ LF!U!Stale(up[p].look)
    <3>1. LF!U!Set(p, r)
      BY <1>4, <2>2 DEF LF!U!LookToken
    <3> HIDE DEF r
    <3> QED
      BY <2>1, <2>2, <3>1, RowPut
  <2>3. CASE ~(updateLock \in Updaters /\ LF!U!Stale(up[p].look))
    <3>1. LF!U!Goto(p, "ended") /\ "ended" \in UpdaterPhases
      BY <1>4, <2>3 DEF LF!U!LookToken, UpdaterPhases
    <3> QED
      BY <3>1, UpdaterGoes
  <2> QED
    BY <2>2, <2>3
<1>5. ASSUME LF!U!Find(p)
      PROVE  /\ up' \in [Updaters -> UpdaterRows] /\ \A q \in Updaters \ {p} : up'[q] = up[q]
             /\ \/ up'[p].pc = "links" /\ up'[p].op = "rollback"
                \/ up'[p].pc = "stage" /\ up'[p].version < up'[p].target
                \/ up'[p].pc = "unlock"
  <2> DEFINE r == [up[p] EXCEPT !.pc = "stage", !.target = latest]
  <2>1. r \in UpdaterRows /\ r.pc = "stage" /\ r.target = latest /\ r.version = up[p].version
    BY <1>1 DEF UpdaterRows, UpdaterPhases
  <2>2. {"links", "unlock"} \subseteq UpdaterPhases
    BY DEF UpdaterPhases
  <2>3. CASE up[p].op = "rollback"
    <3>1. LF!U!Goto(p, "links")
      BY <1>5, <2>3 DEF LF!U!Find
    <3> QED
      BY <2>2, <2>3, <3>1, UpdaterGoes
  <2>4. CASE up[p].op # "rollback" /\ LF!U!Wanted(p)
    <3>1. LF!U!Set(p, r)
      BY <1>5, <2>4 DEF LF!U!Find
    <3>2. up[p].version < latest
      BY <1>1, <2>4 DEF LF!U!Wanted, UpdaterRows
    <3> HIDE DEF r
    <3> QED
      BY <2>1, <3>1, <3>2, RowPut
  <2>5. CASE up[p].op # "rollback" /\ ~LF!U!Wanted(p)
    <3>1. LF!U!Goto(p, "unlock")
      BY <1>5, <2>5 DEF LF!U!Find
    <3> QED
      BY <2>2, <3>1, UpdaterGoes
  <2> QED
    BY <2>3, <2>4, <2>5
<1>6. ASSUME LF!U!ReadLinks(p)
      PROVE  /\ up' \in [Updaters -> UpdaterRows] /\ \A q \in Updaters \ {p} : up'[q] = up[q]
             /\ \/ up'[p].pc = "unlock"
                \/ /\ up'[p].pc = "previous" /\ up'[p].old = links.current
                   /\ up'[p].target = IF up[p].op = "rollback" THEN links.previous ELSE up[p].target
                   /\ up'[p].target # 0
  <2> DEFINE target == IF up[p].op = "rollback" THEN links.previous ELSE up[p].target
             r == [up[p] EXCEPT !.target = target, !.old = links.current,
                                !.pc = IF target = LF!U!None THEN "unlock" ELSE "previous"]
  <2>1. LF!U!Set(p, r)
    BY <1>6 DEF LF!U!ReadLinks
  <2>2. target \in Nat
    BY <1>1 DEF UpdaterRows
  <2> HIDE DEF target
  <2>3. /\ r \in UpdaterRows /\ r.target = target /\ r.old = links.current
        /\ r.pc = IF target = 0 THEN "unlock" ELSE "previous"
    BY <1>1, <2>2, UpdaterNumbers DEF UpdaterRows, UpdaterPhases
  <2> HIDE DEF r
  <2>4. up' \in [Updaters -> UpdaterRows] /\ up'[p] = r /\ \A q \in Updaters \ {p} : up'[q] = up[q]
    BY <2>1, <2>3, RowPut
  <2> QED
    BY <2>3, <2>4 DEF target
<1> QED
  BY <1>2, <1>3, <1>4, <1>5, <1>6


\* Whichever step is taken, it is taken by a living updater that is where the step begins.
LEMMA UpdateTypesKept == UpdateTypes /\ LF!U!UpdateNext => UpdateTypes'
<1> SUFFICES ASSUME UpdateTypes, LF!U!UpdateNext PROVE UpdateTypes'
  OBVIOUS
<1>0. /\ updateLock \in Int /\ aside \in [Updaters -> Int] /\ installed \subseteq Nat
      /\ links \in [current : Nat, previous : Nat] /\ latest \in Nat /\ kills \in Nat /\ hurried \in BOOLEAN
      /\ up \in [Updaters -> UpdaterRows]
  BY DEF UpdateTypes
<1> USE UpdaterNumbers
<1>1. CASE LF!U!Publish
  BY <1>0, <1>1 DEF LF!U!Publish, LF!U!LockKept, LF!U!FilesKept, UpdateTypes
<1>2. ASSUME NEW p \in Updaters,
             (\E op \in {"install", "rollback"} : LF!U!StartUpdate(p, op)) \/ LF!U!LookPid(p) \/ LF!U!LookToken(p)
               \/ LF!U!Find(p) \/ LF!U!ReadLinks(p)
      PROVE  UpdateTypes'
  <2>1. up' \in [Updaters -> UpdaterRows]
    BY <1>2, UpdaterNotes
  <2>2. UNCHANGED <<updateLock, aside, hurried, installed, links, latest, kills>>
    BY <1>2 DEF LF!U!StartUpdate, LF!U!LookPid, LF!U!LookToken, LF!U!Find, LF!U!ReadLinks, LF!U!LockKept, LF!U!FilesKept
  <2> QED
    BY <1>0, <2>1, <2>2 DEF UpdateTypes
<1>3. ASSUME NEW p \in Updaters, NEW pc \in UpdaterPhases, LF!U!Goto(p, pc)
      PROVE  up' \in [Updaters -> UpdaterRows]
  BY <1>3, UpdaterGoes
<1>4. ASSUME NEW p \in Updaters, LF!U!MakeLock(p) \/ LF!U!WriteOwner(p) PROVE UpdateTypes'
  <2>1. up' \in [Updaters -> UpdaterRows]
    BY <1>3, <1>4 DEF LF!U!MakeLock, LF!U!WriteOwner, UpdaterPhases
  <2>2. updateLock' \in Int
    BY <1>0, <1>4 DEF LF!U!MakeLock, LF!U!WriteOwner
  <2>3. hurried' \in BOOLEAN
    BY <1>0, <1>4 DEF LF!U!MakeLock, LF!U!WriteOwner
  <2> QED
    BY <1>0, <1>4, <2>1, <2>2, <2>3 DEF LF!U!MakeLock, LF!U!WriteOwner, LF!U!FilesKept, UpdateTypes
<1>5. ASSUME NEW p \in Updaters, LF!U!Quarantine(p) PROVE UpdateTypes'
  <2>1. up' \in [Updaters -> UpdaterRows]
    BY <1>3, <1>5 DEF LF!U!Quarantine, UpdaterPhases
  <2>2. updateLock' \in Int /\ hurried' \in BOOLEAN /\ aside' \in [Updaters -> Int]
    BY <1>0, <1>5 DEF LF!U!Quarantine
  <2> QED
    BY <1>0, <1>5, <2>1, <2>2 DEF LF!U!Quarantine, LF!U!FilesKept, UpdateTypes
<1>6. ASSUME NEW p \in Updaters, LF!U!Compare(p) PROVE UpdateTypes'
  <2>1. up' \in [Updaters -> UpdaterRows]
    BY <1>3, <1>6 DEF LF!U!Compare, UpdaterPhases
  <2>2. updateLock' \in Int /\ aside' \in [Updaters -> Int]
    BY <1>0, <1>6 DEF LF!U!Compare, LF!U!Restored
  <2> QED
    BY <1>0, <1>6, <2>1, <2>2 DEF LF!U!Compare, LF!U!FilesKept, UpdateTypes
<1>7. ASSUME NEW p \in Updaters, LF!U!Stage(p) \/ LF!U!RemoveTarget(p) \/ LF!U!PutTarget(p) PROVE UpdateTypes'
  <2>1. up' \in [Updaters -> UpdaterRows]
    BY <1>3, <1>7 DEF LF!U!Stage, LF!U!RemoveTarget, LF!U!PutTarget, UpdaterPhases
  <2>2. up[p].target \in Nat
    BY <1>0 DEF UpdaterRows
  <2>3. installed' \subseteq Nat
    BY <1>0, <1>7, <2>2 DEF LF!U!Stage, LF!U!RemoveTarget, LF!U!PutTarget, LF!U!FilesKept
  <2> QED
    BY <1>0, <1>7, <2>1, <2>3
       DEF LF!U!Stage, LF!U!RemoveTarget, LF!U!PutTarget, LF!U!FilesKept, LF!U!LockKept, UpdateTypes
<1>8. ASSUME NEW p \in Updaters, LF!U!LinkPrevious(p) \/ LF!U!LinkCurrent(p) PROVE UpdateTypes'
  <2>1. up' \in [Updaters -> UpdaterRows]
    BY <1>3, <1>8 DEF LF!U!LinkPrevious, LF!U!LinkCurrent, UpdaterPhases
  <2>2. up[p].target \in Nat /\ LF!U!Previous(p) \in Nat
    BY <1>0 DEF UpdaterRows, LF!U!Previous
  <2>3. links' \in [current : Nat, previous : Nat]
    BY <1>0, <1>8, <2>2 DEF LF!U!LinkPrevious, LF!U!LinkCurrent
  <2> QED
    BY <1>0, <1>8, <2>1, <2>3 DEF LF!U!LinkPrevious, LF!U!LinkCurrent, LF!U!LockKept, UpdateTypes
<1>9. ASSUME NEW p \in Updaters, LF!U!Unlock(p) PROVE UpdateTypes'
  <2>1. up' \in [Updaters -> UpdaterRows]
    BY <1>3, <1>9 DEF LF!U!Unlock, UpdaterPhases
  <2>2. updateLock' \in Int /\ hurried' \in BOOLEAN
    BY <1>0, <1>9 DEF LF!U!Unlock, LF!U!Released
  <2> QED
    BY <1>0, <1>9, <2>1, <2>2 DEF LF!U!Unlock, LF!U!FilesKept, UpdateTypes
<1>10. ASSUME NEW p \in Updaters, LF!U!Kill(p) PROVE UpdateTypes'
  <2>1. up' \in [Updaters -> UpdaterRows]
    BY <1>3, <1>10 DEF LF!U!Kill, UpdaterPhases
  <2> QED
    BY <1>0, <1>10, <2>1 DEF LF!U!Kill, LF!U!LockKept, LF!U!FilesKept, UpdateTypes
<1> QED
  BY <1>1, <1>2, <1>4, <1>5, <1>6, <1>7, <1>8, <1>9, <1>10 DEF LF!U!UpdateNext

\* A version stays installed or being replaced.
LEMMA StaysKept ==
    ASSUME UpdateTypes, Present, LF!U!UpdateNext, NEW v \in Nat, Kept(v)
    PROVE  Kept(v)'
<1> USE DEF Kept
<1>1. CASE LF!U!Publish
  BY <1>1 DEF LF!U!Publish, LF!U!FilesKept
<1>2. ASSUME NEW p \in Updaters, up[p].pc \notin {"put", "killed"}, installed \subseteq installed',
             \A q \in Updaters \ {p} : up'[q] = up[q]
      PROVE  Kept(v)'
  BY <1>2
<1>3. ASSUME NEW p \in Updaters,
             (\E op \in {"install", "rollback"} : LF!U!StartUpdate(p, op)) \/ LF!U!LookPid(p) \/ LF!U!LookToken(p)
               \/ LF!U!Find(p) \/ LF!U!ReadLinks(p)
      PROVE  Kept(v)'
  <2>1. \A q \in Updaters \ {p} : up'[q] = up[q]
    BY <1>3, UpdaterNotes
  <2>2. installed' = installed /\ up[p].pc \notin {"put", "killed"}
    BY <1>3 DEF LF!U!StartUpdate, LF!U!LookPid, LF!U!LookToken, LF!U!Find, LF!U!ReadLinks, LF!U!FilesKept
  <2> QED
    BY <1>2, <2>1, <2>2
<1>4. ASSUME NEW p \in Updaters,
             LF!U!MakeLock(p) \/ LF!U!WriteOwner(p) \/ LF!U!Quarantine(p) \/ LF!U!Compare(p) \/ LF!U!Stage(p)
               \/ LF!U!LinkPrevious(p) \/ LF!U!LinkCurrent(p) \/ LF!U!Unlock(p)
      PROVE  Kept(v)'
  <2>1. \E pc \in UpdaterPhases : LF!U!Goto(p, pc)
    BY <1>4 DEF LF!U!MakeLock, LF!U!WriteOwner, LF!U!Quarantine, LF!U!Compare, LF!U!Stage,
                LF!U!LinkPrevious, LF!U!LinkCurrent, LF!U!Unlock, UpdaterPhases
  <2>2. installed' = installed /\ up[p].pc \notin {"put", "killed"}
    BY <1>4 DEF LF!U!MakeLock, LF!U!WriteOwner, LF!U!Quarantine, LF!U!Compare, LF!U!Stage,
                LF!U!LinkPrevious, LF!U!LinkCurrent, LF!U!Unlock, LF!U!FilesKept
  <2>3. \A q \in Updaters \ {p} : up'[q] = up[q]
    BY <2>1, UpdaterGoes
  <2> QED
    BY <1>2, <2>2, <2>3
<1>5. ASSUME NEW p \in Updaters, LF!U!RemoveTarget(p) PROVE Kept(v)'
  <2>1. /\ LF!U!Goto(p, "put") /\ "put" \in UpdaterPhases /\ installed' = installed \ {up[p].target}
        /\ up[p].pc = "remove"
    BY <1>5 DEF LF!U!RemoveTarget, UpdaterPhases
  <2>2. /\ up'[p].pc = "put" /\ up'[p].target = up[p].target /\ up'[p].version = up[p].version
        /\ \A q \in Updaters \ {p} : up'[q] = up[q]
    BY <2>1, UpdaterGoes
  <2>3. up[p].version < up[p].target
    BY <2>1 DEF Present
  <2> QED
    BY <2>1, <2>2, <2>3
<1>6. ASSUME NEW p \in Updaters, LF!U!PutTarget(p) PROVE Kept(v)'
  <2>1. installed \subseteq installed' /\ up[p].target \in installed' /\ up[p].pc = "put"
    BY <1>6 DEF LF!U!PutTarget, LF!U!FilesKept
  <2>2. \E pc \in UpdaterPhases : LF!U!Goto(p, pc)
    BY <1>6 DEF LF!U!PutTarget, UpdaterPhases
  <2>3. \A q \in Updaters \ {p} : up'[q] = up[q]
    BY <2>2, UpdaterGoes
  <2> QED
    BY <2>1, <2>3
<1>7. ASSUME NEW p \in Updaters, LF!U!Kill(p) PROVE Kept(v)'
  <2>1. LF!U!Goto(p, "killed") /\ "killed" \in UpdaterPhases /\ installed' = installed
    BY <1>7 DEF LF!U!Kill, LF!U!FilesKept, UpdaterPhases
  <2>2. /\ up'[p].pc = "killed" /\ up'[p].target = up[p].target /\ up'[p].version = up[p].version
        /\ \A q \in Updaters \ {p} : up'[q] = up[q]
    BY <2>1, UpdaterGoes
  <2> QED
    BY <2>1, <2>2
<1> QED
  BY <1>1, <1>3, <1>4, <1>5, <1>6, <1>7 DEF LF!U!UpdateNext

LEMMA PresentKept == UpdateIInv /\ LF!U!UpdateNext => Present'
<1> SUFFICES ASSUME UpdateIInv, LF!U!UpdateNext PROVE Present'
  OBVIOUS
<1>0. /\ UpdateTypes /\ Present /\ up \in [Updaters -> UpdaterRows]
      /\ links \in [current : Nat, previous : Nat]
  BY DEF UpdateIInv, UpdateTypes
<1>1. \A v \in Nat : Kept(v) => Kept(v)'
  BY <1>0, StaysKept
<1>2. /\ links.current \in Nat /\ links.previous \in Nat
      /\ \A p \in Updaters : up[p].target \in Nat /\ up[p].old \in Nat /\ up[p].op \in {"install", "rollback"}
  BY <1>0 DEF UpdaterRows
<1> USE DEF Kept
<1> DEFINE Fit(p) ==
          /\ up[p].pc \in {"stage", "remove", "put"} => up[p].version < up[p].target
          /\ (up[p].pc = "links" /\ up[p].op = "install") \/ up[p].pc \in {"previous", "current"}
               => up[p].target # 0 /\ Kept(up[p].target)
          /\ up[p].pc = "previous" => up[p].old # 0 /\ Kept(up[p].old)
<1>3. \A p \in Updaters : Fit(p)
  BY <1>0 DEF Present
<1>4. ASSUME NEW p \in Updaters, up'[p] = up[p] PROVE Fit(p)'
  BY <1>1, <1>2, <1>3, <1>4
<1>5. ASSUME NEW p \in Updaters, links' = links, \A q \in Updaters \ {p} : up'[q] = up[q], Fit(p)' PROVE Present'
  <2>1. \A q \in Updaters : Fit(q)'
    BY <1>4, <1>5
  <2>2. Kept(links.current)' /\ (links'.previous # 0 => Kept(links.previous)') /\ links'.current # 0
    BY <1>0, <1>1, <1>2, <1>5 DEF Present
  <2> QED
    BY <1>5, <2>1, <2>2 DEF Present
<1>6. CASE LF!U!Publish
  <2>1. up' = up /\ links' = links
    BY <1>6 DEF LF!U!Publish, LF!U!FilesKept
  <2>2. \A q \in Updaters : Fit(q)'
    BY <1>4, <2>1
  <2>3. Kept(links.current)' /\ (links'.previous # 0 => Kept(links.previous)') /\ links'.current # 0
    BY <1>0, <1>1, <1>2, <2>1 DEF Present
  <2> QED
    BY <2>1, <2>2, <2>3 DEF Present
<1>7. ASSUME NEW p \in Updaters,
             (\E op \in {"install", "rollback"} : LF!U!StartUpdate(p, op)) \/ LF!U!LookPid(p) \/ LF!U!LookToken(p)
               \/ LF!U!Find(p) \/ LF!U!ReadLinks(p)
      PROVE  Present'
  <2>1. \A q \in Updaters \ {p} : up'[q] = up[q]
    BY <1>0, <1>7, UpdaterNotes
  <2>2. links' = links
    BY <1>7 DEF LF!U!StartUpdate, LF!U!LookPid, LF!U!LookToken, LF!U!Find, LF!U!ReadLinks, LF!U!FilesKept
  <2>3. CASE ~LF!U!ReadLinks(p)
    <3>1. \/ up'[p].pc \in {"mkdir", "token", "move", "ended", "unlock"}
          \/ up'[p].pc = "links" /\ up'[p].op = "rollback"
          \/ up'[p].pc = "stage" /\ up'[p].version < up'[p].target
      BY <1>0, <1>7, <2>3, UpdaterNotes
    <3>2. Fit(p)'
      BY <3>1
    <3> QED
      BY <1>5, <2>1, <2>2, <3>2
  <2>4. CASE LF!U!ReadLinks(p) /\ up'[p].pc = "unlock"
    <3>1. Fit(p)'
      BY <2>4
    <3> QED
      BY <1>5, <2>1, <2>2, <3>1
  <2>5. CASE LF!U!ReadLinks(p) /\ up'[p].pc # "unlock"
    <3>1. /\ up'[p].pc = "previous" /\ up'[p].old = links.current
          /\ up'[p].target = IF up[p].op = "rollback" THEN links.previous ELSE up[p].target
          /\ up'[p].target # 0
      BY <1>0, <2>5, UpdaterNotes
    <3>2. up[p].pc = "links"
      BY <2>5 DEF LF!U!ReadLinks
    <3>3. Kept(up[p].old)' /\ up'[p].old # 0
      <4>1. Kept(links.current)' /\ links.current # 0
        BY <1>0, <1>1, <1>2, <2>2 DEF Present
      <4> QED
        BY <2>2, <3>1, <4>1 DEF Kept
    <3>4. Kept(up[p].target)'
      <4>1. CASE up[p].op = "rollback"
        <5>1. up'[p].target = links.previous /\ links.previous # 0
          BY <3>1, <4>1
        <5>2. Kept(links.previous)'
          BY <1>0, <1>1, <1>2, <2>2, <5>1 DEF Present
        <5> QED
          BY <2>2, <5>1, <5>2 DEF Kept
      <4>2. CASE up[p].op = "install"
        <5>1. up'[p].target = up[p].target
          BY <3>1, <4>2
        <5>2. \A v \in Nat : v = up[p].target => Kept(v)'
          BY <1>1, <1>3, <3>2, <4>2
        <5> QED
          BY <1>2, <5>1, <5>2 DEF Kept
      <4> QED
        BY <1>2, <4>1, <4>2
    <3>5. Fit(p)'
      BY <3>1, <3>3, <3>4 DEF Kept
    <3> QED
      BY <1>5, <2>1, <2>2, <3>5
  <2> QED
    BY <2>3, <2>4, <2>5
<1>8. ASSUME NEW p \in Updaters,
             LF!U!MakeLock(p) \/ LF!U!WriteOwner(p) \/ LF!U!Quarantine(p) \/ LF!U!Compare(p)
               \/ LF!U!Unlock(p) \/ LF!U!Kill(p)
      PROVE  Present'
  <2>1. \E pc \in UpdaterPhases \ {"stage", "remove", "put", "links", "previous", "current"} : LF!U!Goto(p, pc)
    <3>1. {"own", "look", "find", "ended", "mkdir", "compare", "killed"}
             \subseteq UpdaterPhases \ {"stage", "remove", "put", "links", "previous", "current"}
      BY DEF UpdaterPhases
    <3> QED
      BY <1>8, <3>1 DEF LF!U!MakeLock, LF!U!WriteOwner, LF!U!Quarantine, LF!U!Compare, LF!U!Unlock, LF!U!Kill
  <2>2. links' = links
    BY <1>8 DEF LF!U!MakeLock, LF!U!WriteOwner, LF!U!Quarantine, LF!U!Compare, LF!U!Unlock, LF!U!Kill, LF!U!FilesKept
  <2>3. /\ \A q \in Updaters \ {p} : up'[q] = up[q]
        /\ up'[p].pc \notin {"stage", "remove", "put", "links", "previous", "current"}
    BY <1>0, <2>1, UpdaterGoes
  <2>4. Fit(p)'
    BY <2>3
  <2> QED
    BY <1>5, <2>2, <2>3, <2>4
<1>9. ASSUME NEW p \in Updaters, NEW pc \in UpdaterPhases, LF!U!Goto(p, pc)
      PROVE  /\ \A q \in Updaters \ {p} : up'[q] = up[q]
             /\ up'[p].pc = pc /\ up'[p].target = up[p].target /\ up'[p].version = up[p].version
             /\ up'[p].old = up[p].old
  BY <1>0, <1>9, UpdaterGoes
<1>10. ASSUME NEW p \in Updaters, LF!U!Stage(p) \/ LF!U!RemoveTarget(p) PROVE Present'
  <2>1. links' = links /\ up[p].pc \in {"stage", "remove"}
    BY <1>10 DEF LF!U!Stage, LF!U!RemoveTarget, LF!U!FilesKept
  <2>2. \E pc \in {"remove", "unlock", "put"} : LF!U!Goto(p, pc) /\ pc \in UpdaterPhases
    BY <1>10 DEF LF!U!Stage, LF!U!RemoveTarget, UpdaterPhases
  <2>3. /\ \A q \in Updaters \ {p} : up'[q] = up[q]
        /\ up'[p].pc \in {"remove", "unlock", "put"}
        /\ up'[p].target = up[p].target /\ up'[p].version = up[p].version
    BY <1>9, <2>2
  <2>4. Fit(p)'
    BY <1>3, <2>1, <2>3
  <2> QED
    BY <1>5, <2>1, <2>3, <2>4
<1>11. ASSUME NEW p \in Updaters, LF!U!PutTarget(p) PROVE Present'
  <2>1. links' = links /\ up[p].pc = "put" /\ up[p].target \in installed'
    BY <1>11 DEF LF!U!PutTarget, LF!U!FilesKept
  <2>2. \E pc \in {"links", "unlock"} : LF!U!Goto(p, pc) /\ pc \in UpdaterPhases
    BY <1>11 DEF LF!U!PutTarget, UpdaterPhases
  <2>3. /\ \A q \in Updaters \ {p} : up'[q] = up[q]
        /\ up'[p].pc \in {"links", "unlock"} /\ up'[p].target = up[p].target
    BY <1>9, <2>2
  <2>4. up[p].target # 0
    <3>1. up[p].version < up[p].target /\ up[p].version \in Nat
      BY <1>0, <1>3, <2>1 DEF UpdaterRows
    <3> QED
      BY <1>2, <3>1
  <2>5. Fit(p)'
    BY <2>1, <2>3, <2>4 DEF Kept
  <2> QED
    BY <1>5, <2>1, <2>3, <2>5
<1>12. ASSUME NEW p \in Updaters, LF!U!LinkPrevious(p) PROVE Present'
  <2>1. /\ LF!U!Goto(p, "current") /\ "current" \in UpdaterPhases /\ up[p].pc = "previous"
        /\ links' = [links EXCEPT !.previous = LF!U!Previous(p)]
    BY <1>12 DEF LF!U!LinkPrevious, UpdaterPhases
  <2>2. /\ \A q \in Updaters \ {p} : up'[q] = up[q]
        /\ up'[p].pc = "current" /\ up'[p].target = up[p].target
    BY <1>9, <2>1
  <2>3. links'.current = links.current /\ links'.previous \in {links.previous, up[p].old}
    BY <1>0, <2>1 DEF LF!U!Previous
  <2>4. Kept(up[p].target) /\ up[p].target # 0 /\ Kept(up[p].old)
    BY <1>3, <2>1
  <2>5. \A v \in Nat : v = up[p].target => Kept(v)'
    BY <1>1, <2>4
  <2>6. Fit(p)'
    BY <1>2, <2>2, <2>4, <2>5 DEF Kept
  <2>7. \A v \in {links.current, links.previous, up[p].old} : v # 0 => Kept(v)'
    BY <1>0, <1>1, <1>2, <2>4 DEF Present
  <2>8. Kept(links.current)' /\ links'.current # 0 /\ (links'.previous # 0 => Kept(links.previous)')
    BY <1>0, <2>3, <2>7 DEF Present, Kept
  <2>9. \A q \in Updaters : Fit(q)'
    BY <1>4, <2>2, <2>6
  <2> QED
    BY <2>8, <2>9 DEF Present
<1>13. ASSUME NEW p \in Updaters, LF!U!LinkCurrent(p) PROVE Present'
  <2>1. /\ LF!U!Goto(p, "unlock") /\ "unlock" \in UpdaterPhases /\ up[p].pc = "current"
        /\ links' = [links EXCEPT !.current = up[p].target]
    BY <1>13 DEF LF!U!LinkCurrent, UpdaterPhases
  <2>2. /\ \A q \in Updaters \ {p} : up'[q] = up[q]
        /\ up'[p].pc = "unlock"
    BY <1>9, <2>1
  <2>3. links'.current = up[p].target /\ links'.previous = links.previous
    BY <1>0, <2>1
  <2>4. Kept(up[p].target) /\ up[p].target # 0
    BY <1>3, <2>1
  <2>5. \A v \in Nat : v # 0 /\ v \in {up[p].target, links.previous} => Kept(v)'
    BY <1>0, <1>1, <2>4 DEF Present
  <2>6. Fit(p)'
    BY <2>2
  <2>8. Kept(links.current)' /\ links'.current # 0 /\ (links'.previous # 0 => Kept(links.previous)')
    BY <1>2, <2>3, <2>4, <2>5 DEF Kept
  <2>9. \A q \in Updaters : Fit(q)'
    BY <1>4, <2>2, <2>6
  <2> QED
    BY <2>8, <2>9 DEF Present
<1> HIDE DEF Fit
<1> QED
  BY <1>6, <1>7, <1>8, <1>10, <1>11, <1>12, <1>13 DEF LF!U!UpdateNext


LEMMA FlagsStay ==
    LF!U!UpdateNext => /\ ~hurried' => ~hurried
                       /\ kills' = kills \/ kills' = kills + 1
<1>1. LF!U!UpdateNext => (~hurried' => ~hurried)
  BY DEF LF!U!UpdateNext, LF!U!Publish, LF!U!StartUpdate, LF!U!MakeLock, LF!U!WriteOwner, LF!U!LookPid,
         LF!U!LookToken, LF!U!Quarantine, LF!U!Compare, LF!U!Find, LF!U!Stage, LF!U!RemoveTarget, LF!U!PutTarget,
         LF!U!ReadLinks, LF!U!LinkPrevious, LF!U!LinkCurrent, LF!U!Unlock, LF!U!Kill, LF!U!LockKept
<1>2. LF!U!UpdateNext => kills' = kills \/ kills' = kills + 1
  BY DEF LF!U!UpdateNext, LF!U!Publish, LF!U!StartUpdate, LF!U!MakeLock, LF!U!WriteOwner, LF!U!LookPid,
         LF!U!LookToken, LF!U!Quarantine, LF!U!Compare, LF!U!Find, LF!U!Stage, LF!U!RemoveTarget, LF!U!PutTarget,
         LF!U!ReadLinks, LF!U!LinkPrevious, LF!U!LinkCurrent, LF!U!Unlock, LF!U!Kill, LF!U!LockKept
<1> QED
  BY <1>1, <1>2

LEMMA LockOwnedKept == UpdateIInv /\ LF!U!UpdateNext => LockOwned'
<1> SUFFICES ASSUME UpdateIInv, LF!U!UpdateNext, ~hurried' PROVE LockOwned'
  BY DEF LockOwned
<1>0. /\ UpdateTypes /\ up \in [Updaters -> UpdaterRows] /\ aside \in [Updaters -> Int]
      /\ Updaters \subseteq Nat /\ 0 \notin Updaters /\ LF!U!Bare \notin Updaters /\ LF!U!Bare # 0 /\ LF!U!None = 0
  BY UpdaterNumbers DEF UpdateIInv, UpdateTypes
<1>1. ~hurried
  BY FlagsStay
<1> DEFINE Fit(p) ==
          /\ up[p].pc \in LF!U!Working => updateLock = p
          /\ up[p].pc = "own" => updateLock = LF!U!Bare
          /\ up[p].pc = "token" => updateLock \in Updaters /\ up[p].look = updateLock
          /\ up[p].pc = "move" => /\ updateLock \in Updaters /\ up[p].stale = updateLock
                                  /\ up[updateLock].pc \in {"ended", "killed"}
          /\ up[p].pc = "compare" => aside[p] = up[p].stale
          /\ aside[p] # 0 => up[p].pc \in {"compare", "killed"}
<1>2. /\ updateLock \in Updaters => up[updateLock].pc # "off"
      /\ \A p \in Updaters : Fit(p)
      /\ \A p, q \in Updaters : up[p].pc = "own" /\ up[q].pc = "own" => p = q
  BY <1>1 DEF LockOwned, UpdateIInv
<1>3. ASSUME updateLock' \in Updaters => up'[updateLock'].pc # "off", \A p \in Updaters : Fit(p)',
             \A p, q \in Updaters : up'[p].pc = "own" /\ up'[q].pc = "own" => p = q
      PROVE  LockOwned'
  BY <1>3 DEF LockOwned
<1> DEFINE Others(p) == \A q \in Updaters \ {p} : up'[q] = up[q]
<1>4. ASSUME NEW p \in Updaters, NEW pc \in UpdaterPhases, LF!U!Goto(p, pc)
      PROVE  /\ Others(p) /\ up'[p].pc = pc
             /\ up'[p].look = up[p].look /\ up'[p].stale = up[p].stale
  BY <1>0, <1>4, UpdaterGoes
<1> HIDE DEF Fit
\* A step that leaves the lock alone, of an updater that is not over.
<1>5. ASSUME NEW p \in Updaters, UNCHANGED <<updateLock, aside>>, Others(p),
             up'[p].pc \notin {"off", "own"}, up[p].pc \notin {"ended", "killed"}, Fit(p)'
      PROVE  LockOwned'
  <2>1. ASSUME NEW q \in Updaters PROVE Fit(q)'
    BY <1>2, <1>5 DEF Fit
  <2> QED
    BY <1>2, <1>3, <1>5, <2>1
<1>6. CASE LF!U!Publish
  BY <1>2, <1>3, <1>6 DEF LF!U!Publish, LF!U!LockKept, Fit
<1>7. ASSUME NEW p \in Updaters, NEW op \in {"install", "rollback"}, LF!U!StartUpdate(p, op) PROVE LockOwned'
  <2>1. Others(p) /\ up'[p].pc = "mkdir" /\ UNCHANGED <<updateLock, aside>> /\ up[p].pc = "off"
    BY <1>0, <1>7, UpdaterNotes DEF LF!U!StartUpdate, LF!U!LockKept
  <2>2. Fit(p)'
    BY <1>2, <2>1 DEF Fit, LF!U!Working
  <2> QED
    BY <1>5, <2>1, <2>2
<1>8. ASSUME NEW p \in Updaters, LF!U!MakeLock(p) PROVE LockOwned'
  <2>1. CASE updateLock = 0
    <3>1. updateLock' = LF!U!Bare /\ LF!U!Goto(p, "own") /\ "own" \in UpdaterPhases /\ aside' = aside /\ up[p].pc = "mkdir"
      BY <1>0, <1>8, <2>1 DEF LF!U!MakeLock, UpdaterPhases
    <3>2. Others(p) /\ up'[p].pc = "own"
      BY <1>4, <3>1
    <3>3. Fit(p)'
      BY <1>0, <1>2, <3>1, <3>2 DEF Fit, LF!U!Working
    <3>4. \A q \in Updaters \ {p} : Fit(q)'
      BY <1>0, <1>2, <2>1, <3>1, <3>2 DEF Fit
    <3>5. \A q \in Updaters \ {p} : up'[q].pc # "own"
      BY <1>0, <1>2, <2>1, <3>2 DEF Fit
    <3> QED
      BY <1>0, <1>3, <3>1, <3>3, <3>4, <3>5
  <2>2. CASE updateLock # 0
    <3>1. UNCHANGED <<updateLock, aside>> /\ LF!U!Goto(p, "look") /\ "look" \in UpdaterPhases /\ up[p].pc = "mkdir"
      BY <1>0, <1>8, <2>2 DEF LF!U!MakeLock, UpdaterPhases
    <3>2. Others(p) /\ up'[p].pc = "look"
      BY <1>4, <3>1
    <3>3. Fit(p)'
      BY <1>2, <3>1, <3>2 DEF Fit, LF!U!Working
    <3> QED
      BY <1>5, <3>1, <3>2, <3>3
  <2> QED
    BY <2>1, <2>2
\* Nobody examines a lock that changes hands.
<1>9. ASSUME NEW p \in Updaters, ~LF!U!Examining(p)
      PROVE  \A q \in Updaters \ {p} : up[q].pc \notin {"token", "move"} /\ aside[q] = 0
  BY <1>0, <1>9 DEF LF!U!Examining
<1>10. ASSUME NEW p \in Updaters, LF!U!WriteOwner(p) PROVE LockOwned'
  <2>1. up[p].pc = "own" /\ aside' = aside /\ ~LF!U!Examining(p)
    BY <1>10 DEF LF!U!WriteOwner
  <2>2. updateLock = LF!U!Bare
    BY <1>2, <2>1 DEF Fit
  <2>3. updateLock' = p /\ LF!U!Goto(p, "find") /\ "find" \in UpdaterPhases
    BY <1>10, <2>2 DEF LF!U!WriteOwner, UpdaterPhases
  <2>4. Others(p) /\ up'[p].pc = "find"
    BY <1>4, <2>3
  <2>5. Fit(p)'
    BY <1>0, <1>2, <2>1, <2>3, <2>4 DEF Fit
  <2>6. ASSUME NEW q \in Updaters \ {p} PROVE Fit(q)' /\ up'[q].pc # "own"
    <3>1. up[q].pc # "own" /\ up[q].pc \notin LF!U!Working /\ up[q].pc \notin {"token", "move"}
      BY <1>0, <1>2, <1>9, <2>1, <2>2 DEF Fit
    <3> QED
      BY <1>2, <2>1, <2>4, <3>1 DEF Fit
  <2> QED
    BY <1>3, <2>3, <2>4, <2>5, <2>6
<1>11. ASSUME NEW p \in Updaters, LF!U!LookPid(p) PROVE LockOwned'
  <2>1. UNCHANGED <<updateLock, aside>> /\ up[p].pc = "look"
    BY <1>11 DEF LF!U!LookPid, LF!U!LockKept
  <2>2. /\ Others(p)
        /\ \/ updateLock \in Updaters /\ up'[p].pc = "token" /\ up'[p].look = updateLock
           \/ up'[p].pc = "ended"
    BY <1>0, <1>11, UpdaterNotes
  <2>3. Fit(p)'
    BY <1>2, <2>1, <2>2 DEF Fit, LF!U!Working
  <2> QED
    BY <1>5, <2>1, <2>2, <2>3
<1>12. ASSUME NEW p \in Updaters, LF!U!LookToken(p) PROVE LockOwned'
  <2>1. UNCHANGED <<updateLock, aside>> /\ up[p].pc = "token"
    BY <1>12 DEF LF!U!LookToken, LF!U!LockKept
  <2>2. /\ Others(p)
        /\ \/ /\ updateLock \in Updaters /\ LF!U!Stale(up[p].look)
              /\ up'[p].pc = "move" /\ up'[p].stale = updateLock
           \/ up'[p].pc = "ended"
    BY <1>0, <1>12, UpdaterNotes
  <2>3. CASE up'[p].pc = "move"
    <3>1. up[p].look = updateLock /\ updateLock \in Updaters
      BY <1>2, <2>1 DEF Fit
    <3>2. up[updateLock].pc \in {"ended", "killed"}
      BY <1>2, <2>2, <2>3, <3>1 DEF LF!U!Stale, LF!U!Alive, LF!U!Idle
    <3>3. updateLock # p
      BY <2>1, <3>2
    <3>4. Fit(p)'
      BY <1>2, <2>1, <2>2, <2>3, <3>1, <3>2, <3>3 DEF Fit, LF!U!Working
    <3> QED
      BY <1>5, <2>1, <2>2, <2>3, <3>4
  <2>4. CASE up'[p].pc = "ended"
    <3>1. Fit(p)'
      BY <1>2, <2>1, <2>4 DEF Fit, LF!U!Working
    <3> QED
      BY <1>5, <2>1, <2>2, <2>4, <3>1
  <2> QED
    BY <2>2, <2>3, <2>4
<1>13. ASSUME NEW p \in Updaters, LF!U!Quarantine(p) PROVE LockOwned'
  <2>1. up[p].pc = "move" /\ updateLock \in Updaters /\ up[p].stale = updateLock
        /\ up[updateLock].pc \in {"ended", "killed"}
    BY <1>2, <1>13 DEF LF!U!Quarantine, Fit
  <2>2. updateLock' = 0 /\ aside' = [aside EXCEPT ![p] = updateLock] /\ LF!U!Goto(p, "compare")
        /\ "compare" \in UpdaterPhases /\ ~LF!U!Examining(p)
    BY <1>0, <1>13, <2>1 DEF LF!U!Quarantine, UpdaterPhases
  <2>3. Others(p) /\ up'[p].pc = "compare" /\ up'[p].stale = up[p].stale
    BY <1>4, <2>2
  <2>4. aside'[p] = updateLock /\ \A q \in Updaters \ {p} : aside'[q] = aside[q]
    BY <1>0, <2>2
  <2>5. Fit(p)'
    BY <2>1, <2>3, <2>4 DEF Fit, LF!U!Working
  <2>6. ASSUME NEW q \in Updaters \ {p} PROVE Fit(q)' /\ up'[q].pc # "own"
    <3>1. up[q].pc \notin LF!U!Working
      BY <1>2, <2>1 DEF Fit, LF!U!Working
    <3>2. up[q].pc # "own" /\ up[q].pc \notin {"token", "move"}
      BY <1>0, <1>2, <1>9, <2>1, <2>2 DEF Fit
    <3> QED
      BY <1>2, <2>3, <2>4, <3>1, <3>2 DEF Fit
  <2> QED
    BY <1>0, <1>3, <2>2, <2>3, <2>5, <2>6
<1>14. ASSUME NEW p \in Updaters, LF!U!Compare(p) PROVE LockOwned'
  <2>1. up[p].pc = "compare" /\ aside[p] = up[p].stale
    BY <1>2, <1>14 DEF LF!U!Compare, Fit
  <2>2. updateLock' = updateLock /\ aside' = [aside EXCEPT ![p] = 0] /\ LF!U!Goto(p, "mkdir") /\ "mkdir" \in UpdaterPhases
    BY <1>0, <1>14, <2>1 DEF LF!U!Compare, LF!U!Restored, UpdaterPhases
  <2>3. Others(p) /\ up'[p].pc = "mkdir"
    BY <1>4, <2>2
  <2>4. aside'[p] = 0 /\ \A q \in Updaters \ {p} : aside'[q] = aside[q]
    BY <1>0, <2>2
  <2>5. Fit(p)'
    BY <2>3, <2>4 DEF Fit, LF!U!Working
  <2>6. \A q \in Updaters \ {p} : Fit(q)'
    BY <1>2, <2>1, <2>2, <2>3, <2>4 DEF Fit
  <2> QED
    BY <1>2, <1>3, <2>2, <2>3, <2>5, <2>6
\* The owner goes on.
<1>15. ASSUME NEW p \in Updaters, UNCHANGED <<updateLock, aside>>, Others(p), up[p].pc \in LF!U!Working,
              up'[p].pc \in LF!U!Working
       PROVE  LockOwned'
  <2>1. Fit(p)'
    BY <1>2, <1>15 DEF Fit, LF!U!Working
  <2> QED
    BY <1>5, <1>15, <2>1 DEF LF!U!Working
<1>16. ASSUME NEW p \in Updaters, LF!U!Find(p) \/ LF!U!ReadLinks(p) PROVE LockOwned'
  <2>1. UNCHANGED <<updateLock, aside>> /\ up[p].pc \in LF!U!Working
    BY <1>16 DEF LF!U!Find, LF!U!ReadLinks, LF!U!LockKept, LF!U!Working
  <2>2. Others(p) /\ up'[p].pc \in LF!U!Working
    BY <1>0, <1>16, UpdaterNotes DEF LF!U!Working
  <2> QED
    BY <1>15, <2>1, <2>2
<1>17. ASSUME NEW p \in Updaters,
              LF!U!Stage(p) \/ LF!U!RemoveTarget(p) \/ LF!U!PutTarget(p) \/ LF!U!LinkPrevious(p) \/ LF!U!LinkCurrent(p)
       PROVE  LockOwned'
  <2>1. UNCHANGED <<updateLock, aside>> /\ up[p].pc \in LF!U!Working
    BY <1>17 DEF LF!U!Stage, LF!U!RemoveTarget, LF!U!PutTarget, LF!U!LinkPrevious, LF!U!LinkCurrent,
                 LF!U!LockKept, LF!U!Working
  <2>2. \E pc \in LF!U!Working : LF!U!Goto(p, pc) /\ pc \in UpdaterPhases
    BY <1>17 DEF LF!U!Stage, LF!U!RemoveTarget, LF!U!PutTarget, LF!U!LinkPrevious, LF!U!LinkCurrent,
                 LF!U!Working, UpdaterPhases
  <2>3. Others(p) /\ up'[p].pc \in LF!U!Working
    BY <1>4, <2>2
  <2> QED
    BY <1>15, <2>1, <2>3
<1>18. ASSUME NEW p \in Updaters, LF!U!Unlock(p) PROVE LockOwned'
  <2>1. up[p].pc = "unlock" /\ aside' = aside /\ LF!U!Goto(p, "ended") /\ "ended" \in UpdaterPhases
    BY <1>18 DEF LF!U!Unlock, UpdaterPhases
  <2>2. updateLock = p
    BY <1>2, <2>1 DEF Fit, LF!U!Working
  <2>3. updateLock' = 0 /\ ~LF!U!Examining(p)
    BY <1>0, <1>18, <2>2 DEF LF!U!Unlock, LF!U!Released
  <2>4. Others(p) /\ up'[p].pc = "ended"
    BY <1>4, <2>1
  <2>5. Fit(p)'
    BY <1>2, <2>1, <2>4 DEF Fit, LF!U!Working
  <2>6. ASSUME NEW q \in Updaters \ {p} PROVE Fit(q)' /\ up'[q].pc # "own"
    <3>1. up[q].pc # "own" /\ up[q].pc \notin LF!U!Working /\ up[q].pc \notin {"token", "move"}
      BY <1>0, <1>2, <1>9, <2>2, <2>3 DEF Fit
    <3> QED
      BY <1>2, <2>1, <2>4, <3>1 DEF Fit
  <2> QED
    BY <1>0, <1>3, <2>3, <2>4, <2>5, <2>6
<1>19. ASSUME NEW p \in Updaters, LF!U!Kill(p) PROVE LockOwned'
  <2>1. UNCHANGED <<updateLock, aside>> /\ LF!U!Goto(p, "killed") /\ "killed" \in UpdaterPhases
        /\ up[p].pc \notin {"ended", "killed"}
    BY <1>19 DEF LF!U!Kill, LF!U!LockKept, LF!U!Alive, LF!U!Idle, UpdaterPhases
  <2>2. Others(p) /\ up'[p].pc = "killed"
    BY <1>4, <2>1
  <2>3. Fit(p)'
    BY <1>2, <2>2 DEF Fit, LF!U!Working
  <2> QED
    BY <1>5, <2>1, <2>2, <2>3
<1> HIDE DEF Others
<1> QED
  BY <1>6, <1>7, <1>8, <1>10, <1>11, <1>12, <1>13, <1>14, <1>16, <1>17, <1>18, <1>19 DEF LF!U!UpdateNext

LEMMA SettledKept == UpdateIInv /\ LF!U!UpdateNext => Settled'
<1> SUFFICES ASSUME UpdateIInv, LF!U!UpdateNext, kills' = 0, ~hurried' PROVE Settled'
  BY DEF Settled
<1>0. /\ UpdateTypes /\ up \in [Updaters -> UpdaterRows] /\ links \in [current : Nat, previous : Nat]
      /\ kills \in Nat
  BY DEF UpdateIInv, UpdateTypes
<1>1. ~hurried /\ kills = 0 /\ \A p \in Updaters : ~LF!U!Kill(p)
  <2>1. \A p \in Updaters : LF!U!Kill(p) => kills' = kills + 1
    BY DEF LF!U!Kill
  <2> QED
    BY <1>0, <2>1, FlagsStay
<1>2. /\ \A p \in Updaters : /\ up[p].pc = "previous" => up[p].old = links.current
                             /\ up[p].pc = "current" => links.previous # up[p].target
      /\ (\A p \in Updaters : up[p].pc # "current") => links.previous # links.current
  BY <1>1 DEF UpdateIInv, Settled
<1>3. \A p, q \in Updaters : up[p].pc \in {"previous", "current"} /\ up[q].pc \in {"previous", "current"} => p = q
  <2>1. \A p \in Updaters : up[p].pc \in LF!U!Working => updateLock = p
    BY <1>1 DEF UpdateIInv, LockOwned
  <2> QED
    BY <2>1 DEF LF!U!Working
<1> DEFINE Others(p) == \A q \in Updaters \ {p} : up'[q] = up[q]
<1>4. ASSUME NEW p \in Updaters, NEW pc \in UpdaterPhases, LF!U!Goto(p, pc)
      PROVE  Others(p) /\ up'[p].pc = pc /\ up'[p].target = up[p].target /\ up'[p].old = up[p].old
  BY <1>0, <1>4, UpdaterGoes
<1>5. ASSUME NEW p \in Updaters, Others(p), links' = links, up[p].pc \notin {"previous", "current"},
             up'[p].pc \notin {"previous", "current"}
      PROVE  Settled'
  BY <1>2, <1>5 DEF Settled
<1>6. CASE LF!U!Publish
  BY <1>2, <1>6 DEF LF!U!Publish, LF!U!FilesKept, Settled
<1>7. ASSUME NEW p \in Updaters,
             (\E op \in {"install", "rollback"} : LF!U!StartUpdate(p, op)) \/ LF!U!LookPid(p) \/ LF!U!LookToken(p)
               \/ LF!U!Find(p)
      PROVE  Settled'
  <2>1. Others(p) /\ up'[p].pc \notin {"previous", "current"}
    BY <1>0, <1>7, UpdaterNotes
  <2>2. links' = links /\ up[p].pc \notin {"previous", "current"}
    BY <1>7 DEF LF!U!StartUpdate, LF!U!LookPid, LF!U!LookToken, LF!U!Find, LF!U!FilesKept
  <2> QED
    BY <1>5, <2>1, <2>2
<1>8. ASSUME NEW p \in Updaters,
             LF!U!MakeLock(p) \/ LF!U!WriteOwner(p) \/ LF!U!Quarantine(p) \/ LF!U!Compare(p)
               \/ LF!U!Unlock(p) \/ LF!U!Stage(p) \/ LF!U!RemoveTarget(p) \/ LF!U!PutTarget(p)
      PROVE  Settled'
  <2>1. \E pc \in UpdaterPhases \ {"previous", "current"} : LF!U!Goto(p, pc)
    <3>1. {"own", "look", "find", "ended", "mkdir", "compare", "remove", "unlock", "put", "links"}
             \subseteq UpdaterPhases \ {"previous", "current"}
      BY DEF UpdaterPhases
    <3> QED
      BY <1>8, <3>1 DEF LF!U!MakeLock, LF!U!WriteOwner, LF!U!Quarantine, LF!U!Compare, LF!U!Unlock,
                        LF!U!Stage, LF!U!RemoveTarget, LF!U!PutTarget
  <2>2. links' = links /\ up[p].pc \notin {"previous", "current"}
    BY <1>8 DEF LF!U!MakeLock, LF!U!WriteOwner, LF!U!Quarantine, LF!U!Compare, LF!U!Unlock,
                LF!U!Stage, LF!U!RemoveTarget, LF!U!PutTarget, LF!U!FilesKept
  <2>3. Others(p) /\ up'[p].pc \notin {"previous", "current"}
    BY <1>4, <2>1
  <2> QED
    BY <1>5, <2>2, <2>3
<1>9. ASSUME NEW p \in Updaters, LF!U!ReadLinks(p) PROVE Settled'
  <2>1. /\ Others(p) /\ up'[p].pc \in {"unlock", "previous"}
        /\ up'[p].pc = "previous" => up'[p].old = links.current
    BY <1>0, <1>9, UpdaterNotes
  <2>2. links' = links /\ up[p].pc = "links"
    BY <1>9 DEF LF!U!ReadLinks, LF!U!FilesKept
  <2> QED
    BY <1>2, <2>1, <2>2 DEF Settled
<1>10. ASSUME NEW p \in Updaters, LF!U!LinkPrevious(p) PROVE Settled'
  <2>1. /\ LF!U!Goto(p, "current") /\ "current" \in UpdaterPhases /\ up[p].pc = "previous"
        /\ links' = [links EXCEPT !.previous = LF!U!Previous(p)]
    BY <1>10 DEF LF!U!LinkPrevious, UpdaterPhases
  <2>2. Others(p) /\ up'[p].pc = "current" /\ up'[p].target = up[p].target
    BY <1>4, <2>1
  <2>3. up[p].old = links.current /\ up[p].old # 0
    BY <1>2, <2>1 DEF UpdateIInv, Present
  <2>4. \A q \in Updaters \ {p} : up'[q].pc \notin {"previous", "current"} /\ up[q].pc \notin {"previous", "current"}
    BY <1>3, <2>1, <2>2
  <2>5. links.previous # links.current
    BY <1>2, <2>1, <2>4
  <2>6. LF!U!Previous(p) # up[p].target
    BY <2>3, <2>5, UpdaterNumbers DEF LF!U!Previous
  <2>7. links'.previous = LF!U!Previous(p)
    BY <1>0, <2>1
  <2> QED
    BY <2>2, <2>4, <2>6, <2>7 DEF Settled
<1>11. ASSUME NEW p \in Updaters, LF!U!LinkCurrent(p) PROVE Settled'
  <2>1. /\ LF!U!Goto(p, "unlock") /\ "unlock" \in UpdaterPhases /\ up[p].pc = "current"
        /\ links' = [links EXCEPT !.current = up[p].target]
    BY <1>11 DEF LF!U!LinkCurrent, UpdaterPhases
  <2>2. Others(p) /\ up'[p].pc = "unlock"
    BY <1>4, <2>1
  <2>3. links'.current = up[p].target /\ links'.previous = links.previous /\ links.previous # up[p].target
    BY <1>0, <1>2, <2>1
  <2>4. \A q \in Updaters : up'[q].pc \notin {"previous", "current"}
    BY <1>3, <2>1, <2>2
  <2> QED
    BY <2>3, <2>4 DEF Settled
<1> HIDE DEF Others
<1> QED
  BY <1>1, <1>6, <1>7, <1>8, <1>9, <1>10, <1>11 DEF LF!U!UpdateNext

LEMMA UpdateKept == UpdateIInv /\ LF!U!UpdateNext => UpdateIInv'
  BY UpdateTypesKept, LockOwnedKept, PresentKept, SettledKept DEF UpdateIInv

LEMMA UpdateMeans == UpdateIInv => LF!U!UpdateInv
  BY DEF UpdateIInv, LockOwned, Present, Kept, Settled, LF!U!UpdateInv

-----------------------------------------------------------------------------
(* The files together *)

FilesIInv ==
    /\ keeps \in {"config", "settings", "catalog", "identity", "update"}
    /\ ConfigIInv /\ SettingsIInv /\ CatalogIInv /\ IdentityIInv /\ UpdateIInv

LEMMA ConfigStays == ConfigIInv /\ UNCHANGED LF!configVars => ConfigIInv'
  BY DEF LF!configVars, ConfigIInv, ConfigTypes, ConfigChecked, ConfigLooked, ConfigClosed, LF!OnlyGapsLoseChanges

LEMMA SettingsStay == SettingsIInv /\ UNCHANGED LF!settingsVars => SettingsIInv'
<1> SUFFICES ASSUME SettingsIInv, UNCHANGED LF!settingsVars PROVE SettingsIInv'
  OBVIOUS
<1> USE DEF LF!settingsVars, SettingsIInv
<1>1. SettingsTypes' /\ NamedExist' /\ FreshFiles'
  BY DEF SettingsTypes, NamedExist, FreshFiles
<1>2. KnownIsRead' /\ LF!OnlyGapsLoseSettings' /\ WholeFile' /\ Answering'
  BY DEF KnownIsRead, LF!OnlyGapsLoseSettings, WholeFile, LF!Loadable, Answering
<1> QED
  BY <1>1, <1>2

LEMMA CatalogStays == CatalogIInv /\ UNCHANGED LF!catalogVars => CatalogIInv'
  BY DEF LF!catalogVars, CatalogIInv, CatalogTypes, Queued, Undisturbed, LF!Turn

LEMMA IdentityStays == IdentityIInv /\ UNCHANGED LF!identityVars => IdentityIInv'
  BY DEF LF!identityVars, IdentityIInv, IdentityTypes, OwnPair, OneMaker

LEMMA UpdateStays == UpdateIInv /\ UNCHANGED LF!updateVars => UpdateIInv'
<1> SUFFICES ASSUME UpdateIInv, UNCHANGED LF!updateVars PROVE UpdateIInv'
  OBVIOUS
<1> USE DEF LF!updateVars, UpdateIInv
<1>1. UpdateTypes' /\ LockOwned'
  BY DEF UpdateTypes, LockOwned
<1>2. Present' /\ Settled'
  BY DEF Present, Kept, Settled
<1> QED
  BY <1>1, <1>2

LEMMA FilesStart == LF!Init => FilesIInv
  BY ConfigStart, SettingsStart, CatalogStart, IdentityStart, UpdateStart DEF LF!Init, FilesIInv

LEMMA FilesKept == FilesIInv /\ [LF!Next]_(LF!vars) => FilesIInv'
<1> SUFFICES ASSUME FilesIInv, [LF!Next]_(LF!vars) PROVE FilesIInv'
  OBVIOUS
<1>0. /\ ConfigIInv /\ SettingsIInv /\ CatalogIInv /\ IdentityIInv /\ UpdateIInv
      /\ keeps \in {"config", "settings", "catalog", "identity", "update"}
  BY DEF FilesIInv
<1>1. keeps' = keeps
  BY DEF LF!Next, LF!vars
<1>2. ConfigIInv'
  <2>1. LF!ConfigNext \/ UNCHANGED LF!configVars
    BY DEF LF!Next, LF!vars
  <2> QED
    BY <1>0, <2>1, ConfigKept, ConfigStays
<1>3. SettingsIInv'
  <2>1. LF!SettingsNext \/ UNCHANGED LF!settingsVars
    BY DEF LF!Next, LF!vars
  <2> QED
    BY <1>0, <2>1, SettingsKept, SettingsStay
<1>4. CatalogIInv'
  <2>1. LF!CatalogNext \/ UNCHANGED LF!catalogVars
    BY DEF LF!Next, LF!vars
  <2> QED
    BY <1>0, <2>1, CatalogKept, CatalogStays
<1>5. IdentityIInv'
  <2>1. LF!IdentityNext \/ UNCHANGED LF!identityVars
    BY DEF LF!Next, LF!vars
  <2> QED
    BY <1>0, <2>1, IdentityKept, IdentityStays
<1>6. UpdateIInv'
  <2>1. LF!U!UpdateNext \/ UNCHANGED LF!updateVars
    BY DEF LF!Next, LF!vars
  <2> QED
    BY <1>0, <2>1, UpdateKept, UpdateStays
<1> QED
  BY <1>0, <1>1, <1>2, <1>3, <1>4, <1>5, <1>6 DEF FilesIInv

LEMMA FilesMean == FilesIInv => LF!Inv
<1> SUFFICES ASSUME FilesIInv PROVE LF!Inv
  OBVIOUS
<1>1. LF!ConfigInv /\ LF!SettingsInv /\ LF!CatalogInv /\ LF!IdentityInv /\ LF!U!UpdateInv
  BY ConfigMeans, SettingsMean, CatalogMeans, IdentityMeans, UpdateMeans DEF FilesIInv
<1> QED
  BY <1>1 DEF FilesIInv, LF!Inv

\* What was saved beside the database stays saved, and what those files name exists: a
\* writer of the configuration takes back the change of another only in the gaps the code
\* leaves; the settings name TLS files that exist and are those that were saved; what the
\* catalog answered is what it holds; the key pair on disk is the one in use; one update
\* at a time changes the installed versions, and the links name installed ones: for any
\* number of writers, calls, launchers and updaters.
THEOREM FilesHold == StoreSpec => []FilesInv
<1>1. StoreInit => FilesIInv
  BY FilesStart DEF StoreInit
<1>2. FilesIInv /\ [StoreNext]_storeVars => FilesIInv'
  <2>1. [StoreNext]_storeVars => [LF!Next]_(LF!vars)
    <3>1. UNCHANGED fileVars => UNCHANGED LF!vars
      BY DEF fileVars, LF!vars, LF!configVars, LF!settingsVars, LF!catalogVars, LF!identityVars, LF!updateVars
    <3> QED
      BY <3>1 DEF StoreNext, storeVars
  <2> QED
    BY <2>1, FilesKept
<1>3. FilesIInv => FilesInv
  BY FilesMean DEF FilesInv
<1> QED
  BY <1>1, <1>2, <1>3, PTL DEF StoreSpec

-----------------------------------------------------------------------------
(* The files in the documents of a task *)

\* The phases that are done are staged, with files their tasks name; the phase that ends
\* next was looked at before it is staged.
PhasesStaged ==
    /\ scopePhase \in Nat \ {0} /\ moved \in BOOLEAN
    /\ scope \in {"preparing", "working", "validated", "blocked", "done"}
    /\ scope = "preparing" => scopePhase = 1 /\ authorized = {}
    /\ scope # "preparing" =>
          /\ agreed = "todo" /\ authorized = TS!FilesOf(TS!TasksOf(todoDoc))
          /\ scopePhase <= Len(todoDoc) + 1
          /\ scope # "done" => scopePhase <= Len(todoDoc)
          /\ scope = "done" => scopePhase = Len(todoDoc) + 1
    /\ \A k \in 1..scopePhase - 1 : TS!FilesOf(todoDoc[k]) \subseteq scopeIndex
    /\ scopeIndex \subseteq authorized /\ scopeIndex \cap TS!Reserved = {}
    /\ scope = "validated" => /\ TS!PhasePaths \cap TS!Reserved = {}
                              /\ moved \/ \A p \in TS!PhasePaths : tree[p] # "link"
\* The documents are those that passed the checks.
Documented ==
    /\ agreed = "nothing" => planDoc = <<>>
    /\ agreed # "nothing" => planDoc \in TS!Plans /\ TS!PlanIsValid(planDoc)
    /\ agreed = "todo" => /\ todoDoc \in TS!Todos /\ TS!TodoIsValid(todoDoc)
                          /\ TS!Compatible(todoDoc, FALSE)
ScopeIInv == PhasesStaged /\ Documented /\ TS!NoLinkStaged

LEMMA ScopeStart == TS!ScopeInit => ScopeIInv
<1> SUFFICES ASSUME TS!ScopeInit PROVE ScopeIInv
  OBVIOUS
<1>1. /\ planDoc = <<>> /\ agreed = "nothing" /\ authorized = {} /\ scopeIndex = {} /\ linked = {}
      /\ scopePhase = 1 /\ scope = "preparing" /\ moved = FALSE
  BY DEF TS!ScopeInit
<1>2. 1..scopePhase - 1 = {}
  BY <1>1
<1>3. \A k \in 1..scopePhase - 1 : TS!FilesOf(todoDoc[k]) \subseteq scopeIndex
  BY <1>2
<1>4. PhasesStaged
  <2>1. scopeIndex \subseteq authorized /\ scopeIndex \cap TS!Reserved = {}
    BY <1>1
  <2>2. scopePhase \in Nat \ {0} /\ scope = "preparing"
    BY <1>1
  <2>3. moved \in BOOLEAN
    BY <1>1, Zenon
  <2> QED
    BY <1>1, <1>3, <2>1, <2>2, <2>3 DEF PhasesStaged
<1> QED
  BY <1>1, <1>4 DEF ScopeIInv, Documented, TS!NoLinkStaged

LEMMA EntriesOfOne ==
    ASSUME NEW seq, DOMAIN seq = {1} PROVE TS!Entries(seq) = {seq[1]}
  BY DEF TS!Entries

LEMMA EntriesOfTwo ==
    ASSUME NEW seq, DOMAIN seq = {1, 2} PROVE TS!Entries(seq) = {seq[1], seq[2]}
  BY DEF TS!Entries

\* The tasks of a TODO are those of its one or two phases.
LEMMA TasksOfPhases ==
    ASSUME NEW phases \in TS!Todos
    PROVE  /\ Len(phases) \in Nat
           /\ \A k \in 1..Len(phases) : TS!Entries(phases[k]) \subseteq TS!Entries(TS!TasksOf(phases))
           /\ \A t \in TS!Entries(TS!TasksOf(phases)) : \E k \in 1..Len(phases) : t \in TS!Entries(phases[k])
<1>1. CASE Len(phases) = 1 /\ TS!TasksOf(phases) = phases[1]
  BY <1>1
<1>2. CASE \E seq : phases = <<seq>>
  BY <1>1, <1>2 DEF TS!TasksOf
<1>3. CASE \E t, u \in TS!Tasks : phases = << <<t>>, <<u>> >>
  <2>1. PICK t \in TS!Tasks, u \in TS!Tasks : phases = << <<t>>, <<u>> >>
    BY <1>3
  <2>2. TS!TasksOf(phases) = <<t, u>>
    <3>1. Len(phases) = 2 /\ phases[1] = <<t>> /\ phases[2] = <<u>>
      BY <2>1
    <3>2. <<t>> \in Seq(TS!Tasks) /\ <<u>> \in Seq(TS!Tasks) /\ <<t, u>> \in Seq(TS!Tasks)
      OBVIOUS
    <3> DEFINE both == <<t>> \o <<u>>
    <3>3. both \in Seq(TS!Tasks) /\ Len(both) = 2 /\ both[1] = t /\ both[2] = u
      BY <3>2, ConcatProperties
    <3> HIDE DEF both
    <3>4. both = <<t, u>>
      BY <3>2, <3>3
    <3> QED
      BY <3>1, <3>4 DEF TS!TasksOf, both
  <2>3. /\ DOMAIN <<t, u>> = {1, 2} /\ <<t, u>>[1] = t /\ <<t, u>>[2] = u
        /\ DOMAIN <<t>> = {1} /\ <<t>>[1] = t /\ DOMAIN <<u>> = {1} /\ <<u>>[1] = u
        /\ phases[1] = <<t>> /\ phases[2] = <<u>>
    BY <2>1
  <2>4. TS!Entries(TS!TasksOf(phases)) = {t, u} /\ TS!Entries(phases[1]) = {t} /\ TS!Entries(phases[2]) = {u}
    <3>1. TS!Entries(<<t, u>>) = {t, u}
      BY <2>3, EntriesOfTwo
    <3>2. TS!Entries(<<t>>) = {t} /\ TS!Entries(<<u>>) = {u}
      BY <2>3, EntriesOfOne
    <3> QED
      BY <2>2, <2>3, <3>1, <3>2
  <2>5. Len(phases) = 2 /\ 1..2 = {1, 2}
    BY <2>1
  <2> QED
    BY <2>4, <2>5
<1> QED
  BY <1>2, <1>3 DEF TS!Todos

LEMMA FilesOfPhases ==
    ASSUME NEW phases \in TS!Todos, NEW k \in 1..Len(phases)
    PROVE  TS!FilesOf(phases[k]) \subseteq TS!FilesOf(TS!TasksOf(phases))
  BY TasksOfPhases DEF TS!FilesOf

LEMMA ScopeKept == ScopeIInv /\ TS!ScopeNext => ScopeIInv'
<1> SUFFICES ASSUME ScopeIInv, TS!ScopeNext PROVE ScopeIInv'
  OBVIOUS
<1> USE DEF ScopeIInv
<1>1. CASE TS!ApprovePlan
  <2>1. Documented'
    BY <1>1 DEF TS!ApprovePlan, Documented
  <2>2. PhasesStaged' /\ TS!NoLinkStaged'
    BY <1>1 DEF TS!ApprovePlan, PhasesStaged, TS!NoLinkStaged, TS!PhasePaths
  <2> QED
    BY <2>1, <2>2
<1>2. CASE TS!PublishTodo
  <2>1. PICK phases \in TS!Todos, changes \in BOOLEAN :
           /\ TS!TodoIsValid(phases) /\ todoDoc' = phases
           /\ agreed' = IF TS!Compatible(phases, changes) THEN "todo" ELSE "review"
    BY <1>2 DEF TS!PublishTodo
  <2>2. Documented'
    BY <1>2, <2>1 DEF TS!PublishTodo, Documented, TS!Compatible, TS!Extra
  <2>3. PhasesStaged' /\ TS!NoLinkStaged'
    BY <1>2 DEF TS!PublishTodo, PhasesStaged, TS!NoLinkStaged, TS!PhasePaths
  <2> QED
    BY <2>2, <2>3
<1>3. CASE TS!Start
  <2>1. todoDoc \in TS!Todos
    BY <1>3 DEF TS!Start, Documented
  <2>2. Len(todoDoc) \in Nat /\ 1 <= Len(todoDoc)
    BY <2>1 DEF TS!Todos
  <2>3. Documented' /\ TS!NoLinkStaged'
    BY <1>3 DEF TS!Start, Documented, TS!NoLinkStaged, TS!Compatible, TS!Extra
  <2>4. PhasesStaged'
    BY <1>3, <2>2 DEF TS!Start, PhasesStaged, TS!PhasePaths
  <2> QED
    BY <2>3, <2>4
<1>4. CASE TS!Touch
  <2>1. Documented'
    BY <1>4 DEF TS!Touch, Documented, TS!Compatible, TS!Extra
  <2>2. moved' = (moved \/ scope = "validated")
    BY <1>4 DEF TS!Touch
  <2>3. PhasesStaged'
    BY <1>4, <2>2 DEF TS!Touch, PhasesStaged, TS!PhasePaths
  <2>4. TS!NoLinkStaged'
    BY <1>4, <2>2 DEF TS!Touch, TS!NoLinkStaged
  <2> QED
    BY <2>1, <2>3, <2>4
<1>5. CASE TS!ValidatePaths
  <2>1. Documented' /\ TS!NoLinkStaged'
    BY <1>5 DEF TS!ValidatePaths, Documented, TS!NoLinkStaged, TS!Compatible, TS!Extra
  <2>2. PhasesStaged'
    BY <1>5 DEF TS!ValidatePaths, TS!PathsAreUsable, PhasesStaged, TS!PhasePaths
  <2> QED
    BY <2>1, <2>2
<1>6. CASE TS!StagePaths
  <2>1. Documented'
    BY <1>6 DEF TS!StagePaths, Documented, TS!Compatible, TS!Extra
  <2>2. todoDoc \in TS!Todos /\ scopePhase \in 1..Len(todoDoc)
    BY <1>6 DEF TS!StagePaths, PhasesStaged, Documented
  <2>3. Len(todoDoc) \in Nat /\ TS!PhasePaths \subseteq authorized
    BY <1>6, <2>2, TasksOfPhases, FilesOfPhases DEF TS!StagePaths, PhasesStaged, TS!PhasePaths
  <2>4. CASE \E p \in TS!PhasePaths : tree[p] = "absent"
    BY <1>6, <2>1, <2>4 DEF TS!StagePaths, PhasesStaged, TS!PhasePaths, TS!NoLinkStaged
  <2>5. CASE ~\E p \in TS!PhasePaths : tree[p] = "absent"
    <3>1. /\ scopeIndex' = scopeIndex \cup TS!PhasePaths /\ scopePhase' = scopePhase + 1
          /\ linked' = linked \cup {p \in TS!PhasePaths : tree[p] = "link"}
          /\ scope' = IF scopePhase = Len(todoDoc) THEN "done" ELSE "working"
          /\ UNCHANGED <<planDoc, todoDoc, agreed, authorized, tree, moved>>
      BY <1>6, <2>5 DEF TS!StagePaths
    <3>2. TS!NoLinkStaged'
      BY <1>6, <3>1 DEF TS!StagePaths, PhasesStaged, TS!NoLinkStaged
    <3>3. \A k \in 1..scopePhase' - 1 : TS!FilesOf(todoDoc[k]) \subseteq scopeIndex'
      BY <2>2, <3>1 DEF PhasesStaged, TS!PhasePaths
    <3>4. PhasesStaged'
      BY <1>6, <2>2, <2>3, <3>1, <3>3 DEF TS!StagePaths, PhasesStaged
    <3> QED
      BY <2>1, <3>2, <3>4
  <2> QED
    BY <2>4, <2>5
<1>7. CASE TS!Resume
  <2>1. Documented' /\ TS!NoLinkStaged'
    BY <1>7 DEF TS!Resume, Documented, TS!NoLinkStaged, TS!Compatible, TS!Extra
  <2>2. PhasesStaged'
    BY <1>7 DEF TS!Resume, PhasesStaged, TS!PhasePaths
  <2> QED
    BY <2>1, <2>2
<1> QED
  BY <1>1, <1>2, <1>3, <1>4, <1>5, <1>6, <1>7 DEF TS!ScopeNext

\* A task stays within every item that has the id it names, since only one has.
LEMMA WithinItems ==
    ASSUME planDoc \in TS!Plans, TS!PlanIsValid(planDoc), todoDoc \in TS!Todos, TS!Compatible(todoDoc, FALSE),
           NEW t \in TS!Entries(TS!TasksOf(todoDoc)), NEW n \in DOMAIN planDoc, planDoc[n].id = t.item
    PROVE  t.files \subseteq planDoc[n].files
<1> DEFINE named == {i \in DOMAIN planDoc : planDoc[i].id = t.item}
<1>1. TS!Extra(t) = {}
  BY DEF TS!Compatible
<1>2. DOMAIN planDoc \subseteq Nat
  BY DEF TS!Plans
<1>3. \A i \in named : i = n
  BY DEF TS!PlanIsValid, TS!UniqueIds
<1>4. (CHOOSE i \in named : \A j \in named : j <= i) = n
  BY <1>2, <1>3
<1> QED
  BY <1>1, <1>4 DEF TS!Extra

LEMMA ScopeMeans == ScopeIInv => TS!ScopeInv
<1> SUFFICES ASSUME ScopeIInv PROVE TS!ScopeInv
  OBVIOUS
<1> USE DEF ScopeIInv
<1>1. ASSUME scope # "preparing"
      PROVE  /\ planDoc \in TS!Plans /\ TS!PlanIsValid(planDoc)
             /\ todoDoc \in TS!Todos /\ TS!TodoIsValid(todoDoc) /\ TS!Compatible(todoDoc, FALSE)
  BY <1>1 DEF PhasesStaged, Documented
<1>2. TS!StagedIsAgreed
  <2>1. ASSUME scope # "preparing", NEW k \in 1..Len(todoDoc), NEW t \in TS!Entries(todoDoc[k]),
               NEW i \in TS!Entries(planDoc), i.id = t.item
        PROVE  t.files \subseteq i.files
    <3>1. PICK n \in DOMAIN planDoc : i = planDoc[n]
      BY DEF TS!Entries
    <3>2. t \in TS!Entries(TS!TasksOf(todoDoc))
      BY <1>1, <2>1, TasksOfPhases
    <3> QED
      BY <1>1, <2>1, <3>1, <3>2, WithinItems
  <2> QED
    BY <2>1 DEF PhasesStaged, TS!StagedIsAgreed
<1>3. TS!NothingIsLeft
  <2> SUFFICES ASSUME scope = "done", NEW n \in DOMAIN planDoc
               PROVE  \E t \in TS!Entries(TS!TasksOf(todoDoc)) :
                         t.item = planDoc[n].id /\ t.files \subseteq planDoc[n].files /\ t.files \subseteq scopeIndex
    BY DEF TS!NothingIsLeft
  <2>1. PICK t \in TS!Entries(TS!TasksOf(todoDoc)) : t.item = planDoc[n].id
    BY <1>1 DEF TS!Compatible, TS!Entries
  <2>2. t.files \subseteq planDoc[n].files
    BY <1>1, <2>1, WithinItems
  <2>3. PICK k \in 1..Len(todoDoc) : t \in TS!Entries(todoDoc[k])
    BY <1>1, TasksOfPhases
  <2>4. TS!FilesOf(todoDoc[k]) \subseteq scopeIndex
    BY <1>1, TasksOfPhases DEF PhasesStaged
  <2>5. t.files \subseteq scopeIndex
    BY <2>3, <2>4 DEF TS!FilesOf
  <2> QED
    BY <2>1, <2>2, <2>5
<1>4. TS!FormsAreAccepted
  <2>1. CASE scope = "preparing"
    BY <2>1 DEF PhasesStaged, TS!FormsAreAccepted
  <2>2. CASE scope # "preparing"
    BY <1>1, <2>2 DEF PhasesStaged, TS!FormsAreAccepted, TS!TodoIsValid, TS!RelativePath, TS!GitPath
  <2> QED
    BY <2>1, <2>2
<1> QED
  BY <1>2, <1>3, <1>4 DEF TS!ScopeInv

LEMMA ScopeStays == ScopeIInv /\ UNCHANGED scopeVars => ScopeIInv'
  BY DEF ScopeIInv, PhasesStaged, Documented, TS!NoLinkStaged, TS!PhasePaths, TS!Compatible, TS!Extra, scopeVars

\* What is staged for the commit of a phase was authorized and belongs to the item of its
\* task, whatever forms of paths the documents use and whatever happens to the files
\* meanwhile; a link is staged only if it was made after the check (task-contract.ts,
\* previewStart, validatePaths, stagePaths).
THEOREM ScopeHolds == StoreSpec => []ScopeInv
<1>1. StoreInit => ScopeIInv
  BY ScopeStart DEF StoreInit
<1>2. ScopeIInv /\ [StoreNext]_storeVars => ScopeIInv'
  <2> SUFFICES ASSUME ScopeIInv, [StoreNext]_storeVars PROVE ScopeIInv'
    OBVIOUS
  <2>1. TS!ScopeNext \/ UNCHANGED scopeVars
    BY DEF StoreNext, storeVars, declaredVars
  <2> QED
    BY <2>1, ScopeKept, ScopeStays
<1>3. ScopeIInv => ScopeInv
  BY ScopeMeans DEF ScopeInv
<1> QED
  BY <1>1, <1>2, <1>3, PTL DEF StoreSpec

-----------------------------------------------------------------------------
(* The lists that are read by page *)

\* A row: its id or number, its time, whether the filter finds it.
RowsOfLists == [id : Nat \ {0}, at : Nat, in : BOOLEAN]

\* A row is one of an id; what was listed is there, or a later row of the log is.
ListTypes ==
    /\ listKind \in Kinds /\ clock \in Nat
    /\ listRows \in SUBSET RowsOfLists /\ IsFiniteSet(listRows)
    /\ \A r, s \in listRows : r.id = s.id => r = s
    /\ listed \in Seq(Nat \ {0})
    /\ due \subseteq PG!IdsOf(listRows)
    /\ cursor \in [id : Nat, at : Nat]
    /\ list \in {"closed", "open", "end"}
    /\ list = "closed" => listed = <<>> /\ due = {}
    /\ list = "open" <=> cursor # PG!None
    /\ cursor.id = 0 => cursor = PG!None

\* What was listed is still there, or, in the log, something later is.
ListedStay ==
    \A i \in 1..Len(listed) :
        \E r \in listRows : IF listKind = "log" THEN listed[i] <= r.id ELSE listed[i] = r.id

\* The cursor is behind every row that was listed, and before every row that is due and was not.
CursorStands ==
    list = "open" =>
        \A r \in listRows :
            /\ r.id \in Range(listed) => ~PG!Earlier(cursor, r)
            /\ listKind # "thread" /\ r.id \in due =>
                  r.in /\ (r.id \in Range(listed) \/ PG!Earlier(cursor, r))

\* Every list is as it should be, and will be when its last page is read.
ListIInv == ListTypes /\ ListedStay /\ CursorStands /\ PG!ListingInv

\* The lists count as everybody does.
LEMMA Counting == \A S : PG!Cardinality(S) = Cardinality(S)
  BY DEF PG!Cardinality, Cardinality

\* Whatever the list, its rows are in a strict order, total among different ids (the ORDER BY
\* of every list ends in a key that is unique).
LEMMA Ordering ==
    ASSUME listKind \in Kinds,
           NEW x, NEW y, NEW z, {x.id, x.at, y.id, y.at, z.id, z.at} \subseteq Nat
    PROVE  /\ ~(PG!Earlier(x, y) /\ PG!Earlier(y, x)) /\ ~PG!Earlier(x, x)
           /\ PG!Earlier(x, y) /\ PG!Earlier(y, z) => PG!Earlier(x, z)
           /\ x.id # y.id => PG!Earlier(x, y) \/ PG!Earlier(y, x)
           /\ PG!Earlier(x, y) \in BOOLEAN
<1>1. CASE listKind = "newest"
  BY <1>1 DEF PG!Earlier, PG!NewestFirst
<1>2. CASE listKind = "thread"
  BY <1>2 DEF PG!Earlier, PG!LastFirst
<1>3. CASE listKind = "log"
  BY <1>3 DEF PG!Earlier, PG!BySequence
<1>4. CASE listKind = "catalog"
  BY <1>4 DEF PG!Earlier, PG!ById
<1> QED
  BY <1>1, <1>2, <1>3, <1>4, ListsAssumption

\* The rows of a finite set in order: each of them is there, and no row comes twice or early.
LEMMA RowsInOrder ==
    ASSUME listKind \in Kinds, NEW S \in SUBSET RowsOfLists, IsFiniteSet(S),
           \A r, s \in S : r.id = s.id => r = s
    PROVE  /\ Cardinality(S) \in Nat
           /\ PG!InOrder(S) \in [1..Cardinality(S) -> S]
           /\ \A r \in S : \E n \in 1..Cardinality(S) : PG!InOrder(S)[n] = r
           /\ \A m, n \in 1..Cardinality(S) :
                 m < n => PG!Earlier(PG!InOrder(S)[m], PG!InOrder(S)[n])
<1> DEFINE before(x) == {y \in S : PG!Earlier(y, x)}
           rank == [x \in S |-> Cardinality(before(x)) + 1]
           total == Cardinality(S)
<1>0. \A x, y, z \in S :
         /\ ~(PG!Earlier(x, y) /\ PG!Earlier(y, x)) /\ ~PG!Earlier(x, x)
         /\ PG!Earlier(x, y) /\ PG!Earlier(y, z) => PG!Earlier(x, z)
         /\ x # y => PG!Earlier(x, y) \/ PG!Earlier(y, x)
  <2> TAKE x, y, z \in S
  <2>1. {x.id, x.at, y.id, y.at, z.id, z.at} \subseteq Nat /\ (x # y => x.id # y.id)
    BY DEF RowsOfLists
  <2> QED
    BY <2>1, Ordering
<1>1. total \in Nat
  BY FS_CardinalityType
<1>2. ASSUME NEW x \in S
      PROVE  IsFiniteSet(before(x)) /\ rank[x] \in 1..total /\ Cardinality(before(x)) \in Nat
  <2>1. before(x) \in SUBSET S /\ x \notin before(x)
    BY <1>0
  <2>2. IsFiniteSet(before(x)) /\ Cardinality(before(x)) <= total
        /\ (Cardinality(before(x)) = total => before(x) = S)
    BY <2>1, FS_Subset
  <2>3. Cardinality(before(x)) \in Nat
    BY <2>2, FS_CardinalityType
  <2>4. Cardinality(before(x)) # total
    BY <2>1, <2>2
  <2> HIDE DEF before
  <2> QED
    BY <2>2, <2>3, <2>4, <1>1
<1>3. ASSUME NEW x \in S, NEW y \in S, PG!Earlier(x, y)
      PROVE  rank[x] < rank[y]
  <2>1. before(x) \in SUBSET before(y) /\ x \in before(y) /\ x \notin before(x)
    BY <1>0, <1>3
  <2>2. /\ Cardinality(before(x)) <= Cardinality(before(y))
        /\ Cardinality(before(x)) # Cardinality(before(y))
    <3> HIDE DEF before
    <3> QED
      BY <2>1, <1>2, FS_Subset
  <2> HIDE DEF before
  <2> QED
    BY <2>2, <1>2
<1>4. rank \in Injection(S, 1..total)
  <2>1. rank \in [S -> 1..total]
    <3>1. DOMAIN rank = S /\ rank = [x \in DOMAIN rank |-> rank[x]]
      OBVIOUS
    <3>2. ASSUME NEW x \in S PROVE rank[x] \in 1..total
      BY <1>2
    <3> HIDE DEF rank
    <3> QED
      BY <3>1, <3>2
  <2>2. ASSUME NEW x \in S, NEW y \in S, rank[x] = rank[y] PROVE x = y
    <3>0. rank[x] \in 1..total /\ rank[y] \in 1..total
      BY <1>2
    <3>1. rank[x] \in Int /\ rank[y] \in Int
      <4> HIDE DEF rank
      <4> QED
        BY <3>0
    <3>2. ~(rank[x] < rank[y]) /\ ~(rank[y] < rank[x])
      <4> HIDE DEF rank
      <4> QED
        BY <2>2, <3>1
    <3> QED
      BY <3>2, <1>3, <1>0
  <2> HIDE DEF rank
  <2> QED
    BY <2>1, <2>2 DEF Injection, IsInjective
<1>5. rank \in Surjection(S, 1..total)
  <2>1. IsFiniteSet(1..total) /\ Cardinality(1..total) = total
    BY <1>1, FS_Interval
  <2> HIDE DEF rank
  <2> QED
    BY <1>4, <2>1, FS_Injection
<1>6. \A n \in 1..total : \E x \in S : PG!Cardinality(before(x)) = n - 1
  <2> TAKE n \in 1..total
  <2>1. PICK x \in S : rank[x] = n
    <3> HIDE DEF rank
    <3> QED
      BY <1>5 DEF Surjection
  <2> QED
    <3>1. rank[x] = Cardinality(before(x)) + 1 /\ Cardinality(before(x)) \in Nat
      BY <1>2
    <3>2. PG!Cardinality(before(x)) = Cardinality(before(x))
      BY Counting
    <3> HIDE DEF rank, before
    <3> QED
      BY <2>1, <3>1, <3>2
<1> DEFINE seq == PG!InOrder(S)
<1>7. \A n \in 1..total : seq[n] \in S /\ rank[seq[n]] = n
  <2> TAKE n \in 1..total
  <2>1. seq[n] = CHOOSE x \in S : PG!Cardinality(before(x)) = n - 1
    BY Counting, Zenon DEF PG!InOrder
  <2>2. seq[n] \in S /\ PG!Cardinality(before(seq[n])) = n - 1
    <3> HIDE DEF before, seq
    <3> QED
      BY <2>1, <1>6
  <2>3. Cardinality(before(seq[n])) = n - 1
    BY <2>2, Counting
  <2>4. rank[seq[n]] = Cardinality(before(seq[n])) + 1
    <3> HIDE DEF before, seq
    <3> QED
      BY <2>2
  <2> HIDE DEF seq, before, rank
  <2> QED
    BY <2>2, <2>3, <2>4
<1>8. DOMAIN seq = 1..total /\ seq = [n \in DOMAIN seq |-> seq[n]]
  <2> DEFINE nth(n) == CHOOSE x \in S : PG!Cardinality(before(x)) = n - 1
  <2>1. seq = [n \in 1..PG!Cardinality(S) |-> nth(n)]
    BY DEF PG!InOrder
  <2>2. PG!Cardinality(S) = total
    BY Counting
  <2> HIDE DEF nth, seq
  <2> QED
    BY <2>1, <2>2
<1>9. ASSUME NEW r \in S PROVE \E n \in 1..total : seq[n] = r
  <2>1. rank[r] \in 1..total
    BY <1>2
  <2>2. rank[seq[rank[r]]] = rank[r] /\ seq[rank[r]] \in S
    <3> HIDE DEF seq, rank
    <3> QED
      BY <2>1, <1>7
  <2>3. seq[rank[r]] = r
    <3> HIDE DEF seq, rank
    <3> QED
      BY <2>2, <1>4 DEF Injection, IsInjective
  <2> HIDE DEF seq, rank
  <2> QED
    BY <2>1, <2>3
<1>10. ASSUME NEW m \in 1..total, NEW n \in 1..total, m < n
       PROVE  PG!Earlier(seq[m], seq[n])
  <2>1. seq[m] \in S /\ seq[n] \in S /\ rank[seq[m]] = m /\ rank[seq[n]] = n
    <3> HIDE DEF seq, rank
    <3> QED
      BY <1>7
  <2>2. ~(rank[seq[n]] < rank[seq[m]]) /\ seq[m] # seq[n]
    <3> HIDE DEF seq, rank
    <3> QED
      BY <2>1, <1>10
  <2> HIDE DEF seq, rank
  <2> QED
    BY <2>1, <2>2, <1>0, <1>3
<1> HIDE DEF seq, rank, before
<1>11. seq \in [1..total -> S]
  BY <1>7, <1>8
<1> QED
  BY <1>1, <1>9, <1>10, <1>11 DEF seq, total

\* A page: the first rows beyond the cursor, in order; the rows it leaves come later.
LEMMA PageRead ==
    ASSUME ListTypes,
           NEW S, S = {r \in PG!Matching : PG!Beyond(r, cursor)},
           NEW fetched, fetched = PG!Fetched(cursor), NEW shown, shown = PG!Shown(fetched)
    PROVE  /\ fetched \in Seq(S) /\ shown \in Seq(S) /\ Len(fetched) \in Nat
           /\ Len(fetched) > Limit => Len(fetched) = Limit + 1 /\ Len(shown) = Limit
           /\ Len(fetched) <= Limit => shown = fetched
           /\ \A i \in 1..Len(shown) : i <= Len(fetched) /\ shown[i] = fetched[i]
           /\ \A i, j \in 1..Len(fetched) : i < j => PG!Earlier(fetched[i], fetched[j])
           /\ \A r \in S : \/ \E i \in 1..Len(shown) : shown[i] = r
                           \/ Len(fetched) > Limit /\ PG!Earlier(shown[Limit], r)
<1> DEFINE all == PG!InOrder(S)
           total == Cardinality(S)
<1>1. S \in SUBSET RowsOfLists /\ IsFiniteSet(S) /\ \A r, s \in S : r.id = s.id => r = s
  <2>1. S \in SUBSET listRows
    BY DEF PG!Matching
  <2> QED
    BY <2>1, FS_Subset DEF ListTypes
<1>2. /\ total \in Nat /\ all \in [1..total -> S]
      /\ \A r \in S : \E n \in 1..total : all[n] = r
      /\ \A m, n \in 1..total : m < n => PG!Earlier(all[m], all[n])
  BY <1>1, RowsInOrder DEF ListTypes
<1>3. fetched = SubSeq(all, 1, IF Len(all) > Limit THEN Limit + 1 ELSE Len(all))
  BY DEF PG!Fetched
<1>4. shown = SubSeq(fetched, 1, IF Len(fetched) > Limit THEN Limit ELSE Len(fetched))
  BY DEF PG!Shown
<1> HIDE DEF all, total
<1>5. all \in Seq(S) /\ Len(all) = total /\ Limit \in Nat \ {0}
  BY <1>2, ListsAssumption
<1> DEFINE most == IF total > Limit THEN Limit + 1 ELSE total
<1>6. fetched \in Seq(S) /\ Len(fetched) = most /\ \A i \in 1..most : fetched[i] = all[i]
  BY <1>2, <1>3, <1>5
<1> DEFINE size == IF total > Limit THEN Limit ELSE total
<1>7. shown \in Seq(S) /\ Len(shown) = size /\ \A i \in 1..size : shown[i] = all[i]
  BY <1>2, <1>4, <1>5, <1>6
<1>8. Len(fetched) <= Limit => shown = fetched
  BY <1>2, <1>5, <1>6, <1>7
<1>9. ASSUME NEW r \in S
      PROVE  \/ \E i \in 1..Len(shown) : shown[i] = r
             \/ Len(fetched) > Limit /\ PG!Earlier(shown[Limit], r)
  <2>1. PICK n \in 1..total : all[n] = r
    BY <1>2
  <2>2. CASE n <= size
    BY <2>1, <2>2, <1>2, <1>5, <1>7
  <2>3. CASE n > size
    <3>1. total > Limit /\ Limit \in 1..total /\ Limit < n
      BY <2>1, <2>3, <1>2, <1>5
    <3>2. PG!Earlier(all[Limit], all[n])
      BY <3>1, <2>1, <1>2
    <3> QED
      BY <3>1, <3>2, <2>1, <1>5, <1>6, <1>7
  <2> QED
    BY <2>1, <2>2, <2>3, <1>2, <1>5
<1>10. \A i, j \in 1..Len(fetched) : i < j => PG!Earlier(fetched[i], fetched[j])
  BY <1>2, <1>5, <1>6
<1>11. \A i \in 1..Len(shown) : i <= Len(fetched) /\ shown[i] = fetched[i]
  BY <1>2, <1>5, <1>6, <1>7
<1>12. Len(fetched) \in Nat /\ (Len(fetched) > Limit => Len(fetched) = Limit + 1 /\ Len(shown) = Limit)
  BY <1>2, <1>5, <1>6, <1>7
<1> QED
  BY <1>6, <1>7, <1>8, <1>9, <1>10, <1>11, <1>12

\* The lists have ranges as everybody has.
LEMMA Ranges == \A f : PG!Range(f) = Range(f)
  BY DEF PG!Range, Range

\* What is appended stands behind what was there.
LEMMA Appended ==
    ASSUME NEW T, NEW s \in Seq(T), NEW t \in Seq(T)
    PROVE  /\ s \o t \in Seq(T) /\ Len(s \o t) = Len(s) + Len(t)
           /\ \A i \in 1..Len(s) : (s \o t)[i] = s[i]
           /\ \A i \in 1..Len(t) : (s \o t)[Len(s) + i] = t[i]
<1>1. Len(s) \in Nat /\ Len(t) \in Nat
  OBVIOUS
<1>2. s \o t \in Seq(T) /\ Len(s \o t) = Len(s) + Len(t)
  OBVIOUS
<1>3. \A i \in 1..Len(s) : (s \o t)[i] = s[i]
  BY ConcatProperties
<1>4. \A i \in 1..Len(t) : (s \o t)[Len(s) + i] = t[i]
  BY <1>1, ConcatProperties
<1> QED
  BY <1>2, <1>3, <1>4

\* Before the reader begins, nothing is listed or due.
LEMMA ListStart == PG!ListingInit => ListIInv
<1> SUFFICES ASSUME PG!ListingInit PROVE ListIInv
  OBVIOUS
<1> USE DEF PG!ListingInit
<1>1. ListTypes
  <2>1. IsFiniteSet(listRows)
    BY FS_EmptySet
  <2> QED
    BY <2>1 DEF ListTypes, PG!IdsOf, PG!None
<1>2. ListedStay /\ CursorStands
  BY DEF ListedStay, CursorStands
<1>3. PG!ListingInv
  BY DEF PG!ListingInv, PG!NothingMissed, PG!NothingTwice
<1> QED
  BY <1>1, <1>2, <1>3 DEF ListIInv

\* Whatever is inserted comes with an id nothing was listed under.
LEMMA InsertKept == ListIInv /\ PG!Insert => ListIInv'
<1> SUFFICES ASSUME ListIInv, PG!Insert PROVE ListIInv'
  OBVIOUS
<1> USE DEF ListIInv
<1>1. PICK id \in Ids \ PG!IdsOf(listRows), in \in BOOLEAN :
         /\ listKind \in {"log", "thread"} => \A r \in listRows : r.id < id
         /\ listRows' = listRows \cup {[id |-> id, at |-> clock, in |-> in \/ listKind # "newest"]}
         /\ UNCHANGED <<listKind, clock, listed, cursor, due, list>>
  BY DEF PG!Insert
<1> DEFINE new == [id |-> id, at |-> clock, in |-> in \/ listKind # "newest"]
<1>2. /\ new \in RowsOfLists /\ new.id = id /\ id \in Nat \ {0}
      /\ \A r \in listRows : r.id # id /\ r.id \in Nat
  BY ListsAssumption DEF RowsOfLists, ListTypes, PG!IdsOf
<1> HIDE DEF new
<1>3. listRows' = listRows \cup {new}
  BY <1>1 DEF new
<1>4. ListTypes'
  <2>1. IsFiniteSet(listRows')
    BY <1>3, FS_AddElement DEF ListTypes
  <2>2. PG!IdsOf(listRows) \subseteq PG!IdsOf(listRows)'
    BY <1>3 DEF PG!IdsOf
  <2>3. \A r, s \in listRows' : r.id = s.id => r = s
    BY <1>2, <1>3 DEF ListTypes
  <2>4. listRows' \in SUBSET RowsOfLists
    BY <1>2, <1>3 DEF ListTypes
  <2>5. due' \subseteq PG!IdsOf(listRows)'
    BY <1>1, <2>2 DEF ListTypes
  <2> QED
    BY <1>1, <2>1, <2>3, <2>4, <2>5 DEF ListTypes, PG!None
<1>5. ListedStay'
  BY <1>1, <1>3 DEF ListedStay
<1>6. id \notin Range(listed) /\ id \notin due
  <2>1. ASSUME NEW i \in 1..Len(listed), listed[i] = id PROVE FALSE
    <3>1. PICK r \in listRows : IF listKind = "log" THEN listed[i] <= r.id ELSE listed[i] = r.id
      BY <2>1 DEF ListedStay
    <3> QED
      BY <1>1, <1>2, <2>1, <3>1 DEF ListTypes
  <2> QED
    BY <2>1, <1>1 DEF ListTypes, Range
<1>7. CursorStands'
  BY <1>1, <1>2, <1>3, <1>6 DEF CursorStands, PG!Earlier
<1>8. PG!ListingInv'
  BY <1>1 DEF PG!ListingInv, PG!NothingMissed, PG!NothingTwice, PG!Range
<1> QED
  BY <1>4, <1>5, <1>7, <1>8

\* A run that changes its status keeps its id and its time.
LEMMA ChangeStatusKept == ListIInv /\ PG!ChangeStatus => ListIInv'
<1> SUFFICES ASSUME ListIInv, PG!ChangeStatus PROVE ListIInv'
  OBVIOUS
<1> USE DEF ListIInv
<1>1. PICK r \in listRows :
         /\ listKind = "newest"
         /\ listRows' = (listRows \ {r}) \cup {[r EXCEPT !.in = ~r.in]}
         /\ due' = due \ {r.id}
         /\ UNCHANGED <<listKind, clock, listed, cursor, list>>
  BY DEF PG!ChangeStatus
<1> DEFINE new == [r EXCEPT !.in = ~r.in]
<1>2. new \in RowsOfLists /\ new.id = r.id /\ new.at = r.at /\ r.id \in Nat
  BY DEF RowsOfLists, ListTypes
<1> HIDE DEF new
<1>3. listRows' = (listRows \ {r}) \cup {new}
  BY <1>1 DEF new
<1>4. ListTypes'
  <2>1. IsFiniteSet(listRows')
    BY <1>3, FS_RemoveElement, FS_AddElement DEF ListTypes
  <2>2. PG!IdsOf(listRows)' = PG!IdsOf(listRows)
    BY <1>2, <1>3 DEF PG!IdsOf
  <2>3. \A q, s \in listRows' : q.id = s.id => q = s
    BY <1>2, <1>3 DEF ListTypes
  <2>4. listRows' \in SUBSET RowsOfLists
    BY <1>2, <1>3 DEF ListTypes
  <2> QED
    BY <1>1, <2>1, <2>2, <2>3, <2>4 DEF ListTypes, PG!None
<1>5. ListedStay'
  BY <1>1, <1>2, <1>3 DEF ListedStay
<1>6. CursorStands'
  BY <1>1, <1>2, <1>3 DEF CursorStands, PG!Earlier, PG!NewestFirst
<1>7. PG!ListingInv'
  BY <1>1 DEF PG!ListingInv, PG!NothingMissed, PG!NothingTwice, PG!Range
<1> QED
  BY <1>4, <1>5, <1>6, <1>7

\* The oldest message is deleted while a later one is there.
LEMMA CompactKept == ListIInv /\ PG!Compact => ListIInv'
<1> SUFFICES ASSUME ListIInv, PG!Compact PROVE ListIInv'
  OBVIOUS
<1> USE DEF ListIInv
<1>1. PICK r \in listRows :
         /\ listKind = "log" /\ \E x \in listRows : x # r /\ \A y \in listRows : r.id <= y.id
         /\ listRows' = listRows \ {r} /\ due' = due \ {r.id}
         /\ UNCHANGED <<listKind, clock, listed, cursor, list>>
  BY DEF PG!Compact
<1>2. ListTypes'
  <2>1. IsFiniteSet(listRows')
    BY <1>1, FS_RemoveElement DEF ListTypes
  <2>2. due' \subseteq PG!IdsOf(listRows)'
    BY <1>1 DEF ListTypes, PG!IdsOf
  <2> QED
    BY <1>1, <2>1, <2>2 DEF ListTypes, PG!None
<1>3. ListedStay'
  <2> SUFFICES ASSUME NEW i \in 1..Len(listed) PROVE \E q \in listRows' : listed[i] <= q.id
    BY <1>1 DEF ListedStay
  <2>1. PICK q \in listRows : listed[i] <= q.id
    BY <1>1 DEF ListedStay
  <2>2. PICK x \in listRows : x # r /\ r.id <= x.id
    BY <1>1
  <2>3. q.id \in Nat /\ x.id \in Nat /\ r.id \in Nat /\ listed[i] \in Nat
    BY DEF ListTypes, RowsOfLists
  <2> QED
    BY <1>1, <2>1, <2>2, <2>3
<1>4. CursorStands'
  BY <1>1 DEF CursorStands, PG!Earlier
<1>5. PG!ListingInv'
  BY <1>1 DEF PG!ListingInv, PG!NothingMissed, PG!NothingTwice, PG!Range
<1> QED
  BY <1>2, <1>3, <1>4, <1>5

\* A page is read: what it shows was not listed before, and what it leaves comes later.
LEMMA ReadPageKept == ListIInv /\ PG!ReadPage => ListIInv'
<1> SUFFICES ASSUME ListIInv, PG!ReadPage PROVE ListIInv'
  OBVIOUS
<1> USE DEF ListIInv
<1> DEFINE S == {r \in PG!Matching : PG!Beyond(r, cursor)}
           fetched == PG!Fetched(cursor)
           shown == PG!Shown(fetched)
           ids == [i \in 1..Len(shown) |-> shown[i].id]
           last == PG!CursorRow(fetched)
<1>1. /\ fetched \in Seq(S) /\ shown \in Seq(S) /\ Len(fetched) \in Nat
      /\ Len(fetched) > Limit => Len(fetched) = Limit + 1 /\ Len(shown) = Limit
      /\ Len(fetched) <= Limit => shown = fetched
      /\ \A i \in 1..Len(shown) : i <= Len(fetched) /\ shown[i] = fetched[i]
      /\ \A i, j \in 1..Len(fetched) : i < j => PG!Earlier(fetched[i], fetched[j])
      /\ \A r \in S : \/ \E i \in 1..Len(shown) : shown[i] = r
                      \/ Len(fetched) > Limit /\ PG!Earlier(shown[Limit], r)
  BY PageRead
<1>2. /\ list # "end"
      /\ listed' = listed \o [i \in DOMAIN shown |-> shown[i].id]
      /\ IF Len(fetched) > Limit
         THEN list' = "open" /\ cursor' = [id |-> last.id, at |-> last.at]
         ELSE list' = "end" /\ cursor' = PG!None
      /\ due' = IF list = "closed" THEN PG!IdsOf(PG!Matching) ELSE due
      /\ UNCHANGED <<listKind, listRows, clock>>
  BY DEF PG!ReadPage
<1>3. last = IF listKind = "thread" THEN fetched[Len(fetched)] ELSE shown[Len(shown)]
  BY DEF PG!CursorRow, PG!Last
<1>4. S \subseteq listRows /\ S \in SUBSET RowsOfLists /\ Limit \in Nat \ {0}
      /\ \A r \in S : r.in /\ (cursor = PG!None \/ PG!Earlier(cursor, r))
  BY ListsAssumption DEF PG!Matching, PG!Beyond, ListTypes
<1> HIDE DEF S, fetched, shown, last
<1>5. /\ DOMAIN shown = 1..Len(shown) /\ Len(shown) \in Nat
      /\ \A i \in 1..Len(shown) : shown[i] \in S
      /\ \A i \in 1..Len(fetched) : fetched[i] \in S
  BY <1>1
<1>6. ids \in Seq(Nat \ {0}) /\ Len(ids) = Len(shown) /\ \A i \in 1..Len(shown) : ids[i] = shown[i].id
  BY <1>4, <1>5 DEF RowsOfLists
<1>7. listed' = listed \o ids
  BY <1>2, <1>5
<1> HIDE DEF ids
<1>8. /\ listed' \in Seq(Nat \ {0}) /\ Len(listed') = Len(listed) + Len(shown)
      /\ \A i \in 1..Len(listed) : listed'[i] = listed[i]
      /\ \A i \in 1..Len(shown) : listed'[Len(listed) + i] = shown[i].id
      /\ Range(listed)' = Range(listed) \cup {shown[i].id : i \in 1..Len(shown)}
  <2>1. /\ listed' \in Seq(Nat \ {0}) /\ Len(listed') = Len(listed) + Len(shown)
        /\ \A i \in 1..Len(listed) : listed'[i] = listed[i]
        /\ \A i \in 1..Len(shown) : listed'[Len(listed) + i] = shown[i].id
    <3>1. listed \in Seq(Nat \ {0})
      BY DEF ListTypes
    <3>2. ids \in Seq(Nat \ {0})
      BY <1>6
    <3>3. /\ listed \o ids \in Seq(Nat \ {0}) /\ Len(listed \o ids) = Len(listed) + Len(ids)
          /\ \A i \in 1..Len(listed) : (listed \o ids)[i] = listed[i]
          /\ \A i \in 1..Len(ids) : (listed \o ids)[Len(listed) + i] = ids[i]
      BY <3>1, <3>2, Appended
    <3>4. /\ listed' \in Seq(Nat \ {0}) /\ Len(listed') = Len(listed) + Len(ids)
          /\ \A i \in 1..Len(listed) : listed'[i] = listed[i]
          /\ \A i \in 1..Len(ids) : listed'[Len(listed) + i] = ids[i]
      BY <3>3, <1>7, Zenon
    <3> QED
      BY <3>4, <1>6
  <2>2. ASSUME NEW k \in 1..Len(listed') PROVE listed'[k] \in Range(listed) \cup {shown[i].id : i \in 1..Len(shown)}
    <3>1. CASE k <= Len(listed)
      BY <3>1, <2>1 DEF Range, ListTypes
    <3>2. CASE k > Len(listed)
      <4>1. k - Len(listed) \in 1..Len(shown) /\ k = Len(listed) + (k - Len(listed))
        BY <3>2, <2>1, <1>5 DEF ListTypes
      <4> QED
        BY <4>1, <2>1
    <3> QED
      BY <3>1, <3>2 DEF ListTypes
  <2>3. Range(listed)' = {listed'[k] : k \in 1..Len(listed')}
    BY <2>1 DEF Range
  <2>4. ASSUME NEW k \in 1..Len(listed) PROVE listed[k] \in Range(listed)'
    BY <2>1, <2>3, <1>5 DEF ListTypes
  <2>5. ASSUME NEW i \in 1..Len(shown) PROVE shown[i].id \in Range(listed)'
    <3>1. Len(listed) + i \in 1..Len(listed')
      BY <2>1, <1>5 DEF ListTypes
    <3> QED
      BY <3>1, <2>1, <2>3
  <2>6. Range(listed) = {listed[k] : k \in 1..Len(listed)}
    BY DEF Range, ListTypes
  <2> QED
    BY <2>1, <2>2, <2>3, <2>4, <2>5, <2>6
\* The row of the cursor, when there is another page.
<1>9. ASSUME Len(fetched) > Limit
      PROVE  /\ last \in S
             /\ listKind # "thread" => last = shown[Limit]
             /\ \A i \in 1..Len(shown) : ~PG!Earlier(last, shown[i])
  <2>1. /\ Limit + 1 \in 1..Len(fetched) /\ Limit \in 1..Len(shown)
        /\ shown[Limit] = fetched[Limit] /\ Len(shown) = Limit /\ Len(fetched) = Limit + 1
    BY <1>9, <1>1, <1>4
  <2>2. last = IF listKind = "thread" THEN fetched[Limit + 1] ELSE fetched[Limit]
    BY <2>1, <1>3
  <2>3. last \in S
    BY <2>1, <2>2, <1>5
  <2>4. ASSUME NEW i \in 1..Len(shown) PROVE ~PG!Earlier(last, shown[i])
    <3>1. i \in 1..Len(fetched) /\ shown[i] = fetched[i] /\ shown[i] \in S
      BY <2>1, <1>1, <1>4, <1>5
    <3>2. {last.id, last.at, shown[i].id, shown[i].at} \subseteq Nat
      BY <2>3, <3>1, <1>4 DEF RowsOfLists
    <3>3. PG!Earlier(shown[i], last) \/ shown[i] = last
      BY <2>1, <2>2, <3>1, <1>1, <1>4
    <3> QED
      BY <3>2, <3>3, Ordering DEF ListTypes
  <2> QED
    BY <2>1, <2>2, <2>3, <2>4
<1>10. ListTypes'
  <2>1. cursor' \in [id : Nat, at : Nat] /\ (list' = "open" <=> cursor' # PG!None) /\ (cursor'.id = 0 => cursor' = PG!None)
    <3>1. CASE Len(fetched) > Limit
      BY <3>1, <1>2, <1>4, <1>9 DEF RowsOfLists, PG!None
    <3>2. CASE ~(Len(fetched) > Limit)
      BY <3>2, <1>2 DEF PG!None
    <3> QED
      BY <3>1, <3>2
  <2>2. due' \subseteq PG!IdsOf(listRows)'
    BY <1>2 DEF ListTypes, PG!IdsOf, PG!Matching
  <2>3. list' \in {"open", "end"}
    BY <1>2
  <2> QED
    BY <1>2, <1>8, <2>1, <2>2, <2>3 DEF ListTypes, PG!None
<1>11. ListedStay'
  <2> SUFFICES ASSUME NEW i \in 1..Len(listed')
               PROVE  \E r \in listRows : IF listKind = "log" THEN listed'[i] <= r.id ELSE listed'[i] = r.id
    BY <1>2 DEF ListedStay
  <2>1. listed'[i] \in Range(listed)'
    <3>1. i \in DOMAIN listed'
      BY <1>8
    <3> QED
      BY <3>1, Zenon DEF Range
  <2>2. CASE listed'[i] \in Range(listed)
    BY <2>2 DEF Range, ListedStay, ListTypes
  <2>3. ASSUME NEW k \in 1..Len(shown), listed'[i] = shown[k].id
        PROVE  \E r \in listRows : IF listKind = "log" THEN listed'[i] <= r.id ELSE listed'[i] = r.id
    BY <2>3, <1>4, <1>5 DEF RowsOfLists
  <2> QED
    BY <2>1, <2>2, <2>3, <1>8
<1>12. CursorStands'
  <2> SUFFICES ASSUME list' = "open", NEW r \in listRows
               PROVE  /\ r.id \in Range(listed)' => ~PG!Earlier(cursor', r)
                      /\ listKind # "thread" /\ r.id \in due' =>
                            r.in /\ (r.id \in Range(listed)' \/ PG!Earlier(cursor', r))
    BY <1>2 DEF CursorStands, PG!Earlier
  <2>1. Len(fetched) > Limit /\ cursor' = [id |-> last.id, at |-> last.at] /\ last \in S
    BY <1>2, <1>9
  <2>2. {r.id, r.at, last.id, last.at} \subseteq Nat /\ {cursor.id, cursor.at} \subseteq Nat
    BY <2>1, <1>4 DEF RowsOfLists, ListTypes
  <2>3. PG!Earlier(cursor', r) <=> PG!Earlier(last, r)
    BY <2>1 DEF PG!Earlier, PG!NewestFirst, PG!LastFirst, PG!BySequence, PG!ById
  <2>4. ASSUME r.id \in Range(listed) PROVE ~PG!Earlier(last, r)
    <3>1. list = "open"
      BY <2>4, <1>2 DEF ListTypes, Range
    <3>2. ~PG!Earlier(cursor, r) /\ PG!Earlier(cursor, last)
      BY <2>1, <2>4, <3>1, <1>4 DEF CursorStands, ListTypes
    <3> QED
      BY <2>2, <3>2, Ordering DEF ListTypes
  <2>5. ASSUME NEW k \in 1..Len(shown), r.id = shown[k].id PROVE ~PG!Earlier(last, r)
    BY <2>1, <2>5, <1>4, <1>5, <1>9 DEF ListTypes
  <2>6. ASSUME listKind # "thread", r.id \in due'
        PROVE  r.in /\ (r.id \in Range(listed)' \/ PG!Earlier(last, r))
    <3>1. CASE list = "closed"
      <4>1. PICK q \in listRows : q.in /\ q.id = r.id
        BY <2>6, <3>1, <1>2 DEF PG!IdsOf, PG!Matching
      <4>2. r.in /\ r \in S
        BY <4>1, <3>1 DEF ListTypes, S, PG!Matching, PG!Beyond
      <4> QED
        BY <4>2, <2>1, <2>6, <1>1, <1>8, <1>9
    <3>2. CASE list = "open"
      <4>1. r.in /\ (r.id \in Range(listed) \/ PG!Earlier(cursor, r))
        BY <3>2, <2>6, <1>2 DEF CursorStands
      <4>2. CASE r.id \in Range(listed)
        BY <4>1, <4>2, <1>8
      <4>3. CASE PG!Earlier(cursor, r)
        <5>1. r \in S
          BY <4>1, <4>3 DEF S, PG!Matching, PG!Beyond
        <5> QED
          BY <5>1, <4>1, <2>1, <2>6, <1>1, <1>8, <1>9
      <4> QED
        BY <4>1, <4>2, <4>3
    <3> QED
      BY <3>1, <3>2, <1>2 DEF ListTypes
  <2> QED
    BY <2>3, <2>4, <2>5, <2>6, <1>8
<1>13. PG!NothingMissed'
  <2> SUFFICES ASSUME list' = "end", listKind # "thread", NEW n \in due' PROVE n \in Range(listed)'
    BY <1>2, Ranges DEF PG!NothingMissed
  <2>1. ~(Len(fetched) > Limit)
    BY <1>2
  <2>2. ASSUME NEW r \in S PROVE r.id \in Range(listed)'
    BY <2>1, <1>1, <1>8
  <2>3. CASE list = "closed"
    <3>1. PICK r \in PG!Matching : r.id = n
      BY <2>3, <1>2 DEF PG!IdsOf
    <3>2. r \in S
      BY <2>3, <3>1 DEF S, PG!Beyond, ListTypes
    <3> QED
      BY <2>2, <3>1, <3>2
  <2>4. CASE list = "open"
    <3>1. PICK r \in listRows : r.id = n
      BY <2>4, <1>2 DEF PG!IdsOf, ListTypes
    <3>2. r.in /\ (r.id \in Range(listed) \/ PG!Earlier(cursor, r))
      BY <2>4, <3>1, <1>2 DEF CursorStands
    <3>3. CASE PG!Earlier(cursor, r)
      <4>1. r \in S
        BY <3>2, <3>3 DEF S, PG!Matching, PG!Beyond
      <4> QED
        BY <2>2, <3>1, <4>1
    <3> QED
      BY <3>1, <3>2, <3>3, <1>8
  <2> QED
    BY <2>3, <2>4, <1>2 DEF ListTypes
<1>14. PG!NothingTwice'
  <2>1. ASSUME NEW k \in 1..Len(shown) PROVE shown[k].id \notin Range(listed)
    <3>1. shown[k] \in S /\ shown[k] \in listRows
      BY <1>4, <1>5
    <3>2. CASE list = "closed"
      BY <3>2 DEF ListTypes, Range
    <3>3. CASE list = "open"
      BY <3>1, <3>3, <1>4 DEF CursorStands, ListTypes
    <3> QED
      BY <3>2, <3>3, <1>2 DEF ListTypes
  <2>2. ASSUME NEW k \in 1..Len(shown), NEW m \in 1..Len(shown), k < m PROVE shown[k].id # shown[m].id
    <3>0. k \in 1..Len(fetched) /\ m \in 1..Len(fetched) /\ shown[k] = fetched[k] /\ shown[m] = fetched[m]
      BY <1>1, <1>5
    <3>1. PG!Earlier(shown[k], shown[m]) /\ shown[k] \in S /\ shown[m] \in S
      BY <2>2, <3>0, <1>1, <1>5
    <3>2. {shown[k].id, shown[k].at} \subseteq Nat /\ shown[k] # shown[m]
      BY <3>1, <1>4, Ordering DEF RowsOfLists, ListTypes
    <3> QED
      BY <3>1, <3>2, <1>4 DEF ListTypes
  <2>3. \A i, j \in 1..Len(listed) : listed[i] = listed[j] => i = j
    BY DEF PG!ListingInv, PG!NothingTwice, ListTypes
  <2>4. ASSUME NEW i \in 1..Len(listed'), NEW j \in 1..Len(listed'), i < j PROVE listed'[i] # listed'[j]
    <3>0. Len(listed) \in Nat
      BY DEF ListTypes
    <3>1. CASE j <= Len(listed)
      BY <3>0, <3>1, <2>3, <2>4, <1>8
    <3>2. CASE i <= Len(listed) /\ j > Len(listed)
      <4>1. j - Len(listed) \in 1..Len(shown) /\ j = Len(listed) + (j - Len(listed))
        BY <3>0, <3>2, <1>5, <1>8
      <4>2. listed'[i] \in Range(listed)
        BY <3>0, <3>2, <1>8 DEF Range, ListTypes
      <4> QED
        BY <4>1, <4>2, <2>1, <1>8
    <3>3. CASE i > Len(listed)
      <4>1. /\ i - Len(listed) \in 1..Len(shown) /\ i = Len(listed) + (i - Len(listed))
            /\ j - Len(listed) \in 1..Len(shown) /\ j = Len(listed) + (j - Len(listed))
            /\ i - Len(listed) < j - Len(listed)
        BY <3>0, <3>3, <2>4, <1>5, <1>8
      <4> QED
        BY <4>1, <2>2, <1>8
    <3> QED
      BY <3>0, <3>1, <3>2, <3>3, <2>4, <1>8
  <2>5. DOMAIN listed' = 1..Len(listed') /\ Len(listed') \in Nat
    BY <1>8
  <2>6. ASSUME NEW i \in 1..Len(listed'), NEW j \in 1..Len(listed'), listed'[i] = listed'[j] PROVE i = j
    BY <2>4, <2>5, <2>6
  <2> QED
    BY <2>5, <2>6 DEF PG!NothingTwice
<1> QED
  BY <1>10, <1>11, <1>12, <1>13, <1>14 DEF PG!ListingInv

\* The clock is only read when a row is inserted.
LEMMA ListStays ==
    ListIInv /\ UNCHANGED <<listKind, listRows, listed, cursor, due, list>> /\ clock' \in Nat => ListIInv'
<1> SUFFICES ASSUME ListIInv, UNCHANGED <<listKind, listRows, listed, cursor, due, list>>, clock' \in Nat
             PROVE  ListIInv'
  OBVIOUS
<1> USE DEF ListIInv
<1>1. ListTypes'
  BY DEF ListTypes, PG!IdsOf, PG!None
<1>2. ListedStay'
  BY DEF ListedStay
<1>3. CursorStands'
  BY DEF CursorStands, PG!Earlier, PG!NewestFirst, PG!LastFirst, PG!BySequence, PG!ById, Range
<1>4. PG!ListingInv'
  BY DEF PG!ListingInv, PG!NothingMissed, PG!NothingTwice, PG!Range
<1> QED
  BY <1>1, <1>2, <1>3, <1>4

\* The invariant of the lists, where the store is read by list.
ListKept == section = "list" => ListIInv

\* Whatever is inserted, changed or compacted while somebody reads page by page, for any
\* number of rows and any size of a page: who follows the cursors to the end has been shown
\* every row that belonged to the list all the while (but for the messages of a preparation),
\* and none twice (the lists of sqlite-run-store.ts).
THEOREM ListHolds == StoreSpec => []ListInv
<1>1. StoreInit => ListKept
  BY ListStart DEF StoreInit, ListKept
<1>2. ListKept /\ [StoreNext]_storeVars => ListKept'
  <2> SUFFICES ASSUME ListIInv, [StoreNext]_storeVars, section = "list" PROVE ListIInv'
    BY DEF ListKept, StoreNext, storeVars
  <2>1. PG!ListingNext \/ UNCHANGED listVars
    BY DEF StoreNext, storeVars, readVars
  <2>2. CASE PG!Tick
    BY <2>2, ListStays DEF PG!Tick, ListIInv, ListTypes
  <2>3. CASE UNCHANGED listVars
    BY <2>3, ListStays DEF listVars, ListIInv, ListTypes
  <2> QED
    BY <2>1, <2>2, <2>3, InsertKept, ChangeStatusKept, CompactKept, ReadPageKept DEF PG!ListingNext
<1>3. ListKept => ListInv
  BY DEF ListKept, ListIInv, ListInv
<1> QED
  BY <1>1, <1>2, <1>3, PTL DEF StoreSpec

-----------------------------------------------------------------------------
\* For any plan, clients, writers, paths and bounds, in every state of the store: the
\* guided task, the files its documents name and the files beside the database keep what
\* was agreed, saved and told, and who pages through a list is shown all of it.
THEOREM StoreHolds == StoreSpec => []StoreInv
<1>1. GuidedInv /\ ScopeInv /\ FilesInv /\ ListInv => StoreInv
  BY DEF StoreInv
<1> QED
  BY <1>1, GuidedHolds, ScopeHolds, FilesHold, ListHolds, PTL

==============================================================================
