------------------------------ MODULE TuiProofs ------------------------------
(***************************************************************************)
(* What TLAPS proves of Tui, part by part, for any folders, requests,      *)
(* changes of the folder, profiles, providers, runs and bounds.            *)
(*                                                                         *)
(* Why a store is not closed under a request: who replaces the context     *)
(* first waits until no request is tracked (Drain) and, from there to the  *)
(* close, goes on without giving way (Emptied), so that no request begins  *)
(* in between; and a second store cannot become the context while one is,  *)
(* because it would be of the same folder (SameFolder).  Where something   *)
(* else began meanwhile (overlapped) the stores keep their types: there is *)
(* room for one more, since each folder has one store in use and each      *)
(* store that is opening has an actor of its own that waits (FreeStore).   *)
(*                                                                         *)
(* Why the wizard saves what it shows: the review step has no way in that  *)
(* does not build the preview (PreviewIsCurrent), and a new configuration  *)
(* is complete only when every profile was asked (AskedOnly).  Why a run   *)
(* is launched as reviewed: the version reviewed is never newer than the   *)
(* one the operation read, nor that than the file (Versions), so that the  *)
(* comparison of the first with the last fixes all three.  Why the stream  *)
(* of a command is whole: each phase has its shape (Stream, Whole).        *)
(***************************************************************************)
EXTENDS Tui, FiniteSetTheorems, TLAPS

UserLabels == {"idle", "factory", "awaiting", "using", "done"}
SwitchLabels == {"idle", "replace", "operation", "drain", "settle", "close", "awaiting", "done"}
OperationLabels ==
    {"idle", "replace", "drain", "settle", "close", "factory", "awaiting", "using", "done"}
ShutdownLabels == {"idle", "operation", "drain", "settle", "close", "done"}

Over == {"idle", "done"}
Replacers == Switches \union {"operation"}
Clients == Reads \union {"operation"}

StoreStates == {"unused", "opening", "open", "closing", "failed"}

Types ==
    /\ store \in [Stores -> [folder : Folders, lent : BOOLEAN, st : StoreStates]]
    /\ context \in Stores \union {NoStore} /\ opening \in Stores \union {NoStore}
    /\ ownsContext \in BOOLEAN /\ stopping \in BOOLEAN /\ exited \in BOOLEAN
    /\ cwd \in Folders /\ want \in [Actors -> Folders]
    /\ held \in [Actors -> Stores \union {NoStore}]
    /\ pc \in [Actors -> UserLabels \union SwitchLabels]

Labels ==
    /\ \A a \in Users : pc[a] \in UserLabels
    /\ \A a \in Switches : pc[a] \in SwitchLabels
    /\ pc["operation"] \in OperationLabels
    /\ pc["shutdown"] \in ShutdownLabels

\* The set of requests is that of the reads under way.
Tracked == requests = {a \in Reads : pc[a] \notin Over}

\* A change of the folder is alone, and so is an operation but for the requests.
Alone ==
    \A a \in Replacers, b \in Replacers \union Drafts :
        pc[a] \notin Over /\ pc[b] \notin Over => a = b

\* The interface is left once, and after that nothing begins.
Left ==
    /\ stopping = exited
    /\ exited <=> pc["shutdown"] # "idle"
    /\ pc["shutdown"] \in {"drain", "settle", "close", "done"} => pc["operation"] \in Over
    /\ pc["shutdown"] \in {"settle", "close", "done"} => requests = {}
    /\ pc["shutdown"] = "settle" /\ opening # NoStore => held["shutdown"] = opening
    /\ pc["shutdown"] \in {"close", "done"} => opening = NoStore

\* lifecycle.openingContext is the one store that is opening, and someone waits for it.
Opening ==
    /\ \A s \in Stores : store[s].st = "opening" <=> s = opening
    /\ opening # NoStore => \E a \in Actors : pc[a] = "awaiting" /\ held[a] = opening

\* Between Drain and the close no request is under way and nothing is opening.
Emptied ==
    \A a \in Replacers : pc[a] = "settle" =>
        requests = {} /\ opening = NoStore /\ held[a] = NoStore

\* Who waits for a store waits for the one opening, or it is the context, or it failed.
Awaits ==
    \A a \in Clients : pc[a] = "awaiting" =>
        /\ held[a] # NoStore
        /\ \/ store[held[a]].st \in {"opening", "failed"}
           \/ held[a] = context

\* Who uses a store uses the context.
Uses == \A a \in Clients : pc[a] = "using" => held[a] = context /\ context # NoStore

\* The context is open until the shutdown closes it.
ContextOpen ==
    context # NoStore => store[context].st = "open" \/ pc["shutdown"] \in {"close", "done"}

\* Every folder has one store in use.
OnePerFolder ==
    \A s, t \in Stores :
        store[s].st \in InUse /\ store[t].st \in InUse /\ store[s].folder = store[t].folder => s = t

SameFolder ==
    opening # NoStore /\ context # NoStore => store[opening].folder = store[context].folder

\* The store that is opening, the context and what a replacer read are the folder's.
OfFolder ==
    /\ \A a \in Replacers : pc[a] \in {"operation", "drain", "settle", "close"} => want[a] = cwd
    /\ ~stopping /\ opening # NoStore /\ (\A a \in Switches : pc[a] \notin {"replace", "operation", "drain"})
         => store[opening].folder = cwd
    /\ ~stopping /\ context # NoStore
         /\ (\A a \in Switches : pc[a] \notin {"replace", "operation", "drain", "settle"})
         => store[context].folder = cwd

\* The stores that are open: the context, if it is the lifecycle's, and those lent.
OpenIsContext ==
    \A s \in Stores : store[s].st = "open" /\ ~store[s].lent =>
        s = context /\ ownsContext /\ pc["shutdown"] \notin {"close", "done"}

Undisturbed ==
    /\ Types /\ Labels /\ Tracked /\ Alone /\ Left
    /\ Opening /\ Emptied /\ Awaits /\ Uses /\ ContextOpen
    /\ OnePerFolder /\ SameFolder /\ OfFolder /\ OpenIsContext

LifeInv == ~overlapped => Undisturbed

(* The stores, whatever overlaps *)

\* What is tracked is a read; a store that is opening has someone who waits for it.
Room ==
    /\ requests \subseteq Reads
    /\ \A s \in Stores : store[s].st = "opening" => \E a \in Actors : pc[a] = "awaiting" /\ held[a] = s

LifeTypes == Types /\ Labels /\ OnePerFolder /\ Room

(* The wizard *)

Values == Providers \union S!Answer \union {S!None}
Setting == [provider : Values, model : Values, write : Values]
Configurations == [Profiles -> Setting]

SetupTypes ==
    /\ settings \in Configurations /\ file \in Configurations
    /\ building \subseteq Configurations
    /\ preview = S!NoPreview \/ (preview = <<preview[1]>> /\ preview[1] \in Configurations)
    /\ saving = S!NoSave \/ saving \in Configurations \X Configurations \X BOOLEAN
    /\ editing \in BOOLEAN /\ choosing \in BOOLEAN /\ overtaken \in BOOLEAN
    /\ models \subseteq Providers

\* The field that is asked is one of the profile asked about.
Asked ==
    /\ step = 3 /\ ~choosing => profile \in edited \intersect Profiles /\ field \in 1..Len(S!Fields(profile))
    /\ step = 4 => choosing

\* A new configuration keeps no setting of a file.
AskedOnly == step # 0 /\ ~editing => \A p \in Profiles \ edited : settings[p] = S!Blank

ReviewedComplete == step = 4 \/ (step = 3 /\ choosing) => \A p \in Profiles : S!Complete(p)

PreviewIsCurrent == ~overtaken /\ step = 4 /\ preview # S!NoPreview => preview = <<settings>>

SetupInv == SetupTypes /\ Asked /\ AskedOnly /\ ReviewedComplete /\ PreviewIsCurrent /\ S!SavedIsShown

(* The runs *)

Statuses == {"absent", "waiting", "failed", "running", "completed"}
Inspections == [no : Nat, run : Runs, st : Statuses \union {"none"}, at : {"read", "apply", "outcome"}]
Operations ==
    [kind : {"none", "launch", "resume", "decide"}, run : Runs \union {R!NoRun},
     at : {"idle", "open", "opened", "start", "running", "finish", "outcome"}, config : Nat]

RunsTypes ==
    /\ status \in [Runs -> Statuses]
    /\ view \in [run : Runs \union {R!NoRun}, status : Statuses \union {"none"}]
    /\ inspections \subseteq Inspections /\ op \in Operations
    /\ config \in Nat /\ diagnosed \in Nat /\ reviewed \in Nat /\ ticket \in Nat
    /\ unseen \in BOOLEAN /\ crossed \in BOOLEAN
    /\ op.at # "idle" => op.run \in Runs
    /\ view.status # "none" \/ prompt = "feedback" => view.run \in Runs

\* The versions of the configuration: what was reviewed, what the operation read, the file.
Versions ==
    /\ reviewed <= config /\ diagnosed <= config
    /\ op.at = "opened" => reviewed <= op.config /\ op.config <= config
    /\ R!LaunchedAsReviewed

Following == op.at \in {"running", "finish"}

\* The run on the screen is the active one, or an answer that will show it is on its way.
ViewComes ==
    ~unseen /\ ~crossed =>
        \/ \E i \in inspections : R!Wanted(i) /\ i.at \in {"read", "apply"}
        \/ Following /\ op.run = activeRun
        \/ ~Following /\ view.run = activeRun

LiveFollows == screen = "live" => Following \/ unseen

PreviewsCome ==
    screen = "approval" /\ ~crossed =>
        \/ previews = view.run
        \/ \E i \in inspections : i.at = "outcome" /\ i.run = view.run /\ i.st = "waiting"
        \/ op.at = "outcome" /\ op.run = view.run /\ status[op.run] = "waiting"

RunsInv == RunsTypes /\ Versions /\ ViewComes /\ LiveFollows /\ PreviewsCome

(* The command *)

Records == {"started", "event", "finished", "result", "summary", "failed", "error"}
Before == {"opening", "working", "reporting"}

CliTypes ==
    /\ at \in Before \union {"settled", "leaving", "ended"}
    /\ received \in Seq(Records)
    /\ appOpen \in BOOLEAN /\ started \in BOOLEAN /\ reader \in BOOLEAN /\ pending \in BOOLEAN
    /\ lost \in BOOLEAN /\ aborted \in BOOLEAN /\ force \in BOOLEAN /\ failure \in BOOLEAN
    /\ handled \in BOOLEAN /\ cleanup \in BOOLEAN /\ signals \in Nat

\* How far the command is.
Progress ==
    /\ run = "running" => at = "working" /\ started
    /\ at = "opening" => ~started
    /\ at = "reporting" => run \in {"completed", "failed", "waiting", "cancelled"}
    /\ at = "reporting" /\ mode = "jsonl" => started
    /\ at \in {"leaving", "ended"} => ~appOpen
    /\ at \in Before => ~failure /\ ~handled /\ exitCode = 0
    /\ at \notin {"leaving", "ended"} => ~cleanup
    /\ mode = "jsonl" /\ failure /\ started => handled

\* What the process knows of its reader and of signals.
Known ==
    /\ reader => ~lost /\ ~pending
    /\ aborted => signals > 0 \/ lost
    /\ force => signals > 0
    /\ exitCode = 130 => signals > 0
    /\ at = "reporting" /\ run = "cancelled" /\ command # "review" => signals > 0

Delivered == \E i \in DOMAIN received : received[i] = C!Terminal
Done == run \in {"completed", "waiting"} /\ (mode # "human" => Delivered \/ pending)

Exits ==
    /\ at = "settled" /\ exitCode = 0 /\ command # "review" => lost \/ (failure /\ ~handled) \/ Done
    /\ at = "leaving" /\ exitCode = 0 /\ command # "review" => Done
    /\ at = "ended" /\ exitCode = 0 /\ command # "review" =>
         run \in {"completed", "waiting"} /\ (mode # "human" => Delivered)
    /\ at \notin Before /\ run = "cancelled" /\ command # "review" /\ reader
         /\ ~failure /\ ~cleanup => exitCode = 130

\* The stream as it grows: what may be its last record.
Stream(last) ==
    /\ ~started => received = <<>>
    /\ \A i \in DOMAIN received :
         /\ received[i] = "started" <=> i = 1
         /\ received[i] \in {"started", "event"} \/ (i = Len(received) /\ received[i] \in last)

Terminals == {"finished", "failed"}

\* The stream once nothing of the run is written any more.
Whole ==
    /\ received # <<>> => received[1] \in {"started", "error"}
    /\ \A i \in DOMAIN received :
         /\ received[i] = "started" => i = 1
         /\ received[i] = "error" => cleanup \/ (i = 1 /\ ~started)
         /\ received[i] \in Terminals => \A j \in i + 1..Len(received) : received[j] = "error" /\ cleanup
    /\ reader /\ started => \E i \in DOMAIN received : received[i] \in Terminals

Streamed ==
    mode = "jsonl" =>
      /\ at \in Before => Stream({}) /\ (reader /\ started => received # <<>>)
      /\ at = "settled" =>
           /\ Stream(Terminals)
           /\ reader /\ started => received # <<>> /\ received[Len(received)] \in Terminals
      /\ at \in {"leaving", "ended"} => Whole

CommandInv == CliTypes /\ Progress /\ Known /\ Exits /\ Streamed

-----------------------------------------------------------------------------
(* The steps *)

\* The actors are different.
LEMMA Names ==
    /\ Users \subseteq Actors /\ Switches \subseteq Actors /\ Reads \subseteq Users
    /\ Drafts \subseteq Users /\ Clients \subseteq Actors /\ Replacers \subseteq Actors
    /\ "operation" \in Actors /\ "shutdown" \in Actors
    /\ "operation" \in Replacers /\ "operation" \in Clients
    /\ Switches \subseteq Replacers /\ Reads \subseteq Clients
    /\ Users \cap Switches = {} /\ "operation" \notin Users \union Switches
    /\ Users = Reads \union Drafts /\ Reads \cap Drafts = {}
    /\ Actors = Users \union Switches \union {"operation", "shutdown"}
    /\ "shutdown" \notin Users \union Switches \union Clients \union Replacers
BY ActorsAssumption DEF Users, Actors, Clients, Replacers

LEMMA NoStoreIsNone == NoStore \notin Stores
BY DEF Stores, NoStore

\* A store whose state changes is still a store.
LEMMA StateChanges ==
    ASSUME Types, NEW s \in Stores, NEW st \in StoreStates
    PROVE  [store EXCEPT ![s].st = st] \in [Stores -> [folder : Folders, lent : BOOLEAN, st : StoreStates]]
<1>1. store[s] \in [folder : Folders, lent : BOOLEAN, st : StoreStates]
  BY DEF Types
<1>2. [store[s] EXCEPT !.st = st] \in [folder : Folders, lent : BOOLEAN, st : StoreStates]
  BY <1>1
<1>3. [store EXCEPT ![s].st = st] = [store EXCEPT ![s] = [store[s] EXCEPT !.st = st]]
  BY DEF Types
<1> QED
  BY <1>2, <1>3 DEF Types

LEMMA Reopened ==
    ASSUME NEW r \in [folder : Folders, lent : BOOLEAN, st : StoreStates], NEW f \in Folders
    PROVE  /\ [[r EXCEPT !.folder = f] EXCEPT !.st = "opening"] \in [folder : Folders, lent : BOOLEAN, st : StoreStates]
           /\ [[r EXCEPT !.folder = f] EXCEPT !.st = "opening"].folder = f
           /\ [[r EXCEPT !.folder = f] EXCEPT !.st = "opening"].st = "opening"
           /\ [[r EXCEPT !.folder = f] EXCEPT !.st = "opening"].lent = r.lent
<1> DEFINE q == [r EXCEPT !.folder = f]
<1>1. q \in [folder : Folders, lent : BOOLEAN, st : StoreStates] /\ q.folder = f /\ q.lent = r.lent
  OBVIOUS
<1> HIDE DEF q
<1>2. /\ [q EXCEPT !.st = "opening"] \in [folder : Folders, lent : BOOLEAN, st : StoreStates]
      /\ [q EXCEPT !.st = "opening"].folder = q.folder
      /\ [q EXCEPT !.st = "opening"].st = "opening"
      /\ [q EXCEPT !.st = "opening"].lent = q.lent
  BY <1>1 DEF StoreStates
<1> QED
  BY <1>1, <1>2 DEF q

LEMMA CloseChanges ==
    ASSUME Types, NEW s \in Stores \union {NoStore}, Close(s)
    PROVE  store' \in [Stores -> [folder : Folders, lent : BOOLEAN, st : StoreStates]]
<1>1. CASE s = NoStore
  BY <1>1, NoStoreIsNone DEF Close, Types
<1>2. CASE s \in Stores
  <2>1. store[s] \in [folder : Folders, lent : BOOLEAN, st : StoreStates]
    BY <1>2 DEF Types
  <2>2. (IF store[s].st = "open" THEN "closing" ELSE store[s].st) \in StoreStates
    BY <2>1 DEF StoreStates
  <2> QED
    BY <1>2, <2>2, StateChanges DEF Close
<1> QED
  BY <1>1, <1>2

LEMMA OpenersFinite ==
    /\ IsFiniteSet(Openers) /\ Cardinality(Openers) \in Nat
    /\ IsFiniteSet(Folders) /\ Cardinality(Folders) \in Nat
    /\ IsFiniteSet(Stores) /\ Cardinality(Stores) = Cardinality(Folders) + Cardinality(Openers)
<1>1. IsFiniteSet(Users)
  BY ActorsAssumption, FS_Union DEF Users
<1>2. IsFiniteSet(Users \union Switches)
  BY <1>1, ActorsAssumption, FS_Union
<1>3. IsFiniteSet({"operation"})
  BY FS_Singleton
<1>4. IsFiniteSet(Openers)
  BY <1>2, <1>3, FS_Union DEF Openers
<1>5. Cardinality(Openers) \in Nat
  BY <1>4, FS_CardinalityType
<1>6. IsFiniteSet(Folders) /\ Cardinality(Folders) \in Nat
  BY ActorsAssumption, FS_CardinalityType
<1>7. /\ IsFiniteSet(1..(Cardinality(Folders) + Cardinality(Openers)))
      /\ Cardinality(1..(Cardinality(Folders) + Cardinality(Openers))) = Cardinality(Folders) + Cardinality(Openers)
  <2> DEFINE n == Cardinality(Folders) + Cardinality(Openers)
  <2>1. n \in Nat
    BY <1>5, <1>6
  <2> HIDE DEF n
  <2>2. IsFiniteSet(1..n) /\ Cardinality(1..n) = n
    BY <2>1, FS_Interval
  <2> QED
    BY <2>2 DEF n
<1> QED
  BY <1>4, <1>5, <1>6, <1>7 DEF Stores

\* There is always room for one more store: one for each folder at most is in use,
\* and one for each other actor that waits is opening.
LEMMA FreeStore ==
    ASSUME LifeTypes, NEW a \in Openers, pc[a] # "awaiting"
    PROVE  NextStore \in Stores /\ store[NextStore].st \in {"unused", "failed"}
<1> DEFINE A == {s \in Stores : store[s].st \in InUse}
           B == {s \in Stores : store[s].st = "opening"}
           W == Openers \ {a}
<1>1. IsFiniteSet(A) /\ IsFiniteSet(B)
  BY OpenersFinite, FS_Subset
<1>2. /\ IsFiniteSet(W) /\ Cardinality(W) = Cardinality(Openers) - 1
  BY OpenersFinite, FS_RemoveElement
<1>3. Cardinality(A) \in Nat /\ Cardinality(B) \in Nat /\ Cardinality(W) \in Nat
  BY <1>1, <1>2, FS_CardinalityType
<1>4. ASSUME Cardinality(Folders) < Cardinality(A)
      PROVE  FALSE
  <2> DEFINE folderOf == [s \in A |-> store[s].folder]
  <2>1. folderOf \in [A -> Folders]
    BY DEF LifeTypes, Types
  <2>2. \A s \in A : folderOf[s] = store[s].folder
    OBVIOUS
  <2>3. \A s \in A : s \in Stores /\ store[s].st \in InUse
    OBVIOUS
  <2> HIDE DEF folderOf, A
  <2>4. PICK s \in A, t \in A : s # t /\ folderOf[s] = folderOf[t]
    BY <1>1, <1>4, <2>1, OpenersFinite, FS_PigeonHole
  <2> QED
    BY <2>2, <2>3, <2>4 DEF LifeTypes, OnePerFolder
<1>5. ASSUME Cardinality(W) < Cardinality(B)
      PROVE  FALSE
  <2> DEFINE waiter == [s \in B |-> CHOOSE b \in Actors : pc[b] = "awaiting" /\ held[b] = s]
  <2>1. \A s \in B : waiter[s] \in Actors /\ pc[waiter[s]] = "awaiting" /\ held[waiter[s]] = s
    BY DEF LifeTypes, Room
  <2>2. \A b \in Actors : pc[b] = "awaiting" => b \in W
    BY Names DEF LifeTypes, Labels, ShutdownLabels, Openers
  <2>3. waiter = [s \in B |-> waiter[s]]
    OBVIOUS
  <2> HIDE DEF waiter, B, W
  <2>4. waiter \in [B -> W]
    BY <2>1, <2>2, <2>3
  <2>5. PICK s \in B, t \in B : s # t /\ waiter[s] = waiter[t]
    BY <1>1, <1>2, <1>5, <2>4, FS_PigeonHole
  <2> QED
    BY <2>1, <2>5
<1>6. Cardinality(A \union B) \in Nat /\ Cardinality(A \union B) <= Cardinality(A) + Cardinality(B)
  <2>1. IsFiniteSet(A \union B) /\ IsFiniteSet(A \intersect B)
    BY <1>1, FS_Union, FS_Subset
  <2>2. Cardinality(A \union B) = Cardinality(A) + Cardinality(B) - Cardinality(A \intersect B)
    BY <1>1, FS_Union
  <2>3. Cardinality(A \union B) \in Nat /\ Cardinality(A \intersect B) \in Nat
    BY <2>1, FS_CardinalityType
  <2> HIDE DEF A, B
  <2> QED
    BY <1>3, <2>2, <2>3
<1>7. ASSUME \A s \in Stores : store[s].st \notin {"unused", "failed"}
      PROVE  FALSE
  <2>1. Stores = A \union B
    BY <1>7 DEF LifeTypes, Types, StoreStates, InUse
  <2> HIDE DEF A, B, W
  <2> QED
    BY <1>2, <1>3, <1>4, <1>5, <1>6, <2>1, OpenersFinite
<1> QED
  BY <1>7 DEF NextStore

\* A store that opens is the one awaited; no other one could become the context.
LEMMA OpenedStep ==
    ASSUME Undisturbed, NEW s \in Stores, Opened(s)
    PROVE  Undisturbed'
<1> USE Names, NoStoreIsNone
<1>1. s = opening /\ opening' = NoStore /\ opening # NoStore
  BY DEF Undisturbed, Types, Opening, Opened
<1>2. store' = [store EXCEPT ![s].st = "open"] \/ store' = [store EXCEPT ![s].st = "failed"]
  BY DEF Opened
<1>3. store' \in [Stores -> [folder : Folders, lent : BOOLEAN, st : StoreStates]]
  <2>1. "open" \in StoreStates /\ "failed" \in StoreStates /\ Types
    BY DEF StoreStates, Undisturbed
  <2>2. CASE store' = [store EXCEPT ![s].st = "open"]
    BY <2>1, <2>2, StateChanges
  <2>3. CASE store' = [store EXCEPT ![s].st = "failed"]
    BY <2>1, <2>3, StateChanges
  <2> QED
    BY <1>2, <2>2, <2>3
<1>4. Types'
  BY <1>1, <1>2, <1>3 DEF Opened, Undisturbed, Types, StoreStates
<1>5. Labels'
  BY <1>1, <1>2, <1>3 DEF Opened, Undisturbed, Labels, Types, UserLabels, SwitchLabels, OperationLabels,
     ShutdownLabels
<1>6. Tracked'
  BY <1>1, <1>2, <1>3 DEF Opened, Undisturbed, Tracked, Types, Over
<1>7. Alone'
  BY <1>1, <1>2, <1>3 DEF Opened, Undisturbed, Alone, Types, Over
<1>8. Left'
  BY <1>1, <1>2, <1>3 DEF Opened, Undisturbed, Left, Types, Over
<1>9. Opening'
  BY <1>1, <1>2, <1>3 DEF Opened, Undisturbed, Opening, Types
<1>10. Emptied'
  BY <1>1, <1>2, <1>3 DEF Opened, Undisturbed, Emptied, Types, Over
<1>11. Awaits'
  BY <1>1, <1>2, <1>3 DEF Opened, Undisturbed, Types, Labels, Tracked, Alone, Left, Opening, Emptied,
     Awaits, Uses, ContextOpen, OnePerFolder, SameFolder, OfFolder, OpenIsContext, StoreStates, InUse
<1>12. Uses'
  BY <1>1, <1>2, <1>3 DEF Opened, Undisturbed, Types, Labels, Tracked, Alone, Left, Opening, Emptied,
     Awaits, Uses, ContextOpen, OnePerFolder, SameFolder, OfFolder, OpenIsContext, StoreStates, InUse
<1>13. ContextOpen'
  BY <1>1, <1>2, <1>3 DEF Opened, Undisturbed, ContextOpen, Types
<1>14. OnePerFolder'
  BY <1>1, <1>2, <1>3 DEF Opened, Undisturbed, Types, Labels, OnePerFolder, Over, InUse, Opening, Left
<1>15. SameFolder'
  BY <1>1, <1>2, <1>3 DEF Opened, Undisturbed, SameFolder, Types
<1>16. OfFolder'
  BY <1>1, <1>2, <1>3 DEF Opened, Undisturbed, OfFolder, Types
<1>17. OpenIsContext'
  BY <1>1, <1>2, <1>3 DEF Opened, Undisturbed, Types, Labels, Tracked, Alone, Left, Opening, Emptied,
     Awaits, Uses, ContextOpen, OnePerFolder, SameFolder, OfFolder, OpenIsContext, StoreStates, InUse
<1> QED
  BY <1>4, <1>5, <1>6, <1>7, <1>8, <1>9, <1>10, <1>11, <1>12, <1>13, <1>14, <1>15, <1>16, <1>17
     DEF Undisturbed

\* A store that closes is not the context but at the end.
LEMMA ClosedStep ==
    ASSUME Undisturbed, NEW s \in Stores, Closed(s)
    PROVE  Undisturbed'
<1> USE Names, NoStoreIsNone
<1>1. Types'
  BY DEF Closed, Gone, AnyFolder, Undisturbed, Types, StoreStates, UserLabels, SwitchLabels,
     OperationLabels, ShutdownLabels
<1>2. Labels'
  BY DEF Closed, Gone, AnyFolder, Undisturbed, Labels, Types, UserLabels, SwitchLabels, OperationLabels,
     ShutdownLabels
<1>3. Tracked'
  BY DEF Closed, Gone, AnyFolder, Undisturbed, Tracked, Types, Over
<1>4. Alone'
  BY DEF Closed, Gone, AnyFolder, Undisturbed, Alone, Types, Over
<1>5. Left'
  BY DEF Closed, Gone, AnyFolder, Undisturbed, Left, Types, Over
<1>6. Opening'
  BY DEF Closed, Gone, AnyFolder, Undisturbed, Opening, Types
<1>7. Emptied'
  BY DEF Closed, Gone, AnyFolder, Undisturbed, Emptied, Types, Over
<1>8. Awaits'
  BY DEF Closed, Gone, AnyFolder, Undisturbed, Awaits, Types
<1>9. Uses'
  BY DEF Closed, Gone, AnyFolder, Undisturbed, Uses, Types
<1>10. ContextOpen'
  BY DEF Closed, Gone, AnyFolder, Undisturbed, ContextOpen, Types
<1>11. OnePerFolder'
  BY DEF Closed, Gone, AnyFolder, UserLabels, Undisturbed, Types, Labels, OnePerFolder, Over, InUse,
     Opening, Left
<1>12. SameFolder'
  BY DEF Closed, Gone, AnyFolder, UserLabels, Undisturbed, Types, Labels, Opening, Left, ContextOpen,
     SameFolder, OpenIsContext, Tracked, Alone, Over
<1>13. OfFolder'
  BY DEF Closed, Gone, AnyFolder, Undisturbed, OfFolder, Types
<1>14. OpenIsContext'
  BY DEF Closed, Gone, AnyFolder, Undisturbed, OpenIsContext, Types
<1> QED
  BY <1>1, <1>2, <1>3, <1>4, <1>5, <1>6, <1>7, <1>8, <1>9, <1>10, <1>11, <1>12, <1>13, <1>14
     DEF Undisturbed

\* A request begins.
LEMMA StartReadStep ==
    ASSUME Undisturbed, NEW a \in Users, StartRead(a), ~overlapped'
    PROVE  Undisturbed'
<1> USE Names, NoStoreIsNone
<1>1. a \in Reads => a \notin Replacers \union Drafts
  BY DEF Undisturbed, Replacers
<1>2. a \notin Replacers
  BY DEF Replacers
<1>3. \A b \in Replacers \union Drafts : b # a => pc'[b] = pc[b]
  BY DEF StartRead, Ensure, Goto, Undisturbed, Types, Replacers, Actors, Users
<1>4. a \in Drafts => \A b \in Replacers : pc[b] \in Over
  BY DEF Undisturbed, StartRead, Running, Over, Replacers
<1>5. \A b \in Replacers : pc[b] # "settle"
  BY DEF Undisturbed, StartRead, Quiet, Emptied, OpeningSettled, At, StoresIn
<1>6. Types'
  BY <1>1, <1>2, <1>3, <1>4, <1>5 DEF StartRead, Ensure, At, Goto, Undisturbed, Types, StoreStates,
     UserLabels, SwitchLabels, OperationLabels, ShutdownLabels
<1>7. Labels'
  BY <1>1, <1>2, <1>3, <1>4, <1>5 DEF StartRead, Ensure, At, Goto, Undisturbed, Labels, Types,
     UserLabels, SwitchLabels, OperationLabels, ShutdownLabels
<1>8. Tracked'
  BY <1>1, <1>2, <1>3, <1>4, <1>5 DEF StartRead, Ensure, At, Goto, Undisturbed, Tracked, Types, Over
<1>9. Alone'
  BY <1>1, <1>2, <1>3, <1>4, <1>5 DEF Undisturbed, Alone
<1>10. Left'
  BY <1>1, <1>2, <1>3, <1>4, <1>5 DEF StartRead, Ensure, At, Goto, Undisturbed, Left, Types, Over
<1>11. Opening'
  BY <1>1, <1>2, <1>3, <1>4, <1>5 DEF StartRead, Ensure, At, Goto, Undisturbed, Opening, Types
<1>12. Emptied'
  BY <1>1, <1>2, <1>3, <1>4, <1>5 DEF StartRead, Ensure, At, Goto, Undisturbed, Emptied, Types, Over
<1>13. Awaits'
  BY <1>1, <1>2, <1>3, <1>4, <1>5 DEF StartRead, Ensure, At, Goto, Undisturbed, Awaits, Types
<1>14. Uses'
  BY <1>1, <1>2, <1>3, <1>4, <1>5 DEF StartRead, Ensure, At, Goto, Undisturbed, Uses, Types
<1>15. ContextOpen'
  BY <1>1, <1>2, <1>3, <1>4, <1>5 DEF StartRead, Ensure, At, Goto, Undisturbed, ContextOpen, Types
<1>16. OnePerFolder'
  BY <1>1, <1>2, <1>3, <1>4, <1>5 DEF StartRead, Ensure, At, Goto, Undisturbed, OnePerFolder, Types
<1>17. SameFolder'
  BY <1>1, <1>2, <1>3, <1>4, <1>5 DEF StartRead, Ensure, At, Goto, Undisturbed, SameFolder, Types
<1>18. OfFolder'
  BY <1>1, <1>2, <1>3, <1>4, <1>5 DEF StartRead, Ensure, At, Goto, Undisturbed, OfFolder, Types
<1>19. OpenIsContext'
  BY <1>1, <1>2, <1>3, <1>4, <1>5 DEF StartRead, Ensure, At, Goto, Undisturbed, OpenIsContext, Types
<1> QED
  BY <1>6, <1>7, <1>8, <1>9, <1>10, <1>11, <1>12, <1>13, <1>14, <1>15, <1>16, <1>17, <1>18, <1>19
     DEF Undisturbed

\* While the interface is left, no store is opened.
LEMMA RefusedStep ==
    ASSUME Undisturbed, NEW a \in Actors, NEW f \in Folders, OpenFresh(a, f), stopping,
           a # "shutdown", pc[a] \in {"factory", "close"},
           UNCHANGED <<context, ownsContext, cwd, cancelled, stopping, exited, want, overlapped>>
    PROVE  Undisturbed'
<1> USE Names, NoStoreIsNone
<1>1. requests' = requests \ {a} /\ opening' = opening /\ held' = held
  BY DEF OpenFresh, Settle
<1>2. pc' = [pc EXCEPT ![a] = "done"]
  BY DEF OpenFresh, Settle, Goto
<1>3. Types'
  BY <1>1, <1>2 DEF OpenFresh, Settle, Goto, Undisturbed, Types, UserLabels
<1>4. Labels'
  BY <1>1, <1>2 DEF OpenFresh, Settle, Goto, Undisturbed, Labels, Types, UserLabels, SwitchLabels,
     OperationLabels, ShutdownLabels
<1>5. Tracked'
  BY <1>1, <1>2 DEF OpenFresh, Settle, Goto, Undisturbed, Tracked, Types, Over
<1>6. Alone'
  BY <1>1, <1>2 DEF OpenFresh, Settle, Goto, Undisturbed, Alone, Types, Over
<1>7. Left'
  BY <1>1, <1>2 DEF Undisturbed, Types, Left, Over
<1>8. Opening'
  BY <1>1, <1>2 DEF OpenFresh, Settle, Goto, Undisturbed, Opening, Types
<1>9. Emptied'
  BY <1>1, <1>2 DEF OpenFresh, Settle, Goto, Undisturbed, Emptied, Types, Over
<1>10. Awaits'
  BY <1>1, <1>2 DEF OpenFresh, Settle, Goto, Undisturbed, Awaits, Types
<1>11. Uses'
  BY <1>1, <1>2 DEF OpenFresh, Settle, Goto, Undisturbed, Uses, Types
<1>12. ContextOpen'
  BY <1>1, <1>2 DEF OpenFresh, Settle, Goto, Undisturbed, ContextOpen, Types
<1>13. OnePerFolder'
  BY <1>1, <1>2 DEF OpenFresh, Settle, Goto, Undisturbed, OnePerFolder, Types
<1>14. SameFolder'
  BY <1>1, <1>2 DEF OpenFresh, Settle, Goto, Undisturbed, SameFolder, Types
<1>15. OfFolder'
  BY <1>1, <1>2 DEF OpenFresh, Settle, Goto, Undisturbed, OfFolder, Types
<1>16. OpenIsContext'
  BY <1>1, <1>2 DEF OpenFresh, Settle, Goto, Undisturbed, OpenIsContext, Types
<1> QED
  BY <1>3, <1>4, <1>5, <1>6, <1>7, <1>8, <1>9, <1>10, <1>11, <1>12, <1>13, <1>14, <1>15, <1>16
     DEF Undisturbed

\* The opening under way is awaited.
LEMMA JoinedStep ==
    ASSUME Undisturbed, NEW a \in Actors, NEW f \in Folders, OpenFresh(a, f), ~stopping, opening # NoStore,
           a # "shutdown", pc[a] \in {"factory", "close"},
           UNCHANGED <<context, ownsContext, cwd, cancelled, stopping, exited, want, overlapped>>
    PROVE  Undisturbed'
<1> USE Names, NoStoreIsNone
<1>1. opening' = opening /\ store' = store /\ requests' = requests
  BY DEF OpenFresh
<1>2. pc' = [pc EXCEPT ![a] = "awaiting"] /\ held' = [held EXCEPT ![a] = opening]
  BY DEF OpenFresh, Goto
<1>3. Types'
  BY <1>1, <1>2 DEF Undisturbed, Types, StoreStates, UserLabels, SwitchLabels, OperationLabels,
     ShutdownLabels
<1>4. Labels'
  BY <1>1, <1>2 DEF Undisturbed, Labels, Types, UserLabels, SwitchLabels, OperationLabels,
     ShutdownLabels
<1>5. Tracked'
  BY <1>1, <1>2 DEF Undisturbed, Tracked, Types, Over
<1>6. Alone'
  BY <1>1, <1>2 DEF Undisturbed, Alone, Types, Over
<1>7. Left'
  BY <1>1, <1>2 DEF Undisturbed, Left, Types, Over
<1>8. Opening'
  BY <1>1, <1>2 DEF Undisturbed, Opening, Types
<1>9. Emptied'
  BY <1>1, <1>2 DEF Undisturbed, Emptied, Types, Over
<1>10. Awaits'
  BY <1>1, <1>2 DEF UserLabels, SwitchLabels, OperationLabels, Over, Undisturbed, Types, Labels, Awaits,
     Opening, Left
<1>11. Uses'
  BY <1>1, <1>2 DEF Undisturbed, Uses, Types
<1>12. ContextOpen'
  BY <1>1, <1>2 DEF Undisturbed, ContextOpen, Types
<1>13. OnePerFolder'
  BY <1>1, <1>2 DEF Undisturbed, OnePerFolder, Types
<1>14. SameFolder'
  BY <1>1, <1>2 DEF Undisturbed, SameFolder, Types
<1>15. OfFolder'
  BY <1>1, <1>2 DEF Undisturbed, OfFolder, Types
<1>16. OpenIsContext'
  BY <1>1, <1>2 DEF Undisturbed, OpenIsContext, Types
<1> QED
  BY <1>3, <1>4, <1>5, <1>6, <1>7, <1>8, <1>9, <1>10, <1>11, <1>12, <1>13, <1>14, <1>15, <1>16
     DEF Undisturbed

\* A store is opened: the context is not there, or it is of the folder.
LEMMA FreshStep ==
    ASSUME Undisturbed, NEW a \in Actors, OpenFresh(a, cwd), ~stopping, opening = NoStore,
           a # "shutdown", pc[a] \in {"factory", "close"},
           context # NoStore => store[context].folder = cwd,
           UNCHANGED <<context, ownsContext, cwd, cancelled, stopping, exited, want, overlapped>>
    PROVE  Undisturbed'
<1> USE Names, NoStoreIsNone
<1>1. NextStore \in Stores /\ store[NextStore].st \in {"unused", "failed"}
  <2>1. LifeTypes
    BY DEF Undisturbed, Tracked, Opening, Room, LifeTypes
  <2>2. a \in Openers
    BY DEF Actors, Openers
  <2> QED
    BY <2>1, <2>2, FreeStore
<1>2. opening' = NextStore /\ requests' = requests /\ NextStore # NoStore
  BY <1>1 DEF OpenFresh
<1>3. pc' = [pc EXCEPT ![a] = "awaiting"] /\ held' = [held EXCEPT ![a] = NextStore]
  BY DEF OpenFresh, Goto
<1>4. store[NextStore] \in [folder : Folders, lent : BOOLEAN, st : StoreStates]
  BY <1>1 DEF Undisturbed, Types
<1>5. store' = [store EXCEPT ![NextStore] = [[store[NextStore] EXCEPT !.folder = cwd] EXCEPT !.st = "opening"]]
  BY <1>1 DEF OpenFresh
<1>6. /\ store'[NextStore] \in [folder : Folders, lent : BOOLEAN, st : StoreStates]
      /\ store'[NextStore].folder = cwd /\ store'[NextStore].st = "opening"
  <2>1. store'[NextStore] = [[store[NextStore] EXCEPT !.folder = cwd] EXCEPT !.st = "opening"] /\ cwd \in Folders
    BY <1>1, <1>5 DEF Undisturbed, Types
  <2> QED
    BY <1>4, <2>1, Reopened
<1>7. \A s \in Stores : s # NextStore => store'[s] = store[s]
  BY <1>5 DEF Undisturbed, Types
<1>8. store' \in [Stores -> [folder : Folders, lent : BOOLEAN, st : StoreStates]]
  BY <1>1, <1>5, <1>6 DEF Undisturbed, Types
<1>9. NextStore # context \/ context = NoStore
  BY <1>1 DEF Undisturbed, ContextOpen, Left, Types
<1>10. Types'
  BY <1>1, <1>2, <1>3, <1>4, <1>5, <1>6, <1>7, <1>8, <1>9 DEF Undisturbed, Types, UserLabels,
     StoreStates
<1>11. Labels'
  BY <1>1, <1>2, <1>3, <1>4, <1>5, <1>6, <1>7, <1>8, <1>9 DEF Undisturbed, Labels, Types, UserLabels,
     SwitchLabels, OperationLabels, ShutdownLabels
<1>12. Tracked'
  BY <1>1, <1>2, <1>3, <1>4, <1>5, <1>6, <1>7, <1>8, <1>9 DEF Undisturbed, Tracked, Types, Over
<1>13. Alone'
  BY <1>1, <1>2, <1>3, <1>4, <1>5, <1>6, <1>7, <1>8, <1>9 DEF Undisturbed, Alone, Types, Over
<1>14. Left'
  BY <1>1, <1>2, <1>3, <1>4, <1>5, <1>6, <1>7, <1>8, <1>9 DEF Undisturbed, Left, Types, Over
<1>15. Opening'
  BY <1>1, <1>2, <1>3, <1>4, <1>5, <1>6, <1>7, <1>8, <1>9 DEF Undisturbed, Opening, Types
<1>16. Emptied'
  BY <1>1, <1>2, <1>3, <1>4, <1>5, <1>6, <1>7, <1>8, <1>9 DEF UserLabels, SwitchLabels, OperationLabels,
     Over, Undisturbed, Types, Labels, Opening, Left, ContextOpen, SameFolder, OpenIsContext, Tracked,
     Alone, Emptied
<1>17. Awaits'
  BY <1>1, <1>2, <1>3, <1>4, <1>5, <1>6, <1>7, <1>8, <1>9 DEF Undisturbed, Awaits, Types
<1>18. Uses'
  BY <1>1, <1>2, <1>3, <1>4, <1>5, <1>6, <1>7, <1>8, <1>9 DEF Undisturbed, Uses, Types
<1>19. ContextOpen'
  BY <1>1, <1>2, <1>3, <1>4, <1>5, <1>6, <1>7, <1>8, <1>9 DEF Undisturbed, ContextOpen, Types
<1>20. OnePerFolder'
  BY <1>1, <1>2, <1>3, <1>4, <1>5, <1>6, <1>7, <1>8, <1>9 DEF UserLabels, SwitchLabels, OperationLabels,
     Over, Undisturbed, Types, Labels, OnePerFolder, InUse, Opening, Left
<1>21. SameFolder'
  BY <1>1, <1>2, <1>3, <1>4, <1>5, <1>6, <1>7, <1>8, <1>9 DEF Undisturbed, SameFolder, Types
<1>22. OfFolder'
  BY <1>1, <1>2, <1>3, <1>4, <1>5, <1>6, <1>7, <1>8, <1>9 DEF Undisturbed, OfFolder, Types
<1>23. OpenIsContext'
  BY <1>1, <1>2, <1>3, <1>4, <1>5, <1>6, <1>7, <1>8, <1>9 DEF Undisturbed, OpenIsContext, Types
<1> QED
  BY <1>10, <1>11, <1>12, <1>13, <1>14, <1>15, <1>16, <1>17, <1>18, <1>19, <1>20, <1>21, <1>22, <1>23
     DEF Undisturbed

\* The context that is there is used.
LEMMA UseContextStep ==
    ASSUME Undisturbed, NEW a \in Actors, Join(a), context # NoStore
    PROVE  Undisturbed'
<1> USE Names, NoStoreIsNone
<1>1. a \in Users \union {"operation"}
  BY DEF Undisturbed, Labels, Join, At, SwitchLabels, ShutdownLabels
<1>2. Types'
  BY <1>1 DEF Join, At, Goto, Undisturbed, Types, StoreStates, UserLabels, SwitchLabels,
     OperationLabels, ShutdownLabels
<1>3. Labels'
  BY <1>1 DEF Join, At, Goto, Undisturbed, Labels, Types, UserLabels, SwitchLabels, OperationLabels,
     ShutdownLabels
<1>4. Tracked'
  BY <1>1 DEF Join, At, Goto, Undisturbed, Tracked, Types, Over
<1>5. Alone'
  BY <1>1 DEF Join, At, Goto, Undisturbed, Alone, Types, Over
<1>6. Left'
  BY <1>1 DEF Join, At, Goto, Undisturbed, Left, Types, Over
<1>7. Opening'
  BY <1>1 DEF Join, At, Goto, Undisturbed, Opening, Types
<1>8. Emptied'
  BY <1>1 DEF Join, At, Goto, Undisturbed, Emptied, Types, Over
<1>9. Awaits'
  BY <1>1 DEF Join, At, Goto, Undisturbed, Awaits, Types
<1>10. Uses'
  BY <1>1 DEF Join, At, Goto, Undisturbed, Uses, Types
<1>11. ContextOpen'
  BY <1>1 DEF Join, At, Goto, Undisturbed, ContextOpen, Types
<1>12. OnePerFolder'
  BY <1>1 DEF Join, At, Goto, Undisturbed, OnePerFolder, Types
<1>13. SameFolder'
  BY <1>1 DEF Join, At, Goto, Undisturbed, SameFolder, Types
<1>14. OfFolder'
  BY <1>1 DEF Join, At, Goto, Undisturbed, OfFolder, Types
<1>15. OpenIsContext'
  BY <1>1 DEF Join, At, Goto, Undisturbed, OpenIsContext, Types
<1> QED
  BY <1>2, <1>3, <1>4, <1>5, <1>6, <1>7, <1>8, <1>9, <1>10, <1>11, <1>12, <1>13, <1>14, <1>15
     DEF Undisturbed

\* Who waited goes on.
LEMMA WokenStep ==
    ASSUME Undisturbed, NEW a \in Actors, Woken(a)
    PROVE  Undisturbed'
<1> USE Names, NoStoreIsNone
<1>1. Types'
  BY DEF Woken, Awaited, StoresIn, Settle, At, Goto, Undisturbed, Types, StoreStates, UserLabels,
     SwitchLabels, OperationLabels, ShutdownLabels
<1>2. Labels'
  BY DEF Woken, Awaited, StoresIn, Settle, At, Goto, Undisturbed, Labels, Types, UserLabels,
     SwitchLabels, OperationLabels, ShutdownLabels
<1>3. Tracked'
  BY DEF Woken, Awaited, StoresIn, Settle, At, Goto, Undisturbed, Tracked, Types, Over
<1>4. Alone'
  BY DEF Woken, Awaited, StoresIn, Settle, At, Goto, Undisturbed, Alone, Types, Over
<1>5. Left'
  BY DEF Woken, Awaited, StoresIn, Settle, At, Goto, UserLabels, SwitchLabels, OperationLabels,
     ShutdownLabels, Over, Undisturbed, Types, Labels, Left
<1>6. Opening'
  BY DEF Woken, Awaited, StoresIn, Settle, At, Goto, Undisturbed, Opening, Types
<1>7. Emptied'
  BY DEF Woken, Awaited, StoresIn, Settle, At, Goto, Undisturbed, Emptied, Types, Over
<1>8. Awaits'
  BY DEF Woken, Awaited, StoresIn, Settle, At, Goto, Undisturbed, Awaits, Types
<1>9. Uses'
  BY DEF Woken, Awaited, StoresIn, Settle, At, Goto, UserLabels, SwitchLabels, OperationLabels,
     ShutdownLabels, Over, Undisturbed, Types, Labels, Tracked, Alone, Left, Opening, Emptied, Awaits,
     Uses, ContextOpen, OnePerFolder, SameFolder, OfFolder, OpenIsContext, StoreStates, InUse
<1>10. ContextOpen'
  BY DEF Woken, Awaited, StoresIn, Settle, At, Goto, Undisturbed, ContextOpen, Types
<1>11. OnePerFolder'
  BY DEF Woken, Awaited, StoresIn, Settle, At, Goto, Undisturbed, OnePerFolder, Types
<1>12. SameFolder'
  BY DEF Woken, Awaited, StoresIn, Settle, At, Goto, Undisturbed, SameFolder, Types
<1>13. OfFolder'
  BY DEF Woken, Awaited, StoresIn, Settle, At, Goto, Undisturbed, OfFolder, Types
<1>14. OpenIsContext'
  BY DEF Woken, Awaited, StoresIn, Settle, At, Goto, UserLabels, SwitchLabels, OperationLabels,
     ShutdownLabels, Over, Undisturbed, Types, Labels, OpenIsContext, Opening, Left
<1> QED
  BY <1>1, <1>2, <1>3, <1>4, <1>5, <1>6, <1>7, <1>8, <1>9, <1>10, <1>11, <1>12, <1>13, <1>14
     DEF Undisturbed

\* A request is answered.
LEMMA AnsweredStep ==
    ASSUME Undisturbed, NEW a \in Actors, Answered(a)
    PROVE  Undisturbed'
<1> USE Names, NoStoreIsNone
<1>1. Types'
  BY DEF Answered, Settle, At, Goto, Undisturbed, Types, StoreStates, UserLabels, SwitchLabels,
     OperationLabels, ShutdownLabels
<1>2. Labels'
  BY DEF Answered, Settle, At, Goto, Undisturbed, Labels, Types, UserLabels, SwitchLabels,
     OperationLabels, ShutdownLabels
<1>3. Tracked'
  BY DEF Answered, Settle, At, Goto, Undisturbed, Tracked, Types, Over
<1>4. Alone'
  BY DEF Answered, Settle, At, Goto, Undisturbed, Alone, Types, Over
<1>5. Left'
  BY DEF Answered, Settle, At, Goto, Undisturbed, Left, Types, Over
<1>6. Opening'
  BY DEF Answered, Settle, At, Goto, Undisturbed, Opening, Types
<1>7. Emptied'
  BY DEF Answered, Settle, At, Goto, Undisturbed, Emptied, Types, Over
<1>8. Awaits'
  BY DEF Answered, Settle, At, Goto, Undisturbed, Awaits, Types
<1>9. Uses'
  BY DEF Answered, Settle, At, Goto, Undisturbed, Uses, Types
<1>10. ContextOpen'
  BY DEF Answered, Settle, At, Goto, Undisturbed, ContextOpen, Types
<1>11. OnePerFolder'
  BY DEF Answered, Settle, At, Goto, Undisturbed, OnePerFolder, Types
<1>12. SameFolder'
  BY DEF Answered, Settle, At, Goto, Undisturbed, SameFolder, Types
<1>13. OfFolder'
  BY DEF Answered, Settle, At, Goto, Undisturbed, OfFolder, Types
<1>14. OpenIsContext'
  BY DEF Answered, Settle, At, Goto, Undisturbed, OpenIsContext, Types
<1> QED
  BY <1>1, <1>2, <1>3, <1>4, <1>5, <1>6, <1>7, <1>8, <1>9, <1>10, <1>11, <1>12, <1>13, <1>14
     DEF Undisturbed

\* A change of the folder begins.
LEMMA StartSwitchStep ==
    ASSUME Undisturbed, NEW a \in Switches, StartSwitch(a), ~overlapped'
    PROVE  Undisturbed'
<1> USE Names, NoStoreIsNone
<1>1. \A b \in Replacers \union Drafts : pc[b] \in Over
  BY DEF Undisturbed, StartSwitch, Running, OperationActive, Over, Replacers
<1>2. Types'
  BY <1>1 DEF StartSwitch, At, Goto, Undisturbed, Types, StoreStates, UserLabels, SwitchLabels,
     OperationLabels, ShutdownLabels
<1>3. Labels'
  BY <1>1 DEF StartSwitch, At, Goto, Undisturbed, Labels, Types, UserLabels, SwitchLabels,
     OperationLabels, ShutdownLabels
<1>4. Tracked'
  BY <1>1 DEF StartSwitch, At, Goto, Undisturbed, Tracked, Types, Over
<1>5. Alone'
  BY <1>1 DEF StartSwitch, At, Goto, Undisturbed, Alone, Types, Over
<1>6. Left'
  BY <1>1 DEF StartSwitch, At, Goto, Undisturbed, Left, Types, Over
<1>7. Opening'
  BY <1>1 DEF StartSwitch, At, Goto, Undisturbed, Opening, Types
<1>8. Emptied'
  BY <1>1 DEF StartSwitch, At, Goto, Undisturbed, Emptied, Types, Over
<1>9. Awaits'
  BY <1>1 DEF StartSwitch, At, Goto, Undisturbed, Awaits, Types
<1>10. Uses'
  BY <1>1 DEF StartSwitch, At, Goto, Undisturbed, Uses, Types
<1>11. ContextOpen'
  BY <1>1 DEF StartSwitch, At, Goto, Undisturbed, ContextOpen, Types
<1>12. OnePerFolder'
  BY <1>1 DEF StartSwitch, At, Goto, Undisturbed, OnePerFolder, Types
<1>13. SameFolder'
  BY <1>1 DEF StartSwitch, At, Goto, Undisturbed, SameFolder, Types
<1>14. OfFolder'
  BY <1>1 DEF StartSwitch, At, Goto, SwitchLabels, Over, Undisturbed, Types, Labels, OfFolder, Opening,
     Left
<1>15. OpenIsContext'
  BY <1>1 DEF StartSwitch, At, Goto, Undisturbed, OpenIsContext, Types
<1> QED
  BY <1>2, <1>3, <1>4, <1>5, <1>6, <1>7, <1>8, <1>9, <1>10, <1>11, <1>12, <1>13, <1>14, <1>15
     DEF Undisturbed

\* A replacer reads the folder.
LEMMA ReplaceStep ==
    ASSUME Undisturbed, NEW a \in Actors, Replace(a)
    PROVE  Undisturbed'
<1> USE Names, NoStoreIsNone
<1>1. a \in Replacers
  BY DEF Undisturbed, Labels, Replace, At, UserLabels, ShutdownLabels, Replacers
<1>2. a \notin Reads /\ requests' = requests /\ \A b \in Reads : pc'[b] = pc[b]
  BY <1>1 DEF Replace, Goto, Undisturbed, Types, Replacers, Actors, Users
<1>3. Types'
  BY <1>1, <1>2 DEF Replace, WaitsForOperation, At, Goto, Undisturbed, Types, StoreStates, UserLabels,
     SwitchLabels, OperationLabels, ShutdownLabels
<1>4. Labels'
  BY <1>1, <1>2 DEF Replace, WaitsForOperation, At, Goto, Undisturbed, Labels, Types, UserLabels,
     SwitchLabels, OperationLabels, ShutdownLabels
<1>5. Tracked'
  BY <1>1, <1>2 DEF Undisturbed, Tracked
<1>6. Alone'
  BY <1>1, <1>2 DEF Replace, WaitsForOperation, At, Goto, Undisturbed, Alone, Types, Over
<1>7. Left'
  BY <1>1, <1>2 DEF Replace, WaitsForOperation, At, Goto, Undisturbed, Left, Types, Over
<1>8. Opening'
  BY <1>1, <1>2 DEF Replace, WaitsForOperation, At, Goto, Undisturbed, Opening, Types
<1>9. Emptied'
  BY <1>1, <1>2 DEF Replace, WaitsForOperation, At, Goto, Undisturbed, Emptied, Types, Over
<1>10. Awaits'
  BY <1>1, <1>2 DEF Replace, WaitsForOperation, At, Goto, Undisturbed, Awaits, Types
<1>11. Uses'
  BY <1>1, <1>2 DEF Replace, WaitsForOperation, At, Goto, Undisturbed, Uses, Types
<1>12. ContextOpen'
  BY <1>1, <1>2 DEF Replace, WaitsForOperation, At, Goto, Undisturbed, ContextOpen, Types
<1>13. OnePerFolder'
  BY <1>1, <1>2 DEF Replace, WaitsForOperation, At, Goto, Undisturbed, OnePerFolder, Types
<1>14. SameFolder'
  BY <1>1, <1>2 DEF Replace, WaitsForOperation, At, Goto, Undisturbed, SameFolder, Types
<1>15. OfFolder'
  BY <1>1, <1>2 DEF Replace, WaitsForOperation, At, Goto, Undisturbed, OfFolder, Types
<1>16. OpenIsContext'
  BY <1>1, <1>2 DEF Replace, WaitsForOperation, At, Goto, Undisturbed, OpenIsContext, Types
<1> QED
  BY <1>3, <1>4, <1>5, <1>6, <1>7, <1>8, <1>9, <1>10, <1>11, <1>12, <1>13, <1>14, <1>15, <1>16
     DEF Undisturbed

\* The operation is over.
LEMMA AwaitOperationStep ==
    ASSUME Undisturbed, NEW a \in Actors, AwaitOperation(a)
    PROVE  Undisturbed'
<1> USE Names, NoStoreIsNone
<1>1. a \in Switches \union {"shutdown"}
  BY DEF Undisturbed, Labels, AwaitOperation, OperationOver, At, UserLabels, OperationLabels
<1>2. Types'
  BY <1>1 DEF AwaitOperation, OperationOver, OperationActive, At, Goto, Undisturbed, Types, StoreStates,
     UserLabels, SwitchLabels, OperationLabels, ShutdownLabels
<1>3. Labels'
  BY <1>1 DEF AwaitOperation, OperationOver, OperationActive, At, Goto, Undisturbed, Labels, Types,
     UserLabels, SwitchLabels, OperationLabels, ShutdownLabels
<1>4. Tracked'
  BY <1>1 DEF AwaitOperation, OperationOver, OperationActive, At, Goto, Undisturbed, Tracked, Types,
     Over
<1>5. Alone'
  BY <1>1 DEF AwaitOperation, OperationOver, OperationActive, At, Goto, Undisturbed, Alone, Types, Over
<1>6. Left'
  BY <1>1 DEF AwaitOperation, OperationOver, OperationActive, At, Goto, Undisturbed, Left, Types, Over
<1>7. Opening'
  BY <1>1 DEF AwaitOperation, OperationOver, OperationActive, At, Goto, Undisturbed, Opening, Types
<1>8. Emptied'
  BY <1>1 DEF AwaitOperation, OperationOver, OperationActive, At, Goto, Undisturbed, Emptied, Types,
     Over
<1>9. Awaits'
  BY <1>1 DEF AwaitOperation, OperationOver, OperationActive, At, Goto, Undisturbed, Awaits, Types
<1>10. Uses'
  BY <1>1 DEF AwaitOperation, OperationOver, OperationActive, At, Goto, Undisturbed, Uses, Types
<1>11. ContextOpen'
  BY <1>1 DEF AwaitOperation, OperationOver, OperationActive, At, Goto, Undisturbed, ContextOpen, Types
<1>12. OnePerFolder'
  BY <1>1 DEF AwaitOperation, OperationOver, OperationActive, At, Goto, Undisturbed, OnePerFolder, Types
<1>13. SameFolder'
  BY <1>1 DEF AwaitOperation, OperationOver, OperationActive, At, Goto, Undisturbed, SameFolder, Types
<1>14. OfFolder'
  BY <1>1 DEF AwaitOperation, OperationOver, OperationActive, At, Goto, Undisturbed, OfFolder, Types
<1>15. OpenIsContext'
  BY <1>1 DEF AwaitOperation, OperationOver, OperationActive, At, Goto, Undisturbed, OpenIsContext,
     Types
<1> QED
  BY <1>2, <1>3, <1>4, <1>5, <1>6, <1>7, <1>8, <1>9, <1>10, <1>11, <1>12, <1>13, <1>14, <1>15
     DEF Undisturbed

\* No request is left: nothing is opening, either.
LEMMA DrainStep ==
    ASSUME Undisturbed, NEW a \in Actors, Drain(a)
    PROVE  Undisturbed'
<1> USE Names, NoStoreIsNone
<1>1. a \in Replacers \union {"shutdown"}
  BY DEF Undisturbed, Labels, Drain, Drained, At, UserLabels, Replacers
<1>2. a \in Replacers => opening = NoStore
  BY DEF Undisturbed, Types, Labels, Drain, Drained, At, Over, Opening, Tracked, Alone, ShutdownLabels,
     Left
<1>3. Types'
  BY <1>1, <1>2 DEF Drain, Drained, At, Goto, Undisturbed, Types, StoreStates, UserLabels, SwitchLabels,
     OperationLabels, ShutdownLabels
<1>4. Labels'
  BY <1>1, <1>2 DEF Drain, Drained, At, Goto, Undisturbed, Labels, Types, UserLabels, SwitchLabels,
     OperationLabels, ShutdownLabels
<1>5. Tracked'
  BY <1>1, <1>2 DEF Drain, Drained, At, Goto, Undisturbed, Tracked, Types, Over
<1>6. Alone'
  BY <1>1, <1>2 DEF Drain, Drained, At, Goto, Undisturbed, Alone, Types, Over
<1>7. Left'
  BY <1>1, <1>2 DEF Drain, Drained, At, Goto, Undisturbed, Left, Types, Over
<1>8. Opening'
  BY <1>1, <1>2 DEF Drain, Drained, At, Goto, Undisturbed, Opening, Types
<1>9. Emptied'
  BY <1>1, <1>2 DEF Drain, Drained, At, Goto, Undisturbed, Emptied, Types, Over
<1>10. Awaits'
  BY <1>1, <1>2 DEF Drain, Drained, At, Goto, Undisturbed, Awaits, Types
<1>11. Uses'
  BY <1>1, <1>2 DEF Drain, Drained, At, Goto, Undisturbed, Uses, Types
<1>12. ContextOpen'
  BY <1>1, <1>2 DEF Drain, Drained, At, Goto, Undisturbed, ContextOpen, Types
<1>13. OnePerFolder'
  BY <1>1, <1>2 DEF Drain, Drained, At, Goto, Undisturbed, OnePerFolder, Types
<1>14. SameFolder'
  BY <1>1, <1>2 DEF Drain, Drained, At, Goto, Undisturbed, SameFolder, Types
<1>15. OfFolder'
  BY <1>1, <1>2 DEF Drain, Drained, At, Goto, Undisturbed, OfFolder, Types
<1>16. OpenIsContext'
  BY <1>1, <1>2 DEF Drain, Drained, At, Goto, Undisturbed, OpenIsContext, Types
<1> QED
  BY <1>3, <1>4, <1>5, <1>6, <1>7, <1>8, <1>9, <1>10, <1>11, <1>12, <1>13, <1>14, <1>15, <1>16
     DEF Undisturbed

\* The context is given up and closed.
LEMMA TakePreviousStep ==
    ASSUME Undisturbed, NEW a \in Actors, TakePrevious(a)
    PROVE  Undisturbed'
<1> USE Names, NoStoreIsNone
<1>1. a \in Replacers /\ pc[a] = "settle"
  BY DEF Undisturbed, Labels, TakePrevious, OpeningSettled, At, UserLabels, Replacers
<1>2. \A b \in Reads : pc[b] \in Over
  BY <1>1 DEF Undisturbed, Emptied, Tracked
<1>3. \A b \in Replacers \union Drafts : b # a => pc[b] \in Over
  BY <1>1 DEF Undisturbed, Alone, Over
<1>4. store' \in [Stores -> [folder : Folders, lent : BOOLEAN, st : StoreStates]]
  BY CloseChanges DEF TakePrevious, Undisturbed, Types
<1>5. pc' \in [Actors -> UserLabels \union SwitchLabels]
  BY DEF TakePrevious, Goto, Undisturbed, Types, UserLabels, SwitchLabels
<1>6. held' \in [Actors -> Stores \union {NoStore}]
  BY DEF TakePrevious, Undisturbed, Types
<1>7. Types'
  BY <1>1, <1>2, <1>3, <1>4, <1>5, <1>6 DEF TakePrevious, Undisturbed, Types
<1>8. Labels'
  BY <1>1, <1>2, <1>3, <1>4, <1>5, <1>6 DEF TakePrevious, Close, At, Goto, Undisturbed, Labels, Types,
     UserLabels, SwitchLabels, OperationLabels, ShutdownLabels
<1>9. Tracked'
  BY <1>1, <1>2, <1>3, <1>4, <1>5, <1>6 DEF TakePrevious, Close, At, Goto, Undisturbed, Tracked, Types,
     Over
<1>10. Alone'
  BY <1>1, <1>2, <1>3, <1>4, <1>5, <1>6 DEF TakePrevious, Close, At, Goto, Undisturbed, Alone, Types,
     Over
<1>11. Left'
  BY <1>1, <1>2, <1>3, <1>4, <1>5, <1>6 DEF TakePrevious, Close, At, Goto, Undisturbed, Left, Types,
     Over
<1>12. Opening'
  BY <1>1, <1>2, <1>3, <1>4, <1>5, <1>6 DEF TakePrevious, Close, At, Goto, SwitchLabels,
     OperationLabels, Over, Undisturbed, Types, Labels, Tracked, Alone, Left, Opening, Emptied, Awaits,
     Uses, ContextOpen, OnePerFolder, SameFolder, OfFolder, OpenIsContext, StoreStates, InUse
<1>13. Emptied'
  BY <1>1, <1>2, <1>3, <1>4, <1>5, <1>6 DEF TakePrevious, Close, At, Goto, Undisturbed, Emptied, Types,
     Over
<1>14. Awaits'
  BY <1>1, <1>2, <1>3, <1>4, <1>5, <1>6 DEF TakePrevious, Close, At, Goto, SwitchLabels,
     OperationLabels, Over, Undisturbed, Types, Labels, Awaits, Opening, Left
<1>15. Uses'
  BY <1>1, <1>2, <1>3, <1>4, <1>5, <1>6 DEF TakePrevious, Close, At, Goto, SwitchLabels,
     OperationLabels, Over, Undisturbed, Types, Labels, Uses
<1>16. ContextOpen'
  BY <1>1, <1>2, <1>3, <1>4, <1>5, <1>6 DEF TakePrevious, Close, At, Goto, Undisturbed, ContextOpen,
     Types
<1>17. OnePerFolder'
  BY <1>1, <1>2, <1>3, <1>4, <1>5, <1>6 DEF TakePrevious, Close, At, Goto, SwitchLabels,
     OperationLabels, Over, Undisturbed, Types, Labels, OnePerFolder, InUse, Opening, Left
<1>18. SameFolder'
  BY <1>1, <1>2, <1>3, <1>4, <1>5, <1>6 DEF TakePrevious, Close, At, Goto, Undisturbed, SameFolder,
     Types
<1>19. OfFolder'
  BY <1>1, <1>2, <1>3, <1>4, <1>5, <1>6 DEF TakePrevious, Close, At, Goto, Undisturbed, OfFolder, Types
<1>20. OpenIsContext'
  BY <1>1, <1>2, <1>3, <1>4, <1>5, <1>6 DEF TakePrevious, Close, At, Goto, Undisturbed, OpenIsContext,
     Types
<1> QED
  BY <1>7, <1>8, <1>9, <1>10, <1>11, <1>12, <1>13, <1>14, <1>15, <1>16, <1>17, <1>18, <1>19, <1>20
     DEF Undisturbed

\* An operation begins.
LEMMA BeginStep ==
    ASSUME Undisturbed, Begin, ~overlapped'
    PROVE  Undisturbed'
<1> USE Names, NoStoreIsNone
<1>1. \A b \in Replacers \union Drafts : pc[b] \in Over
  BY DEF Undisturbed, Begin, At, Running, Over, Replacers
<1>2. Types'
  BY <1>1 DEF Begin, Ensure, At, Goto, Undisturbed, Types, StoreStates, UserLabels, SwitchLabels,
     OperationLabels, ShutdownLabels
<1>3. Labels'
  BY <1>1 DEF Begin, Ensure, At, Goto, Undisturbed, Labels, Types, UserLabels, SwitchLabels,
     OperationLabels, ShutdownLabels
<1>4. Tracked'
  BY <1>1 DEF Begin, Ensure, At, Goto, Undisturbed, Tracked, Types, Over
<1>5. Alone'
  BY <1>1 DEF Begin, Ensure, At, Goto, Undisturbed, Alone, Types, Over
<1>6. Left'
  BY <1>1 DEF Begin, Ensure, At, Goto, Undisturbed, Left, Types, Over
<1>7. Opening'
  BY <1>1 DEF Begin, Ensure, At, Goto, Undisturbed, Opening, Types
<1>8. Emptied'
  BY <1>1 DEF Begin, Ensure, At, Goto, Undisturbed, Emptied, Types, Over
<1>9. Awaits'
  BY <1>1 DEF Begin, Ensure, At, Goto, Undisturbed, Awaits, Types
<1>10. Uses'
  BY <1>1 DEF Begin, Ensure, At, Goto, Undisturbed, Uses, Types
<1>11. ContextOpen'
  BY <1>1 DEF Begin, Ensure, At, Goto, Undisturbed, ContextOpen, Types
<1>12. OnePerFolder'
  BY <1>1 DEF Begin, Ensure, At, Goto, Undisturbed, OnePerFolder, Types
<1>13. SameFolder'
  BY <1>1 DEF Begin, Ensure, At, Goto, Undisturbed, SameFolder, Types
<1>14. OfFolder'
  BY <1>1 DEF Begin, Ensure, At, Goto, Undisturbed, OfFolder, Types
<1>15. OpenIsContext'
  BY <1>1 DEF Begin, Ensure, At, Goto, Undisturbed, OpenIsContext, Types
<1> QED
  BY <1>2, <1>3, <1>4, <1>5, <1>6, <1>7, <1>8, <1>9, <1>10, <1>11, <1>12, <1>13, <1>14, <1>15
     DEF Undisturbed

\* An operation ends.
LEMMA OperationEndsStep ==
    ASSUME Undisturbed, OperationEnds
    PROVE  Undisturbed'
<1> USE Names, NoStoreIsNone
<1>1. Types'
  BY DEF OperationEnds, At, Goto, Undisturbed, Types, StoreStates, UserLabels, SwitchLabels,
     OperationLabels, ShutdownLabels
<1>2. Labels'
  BY DEF OperationEnds, At, Goto, Undisturbed, Labels, Types, UserLabels, SwitchLabels, OperationLabels,
     ShutdownLabels
<1>3. Tracked'
  BY DEF OperationEnds, At, Goto, Undisturbed, Tracked, Types, Over
<1>4. Alone'
  BY DEF OperationEnds, At, Goto, Undisturbed, Alone, Types, Over
<1>5. Left'
  BY DEF OperationEnds, At, Goto, Undisturbed, Left, Types, Over
<1>6. Opening'
  BY DEF OperationEnds, At, Goto, Undisturbed, Opening, Types
<1>7. Emptied'
  BY DEF OperationEnds, At, Goto, Undisturbed, Emptied, Types, Over
<1>8. Awaits'
  BY DEF OperationEnds, At, Goto, Undisturbed, Awaits, Types
<1>9. Uses'
  BY DEF OperationEnds, At, Goto, Undisturbed, Uses, Types
<1>10. ContextOpen'
  BY DEF OperationEnds, At, Goto, Undisturbed, ContextOpen, Types
<1>11. OnePerFolder'
  BY DEF OperationEnds, At, Goto, Undisturbed, OnePerFolder, Types
<1>12. SameFolder'
  BY DEF OperationEnds, At, Goto, Undisturbed, SameFolder, Types
<1>13. OfFolder'
  BY DEF OperationEnds, At, Goto, Undisturbed, OfFolder, Types
<1>14. OpenIsContext'
  BY DEF OperationEnds, At, Goto, Undisturbed, OpenIsContext, Types
<1> QED
  BY <1>1, <1>2, <1>3, <1>4, <1>5, <1>6, <1>7, <1>8, <1>9, <1>10, <1>11, <1>12, <1>13, <1>14
     DEF Undisturbed

\* The interface is left.
LEMMA ExitStep ==
    ASSUME Undisturbed, Exit
    PROVE  Undisturbed'
<1> USE Names, NoStoreIsNone
<1>1. Types'
  BY DEF Exit, Goto, Undisturbed, Types, StoreStates, UserLabels, SwitchLabels, OperationLabels,
     ShutdownLabels
<1>2. Labels'
  BY DEF Exit, Goto, Undisturbed, Labels, Types, UserLabels, SwitchLabels, OperationLabels,
     ShutdownLabels
<1>3. Tracked'
  BY DEF Exit, Goto, Undisturbed, Tracked, Types, Over
<1>4. Alone'
  BY DEF Exit, Goto, Undisturbed, Alone, Types, Over
<1>5. Left'
  BY DEF Exit, Goto, Undisturbed, Left, Types, Over
<1>6. Opening'
  BY DEF Exit, Goto, ShutdownLabels, Over, Undisturbed, Types, Labels, Opening, Left
<1>7. Emptied'
  BY DEF Exit, Goto, Undisturbed, Emptied, Types, Over
<1>8. Awaits'
  BY DEF Exit, Goto, Undisturbed, Awaits, Types
<1>9. Uses'
  BY DEF Exit, Goto, Undisturbed, Uses, Types
<1>10. ContextOpen'
  BY DEF Exit, Goto, ShutdownLabels, Over, Undisturbed, Types, Labels, ContextOpen, Opening, Left
<1>11. OnePerFolder'
  BY DEF Exit, Goto, Undisturbed, OnePerFolder, Types
<1>12. SameFolder'
  BY DEF Exit, Goto, Undisturbed, SameFolder, Types
<1>13. OfFolder'
  BY DEF Exit, Goto, Undisturbed, OfFolder, Types
<1>14. OpenIsContext'
  BY DEF Exit, Goto, Undisturbed, OpenIsContext, Types
<1> QED
  BY <1>1, <1>2, <1>3, <1>4, <1>5, <1>6, <1>7, <1>8, <1>9, <1>10, <1>11, <1>12, <1>13, <1>14
     DEF Undisturbed

\* The shutdown closes the context.
LEMMA ShutdownStep ==
    ASSUME Undisturbed, Shutdown
    PROVE  Undisturbed'
<1> USE Names, NoStoreIsNone
<1>1. requests = {} /\ pc["operation"] \in Over /\ opening = NoStore
  BY DEF Undisturbed, Types, Left, Opening, Shutdown, OpeningSettled, At, StoresIn
<1>2. Types'
  BY <1>1 DEF Shutdown, OpeningSettled, Close, At, Goto, Tracked, Undisturbed, Types, StoreStates,
     UserLabels, SwitchLabels, OperationLabels, ShutdownLabels
<1>3. Labels'
  BY <1>1 DEF Shutdown, OpeningSettled, Close, At, Goto, Tracked, Undisturbed, Labels, Types,
     UserLabels, SwitchLabels, OperationLabels, ShutdownLabels
<1>4. Tracked'
  BY <1>1 DEF Shutdown, OpeningSettled, Close, At, Goto, Tracked, Undisturbed, Types, Over
<1>5. Alone'
  BY <1>1 DEF Shutdown, OpeningSettled, Close, At, Goto, Tracked, Undisturbed, Alone, Types, Over
<1>6. Left'
  BY <1>1 DEF Shutdown, OpeningSettled, Close, At, Goto, Tracked, Undisturbed, Left, Types, Over
<1>7. Opening'
  BY <1>1 DEF Shutdown, OpeningSettled, Close, At, Goto, Tracked, Undisturbed, Opening, Types
<1>8. Emptied'
  BY <1>1 DEF Shutdown, OpeningSettled, Close, At, Goto, Tracked, Undisturbed, Emptied, Types, Over
<1>9. Awaits'
  BY <1>1 DEF Shutdown, OpeningSettled, Close, At, Goto, Tracked, Undisturbed, Awaits, Types
<1>10. Uses'
  BY <1>1 DEF Shutdown, OpeningSettled, Close, At, Goto, Tracked, Undisturbed, Uses, Types
<1>11. ContextOpen'
  BY <1>1 DEF Shutdown, OpeningSettled, Close, At, Goto, Tracked, Undisturbed, ContextOpen, Types
<1>12. OnePerFolder'
  BY <1>1 DEF Shutdown, OpeningSettled, Close, At, Goto, ShutdownLabels, Over, Tracked, Undisturbed,
     Types, Labels, OnePerFolder, InUse, Opening, Left
<1>13. SameFolder'
  BY <1>1 DEF Shutdown, OpeningSettled, Close, At, Goto, Tracked, Undisturbed, SameFolder, Types
<1>14. OfFolder'
  BY <1>1 DEF Shutdown, OpeningSettled, Close, At, Goto, Tracked, Undisturbed, OfFolder, Types
<1>15. OpenIsContext'
  BY <1>1 DEF Shutdown, OpeningSettled, Close, At, Goto, Tracked, Undisturbed, OpenIsContext, Types
<1> QED
  BY <1>2, <1>3, <1>4, <1>5, <1>6, <1>7, <1>8, <1>9, <1>10, <1>11, <1>12, <1>13, <1>14, <1>15
     DEF Undisturbed

\* The shutdown ends.
LEMMA ShutdownEndsStep ==
    ASSUME Undisturbed, ShutdownEnds
    PROVE  Undisturbed'
<1> USE Names, NoStoreIsNone
<1>1. Types'
  BY DEF ShutdownEnds, PreviousClosed, At, Goto, Undisturbed, Types, StoreStates, UserLabels,
     SwitchLabels, OperationLabels, ShutdownLabels
<1>2. Labels'
  BY DEF ShutdownEnds, PreviousClosed, At, Goto, Undisturbed, Labels, Types, UserLabels, SwitchLabels,
     OperationLabels, ShutdownLabels
<1>3. Tracked'
  BY DEF ShutdownEnds, PreviousClosed, At, Goto, Undisturbed, Tracked, Types, Over
<1>4. Alone'
  BY DEF ShutdownEnds, PreviousClosed, At, Goto, Undisturbed, Alone, Types, Over
<1>5. Left'
  BY DEF ShutdownEnds, PreviousClosed, At, Goto, Undisturbed, Left, Types, Over
<1>6. Opening'
  BY DEF ShutdownEnds, PreviousClosed, At, Goto, Undisturbed, Opening, Types
<1>7. Emptied'
  BY DEF ShutdownEnds, PreviousClosed, At, Goto, Undisturbed, Emptied, Types, Over
<1>8. Awaits'
  BY DEF ShutdownEnds, PreviousClosed, At, Goto, Undisturbed, Awaits, Types
<1>9. Uses'
  BY DEF ShutdownEnds, PreviousClosed, At, Goto, Undisturbed, Uses, Types
<1>10. ContextOpen'
  BY DEF ShutdownEnds, PreviousClosed, At, Goto, Undisturbed, ContextOpen, Types
<1>11. OnePerFolder'
  BY DEF ShutdownEnds, PreviousClosed, At, Goto, Undisturbed, OnePerFolder, Types
<1>12. SameFolder'
  BY DEF ShutdownEnds, PreviousClosed, At, Goto, Undisturbed, SameFolder, Types
<1>13. OfFolder'
  BY DEF ShutdownEnds, PreviousClosed, At, Goto, Undisturbed, OfFolder, Types
<1>14. OpenIsContext'
  BY DEF ShutdownEnds, PreviousClosed, At, Goto, Undisturbed, OpenIsContext, Types
<1> QED
  BY <1>1, <1>2, <1>3, <1>4, <1>5, <1>6, <1>7, <1>8, <1>9, <1>10, <1>11, <1>12, <1>13, <1>14
     DEF Undisturbed

-----------------------------------------------------------------------------
(* The theorems *)

LEMMA JoinStep ==
    ASSUME Undisturbed, NEW a \in Actors, Join(a)
    PROVE  Undisturbed'
<1>1. a # "shutdown" /\ pc[a] = "factory"
  BY Names DEF Undisturbed, Labels, Join, At, ShutdownLabels
<1>2. CASE context # NoStore
  BY <1>2, UseContextStep
<1>3. CASE context = NoStore
  <2>1. OpenFresh(a, cwd) /\ cwd \in Folders
    BY <1>3 DEF Join, Undisturbed, Types
  <2>2. UNCHANGED <<context, ownsContext, cwd, cancelled, stopping, exited, want, overlapped>>
    BY DEF Join
  <2>3. stopping \in BOOLEAN
    BY DEF Undisturbed, Types
  <2> QED
    BY <1>1, <1>3, <2>1, <2>2, <2>3, RefusedStep, JoinedStep, FreshStep
<1> QED
  BY <1>2, <1>3

LEMMA OpenNextStep ==
    ASSUME Undisturbed, NEW a \in Actors, OpenNext(a)
    PROVE  Undisturbed'
<1>1. a \in Replacers /\ a # "shutdown" /\ pc[a] = "close"
  BY Names DEF Undisturbed, Labels, OpenNext, PreviousClosed, At, UserLabels, Replacers
<1>2. want[a] = cwd /\ cwd \in Folders
  BY <1>1 DEF Undisturbed, OfFolder, Types
<1>3. OpenFresh(a, cwd)
  BY <1>2 DEF OpenNext
<1>4. UNCHANGED <<context, ownsContext, cwd, cancelled, stopping, exited, want, overlapped>>
  BY DEF OpenNext
<1>5. ASSUME ~stopping, context # NoStore
      PROVE  store[context].folder = cwd
  <2>1. \A b \in Switches : b # a => pc[b] \in Over
    BY <1>1, Names DEF Undisturbed, Alone, Over
  <2> QED
    BY <1>1, <1>5, <2>1 DEF Undisturbed, OfFolder, Over
<1>6. stopping \in BOOLEAN
  BY DEF Undisturbed, Types
<1> QED
  BY <1>1, <1>2, <1>3, <1>4, <1>5, <1>6, RefusedStep, JoinedStep, FreshStep

LEMMA InitUndisturbed ==
    ASSUME LifeInit
    PROVE  Undisturbed
<1> USE Names, NoStoreIsNone
<1>1. PICK injected \in BOOLEAN, f \in Folders :
         /\ cwd = f
         /\ store = [s \in Stores |-> IF injected /\ s = 1
                                        THEN [folder |-> f, lent |-> TRUE, st |-> "open"]
                                        ELSE Gone]
         /\ context = IF injected THEN 1 ELSE NoStore
         /\ want = [a \in Actors |-> f]
  BY DEF LifeInit
<1>2. 1 \in Stores
  <2>1. Cardinality(Folders) \in Nat /\ Cardinality(Openers) \in Nat /\ "operation" \in Openers
    BY OpenersFinite DEF Openers
  <2>2. Cardinality(Openers) # 0
    BY <2>1, OpenersFinite, FS_EmptySet
  <2> QED
    BY <2>1, <2>2 DEF Stores
<1>3. Gone \in [folder : Folders, lent : BOOLEAN, st : StoreStates] /\ Gone.st = "unused"
  BY ActorsAssumption DEF Gone, AnyFolder, StoreStates
<1>4. \A s \in Stores : store[s] = IF injected /\ s = 1
                                     THEN [folder |-> f, lent |-> TRUE, st |-> "open"] ELSE Gone
  BY <1>1
<1>5. /\ pc = [a \in Actors |-> "idle"] /\ held = [a \in Actors |-> NoStore]
      /\ ownsContext = FALSE /\ opening = NoStore /\ requests = {}
      /\ stopping = FALSE /\ exited = FALSE
  BY DEF LifeInit
<1>6. Types
  BY <1>1, <1>2, <1>3, <1>4, <1>5 DEF Types, UserLabels, StoreStates
<1>7. Labels /\ Tracked /\ Alone
  BY <1>5 DEF Labels, Tracked, Alone, UserLabels, SwitchLabels, OperationLabels, ShutdownLabels, Over
<1>8. Left /\ Emptied /\ Awaits /\ Uses /\ SameFolder
  BY <1>5 DEF Left, Emptied, Awaits, Uses, SameFolder
<1>9. Opening /\ ContextOpen /\ OnePerFolder /\ OpenIsContext
  BY <1>1, <1>2, <1>3, <1>4, <1>5 DEF Opening, ContextOpen, OnePerFolder, OpenIsContext, InUse
<1>10. OfFolder
  BY <1>1, <1>2, <1>4, <1>5 DEF OfFolder
<1> QED
  BY <1>6, <1>7, <1>8, <1>9, <1>10 DEF Undisturbed

LEMMA StutterStep ==
    ASSUME Undisturbed, UNCHANGED lifeVars
    PROVE  Undisturbed'
<1> QED
  BY DEF lifeVars, Undisturbed, Types, Labels, Tracked, Alone, Left, Opening, Emptied, Awaits, Uses,
         ContextOpen, OnePerFolder, SameFolder, OfFolder, OpenIsContext

\* What was disturbed once stays so.
LEMMA OverlappedStays ==
    ASSUME LifeNext, ~overlapped'
    PROVE  ~overlapped
BY DEF LifeNext, Steps, Opened, Closed, StartRead, StartSwitch, Join, Woken, Answered, Replace,
       AwaitOperation, Drain, TakePrevious, OpenNext, Begin, OperationEnds, RequestCancellation, Exit,
       Shutdown, ShutdownEnds

LEMMA LifeStep ==
    ASSUME LifeInv, [LifeNext]_lifeVars
    PROVE  LifeInv'
<1> SUFFICES ASSUME ~overlapped'
             PROVE  Undisturbed'
  BY DEF LifeInv
<1>1. ~overlapped
  BY OverlappedStays DEF lifeVars
<1>2. Undisturbed
  BY <1>1 DEF LifeInv
<1>3. ASSUME NEW s \in Stores, Opened(s) \/ Closed(s) PROVE Undisturbed'
  BY <1>2, <1>3, OpenedStep, ClosedStep
<1>4. ASSUME NEW a \in Users, StartRead(a) PROVE Undisturbed'
  BY <1>2, <1>4, StartReadStep
<1>5. ASSUME NEW a \in Switches, StartSwitch(a) PROVE Undisturbed'
  BY <1>2, <1>5, StartSwitchStep
<1>6. ASSUME NEW a \in Actors, Steps(a) PROVE Undisturbed'
  BY <1>2, <1>6, JoinStep, WokenStep, AnsweredStep, ReplaceStep, AwaitOperationStep, DrainStep,
     TakePreviousStep, OpenNextStep DEF Steps
<1>7. CASE Begin
  BY <1>2, <1>7, BeginStep
<1>8. CASE OperationEnds \/ Exit \/ Shutdown \/ ShutdownEnds
  BY <1>2, <1>8, OperationEndsStep, ExitStep, ShutdownStep, ShutdownEndsStep
<1>9. CASE RequestCancellation
  BY <1>2, <1>9 DEF RequestCancellation, Undisturbed, Types, Labels, Tracked, Alone, Left, Opening,
     Emptied, Awaits, Uses, ContextOpen, OnePerFolder, SameFolder, OfFolder, OpenIsContext
<1>10. CASE UNCHANGED lifeVars
  BY <1>2, <1>10, StutterStep
<1> QED
  BY <1>3, <1>4, <1>5, <1>6, <1>7, <1>8, <1>9, <1>10 DEF LifeNext

\* Of the whole interface: the other parts do not touch the context.
LEMMA LifeInvHolds == Spec => []LifeInv
<1>1. Init => LifeInv
  BY InitUndisturbed DEF Init, LifeInv
<1>2. LifeInv /\ [Next]_vars => LifeInv'
  <2>1. [Next]_vars => [LifeNext]_lifeVars
    BY DEF Next, vars, lifeVars
  <2> QED
    BY <2>1, LifeStep
<1> QED
  BY <1>1, <1>2, PTL DEF Spec

\* A tracked request or the attached operation never uses a store that was closed
\* under it (ensureContext, replaceContext and shutdown in lifecycle.ts).
THEOREM NoUseAfterCloseHolds == Spec => []NoUseAfterClose
<1>1. LifeInv => NoUseAfterClose
  <2> SUFFICES ASSUME LifeInv, ~overlapped, NEW a \in Clients, pc[a] = "using"
               PROVE  store[held[a]].st = "open"
    BY DEF NoUseAfterClose, Clients, At
  <2>1. Undisturbed
    BY DEF LifeInv
  <2>2. held[a] = context /\ context # NoStore
    BY <2>1 DEF Undisturbed, Uses
  <2>3. pc["shutdown"] \notin {"close", "done"}
    BY <2>1 DEF Undisturbed, Left, Tracked, Over, Clients
  <2> QED
    BY <2>1, <2>2, <2>3 DEF Undisturbed, ContextOpen
<1> QED
  BY <1>1, LifeInvHolds, PTL

\* The lifecycle keeps one store open besides the one it was lent, the context
\* is of the folder shown when no change is under way, and nothing that the
\* lifecycle owns is left open at the end.
THEOREM OneContextHolds == Spec => [](OneContext /\ ContextFollowsFolder /\ ClosedAtTheEnd)
<1>1. LifeInv => OneContext
  <2> SUFFICES ASSUME LifeInv, ~overlapped
               PROVE  Cardinality({s \in StoresIn("open") : ~store[s].lent}) <= 1
    BY DEF OneContext
  <2> DEFINE Own == {s \in StoresIn("open") : ~store[s].lent}
  <2>1. Own \in SUBSET {context}
    BY DEF LifeInv, Undisturbed, OpenIsContext, StoresIn
  <2>2. IsFiniteSet({context}) /\ Cardinality({context}) = 1
    BY FS_Singleton
  <2>3. IsFiniteSet(Own) /\ Cardinality(Own) <= 1
    BY <2>1, <2>2, FS_Subset
  <2> QED
    BY <2>3
<1>2. LifeInv => ContextFollowsFolder
  BY DEF LifeInv, Undisturbed, OfFolder, ContextFollowsFolder, Running
<1>3. LifeInv => ClosedAtTheEnd
  BY NoStoreIsNone DEF LifeInv, Undisturbed, OpenIsContext, Left, Opening, ClosedAtTheEnd, StoresIn, At
<1> QED
  BY <1>1, <1>2, <1>3, LifeInvHolds, PTL

-----------------------------------------------------------------------------
(* The types of the lifecycle, whatever overlaps *)

StoreSet == [Stores -> [folder : Folders, lent : BOOLEAN, st : StoreStates]]

\* The label is one of the actor's.
LabelOf(a, l) ==
    /\ a \in Users => l \in UserLabels
    /\ a \in Switches => l \in SwitchLabels
    /\ a = "operation" => l \in OperationLabels
    /\ a = "shutdown" => l \in ShutdownLabels

\* An actor goes on, no store begins to open and nobody leaves one that does.
LEMMA Going ==
    ASSUME LifeTypes, NEW a \in Actors, NEW l, pc' = [pc EXCEPT ![a] = l], LabelOf(a, l),
           pc[a] = "awaiting" => held[a] \notin StoresIn("opening"),
           NEW h \in Stores \union {NoStore}, held' = [held EXCEPT ![a] = h],
           store' \in StoreSet, OnePerFolder',
           \A s \in Stores : store'[s].st = "opening" => store[s].st = "opening",
           requests' \subseteq Reads,
           context' \in Stores \union {NoStore}, opening' \in Stores \union {NoStore},
           ownsContext' \in BOOLEAN, stopping' \in BOOLEAN, exited' \in BOOLEAN,
           cwd' \in Folders, want' \in [Actors -> Folders]
    PROVE  LifeTypes'
<1>1. l \in UserLabels \union SwitchLabels
  BY Names DEF LabelOf, UserLabels, SwitchLabels, OperationLabels, ShutdownLabels
<1>2. pc' \in [Actors -> UserLabels \union SwitchLabels] /\ held' \in [Actors -> Stores \union {NoStore}]
  BY <1>1 DEF LifeTypes, Types
<1>3. Types'
  BY <1>2 DEF Types, StoreSet
<1>4. \A b \in Actors : pc'[b] = (IF b = a THEN l ELSE pc[b]) /\ (b # a => held'[b] = held[b])
  BY DEF LifeTypes, Types
<1>5. Labels'
  BY <1>4, Names DEF LifeTypes, Labels, LabelOf
<1>6. Room'
  <2> SUFFICES ASSUME NEW s \in Stores, store'[s].st = "opening"
               PROVE  \E b \in Actors : pc'[b] = "awaiting" /\ held'[b] = s
    BY DEF Room
  <2>1. PICK b \in Actors : pc[b] = "awaiting" /\ held[b] = s
    BY DEF LifeTypes, Room
  <2>2. b # a
    BY <2>1 DEF StoresIn
  <2> QED
    BY <1>4, <2>1, <2>2
<1> QED
  BY <1>3, <1>5, <1>6 DEF LifeTypes

\* An actor goes on and the stores stay.
LEMMA GoingOn ==
    ASSUME LifeTypes, NEW a \in Actors, NEW l, Goto(a, l), LabelOf(a, l),
           pc[a] = "awaiting" => held[a] \notin StoresIn("opening"),
           NEW h \in Stores \union {NoStore}, held' = [held EXCEPT ![a] = h],
           store' = store, requests' \subseteq Reads,
           context' \in Stores \union {NoStore}, opening' \in Stores \union {NoStore},
           ownsContext' \in BOOLEAN, stopping' \in BOOLEAN, exited' \in BOOLEAN,
           cwd' \in Folders, want' \in [Actors -> Folders]
    PROVE  LifeTypes'
<1>1. store' \in StoreSet /\ OnePerFolder'
  BY DEF LifeTypes, Types, StoreSet, OnePerFolder
<1> QED
  BY <1>1, Going DEF Goto

\* Who holds nothing new holds what it held.
LEMMA HoldsOn ==
    ASSUME LifeTypes, NEW a \in Actors, UNCHANGED held
    PROVE  held[a] \in Stores \union {NoStore} /\ held' = [held EXCEPT ![a] = held[a]]
BY DEF LifeTypes, Types

\* Closing a store: it is still the only one of its folder.
LEMMA ClosingStore ==
    ASSUME LifeTypes, NEW s \in Stores \union {NoStore}, Close(s)
    PROVE  /\ store' \in StoreSet /\ OnePerFolder'
           /\ \A t \in Stores : store'[t].st = "opening" => store[t].st = "opening"
<1>1. store' \in StoreSet
  BY CloseChanges DEF LifeTypes, StoreSet
<1>2. \A t \in Stores : /\ store'[t].folder = store[t].folder
                        /\ store'[t].st = store[t].st \/ (store[t].st = "open" /\ store'[t].st = "closing")
  <2> SUFFICES ASSUME NEW t \in Stores
               PROVE  /\ store'[t].folder = store[t].folder
                      /\ store'[t].st = store[t].st \/ (store[t].st = "open" /\ store'[t].st = "closing")
    OBVIOUS
  <2>1. store[t] \in [folder : Folders, lent : BOOLEAN, st : StoreStates] /\ DOMAIN store = Stores
    BY DEF LifeTypes, Types
  <2>2. store'[t] = IF t = s THEN [store[t] EXCEPT !.st = IF store[t].st = "open" THEN "closing" ELSE store[t].st]
                    ELSE store[t]
    BY <2>1, NoStoreIsNone DEF Close
  <2> QED
    BY <2>1, <2>2
<1>3. OnePerFolder'
  BY <1>2 DEF LifeTypes, OnePerFolder, InUse
<1> QED
  BY <1>1, <1>2, <1>3

\* A store is opened: there is room for it.
LEMMA OpenFreshTypes ==
    ASSUME LifeTypes, NEW a \in Openers, NEW f \in Folders, OpenFresh(a, f), pc[a] # "awaiting",
           UNCHANGED <<context, ownsContext, cwd, stopping, exited, want>>
    PROVE  LifeTypes'
<1>1. a \in Actors /\ LabelOf(a, "awaiting") /\ LabelOf(a, "done")
  BY Names DEF Openers, LabelOf, UserLabels, SwitchLabels, OperationLabels
<1>2. CASE stopping
  <2>1. /\ Goto(a, "done") /\ requests' \subseteq Reads /\ store' = store /\ held' = held
        /\ opening' = opening
    BY <1>2 DEF OpenFresh, Settle, LifeTypes, Room
  <2> QED
    BY <1>1, <2>1, HoldsOn, GoingOn DEF LifeTypes, Types
<1>3. CASE ~stopping /\ opening # NoStore
  <2>1. /\ Goto(a, "awaiting") /\ UNCHANGED requests /\ opening' = opening /\ store' = store
        /\ held' = [held EXCEPT ![a] = opening]
    BY <1>3 DEF OpenFresh
  <2> QED
    BY <1>1, <2>1, GoingOn DEF LifeTypes, Types, Room
<1>4. CASE ~stopping /\ opening = NoStore
  <2>1. NextStore \in Stores /\ store[NextStore].st \in {"unused", "failed"}
    BY FreeStore
  <2>2. PICK n \in Stores : n = NextStore /\ store[n].st \in {"unused", "failed"}
    BY <2>1
  <2>3. /\ pc' = [pc EXCEPT ![a] = "awaiting"] /\ requests' = requests /\ opening' = n
        /\ held' = [held EXCEPT ![a] = n]
        /\ store' = [store EXCEPT ![n] = [[store[n] EXCEPT !.folder = f] EXCEPT !.st = "opening"]]
    BY <1>4, <2>2 DEF OpenFresh, Goto
  <2>4. store[n] \in [folder : Folders, lent : BOOLEAN, st : StoreStates]
    BY DEF LifeTypes, Types
  <2>5. /\ store'[n] \in [folder : Folders, lent : BOOLEAN, st : StoreStates]
        /\ store'[n].folder = f /\ store'[n].st = "opening"
        /\ \A t \in Stores : t # n => store'[t] = store[t]
    <3>1. store'[n] = [[store[n] EXCEPT !.folder = f] EXCEPT !.st = "opening"]
          /\ \A t \in Stores : t # n => store'[t] = store[t]
      BY <2>3 DEF LifeTypes, Types
    <3> QED
      BY <2>4, <3>1, Reopened
  <2>6. store' \in StoreSet
    BY <2>3, <2>5 DEF LifeTypes, Types, StoreSet
  <2>7. /\ pc' \in [Actors -> UserLabels \union SwitchLabels]
        /\ held' \in [Actors -> Stores \union {NoStore}]
    BY <2>3 DEF LifeTypes, Types, UserLabels
  <2>8. Types'
    BY <2>3, <2>6, <2>7 DEF LifeTypes, Types, StoreSet
  <2>9. \A b \in Actors : pc'[b] = (IF b = a THEN "awaiting" ELSE pc[b]) /\ (b # a => held'[b] = held[b])
                          /\ held'[a] = n
    BY <1>1, <2>3 DEF LifeTypes, Types
  <2>10. Labels'
    BY <1>1, <2>9, Names DEF LifeTypes, Labels, LabelOf
  <2>11. OnePerFolder'
    BY <2>5 DEF LifeTypes, OnePerFolder, InUse
  <2>12. Room'
    <3> SUFFICES ASSUME NEW s \in Stores, store'[s].st = "opening"
                 PROVE  \E b \in Actors : pc'[b] = "awaiting" /\ held'[b] = s
      BY <2>3 DEF LifeTypes, Room
    <3>1. CASE s = n
      BY <1>1, <2>9, <3>1
    <3>2. CASE s # n
      <4>1. PICK b \in Actors : pc[b] = "awaiting" /\ held[b] = s
        BY <2>5, <3>2 DEF LifeTypes, Room
      <4> QED
        BY <2>9, <4>1
    <3> QED
      BY <3>1, <3>2
  <2> QED
    BY <2>8, <2>10, <2>11, <2>12 DEF LifeTypes
<1>5. stopping \in BOOLEAN
  BY DEF LifeTypes, Types
<1> QED
  BY <1>2, <1>3, <1>4, <1>5

\* The factory answers.
LEMMA OpenedTypes ==
    ASSUME LifeTypes, NEW s \in Stores, Opened(s)
    PROVE  LifeTypes'
<1> USE NoStoreIsNone
<1>1. store' = [store EXCEPT ![s].st = "open"] \/ store' = [store EXCEPT ![s].st = "failed"]
  BY DEF Opened
<1>2. store' \in StoreSet
  <2>1. Types /\ "open" \in StoreStates /\ "failed" \in StoreStates
    BY DEF LifeTypes, StoreStates
  <2>2. CASE store' = [store EXCEPT ![s].st = "open"]
    BY <2>1, <2>2, StateChanges DEF StoreSet
  <2>3. CASE store' = [store EXCEPT ![s].st = "failed"]
    BY <2>1, <2>3, StateChanges DEF StoreSet
  <2> QED
    BY <1>1, <2>2, <2>3
<1>3. \A t \in Stores : /\ store'[t].folder = store[t].folder
                        /\ t # s => store'[t] = store[t]
  BY <1>1 DEF LifeTypes, Types
<1>4. store'[s].st # "opening"
  BY <1>1 DEF LifeTypes, Types
<1>5. Types'
  BY <1>2 DEF LifeTypes, Types, Opened, StoreSet
<1>6. Labels'
  BY DEF LifeTypes, Labels, Opened
<1>7. OnePerFolder'
  <2>1. store'[s].st = "open" => \A t \in Stores \ {s} : store[t].folder = store[s].folder => store[t].st \notin InUse
    <3>1. CASE store' = [store EXCEPT ![s].st = "failed"]
      BY <3>1 DEF LifeTypes, Types
    <3> QED
      BY <3>1 DEF Opened
  <2>2. store'[s].st \in {"open", "failed"}
    BY <1>1 DEF LifeTypes, Types
  <2> QED
    BY <1>3, <2>1, <2>2 DEF LifeTypes, OnePerFolder, InUse
<1>8. Room'
  BY <1>3, <1>4 DEF LifeTypes, Room, Opened
<1> QED
  BY <1>5, <1>6, <1>7, <1>8 DEF LifeTypes

LEMMA ClosedTypes ==
    ASSUME LifeTypes, NEW s \in Stores, Closed(s)
    PROVE  LifeTypes'
<1>1. Gone \in [folder : Folders, lent : BOOLEAN, st : StoreStates] /\ Gone.st = "unused"
  BY ActorsAssumption DEF Gone, AnyFolder, StoreStates
<1>2. \A t \in Stores : store'[t] = IF t = s THEN Gone ELSE store[t]
  BY DEF Closed, LifeTypes, Types
<1>3. Types'
  BY <1>1 DEF LifeTypes, Types, Closed
<1>4. Labels' /\ OnePerFolder' /\ Room'
  BY <1>1, <1>2 DEF LifeTypes, Labels, OnePerFolder, Room, Closed, InUse
<1> QED
  BY <1>3, <1>4 DEF LifeTypes

LEMMA StartReadTypes ==
    ASSUME LifeTypes, NEW a \in Users, StartRead(a)
    PROVE  LifeTypes'
<1>1. a \in Actors /\ LabelOf(a, "using") /\ LabelOf(a, "factory") /\ requests' \subseteq Reads
  BY Names DEF LabelOf, UserLabels, StartRead, LifeTypes, Room
<1>2. pc[a] # "awaiting"
  BY DEF StartRead, At
<1>3. CASE context # NoStore
  BY <1>1, <1>2, <1>3, GoingOn DEF StartRead, Ensure, LifeTypes, Types
<1>4. CASE context = NoStore
  BY <1>1, <1>2, <1>4, GoingOn, HoldsOn DEF StartRead, Ensure, LifeTypes, Types
<1> QED
  BY <1>3, <1>4

LEMMA StartSwitchTypes ==
    ASSUME LifeTypes, NEW a \in Switches, StartSwitch(a)
    PROVE  LifeTypes'
<1>1. a \in Actors /\ LabelOf(a, "replace") /\ pc[a] # "awaiting"
  BY Names DEF LabelOf, SwitchLabels, StartSwitch, At
<1> QED
  BY <1>1, GoingOn, HoldsOn DEF StartSwitch, LifeTypes, Types, Room

LEMMA BeginTypes ==
    ASSUME LifeTypes, Begin
    PROVE  LifeTypes'
<1> DEFINE a == "operation"
<1>1. a \in Actors /\ LabelOf(a, "replace") /\ LabelOf(a, "using") /\ LabelOf(a, "factory") /\ pc[a] # "awaiting"
  BY Names DEF LabelOf, OperationLabels, Begin, At
<1>2. CASE Goto(a, "replace") /\ UNCHANGED held
  BY <1>1, <1>2, GoingOn, HoldsOn DEF Begin, LifeTypes, Types, Room
<1>3. CASE Ensure(a)
  <2>1. CASE context # NoStore
    BY <1>1, <1>3, <2>1, GoingOn DEF Begin, Ensure, LifeTypes, Types, Room
  <2>2. CASE context = NoStore
    BY <1>1, <1>3, <2>2, GoingOn, HoldsOn DEF Begin, Ensure, LifeTypes, Types, Room
  <2> QED
    BY <2>1, <2>2
<1> QED
  BY <1>2, <1>3 DEF Begin

LEMMA JoinTypes ==
    ASSUME LifeTypes, NEW a \in Actors, Join(a)
    PROVE  LifeTypes'
<1>1. a \in Openers /\ pc[a] # "awaiting" /\ LabelOf(a, "using")
  BY Names DEF LifeTypes, Labels, Join, At, Openers, LabelOf, ShutdownLabels, SwitchLabels, UserLabels, OperationLabels
<1>2. CASE context # NoStore
  BY <1>1, <1>2, GoingOn DEF Join, LifeTypes, Types, Room
<1>3. CASE context = NoStore
  BY <1>1, <1>3, OpenFreshTypes DEF Join, LifeTypes, Types
<1> QED
  BY <1>2, <1>3

LEMMA WokenTypes ==
    ASSUME LifeTypes, NEW a \in Actors, Woken(a)
    PROVE  LifeTypes'
<1>1. a # "shutdown" /\ (a \notin Switches => LabelOf(a, "using")) /\ LabelOf(a, "done")
  BY Names DEF LifeTypes, Labels, Woken, Awaited, At, LabelOf, ShutdownLabels, SwitchLabels, UserLabels, OperationLabels
<1>2. held[a] \notin StoresIn("opening")
  BY DEF Woken, Awaited
<1>3. CASE store[held[a]].st = "failed" \/ a \in Switches
  <2>1. Goto(a, "done") /\ requests' \subseteq Reads
    BY <1>3 DEF Woken, Settle, LifeTypes, Room
  <2> QED
    BY <1>1, <1>2, <2>1, GoingOn, HoldsOn DEF Woken, LifeTypes, Types
<1>4. CASE ~(store[held[a]].st = "failed" \/ a \in Switches)
  <2>1. Goto(a, "using") /\ requests' \subseteq Reads
    BY <1>4 DEF Woken, LifeTypes, Room
  <2> QED
    BY <1>1, <1>2, <1>4, <2>1, GoingOn, HoldsOn DEF Woken, LifeTypes, Types
<1> QED
  BY <1>3, <1>4

\* The steps that only go on: an answer, the waits of a change of the context.
LEMMA WaitsTypes ==
    ASSUME LifeTypes, NEW a \in Actors, Answered(a) \/ Replace(a) \/ AwaitOperation(a) \/ Drain(a)
    PROVE  LifeTypes'
<1>1. CASE Answered(a)
  <2>1. LabelOf(a, "done") /\ Goto(a, "done") /\ requests' \subseteq Reads /\ pc[a] # "awaiting"
    BY <1>1, Names DEF Answered, Settle, At, LabelOf, UserLabels, SwitchLabels, OperationLabels, ShutdownLabels,
       LifeTypes, Room
  <2> QED
    BY <1>1, <2>1, GoingOn, HoldsOn DEF Answered, LifeTypes, Types
<1>2. CASE Replace(a)
  <2>1. pc[a] # "awaiting" /\ requests' \subseteq Reads
    BY <1>2 DEF Replace, At, LifeTypes, Room
  <2>2. want' \in [Actors -> Folders]
    BY <1>2 DEF Replace, LifeTypes, Types
  <2>3. PICK l : Goto(a, l) /\ l = (IF stopping THEN "done" ELSE IF WaitsForOperation(a) THEN "operation" ELSE "drain")
    BY <1>2 DEF Replace
  <2>4. LabelOf(a, l)
    BY <1>2, <2>3, Names DEF Replace, At, WaitsForOperation, LifeTypes, Labels, LabelOf, UserLabels, SwitchLabels, OperationLabels,
       ShutdownLabels
  <2> QED
    BY <1>2, <2>1, <2>2, <2>3, <2>4, GoingOn, HoldsOn DEF Replace, LifeTypes, Types
<1>3. CASE AwaitOperation(a)
  <2>1. LabelOf(a, "drain") /\ pc[a] # "awaiting"
    BY <1>3, Names DEF AwaitOperation, OperationOver, At, LifeTypes, Labels, LabelOf, UserLabels, SwitchLabels,
       OperationLabels, ShutdownLabels
  <2> QED
    BY <1>3, <2>1, GoingOn, HoldsOn DEF AwaitOperation, LifeTypes, Types, Room
<1>4. CASE Drain(a)
  <2>1. LabelOf(a, "settle") /\ pc[a] # "awaiting"
    BY <1>4, Names DEF Drain, Drained, At, LifeTypes, Labels, LabelOf, UserLabels, SwitchLabels,
       OperationLabels, ShutdownLabels
  <2> QED
    BY <1>4, <2>1, GoingOn DEF Drain, LifeTypes, Types, Room
<1> QED
  BY <1>1, <1>2, <1>3, <1>4

LEMMA TakePreviousTypes ==
    ASSUME LifeTypes, NEW a \in Actors, TakePrevious(a)
    PROVE  LifeTypes'
<1> USE NoStoreIsNone
<1>1. LabelOf(a, "close") /\ pc[a] # "awaiting" /\ (a = "operation" => LabelOf(a, "using"))
  BY Names DEF TakePrevious, OpeningSettled, At, LifeTypes, Labels, LabelOf, UserLabels, SwitchLabels,
     OperationLabels, ShutdownLabels
<1>2. requests' \subseteq Reads /\ UNCHANGED <<cwd, stopping, exited, want>> /\ opening' = NoStore
  BY DEF TakePrevious, LifeTypes, Room
<1>3. CASE ownsContext
  <2>1. Goto(a, "close") /\ Close(context) /\ held' = [held EXCEPT ![a] = context]
        /\ context' = NoStore /\ ownsContext' = FALSE
    BY <1>3 DEF TakePrevious
  <2>2. context \in Stores \union {NoStore}
    BY DEF LifeTypes, Types
  <2>3. /\ store' \in StoreSet /\ OnePerFolder'
        /\ \A t \in Stores : store'[t].st = "opening" => store[t].st = "opening"
    BY <2>1, <2>2, ClosingStore
  <2> QED
    BY <1>1, <1>2, <2>1, <2>2, <2>3, Going DEF Goto, LifeTypes, Types
<1>4. CASE ~ownsContext /\ a = "operation" /\ context # NoStore
  <2>1. Goto(a, "using") /\ held' = [held EXCEPT ![a] = context] /\ UNCHANGED <<context, ownsContext, store>>
    BY <1>4 DEF TakePrevious
  <2> QED
    BY <1>1, <1>2, <1>4, <2>1, GoingOn DEF LifeTypes, Types
<1>5. CASE ~ownsContext /\ ~(a = "operation" /\ context # NoStore)
  <2>1. Goto(a, "close") /\ held' = [held EXCEPT ![a] = NoStore] /\ context' = NoStore /\ UNCHANGED <<ownsContext, store>>
    BY <1>5 DEF TakePrevious
  <2> QED
    BY <1>1, <1>2, <2>1, GoingOn DEF LifeTypes, Types
<1> QED
  BY <1>3, <1>4, <1>5

LEMMA OpenNextTypes ==
    ASSUME LifeTypes, NEW a \in Actors, OpenNext(a)
    PROVE  LifeTypes'
<1>1. a \in Openers /\ pc[a] # "awaiting"
  BY Names DEF OpenNext, PreviousClosed, At, Openers
<1>2. want[a] \in Folders
  BY DEF LifeTypes, Types
<1> QED
  BY <1>1, <1>2, OpenFreshTypes DEF OpenNext

\* The end of the operation and of the interface.
LEMMA EndsTypes ==
    ASSUME LifeTypes, OperationEnds \/ RequestCancellation \/ Exit \/ Shutdown \/ ShutdownEnds
    PROVE  LifeTypes'
<1> USE Names, NoStoreIsNone
<1>1. CASE OperationEnds
  <2>1. LabelOf("operation", "done") /\ pc["operation"] # "awaiting"
    BY <1>1 DEF OperationEnds, At, LabelOf, OperationLabels
  <2> QED
    BY <1>1, <2>1, GoingOn, HoldsOn DEF OperationEnds, LifeTypes, Types, Room
<1>2. CASE RequestCancellation
  BY <1>2 DEF RequestCancellation, LifeTypes, Types, Labels, OnePerFolder, Room
<1>3. CASE Exit
  <2>1. LabelOf("shutdown", "operation") /\ pc["shutdown"] # "awaiting"
    BY DEF LifeTypes, Labels, ShutdownLabels, LabelOf
  <2> QED
    BY <1>3, <2>1, GoingOn, HoldsOn DEF Exit, LifeTypes, Types, Room
<1>4. CASE Shutdown
  <2>1. LabelOf("shutdown", "close") /\ LabelOf("shutdown", "done") /\ pc["shutdown"] # "awaiting"
    BY DEF LifeTypes, Labels, ShutdownLabels, LabelOf
  <2>2. UNCHANGED <<context, ownsContext, opening, requests, cwd, stopping, exited, want>>
    BY <1>4 DEF Shutdown
  <2>3. CASE ownsContext
    <3>1. Close(context) /\ Goto("shutdown", "close") /\ held' = [held EXCEPT !["shutdown"] = context]
      BY <1>4, <2>3 DEF Shutdown
    <3>2. context \in Stores \union {NoStore}
      BY DEF LifeTypes, Types
    <3>3. /\ store' \in StoreSet /\ OnePerFolder'
          /\ \A t \in Stores : store'[t].st = "opening" => store[t].st = "opening"
      BY <3>1, <3>2, ClosingStore
    <3> QED
      BY <2>1, <2>2, <3>1, <3>2, <3>3, Going DEF Goto, LifeTypes, Types, Room
  <2>4. CASE ~ownsContext
    <3>1. Goto("shutdown", "done") /\ UNCHANGED <<store, held>>
      BY <1>4, <2>4 DEF Shutdown
    <3> QED
      BY <2>1, <2>2, <3>1, GoingOn, HoldsOn DEF LifeTypes, Types, Room
  <2> QED
    BY <2>3, <2>4
<1>5. CASE ShutdownEnds
  <2>1. LabelOf("shutdown", "done") /\ pc["shutdown"] # "awaiting"
    BY <1>5 DEF ShutdownEnds, PreviousClosed, At, LabelOf, ShutdownLabels
  <2> QED
    BY <1>5, <2>1, GoingOn, HoldsOn DEF ShutdownEnds, LifeTypes, Types, Room
<1> QED
  BY <1>1, <1>2, <1>3, <1>4, <1>5

LEMMA LifeTypesStep ==
    ASSUME LifeTypes, [LifeNext]_lifeVars
    PROVE  LifeTypes'
<1>1. ASSUME NEW s \in Stores, Opened(s) \/ Closed(s) PROVE LifeTypes'
  BY <1>1, OpenedTypes, ClosedTypes
<1>2. ASSUME NEW a \in Actors, Steps(a) PROVE LifeTypes'
  BY <1>2, JoinTypes, WokenTypes, WaitsTypes, TakePreviousTypes, OpenNextTypes DEF Steps
<1>3. CASE UNCHANGED lifeVars
  BY <1>3 DEF lifeVars, LifeTypes, Types, Labels, OnePerFolder, Room
<1> QED
  BY <1>1, <1>2, <1>3, StartReadTypes, StartSwitchTypes, BeginTypes, EndsTypes DEF LifeNext

LEMMA LifeTypesHold == Spec => []LifeTypes
<1>1. Init => LifeTypes
  BY InitUndisturbed, NoStoreIsNone DEF Init, Undisturbed, Tracked, Opening, LifeTypes, Room
<1>2. LifeTypes /\ [Next]_vars => LifeTypes'
  <2>1. [Next]_vars => [LifeNext]_lifeVars
    BY DEF Next, vars, lifeVars
  <2> QED
    BY <2>1, LifeTypesStep
<1> QED
  BY <1>1, <1>2, PTL DEF Spec

-----------------------------------------------------------------------------
(* The wizard *)

\* An answer is put in its field.
LEMMA AnswerIsSet ==
    ASSUME SetupTypes, NEW p \in Profiles, NEW v \in Values, field \in 1..Len(S!Fields(p))
    PROVE  /\ S!Answered(p, v) \in Configurations
           /\ \A q \in Profiles : q # p => S!Answered(p, v)[q] = settings[q]
<1>1. S!Fields(p)[field] \in {"provider", "model", "thinking", "write"}
  <2>1. CASE p = "builder"
    <3>1. S!Fields(p) = <<"provider", "model", "thinking", "write">>
      BY <2>1 DEF S!Fields
    <3> QED
      BY <3>1
  <2>2. CASE p # "builder"
    <3>1. S!Fields(p) = <<"provider", "model", "thinking">>
      BY <2>2 DEF S!Fields
    <3> QED
      BY <3>1
  <2> QED
    BY <2>1, <2>2
<1>2. PICK f : f = S!Fields(p)[field]
  OBVIOUS
<1>3. settings[p] \in Setting /\ DOMAIN settings = Profiles
  BY DEF SetupTypes, Configurations
<1>4. CASE f = "thinking"
  BY <1>2, <1>4 DEF S!Answered, SetupTypes
<1>5. CASE f \in {"provider", "model", "write"}
  <2>1. S!Answered(p, v) = [settings EXCEPT ![p] = [settings[p] EXCEPT ![f] = v]]
    BY <1>2, <1>3, <1>5 DEF S!Answered
  <2>2. [settings[p] EXCEPT ![f] = v] \in Setting
    <3>1. CASE f = "provider"
      BY <1>3, <3>1 DEF Setting
    <3>2. CASE f = "model"
      BY <1>3, <3>2 DEF Setting
    <3>3. CASE f = "write"
      BY <1>3, <3>3 DEF Setting
    <3> QED
      BY <1>5, <3>1, <3>2, <3>3
  <2> QED
    BY <1>3, <2>1, <2>2 DEF SetupTypes, Configurations
<1> QED
  BY <1>1, <1>2, <1>4, <1>5

LEMMA BlankIsASetting == S!Blank \in Setting /\ S!NoSettings \in Configurations
BY DEF S!Blank, S!NoSettings, Setting, Values, Configurations

\* The preview that is built is of the settings, unless it is known to be overtaken.
LEMMA BuildIsCurrent ==
    ASSUME SetupTypes, NEW s \in Configurations, edited' = edited, editing' = editing,
           S!Build(s),
           ~editing => \A p \in Profiles \ edited : s[p] = S!Blank,
           \A p \in Profiles : s[p].provider # S!None /\ s[p].model # S!None
    PROVE  /\ preview' = S!NoPreview \/ (preview' = <<preview'[1]>> /\ preview'[1] \in Configurations)
           /\ building' \subseteq Configurations /\ overtaken' \in BOOLEAN
           /\ overtaken => overtaken'
           /\ ~overtaken' /\ preview' # S!NoPreview => preview' = <<s>>
<1>1. S!Generated(s, edited) \in Configurations
  BY DEF S!Generated, SetupTypes, Configurations
<1>2. CASE editing
  BY <1>1, <1>2 DEF S!Build, SetupTypes
<1>3. CASE ~editing
  <2>1. \A p \in Profiles : p \in edited
    BY <1>3 DEF S!Blank
  <2>2. S!Generated(s, edited) = s
    BY <2>1 DEF S!Generated, Configurations
  <2>3. preview' = <<s>> /\ building' = building /\ overtaken' = overtaken
    BY <1>3, <2>2 DEF S!Build
  <2>4. preview'[1] = s
    BY <2>3
  <2> QED
    BY <2>3, <2>4 DEF SetupTypes
<1> QED
  BY <1>2, <1>3

LEMMA OpenSetupStep ==
    ASSUME SetupInv, S!OpenSetup
    PROVE  SetupInv'
<1> USE DEF S!OpenSetup, SetupInv
<1>1. SetupTypes'
  BY DEF SetupTypes
<1>2. Asked'
  BY DEF Asked
<1>3. AskedOnly'
  BY DEF AskedOnly, SetupTypes, S!NoFile, S!NoSettings
<1>4. ReviewedComplete' /\ PreviewIsCurrent' /\ S!SavedIsShown'
  BY DEF ReviewedComplete, PreviewIsCurrent, S!SavedIsShown
<1> QED
  BY <1>1, <1>2, <1>3, <1>4

\* The steps that ask: what is saved and shown is left alone.
LEMMA AskStep ==
    ASSUME SetupInv,
           S!Discovered \/ S!SetupNext \/ S!SetupBack \/ \E p \in Profiles : S!SelectProfile(p)
    PROVE  SetupInv'
<1>1. CASE S!Discovered
  BY <1>1 DEF S!Discovered, SetupInv, SetupTypes, Asked, AskedOnly, ReviewedComplete, S!Complete, PreviewIsCurrent,
     S!SavedIsShown
<1>2. CASE S!SetupNext
  BY <1>2 DEF S!SetupNext, SetupInv, SetupTypes, Asked, AskedOnly, ReviewedComplete, S!Complete, PreviewIsCurrent,
     S!SavedIsShown
<1>3. CASE S!SetupBack
  BY <1>3 DEF S!SetupBack, SetupInv, SetupTypes, Asked, AskedOnly, ReviewedComplete, S!Complete, PreviewIsCurrent,
     S!SavedIsShown
<1>4. ASSUME NEW p \in Profiles, S!SelectProfile(p)
      PROVE  SetupInv'
  <2>1. 1 \in 1..Len(S!Fields(p))
    BY DEF S!Fields
  <2> QED
    <3>1. SetupTypes'
      BY <1>4 DEF S!SelectProfile, SetupInv, SetupTypes
    <3>2. Asked'
      BY <1>4, <2>1 DEF S!SelectProfile, Asked, S!Fields
    <3>3. AskedOnly'
      BY <1>4 DEF S!SelectProfile, SetupInv, AskedOnly
    <3>4. ReviewedComplete' /\ PreviewIsCurrent' /\ S!SavedIsShown'
      BY <1>4 DEF S!SelectProfile, SetupInv, ReviewedComplete, PreviewIsCurrent, S!SavedIsShown
    <3> QED
      BY <3>1, <3>2, <3>3, <3>4 DEF SetupInv
<1> QED
  BY <1>1, <1>2, <1>3, <1>4

LEMMA AnswerFieldStep ==
    ASSUME SetupInv, NEW v \in Values, S!AnswerField(v)
    PROVE  SetupInv'
<1>1. profile \in Profiles /\ profile \in edited /\ field \in 1..Len(S!Fields(profile)) /\ step = 3 /\ ~choosing
  BY DEF SetupInv, Asked, S!AnswerField
<1>2. settings' \in Configurations /\ \A q \in Profiles : q # profile => settings'[q] = settings[q]
  BY <1>1, AnswerIsSet DEF S!AnswerField, SetupInv
<1>3. /\ step' = 2 /\ choosing' = TRUE
      \/ /\ step' = 3 /\ choosing' = FALSE /\ profile' = profile /\ field' = field + 1
         /\ field # Len(S!Fields(profile))
  BY <1>1 DEF S!AnswerField, SetupInv, SetupTypes
<1>4. UNCHANGED <<edited, editing, models, preview, building, saving, file, opened, overtaken>>
  BY DEF S!AnswerField
<1>5. SetupTypes'
  BY <1>2, <1>3, <1>4 DEF SetupInv, SetupTypes
<1>6. Asked'
  <2>1. Len(S!Fields(profile)) \in Nat
    BY DEF S!Fields
  <2> QED
    BY <1>1, <1>3, <1>4, <2>1 DEF Asked, S!Fields
<1>7. AskedOnly'
  BY <1>1, <1>2, <1>4 DEF SetupInv, AskedOnly
<1>8. ReviewedComplete' /\ PreviewIsCurrent' /\ S!SavedIsShown'
  BY <1>3, <1>4 DEF SetupInv, ReviewedComplete, PreviewIsCurrent, S!SavedIsShown
<1> QED
  BY <1>5, <1>6, <1>7, <1>8 DEF SetupInv

LEMMA ReviewStep ==
    ASSUME SetupInv, S!Review
    PROVE  SetupInv'
<1>1. /\ step' = 4 /\ choosing = TRUE /\ S!Build(settings)
      /\ \A p \in Profiles : S!Complete(p)
      /\ UNCHANGED <<choosing, profile, field, settings, edited, editing, models, saving, file, opened>>
  BY DEF S!Review, S!ReviewAllowed, SetupInv, SetupTypes
<1>2. /\ preview' = S!NoPreview \/ (preview' = <<preview'[1]>> /\ preview'[1] \in Configurations)
      /\ building' \subseteq Configurations /\ overtaken' \in BOOLEAN
      /\ overtaken => overtaken'
      /\ ~overtaken' /\ preview' # S!NoPreview => preview' = <<settings>>
  <2>1. ~editing => \A p \in Profiles \ edited : settings[p] = S!Blank
    BY DEF S!Review, SetupInv, AskedOnly
  <2>2. \A p \in Profiles : settings[p].provider # S!None /\ settings[p].model # S!None
    BY <1>1 DEF S!Complete
  <2> QED
    BY <1>1, <2>1, <2>2, BuildIsCurrent DEF SetupInv, SetupTypes
<1>3. SetupTypes' /\ Asked' /\ PreviewIsCurrent'
  BY <1>1, <1>2 DEF SetupInv, SetupTypes, Asked, PreviewIsCurrent
<1>4. AskedOnly'
  BY <1>1 DEF SetupInv, AskedOnly, S!Review
<1>5. ReviewedComplete'
  BY <1>1 DEF ReviewedComplete, S!Complete
<1>6. S!SavedIsShown'
  BY <1>1, <1>2 DEF SetupInv, S!SavedIsShown
<1> QED
  BY <1>3, <1>4, <1>5, <1>6 DEF SetupInv

LEMMA AnswerWriteAccessStep ==
    ASSUME SetupInv, NEW a \in S!Answer, S!AnswerWriteAccess(a)
    PROVE  SetupInv'
<1>1. /\ step = 3 /\ choosing = TRUE /\ step' = 4 /\ S!Build(settings')
      /\ settings' = [settings EXCEPT !["builder"].write = a]
      /\ UNCHANGED <<choosing, profile, field, edited, editing, models, saving, file, opened>>
  BY DEF S!AnswerWriteAccess, SetupInv, SetupTypes
<1>2. \A p \in Profiles : S!Complete(p)
  BY <1>1 DEF SetupInv, ReviewedComplete
<1>3. /\ settings' \in Configurations
      /\ \A p \in Profiles : /\ settings'[p].provider = settings[p].provider /\ settings'[p].model = settings[p].model
                             /\ settings'[p].write = IF p = "builder" THEN a ELSE settings[p].write
                             /\ p # "builder" => settings'[p] = settings[p]
  <2>1. \A p \in Profiles : settings[p] \in Setting
    BY DEF SetupInv, SetupTypes, Configurations
  <2>2. settings \in Configurations /\ a \in Values
    BY DEF SetupInv, SetupTypes, Values
  <2>3. CASE "builder" \in Profiles
    <3>1. settings' = [settings EXCEPT !["builder"] = [settings["builder"] EXCEPT !.write = a]]
      BY <1>1
    <3>2. /\ [settings["builder"] EXCEPT !.write = a] \in Setting
          /\ [settings["builder"] EXCEPT !.write = a].provider = settings["builder"].provider
          /\ [settings["builder"] EXCEPT !.write = a].model = settings["builder"].model
          /\ [settings["builder"] EXCEPT !.write = a].write = a
      BY <2>1, <2>2, <2>3 DEF Setting
    <3>3. settings' \in Configurations
      BY <2>2, <2>3, <3>1, <3>2 DEF Configurations
    <3>4. \A p \in Profiles : settings'[p] = IF p = "builder" THEN [settings["builder"] EXCEPT !.write = a] ELSE settings[p]
      BY <2>2, <3>1 DEF Configurations
    <3> QED
      BY <3>2, <3>3, <3>4
  <2>4. CASE "builder" \notin Profiles
    <3>1. settings' = settings
      BY <1>1, <2>2, <2>4 DEF Configurations
    <3> QED
      BY <2>2, <2>4, <3>1
  <2> QED
    BY <2>3, <2>4
<1>4. \A p \in Profiles : p = "builder" /\ ~editing => p \in edited
  BY <1>1, <1>2 DEF SetupInv, AskedOnly, S!Complete, S!Blank
<1>5. ~editing => \A p \in Profiles \ edited : settings'[p] = S!Blank
  BY <1>1, <1>3, <1>4 DEF SetupInv, AskedOnly
<1>6. \A p \in Profiles : settings'[p].provider # S!None /\ settings'[p].model # S!None
  BY <1>2, <1>3 DEF S!Complete
<1>7. PICK s \in Configurations : s = settings'
  BY <1>3
<1>8. /\ preview' = S!NoPreview \/ (preview' = <<preview'[1]>> /\ preview'[1] \in Configurations)
      /\ building' \subseteq Configurations /\ overtaken' \in BOOLEAN
      /\ overtaken => overtaken'
      /\ ~overtaken' /\ preview' # S!NoPreview => preview' = <<s>>
  BY <1>1, <1>5, <1>6, <1>7, BuildIsCurrent DEF SetupInv
<1>9. SetupTypes' /\ Asked' /\ PreviewIsCurrent'
  BY <1>1, <1>3, <1>7, <1>8 DEF SetupInv, SetupTypes, Asked, PreviewIsCurrent
<1>10. AskedOnly'
  BY <1>1, <1>5 DEF AskedOnly
<1>11. ReviewedComplete'
  BY <1>2, <1>3 DEF ReviewedComplete, S!Complete, S!Answer, S!None
<1>12. S!SavedIsShown'
  BY <1>1, <1>8 DEF SetupInv, S!SavedIsShown
<1> QED
  BY <1>9, <1>10, <1>11, <1>12 DEF SetupInv

LEMMA BuiltStep ==
    ASSUME SetupInv, NEW b \in building, S!Built(b)
    PROVE  SetupInv'
<1>1. b \in Configurations /\ preview' = <<b>> /\ preview'[1] = b
  BY DEF S!Built, SetupInv, SetupTypes
<1>2. SetupTypes'
  BY <1>1 DEF S!Built, SetupInv, SetupTypes
<1>3. Asked' /\ AskedOnly' /\ ReviewedComplete'
  BY DEF S!Built, SetupInv, Asked, AskedOnly, ReviewedComplete, S!Complete
<1>4. PreviewIsCurrent' /\ S!SavedIsShown'
  BY <1>1 DEF S!Built, SetupInv, PreviewIsCurrent, S!SavedIsShown
<1> QED
  BY <1>2, <1>3, <1>4 DEF SetupInv

LEMMA SetupCancelStep ==
    ASSUME SetupInv, S!SetupCancel
    PROVE  SetupInv'
<1>1. SetupTypes'
  BY BlankIsASetting DEF S!SetupCancel, SetupInv, SetupTypes
<1>2. Asked' /\ AskedOnly' /\ ReviewedComplete' /\ PreviewIsCurrent'
  BY DEF S!SetupCancel, Asked, AskedOnly, ReviewedComplete, PreviewIsCurrent
<1>3. S!SavedIsShown'
  BY DEF S!SetupCancel, SetupInv, S!SavedIsShown
<1> QED
  BY <1>1, <1>2, <1>3 DEF SetupInv

LEMMA SaveStep ==
    ASSUME SetupInv, S!Save
    PROVE  SetupInv'
<1>1. saving' = <<preview[1], settings, editing>> /\ preview[1] \in Configurations
  BY DEF S!Save, SetupInv, SetupTypes
<1>2. saving'[1] = preview[1] /\ saving'[2] = settings
  BY <1>1
<1>3. SetupTypes'
  BY <1>1 DEF S!Save, SetupInv, SetupTypes
<1>4. Asked' /\ AskedOnly' /\ ReviewedComplete' /\ PreviewIsCurrent'
  BY DEF S!Save, SetupInv, Asked, AskedOnly, ReviewedComplete, S!Complete, PreviewIsCurrent
<1>5. S!SavedIsShown'
  <2>1. ~overtaken => preview = <<settings>>
    BY DEF S!Save, SetupInv, SetupTypes, PreviewIsCurrent
  <2> QED
    BY <1>2, <2>1 DEF S!SavedIsShown, S!Save
<1> QED
  BY <1>3, <1>4, <1>5 DEF SetupInv

LEMMA WrittenStep ==
    ASSUME SetupInv, S!Written
    PROVE  SetupInv'
<1>1. saving \in Configurations \X Configurations \X BOOLEAN
  BY DEF S!Written, SetupInv, SetupTypes
<1>2. saving[1] \in Configurations
  BY <1>1
<1>3. SetupTypes'
  BY <1>2 DEF S!Written, SetupInv, SetupTypes
<1>4. Asked' /\ AskedOnly' /\ ReviewedComplete' /\ PreviewIsCurrent'
  BY DEF S!Written, SetupInv, SetupTypes, Asked, AskedOnly, ReviewedComplete, S!Complete, PreviewIsCurrent
<1>5. S!SavedIsShown'
  BY DEF S!Written, S!SavedIsShown
<1> QED
  BY <1>3, <1>4, <1>5 DEF SetupInv

LEMMA SetupHolds ==
    /\ S!SetupInit => SetupInv
    /\ SetupInv /\ [S!SetupStep]_setupVars => SetupInv'
<1>1. ASSUME S!SetupInit PROVE SetupInv
  <2>1. file \in Configurations
    <3>1. \A v \in Providers : [p \in Profiles |-> [provider |-> v, model |-> v,
                               write |-> IF p = "builder" THEN "no" ELSE S!None]] \in Configurations
      BY DEF Configurations, Setting, Values, S!Answer, S!None
    <3> QED
      BY <1>1, <3>1, BlankIsASetting DEF S!SetupInit, S!NoFile
  <2> QED
    <3>1. SetupTypes
      BY <1>1, <2>1, BlankIsASetting DEF S!SetupInit, SetupTypes
    <3>2. Asked /\ AskedOnly /\ ReviewedComplete /\ PreviewIsCurrent /\ S!SavedIsShown
      BY <1>1 DEF S!SetupInit, Asked, AskedOnly, ReviewedComplete, PreviewIsCurrent, S!SavedIsShown
    <3> QED
      BY <3>1, <3>2 DEF SetupInv
<1>2. ASSUME SetupInv, [S!SetupStep]_setupVars PROVE SetupInv'
  <2>1. CASE UNCHANGED setupVars
    BY <1>2, <2>1 DEF setupVars, SetupInv, SetupTypes, Asked, AskedOnly, ReviewedComplete, S!Complete,
       PreviewIsCurrent, S!SavedIsShown
  <2>2. CASE S!SetupStep
    <3>1. ASSUME NEW v \in Values, S!AnswerField(v) PROVE SetupInv'
      BY <1>2, <3>1, AnswerFieldStep
    <3>2. ASSUME NEW a \in S!Answer, S!AnswerWriteAccess(a) PROVE SetupInv'
      BY <1>2, <3>2, AnswerWriteAccessStep
    <3>3. ASSUME NEW b \in building, S!Built(b) PROVE SetupInv'
      BY <1>2, <3>3, BuiltStep
    <3> QED
      BY <1>2, <2>2, <3>1, <3>2, <3>3, OpenSetupStep, AskStep, ReviewStep, SetupCancelStep, SaveStep, WrittenStep
         DEF S!SetupStep, Values
  <2> QED
    BY <1>2, <2>1, <2>2
<1> QED
  BY <1>1, <1>2

-----------------------------------------------------------------------------
(* The runs *)

\* The screen of a run that is shown is never the live one.
LEMMA ScreenIsNotLive ==
    ASSUME NEW st
    PROVE  R!ScreenFor(st) # "live" /\ (R!ScreenFor(st) = "approval" <=> st = "waiting")
BY DEF R!ScreenFor

\* Nothing of the operation, of the run on the screen and of the answers changes.
LEMMA ScreenStep ==
    ASSUME RunsInv, prompt' = "feedback" => view.status # "none" \/ prompt = "feedback",
           UNCHANGED <<status, activeRun, view, previews, ticket, inspections, op, unseen, crossed>>,
           config' \in Nat, config' >= config, diagnosed' \in Nat, diagnosed' <= config',
           reviewed' \in Nat, reviewed' = reviewed \/ (R!Idle /\ reviewed' <= config'),
           screen' = screen \/ screen' \notin {"live", "approval"}
    PROVE  RunsInv'
<1>1. RunsTypes'
  BY DEF RunsInv, RunsTypes
<1>2. Versions'
  <2>1. R!Idle => op.at = "idle"
    BY DEF R!Idle, R!NoOp
  <2>2. op.config \in Nat
    BY DEF RunsInv, RunsTypes, Operations
  <2> QED
    BY <2>1, <2>2 DEF RunsInv, RunsTypes, Versions, R!LaunchedAsReviewed
<1>3. ViewComes'
  BY DEF RunsInv, ViewComes, Following, R!Wanted
<1>4. LiveFollows' /\ PreviewsCome'
  BY DEF RunsInv, LiveFollows, PreviewsCome, Following
<1> QED
  BY <1>1, <1>2, <1>3, <1>4 DEF RunsInv

\* The screens of a person who looks around.
LEMMA LookStep ==
    ASSUME RunsInv, R!Back \/ R!EditFile \/ R!Diagnose \/ R!PrepareLaunch \/ R!Reject
    PROVE  RunsInv'
<1>1. config \in Nat /\ diagnosed \in Nat /\ reviewed \in Nat /\ diagnosed <= config /\ reviewed <= config
  BY DEF RunsInv, RunsTypes, Versions
<1>2. CASE R!Back
  BY <1>1, <1>2, ScreenStep DEF R!Back, R!storeVars, R!launchVars
<1>3. CASE R!EditFile
  BY <1>1, <1>3, ScreenStep DEF R!EditFile, R!launchVars
<1>4. CASE R!Diagnose
  BY <1>1, <1>4, ScreenStep DEF R!Diagnose, R!storeVars
<1>5. CASE R!PrepareLaunch
  BY <1>1, <1>5, ScreenStep DEF R!PrepareLaunch, R!storeVars
<1>6. CASE R!Reject
  BY <1>1, <1>6, ScreenStep DEF R!Reject, R!storeVars, R!launchVars
<1> QED
  BY <1>2, <1>3, <1>4, <1>5, <1>6

\* An operation begins: the one there was is over.
LEMMA BeginsStep ==
    ASSUME RunsInv, R!Idle, NEW k \in {"launch", "resume", "decide"}, NEW r \in Runs,
           R!Begin(k, r), prompt' = prompt \/ prompt' = "none",
           UNCHANGED <<status, config, diagnosed, reviewed, screen, activeRun, view, previews, ticket,
                       inspections, unseen, crossed>>
    PROVE  RunsInv'
<1>1. op.at = "idle"
  BY DEF R!Idle, R!NoOp
<1>2. op' = [kind |-> k, run |-> r, at |-> "open", config |-> 0]
  BY DEF R!Begin
<1>3. RunsTypes'
  BY <1>2 DEF RunsInv, RunsTypes, Operations
<1>4. Versions'
  BY <1>2 DEF RunsInv, Versions, R!LaunchedAsReviewed
<1>5. ViewComes'
  BY <1>1, <1>2 DEF RunsInv, ViewComes, Following, R!Wanted
<1>6. LiveFollows' /\ PreviewsCome'
  BY <1>1, <1>2 DEF RunsInv, LiveFollows, PreviewsCome, Following
<1> QED
  BY <1>3, <1>4, <1>5, <1>6 DEF RunsInv

LEMMA StartsStep ==
    ASSUME RunsInv, R!StartLaunch \/ R!StartContinuation \/ R!SubmitFeedback
    PROVE  RunsInv'
<1>1. view.status # "none" \/ prompt = "feedback" => view.run \in Runs
  BY DEF RunsInv, RunsTypes
<1>2. CASE R!StartLaunch
  <2>1. PICK r \in Runs : R!Begin("launch", r)
    BY <1>2 DEF R!StartLaunch
  <2> QED
    BY <1>2, <2>1, BeginsStep DEF R!StartLaunch, R!storeVars, R!launchVars
<1>3. CASE R!StartContinuation
  <2>1. view.run \in Runs /\ (R!Begin("resume", view.run) \/ R!Begin("decide", view.run))
    BY <1>1, <1>3 DEF R!StartContinuation
  <2> QED
    BY <1>1, <1>3, <2>1, BeginsStep DEF R!StartContinuation, R!storeVars, R!launchVars
<1>4. CASE R!SubmitFeedback
  <2>1. CASE R!Idle /\ R!Begin("decide", view.run)
    BY <1>1, <1>4, <2>1, BeginsStep DEF R!SubmitFeedback, R!storeVars, R!launchVars
  <2>2. CASE UNCHANGED <<op, begun>>
    BY <1>4, <2>2, ScreenStep DEF R!SubmitFeedback, R!storeVars, R!launchVars, RunsInv, RunsTypes, Versions
  <2> QED
    BY <1>4, <2>1, <2>2 DEF R!SubmitFeedback
<1> QED
  BY <1>2, <1>3, <1>4

\* A run is opened: the answer that will show it is on its way.
LEMMA OpenRunStep ==
    ASSUME RunsInv, NEW r \in Runs, R!OpenRun(r)
    PROVE  RunsInv'
<1>0. PICK i : i = [no |-> ticket', run |-> r, st |-> "none", at |-> "read"]
  OBVIOUS
<1>1. /\ inspections' = inspections \union {i} /\ activeRun' = r /\ screen' = "inspect"
      /\ ticket' = ticket + 1
      /\ UNCHANGED <<status, config, diagnosed, reviewed, prompt, view, previews, op, unseen, crossed>>
  BY <1>0 DEF R!OpenRun, R!storeVars, R!launchVars
<1>2. i \in Inspections
  BY <1>0, <1>1 DEF RunsInv, RunsTypes, Inspections
<1>3. RunsTypes'
  BY <1>1, <1>2 DEF RunsInv, RunsTypes
<1>4. Versions'
  BY <1>1 DEF RunsInv, Versions, R!LaunchedAsReviewed
<1>5. ViewComes'
  <2>1. i \in inspections' /\ R!Wanted(i)' /\ i.at = "read"
    BY <1>0, <1>1 DEF R!Wanted
  <2> QED
    BY <2>1 DEF ViewComes
<1>6. LiveFollows' /\ PreviewsCome'
  BY <1>1 DEF LiveFollows, PreviewsCome
<1> QED
  BY <1>3, <1>4, <1>5, <1>6 DEF RunsInv

LEMMA InspectedStep ==
    ASSUME RunsInv, NEW i \in inspections, R!Inspected(i)
    PROVE  RunsInv'
<1>1. /\ i.at = "read"
      /\ UNCHANGED <<status, config, diagnosed, reviewed, screen, prompt, activeRun, view, previews, ticket, op, crossed>>
  BY DEF R!Inspected, R!storeVars, R!launchVars
<1>2. i \in Inspections /\ status[i.run] \in Statuses
  BY DEF RunsInv, RunsTypes, Inspections
<1>3. CASE R!Move(i, [i EXCEPT !.st = status[i.run], !.at = "apply"]) /\ UNCHANGED unseen
  <2>1. PICK j : j = [i EXCEPT !.st = status[i.run], !.at = "apply"]
    OBVIOUS
  <2>2. j \in Inspections /\ j.no = i.no /\ j.run = i.run /\ j.at = "apply"
    BY <1>2, <2>1 DEF Inspections
  <2>3. inspections' = (inspections \ {i}) \union {j}
    BY <1>3, <2>1 DEF R!Move
  <2>4. RunsTypes'
    BY <1>1, <1>3, <2>2, <2>3 DEF RunsInv, RunsTypes
  <2>5. Versions' /\ LiveFollows'
    BY <1>1, <1>3 DEF RunsInv, Versions, R!LaunchedAsReviewed, LiveFollows, Following
  <2>6. ViewComes'
    <3>1. \A k : R!Wanted(k)' <=> R!Wanted(k)
      BY <1>1 DEF R!Wanted
    <3>2. R!Wanted(i) => R!Wanted(j)
      BY <2>2 DEF R!Wanted
    <3> HIDE DEF R!Wanted
    <3> QED
      BY <1>1, <1>3, <2>2, <2>3, <3>1, <3>2 DEF RunsInv, ViewComes, Following
  <2>7. PreviewsCome'
    BY <1>1, <2>3 DEF RunsInv, PreviewsCome
  <2> QED
    BY <2>4, <2>5, <2>6, <2>7 DEF RunsInv
<1>4. CASE inspections' = inspections \ {i} /\ unseen' = TRUE
  <2>1. RunsTypes'
    BY <1>1, <1>4 DEF RunsInv, RunsTypes
  <2>2. Versions' /\ LiveFollows' /\ ViewComes'
    BY <1>1, <1>4 DEF RunsInv, Versions, R!LaunchedAsReviewed, LiveFollows, ViewComes
  <2>3. PreviewsCome'
    BY <1>1, <1>4 DEF RunsInv, PreviewsCome
  <2> QED
    BY <2>1, <2>2, <2>3 DEF RunsInv
<1> QED
  BY <1>3, <1>4 DEF R!Inspected

LEMMA ApplyViewStep ==
    ASSUME RunsInv, NEW i \in inspections, R!ApplyView(i)
    PROVE  RunsInv'
<1>1. /\ i.at = "apply"
      /\ UNCHANGED <<status, config, diagnosed, reviewed, prompt, activeRun, previews, ticket, op, unseen>>
  BY DEF R!ApplyView, R!storeVars, R!launchVars
<1>2. i \in Inspections
  BY DEF RunsInv, RunsTypes
<1>3. CASE R!Wanted(i)
  <2>1. PICK j : j = [i EXCEPT !.at = "outcome"]
    OBVIOUS
  <2>2. j \in Inspections /\ j.no = i.no /\ j.run = i.run /\ j.at = "outcome" /\ j.st = i.st
    BY <1>2, <2>1 DEF Inspections
  <2>3. /\ inspections' = (inspections \ {i}) \union {j}
        /\ view' = [run |-> i.run, status |-> i.st] /\ screen' = R!ScreenFor(i.st)
        /\ crossed' = (crossed \/ ~R!Idle)
    BY <1>3, <2>1 DEF R!ApplyView, R!Move, R!Show
  <2>4. RunsTypes'
    BY <1>1, <1>2, <2>2, <2>3 DEF RunsInv, RunsTypes, Inspections
  <2>5. Versions'
    BY <1>1 DEF RunsInv, Versions, R!LaunchedAsReviewed
  <2>6. LiveFollows'
    BY <2>3, ScreenIsNotLive DEF LiveFollows
  <2>7. ViewComes'
    <3>1. R!Idle => op.at = "idle"
      BY DEF R!Idle, R!NoOp
    <3>2. view'.run = activeRun
      BY <1>3, <2>3 DEF R!Wanted
    <3> QED
      BY <1>1, <2>3, <3>1, <3>2 DEF ViewComes, Following
  <2>8. PreviewsCome'
    <3>1. screen' = "approval" => j.st = "waiting"
      BY <2>2, <2>3, ScreenIsNotLive
    <3>2. j \in inspections' /\ j.run = view'.run
      BY <2>2, <2>3
    <3> QED
      BY <2>2, <3>1, <3>2 DEF PreviewsCome
  <2> QED
    BY <2>4, <2>5, <2>6, <2>7, <2>8 DEF RunsInv
<1>4. CASE ~R!Wanted(i)
  <2>1. inspections' = inspections \ {i} /\ UNCHANGED <<screen, view, crossed>>
    BY <1>4 DEF R!ApplyView
  <2>2. RunsTypes'
    BY <1>1, <2>1 DEF RunsInv, RunsTypes
  <2>3. Versions' /\ LiveFollows'
    BY <1>1, <2>1 DEF RunsInv, Versions, R!LaunchedAsReviewed, LiveFollows, Following
  <2>4. ViewComes'
    <3>1. \A k : R!Wanted(k)' <=> R!Wanted(k)
      BY <1>1 DEF R!Wanted
    <3> HIDE DEF R!Wanted
    <3> QED
      BY <1>1, <1>4, <2>1, <3>1 DEF RunsInv, ViewComes, Following
  <2>5. PreviewsCome'
    BY <1>1, <2>1 DEF RunsInv, PreviewsCome
  <2> QED
    BY <2>2, <2>3, <2>4, <2>5 DEF RunsInv
<1> QED
  BY <1>3, <1>4

LEMMA ApplyPreviewsStep ==
    ASSUME RunsInv, NEW i \in inspections, R!ApplyPreviews(i)
    PROVE  RunsInv'
<1>1. /\ i.at = "outcome" /\ inspections' = inspections \ {i}
      /\ UNCHANGED <<status, config, diagnosed, reviewed, prompt, activeRun, view, ticket, op, unseen>>
  BY DEF R!ApplyPreviews, R!storeVars, R!launchVars
<1>2. \/ /\ i.st = "waiting" /\ screen' = "approval" /\ previews' = i.run
         /\ crossed' = (crossed \/ view.run # i.run \/ ~R!Idle)
      \/ /\ i.st # "waiting" /\ screen' = IF screen = "approval" THEN "inspect" ELSE screen
         /\ UNCHANGED <<previews, crossed>>
  BY DEF R!ApplyPreviews
<1>3. RunsTypes'
  BY <1>1, <1>2 DEF RunsInv, RunsTypes
<1>4. Versions'
  BY <1>1 DEF RunsInv, Versions, R!LaunchedAsReviewed
<1>5. LiveFollows'
  BY <1>1, <1>2 DEF RunsInv, LiveFollows, Following
<1>6. ViewComes'
  <2>1. \A k : R!Wanted(k)' <=> R!Wanted(k)
    BY <1>1 DEF R!Wanted
  <2>2. crossed \in BOOLEAN /\ (~crossed' => ~crossed)
    BY <1>2 DEF RunsInv, RunsTypes
  <2> HIDE DEF R!Wanted
  <2> QED
    BY <1>1, <2>1, <2>2 DEF RunsInv, ViewComes, Following
<1>7. PreviewsCome'
  BY <1>1, <1>2 DEF RunsInv, PreviewsCome
<1> QED
  BY <1>3, <1>4, <1>5, <1>6, <1>7 DEF RunsInv

\* A step of the operation that leaves the run on the screen alone.
LEMMA OperationStep ==
    ASSUME RunsInv, NEW o \in Operations, op' = o, o.at # "idle" => o.run = op.run, op.at # "idle",
           UNCHANGED prompt, Following' = Following, o.run = op.run \/ ~Following,
           op.at # "outcome",
           UNCHANGED <<reviewed, config, screen, activeRun, view, previews, ticket, inspections, unseen, crossed>>,
           status' \in [Runs -> Statuses], diagnosed' \in Nat, diagnosed' <= config,
           Versions'
    PROVE  RunsInv'
<1>1. RunsTypes'
  BY DEF RunsInv, RunsTypes
<1>2. ViewComes'
  BY DEF RunsInv, ViewComes, R!Wanted
<1>3. LiveFollows' /\ PreviewsCome'
  BY DEF RunsInv, LiveFollows, PreviewsCome
<1> QED
  BY <1>1, <1>2, <1>3 DEF RunsInv

LEMMA NoOpIsOne == R!NoOp \in Operations /\ R!NoOp.at = "idle" /\ R!NoOp.kind = "none"
BY DEF R!NoOp, Operations

LEMMA OpenedAsReviewed ==
    ASSUME RunsInv, R!Opened
    PROVE  RunsInv'
<1> USE NoOpIsOne
<1>1. op \in Operations /\ op.at = "open" /\ ~Following /\ config \in Nat
  BY DEF R!Opened, RunsInv, RunsTypes, Following
<1>2. PICK o : o = op' /\ (o = R!OpenContext \/ o = R!NoOp)
  BY DEF R!Opened
<1>3. o = R!OpenContext => o \in Operations /\ o.at = "opened" /\ o.config = config /\ o.run = op.run
  BY <1>1 DEF R!OpenContext, Operations
<1>4. o \in Operations /\ o.at \in {"opened", "idle"} /\ (o.at # "idle" => o.run = op.run)
  BY <1>2, <1>3
<1>5. Following' = Following
  BY <1>1, <1>2, <1>4 DEF Following
<1>6. UNCHANGED <<status, diagnosed, reviewed, config, screen, prompt, activeRun, view, previews, ticket, inspections, unseen, crossed>>
  BY DEF R!Opened, R!storeVars, R!launchVars
<1>7. Versions'
  BY <1>1, <1>2, <1>3, <1>4, <1>6 DEF RunsInv, Versions, R!LaunchedAsReviewed
<1> QED
  BY <1>1, <1>2, <1>4, <1>5, <1>6, <1>7, OperationStep DEF RunsInv, RunsTypes, Versions

LEMMA CheckReviewStep ==
    ASSUME RunsInv, R!CheckReview
    PROVE  RunsInv'
<1> USE NoOpIsOne
<1>1. op \in Operations /\ op.at = "opened" /\ ~Following /\ config \in Nat /\ reviewed \in Nat
      /\ reviewed <= op.config /\ op.config <= config /\ diagnosed \in Nat /\ diagnosed <= config
  BY DEF R!CheckReview, RunsInv, RunsTypes, Versions, Following
<1>2. UNCHANGED <<status, config, reviewed, screen, prompt, activeRun, view, previews, ticket, inspections, unseen, crossed>>
  BY DEF R!CheckReview, R!storeVars
<1>3. CASE reviewed = config
  <2>1. PICK o : o = [op EXCEPT !.at = "start"]
    OBVIOUS
  <2>2. op' = o /\ diagnosed' = diagnosed
    BY <1>3, <2>1 DEF R!CheckReview, R!SameReview
  <2>3. o \in Operations /\ o.at = "start" /\ o.run = op.run /\ o.config = op.config
    BY <1>1, <2>1 DEF Operations
  <2>4. Following' = Following
    BY <1>1, <2>2, <2>3 DEF Following
  <2>5. op.config \in Nat
    BY <1>1 DEF Operations
  <2>6. Versions'
    BY <1>1, <1>2, <1>3, <2>2, <2>3, <2>5 DEF Versions, R!LaunchedAsReviewed
  <2> QED
    BY <1>1, <1>2, <2>2, <2>3, <2>4, <2>6, OperationStep DEF RunsInv, RunsTypes
<1>4. CASE reviewed # config
  <2>1. op' = R!NoOp /\ diagnosed' = config
    BY <1>4 DEF R!CheckReview, R!SameReview
  <2>2. Following' = Following
    BY <1>1, <2>1 DEF Following
  <2>3. Versions'
    BY <1>1, <1>2, <2>1 DEF RunsInv, Versions, R!LaunchedAsReviewed
  <2> QED
    BY <1>1, <1>2, <2>1, <2>2, <2>3, OperationStep DEF RunsInv, RunsTypes
<1> QED
  BY <1>3, <1>4

LEMMA RunStartedStep ==
    ASSUME RunsInv, R!RunStarted
    PROVE  RunsInv'
<1> USE NoOpIsOne
<1>1. op \in Operations /\ op.at \in {"start", "opened"} /\ ~Following
      /\ (op.at = "opened" => op.kind # "launch")
  BY DEF R!RunStarted, RunsInv, RunsTypes, Following
<1>2. UNCHANGED <<config, diagnosed, reviewed, prompt, view, previews, ticket, inspections, unseen, crossed>>
  BY DEF R!RunStarted, R!launchVars
<1>3. CASE op' = R!NoOp /\ UNCHANGED <<status, live, activeRun, screen>>
  <2>1. Following' = Following
    BY <1>1, <1>3 DEF Following
  <2>2. Versions'
    BY <1>2, <1>3 DEF RunsInv, Versions, R!LaunchedAsReviewed
  <2> QED
    BY <1>1, <1>2, <1>3, <2>1, <2>2, OperationStep DEF RunsInv, RunsTypes, Versions
<1>4. CASE /\ status' = [status EXCEPT ![op.run] = "running"]
           /\ op' = [op EXCEPT !.at = "running"]
           /\ activeRun' = op.run /\ screen' = "live"
  <2>1. /\ op' \in Operations /\ op'.at = "running" /\ op'.run = op.run /\ op'.kind = op.kind
        /\ op'.config = op.config
    BY <1>1, <1>4 DEF Operations
  <2>2. status' \in [Runs -> Statuses]
    BY <1>4 DEF RunsInv, RunsTypes, Statuses
  <2>3. RunsTypes'
    <3>1. op.run \in Runs
      BY <1>1 DEF RunsInv, RunsTypes
    <3> QED
      BY <1>2, <1>4, <2>1, <2>2, <3>1 DEF RunsInv, RunsTypes
  <2>4. Versions'
    BY <1>1, <1>2, <2>1 DEF RunsInv, Versions, R!LaunchedAsReviewed
  <2>5. ViewComes' /\ LiveFollows' /\ PreviewsCome'
    BY <1>4, <2>1 DEF ViewComes, LiveFollows, PreviewsCome, Following
  <2> QED
    BY <2>3, <2>4, <2>5 DEF RunsInv
<1> QED
  BY <1>3, <1>4 DEF R!RunStarted

LEMMA RunEndsStep ==
    ASSUME RunsInv, R!RunEnds
    PROVE  RunsInv'
<1>1. op \in Operations /\ op.at = "running" /\ Following
  BY DEF R!RunEnds, RunsInv, RunsTypes, Following
<1>2. UNCHANGED <<config, diagnosed, reviewed, screen, prompt, activeRun, view, previews, ticket, inspections, unseen, crossed>>
  BY DEF R!RunEnds, R!launchVars
<1>3. op' = [op EXCEPT !.at = "finish"]
  BY DEF R!RunEnds
<1>4. PICK o : o = [op EXCEPT !.at = "finish"]
  OBVIOUS
<1>5. op' = o /\ o \in Operations /\ o.at = "finish" /\ o.run = op.run
  BY <1>1, <1>3, <1>4 DEF Operations
<1>6. Following' = Following
  BY <1>1, <1>5 DEF Following
<1>7. status' \in [Runs -> Statuses]
  BY DEF R!RunEnds, R!Over, RunsInv, RunsTypes, Statuses
<1>8. Versions'
  BY <1>2, <1>5 DEF RunsInv, Versions, R!LaunchedAsReviewed
<1> QED
  BY <1>1, <1>2, <1>5, <1>6, <1>7, <1>8, OperationStep DEF RunsInv, RunsTypes, Versions

LEMMA FinishRunStep ==
    ASSUME RunsInv, R!FinishRun
    PROVE  RunsInv'
<1> USE NoOpIsOne
<1>1. op \in Operations /\ op.at = "finish" /\ Following
  BY DEF R!FinishRun, RunsInv, RunsTypes, Following
<1>2. UNCHANGED <<status, config, diagnosed, reviewed, prompt, activeRun, previews, ticket, inspections, crossed>>
  BY DEF R!FinishRun, R!storeVars, R!launchVars
<1>3. CASE R!Show(op.run, status[op.run]) /\ op' = [op EXCEPT !.at = "outcome"] /\ UNCHANGED unseen
  <2>1. op' \in Operations /\ op'.at = "outcome" /\ op'.run = op.run /\ ~Following'
    BY <1>1, <1>3 DEF Operations, Following
  <2>2. view' = [run |-> op.run, status |-> status[op.run]] /\ screen' = R!ScreenFor(status[op.run])
    BY <1>3 DEF R!Show
  <2>3. op.run \in Runs
    BY <1>1 DEF RunsInv, RunsTypes
  <2>4. status[op.run] \in Statuses
    BY <2>3 DEF RunsInv, RunsTypes
  <2>5. RunsTypes'
    BY <1>2, <1>3, <2>1, <2>2, <2>3, <2>4 DEF RunsInv, RunsTypes
  <2>6. Versions'
    BY <1>2, <2>1 DEF RunsInv, Versions, R!LaunchedAsReviewed
  <2>7. ViewComes'
    BY <1>1, <1>2, <1>3, <2>1, <2>2 DEF RunsInv, ViewComes, R!Wanted
  <2>8. LiveFollows'
    BY <2>2, ScreenIsNotLive DEF LiveFollows
  <2>9. PreviewsCome'
    BY <1>2, <2>1, <2>2, ScreenIsNotLive DEF PreviewsCome
  <2> QED
    BY <2>5, <2>6, <2>7, <2>8, <2>9 DEF RunsInv
<1>4. CASE op' = R!NoOp /\ unseen' = TRUE /\ UNCHANGED <<screen, view>>
  <2>1. RunsTypes'
    BY <1>2, <1>4 DEF RunsInv, RunsTypes
  <2>2. Versions'
    BY <1>2, <1>4 DEF RunsInv, Versions, R!LaunchedAsReviewed
  <2>3. ViewComes' /\ LiveFollows'
    BY <1>4 DEF ViewComes, LiveFollows
  <2>4. PreviewsCome'
    BY <1>1, <1>2, <1>4 DEF RunsInv, PreviewsCome
  <2> QED
    BY <2>1, <2>2, <2>3, <2>4 DEF RunsInv
<1> QED
  BY <1>3, <1>4 DEF R!FinishRun

LEMMA FinishPreviewsStep ==
    ASSUME RunsInv, R!FinishPreviews
    PROVE  RunsInv'
<1> USE NoOpIsOne
<1>1. op \in Operations /\ op.at = "outcome" /\ ~Following /\ op' = R!NoOp /\ ~Following'
  BY DEF R!FinishPreviews, RunsInv, RunsTypes, Following
<1>2. UNCHANGED <<status, config, diagnosed, reviewed, prompt, activeRun, view, ticket, inspections, unseen>>
  BY DEF R!FinishPreviews, R!storeVars, R!launchVars
<1>3. \/ /\ status[op.run] = "waiting" /\ screen' = "approval" /\ previews' = op.run
         /\ crossed' = (crossed \/ view.run # op.run)
      \/ status[op.run] # "waiting" /\ UNCHANGED <<screen, previews, crossed>>
  BY DEF R!FinishPreviews
<1>4. crossed' \in BOOLEAN /\ (~crossed' => ~crossed)
  BY <1>3 DEF RunsInv, RunsTypes
<1>5. RunsTypes'
  BY <1>1, <1>2, <1>4 DEF RunsInv, RunsTypes
<1>6. Versions'
  BY <1>1, <1>2 DEF RunsInv, Versions, R!LaunchedAsReviewed
<1>7. ViewComes'
  BY <1>1, <1>2, <1>4 DEF RunsInv, ViewComes, R!Wanted
<1>8. LiveFollows'
  BY <1>1, <1>2, <1>3 DEF RunsInv, LiveFollows
<1>9. PreviewsCome'
  BY <1>1, <1>2, <1>3 DEF RunsInv, PreviewsCome
<1> QED
  BY <1>5, <1>6, <1>7, <1>8, <1>9 DEF RunsInv

LEMMA RunsHold ==
    /\ R!RunsInit => RunsInv
    /\ RunsInv /\ [R!RunsNext]_runsVars => RunsInv'
<1>1. ASSUME R!RunsInit PROVE RunsInv
  <2>1. RunsTypes
    BY <1>1, NoOpIsOne DEF R!RunsInit, RunsTypes, Statuses, R!NoView
  <2>2. Versions
    BY <1>1, NoOpIsOne DEF R!RunsInit, Versions, R!LaunchedAsReviewed
  <2>3. ViewComes
    BY <1>1, NoOpIsOne DEF R!RunsInit, ViewComes, Following, R!NoView
  <2>4. LiveFollows /\ PreviewsCome
    BY <1>1 DEF R!RunsInit, LiveFollows, PreviewsCome
  <2> QED
    BY <2>1, <2>2, <2>3, <2>4 DEF RunsInv
<1>2. ASSUME RunsInv, [R!RunsNext]_runsVars PROVE RunsInv'
  <2>1. CASE UNCHANGED runsVars
    BY <1>2, <2>1, ScreenStep DEF runsVars, RunsInv, RunsTypes, Versions
  <2>2. ASSUME NEW r \in Runs, R!OpenRun(r) PROVE RunsInv'
    BY <1>2, <2>2, OpenRunStep
  <2>3. ASSUME NEW i \in inspections, R!Inspected(i) \/ R!ApplyView(i) \/ R!ApplyPreviews(i) PROVE RunsInv'
    BY <1>2, <2>3, InspectedStep, ApplyViewStep, ApplyPreviewsStep
  <2> QED
    BY <1>2, <2>1, <2>2, <2>3, LookStep, StartsStep, OpenedAsReviewed, CheckReviewStep, RunStartedStep,
       RunEndsStep, FinishRunStep, FinishPreviewsStep DEF R!RunsNext
<1> QED
  BY <1>1, <1>2

-----------------------------------------------------------------------------
(* The command *)

\* What a write does: the record is there, or the failure of the stream will be known.
Wrote(record) ==
    \/ reader /\ received' = Append(received, record) /\ UNCHANGED <<pending, lost, aborted>>
    \/ /\ ~reader /\ received' = received
       /\ pending' \in BOOLEAN /\ lost' \in BOOLEAN /\ aborted' \in BOOLEAN
       /\ lost' \/ pending'
       /\ pending => pending'
       /\ lost => lost'
       /\ aborted' => aborted \/ lost'

LEMMA WriteWrites ==
    ASSUME CliTypes, Known, NEW record \in Records, C!Write(record)
    PROVE  Wrote(record)
<1>1. CASE lost
  BY <1>1 DEF C!Write, Wrote, CliTypes, Known
<1>2. CASE ~lost
  BY <1>2 DEF C!Write, Wrote, CliTypes, Known
<1> QED
  BY <1>1, <1>2 DEF CliTypes

\* What a write keeps of the types and of what the process knows.
LEMMA WroteKnown ==
    ASSUME CliTypes, Known, NEW record \in Records, Wrote(record), UNCHANGED reader
    PROVE  /\ received' \in Seq(Records) /\ pending' \in BOOLEAN /\ lost' \in BOOLEAN /\ aborted' \in BOOLEAN
           /\ reader' => ~lost' /\ ~pending'
           /\ aborted' => signals > 0 \/ lost'
BY DEF Wrote, CliTypes, Known

\* The records after one was appended.
LEMMA AppendedRecords ==
    ASSUME received \in Seq(Records), NEW record \in Records, received' = Append(received, record)
    PROVE  /\ Len(received') = Len(received) + 1 /\ received' # <<>>
           /\ Len(received) \in Nat /\ DOMAIN received = 1..Len(received)
           /\ DOMAIN received' = 1..(Len(received) + 1)
           /\ \A i \in DOMAIN received : i \in DOMAIN received' /\ received'[i] = received[i] /\ i # Len(received) + 1
           /\ received'[Len(received) + 1] = record
           /\ received # <<>> => Len(received) >= 1
           /\ received = <<>> => Len(received) = 0
BY DEF Records

LEMMA StreamGrows ==
    ASSUME received \in Seq(Records), Stream({}), NEW record \in Records,
           received' = Append(received, record), started',
           (record = "started") <=> (received = <<>>)
    PROVE  /\ record \in {"started", "event"} => Stream({})' /\ received' # <<>>
           /\ record \in Terminals => Stream(Terminals)' /\ received'[Len(received')] \in Terminals /\ received' # <<>>
<1>1. PICK n : n = Len(received)
  OBVIOUS
<1>2. /\ Len(received') = n + 1 /\ received' # <<>> /\ n \in Nat /\ DOMAIN received = 1..n
      /\ DOMAIN received' = 1..(n + 1)
      /\ \A i \in DOMAIN received : received'[i] = received[i] /\ i # n + 1
      /\ received'[n + 1] = record
      /\ received # <<>> => n >= 1
      /\ received = <<>> => n = 0
  BY <1>1, AppendedRecords
<1>3. \A i \in DOMAIN received' : i \in DOMAIN received \/ i = n + 1
  BY <1>2
<1>4. \A i \in DOMAIN received : /\ received'[i] = "started" <=> i = 1
                                 /\ received'[i] \in {"started", "event"}
  BY <1>2 DEF Stream
<1>5. record = "started" <=> n + 1 = 1
  BY <1>2
<1>6. ASSUME record \in {"started", "event"} PROVE Stream({})'
  BY <1>2, <1>3, <1>4, <1>5, <1>6 DEF Stream
<1>7. ASSUME record \in Terminals PROVE Stream(Terminals)' /\ received'[Len(received')] \in Terminals
  BY <1>2, <1>3, <1>4, <1>5, <1>7 DEF Stream, Terminals
<1> QED
  BY <1>2, <1>6, <1>7

\* The operation throws: in a stream that has started the failure is its last record.
LEMMA FailsStep ==
    ASSUME CommandInv, at \in Before, C!Fails, run' # "running", started' = started, appOpen' \in BOOLEAN,
           UNCHANGED <<command, mode, reader, signals, force, cleanup>>
    PROVE  CommandInv'
<1>1. /\ at' = "settled" /\ failure' = TRUE /\ ~failure /\ ~handled /\ exitCode = 0
      /\ handled' = (lost \/ (mode = "jsonl" /\ started))
      /\ exitCode' = IF handled' THEN 1 ELSE 0
  BY DEF C!Fails, CommandInv, Progress
<1>2. \/ handled' /\ Wrote("failed")
      \/ ~handled' /\ UNCHANGED <<received, pending, lost, aborted>>
  <2>1. "failed" \in Records
    BY DEF Records
  <2> QED
    BY <2>1, WriteWrites DEF C!Fails, C!WriteNothing, CommandInv
<1>3. /\ received' \in Seq(Records) /\ pending' \in BOOLEAN /\ lost' \in BOOLEAN /\ aborted' \in BOOLEAN
      /\ reader' => ~lost' /\ ~pending'
      /\ aborted' => signals > 0 \/ lost'
  <2>1. "failed" \in Records
    BY DEF Records
  <2> QED
    BY <1>2, <2>1, WroteKnown DEF CommandInv, CliTypes, Known
<1>4. handled' \in BOOLEAN
  BY <1>1 DEF CommandInv, CliTypes
<1>5. CliTypes'
  BY <1>1, <1>3, <1>4 DEF CommandInv, CliTypes
<1>6. Progress'
  BY <1>1 DEF CommandInv, Progress, Before
<1>7. Known'
  BY <1>1, <1>3 DEF CommandInv, Known
<1>8. Exits'
  BY <1>1 DEF Exits, Before
<1>9. Streamed'
  <2> SUFFICES ASSUME mode = "jsonl"
               PROVE  /\ Stream(Terminals)'
                      /\ reader' /\ started' => received' # <<>> /\ received'[Len(received')] \in Terminals
    BY <1>1 DEF Streamed, Before
  <2>1. Stream({}) /\ (reader /\ started => received # <<>>)
    BY DEF CommandInv, Streamed
  <2>2. CASE received' = received
    <3>1. ~(reader /\ started)
      BY <1>1, <1>2, <2>2, AppendedRecords DEF Wrote, CommandInv, CliTypes, Records
    <3>2. Stream(Terminals)'
      BY <2>1, <2>2 DEF Stream
    <3> QED
      BY <3>1, <3>2
  <2>3. CASE reader /\ handled' /\ received' = Append(received, "failed")
    <3>1. started
      BY <1>1, <2>3 DEF CommandInv, Known
    <3> QED
      BY <2>1, <2>3, <3>1, StreamGrows DEF CommandInv, CliTypes, Records, Terminals
  <2> QED
    BY <1>2, <2>2, <2>3 DEF Wrote
<1> QED
  BY <1>5, <1>6, <1>7, <1>8, <1>9 DEF CommandInv

\* The failures: of the opening, of a run that cannot go on, of a run that is stopped.
LEMMA FailuresStep ==
    ASSUME CommandInv, (C!Open /\ C!Fails) \/ C!Refused \/ C!Throw \/ (C!Report /\ C!Fails)
    PROVE  CommandInv'
<1>1. CASE C!Open /\ C!Fails
  BY <1>1, FailsStep DEF C!Open, C!Fails, CommandInv, CliTypes, Progress, Before
<1>2. CASE C!Refused
  BY <1>2, FailsStep DEF C!Refused, CommandInv, CliTypes, Progress, Before
<1>3. CASE C!Throw
  BY <1>3, FailsStep DEF C!Throw, CommandInv, CliTypes, Progress, Before
<1>4. CASE C!Report /\ C!Fails
  BY <1>4, FailsStep DEF C!Report, CommandInv, CliTypes, Progress, Before
<1> QED
  BY <1>1, <1>2, <1>3, <1>4

LEMMA OpenStep ==
    ASSUME CommandInv, C!Open
    PROVE  CommandInv'
<1>1. CASE at' = "working" /\ appOpen' = TRUE /\ UNCHANGED <<failure, handled, exitCode>> /\ C!WriteNothing
  <2>1. at = "opening" /\ UNCHANGED <<command, mode, run, started, reader, signals, force, cleanup, received, pending,
                                      lost, aborted>>
    BY <1>1 DEF C!Open, C!WriteNothing
  <2>2. CliTypes' /\ Progress' /\ Known' /\ Exits'
    BY <1>1, <2>1 DEF CommandInv, CliTypes, Progress, Known, Exits, Before
  <2>3. Streamed'
    BY <1>1, <2>1 DEF CommandInv, Streamed, Stream, Before
  <2> QED
    BY <2>2, <2>3 DEF CommandInv
<1>2. CASE C!Fails
  BY <1>2, FailuresStep
<1> QED
  BY <1>1, <1>2 DEF C!Open

\* A record of the run is written: the stream goes on.
LEMMA RecordStep ==
    ASSUME CommandInv, at \in Before, at' \in {"working", "reporting"}, NEW record \in {"started", "event"},
           C!WriteJsonl(record), record = "started" <=> ~started, started' \/ mode # "jsonl",
           at = "opening" => started, started' \in BOOLEAN, started => started',
           run' = "running" => at' = "working" /\ started',
           at' = "reporting" => run' \in {"completed", "failed", "waiting"},
           UNCHANGED <<command, mode, appOpen, reader, signals, force, failure, handled, cleanup, exitCode>>
    PROVE  CommandInv'
<1>1. record \in Records
  BY DEF Records
<1>2. \/ mode = "jsonl" /\ Wrote(record)
      \/ mode # "jsonl" /\ UNCHANGED <<received, pending, lost, aborted>>
  BY <1>1, WriteWrites DEF C!WriteJsonl, C!WriteNothing, CommandInv
<1>3. /\ received' \in Seq(Records) /\ pending' \in BOOLEAN /\ lost' \in BOOLEAN /\ aborted' \in BOOLEAN
      /\ reader' => ~lost' /\ ~pending'
      /\ aborted' => signals > 0 \/ lost'
  BY <1>1, <1>2, WroteKnown DEF CommandInv, CliTypes, Known
<1>4. CliTypes'
  BY <1>3 DEF CommandInv, CliTypes, Before
<1>5. Progress'
  BY DEF CommandInv, Progress, Before
<1>6. Known'
  BY <1>3 DEF CommandInv, Known
<1>7. Exits'
  BY DEF Exits, Before
<1>8. Streamed'
  <2> SUFFICES ASSUME mode = "jsonl"
               PROVE  Stream({})' /\ (reader' /\ started' => received' # <<>>)
    BY DEF Streamed, Before
  <2>1. Stream({}) /\ (reader /\ started => received # <<>>)
    BY DEF CommandInv, Streamed
  <2>2. started' = TRUE
    BY DEF CommandInv, CliTypes
  <2>3. CASE reader /\ received' = Append(received, record)
    <3>1. record = "started" <=> received = <<>>
      BY <2>1, <2>3 DEF Stream
    <3> QED
      BY <1>1, <2>1, <2>2, <2>3, <3>1, StreamGrows DEF CommandInv, CliTypes
  <2>4. CASE ~reader /\ received' = received
    BY <2>1, <2>2, <2>4 DEF Stream
  <2> QED
    BY <1>2, <2>3, <2>4 DEF Wrote
<1> QED
  BY <1>4, <1>5, <1>6, <1>7, <1>8 DEF CommandInv

LEMMA RunningStep ==
    ASSUME CommandInv, C!Start \/ C!Event
    PROVE  CommandInv'
<1>1. CASE C!Start
  BY <1>1, RecordStep DEF C!Start, CommandInv, Before
<1>2. CASE C!Event
  BY <1>2, RecordStep DEF C!Event, CommandInv, CliTypes, Progress, Before
<1> QED
  BY <1>1, <1>2

\* A step that leaves the stream as it is.
LEMMA SameStream ==
    ASSUME Streamed, UNCHANGED <<mode, received, started, cleanup>>, reader' => reader,
           \/ at' = at
           \/ at \in Before /\ at' \in Before
           \/ at \in Before /\ at' = "settled" /\ ~reader
           \/ at = "leaving" /\ at' = "ended"
    PROVE  Streamed'
<1>1. ASSUME Stream({}) PROVE Stream({})' /\ Stream(Terminals)'
  BY <1>1 DEF Stream
<1>2. ASSUME Stream(Terminals) PROVE Stream(Terminals)'
  BY <1>2 DEF Stream
<1>3. ASSUME Whole PROVE Whole'
  BY <1>3 DEF Whole
<1> HIDE DEF Stream, Whole
<1>4. CASE mode = "jsonl" /\ at' \in Before
  BY <1>1, <1>4 DEF Streamed, Before
<1>5. CASE mode = "jsonl" /\ at' = "settled"
  BY <1>1, <1>2, <1>5 DEF Streamed, Before
<1>6. CASE mode = "jsonl" /\ at' \in {"leaving", "ended"}
  BY <1>3, <1>6 DEF Streamed, Before
<1> QED
  BY <1>4, <1>5, <1>6 DEF Streamed

\* The run ends; what follows asks first whether the stream is known to have failed.
LEMMA FinishStep ==
    ASSUME CommandInv, C!Finish
    PROVE  CommandInv'
<1>1. /\ at = "working" /\ run = "running" /\ started
      /\ UNCHANGED <<command, mode, appOpen, started, events, received, reader, pending, lost,
                     aborted, signals, force, failure, handled, cleanup>>
      /\ run' \in {"completed", "failed", "waiting", "cancelled"}
      /\ run' = "cancelled" => aborted
  BY DEF C!Finish, CommandInv, Progress
<1>2. \/ at' = "settled" /\ lost /\ command # "review" /\ exitCode' = 1
      \/ at' = "reporting" /\ (lost => command = "review") /\ exitCode' = exitCode
  BY DEF C!Finish, C!AfterRun
<1>3. CliTypes'
  BY <1>1, <1>2 DEF CommandInv, CliTypes, Before
<1>4. Progress'
  BY <1>1, <1>2 DEF CommandInv, Progress, Before
<1>5. Known'
  BY <1>1, <1>2 DEF CommandInv, Known, Progress, Before
<1>6. Exits'
  BY <1>1, <1>2 DEF CommandInv, Exits, Known, Before
<1>7. Streamed'
  BY <1>1, <1>2, SameStream DEF CommandInv, Known, Before
<1> QED
  BY <1>3, <1>4, <1>5, <1>6, <1>7 DEF CommandInv

LEMMA AlreadyStep ==
    ASSUME CommandInv, C!Already
    PROVE  CommandInv'
<1>1. /\ at = "working" /\ run = "completed" /\ ~started /\ started' = (mode = "jsonl") /\ C!WriteJsonl("started")
      /\ UNCHANGED <<command, mode, run, appOpen, events, reader, signals, force, failure, handled, cleanup>>
      /\ ~failure /\ ~handled /\ exitCode = 0
  BY DEF C!Already, CommandInv, Progress, Before
<1>2. started' \in BOOLEAN
  BY <1>1
<1>3. CASE ~lost'
  <2>1. at' = "reporting" /\ exitCode' = exitCode
    BY <1>3 DEF C!Already
  <2> QED
    BY <1>1, <1>2, <2>1, RecordStep DEF Before
<1>4. CASE lost'
  <2>1. at' = "settled" /\ exitCode' = 1
    BY <1>4 DEF C!Already
  <2>2. \/ mode = "jsonl" /\ Wrote("started")
        \/ mode # "jsonl" /\ UNCHANGED <<received, pending, lost, aborted>>
    BY <1>1, WriteWrites DEF C!WriteJsonl, C!WriteNothing, CommandInv, Records
  <2>3. /\ received' \in Seq(Records) /\ pending' \in BOOLEAN /\ lost' \in BOOLEAN /\ aborted' \in BOOLEAN
        /\ reader' => ~lost' /\ ~pending'
        /\ aborted' => signals > 0 \/ lost'
    <3>1. "started" \in Records
      BY DEF Records
    <3> QED
      BY <1>1, <2>2, <3>1, WroteKnown DEF CommandInv, CliTypes, Known
  <2>4. ~reader /\ received' = received
    BY <1>1, <1>4, <2>2, <2>3 DEF Wrote
  <2>5. CliTypes'
    BY <1>1, <1>2, <2>1, <2>3 DEF CommandInv, CliTypes
  <2>6. Progress'
    BY <1>1, <2>1 DEF CommandInv, Progress, Before
  <2>7. Known'
    BY <1>1, <2>1, <2>3 DEF CommandInv, Known
  <2>8. Exits'
    BY <1>1, <2>1 DEF Exits, Before
  <2>9. Streamed'
    BY <1>1, <2>1, <2>4 DEF CommandInv, Streamed, Stream, Before
  <2> QED
    BY <2>5, <2>6, <2>7, <2>8, <2>9 DEF CommandInv
<1> QED
  BY <1>3, <1>4

\* The run is printed; a failed or cancelled run sets the exit code.
LEMMA ReportStep ==
    ASSUME CommandInv, C!Report
    PROVE  CommandInv'
<1>1. CASE at' = "settled" /\ C!Write(C!Terminal) /\ exitCode' = C!ExitOf /\ UNCHANGED <<failure, handled>>
  <2>1. /\ at = "reporting" /\ run \in {"completed", "failed", "waiting", "cancelled"}
        /\ mode = "jsonl" => started
        /\ UNCHANGED <<command, mode, run, appOpen, started, events, reader, signals, force, cleanup>>
        /\ ~failure /\ ~handled /\ exitCode = 0
    BY DEF C!Report, CommandInv, Progress, Before
  <2>2. /\ C!Terminal \in Records /\ (mode = "jsonl" => C!Terminal = "finished") /\ C!Terminal' = C!Terminal
    BY <2>1 DEF C!Terminal, Records
  <2>3. PICK record \in Records : record = C!Terminal
    BY <2>2
  <2>4. Wrote(record)
    BY <1>1, <2>3, WriteWrites DEF CommandInv
  <2>5. /\ received' \in Seq(Records) /\ pending' \in BOOLEAN /\ lost' \in BOOLEAN /\ aborted' \in BOOLEAN
        /\ reader' => ~lost' /\ ~pending'
        /\ aborted' => signals > 0 \/ lost'
    BY <2>1, <2>4, WroteKnown DEF CommandInv
  <2>6. /\ command # "review" /\ run = "failed" => exitCode' = 1
        /\ command # "review" /\ run = "cancelled" => exitCode' = 130
        /\ exitCode' = 130 => command # "review" /\ run = "cancelled"
    BY <1>1, <2>1 DEF C!ExitOf, C!ExitOfReview
  <2>7. CliTypes'
    BY <1>1, <2>1, <2>5 DEF CommandInv, CliTypes
  <2>8. Progress'
    BY <1>1, <2>1 DEF CommandInv, Progress, Before
  <2>9. Known'
    BY <1>1, <2>1, <2>5, <2>6 DEF CommandInv, Known
  <2>10. Exits'
    <3>1. lost' \/ pending' \/ Delivered'
      <4>1. CASE reader /\ received' = Append(received, record)
        <5>1. Len(received) + 1 \in DOMAIN received' /\ received'[Len(received) + 1] = record
          BY <4>1, AppendedRecords DEF CommandInv, CliTypes
        <5> QED
          BY <2>2, <2>3, <5>1 DEF Delivered
      <4> QED
        BY <2>4, <4>1 DEF Wrote
    <3> QED
      BY <1>1, <2>1, <2>6, <3>1 DEF Exits, Done, Before
  <2>11. Streamed'
    <3> SUFFICES ASSUME mode = "jsonl"
                 PROVE  /\ Stream(Terminals)'
                        /\ reader' /\ started' => received' # <<>> /\ received'[Len(received')] \in Terminals
      BY <1>1, <2>1 DEF Streamed, Before
    <3>1. Stream({}) /\ (reader /\ started => received # <<>>) /\ started /\ record = "finished"
      BY <2>1, <2>2, <2>3 DEF CommandInv, Streamed, Before
    <3>2. CASE reader /\ received' = Append(received, record)
      BY <2>1, <3>1, <3>2, StreamGrows DEF CommandInv, CliTypes, Terminals
    <3>3. CASE ~reader /\ received' = received
      BY <2>1, <3>1, <3>3 DEF Stream
    <3> QED
      BY <2>4, <3>2, <3>3 DEF Wrote
  <2> QED
    BY <2>7, <2>8, <2>9, <2>10, <2>11 DEF CommandInv
<1>2. CASE C!Fails
  BY <1>2, FailuresStep
<1> QED
  BY <1>1, <1>2 DEF C!Report

\* A stream that is whole, with the error of its own that may follow.
LEMMA LeavesWhole ==
    ASSUME CliTypes, mode = "jsonl", Stream(Terminals), UNCHANGED <<started, reader>>,
           reader /\ started => received # <<>> /\ received[Len(received)] \in Terminals,
           \/ received' = received
           \/ received' = Append(received, "error") /\ (cleanup' \/ ~started)
    PROVE  Whole'
<1>1. PICK n : n = Len(received)
  OBVIOUS
<1>2. n \in Nat /\ DOMAIN received = 1..n /\ (received = <<>> <=> n = 0)
  BY <1>1 DEF CliTypes
<1>3. \A i \in DOMAIN received : /\ received[i] = "started" <=> i = 1
                                 /\ received[i] # "error"
                                 /\ received[i] \in Terminals => i = n
  BY <1>1 DEF Stream, Terminals
<1>4. ~started => n = 0
  BY <1>2 DEF Stream
<1>5. CASE received' = received
  <2>1. received' # <<>> => received'[1] = "started"
    BY <1>2, <1>3, <1>5
  <2>2. ASSUME NEW i \in DOMAIN received'
        PROVE  /\ received'[i] = "started" => i = 1
               /\ received'[i] = "error" => cleanup' \/ (i = 1 /\ ~started')
               /\ received'[i] \in Terminals => \A j \in i + 1..Len(received') : received'[j] = "error" /\ cleanup'
    BY <1>1, <1>2, <1>3, <1>5, <2>2
  <2>3. reader' /\ started' => \E i \in DOMAIN received' : received'[i] \in Terminals
    BY <1>1, <1>2, <1>5
  <2> QED
    BY <2>1, <2>2, <2>3 DEF Whole
<1>6. CASE received' = Append(received, "error") /\ (cleanup' \/ ~started)
  <2>1. /\ Len(received') = n + 1 /\ DOMAIN received' = 1..(n + 1)
        /\ \A i \in DOMAIN received : received'[i] = received[i] /\ i \in DOMAIN received' /\ i # n + 1
        /\ received'[n + 1] = "error"
    <3>1. "error" \in Records
      BY DEF Records
    <3> QED
      BY <1>1, <1>6, <3>1, AppendedRecords DEF CliTypes
  <2>2. received'[1] \in {"started", "error"}
    BY <1>2, <1>3, <2>1
  <2>3. ASSUME NEW i \in DOMAIN received'
        PROVE  /\ received'[i] = "started" => i = 1
               /\ received'[i] = "error" => cleanup' \/ (i = 1 /\ ~started')
               /\ received'[i] \in Terminals => \A j \in i + 1..Len(received') : received'[j] = "error" /\ cleanup'
    <3>1. CASE i = n + 1
      BY <1>2, <1>4, <1>6, <2>1, <3>1 DEF Terminals
    <3>2. CASE i \in DOMAIN received
      <4>1. received[i] \in Terminals => i = n /\ started
        BY <1>2, <1>3, <1>4, <3>2
      <4> QED
        BY <1>2, <1>3, <1>6, <2>1, <3>2, <4>1
    <3> QED
      BY <1>2, <2>1, <3>1, <3>2
  <2>4. reader' /\ started' => \E i \in DOMAIN received' : received'[i] \in Terminals
    BY <1>1, <1>2, <2>1
  <2> QED
    BY <2>2, <2>3, <2>4 DEF Whole
<1> QED
  BY <1>5, <1>6

\* What was delivered stays so.
LEMMA StaysDelivered ==
    ASSUME CliTypes, UNCHANGED mode, Delivered,
           received' = received \/ received' = Append(received, "error")
    PROVE  Delivered'
<1>1. C!Terminal' = C!Terminal
  BY DEF C!Terminal
<1>2. PICK i \in DOMAIN received : received[i] = C!Terminal
  BY DEF Delivered
<1>3. CASE received' = received
  BY <1>1, <1>2, <1>3 DEF Delivered
<1>4. CASE received' = Append(received, "error")
  <2>1. "error" \in Records
    BY DEF Records
  <2>2. i \in DOMAIN received' /\ received'[i] = received[i]
    BY <1>2, <1>4, <2>1, AppendedRecords DEF CliTypes
  <2> QED
    BY <1>1, <1>2, <2>2 DEF Delivered
<1> QED
  BY <1>3, <1>4

LEMMA LeaveStep ==
    ASSUME CommandInv, C!Leave
    PROVE  CommandInv'
<1>1. /\ at = "settled" /\ appOpen' = FALSE /\ cleanup' \in BOOLEAN /\ at' \in {"leaving", "ended"}
      /\ UNCHANGED <<command, mode, run, started, events, reader, lost, aborted, signals, force, failure, handled>>
  BY DEF C!Leave
<1>2. \/ /\ at' = "leaving" /\ ~lost /\ C!Thrown /\ mode # "human" /\ exitCode' = 1
         /\ received' = (IF reader THEN Append(received, "error") ELSE received)
         /\ pending' = (pending \/ ~reader)
      \/ /\ at' = "leaving" /\ UNCHANGED <<received, pending>>
         /\ lost \/ C!Thrown \/ force \/ exitCode' = exitCode
         /\ lost \/ C!Thrown => exitCode' = 1
         /\ ~lost /\ ~C!Thrown /\ force => exitCode' = 130
      \/ at' = "ended" /\ force /\ exitCode' = 130 /\ UNCHANGED <<received, pending>>
  BY DEF C!Leave, CommandInv, CliTypes
<1>3. received' \in Seq(Records) /\ pending' \in BOOLEAN /\ (reader => ~pending')
      /\ received' \in {received, Append(received, "error")}
  <2>1. "error" \in Records
    BY DEF Records
  <2>2. Append(received, "error") \in Seq(Records)
    BY <2>1 DEF CommandInv, CliTypes
  <2>3. received' \in {received, Append(received, "error")}
    BY <1>2
  <2>4. pending' \in BOOLEAN /\ (reader => ~pending')
    <3>1. pending \in BOOLEAN /\ (reader => ~pending)
      BY DEF CommandInv, CliTypes, Known
    <3>2. CASE pending' = (pending \/ ~reader)
      <4>1. (pending \/ ~reader) \in BOOLEAN
        OBVIOUS
      <4>2. pending' \in BOOLEAN
        BY <3>2, <4>1, Zenon
      <4> QED
        BY <3>1, <3>2, <4>2
    <3>3. CASE pending' = pending
      BY <3>1, <3>3
    <3> QED
      BY <1>2, <3>2, <3>3
  <2> QED
    BY <2>2, <2>3, <2>4 DEF CommandInv, CliTypes
<1>4. CliTypes'
  BY <1>1, <1>3 DEF CommandInv, CliTypes
<1>5. Progress'
  BY <1>1 DEF CommandInv, Progress, Before
<1>6. exitCode' = 130 => signals > 0
  BY <1>2 DEF CommandInv, Known
<1>7. Known'
  BY <1>1, <1>3, <1>6 DEF CommandInv, Known
<1>8. Exits'
  <2>1. ASSUME at' = "leaving", exitCode' = 0, command # "review"
        PROVE  run \in {"completed", "waiting"} /\ (mode # "human" => (Delivered \/ pending)')
    <3>1. ~lost /\ ~C!Thrown /\ ~force /\ exitCode = 0 /\ UNCHANGED <<received, pending>>
      BY <1>2, <2>1
    <3>2. ~(failure /\ ~handled)
      BY <3>1 DEF C!Thrown
    <3>3. Done
      BY <1>1, <2>1, <3>1, <3>2 DEF CommandInv, Exits
    <3>4. Delivered => Delivered'
      BY <1>1, <3>1, StaysDelivered DEF CommandInv
    <3> QED
      BY <3>1, <3>3, <3>4 DEF Done
  <2>2. ASSUME run = "cancelled", command # "review", reader, ~failure, ~cleanup'
        PROVE  exitCode' = 130
    <3>1. exitCode = 130 /\ ~lost /\ ~C!Thrown
      BY <1>1, <2>2 DEF CommandInv, Exits, Known, Progress, C!Thrown, Before
    <3> QED
      BY <1>2, <3>1
  <2>3. at' = "ended" => exitCode' # 0
    BY <1>2
  <2> QED
    BY <1>1, <2>1, <2>2, <2>3 DEF Exits, Done, Before
<1>9. Streamed'
  <2> SUFFICES ASSUME mode = "jsonl" PROVE Whole'
    BY <1>1 DEF Streamed, Before
  <2>1. Stream(Terminals) /\ (reader /\ started => received # <<>> /\ received[Len(received)] \in Terminals)
    BY <1>1 DEF CommandInv, Streamed
  <2>2. \/ received' = received
        \/ received' = Append(received, "error") /\ (cleanup' \/ ~started)
    BY <1>2 DEF C!Thrown, CommandInv, Progress
  <2> QED
    BY <1>1, <2>1, <2>2, LeavesWhole DEF CommandInv
<1> QED
  BY <1>4, <1>5, <1>7, <1>8, <1>9 DEF CommandInv

LEMMA ProcessExitStep ==
    ASSUME CommandInv, C!Exit
    PROVE  CommandInv'
<1>1. /\ at = "leaving" /\ ~pending /\ at' = "ended"
      /\ UNCHANGED <<command, mode, run, appOpen, started, events, received, reader, pending, lost,
                     aborted, signals, force, failure, handled, cleanup, exitCode>>
  BY DEF C!Exit
<1>2. CliTypes' /\ Progress' /\ Known'
  <2>1. CliTypes'
    BY <1>1 DEF CommandInv, CliTypes, Before
  <2>2. Progress'
    BY <1>1 DEF CommandInv, Progress, Before
  <2>3. Known'
    BY <1>1 DEF CommandInv, Known, Progress, Before
  <2> QED
    BY <2>1, <2>2, <2>3
<1>3. Exits'
  <2>1. Delivered' <=> Delivered
    BY <1>1 DEF Delivered, C!Terminal
  <2> QED
    BY <1>1, <2>1 DEF CommandInv, Exits, Done, Before
<1>4. Streamed'
  BY <1>1, SameStream DEF CommandInv
<1> QED
  BY <1>2, <1>3, <1>4 DEF CommandInv

LEMMA SignalStep ==
    ASSUME CommandInv, C!Signal
    PROVE  CommandInv'
<1>1. /\ at # "ended" /\ signals' = signals + 1
      /\ UNCHANGED <<command, mode, run, appOpen, started, events, received, reader, pending, lost,
                     failure, handled, cleanup>>
  BY DEF C!Signal
<1>2. \/ at # "leaving" /\ aborted' = TRUE /\ force' = (signals > 0) /\ UNCHANGED <<at, exitCode>>
      \/ at = "leaving" /\ at' = "ended" /\ exitCode' = 130 /\ UNCHANGED <<aborted, force>>
  BY <1>1 DEF C!Signal, C!Listening
<1>3. signals' > 0 /\ signals' \in Nat
  BY <1>1 DEF CommandInv, CliTypes
<1>4. CliTypes' /\ Progress' /\ Known'
  <2>1. CliTypes'
    <3>1. (signals > 0) \in BOOLEAN
      OBVIOUS
    <3>2. force' \in BOOLEAN /\ aborted' \in BOOLEAN
      BY <1>2, <3>1 DEF CommandInv, CliTypes
    <3> QED
      BY <1>1, <1>2, <1>3, <3>2 DEF CommandInv, CliTypes, Before
  <2>2. Progress'
    BY <1>1, <1>2, <1>3 DEF CommandInv, Progress, Before
  <2>3. Known'
    BY <1>1, <1>2, <1>3 DEF CommandInv, Known, Progress, Before
  <2> QED
    BY <2>1, <2>2, <2>3
<1>5. Exits'
  <2>1. Delivered' <=> Delivered
    BY <1>1 DEF Delivered, C!Terminal
  <2> QED
    BY <1>1, <1>2, <2>1 DEF CommandInv, Exits, Done, Before
<1>6. Streamed'
  BY <1>1, <1>2, SameStream DEF CommandInv
<1> QED
  BY <1>4, <1>5, <1>6 DEF CommandInv

LEMMA ReaderGoesStep ==
    ASSUME CommandInv, C!ReaderGoes
    PROVE  CommandInv'
<1>1. /\ reader' = FALSE
      /\ UNCHANGED <<command, mode, at, run, appOpen, started, events, received, pending, lost,
                     aborted, signals, force, failure, handled, cleanup, exitCode>>
  BY DEF C!ReaderGoes
<1>2. CliTypes' /\ Progress' /\ Known'
  <2>1. CliTypes'
    BY <1>1 DEF CommandInv, CliTypes, Before
  <2>2. Progress'
    BY <1>1 DEF CommandInv, Progress, Before
  <2>3. Known'
    BY <1>1 DEF CommandInv, Known, Progress, Before
  <2> QED
    BY <2>1, <2>2, <2>3
<1>3. Exits'
  <2>1. Delivered' <=> Delivered
    BY <1>1 DEF Delivered, C!Terminal
  <2> QED
    BY <1>1, <2>1 DEF CommandInv, Exits, Done
<1>4. Streamed'
  BY <1>1, SameStream DEF CommandInv
<1> QED
  BY <1>2, <1>3, <1>4 DEF CommandInv

LEMMA StreamErrorStep ==
    ASSUME CommandInv, C!StreamError
    PROVE  CommandInv'
<1>1. /\ pending /\ at # "ended" /\ pending' = FALSE /\ ~reader
      /\ UNCHANGED <<command, mode, run, appOpen, started, events, received, reader, signals, force,
                     failure, handled, cleanup>>
  BY DEF C!StreamError, CommandInv, Known
<1>2. \/ at # "leaving" /\ lost' = TRUE /\ aborted' = TRUE /\ UNCHANGED <<at, exitCode>>
      \/ at = "leaving" /\ at' = "ended" /\ exitCode' = 1 /\ UNCHANGED <<lost, aborted>>
      \/ at = "leaving" /\ mode = "human" /\ UNCHANGED <<lost, aborted, at, exitCode>>
  BY <1>1 DEF C!StreamError, C!Listening
<1>3. CliTypes' /\ Progress' /\ Known'
  <2>1. CliTypes'
    BY <1>1, <1>2 DEF CommandInv, CliTypes, Before
  <2>2. Progress'
    BY <1>1, <1>2 DEF CommandInv, Progress, Before
  <2>3. Known'
    BY <1>1, <1>2 DEF CommandInv, Known, Progress, Before
  <2> QED
    BY <2>1, <2>2, <2>3
<1>4. Exits'
  BY <1>1, <1>2 DEF CommandInv, Exits, Done, Before
<1>5. Streamed'
  BY <1>1, <1>2, SameStream DEF CommandInv
<1> QED
  BY <1>3, <1>4, <1>5 DEF CommandInv

LEMMA CommandHolds ==
    /\ C!CliInit => CommandInv
    /\ CommandInv /\ [C!CliNext]_cliVars => CommandInv'
<1>1. ASSUME C!CliInit PROVE CommandInv
  <2>1. CliTypes
    <3>1. received \in Seq(Records) /\ at = "opening" /\ signals = 0
      BY <1>1 DEF C!CliInit
    <3>2. /\ appOpen = FALSE /\ started = FALSE /\ reader = TRUE /\ pending = FALSE /\ lost = FALSE /\ aborted = FALSE
          /\ force = FALSE /\ failure = FALSE /\ handled = FALSE /\ cleanup = FALSE
      BY <1>1 DEF C!CliInit
    <3> QED
      BY <3>1, <3>2 DEF CliTypes, Before
  <2>2. Progress /\ Known /\ Exits
    BY <1>1 DEF C!CliInit, Progress, Known, Exits, Before
  <2>3. Streamed
    BY <1>1 DEF C!CliInit, Streamed, Stream, Before
  <2> QED
    BY <2>1, <2>2, <2>3 DEF CommandInv
<1>2. ASSUME CommandInv, [C!CliNext]_cliVars PROVE CommandInv'
  <2>1. CASE UNCHANGED cliVars
    <3>1. Delivered' <=> Delivered
      BY <2>1 DEF cliVars, Delivered, C!Terminal
    <3>2. Streamed'
      BY <1>2, <2>1, SameStream DEF cliVars, CommandInv
    <3>3. CliTypes' /\ Progress' /\ Known'
      BY <1>2, <2>1 DEF cliVars, CommandInv, CliTypes, Progress, Known
    <3>4. Exits'
      BY <1>2, <2>1, <3>1 DEF cliVars, CommandInv, Exits, Done
    <3> QED
      BY <3>2, <3>3, <3>4 DEF CommandInv
  <2> QED
    BY <1>2, <2>1, OpenStep, RunningStep, FailuresStep, FinishStep, AlreadyStep, ReportStep, LeaveStep, ProcessExitStep,
       SignalStep, ReaderGoesStep, StreamErrorStep DEF C!CliNext
<1> QED
  BY <1>1, <1>2

\* The process never ends under a run, the stream is whole and the exit code true.
LEMMA CommandIsTrue == CommandInv => C!CliInv
<1> SUFFICES ASSUME CommandInv PROVE C!JoinedFirst /\ C!StreamIsWhole /\ C!ExitIsTrue
  BY DEF C!CliInv
<1>1. C!JoinedFirst
  BY DEF CommandInv, Progress, C!JoinedFirst
<1>2. C!ExitIsTrue
  BY DEF CommandInv, Exits, Known, Before, Delivered, C!ExitIsTrue
<1>3. C!StreamIsWhole
  <2> SUFFICES ASSUME mode = "jsonl"
               PROVE  /\ received # <<>> => received[1] \in {"started", "error"}
                      /\ \A i \in DOMAIN received :
                           /\ received[i] = "started" => i = 1
                           /\ received[i] = "error" => cleanup \/ (i = 1 /\ ~started)
                           /\ received[i] \in {"finished", "failed"} =>
                                \A j \in i + 1..Len(received) : received[j] = "error" /\ cleanup
                      /\ at = "ended" /\ reader /\ started => \E i \in DOMAIN received : received[i] \in {"finished", "failed"}
    BY DEF C!StreamIsWhole
  <2>1. CASE at \in {"leaving", "ended"}
    BY <2>1 DEF CommandInv, Streamed, Whole, Terminals
  <2>2. CASE at \notin {"leaving", "ended"}
    <3>1. Stream({}) \/ Stream(Terminals)
      BY <2>2 DEF CommandInv, CliTypes, Streamed, Before
    <3>2. \A i \in DOMAIN received :
            /\ received[i] = "started" <=> i = 1
            /\ received[i] \in {"started", "event"} \/ (i = Len(received) /\ received[i] \in Terminals)
      BY <3>1 DEF Stream
    <3>3. received # <<>> => 1 \in DOMAIN received
      BY DEF CommandInv, CliTypes
    <3>4. Len(received) \in Nat /\ DOMAIN received = 1..Len(received)
      BY DEF CommandInv, CliTypes
    <3> QED
      BY <2>2, <3>2, <3>3, <3>4 DEF Terminals
  <2> QED
    BY <2>1, <2>2
<1> QED
  BY <1>1, <1>2, <1>3

-----------------------------------------------------------------------------
(* The parts together *)

Parts == {"lifecycle", "setup", "runs", "cli"}

\* What a part keeps it keeps whichever is chosen: the others do not touch it.
LEMMA PartsHold == Spec => [](part \in Parts /\ SetupInv /\ RunsInv /\ CommandInv)
<1>1. Init => part \in Parts /\ SetupInv /\ RunsInv /\ CommandInv
  BY SetupHolds, RunsHold, CommandHolds DEF Init, Parts
<1>2. (part \in Parts /\ SetupInv /\ RunsInv /\ CommandInv) /\ [Next]_vars
        => (part \in Parts /\ SetupInv /\ RunsInv /\ CommandInv)'
  <2> SUFFICES ASSUME part \in Parts, SetupInv, RunsInv, CommandInv, [Next]_vars
               PROVE  (part \in Parts /\ SetupInv /\ RunsInv /\ CommandInv)'
    OBVIOUS
  <2>1. part' = part
    BY DEF Next, vars
  <2>2. /\ [S!SetupStep]_setupVars
        /\ [R!RunsNext]_runsVars
        /\ [C!CliNext]_cliVars
    BY DEF Next, vars
  <2>3. SetupInv' /\ RunsInv' /\ CommandInv'
    BY <2>2, SetupHolds, RunsHold, CommandHolds
  <2> QED
    BY <2>1, <2>3
<1> QED
  BY <1>1, <1>2, PTL DEF Spec

\* Of every part: the stores of the lifecycle are of their types, one is open and
\* it is the folder's (lifecycle.ts); the review of the wizard is complete and Save
\* writes what is shown (reduce.ts); a run is launched as it was reviewed and
\* the run, the previews and the live screen are those of the run opened
\* last (shell-controller.tsx); a command ends after its run, with its stream whole
\* and its exit code true (cli/commands/common.ts).
THEOREM InvHolds == Spec => []Inv
<1>1. LifeTypes => LifeTypeOK
  BY DEF LifeTypes, Types, Room, LifeTypeOK, StoreStates
<1>2. SetupInv => S!ReviewIsComplete /\ S!SavedIsShown
  BY DEF SetupInv, ReviewedComplete, S!ReviewIsComplete
<1>3. RunsInv => R!LaunchedAsReviewed /\ R!ViewIsOfActiveRun /\ R!LiveHasOperation /\ R!PreviewsOfView
  <2> SUFFICES ASSUME RunsInv
               PROVE  R!LaunchedAsReviewed /\ R!ViewIsOfActiveRun /\ R!LiveHasOperation /\ R!PreviewsOfView
    OBVIOUS
  <2>1. R!Idle => op.at = "idle" /\ ~Following
    BY DEF R!Idle, R!NoOp, Following
  <2>2. R!LaunchedAsReviewed
    BY DEF RunsInv, Versions
  <2>3. R!ViewIsOfActiveRun
    BY <2>1 DEF RunsInv, ViewComes, R!ViewIsOfActiveRun
  <2>4. R!LiveHasOperation
    BY <2>1 DEF RunsInv, LiveFollows, R!LiveHasOperation
  <2>5. R!PreviewsOfView
    BY <2>1 DEF RunsInv, PreviewsCome, R!PreviewsOfView
  <2> QED
    BY <2>2, <2>3, <2>4, <2>5
<1>4. /\ part \in Parts /\ SetupInv /\ RunsInv /\ CommandInv /\ LifeTypes
      /\ OneContext /\ ContextFollowsFolder /\ ClosedAtTheEnd
      => Inv
  BY <1>1, <1>2, <1>3, CommandIsTrue DEF Inv, Parts
<1> QED
  BY <1>4, PartsHold, LifeTypesHold, OneContextHolds, PTL
=============================================================================
