---------------------------- MODULE PeerTransfer ----------------------------
(***************************************************************************)
(* Handing a project over from the web launcher of one device to that of   *)
(* another: the transfer capability of the launcher                        *)
(* (src/src/cli/commands/web-transfer.ts), the peer transport and the      *)
(* resumable download (src/src/web/peer-transport.ts), the receiver        *)
(* (src/src/application/project-transfer.ts), the journal of each device   *)
(* and the ownership in its catalog.                                       *)
(*                                                                         *)
(* A has the project and B receives it.  The launcher of each device may   *)
(* have the project open, and then holds the lease of its data directory;  *)
(* the transfer needs that lease too.  Export and import are one step      *)
(* here, module Portability has theirs.  Request and transfer ids go       *)
(* together, as the browser makes them.  The devices are paired, B has the *)
(* project registered, and the files of a package are fetched as one.      *)
(*                                                                         *)
(* What B fetches are the files the manifest of the package lists, not the *)
(* manifest itself, and the preview of the import reads it: the receiver   *)
(* always fails there, so what the code would do next is no part of this   *)
(* module.                                                                 *)
(*                                                                         *)
(* The other way a project changes device, the commands of the terminal    *)
(* (module Portability), is checked beside this one: `way` is chosen once, *)
(* and the variables of the other keep their initial values.               *)
(***************************************************************************)
EXTENDS Naturals, Sequences, SequencesExt

CONSTANTS
    Transfers,
    Calls,        \* bound: start and resume requests
    Size,         \* ranges the file of a package is fetched in
    MaxContent,   \* bound: versions of the project's data
    MaxFaults,    \* bound: failures and crashes
    None,
    Requests, Heads, Processes, MaxDirs, MaxChanges    \* Portability

Devices == {"A", "B"}
Contents == 0..MaxContent

VARIABLES
    host,      \* the launcher's project: "open" (active), "closing" or "closed"
    source,    \* A's dataset: [state, content, for], for the transfer that froze it
    target,    \* the database B's configuration leads to: "absent" or "active"
    owner,     \* owner[v]: the status in the catalog of device v
    prepared,  \* prepared[t]: the content of the preview A's launcher remembers
    package,   \* package[t]: the content of the package A published
    journal,   \* journal[v][t]: the record of device v
    file,      \* file[t]: what B has of the package, a range is "data" or "zero"
    call,      \* call[c]: a request to A's launcher, see NoCall
    recv,      \* recv[c]: what B's receiver does for call c, see NoRecv
    faults,
    way,       \* "launchers" or "commands"
    dir, config, published, imported, op, orphaned, repo, broken   \* Portability

vars == <<host, source, target, owner, prepared, package, journal, file, call, recv, faults>>
disk == <<source, target, owner, package, journal, file>>

P == INSTANCE Portability WITH Devices <- {"A", "B"}, Home <- "A", MaxContent <- MaxChanges,
                               package <- published, faults <- broken

commandVars == <<dir, config, published, imported, op, orphaned, repo, broken>>

\* The bounds are numbers, and None stands for nothing else.
ASSUME TransferAssumption ==
    /\ MaxDirs \in Nat \ {0}
    /\ Size \in Nat /\ MaxContent \in Nat /\ MaxChanges \in Nat /\ MaxFaults \in Nat
    /\ None \notin Requests \cup Transfers \cup P!Dirs \cup P!Digest \cup 0..MaxContent

NoCall == [kind |-> "none", t |-> None, step |-> "none"]
NoRecv == [step |-> "none", bytes |-> 0, pos |-> 0]
Asked(bytes) == [step |-> "asked", bytes |-> bytes, pos |-> 0]
NoRecord == [stage |-> None, sent |-> 0, received |-> 0]

HoldsA == {"exporting", "owning"}
HoldsB == {"checking"}
Over == {"none", "done", "failed"}

TypeOK ==
    /\ host \in [Devices -> {"open", "closing", "closed"}]
    /\ source \in [state : {"active", "exporting", "exported"}, content : Contents,
                   for : Transfers \cup {None}]
    /\ target \in {"absent", "active"}
    /\ owner \in [Devices -> {"active", "exported"}]
    /\ prepared \in [Transfers -> Contents \cup {None}]
    /\ package \in [Transfers -> Contents \cup {None}]
    /\ journal \in [Devices -> [Transfers -> [stage : {None, "sending", "importing"},
                                              sent : 0..Size, received : 0..Size]]]
    /\ \A t \in Transfers : file[t] \in BoundedSeq({"data", "zero"}, Size)
    /\ \A c \in Calls :
         /\ call[c].kind \in {"none", "preview", "start", "resume"}
         /\ call[c].step \in Over \cup HoldsA \cup {"opening", "sending", "waiting"}
         /\ recv[c].step \in Over \cup HoldsB \cup {"asked", "fetching"}
         /\ recv[c].bytes \in 0..Size /\ recv[c].pos \in 0..Size
    /\ faults \in 0..MaxFaults

Init ==
    /\ host = [v \in Devices |-> "closed"]
    /\ source = [state |-> "active", content |-> 0, for |-> None]
    /\ target = "absent"
    /\ owner = [v \in Devices |-> "active"]
    /\ prepared = [t \in Transfers |-> None]
    /\ package = [t \in Transfers |-> None]
    /\ journal = [v \in Devices |-> [t \in Transfers |-> NoRecord]]
    /\ file = [t \in Transfers |-> <<>>]
    /\ call = [c \in Calls |-> NoCall]
    /\ recv = [c \in Calls |-> NoRecv]
    /\ faults = 0

LeaseFree(v) ==
    /\ host[v] = "closed"
    /\ v = "A" => \A c \in Calls : call[c].step \notin HoldsA
    /\ v = "B" => \A c \in Calls : recv[c].step \notin HoldsB

At(c, kind, step) == call[c].kind = kind /\ call[c].step = step
Go(c, step) == call' = [call EXCEPT ![c].step = step]
Reach(c, step) == recv' = [recv EXCEPT ![c].step = step]

-----------------------------------------------------------------------------
(* The project in the launchers *)

\* selectProject reads the catalog, opens the dataset, which must be active, and
\* says so in the catalog; a dataset that is absent is created.
SelectProject(v) ==
    /\ owner[v] = "active"
    /\ LeaseFree(v)
    /\ v = "A" => source.state = "active"
    /\ host' = [host EXCEPT ![v] = "open"]
    /\ target' = IF v = "B" THEN "active" ELSE target
    /\ UNCHANGED <<source, owner, prepared, package, journal, file, call, recv, faults>>

\* The project is not active any more, its lease not yet given back.
CloseActiveProject(v) ==
    /\ host[v] = "open"
    /\ host' = [host EXCEPT ![v] = "closing"]
    /\ UNCHANGED <<disk, prepared, call, recv, faults>>

Closed(v) ==
    /\ host[v] = "closing"
    /\ host' = [host EXCEPT ![v] = "closed"]
    /\ UNCHANGED <<disk, prepared, call, recv, faults>>

Work ==
    /\ host["A"] = "open"
    /\ source.content < MaxContent
    /\ source' = [source EXCEPT !.content = @ + 1]
    /\ UNCHANGED <<host, target, owner, prepared, package, journal, file, call, recv, faults>>

-----------------------------------------------------------------------------
(* A: preview and start *)

\* The project must be active; then its lease is asked for.
Ask(c, kind, t) ==
    /\ call[c] = NoCall
    /\ host["A"] = "open"
    /\ kind = "start" => prepared[t] # None
    /\ call' = [call EXCEPT ![c] = [kind |-> kind, t |-> t, step |-> "opening"]]
    /\ UNCHANGED <<host, disk, prepared, recv, faults>>

Refused(c) ==
    /\ call[c].step = "opening"
    /\ ~LeaseFree("A")
    /\ Go(c, "failed")
    /\ UNCHANGED <<host, disk, prepared, recv, faults>>

\* Its own intent does not block the preview of a transfer.
Exportable(t) ==
    \/ source.state = "active"
    \/ source.state = "exporting" /\ source.for = t

PreviewExport(c) ==
    LET t == call[c].t IN
    /\ At(c, "preview", "opening")
    /\ LeaseFree("A")
    /\ Exportable(t) /\ package[t] = None
    /\ prepared' = [prepared EXCEPT ![t] = source.content]
    /\ Go(c, "done")
    /\ UNCHANGED <<host, disk, recv, faults>>

OpenSource(c) ==
    /\ At(c, "start", "opening")
    /\ LeaseFree("A")
    /\ Go(c, "exporting")
    /\ UNCHANGED <<host, disk, prepared, recv, faults>>

\* Mutant: the package is published and the dataset stays active.
ExportPackage_Copy(c) ==
    LET t == call[c].t IN
    /\ At(c, "start", "exporting")
    /\ package' = [package EXCEPT ![t] = source.content]
    /\ Go(c, "owning")
    /\ UNCHANGED <<host, source, target, owner, prepared, journal, file, recv, faults>>

\* The dataset is frozen and its package published, or both are so already; the
\* repository is where it was for the preview, else see ExportRefused.
ExportPackage(c) ==
    LET t == call[c].t IN
    /\ At(c, "start", "exporting")
    /\ \/ package[t] = None /\ Exportable(t) /\ source.content = prepared[t]
       \/ package[t] = prepared[t] /\ source.for = t
    /\ source' = [source EXCEPT !.state = "exported", !.for = t]
    /\ package' = [package EXCEPT ![t] = source.content]
    /\ Go(c, "owning")
    /\ UNCHANGED <<host, target, owner, prepared, journal, file, recv, faults>>

\* The export stops on its way: with the intent, and perhaps the package.
ExportInterrupted(c) ==
    LET t == call[c].t IN
    /\ At(c, "start", "exporting")
    /\ faults < MaxFaults
    /\ Exportable(t) /\ package[t] = None /\ source.content = prepared[t]
    /\ source' = [source EXCEPT !.state = "exporting", !.for = t]
    /\ \E p \in {None, source.content} : package' = [package EXCEPT ![t] = p]
    /\ Go(c, "failed")
    /\ faults' = faults + 1
    /\ UNCHANGED <<host, target, owner, prepared, journal, file, recv>>

\* A preview that finds blockers, in the dataset or in the repository, is remembered too:
\* its digest starts nothing.
PreviewRefused(c) ==
    /\ At(c, "preview", "opening")
    /\ LeaseFree("A")
    /\ prepared' = [prepared EXCEPT ![call[c].t] = None]
    /\ Go(c, "failed")
    /\ UNCHANGED <<host, disk, recv, faults>>

\* The digest asked for is not that of the dataset and the repository as they are: of
\* the repository nothing is known here, so this may be at any time.  When it moves
\* after that, the package is not built, and the intent stays.
ExportRefused(c) ==
    LET t == call[c].t IN
    /\ At(c, "start", "exporting")
    /\ \/ UNCHANGED source
       \/ /\ Exportable(t) /\ package[t] = None /\ source.content = prepared[t]
          /\ source' = [source EXCEPT !.state = "exporting", !.for = t]
    /\ Go(c, "failed")
    /\ UNCHANGED <<host, target, owner, prepared, package, journal, file, recv, faults>>

\* The context is closed, which gives the lease back, then the catalog written.
UpdateOwnership(c) ==
    /\ call[c].step = "owning"
    /\ owner' = [owner EXCEPT !["A"] = "exported"]
    /\ Go(c, "sending")
    /\ UNCHANGED <<host, source, target, prepared, package, journal, file, recv, faults>>

\* The journal has the transfer before B is asked to receive it.
SendRequest(c) ==
    LET t == call[c].t IN
    /\ call[c].step = "sending"
    /\ journal' = [journal EXCEPT !["A"][t] = [stage |-> "sending", sent |-> 0, received |-> 0]]
    /\ Go(c, "waiting")
    /\ recv' = [recv EXCEPT ![c] = Asked(Size)]
    /\ UNCHANGED <<host, source, target, owner, prepared, package, file, faults>>

\* resume asks for the bytes the journal says were sent.
Resume(c, t) ==
    /\ call[c] = NoCall
    /\ journal["A"][t] # NoRecord
    /\ call' = [call EXCEPT ![c] = [kind |-> "resume", t |-> t, step |-> "waiting"]]
    /\ recv' = [recv EXCEPT ![c] = Asked(journal["A"][t].sent)]
    /\ UNCHANGED <<host, disk, prepared, faults>>

ReceiveFailed(c) ==
    /\ call[c].step = "waiting"
    /\ recv[c].step = "failed"
    /\ Go(c, "failed")
    /\ UNCHANGED <<host, disk, prepared, recv, faults>>

-----------------------------------------------------------------------------
(* B: receive *)

\* The manifest must have the size the request names.
FetchManifest(c) ==
    LET t == call[c].t IN
    /\ recv[c].step = "asked"
    /\ IF recv[c].bytes = Size /\ package[t] # None
         THEN recv' = [recv EXCEPT ![c].step = "fetching", ![c].pos = Len(file[t])]
         ELSE Reach(c, "failed")
    /\ UNCHANGED <<host, disk, prepared, call, faults>>

\* Writing range i: the first one truncates the file, a later one overwrites.
Written(f, i) ==
    IF i = 1 THEN <<"data">>
    ELSE [n \in 1..(IF Len(f) > i THEN Len(f) ELSE i) |->
            IF n = i THEN "data" ELSE IF n <= Len(f) THEN f[n] ELSE "zero"]

FetchRange(c) ==
    LET t == call[c].t IN
    /\ recv[c].step = "fetching"
    /\ recv[c].pos < Size
    /\ file' = [file EXCEPT ![t] = Written(@, recv[c].pos + 1)]
    /\ recv' = [recv EXCEPT ![c].pos = @ + 1]
    /\ UNCHANGED <<host, source, target, owner, prepared, package, journal, call, faults>>

Whole(t) == file[t] = [n \in 1..Size |-> "data"]

\* The file is complete and has its digest: the lease is taken, and with it a
\* database created where there was none.
OpenTarget(c) ==
    LET t == call[c].t IN
    /\ recv[c].step = "fetching"
    /\ recv[c].pos = Size
    /\ IF Whole(t) /\ LeaseFree("B")
         THEN /\ Reach(c, "checking")
              /\ target' = "active"
         ELSE /\ Reach(c, "failed")
              /\ UNCHANGED target
    /\ UNCHANGED <<host, source, owner, prepared, package, journal, file, call, faults>>

\* receiveProjectTransfer writes its journal, and the preview of the import finds
\* no manifest.
PreviewImport(c) ==
    LET t == call[c].t
        sent == IF journal["B"][t] = NoRecord THEN Size ELSE journal["B"][t].sent
    IN
    /\ recv[c].step = "checking"
    /\ journal' = [journal EXCEPT !["B"][t] =
                     [stage |-> "importing", sent |-> sent, received |-> Size]]
    /\ Reach(c, "failed")
    /\ UNCHANGED <<host, source, target, owner, prepared, package, file, call, faults>>

-----------------------------------------------------------------------------
(* Failures *)

Fault == faults < MaxFaults /\ faults' = faults + 1

\* Something the receiver awaits fails; A gets an error.
ReceiverFails(c) ==
    /\ recv[c].step \notin Over
    /\ Fault
    /\ Reach(c, "failed")
    /\ UNCHANGED <<host, disk, prepared, call>>

\* A fails, or its connection to B breaks: B goes on all the same.
SenderFails(c) ==
    /\ call[c].step \notin Over
    /\ Fault
    /\ Go(c, "failed")
    /\ UNCHANGED <<host, disk, prepared, recv>>

\* The launcher of A dies; what it left locked is cleared when it starts again.
CrashA ==
    /\ Fault
    /\ host' = [host EXCEPT !["A"] = "closed"]
    /\ prepared' = [t \in Transfers |-> None]
    /\ call' = [c \in Calls |-> IF call[c].step \in Over THEN call[c]
                                ELSE [call[c] EXCEPT !.step = "failed"]]
    /\ recv' = [c \in Calls |-> IF recv[c].step \in {"asked", "fetching"}
                                THEN [recv[c] EXCEPT !.step = "failed"] ELSE recv[c]]
    /\ UNCHANGED disk

CrashB ==
    /\ Fault
    /\ host' = [host EXCEPT !["B"] = "closed"]
    /\ recv' = [c \in Calls |-> IF recv[c].step \in Over THEN recv[c]
                                ELSE [recv[c] EXCEPT !.step = "failed"]]
    /\ UNCHANGED <<disk, prepared, call>>

Next ==
    \/ \E v \in Devices : SelectProject(v) \/ CloseActiveProject(v) \/ Closed(v)
    \/ Work \/ CrashA \/ CrashB
    \/ \E c \in Calls :
         \/ \E t \in Transfers : Ask(c, "preview", t) \/ Ask(c, "start", t) \/ Resume(c, t)
         \/ Refused(c) \/ PreviewExport(c) \/ PreviewRefused(c) \/ OpenSource(c)
         \/ ExportPackage(c) \/ ExportInterrupted(c) \/ ExportRefused(c)
         \/ UpdateOwnership(c) \/ SendRequest(c) \/ ReceiveFailed(c)
         \/ FetchManifest(c) \/ FetchRange(c) \/ OpenTarget(c) \/ PreviewImport(c)
         \/ ReceiverFails(c) \/ SenderFails(c)

Spec == Init /\ [][Next]_vars

-----------------------------------------------------------------------------
(* Properties *)

\* A's catalog gives the project away, and its journal has the transfer, only when
\* the dataset is frozen for the transfer and its package is published, with the
\* newest contents: not before, whatever is requested at the same time, and
\* whoever opens the project meanwhile.
GivenAwayIsFrozen ==
    /\ owner["A"] = "exported" => source.state = "exported"
    /\ \A t \in Transfers : journal["A"][t] # NoRecord =>
         /\ owner["A"] = "exported" /\ source.for = t
         /\ package[t] = source.content

\* Two receivers of one package write to the same file, and the first range of
\* each empties it.  When both are through, it is whole.
FileWhole ==
    \A t \in Transfers :
        /\ Len(file[t]) = Size
        /\ faults = 0
        /\ \A c \in Calls : call[c].t = t => recv[c].step # "fetching"
        => Whole(t)

HandoverInv == TypeOK /\ GivenAwayIsFrozen /\ FileWhole

-----------------------------------------------------------------------------
(* Either way *)

TransferInit == way \in {"launchers", "commands"} /\ Init /\ P!Init

TransferNext ==
    /\ UNCHANGED way
    /\ \/ way = "launchers" /\ Next /\ UNCHANGED commandVars
       \/ way = "commands" /\ P!Next /\ UNCHANGED vars

TransferSpec == TransferInit /\ [][TransferNext]_<<way, vars, commandVars>>

\* Of the commands: a dataset has one active branch, a published package stays the
\* final state of the branch it was taken from, and an interrupted export, import or
\* cancellation leaves it consistent.  Of the handover: the project is
\* given away only when it is frozen and published, and a download that two
\* receivers shared is whole.
Inv == IF way = "launchers" THEN HandoverInv ELSE P!Inv /\ P!FrozenOncePublished

\* An export that was interrupted can be resumed while the repository is where it was,
\* and a package it published is the one it was begun for.
InterruptedExportResumes == P!InterruptedExportResumes

\* Processes, requests and heads are interchangeable for these.
Symmetry == Permutations(Processes) \cup Permutations(Requests) \cup Permutations(Heads)
=============================================================================
