------------------------- MODULE PeerTransferProofs -------------------------
(***************************************************************************)
(* What TLAPS proves of PeerTransfer, and through it of Portability, for   *)
(* any number of processes, directories, requests, transfers and calls.    *)
(*                                                                         *)
(* The commands.  Why a dataset has one active branch: a directory whose   *)
(* data was published (Frozen) has the one package it went into, every     *)
(* other directory came from one package of its own, imported once for     *)
(* each device (Imports), on another device than the one that published    *)
(* (Elsewhere); so what is open is one directory, or the one package that  *)
(* nobody has imported, and it has the newest contents (Branch).  What a   *)
(* command found out before its lease still holds when it writes (Knows,   *)
(* Continuing, FirstImport).                                               *)
(*                                                                         *)
(* The launchers.  Why a project that is given away is frozen: the lease   *)
(* of A's directory is one call's or the launcher's (LeaseOfA), whose      *)
(* dataset is then active, and a package is of the one transfer the source *)
(* was frozen for (Source).  Why a shared download is whole: a hole in the *)
(* file is always ahead of a receiver that will come by (HolesFilled).     *)
(***************************************************************************)
EXTENDS PeerTransfer, TLAPS

(* The commands *)

\* The data of Portability, by the names used here.
Digest == P!Digest
Dirs == Devices \X (1..MaxDirs)
Changes == 0..MaxChanges

Nonabsent(d) == dir[d].state # "absent"
Published(r) == published[r] # None

\* A directory whose data has gone into a package stays as it is.
Frozen(d) ==
    \/ dir[d].state = "exported"
    \/ dir[d].state = "exporting" /\ Published(dir[d].pending.request)
Open(d) == dir[d].state \in {"active", "exporting"} /\ ~Frozen(d)

\* The package a frozen directory went into, and the one a directory came from.
Into(d) == IF dir[d].state = "exported" THEN dir[d].last ELSE dir[d].pending.request
From(d) == IF dir[d].state = "exported" THEN published[dir[d].last].parent ELSE dir[d].last

Came(r) == \E v \in Devices : r \in imported[v]

AtStep(p, kind, step) == op[p].kind = kind /\ op[p].step = step
ConfDir(v) == <<v, config[v]>>

Commanded == [kind : {"none", "export", "cancel", "import"},
              at : Dirs \cup {None}, digest : Digest \cup {None}, out : Dirs \cup {None},
              step : {"none", "checking", "building", "published", "cancelling", "importing"}]

Shapes ==
    /\ dir \in [Dirs -> [state : {"absent", "active", "exporting", "exported"},
                         content : Changes, last : Requests \cup {None},
                         pending : Digest \cup {None}]]
    /\ config \in [Devices -> 1..MaxDirs]
    /\ published \in [Requests -> Digest \cup {None}]
    /\ imported \in [Devices -> SUBSET Requests]
    /\ op \in [Processes -> Commanded]
    /\ orphaned \subseteq Dirs
    /\ repo \in [Devices -> Heads]
    /\ broken \in 0..MaxFaults

\* A package and an intent are what they were made from.
Records ==
    /\ \A d \in Dirs :
         IF dir[d].state = "exporting"
           THEN /\ dir[d].pending \in Digest
                /\ dir[d].pending.content = dir[d].content
                /\ dir[d].pending.parent = dir[d].last
                /\ Published(dir[d].pending.request) =>
                     published[dir[d].pending.request] = dir[d].pending
           ELSE dir[d].pending = None
    /\ \A r \in Requests : Published(r) => published[r].request = r

\* Every package has the one directory it was made from.
Packages ==
    /\ \A d \in Dirs : Frozen(d) => Into(d) \in Requests /\ Published(Into(d))
    /\ \A r \in Requests : Published(r) => \E d \in Dirs : Frozen(d) /\ Into(d) = r
    /\ \A d, e \in Dirs : Frozen(d) /\ Frozen(e) /\ Into(d) = Into(e) => d = e

\* Every directory but the first was imported, each from a package of its own.
Imports ==
    /\ \A d \in Dirs : Nonabsent(d) =>
         IF From(d) = None THEN d = <<"A", 1>> ELSE From(d) \in imported[d[1]]
    /\ \A v \in Devices : \A r \in imported[v] :
         /\ Published(r)
         /\ \E d \in Dirs : d[1] = v /\ Nonabsent(d) /\ From(d) = r
    /\ \A d, e \in Dirs : Nonabsent(d) /\ Nonabsent(e) /\ From(d) = From(e) => d = e

\* A package goes to another device than the one it was made on.
Elsewhere ==
    \A d, e \in Dirs : Nonabsent(d) /\ Frozen(e) /\ From(d) = Into(e) => d[1] # e[1]

\* A device that published has its data configured; where none is, only the first
\* package can be around.
Configured ==
    /\ \A d \in Dirs : Frozen(d) => Nonabsent(ConfDir(d[1]))
    /\ \A v \in Devices, r \in Requests :
         ~Nonabsent(ConfDir(v)) /\ Published(r) => published[r].parent = None

\* One branch: the open directory, or the package nobody has imported yet.
Branch ==
    /\ \A d, e \in Dirs : Open(d) /\ Open(e) => d = e
    /\ \A d \in Dirs, r \in Requests : Open(d) /\ Published(r) => Came(r)
    /\ \A r, t \in Requests : Published(r) /\ Published(t) /\ ~Came(r) /\ ~Came(t) => r = t
    /\ \A d, e \in Dirs : Open(d) => dir[e].content <= dir[d].content
    /\ \A r \in Requests, e \in Dirs : Published(r) /\ ~Came(r) => dir[e].content <= published[r].content

Data == Packages /\ Imports /\ Elsewhere /\ Configured /\ Branch

\* The lease of a command is its own.
Leased(p) ==
    /\ op[p].at \in Dirs /\ op[p].digest \in Digest
    /\ \A q \in Processes : op[q].at = op[p].at => q = p

\* What a command found out still holds.
Knows(p) ==
    LET d == op[p].at
        mine == dir[d].state = "exporting" /\ dir[d].pending = op[p].digest
    IN  CASE op[p].kind = "export" ->
               /\ op[p].step \in {"checking", "building", "published"}
               /\ op[p].step # "checking" => mine
               /\ op[p].step = "building" => ~Published(op[p].digest.request)
               /\ op[p].step = "published" => Published(op[p].digest.request)
          [] op[p].kind = "cancel" ->
               /\ op[p].step \in {"checking", "cancelling"}
               /\ op[p].step = "cancelling" /\ mine => ~Published(op[p].digest.request)
          [] op[p].kind = "import" ->
               /\ op[p].step \in {"checking", "importing"}
               /\ Published(op[p].digest.request)
               /\ published[op[p].digest.request] = op[p].digest
               /\ op[p].out \in Dirs /\ op[p].out[1] = d[1]
          [] OTHER -> FALSE

\* A command works on the configured directory, or the device got a newer one since.
Current(p) == op[p].at # ConfDir(op[p].at[1]) => Nonabsent(ConfDir(op[p].at[1]))

\* Into a device without data the first import goes alone.
FirstImport(p) ==
    op[p].kind = "import" /\ ~Nonabsent(op[p].at) =>
        /\ op[p].at = ConfDir(op[p].at[1])
        /\ \A d \in Dirs : d[1] = op[p].at[1] => ~Nonabsent(d)

\* An import that continues the data of its device is the first of its package.
Continuing(p) ==
    /\ /\ op[p].kind = "import"
       /\ dir[op[p].at].state = "exported" /\ dir[op[p].at].last = op[p].digest.parent
       => op[p].digest.request \notin imported[op[p].at[1]]
    /\ AtStep(p, "import", "importing") =>
         /\ Nonabsent(op[p].at) =>
              dir[op[p].at].state = "exported" /\ dir[op[p].at].last = op[p].digest.parent
         /\ ~Came(op[p].digest.request)

OpOk(p) == Leased(p) /\ Knows(p) /\ Current(p) /\ FirstImport(p) /\ Continuing(p)
Ops == \A p \in Processes : op[p] # P!NoOp => OpOk(p)

PInd == Shapes /\ Records /\ Data /\ Ops

Ended(p) == op' = [op EXCEPT ![p] = P!NoOp]
Went(p, step) == op' = [op EXCEPT ![p] = [op[p] EXCEPT !.step = step]]
Free(d) == \A p \in Processes : op[p].at # d
BecameOf(d, state, last, pending) ==
    dir' = [dir EXCEPT ![d] = [dir[d] EXCEPT !.state = state, !.last = last, !.pending = pending]]

\* What each action does, in the names used here: work,
LEMMA WorkDoes ==
    ASSUME Shapes, NEW v \in Devices, P!Work(v)
    PROVE  /\ ConfDir(v) \in Dirs
           /\ dir[ConfDir(v)].state = "active"
           /\ Free(ConfDir(v))
           /\ dir[ConfDir(v)].content + 1 \in Changes
           /\ dir' = [dir EXCEPT ![ConfDir(v)] = [dir[ConfDir(v)] EXCEPT !.content = dir[ConfDir(v)].content + 1]]
           /\ UNCHANGED <<config, published, imported, op, orphaned, repo, broken>>
  BY TransferAssumption DEF Shapes, Commanded, P!Work, P!Configured, ConfDir, P!LeaseFree, Free, Changes, Devices, Dirs

\* an export that is through already,
LEMMA ReplayDoes ==
    ASSUME NEW p \in Processes, P!ReplayExport(p)
    PROVE  /\ AtStep(p, "export", "checking")
           /\ Published(op[p].digest.request)
           /\ published[op[p].digest.request] = op[p].digest
           /\ \/ /\ dir[op[p].at].state = "exporting"
                 /\ dir[op[p].at].pending = op[p].digest
                 /\ BecameOf(op[p].at, "exported", op[p].digest.request, None)
              \/ UNCHANGED dir
           /\ Ended(p)
           /\ UNCHANGED <<config, published, imported, orphaned, repo, broken>>
  BY DEF P!ReplayExport, P!At, P!Replayable, P!Here, P!Asked, P!Published, P!Set, P!End,
         AtStep, Published, BecameOf, Ended

\* a new configuration,
LEMMA ConfigureDoes ==
    ASSUME NEW v \in Devices, NEW n \in 1..MaxDirs, P!Configure(v, n)
    PROVE  /\ n > config[v] /\ Nonabsent(<<v, n>>)
           /\ config' = [config EXCEPT ![v] = n]
           /\ UNCHANGED <<dir, published, imported, op, orphaned, repo, broken>>
  BY DEF P!Configure, Nonabsent

\* the repository,
LEMMA CommitDoes ==
    ASSUME Shapes, NEW v \in Devices, NEW h \in Heads, P!Commit(v, h)
    PROVE  /\ repo' \in [Devices -> Heads]
           /\ UNCHANGED <<dir, config, published, imported, op, orphaned, broken>>
  BY DEF P!Commit, Shapes

\* a command that takes its lease,
LEMMA StartDoes ==
    ASSUME Shapes, NEW p \in Processes, NEW kind, NEW v \in Devices, NEW g, NEW out,
           P!Start(p, kind, P!Configured(v), g, out)
    PROVE  /\ op[p] = P!NoOp
           /\ ConfDir(v) \in Dirs /\ Free(ConfDir(v))
           /\ op' = [op EXCEPT ![p] = [kind |-> kind, at |-> ConfDir(v), digest |-> g,
                                       out |-> out, step |-> "checking"]]
  BY DEF P!Start, P!Configured, P!LeaseFree, ConfDir, Free, Shapes, Dirs, Devices

\* what a command can be asked for,
LEMMA PreviewedIsDigest ==
    ASSUME Shapes, NEW v \in Devices
    PROVE  P!Previewed(P!Configured(v)) \subseteq Digest
  <1>1. P!Configured(v) \in Dirs
    BY DEF P!Configured, Shapes, Dirs, Devices
  <1>2. \A r \in Requests, h \in Heads : P!DigestOf(dir[P!Configured(v)], r, h) \in Digest
    BY <1>1 DEF Shapes, P!DigestOf, P!Digest, Digest, Changes, P!Contents
  <1> QED
    BY <1>1, <1>2 DEF P!Previewed, Shapes

\* an export or a cancellation,
LEMMA StartExportDoes ==
    ASSUME Shapes, NEW p \in Processes, NEW v \in Devices, NEW g \in P!Previewed(P!Configured(v)),
           P!StartExport(p, v, g) \/ P!StartCancel(p, v, g)
    PROVE  /\ op[p] = P!NoOp
           /\ ConfDir(v) \in Dirs /\ Free(ConfDir(v)) /\ g \in Digest
           /\ \E kind \in {"export", "cancel"} :
                op' = [op EXCEPT ![p] = [kind |-> kind, at |-> ConfDir(v), digest |-> g,
                                         out |-> None, step |-> "checking"]]
           /\ UNCHANGED <<dir, config, published, imported, orphaned, repo, broken>>
  <1>1. g \in Digest
    BY PreviewedIsDigest
  <1> QED
    BY <1>1, StartDoes DEF P!StartExport, P!StartCancel

\* an import,
LEMMA StartImportDoes ==
    ASSUME Shapes, NEW p \in Processes, NEW v \in Devices, NEW r \in Requests,
           NEW n \in 1..MaxDirs, P!StartImport(p, v, r, n)
    PROVE  /\ op[p] = P!NoOp
           /\ ConfDir(v) \in Dirs /\ Free(ConfDir(v))
           /\ Published(r) /\ r \notin imported[v]
           /\ op' = [op EXCEPT ![p] = [kind |-> "import", at |-> ConfDir(v), digest |-> published[r],
                                       out |-> <<v, n>>, step |-> "checking"]]
           /\ UNCHANGED <<dir, config, published, imported, orphaned, repo, broken>>
  BY StartDoes DEF P!StartImport, P!Published, Published

\* the intent,
LEMMA BeginDoes ==
    ASSUME NEW p \in Processes, P!BeginExportIntent(p)
    PROVE  /\ AtStep(p, "export", "checking")
           /\ ~Published(op[p].digest.request)
           /\ \/ dir[op[p].at].state = "active"
              \/ dir[op[p].at].state = "exporting" /\ dir[op[p].at].pending = op[p].digest
           /\ op[p].digest = [request |-> op[p].digest.request, content |-> dir[op[p].at].content,
                              parent |-> dir[op[p].at].last, git |-> repo[op[p].at[1]]]
           /\ BecameOf(op[p].at, "exporting", dir[op[p].at].last, op[p].digest)
           /\ Went(p, "building")
           /\ UNCHANGED <<config, published, imported, orphaned, repo, broken>>
  BY DEF P!BeginExportIntent, P!At, P!CanBegin, P!Exportable, P!DigestOf, P!Here, P!Asked, P!Head, P!Published,
         P!Set, P!Go, AtStep, Published, BecameOf, Went

\* the package,
LEMMA PublishDoes ==
    ASSUME NEW p \in Processes, P!PublishPackage(p)
    PROVE  /\ AtStep(p, "export", "building")
           /\ dir[op[p].at].content = op[p].digest.content
           /\ ~Published(op[p].digest.request)
           /\ published' = [published EXCEPT ![op[p].digest.request] =
                              [request |-> op[p].digest.request, content |-> op[p].digest.content,
                               parent |-> op[p].digest.parent, git |-> op[p].digest.git]]
           /\ Went(p, "published")
           /\ UNCHANGED <<dir, config, imported, orphaned, repo, broken>>
  BY DEF P!PublishPackage, P!AsPreviewed, P!At, P!Here, P!Asked, P!Head, P!Published, P!Go, AtStep, Published, Went

\* the end of an export,
LEMMA FinalizeDoes ==
    ASSUME NEW p \in Processes, P!FinalizeExport(p)
    PROVE  /\ AtStep(p, "export", "published")
           /\ dir[op[p].at].state = "exporting" /\ dir[op[p].at].pending = op[p].digest
           /\ BecameOf(op[p].at, "exported", op[p].digest.request, None)
           /\ Ended(p)
           /\ UNCHANGED <<config, published, imported, orphaned, repo, broken>>
  BY DEF P!FinalizeExport, P!At, P!Here, P!Asked, P!Set, P!End, AtStep, BecameOf, Ended

\* the check of a cancellation,
LEMMA CheckCancelDoes ==
    ASSUME NEW p \in Processes, P!CheckCancel(p)
    PROVE  /\ AtStep(p, "cancel", "checking")
           /\ ~(/\ dir[op[p].at].state = "exporting" /\ dir[op[p].at].pending = op[p].digest
                /\ Published(op[p].digest.request))
           /\ Went(p, "cancelling")
           /\ UNCHANGED <<dir, config, published, imported, orphaned, repo, broken>>
  BY DEF P!CheckCancel, P!At, P!CanCancel, P!Here, P!Asked, P!Published, P!Go, AtStep, Published, Went

\* the cancellation,
LEMMA CancelDoes ==
    ASSUME NEW p \in Processes, P!CancelExportIntent(p)
    PROVE  /\ AtStep(p, "cancel", "cancelling")
           /\ dir[op[p].at].state = "exporting" /\ dir[op[p].at].pending = op[p].digest
           /\ BecameOf(op[p].at, "active", dir[op[p].at].last, None)
           /\ Ended(p)
           /\ UNCHANGED <<config, published, imported, orphaned, repo, broken>>
  BY DEF P!CancelExportIntent, P!At, P!Here, P!Asked, P!Set, P!End, AtStep, BecameOf, Ended

\* the check of an import,
LEMMA PreviewImportDoes ==
    ASSUME NEW p \in Processes, P!PreviewImport(p)
    PROVE  /\ AtStep(p, "import", "checking")
           /\ P!Continues(dir[op[p].at], op[p].digest)
           /\ Went(p, "importing")
           /\ UNCHANGED <<dir, config, published, imported, orphaned, repo, broken>>
  BY DEF P!PreviewImport, P!CanImport, P!At, P!Here, P!Asked, P!Go, AtStep, Went

\* and its end.
LEMMA FinishImportDoes ==
    ASSUME NEW p \in Processes, P!FinishImport(p)
    PROVE  /\ AtStep(p, "import", "importing")
           /\ ~Nonabsent(op[p].out)
           /\ dir' = [dir EXCEPT ![op[p].out] =
                        [state |-> "active", content |-> op[p].digest.content,
                         last |-> op[p].digest.request, pending |-> None]]
           /\ imported' = [imported EXCEPT ![op[p].out[1]] =
                             imported[op[p].out[1]] \cup {op[p].digest.request}]
           /\ Ended(p)
           /\ UNCHANGED <<config, published, orphaned, repo, broken>>
  BY DEF P!FinishImport, P!At, P!Asked, P!End, AtStep, Nonabsent, Ended

\* Ended without a change: refusals, failures and crashes.
LEMMA StopDoes ==
    ASSUME Shapes, NEW p \in Processes, P!Refuse(p) \/ P!Fail(p) \/ P!Crash(p)
    PROVE  /\ op[p] # P!NoOp
           /\ Ended(p)
           /\ orphaned' = orphaned \/ orphaned' = orphaned \cup {op[p].at}
           /\ broken' \in 0..MaxFaults
           /\ UNCHANGED <<dir, config, published, imported, repo>>
  BY TransferAssumption DEF P!Refuse, P!Fail, P!Crash, P!At, P!End, Ended, Shapes, P!NoOp

(* Steps that leave the data as it is *)

\* What depends on the data alone stays with it.
LEMMA DataSame ==
    ASSUME Data, Records, UNCHANGED <<dir, config, published, imported>>
    PROVE  Data' /\ Records'
  BY DEF Data, Records, Packages, Imports, Elsewhere, Configured, Branch, Published, Nonabsent, Frozen, Open,
         Into, From, Came, ConfDir

\* The directories count as what they were.
LEMMA RegularRest ==
    ASSUME Data, Shapes,
           UNCHANGED <<config, published, imported, repo>>,
           \A d \in Dirs :
              /\ Frozen(d)' <=> Frozen(d)
              /\ Frozen(d) => Into(d)' = Into(d)
              /\ Nonabsent(d)' <=> Nonabsent(d)
              /\ Nonabsent(d) => From(d)' = From(d)
    PROVE  Packages' /\ Imports' /\ Elsewhere' /\ Configured'
  <1> DEFINE Same == \A r \in Requests : Published(r)' <=> Published(r)
  <1>1. Same
    BY DEF Published
  <1>3. \A d \in Dirs : ConfDir(d[1])' = ConfDir(d[1])
    BY DEF ConfDir
  <1>4. \A v \in Devices : ConfDir(v)' = ConfDir(v)
    BY DEF ConfDir
  <1>5. Packages'
    BY <1>1 DEF Data, Packages
  <1>6. Imports'
    <2>1. Imports
      BY DEF Data
    <2>2. ASSUME NEW d \in Dirs, Nonabsent(d)'
          PROVE  (IF From(d) = None THEN d = <<"A", 1>> ELSE From(d) \in imported[d[1]])'
      BY <2>1, <2>2 DEF Imports
    <2>3. ASSUME NEW v \in Devices, NEW r \in imported'[v]
          PROVE  /\ Published(r)'
                 /\ \E d \in Dirs : d[1] = v /\ Nonabsent(d)' /\ From(d)' = r
      <3>1. r \in imported[v] /\ r \in Requests
        BY <2>3 DEF Shapes
      <3>2. PICK d \in Dirs : d[1] = v /\ Nonabsent(d) /\ From(d) = r
        BY <2>1, <3>1 DEF Imports
      <3>3. Published(r)
        BY <2>1, <3>1 DEF Imports
      <3> QED
        BY <1>1, <3>1, <3>2, <3>3
    <2>4. \A d, e \in Dirs : Nonabsent(d)' /\ Nonabsent(e)' /\ From(d)' = From(e)' => d = e
      BY <2>1 DEF Imports
    <2> QED
      BY <2>2, <2>3, <2>4 DEF Imports
  <1>7. Elsewhere'
    BY DEF Data, Elsewhere
  <1>8. \A v \in Devices : ConfDir(v) \in Dirs
    BY DEF Shapes, ConfDir, Dirs, Devices
  <1>11. \A d \in Dirs : ConfDir(d[1]) \in Dirs
    BY DEF Shapes, ConfDir, Dirs, Devices
  <1>9. Configured'
    BY <1>1, <1>3, <1>4, <1>8, <1>11 DEF Data, Configured
  <1> QED
    BY <1>5, <1>6, <1>7, <1>9

\* When only records are rewritten, what counts of the data stays as it is.
LEMMA Regular ==
    ASSUME Data, Shapes,
           UNCHANGED <<config, published, imported, repo>>,
           \A d \in Dirs :
              /\ Frozen(d)' <=> Frozen(d)
              /\ Frozen(d) => Into(d)' = Into(d)
              /\ Nonabsent(d)' <=> Nonabsent(d)
              /\ Nonabsent(d) => From(d)' = From(d)
              /\ Open(d)' => Open(d)
              /\ (dir[d].content)' = dir[d].content
    PROVE  Data'
  <1>1. \A r \in Requests : (Published(r)' <=> Published(r)) /\ (Came(r)' <=> Came(r))
    BY DEF Published, Came
  <1>2. Packages' /\ Imports' /\ Elsewhere' /\ Configured'
    BY RegularRest
  <1>3. Branch'
    BY <1>1 DEF Data, Branch
  <1> QED
    BY <1>2, <1>3 DEF Data

\* A command that ends or goes on while nothing it knows of changes.
LEMMA OtherKept ==
    ASSUME NEW p \in Processes, OpOk(p), op'[p] = op[p],
           \A q \in Processes : op'[q].at = op[p].at => op[q].at = op[p].at \/ q = p,
           dir'[op[p].at] = dir[op[p].at],
           UNCHANGED <<config, published, imported, repo>>,
           \A d \in Dirs : Nonabsent(d)' <=> Nonabsent(d),
           ConfDir(op[p].at[1]) \in Dirs
    PROVE  OpOk(p)'
  <1>1. Leased(p)'
    BY DEF OpOk, Leased
  <1>2. Knows(p)'
    BY DEF OpOk, Knows, Published
  <1>3. Current(p)'
    BY DEF OpOk, Current, ConfDir
  <1>4. FirstImport(p)'
    BY DEF OpOk, FirstImport, ConfDir, Leased
  <1>5. Continuing(p)'
    BY DEF OpOk, Continuing, Leased, AtStep, Came
  <1> QED
    BY <1>1, <1>2, <1>3, <1>4, <1>5 DEF OpOk

\* No directory, request or digest is None.
LEMMA NoneIsNothing ==
    /\ None \notin Dirs /\ None \notin Requests /\ None \notin Digest
    /\ P!NoOp.at = None /\ P!NoOp.kind = "none"
    /\ P!NoOp \in Commanded
  BY TransferAssumption DEF Dirs, P!Dirs, Devices, Digest, P!NoOp, Commanded

\* The configured directory is one of its device.
LEMMA ConfDirIsDir ==
    ASSUME Shapes, NEW v \in Devices
    PROVE  ConfDir(v) \in Dirs /\ ConfDir(v)[1] = v
  BY DEF Shapes, ConfDir, Dirs, Devices

\* The other commands, when one ends or goes on and the directory of none but that
\* one changes.
LEMMA OthersKept ==
    ASSUME PInd, NEW p \in Processes,
           op' = [op EXCEPT ![p] = op'[p]],
           op[p] # P!NoOp, op'[p].at \in {None, op[p].at},
           UNCHANGED <<config, published, imported, repo>>,
           \A q \in Processes \ {p} : op[q] # P!NoOp => dir'[op[q].at] = dir[op[q].at],
           \A d \in Dirs : Nonabsent(d)' <=> Nonabsent(d),
           NEW q \in Processes \ {p}, op'[q] # P!NoOp
    PROVE  OpOk(q)'
  <1>1. op'[q] = op[q] /\ op[q] # P!NoOp
    BY DEF PInd, Shapes
  <1>2. OpOk(q) /\ op[q].at \in Dirs
    BY <1>1 DEF PInd, Ops, OpOk, Leased
  <1>3. \A o \in Processes : op'[o].at = op[q].at => op[o].at = op[q].at \/ o = q
    BY <1>2, NoneIsNothing DEF PInd, Shapes
  <1>4. op[q].at[1] \in Devices
    BY <1>2 DEF Dirs
  <1>5. ConfDir(op[q].at[1]) \in Dirs
    BY <1>4, ConfDirIsDir DEF PInd
  <1>6. dir'[op[q].at] = dir[op[q].at]
    BY <1>1
  <1> QED
    BY <1>1, <1>2, <1>3, <1>5, <1>6, OtherKept

\* A command that ends leaves the others what they know.
LEMMA EndedOps ==
    ASSUME PInd, NEW p \in Processes, Ended(p), op[p] # P!NoOp,
           UNCHANGED <<config, published, imported, repo>>,
           \A q \in Processes \ {p} : op[q] # P!NoOp => dir'[op[q].at] = dir[op[q].at],
           \A d \in Dirs : Nonabsent(d)' <=> Nonabsent(d)
    PROVE  Ops' /\ op' \in [Processes -> Commanded]
  <1>1. op \in [Processes -> Commanded]
    BY DEF PInd, Shapes
  <1>2. op'[p] = P!NoOp /\ op' = [op EXCEPT ![p] = op'[p]]
    BY <1>1 DEF Ended
  <1>3. op'[p].at = None
    BY <1>2, NoneIsNothing
  <1>4. \A q \in Processes \ {p} : op'[q] # P!NoOp => OpOk(q)'
    BY <1>2, <1>3, OthersKept
  <1> QED
    BY <1>1, <1>2, <1>4, NoneIsNothing DEF Ops, Ended

\* So does a command that goes on.
LEMMA WentOps ==
    ASSUME PInd, NEW p \in Processes, NEW step \in {"building", "published", "cancelling", "importing"},
           Went(p, step), op[p] # P!NoOp,
           UNCHANGED <<config, published, imported, repo>>,
           \A q \in Processes \ {p} : op[q] # P!NoOp => dir'[op[q].at] = dir[op[q].at],
           \A d \in Dirs : Nonabsent(d)' <=> Nonabsent(d),
           OpOk(p)'
    PROVE  Ops' /\ op' \in [Processes -> Commanded]
  <1>1. op \in [Processes -> Commanded] /\ op[p] \in Commanded
    BY DEF PInd, Shapes
  <1>2. op'[p] = [op[p] EXCEPT !.step = step] /\ op' = [op EXCEPT ![p] = op'[p]]
    BY <1>1 DEF Went
  <1>3. op'[p].at = op[p].at /\ op'[p] \in Commanded
    BY <1>1, <1>2 DEF Commanded
  <1>4. \A q \in Processes \ {p} : op'[q] # P!NoOp => OpOk(q)'
    BY <1>2, <1>3, OthersKept
  <1> QED
    BY <1>1, <1>2, <1>3, <1>4 DEF Ops

\* What the step of a command leaves of it.
LEMMA WentOn ==
    ASSUME PInd, NEW p \in Processes, NEW step \in {"building", "published", "cancelling", "importing"},
           Went(p, step)
    PROVE  /\ op'[p].step = step /\ op'[p].kind = op[p].kind /\ op'[p].at = op[p].at
           /\ op'[p].digest = op[p].digest /\ op'[p].out = op[p].out
           /\ \A q \in Processes : op'[q].at = op[q].at
  BY DEF PInd, Shapes, Went, Commanded

\* What a command under way has.
LEMMA AtWork ==
    ASSUME PInd, NEW p \in Processes, op[p].kind # "none"
    PROVE  /\ op[p] # P!NoOp /\ OpOk(p)
           /\ op[p].at \in Dirs /\ op[p].digest \in Digest
           /\ op[p].digest.request \in Requests /\ op[p].at[1] \in Devices
           /\ op[p].digest.content \in Changes
           /\ op[p].digest.parent \in Requests \cup {None}
           /\ \A q \in Processes \ {p} : op[q].at # op[p].at
  <1>1. op[p] # P!NoOp /\ OpOk(p)
    BY NoneIsNothing DEF PInd, Ops
  <1>2. op[p].at \in Dirs /\ op[p].digest \in Digest /\ \A q \in Processes \ {p} : op[q].at # op[p].at
    BY <1>1 DEF OpOk, Leased
  <1> QED
    BY <1>1, <1>2 DEF Dirs, Digest, P!Digest, Changes, P!Contents

(* Refusals, failures, crashes and reads *)

\* Refusals, failures and crashes.
LEMMA StopKeeps ==
    ASSUME PInd, NEW p \in Processes, P!Refuse(p) \/ P!Fail(p) \/ P!Crash(p)
    PROVE  PInd'
  <1>1. /\ op[p] # P!NoOp
        /\ Ended(p)
        /\ orphaned' = orphaned \/ orphaned' = orphaned \cup {op[p].at}
        /\ broken' \in 0..MaxFaults
        /\ UNCHANGED <<dir, config, published, imported, repo>>
    BY StopDoes DEF PInd
  <1>2. op[p].at \in Dirs
    BY <1>1 DEF PInd, Ops, OpOk, Leased
  <1>3. Data' /\ Records'
    BY <1>1, DataSame DEF PInd
  <1>4. Ops' /\ op' \in [Processes -> Commanded]
    BY <1>1, EndedOps DEF Nonabsent
  <1>5. Shapes'
    BY <1>1, <1>2, <1>4 DEF PInd, Shapes
  <1> QED
    BY <1>3, <1>4, <1>5 DEF PInd

\* A step that changes no data and no command.
LEMMA OpsSame ==
    ASSUME PInd, UNCHANGED <<dir, config, published, imported, op>>
    PROVE  Data' /\ Records' /\ Ops'
  <1>1. Data' /\ Records'
    BY DataSame DEF PInd
  <1>2. ASSUME NEW p \in Processes, OpOk(p) PROVE OpOk(p)'
    BY <1>2 DEF OpOk, Leased, Knows, Current, FirstImport, Continuing, Published, Nonabsent,
           ConfDir, AtStep, Came
  <1>3. Ops'
    BY <1>2 DEF PInd, Ops
  <1> QED
    BY <1>1, <1>3

\* The repository moves; a lease left behind is cleared.
LEMMA ReadKeeps ==
    ASSUME PInd,
           \/ \E v \in Devices, h \in Heads : P!Commit(v, h)
           \/ \E d \in Dirs : P!ClearLease(d)
    PROVE  PInd'
  <1>1. CASE \E v \in Devices, h \in Heads : P!Commit(v, h)
    <2>1. /\ repo' \in [Devices -> Heads]
          /\ UNCHANGED <<dir, config, published, imported, op, orphaned, broken>>
      BY <1>1, CommitDoes DEF PInd
    <2>2. Shapes'
      BY <2>1 DEF PInd, Shapes
    <2> QED
      BY <2>1, <2>2, OpsSame DEF PInd
  <1>2. CASE \E d \in Dirs : P!ClearLease(d)
    <2>1. orphaned' \subseteq orphaned /\ UNCHANGED <<dir, config, published, imported, op, repo, broken>>
      BY <1>2 DEF P!ClearLease
    <2>2. Shapes'
      BY <2>1 DEF PInd, Shapes
    <2> QED
      BY <2>1, <2>2, OpsSame DEF PInd
  <1> QED
    BY <1>1, <1>2

(* Commands that begin, and the checks of cancel and import *)

\* A frozen directory holds its package, and came from what that continues.
LEMMA FromSource ==
    ASSUME PInd, NEW f \in Dirs, Frozen(f)
    PROVE  /\ Nonabsent(f) /\ Into(f) \in Requests /\ Published(Into(f))
           /\ From(f) = published[Into(f)].parent
  <1>1. Into(f) \in Requests /\ Published(Into(f))
    BY DEF PInd, Data, Packages
  <1>2. Nonabsent(f)
    BY DEF Frozen, Nonabsent
  <1>3. CASE dir[f].state = "exported"
    BY <1>1, <1>2, <1>3 DEF From, Into
  <1>4. CASE dir[f].state # "exported"
    BY <1>1, <1>2, <1>4 DEF PInd, Records, Frozen, From, Into
  <1> QED
    BY <1>3, <1>4

\* Every package has such a directory.
LEMMA SourceOf ==
    ASSUME PInd, NEW r \in Requests, Published(r)
    PROVE  \E f \in Dirs : Frozen(f) /\ Nonabsent(f) /\ Into(f) = r /\ From(f) = published[r].parent
  <1>1. PICK f \in Dirs : Frozen(f) /\ Into(f) = r
    BY DEF PInd, Data, Packages
  <1> QED
    BY <1>1, FromSource

\* A command that begins has the lease for itself.
LEMMA StartedOps ==
    ASSUME PInd, NEW p \in Processes, NEW v \in Devices, op[p] = P!NoOp, Free(ConfDir(v)),
           NEW rec \in Commanded, rec.at = ConfDir(v), rec # P!NoOp,
           op' = [op EXCEPT ![p] = rec],
           UNCHANGED <<dir, config, published, imported, repo>>,
           Knows(p)', FirstImport(p)', Continuing(p)', rec.digest \in Digest
    PROVE  Ops' /\ op' \in [Processes -> Commanded]
  <1>1. op'[p] = rec /\ \A q \in Processes \ {p} : op'[q] = op[q]
    BY DEF PInd, Shapes
  <1>2. ConfDir(v) \in Dirs /\ ConfDir(v)[1] = v
    BY ConfDirIsDir DEF PInd
  <1>3. Leased(p)'
    BY <1>1, <1>2 DEF Leased, Free
  <1>4. Current(p)'
    BY <1>1, <1>2 DEF Current, ConfDir
  <1>5. ASSUME NEW q \in Processes \ {p}, op'[q] # P!NoOp
        PROVE  OpOk(q)'
    <2>1. op'[q] = op[q] /\ OpOk(q) /\ op[q].at \in Dirs
      BY <1>1, <1>5 DEF PInd, Ops, OpOk, Leased
    <2>2. \A o \in Processes : op'[o].at = op[q].at => op[o].at = op[q].at \/ o = q
      BY <1>1, <2>1 DEF Free
    <2>3. ConfDir(op[q].at[1]) \in Dirs
      BY <2>1, ConfDirIsDir DEF PInd, Dirs
    <2> QED
      BY <2>1, <2>2, <2>3, OtherKept DEF Nonabsent
  <1>6. OpOk(p)'
    BY <1>3, <1>4 DEF OpOk
  <1> QED
    BY <1>1, <1>5, <1>6 DEF Ops, PInd, Shapes

\* An export or a cancellation takes its lease.
LEMMA StartExportKeeps ==
    ASSUME PInd, NEW p \in Processes, NEW v \in Devices, NEW g \in P!Previewed(P!Configured(v)),
           P!StartExport(p, v, g) \/ P!StartCancel(p, v, g)
    PROVE  PInd'
  <1>1. /\ op[p] = P!NoOp
        /\ ConfDir(v) \in Dirs /\ Free(ConfDir(v)) /\ g \in Digest
        /\ UNCHANGED <<dir, config, published, imported, orphaned, repo, broken>>
    BY StartExportDoes DEF PInd
  <1>2. PICK kind \in {"export", "cancel"} :
          op' = [op EXCEPT ![p] = [kind |-> kind, at |-> ConfDir(v), digest |-> g,
                                   out |-> None, step |-> "checking"]]
    BY StartExportDoes DEF PInd
  <1> DEFINE rec == [kind |-> kind, at |-> ConfDir(v), digest |-> g, out |-> None, step |-> "checking"]
  <1>3. rec \in Commanded /\ rec.at = ConfDir(v) /\ rec # P!NoOp /\ op' = [op EXCEPT ![p] = rec]
        /\ rec.digest \in Digest
    BY <1>1, <1>2, NoneIsNothing DEF Commanded
  <1>4. op'[p] = rec
    BY <1>2 DEF PInd, Shapes
  <1>5. Knows(p)' /\ FirstImport(p)' /\ Continuing(p)'
    BY <1>4 DEF Knows, FirstImport, Continuing, AtStep
  <1> HIDE DEF rec
  <1>6. Ops' /\ op' \in [Processes -> Commanded]
    BY <1>1, <1>3, <1>5, StartedOps
  <1>7. Data' /\ Records'
    BY <1>1, DataSame DEF PInd
  <1>8. Shapes'
    BY <1>1, <1>6 DEF PInd, Shapes
  <1> QED
    BY <1>6, <1>7, <1>8 DEF PInd

\* With no data configured, a package its device has not imported finds none there.
LEMMA NothingThere ==
    ASSUME PInd, NEW v \in Devices, NEW r \in Requests, Published(r), r \notin imported[v],
           ~Nonabsent(ConfDir(v)), NEW d \in Dirs, d[1] = v
    PROVE  ~Nonabsent(d)
  <1> SUFFICES ASSUME Nonabsent(d) PROVE FALSE
    OBVIOUS
  <1>1. PICK f \in Dirs : Frozen(f) /\ Nonabsent(f) /\ Into(f) = r /\ From(f) = published[r].parent
    BY SourceOf
  <1>2. published[r].parent = None
    BY DEF PInd, Data, Configured
  <1>3. f = <<"A", 1>>
    BY <1>1, <1>2 DEF PInd, Data, Imports
  <1>4. f[1] # v
    BY <1>1 DEF PInd, Data, Configured
  <1>5. From(d) # None /\ From(d) \in imported[v]
    BY <1>3, <1>4 DEF PInd, Data, Imports
  <1>6. From(d) \in Requests /\ Published(From(d))
    BY <1>5 DEF PInd, Data, Imports, Shapes
  <1>7. PICK e \in Dirs : Frozen(e) /\ Nonabsent(e) /\ Into(e) = From(d) /\ From(e) = published[From(d)].parent
    BY <1>6, SourceOf
  <1>8. published[From(d)].parent = None
    BY <1>6 DEF PInd, Data, Configured
  <1>9. e = f
    BY <1>3, <1>7, <1>8 DEF PInd, Data, Imports
  <1> QED
    BY <1>1, <1>5, <1>7, <1>9

\* An import takes its lease.
LEMMA StartImportKeeps ==
    ASSUME PInd, NEW p \in Processes, NEW v \in Devices, NEW r \in Requests,
           NEW n \in 1..MaxDirs, P!StartImport(p, v, r, n)
    PROVE  PInd'
  <1> DEFINE rec == [kind |-> "import", at |-> ConfDir(v), digest |-> published[r],
                     out |-> <<v, n>>, step |-> "checking"]
  <1>1. /\ op[p] = P!NoOp
        /\ ConfDir(v) \in Dirs /\ Free(ConfDir(v)) /\ Published(r) /\ r \notin imported[v]
        /\ op' = [op EXCEPT ![p] = rec]
        /\ UNCHANGED <<dir, config, published, imported, orphaned, repo, broken>>
    BY StartImportDoes DEF PInd
  <1>2. published[r] \in Digest /\ published[r].request = r
    BY <1>1 DEF PInd, Shapes, Records, Published
  <1>3. <<v, n>> \in Dirs /\ ConfDir(v)[1] = v
    BY ConfDirIsDir DEF PInd, Dirs
  <1>4. rec \in Commanded /\ rec.at = ConfDir(v) /\ rec # P!NoOp /\ rec.digest \in Digest
    BY <1>1, <1>2, <1>3, NoneIsNothing DEF Commanded
  <1>5. op'[p] = rec
    BY <1>1 DEF PInd, Shapes
  <1>6. Knows(p)'
    BY <1>1, <1>2, <1>3, <1>5 DEF Knows, Published
  <1>7. FirstImport(p)'
    <2>1. ASSUME ~Nonabsent(ConfDir(v)), NEW d \in Dirs, d[1] = v
          PROVE  ~Nonabsent(d)
      BY <1>1, <2>1, NothingThere
    <2> QED
      BY <1>1, <1>3, <1>5, <2>1 DEF FirstImport, Nonabsent, ConfDir
  <1>8. Continuing(p)'
    BY <1>1, <1>2, <1>3, <1>5 DEF Continuing, AtStep
  <1> HIDE DEF rec
  <1>9. Ops' /\ op' \in [Processes -> Commanded]
    BY <1>1, <1>4, <1>6, <1>7, <1>8, StartedOps
  <1>10. Data' /\ Records'
    BY <1>1, DataSame DEF PInd
  <1>11. Shapes'
    BY <1>1, <1>9 DEF PInd, Shapes
  <1> QED
    BY <1>9, <1>10, <1>11 DEF PInd

\* A cancellation finds the intent, or nothing to cancel.
LEMMA CheckCancelKeeps ==
    ASSUME PInd, NEW p \in Processes, P!CheckCancel(p)
    PROVE  PInd'
  <1>1. /\ AtStep(p, "cancel", "checking")
        /\ ~(/\ dir[op[p].at].state = "exporting" /\ dir[op[p].at].pending = op[p].digest
             /\ Published(op[p].digest.request))
        /\ Went(p, "cancelling")
        /\ UNCHANGED <<dir, config, published, imported, orphaned, repo, broken>>
    BY CheckCancelDoes
  <1>2. op[p] # P!NoOp /\ OpOk(p)
    BY <1>1, AtWork DEF AtStep
  <1>3. op'[p].step = "cancelling" /\ op'[p].kind = "cancel" /\ op'[p].at = op[p].at
        /\ op'[p].digest = op[p].digest /\ \A q \in Processes : op'[q].at = op[q].at
    BY <1>1, WentOn DEF AtStep
  <1>4. OpOk(p)'
    <2>1. Leased(p)'
      BY <1>2, <1>3 DEF OpOk, Leased
    <2>2. Knows(p)'
      BY <1>1, <1>3 DEF Knows, Published
    <2>3. Current(p)' /\ FirstImport(p)' /\ Continuing(p)'
      BY <1>1, <1>2, <1>3 DEF OpOk, Current, FirstImport, Continuing, AtStep, ConfDir, Nonabsent
    <2> QED
      BY <2>1, <2>2, <2>3 DEF OpOk
  <1>5. Ops' /\ op' \in [Processes -> Commanded]
    BY <1>1, <1>2, <1>4, WentOps DEF Nonabsent
  <1>6. Data' /\ Records'
    BY <1>1, DataSame DEF PInd
  <1>7. Shapes'
    BY <1>1, <1>5 DEF PInd, Shapes
  <1> QED
    BY <1>5, <1>6, <1>7 DEF PInd

\* An import that may go on is of a package nobody has.
LEMMA FirstToCome ==
    ASSUME PInd, NEW p \in Processes, op[p].kind = "import",
           P!Continues(dir[op[p].at], op[p].digest)
    PROVE  ~Came(op[p].digest.request)
  <1> DEFINE r == op[p].digest.request
             v == op[p].at[1]
             at == op[p].at
  <1>1. OpOk(p) /\ at \in Dirs /\ r \in Requests /\ v \in Devices
    BY AtWork
  <1>2. Published(r) /\ published[r] = op[p].digest
    BY <1>1 DEF OpOk, Knows
  <1>3. PICK f \in Dirs : Frozen(f) /\ Nonabsent(f) /\ Into(f) = r /\ From(f) = published[r].parent
    BY <1>1, <1>2, SourceOf
  <1> SUFFICES ASSUME NEW w \in Devices, r \in imported[w]
               PROVE  FALSE
    BY DEF Came
  <1>4. PICK e \in Dirs : e[1] = w /\ Nonabsent(e) /\ From(e) = r
    BY <1>1 DEF PInd, Data, Imports
  <1>5. w # f[1] /\ f[1] \in Devices
    BY <1>3, <1>4 DEF PInd, Data, Elsewhere, Dirs
  <1>6. CASE ~Nonabsent(at)
    <2>1. \A d \in Dirs : d[1] = v => ~Nonabsent(d)
      BY <1>1, <1>6 DEF OpOk, FirstImport
    <2>2. w # v /\ f[1] # v
      BY <1>3, <1>4, <2>1
    <2> QED
      BY <1>1, <1>5, <2>2 DEF Devices
  <1>7. CASE dir[at].state = "exported" /\ dir[at].last = op[p].digest.parent
    <2>1. Frozen(at) /\ Into(at) = From(f)
      BY <1>2, <1>3, <1>7 DEF Frozen, Into
    <2>2. f[1] # v
      BY <1>1, <1>3, <2>1 DEF PInd, Data, Elsewhere
    <2>3. r \notin imported[v]
      BY <1>1, <1>7 DEF OpOk, Continuing
    <2> QED
      BY <1>1, <1>5, <2>2, <2>3 DEF Devices
  <1> QED
    BY <1>6, <1>7 DEF P!Continues, Nonabsent

\* An import may go on.
LEMMA PreviewImportKeeps ==
    ASSUME PInd, NEW p \in Processes, P!PreviewImport(p)
    PROVE  PInd'
  <1>1. /\ AtStep(p, "import", "checking")
        /\ P!Continues(dir[op[p].at], op[p].digest)
        /\ Went(p, "importing")
        /\ UNCHANGED <<dir, config, published, imported, orphaned, repo, broken>>
    BY PreviewImportDoes
  <1>2. op[p] # P!NoOp /\ OpOk(p) /\ op[p].kind = "import"
    BY <1>1, AtWork DEF AtStep
  <1>3. op'[p].step = "importing" /\ op'[p].kind = "import" /\ op'[p].at = op[p].at
        /\ op'[p].digest = op[p].digest /\ op'[p].out = op[p].out
        /\ \A q \in Processes : op'[q].at = op[q].at
    BY <1>1, WentOn DEF AtStep
  <1>4. ~Came(op[p].digest.request)
    BY <1>1, <1>2, FirstToCome
  <1>5. OpOk(p)'
    <2>1. Leased(p)'
      BY <1>2, <1>3 DEF OpOk, Leased
    <2>2. Knows(p)'
      BY <1>1, <1>2, <1>3 DEF OpOk, Knows, Published
    <2>3. Current(p)' /\ FirstImport(p)'
      BY <1>1, <1>2, <1>3 DEF OpOk, Current, FirstImport, ConfDir, Nonabsent
    <2>4. Continuing(p)'
      BY <1>1, <1>2, <1>3, <1>4 DEF OpOk, Continuing, AtStep, Nonabsent, Came, P!Continues
    <2> QED
      BY <2>1, <2>2, <2>3, <2>4 DEF OpOk
  <1>6. Ops' /\ op' \in [Processes -> Commanded]
    BY <1>1, <1>2, <1>5, WentOps DEF Nonabsent
  <1>7. Data' /\ Records'
    BY <1>1, DataSame DEF PInd
  <1>8. Shapes'
    BY <1>1, <1>6 DEF PInd, Shapes
  <1> QED
    BY <1>6, <1>7, <1>8 DEF PInd

(* Steps that change the configured directory *)

\* Work goes on in the open directory.
LEMMA WorkKeeps ==
    ASSUME PInd, NEW v \in Devices, P!Work(v)
    PROVE  PInd'
  <1>0. PICK c \in Dirs : c = ConfDir(v)
    BY WorkDoes DEF PInd
  <1>1. /\ c \in Dirs
        /\ dir[c].state = "active"
        /\ Free(c)
        /\ dir[c].content + 1 \in Changes
        /\ dir' = [dir EXCEPT ![c] = [dir[c] EXCEPT !.content = dir[c].content + 1]]
        /\ UNCHANGED <<config, published, imported, op, orphaned, repo, broken>>
    BY <1>0, WorkDoes DEF PInd
  <1>2. /\ \A d \in Dirs \ {c} : dir'[d] = dir[d]
        /\ dir'[c] = [dir[c] EXCEPT !.content = dir[c].content + 1]
        /\ dir[c].content \in Nat
    BY <1>1, TransferAssumption DEF PInd, Shapes, Changes
  <1>3. /\ dir'[c].state = "active" /\ dir'[c].last = dir[c].last /\ dir'[c].pending = dir[c].pending
        /\ dir'[c].content = dir[c].content + 1 /\ dir[c].content \in Nat
    BY <1>1, <1>2 DEF PInd, Shapes
  <1>4. Shapes'
    BY <1>1 DEF PInd, Shapes
  <1>5. \A d \in Dirs :
          /\ Frozen(d)' <=> Frozen(d)
          /\ Frozen(d) => Into(d)' = Into(d)
          /\ Nonabsent(d)' <=> Nonabsent(d)
          /\ Nonabsent(d) => From(d)' = From(d)
          /\ Open(d)' <=> Open(d)
    BY <1>1, <1>2, <1>3 DEF Frozen, Into, Nonabsent, From, Open, Published
  <1>6. Open(c)
    BY <1>1 DEF Open, Frozen
  <1>7. Branch'
    <2>1. \A r \in Requests : (Published(r)' <=> Published(r)) /\ (Came(r)' <=> Came(r))
      BY <1>1 DEF Published, Came
    <2>2. \A d, e \in Dirs : Open(d)' /\ Open(e)' => d = e
      BY <1>5 DEF PInd, Data, Branch
    <2>3. \A d \in Dirs, r \in Requests : Open(d)' /\ Published(r)' => Came(r)'
      BY <1>5, <2>1 DEF PInd, Data, Branch
    <2>4. \A r, t \in Requests : Published(r)' /\ Published(t)' /\ ~Came(r)' /\ ~Came(t)' => r = t
      BY <2>1 DEF PInd, Data, Branch
    <2>5. ASSUME NEW d \in Dirs, NEW e \in Dirs, Open(d)'
          PROVE  dir'[e].content <= dir'[d].content
      <3>1. d = c
        <4>1. Open(d)
          BY <1>5, <2>5
        <4> QED
          BY <1>1, <1>6, <4>1 DEF PInd, Data, Branch
      <3>2. dir[e].content <= dir[c].content /\ dir[e].content \in Nat
        BY <1>1, <1>6, TransferAssumption DEF PInd, Data, Branch, Shapes, Changes
      <3> QED
        <4>1. dir'[d].content = dir[c].content + 1
          BY <1>3, <3>1
        <4>2. CASE e = c
          <5>1. dir'[e].content = dir'[c].content /\ dir'[c].content \in Nat
            BY <1>3, <4>2
          <5> QED
            BY <1>3, <4>1, <5>1
        <4>3. CASE e # c
          BY <1>2, <3>2, <4>1, <4>3
        <4> QED
          BY <4>2, <4>3
    <2>6. \A r \in Requests, e \in Dirs : ~(Published(r)' /\ ~Came(r)')
      BY <1>1, <1>6, <2>1 DEF PInd, Data, Branch
    <2> QED
      BY <2>2, <2>3, <2>4, <2>5, <2>6 DEF Branch
  <1>8. Data'
    BY <1>1, <1>5, <1>7, RegularRest DEF PInd, Data
  <1>9. Records'
    BY <1>1, <1>2, <1>3 DEF PInd, Records, Published
  <1>10. ASSUME NEW q \in Processes, op'[q] # P!NoOp
         PROVE  OpOk(q)'
    <2>1. OpOk(q) /\ op'[q] = op[q] /\ op[q].at \in Dirs
      BY <1>1, <1>10 DEF PInd, Ops, OpOk, Leased
    <2>2. dir'[op[q].at] = dir[op[q].at]
      BY <1>1, <1>2, <2>1 DEF Free
    <2>3. ConfDir(op[q].at[1]) \in Dirs
      BY <2>1, ConfDirIsDir DEF PInd, Dirs
    <2> QED
      BY <1>1, <1>5, <2>1, <2>2, <2>3, OtherKept
  <1> QED
    BY <1>4, <1>8, <1>9, <1>10 DEF PInd, Ops

\* What a change of the state of one directory comes to.
LEMMA Became ==
    ASSUME PInd, NEW d \in Dirs, NEW state \in {"active", "exporting", "exported"},
           NEW last \in Requests \cup {None}, NEW pending \in Digest \cup {None},
           BecameOf(d, state, last, pending)
    PROVE  /\ dir' \in [Dirs -> [state : {"absent", "active", "exporting", "exported"},
                                 content : Changes, last : Requests \cup {None},
                                 pending : Digest \cup {None}]]
           /\ \A e \in Dirs \ {d} : dir'[e] = dir[e]
           /\ dir'[d].state = state /\ dir'[d].last = last /\ dir'[d].pending = pending
           /\ dir'[d].content = dir[d].content
  BY DEF PInd, Shapes, BecameOf

\* The intent of an export is written.
LEMMA BeginKeeps ==
    ASSUME PInd, NEW p \in Processes, P!BeginExportIntent(p)
    PROVE  PInd'
  <1> DEFINE d == op[p].at
             g == op[p].digest
  <1>1. /\ AtStep(p, "export", "checking")
        /\ ~Published(g.request)
        /\ dir[d].state = "active" \/ (dir[d].state = "exporting" /\ dir[d].pending = g)
        /\ g = [request |-> g.request, content |-> dir[d].content, parent |-> dir[d].last,
                git |-> repo[d[1]]]
        /\ BecameOf(d, "exporting", dir[d].last, g)
        /\ Went(p, "building")
        /\ UNCHANGED <<config, published, imported, orphaned, repo, broken>>
    BY BeginDoes
  <1>2. /\ op[p] # P!NoOp /\ OpOk(p) /\ d \in Dirs /\ g \in Digest
        /\ \A q \in Processes \ {p} : op[q].at # d
    BY <1>1, AtWork DEF AtStep
  <1>3. dir[d].last \in Requests \cup {None}
    BY <1>2 DEF PInd, Shapes
  <1>4. /\ dir' \in [Dirs -> [state : {"absent", "active", "exporting", "exported"},
                              content : Changes, last : Requests \cup {None},
                              pending : Digest \cup {None}]]
        /\ \A e \in Dirs \ {d} : dir'[e] = dir[e]
        /\ dir'[d].state = "exporting" /\ dir'[d].last = dir[d].last /\ dir'[d].pending = g
        /\ dir'[d].content = dir[d].content
    BY <1>1, <1>2, <1>3, Became
  <1>5. \A e \in Dirs :
          /\ Frozen(e)' <=> Frozen(e)
          /\ Frozen(e) => Into(e)' = Into(e)
          /\ Nonabsent(e)' <=> Nonabsent(e)
          /\ Nonabsent(e) => From(e)' = From(e)
          /\ Open(e)' => Open(e)
          /\ (dir[e].content)' = dir[e].content
    BY <1>1, <1>4 DEF Frozen, Into, Nonabsent, From, Open, Published
  <1>6. Data'
    BY <1>1, <1>5, Regular DEF PInd
  <1>7. Records'
    <2>1. g.content = dir[d].content /\ g.parent = dir[d].last
      BY <1>1
    <2> QED
      BY <1>1, <1>2, <1>4, <2>1 DEF PInd, Records, Published
  <1>8. op'[p].step = "building" /\ op'[p].kind = "export" /\ op'[p].at = d /\ op'[p].digest = g
        /\ \A q \in Processes : op'[q].at = op[q].at
    BY <1>1, WentOn DEF AtStep
  <1>9. OpOk(p)'
    <2>1. Leased(p)'
      BY <1>2, <1>8 DEF OpOk, Leased
    <2>2. Knows(p)'
      BY <1>1, <1>4, <1>8 DEF Knows, Published
    <2>3. d[1] \in Devices
      BY <1>2 DEF Dirs
    <2>4. <<d[1], config[d[1]]>> \in Dirs
      BY <2>3, ConfDirIsDir DEF PInd, ConfDir
    <2>6. Current(p)'
      BY <1>1, <1>2, <1>5, <1>8, <2>4 DEF OpOk, Current, ConfDir
    <2>5. FirstImport(p)' /\ Continuing(p)'
      BY <1>8 DEF FirstImport, Continuing, AtStep
    <2> QED
      BY <2>1, <2>2, <2>6, <2>5 DEF OpOk
  <1>10. Ops' /\ op' \in [Processes -> Commanded]
    <2>1. \A q \in Processes \ {p} : op[q] # P!NoOp => dir'[op[q].at] = dir[op[q].at]
      BY <1>2, <1>4 DEF PInd, Ops, OpOk, Leased
    <2> QED
      BY <1>1, <1>2, <1>5, <1>9, <2>1, WentOps
  <1>11. Shapes'
    BY <1>1, <1>4, <1>10 DEF PInd, Shapes
  <1> QED
    BY <1>6, <1>7, <1>10, <1>11 DEF PInd

\* The end of a command that leaves its directory exported.
LEMMA ExportedKeeps ==
    ASSUME PInd, NEW p \in Processes, op[p].kind # "none",
           Published(op[p].digest.request),
           dir[op[p].at].state = "exporting", dir[op[p].at].pending = op[p].digest,
           BecameOf(op[p].at, "exported", op[p].digest.request, None),
           Ended(p),
           UNCHANGED <<config, published, imported, orphaned, repo, broken>>
    PROVE  PInd'
  <1> DEFINE d == op[p].at
             g == op[p].digest
  <1>2. /\ op[p] # P!NoOp /\ OpOk(p) /\ d \in Dirs /\ g \in Digest /\ g.request \in Requests
        /\ \A q \in Processes \ {p} : op[q].at # d
    BY AtWork
  <1>4. /\ dir' \in [Dirs -> [state : {"absent", "active", "exporting", "exported"},
                              content : Changes, last : Requests \cup {None},
                              pending : Digest \cup {None}]]
        /\ \A e \in Dirs \ {d} : dir'[e] = dir[e]
        /\ dir'[d].state = "exported" /\ dir'[d].last = g.request /\ dir'[d].pending = None
        /\ dir'[d].content = dir[d].content
    BY <1>2, Became
  <1>5. published[g.request] = g /\ g.parent = dir[d].last
    BY <1>2 DEF PInd, Records
  <1>6. \A e \in Dirs :
          /\ Frozen(e)' <=> Frozen(e)
          /\ Frozen(e) => Into(e)' = Into(e)
          /\ Nonabsent(e)' <=> Nonabsent(e)
          /\ Nonabsent(e) => From(e)' = From(e)
          /\ Open(e)' => Open(e)
          /\ (dir[e].content)' = dir[e].content
    BY <1>4, <1>5 DEF Frozen, Into, Nonabsent, From, Open, Published
  <1>7. Data'
    BY <1>6, Regular DEF PInd
  <1>8. Records'
    BY <1>4 DEF PInd, Records, Published
  <1>9. Ops' /\ op' \in [Processes -> Commanded]
    <2>1. \A q \in Processes \ {p} : op[q] # P!NoOp => dir'[op[q].at] = dir[op[q].at]
      BY <1>2, <1>4 DEF PInd, Ops, OpOk, Leased
    <2> QED
      BY <1>2, <1>6, <2>1, EndedOps
  <1>10. Shapes'
    BY <1>4, <1>9 DEF PInd, Shapes
  <1> QED
    BY <1>7, <1>8, <1>9, <1>10 DEF PInd

\* An export that is through already is told again.
LEMMA ReplayKeeps ==
    ASSUME PInd, NEW p \in Processes, P!ReplayExport(p)
    PROVE  PInd'
  <1>1. /\ AtStep(p, "export", "checking")
        /\ Published(op[p].digest.request)
        /\ \/ /\ dir[op[p].at].state = "exporting"
              /\ dir[op[p].at].pending = op[p].digest
              /\ BecameOf(op[p].at, "exported", op[p].digest.request, None)
           \/ UNCHANGED dir
        /\ Ended(p)
        /\ UNCHANGED <<config, published, imported, orphaned, repo, broken>>
    BY ReplayDoes
  <1>2. op[p].kind # "none" /\ op[p] # P!NoOp
    BY <1>1, NoneIsNothing DEF AtStep
  <1>3. CASE UNCHANGED dir
    <2>1. Data' /\ Records'
      BY <1>1, <1>3, DataSame DEF PInd
    <2>2. Ops' /\ op' \in [Processes -> Commanded]
      BY <1>1, <1>2, <1>3, EndedOps DEF Nonabsent
    <2>3. Shapes'
      BY <1>1, <1>3, <2>2 DEF PInd, Shapes
    <2> QED
      BY <2>1, <2>2, <2>3 DEF PInd
  <1>4. CASE /\ dir[op[p].at].state = "exporting"
             /\ dir[op[p].at].pending = op[p].digest
             /\ BecameOf(op[p].at, "exported", op[p].digest.request, None)
    BY <1>1, <1>2, <1>4, ExportedKeeps
  <1> QED
    BY <1>1, <1>3, <1>4

\* The dataset is exported, after its package.
LEMMA FinalizeKeeps ==
    ASSUME PInd, NEW p \in Processes, P!FinalizeExport(p)
    PROVE  PInd'
  <1>1. /\ AtStep(p, "export", "published")
        /\ dir[op[p].at].state = "exporting" /\ dir[op[p].at].pending = op[p].digest
        /\ BecameOf(op[p].at, "exported", op[p].digest.request, None)
        /\ Ended(p)
        /\ UNCHANGED <<config, published, imported, orphaned, repo, broken>>
    BY FinalizeDoes
  <1>2. op[p].kind = "export" /\ op[p].step = "published" /\ op[p] # P!NoOp
    BY <1>1, NoneIsNothing DEF AtStep
  <1>3. Published(op[p].digest.request)
    BY <1>2 DEF PInd, Ops, OpOk, Knows
  <1> QED
    BY <1>1, <1>2, <1>3, ExportedKeeps

\* The dataset is active again: no package was published.
LEMMA CancelKeeps ==
    ASSUME PInd, NEW p \in Processes, P!CancelExportIntent(p)
    PROVE  PInd'
  <1> DEFINE d == op[p].at
             g == op[p].digest
  <1>1. /\ AtStep(p, "cancel", "cancelling")
        /\ dir[d].state = "exporting" /\ dir[d].pending = g
        /\ BecameOf(d, "active", dir[d].last, None)
        /\ Ended(p)
        /\ UNCHANGED <<config, published, imported, orphaned, repo, broken>>
    BY CancelDoes
  <1>2. /\ op[p] # P!NoOp /\ OpOk(p) /\ d \in Dirs /\ g \in Digest
        /\ \A q \in Processes \ {p} : op[q].at # d
    BY <1>1, AtWork DEF AtStep
  <1>3. ~Published(g.request)
    BY <1>1, <1>2 DEF OpOk, Knows, AtStep
  <1>4. dir[d].last \in Requests \cup {None}
    BY <1>2 DEF PInd, Shapes
  <1>5. /\ dir' \in [Dirs -> [state : {"absent", "active", "exporting", "exported"},
                              content : Changes, last : Requests \cup {None},
                              pending : Digest \cup {None}]]
        /\ \A e \in Dirs \ {d} : dir'[e] = dir[e]
        /\ dir'[d].state = "active" /\ dir'[d].last = dir[d].last /\ dir'[d].pending = None
        /\ dir'[d].content = dir[d].content
    BY <1>1, <1>2, <1>4, Became
  <1>6. \A e \in Dirs :
          /\ Frozen(e)' <=> Frozen(e)
          /\ Frozen(e) => Into(e)' = Into(e)
          /\ Nonabsent(e)' <=> Nonabsent(e)
          /\ Nonabsent(e) => From(e)' = From(e)
          /\ Open(e)' => Open(e)
          /\ (dir[e].content)' = dir[e].content
    BY <1>1, <1>3, <1>5 DEF Frozen, Into, Nonabsent, From, Open, Published
  <1>7. Data'
    BY <1>1, <1>6, Regular DEF PInd
  <1>8. Records'
    BY <1>1, <1>5 DEF PInd, Records, Published
  <1>9. Ops' /\ op' \in [Processes -> Commanded]
    <2>1. \A q \in Processes \ {p} : op[q] # P!NoOp => dir'[op[q].at] = dir[op[q].at]
      BY <1>2, <1>5 DEF PInd, Ops, OpOk, Leased
    <2> QED
      BY <1>1, <1>2, <1>6, <2>1, EndedOps
  <1>10. Shapes'
    BY <1>1, <1>5, <1>9 DEF PInd, Shapes
  <1> QED
    BY <1>7, <1>8, <1>9, <1>10 DEF PInd

\* A device is configured with another directory.
LEMMA ConfigureKeeps ==
    ASSUME PInd, NEW v \in Devices, NEW n \in 1..MaxDirs, P!Configure(v, n)
    PROVE  PInd'
  <1>1. /\ Nonabsent(<<v, n>>)
        /\ config' = [config EXCEPT ![v] = n]
        /\ UNCHANGED <<dir, published, imported, op, orphaned, repo, broken>>
    BY ConfigureDoes
  <1>2. Shapes' /\ Records'
    BY <1>1 DEF PInd, Shapes, Records, Published
  <1>3. /\ ConfDir(v)' = <<v, n>> /\ <<v, n>> \in Dirs
        /\ \A w \in Devices \ {v} : ConfDir(w)' = ConfDir(w)
    BY <1>1 DEF PInd, Shapes, ConfDir, Dirs
  <1>4. \A d \in Dirs :
          /\ Frozen(d)' <=> Frozen(d)
          /\ Into(d)' = Into(d)
          /\ Nonabsent(d)' <=> Nonabsent(d)
          /\ From(d)' = From(d)
          /\ Open(d)' <=> Open(d)
    BY <1>1 DEF Frozen, Into, Nonabsent, From, Open, Published
  <1>5. \A r \in Requests : (Published(r)' <=> Published(r)) /\ (Came(r)' <=> Came(r))
    BY <1>1 DEF Published, Came
  <1>6. Packages' /\ Imports' /\ Elsewhere' /\ Branch'
    BY <1>1 DEF PInd, Data, Packages, Imports, Elsewhere, Branch, Frozen, Into, Nonabsent, From, Open,
                Published, Came
  <1>7. \A w \in Devices : Nonabsent(ConfDir(w)) => Nonabsent(ConfDir(w))'
    <2> SUFFICES ASSUME NEW w \in Devices, Nonabsent(ConfDir(w)) PROVE Nonabsent(ConfDir(w))'
      OBVIOUS
    <2>1. CASE w = v
      BY <1>1, <1>3, <2>1 DEF Nonabsent
    <2>2. CASE w # v
      BY <1>1, <1>3, <2>2 DEF Nonabsent
    <2> QED
      BY <2>1, <2>2
  <1>8. Nonabsent(ConfDir(v))'
    BY <1>1, <1>3 DEF Nonabsent
  <1>9. Configured'
    <2>1. ASSUME NEW d \in Dirs, Frozen(d)'
          PROVE  Nonabsent(ConfDir(d[1]))'
      <3>1. d[1] \in Devices /\ Nonabsent(ConfDir(d[1]))
        BY <1>4, <2>1 DEF PInd, Data, Configured, Dirs
      <3> QED
        BY <1>7, <3>1 DEF Nonabsent
    <2>2. ASSUME NEW w \in Devices, NEW r \in Requests, ~Nonabsent(ConfDir(w))', Published(r)'
          PROVE  published'[r].parent = None
      <3>1. ~Nonabsent(ConfDir(w))
        BY <1>7, <2>2 DEF Nonabsent
      <3> QED
        BY <1>1, <1>5, <2>2, <3>1 DEF PInd, Data, Configured
    <2> QED
      BY <2>1, <2>2 DEF Configured
  <1>10. ASSUME NEW q \in Processes, op'[q] # P!NoOp
         PROVE  OpOk(q)'
    <2>1. OpOk(q) /\ op'[q] = op[q] /\ op[q].at \in Dirs /\ op[q].at[1] \in Devices
      BY <1>1, <1>10 DEF PInd, Ops, OpOk, Leased, Dirs
    <2>2. Leased(q)' /\ Knows(q)' /\ Continuing(q)'
      BY <1>1, <2>1 DEF OpOk, Leased, Knows, Continuing, Published, Nonabsent, AtStep, Came
    <2>3. CASE op[q].at[1] = v
      <3>1. Current(q)'
        BY <1>1, <1>3, <2>1, <2>3 DEF Current, Nonabsent
      <3>2. FirstImport(q)'
        BY <1>1, <1>3, <2>1, <2>3 DEF OpOk, FirstImport, Nonabsent
      <3> QED
        BY <2>2, <3>1, <3>2 DEF OpOk
    <2>4. CASE op[q].at[1] # v
      <3>1. Current(q)'
        BY <1>1, <1>3, <2>1, <2>4 DEF OpOk, Current, Nonabsent
      <3>2. FirstImport(q)'
        BY <1>1, <1>3, <2>1, <2>4 DEF OpOk, FirstImport, Nonabsent
      <3> QED
        BY <2>2, <3>1, <3>2 DEF OpOk
    <2> QED
      BY <2>3, <2>4
  <1> QED
    BY <1>2, <1>6, <1>9, <1>10 DEF PInd, Data, Ops

(* The package is published *)

\* The package is published: from here on its directory is frozen.
LEMMA PublishKeeps ==
    ASSUME PInd, NEW p \in Processes, P!PublishPackage(p)
    PROVE  PInd'
  <1>a. op[p].kind # "none"
    BY PublishDoes DEF AtStep
  <1>b. PICK d \in Dirs, g \in Digest, r \in Requests :
          d = op[p].at /\ g = op[p].digest /\ r = op[p].digest.request
    BY <1>a, AtWork
  <1>1. /\ AtStep(p, "export", "building")
        /\ dir[d].content = g.content
        /\ ~Published(r)
        /\ published' = [published EXCEPT ![r] =
                           [request |-> g.request, content |-> g.content, parent |-> g.parent,
                            git |-> g.git]]
        /\ Went(p, "published")
        /\ UNCHANGED <<dir, config, imported, orphaned, repo, broken>>
    BY <1>b, PublishDoes
  <1>2. /\ op[p] # P!NoOp /\ OpOk(p) /\ d \in Dirs /\ g \in Digest /\ r \in Requests
        /\ d[1] \in Devices /\ g.parent \in Requests \cup {None}
        /\ \A q \in Processes \ {p} : op[q].at # d
    BY <1>a, <1>b, AtWork
  <1>3. dir[d].state = "exporting" /\ dir[d].pending = g
    BY <1>1, <1>2, <1>b DEF OpOk, Knows, AtStep
  <1>4. g.parent = dir[d].last /\ From(d) = g.parent /\ Nonabsent(d) /\ Open(d) /\ g.request = r
    BY <1>b, <1>1, <1>2, <1>3 DEF PInd, Records, From, Nonabsent, Open, Frozen
  <1>5. /\ g = [request |-> g.request, content |-> g.content, parent |-> g.parent, git |-> g.git]
        /\ published' = [published EXCEPT ![r] = g]
        /\ g # None
    BY <1>1, <1>2, <1>4, NoneIsNothing DEF Digest, P!Digest
  <1>6. published'[r] = g /\ \A t \in Requests \ {r} : published'[t] = published[t]
    BY <1>2, <1>5 DEF PInd, Shapes
  <1>7. \A t \in Requests : Published(t)' <=> Published(t) \/ t = r
    BY <1>5, <1>6 DEF Published
  <1>8. \A t \in Requests : Came(t)' <=> Came(t)
    BY <1>1 DEF Came
  <1>9. \A e \in Dirs : Open(e) => e = d
    BY <1>2, <1>4 DEF PInd, Data, Branch
  <1>10. ASSUME NEW e \in Dirs
         PROVE  /\ Frozen(e)' <=> Frozen(e) \/ e = d
                /\ Frozen(e) => Into(e)' = Into(e)
                /\ Into(d)' = r
                /\ Nonabsent(e)' <=> Nonabsent(e)
                /\ Nonabsent(e) => From(e)' = From(e)
                /\ ~Open(e)'
    <2>1. dir[e].state = "exporting" =>
            dir[e].pending.request \in Requests /\ (Frozen(e)' <=> Frozen(e) \/ dir[e].pending.request = r)
      <3>1. dir[e].state = "exporting" => dir[e].pending.request \in Requests
        BY DEF PInd, Records, Digest, P!Digest
      <3> QED
        BY <1>1, <1>7, <3>1 DEF Frozen
    <2>2. dir[e].state = "exporting" /\ dir[e].pending.request = r => e = d
      BY <1>1, <1>9 DEF Open, Frozen
    <2>3. dir[e].state = "exported" => dir[e].last \in Requests \ {r}
      BY <1>1 DEF PInd, Data, Packages, Frozen, Into
    <2>4. Frozen(e)' <=> Frozen(e) \/ e = d
      BY <1>1, <1>2, <1>3, <1>4, <2>1, <2>2 DEF Frozen
    <2>5. Nonabsent(e)' <=> Nonabsent(e)
      BY <1>1 DEF Nonabsent
    <2>6. Nonabsent(e) => From(e)' = From(e)
      BY <1>1, <1>6, <2>3 DEF From
    <2>7. Into(e)' = Into(e) /\ Into(d)' = r
      BY <1>1, <1>3, <1>4 DEF Into
    <2>8. ~Open(e)'
      BY <1>1, <1>9, <2>4 DEF Open
    <2> QED
      BY <2>4, <2>5, <2>6, <2>7, <2>8
  <1>11. Packages'
    <2>1. ASSUME NEW e \in Dirs, Frozen(e)'
          PROVE  Into(e)' \in Requests /\ Published(Into(e))'
      <3>1. CASE e = d
        BY <1>2, <1>5, <1>6, <1>10, <3>1 DEF Published
      <3>2. CASE Frozen(e)
        <4>1. Into(e)' = Into(e) /\ Into(e) \in Requests /\ Published(Into(e))
          BY <1>10, <3>2 DEF PInd, Data, Packages
        <4> QED
          BY <1>7, <4>1 DEF Published
      <3> QED
        BY <1>10, <2>1, <3>1, <3>2
    <2>2. ASSUME NEW t \in Requests, Published(t)'
          PROVE  \E e \in Dirs : Frozen(e)' /\ Into(e)' = t
      <3>1. CASE t = r
        BY <1>2, <1>10, <3>1
      <3>2. CASE Published(t)
        <4>1. PICK e \in Dirs : Frozen(e) /\ Into(e) = t
          BY <3>2 DEF PInd, Data, Packages
        <4> QED
          BY <1>10, <4>1
      <3> QED
        BY <1>7, <2>2, <3>1, <3>2
    <2>3. ASSUME NEW e \in Dirs, NEW f \in Dirs, Frozen(e)', Frozen(f)', Into(e)' = Into(f)'
          PROVE  e = f
      <3>1. \A h \in Dirs : Frozen(h) => Into(h) # r
        BY <1>1 DEF PInd, Data, Packages
      <3>2. CASE Frozen(e) /\ Frozen(f)
        BY <1>10, <2>3, <3>2 DEF PInd, Data, Packages
      <3>3. CASE ~(Frozen(e) /\ Frozen(f))
        BY <1>10, <2>3, <3>1, <3>3
      <3> QED
        BY <3>2, <3>3
    <2> QED
      BY <2>1, <2>2, <2>3 DEF Packages, Published
  <1>12. Imports'
    <2>1. Imports
      BY DEF PInd, Data
    <2>2. ASSUME NEW e \in Dirs, Nonabsent(e)'
          PROVE  (IF From(e) = None THEN e = <<"A", 1>> ELSE From(e) \in imported[e[1]])'
      BY <1>1, <1>10, <2>1, <2>2 DEF Imports
    <2>3. ASSUME NEW v \in Devices, NEW t \in imported'[v]
          PROVE  /\ Published(t)'
                 /\ \E e \in Dirs : e[1] = v /\ Nonabsent(e)' /\ From(e)' = t
      <3>1. t \in imported[v] /\ t \in Requests
        BY <1>1, <2>3 DEF PInd, Shapes
      <3>2. PICK e \in Dirs : e[1] = v /\ Nonabsent(e) /\ From(e) = t
        BY <2>1, <3>1 DEF Imports
      <3>3. Published(t)
        BY <2>1, <3>1 DEF Imports
      <3> QED
        BY <1>7, <1>10, <3>1, <3>2, <3>3
    <2>4. \A e, f \in Dirs : Nonabsent(e)' /\ Nonabsent(f)' /\ From(e)' = From(f)' => e = f
      BY <1>10, <2>1 DEF Imports
    <2> QED
      BY <2>2, <2>3, <2>4 DEF Imports
  <1>13. Elsewhere'
    <2> SUFFICES ASSUME NEW e \in Dirs, NEW f \in Dirs, Nonabsent(e)', Frozen(f)', From(e)' = Into(f)'
                 PROVE  e[1] # f[1]
      BY DEF Elsewhere
    <2>1. Nonabsent(e) /\ From(e)' = From(e)
      BY <1>10
    <2>2. CASE f = d
      <3>1. From(e) = r
        BY <1>10, <2>1, <2>2
      <3>2. From(e) \in imported[e[1]] /\ e[1] \in Devices
        BY <1>2, <2>1, <3>1, NoneIsNothing DEF PInd, Data, Imports, Dirs
      <3>3. Published(r)
        BY <3>1, <3>2 DEF PInd, Data, Imports
      <3> QED
        BY <1>1, <3>3
    <2>3. CASE Frozen(f)
      BY <1>10, <2>1, <2>3 DEF PInd, Data, Elsewhere
    <2> QED
      BY <1>10, <2>2, <2>3
  <1>14. Nonabsent(ConfDir(d[1]))
    BY <1>b, <1>2, <1>4 DEF OpOk, Current
  <1>15. Configured'
    <2>1. \A v \in Devices : ConfDir(v)' = ConfDir(v) /\ ConfDir(v) \in Dirs
      BY <1>1, ConfDirIsDir DEF PInd, ConfDir
    <2>2. ASSUME NEW e \in Dirs, Frozen(e)'
          PROVE  Nonabsent(ConfDir(e[1]))'
      <3>1. Nonabsent(ConfDir(e[1]))
        BY <1>10, <1>14, <2>2 DEF PInd, Data, Configured
      <3> QED
        BY <1>1, <3>1 DEF Nonabsent, ConfDir
    <2>3. ASSUME NEW v \in Devices, NEW t \in Requests, ~Nonabsent(ConfDir(v))', Published(t)'
          PROVE  published'[t].parent = None
      <3>1. ~Nonabsent(ConfDir(v))
        BY <1>1, <2>3 DEF Nonabsent, ConfDir
      <3>2. CASE t # r
        BY <1>6, <1>7, <2>3, <3>1, <3>2 DEF PInd, Data, Configured
      <3>3. CASE t = r
        <4> SUFFICES ASSUME g.parent # None PROVE FALSE
          BY <1>6, <3>3
        <4>1. From(d) \in imported[d[1]] /\ g.parent \in Requests
          BY <1>2, <1>4 DEF PInd, Data, Imports
        <4>2. Published(g.parent)
          BY <1>2, <1>4, <4>1 DEF PInd, Data, Imports
        <4>3. PICK f \in Dirs : Frozen(f) /\ Into(f) = g.parent
          BY <4>1, <4>2, SourceOf
        <4>4. f[1] # d[1] /\ f[1] \in Devices
          BY <1>2, <1>4, <4>3 DEF PInd, Data, Elsewhere, Dirs
        <4>5. f[1] # v
          BY <3>1, <4>3 DEF PInd, Data, Configured
        <4>6. d[1] # v
          BY <1>14, <3>1
        <4> QED
          BY <1>2, <4>4, <4>5, <4>6 DEF Devices
      <3> QED
        BY <3>2, <3>3
    <2> QED
      BY <2>2, <2>3 DEF Configured
  <1>16. Branch'
    <2>1. \A t \in Requests : Published(t) => Came(t)
      BY <1>2, <1>4 DEF PInd, Data, Branch
    <2>2. \A t \in Requests : Published(t)' /\ ~Came(t)' => t = r
      BY <1>7, <1>8, <2>1
    <2>3. \A e \in Dirs : dir'[e].content <= published'[r].content
      BY <1>1, <1>2, <1>4, <1>6 DEF PInd, Data, Branch
    <2> QED
      BY <1>10, <2>2, <2>3 DEF Branch
  <1>17. Records'
    <2>1. ASSUME NEW e \in Dirs, dir[e].state = "exporting"
          PROVE  Published(dir[e].pending.request)' =>
                    published'[dir[e].pending.request] = dir[e].pending
      <3>1. dir[e].pending.request \in Requests
        BY <2>1 DEF PInd, Records, Digest, P!Digest
      <3>2. CASE dir[e].pending.request = r
        <4>1. e = d
          BY <1>1, <1>9, <2>1, <3>2 DEF Open, Frozen
        <4> QED
          BY <1>3, <1>6, <3>2, <4>1
      <3>3. CASE dir[e].pending.request # r
        <4>1. Published(dir[e].pending.request) =>
                published[dir[e].pending.request] = dir[e].pending
          BY <2>1 DEF PInd, Records
        <4>2. published'[dir[e].pending.request] = published[dir[e].pending.request]
          BY <1>6, <3>1, <3>3
        <4>3. Published(dir[e].pending.request)' => Published(dir[e].pending.request)
          BY <1>1, <4>2 DEF Published
        <4> QED
          BY <4>1, <4>2, <4>3
      <3> QED
        BY <3>2, <3>3
    <2>2. ASSUME NEW t \in Requests, Published(t)'
          PROVE  published'[t].request = t
      BY <1>4, <1>6, <1>7, <2>2 DEF PInd, Records
    <2>3. \A e \in Dirs : IF dir[e].state = "exporting"
                            THEN /\ dir[e].pending \in Digest
                                 /\ dir[e].pending.content = dir[e].content
                                 /\ dir[e].pending.parent = dir[e].last
                            ELSE dir[e].pending = None
      BY DEF PInd, Records
    <2> QED
      BY <1>1, <2>1, <2>2, <2>3 DEF Records, Published
  <1>18. op'[p].step = "published" /\ op'[p].kind = "export" /\ op'[p].at = d /\ op'[p].digest = g
         /\ op'[p] \in Commanded /\ op' = [op EXCEPT ![p] = op'[p]]
         /\ (\A q \in Processes : op'[q].at = op[q].at)
         /\ op' \in [Processes -> Commanded]
    <2>1. op'[p] = [op[p] EXCEPT !.step = "published"] /\ op[p] \in Commanded
      BY <1>1 DEF PInd, Shapes, Went
    <2>2. op'[p] \in Commanded
      BY <2>1 DEF Commanded
    <2> QED
      BY <1>1, <2>1, <2>2, <1>b, WentOn DEF PInd, Shapes, Went, AtStep
  <1>19. OpOk(p)'
    <2>1. Leased(p)'
      BY <1>b, <1>2, <1>18 DEF OpOk, Leased
    <2>2. Knows(p)'
      BY <1>b, <1>1, <1>2, <1>3, <1>4, <1>7, <1>18 DEF Knows
    <2>3. Current(p)'
      BY <1>1, <1>14, <1>18 DEF Current, ConfDir, Nonabsent
    <2>4. FirstImport(p)' /\ Continuing(p)'
      BY <1>18 DEF FirstImport, Continuing, AtStep
    <2> QED
      BY <2>1, <2>2, <2>3, <2>4 DEF OpOk
  <1>20. ASSUME NEW q \in Processes \ {p}, op'[q] # P!NoOp
         PROVE  OpOk(q)'
    <2>1. op'[q] = op[q] /\ op[q] # P!NoOp
      BY <1>18, <1>20 DEF PInd, Shapes
    <2>2. OpOk(q) /\ op[q].at \in Dirs /\ op[q].digest \in Digest /\ op[q].digest.request \in Requests
      BY <2>1 DEF PInd, Ops, OpOk, Leased, Digest, P!Digest
    <2>3. Leased(q)'
      BY <1>18, <2>1, <2>2 DEF OpOk, Leased
    <2>4. dir[op[q].at].state = "exporting" /\ dir[op[q].at].pending = op[q].digest
            => op[q].digest.request # r
      BY <1>1, <1>2, <1>9, <2>2 DEF Open, Frozen
    <2>5. Knows(q)'
      BY <1>1, <1>6, <1>7, <2>1, <2>2, <2>4 DEF OpOk, Knows
    <2>6. Current(q)' /\ FirstImport(q)' /\ Continuing(q)'
      BY <1>1, <2>1, <2>2 DEF OpOk, Current, FirstImport, Continuing, AtStep, ConfDir, Nonabsent, Came
    <2> QED
      BY <2>3, <2>5, <2>6 DEF OpOk
  <1>21. Shapes'
    BY <1>1, <1>2, <1>5, <1>18 DEF PInd, Shapes
  <1> QED
    BY <1>11, <1>12, <1>13, <1>15, <1>16, <1>17, <1>19, <1>20, <1>21 DEF PInd, Data, Ops

(* The import is finished *)

\* A device without configured data has one import under way, if any.
LEMMA NotTheFirst ==
    ASSUME PInd, NEW p \in Processes, op[p].kind # "none",
           NEW q \in Processes \ {p}, op[q].kind = "import", op[q].at[1] = op[p].at[1]
    PROVE  Nonabsent(op[q].at)
  <1> SUFFICES ASSUME ~Nonabsent(op[q].at) PROVE FALSE
    OBVIOUS
  <1>1. OpOk(p) /\ OpOk(q) /\ op[q].at # op[p].at
    BY AtWork
  <1>2. op[q].at = ConfDir(op[q].at[1])
    BY <1>1 DEF OpOk, FirstImport
  <1>3. Nonabsent(ConfDir(op[p].at[1]))
    BY <1>1, <1>2 DEF OpOk, Current
  <1> QED
    BY <1>2, <1>3

\* Two imports into one device cannot both continue with the same package.
LEMMA NotTwice ==
    ASSUME PInd, NEW p \in Processes, AtStep(p, "import", "importing"),
           NEW q \in Processes \ {p}, op[q].kind = "import", op[q].at[1] = op[p].at[1],
           op[q].digest.request = op[p].digest.request,
           Nonabsent(op[q].at) => dir[op[q].at].state = "exported" /\ dir[op[q].at].last = op[q].digest.parent
    PROVE  FALSE
  <1>1. OpOk(p) /\ OpOk(q) /\ op[q].at # op[p].at /\ op[p].at \in Dirs /\ op[q].at \in Dirs
    BY AtWork DEF AtStep
  <1>2. op[q].digest = op[p].digest
    BY <1>1 DEF OpOk, Knows, AtStep
  <1>3. Nonabsent(op[q].at) /\ Nonabsent(op[p].at)
    BY NotTheFirst DEF AtStep
  <1>4. /\ dir[op[q].at].state = "exported" /\ dir[op[q].at].last = op[q].digest.parent
        /\ dir[op[p].at].state = "exported" /\ dir[op[p].at].last = op[p].digest.parent
    BY <1>1, <1>3 DEF OpOk, Continuing
  <1>5. /\ Frozen(op[q].at) /\ Into(op[q].at) = op[p].digest.parent
        /\ Frozen(op[p].at) /\ Into(op[p].at) = op[p].digest.parent
    BY <1>2, <1>4 DEF Frozen, Into
  <1> QED
    BY <1>1, <1>5 DEF PInd, Data, Packages

\* The package was made elsewhere.
LEMMA MadeElsewhere ==
    ASSUME PInd, NEW p \in Processes, AtStep(p, "import", "importing"),
           NEW f \in Dirs, Frozen(f), Into(f) = op[p].digest.request
    PROVE  f[1] # op[p].at[1]
  <1>1. OpOk(p) /\ op[p].at \in Dirs /\ op[p].digest.request \in Requests
    BY AtWork DEF AtStep
  <1>2. published[op[p].digest.request] = op[p].digest
    BY <1>1 DEF OpOk, Knows, AtStep
  <1>3. Nonabsent(f) /\ From(f) = op[p].digest.parent
    BY <1>2, FromSource
  <1>4. CASE ~Nonabsent(op[p].at)
    BY <1>1, <1>3, <1>4 DEF OpOk, FirstImport, AtStep
  <1>5. CASE Nonabsent(op[p].at)
    <2>1. dir[op[p].at].state = "exported" /\ dir[op[p].at].last = op[p].digest.parent
      BY <1>1, <1>5 DEF OpOk, Continuing
    <2>2. Frozen(op[p].at) /\ Into(op[p].at) = From(f)
      BY <1>3, <2>1 DEF Frozen, Into
    <2> QED
      BY <1>1, <1>3, <2>2 DEF PInd, Data, Elsewhere
  <1> QED
    BY <1>4, <1>5

\* The imported data is in place: the branch goes on in the new directory.
LEMMA FinishImportKeeps ==
    ASSUME PInd, NEW p \in Processes, P!FinishImport(p)
    PROVE  PInd'
  <1>a. AtStep(p, "import", "importing") /\ op[p].kind = "import"
    BY FinishImportDoes DEF AtStep
  <1>b. /\ op[p] # P!NoOp /\ OpOk(p)
        /\ op[p].at \in Dirs /\ op[p].digest \in Digest
        /\ op[p].digest.request \in Requests /\ op[p].at[1] \in Devices
        /\ op[p].digest.content \in Changes
        /\ \A q \in Processes \ {p} : op[q].at # op[p].at
    BY <1>a, AtWork
  <1>c. op[p].out \in Dirs /\ op[p].out[1] = op[p].at[1]
    BY <1>a, <1>b DEF OpOk, Knows
  <1>d. PICK at \in Dirs, o \in Dirs, g \in Digest, r \in Requests, v \in Devices :
          at = op[p].at /\ o = op[p].out /\ g = op[p].digest /\ r = g.request /\ v = at[1] /\ v = o[1]
    BY <1>b, <1>c
  <1>1. /\ ~Nonabsent(o)
        /\ dir' = [dir EXCEPT ![o] = [state |-> "active", content |-> g.content,
                                      last |-> r, pending |-> None]]
        /\ imported' = [imported EXCEPT ![v] = imported[v] \cup {r}]
        /\ Ended(p)
        /\ UNCHANGED <<config, published, orphaned, repo, broken>>
    BY <1>d, FinishImportDoes
  <1>2. Published(r) /\ published[r] = g /\ ~Came(r)
    BY <1>a, <1>b, <1>d DEF OpOk, Knows, Continuing
  <1>3. dir'[o] = [state |-> "active", content |-> g.content, last |-> r, pending |-> None]
        /\ \A e \in Dirs \ {o} : dir'[e] = dir[e]
    BY <1>1 DEF PInd, Shapes
  <1>4. /\ imported'[v] = imported[v] \cup {r} /\ \A w \in Devices \ {v} : imported'[w] = imported[w]
        /\ \A t \in Requests : Came(t)' <=> Came(t) \/ t = r
    <2>1. imported'[v] = imported[v] \cup {r} /\ \A w \in Devices \ {v} : imported'[w] = imported[w]
      BY <1>1 DEF PInd, Shapes
    <2> QED
      BY <2>1 DEF Came
  <1>5. \A t \in Requests : Published(t)' <=> Published(t)
    BY <1>1 DEF Published
  <1>6. \A e \in Dirs : ~Open(e)
    BY <1>2 DEF PInd, Data, Branch
  <1>7. \A e \in Dirs : dir[e].content <= g.content
    BY <1>2 DEF PInd, Data, Branch
  <1>8. r # None
    BY NoneIsNothing
  <1>9. ASSUME NEW e \in Dirs
        PROVE  /\ Frozen(e)' <=> Frozen(e)
               /\ Frozen(e) => Into(e)' = Into(e)
               /\ Nonabsent(e)' <=> Nonabsent(e) \/ e = o
               /\ Nonabsent(e) => From(e)' = From(e) /\ e # o
               /\ From(o)' = r
               /\ Open(e)' <=> e = o
    <2>1. CASE e = o
      BY <1>1, <1>3, <2>1 DEF Frozen, Nonabsent, From, Open
    <2>2. CASE e # o
      BY <1>1, <1>3, <1>6, <2>2 DEF Frozen, Into, Nonabsent, From, Open, Published
    <2> QED
      BY <2>1, <2>2
  <1>10. Packages'
    BY <1>5, <1>9 DEF PInd, Data, Packages
  <1>11. \A e \in Dirs : Nonabsent(e) => From(e) # r
    BY <1>2, <1>8 DEF PInd, Data, Imports, Came, Dirs
  <1>12. Imports'
    <2>1. Imports
      BY DEF PInd, Data
    <2>2. ASSUME NEW e \in Dirs, Nonabsent(e)'
          PROVE  (IF From(e) = None THEN e = <<"A", 1>> ELSE From(e) \in imported[e[1]])'
      <3>1. e[1] \in Devices
        BY DEF Dirs
      <3>2. CASE e = o
        BY <1>4, <1>8, <1>9, <1>d, <3>2
      <3>3. CASE e # o
        BY <1>4, <1>9, <2>1, <2>2, <3>1, <3>3 DEF Imports
      <3> QED
        BY <3>2, <3>3
    <2>3. ASSUME NEW w \in Devices, NEW t \in imported'[w]
          PROVE  /\ Published(t)'
                 /\ \E e \in Dirs : e[1] = w /\ Nonabsent(e)' /\ From(e)' = t
      <3>1. CASE w = v /\ t = r
        BY <1>2, <1>5, <1>9, <1>d, <3>1
      <3>2. CASE ~(w = v /\ t = r)
        <4>1. t \in imported[w] /\ t \in Requests
          BY <1>4, <2>3, <3>2 DEF PInd, Shapes
        <4>2. PICK e \in Dirs : e[1] = w /\ Nonabsent(e) /\ From(e) = t
          BY <2>1, <4>1 DEF Imports
        <4>3. Published(t)
          BY <2>1, <4>1 DEF Imports
        <4> QED
          BY <1>5, <1>9, <4>1, <4>2, <4>3
      <3> QED
        BY <3>1, <3>2
    <2>4. ASSUME NEW e \in Dirs, NEW f \in Dirs, Nonabsent(e)', Nonabsent(f)', From(e)' = From(f)'
          PROVE  e = f
      BY <1>9, <1>11, <2>1, <2>4 DEF Imports
    <2> QED
      BY <2>2, <2>3, <2>4 DEF Imports
  <1>13. Elsewhere'
    <2> SUFFICES ASSUME NEW e \in Dirs, NEW f \in Dirs, Nonabsent(e)', Frozen(f)', From(e)' = Into(f)'
                 PROVE  e[1] # f[1]
      BY DEF Elsewhere
    <2>1. Frozen(f) /\ Into(f)' = Into(f)
      BY <1>9
    <2>2. CASE e = o
      <3>1. Into(f) = op[p].digest.request
        BY <1>9, <1>d, <2>1, <2>2
      <3>2. f[1] # v
        BY <1>a, <1>d, <2>1, <3>1, MadeElsewhere
      <3> QED
        BY <1>d, <2>2, <3>2
    <2>3. CASE Nonabsent(e)
      BY <1>9, <2>1, <2>3 DEF PInd, Data, Elsewhere
    <2> QED
      BY <1>9, <2>2, <2>3
  <1>14. \A w \in Devices : ConfDir(w)' = ConfDir(w) /\ ConfDir(w) \in Dirs
    BY <1>1, ConfDirIsDir DEF PInd, ConfDir
  <1>15. \A w \in Devices : Nonabsent(ConfDir(w)) => Nonabsent(ConfDir(w))'
    BY <1>1, <1>3, <1>14 DEF Nonabsent, ConfDir
  <1>16. Configured'
    <2>1. ASSUME NEW e \in Dirs, Frozen(e)'
          PROVE  Nonabsent(ConfDir(e[1]))'
      <3>1. Nonabsent(ConfDir(e[1])) /\ e[1] \in Devices
        BY <1>9, <2>1 DEF PInd, Data, Configured, Dirs
      <3> QED
        BY <1>15, <3>1
    <2>2. ASSUME NEW w \in Devices, NEW t \in Requests, ~Nonabsent(ConfDir(w))', Published(t)'
          PROVE  published'[t].parent = None
      BY <1>1, <1>5, <1>15, <2>2 DEF PInd, Data, Configured
    <2> QED
      BY <2>1, <2>2 DEF Configured
  <1>17. Branch'
    <2>1. \A t \in Requests : Published(t) /\ ~Came(t) => t = r
      BY <1>2 DEF PInd, Data, Branch
    <2>2. \A t \in Requests : Published(t)' => Came(t)'
      BY <1>4, <1>5, <2>1
    <2>3. \A e \in Dirs : dir'[e].content <= dir'[o].content
      <3>1. dir'[o].content = g.content /\ g.content \in Nat
        BY <1>3, <1>b, <1>d, TransferAssumption DEF Changes
      <3> SUFFICES ASSUME NEW e \in Dirs PROVE dir'[e].content <= g.content
        BY <3>1
      <3>2. CASE e = o
        BY <3>1, <3>2
      <3>3. CASE e # o
        BY <1>3, <1>7, <3>3
      <3> QED
        BY <3>2, <3>3
    <2> QED
      BY <1>9, <2>2, <2>3 DEF Branch
  <1>18. Records'
    <2>1. dir'[o].state = "active" /\ dir'[o].pending = None
      BY <1>3
    <2> QED
      BY <1>1, <1>3, <2>1 DEF PInd, Records, Published
  <1>19. op'[p] = P!NoOp /\ (\A q \in Processes \ {p} : op'[q] = op[q]) /\ op' \in [Processes -> Commanded]
    BY <1>1, NoneIsNothing DEF PInd, Shapes, Ended
  <1>20. ASSUME NEW q \in Processes, op'[q] # P!NoOp
         PROVE  OpOk(q)'
    <2>1. q # p /\ op'[q] = op[q] /\ op[q] # P!NoOp
      BY <1>19, <1>20
    <2>2. OpOk(q) /\ op[q].at \in Dirs /\ op[q].digest \in Digest /\ op[q].digest.request \in Requests
          /\ op[q].at[1] \in Devices /\ op[q].at # None
      BY <2>1, NoneIsNothing DEF PInd, Ops, OpOk, Leased, Digest, P!Digest, Dirs
    <2>3. Leased(q)'
      BY <1>19, <2>1, <2>2, NoneIsNothing DEF OpOk, Leased
    <2>4. op[q].at # o => dir'[op[q].at] = dir[op[q].at]
      BY <1>3, <2>2
    <2>5. op[q].at = o => dir[op[q].at].state = "absent" /\ dir'[op[q].at].state = "active"
      BY <1>1, <1>3 DEF Nonabsent
    <2>6. Knows(q)'
      <3>1. (dir'[op[q].at].state = "exporting") <=> (dir[op[q].at].state = "exporting")
        BY <2>4, <2>5
      <3>2. dir[op[q].at].state = "exporting" => dir'[op[q].at].pending = dir[op[q].at].pending
        BY <2>4, <2>5
      <3> QED
        BY <1>1, <2>1, <2>2, <3>1, <3>2 DEF OpOk, Knows, Published
    <2>7. Current(q)'
      BY <1>14, <1>15, <2>1, <2>2 DEF OpOk, Current
    <2>8. op[q].kind = "import" /\ op[q].at[1] = v => Nonabsent(op[q].at)
      BY <1>a, <1>d, <2>1, NotTheFirst
    <2>9. FirstImport(q)'
      <3> SUFFICES ASSUME op[q].kind = "import", ~Nonabsent(op[q].at)'
                   PROVE  /\ op[q].at = ConfDir(op[q].at[1])'
                          /\ \A d \in Dirs : d[1] = op[q].at[1] => ~Nonabsent(d)'
        BY <2>1 DEF FirstImport
      <3>1. dir'[op[q].at].state = "absent"
        BY <2>1 DEF Nonabsent
      <3>2. ~Nonabsent(op[q].at)
        BY <2>4, <2>5, <3>1 DEF Nonabsent
      <3>3. op[q].at[1] # v
        BY <2>8, <3>2
      <3> QED
        <4>1. /\ op[q].at = ConfDir(op[q].at[1])
              /\ \A d \in Dirs : d[1] = op[q].at[1] => ~Nonabsent(d)
          BY <2>2, <3>2 DEF OpOk, FirstImport
        <4>2. op[q].at = ConfDir(op[q].at[1])'
          BY <1>14, <2>1, <2>2, <4>1 DEF ConfDir
        <4>3. \A d \in Dirs : d[1] = op[q].at[1] => ~Nonabsent(d)'
          BY <1>9, <1>d, <3>3, <4>1
        <4> QED
          BY <4>2, <4>3
    <2>10. Continuing(q)'
      <3>1. ASSUME op[q].kind = "import", dir'[op[q].at].state = "exported",
                   dir'[op[q].at].last = op[q].digest.parent
            PROVE  op[q].digest.request \notin imported'[op[q].at[1]]
        <4>1. dir[op[q].at].state = "exported" /\ dir[op[q].at].last = op[q].digest.parent
          BY <2>4, <2>5, <3>1
        <4>2. op[q].digest.request \notin imported[op[q].at[1]]
          BY <2>2, <3>1, <4>1 DEF OpOk, Continuing
        <4>3. ~(op[q].at[1] = v /\ op[q].digest.request = r)
          BY <1>a, <1>d, <2>1, <3>1, <4>1, NotTwice
        <4> QED
          BY <1>4, <2>2, <4>2, <4>3
      <3>2. ASSUME AtStep(q, "import", "importing")
            PROVE  /\ Nonabsent(op[q].at)' =>
                        dir'[op[q].at].state = "exported" /\ dir'[op[q].at].last = op[q].digest.parent
                   /\ ~Came(op[q].digest.request)'
        <4>1. op[q].kind = "import"
          BY <3>2 DEF AtStep
        <4>2. op[q].at # o
          BY <1>1, <1>d, <2>8, <4>1
        <4>3. /\ Nonabsent(op[q].at) =>
                    dir[op[q].at].state = "exported" /\ dir[op[q].at].last = op[q].digest.parent
              /\ ~Came(op[q].digest.request)
          BY <2>2, <3>2 DEF OpOk, Continuing
        <4>4. Nonabsent(op[q].at)' =>
                dir'[op[q].at].state = "exported" /\ dir'[op[q].at].last = op[q].digest.parent
          BY <2>1, <2>4, <4>2, <4>3 DEF Nonabsent
        <4>5. op[q].digest.request # r
          <5> SUFFICES ASSUME op[q].digest.request = r PROVE FALSE
            OBVIOUS
          <5>1. PICK f \in Dirs : Frozen(f) /\ Into(f) = r
            BY <1>2, SourceOf
          <5>2. f[1] # v /\ f[1] # op[q].at[1] /\ f[1] \in Devices
            BY <1>a, <1>d, <3>2, <5>1, MadeElsewhere DEF Dirs
          <5>3. op[q].at[1] = op[p].at[1]
            BY <1>d, <2>2, <5>2 DEF Devices
          <5> QED
            BY <1>a, <1>d, <2>1, <4>1, <4>3, <5>3, NotTwice
        <4>6. ~Came(op[q].digest.request)'
          <5>1. op'[q].digest.request = op[q].digest.request
            BY <2>1
          <5> QED
            BY <1>4, <2>2, <4>3, <4>5, <5>1
        <4> QED
          BY <4>4, <4>6
      <3> QED
        BY <2>1, <3>1, <3>2 DEF Continuing, AtStep
    <2> QED
      BY <2>3, <2>6, <2>7, <2>9, <2>10 DEF OpOk
  <1>21. Shapes'
    <2>1. [state |-> "active", content |-> g.content, last |-> r, pending |-> None] \in
             [state : {"absent", "active", "exporting", "exported"}, content : Changes,
              last : Requests \cup {None}, pending : Digest \cup {None}]
      BY <1>b, <1>d
    <2> QED
      BY <1>1, <1>19, <2>1 DEF PInd, Shapes
  <1> QED
    BY <1>10, <1>12, <1>13, <1>16, <1>17, <1>18, <1>20, <1>21 DEF PInd, Data, Ops

(* The commands, together *)

\* All this holds at first.
LEMMA PInit ==
    ASSUME P!Init
    PROVE  PInd
  <1>1. \A d \in Dirs : dir[d].state = (IF d = <<"A", 1>> THEN "active" ELSE "absent")
                        /\ dir[d].content = 0 /\ dir[d].last = None /\ dir[d].pending = None
    BY DEF P!Init, P!Absent, Dirs, P!Dirs, Devices
  <1>2. \A r \in Requests : ~Published(r)
    BY DEF P!Init, Published
  <1>3. \A d \in Dirs : ~Frozen(d) /\ From(d) = None /\ (Nonabsent(d) <=> d = <<"A", 1>>)
    BY <1>1 DEF Frozen, From, Nonabsent
  <1>4. \A v \in Devices : imported[v] = {}
    BY DEF P!Init, Devices
  <1>5. Data
    BY <1>1, <1>2, <1>3, <1>4 DEF Data, Packages, Imports, Elsewhere, Configured, Branch, Open
  <1>6. Records
    BY <1>1, <1>2 DEF Records
  <1>7. Ops
    BY DEF P!Init, Ops
  <1>8. Shapes
    <2>1. dir \in [Dirs -> [state : {"absent", "active", "exporting", "exported"},
                         content : Changes, last : Requests \cup {None},
                         pending : Digest \cup {None}]]
      <3>1. \A d \in Dirs : [P!Absent EXCEPT !.state = "active"] \in
               [state : {"absent", "active", "exporting", "exported"},
                         content : Changes, last : Requests \cup {None}, pending : Digest \cup {None}]
            /\ P!Absent \in [state : {"absent", "active", "exporting", "exported"},
                         content : Changes, last : Requests \cup {None}, pending : Digest \cup {None}]
        BY TransferAssumption DEF P!Absent, Changes
      <3> QED
        BY <3>1 DEF P!Init, Dirs, P!Dirs, Devices
    <2>2. config \in [Devices -> 1..MaxDirs]
      BY TransferAssumption DEF P!Init, Devices
    <2> QED
      BY <2>1, <2>2, NoneIsNothing, TransferAssumption DEF P!Init, Shapes, Devices
  <1> QED
    BY <1>5, <1>6, <1>7, <1>8 DEF PInd

\* Every step of a command keeps it.
LEMMA PStep ==
    ASSUME PInd, P!Next
    PROVE  PInd'
  <1>1. ASSUME NEW v \in Devices, P!Work(v) PROVE PInd'
    BY <1>1, WorkKeeps
  <1>2. ASSUME NEW v \in Devices, NEW n \in 1..MaxDirs, P!Configure(v, n) PROVE PInd'
    BY <1>2, ConfigureKeeps
  <1>3. ASSUME \/ \E v \in Devices, h \in Heads : P!Commit(v, h)
               \/ \E d \in Dirs : P!ClearLease(d)
        PROVE  PInd'
    BY <1>3, ReadKeeps
  <1>4. ASSUME NEW v \in Devices, NEW p \in Processes, NEW g \in P!Previewed(P!Configured(v)),
               P!StartExport(p, v, g) \/ P!StartCancel(p, v, g)
        PROVE  PInd'
    BY <1>4, StartExportKeeps
  <1>5. ASSUME NEW v \in Devices, NEW p \in Processes, NEW r \in Requests, NEW n \in 1..MaxDirs,
               P!StartImport(p, v, r, n)
        PROVE  PInd'
    BY <1>5, StartImportKeeps
  <1>6. ASSUME NEW p \in Processes, P!Step(p) \/ P!Fail(p) \/ P!Crash(p)
        PROVE  PInd'
    BY <1>6, StopKeeps, ReplayKeeps, BeginKeeps, PublishKeeps, FinalizeKeeps, CheckCancelKeeps,
       CancelKeeps, PreviewImportKeeps, FinishImportKeeps DEF P!Step
  <1> QED
    BY <1>1, <1>2, <1>3, <1>4, <1>5, <1>6 DEF P!Next, Devices, Dirs, P!Dirs

\* So does a step of the launchers.
LEMMA PUnchanged ==
    ASSUME PInd, UNCHANGED commandVars
    PROVE  PInd'
  <1>1. Data' /\ Records' /\ Ops'
    BY OpsSame DEF commandVars
  <1>2. Shapes'
    BY DEF PInd, Shapes, commandVars
  <1> QED
    BY <1>1, <1>2 DEF PInd

(* What follows *)

\* It is why the branch is one and an export can be resumed.
LEMMA PImplies ==
    ASSUME PInd
    PROVE  P!Inv /\ P!FrozenOncePublished /\ P!InterruptedExportResumes
  <1>1. P!TypeOK
    <2>1. ASSUME NEW d \in P!Dirs
          PROVE  /\ dir[d].state \in {"absent", "active", "exporting", "exported"}
                 /\ dir[d].content \in P!Contents
                 /\ dir[d].last \in Requests \cup {None}
                 /\ dir[d].pending \in (IF dir[d].state = "exporting" THEN P!Digest ELSE {None})
      BY DEF PInd, Shapes, Records, Dirs, P!Dirs, Devices, P!Contents, Changes, Digest
    <2>2. ASSUME NEW p \in Processes, op[p] # P!NoOp
          PROVE  op[p].at \in P!Dirs /\ op[p].digest \in P!Digest
      BY <2>2 DEF PInd, Ops, OpOk, Leased, Dirs, P!Dirs, Devices, Digest
    <2> QED
      BY <2>1, <2>2 DEF PInd, Shapes, P!TypeOK, Dirs, P!Dirs, Devices, Digest
  <1>2. P!OneActive
    <2> SUFFICES ASSUME NEW d \in Dirs, NEW e \in Dirs, dir[d].state = "active"
                 PROVE  /\ dir[e].state = "active" => d = e
                        /\ dir[e].content <= dir[d].content
      BY DEF P!OneActive, Dirs, P!Dirs, Devices
    <2>1. Open(d) /\ (dir[e].state = "active" => Open(e))
      BY DEF Open, Frozen
    <2> QED
      BY <2>1 DEF PInd, Data, Branch
  <1>3. P!FrozenOncePublished
    <2> SUFFICES ASSUME NEW d \in Dirs, NEW r \in Requests, Published(r), dir[d].state = "active",
                        dir[d].last = published[r].parent
                 PROVE  FALSE
      BY DEF P!FrozenOncePublished, P!Published, Published, Dirs, P!Dirs, Devices
    <2>1. PICK f \in Dirs : Frozen(f) /\ Nonabsent(f) /\ From(f) = published[r].parent
      BY SourceOf
    <2>2. Nonabsent(d) /\ From(d) = published[r].parent /\ ~Frozen(d)
      BY DEF Nonabsent, From, Frozen
    <2> QED
      BY <2>1, <2>2 DEF PInd, Data, Imports
  <1>4. P!InterruptedExportResumes
    <2> SUFFICES ASSUME NEW d \in Dirs, dir[d].state = "exporting"
                 PROVE  LET g == dir[d].pending IN
                        /\ P!Published(g.request) => published[g.request] = g
                        /\ IF P!Published(g.request) THEN P!Replayable(dir[d], g, g.git)
                                                     ELSE P!CanBegin(dir[d], g, g.git)
      BY DEF P!InterruptedExportResumes, Dirs, P!Dirs, Devices
    <2>1. /\ dir[d].pending \in Digest
          /\ dir[d].pending.content = dir[d].content /\ dir[d].pending.parent = dir[d].last
          /\ Published(dir[d].pending.request) => published[dir[d].pending.request] = dir[d].pending
      BY DEF PInd, Records
    <2>2. [request |-> dir[d].pending.request, content |-> dir[d].content, parent |-> dir[d].last,
           git |-> dir[d].pending.git] = dir[d].pending
      BY <2>1 DEF Digest, P!Digest
    <2> QED
      BY <2>1, <2>2 DEF P!Published, Published, P!Replayable, P!CanBegin, P!Exportable, P!DigestOf
  <1> QED
    BY <1>1, <1>2, <1>3, <1>4 DEF P!Inv

-----------------------------------------------------------------------------
(* The handover between launchers *)

Handled == [kind : {"none", "preview", "start", "resume"}, t : Transfers \cup {None},
            step : Over \cup HoldsA \cup {"opening", "sending", "waiting"}]
Received == [step : Over \cup HoldsB \cup {"asked", "fetching"}, bytes : 0..Size, pos : 0..Size]
Files == BoundedSeq({"data", "zero"}, Size)

HShapes ==
    /\ host \in [Devices -> {"open", "closing", "closed"}]
    /\ source \in [state : {"active", "exporting", "exported"}, content : Contents,
                   for : Transfers \cup {None}]
    /\ target \in {"absent", "active"}
    /\ owner \in [Devices -> {"active", "exported"}]
    /\ prepared \in [Transfers -> Contents \cup {None}]
    /\ package \in [Transfers -> Contents \cup {None}]
    /\ journal \in [Devices -> [Transfers -> [stage : {None, "sending", "importing"},
                                              sent : 0..Size, received : 0..Size]]]
    /\ file \in [Transfers -> Files]
    /\ call \in [Calls -> Handled]
    /\ recv \in [Calls -> Received]
    /\ faults \in 0..MaxFaults

\* The lease of A's directory: the launcher has it, or one call.
LeaseOfA ==
    /\ \A c, e \in Calls : call[c].step \in HoldsA /\ call[e].step \in HoldsA => c = e
    /\ host["A"] # "closed" =>
         source.state = "active" /\ \A c \in Calls : call[c].step \notin HoldsA

\* What is asked for, by the steps of a call and its receiver.
Asks(c) ==
    /\ call[c] = NoCall => recv[c] = NoRecv
    /\ call[c] # NoCall => call[c].t \in Transfers
    /\ call[c].step = "opening" => call[c].kind \in {"preview", "start"}
    /\ call[c].step \in HoldsA \cup {"sending"} => call[c].kind = "start"
    /\ call[c].step \in HoldsA \cup {"opening", "sending"} => recv[c] = NoRecv

\* The one transfer that froze the source has the only package, of its contents.
Source ==
    /\ source.state = "active" => source.for = None
    /\ source.state # "active" => source.for \in Transfers
    /\ \A t \in Transfers : package[t] # None =>
         source.state # "active" /\ source.for = t /\ package[t] = source.content
    /\ source.state = "exported" => package[source.for] # None

\* A project is given away by a call that froze it.
Given ==
    /\ owner["A"] = "exported" => source.state = "exported"
    /\ \A c \in Calls : call[c].step \in {"owning", "sending"} =>
         source.state = "exported" /\ source.for = call[c].t
    /\ \A c \in Calls : call[c].step = "sending" => owner["A"] = "exported"
    /\ \A t \in Transfers : journal["A"][t] # NoRecord =>
         owner["A"] = "exported" /\ source.for = t

\* While nothing fails, each hole of a file is ahead of a receiver that will fill it,
\* and so is what lies behind the end of a file that was emptied.
Fetches(c, t) == recv[c].step = "fetching" /\ call[c].t = t
HolesFilled ==
    faults = 0 => \A t \in Transfers :
        /\ \A n \in 1..Len(file[t]) : file[t][n] = "zero" =>
             \E c \in Calls : Fetches(c, t) /\ recv[c].pos < n
        /\ \A c \in Calls : Fetches(c, t) /\ recv[c].pos > Len(file[t]) =>
             \E e \in Calls : Fetches(e, t) /\ recv[e].pos <= Len(file[t])

HInd == HShapes /\ LeaseOfA /\ (\A c \in Calls : Asks(c)) /\ Source /\ Given /\ HolesFilled

\* What a step leaves alone.

\* Nobody takes the lease of A.
LEMMA LeaseKept ==
    ASSUME LeaseOfA, source' = source,
           host'["A"] # "closed" => host["A"] # "closed",
           \A c \in Calls : call'[c].step \in HoldsA => call[c].step \in HoldsA
    PROVE  LeaseOfA'
  BY DEF LeaseOfA

\* The source and the packages stay.
LEMMA SourceKept ==
    ASSUME Source, UNCHANGED <<source, package>>
    PROVE  Source'
  BY DEF Source

\* Nothing is given away.
LEMMA GivenKept ==
    ASSUME Given, UNCHANGED <<source, owner>>,
           \A t \in Transfers : journal'["A"][t] # NoRecord => journal["A"][t] # NoRecord,
           \A c \in Calls : call'[c].step \in {"owning", "sending"} =>
             call'[c].step = call[c].step /\ call'[c].t = call[c].t
    PROVE  Given'
  BY DEF Given

\* The receivers are where they were.
LEMMA HolesKept ==
    ASSUME HolesFilled, faults' = faults, file' = file,
           \A c \in Calls, t \in Transfers : Fetches(c, t)' <=> Fetches(c, t),
           \A c \in Calls, t \in Transfers : Fetches(c, t) => recv'[c].pos = recv[c].pos
    PROVE  HolesFilled'
  <1> DEFINE Fetching(c, t) == Fetches(c, t)'
  <1>1. \A c \in Calls, t \in Transfers : Fetching(c, t) => recv'[c].pos = recv[c].pos
    OBVIOUS
  <1> QED
    BY <1>1 DEF HolesFilled

\* Once something failed, a file may have holes.
LEMMA HolesFaulty ==
    ASSUME HShapes, Fault
    PROVE  HolesFilled' /\ faults' \in 0..MaxFaults
  BY TransferAssumption DEF HShapes, Fault, HolesFilled

\* A call takes a step.
LEMMA GoDoes ==
    ASSUME HShapes, NEW c \in Calls,
           NEW step \in {"done", "failed", "exporting", "owning", "sending", "waiting"}, Go(c, step)
    PROVE  /\ call' \in [Calls -> Handled]
           /\ call'[c].step = step /\ call'[c].kind = call[c].kind /\ call'[c].t = call[c].t
           /\ call'[c] # NoCall
           /\ \A e \in Calls \ {c} : call'[e] = call[e]
           /\ \A e \in Calls : call'[e].t = call[e].t
  <1>1. call \in [Calls -> Handled] /\ call[c] \in Handled
    BY DEF HShapes
  <1>2. call' = [call EXCEPT ![c] = [call[c] EXCEPT !.step = step]]
    BY DEF Go
  <1>3. [call[c] EXCEPT !.step = step] \in Handled
    BY <1>1 DEF Handled, Over, HoldsA
  <1>4. call'[c] = [call[c] EXCEPT !.step = step]
    BY <1>1, <1>2
  <1> QED
    BY <1>1, <1>2, <1>3, <1>4 DEF Handled, NoCall

\* A receiver takes a step.
LEMMA ReachDoes ==
    ASSUME HShapes, NEW c \in Calls, NEW step \in {"failed", "checking"}, Reach(c, step)
    PROVE  /\ recv' \in [Calls -> Received]
           /\ recv'[c].step = step
           /\ recv'[c] # NoRecv
           /\ \A e \in Calls \ {c} : recv'[e] = recv[e]
           /\ \A e \in Calls : recv'[e].pos = recv[e].pos
  <1>1. recv \in [Calls -> Received] /\ recv[c] \in Received
    BY DEF HShapes
  <1>2. recv' = [recv EXCEPT ![c] = [recv[c] EXCEPT !.step = step]]
    BY DEF Reach
  <1>3. [recv[c] EXCEPT !.step = step] \in Received
    BY <1>1 DEF Received, Over, HoldsB
  <1>4. recv'[c] = [recv[c] EXCEPT !.step = step]
    BY <1>1, <1>2
  <1> QED
    BY <1>1, <1>2, <1>3, <1>4 DEF Received, NoRecv

(* The launchers *)

\* The project is opened or closed in a launcher.
LEMMA LaunchersKeep ==
    ASSUME HInd, NEW v \in Devices, SelectProject(v) \/ CloseActiveProject(v) \/ Closed(v)
    PROVE  HInd'
  <1>1. UNCHANGED <<source, owner, prepared, package, journal, file, call, recv, faults>>
    BY DEF SelectProject, CloseActiveProject, Closed, disk
  <1>2. HShapes'
    BY DEF HInd, HShapes, SelectProject, CloseActiveProject, Closed, disk, Devices
  <1>3. LeaseOfA'
    BY DEF HInd, HShapes, LeaseOfA, LeaseFree, SelectProject, CloseActiveProject, Closed, disk, Devices
  <1>4. (\A c \in Calls : Asks(c)') /\ Source' /\ Given' /\ HolesFilled'
    BY <1>1 DEF HInd, Asks, Source, Given, HolesFilled, Fetches
  <1> QED
    BY <1>2, <1>3, <1>4 DEF HInd

\* Work in the project, which is open in A.
LEMMA WorkHKeeps ==
    ASSUME HInd, Work
    PROVE  HInd'
  <1>1. /\ source.state = "active" /\ source' = [source EXCEPT !.content = source.content + 1]
        /\ source.content + 1 \in Contents
        /\ \A c \in Calls : call[c].step \notin HoldsA
        /\ UNCHANGED <<host, target, owner, prepared, package, journal, file, call, recv, faults>>
    BY TransferAssumption DEF Work, HInd, HShapes, LeaseOfA, Contents
  <1>2. source' \in [state : {"active", "exporting", "exported"}, content : Contents,
                     for : Transfers \cup {None}]
        /\ source'.state = "active" /\ source'.for = source.for
    BY <1>1 DEF HInd, HShapes
  <1>3. HShapes'
    BY <1>1, <1>2 DEF HInd, HShapes
  <1>4. LeaseOfA' /\ Source' /\ Given'
    BY <1>1, <1>2 DEF HInd, LeaseOfA, Source, Given
  <1>5. (\A c \in Calls : Asks(c)') /\ HolesFilled'
    BY <1>1 DEF HInd, Asks, HolesFilled, Fetches
  <1> QED
    BY <1>3, <1>4, <1>5 DEF HInd

(* Calls of A's launcher that change nothing but themselves *)

\* A request arrives.
LEMMA AskKeeps ==
    ASSUME HInd, NEW c \in Calls, NEW t \in Transfers, NEW kind \in {"preview", "start"}, Ask(c, kind, t)
    PROVE  HInd'
  <1>1. /\ call[c] = NoCall
        /\ call' = [call EXCEPT ![c] = [kind |-> kind, t |-> t, step |-> "opening"]]
        /\ UNCHANGED <<host, source, target, owner, package, journal, file, prepared, recv, faults>>
    BY DEF Ask, disk
  <1>2. [kind |-> kind, t |-> t, step |-> "opening"] \in Handled
    BY DEF Handled
  <1>3. HShapes' /\ call'[c] = [kind |-> kind, t |-> t, step |-> "opening"]
        /\ \A e \in Calls \ {c} : call'[e] = call[e]
    BY <1>1, <1>2 DEF HInd, HShapes
  <1>4. recv[c] = NoRecv
    BY <1>1 DEF HInd, Asks
  <1>5. LeaseOfA' /\ Source' /\ Given'
    BY <1>1, <1>3, LeaseKept, SourceKept, GivenKept DEF HInd, HoldsA
  <1>6. \A e \in Calls : Asks(e)'
    BY <1>1, <1>3 DEF HInd, Asks, HoldsA, NoCall
  <1>7. \A e \in Calls, u \in Transfers : Fetches(e, u)' <=> Fetches(e, u)
    BY <1>1, <1>3, <1>4 DEF Fetches, NoRecv
  <1>8. HolesFilled'
    BY <1>1, <1>7, HolesKept DEF HInd
  <1> QED
    BY <1>3, <1>5, <1>6, <1>8 DEF HInd

\* A call goes on, and nothing it froze or gave away is disturbed.
LEMMA GoesOn ==
    ASSUME HInd, NEW c \in Calls, NEW step \in {"done", "failed", "exporting"},
           Go(c, step), call[c].step # "none",
           step = "exporting" => LeaseFree("A") /\ call[c].kind = "start" /\ call[c].step = "opening",
           UNCHANGED <<host, disk, recv>>,
           prepared' \in [Transfers -> Contents \cup {None}],
           faults' = faults \/ Fault
    PROVE  HInd'
  <1>1. /\ call' \in [Calls -> Handled]
        /\ call'[c].step = step /\ call'[c].kind = call[c].kind /\ call'[c].t = call[c].t
        /\ call'[c] # NoCall
        /\ \A e \in Calls \ {c} : call'[e] = call[e]
        /\ \A e \in Calls : call'[e].t = call[e].t
    BY GoDoes DEF HInd
  <1>2. call[c] # NoCall
    BY DEF NoCall
  <1>3. HolesFilled' /\ faults' \in 0..MaxFaults
    <2>1. CASE faults' = faults
      <3>1. \A e \in Calls, u \in Transfers : Fetches(e, u)' <=> Fetches(e, u)
        BY <1>1 DEF Fetches
      <3> QED
        BY <2>1, <3>1, HolesKept DEF HInd, HShapes, disk
    <2>2. CASE Fault
      BY <2>2, HolesFaulty DEF HInd
    <2> QED
      BY <2>1, <2>2
  <1>4. HShapes'
    BY <1>1, <1>3 DEF HInd, HShapes, disk
  <1>5. LeaseOfA'
    <2>1. CASE step = "exporting"
      BY <1>1, <2>1 DEF HInd, LeaseOfA, LeaseFree, HoldsA, disk
    <2>2. CASE step # "exporting"
      BY <1>1, <2>2, LeaseKept DEF HInd, HoldsA, disk
    <2> QED
      BY <2>1, <2>2
  <1>6. Source' /\ Given'
    BY <1>1, SourceKept, GivenKept DEF HInd, disk
  <1>7. \A e \in Calls : Asks(e)'
    BY <1>1, <1>2 DEF HInd, Asks, HoldsA
  <1> QED
    BY <1>3, <1>4, <1>5, <1>6, <1>7 DEF HInd

\* Calls that change nothing but themselves, and the preview.
LEMMA GoingKeeps ==
    ASSUME HInd, NEW c \in Calls,
           \/ Refused(c) \/ PreviewExport(c) \/ PreviewRefused(c) \/ OpenSource(c)
           \/ ReceiveFailed(c) \/ SenderFails(c)
    PROVE  HInd'
  <1>1. prepared \in [Transfers -> Contents \cup {None}]
    BY DEF HInd, HShapes
  <1>2. CASE Refused(c)
    BY <1>1, <1>2, GoesOn DEF Refused
  <1>3. CASE PreviewExport(c)
    <2>1. prepared' \in [Transfers -> Contents \cup {None}]
      BY <1>3 DEF PreviewExport, HInd, HShapes
    <2> QED
      BY <1>3, <2>1, GoesOn DEF PreviewExport, At
  <1>4. CASE OpenSource(c)
    BY <1>1, <1>4, GoesOn DEF OpenSource, At
  <1>5. CASE PreviewRefused(c)
    <2>1. prepared' \in [Transfers -> Contents \cup {None}]
      BY <1>5 DEF PreviewRefused, HInd, HShapes
    <2> QED
      BY <1>5, <2>1, GoesOn DEF PreviewRefused, At
  <1>6. CASE ReceiveFailed(c)
    BY <1>1, <1>6, GoesOn DEF ReceiveFailed
  <1>7. CASE SenderFails(c)
    BY <1>1, <1>7, GoesOn DEF SenderFails, Over
  <1> QED
    BY <1>2, <1>3, <1>4, <1>5, <1>6, <1>7

(* The export *)

\* The source is frozen, or left with the intent, by the call that holds it.
LEMMA FreezeKeeps ==
    ASSUME HInd, NEW c \in Calls, NEW t \in Transfers, t = call[c].t,
           call[c].kind = "start", call[c].step = "exporting",
           NEW state \in {"exporting", "exported"}, NEW p \in {None, source.content},
           NEW step \in {"owning", "failed"}, Go(c, step),
           \/ Exportable(t) /\ package[t] = None
           \/ source.for = t /\ state = "exported",
           source.state = "exported" => state = "exported",
           state = "exported" => p = source.content,
           step = "owning" => state = "exported",
           source' = [source EXCEPT !.state = state, !.for = t],
           package' = [package EXCEPT ![t] = p],
           UNCHANGED <<host, target, owner, prepared, journal, file, recv>>,
           faults' = faults \/ Fault
    PROVE  HInd'
  <1>1. /\ call' \in [Calls -> Handled]
        /\ call'[c].step = step /\ call'[c].kind = call[c].kind /\ call'[c].t = call[c].t
        /\ call'[c] # NoCall
        /\ \A e \in Calls \ {c} : call'[e] = call[e]
        /\ \A e \in Calls : call'[e].t = call[e].t
    BY GoDoes DEF HInd
  <1>2. call[c] # NoCall
    BY DEF NoCall
  <1>3. HolesFilled' /\ faults' \in 0..MaxFaults
    <2>1. CASE faults' = faults
      <3>1. \A e \in Calls, u \in Transfers : Fetches(e, u)' <=> Fetches(e, u)
        BY <1>1 DEF Fetches
      <3> QED
        BY <2>1, <3>1, HolesKept DEF HInd, HShapes
    <2>2. CASE Fault
      BY <2>2, HolesFaulty DEF HInd
    <2> QED
      BY <2>1, <2>2
  <1>4. /\ source'.state = state /\ source'.for = t /\ source'.content = source.content
        /\ source.content \in Contents
        /\ source' \in [state : {"active", "exporting", "exported"}, content : Contents,
                        for : Transfers \cup {None}]
    BY DEF HInd, HShapes
  <1>5. package'[t] = p /\ (\A u \in Transfers \ {t} : package'[u] = package[u])
        /\ package' \in [Transfers -> Contents \cup {None}]
    BY <1>4 DEF HInd, HShapes
  <1>6. HShapes'
    BY <1>1, <1>3, <1>4, <1>5 DEF HInd, HShapes
  <1>7. host["A"] = "closed" /\ \A e \in Calls \ {c} : call[e].step \notin HoldsA
    BY DEF HInd, LeaseOfA, HoldsA
  <1>8. LeaseOfA'
    BY <1>1, <1>7 DEF LeaseOfA
  <1>9. \A u \in Transfers \ {t} : package[u] = None
    BY DEF HInd, Source, Exportable
  <1>10. source.content # None
    BY <1>4, TransferAssumption DEF Contents
  <1>11. Source'
    BY <1>4, <1>5, <1>9, <1>10, TransferAssumption DEF Source
  <1>12. source.state = "exported" => source.for = t
    BY DEF Exportable
  <1>13. Given'
    <2>1. owner'["A"] = "exported" => source'.state = "exported"
      BY <1>4 DEF HInd, Given
    <2>2. \A e \in Calls : call'[e].step \in {"owning", "sending"} =>
            source'.state = "exported" /\ source'.for = call'[e].t
      <3> SUFFICES ASSUME NEW e \in Calls, call'[e].step \in {"owning", "sending"}
                   PROVE  source'.state = "exported" /\ source'.for = call'[e].t
        OBVIOUS
      <3>1. CASE e = c
        BY <1>1, <1>4, <3>1
      <3>2. CASE e # c
        <4>1. source.state = "exported" /\ source.for = call[e].t
          BY <1>1, <3>2 DEF HInd, Given
        <4> QED
          BY <1>1, <1>4, <1>12, <4>1
      <3> QED
        BY <3>1, <3>2
    <2>3. \A e \in Calls : call'[e].step = "sending" => owner'["A"] = "exported"
      BY <1>1 DEF HInd, Given
    <2>4. \A u \in Transfers : journal'["A"][u] # NoRecord => owner'["A"] = "exported" /\ source'.for = u
      BY <1>4, <1>12 DEF HInd, Given
    <2> QED
      BY <2>1, <2>2, <2>3, <2>4 DEF Given
  <1>14. \A e \in Calls : Asks(e)'
    BY <1>1, <1>2 DEF HInd, Asks, HoldsA
  <1> QED
    BY <1>3, <1>6, <1>8, <1>11, <1>13, <1>14 DEF HInd

\* An export freezes the source, or stops with the intent.
LEMMA ExportKeeps ==
    ASSUME HInd, NEW c \in Calls, ExportPackage(c) \/ ExportInterrupted(c) \/ ExportRefused(c)
    PROVE  HInd'
  <1>1. At(c, "start", "exporting") /\ call[c] # NoCall
    BY DEF ExportPackage, ExportInterrupted, ExportRefused, At, NoCall
  <1>2. PICK t \in Transfers : t = call[c].t
    BY <1>1 DEF HInd, Asks
  <1>3. call[c].kind = "start" /\ call[c].step = "exporting"
    BY <1>1 DEF At
  <1>4. CASE ExportPackage(c)
    <2>1. /\ \/ package[t] = None /\ Exportable(t)
             \/ source.for = t
          /\ source' = [source EXCEPT !.state = "exported", !.for = t]
          /\ package' = [package EXCEPT ![t] = source.content]
          /\ Go(c, "owning")
          /\ UNCHANGED <<host, target, owner, prepared, journal, file, recv, faults>>
      BY <1>2, <1>4 DEF ExportPackage
    <2> QED
      BY <1>2, <1>3, <2>1, FreezeKeeps
  <1>5. CASE ExportInterrupted(c)
    <2>1. PICK p \in {None, source.content} : package' = [package EXCEPT ![t] = p]
      BY <1>2, <1>5 DEF ExportInterrupted
    <2>2. /\ Exportable(t) /\ package[t] = None /\ Fault
          /\ source' = [source EXCEPT !.state = "exporting", !.for = t]
          /\ Go(c, "failed")
          /\ UNCHANGED <<host, target, owner, prepared, journal, file, recv>>
      BY <1>2, <1>5 DEF ExportInterrupted, Fault
    <2>3. source.state # "exported"
      BY <2>2 DEF Exportable
    <2> QED
      BY <1>2, <1>3, <2>1, <2>2, <2>3, FreezeKeeps
  <1>6. CASE ExportRefused(c)
    <2>1. /\ Go(c, "failed")
          /\ UNCHANGED <<host, target, owner, prepared, package, journal, file, recv, faults>>
      BY <1>6 DEF ExportRefused
    <2>2. CASE UNCHANGED source
      <3>1. prepared' \in [Transfers -> Contents \cup {None}]
        BY <2>1 DEF HInd, HShapes
      <3> QED
        BY <1>3, <2>1, <2>2, <3>1, GoesOn DEF disk
    <2>3. CASE source' # source
      <3>1. /\ Exportable(t) /\ package[t] = None
            /\ source' = [source EXCEPT !.state = "exporting", !.for = t]
        BY <1>2, <1>6, <2>3 DEF ExportRefused
      <3>2. source.state # "exported"
        BY <3>1 DEF Exportable
      <3>3. package' = [package EXCEPT ![t] = None]
        BY <2>1, <3>1 DEF HInd, HShapes
      <3> QED
        BY <1>2, <1>3, <2>1, <3>1, <3>2, <3>3, FreezeKeeps
    <2> QED
      BY <2>2, <2>3
  <1> QED
    BY <1>4, <1>5, <1>6

\* The project is given away by the call that froze it.
LEMMA OwnershipKeeps ==
    ASSUME HInd, NEW c \in Calls, UpdateOwnership(c)
    PROVE  HInd'
  <1>1. /\ call[c].step = "owning"
        /\ owner' = [owner EXCEPT !["A"] = "exported"]
        /\ Go(c, "sending")
        /\ UNCHANGED <<host, source, target, prepared, package, journal, file, recv, faults>>
    BY DEF UpdateOwnership
  <1>2. /\ call' \in [Calls -> Handled]
        /\ call'[c].step = "sending" /\ call'[c].kind = call[c].kind /\ call'[c].t = call[c].t
        /\ call'[c] # NoCall
        /\ \A e \in Calls \ {c} : call'[e] = call[e]
        /\ \A e \in Calls : call'[e].t = call[e].t
    BY <1>1, GoDoes DEF HInd
  <1>3. owner'["A"] = "exported" /\ owner' \in [Devices -> {"active", "exported"}]
    BY <1>1 DEF HInd, HShapes, Devices
  <1>4. HShapes'
    BY <1>1, <1>2, <1>3 DEF HInd, HShapes
  <1>5. LeaseOfA' /\ Source'
    BY <1>1, <1>2, LeaseKept, SourceKept DEF HInd, HoldsA
  <1>6. source.state = "exported" /\ source.for = call[c].t
    BY <1>1 DEF HInd, Given
  <1>7. Given'
    BY <1>1, <1>2, <1>3, <1>6 DEF HInd, Given
  <1>8. \A e \in Calls : Asks(e)'
    BY <1>1, <1>2 DEF HInd, Asks, HoldsA, NoCall
  <1>9. \A e \in Calls, u \in Transfers : Fetches(e, u)' <=> Fetches(e, u)
    BY <1>1, <1>2 DEF Fetches
  <1>10. HolesFilled'
    BY <1>1, <1>9, HolesKept DEF HInd
  <1> QED
    BY <1>4, <1>5, <1>7, <1>8, <1>10 DEF HInd

(* B is asked *)

\* The journal has the transfer, and B is asked.
LEMMA SendKeeps ==
    ASSUME HInd, NEW c \in Calls, SendRequest(c)
    PROVE  HInd'
  <1>1. call[c].step = "sending" /\ call[c] # NoCall
    BY DEF SendRequest, NoCall
  <1>2. PICK t \in Transfers : t = call[c].t
    BY <1>1 DEF HInd, Asks
  <1> DEFINE asked == [step |-> "asked", bytes |-> Size, pos |-> 0]
             sent == [stage |-> "sending", sent |-> 0, received |-> 0]
  <1>3. /\ journal' = [journal EXCEPT !["A"][t] = sent]
        /\ Go(c, "waiting")
        /\ recv' = [recv EXCEPT ![c] = asked]
        /\ UNCHANGED <<host, source, target, owner, prepared, package, file, faults>>
    BY <1>2 DEF SendRequest, Asked
  <1>4. /\ call' \in [Calls -> Handled]
        /\ call'[c].step = "waiting" /\ call'[c].kind = call[c].kind /\ call'[c].t = call[c].t
        /\ call'[c] # NoCall
        /\ \A e \in Calls \ {c} : call'[e] = call[e]
        /\ \A e \in Calls : call'[e].t = call[e].t
    BY <1>3, GoDoes DEF HInd
  <1>5. asked \in Received /\ asked.step = "asked"
    BY TransferAssumption DEF Received
  <1>6. /\ sent \in [stage : {None, "sending", "importing"}, sent : 0..Size, received : 0..Size]
        /\ journal \in [Devices -> [Transfers -> [stage : {None, "sending", "importing"},
                                              sent : 0..Size, received : 0..Size]]]
    BY TransferAssumption DEF HInd, HShapes
  <1> HIDE DEF asked, sent
  <1>7. /\ journal' \in [Devices -> [Transfers -> [stage : {None, "sending", "importing"},
                                              sent : 0..Size, received : 0..Size]]]
        /\ \A u \in Transfers \ {t} : journal'["A"][u] = journal["A"][u]
    BY <1>3, <1>6 DEF Devices
  <1>8. recv' \in [Calls -> Received] /\ recv'[c] = asked /\ \A e \in Calls \ {c} : recv'[e] = recv[e]
    BY <1>3, <1>5 DEF HInd, HShapes
  <1>9. HShapes'
    BY <1>3, <1>4, <1>7, <1>8 DEF HInd, HShapes
  <1>10. LeaseOfA' /\ Source'
    BY <1>3, <1>4, LeaseKept, SourceKept DEF HInd, HoldsA
  <1>11. owner["A"] = "exported" /\ source.for = t
    BY <1>1, <1>2 DEF HInd, Given
  <1>12. Given'
    BY <1>3, <1>4, <1>7, <1>11 DEF HInd, Given
  <1>13. \A e \in Calls : Asks(e)'
    BY <1>1, <1>4, <1>8 DEF HInd, Asks, HoldsA
  <1>14. recv[c] = NoRecv
    BY <1>1 DEF HInd, Asks
  <1>15. \A e \in Calls, u \in Transfers : Fetches(e, u)' <=> Fetches(e, u)
    BY <1>4, <1>5, <1>8, <1>14 DEF Fetches, NoRecv
  <1>16. \A e \in Calls, u \in Transfers : Fetches(e, u) => recv'[e].pos = recv[e].pos
    BY <1>8, <1>14 DEF Fetches, NoRecv
  <1>17. HolesFilled'
    BY <1>3, <1>15, <1>16, HolesKept DEF HInd
  <1> QED
    BY <1>9, <1>10, <1>12, <1>13, <1>17 DEF HInd

\* B is asked again.
LEMMA ResumeKeeps ==
    ASSUME HInd, NEW c \in Calls, NEW t \in Transfers, Resume(c, t)
    PROVE  HInd'
  <1> DEFINE asked == [step |-> "asked", bytes |-> journal["A"][t].sent, pos |-> 0]
             resumed == [kind |-> "resume", t |-> t, step |-> "waiting"]
  <1>1. /\ call[c] = NoCall
        /\ call' = [call EXCEPT ![c] = resumed]
        /\ recv' = [recv EXCEPT ![c] = asked]
        /\ UNCHANGED <<host, source, target, owner, package, journal, file, prepared, faults>>
    BY DEF Resume, Asked, disk
  <1>2. asked \in Received /\ asked.step = "asked"
    <2>1. journal["A"][t].sent \in 0..Size
      BY DEF HInd, HShapes, Devices
    <2> QED
      BY <2>1, TransferAssumption DEF Received
  <1>3. resumed \in Handled /\ resumed.step = "waiting" /\ resumed.t = t /\ resumed # NoCall
    BY DEF Handled, NoCall
  <1> HIDE DEF asked, resumed
  <1>4. call' \in [Calls -> Handled] /\ call'[c] = resumed /\ \A e \in Calls \ {c} : call'[e] = call[e]
    BY <1>1, <1>3 DEF HInd, HShapes
  <1>5. recv' \in [Calls -> Received] /\ recv'[c] = asked /\ \A e \in Calls \ {c} : recv'[e] = recv[e]
    BY <1>1, <1>2 DEF HInd, HShapes
  <1>6. recv[c] = NoRecv
    BY <1>1 DEF HInd, Asks
  <1>7. HShapes'
    BY <1>1, <1>4, <1>5 DEF HInd, HShapes
  <1>8. LeaseOfA' /\ Source' /\ Given'
    BY <1>1, <1>3, <1>4, LeaseKept, SourceKept, GivenKept DEF HInd, HoldsA
  <1>9. \A e \in Calls : Asks(e)'
    BY <1>3, <1>4, <1>5 DEF HInd, Asks, HoldsA
  <1>10. \A e \in Calls, u \in Transfers : Fetches(e, u)' <=> Fetches(e, u)
    BY <1>2, <1>4, <1>5, <1>6 DEF Fetches, NoRecv
  <1>11. \A e \in Calls, u \in Transfers : Fetches(e, u) => recv'[e].pos = recv[e].pos
    BY <1>5, <1>6 DEF Fetches, NoRecv
  <1>12. HolesFilled'
    BY <1>1, <1>10, <1>11, HolesKept DEF HInd
  <1> QED
    BY <1>7, <1>8, <1>9, <1>12 DEF HInd

(* B receives *)

\* A receiver fails or goes on to the check: it fetches no more.
LEMMA ReachKeeps ==
    ASSUME HInd, NEW c \in Calls, NEW step \in {"failed", "checking"}, Reach(c, step),
           recv[c].step \notin Over,
           UNCHANGED <<host, source, owner, prepared, package, file, call>>,
           target' \in {"absent", "active"},
           journal' \in [Devices -> [Transfers -> [stage : {None, "sending", "importing"},
                                                   sent : 0..Size, received : 0..Size]]],
           journal'["A"] = journal["A"],
           HolesFilled', faults' \in 0..MaxFaults
    PROVE  HInd'
  <1>1. /\ recv' \in [Calls -> Received]
        /\ recv'[c] # NoRecv /\ recv[c] # NoRecv
        /\ \A e \in Calls \ {c} : recv'[e] = recv[e]
    BY ReachDoes DEF HInd, NoRecv, Over
  <1>2. HShapes'
    BY <1>1 DEF HInd, HShapes
  <1>3. LeaseOfA' /\ Source' /\ Given'
    BY LeaseKept, SourceKept, GivenKept DEF HInd
  <1>4. \A e \in Calls : Asks(e)'
    BY <1>1 DEF HInd, Asks
  <1> QED
    BY <1>2, <1>3, <1>4 DEF HInd

\* A receiver fails.
LEMMA ReceiverFailsKeeps ==
    ASSUME HInd, NEW c \in Calls, ReceiverFails(c)
    PROVE  HInd'
  <1>1. HolesFilled' /\ faults' \in 0..MaxFaults
    BY HolesFaulty DEF HInd, ReceiverFails
  <1> QED
    BY <1>1, ReachKeeps DEF ReceiverFails, disk, HInd, HShapes

\* The receiver writes its journal and fails.
LEMMA PreviewImportHKeeps ==
    ASSUME HInd, NEW c \in Calls, PreviewImport(c)
    PROVE  HInd'
  <1>1. recv[c].step = "checking" /\ Reach(c, "failed")
        /\ UNCHANGED <<host, source, target, owner, prepared, package, file, call, faults>>
    BY DEF PreviewImport
  <1>2. recv[c] # NoRecv
    BY <1>1 DEF NoRecv
  <1>3. PICK t \in Transfers : t = call[c].t
    BY <1>2 DEF HInd, Asks
  <1>4. journal["B"][t] \in [stage : {None, "sending", "importing"}, sent : 0..Size, received : 0..Size]
    BY DEF HInd, HShapes, Devices
  <1>5. PICK s \in 0..Size :
          journal' = [journal EXCEPT !["B"][t] = [stage |-> "importing", sent |-> s, received |-> Size]]
    <2> DEFINE s == IF journal["B"][t] = NoRecord THEN Size ELSE journal["B"][t].sent
    <2>1. s \in 0..Size
      BY <1>4, TransferAssumption
    <2>2. journal' = [journal EXCEPT !["B"][t] = [stage |-> "importing", sent |-> s, received |-> Size]]
      BY <1>3 DEF PreviewImport
    <2> HIDE DEF s
    <2> QED
      BY <2>1, <2>2
  <1>6. /\ journal' \in [Devices -> [Transfers -> [stage : {None, "sending", "importing"},
                                                   sent : 0..Size, received : 0..Size]]]
        /\ journal'["A"] = journal["A"]
    BY <1>5, TransferAssumption DEF HInd, HShapes, Devices
  <1>7. /\ recv'[c].step = "failed" /\ \A e \in Calls \ {c} : recv'[e] = recv[e]
    BY <1>1, ReachDoes DEF HInd
  <1>8. \A e \in Calls, u \in Transfers : Fetches(e, u)' <=> Fetches(e, u)
    BY <1>1, <1>7 DEF Fetches
  <1>9. \A e \in Calls, u \in Transfers : Fetches(e, u) => recv'[e].pos = recv[e].pos
    BY <1>1, <1>7 DEF Fetches
  <1>10. HolesFilled'
    BY <1>1, <1>8, <1>9, HolesKept DEF HInd
  <1> QED
    BY <1>1, <1>6, <1>10, ReachKeeps DEF Over, HInd, HShapes

\* A file is a sequence of at most Size ranges.
LEMMA FileIsFile ==
    ASSUME HShapes, NEW t \in Transfers
    PROVE  /\ Len(file[t]) \in 0..Size
           /\ file[t] \in [1..Len(file[t]) -> {"data", "zero"}]
  <1>1. file[t] \in Files
    BY DEF HShapes
  <1>2. PICK m \in 0..Size : file[t] \in [1..m -> {"data", "zero"}]
    BY <1>1 DEF Files, BoundedSeq, SeqOf
  <1>3. m \in Nat /\ file[t] \in Seq({"data", "zero"})
    BY <1>2, TransferAssumption
  <1>4. Len(file[t]) = m
    BY <1>2, <1>3
  <1> QED
    BY <1>2, <1>4

\* The receiver is through: with the range behind its last, no hole was its own.
LEMMA OpenTargetKeeps ==
    ASSUME HInd, NEW c \in Calls, OpenTarget(c)
    PROVE  HInd'
  <1>1. /\ recv[c].step = "fetching" /\ recv[c].pos = Size
        /\ \E step \in {"failed", "checking"} : Reach(c, step)
        /\ target' \in {"absent", "active"}
        /\ UNCHANGED <<host, source, owner, prepared, package, journal, file, call, faults>>
    BY DEF OpenTarget, HInd, HShapes
  <1>2. PICK step \in {"failed", "checking"} : Reach(c, step)
    BY <1>1
  <1>3. /\ recv'[c].step = step /\ \A e \in Calls \ {c} : recv'[e] = recv[e]
    BY <1>2, ReachDoes DEF HInd
  <1>4. \A e \in Calls, u \in Transfers : Fetches(e, u)' <=> Fetches(e, u) /\ e # c
    BY <1>1, <1>3 DEF Fetches
  <1>5. HolesFilled'
    <2> SUFFICES ASSUME faults = 0, NEW t \in Transfers
                 PROVE  /\ \A n \in 1..Len(file[t]) : file[t][n] = "zero" =>
                             \E e \in Calls : Fetches(e, t)' /\ recv'[e].pos < n
                        /\ \A e \in Calls : Fetches(e, t)' /\ recv'[e].pos > Len(file[t]) =>
                             \E b \in Calls : Fetches(b, t)' /\ recv'[b].pos <= Len(file[t])
      BY <1>1 DEF HolesFilled
    <2>1. Len(file[t]) \in 0..Size /\ Size \in Nat
      BY FileIsFile, TransferAssumption DEF HInd
    <2>2. \A e \in Calls : recv[e].pos \in 0..Size
      BY DEF HInd, HShapes, Received
    <2>3. ASSUME NEW n \in 1..Len(file[t]), file[t][n] = "zero"
          PROVE  \E e \in Calls : Fetches(e, t)' /\ recv'[e].pos < n
      <3>1. PICK e \in Calls : Fetches(e, t) /\ recv[e].pos < n
        BY <2>3 DEF HInd, HolesFilled
      <3>2. e # c
        BY <1>1, <2>1, <3>1
      <3> QED
        BY <1>3, <1>4, <3>1, <3>2
    <2>4. ASSUME NEW e \in Calls, Fetches(e, t)', recv'[e].pos > Len(file[t])
          PROVE  \E b \in Calls : Fetches(b, t)' /\ recv'[b].pos <= Len(file[t])
      <3>1. Fetches(e, t) /\ recv[e].pos > Len(file[t])
        BY <1>3, <1>4, <2>4
      <3>2. PICK b \in Calls : Fetches(b, t) /\ recv[b].pos <= Len(file[t])
        BY <3>1 DEF HInd, HolesFilled
      <3>3. b # c
        BY <1>1, <2>1, <2>2, <3>1, <3>2
      <3> QED
        BY <1>3, <1>4, <3>2, <3>3
    <2> QED
      BY <2>3, <2>4
  <1> QED
    BY <1>1, <1>2, <1>5, ReachKeeps DEF Over, HInd, HShapes

\* A receiver goes on where the file ends.
LEMMA FetchManifestKeeps ==
    ASSUME HInd, NEW c \in Calls, FetchManifest(c)
    PROVE  HInd'
  <1>1. recv[c].step = "asked" /\ UNCHANGED <<host, source, target, owner, package, journal, file, prepared, call, faults>>
    BY DEF FetchManifest, disk
  <1>2. recv[c] # NoRecv
    BY <1>1 DEF NoRecv
  <1>3. PICK t \in Transfers : t = call[c].t
    BY <1>2 DEF HInd, Asks
  <1>4. CASE Reach(c, "failed")
    <2>1. /\ recv'[c].step = "failed" /\ \A e \in Calls \ {c} : recv'[e] = recv[e]
      BY <1>4, ReachDoes DEF HInd
    <2>2. \A e \in Calls, u \in Transfers : Fetches(e, u)' <=> Fetches(e, u)
      BY <1>1, <2>1 DEF Fetches
    <2>3. \A e \in Calls, u \in Transfers : Fetches(e, u) => recv'[e].pos = recv[e].pos
      BY <1>1, <2>1 DEF Fetches
    <2>4. HolesFilled'
      BY <1>1, <2>2, <2>3, HolesKept DEF HInd
    <2> QED
      BY <1>1, <1>4, <2>4, ReachKeeps DEF Over, HInd, HShapes
  <1>5. CASE recv' = [recv EXCEPT ![c].step = "fetching", ![c].pos = Len(file[t])]
    <2>1. Len(file[t]) \in 0..Size
      BY FileIsFile DEF HInd
    <2>2. recv[c] \in Received
      BY DEF HInd, HShapes
    <2> DEFINE got == [step |-> "fetching", bytes |-> recv[c].bytes, pos |-> Len(file[t])]
    <2>3. got \in Received
      BY <2>1, <2>2 DEF Received
    <2>4. recv' = [recv EXCEPT ![c] = got]
      <3>1. recv \in [Calls -> Received]
        BY DEF HInd, HShapes
      <3>2. \A e \in Calls \ {c} : recv'[e] = recv[e]
        BY <1>5, <3>1
      <3>3. recv'[c] = [[recv[c] EXCEPT !.step = "fetching"] EXCEPT !.pos = Len(file[t])]
        BY <1>5, <3>1
      <3>4. [[recv[c] EXCEPT !.step = "fetching"] EXCEPT !.pos = Len(file[t])] = got
        <4> DEFINE a == [recv[c] EXCEPT !.step = "fetching"]
        <4>1. a = [step |-> "fetching", bytes |-> recv[c].bytes, pos |-> recv[c].pos]
          BY <2>2 DEF Received
        <4>2. [[step |-> "fetching", bytes |-> recv[c].bytes, pos |-> recv[c].pos] EXCEPT !.pos = Len(file[t])] = got
          OBVIOUS
        <4> QED
          BY <4>1, <4>2
      <3>5. recv' = [e \in Calls |-> recv'[e]]
        BY <1>5, <3>1
      <3> QED
        BY <3>1, <3>2, <3>3, <3>4, <3>5
    <2>5. got # NoRecv /\ got.step = "fetching" /\ got.pos = Len(file[t])
      BY DEF NoRecv
    <2> HIDE DEF got
    <2>6. recv' \in [Calls -> Received] /\ recv'[c] = got /\ \A e \in Calls \ {c} : recv'[e] = recv[e]
      BY <2>3, <2>4 DEF HInd, HShapes
    <2>7. HShapes'
      BY <1>1, <2>6 DEF HInd, HShapes
    <2>8. LeaseOfA' /\ Source' /\ Given'
      BY <1>1, LeaseKept, SourceKept, GivenKept DEF HInd
    <2>9. \A e \in Calls : Asks(e)'
      BY <1>1, <1>2, <2>6 DEF HInd, Asks
    <2>10. \A e \in Calls, u \in Transfers : Fetches(e, u) => Fetches(e, u)' /\ recv'[e].pos = recv[e].pos
      BY <1>1, <2>6 DEF Fetches
    <2>11. \A e \in Calls, u \in Transfers : Fetches(e, u)' =>
             Fetches(e, u) \/ (e = c /\ u = t /\ recv'[e].pos = Len(file[t]))
      BY <1>1, <1>3, <2>5, <2>6 DEF Fetches
    <2>12. HolesFilled'
      <3> SUFFICES ASSUME faults = 0, NEW u \in Transfers
                   PROVE  /\ \A n \in 1..Len(file[u]) : file[u][n] = "zero" =>
                               \E e \in Calls : Fetches(e, u)' /\ recv'[e].pos < n
                          /\ \A e \in Calls : Fetches(e, u)' /\ recv'[e].pos > Len(file[u]) =>
                               \E b \in Calls : Fetches(b, u)' /\ recv'[b].pos <= Len(file[u])
        BY <1>1 DEF HolesFilled
      <3>1. ASSUME NEW n \in 1..Len(file[u]), file[u][n] = "zero"
            PROVE  \E e \in Calls : Fetches(e, u)' /\ recv'[e].pos < n
        <4>1. PICK e \in Calls : Fetches(e, u) /\ recv[e].pos < n
          BY <3>1 DEF HInd, HolesFilled
        <4> QED
          BY <2>10, <4>1
      <3>2. ASSUME NEW e \in Calls, Fetches(e, u)', recv'[e].pos > Len(file[u])
            PROVE  \E b \in Calls : Fetches(b, u)' /\ recv'[b].pos <= Len(file[u])
        <4>1. Fetches(e, u) /\ recv[e].pos > Len(file[u])
          BY <2>1, <2>10, <2>11, <3>2
        <4>2. PICK b \in Calls : Fetches(b, u) /\ recv[b].pos <= Len(file[u])
          BY <4>1 DEF HInd, HolesFilled
        <4> QED
          BY <2>10, <4>2
      <3> QED
        BY <3>1, <3>2
    <2> QED
      BY <2>7, <2>8, <2>9, <2>12 DEF HInd
  <1> QED
    BY <1>3, <1>4, <1>5 DEF FetchManifest

\* What a write leaves in the file.
LEMMA WrittenIs ==
    ASSUME HShapes, NEW t \in Transfers, NEW i \in 1..Size
    PROVE  LET f == file[t]
               w == Written(f, i)
               m == IF i = 1 THEN 1 ELSE IF Len(f) > i THEN Len(f) ELSE i
           IN  /\ w \in Files /\ Len(w) = m
               /\ w[i] = "data"
               /\ \A n \in 1..m : w[n] = "zero" =>
                    n # i /\ i # 1 /\ ((n <= Len(f) /\ f[n] = "zero") \/ (n > Len(f) /\ n < i))
  <1> DEFINE f == file[t]
             w == Written(f, i)
             m == IF i = 1 THEN 1 ELSE IF Len(f) > i THEN Len(f) ELSE i
  <1>1. Len(f) \in 0..Size /\ f \in [1..Len(f) -> {"data", "zero"}] /\ Size \in Nat
    BY FileIsFile, TransferAssumption
  <1>2. m \in 1..Size
    BY <1>1
  <1>3. w \in [1..m -> {"data", "zero"}] /\ w[i] = "data"
        /\ \A n \in 1..m : w[n] = "zero" =>
                n # i /\ i # 1 /\ ((n <= Len(f) /\ f[n] = "zero") \/ (n > Len(f) /\ n < i))
    <2>1. CASE i = 1
      <3>1. w = <<"data">> /\ m = 1
        BY <2>1 DEF Written
      <3>2. w \in [1..1 -> {"data", "zero"}] /\ w[1] = "data"
        BY <3>1
      <3> QED
        BY <2>1, <3>1, <3>2
    <2>2. CASE i # 1
      <3>1. w = [n \in 1..m |-> IF n = i THEN "data" ELSE IF n <= Len(f) THEN f[n] ELSE "zero"]
        BY <2>2 DEF Written
      <3>2. \A n \in 1..m : n <= Len(f) => n \in 1..Len(f)
        BY <1>1, <1>2
      <3>3. i \in 1..m
        BY <1>1, <2>2
      <3>4. \A n \in 1..m : ~(n <= Len(f)) => n > Len(f) /\ (n # i => n < i)
        BY <1>1, <1>2
      <3> HIDE DEF w, m, f
      <3> QED
        BY <1>1, <1>2, <2>2, <3>1, <3>2, <3>3, <3>4
    <2> QED
      BY <2>1, <2>2
  <1> HIDE DEF w, m, f
  <1>4. w \in Seq({"data", "zero"}) /\ Len(w) = m
    BY <1>2, <1>3
  <1>5. w \in Files
    BY <1>1, <1>2, <1>3 DEF Files, BoundedSeq, SeqOf
  <1> QED
    BY <1>3, <1>4, <1>5 DEF w, m, f

\* A range is written: what is left of the file ahead of it, its receiver or another
\* one will fill.
LEMMA FetchRangeKeeps ==
    ASSUME HInd, NEW c \in Calls, FetchRange(c)
    PROVE  HInd'
  <1>1. /\ recv[c].step = "fetching" /\ recv[c].pos < Size
        /\ UNCHANGED <<host, source, target, owner, prepared, package, journal, call, faults>>
    BY DEF FetchRange
  <1>2. recv[c] # NoRecv
    BY <1>1 DEF NoRecv
  <1>3. PICK t \in Transfers : t = call[c].t
    BY <1>2 DEF HInd, Asks
  <1>4. recv \in [Calls -> Received] /\ recv[c] \in Received /\ recv[c].pos \in 0..Size /\ Size \in Nat
    BY TransferAssumption DEF HInd, HShapes, Received
  <1>5. PICK i \in 1..Size : i = recv[c].pos + 1
    BY <1>1, <1>4
  <1> DEFINE f == file[t]
             w == Written(file[t], i)
             m == IF i = 1 THEN 1 ELSE IF Len(f) > i THEN Len(f) ELSE i
  <1>6. /\ w \in Files /\ Len(w) = m
        /\ \A n \in 1..m : w[n] = "zero" =>
             n # i /\ i # 1 /\ ((n <= Len(f) /\ f[n] = "zero") \/ (n > Len(f) /\ n < i))
    BY WrittenIs DEF HInd
  <1>7. file' = [file EXCEPT ![t] = w]
    BY <1>3, <1>5 DEF FetchRange
  <1>8. file' \in [Transfers -> Files] /\ file'[t] = w /\ \A u \in Transfers \ {t} : file'[u] = file[u]
    BY <1>6, <1>7 DEF HInd, HShapes
  <1>9. Len(f) \in 0..Size
    BY FileIsFile DEF HInd
  <1>10. m \in 1..Size /\ m >= i /\ (i # 1 => m >= Len(f))
         /\ (m > i => m = Len(f))
    BY <1>4, <1>9
  <1>11. recv' = [recv EXCEPT ![c] = [recv[c] EXCEPT !.pos = i]]
    BY <1>5 DEF FetchRange
  <1>12. [recv[c] EXCEPT !.pos = i] = [step |-> "fetching", bytes |-> recv[c].bytes, pos |-> i]
    BY <1>1, <1>4 DEF Received
  <1>13. [step |-> "fetching", bytes |-> recv[c].bytes, pos |-> i] \in Received
    BY <1>4 DEF Received
  <1>14. /\ recv' \in [Calls -> Received]
         /\ recv'[c].step = "fetching" /\ recv'[c].pos = i /\ recv'[c] # NoRecv
         /\ \A e \in Calls \ {c} : recv'[e] = recv[e]
    BY <1>4, <1>11, <1>12, <1>13 DEF NoRecv
  <1> HIDE DEF w, m, f
  <1>15. HShapes'
    BY <1>1, <1>8, <1>14 DEF HInd, HShapes
  <1>16. LeaseOfA' /\ Source' /\ Given'
    BY <1>1, LeaseKept, SourceKept, GivenKept DEF HInd
  <1>17. \A e \in Calls : Asks(e)'
    BY <1>1, <1>2, <1>14 DEF HInd, Asks
  <1>18. \A e \in Calls, u \in Transfers : Fetches(e, u)' <=> Fetches(e, u)
    BY <1>1, <1>14 DEF Fetches
  <1>19. \A e \in Calls \ {c} : recv'[e].pos = recv[e].pos
    BY <1>14
  <1>20. \A e \in Calls : recv[e].pos \in 0..Size
    BY DEF HInd, HShapes, Received
  <1>21. Fetches(c, t) /\ Fetches(c, t)'
    BY <1>1, <1>3, <1>18 DEF Fetches
  <1>22. HolesFilled'
    <2> SUFFICES ASSUME faults = 0, NEW u \in Transfers
                 PROVE  /\ \A n \in 1..Len(file'[u]) : file'[u][n] = "zero" =>
                             \E e \in Calls : Fetches(e, u)' /\ recv'[e].pos < n
                        /\ \A e \in Calls : Fetches(e, u)' /\ recv'[e].pos > Len(file'[u]) =>
                             \E b \in Calls : Fetches(b, u)' /\ recv'[b].pos <= Len(file'[u])
      BY <1>1 DEF HolesFilled
    <2>1. CASE u # t
      <3>1. file'[u] = file[u]
        BY <1>8, <2>1
      <3>2. \A e \in Calls : Fetches(e, u) => recv'[e].pos = recv[e].pos
        BY <1>3, <1>19, <2>1 DEF Fetches
      <3> QED
        BY <1>18, <3>1, <3>2 DEF HInd, HolesFilled
    <2>2. CASE u = t
      <3>1. file'[u] = w /\ Len(file'[u]) = m
        BY <1>6, <1>8, <2>2
      <3>2. ASSUME NEW n \in 1..m, w[n] = "zero"
            PROVE  \E e \in Calls : Fetches(e, t)' /\ recv'[e].pos < n
        <4>1. n # i /\ i # 1 /\ ((n <= Len(f) /\ f[n] = "zero") \/ (n > Len(f) /\ n < i))
          BY <1>6, <3>2
        <4>2. CASE n <= Len(f) /\ f[n] = "zero"
          <5>1. n \in 1..Len(file[t]) /\ file[t][n] = "zero"
            BY <1>9, <1>10, <4>2 DEF f
          <5>2. PICK e \in Calls : Fetches(e, t) /\ recv[e].pos < n
            BY <5>1 DEF HInd, HolesFilled
          <5>3. CASE e = c
            BY <1>4, <1>5, <1>10, <1>14, <1>21, <4>1, <5>2, <5>3
          <5>4. CASE e # c
            BY <1>18, <1>19, <5>2, <5>4
          <5> QED
            BY <5>3, <5>4
        <4>3. CASE n > Len(f) /\ n < i
          <5>1. recv[c].pos > Len(file[t])
            BY <1>4, <1>5, <1>9, <1>10, <4>3 DEF f
          <5>2. PICK b \in Calls : Fetches(b, t) /\ recv[b].pos <= Len(file[t])
            BY <1>21, <5>1 DEF HInd, HolesFilled
          <5>3. b # c
            BY <1>9, <1>20, <5>1, <5>2 DEF f
          <5>4. recv[b].pos < n
            BY <1>9, <1>10, <1>20, <4>3, <5>2 DEF f
          <5> QED
            BY <1>18, <1>19, <5>2, <5>3, <5>4
        <4> QED
          BY <4>1, <4>2, <4>3
      <3>3. ASSUME NEW e \in Calls, Fetches(e, t)', recv'[e].pos > m
            PROVE  \E b \in Calls : Fetches(b, t)' /\ recv'[b].pos <= m
        BY <1>4, <1>10, <1>14, <1>21
      <3> QED
        BY <2>2, <3>1, <3>2, <3>3
    <2> QED
      BY <2>1, <2>2
  <1> QED
    BY <1>15, <1>16, <1>17, <1>22 DEF HInd

(* Crashes *)

\* The launcher of A dies.
LEMMA CrashAKeeps ==
    ASSUME HInd, CrashA
    PROVE  HInd'
  <1>1. HolesFilled' /\ faults' \in 0..MaxFaults
    BY HolesFaulty DEF HInd, CrashA
  <1>2. /\ host' = [host EXCEPT !["A"] = "closed"]
        /\ prepared' = [t \in Transfers |-> None]
        /\ call' = [c \in Calls |-> IF call[c].step \in Over THEN call[c]
                                    ELSE [call[c] EXCEPT !.step = "failed"]]
        /\ recv' = [c \in Calls |-> IF recv[c].step \in {"asked", "fetching"}
                                    THEN [recv[c] EXCEPT !.step = "failed"] ELSE recv[c]]
        /\ UNCHANGED <<source, target, owner, package, journal, file>>
    BY DEF CrashA, disk
  <1>3. ASSUME NEW c \in Calls
        PROVE  /\ call'[c] \in Handled
               /\ call'[c].step \in Over /\ call'[c].t = call[c].t
               /\ call[c] = NoCall <=> call'[c] = NoCall
    <2>1. call[c] \in Handled
      BY DEF HInd, HShapes
    <2>2. CASE call[c].step \in Over
      BY <1>2, <2>1, <2>2
    <2>3. CASE call[c].step \notin Over
      <3>1. call'[c] = [call[c] EXCEPT !.step = "failed"]
        BY <1>2, <2>3
      <3>2. call'[c] = [kind |-> call[c].kind, t |-> call[c].t, step |-> "failed"]
        BY <2>1, <3>1 DEF Handled
      <3> QED
        BY <2>1, <2>3, <3>2 DEF Handled, Over, NoCall
    <2> QED
      BY <2>2, <2>3
  <1>4. ASSUME NEW c \in Calls
        PROVE  recv'[c] \in Received /\ (recv[c] = NoRecv => recv'[c] = NoRecv)
    <2>1. recv[c] \in Received
      BY DEF HInd, HShapes
    <2>2. CASE recv[c].step \in {"asked", "fetching"}
      <3>1. recv'[c] = [recv[c] EXCEPT !.step = "failed"]
        BY <1>2, <2>2
      <3>2. [recv[c] EXCEPT !.step = "failed"] = [step |-> "failed", bytes |-> recv[c].bytes, pos |-> recv[c].pos]
        BY <2>1 DEF Received
      <3> QED
        BY <2>1, <2>2, <3>1, <3>2 DEF Received, Over, NoRecv
    <2>3. CASE recv[c].step \notin {"asked", "fetching"}
      BY <1>2, <2>1, <2>3
    <2> QED
      BY <2>2, <2>3
  <1>5. HShapes'
    BY <1>1, <1>2, <1>3, <1>4 DEF HInd, HShapes, Devices
  <1>6. LeaseOfA' /\ Source' /\ Given'
    BY <1>2, <1>3 DEF HInd, HShapes, LeaseOfA, Source, Given, HoldsA, Over, Devices
  <1>7. \A c \in Calls : Asks(c)'
    BY <1>3, <1>4 DEF HInd, Asks, Over, HoldsA
  <1> QED
    BY <1>1, <1>5, <1>6, <1>7 DEF HInd

\* The launcher of B dies.
LEMMA CrashBKeeps ==
    ASSUME HInd, CrashB
    PROVE  HInd'
  <1>1. HolesFilled' /\ faults' \in 0..MaxFaults
    BY HolesFaulty DEF HInd, CrashB
  <1>2. /\ host' = [host EXCEPT !["B"] = "closed"]
        /\ recv' = [c \in Calls |-> IF recv[c].step \in Over THEN recv[c]
                                    ELSE [recv[c] EXCEPT !.step = "failed"]]
        /\ UNCHANGED <<source, target, owner, package, journal, file, prepared, call>>
    BY DEF CrashB, disk
  <1>3. ASSUME NEW c \in Calls
        PROVE  recv'[c] \in Received /\ (recv[c] = NoRecv <=> recv'[c] = NoRecv)
    <2>1. recv[c] \in Received
      BY DEF HInd, HShapes
    <2>2. CASE recv[c].step \notin Over
      <3>1. recv'[c] = [recv[c] EXCEPT !.step = "failed"]
        BY <1>2, <2>2
      <3>2. [recv[c] EXCEPT !.step = "failed"] = [step |-> "failed", bytes |-> recv[c].bytes, pos |-> recv[c].pos]
        BY <2>1 DEF Received
      <3> QED
        BY <2>1, <2>2, <3>1, <3>2 DEF Received, Over, NoRecv
    <2>3. CASE recv[c].step \in Over
      BY <1>2, <2>1, <2>3
    <2> QED
      BY <2>2, <2>3
  <1>4. host' \in [Devices -> {"open", "closing", "closed"}] /\ host'["A"] = host["A"]
    BY <1>2 DEF HInd, HShapes, Devices
  <1>5. HShapes'
    BY <1>1, <1>2, <1>3, <1>4 DEF HInd, HShapes
  <1>6. LeaseOfA' /\ Source' /\ Given'
    BY <1>2, <1>4, LeaseKept, SourceKept, GivenKept DEF HInd
  <1>7. \A c \in Calls : Asks(c)'
    BY <1>2, <1>3 DEF HInd, Asks
  <1> QED
    BY <1>1, <1>5, <1>6, <1>7 DEF HInd

(* The launchers, step by step *)

\* All this holds at first.
LEMMA HInit ==
    ASSUME Init
    PROVE  HInd
  <1>1. [n \in 1..0 |-> "data"] \in [1..0 -> {"data", "zero"}] /\ 0 \in 0..Size
    BY TransferAssumption
  <1>2. <<>> \in Files
    BY <1>1 DEF Files, BoundedSeq, SeqOf
  <1>3. NoRecord \in [stage : {None, "sending", "importing"}, sent : 0..Size, received : 0..Size]
    BY TransferAssumption DEF NoRecord
  <1>4. NoCall \in Handled /\ NoRecv \in Received
    BY TransferAssumption DEF NoCall, NoRecv, Handled, Received, Over
  <1>5. HShapes
    BY <1>2, <1>3, <1>4, TransferAssumption DEF Init, HShapes, Contents, Devices
  <1>6. LeaseOfA /\ Source /\ Given
    BY DEF Init, LeaseOfA, Source, Given, NoCall, HoldsA, Devices
  <1>7. \A c \in Calls : Asks(c)
    BY DEF Init, Asks, NoCall, HoldsA
  <1>8. HolesFilled
    BY DEF Init, HolesFilled, Fetches, NoRecv
  <1> QED
    BY <1>5, <1>6, <1>7, <1>8 DEF HInd

\* Every step of the launchers keeps it.
LEMMA HStep ==
    ASSUME HInd, Next
    PROVE  HInd'
  <1>1. ASSUME NEW v \in Devices, SelectProject(v) \/ CloseActiveProject(v) \/ Closed(v)
        PROVE  HInd'
    BY <1>1, LaunchersKeep
  <1>2. CASE Work
    BY <1>2, WorkHKeeps
  <1>3. CASE CrashA
    BY <1>3, CrashAKeeps
  <1>4. CASE CrashB
    BY <1>4, CrashBKeeps
  <1>5. ASSUME NEW c \in Calls, NEW t \in Transfers,
               Ask(c, "preview", t) \/ Ask(c, "start", t) \/ Resume(c, t)
        PROVE  HInd'
    BY <1>5, AskKeeps, ResumeKeeps
  <1>6. ASSUME NEW c \in Calls, \/ Refused(c) \/ PreviewExport(c) \/ PreviewRefused(c) \/ OpenSource(c)
                                  \/ ReceiveFailed(c) \/ SenderFails(c)
        PROVE  HInd'
    BY <1>6, GoingKeeps
  <1>7. ASSUME NEW c \in Calls, ExportPackage(c) \/ ExportInterrupted(c) \/ ExportRefused(c)
        PROVE  HInd'
    BY <1>7, ExportKeeps
  <1>8. ASSUME NEW c \in Calls, UpdateOwnership(c) \/ SendRequest(c)
        PROVE  HInd'
    BY <1>8, OwnershipKeeps, SendKeeps
  <1>9. ASSUME NEW c \in Calls, FetchManifest(c) \/ FetchRange(c) \/ OpenTarget(c)
                                  \/ PreviewImport(c) \/ ReceiverFails(c)
        PROVE  HInd'
    BY <1>9, FetchManifestKeeps, FetchRangeKeeps, OpenTargetKeeps, PreviewImportHKeeps,
       ReceiverFailsKeeps
  <1> QED
    BY <1>1, <1>2, <1>3, <1>4, <1>5, <1>6, <1>7, <1>8, <1>9 DEF Next

\* So does a step of the commands.
LEMMA HUnchanged ==
    ASSUME HInd, UNCHANGED vars
    PROVE  HInd'
  BY DEF HInd, HShapes, LeaseOfA, Asks, Source, Given, HolesFilled, Fetches, vars

\* It is why what is given away is frozen, and a shared file whole.
LEMMA HImplies ==
    ASSUME HInd
    PROVE  HandoverInv
  <1>1. TypeOK
    <2>1. \A t \in Transfers : file[t] \in BoundedSeq({"data", "zero"}, Size)
      BY DEF HInd, HShapes, Files
    <2>2. ASSUME NEW c \in Calls
          PROVE  /\ call[c].kind \in {"none", "preview", "start", "resume"}
                 /\ call[c].step \in Over \cup HoldsA \cup {"opening", "sending", "waiting"}
                 /\ recv[c].step \in Over \cup HoldsB \cup {"asked", "fetching"}
                 /\ recv[c].bytes \in 0..Size /\ recv[c].pos \in 0..Size
      BY DEF HInd, HShapes, Handled, Received
    <2> QED
      BY <2>1, <2>2 DEF HInd, HShapes, TypeOK
  <1>2. GivenAwayIsFrozen
    BY DEF HInd, Given, Source, GivenAwayIsFrozen
  <1>3. FileWhole
    <2> SUFFICES ASSUME NEW t \in Transfers, Len(file[t]) = Size, faults = 0,
                        \A c \in Calls : call[c].t = t => recv[c].step # "fetching"
                 PROVE  Whole(t)
      BY DEF FileWhole
    <2>1. file[t] \in [1..Size -> {"data", "zero"}]
      BY FileIsFile DEF HInd
    <2>2. \A n \in 1..Size : file[t][n] # "zero"
      BY DEF HInd, HolesFilled, Fetches
    <2>3. file[t] = [n \in 1..Size |-> file[t][n]]
      BY <2>1
    <2>4. \A n \in 1..Size : file[t][n] = "data"
      BY <2>1, <2>2
    <2> QED
      BY <2>3, <2>4 DEF Whole
  <1> QED
    BY <1>1, <1>2, <1>3 DEF HandoverInv

-----------------------------------------------------------------------------
(* Either way *)

\* The way the project is handed over is chosen once; both invariants hold in
\* both, as the variables of the other way do not change.
EitherWay == way \in {"launchers", "commands"} /\ PInd /\ HInd

\* Either kind of step keeps both.
LEMMA TransferStep ==
    ASSUME EitherWay, [TransferNext]_<<way, vars, commandVars>>
    PROVE  EitherWay'
  <1>1. CASE way = "launchers" /\ Next /\ UNCHANGED <<way, commandVars>>
    BY <1>1, HStep, PUnchanged DEF EitherWay
  <1>2. CASE way = "commands" /\ P!Next /\ UNCHANGED <<way, vars>>
    BY <1>2, PStep, HUnchanged DEF EitherWay
  <1>3. CASE UNCHANGED <<way, vars, commandVars>>
    BY <1>3, PUnchanged, HUnchanged DEF EitherWay
  <1> QED
    BY <1>1, <1>2, <1>3 DEF TransferNext

\* The invariant of both ways.
LEMMA TransferInvariant == TransferSpec => []EitherWay
  <1>1. TransferInit => EitherWay
    BY PInit, HInit DEF TransferInit, EitherWay
  <1>2. EitherWay /\ [TransferNext]_<<way, vars, commandVars>> => EitherWay'
    BY TransferStep
  <1> QED
    BY <1>1, <1>2, PTL DEF TransferSpec

\* Whatever the order of the commands of any number of processes and devices'
\* directories, and wherever one is interrupted, a dataset has one active branch, and
\* a directory whose data was published is not active again; whatever the calls and
\* the receivers of the launchers do at the same time, and wherever one crashes, a
\* project is given away only when it is frozen and its package published, and a file
\* that was fetched without a failure is whole, however many fetched it.
THEOREM HandedOverOnce == TransferSpec => []Inv
  <1>1. EitherWay => Inv
    BY PImplies, HImplies DEF EitherWay, Inv
  <1> QED
    BY <1>1, TransferInvariant, PTL

\* An export that was interrupted, at whatever point, can be resumed with the request
\* and digest that began it as long as its repository is at the branch and HEAD of that
\* digest, or its package is published already and can be taken again then; a package
\* that is published for it is, wherever the repository is, the one of its digest.
THEOREM ExportsResume == TransferSpec => []InterruptedExportResumes
  <1>1. EitherWay => InterruptedExportResumes
    BY PImplies DEF EitherWay, InterruptedExportResumes
  <1> QED
    BY <1>1, TransferInvariant, PTL
=============================================================================
