----------------------------- MODULE Migrations ------------------------------
(* The schema of the store is brought up to date when it is opened: one       *)
(* transaction of statements, foreign keys on, a copy of the file before the  *)
(* oldest schema is rebuilt, and a process that may die at any statement       *)
(* (storage/migrations).                                                      *)
EXTENDS Naturals, Sequences, FiniteSets

CONSTANTS Current,     \* currentSchemaVersion
          Versions,    \* versions of the files that are opened; 0 is an empty file
          MaxCrashes   \* bound

VARIABLES origin,      \* the file as it was
          disk,        \* what is committed
          work, todo,  \* the open transaction and the statements left of it
          backups, phase, crashes

migrationVars == <<origin, disk, work, todo, backups, phase, crashes>>

\* A table is named by what it holds and which copy of it it is.
T(name) == <<name, "live">>
Old(name) == <<name, "legacy">>
Saved(name) == <<name, "backup">>

Ledger == <<"runs", "step_runs", "step_attempts", "artifacts", "normalized_events">>
Prepared == <<"preparation_drafts", "preparation_proposals", "preparation_messages",
              "preparation_owners", "preparation_approvals">>
Names(list) == {list[i] : i \in DOMAIN list}

Ref(role, name, onDelete) == [role |-> role, table |-> T(name), onDelete |-> onDelete]
\* What the rows of a table refer to, and what deleting that does.
References(name) ==
    CASE name \in {"step_runs", "artifacts", "normalized_events", "review_threads"} ->
           {Ref("run", "runs", "cascade")}
      [] name = "step_attempts" -> {Ref("step", "step_runs", "cascade")}
      [] name = "review_decisions" -> {Ref("thread", "review_threads", "cascade")}
      [] name = "preparation_drafts" -> {Ref("run", "runs", "null")}
      [] name = "preparation_approvals" -> {Ref("draft", "preparation_drafts", "cascade"),
                                            Ref("proposal", "preparation_proposals", "restrict"),
                                            Ref("run", "runs", "cascade")}
      [] name \in {"preparation_proposals", "preparation_messages", "preparation_owners",
                   "preparation_syntheses"} -> {Ref("draft", "preparation_drafts", "cascade")}
      [] OTHER -> {}
Indexed == {"artifacts", "normalized_events", "review_decisions", "preparation_drafts",
            "preparation_messages", "preparation_proposals"}

\* The CHECK constraints that a migration widens: a run that waits, a third workflow.
Statuses == {"completed", "failed", "interrupted"}
Workflows == {"plan-build", "plan-build-qa-interactive"}
Allowed(name, version) ==
    CASE name \in {"runs", "step_runs", "step_attempts"} ->
           IF version < 2 THEN Statuses ELSE Statuses \cup {"waiting"}
      [] name = "preparation_drafts" ->
           IF version < 11 THEN Workflows ELSE Workflows \cup {"plan-build-qa"}
      [] OTHER -> {"any"}

------------------------------------------------------------------------------
\* The statements, on a database [tables, indexes, sequence, version, ok].

Fail(db) == [db EXCEPT !.ok = FALSE]
Exists(db, t) == t \in DOMAIN db.tables
RowsOf(db, t) == IF Exists(db, t) THEN db.tables[t].rows ELSE {}
Ids(db, t) == {row.id : row \in RowsOf(db, t)}

\* Renaming a table takes its indexes and the references to it along.
Rename(db, from, to) ==
    IF ~Exists(db, from) THEN db
    ELSE LET Follow(t) == IF t = from THEN to ELSE t
             Moved(table) == [table EXCEPT !.refs = {[r EXCEPT !.table = Follow(r.table)] : r \in table.refs}]
         IN [db EXCEPT !.tables = [t \in {Follow(u) : u \in DOMAIN db.tables} |->
                                      Moved(db.tables[IF t = to THEN from ELSE t])],
                       !.indexes = [i \in DOMAIN db.indexes |-> Follow(db.indexes[i])]]

Referring(db, t) == {u \in DOMAIN db.tables : \E r \in db.tables[u].refs : r.table = t}
Points(db, row, u, t) == \E r \in db.tables[u].refs : r.table = t /\ row.to[r.role] \in Ids(db, t)
\* Foreign keys are on, within a transaction they cannot be switched off: dropping a
\* table deletes its rows, and with them what refers to them.
Drop(db, t) ==
    IF ~Exists(db, t) THEN db
    ELSE IF \E u \in Referring(db, t) : \E r \in db.tables[u].refs, row \in RowsOf(db, u) :
              r.table = t /\ r.onDelete = "restrict" /\ row.to[r.role] \in Ids(db, t)
    THEN Fail(db)
    ELSE [db EXCEPT !.tables = [u \in DOMAIN db.tables \ {t} |->
                                  IF u \in Referring(db, t)
                                  THEN [db.tables[u] EXCEPT !.rows = {row \in @ : ~Points(db, row, u, t)}]
                                  ELSE db.tables[u]],
                    !.indexes = [i \in {j \in DOMAIN db.indexes : db.indexes[j] # t} |-> db.indexes[i]]]

With(f, key, value) == [k \in DOMAIN f \cup {key} |-> IF k = key THEN value ELSE f[k]]
Create(db, name, version) ==
    [db EXCEPT !.tables = With(@, T(name), [rows |-> {}, refs |-> References(name),
                                            allowed |-> Allowed(name, version)])]
CreateIfNotExists(db, name, version) == IF Exists(db, T(name)) THEN db ELSE Create(db, name, version)

\* A row is inserted only when its value is allowed and what it refers to is there.
Fits(db, t, row) ==
    /\ row.value \in db.tables[t].allowed
    /\ \A r \in db.tables[t].refs : row.to[r.role] # 0 => row.to[r.role] \in Ids(db, r.table)
Insert(db, t, rows) ==
    IF \A row \in rows : Fits(db, t, row) THEN [db EXCEPT !.tables[t].rows = @ \cup rows] ELSE Fail(db)

------------------------------------------------------------------------------
\* The migrations that change tables with rows; the others create tables and columns.

Do(op, name) == [op |-> op, name |-> name]
Each(op, list) == [i \in DOMAIN list |-> Do(op, list[i])]
Backward(list) == [i \in DOMAIN list |-> list[Len(list) + 1 - i]]
Record(version) == [op |-> "record", name |-> version]

\* Mutant: the indexes stay, and go with the tables that are renamed.
Rebuild_Indexes == Each("rename", Backward(Ledger)) \o Each("table", Ledger)
                      \o Each("copy", Ledger) \o Each("dropOld", Backward(Ledger))
\* 002: the tables that were made without "waiting" are made again.
Rebuild == <<Do("dropIndex", "artifacts"), Do("dropIndex", "normalized_events")>>
              \o Each("rename", Backward(Ledger)) \o Each("table", Ledger)
              \o Each("copy", Ledger) \o Each("dropOld", Backward(Ledger))

Adjudication == <<Do("rename", "review_decisions"), Do("table", "review_decisions"),
                  Do("copy", "review_decisions"), Do("dropOld", "review_decisions"),
                  Do("index", "review_decisions")>>

\* Mutant: numbers of approvals that were deleted are given again.
SequenceBack_Forgotten == <<>>
SequenceBack == <<Do("restoreSequence", "preparation_approvals")>>
\* 011: everything of the preparations is copied aside, made again and copied back.
Experience ==
    Each("save", Prepared) \o <<Do("saveSequence", "preparation_approvals")>>
      \o Each("rename", Backward(Prepared)) \o Each("dropOld", Backward(Prepared))
      \o Each("newTable", Append(Prepared, "preparation_syntheses"))
      \o Each("restore", Prepared) \o SequenceBack
      \o <<Do("synthesize", "preparation_syntheses")>>
      \o Each("newIndex", <<"preparation_drafts", "preparation_messages", "preparation_proposals">>)
      \o Each("check", Prepared) \o Each("dropSaved", Prepared)

Legacy(db) == db.version < 2 /\ Exists(db, T("runs"))
\* requiresLegacyRebuild
NeedsRebuild(db) ==
    \/ \E name \in {"runs", "step_runs", "step_attempts"} :
         ~Exists(db, T(name)) \/ "waiting" \notin db.tables[T(name)].allowed
    \/ ~Exists(db, T("normalized_events"))

Statements(db, version) ==
    CASE version = 1 -> IF Exists(db, T("runs")) THEN <<>> ELSE Each("table", SubSeq(Ledger, 1, 4))
      [] version = 2 -> IF Legacy(db) /\ NeedsRebuild(db) THEN Rebuild ELSE Each("table", Ledger)
      [] version = 8 -> Each("table", <<"review_threads", "review_decisions">>)
      [] version = 9 -> Adjudication
      [] version = 10 -> Each("table", Prepared)
      [] version = 11 -> Experience
      [] OTHER -> <<>>

\* What 011 makes of a draft: its proposal is valid when it is of the draft's revision.
Draft(db, draft) ==
    LET valid == {p.id : p \in {q \in RowsOf(db, Saved("preparation_proposals")) :
                                  q.to["draft"] = draft.id /\ q.revision = draft.revision}}
    IN [draft EXCEPT !.valid = IF valid = {} THEN 0 ELSE CHOOSE id \in valid : TRUE]
\* Mutant: drafts without such a proposal are left behind.
Drafts_Joined(db) == {d \in {Draft(db, r) : r \in RowsOf(db, Saved("preparation_drafts"))} : d.valid # 0}
Drafts(db) == {Draft(db, r) : r \in RowsOf(db, Saved("preparation_drafts"))}
Restored(db, name) == IF name = "preparation_drafts" THEN Drafts(db) ELSE RowsOf(db, Saved(name))
Synthesis(draft) == [id |-> draft.id, value |-> "any", revision |-> 1, valid |-> 0,
                     to |-> [draft.to EXCEPT !["draft"] = draft.id]]

\* CREATE INDEX stops when there is one of that name, unless it says IF NOT EXISTS.
Index(db, name) == [db EXCEPT !.indexes = With(@, name, T(name))]
Apply(db, s) ==
    CASE s.op = "record" -> [db EXCEPT !.version = s.name]
      [] s.op = "table" -> LET made == CreateIfNotExists(db, s.name, db.version + 1)
                           IN IF s.name \in Indexed \ DOMAIN db.indexes THEN Index(made, s.name) ELSE made
      [] s.op = "newTable" -> IF Exists(db, T(s.name)) THEN Fail(db) ELSE Create(db, s.name, 11)
      [] s.op = "index" -> IF s.name \in DOMAIN db.indexes THEN db ELSE Index(db, s.name)
      [] s.op = "newIndex" -> IF s.name \in DOMAIN db.indexes THEN Fail(db) ELSE Index(db, s.name)
      [] s.op = "dropIndex" -> [db EXCEPT !.indexes = [i \in DOMAIN db.indexes \ {s.name} |-> db.indexes[i]]]
      [] s.op = "rename" -> Rename(db, T(s.name), Old(s.name))
      [] s.op = "dropOld" -> Drop(db, Old(s.name))
      [] s.op = "dropSaved" -> Drop(db, Saved(s.name))
      [] s.op = "copy" -> Insert(db, T(s.name), RowsOf(db, Old(s.name)))
      [] s.op = "save" -> [db EXCEPT !.tables = With(@, Saved(s.name), [db.tables[T(s.name)] EXCEPT !.refs = {}])]
      [] s.op = "restore" ->
           LET rows == Restored(db, s.name)
               filled == Insert(db, T(s.name), rows)
           IN IF s.name # "preparation_approvals" THEN filled
              ELSE [filled EXCEPT !.sequence = IF rows = {} THEN 0
                                               ELSE CHOOSE n \in {r.id : r \in rows} : \A r \in rows : r.id <= n]
      [] s.op = "saveSequence" -> [db EXCEPT !.savedSequence = db.sequence]
      [] s.op = "restoreSequence" -> [db EXCEPT !.sequence = db.savedSequence]
      [] s.op = "synthesize" -> Insert(db, T(s.name), {Synthesis(d) : d \in RowsOf(db, T("preparation_drafts"))})
      [] s.op = "check" -> IF Cardinality(RowsOf(db, T(s.name))) = Cardinality(RowsOf(db, Saved(s.name)))
                           THEN db ELSE Fail(db)

------------------------------------------------------------------------------
NoDb == [tables |-> <<>>, indexes |-> <<>>, sequence |-> 0, savedSequence |-> 0, version |-> 0, ok |-> TRUE]

Row(id, value, role, target) ==
    [id |-> id, value |-> value, revision |-> id, valid |-> 0,
     to |-> [r \in {"run", "step", "thread", "draft", "proposal"} |-> IF r = role THEN target ELSE 0]]
\* Rows a file may hold: every table has some, or none.
SampleRows(name) ==
    CASE name = "runs" -> {Row(1, "completed", "none", 0), Row(2, "failed", "none", 0)}
      [] name \in {"step_runs"} -> {Row(1, "completed", "run", 1)}
      [] name = "step_attempts" -> {Row(1, "completed", "step", 1)}
      [] name = "review_decisions" -> {Row(1, "any", "thread", 1)}
      [] name = "preparation_drafts" -> {Row(1, "plan-build", "run", 1), Row(2, "plan-build", "none", 0)}
      [] name = "preparation_approvals" ->
           {[Row(1, "any", "run", 1) EXCEPT !.to["draft"] = 1, !.to["proposal"] = 1]}
      [] name \in {"preparation_messages", "preparation_proposals", "preparation_owners"} ->
           {Row(1, "any", "draft", 1)}
      [] OTHER -> {Row(1, "any", "run", 1)}
\* A statement that fails is the last one.
Run(db, list) ==
    LET after[n \in 0..Len(list)] ==
          IF n = 0 THEN db
          ELSE LET before == after[n - 1] IN IF before.ok THEN Apply(before, list[n]) ELSE before
    IN  after[Len(list)]
Upto[version \in Nat] ==
    IF version = 0 THEN NoDb
    ELSE LET before == Upto[version - 1]
         IN  IF before.ok THEN Run(before, Append(Statements(before, version), Record(version)))
             ELSE before
\* A file of a version, with rows in its tables from the first of them on.
File(version, full) ==
    LET made == Upto[version]
    IN [made EXCEPT !.tables = [t \in DOMAIN made.tables |->
                                  [made.tables[t] EXCEPT !.rows = IF full /\ t # T("preparation_syntheses")
                                                                  THEN SampleRows(t[1]) ELSE {}]],
                    !.sequence = IF full THEN 2 ELSE 0]
\* Before the versions were recorded there were tables with and without events.
Unrecorded(file) == [file EXCEPT !.version = 0]

MigrationsInit ==
    /\ \E version \in Versions, full \in BOOLEAN :
         origin \in IF version > Current THEN {[File(Current, full) EXCEPT !.version = version]}
                    ELSE IF version = 1 THEN {File(1, full), Unrecorded(File(1, full))}
                    ELSE {File(version, full)}
    /\ disk = origin /\ work = NoDb /\ todo = <<>> /\ backups = {} /\ phase = "closed" /\ crashes = 0

\* applyMigrations: the copy, the lock, the statements of every version that is missing.
Open ==
    /\ phase = "closed"
    /\ backups' = IF Legacy(disk) /\ NeedsRebuild(disk) THEN backups \cup {disk} ELSE backups
    /\ work' = disk /\ todo' = <<>> /\ phase' = "migrating"
    /\ UNCHANGED <<origin, disk, crashes>>

NextVersion ==
    /\ phase = "migrating" /\ todo = <<>> /\ work.version < Current
    /\ todo' = Append(Statements(work, work.version + 1), Record(work.version + 1))
    /\ UNCHANGED <<origin, disk, work, backups, phase, crashes>>

Step ==
    /\ phase = "migrating" /\ todo # <<>>
    /\ LET result == Apply(work, Head(todo))
       IN IF result.ok
          THEN work' = result /\ todo' = Tail(todo) /\ UNCHANGED phase
          ELSE work' = NoDb /\ todo' = <<>> /\ phase' = "refused"
    /\ UNCHANGED <<origin, disk, backups, crashes>>

Commit ==
    /\ phase = "migrating" /\ todo = <<>> /\ work.version >= Current
    /\ phase' = IF work.version = Current THEN "ready" ELSE "refused"
    /\ disk' = IF work.version = Current THEN work ELSE disk
    /\ work' = NoDb
    /\ UNCHANGED <<origin, todo, backups, crashes>>

Crash ==
    /\ phase = "migrating" /\ crashes < MaxCrashes /\ crashes' = crashes + 1
    /\ phase' = "closed" /\ work' = NoDb /\ todo' = <<>>
    /\ UNCHANGED <<origin, disk, backups>>

MigrationsNext == Open \/ NextVersion \/ Step \/ Commit \/ Crash

------------------------------------------------------------------------------
\* Every row is there again, under its number, with what it refers to.
RowsKept == \A t \in DOMAIN origin.tables :
    {[r EXCEPT !.valid = 0] : r \in RowsOf(disk, t)} = RowsOf(origin, t)
\* No table is left over, none refers to one that is gone, and each has its index.
SchemaIsWhole ==
    /\ \A t \in DOMAIN disk.tables : t[2] = "live" /\ \A r \in disk.tables[t].refs : Exists(disk, r.table)
    /\ \A name \in Indexed : Exists(disk, T(name)) => name \in DOMAIN disk.indexes /\ disk.indexes[name] = T(name)
    /\ \A t \in DOMAIN disk.tables : \A row \in RowsOf(disk, t) : Fits(disk, t, row)
\* A draft goes on with the proposal of its revision, and has something agreed on.
DraftsGoOn ==
    /\ \A d \in RowsOf(disk, T("preparation_drafts")) :
         origin.version < 11 => (d.valid # 0 <=> \E p \in RowsOf(disk, T("preparation_proposals")) :
                                                   p.to["draft"] = d.id /\ p.revision = d.revision)
    /\ origin.version < 11 => Ids(disk, T("preparation_syntheses")) = Ids(disk, T("preparation_drafts"))

\* A file is the one it was or a whole one of the current version, which only a newer
\* one never becomes; the oldest has a copy by then; numbers of approvals are not
\* given twice.
MigrationsInv ==
    /\ disk = origin \/ (disk.version = Current /\ RowsKept /\ SchemaIsWhole /\ DraftsGoOn
                         /\ (origin.version >= 10 => disk.sequence = origin.sequence))
    /\ phase = "refused" => origin.version > Current
    /\ phase = "ready" /\ Legacy(origin) => origin \in backups
==============================================================================
