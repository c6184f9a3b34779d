---------------------------- MODULE ExecutionHost ----------------------------
(***************************************************************************)
(* createExecutionHost (src/src/application/execution-host.ts): the one    *)
(* place of a web or embedded process that starts, cancels and closes.  It *)
(* keeps one slot for the operation in progress; an operation is a chain   *)
(* of awaits, and between any two of them the client may call again, the   *)
(* operation may be cancelled, the host closed or the process killed.      *)
(*                                                                         *)
(* A request names a durable run by its key (host-<id>, guided-<id>) and   *)
(* carries some content.  Forms: "legacy" (start), "guided" (startGuided), *)
(* "resume" (resumeGuided) and "preparation" (guidedPreparation.execute).  *)
(* A call that joins the active operation, and a call that is refused,     *)
(* change nothing and are not actions.                                     *)
(*                                                                         *)
(* Phases: "free"; legacy goes finding -> validating or creating ->        *)
(* created -> running; guided and resume persisting -> persisted ->        *)
(* running; preparation preparing; all end "over".                         *)
(***************************************************************************)
EXTENDS Naturals, FiniteSets

CONSTANTS
    Requests,     \* records [key, form, content]
    MaxOps,       \* bound: operations of one host
    MaxQueries,   \* bound: queries in flight
    MaxLives,     \* bound: hosts on the same database, one after the other
    NoRow

VARIABLES
    rows,       \* rows[k]: NoRow or [content, active]: the runs table
    told,       \* requests some client was answered with a run
    ops,        \* ops[i]: [request, phase, receipt, aborted, cancel]
    slot,       \* activeOperation: an index of ops, or 0
    failed,     \* internalFailure is set
    closing,    \* close() was called
    closer,     \* finishClose: "no", "slot", "queries" or "done"
    queries,    \* admittedQueries.size
    storeOpen,  \* options.close() has not run
    lives       \* hosts so far

durable == <<rows, told>>
volatile == <<ops, slot, failed, closing, closer, queries, storeOpen>>
vars == <<durable, volatile, lives>>

Keys == {r.key : r \in Requests}
Contents == {r.content : r \in Requests}
Ops == 1..MaxOps

FirstPhase(form) ==
    CASE form = "legacy" -> "finding"
      [] form \in {"guided", "resume"} -> "persisting"
      [] form = "preparation" -> "preparing"

Phases ==
    {"finding", "validating", "creating", "created", "persisting", "persisted",
     "running", "preparing", "over"}

\* The phases before the check that follows them.
Unchecked == {"finding", "validating", "persisting", "persisted"}

Op == [request : Requests, phase : Phases,
       receipt : {"pending", "resolved", "rejected"},
       aborted : Phases \cup {"no"},
       cancel : {"none", "waiting", "acked"}]

Free == [phase |-> "free"]

TypeOK ==
    /\ rows \in [Keys -> [content : Contents, active : BOOLEAN] \cup {NoRow}]
    /\ told \subseteq Requests
    /\ ops \in [Ops -> Op \cup {Free}]
    /\ slot \in Ops \cup {0}
    /\ failed \in BOOLEAN /\ closing \in BOOLEAN /\ storeOpen \in BOOLEAN
    /\ closer \in {"no", "slot", "queries", "done"}
    /\ queries \in 0..MaxQueries
    /\ lives \in 1..MaxLives

\* createExecutionHost returned: nothing is in progress.
NewHost ==
    /\ ops = [i \in Ops |-> Free]
    /\ slot = 0
    /\ failed = FALSE
    /\ closing = FALSE
    /\ closer = "no"
    /\ queries = 0
    /\ storeOpen = TRUE

Init ==
    /\ rows = [k \in Keys |-> NoRow]
    /\ told = {}
    /\ NewHost
    /\ lives = 1

Request(i) == ops[i].request
Row(i) == rows[Request(i).key]
Live(i) == ops[i].phase \notin {"free", "over"}

-----------------------------------------------------------------------------
(* Calls of the client *)

\* Mutant: any operation but one of the same kind may be started over.
CanBegin_OtherKind(form) ==
    /\ ~closing /\ ~failed
    /\ \A i \in {slot} \ {0} : Request(i).form # form

\* assertCanStart, and nothing is active
CanBegin(form) == ~closing /\ ~failed /\ slot = 0

Begin(r) ==
    /\ CanBegin(r.form)
    /\ \E i \in Ops :
         /\ ops[i] = Free
         /\ \A j \in Ops : j < i => ops[j] # Free
         /\ slot' = i
         /\ ops' = [ops EXCEPT ![i] =
                      [request |-> r, phase |-> FirstPhase(r.form),
                       receipt |-> "pending", aborted |-> "no", cancel |-> "none"]]
    /\ UNCHANGED <<durable, failed, closing, closer, queries, storeOpen, lives>>

\* The signal is aborted once; later aborts find it aborted.
Aborted(o) == [o EXCEPT !.aborted = IF @ = "no" THEN o.phase ELSE @]

\* cancel and cancelGuidedWaiting of the active run: abort, then wait for its
\* completion.  Of any other run they are a query or are refused.
Cancel(i) ==
    /\ ~closing /\ slot = i /\ Request(i).form # "preparation"
    /\ ops[i].cancel = "none"
    /\ ops' = [ops EXCEPT ![i] = [Aborted(@) EXCEPT !.cancel = "waiting"]]
    /\ UNCHANGED <<durable, slot, failed, closing, closer, queries, storeOpen, lives>>

\* The signal given to guidedPreparation.execute fires.
AbortPreparation(i) ==
    /\ slot = i /\ ops[i].phase = "preparing" /\ ops[i].aborted = "no"
    /\ ops' = [ops EXCEPT ![i] = Aborted(@)]
    /\ UNCHANGED <<durable, slot, failed, closing, closer, queries, storeOpen, lives>>

\* admitQuery: listRuns, getRunView, previews, cancelPersistedRun and so on
Query ==
    /\ ~closing /\ queries < MaxQueries
    /\ queries' = queries + 1
    /\ UNCHANGED <<durable, ops, slot, failed, closing, closer, storeOpen, lives>>

\* close and the synchronous part of finishClose: whatever is active is
\* aborted.  Calling it again returns the same promise.
Close ==
    /\ ~closing
    /\ closing' = TRUE
    /\ closer' = "slot"
    /\ ops' = IF slot = 0 THEN ops ELSE [ops EXCEPT ![slot] = Aborted(@)]
    /\ UNCHANGED <<durable, slot, failed, queries, storeOpen, lives>>

-----------------------------------------------------------------------------
(* The operation in progress *)

\* Mutant: only a cancellation is looked at, not the closing of the host.
Active_IgnoreAbort(i) == ~closing

\* assertExecutionActive
Active(i) == ~closing /\ ops[i].aborted = "no"

Goto(i, phase) ==
    /\ ops' = [ops EXCEPT ![i].phase = phase]
    /\ UNCHANGED slot

\* The finally clause: completion resolves and the slot is free again.
Finish(i, receipt) ==
    /\ ops' = [ops EXCEPT ![i].phase = "over", ![i].receipt = receipt]
    /\ slot' = IF slot = i THEN 0 ELSE slot

\* Mutant: only the receipt is rejected, the completion is forgotten.
Reject_NoFinally(i) ==
    /\ ops' = [ops EXCEPT ![i].receipt = "rejected"]
    /\ UNCHANGED <<slot, told, failed, closing, closer, queries, storeOpen, lives>>

\* A rejected receipt ends an operation that was not started yet.
Reject(i) ==
    /\ Finish(i, "rejected")
    /\ UNCHANGED <<told, failed, closing, closer, queries, storeOpen, lives>>

FoundNothing(i) ==
    /\ ops[i].phase = "finding" /\ Row(i) = NoRow /\ Active(i)
    /\ Goto(i, "creating")
    /\ UNCHANGED <<durable, failed, closing, closer, queries, storeOpen, lives>>

FoundRun(i) ==
    /\ ops[i].phase = "finding" /\ Row(i) # NoRow /\ Active(i)
    /\ Goto(i, "validating")
    /\ UNCHANGED <<durable, failed, closing, closer, queries, storeOpen, lives>>

\* Mutant: a persisted run with the same id is taken for the request's run.
SameRun_IdOnly(i) == Row(i) # NoRow

\* validateReplay, and the comparison of service.start
SameRun(i) == Row(i) # NoRow /\ Row(i).content = Request(i).content

\* The request was executed before: its run is the answer.
Replay(i) ==
    /\ ops[i].phase = "validating" /\ Active(i) /\ SameRun(i)
    /\ Finish(i, "resolved")
    /\ told' = told \cup {Request(i)}
    /\ UNCHANGED <<rows, failed, closing, closer, queries, storeOpen, lives>>

\* A check fails, the replay conflicts, or the store does.
RefuseEarly(i) ==
    /\ ops[i].phase \in {"finding", "validating", "persisting"}
    /\ Reject(i)
    /\ UNCHANGED rows

\* runWorkflow inserted the run.
CreateRun(i) ==
    /\ ops[i].phase = "creating" /\ Row(i) = NoRow
    /\ rows' = [rows EXCEPT ![Request(i).key] =
                  [content |-> Request(i).content, active |-> TRUE]]
    /\ Goto(i, "created")
    /\ UNCHANGED <<told, failed, closing, closer, queries, storeOpen, lives>>

\* runWorkflow threw before onRunStarted: no run yet, or one it interrupted,
\* or one it could not interrupt.
CreateFails(i) ==
    /\ ops[i].phase \in {"creating", "created"}
    /\ Reject(i)
    /\ \/ UNCHANGED rows
       \/ /\ ops[i].phase = "created"
          /\ rows' = [rows EXCEPT ![Request(i).key].active = FALSE]

\* onRunStarted
Started(i) ==
    /\ ops[i].phase = "created"
    /\ ops' = [ops EXCEPT ![i].phase = "running", ![i].receipt = "resolved"]
    /\ told' = told \cup {Request(i)}
    /\ UNCHANGED <<rows, slot, failed, closing, closer, queries, storeOpen, lives>>

\* service.start commits a new execution or finds the one it made before;
\* service.resume takes a waiting one up again.
Persist(i) ==
    /\ ops[i].phase = "persisting"
    /\ \/ /\ Request(i).form = "guided" /\ Row(i) = NoRow
          /\ rows' = [rows EXCEPT ![Request(i).key] =
                        [content |-> Request(i).content, active |-> TRUE]]
       \/ /\ Request(i).form = "guided" /\ SameRun(i)
          /\ UNCHANGED rows
       \/ /\ Request(i).form = "resume" /\ Row(i) # NoRow /\ ~Row(i).active
          /\ rows' = [rows EXCEPT ![Request(i).key].active = TRUE]
    /\ Goto(i, "persisted")
    /\ UNCHANGED <<told, failed, closing, closer, queries, storeOpen, lives>>

Admit(i) ==
    /\ ops[i].phase = "persisted" /\ Active(i)
    /\ ops' = [ops EXCEPT ![i].phase = "running", ![i].receipt = "resolved"]
    /\ told' = told \cup {Request(i)}
    /\ UNCHANGED <<rows, slot, failed, closing, closer, queries, storeOpen, lives>>

\* Closed or cancelled while service.start was committing: the caller is
\* refused although the execution is on record.
RefusePersisted(i) ==
    /\ ops[i].phase = "persisted" /\ ~Active(i)
    /\ Reject(i)
    /\ UNCHANGED rows

\* runWorkflow or the guided runner returned; a guided run may be waiting.
EndRun(i) ==
    /\ ops[i].phase = "running"
    /\ Finish(i, ops[i].receipt)
    /\ rows' = [rows EXCEPT ![Request(i).key].active = FALSE]
    /\ UNCHANGED <<told, failed, closing, closer, queries, storeOpen, lives>>

\* It threw after its receipt was given: the host takes no more work.
BreakRun(i) ==
    /\ ops[i].phase = "running"
    /\ Finish(i, ops[i].receipt)
    /\ failed' = TRUE
    /\ \/ UNCHANGED rows
       \/ rows' = [rows EXCEPT ![Request(i).key].active = FALSE]
    /\ UNCHANGED <<told, closing, closer, queries, storeOpen, lives>>

EndPreparation(i) ==
    /\ ops[i].phase = "preparing"
    /\ \E receipt \in {"resolved", "rejected"} : Finish(i, receipt)
    /\ UNCHANGED <<durable, failed, closing, closer, queries, storeOpen, lives>>

\* completion.then(...): the promise of cancel resolves.
AckCancel(i) ==
    /\ ops[i].phase = "over" /\ ops[i].cancel = "waiting"
    /\ ops' = [ops EXCEPT ![i].cancel = "acked"]
    /\ UNCHANGED <<durable, slot, failed, closing, closer, queries, storeOpen, lives>>

Operate(i) ==
    \/ FoundNothing(i) \/ FoundRun(i) \/ Replay(i) \/ RefuseEarly(i)
    \/ CreateRun(i) \/ CreateFails(i) \/ Started(i)
    \/ Persist(i) \/ Admit(i) \/ RefusePersisted(i)
    \/ EndRun(i) \/ BreakRun(i) \/ EndPreparation(i) \/ AckCancel(i)

-----------------------------------------------------------------------------
(* Queries, closing and restarting *)

QueryEnds ==
    /\ queries > 0
    /\ queries' = queries - 1
    /\ UNCHANGED <<durable, ops, slot, failed, closing, closer, storeOpen, lives>>

\* finishClose has awaited the completion of what was active.
CloseSlot ==
    /\ closer = "slot" /\ \A i \in Ops : ~Live(i)
    /\ closer' = "queries"
    /\ UNCHANGED <<durable, ops, slot, failed, closing, queries, storeOpen, lives>>

\* Mutant: the queries already admitted are not awaited.
CloseStore_NoWait ==
    /\ closer = "queries"
    /\ closer' = "done"
    /\ storeOpen' = FALSE
    /\ UNCHANGED <<durable, ops, slot, failed, closing, queries, lives>>

\* The admitted queries have settled: options.close() runs, close() settles.
CloseStore ==
    /\ closer = "queries" /\ queries = 0
    /\ closer' = "done"
    /\ storeOpen' = FALSE
    /\ UNCHANGED <<durable, ops, slot, failed, closing, queries, lives>>

\* The process ends, in good order or not, and another host opens the store.
Restart ==
    /\ lives < MaxLives
    /\ lives' = lives + 1
    /\ ops' = [i \in Ops |-> Free]
    /\ slot' = 0
    /\ failed' = FALSE
    /\ closing' = FALSE
    /\ closer' = "no"
    /\ queries' = 0
    /\ storeOpen' = TRUE
    /\ UNCHANGED durable

Client ==
    \/ \E r \in Requests : Begin(r)
    \/ \E i \in Ops : Cancel(i) \/ AbortPreparation(i)
    \/ Query \/ Close \/ Restart

Closing == CloseSlot \/ CloseStore

Next == Client \/ QueryEnds \/ Closing \/ \E i \in Ops : Operate(i)

\* Operations, queries and close run on promises that settle: drivers have
\* timeouts and SQLite is local.  Clients owe nothing.
Fairness ==
    /\ \A i \in Ops : WF_vars(Operate(i))
    /\ WF_vars(QueryEnds)
    /\ WF_vars(Closing)

Spec == Init /\ [][Next]_vars
FairSpec == Spec /\ Fairness

-----------------------------------------------------------------------------
(* Properties *)

\* Whatever the kinds of operation and the calls that overlap, at most one is
\* in progress, it is the one that cancel and close know of, and the host is
\* busy for no other reason.
OneOperation == \A i \in Ops : Live(i) <=> slot = i

\* The database is closed only after the last operation and the last admitted
\* query have settled: nothing ever uses a closed store.
StoreClosedLast == ~storeOpen => queries = 0 /\ \A i \in Ops : ~Live(i)

\* A client that was given a run finds that run, with what it asked for, in
\* the database of this host and of every later one: requests are idempotent
\* and one request id is never answered with the run of another content.
AnswerIsDurable ==
    \A r \in told :
        /\ rows[r.key] # NoRow
        /\ r.form = "resume" \/ rows[r.key].content = r.content

\* A start that was cancelled, or overtaken by close, before the last check is
\* refused, not answered with a run afterwards; and when cancel returns, the
\* operation it was for no longer runs.
CancelHonoured ==
    \A i \in Ops :
        /\ (Live(i) \/ ops[i].phase = "over") /\ ops[i].aborted \in Unchecked
             => ops[i].receipt # "resolved"
        /\ ops[i] # Free /\ ops[i].cancel = "acked" => ~Live(i)

\* Every operation settles, and with it its receipt and the cancels that wait,
\* and close() settles whatever was in progress when it was called.
EverythingSettles ==
    /\ \A i \in Ops : Live(i) ~> ~Live(i)
    /\ closing ~> (closer = "done" \/ ~closing)

\* States are well formed, and the four kinds of operation share one slot:
\* never are two of them in progress.
Inv == TypeOK /\ OneOperation
=============================================================================
