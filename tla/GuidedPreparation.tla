-------------------------- MODULE GuidedPreparation --------------------------
(***************************************************************************)
(* The conversation that leads to a task contract                          *)
(* (application/guided-preparation-operations.ts and its rows in           *)
(* storage/sqlite-run-store.ts) and the start of the execution             *)
(* (application/guided-execution-operations.ts, start).                    *)
(*                                                                         *)
(* A client sends a request with an id and the revisions it has read.  The *)
(* request is admitted (a row, "pending"), its operation is performed (the *)
(* planner, a search, a transaction on the contract), and the row is       *)
(* finished: three or more transactions with awaits between them.  The     *)
(* host has one slot for all of it (module ExecutionHost); recovering a    *)
(* request needs no slot.  When the process dies the slot is gone, the     *)
(* rows stay, and a client may send the same request again.                *)
(*                                                                         *)
(* A failed and a cancelled request differ in the word only: "failed".     *)
(***************************************************************************)
EXTENDS TaskContract, FiniteSetsExt

CONSTANTS
    Requests,      \* ids, 1..n, taken in order
    Clients,       \* which clients there may be: [asks, writes, revisions]
    MaxMessages,   \* GUIDED_PREPARATION_LIMITS.maxMessages
    MaxRepeats,    \* bound: performances after the first, of all requests
    MaxSequence    \* bound: messages and sources

AllKinds == {"reply", "search", "confirm-brief", "generate-plan", "generate-todo",
             "comment-plan", "approve-plan"}
AllWrites == {"revise-brief", "publish-plan", "comment", "approve", "publish-todo", "block", "resolve"}

\* asks[r]: what may be asked for under id r; writes: what others do to the
\* contract meanwhile, through application.taskContracts; revisions: a bound.
ASSUME ClientsAssumption ==
    \A c \in Clients :
        /\ \A r \in Requests : c.asks[r] \subseteq AllKinds
        /\ c.writes \subseteq AllWrites /\ c.revisions \in Nat
ASSUME BoundsAssumption ==
    /\ Requests \subseteq Nat \ {0}
    /\ MaxMessages \in Nat \ {0} /\ {MaxRepeats, MaxSequence} \subseteq Nat

VARIABLES
    clients,    \* the clients of this run, one of Clients
    prep,       \* the row of guided_preparations, or NoPreparation
    messages,   \* sequence numbers of the messages
    sources,    \* sequence numbers of the sources
    body,       \* body[r]: what the client sent under the id
    row,        \* row[r]: [status, owner]
    slot,       \* the operation of the host
    attempts,   \* attempts[r]: owner tokens made for it
    effects,    \* effects[r]: transactions of it on contract or sources (history)
    raced       \* the contract changed while an execution was started (history)

prepVars == <<prep, messages, sources, body, row, slot, attempts, effects, raced>>
taskVars == <<contractVars, prepVars, clients>>

NoPreparation == [revision |-> 0]
NoBody == [kind |-> "none"]
NoRow == [status |-> "none", owner |-> 0]
Idle == [work |-> "none"]

Prepared == prep # NoPreparation
Writers == {"generate-plan", "generate-todo", "comment-plan", "approve-plan", "confirm-brief"}

LastOf(S) == CHOOSE x \in S \cup {0} : \A y \in S : y <= x

TaskTypeOK ==
    /\ ContractTypeOK
    /\ Prepared =>
        /\ prep.revision \in Nat
        /\ prep.confirmed \in 0..prep.last
        /\ prep.active \in Requests \cup {0}
        /\ prep.synced \in 0..prep.last
    /\ \A r \in Requests :
        /\ row[r].status \in {"none", "pending", "completed", "failed", "interrupted"}
        /\ row[r].owner \in 0..attempts[r]
        /\ row[r] # NoRow => body[r].kind \in clients.asks[r]
    /\ messages \subseteq 1..MaxSequence /\ sources \subseteq 1..MaxSequence

TaskInit ==
    /\ ContractInit
    /\ clients \in Clients
    /\ prep = NoPreparation
    /\ messages = {} /\ sources = {}
    /\ body = [r \in Requests |-> NoBody]
    /\ row = [r \in Requests |-> NoRow]
    /\ slot = Idle
    /\ attempts = [r \in Requests |-> 0]
    /\ effects = [r \in Requests |-> 0]
    /\ raced = FALSE

Room == Created => contract.revision < clients.revisions

-----------------------------------------------------------------------------
(* Creating a task: two transactions of one request *)

Create ==
    /\ CreateTaskContract
    /\ UNCHANGED <<prepVars, clients>>

\* synced = 0: there is no session of the planner to continue.
CreatePreparation ==
    /\ Created /\ ~Executing /\ ~Prepared
    /\ prep' = [revision |-> 1, last |-> 0, confirmed |-> 0, active |-> 0, synced |-> 0]
    /\ UNCHANGED <<contractVars, messages, sources, body, row, slot, attempts, effects, raced, clients>>

-----------------------------------------------------------------------------
(* Admission *)

\* What a client fills in from what it has just read.  A contract that was
\* written by others before the request arrives is one that was written before
\* the operation is performed.
Body(kind) ==
    CASE kind = "confirm-brief" -> [kind |-> kind, preparation |-> prep.revision, through |-> prep.last]
      [] kind \in {"reply", "search"} -> [kind |-> kind]
      [] OTHER -> [kind |-> kind, revision |-> contract.revision, plan |-> contract.plan]

\* Mutant: the oldest message goes, confirmed or not.
Removable_Any == messages

\* Only messages that the brief covers may be compacted.
Removable == {s \in messages : s <= prep.confirmed}

\* pruneGuidedPreparationMessages makes room for one more, or throws.
MakeRoom ==
    IF Cardinality(messages) < MaxMessages THEN messages
    ELSE messages \ {CHOOSE s \in Removable : \A t \in Removable : s <= t}

HasRoom == Cardinality(messages) < MaxMessages \/ Removable # {}

\* Mutant: a message gets the number of messages there are, plus one.
NextSequence_Count == Cardinality(messages) + 1

NextSequence == prep.last + 1

Perform(r) == slot' = [work |-> "perform", request |-> r, owner |-> attempts'[r]]

\* beginGuidedPreparationRequest of a new id, at the preparation's revision.
AdmitRequest(r, kind) ==
    /\ slot = Idle /\ Prepared
    /\ row[r] = NoRow /\ \A q \in 1..(r - 1) : row[q] # NoRow
    /\ NextSequence <= MaxSequence
    /\ ~Executing
    /\ prep.active = 0
    /\ body' = [body EXCEPT ![r] = Body(kind)]
    /\ attempts' = [attempts EXCEPT ![r] = @ + 1]
    /\ row' = [row EXCEPT ![r] = [status |-> "pending", owner |-> attempts'[r]]]
    /\ \/ /\ kind = "reply"
          /\ HasRoom
          /\ messages' = MakeRoom \cup {NextSequence}
          /\ prep' = [prep EXCEPT !.revision = @ + 1, !.active = r, !.last = NextSequence]
       \/ /\ kind # "reply"
          /\ prep' = [prep EXCEPT !.revision = @ + 1, !.active = r]
          /\ UNCHANGED messages
    /\ Perform(r)
    /\ UNCHANGED <<contractVars, sources, effects, raced, clients>>

Repeats == MapThenSumSet(LAMBDA r : IF attempts[r] = 0 THEN 0 ELSE attempts[r] - 1, Requests)

\* The same request again, after the process that performed it died: the row is
\* found, still pending, and the operation is performed again.
AdmitAgain(r) ==
    /\ slot = Idle
    /\ row[r].status = "pending"
    /\ ~Executing
    /\ Repeats < MaxRepeats
    /\ attempts' = [attempts EXCEPT ![r] = @ + 1]
    /\ Perform(r)
    /\ UNCHANGED <<contractVars, prep, messages, sources, body, row, effects, raced, clients>>

-----------------------------------------------------------------------------
(* performOperation *)

InSlot(work) == slot.work = work
Doing(kind) == InSlot("perform") /\ body[slot.request].kind = kind

Applied == effects' = [effects EXCEPT ![slot.request] = @ + 1]

\* The operation has been done; finishing the request is the next transaction.
Done(ok) == slot' = [slot EXCEPT !.work = IF ok THEN "completed" ELSE "failed"]

OfContract(kind, transaction) ==
    /\ Doing(kind)
    /\ Room
    /\ transaction
    /\ Applied
    /\ Done(TRUE)
    /\ UNCHANGED <<prep, messages, sources, body, row, attempts, raced, clients>>

Sent == body[slot.request]

\* The planner answered, or a search found nothing: nothing to be saved yet.
Answered ==
    /\ InSlot("perform")
    /\ body[slot.request].kind \in {"reply", "search"}
    /\ Done(TRUE)
    /\ UNCHANGED <<contractVars, prep, messages, sources, body, row, attempts, effects, raced, clients>>

\* Anything may throw: the planner, a stale revision, an abort.
OperationThrows ==
    /\ InSlot("perform")
    /\ Done(FALSE)
    /\ UNCHANGED <<contractVars, prep, messages, sources, body, row, attempts, effects, raced, clients>>

\* saveSources reads the last sequence number in one await ...
FoundSources ==
    /\ Doing("search")
    /\ slot' = [work |-> "saving", request |-> slot.request, owner |-> slot.owner,
                sequence |-> prep.last + 1]
    /\ UNCHANGED <<contractVars, prep, messages, sources, body, row, attempts, effects, raced, clients>>

\* ... and saves in another.  It is refused at the limits, and for a number that
\* was taken meanwhile, which SequencesUnique shows does not happen.
SaveSources ==
    /\ InSlot("saving")
    /\ slot.sequence <= MaxSequence
    /\ \/ /\ ~Executing /\ slot.sequence \notin messages \cup sources
          /\ sources' = sources \cup {slot.sequence}
          /\ prep' = [prep EXCEPT !.revision = @ + 1, !.last = LastOf({@, slot.sequence})]
          /\ Applied
          /\ slot' = [work |-> "completed", request |-> slot.request, owner |-> slot.owner]
       \/ /\ slot' = [work |-> "failed", request |-> slot.request, owner |-> slot.owner]
          /\ UNCHANGED <<sources, prep, effects>>
    /\ UNCHANGED <<contractVars, messages, body, row, attempts, raced, clients>>

\* runPlanner: the brief covers the whole conversation.
PlannerMayPlan == prep.confirmed >= prep.last

\* The planner is asked about the state at the moment; it answers later.
AskForPlan ==
    /\ Doing("generate-plan")
    /\ PlannerMayPlan
    /\ slot' = [work |-> "planned", request |-> slot.request, owner |-> slot.owner,
                brief |-> contract.brief]
    /\ UNCHANGED <<contractVars, prep, messages, sources, body, row, attempts, effects, raced, clients>>

PublishAnswer ==
    /\ InSlot("planned")
    /\ Room
    /\ PublishPlan(Sent.revision, slot.brief)
    /\ Applied
    /\ slot' = [work |-> "completed", request |-> slot.request, owner |-> slot.owner]
    /\ UNCHANGED <<prep, messages, sources, body, row, attempts, raced, clients>>

AnswerRefused ==
    /\ InSlot("planned")
    /\ slot' = [work |-> "failed", request |-> slot.request, owner |-> slot.owner]
    /\ UNCHANGED <<contractVars, prep, messages, sources, body, row, attempts, effects, raced, clients>>

\* confirmGuidedBrief on behalf of a request: the revision after its admission.
ConfirmGuidedBrief ==
    /\ Doing("confirm-brief")
    /\ Room
    /\ prep.revision = Sent.preparation + 1
    /\ prep.active \in {0, slot.request}
    /\ Sent.through <= prep.last
    /\ ConfirmBrief
    /\ prep' = [prep EXCEPT !.confirmed = Sent.through,
                            !.revision = IF prep.active = slot.request THEN @ ELSE @ + 1]
    /\ Applied
    /\ Done(TRUE)
    /\ UNCHANGED <<messages, sources, body, row, attempts, raced, clients>>

Operation ==
    \/ Answered \/ OperationThrows \/ FoundSources \/ SaveSources
    \/ AskForPlan \/ PublishAnswer \/ AnswerRefused \/ ConfirmGuidedBrief
    \/ \E ok \in BOOLEAN : OfContract("generate-todo", PublishTodo(Sent.revision, contract.plan, ok))
    \/ OfContract("comment-plan", CommentPlan(Sent.revision, Sent.plan))
    \/ OfContract("approve-plan", ApprovePlan(Sent.revision, Sent.plan))

-----------------------------------------------------------------------------
(* finishGuidedPreparationRequest *)

\* Mutant: any performer may finish the request.
MayFinish_Any(r) == prep.active = r

\* Only the performance that was admitted finishes the request.
MayFinish(r) ==
    /\ row[r].status = "pending"
    /\ prep.active = r
    /\ row[r].owner = slot.owner

\* Mutant: the planner's session is continued after a failure.
SessionAfter_Kept(kind, ok, answered, last) == IF ok /\ answered THEN last ELSE prep.synced

\* The planner's session goes on only from an answer that was stored; other
\* successful operations leave it, everything else ends it.
SessionAfter(kind, ok, answered, last) ==
    IF ok /\ answered THEN last
    ELSE IF ok /\ kind # "reply" THEN prep.synced
    ELSE 0

\* answered: the planner gave a session with its reply.
Finish(answered) ==
    /\ slot.work \in {"completed", "failed"}
    /\ LET r    == slot.request
           kind == body[r].kind
           ok   == slot.work = "completed"
           says == ok /\ kind = "reply"
           last == IF says THEN NextSequence ELSE prep.last
       IN  /\ MayFinish(r)
           /\ answered => kind = "reply"
           /\ says => HasRoom /\ NextSequence <= MaxSequence
           /\ row' = [row EXCEPT ![r].status = slot.work]
           /\ messages' = IF says THEN MakeRoom \cup {NextSequence} ELSE messages
           /\ prep' = [prep EXCEPT !.revision = @ + 1, !.active = 0, !.last = last,
                                   !.synced = SessionAfter(kind, ok, answered, last)]
    /\ slot' = Idle
    /\ UNCHANGED <<contractVars, sources, body, attempts, effects, raced, clients>>

\* A conversation that has no room for the answer: the request fails instead.
FinishFails ==
    /\ InSlot("completed")
    /\ MayFinish(slot.request) /\ body[slot.request].kind = "reply" /\ ~HasRoom
    /\ slot' = [slot EXCEPT !.work = "failed"]
    /\ UNCHANGED <<contractVars, prep, messages, sources, body, row, attempts, effects, raced, clients>>

\* The row was finished or recovered meanwhile, or belongs to another performance.
FinishRefused ==
    /\ slot.work \in {"completed", "failed"}
    /\ ~MayFinish(slot.request)
    /\ slot' = Idle
    /\ UNCHANGED <<contractVars, prep, messages, sources, body, row, attempts, effects, raced, clients>>

-----------------------------------------------------------------------------
(* Recovery, crashes, other writers, and the start of the execution *)

\* recoverGuidedPreparationRequest: by hand, for whatever request is active.
Recover(r) ==
    /\ Prepared /\ prep.active = r
    /\ row[r].status = "pending"
    /\ row' = [row EXCEPT ![r] = [status |-> "interrupted", owner |-> 0]]
    /\ prep' = [prep EXCEPT !.revision = @ + 1, !.active = 0, !.synced = 0]
    /\ UNCHANGED <<contractVars, messages, sources, body, slot, attempts, effects, raced, clients>>

ProcessDies ==
    /\ slot # Idle
    /\ slot' = Idle
    /\ UNCHANGED <<contractVars, prep, messages, sources, body, row, attempts, effects, raced, clients>>

\* application.taskContracts, by whoever has read the current revision.
Contract ==
    /\ Created /\ Room
    /\ \/ "revise-brief" \in clients.writes /\ ReviseBrief(contract.revision)
       \/ "publish-plan" \in clients.writes /\ PublishPlan(contract.revision, contract.brief)
       \/ "comment" \in clients.writes /\ CommentPlan(contract.revision, contract.plan)
       \/ "approve" \in clients.writes /\ ApprovePlan(contract.revision, contract.plan)
       \/ "publish-todo" \in clients.writes
            /\ \E ok \in BOOLEAN : PublishTodo(contract.revision, contract.plan, ok)
       \/ "block" \in clients.writes /\ BlockContract(contract.revision)
       \/ "resolve" \in clients.writes /\ ResolveBlock(contract.revision)
    /\ raced' = (raced \/ InSlot("starting"))
    /\ UNCHANGED <<prep, messages, sources, body, row, slot, attempts, effects, clients>>

\* Mutant: an execution starts while the preparation is unconfirmed or busy.
MayStart_Unconfirmed == Created /\ Readiness = "ready"

\* previewStart
MayStart ==
    /\ Created /\ Readiness = "ready"
    /\ Prepared => prep.active = 0 /\ prep.confirmed >= prep.last

\* start: the documents are read and checked, artifacts are written ...
StartExecution ==
    /\ slot = Idle
    /\ ~Executing
    /\ MayStart
    /\ slot' = [work |-> "starting",
                documents |-> [brief |-> contract.brief, plan |-> contract.plan, todo |-> contract.todo]]
    /\ UNCHANGED <<contractVars, prep, messages, sources, body, row, attempts, effects, raced, clients>>

\* ... and the execution is created from what was read.
CreateGuidedExecution ==
    /\ InSlot("starting")
    /\ LinkExecution(slot.documents)
    /\ slot' = Idle
    /\ UNCHANGED <<prep, messages, sources, body, row, attempts, effects, raced, clients>>

TaskNext ==
    \/ Create \/ CreatePreparation
    \/ \E r \in Requests :
         \/ \E kind \in clients.asks[r] : AdmitRequest(r, kind)
         \/ AdmitAgain(r) \/ Recover(r)
    \/ Operation
    \/ \E answered \in BOOLEAN : Finish(answered)
    \/ FinishFails \/ FinishRefused
    \/ ProcessDies \/ Contract \/ StartExecution \/ CreateGuidedExecution

TaskSpec == TaskInit /\ [][TaskNext]_taskVars

-----------------------------------------------------------------------------
(* Properties *)

\* The outcome on record is true, although the change and the record are two
\* transactions and the process may die between them: a completed request did
\* what it says, a failed one did nothing, and however often a request is sent
\* and performed, it changes the contract at most once.  (A brief is confirmed by
\* the revision of the preparation, which a repetition finds unchanged: that
\* change may be made again.)
OutcomeIsTrue ==
    \A r \in Requests :
        /\ row[r].status = "completed" /\ body[r].kind \in Writers => effects[r] > 0
        /\ row[r].status = "failed" => effects[r] = 0
        /\ body[r].kind \in Writers \ {"confirm-brief"} => effects[r] <= 1

\* Messages and sources share one numbering, although a search reads the last
\* number long before it saves, and messages are compacted.
SequencesUnique ==
    /\ messages \cap sources = {}
    /\ Prepared => messages \cup sources \subseteq 1..prep.last

\* States are well formed, and no number is given to two entries.
TaskInv == TaskTypeOK /\ SequencesUnique

\* A message is compacted only when a confirmed brief covers it, so the
\* planner never plans without having been told what was said.
NothingUnreadCompacted ==
    [][Prepared => \A s \in messages : s \notin messages' => s <= prep.confirmed]_taskVars

\* While nothing is in progress, a session of the planner that the next reply
\* would continue knows every message of the conversation.
SessionKnowsConversation ==
    Prepared /\ prep.synced # 0 /\ prep.active = 0 => \A s \in messages : s <= prep.synced

\* What is executed is what was agreed on, for good, and nothing was said or
\* found after the brief it rests on, unless the contract was written by others
\* while the execution was being started.
ExecutedIsAgreed ==
    Executing /\ ~raced =>
        /\ execution = [brief |-> contract.brief, plan |-> contract.plan, todo |-> contract.todo]
        /\ Readiness = "ready"
        /\ Prepared => prep.active = 0 /\ prep.confirmed >= prep.last
=============================================================================
