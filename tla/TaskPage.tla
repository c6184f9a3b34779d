------------------------------ MODULE TaskPage -------------------------------
(***************************************************************************)
(* The page of a task in the browser (web/client/TaskPreparation.tsx): it  *)
(* shows what the server answered last, sends the operations of the        *)
(* preparation under request ids it makes itself, and waits for them.  One *)
(* instance of the page serves every task: selecting another one resets    *)
(* its state, but not what it is awaiting.                                 *)
(*                                                                         *)
(* A request of the browser reaches the server, is answered and lands in   *)
(* three steps; it may be lost in any of them.  The server admits one      *)
(* operation of a task at a time, at the revision the client has read      *)
(* (module GuidedPreparation); the operation stands for all kinds.         *)
(***************************************************************************)
EXTENDS Naturals, FiniteSets

CONSTANTS
    Tasks,         \* the tasks in the list
    Texts,         \* what the user may ask for
    MaxRequests,   \* bound: request ids
    MaxSelected,   \* bound: generations of the page
    MaxPolls,      \* bound: refreshes by the interval on their way
    Attempts,      \* 25: how often an update is looked for
    ViewLimit      \* 50: messages in one answer

None == 0
Ids == 1..MaxRequests

VARIABLES
    shown,       \* props.task.id
    generation,  \* detailGeneration.current
    detail,      \* the state: nothing or what a read answered, with its task
    requestId, requestKey,
    flight,      \* the submission or recovery that is awaited: busy
    reads,       \* refreshes on their way
    server,      \* server[t]: [revision, active, messages]
    request,     \* request[id]: [status, task, text, revision]
    made,        \* request ids made so far
    crossed      \* a task was selected while a submission was awaited (history)

pageVars == <<shown, generation, detail, requestId, requestKey, flight, reads, server, request,
              made, crossed>>

Idle == [phase |-> "none"]
NoRow == [status |-> "none"]
NoKey == [text |-> "none"]
NoDetail == [revision |-> None]
busy == flight # Idle

Min2(a, b) == IF a < b THEN a ELSE b

\* getTaskDetail: the answer holds no more than a page of messages.
View(t) == [task |-> t, revision |-> server[t].revision, active |-> server[t].active,
            messages |-> Min2(server[t].messages, ViewLimit)]

PageTypeOK ==
    /\ shown \in Tasks /\ generation \in 1..MaxSelected
    /\ detail # NoDetail => detail.task \in Tasks
    /\ requestId \in Ids \cup {None}
    /\ \A i \in Ids : request[i].status \in {"none", "pending", "completed", "failed", "interrupted"}

Read(t, own) == [generation |-> generation, task |-> t, own |-> own, answer |-> NoDetail]

\* Before anything was asked for.
PageBlank ==
    /\ shown \in Tasks
    /\ generation = 1
    /\ detail = NoDetail /\ requestId = None /\ requestKey = NoKey
    /\ flight = Idle
    /\ server = [t \in Tasks |-> [revision |-> 1, active |-> None, messages |-> 0]]
    /\ request = [i \in Ids |-> NoRow]
    /\ made = 0 /\ crossed = FALSE

PageInit == PageBlank /\ reads = {Read(shown, FALSE)}

-----------------------------------------------------------------------------
(* What is shown *)

\* Another task, or the same one at another revision: the effect that resets.
Select(t) ==
    /\ generation < MaxSelected
    /\ shown' = t
    /\ generation' = generation + 1
    /\ detail' = NoDetail /\ requestId' = None /\ requestKey' = NoKey
    /\ reads' = reads \cup {[Read(t, FALSE) EXCEPT !.generation = generation']}
    /\ crossed' = (crossed \/ busy)
    /\ UNCHANGED <<flight, server, request, made>>

Serve(r) ==
    /\ r \in reads /\ r.answer = NoDetail
    /\ reads' = (reads \ {r}) \cup {[r EXCEPT !.answer = View(r.task)]}
    /\ UNCHANGED <<shown, generation, detail, requestId, requestKey, flight, server, request, made,
                   crossed>>

\* Mutant: the last answer wins, whichever task it was asked for.
Lands_Always(r) == TRUE

Lands(r) == r.generation = generation

\* A submission ends with a refresh of its own, which never throws.
AfterRead(r) == IF r.own THEN Idle ELSE flight

\* refresh
Land(r) ==
    /\ r \in reads /\ r.answer # NoDetail
    /\ reads' = reads \ {r}
    /\ detail' = IF Lands(r) THEN r.answer ELSE detail
    /\ flight' = AfterRead(r)
    /\ UNCHANGED <<shown, generation, requestId, requestKey, server, request, made, crossed>>

LoseRead(r) ==
    /\ r \in reads
    /\ reads' = reads \ {r}
    /\ flight' = AfterRead(r)
    /\ UNCHANGED <<shown, generation, detail, requestId, requestKey, server, request, made, crossed>>

\* Mutant: the page never looks again.
Polls_Never == FALSE

Polls == detail # NoDetail /\ detail.active # None

\* Every two seconds while an operation is shown as running.
Poll ==
    /\ Polls
    /\ Cardinality({r \in reads : ~r.own}) < MaxPolls
    /\ reads' = reads \cup {Read(shown, FALSE)}
    /\ UNCHANGED <<shown, generation, detail, requestId, requestKey, flight, server, request, made,
                   crossed>>

-----------------------------------------------------------------------------
(* submit *)

\* Mutant: the text alone tells one operation from another.
Key_Text(text) == [task |-> None, revision |-> None, text |-> text]

\* operationKey
Key(text) == [task |-> shown, revision |-> detail.revision, text |-> text]

NewId == made + 1

IdFor(text) == IF requestKey = Key(text) /\ requestId # None THEN requestId ELSE NewId

Submit(text) ==
    /\ detail # NoDetail /\ ~busy
    /\ IdFor(text) \in Ids
    /\ requestId' = IdFor(text)
    /\ requestKey' = Key(text)
    /\ made' = IF IdFor(text) = NewId THEN NewId ELSE made
    /\ flight' = [phase |-> "sent", id |-> IdFor(text), task |-> shown, text |-> text,
                  revision |-> detail.revision, before |-> detail.messages, left |-> Attempts]
    /\ UNCHANGED <<shown, generation, detail, reads, server, request, crossed>>

\* execute arrives: an id that is known is answered from its row or joined.
Arrive ==
    /\ flight.phase = "sent"
    /\ LET t == flight.task
           fresh == request[flight.id] = NoRow
           admitted == fresh /\ server[t].active = None /\ server[t].revision = flight.revision
       IN  /\ request' = IF admitted
                         THEN [request EXCEPT ![flight.id] =
                                 [status |-> "pending", task |-> t, text |-> flight.text,
                                  revision |-> flight.revision]]
                         ELSE request
           /\ server' = IF admitted
                        THEN [server EXCEPT ![t].revision = @ + 1, ![t].active = flight.id,
                                            ![t].messages = @ + 1]
                        ELSE server
           /\ flight' = [flight EXCEPT !.phase = IF fresh /\ ~admitted THEN "refused" ELSE "served"]
    /\ UNCHANGED <<shown, generation, detail, requestId, requestKey, reads, made, crossed>>

\* finishGuidedPreparationRequest
Finish(i, ok) ==
    /\ request[i].status = "pending"
    /\ server[request[i].task].active = i
    /\ request' = [request EXCEPT ![i].status = IF ok THEN "completed" ELSE "failed"]
    /\ server' = [server EXCEPT ![request[i].task] =
                    [revision |-> @.revision + 1, active |-> None,
                     messages |-> IF ok THEN @.messages + 1 ELSE @.messages]]
    /\ UNCHANGED <<shown, generation, detail, requestId, requestKey, flight, reads, made, crossed>>

\* The answer comes when the operation is over: its result, or its error.
Answer ==
    /\ flight.phase = "served"
    /\ request[flight.id].status # "pending"
    /\ flight' = [flight EXCEPT !.phase =
                    IF request[flight.id].status = "completed" THEN "waiting" ELSE "refused"]
    /\ UNCHANGED <<shown, generation, detail, requestId, requestKey, reads, server, request, made,
                   crossed>>

\* The last step of submit: its refresh is of the generation of the moment.
EndsSubmit ==
    /\ reads' = reads \cup {Read(flight.task, TRUE)}
    /\ flight' = [flight EXCEPT !.phase = "refreshing"]
    /\ UNCHANGED <<shown, generation, detail, server, request, made, crossed>>

Keep == UNCHANGED <<requestId, requestKey>>
Forget == requestId' = None /\ requestKey' = NoKey

\* 422 may be an operation that is still running: its id is kept.
Refused ==
    /\ flight.phase = "refused"
    /\ Keep \/ Forget
    /\ EndsSubmit

\* fetch threw: the request may or may not have arrived.
NetworkFails ==
    /\ flight.phase \in {"sent", "served", "waiting"}
    /\ Keep
    /\ EndsSubmit

\* Mutant: the update is looked for without end.
GivesUp_Never == FALSE

GivesUp == flight.left = 0

\* waitForPreparationUpdate: more messages than before, as far as they are listed.
Seen == View(flight.task).messages > flight.before

Look ==
    /\ flight.phase = "waiting"
    /\ \/ /\ Seen /\ Forget /\ EndsSubmit
       \/ /\ ~Seen /\ GivesUp /\ Keep /\ EndsSubmit
       \/ /\ ~Seen /\ ~GivesUp
          /\ flight' = [flight EXCEPT !.left = IF @ = 0 THEN 0 ELSE @ - 1]
          /\ UNCHANGED <<shown, generation, detail, requestId, requestKey, reads, server, request,
                         made, crossed>>

\* recoverActiveOperation, of the operation that is shown.
Recover ==
    /\ detail # NoDetail /\ ~busy
    /\ detail.active # None
    /\ flight' = [phase |-> "recovering", id |-> detail.active, task |-> shown]
    /\ UNCHANGED <<shown, generation, detail, requestId, requestKey, reads, server, request, made,
                   crossed>>

\* recoverGuidedPreparationRequest, or its refusal, or no answer.
Recovered ==
    /\ flight.phase = "recovering"
    /\ \/ /\ request[flight.id].status = "pending" /\ request[flight.id].task = flight.task
          /\ request' = [request EXCEPT ![flight.id].status = "interrupted"]
          /\ server' = [server EXCEPT ![flight.task].revision = @ + 1, ![flight.task].active = None]
          /\ reads' = reads \cup {Read(flight.task, TRUE)}
          /\ flight' = [flight EXCEPT !.phase = "refreshing"]
       \/ /\ flight' = Idle
          /\ UNCHANGED <<server, request, reads>>
    /\ UNCHANGED <<shown, generation, detail, requestId, requestKey, made, crossed>>

PageStep ==
    \/ \E t \in Tasks : Select(t)
    \/ \E r \in reads : Serve(r) \/ Land(r) \/ LoseRead(r)
    \/ Poll
    \/ \E text \in Texts : Submit(text)
    \/ Arrive \/ Answer \/ Refused \/ NetworkFails \/ Look \/ Recover \/ Recovered
    \/ \E i \in Ids, ok \in BOOLEAN : Finish(i, ok)

\* Requests are answered or fail, and operations end.  The refreshes of the
\* interval are not lost for ever.
PageFairness ==
    /\ WF_pageVars(Arrive) /\ WF_pageVars(Answer) /\ WF_pageVars(Refused)
    /\ WF_pageVars(Look) /\ WF_pageVars(Recovered) /\ WF_pageVars(Poll)
    /\ WF_pageVars(\E i \in Ids, ok \in BOOLEAN : Finish(i, ok))
    /\ SF_pageVars(\E r \in reads : Serve(r))
    /\ SF_pageVars(\E r \in reads : Land(r))

-----------------------------------------------------------------------------
(* Properties *)

\* The details on the page are those of the task it is about, unless a task was
\* selected while a submission was awaited: that one ends with a refresh of its
\* own task under the generation of the new one.
DetailOfTask == detail # NoDetail /\ detail.task # shown => crossed

\* One id stands for one operation: the same task, text and revision, whatever
\* was lost and sent again.
IdIsOneOperation ==
    flight.phase \in {"sent", "served"} /\ request[flight.id] # NoRow =>
        LET row == request[flight.id]
        IN  row.task = flight.task /\ row.text = flight.text /\ row.revision = flight.revision

PageInv == PageTypeOK /\ DetailOfTask /\ IdIsOneOperation

\* The page settles: a submission ends whatever becomes of its request, even when
\* the update it waits for cannot be seen; and an operation shown as running is
\* shown so no longer once it is over, though its end is only found by looking.
PageSettles ==
    /\ busy ~> ~busy
    /\ \A i \in Ids :
         detail # NoDetail /\ detail.active = i /\ request[i].status # "pending"
           ~> detail = NoDetail \/ detail.active # i

PageSpec == PageInit /\ [][PageStep]_pageVars /\ PageFairness
=============================================================================
