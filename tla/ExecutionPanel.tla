---------------------------- MODULE ExecutionPanel ----------------------------
(***************************************************************************)
(* The execution of a task in the browser (web/client/TaskExecution.tsx):  *)
(* the progress that is polled, the preview a decision is taken on, and    *)
(* the calls that start, decide and cancel.  The server is the execution   *)
(* of module GuidedExecution as a client sees it: a revision and what may  *)
(* be done next; the terminal interface or another browser decides too.    *)
(***************************************************************************)
EXTENDS Naturals, FiniteSets

CONSTANTS
    MaxRevision,   \* bound: revisions of the execution
    MaxLoads,      \* bound: generations of the panel
    MaxStarts,     \* bound: request ids
    MaxAnswers     \* bound: polls on their way

VARIABLES
    run,         \* NoRun, or [revision, next, id]: the execution on the server
    gen,         \* taskGeneration.current
    progress,    \* NoRun or what was answered last
    offer,       \* resumePreview: NoOffer or [revision, allowed]
    fetch,       \* the resume preview on its way, for the progress it is for
    digest,      \* a start preview is there
    startId,     \* requestId.current
    call,        \* the call that is awaited: busy
    polls,       \* reads on their way: [gen, answer]
    approved     \* what was approved was what was shown (history)

panelVars == <<run, gen, progress, offer, fetch, digest, startId, call, polls, approved>>

NoRun == [revision |-> 0]
NoOffer == [revision |-> 0, allowed |-> {}]
NoFetch == [for |-> NoRun, got |-> FALSE]
NoCall == [kind |-> "none"]
Waiting == {"resume", "review-changes"}
Shows == progress # NoRun

PanelTypeOK ==
    /\ run # NoRun => run.revision \in 1..MaxRevision
                      /\ run.next \in {"execute", "none"} \cup Waiting
    /\ gen \in 1..MaxLoads
    /\ Shows => progress.revision <= run.revision
    /\ offer # NoOffer => offer.revision <= run.revision

\* Before anything was asked for.
PanelBlank ==
    /\ run = NoRun
    /\ gen = 1 /\ progress = NoRun /\ offer = NoOffer /\ fetch = NoFetch
    /\ digest = FALSE /\ startId = 0 /\ call = NoCall
    /\ approved = TRUE

PanelInit == PanelBlank /\ polls = {[gen |-> 1, answer |-> NoRun, served |-> FALSE]}

-----------------------------------------------------------------------------
(* The server *)

Room == run.revision < MaxRevision
After(next) == [run EXCEPT !.revision = @ + 1, !.next = next]

Work ==
    /\ run # NoRun /\ run.next = "execute" /\ Room
    /\ \E next \in {"execute", "none"} \cup Waiting : run' = After(next)
    /\ UNCHANGED <<gen, progress, offer, fetch, digest, startId, call, polls, approved>>

\* previewResume
Allowed ==
    CASE run.next = "review-changes" -> {"approve-changes", "cancel"}
      [] run.next = "resume" -> {"retry-task", "cancel"}
      [] OTHER -> {}

\* applyResumeDecision
Decided(decision) == After(IF decision = "retry-task" THEN "execute" ELSE "none")

Elsewhere ==
    /\ run # NoRun /\ Room
    /\ \E d \in Allowed : run' = Decided(d)
    /\ UNCHANGED <<gen, progress, offer, fetch, digest, startId, call, polls, approved>>

-----------------------------------------------------------------------------
(* What is shown *)

\* The effect on the progress: a waiting execution gets a new preview, for which
\* the one that is there stays meanwhile; any other has none.
SetProgress(next) ==
    /\ progress' = next
    /\ IF next.next \in Waiting
       THEN /\ fetch' = IF next = progress THEN fetch ELSE [for |-> next, got |-> FALSE]
            /\ UNCHANGED offer
       ELSE offer' = NoOffer /\ fetch' = NoFetch

\* Another task or run, or "Retry loading execution": everything is reset.
Reload ==
    /\ gen < MaxLoads
    /\ gen' = gen + 1
    /\ progress' = NoRun /\ offer' = NoOffer /\ fetch' = NoFetch
    /\ digest' = FALSE /\ startId' = 0
    /\ call' = IF call = NoCall THEN NoCall ELSE [call EXCEPT !.gen = 0]
    /\ polls' = polls \cup {[gen |-> gen', answer |-> NoRun, served |-> FALSE]}
    /\ UNCHANGED <<run, approved>>

\* Mutant: a blocked execution is not looked at any more.
Polled_Running(p) == p.next = "execute"

Polled(p) == p.next \notin {"review-changes", "none"}

Poll ==
    /\ Shows /\ Polled(progress)
    /\ Cardinality(polls) < MaxAnswers
    /\ polls' = polls \cup {[gen |-> gen, answer |-> NoRun, served |-> FALSE]}
    /\ UNCHANGED <<run, gen, progress, offer, fetch, digest, startId, call, approved>>

Serve(p) ==
    /\ p \in polls /\ ~p.served
    /\ polls' = (polls \ {p}) \cup {[p EXCEPT !.answer = run, !.served = TRUE]}
    /\ UNCHANGED <<run, gen, progress, offer, fetch, digest, startId, call, approved>>

\* Answers land in any order; a read that found no execution changes nothing.
Land(p) ==
    /\ p \in polls /\ p.served
    /\ polls' = polls \ {p}
    /\ IF p.gen = gen /\ p.answer # NoRun THEN SetProgress(p.answer)
       ELSE UNCHANGED <<progress, offer, fetch>>
    /\ UNCHANGED <<run, gen, digest, startId, call, approved>>

Lose(p) ==
    /\ p \in polls
    /\ polls' = polls \ {p}
    /\ UNCHANGED <<run, gen, progress, offer, fetch, digest, startId, call, approved>>

Fetched ==
    /\ fetch # NoFetch /\ ~fetch.got
    /\ fetch' = [fetch EXCEPT !.got = TRUE]
    /\ offer' = [revision |-> run.revision, allowed |-> Allowed]
    /\ UNCHANGED <<run, gen, progress, digest, startId, call, polls, approved>>

-----------------------------------------------------------------------------
(* The calls *)

MayCall == call = NoCall

\* loadPreview; the preview of the start is of the task, not of the execution.
Preview ==
    /\ MayCall /\ ~Shows /\ ~digest
    /\ digest' = TRUE
    /\ UNCHANGED <<run, gen, progress, offer, fetch, startId, call, polls, approved>>

\* Mutant: every click makes an id.
StartIdFor_New == startId + 1

StartIdFor == IF startId = 0 THEN 1 ELSE startId

Answered(ok) ==
    call' = [c \in DOMAIN call \cup {"answer"} |->
               CASE c = "answer" -> run'
                 [] c = "at" -> IF ok THEN "done" ELSE "refused"
                 [] OTHER -> call[c]]

\* start: the id stays until it has been answered.
Start ==
    /\ MayCall /\ digest /\ ~Shows
    /\ StartIdFor <= MaxStarts
    /\ startId' = StartIdFor
    /\ call' = [kind |-> "start", gen |-> gen, id |-> <<gen, startId'>>, at |-> "sent"]
    /\ UNCHANGED <<run, gen, progress, offer, fetch, digest, polls, approved>>

\* One execution of a task: the same request is answered again, another refused.
StartArrives ==
    /\ call.kind = "start" /\ call.at = "sent"
    /\ run' = IF run = NoRun THEN [revision |-> 1, next |-> "execute", id |-> call.id] ELSE run
    /\ Answered(run'.id = call.id)
    /\ UNCHANGED <<gen, progress, offer, fetch, digest, startId, polls, approved>>

\* Mutant: what the preview allows is offered, whatever is shown.
Offered_Preview(decision) == decision \in offer.allowed

\* The button of a decision.
Offered(decision) ==
    /\ decision \in offer.allowed
    /\ progress.next = (IF decision = "retry-task" THEN "resume" ELSE "review-changes")

\* resume
Resume(decision) ==
    /\ MayCall /\ Shows
    /\ Offered(decision)
    /\ call' = [kind |-> decision, gen |-> gen, at |-> "sent",
                revision |-> offer.revision, shown |-> progress.revision]
    /\ UNCHANGED <<run, gen, progress, offer, fetch, digest, startId, polls, approved>>

ResumeArrives ==
    /\ call.kind \in {"retry-task", "approve-changes"} /\ call.at = "sent"
    /\ LET accepted == call.revision = run.revision /\ call.kind \in Allowed /\ Room
       IN  /\ run' = IF accepted THEN Decided(call.kind) ELSE run
           /\ Answered(accepted)
           /\ approved' = (approved /\ (accepted /\ call.kind = "approve-changes"
                                          => call.shown = run.revision))
    /\ UNCHANGED <<gen, progress, offer, fetch, digest, startId, polls>>

\* cancel: whatever the execution waits for at the moment.
Cancel ==
    /\ MayCall /\ Shows
    /\ "cancel" \in offer.allowed
    /\ call' = [kind |-> "cancel", gen |-> gen, at |-> "sent"]
    /\ UNCHANGED <<run, gen, progress, offer, fetch, digest, startId, polls, approved>>

CancelArrives ==
    /\ call.kind = "cancel" /\ call.at = "sent"
    /\ LET accepted == "cancel" \in Allowed /\ Room
       IN  /\ run' = IF accepted THEN Decided("cancel") ELSE run
           /\ Answered(accepted)
    /\ UNCHANGED <<gen, progress, offer, fetch, digest, startId, polls, approved>>

\* The answer, if it comes, is what the call made of the execution, unless the
\* panel was reset meanwhile.
Returns ==
    /\ call # NoCall /\ call.at # "sent"
    /\ call' = NoCall
    /\ \/ /\ call.at = "done" /\ call.gen = gen
          /\ IF call.kind \in {"retry-task", "approve-changes"}
             THEN progress' = call.answer /\ offer' = NoOffer /\ fetch' = NoFetch
             ELSE SetProgress(call.answer)
          /\ startId' = IF call.kind = "start" THEN 0 ELSE startId
       \/ UNCHANGED <<progress, offer, fetch, startId>>
    /\ UNCHANGED <<run, gen, digest, polls, approved>>

Lost ==
    /\ call # NoCall /\ call.at = "sent"
    /\ call' = NoCall
    /\ UNCHANGED <<run, gen, progress, offer, fetch, digest, startId, polls, approved>>

PanelStep ==
    \/ Work \/ Elsewhere \/ Reload \/ Poll \/ Fetched \/ Preview
    \/ \E p \in polls : Serve(p) \/ Land(p) \/ Lose(p)
    \/ Start \/ StartArrives \/ (\E d \in {"retry-task", "approve-changes"} : Resume(d))
    \/ ResumeArrives \/ Cancel \/ CancelArrives \/ Returns \/ Lost

\* Polls are made each second and are not lost for ever.
PanelFairness ==
    /\ WF_panelVars(Poll)
    /\ SF_panelVars(\E p \in polls : Serve(p))
    /\ SF_panelVars(\E p \in polls : Land(p))

-----------------------------------------------------------------------------
(* Properties *)

\* The changes that are approved are the changes that were shown, although the
\* list of changes and the revision the approval carries are two reads.
ApprovedWasShown == approved

\* A start that was lost is sent again as the same one: the execution that began
\* under an id of this panel is not refused to it.
StartIsNotRefused ==
    call.kind = "start" /\ call.at = "refused" /\ call.gen = gen => run.id[1] # gen

PanelInv == PanelTypeOK /\ ApprovedWasShown /\ StartIsNotRefused

Watched == Shows /\ progress.next \in {"execute", "resume"}

\* An execution that is being watched is seen to end, though each answer may be
\* late, lost, or overtaken by an older one.
EndIsShown ==
    Watched /\ run.next = "none" ~> ~Watched

PanelSpec == PanelInit /\ [][PanelStep]_panelVars /\ PanelFairness
=============================================================================
