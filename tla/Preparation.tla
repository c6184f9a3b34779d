---------------------------- MODULE Preparation ----------------------------
(* One conversational preparation draft: src/application/preparation-       *)
(* operations.ts over the preparation tables of sqlite-run-store.ts.        *)
(* People talk to a planner, ask for a proposal, have it reviewed, and      *)
(* approve it, which creates the run.  Every call claims the draft, writes  *)
(* what it begins, waits for an agent, writes what it got and releases; the *)
(* calls of several processes, and of one, interleave at each await, and a  *)
(* process may die at any of them.                                          *)
EXTENDS Integers, FiniteSets, Sequences, TLC

CONSTANTS
    Procs,      \* processes with the database open
    Slots,      \* calls in progress
    Reqs,       \* request ids the clients make up
    None,
    MaxRev,     \* bound: nobody asks for another turn or review from this revision on
    MaxEdit,    \* bound: nobody edits the draft by hand from this revision on
    MaxTalk,    \* bound: messages of the draft
    PromptMessages  \* messages a planner is shown

\* None is no process, and no status of a request.
ASSUME NoneAssumption == None \notin Procs \cup {"pending", "sent", "failed"}

ASSUME PreparationBounds ==
    MaxRev \in Nat /\ MaxEdit \in Nat /\ MaxTalk \in Nat /\ PromptMessages \in Nat

VARIABLES
    draft,      \* the row of preparation_drafts
    msgs,       \* preparation_messages, by sequence
    reqs,       \* preparation_requests, by request id
    proposals,  \* preparation_proposals; an id is an index
    reviews,    \* preparation_reviews; an id is an index
    acks,       \* preparation_review_reads
    sugg,       \* base version of the pending suggestion, 0 when there is none
    owner,      \* the row of preparation_owners
    claims,     \* preparationClaims: the token each process remembers
    runs,       \* the runs created from the draft, with what was approved
    global,     \* preparation.reviewMode of the configuration file
    alive,      \* processes that run
    home,       \* the process of each call
    call,       \* progress of the calls
    files,      \* calls whose artifact files are on disk without a run
    reading     \* processes inside recoverPreparation, having seen a dead owner

rows == <<draft, msgs, reqs, proposals, reviews, acks, sugg>>
vars == <<rows, owner, claims, runs, global, alive, home, call, files, reading>>

Modes == {"human", "optional-auto", "required-auto"}
Turns == {"reply", "retry", "proposal"}
Kinds == Turns \cup {"review", "approve"}
NoReq == [kind |-> None, st |-> None, about |-> 0, user |-> 0, reply |-> 0,
          rev |-> 0, content |-> 0]
IdleCall == [pc |-> "idle", kind |-> None, req |-> None, rev |-> 0, prop |-> 0, about |-> 0,
             begun |-> FALSE, begunRev |-> 0, content |-> 0, reply |-> 0,
             seen |-> {}, review |-> 0, mode |-> None]

\* The messages sent after message i.
Later(i) == {j \in DOMAIN msgs : j > i /\ msgs[j].st = "sent"}

Live(o) == o # None /\ o.proc \in alive

-----------------------------------------------------------------------------
(* Reading: a read of the draft also recovers what a dead owner left.       *)

\* What recoverPreparation does to the messages when it saw no live owner.
Interrupted(ms) ==
    [i \in DOMAIN ms |-> IF ms[i].st = "pending" THEN [ms[i] EXCEPT !.st = "interrupted"] ELSE ms[i]]

\* getPreparation in one piece: a call reads the draft before or after it claims it.
Recover(p) ==
    IF Live(owner) THEN UNCHANGED <<owner, msgs, claims>>
    ELSE /\ owner' = None
         /\ msgs' = Interrupted(msgs)
         /\ claims' = [claims EXCEPT ![p] = None]

\* A process that only looks, when no owner is on record.
Read(p) ==
    /\ p \in alive /\ owner = None
    /\ Recover(p)
    /\ UNCHANGED <<draft, reqs, proposals, reviews, acks, sugg, runs, global, alive, home, call, files, reading>>

\* The statements of recoverPreparation are not one transaction: the process saw
\* a dead owner ...
ReadStarts(p) ==
    /\ p \in alive /\ ~reading[p]
    /\ owner # None /\ ~Live(owner)
    /\ reading' = [reading EXCEPT ![p] = TRUE]
    /\ UNCHANGED <<rows, owner, claims, runs, global, alive, home, call, files>>

\* ... and deletes the row, whoever's it is by now, and marks the messages.
ReadEnds(p) ==
    /\ p \in alive /\ reading[p]
    /\ owner' = None
    /\ msgs' = Interrupted(msgs)
    /\ claims' = [claims EXCEPT ![p] = None]
    /\ reading' = [reading EXCEPT ![p] = FALSE]
    /\ UNCHANGED <<draft, reqs, proposals, reviews, acks, sugg, runs, global, alive, home, call, files>>

-----------------------------------------------------------------------------
(* A call of a client.                                                      *)

\* effectivePreparationReviewMode: the configured minimum.
EffectiveMode(mode) == IF global = "required-auto" THEN "required-auto" ELSE mode

\* A synchronous read and its deletions are not interrupted by the same process.
Runs(s) == home[s] \in alive /\ ~reading[home[s]]

Start(s, k, r) ==
    /\ Runs(s) /\ call[s].pc = "idle"
    /\ k = "approve" \/ draft.rev < MaxRev
    /\ k = "reply" => Len(msgs) + 2 <= MaxTalk
    /\ k = "retry" => msgs # <<>>
    /\ \/ k \in Turns /\ UNCHANGED <<owner, msgs, claims>>
       \/ /\ k \notin Turns
          /\ draft.status = "active" /\ draft.validP # 0
          /\ Recover(home[s])
    /\ call' = [call EXCEPT ![s] = [IdleCall EXCEPT
                  !.pc = IF k \in Turns THEN "claim" ELSE "check",
                  !.kind = k, !.req = r, !.rev = draft.rev, !.prop = draft.validP,
                  !.about = CASE k = "retry" -> Len(msgs) - 1
                              [] k = "review" -> draft.validP
                              [] OTHER -> 0]]
    /\ UNCHANGED <<draft, reqs, proposals, reviews, acks, sugg, runs, global, alive, home, files, reading>>

\* Mutant: only the review that is valid now is looked at.
ApprovableUnblocked(c) ==
    /\ draft.validP = c.prop
    /\ EffectiveMode(draft.mode) = "required-auto" => draft.validR # 0
    /\ draft.validR # 0 =>
         /\ reviews[draft.validR].level # "grave"
         /\ reviews[draft.validR].level = "minor" => draft.validR \in acks

\* May the proposal be approved, as far as the overview tells?
Approvable(c) ==
    /\ draft.validP = c.prop
    /\ draft.blockR = 0
    /\ EffectiveMode(draft.mode) = "required-auto" => draft.validR # 0
    /\ draft.validR # 0 =>
         /\ reviews[draft.validR].level # "grave"
         /\ reviews[draft.validR].level = "minor" => draft.validR \in acks

\* The overview and the configuration are read after the draft was.
Check(s) ==
    /\ Runs(s) /\ call[s].pc = "check"
    /\ call' = [call EXCEPT ![s] =
                  IF @.kind = "review"
                  THEN [@ EXCEPT !.pc = "claim", !.mode = EffectiveMode(draft.mode)]
                  ELSE IF Approvable(@)
                  THEN [@ EXCEPT !.pc = "claim", !.mode = EffectiveMode(draft.mode),
                                 !.content = draft.content, !.review = draft.validR]
                  ELSE IdleCall]
    /\ UNCHANGED <<rows, owner, claims, runs, global, alive, home, files, reading>>

\* claimPreparation refuses a claim of another process that lives; a claim of
\* the same process is taken over.
Claimable(s) ==
    /\ draft.status = "active" /\ draft.rev = call[s].rev
    /\ ~(Live(owner) /\ owner.proc # home[s])

Claim(s) ==
    /\ Runs(s) /\ call[s].pc = "claim"
    /\ IF Claimable(s)
       THEN /\ owner' = [proc |-> home[s], token |-> s]
            /\ claims' = [claims EXCEPT ![home[s]] = s]
            /\ call' = [call EXCEPT ![s].pc = IF call[s].kind = "approve" THEN "write" ELSE "begin"]
       ELSE /\ call' = [call EXCEPT ![s] = IdleCall]
            /\ UNCHANGED <<owner, claims>>
    /\ UNCHANGED <<rows, runs, global, alive, home, files, reading>>

\* assertPreparationClaim: the token in memory and the one in the row.
Holds(s) == claims[home[s]] = s /\ owner = [proc |-> home[s], token |-> s]

-----------------------------------------------------------------------------
(* Turns and reviews: begin, ask the agent, finish, release.                *)

Input(c) == <<c.kind, c.about>>
SameInput(c) == <<reqs[c.req].kind, reqs[c.req].about>> = Input(c)
Go(s, pc) == call' = [call EXCEPT ![s].pc = pc]

\* A repeated request id is answered with the request on record, whatever became of it.
BeginDuplicate(s) ==
    LET q == reqs[call[s].req]
    IN  /\ Holds(s) /\ q # NoReq /\ SameInput(call[s])
        /\ call' = [call EXCEPT ![s].pc = "ask", ![s].begun = TRUE, ![s].begunRev = q.rev,
                                ![s].content = q.content, ![s].reply = q.reply]
        /\ UNCHANGED rows

\* beginPreparationTurn lets a turn be retried when its user message has not been
\* sent and nothing follows it.
Retryable(u) ==
    /\ u \in DOMAIN msgs /\ msgs[u].role = "user"
    /\ msgs[u].st # "sent"
    /\ u = Len(msgs)

MayBegin(c) ==
    /\ draft.status = "active" /\ draft.rev = c.rev
    /\ c.kind = "retry" => Retryable(c.about)
    /\ c.kind = "review" => draft.validP = c.about

BeginNew(s) ==
    LET c == call[s]
        talk == c.kind = "reply"
        content == IF talk THEN draft.content + 1 ELSE draft.content
        reply == IF talk THEN Len(msgs) + 2 ELSE IF c.kind = "retry" THEN c.about + 1 ELSE 0
    IN  /\ Holds(s) /\ reqs[c.req] = NoReq /\ MayBegin(c)
        /\ msgs' = IF talk
                   THEN msgs \o <<[role |-> "user", st |-> "sent"], [role |-> "assistant", st |-> "pending"]>>
                   ELSE IF reply = 0 THEN msgs ELSE [msgs EXCEPT ![reply].st = "pending"]
        /\ reqs' = [reqs EXCEPT ![c.req] =
                      [kind |-> c.kind, st |-> "pending", about |-> c.about,
                       user |-> IF reply = 0 THEN 0 ELSE reply - 1, reply |-> reply,
                       rev |-> draft.rev + 1, content |-> content]]
        /\ draft' = [draft EXCEPT !.rev = @ + 1, !.content = content,
                       !.validP = IF c.kind = "review" THEN @ ELSE 0,
                       !.validR = IF c.kind = "review" THEN @ ELSE 0]
        /\ call' = [call EXCEPT ![s].pc = "ask", ![s].begun = TRUE, ![s].begunRev = draft.rev + 1,
                                ![s].content = content, ![s].reply = reply]
        /\ UNCHANGED <<proposals, reviews, acks, sugg>>

\* Mutant: a call that is refused leaves without releasing.
BeginRefusedUnreleased(s) ==
    LET c == call[s]
    IN  /\ ~Holds(s) \/ (IF reqs[c.req] = NoReq THEN ~MayBegin(c) ELSE ~SameInput(c))
        /\ Go(s, "idle")
        /\ UNCHANGED rows

\* Everything beginPreparationTurn and beginPreparationReview throw for.
BeginRefused(s) ==
    LET c == call[s]
    IN  /\ ~Holds(s) \/ (IF reqs[c.req] = NoReq THEN ~MayBegin(c) ELSE ~SameInput(c))
        /\ Go(s, "releasing")
        /\ UNCHANGED rows

Begin(s) ==
    /\ Runs(s) /\ call[s].pc = "begin"
    /\ BeginDuplicate(s) \/ BeginNew(s) \/ BeginRefused(s)
    /\ UNCHANGED <<owner, claims, runs, global, alive, home, files, reading>>

\* Mutant: the first of the messages that were sent.
Prompt_First ==
    {i \in DOMAIN msgs : /\ msgs[i].st = "sent"
                         /\ Cardinality({j \in 1..(i - 1) : msgs[j].st = "sent"}) < PromptMessages}

\* buildPreparationPrompt: the last of the messages that were sent.
Prompt == {i \in DOMAIN msgs : msgs[i].st = "sent" /\ Cardinality(Later(i)) < PromptMessages}

\* The conversation is read again and goes into the prompt; a review is about
\* the proposal that was read before.
Ask(s) ==
    /\ Runs(s) /\ call[s].pc = "ask"
    /\ IF call[s].kind = "review" THEN UNCHANGED <<owner, msgs, claims>> ELSE Recover(home[s])
    /\ call' = [call EXCEPT ![s].pc = "agent", ![s].seen = Prompt]
    /\ UNCHANGED <<draft, reqs, proposals, reviews, acks, sugg, runs, global, alive, home, files, reading>>

\* The request this call may still finish.
MayFinish(s) ==
    LET c == call[s]  q == reqs[c.req]
    IN  /\ Holds(s) /\ q.st = "pending"
        /\ draft.status = "active" /\ draft.rev = c.begunRev
        /\ q.rev = c.begunRev /\ q.content = c.content

\* What parsePreparationAgentResponse and validatePreparationProposal let through.
Answers == {"message", "suggestion", "proposal"}

\* The gravest finding of a report: none, at most medium, or high and critical.
Levels == {"clear", "minor", "grave"}

\* finishPreparationTurn with what the planner answered: a message, a message
\* with a suggestion for the synthesis, or a proposal.  A proposal turn has no
\* message to put words in.
FinishTurn(s, answer) ==
    LET c == call[s]  made == answer = "proposal"
    IN  /\ c.kind \in Turns /\ MayFinish(s)
        /\ c.reply = 0 => made
        /\ msgs' = IF c.reply = 0 THEN msgs ELSE [msgs EXCEPT ![c.reply].st = "sent"]
        /\ \/ answer = "suggestion" /\ sugg' \in {draft.synth, draft.synth - 1} \ {0}
           \/ answer # "suggestion" /\ UNCHANGED sugg
        /\ proposals' = IF made THEN Append(proposals, [rev |-> draft.rev + 1, content |-> c.content,
                                                        seen |-> c.seen])
                        ELSE proposals
        /\ reqs' = [reqs EXCEPT ![c.req].st = "sent"]
        /\ draft' = [draft EXCEPT !.rev = @ + 1, !.validP = IF made THEN Len(proposals) + 1 ELSE 0]
        /\ Go(s, "releasing")
        /\ UNCHANGED <<reviews, acks>>

\* A report lifts the block when its content is newer than what was blocked.
\* Mutant: any later report lifts it.
LiftsAlways(c) == draft.blockR # 0
Lifts(c) == draft.blockR # 0 /\ c.content > reviews[draft.blockR].content

\* finishPreparationReview: a grave report blocks, until a report without grave
\* findings on newer content.
FinishReview(s, level) ==
    LET c == call[s]
        id == Len(reviews) + 1
    IN  /\ c.kind = "review" /\ MayFinish(s)
        /\ reviews' = Append(reviews, [prop |-> c.prop, content |-> c.content, level |-> level])
        /\ reqs' = [reqs EXCEPT ![c.req].st = "sent"]
        /\ draft' = [draft EXCEPT !.rev = @ + 1, !.validR = id,
                       !.blockR = IF level = "grave" THEN id ELSE IF Lifts(c) THEN 0 ELSE @]
        /\ Go(s, "releasing")
        /\ UNCHANGED <<msgs, proposals, acks, sugg>>

\* The agent fails, answers nonsense or is aborted, or the answer cannot be
\* stored: the catch clause records the failure, if the request is still its own
\* ("failed" stands for failed and for interrupted).
Fail(s) ==
    LET c == call[s]
    IN  /\ IF MayFinish(s)
           THEN /\ reqs' = [reqs EXCEPT ![c.req].st = "failed"]
                /\ draft' = [draft EXCEPT !.rev = @ + 1, !.validP = IF c.kind = "review" THEN @ ELSE 0]
           ELSE UNCHANGED <<reqs, draft>>
        /\ Go(s, "releasing")
        /\ UNCHANGED <<msgs, proposals, reviews, acks, sugg>>

Finish(s) ==
    /\ Runs(s) /\ call[s].pc = "agent"
    /\ \/ \E answer \in Answers : FinishTurn(s, answer)
       \/ \E level \in Levels : FinishReview(s, level)
       \/ Fail(s)
    /\ UNCHANGED <<owner, claims, runs, global, alive, home, files, reading>>

\* releasePreparation; its error is ignored when the claim is another's by now.
Release(s) ==
    /\ Runs(s) /\ call[s].pc = "releasing"
    /\ IF Holds(s)
       THEN owner' = None /\ claims' = [claims EXCEPT ![home[s]] = None]
       ELSE UNCHANGED <<owner, claims>>
    /\ call' = [call EXCEPT ![s] = IF s \in files THEN [@ EXCEPT !.pc = "removing"] ELSE IdleCall]
    /\ UNCHANGED <<rows, runs, global, alive, home, files, reading>>

-----------------------------------------------------------------------------
(* Approval: artifacts, then the run, the approval and the end of the draft *)
(* in one transaction, then the execution.                                  *)

Write(s) ==
    /\ Runs(s) /\ call[s].pc = "write"
    /\ files' = files \cup {s}
    /\ Go(s, "create") \/ Go(s, "releasing")
    /\ UNCHANGED <<rows, owner, claims, runs, global, alive, home, reading>>

\* The checks of createRunFromPreparation against what the call read.
MayCreate(s) ==
    LET c == call[s]
    IN  /\ Holds(s)
        /\ draft.status = "active" /\ draft.rev = c.rev
        /\ draft.validP = c.prop
        /\ proposals[c.prop].content = c.content /\ draft.content = c.content
        /\ draft.mode = c.mode
        /\ c.review # 0 => draft.validR = c.review
        /\ draft.mode # "human" =>
             /\ draft.validR # 0
             /\ reviews[draft.validR].level # "grave"
             /\ reviews[draft.validR].level = "minor" => draft.validR \in acks

CreateRun(s) ==
    /\ Runs(s) /\ call[s].pc = "create"
    /\ IF MayCreate(s)
       THEN /\ runs' = Append(runs, [prop |-> call[s].prop, mode |-> call[s].mode, st |-> "running",
                                     owner |-> home[s], by |-> s])
            /\ draft' = [draft EXCEPT !.status = "consumed"]
            /\ owner' = None
            /\ claims' = [claims EXCEPT ![home[s]] = None]
            /\ files' = files \ {s}
            /\ Go(s, "execute")
       ELSE /\ Go(s, "releasing")
            /\ UNCHANGED <<runs, draft, owner, claims, files>>
    /\ UNCHANGED <<msgs, reqs, proposals, reviews, acks, sugg, global, alive, home, reading>>

\* Files of an approval that did not come about are removed.
RemoveFiles(s) ==
    /\ Runs(s) /\ call[s].pc = "removing"
    /\ files' = files \ {s}
    /\ call' = [call EXCEPT ![s] = IdleCall]
    /\ UNCHANGED <<rows, owner, claims, runs, global, alive, home, reading>>

RunOf(s) == CHOOSE i \in DOMAIN runs : runs[i].by = s

\* The runtime ends the run, or its error releases it and, in a transaction of
\* its own, marks it interrupted.
Execute(s) ==
    /\ Runs(s) /\ call[s].pc \in {"execute", "mark"}
    /\ LET i == RunOf(s)
       IN  \/ /\ call[s].pc = "execute"
              /\ runs' = [runs EXCEPT ![i].st = "ended", ![i].owner = None]
              /\ call' = [call EXCEPT ![s] = IdleCall]
           \/ /\ call[s].pc = "execute"
              /\ runs' = [runs EXCEPT ![i].owner = None]
              /\ Go(s, "mark")
           \/ /\ call[s].pc = "mark"
              /\ runs' = [runs EXCEPT ![i].st = "interrupted"]
              /\ call' = [call EXCEPT ![s] = IdleCall]
    /\ UNCHANGED <<rows, owner, claims, global, alive, home, files, reading>>

-----------------------------------------------------------------------------
(* Operations of one transaction; refused while the draft has a live owner. *)

Editable == draft.status = "active" /\ ~Live(owner) /\ draft.rev < MaxEdit

\* updatePreparationSettings: the review policy, the reviewer or the producer.
UpdateSettings ==
    /\ Editable
    /\ \/ \E m \in Modes : draft' = [draft EXCEPT !.rev = @ + 1, !.mode = m, !.validP = 0, !.validR = 0]
       \/ draft' = [draft EXCEPT !.rev = @ + 1, !.validR = 0]
       \/ draft' = [draft EXCEPT !.rev = @ + 1]
    /\ UNCHANGED <<msgs, reqs, proposals, reviews, acks, sugg>>

\* updatePreparationSynthesis: by hand, or by accepting the pending suggestion.
UpdateSynthesis ==
    /\ Editable
    /\ \E accept, changed \in BOOLEAN :
         /\ accept => sugg = draft.synth
         /\ draft' = [draft EXCEPT !.rev = @ + 1, !.synth = @ + 1,
                        !.content = IF changed THEN @ + 1 ELSE @, !.validP = 0, !.validR = 0]
    /\ sugg' = 0
    /\ UNCHANGED <<msgs, reqs, proposals, reviews, acks>>

Acknowledge ==
    /\ Editable
    /\ \E r \in DOMAIN reviews : acks' = acks \cup {r}
    /\ draft' = [draft EXCEPT !.rev = @ + 1]
    /\ UNCHANGED <<msgs, reqs, proposals, reviews, sugg>>

\* recoverPreparationView: what nobody alive is working on is interrupted.
RecoverView(p) ==
    /\ Editable
    /\ reqs' = [r \in Reqs |-> IF reqs[r].st = "pending" THEN [reqs[r] EXCEPT !.st = "failed"] ELSE reqs[r]]
    /\ msgs' = Interrupted(msgs)
    /\ owner' = None
    /\ claims' = [claims EXCEPT ![p] = None]
    /\ draft' = [draft EXCEPT !.rev = @ + 1]
    /\ UNCHANGED <<proposals, reviews, acks, sugg>>

Edit ==
    /\ \E p \in alive :
         /\ ~reading[p]
         /\ \/ (UpdateSettings \/ UpdateSynthesis \/ Acknowledge) /\ UNCHANGED <<owner, claims>>
            \/ RecoverView(p)
    /\ UNCHANGED <<runs, global, alive, home, call, files, reading>>

\* Somebody sets the configured policy, once.
SetGlobal ==
    /\ global = "human" /\ global' = "required-auto"
    /\ UNCHANGED <<rows, owner, claims, runs, alive, home, call, files, reading>>

\* A process dies; one is left.
Crash(p) ==
    /\ p \in alive /\ alive # {p}
    /\ alive' = alive \ {p}
    /\ claims' = [claims EXCEPT ![p] = None]
    /\ call' = [s \in Slots |-> IF home[s] = p THEN IdleCall ELSE call[s]]
    /\ reading' = [reading EXCEPT ![p] = FALSE]
    /\ UNCHANGED <<rows, owner, runs, global, home, files>>

-----------------------------------------------------------------------------
NewDraft == [rev |-> 6, content |-> 1, mode |-> "human", synth |-> 1,
             validP |-> 0, validR |-> 0, blockR |-> 0, status |-> "active"]
Talk(st) == <<[role |-> "user", st |-> "sent"], [role |-> "assistant", st |-> st]>>

\* A new draft whose settings were touched until revision 6.
Fresh ==
    /\ draft = NewDraft /\ msgs = <<>> /\ proposals = <<>> /\ reviews = <<>>
    /\ owner = None /\ reqs = [r \in Reqs |-> NoReq]

\* A process died during the first turn.
LeftOver ==
    /\ draft = [NewDraft EXCEPT !.content = 2]
    /\ msgs = Talk("pending") /\ proposals = <<>> /\ reviews = <<>>
    /\ owner = [proc |-> None, token |-> None]
    /\ \E q \in Reqs : reqs = [r \in Reqs |->
         IF r # q THEN NoReq
         ELSE [kind |-> "reply", st |-> "pending", about |-> 0, user |-> 1, reply |-> 2,
               rev |-> 6, content |-> 2]]

\* A proposal was made and reviewed, with grave findings, or with minor ones where
\* a review is required.
Reviewed ==
    /\ \E level \in {"grave", "minor"} :
         /\ draft = [NewDraft EXCEPT !.rev = 5, !.content = 2, !.validP = 1, !.validR = 1,
                                    !.mode = IF level = "grave" THEN "human" ELSE "required-auto",
                                    !.blockR = IF level = "grave" THEN 1 ELSE 0]
         /\ reviews = <<[prop |-> 1, content |-> 2, level |-> level]>>
    /\ msgs = Talk("sent")
    /\ proposals = <<[rev |-> 3, content |-> 2, seen |-> {1}]>>
    /\ owner = None /\ reqs = [r \in Reqs |-> NoReq]

Init ==
    /\ Fresh \/ LeftOver \/ Reviewed
    /\ acks = {} /\ sugg = 0
    /\ claims = [p \in Procs |-> None]
    /\ runs = <<>>
    /\ global = "human"
    /\ alive = Procs
    /\ home \in [Slots -> Procs]
    /\ call = [s \in Slots |-> IdleCall]
    /\ files = {}
    /\ reading = [p \in Procs |-> FALSE]

Step(s) ==
    \/ Check(s) \/ Claim(s) \/ Begin(s) \/ Ask(s) \/ Finish(s) \/ Release(s)
    \/ Write(s) \/ CreateRun(s) \/ RemoveFiles(s) \/ Execute(s)

Next ==
    \/ \E p \in Procs : Read(p) \/ ReadStarts(p) \/ ReadEnds(p) \/ Crash(p)
    \/ \E s \in Slots, k \in Kinds, r \in Reqs : Start(s, k, r)
    \/ \E s \in Slots : Step(s)
    \/ Edit
    \/ SetGlobal

Spec == Init /\ [][Next]_vars

-----------------------------------------------------------------------------
(* Properties.                                                              *)

TypeOK ==
    /\ draft \in [rev : Nat, content : Nat, mode : Modes, synth : Nat, validP : 0..Len(proposals),
                  validR : 0..Len(reviews), blockR : 0..Len(reviews), status : {"active", "consumed"}]
    /\ \A i \in DOMAIN msgs : msgs[i] \in [role : {"user", "assistant"}, st : {"sent", "pending", "interrupted"}]
    /\ \A r \in Reqs : reqs[r].st \in {None, "pending", "sent", "failed"}
    /\ acks \subseteq DOMAIN reviews
    /\ claims \in [Procs -> Slots \cup {None}]
    /\ files \subseteq Slots

\* An agent that was shown these messages knows what the user said, but for messages
\* that at least PromptMessages others follow.
Knows(seen) ==
    \A i \in DOMAIN msgs :
        msgs[i].role = "user" => i \in seen \/ Cardinality(Later(i)) >= PromptMessages

\* The proposal on offer was made for the content as it is, by an agent that was shown
\* what the user said, as far back as a prompt reaches.
ProposalIsCurrent ==
    draft.validP # 0 => /\ proposals[draft.validP].content = draft.content
                        /\ Knows(proposals[draft.validP].seen)

\* The review that counts is of the proposal on offer and of its content.
ReviewIsOfProposal ==
    draft.validR # 0 => /\ reviews[draft.validR].prop = draft.validP
                        /\ reviews[draft.validR].content = draft.content

\* A grave finding stands until a review without one of newer content.
GraveStands ==
    \A r \in DOMAIN reviews :
        (reviews[r].level = "grave" /\ draft.blockR = 0) =>
            \E n \in DOMAIN reviews : n > r /\ reviews[n].level # "grave" /\ reviews[n].content > reviews[r].content

\* Files of an approval are on disk without a run only while the call that wrote
\* them goes on, or after its process died.
NoOrphanFiles ==
    \A s \in files : home[s] \in alive => call[s].pc \in {"create", "releasing", "removing"}

\* A draft becomes one run at most, and what was approved was the proposal on
\* offer, not blocked by any review, reviewed when the policy in force demanded
\* it, and its lesser findings had been read.
ApprovalIsSound ==
    /\ Len(runs) <= 1
    /\ runs # <<>> <=> draft.status = "consumed"
    /\ runs # <<>> =>
         /\ runs[1].prop = draft.validP /\ draft.validP # 0
         /\ draft.blockR = 0
         /\ runs[1].mode = "required-auto" => draft.validR # 0
         /\ draft.validR # 0 => /\ reviews[draft.validR].level # "grave"
                                /\ reviews[draft.validR].level = "minor" => draft.validR \in acks

\* A living process owns the draft only while a call of it is at work: no failure,
\* takeover or recovery leaves a draft locked for good.
LiveOwnerIsWorking ==
    Live(owner) =>
        \E s \in Slots : /\ owner = [proc |-> home[s], token |-> s]
                         /\ call[s].pc \in {"begin", "ask", "agent", "write", "create", "releasing"}

\* What is offered and reviewed is the draft as it is, grave findings stand until they
\* are answered, and neither files nor ownership outlive the call that needs them.
Inv ==
    /\ TypeOK /\ ProposalIsCurrent /\ ReviewIsOfProposal /\ GraveStands
    /\ NoOrphanFiles /\ LiveOwnerIsWorking
-----------------------------------------------------------------------------
(* Instances *)

\* Processes, slots of calls and request ids are interchangeable.
Symm == Permutations(Reqs) \cup Permutations(Procs) \cup Permutations(Slots)
=============================================================================
