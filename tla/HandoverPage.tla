----------------------------- MODULE HandoverPage -----------------------------
(***************************************************************************)
(* The hand-over of a project in the browser (web/client/TransferWizard    *)
(* .tsx): a draft with the ids of the transfer, kept in local storage,     *)
(* its preview, its start, and the status that is read every two seconds.  *)
(* The server runs a transfer once for an id (module PeerTransfer); an     *)
(* answer may come late, never, or after the draft has been changed.       *)
(***************************************************************************)
EXTENDS Naturals, FiniteSets

CONSTANTS
    MaxDrafts,    \* bound: transfer ids that are made
    MaxReads,     \* bound: status reads on their way
    MaxReloads    \* bound: reloads of the page

VARIABLES
    transfer,   \* transfer[d]: the stage on the server of the transfer of draft d
    made,       \* ids made so far
    draft,      \* the id in the draft, 0: none
    stored,     \* the id in local storage
    preview,    \* a preview is shown: 0 or the draft it was made for
    status,     \* NoStatus, or [id, stage]
    started,    \* the start that is awaited, 0: none
    reads,      \* status reads on their way: [id, stage]
    reloads,
    late        \* an answer was on its way when the draft was changed (history)

handoverVars == <<transfer, made, draft, stored, preview, status, started, reads, reloads, late>>

NoStatus == [id |-> 0]
Ended == {"completed", "failed", "interrupted"}
Stages == {"absent", "sending"} \cup Ended
Drafts == 1..MaxDrafts
transferActive == status # NoStatus /\ status.stage \notin Ended
busy == started # 0
Awaited == reads # {} \/ busy

HandoverTypeOK ==
    /\ \A d \in Drafts : transfer[d] \in Stages
    /\ draft \in 0..made /\ stored \in 0..made /\ preview \in 0..made
    /\ status # NoStatus => status.id \in Drafts

HandoverInit ==
    /\ transfer = [d \in Drafts |-> "absent"]
    /\ made = 0 /\ draft = 0 /\ stored = 0 /\ preview = 0
    /\ status = NoStatus /\ started = 0 /\ reads = {} /\ reloads = 0 /\ late = FALSE

Server ==
    /\ \E d \in Drafts : /\ transfer[d] = "sending"
                         /\ \E s \in Ended : transfer' = [transfer EXCEPT ![d] = s]
    /\ UNCHANGED <<made, draft, stored, preview, status, started, reads, reloads, late>>

\* updateDraft: another selection is another transfer; it is kept at once.
ChangeSelection ==
    /\ ~busy /\ ~transferActive
    /\ made < MaxDrafts
    /\ made' = made + 1
    /\ draft' = made' /\ stored' = made'
    /\ preview' = 0 /\ status' = NoStatus
    /\ late' = (late \/ Awaited)
    /\ UNCHANGED <<transfer, started, reads, reloads>>

\* resetTransfer
NewTransfer ==
    /\ ~busy /\ ~transferActive
    /\ draft' = 0 /\ stored' = 0
    /\ preview' = 0 /\ status' = NoStatus
    /\ late' = (late \/ Awaited)
    /\ UNCHANGED <<transfer, made, started, reads, reloads>>

\* ensureDraft
Ensured ==
    /\ draft' = IF draft = 0 THEN made + 1 ELSE draft
    /\ made' = IF draft = 0 THEN made + 1 ELSE made
    /\ made' <= MaxDrafts

\* Mutant: the draft is kept once the transfer has been started.
Kept_Later == UNCHANGED stored

\* The draft is kept before the request is sent.
Kept == stored' = draft'

Preview ==
    /\ ~busy
    /\ Ensured /\ Kept
    /\ preview' = draft'
    /\ UNCHANGED <<transfer, status, started, reads, reloads, late>>

Start ==
    /\ ~busy /\ preview # 0
    /\ Ensured /\ Kept
    /\ started' = draft'
    /\ UNCHANGED <<transfer, preview, status, reads, reloads, late>>

\* resume
Resume ==
    /\ ~busy /\ draft # 0
    /\ status # NoStatus /\ status.stage # "completed"
    /\ started' = draft
    /\ UNCHANGED <<transfer, made, draft, stored, preview, status, reads, reloads, late>>

\* The transfer begins, or goes on if it had been interrupted, or neither.
StartArrives ==
    /\ busy
    /\ transfer' = [transfer EXCEPT ![started] = IF @ \in {"absent", "interrupted"} THEN "sending" ELSE @]
    /\ UNCHANGED <<made, draft, stored, preview, status, started, reads, reloads, late>>

StartReturns ==
    /\ busy
    /\ \/ transfer[started] # "absent" /\ status' = [id |-> started, stage |-> transfer[started]]
       \/ UNCHANGED status
    /\ started' = 0
    /\ UNCHANGED <<transfer, made, draft, stored, preview, reads, reloads, late>>

\* The status of the draft when none is shown, then of the transfer that is shown.
ReadStatus ==
    /\ Cardinality(reads) < MaxReads
    /\ \/ draft # 0 /\ status = NoStatus /\ reads' = reads \cup {[id |-> draft, stage |-> "asked"]}
       \/ transferActive /\ reads' = reads \cup {[id |-> status.id, stage |-> "asked"]}
    /\ UNCHANGED <<transfer, made, draft, stored, preview, status, started, reloads, late>>

ReadServed ==
    /\ \E r \in reads : /\ r.stage = "asked"
                        /\ reads' = (reads \ {r}) \cup {[r EXCEPT !.stage = transfer[r.id]]}
    /\ UNCHANGED <<transfer, made, draft, stored, preview, status, started, reloads, late>>

\* then(setStatus): whatever the draft is by now.  An unknown transfer is an error.
ReadLands ==
    /\ \E r \in reads : /\ reads' = reads \ {r}
                        /\ \/ r.stage \notin {"asked", "absent"} /\ status' = r
                           \/ r.stage \in {"asked", "absent"} /\ UNCHANGED status
    /\ UNCHANGED <<transfer, made, draft, stored, preview, started, reloads, late>>

\* The page is loaded again: what was kept is all there is.
Reload ==
    /\ reloads < MaxReloads
    /\ reloads' = reloads + 1
    /\ draft' = stored
    /\ preview' = 0 /\ status' = NoStatus /\ started' = 0 /\ reads' = {}
    /\ UNCHANGED <<transfer, made, stored, late>>

HandoverStep ==
    \/ Server \/ ChangeSelection \/ NewTransfer \/ Preview \/ Start \/ Resume \/ StartArrives \/ StartReturns
    \/ ReadStatus \/ ReadServed \/ ReadLands \/ Reload

-----------------------------------------------------------------------------
\* A transfer that runs is never lost to the page: its id was kept before it was
\* started, so a page that is loaded again, or lost the answer, finds it, unless
\* the draft was given up by hand while nothing showed that it runs.
RunningIsKept == busy => stored = started

\* The stage that is shown is that of the draft's transfer, unless an answer was
\* on its way when the draft was changed: it lands under the new one.
StatusOfDraft == status # NoStatus /\ status.id # draft => late

HandoverInv == HandoverTypeOK /\ RunningIsKept /\ StatusOfDraft

HandoverSpec == HandoverInit /\ [][HandoverStep]_handoverVars
=============================================================================
