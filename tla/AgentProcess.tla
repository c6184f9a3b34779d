---------------------------- MODULE AgentProcess ----------------------------
(***************************************************************************)
(* One attempt of a step: the driver runs an agent as a child process and  *)
(* talks JSON lines to it (src/src/drivers/pi-rpc.ts, src/src/process/     *)
(* jsonl-process.ts, process-tree.ts); what the agent reports goes through *)
(* the queue of the attempt (src/src/core/workflow-runtime.ts) and the     *)
(* sink of the runtime, which buffers text (src/src/application/           *)
(* runtime.ts), to the store.                                              *)
(*                                                                         *)
(* The child leads a process group; a helper it starts may outlive it and  *)
(* may keep its pipes open.  The group is signalled, and 'close' comes     *)
(* when the leader is gone and nobody holds the pipes.  The agent writes   *)
(* what it likes: answers, events, a line that is no JSON; it may ignore a *)
(* request or SIGTERM, and it may exit at any time.                        *)
(***************************************************************************)
EXTENDS Naturals, Sequences, SequencesExt

CONSTANTS
    MaxEvents,    \* bound: events the agent reports
    MaxBuffered,  \* text events the sink keeps before it writes them (256)
    MaxFaults     \* bound: failed writes of the store

VARIABLES
    phase,      \* where execute is, see Asking
    answered,   \* the agent has answered the request outstanding
    leader, helper,
    out,        \* what the agent wrote and was not read yet
    written,    \* kinds of the events it wrote, in order
    chain,      \* events read and not processed yet (eventProcessing)
    accepting, settled, terminalError, eventError,
    closed,     \* the JsonlProcess takes no more requests
    close,      \* the 'close' event of the child came
    term,       \* what terminate() is doing
    signalled,  \* the caller's signal came
    failure,    \* why execute will throw, or "none"
    queueFailed, buffer, stored, faults,
    attempt     \* "running", "succeeded" or "failed"

agentVars == <<answered, leader, helper, out, written>>
eventVars == <<chain, accepting, settled, terminalError, eventError>>
processVars == <<closed, close, term>>
sinkVars == <<queueFailed, buffer, stored, faults>>
agentProcessVars == <<phase, agentVars, eventVars, processVars, signalled, failure, sinkVars, attempt>>

Requests == <<"get_state", "get_commands", "prompt", "get_state_again", "get_session_stats">>
Asking == ToSet(Requests)
\* A status is stored as an error is, and "huge" is text beyond the limit.
Kinds == {"text", "error", "huge", "settled"}
HelperAlive == {"pipes", "quiet"}
Line(is, n) == [is |-> is, n |-> n]

AgentTypeOK ==
    /\ phase \in Asking \cup {"settling", "draining", "grace", "finally", "terminating", "over"}
    /\ leader \in {"alive", "dead"} /\ helper \in {"none", "dead"} \cup HelperAlive
    /\ written \in Seq(Kinds) /\ Len(written) <= MaxEvents
    /\ term \in {"none", "asked", "forced", "done", "failed"}
    /\ failure \in {"none", "cancelled", "timeout", "failed"}
    /\ attempt \in {"running", "succeeded", "failed"}
    /\ Len(buffer) < MaxBuffered \/ queueFailed

AgentInit ==
    /\ phase = "get_state" /\ answered = FALSE
    /\ leader = "alive" /\ helper = "none" /\ out = <<>> /\ written = <<>>
    /\ chain = <<>> /\ accepting = TRUE
    /\ settled = FALSE /\ terminalError = FALSE /\ eventError = FALSE
    /\ closed = FALSE /\ close = FALSE /\ term = "none"
    /\ signalled = FALSE /\ failure = "none"
    /\ queueFailed = FALSE /\ buffer = <<>> /\ stored = <<>> /\ faults = 0
    /\ attempt = "running"

-----------------------------------------------------------------------------
(* The agent *)

Answer ==
    /\ leader = "alive" /\ phase \in Asking /\ ~answered
    /\ answered' = TRUE
    /\ \E r \in {"good", "bad"} : out' = Append(out, Line(r, 0))
    /\ UNCHANGED <<phase, leader, helper, written, eventVars, processVars, signalled, failure,
                   sinkVars, attempt>>

\* Events come from the prompt on; it settles once.  Events that nobody listens to
\* are left out.
Report(kind) ==
    /\ leader = "alive" /\ accepting /\ phase \notin {"get_state", "get_commands"}
    /\ Len(written) < MaxEvents
    /\ kind = "settled" => ~Contains(written, "settled")
    /\ written' = Append(written, kind)
    /\ out' = Append(out, Line("event", Len(written) + 1))
    /\ UNCHANGED <<phase, answered, leader, helper, eventVars, processVars, signalled, failure,
                   sinkVars, attempt>>

WriteGarbage ==
    /\ leader = "alive" /\ ~Contains(out, Line("garbage", 0)) /\ ~closed
    /\ out' = Append(out, Line("garbage", 0))
    /\ UNCHANGED <<phase, answered, leader, helper, written, eventVars, processVars, signalled,
                   failure, sinkVars, attempt>>

StartHelper ==
    /\ leader = "alive" /\ helper = "none"
    /\ helper' \in HelperAlive
    /\ UNCHANGED <<phase, answered, leader, out, written, eventVars, processVars, signalled, failure,
                   sinkVars, attempt>>

Exit ==
    /\ \/ leader = "alive" /\ leader' = "dead" /\ UNCHANGED helper
       \/ helper \in HelperAlive /\ helper' = "dead" /\ UNCHANGED leader
    /\ UNCHANGED <<phase, answered, out, written, eventVars, processVars, signalled, failure,
                   sinkVars, attempt>>

-----------------------------------------------------------------------------
(* execute: the way to its end *)

\* The catch clause: a cancellation waits for the agent to settle first; then the
\* finally clause, from which on no event is accepted.
ThrowIf(cancelled, why) ==
    IF cancelled
      THEN phase' = "grace" /\ failure' = "cancelled" /\ UNCHANGED accepting
      ELSE phase' = "finally" /\ failure' = why /\ accepting' = FALSE

Throw(why) == ThrowIf(signalled, why)

\* A request of a closed process, or once the signal came, fails at once.
Ask(request) ==
    IF closed \/ signalled
      THEN Throw("failed") /\ UNCHANGED answered
      ELSE phase' = request /\ answered' = FALSE /\ UNCHANGED <<failure, accepting>>

Following(request) == CASE request = "get_state" -> "get_commands"
                    [] request = "get_commands" -> "prompt"
                    [] request = "get_state_again" -> "get_session_stats"

\* The answer to the request: what it names is checked, then the next one is made.
ReadAnswer ==
    /\ out # <<>> /\ Head(out).is \in {"good", "bad"}
    /\ out' = Tail(out)
    /\ IF phase \notin Asking \/ closed
         THEN UNCHANGED <<phase, answered, failure, accepting>>
         ELSE CASE Head(out).is = "bad" -> Throw("failed") /\ UNCHANGED answered
                [] Head(out).is = "good" /\ phase = "prompt" ->
                     IF signalled THEN Throw("failed") /\ UNCHANGED answered
                     ELSE phase' = "settling" /\ UNCHANGED <<answered, failure, accepting>>
                [] Head(out).is = "good" /\ phase = "get_session_stats" ->
                     phase' = "finally" /\ accepting' = FALSE /\ UNCHANGED <<answered, failure>>
                [] OTHER -> Ask(Following(phase))
    /\ UNCHANGED <<leader, helper, written, chain, settled, terminalError, eventError,
                   processVars, signalled, sinkVars, attempt>>

\* An event joins the chain while events are accepted.
ReadEvent ==
    /\ out # <<>> /\ Head(out).is = "event"
    /\ out' = Tail(out)
    /\ chain' = IF accepting THEN Append(chain, Head(out).n) ELSE chain
    /\ UNCHANGED <<phase, answered, leader, helper, written, accepting, settled, terminalError,
                   eventError, processVars, signalled, failure, sinkVars, attempt>>

\* SIGTERM unless the child has exited; it may be ignored.
BeginTermination == term' = IF term = "none" THEN "asked" ELSE term

\* fail(): the request outstanding is rejected, the termination begins.
FailProcess ==
    /\ closed' = TRUE
    /\ BeginTermination
    /\ IF phase \in Asking THEN Throw("failed") ELSE UNCHANGED <<phase, failure, accepting>>

ReadGarbage ==
    /\ out # <<>> /\ Head(out).is = "garbage"
    /\ out' = Tail(out)
    /\ IF closed THEN UNCHANGED <<closed, term, phase, failure, accepting>> ELSE FailProcess
    /\ UNCHANGED <<answered, leader, helper, written, chain, settled, terminalError, eventError,
                   close, signalled, sinkVars, attempt>>

\* 'close': everything written was read.  While it settles, execute is told too.
Close ==
    /\ ~close /\ leader = "dead" /\ helper # "pipes" /\ out = <<>>
    /\ close' = TRUE
    /\ IF phase = "settling"
         THEN closed' = TRUE /\ BeginTermination /\ Throw("failed")
         ELSE IF closed THEN UNCHANGED <<closed, term, phase, failure, accepting>> ELSE FailProcess
    /\ UNCHANGED <<agentVars, chain, settled, terminalError, eventError, signalled, sinkVars, attempt>>

\* The race is won by the agent that settled, or by an event that failed.
Settle ==
    /\ phase = "settling" /\ settled
    /\ phase' = "draining"
    /\ UNCHANGED <<agentVars, eventVars, processVars, signalled, failure, sinkVars, attempt>>

\* Everything read so far is processed: the error it brought is thrown, or the
\* state is asked for again.
Drained ==
    /\ phase = "draining" /\ chain = <<>>
    /\ IF eventError \/ terminalError
         THEN Throw("failed") /\ UNCHANGED answered
         ELSE Ask("get_state_again")
    /\ UNCHANGED <<leader, helper, out, written, chain, settled, terminalError, eventError,
                   processVars, signalled, sinkVars, attempt>>

\* The profile's timeout holds for each request and for settling.
Timeout ==
    /\ phase \in Asking \cup {"settling"}
    /\ Throw("timeout")
    /\ UNCHANGED <<agentVars, chain, settled, terminalError, eventError, processVars, signalled,
                   sinkVars, attempt>>

Abort ==
    /\ ~signalled /\ phase # "over"
    /\ signalled' = TRUE
    /\ IF phase \in Asking \cup {"settling"} THEN ThrowIf(TRUE, "cancelled")
       ELSE UNCHANGED <<phase, failure, accepting>>
    /\ UNCHANGED <<agentVars, chain, settled, terminalError, eventError, processVars, sinkVars,
                   attempt>>

\* The agent settled, or five seconds went by.
GraceOver ==
    /\ phase = "grace"
    /\ phase' = "finally" /\ accepting' = FALSE
    /\ UNCHANGED <<agentVars, chain, settled, terminalError, eventError, processVars, signalled,
                   failure, sinkVars, attempt>>

Finally ==
    /\ phase = "finally" /\ chain = <<>>
    /\ phase' = "terminating" /\ closed' = TRUE
    /\ BeginTermination
    /\ UNCHANGED <<agentVars, eventVars, close, signalled, failure, sinkVars, attempt>>

Terminated ==
    /\ phase = "terminating" /\ term \in {"done", "failed"}
    /\ phase' = "over"
    /\ failure' = IF failure = "none" /\ (term = "failed" \/ eventError) THEN "failed" ELSE failure
    /\ UNCHANGED <<agentVars, eventVars, processVars, signalled, sinkVars, attempt>>

-----------------------------------------------------------------------------
(* terminate *)

KillGroup ==
    /\ leader' = "dead"
    /\ helper' = IF helper = "none" THEN "none" ELSE "dead"
    /\ UNCHANGED <<answered, out, written>>

\* Mutant: a child that closed its pipes has nothing left to kill.
ClosedInTime_NoKill ==
    /\ term \in {"asked", "forced"} /\ close
    /\ term' = "done"
    /\ UNCHANGED <<phase, agentVars, eventVars, closed, close, signalled, failure, sinkVars, attempt>>

\* Closed within the grace: what is left of the group is killed all the same.
ClosedInTime ==
    /\ term \in {"asked", "forced"} /\ close
    /\ term' = "done"
    /\ IF term = "asked" THEN KillGroup ELSE UNCHANGED agentVars
    /\ UNCHANGED <<phase, eventVars, closed, close, signalled, failure, sinkVars, attempt>>

\* Mutant: the end of a child that was asked to stop is waited for without a limit.
TermGraceOver_Patient ==
    /\ ~close /\ term = "forced" /\ term' = "failed"
    /\ UNCHANGED <<phase, agentVars, eventVars, closed, close, signalled, failure, sinkVars, attempt>>

TermGraceOver ==
    /\ ~close
    /\ \/ term = "asked" /\ term' = "forced" /\ KillGroup
       \/ term = "forced" /\ term' = "failed" /\ UNCHANGED agentVars
    /\ UNCHANGED <<phase, eventVars, closed, close, signalled, failure, sinkVars, attempt>>

-----------------------------------------------------------------------------
(* Events *)

\* Mutant: only a full buffer is written; a status goes to the store at once.
Sunk_Overtake(n) ==
    IF written[n] = "text"
      THEN LET b == Append(buffer, n) IN
           IF Len(b) < MaxBuffered THEN <<b, stored>> ELSE <<<<>>, stored \o b>>
      ELSE <<buffer, Append(stored, n)>>

\* The sink: text is buffered up to a limit, anything else is stored after it.
Sunk(n) ==
    IF written[n] = "text"
      THEN LET b == Append(buffer, n) IN
           IF Len(b) < MaxBuffered THEN <<b, stored>> ELSE <<<<>>, stored \o b>>
      ELSE <<<<>>, Append(stored \o buffer, n)>>

\* Text that could not be stored stays at the head of the buffer.
Unsunk(n) == IF written[n] = "text" THEN Append(buffer, n) ELSE buffer

\* The queue of the attempt swallows the first failure and drops what follows.
Emit(n) ==
    /\ \/ queueFailed /\ UNCHANGED <<queueFailed, buffer, stored, faults>>
       \/ /\ ~queueFailed
          /\ buffer' = Sunk(n)[1] /\ stored' = Sunk(n)[2]
          /\ UNCHANGED <<queueFailed, faults>>
       \/ /\ ~queueFailed /\ Sunk(n)[2] # stored /\ faults < MaxFaults
          /\ faults' = faults + 1
          /\ queueFailed' = TRUE
          /\ buffer' = Unsunk(n)
          /\ UNCHANGED stored

\* One event at a time; after one that failed the others are ignored.
ProcessEvent ==
    /\ chain # <<>>
    /\ LET n == Head(chain) IN
         /\ chain' = Tail(chain)
         /\ IF eventError \/ written[n] = "huge"
              THEN eventError' = TRUE /\ settled' = TRUE /\ UNCHANGED <<terminalError, sinkVars>>
              ELSE /\ Emit(n)
                   /\ terminalError' = (terminalError \/ written[n] = "error")
                   /\ settled' = (settled \/ written[n] = "settled")
                   /\ UNCHANGED eventError
    /\ UNCHANGED <<phase, agentVars, accepting, processVars, signalled, failure, attempt>>

\* The runtime waits for the queue, flushes, and reports the first failure.
EndAttempt ==
    /\ phase = "over" /\ attempt = "running"
    /\ \/ /\ stored' = stored \o buffer /\ buffer' = <<>>
          /\ attempt' = IF queueFailed \/ failure # "none" THEN "failed" ELSE "succeeded"
          /\ UNCHANGED faults
       \/ /\ buffer # <<>> /\ faults < MaxFaults
          /\ faults' = faults + 1
          /\ attempt' = "failed"
          /\ UNCHANGED <<buffer, stored>>
    /\ UNCHANGED <<phase, agentVars, eventVars, processVars, signalled, failure, queueFailed>>

-----------------------------------------------------------------------------
\* What happens in the end: timers fire, what was written is read, callbacks run.
DriverStep ==
    \/ ReadAnswer \/ ReadEvent \/ ReadGarbage \/ Close \/ Settle \/ Drained \/ Timeout
    \/ GraceOver \/ Finally \/ Terminated \/ ClosedInTime \/ TermGraceOver
    \/ ProcessEvent \/ EndAttempt

AgentProcessNext ==
    \/ DriverStep \/ Abort
    \/ Answer \/ (\E kind \in Kinds : Report(kind)) \/ WriteGarbage \/ StartHelper \/ Exit

-----------------------------------------------------------------------------
(* Properties *)

\* When execute returns, nothing of the process group lives on, whatever exited
\* first and whoever kept the pipes, and no event is emitted afterwards.
NothingLeftBehind ==
    phase = "over" =>
        /\ leader = "dead" /\ helper \notin HelperAlive
        /\ chain = <<>> /\ ~accepting

SettledAt == SelectInSeq(written, LAMBDA k : k = "settled")

\* A step succeeds only when the agent settled, and then the store has, in the order
\* they were reported, all events up to there, none of them an error: in spite of
\* the chain, the queue and the buffer they pass, and of failing writes.  None is left
\* for the next attempt.
SuccessIsComplete ==
    attempt = "succeeded" =>
        /\ SettledAt > 0
        /\ \A n \in 1..SettledAt : written[n] \notin {"error", "huge"}
        /\ IsPrefix([n \in 1..SettledAt |-> n], stored)
        /\ buffer = <<>>

\* Nothing is stored twice or out of order, also when a write failed.
StoredInOrder ==
    \A i, j \in 1..Len(stored \o buffer) : i < j => (stored \o buffer)[i] < (stored \o buffer)[j]

AgentInv == AgentTypeOK /\ NothingLeftBehind /\ SuccessIsComplete /\ StoredInOrder
=============================================================================
