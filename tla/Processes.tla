----------------------------- MODULE Processes -----------------------------
(***************************************************************************)
(* The child processes of an execution, one part at a time: the agent of a *)
(* step attempt (module AgentProcess), and a verification command of the   *)
(* workspace.  The part is chosen once; the variables of the other keep    *)
(* their initial values.                                                   *)
(*                                                                         *)
(* A command is run and terminate of src/src/process/workspace-process.ts, *)
(* over src/src/process/process-tree.ts.  A shell leads a process group;   *)
(* what it starts in the background may keep its pipes or not.  Three      *)
(* things may end it early: the timer, the signal of the caller and too    *)
(* much output; each has a terminate of its own, and they may overlap.     *)
(***************************************************************************)
EXTENDS Naturals, Sequences

CONSTANTS
    MaxEvents, MaxBuffered, MaxFaults,    \* AgentProcess
    OutputLimit, MaxOutput    \* accepted output of a command, and a bound on what is written

ASSUME ProcessesAssumption ==
    /\ MaxEvents \in Nat /\ MaxBuffered \in Nat \ {0}
    /\ OutputLimit \in Nat /\ MaxOutput \in Nat

VARIABLES
    part,
    \* AgentProcess
    phase, answered, leader, helper, out, written, chain, accepting, settled, terminalError,
    eventError, closed, close, term, signalled, failure, queueFailed, buffer, stored, faults, attempt,
    \* the command
    shell, code,       \* the shell, and its exit code: 0, 1, or "signal" when killed
    job,               \* a background process: none, with pipes, quiet, or dead
    unread, output,    \* output written and not read; accepted
    truncated, timedOut, stopped,
    pipesClosed,       \* the 'close' event came
    stops,             \* stops[r]: the terminate begun for reason r
    stopFailed,        \* a terminate threw
    result             \* "none", "ok" or "failed", what run returned

A == INSTANCE AgentProcess

agentVars == <<phase, answered, leader, helper, out, written, chain, accepting, settled,
               terminalError, eventError, closed, close, term, signalled, failure, queueFailed,
               buffer, stored, faults, attempt>>
commandVars == <<shell, code, job, unread, output, truncated, timedOut, stopped, pipesClosed,
                 stops, stopFailed, result>>
groupVars == <<shell, code, job>>
processesVars == <<part, agentVars, commandVars>>

Reasons == {"timer", "abort", "output"}
JobAlive == {"pipes", "quiet"}

CommandTypeOK ==
    /\ shell \in {"alive", "dead"} /\ code \in {"0", "1", "signal", "none"}
    /\ job \in {"none", "dead"} \cup JobAlive
    /\ output \in 0..OutputLimit /\ unread \in 0..MaxOutput
    /\ stops \in [Reasons -> {"none", "asked", "forced", "done", "failed"}]
    /\ result \in {"none", "ok", "failed"}

CommandInit ==
    /\ shell = "alive" /\ code = "none" /\ job = "none"
    /\ unread = 0 /\ output = 0
    /\ truncated = FALSE /\ timedOut = FALSE /\ stopped = FALSE
    /\ pipesClosed = FALSE /\ stops = [r \in Reasons |-> "none"]
    /\ stopFailed = FALSE /\ result = "none"

-----------------------------------------------------------------------------
(* The process group *)

ShellExits ==
    /\ shell = "alive"
    /\ shell' = "dead" /\ code' \in {"0", "1"}
    /\ UNCHANGED <<job, unread, output, truncated, timedOut, stopped, pipesClosed, stops,
                   stopFailed, result>>

StartJob ==
    /\ shell = "alive" /\ job = "none"
    /\ job' \in JobAlive
    /\ UNCHANGED <<shell, code, unread, output, truncated, timedOut, stopped, pipesClosed, stops,
                   stopFailed, result>>

JobExits ==
    /\ job \in JobAlive
    /\ job' = "dead"
    /\ UNCHANGED <<shell, code, unread, output, truncated, timedOut, stopped, pipesClosed, stops,
                   stopFailed, result>>

WriteOutput ==
    /\ shell = "alive" \/ job = "pipes"
    /\ unread + output < MaxOutput /\ ~truncated
    /\ unread' = unread + 1
    /\ UNCHANGED <<groupVars, output, truncated, timedOut, stopped, pipesClosed, stops,
                   stopFailed, result>>

\* SIGTERM may end the shell or the job, or be ignored; SIGKILL ends both.
Terminated(force) ==
    LET dies(alive) == IF force THEN {TRUE} ELSE IF alive THEN BOOLEAN ELSE {FALSE} IN
    \E s \in dies(shell = "alive"), j \in dies(job \in JobAlive) :
        /\ shell' = IF s THEN "dead" ELSE shell
        /\ code' = IF s /\ shell = "alive" THEN "signal" ELSE code
        /\ job' = IF j /\ job # "none" THEN "dead" ELSE job

-----------------------------------------------------------------------------
(* run and terminate *)

\* Nothing is done for a command that was closed already.
Stop(reason, force) ==
    IF pipesClosed
      THEN UNCHANGED <<groupVars, stops>>
      ELSE /\ Terminated(force)
           /\ stops' = [stops EXCEPT ![reason] = IF force THEN "forced" ELSE "asked"]

TimerFires ==
    /\ ~timedOut /\ result = "none"
    /\ timedOut' = TRUE
    /\ Stop("timer", FALSE)
    /\ UNCHANGED <<unread, output, truncated, stopped, pipesClosed, stopFailed, result>>

Aborted ==
    /\ ~stopped /\ result = "none"
    /\ stopped' = TRUE
    /\ Stop("abort", FALSE)
    /\ UNCHANGED <<unread, output, truncated, timedOut, pipesClosed, stopFailed, result>>

\* Output beyond the limit is cut and ends the command; after it all is dropped.
ReadOutput ==
    /\ unread > 0
    /\ unread' = unread - 1
    /\ IF truncated
         THEN UNCHANGED <<groupVars, output, truncated, stops>>
         ELSE IF output < OutputLimit
           THEN output' = output + 1 /\ UNCHANGED <<groupVars, truncated, stops>>
           ELSE truncated' = TRUE /\ Stop("output", TRUE) /\ UNCHANGED output
    /\ UNCHANGED <<timedOut, stopped, pipesClosed, stopFailed, result>>

Closed ==
    /\ ~pipesClosed /\ shell = "dead" /\ job # "pipes" /\ unread = 0
    /\ pipesClosed' = TRUE
    /\ UNCHANGED <<groupVars, unread, output, truncated, timedOut, stopped, stops, stopFailed,
                   result>>

Settled(reason) ==
    /\ stops[reason] \in {"asked", "forced"} /\ pipesClosed
    /\ stops' = [stops EXCEPT ![reason] = "done"]
    /\ UNCHANGED <<groupVars, unread, output, truncated, timedOut, stopped, pipesClosed,
                   stopFailed, result>>

\* Mutant: a group that ignored SIGTERM is given up.
StopGraceOver_GiveUp(reason) ==
    /\ ~pipesClosed /\ stops[reason] \in {"asked", "forced"}
    /\ stops' = [stops EXCEPT ![reason] = "failed"] /\ stopFailed' = TRUE
    /\ UNCHANGED <<groupVars, unread, output, truncated, timedOut, stopped, pipesClosed, result>>

StopGraceOver(reason) ==
    /\ ~pipesClosed
    /\ \/ /\ stops[reason] = "asked"
          /\ stops' = [stops EXCEPT ![reason] = "forced"]
          /\ Terminated(TRUE)
          /\ UNCHANGED stopFailed
       \/ /\ stops[reason] = "forced"
          /\ stops' = [stops EXCEPT ![reason] = "failed"] /\ stopFailed' = TRUE
          /\ UNCHANGED groupVars
    /\ UNCHANGED <<unread, output, truncated, timedOut, stopped, pipesClosed, result>>

\* Mutant: the exit code alone is the verdict.
Verdict_ExitCode == IF code = "0" THEN "ok" ELSE "failed"

Verdict ==
    IF code = "0" /\ ~truncated /\ ~timedOut /\ ~stopped /\ ~stopFailed THEN "ok" ELSE "failed"

Return ==
    /\ pipesClosed /\ result = "none"
    /\ result' = Verdict
    /\ UNCHANGED <<groupVars, unread, output, truncated, timedOut, stopped, pipesClosed, stops,
                   stopFailed>>

\* What happens in the end: timers fire, and what was written is read.
RunStep ==
    \/ TimerFires \/ ReadOutput \/ Closed \/ Return
    \/ \E r \in Reasons : Settled(r) \/ StopGraceOver(r)

CommandNext == RunStep \/ Aborted \/ ShellExits \/ StartJob \/ JobExits \/ WriteOutput

-----------------------------------------------------------------------------
(* Either of the two *)

ProcessesInit ==
    /\ part \in {"agent", "command"}
    /\ A!AgentInit /\ CommandInit

ProcessesNext ==
    /\ UNCHANGED part
    /\ \/ part = "agent" /\ A!AgentProcessNext /\ UNCHANGED commandVars
       \/ part = "command" /\ CommandNext /\ UNCHANGED agentVars

\* Timers fire, what was written is read, callbacks run.
Progress ==
    \/ part = "agent" /\ A!DriverStep /\ UNCHANGED <<part, commandVars>>
    \/ part = "command" /\ RunStep /\ UNCHANGED <<part, agentVars>>

ProcessesSpec == ProcessesInit /\ [][ProcessesNext]_processesVars /\ WF_processesVars(Progress)

-----------------------------------------------------------------------------
(* Properties *)

\* A command that is reported as passed ended by itself, all it wrote is in the
\* result, and nothing that holds its pipes lives on: a check that was cut short,
\* whose shell caught the signal and exited with 0, has not passed.
PassedIsComplete ==
    result = "ok" =>
        /\ shell = "dead" /\ job # "pipes" /\ unread = 0
        /\ \A r \in Reasons : stops[r] = "none"

CommandInv == CommandTypeOK /\ PassedIsComplete

\* When an agent's turn returns nothing of it is left running, and a step that
\* succeeded has all its events in the store, in order.  A command that passed was
\* not cut short.
Inv == (part = "agent" => A!AgentInv) /\ (part = "command" => CommandInv)

\* An attempt of a step ends and a command returns, whatever the processes do not
\* answer, ignore or leave running.
ProcessesEnd == <>(attempt # "running" \/ result # "none")
=============================================================================
