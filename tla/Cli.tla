--------------------------------- MODULE Cli ---------------------------------
(* An attached command of the command line: run, resume, approve or reject,  *)
(* and the decisions of a review.  It opens the application, follows a run,   *)
(* writes its records to a reader who may go away, and is stopped by signals  *)
(* (runAttachedCli of cli/commands/common.ts and the commands).               *)
EXTENDS Naturals, Sequences

CONSTANTS Commands, Modes,
          MaxEvents,     \* bound: events of a run
          MaxSignals     \* bound: signals sent to the process

VARIABLES
    command, mode,
    at,              \* "opening" | "working" | "reporting" | "settled" | "leaving" | "ended"
    run,             \* status of the run; "none" before it exists, "stopped" before a resume
    appOpen,          \* the application is open
    started,         \* markStarted
    events,
    received,        \* the records that reached the reader of stdout
    reader, pending, \* the reader is there; an error of the stream is not reported yet
    lost, aborted,   \* what CliStreamFailure and the AbortController know
    signals, force,
    failure, handled, cleanup,   \* of the operation; already reported; of close()
    exitCode

cliVars == <<command, mode, at, run, appOpen, started, events, received, reader, pending,
             lost, aborted, signals, force, failure, handled, cleanup, exitCode>>

Ended == {"completed", "failed", "cancelled", "waiting", "interrupted"}
Listening == at \notin {"leaving", "ended"}

CliInit ==
    /\ command \in Commands /\ mode \in Modes
    /\ command = "review" => mode # "jsonl"          \* rejectUnsupportedJsonl
    /\ run \in CASE command = "run" -> {"none"}
                 [] command = "resume" -> {"stopped", "completed"}
                 [] OTHER -> {"waiting"}
    /\ at = "opening" /\ appOpen = FALSE /\ started = FALSE /\ events = 0 /\ received = <<>>
    /\ reader = TRUE /\ pending = FALSE /\ lost = FALSE /\ aborted = FALSE
    /\ signals = 0 /\ force = FALSE /\ failure = FALSE /\ handled = FALSE /\ cleanup = FALSE
    /\ exitCode = 0

\* streamFailure.write: nothing more is written once a failure is known; without a
\* reader the error comes at once, as an exception, or later, as an event.
Write(record) ==
    IF lost THEN UNCHANGED <<received, pending, lost, aborted>>
    ELSE \/ reader /\ received' = Append(received, record) /\ UNCHANGED <<pending, lost, aborted>>
         \/ ~reader /\ pending' = TRUE /\ UNCHANGED <<received, lost, aborted>>
         \/ ~reader /\ lost' = TRUE /\ aborted' = TRUE /\ UNCHANGED <<received, pending>>
WriteNothing == UNCHANGED <<received, pending, lost, aborted>>
WriteJsonl(record) == IF mode = "jsonl" THEN Write(record) ELSE WriteNothing

\* The operation throws: in a stream that has started the failure is its last record.
Fails ==
    /\ failure' = TRUE /\ at' = "settled"
    /\ handled' = (lost \/ (mode = "jsonl" /\ started))
    /\ exitCode' = IF handled' THEN 1 ELSE exitCode
    /\ IF handled' THEN Write("failed") ELSE WriteNothing

Open ==
    /\ at = "opening"
    /\ \/ /\ at' = "working" /\ appOpen' = TRUE
          /\ UNCHANGED <<failure, handled, exitCode>> /\ WriteNothing
       \/ Fails /\ UNCHANGED appOpen
    /\ UNCHANGED <<command, mode, run, started, events, reader, signals, force, cleanup>>

\* onRunStarted; the commands of a review do not pass it.
Start ==
    /\ at = "working" /\ run \in {"none", "stopped", "waiting"} /\ ~started
    /\ run' = "running" /\ started' = TRUE
    /\ WriteJsonl("started")
    /\ UNCHANGED <<command, mode, at, appOpen, events, reader, signals, force, failure, handled,
                   cleanup, exitCode>>

\* An unknown run, one of another version or one that cannot go on.
Refused ==
    /\ at = "working" /\ ~started /\ Fails
    /\ UNCHANGED <<command, mode, run, appOpen, started, events, reader, signals, force, cleanup>>

Event ==
    /\ run = "running" /\ events < MaxEvents /\ events' = events + 1
    /\ WriteJsonl("event")
    /\ UNCHANGED <<command, mode, at, run, appOpen, started, reader, signals, force, failure,
                   handled, cleanup, exitCode>>

\* What follows a run that ended: nothing is printed to a stream that failed. The commands
\* of a review do not ask.
AfterRun == IF lost /\ command # "review" THEN "settled" ELSE "reporting"

Finish ==
    /\ run = "running" /\ at = "working"
    /\ run' \in {"completed", "failed", "waiting"} \cup (IF aborted THEN {"cancelled"} ELSE {})
    /\ at' = AfterRun /\ exitCode' = IF AfterRun = "settled" THEN 1 ELSE exitCode
    /\ UNCHANGED <<command, mode, appOpen, started, events, received, reader, pending, lost,
                   aborted, signals, force, failure, handled, cleanup>>

\* A run that was completed already: its stream starts and finishes.
Already ==
    /\ at = "working" /\ command = "resume" /\ run = "completed" /\ ~started
    /\ started' = (mode = "jsonl") /\ WriteJsonl("started")
    /\ at' = IF lost' THEN "settled" ELSE "reporting"
    /\ exitCode' = IF lost' THEN 1 ELSE exitCode
    /\ UNCHANGED <<command, mode, run, appOpen, events, reader, signals, force, failure, handled, cleanup>>

\* The run is stopped by an exception and recovered as interrupted.
Throw ==
    /\ run = "running" /\ run' = "interrupted" /\ Fails
    /\ UNCHANGED <<command, mode, appOpen, started, events, reader, signals, force, cleanup>>

\* Mutant: only a failed run sets the exit code.
ExitOf_Cancelled == IF run = "failed" THEN 1 ELSE exitCode
\* The commands of a review print the run and leave the exit code.
ExitOfReview == exitCode
ExitOf == IF command = "review" THEN ExitOfReview
          ELSE CASE run = "failed" -> 1 [] run = "cancelled" -> 130 [] OTHER -> exitCode

Terminal == CASE mode = "jsonl" -> "finished" [] mode = "json" -> "result" [] OTHER -> "summary"
\* The run is read once more and printed, or cannot be read.
Report ==
    /\ at = "reporting"
    /\ \/ /\ at' = "settled" /\ Write(Terminal) /\ exitCode' = ExitOf
          /\ UNCHANGED <<failure, handled>>
       \/ Fails
    /\ UNCHANGED <<command, mode, run, appOpen, started, events, reader, signals, force, cleanup>>

\* Mutant: the failure is thrown on although it was reported.
Thrown_Handled == failure \/ cleanup'
\* What is thrown to the entry point, which reports it as a document of its own.
Thrown == ~handled /\ (failure \/ cleanup')

\* The application is closed once the operation has settled, the handlers are removed
\* and the failure is thrown on: one step, nothing is awaited in between. A forced
\* signal is sent to the process itself, whose handlers are gone by then or not.
Leave ==
    /\ at = "settled" /\ appOpen' = FALSE
    /\ cleanup' \in (IF appOpen THEN BOOLEAN ELSE {FALSE})
    /\ \/ /\ at' = "leaving"
          /\ exitCode' = CASE lost -> 1 [] ~lost /\ Thrown -> 1
                           [] ~lost /\ ~Thrown /\ force -> 130 [] OTHER -> exitCode
          /\ IF ~lost /\ Thrown /\ mode # "human"
             THEN /\ received' = IF reader THEN Append(received, "error") ELSE received
                  /\ pending' = (pending \/ ~reader)
             ELSE UNCHANGED <<received, pending>>
       \/ /\ force /\ at' = "ended" /\ exitCode' = 130 /\ UNCHANGED <<received, pending>>
    /\ UNCHANGED <<command, mode, run, started, events, reader, lost, aborted, signals, force,
                   failure, handled>>

Exit ==
    /\ at = "leaving" /\ ~pending /\ at' = "ended"
    /\ UNCHANGED <<command, mode, run, appOpen, started, events, received, reader, pending, lost,
                   aborted, signals, force, failure, handled, cleanup, exitCode>>

\* The first signal cancels, the next forces the end after the cleanup; without the
\* handlers a signal ends the process.
Signal ==
    /\ at # "ended" /\ signals < MaxSignals /\ signals' = signals + 1
    /\ IF Listening
       THEN /\ aborted' = TRUE /\ force' = (signals > 0) /\ UNCHANGED <<at, exitCode>>
       ELSE /\ at' = "ended" /\ exitCode' = 130 /\ UNCHANGED <<aborted, force>>
    /\ UNCHANGED <<command, mode, run, appOpen, started, events, received, reader, pending, lost,
                   failure, handled, cleanup>>

ReaderGoes ==
    /\ at # "ended" /\ reader /\ reader' = FALSE
    /\ UNCHANGED <<command, mode, at, run, appOpen, started, events, received, pending, lost,
                   aborted, signals, force, failure, handled, cleanup, exitCode>>

\* The error of a write is captured and aborts the run; nobody listens any more in the
\* end, and it ends the process, or is dropped where the console wrote.
StreamError ==
    /\ pending /\ at # "ended" /\ pending' = FALSE
    /\ IF Listening
       THEN lost' = TRUE /\ aborted' = TRUE /\ UNCHANGED <<at, exitCode>>
       ELSE /\ UNCHANGED <<lost, aborted>>
            /\ \/ at' = "ended" /\ exitCode' = 1
               \/ mode = "human" /\ UNCHANGED <<at, exitCode>>
    /\ UNCHANGED <<command, mode, run, appOpen, started, events, received, reader, signals, force,
                   failure, handled, cleanup>>

CliNext == \/ Open \/ Start \/ Refused \/ Event \/ Finish \/ Already \/ Throw \/ Report \/ Leave
           \/ Exit \/ Signal \/ ReaderGoes \/ StreamError

-----------------------------------------------------------------------------
\* The process never ends, and the application is never closed, under a run: it has
\* settled first, whatever was signalled and whoever stopped reading.
JoinedFirst == at \in {"leaving", "ended"} => run # "running" /\ ~appOpen

\* README.md:450: a stream is run.started, events, and one record that ends it; a
\* failure without a run is an error of its own (as is one of closing, at last).
StreamIsWhole ==
    mode = "jsonl" =>
      /\ received # <<>> => received[1] \in {"started", "error"}
      /\ \A i \in DOMAIN received :
           /\ received[i] = "started" => i = 1
           /\ received[i] = "error" => cleanup \/ (i = 1 /\ ~started)
           /\ received[i] \in {"finished", "failed"} =>
                 \A j \in i + 1..Len(received) : received[j] = "error" /\ cleanup
      /\ at = "ended" /\ reader /\ started /\ ~(force /\ exitCode = 130) =>
           \E i \in DOMAIN received : received[i] \in {"finished", "failed"}

\* README.md:445: 0 only for a run that is done or waits, and whose result was
\* delivered; 130 only after a signal.  The commands of a review set no exit code for
\* a run that failed, and are excepted.
ExitIsTrue ==
    at = "ended" =>
      /\ exitCode = 0 /\ command # "review" =>
           /\ run \in {"completed", "waiting"}
           /\ mode # "human" => \E i \in DOMAIN received : received[i] = Terminal
      /\ exitCode = 130 => signals > 0
      /\ signals = 1 /\ run = "cancelled" /\ command # "review" /\ reader /\ ~failure /\ ~cleanup =>
           exitCode = 130

\* A stream that is known to have failed is not written to.
CliInv == JoinedFirst /\ StreamIsWhole /\ ExitIsTrue
=============================================================================
