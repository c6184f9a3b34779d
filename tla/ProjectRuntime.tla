--------------------------- MODULE ProjectRuntime ---------------------------
(***************************************************************************)
(* createPersonalWebRuntime (src/src/application/web-runtime.ts): the      *)
(* project the web launcher has open.  selectProject and                   *)
(* closeActiveProject are requests of any browser tab (web/routes.ts); a   *)
(* request is a chain of awaits, and other requests run between them.      *)
(*                                                                         *)
(* A host is named by the selectProject call that opened it.  Opening a    *)
(* project takes the lease on its data directory (module DataDirectory),   *)
(* so it fails while another host of this process has it.  A host closes   *)
(* when its operation has settled (module ExecutionHost).                  *)
(*                                                                         *)
(* Steps of a call: "free", then listing -> leaving -> opening -> owning   *)
(* (-> undoing), and in the end "resolved" or "rejected".  A call refused  *)
(* at once changes nothing and is not an action.                           *)
(***************************************************************************)
EXTENDS Naturals

CONSTANTS
    Projects,
    MaxCalls    \* bound: requests

VARIABLES
    calls,      \* calls[c]: [project, step, leaves], leaves: the host it awaits
    host,       \* host[c]: the host call c opened
    busy,       \* hosts with an operation in progress
    active,     \* the published host, or 0
    closed,     \* close() was called
    closer,     \* close(): the host it awaits, or 0
    overlapped  \* a request arrived while another was in progress (history)

vars == <<calls, host, busy, active, closed, closer, overlapped>>

Calls == 1..MaxCalls
Settled == {"resolved", "rejected"}
Steps == {"free", "listing", "leaving", "opening", "owning", "undoing"} \cup Settled

Call == [project : Projects \cup {"none"}, step : Steps, leaves : 0..MaxCalls]
Free == [project |-> "none", step |-> "free", leaves |-> 0]

TypeOK ==
    /\ calls \in [Calls -> Call]
    /\ host \in [Calls -> {"none", "open", "closing", "closed"}]
    /\ busy \subseteq {c \in Calls : host[c] \in {"open", "closing"}}
    /\ active \in 0..MaxCalls
    /\ closed \in BOOLEAN
    /\ closer \in 0..MaxCalls
    /\ overlapped \in BOOLEAN

Init ==
    /\ calls = [c \in Calls |-> Free]
    /\ host = [c \in Calls |-> "none"]
    /\ busy = {}
    /\ active = 0
    /\ closed = FALSE
    /\ closer = 0
    /\ overlapped = FALSE

InProgress(c) == calls[c].step \notin {"free"} \cup Settled

\* Nobody keeps a tab from sending a request while another is in progress.
Admit == overlapped' = (overlapped \/ \E c \in Calls : InProgress(c))

Go(c, step) == calls' = [calls EXCEPT ![c].step = step]

\* Mutant: the host is closed but stays published until it is replaced.
Leave_Published(h) ==
    /\ active' = active
    /\ host' = [host EXCEPT ![h] = "closing"]

\* active = undefined, and close() of the host begins, in one turn.
Leave(h) ==
    /\ active' = 0
    /\ host' = [host EXCEPT ![h] = "closing"]

\* Mutant: assertIdle is missing.
Idle_Always(h) == TRUE

Idle(h) == h \notin busy

-----------------------------------------------------------------------------
(* Requests *)

Arrives(c) ==
    /\ ~closed
    /\ calls[c].step = "free"
    /\ \A b \in 1..(c - 1) : calls[b].step # "free"
    /\ Admit

SelectProject(c, p) ==
    /\ Arrives(c)
    /\ calls' = [calls EXCEPT ![c] = [project |-> p, step |-> "listing", leaves |-> 0]]
    /\ UNCHANGED <<host, busy, active, closed, closer>>

CloseActiveProject(c) ==
    /\ Arrives(c)
    /\ active # 0
    /\ Idle(active)
    /\ calls' = [calls EXCEPT ![c] = [project |-> "none", step |-> "leaving", leaves |-> active]]
    /\ Leave(active)
    /\ UNCHANGED <<busy, closed, closer>>

\* The catalog is listed; everything up to the next await is one turn.
NotSelectable(c) ==
    /\ calls[c].step = "listing"
    /\ Go(c, "rejected")
    /\ UNCHANGED <<host, busy, active, closed, closer, overlapped>>

AlreadyActive(c) ==
    /\ calls[c].step = "listing"
    /\ active # 0 /\ calls[active].project = calls[c].project
    /\ Go(c, "resolved")
    /\ UNCHANGED <<host, busy, active, closed, closer, overlapped>>

ActiveBusy(c) ==
    /\ calls[c].step = "listing"
    /\ active # 0 /\ calls[active].project # calls[c].project
    /\ ~Idle(active)
    /\ Go(c, "rejected")
    /\ UNCHANGED <<host, busy, active, closed, closer, overlapped>>

\* Mutant: the next project is opened without waiting for, or closing, the previous one.
LeaveActive_Keep(c) ==
    /\ calls[c].step = "listing"
    /\ active # 0 /\ calls[active].project # calls[c].project
    /\ Idle(active)
    /\ Go(c, "opening")
    /\ UNCHANGED <<host, busy, active, closed, closer, overlapped>>

LeaveActive(c) ==
    /\ calls[c].step = "listing"
    /\ active # 0 /\ calls[active].project # calls[c].project
    /\ Idle(active)
    /\ calls' = [calls EXCEPT ![c].step = "leaving", ![c].leaves = active]
    /\ Leave(active)
    /\ UNCHANGED <<busy, closed, closer, overlapped>>

NothingActive(c) ==
    /\ calls[c].step = "listing"
    /\ active = 0
    /\ Go(c, "opening")
    /\ UNCHANGED <<host, busy, active, closed, closer, overlapped>>

\* await previous.host.close()
Left(c) ==
    /\ calls[c].step = "leaving"
    /\ host[calls[c].leaves] = "closed"
    /\ Go(c, IF calls[c].project = "none" THEN "resolved" ELSE "opening")
    /\ UNCHANGED <<host, busy, active, closed, closer, overlapped>>

LeaseFree(p) ==
    \A h \in Calls : host[h] \in {"open", "closing"} => calls[h].project # p

OpenProject(c) ==
    /\ calls[c].step = "opening"
    /\ LeaseFree(calls[c].project)
    /\ Go(c, "owning")
    /\ host' = [host EXCEPT ![c] = "open"]
    /\ UNCHANGED <<busy, active, closed, closer, overlapped>>

OpenFails(c) ==
    /\ calls[c].step = "opening"
    /\ Go(c, "rejected")
    /\ UNCHANGED <<host, busy, active, closed, closer, overlapped>>

Publish(c) ==
    /\ calls[c].step = "owning"
    /\ Go(c, "resolved")
    /\ active' = c
    /\ UNCHANGED <<host, busy, closed, closer, overlapped>>

\* Mutant: the catch of updateOwnership without next.host.close().
OwnershipFails_Leak(c) ==
    /\ calls[c].step = "owning"
    /\ Go(c, "rejected")
    /\ UNCHANGED <<host, busy, active, closed, closer, overlapped>>

\* updateOwnership fails: the host just opened is closed again.
OwnershipFails(c) ==
    /\ calls[c].step = "owning"
    /\ Go(c, "undoing")
    /\ host' = [host EXCEPT ![c] = "closing"]
    /\ UNCHANGED <<busy, active, closed, closer, overlapped>>

Undone(c) ==
    /\ calls[c].step = "undoing"
    /\ host[c] = "closed"
    /\ Go(c, "rejected")
    /\ UNCHANGED <<host, busy, active, closed, closer, overlapped>>

-----------------------------------------------------------------------------
(* close, and the hosts *)

Close ==
    /\ ~closed
    /\ Admit
    /\ closed' = TRUE
    /\ closer' = active
    /\ IF active = 0 THEN UNCHANGED <<host, active>> ELSE Leave(active)
    /\ UNCHANGED <<calls, busy>>

HostCloses(h) ==
    /\ host[h] = "closing"
    /\ h \notin busy
    /\ host' = [host EXCEPT ![h] = "closed"]
    /\ UNCHANGED <<calls, busy, active, closed, closer, overlapped>>

\* Operations come in through the published host only.
OperationBegins ==
    /\ active # 0
    /\ busy' = busy \cup {active}
    /\ UNCHANGED <<calls, host, active, closed, closer, overlapped>>

OperationEnds(h) ==
    /\ busy' = busy \ {h}
    /\ UNCHANGED <<calls, host, active, closed, closer, overlapped>>

Next ==
    \/ \E c \in Calls :
         \/ \E p \in Projects : SelectProject(c, p)
         \/ CloseActiveProject(c)
         \/ NotSelectable(c) \/ AlreadyActive(c) \/ ActiveBusy(c)
         \/ LeaveActive(c) \/ NothingActive(c) \/ Left(c)
         \/ OpenProject(c) \/ OpenFails(c)
         \/ Publish(c) \/ OwnershipFails(c) \/ Undone(c)
         \/ HostCloses(c) \/ OperationEnds(c)
    \/ Close \/ OperationBegins

Spec == Init /\ [][Next]_vars

-----------------------------------------------------------------------------
(* Properties *)

\* However requests interleave, the published host is open: nobody closes it
\* without unpublishing it in the same turn, and no call publishes a host that
\* another call closed.
ActiveIsOpen == active # 0 => host[active] = "open"

\* A request never closes a host with an operation in progress; only close() of
\* the whole runtime does (assertIdle is evaluated in the turn that unpublishes
\* the host, whatever happened during the awaits before).
BusyHostKept ==
    [][\A h \in Calls :
         host[h] = "open" /\ host'[h] = "closing" /\ h \in busy => closed' # closed]_vars

\* The launcher has one project open at a time, as long as requests come one after the
\* other.
OwnsOneUnlessOverlapped ==
    ~overlapped => \A g, h \in Calls : host[g] = "open" /\ host[h] = "open" => g = h

\* No host is left open: a selectProject that was rejected leaves none of its
\* own, also when it failed after the host was opened; and after close() has
\* settled there is none at all, hence every lease was given back, as long as
\* requests came one after the other.
NoHostLeftOpen ==
    /\ \A c \in Calls : calls[c].step = "rejected" => host[c] \in {"none", "closed"}
    /\ closed /\ ~overlapped /\ (closer # 0 => host[closer] = "closed")
         => \A h \in Calls : host[h] \in {"none", "closed"}

\* States are well formed, and the published host is one that is open.
Inv == TypeOK /\ ActiveIsOpen
=============================================================================
