----------------------------- MODULE ExclusiveRun -----------------------------
(***************************************************************************)
(* What the store and the runtime together promise of one run, with no     *)
(* database, no process ids and no steps in order: at any time at most one *)
(* living worker holds the run, only the holder makes progress, progress   *)
(* is never lost, the run changes hands only after its holder let go of it *)
(* or died, and a closed run is closed for good.                           *)
(***************************************************************************)
CONSTANTS Workers, Tasks, Nobody

VARIABLES
    phase,    \* "new", "taken", "open" (may be resumed) or "closed"
    holder,   \* the worker that holds the run, or Nobody
    life,     \* life[w]: "unborn", "up" or "dead"
    done      \* the tasks completed so far

vars == <<phase, holder, life, done>>

Init ==
    /\ phase = "new"
    /\ holder = Nobody
    /\ life = [w \in Workers |-> "unborn"]
    /\ done = {}

Join(w) ==
    /\ life[w] = "unborn"
    /\ life' = [life EXCEPT ![w] = "up"]
    /\ UNCHANGED <<phase, holder, done>>

Leave(w) ==
    /\ life[w] = "up"
    /\ life' = [life EXCEPT ![w] = "dead"]
    /\ UNCHANGED <<phase, holder, done>>

Take(w) ==
    /\ life[w] = "up"
    /\ phase \in {"new", "open"}
    /\ holder = Nobody
    /\ phase' = "taken"
    /\ holder' = w
    /\ UNCHANGED <<life, done>>

Work(w) ==
    /\ holder = w /\ life[w] = "up" /\ phase = "taken"
    /\ done' \in SUBSET Tasks
    /\ done \subseteq done'
    /\ UNCHANGED <<phase, holder, life>>

Settle(w) ==
    /\ holder = w /\ life[w] = "up" /\ phase = "taken"
    /\ phase' \in {"open", "closed"}
    /\ holder' = Nobody
    /\ UNCHANGED <<life, done>>

\* The holder fails in a way it cannot record and only lets go.
LetGo(w) ==
    /\ holder = w /\ life[w] = "up" /\ phase = "taken"
    /\ holder' = Nobody
    /\ UNCHANGED <<phase, life, done>>

Recover ==
    /\ phase = "taken"
    /\ holder # Nobody => life[holder] = "dead"
    /\ phase' = "open"
    /\ holder' = Nobody
    /\ UNCHANGED <<life, done>>

Next ==
    \/ Recover
    \/ \E w \in Workers :
          Join(w) \/ Leave(w) \/ Take(w) \/ Work(w) \/ Settle(w) \/ LetGo(w)

Spec == Init /\ [][Next]_vars
=============================================================================
