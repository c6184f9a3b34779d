----------------------------- MODULE DeviceProofs ------------------------------
(***************************************************************************)
(* Proofs about Device: the lease on the data directory, for any           *)
(* processes; the execution host, for any requests and bounds; and the     *)
(* launcher, for any projects and number of calls.  The schema is left to  *)
(* TLC: what seventeen migrations make of a file is computed, not argued.  *)
(* The last part is about WebClient, the pages that ask the host and the   *)
(* launcher, for any tasks, texts, workspaces, saves and number of answers.*)
(***************************************************************************)
EXTENDS Device, WebClient, TLAPS

-----------------------------------------------------------------------------
(*  The lease.  The store is exclusive because a process between acquire   *)
(*  and close always is the owner of the lock directory (Held), and there  *)
(*  is one directory.                                                      *)

\* The phases in which a process has the lock.
Holding == {"made", "locked", "open", "stuck"}

\* A process between acquire and close owns the lock.
Owns == \A p \in Processes : phase[p] \in Holding => lock # NoLock /\ lock.owner = p

\* The invariant behind OneStore.
Held == ~mistaken => Owns

-----------------------------------------------------------------------------
(* Types *)

\* The lock directory is there once it is made, with or without its metadata.
LEMMA LockRecord ==
    ASSUME NEW p \in Processes, NEW w \in BOOLEAN
    PROVE  /\ [owner |-> p, written |-> w] \in [owner : Processes, written : BOOLEAN]
           /\ [owner |-> p, written |-> w] # NoLock
<1>1. [owner |-> p, written |-> w] \in [owner : Processes, written : BOOLEAN]
  OBVIOUS
<1> QED
  BY <1>1, NoLockAssumption

LEMMA DirectorySteps == [DeviceNext]_deviceVars => [Next]_vars
  BY DEF DeviceNext, deviceVars

\* What the program holds in the lock, the phases and the run rows has its type,
\* and a run row says "running" only of a process that has the store open or
\* died (every action of DataDirectory).
LEMMA DirectoryTypes == DeviceSpec => []TypeOK
<1>1. DeviceInit => TypeOK
  BY DEF DeviceInit, Init, NoDirectory, TypeOK, Phases
<1>2. TypeOK /\ [Next]_vars => TypeOK'
  <2> SUFFICES ASSUME TypeOK, [Next]_vars PROVE TypeOK'
    OBVIOUS
  <2> USE DEF TypeOK, Phases
  <2>1. ASSUME NEW p \in Processes, Acquire(p) PROVE TypeOK'
    <3>1. CASE MakeDirectory(p)
      BY <3>1 DEF MakeDirectory, Move
    <3>2. CASE WriteMetadata(p)
      BY <3>2 DEF WriteMetadata, Move
    <3>3. CASE WriteFails(p)
      BY <3>3 DEF WriteFails, Move
    <3> QED
      BY <2>1, <3>1, <3>2, <3>3 DEF Acquire
  <2>2. ASSUME NEW p \in Processes, OpenOrRefuse(p) PROVE TypeOK'
    BY <2>2 DEF OpenOrRefuse, OpenStore, OpenBroken, OpenRefused, Released, Move
  <2>3. ASSUME NEW p \in Processes, StartRun(p) \/ EndRun(p) PROVE TypeOK'
    BY <2>3 DEF StartRun, EndRun
  <2>4. ASSUME NEW p \in Processes, Close(p) PROVE TypeOK'
    BY <2>4 DEF Close, Released, Move
  <2>5. ASSUME NEW p \in Processes, Crash(p) PROVE TypeOK'
    BY <2>5 DEF Crash
  <2>6. ASSUME NEW p \in Processes, NEW q \in Processes, MarkInterrupted(p, q) PROVE TypeOK'
    BY <2>6 DEF MarkInterrupted
  <2>7. CASE ClearLock \/ ClearMistaken
    BY <2>7 DEF ClearLock, ClearMistaken
  <2>8. CASE UNCHANGED vars
    BY <2>8 DEF vars
  <2> QED
    BY <2>1, <2>2, <2>3, <2>4, <2>5, <2>6, <2>7, <2>8 DEF Next
<1> QED
  BY <1>1, <1>2, DirectorySteps, PTL DEF DeviceSpec

-----------------------------------------------------------------------------
(* Exclusion *)

\* Every step keeps Owns, but the removal of a living process's lock.
LEMMA OwnsStep ==
    ASSUME TypeOK, Owns, [Next]_vars, ~ClearMistaken
    PROVE  Owns'
<1> USE NoLockAssumption DEF Owns, Holding, TypeOK, Phases
<1>1. ASSUME NEW p \in Processes, MakeDirectory(p) PROVE Owns'
  <2>1. lock' # NoLock /\ lock'.owner = p
    BY <1>1, LockRecord DEF MakeDirectory
  <2>2. \A q \in Processes \ {p} : phase'[q] = phase[q] /\ phase[q] \notin Holding
    BY <1>1 DEF MakeDirectory, Move
  <2> QED
    BY <2>1, <2>2
<1>2. ASSUME NEW p \in Processes, WriteMetadata(p) PROVE Owns'
  <2>1. lock' # NoLock /\ lock'.owner = p
    BY <1>2, LockRecord DEF WriteMetadata
  <2>2. \A q \in Processes \ {p} : phase'[q] = phase[q] /\ phase[q] \notin Holding
    BY <1>2 DEF WriteMetadata, Move
  <2> QED
    BY <2>1, <2>2
<1>3. ASSUME NEW p \in Processes, WriteFails(p) \/ OpenRefused(p) \/ Close(p) PROVE Owns'
  <2>1. phase[p] \in Holding /\ phase'[p] = "done"
    BY <1>3 DEF WriteFails, OpenRefused, Close, Move
  <2>2. \A q \in Processes \ {p} : phase'[q] = phase[q] /\ phase[q] \notin Holding
    BY <1>3, <2>1 DEF WriteFails, OpenRefused, Close, Move
  <2> QED
    BY <2>1, <2>2
<1>4. ASSUME NEW p \in Processes, OpenStore(p) \/ OpenBroken(p) \/ Crash(p) PROVE Owns'
  BY <1>4 DEF OpenStore, OpenBroken, Crash, Move
<1>5. ASSUME NEW p \in Processes, StartRun(p) \/ EndRun(p) PROVE Owns'
  BY <1>5 DEF StartRun, EndRun
<1>6. ASSUME NEW p \in Processes, NEW q \in Processes, MarkInterrupted(p, q) PROVE Owns'
  BY <1>6 DEF MarkInterrupted
<1>7. CASE ClearLock
  <2>1. phase[lock.owner] = "dead" /\ phase' = phase
    BY <1>7 DEF ClearLock
  <2>2. \A q \in Processes : phase[q] \notin Holding
    BY <2>1
  <2> QED
    BY <2>1, <2>2
<1>8. CASE UNCHANGED vars
  BY <1>8 DEF vars
<1> QED
  BY <1>1, <1>2, <1>3, <1>4, <1>5, <1>6, <1>7, <1>8
     DEF Next, Acquire, OpenOrRefuse

\* A mistake is never forgotten, and only ClearMistaken makes one.
LEMMA MistakeStep ==
    ASSUME [Next]_vars, ~mistaken'
    PROVE  ~mistaken /\ ~ClearMistaken
BY DEF Next, vars, Acquire, MakeDirectory, WriteMetadata, WriteFails, OpenOrRefuse,
       OpenStore, OpenBroken, OpenRefused, StartRun, EndRun, MarkInterrupted, Close, Crash,
       ClearLock, ClearMistaken

\* Two processes never have the store of one data directory open at the same
\* time, whatever crashes and fails, until somebody removes the lock of a live
\* process by hand (acquire and release, data-directory-lock.ts).
THEOREM StoreExclusion == DeviceSpec => []OneStore
<1>1. DeviceInit => Held
  BY DEF DeviceInit, Init, NoDirectory, Held, Owns, Holding
<1>2. TypeOK /\ Held /\ [Next]_vars => Held'
  <2> SUFFICES ASSUME TypeOK, Held, [Next]_vars, ~mistaken' PROVE Owns'
    BY DEF Held
  <2> QED
    BY MistakeStep, OwnsStep DEF Held
<1>3. Held => OneStore
  BY DEF Held, Owns, Holding, OneStore, HasStore
<1> QED
  BY <1>1, <1>2, <1>3, DirectoryTypes, DirectorySteps, PTL DEF DeviceSpec

-----------------------------------------------------------------------------
(* Release *)

\* A process between mkdir and the writing of the metadata owns a lock without
\* metadata, which nobody removes while it lives.
Made == \A p \in Processes : phase[p] = "made" => lock = [owner |-> p, written |-> FALSE]

LEMMA MadeInvariant == DeviceSpec => []Made
<1> USE NoLockAssumption DEF Made, TypeOK, Phases
<1>1. DeviceInit => Made
  BY DEF DeviceInit, Init, NoDirectory
<1>2. TypeOK /\ Made /\ [Next]_vars => Made'
  <2> SUFFICES ASSUME TypeOK, Made, [Next]_vars PROVE Made'
    OBVIOUS
  <2>1. ASSUME NEW p \in Processes, Acquire(p) PROVE Made'
    <3>1. CASE MakeDirectory(p)
      <4>1. \A q \in Processes : phase[q] # "made"
        BY <3>1, LockRecord DEF MakeDirectory
      <4> QED
        BY <3>1, <4>1 DEF MakeDirectory, Move
    <3>2. CASE WriteMetadata(p) \/ WriteFails(p)
      <4>1. phase'[p] # "made" /\ lock = [owner |-> p, written |-> FALSE]
        BY <3>2 DEF WriteMetadata, WriteFails, Move
      <4>2. \A q \in Processes \ {p} : phase'[q] = phase[q] /\ phase[q] # "made"
        <5>1. \A q \in Processes \ {p} : [owner |-> q, written |-> FALSE].owner # lock.owner
          BY <4>1
        <5> QED
          BY <3>2, <5>1 DEF WriteMetadata, WriteFails, Move
      <4> QED
        BY <4>1, <4>2
    <3> QED
      BY <2>1, <3>1, <3>2 DEF Acquire
  <2>2. ASSUME NEW p \in Processes, OpenRefused(p) \/ Close(p) PROVE Made'
    <3>1. phase'[p] # "made" /\ phase[p] # "made"
      BY <2>2 DEF OpenRefused, Close, Move
    <3>2. \A q \in Processes : phase'[q] = "made" => phase[q] = "made" /\ q # p
      BY <2>2, <3>1 DEF OpenRefused, Close, Move
    <3>3. \A q \in Processes : phase[q] = "made" /\ q # p => lock' = lock
      BY <2>2 DEF OpenRefused, Close, Released
    <3> QED
      BY <3>2, <3>3
  <2>3. ASSUME NEW p \in Processes, OpenStore(p) \/ OpenBroken(p) \/ Crash(p) PROVE Made'
    BY <2>3 DEF OpenStore, OpenBroken, Crash, Move
  <2>4. ASSUME NEW p \in Processes, StartRun(p) \/ EndRun(p) PROVE Made'
    BY <2>4 DEF StartRun, EndRun
  <2>5. ASSUME NEW p \in Processes, NEW q \in Processes, MarkInterrupted(p, q) PROVE Made'
    BY <2>5 DEF MarkInterrupted
  <2>6. CASE ClearLock \/ ClearMistaken
    <3>1. phase' = phase /\ \A q \in Processes : phase[q] # "made"
      BY <2>6 DEF ClearLock, ClearMistaken
    <3> QED
      BY <3>1
  <2>7. CASE UNCHANGED vars
    BY <2>7 DEF vars
  <2> QED
    BY <2>1, <2>2, <2>3, <2>4, <2>5, <2>6, <2>7 DEF Next, OpenOrRefuse
<1> QED
  BY <1>1, <1>2, DirectoryTypes, DirectorySteps, PTL DEF DeviceSpec

\* A lock goes away only by a step of its owner or by hand, also after locks
\* were removed by mistake (the comparison in releaseDataDirectoryLock).
THEOREM ReleaseIsOwn == DeviceSpec => OnlyHolderReleases
<1> DEFINE Own == lock # NoLock /\ lock' = NoLock
                     => phase'[lock.owner] # phase[lock.owner] \/ ClearLock \/ ClearMistaken
<1>1. TypeOK /\ Made /\ [Next]_vars => [Own]_vars
  <2> SUFFICES ASSUME TypeOK, Made, [Next]_vars, lock # NoLock, lock' = NoLock,
                      ~ClearLock, ~ClearMistaken
               PROVE  phase'[lock.owner] # phase[lock.owner]
    BY DEF vars
  <2> USE NoLockAssumption DEF TypeOK
  <2>1. PICK p \in Processes : WriteFails(p) \/ OpenRefused(p) \/ Close(p)
    <3>1. \A p \in Processes : ~MakeDirectory(p) /\ ~WriteMetadata(p)
      BY LockRecord DEF MakeDirectory, WriteMetadata
    <3>2. lock' # lock
      OBVIOUS
    <3> QED
      BY <3>1, <3>2 DEF Next, vars, Acquire, OpenOrRefuse, OpenStore, OpenBroken, StartRun, EndRun,
                        Crash, MarkInterrupted
  <2>2. lock.owner = p
    BY <2>1 DEF WriteFails, OpenRefused, Close, Released, Move, Made
  <2>3. phase'[p] # phase[p]
    BY <2>1 DEF WriteFails, OpenRefused, Close, Move
  <2> QED
    BY <2>2, <2>3
<1> QED
  BY <1>1, DirectoryTypes, MadeInvariant, DirectorySteps, PTL DEF DeviceSpec, OnlyHolderReleases

-----------------------------------------------------------------------------
(* Nothing is left behind *)

\* A process that closes, or is refused where the open catches it, gives its lock back;
\* a lock stays only with who holds it, died with it or threw later in the open; and a
\* run row says "running" only of a process that has the store open or died. For any
\* number of processes.
THEOREM DirectoryHolds == DeviceSpec => []DirectoryInv
<1>1. DeviceInit => NoLockLeftBehind
  BY DEF DeviceInit, Init, NoDirectory, NoLockLeftBehind
<1>2. TypeOK /\ NoLockLeftBehind /\ [Next]_vars => NoLockLeftBehind'
  <2> SUFFICES ASSUME TypeOK, NoLockLeftBehind, [Next]_vars PROVE NoLockLeftBehind'
    OBVIOUS
  <2> USE DEF TypeOK, Phases, NoLockLeftBehind
  <2>1. ASSUME NEW p \in Processes, MakeDirectory(p) \/ WriteMetadata(p) PROVE NoLockLeftBehind'
    <3>1. lock'.owner = p /\ phase'[p] \in {"made", "locked"}
      BY <2>1 DEF MakeDirectory, WriteMetadata, Move
    <3> QED
      BY <3>1
  <2>2. ASSUME NEW p \in Processes, WriteFails(p) \/ OpenRefused(p) \/ Close(p)
        PROVE  NoLockLeftBehind'
    <3>1. lock' = NoLock \/ (lock' = lock /\ lock.owner # p)
      BY <2>2 DEF WriteFails, OpenRefused, Close, Released
    <3>2. \A q \in Processes \ {p} : phase'[q] = phase[q]
      BY <2>2 DEF WriteFails, OpenRefused, Close, Move
    <3> QED
      BY <3>1, <3>2
  <2>3. ASSUME NEW p \in Processes, OpenStore(p) \/ OpenBroken(p) \/ Crash(p) PROVE NoLockLeftBehind'
    BY <2>3 DEF OpenStore, OpenBroken, Crash, Move
  <2>4. ASSUME NEW p \in Processes, StartRun(p) \/ EndRun(p) \/ \E q \in Processes : MarkInterrupted(p, q)
        PROVE  NoLockLeftBehind'
    BY <2>4 DEF StartRun, EndRun, MarkInterrupted
  <2>5. CASE ClearLock \/ ClearMistaken \/ UNCHANGED vars
    BY <2>5 DEF ClearLock, ClearMistaken, vars
  <2> QED
    BY <2>1, <2>2, <2>3, <2>4, <2>5 DEF Next, Acquire, OpenOrRefuse
<1> QED
  BY <1>1, <1>2, DirectoryTypes, DirectorySteps, PTL DEF DeviceSpec, DirectoryInv

-----------------------------------------------------------------------------
(* The host *)

\* What an operation is: its receipt is pending until it runs, it stays before the check
\* it was aborted before, and it is over when a cancel is answered.
Stands(o) ==
    /\ o.phase # "over" => o.receipt = "pending" \/ (o.receipt = "resolved" /\ o.phase = "running")
    /\ o.phase # "over" /\ o.aborted \in H!Unchecked =>
         o.phase = o.aborted \/ (o.phase = "persisted" /\ o.aborted = "persisting")
    /\ o.phase = "over" /\ o.aborted \in H!Unchecked => o.receipt # "resolved"
    /\ o.cancel = "acked" => o.phase = "over"

\* The row of a request, and the run in it is the one that was asked for.
IsRecorded(r, db) ==
    db[r.key] # NoRow /\ (r.form = "resume" \/ db[r.key].content = r.content)

Operations ==
    \A i \in H!Ops : ops[i] # H!Free =>
        /\ Stands(ops[i])
        /\ ops[i].phase \in {"created", "persisted", "running"} => IsRecorded(ops[i].request, rows)

\* close() waits for the slot, then for the queries, and nothing begins meanwhile.
ClosesInOrder ==
    /\ finishing # "no" => closing
    /\ finishing \in {"queries", "done"} => \A i \in H!Ops : ~H!Live(i)
    /\ finishing = "done" => queries = 0
    /\ ~storeOpen => finishing = "done"

Answered == \A r \in told : IsRecorded(r, rows)

HostAgreed == H!TypeOK /\ H!OneOperation /\ Operations /\ ClosesInOrder /\ Answered

\* No row is lost, and none gets other contents.
RowsKept(k) == rows[k] # NoRow => rows'[k] # NoRow /\ rows'[k].content = rows[k].content

LEMMA IsFree ==
  ASSUME H!TypeOK, NEW i \in H!Ops
  PROVE  /\ ops[i].phase = "free" <=> ops[i] = H!Free
         /\ ops[i] # H!Free => ops[i] \in H!Op
  BY DEF H!TypeOK, H!Op, H!Phases, H!Free

LEMMA RecordedStays ==
  ASSUME NEW r, RowsKept(r.key), IsRecorded(r, rows)
  PROVE  IsRecorded(r, rows')
  BY DEF RowsKept, IsRecorded

\* The operation in the slot becomes o.
LEMMA HostGoesOn ==
  ASSUME HostAgreed, NEW i \in H!Ops, H!Live(i), NEW o \in H!Op,
         o.request = ops[i].request, Stands(o),
         ops' = [ops EXCEPT ![i] = o],
         slot' = IF o.phase = "over" THEN 0 ELSE slot,
         rows' \in [H!Keys -> [content : H!Contents, active : BOOLEAN] \cup {NoRow}],
         \A k \in H!Keys : RowsKept(k),
         o.phase \in {"created", "persisted", "running"} => IsRecorded(o.request, rows'),
         told' = told \/ (told' = told \cup {o.request} /\ IsRecorded(o.request, rows')),
         failed' \in BOOLEAN,
         UNCHANGED <<closing, finishing, queries, storeOpen, lives>>
  PROVE  HostAgreed'
<1>1. /\ ops'[i] = o /\ ops' \in [H!Ops -> H!Op \cup {H!Free}]
      /\ \A j \in H!Ops : j # i => ops'[j] = ops[j]
  BY DEF HostAgreed, H!TypeOK
<1>2. o.request \in Requests /\ o.phase # "free"
  BY DEF H!Op, H!Phases
<1>3. slot = i /\ \A j \in H!Ops : H!Live(j) => j = i
  BY DEF HostAgreed, H!OneOperation
<1>4. H!TypeOK'
  BY <1>1, <1>2 DEF HostAgreed, H!TypeOK
<1>5. H!OneOperation'
  <2>1. 0 \notin H!Ops
    BY DEF H!Ops
  <2> QED
    BY <1>1, <1>2, <1>3, <2>1 DEF H!OneOperation, H!Live
<1>6. Operations'
  <2> SUFFICES ASSUME NEW j \in H!Ops, ops'[j] # H!Free
               PROVE  /\ Stands(ops'[j])
                      /\ ops'[j].phase \in {"created", "persisted", "running"} =>
                           IsRecorded(ops'[j].request, rows')
    BY DEF Operations
  <2>1. CASE j = i
    BY <1>1, <2>1
  <2>2. CASE j # i
    <3>1. ops'[j] = ops[j] /\ ops[j] # H!Free /\ ~H!Live(j)
      BY <1>1, <1>3, <2>2
    <3>2. ops[j].phase \notin {"created", "persisted", "running"}
      BY <3>1 DEF H!Live
    <3> QED
      BY <3>1, <3>2 DEF HostAgreed, Operations
  <2> QED
    BY <2>1, <2>2
<1>7. ClosesInOrder'
  BY <1>3 DEF HostAgreed, ClosesInOrder
<1>8. Answered'
  <2>1. ASSUME NEW r \in told PROVE IsRecorded(r, rows')
    <3>1. r.key \in H!Keys
      BY DEF HostAgreed, H!TypeOK, H!Keys
    <3> QED
      BY <3>1, RecordedStays DEF HostAgreed, Answered
  <2> QED
    BY <2>1 DEF Answered
<1> QED
  BY <1>4, <1>5, <1>6, <1>7, <1>8 DEF HostAgreed

\* A step of the operation that changes no rows.
LEMMA HostMoves ==
  ASSUME HostAgreed, NEW i \in H!Ops, H!Live(i), NEW o \in H!Op,
         o.request = ops[i].request, Stands(o),
         ops' = [ops EXCEPT ![i] = o],
         slot' = IF o.phase = "over" THEN 0 ELSE slot,
         o.phase \in {"created", "persisted", "running"} => IsRecorded(o.request, rows),
         UNCHANGED <<rows, told, closing, finishing, queries, storeOpen, lives>>, failed' \in BOOLEAN
  PROVE  HostAgreed'
<1>1. rows' \in [H!Keys -> [content : H!Contents, active : BOOLEAN] \cup {NoRow}]
  BY DEF HostAgreed, H!TypeOK
<1>2. \A k \in H!Keys : RowsKept(k)
  BY DEF RowsKept
<1>3. o.phase \in {"created", "persisted", "running"} => IsRecorded(o.request, rows')
  BY DEF IsRecorded
<1> QED
  BY <1>1, <1>2, <1>3, HostGoesOn

\* The operation in the slot, and what is known of it.
LEMMA InSlot ==
  ASSUME HostAgreed, NEW i \in H!Ops, ops[i].phase \notin {"free", "over"}
  PROVE  /\ H!Live(i) /\ slot = i /\ ops[i] \in H!Op /\ Stands(ops[i])
         /\ ops[i].request \in Requests /\ ops[i].request.key \in H!Keys
         /\ ops[i].request.content \in H!Contents
         /\ ops[i].phase \in {"created", "persisted", "running"} => IsRecorded(ops[i].request, rows)
<1>1. H!Live(i) /\ ops[i] \in H!Op /\ ops[i] # H!Free
  BY IsFree DEF HostAgreed, H!Live
<1>2. slot = i /\ Stands(ops[i])
  BY <1>1 DEF HostAgreed, H!OneOperation, Operations
<1>3. ops[i].request \in Requests
  BY <1>1 DEF H!Op
<1> QED
  BY <1>1, <1>2, <1>3 DEF HostAgreed, Operations, H!Keys, H!Contents

LEMMA HostAborts ==
  ASSUME HostAgreed, NEW i \in H!Ops, H!Cancel(i) \/ H!AbortPreparation(i)
  PROVE  HostAgreed'
<1>1. ops[i].phase \notin {"free", "over"}
  BY DEF H!Cancel, H!AbortPreparation, HostAgreed, H!OneOperation, H!Live
<1>2. PICK o \in {H!Aborted(ops[i]), [H!Aborted(ops[i]) EXCEPT !.cancel = "waiting"]} :
        ops' = [ops EXCEPT ![i] = o]
  BY DEF H!Cancel, H!AbortPreparation, HostAgreed, H!TypeOK
<1>3. /\ o \in H!Op /\ o.request = ops[i].request /\ o.phase = ops[i].phase
      /\ o.receipt = ops[i].receipt /\ o.cancel \in {ops[i].cancel, "waiting"}
      /\ o.aborted = IF ops[i].aborted = "no" THEN ops[i].phase ELSE ops[i].aborted
  BY <1>1, <1>2, InSlot DEF H!Aborted, H!Op
<1>4. Stands(o)
  BY <1>1, <1>3, InSlot DEF Stands
<1>5. UNCHANGED <<rows, told, slot, failed, closing, finishing, queries, storeOpen, lives>>
  BY DEF H!Cancel, H!AbortPreparation, H!durable
<1>6. failed' \in BOOLEAN
  BY <1>5 DEF HostAgreed, H!TypeOK
<1> QED
  BY <1>1, <1>2, <1>3, <1>4, <1>5, <1>6, InSlot, HostMoves

\* The operation is at the phase p, or over with the receipt.
LEMMA Refused ==
  ASSUME HostAgreed, NEW i \in H!Ops,
         ops[i].phase \in {"finding", "validating", "creating", "created", "persisting", "persisted"},
         H!Finish(i, "rejected"), UNCHANGED <<told, failed, closing, finishing, queries, storeOpen, lives>>,
         rows' = rows \/ (ops[i].phase = "created" /\ rows' = [rows EXCEPT ![H!Request(i).key].active = FALSE])
  PROVE  HostAgreed'
<1> DEFINE o == [ops[i] EXCEPT !.phase = "over", !.receipt = "rejected"]
<1>1. ops[i] \in H!Op /\ Stands(ops[i]) /\ H!Live(i) /\ slot = i
  BY InSlot
<1>2. o \in H!Op /\ o.request = ops[i].request /\ Stands(o) /\ o.phase = "over"
  BY <1>1 DEF Stands, H!Op, H!Phases
<1>3. ops' = [ops EXCEPT ![i] = o] /\ slot' = 0
  BY <1>1 DEF H!Finish, HostAgreed, H!TypeOK
<1>4. /\ rows' \in [H!Keys -> [content : H!Contents, active : BOOLEAN] \cup {NoRow}]
      /\ \A k \in H!Keys : RowsKept(k)
  <2>1. CASE rows' = rows
    BY <2>1 DEF HostAgreed, H!TypeOK, RowsKept
  <2>2. CASE ops[i].phase = "created" /\ rows' = [rows EXCEPT ![H!Request(i).key].active = FALSE]
    <3>1. rows[ops[i].request.key] # NoRow /\ ops[i].request.key \in H!Keys
      BY <2>2, InSlot DEF IsRecorded
    <3> QED
      BY <2>2, <3>1, HostAssumption DEF HostAgreed, H!TypeOK, RowsKept, H!Request, H!Contents
  <2> QED
    BY <2>1, <2>2
<1>5. failed' \in BOOLEAN
  BY DEF HostAgreed, H!TypeOK
<1> HIDE DEF o
<1> QED
  BY <1>1, <1>2, <1>3, <1>4, <1>5, HostGoesOn

LEMMA HostRefuses ==
  ASSUME HostAgreed, NEW i \in H!Ops, H!RefuseEarly(i) \/ H!CreateFails(i) \/ H!RefusePersisted(i)
  PROVE  HostAgreed'
<1>1. H!Finish(i, "rejected") /\ UNCHANGED <<told, failed, closing, finishing, queries, storeOpen, lives>>
  BY DEF H!RefuseEarly, H!CreateFails, H!RefusePersisted, H!Reject
<1> QED
  BY <1>1, Refused DEF H!RefuseEarly, H!CreateFails, H!RefusePersisted

LEMMA HostFinds ==
  ASSUME HostAgreed, NEW i \in H!Ops, H!FoundNothing(i) \/ H!FoundRun(i)
  PROVE  HostAgreed'
<1>1. PICK place \in {"creating", "validating"} : ops' = [ops EXCEPT ![i].phase = place]
  BY DEF H!FoundNothing, H!FoundRun, H!Goto
<1> DEFINE o == [ops[i] EXCEPT !.phase = place]
<1>2. /\ ops[i].phase = "finding" /\ ops[i].aborted = "no"
      /\ UNCHANGED <<slot, rows, told, failed, closing, finishing, queries, storeOpen, lives>>
  BY DEF H!FoundNothing, H!FoundRun, H!Goto, H!Active, H!durable
<1>3. ops[i] \in H!Op /\ Stands(ops[i]) /\ H!Live(i)
  BY <1>2, InSlot
<1>4. o \in H!Op /\ o.request = ops[i].request /\ o.phase = place /\ Stands(o)
  BY <1>2, <1>3 DEF Stands, H!Op, H!Phases, H!Unchecked
<1>5. ops' = [ops EXCEPT ![i] = o] /\ failed' \in BOOLEAN
  BY <1>1, <1>2 DEF HostAgreed, H!TypeOK
<1> HIDE DEF o
<1> QED
  BY <1>2, <1>3, <1>4, <1>5, HostMoves

\* A request is answered with the run that has its content.
LEMMA HostReplays ==
  ASSUME HostAgreed, NEW i \in H!Ops, H!Replay(i)
  PROVE  HostAgreed'
<1> DEFINE o == [ops[i] EXCEPT !.phase = "over", !.receipt = "resolved"]
<1>1. /\ ops[i].phase = "validating" /\ ops[i].aborted = "no"
      /\ UNCHANGED <<rows, failed, closing, finishing, queries, storeOpen, lives>>
  BY DEF H!Replay, H!Active
<1>2. ops[i] \in H!Op /\ Stands(ops[i]) /\ H!Live(i) /\ slot = i
  BY <1>1, InSlot
<1>3. o \in H!Op /\ o.request = ops[i].request /\ o.phase = "over" /\ Stands(o)
  BY <1>1, <1>2 DEF Stands, H!Op, H!Phases, H!Unchecked
<1>4. ops' = [ops EXCEPT ![i] = o] /\ slot' = 0 /\ failed' \in BOOLEAN
  BY <1>1, <1>2 DEF H!Replay, H!Finish, HostAgreed, H!TypeOK
<1>5. told' = told \cup {o.request} /\ IsRecorded(o.request, rows')
  BY <1>1, <1>3 DEF H!Replay, H!SameRun, H!Request, H!Row, IsRecorded
<1>6. /\ rows' \in [H!Keys -> [content : H!Contents, active : BOOLEAN] \cup {NoRow}]
      /\ \A k \in H!Keys : RowsKept(k)
  BY <1>1 DEF HostAgreed, H!TypeOK, RowsKept
<1> HIDE DEF o
<1> QED
  BY <1>1, <1>2, <1>3, <1>4, <1>5, <1>6, HostGoesOn

LEMMA NoRowIsNone == NoRow \notin [content : H!Contents, active : BOOLEAN]
  BY HostAssumption DEF H!Contents

\* A run with the content of the request is written where there was none.
LEMMA RowWritten ==
  ASSUME HostAgreed, NEW r \in Requests, rows[r.key] = NoRow,
         rows' = [rows EXCEPT ![r.key] = [content |-> r.content, active |-> TRUE]]
  PROVE  /\ rows' \in [H!Keys -> [content : H!Contents, active : BOOLEAN] \cup {NoRow}]
         /\ \A k \in H!Keys : RowsKept(k)
         /\ IsRecorded(r, rows')
<1>1. r.key \in H!Keys /\ r.content \in H!Contents
  BY DEF H!Keys, H!Contents
<1>2. /\ [content |-> r.content, active |-> TRUE] \in [content : H!Contents, active : BOOLEAN]
      /\ [content |-> r.content, active |-> TRUE] # NoRow
  <2>1. [content |-> r.content, active |-> TRUE] \in [content : H!Contents, active : BOOLEAN]
    BY <1>1
  <2> QED
    BY <2>1, NoRowIsNone
<1>3. rows'[r.key] = [content |-> r.content, active |-> TRUE]
  BY <1>1 DEF HostAgreed, H!TypeOK
<1>4. rows' \in [H!Keys -> [content : H!Contents, active : BOOLEAN] \cup {NoRow}]
  BY <1>2 DEF HostAgreed, H!TypeOK
<1>5. \A k \in H!Keys : RowsKept(k)
  BY DEF RowsKept, HostAgreed, H!TypeOK
<1> QED
  BY <1>2, <1>3, <1>4, <1>5 DEF IsRecorded

\* A run is called active, or not.
LEMMA RowMarked ==
  ASSUME HostAgreed, NEW k \in H!Keys, NEW running \in BOOLEAN, rows[k] # NoRow,
         rows' = [rows EXCEPT ![k].active = running]
  PROVE  /\ rows' \in [H!Keys -> [content : H!Contents, active : BOOLEAN] \cup {NoRow}]
         /\ \A l \in H!Keys : RowsKept(l)
<1>1. rows[k] \in [content : H!Contents, active : BOOLEAN]
  BY DEF HostAgreed, H!TypeOK
<1>2. [rows[k] EXCEPT !.active = running] \in [content : H!Contents, active : BOOLEAN]
  BY <1>1
<1>3. [rows[k] EXCEPT !.active = running] # NoRow
  BY <1>2, HostAssumption DEF H!Contents
<1>4. rows' = [rows EXCEPT ![k] = [rows[k] EXCEPT !.active = running]]
  OBVIOUS
<1>5. rows' \in [H!Keys -> [content : H!Contents, active : BOOLEAN] \cup {NoRow}]
  BY <1>2, <1>4 DEF HostAgreed, H!TypeOK
<1>6. rows'[k] = [rows[k] EXCEPT !.active = running] /\ \A l \in H!Keys \ {k} : rows'[l] = rows[l]
  BY <1>4 DEF HostAgreed, H!TypeOK
<1>7. \A l \in H!Keys : RowsKept(l)
  BY <1>1, <1>3, <1>6 DEF RowsKept
<1> QED
  BY <1>5, <1>7

LEMMA HostWrites ==
  ASSUME HostAgreed, NEW i \in H!Ops, H!CreateRun(i) \/ H!Persist(i)
  PROVE  HostAgreed'
<1>1. PICK place \in {"created", "persisted"} :
        /\ ops[i].phase = IF place = "created" THEN "creating" ELSE "persisting"
        /\ ops' = [ops EXCEPT ![i].phase = place]
  BY DEF H!CreateRun, H!Persist, H!Goto
<1> DEFINE o == [ops[i] EXCEPT !.phase = place]
<1>2. UNCHANGED <<slot, told, failed, closing, finishing, queries, storeOpen, lives>>
  BY DEF H!CreateRun, H!Persist, H!Goto
<1>3. /\ ops[i] \in H!Op /\ Stands(ops[i]) /\ H!Live(i)
      /\ ops[i].request \in Requests /\ ops[i].request.key \in H!Keys
  BY <1>1, InSlot
<1>4. o \in H!Op /\ o.request = ops[i].request /\ o.phase = place /\ Stands(o)
  BY <1>1, <1>3 DEF Stands, H!Op, H!Phases, H!Unchecked
<1>5. ops' = [ops EXCEPT ![i] = o] /\ failed' \in BOOLEAN
  BY <1>1, <1>2 DEF HostAgreed, H!TypeOK
<1>6. /\ rows' \in [H!Keys -> [content : H!Contents, active : BOOLEAN] \cup {NoRow}]
      /\ \A k \in H!Keys : RowsKept(k)
      /\ IsRecorded(ops[i].request, rows')
  <2>1. CASE /\ rows[ops[i].request.key] = NoRow
             /\ rows' = [rows EXCEPT ![ops[i].request.key] =
                           [content |-> ops[i].request.content, active |-> TRUE]]
    BY <1>3, <2>1, RowWritten
  <2>2. CASE /\ ops[i].request.form = "resume" /\ rows[ops[i].request.key] # NoRow
             /\ rows' = [rows EXCEPT ![ops[i].request.key].active = TRUE]
    <3>1. /\ rows' \in [H!Keys -> [content : H!Contents, active : BOOLEAN] \cup {NoRow}]
          /\ \A k \in H!Keys : RowsKept(k)
      BY <1>3, <2>2, RowMarked
    <3>2. IsRecorded(ops[i].request, rows')
      BY <1>3, <2>2, <3>1 DEF RowsKept, IsRecorded
    <3> QED
      BY <3>1, <3>2
  <2>3. CASE H!SameRun(i) /\ UNCHANGED rows
    BY <2>3 DEF H!SameRun, H!Row, H!Request, IsRecorded, RowsKept, HostAgreed, H!TypeOK
  <2> QED
    BY <2>1, <2>2, <2>3 DEF H!CreateRun, H!Persist, H!Row, H!Request
<1> HIDE DEF o
<1> QED
  BY <1>1, <1>2, <1>3, <1>4, <1>5, <1>6, HostGoesOn

\* The client is answered: the run is on record.
LEMMA HostAnswers ==
  ASSUME HostAgreed, NEW i \in H!Ops, H!Started(i) \/ H!Admit(i)
  PROVE  HostAgreed'
<1> DEFINE o == [ops[i] EXCEPT !.phase = "running", !.receipt = "resolved"]
<1>1. /\ ops[i].phase \in {"created", "persisted"}
      /\ ops[i].phase = "persisted" => ops[i].aborted = "no"
      /\ UNCHANGED <<rows, slot, failed, closing, finishing, queries, storeOpen, lives>>
  BY DEF H!Started, H!Admit, H!Active
<1>2. /\ ops[i] \in H!Op /\ Stands(ops[i]) /\ H!Live(i) /\ IsRecorded(ops[i].request, rows)
  BY <1>1, InSlot
<1>3. o \in H!Op /\ o.request = ops[i].request /\ o.phase = "running" /\ Stands(o)
  BY <1>1, <1>2 DEF Stands, H!Op, H!Phases, H!Unchecked
<1>4. ops' = [ops EXCEPT ![i] = o] /\ failed' \in BOOLEAN
  BY <1>1, <1>2 DEF H!Started, H!Admit, HostAgreed, H!TypeOK
<1>5. told' = told \cup {o.request} /\ IsRecorded(o.request, rows')
  BY <1>1, <1>2, <1>3 DEF H!Started, H!Admit, H!Request, IsRecorded
<1>6. /\ rows' \in [H!Keys -> [content : H!Contents, active : BOOLEAN] \cup {NoRow}]
      /\ \A k \in H!Keys : RowsKept(k)
  BY <1>1 DEF HostAgreed, H!TypeOK, RowsKept
<1> HIDE DEF o
<1> QED
  BY <1>1, <1>2, <1>3, <1>4, <1>5, <1>6, HostGoesOn

LEMMA HostEnds ==
  ASSUME HostAgreed, NEW i \in H!Ops, H!EndRun(i) \/ H!BreakRun(i)
  PROVE  HostAgreed'
<1> DEFINE o == [ops[i] EXCEPT !.phase = "over"]
<1>1. /\ ops[i].phase = "running" /\ H!Finish(i, ops[i].receipt)
      /\ UNCHANGED <<told, closing, finishing, queries, storeOpen, lives>>
      /\ rows' = rows \/ rows' = [rows EXCEPT ![ops[i].request.key].active = FALSE]
  BY DEF H!EndRun, H!BreakRun, H!Request
<1>2. /\ ops[i] \in H!Op /\ Stands(ops[i]) /\ H!Live(i) /\ slot = i
      /\ ops[i].request.key \in H!Keys /\ IsRecorded(ops[i].request, rows)
  BY <1>1, InSlot
<1>3. o \in H!Op /\ o.request = ops[i].request /\ o.phase = "over" /\ Stands(o)
  BY <1>1, <1>2 DEF Stands, H!Op, H!Phases, H!Unchecked
<1>4. ops' = [ops EXCEPT ![i] = o] /\ slot' = 0
  BY <1>1, <1>2 DEF H!Finish, HostAgreed, H!TypeOK, H!Op
<1>5. failed' \in BOOLEAN
  BY DEF H!EndRun, H!BreakRun, HostAgreed, H!TypeOK
<1>6. /\ rows' \in [H!Keys -> [content : H!Contents, active : BOOLEAN] \cup {NoRow}]
      /\ \A k \in H!Keys : RowsKept(k)
  <2>1. CASE rows' = rows
    BY <2>1 DEF HostAgreed, H!TypeOK, RowsKept
  <2>2. CASE rows' = [rows EXCEPT ![ops[i].request.key].active = FALSE]
    BY <1>2, <2>2, RowMarked DEF IsRecorded
  <2> QED
    BY <1>1, <2>1, <2>2
<1> HIDE DEF o
<1> QED
  BY <1>1, <1>2, <1>3, <1>4, <1>5, <1>6, HostGoesOn

LEMMA HostPrepares ==
  ASSUME HostAgreed, NEW i \in H!Ops, H!EndPreparation(i)
  PROVE  HostAgreed'
<1>1. PICK receipt \in {"resolved", "rejected"} : H!Finish(i, receipt)
  BY DEF H!EndPreparation
<1> DEFINE o == [ops[i] EXCEPT !.phase = "over", !.receipt = receipt]
<1>2. /\ ops[i].phase = "preparing"
      /\ UNCHANGED <<rows, told, failed, closing, finishing, queries, storeOpen, lives>>
  BY DEF H!EndPreparation, H!durable
<1>3. ops[i] \in H!Op /\ Stands(ops[i]) /\ H!Live(i) /\ slot = i
  BY <1>2, InSlot
<1>4. o \in H!Op /\ o.request = ops[i].request /\ o.phase = "over" /\ Stands(o)
  BY <1>2, <1>3 DEF Stands, H!Op, H!Phases, H!Unchecked
<1>5. ops' = [ops EXCEPT ![i] = o] /\ slot' = 0 /\ failed' \in BOOLEAN
  BY <1>1, <1>2, <1>3 DEF H!Finish, HostAgreed, H!TypeOK
<1> HIDE DEF o
<1> QED
  BY <1>2, <1>3, <1>4, <1>5, HostMoves

LEMMA HostBegins ==
  ASSUME HostAgreed, NEW r \in Requests, H!Begin(r)
  PROVE  HostAgreed'
<1> DEFINE o == [request |-> r, phase |-> H!FirstPhase(r.form),
                 receipt |-> "pending", aborted |-> "no", cancel |-> "none"]
<1>1. PICK i \in H!Ops : ops[i] = H!Free /\ slot' = i /\ ops' = [ops EXCEPT ![i] = o]
  BY DEF H!Begin
<1>2. /\ ~closing /\ slot = 0
      /\ UNCHANGED <<rows, told, failed, closing, finishing, queries, storeOpen, lives>>
  BY DEF H!Begin, H!CanBegin, H!durable
<1>3. H!FirstPhase(r.form) \in {"finding", "persisting", "preparing"}
  BY HostAssumption DEF H!FirstPhase
<1>4. o \in H!Op /\ Stands(o) /\ o.phase \in {"finding", "persisting", "preparing"}
  BY <1>3 DEF H!Op, H!Phases, Stands, H!Unchecked
<1>5. /\ ops'[i] = o /\ ops' \in [H!Ops -> H!Op \cup {H!Free}]
      /\ \A j \in H!Ops : j # i => ops'[j] = ops[j]
  BY <1>1, <1>4 DEF HostAgreed, H!TypeOK
<1> HIDE DEF o
<1>6. \A j \in H!Ops : ~H!Live(j)
  BY <1>2 DEF HostAgreed, H!OneOperation, H!Ops
<1>7. H!TypeOK'
  BY <1>1, <1>2, <1>5 DEF HostAgreed, H!TypeOK
<1>8. H!OneOperation'
  BY <1>1, <1>4, <1>5, <1>6 DEF H!OneOperation, H!Live
<1>9. Operations'
  BY <1>1, <1>2, <1>4, <1>5 DEF HostAgreed, Operations
<1>10. ClosesInOrder'
  BY <1>2 DEF HostAgreed, ClosesInOrder
<1>11. Answered'
  BY <1>2 DEF HostAgreed, Answered
<1> QED
  BY <1>7, <1>8, <1>9, <1>10, <1>11 DEF HostAgreed

LEMMA HostCloses ==
  ASSUME HostAgreed, H!Close
  PROVE  HostAgreed'
<1>1. /\ ~closing /\ closing' = TRUE /\ finishing' = "slot"
      /\ UNCHANGED <<rows, told, slot, failed, queries, storeOpen, lives>>
  BY DEF H!Close, H!durable
<1>2. ~(finishing \in {"queries", "done"}) /\ storeOpen
  BY <1>1 DEF HostAgreed, ClosesInOrder
<1>3. ClosesInOrder'
  BY <1>1, <1>2 DEF ClosesInOrder
<1>4. Answered'
  BY <1>1 DEF HostAgreed, Answered
<1>5. CASE slot = 0
  <2>1. ops' = ops
    BY <1>5 DEF H!Close
  <2> QED
    BY <1>1, <1>3, <1>4, <2>1 DEF HostAgreed, H!TypeOK, H!OneOperation, H!Live, Operations
<1>6. CASE slot # 0
  <2> DEFINE o == H!Aborted(ops[slot])
  <2>1. slot \in H!Ops /\ ops[slot].phase \notin {"free", "over"}
    BY <1>6 DEF HostAgreed, H!TypeOK, H!OneOperation, H!Live
  <2>2. ops' = [ops EXCEPT ![slot] = o]
    BY <1>6 DEF H!Close
  <2>3. /\ o \in H!Op /\ o.request = ops[slot].request /\ o.phase = ops[slot].phase
        /\ o.receipt = ops[slot].receipt /\ o.cancel = ops[slot].cancel
        /\ o.aborted = IF ops[slot].aborted = "no" THEN ops[slot].phase ELSE ops[slot].aborted
    BY <2>1, InSlot DEF H!Aborted, H!Op
  <2>4. Stands(o)
    BY <2>1, <2>3, InSlot DEF Stands
  <2> HIDE DEF o
  <2>5. /\ ops'[slot] = o /\ ops' \in [H!Ops -> H!Op \cup {H!Free}]
        /\ \A j \in H!Ops : j # slot => ops'[j] = ops[j]
    BY <2>1, <2>2, <2>3 DEF HostAgreed, H!TypeOK
  <2>6. H!TypeOK'
    BY <1>1, <2>5 DEF HostAgreed, H!TypeOK
  <2>7. H!OneOperation'
    BY <1>1, <2>1, <2>3, <2>5 DEF HostAgreed, H!OneOperation, H!Live
  <2>8. Operations'
    <3>1. ops[slot] # H!Free
      BY <2>1, IsFree DEF HostAgreed
    <3> QED
      BY <1>1, <2>1, <2>3, <2>4, <2>5, <3>1 DEF HostAgreed, Operations
  <2> QED
    BY <1>3, <1>4, <2>6, <2>7, <2>8 DEF HostAgreed
<1> QED
  BY <1>5, <1>6

LEMMA HostAcknowledges ==
  ASSUME HostAgreed, NEW i \in H!Ops, H!AckCancel(i)
  PROVE  HostAgreed'
<1> DEFINE o == [ops[i] EXCEPT !.cancel = "acked"]
<1>1. /\ ops[i].phase = "over" /\ ops' = [ops EXCEPT ![i] = o]
      /\ UNCHANGED <<rows, told, slot, failed, closing, finishing, queries, storeOpen, lives>>
  BY DEF H!AckCancel, H!durable, HostAgreed, H!TypeOK
<1>2. ops[i] # H!Free /\ ops[i] \in H!Op
  BY <1>1, IsFree DEF HostAgreed
<1>3. o \in H!Op /\ o.phase = "over" /\ Stands(o)
  BY <1>1, <1>2 DEF HostAgreed, Operations, Stands, H!Op
<1> HIDE DEF o
<1>4. /\ ops'[i] = o /\ ops' \in [H!Ops -> H!Op \cup {H!Free}]
      /\ \A j \in H!Ops : j # i => ops'[j] = ops[j]
  BY <1>1, <1>3 DEF HostAgreed, H!TypeOK
<1>5. \A j \in H!Ops : H!Live(j)' <=> H!Live(j)
  BY <1>1, <1>3, <1>4 DEF H!Live
<1>6. H!TypeOK' /\ H!OneOperation'
  BY <1>1, <1>4, <1>5 DEF HostAgreed, H!TypeOK, H!OneOperation
<1>7. Operations'
  BY <1>1, <1>3, <1>4 DEF HostAgreed, Operations
<1>8. ClosesInOrder' /\ Answered'
  BY <1>1, <1>5 DEF HostAgreed, ClosesInOrder, Answered
<1> QED
  BY <1>6, <1>7, <1>8 DEF HostAgreed

\* Queries, and what close() waits for.
LEMMA HostWaits ==
  ASSUME HostAgreed, H!Query \/ H!QueryEnds \/ H!Closing
  PROVE  HostAgreed'
<1>1. UNCHANGED <<rows, told, ops, slot, failed, closing, lives>>
  BY DEF H!Query, H!QueryEnds, H!Closing, H!CloseSlot, H!CloseStore, H!durable
<1>2. H!OneOperation' /\ Operations' /\ Answered'
  BY <1>1 DEF HostAgreed, H!OneOperation, H!Live, Operations, Answered
<1>3. H!TypeOK'
  <2>1. /\ queries' \in 0..MaxQueries
        /\ finishing' \in {"no", "slot", "queries", "done"}
        /\ storeOpen' \in BOOLEAN
    <3>1. /\ queries \in 0..MaxQueries /\ MaxQueries \in Nat
          /\ finishing \in {"no", "slot", "queries", "done"}
          /\ storeOpen \in BOOLEAN
      BY HostAssumption DEF HostAgreed, H!TypeOK
    <3>2. CASE H!Query
      BY <3>1, <3>2 DEF H!Query
    <3>3. CASE H!QueryEnds
      BY <3>1, <3>3 DEF H!QueryEnds
    <3>4. CASE H!Closing
      BY <3>1, <3>4 DEF H!Closing, H!CloseSlot, H!CloseStore
    <3> QED
      BY <3>2, <3>3, <3>4
  <2> QED
    BY <1>1, <2>1 DEF HostAgreed, H!TypeOK
<1>4. ClosesInOrder'
  BY <1>1 DEF H!Query, H!QueryEnds, H!Closing, H!CloseSlot, H!CloseStore, HostAgreed, H!TypeOK,
              ClosesInOrder, H!Live
<1> QED
  BY <1>2, <1>3, <1>4 DEF HostAgreed

LEMMA HostNew ==
  ASSUME ops = [i \in H!Ops |-> H!Free], slot = 0
  PROVE  /\ H!OneOperation /\ Operations /\ \A i \in H!Ops : ~H!Live(i)
  BY DEF H!OneOperation, Operations, H!Live, H!Free, H!Ops

LEMMA HostRestarts ==
  ASSUME HostAgreed, H!Restart
  PROVE  HostAgreed'
<1>1. /\ ops' = [i \in H!Ops |-> H!Free] /\ slot' = 0 /\ failed' = FALSE /\ closing' = FALSE
      /\ finishing' = "no" /\ queries' = 0 /\ storeOpen' = TRUE
      /\ rows' = rows /\ told' = told
      /\ lives < MaxLives /\ lives' = lives + 1
  BY DEF H!Restart, H!durable
<1>2. H!OneOperation' /\ Operations'
  BY <1>1 DEF H!OneOperation, Operations, H!Live, H!Free, H!Ops
<1>3. lives' \in 1..MaxLives
  BY <1>1, HostAssumption DEF HostAgreed, H!TypeOK
<1>4. queries' \in 0..MaxQueries
  BY <1>1, HostAssumption
<1>5. H!TypeOK'
  BY <1>1, <1>3, <1>4 DEF HostAgreed, H!TypeOK
<1>6. ClosesInOrder' /\ Answered'
  BY <1>1 DEF HostAgreed, ClosesInOrder, Answered
<1> QED
  BY <1>2, <1>5, <1>6 DEF HostAgreed

LEMMA HostStarts ==
  ASSUME H!Init
  PROVE  HostAgreed
<1>1. /\ ops = [i \in H!Ops |-> H!Free] /\ slot = 0 /\ failed = FALSE /\ closing = FALSE
      /\ finishing = "no" /\ queries = 0 /\ storeOpen = TRUE
      /\ rows = [k \in H!Keys |-> NoRow] /\ told = {} /\ lives = 1
  BY DEF H!Init, H!NewHost
<1>2. H!OneOperation /\ Operations
  BY <1>1, HostNew
<1>3. lives \in 1..MaxLives /\ queries \in 0..MaxQueries
  BY <1>1, HostAssumption
<1>4. H!TypeOK
  BY <1>1, <1>3 DEF H!TypeOK
<1>5. ClosesInOrder /\ Answered
  BY <1>1 DEF ClosesInOrder, Answered
<1> QED
  BY <1>2, <1>4, <1>5 DEF HostAgreed

\* What the host is asked, and what it does by itself.
LEMMA HostSteps ==
  ASSUME HostAgreed, [DeviceNext]_deviceVars
  PROVE  HostAgreed'
<1>1. CASE UNCHANGED hostVars
  BY <1>1 DEF hostVars, HostAgreed, H!TypeOK, H!OneOperation, H!Live, Operations, ClosesInOrder,
              Answered, IsRecorded, Stands
<1>2. CASE H!Next
  <2>1. CASE H!Client
    <3>1. ASSUME NEW r \in Requests, H!Begin(r) PROVE HostAgreed'
      BY <3>1, HostBegins
    <3>2. ASSUME NEW i \in H!Ops, H!Cancel(i) \/ H!AbortPreparation(i) PROVE HostAgreed'
      BY <3>2, HostAborts
    <3> QED
      BY <2>1, <3>1, <3>2, HostWaits, HostCloses, HostRestarts DEF H!Client
  <2>2. CASE H!QueryEnds \/ H!Closing
    BY <2>2, HostWaits
  <2>3. ASSUME NEW i \in H!Ops, H!Operate(i) PROVE HostAgreed'
    BY <2>3, HostFinds, HostReplays, HostRefuses, HostWrites, HostAnswers, HostEnds, HostPrepares,
       HostAcknowledges DEF H!Operate
  <2> QED
    BY <1>2, <2>1, <2>2, <2>3 DEF H!Next
<1> QED
  BY <1>1, <1>2 DEF DeviceNext, deviceVars, hostVars

LEMMA HostAnswersFor ==
  ASSUME HostAgreed
  PROVE  HostInv
<1>1. H!StoreClosedLast
  BY DEF HostAgreed, ClosesInOrder, H!StoreClosedLast
<1>2. H!AnswerIsDurable
  BY DEF HostAgreed, Answered, IsRecorded, H!AnswerIsDurable
<1>3. H!CancelHonoured
  <2> SUFFICES ASSUME NEW i \in H!Ops
               PROVE  /\ (H!Live(i) \/ ops[i].phase = "over") /\ ops[i].aborted \in H!Unchecked
                           => ops[i].receipt # "resolved"
                      /\ ops[i] # H!Free /\ ops[i].cancel = "acked" => ~H!Live(i)
    BY DEF H!CancelHonoured
  <2>1. ops[i] # H!Free => Stands(ops[i]) /\ ops[i] \in H!Op
    BY IsFree DEF HostAgreed, Operations
  <2>2. ops[i] = H!Free => ops[i].phase = "free"
    BY DEF H!Free
  <2> QED
    BY <2>1, <2>2 DEF H!Live, Stands, H!Unchecked
<1> QED
  BY <1>1, <1>2, <1>3 DEF HostInv, H!Inv, HostAgreed

\* In every run of the host, of however many requests and lives, one operation is in
\* progress, the store closes last, an answered run is found again by every later host,
\* and a start that was cancelled before its last check is refused (execution-host.ts).
THEOREM HostHolds == DeviceSpec => []HostInv
<1>1. DeviceInit => HostAgreed
  BY HostStarts DEF DeviceInit
<1>2. HostAgreed /\ [DeviceNext]_deviceVars => HostAgreed'
  BY HostSteps
<1>3. HostAgreed => HostInv
  BY HostAnswersFor
<1> QED
  BY <1>1, <1>2, <1>3, PTL DEF DeviceSpec

-----------------------------------------------------------------------------
(* The projects of the launcher *)

\* A request has a host from the moment it opened it, open until it is given up; only a
\* published host has operations.
HostsOfCalls ==
    \A c \in R!Calls :
        /\ calls[c].step \in {"free", "listing", "leaving", "opening"} => host[c] = "none"
        /\ calls[c].step = "owning" => host[c] = "open"
        /\ calls[c].step = "undoing" => host[c] \in {"closing", "closed"}
        /\ calls[c].step = "rejected" => host[c] \in {"none", "closed"}
        /\ c \in busy => calls[c].step = "resolved"

Published == active # 0 => host[active] = "open" /\ calls[active].step = "resolved"

\* Requests one after the other: who works on a project has none published, and somebody
\* answers for each host that is open or closing.
Accounted ==
    ~overlapped =>
        /\ \A c, d \in R!Calls : R!InProgress(c) /\ R!InProgress(d) => c = d
        /\ \A c \in R!Calls :
             calls[c].step \in {"leaving", "opening", "owning", "undoing"} => active = 0
        /\ \A h \in R!Calls : host[h] = "open" => h = active \/ calls[h].step = "owning"
        /\ \A h \in R!Calls : host[h] = "closing" =>
             \/ h = closer \/ calls[h].step = "undoing"
             \/ \E c \in R!Calls : calls[c].step = "leaving" /\ calls[c].leaves = h
        /\ closed => active = 0 /\ \A c \in R!Calls : ~R!InProgress(c)

ProjectsAgreed ==
    /\ R!TypeOK /\ HostsOfCalls /\ Published /\ Accounted
    /\ closer # 0 => closed

LEMMA ProjectsStart ==
  ASSUME R!Init
  PROVE  ProjectsAgreed
<1>1. R!TypeOK
  <2>1. 0 \in 0..MaxCalls
    BY ProjectsAssumption
  <2>2. R!Free \in R!Call
    BY <2>1 DEF R!Call, R!Free, R!Steps
  <2> QED
    BY <2>1, <2>2 DEF R!Init, R!TypeOK
<1>2. HostsOfCalls /\ Published /\ Accounted
  BY DEF R!Init, HostsOfCalls, Published, Accounted, R!Free, R!InProgress, R!Settled, R!Calls
<1> QED
  BY <1>1, <1>2 DEF ProjectsAgreed, R!Init

\* What a request in progress becomes; all else stays.
LEMMA CallGoes ==
  ASSUME ProjectsAgreed, NEW c \in R!Calls, NEW s \in {"opening", "resolved", "rejected"},
         calls' = [calls EXCEPT ![c].step = s],
         UNCHANGED <<host, busy, active, closed, closer, overlapped>>,
         R!InProgress(c), host[c] \in {"none", "closed"},
         s = "opening" => host[c] = "none" /\ (~overlapped => active = 0),
         calls[c].step = "leaving" => host[calls[c].leaves] = "closed"
  PROVE  ProjectsAgreed'
<1>1. /\ calls'[c].step = s
      /\ \A d \in R!Calls \ {c} : calls'[d] = calls[d]
      /\ calls' \in [R!Calls -> R!Call]
  <2>1. calls[c] \in R!Call /\ s \in R!Steps
    BY DEF ProjectsAgreed, R!TypeOK, R!Steps, R!Settled
  <2>2. [calls[c] EXCEPT !.step = s] \in R!Call /\ [calls[c] EXCEPT !.step = s].step = s
    BY <2>1 DEF R!Call
  <2>3. calls' = [calls EXCEPT ![c] = [calls[c] EXCEPT !.step = s]]
    OBVIOUS
  <2> QED
    BY <2>2, <2>3 DEF ProjectsAgreed, R!TypeOK
<1>2. R!TypeOK'
  BY <1>1 DEF ProjectsAgreed, R!TypeOK
<1>3. c \notin busy /\ active # c
  <2>1. c # 0 /\ calls[c].step # "resolved"
    BY DEF R!Calls, R!InProgress, R!Settled
  <2> QED
    BY <2>1 DEF ProjectsAgreed, HostsOfCalls, Published
<1>4. HostsOfCalls'
  BY <1>1, <1>3 DEF ProjectsAgreed, HostsOfCalls, R!Steps, R!Settled
<1>5. Published'
  BY <1>1, <1>3 DEF ProjectsAgreed, Published, R!TypeOK, R!Calls
<1>6. Accounted'
  <2> SUFFICES ASSUME ~overlapped
               PROVE  Accounted'
    BY DEF Accounted
  <2>1. \A d \in R!Calls : R!InProgress(d)' => R!InProgress(d)
    BY <1>1 DEF R!InProgress
  <2>2. \A d \in R!Calls : calls'[d].step \in {"leaving", "opening", "owning", "undoing"} => active' = 0
    BY <1>1 DEF ProjectsAgreed, Accounted
  <2>3. \A h \in R!Calls : host'[h] = "open" => h = active' \/ calls'[h].step = "owning"
    BY <1>1 DEF ProjectsAgreed, Accounted
  <2>4. ASSUME NEW h \in R!Calls, host'[h] = "closing"
        PROVE  \/ h = closer' \/ calls'[h].step = "undoing"
               \/ \E d \in R!Calls : calls'[d].step = "leaving" /\ calls'[d].leaves = h
    BY <1>1, <2>4 DEF ProjectsAgreed, Accounted
  <2>5. closed' => active' = 0 /\ \A d \in R!Calls : ~R!InProgress(d)'
    BY <2>1 DEF ProjectsAgreed, Accounted
  <2> QED
    BY <2>1, <2>2, <2>3, <2>4, <2>5 DEF ProjectsAgreed, Accounted
<1> QED
  BY <1>2, <1>4, <1>5, <1>6 DEF ProjectsAgreed

LEMMA RequestGoes ==
  ASSUME ProjectsAgreed, NEW c \in R!Calls,
         \/ R!NotSelectable(c) \/ R!AlreadyActive(c) \/ R!ActiveBusy(c) \/ R!NothingActive(c)
         \/ R!Left(c) \/ R!OpenFails(c) \/ R!Undone(c)
  PROVE  ProjectsAgreed'
<1>1. PICK s \in {"opening", "resolved", "rejected"} : calls' = [calls EXCEPT ![c].step = s]
  BY DEF R!NotSelectable, R!AlreadyActive, R!ActiveBusy, R!NothingActive, R!Left, R!OpenFails,
         R!Undone, R!Go
<1>2. UNCHANGED <<host, busy, active, closed, closer, overlapped>>
  BY DEF R!NotSelectable, R!AlreadyActive, R!ActiveBusy, R!NothingActive, R!Left, R!OpenFails,
         R!Undone
<1>3. calls[c].step \in {"listing", "leaving", "opening"} \/ (calls[c].step = "undoing" /\ host[c] = "closed")
  BY DEF R!NotSelectable, R!AlreadyActive, R!ActiveBusy, R!NothingActive, R!Left, R!OpenFails,
         R!Undone
<1>4. R!InProgress(c) /\ host[c] \in {"none", "closed"}
  BY <1>3 DEF ProjectsAgreed, HostsOfCalls, R!InProgress, R!Settled
<1>5. s = "opening" => R!NothingActive(c) \/ R!Left(c)
  <2>1. calls'[c].step = s
    BY <1>1 DEF ProjectsAgreed, R!TypeOK, R!Call
  <2> QED
    BY <2>1 DEF R!NotSelectable, R!AlreadyActive, R!ActiveBusy, R!OpenFails, R!Undone, R!Go,
                ProjectsAgreed, R!TypeOK, R!Call
<1>6. s = "opening" => host[c] = "none" /\ (~overlapped => active = 0)
  BY <1>5 DEF R!NothingActive, R!Left, ProjectsAgreed, HostsOfCalls, Accounted
<1>7. calls[c].step = "leaving" => host[calls[c].leaves] = "closed"
  BY DEF R!NotSelectable, R!AlreadyActive, R!ActiveBusy, R!NothingActive, R!Left, R!OpenFails,
         R!Undone
<1> QED
  BY <1>1, <1>2, <1>4, <1>6, <1>7, CallGoes

\* A request arrives.
LEMMA RequestArrives ==
  ASSUME ProjectsAgreed, NEW c \in R!Calls, NEW p \in Projects, R!SelectProject(c, p)
  PROVE  ProjectsAgreed'
<1> DEFINE o == [project |-> p, step |-> "listing", leaves |-> 0]
<1>1. /\ calls[c].step = "free" /\ ~closed /\ calls' = [calls EXCEPT ![c] = o]
      /\ overlapped' = (overlapped \/ \E d \in R!Calls : R!InProgress(d))
      /\ UNCHANGED <<host, busy, active, closed, closer>>
  BY DEF R!SelectProject, R!Arrives, R!Admit
<1>2. o \in R!Call /\ o.step = "listing"
  <2>1. 0 \in 0..MaxCalls
    BY ProjectsAssumption
  <2> QED
    BY <2>1 DEF R!Call, R!Steps
<1> HIDE DEF o
<1>3. /\ calls'[c] = o /\ calls' \in [R!Calls -> R!Call]
      /\ \A d \in R!Calls \ {c} : calls'[d] = calls[d]
  BY <1>1, <1>2 DEF ProjectsAgreed, R!TypeOK
<1>4. R!TypeOK'
  BY <1>1, <1>3 DEF ProjectsAgreed, R!TypeOK
<1>5. c \notin busy /\ active # c /\ host[c] = "none"
  <2>1. c # 0
    BY DEF R!Calls
  <2> QED
    BY <1>1, <2>1 DEF ProjectsAgreed, HostsOfCalls, Published
<1>6. HostsOfCalls'
  BY <1>1, <1>2, <1>3, <1>5 DEF ProjectsAgreed, HostsOfCalls
<1>7. Published'
  BY <1>1, <1>3, <1>5 DEF ProjectsAgreed, Published, R!TypeOK, R!Calls
<1>8. Accounted'
  <2> SUFFICES ASSUME ~overlapped, \A d \in R!Calls : ~R!InProgress(d)
               PROVE  Accounted'
    BY <1>1 DEF Accounted
  <2>1. \A d \in R!Calls \ {c} : calls'[d].step \in {"free", "resolved", "rejected"}
    BY <1>3 DEF R!InProgress, R!Settled
  <2>2. \A h \in R!Calls : host[h] = "open" => h = active
    BY DEF ProjectsAgreed, Accounted, R!InProgress, R!Settled
  <2>3. \A h \in R!Calls : host[h] = "closing" => h = closer
    BY DEF ProjectsAgreed, Accounted, R!InProgress, R!Settled
  <2> QED
    BY <1>1, <1>2, <1>3, <2>1, <2>2, <2>3 DEF Accounted, R!InProgress, R!Settled
<1> QED
  BY <1>1, <1>4, <1>6, <1>7, <1>8 DEF ProjectsAgreed

\* The published project is left: by the call c, at once or after it listed the catalog.
LEMMA RequestLeaves ==
  ASSUME ProjectsAgreed, NEW c \in R!Calls, active # 0,
         NEW o \in R!Call, o.step = "leaving", o.leaves = active, calls' = [calls EXCEPT ![c] = o],
         R!Leave(active), R!Idle(active), UNCHANGED <<busy, closed, closer>>,
         \/ calls[c].step = "listing" /\ overlapped' = overlapped
         \/ calls[c].step = "free" /\ ~closed /\ overlapped' = (overlapped \/ \E d \in R!Calls : R!InProgress(d))
  PROVE  ProjectsAgreed'
<1>1. active \in R!Calls
  BY DEF R!Calls, ProjectsAgreed, R!TypeOK
<1>2. /\ calls'[c] = o /\ calls' \in [R!Calls -> R!Call]
      /\ \A d \in R!Calls \ {c} : calls'[d] = calls[d]
  BY DEF ProjectsAgreed, R!TypeOK
<1>3. /\ active' = 0 /\ host'[active] = "closing" /\ active \notin busy
      /\ host' \in [R!Calls -> {"none", "open", "closing", "closed"}]
      /\ \A h \in R!Calls \ {active} : host'[h] = host[h]
  BY <1>1 DEF R!Leave, R!Idle, ProjectsAgreed, R!TypeOK
<1>4. R!TypeOK'
  <2>1. busy' \subseteq {d \in R!Calls : host'[d] \in {"open", "closing"}} /\ 0 \in 0..MaxCalls
    BY <1>3, ProjectsAssumption DEF ProjectsAgreed, R!TypeOK
  <2> QED
    BY <1>2, <1>3, <2>1 DEF ProjectsAgreed, R!TypeOK
<1>5. active # c /\ c \notin busy /\ host[c] = "none"
  BY DEF ProjectsAgreed, HostsOfCalls, Published
<1>6. HostsOfCalls'
  BY <1>1, <1>2, <1>3, <1>5 DEF ProjectsAgreed, HostsOfCalls, Published
<1>7. Published'
  BY <1>3 DEF Published
<1>8. Accounted'
  <2> SUFFICES ASSUME ~overlapped, \A d \in R!Calls \ {c} : ~R!InProgress(d), ~closed
               PROVE  Accounted'
    BY DEF ProjectsAgreed, Accounted, R!InProgress, R!Settled
  <2>1. \A d \in R!Calls \ {c} : calls'[d].step \in {"free", "resolved", "rejected"}
    BY <1>2 DEF R!InProgress, R!Settled, ProjectsAgreed, R!TypeOK, R!Call, R!Steps
  <2>2. \A h \in R!Calls : host'[h] # "open"
    BY <1>3, <1>5 DEF ProjectsAgreed, Accounted, R!InProgress, R!Settled
  <2>3. \A h \in R!Calls : host'[h] = "closing" => h = closer \/ h = active
    BY <1>3, <1>5 DEF ProjectsAgreed, Accounted, R!InProgress, R!Settled
  <2> QED
    BY <1>1, <1>2, <1>3, <2>1, <2>2, <2>3 DEF Accounted, R!InProgress, R!Settled
<1> QED
  BY <1>3, <1>4, <1>6, <1>7, <1>8 DEF ProjectsAgreed

\* The host is open, published, or given up again.
LEMMA HostOpened ==
  ASSUME ProjectsAgreed, NEW c \in R!Calls, R!OpenProject(c) \/ R!OwnershipFails(c) \/ R!Publish(c)
  PROVE  ProjectsAgreed'
<1>1. PICK s \in {"owning", "undoing", "resolved"} : calls' = [calls EXCEPT ![c].step = s]
  BY DEF R!OpenProject, R!OwnershipFails, R!Publish, R!Go
<1>2. /\ calls'[c].step = s /\ \A d \in R!Calls \ {c} : calls'[d] = calls[d]
      /\ calls' \in [R!Calls -> R!Call]
  <2>1. calls[c] \in R!Call /\ s \in R!Steps
    BY DEF ProjectsAgreed, R!TypeOK, R!Steps, R!Settled
  <2>2. [calls[c] EXCEPT !.step = s] \in R!Call /\ [calls[c] EXCEPT !.step = s].step = s
    BY <2>1 DEF R!Call
  <2>3. calls' = [calls EXCEPT ![c] = [calls[c] EXCEPT !.step = s]]
    BY <1>1
  <2> QED
    BY <2>2, <2>3 DEF ProjectsAgreed, R!TypeOK
<1>3. UNCHANGED <<busy, closed, closer, overlapped>>
  BY DEF R!OpenProject, R!OwnershipFails, R!Publish
<1>4. c # 0 /\ active # c /\ c \notin busy
  <2>1. c # 0 /\ calls[c].step \in {"opening", "owning"}
    BY DEF R!Calls, R!OpenProject, R!OwnershipFails, R!Publish
  <2> QED
    BY <2>1 DEF ProjectsAgreed, HostsOfCalls, Published
<1>5. ~overlapped =>
        active = 0 /\ ~closed /\ \A d \in R!Calls \ {c} : calls[d].step \in {"free", "resolved", "rejected"}
  <2>1. calls[c].step \in {"opening", "owning"} /\ R!InProgress(c)
    BY DEF R!OpenProject, R!OwnershipFails, R!Publish, R!InProgress, R!Settled
  <2> QED
    BY <2>1 DEF ProjectsAgreed, Accounted, R!InProgress, R!Settled
<1>6. ~overlapped => \A h \in R!Calls : (host[h] = "open" => h = c) /\ (host[h] = "closing" => h = closer)
  <2> SUFFICES ASSUME ~overlapped, NEW h \in R!Calls
               PROVE  (host[h] = "open" => h = c) /\ (host[h] = "closing" => h = closer)
    OBVIOUS
  <2>1. h # 0 /\ calls[c].step \in {"opening", "owning"}
    BY DEF R!OpenProject, R!OwnershipFails, R!Publish, R!Calls
  <2>2. \A d \in R!Calls : calls[d].step \notin {"leaving", "undoing"} /\ (calls[d].step = "owning" => d = c)
    BY <1>5, <2>1
  <2> QED
    BY <1>5, <2>1, <2>2 DEF ProjectsAgreed, Accounted
<1>7. CASE R!Publish(c)
  <2>1. s = "resolved" /\ active' = c /\ host' = host /\ calls[c].step = "owning" /\ host[c] = "open"
    BY <1>1, <1>2, <1>7 DEF R!Publish, R!Go, ProjectsAgreed, HostsOfCalls, R!TypeOK, R!Call
  <2>2. R!TypeOK'
    BY <1>2, <1>3, <2>1 DEF ProjectsAgreed, R!TypeOK, R!Calls
  <2>3. HostsOfCalls' /\ Published'
    BY <1>2, <1>3, <2>1 DEF ProjectsAgreed, HostsOfCalls, Published
  <2>4. Accounted'
    BY <1>2, <1>3, <1>5, <1>6, <2>1 DEF Accounted, R!InProgress, R!Settled
  <2> QED
    BY <1>3, <2>2, <2>3, <2>4 DEF ProjectsAgreed
<1>8. CASE R!OpenProject(c) \/ R!OwnershipFails(c)
  <2>1. PICK word \in {"open", "closing"} :
          /\ host' = [host EXCEPT ![c] = word]
          /\ s = IF word = "open" THEN "owning" ELSE "undoing"
          /\ active' = active
    BY <1>1, <1>2, <1>8 DEF R!OpenProject, R!OwnershipFails, R!Go, ProjectsAgreed, R!TypeOK, R!Call
  <2>2. /\ host' \in [R!Calls -> {"none", "open", "closing", "closed"}] /\ host'[c] = word
        /\ \A h \in R!Calls \ {c} : host'[h] = host[h]
    BY <2>1 DEF ProjectsAgreed, R!TypeOK
  <2>3. R!TypeOK'
    <3>1. busy' \subseteq {d \in R!Calls : host'[d] \in {"open", "closing"}}
      BY <1>3, <1>4, <2>2 DEF ProjectsAgreed, R!TypeOK
    <3> QED
      BY <1>2, <1>3, <2>1, <2>2, <3>1 DEF ProjectsAgreed, R!TypeOK
  <2>4. HostsOfCalls'
    BY <1>2, <1>3, <1>4, <2>1, <2>2 DEF ProjectsAgreed, HostsOfCalls
  <2>5. Published'
    BY <1>2, <1>4, <2>1, <2>2 DEF ProjectsAgreed, Published, R!TypeOK, R!Calls
  <2>6. Accounted'
    BY <1>2, <1>3, <1>5, <1>6, <2>1, <2>2 DEF Accounted, R!InProgress, R!Settled
  <2> QED
    BY <1>3, <2>1, <2>3, <2>4, <2>5, <2>6 DEF ProjectsAgreed
<1> QED
  BY <1>7, <1>8

LEMMA ProjectsClose ==
  ASSUME ProjectsAgreed, R!Close
  PROVE  ProjectsAgreed'
<1>1. /\ ~closed /\ closed' = TRUE /\ closer' = active /\ UNCHANGED <<calls, busy>>
      /\ overlapped' = (overlapped \/ \E d \in R!Calls : R!InProgress(d))
  BY DEF R!Close, R!Admit
<1>2. /\ active' = 0 /\ host' \in [R!Calls -> {"none", "open", "closing", "closed"}]
      /\ \A h \in R!Calls : host'[h] = IF h = active THEN "closing" ELSE host[h]
  <2>1. CASE active = 0
    BY <2>1 DEF R!Close, ProjectsAgreed, R!TypeOK, R!Calls
  <2>2. CASE active # 0
    <3>1. active' = 0 /\ host' = [host EXCEPT ![active] = "closing"]
      BY <2>2 DEF R!Close, R!Leave
    <3> QED
      BY <3>1 DEF ProjectsAgreed, R!TypeOK
  <2> QED
    BY <2>1, <2>2
<1>3. R!TypeOK'
  <2>1. busy' \subseteq {d \in R!Calls : host'[d] \in {"open", "closing"}} /\ 0 \in 0..MaxCalls
    BY <1>1, <1>2, ProjectsAssumption DEF ProjectsAgreed, R!TypeOK
  <2> QED
    BY <1>1, <1>2, <2>1 DEF ProjectsAgreed, R!TypeOK
<1>4. HostsOfCalls'
  BY <1>1, <1>2 DEF ProjectsAgreed, HostsOfCalls, Published, R!Calls
<1>5. Published'
  BY <1>2 DEF Published
<1>6. Accounted'
  <2> SUFFICES ASSUME ~overlapped, \A d \in R!Calls : ~R!InProgress(d)
               PROVE  Accounted'
    BY <1>1 DEF Accounted
  <2>1. closer = 0
    BY <1>1 DEF ProjectsAgreed
  <2>2. \A d \in R!Calls : calls[d].step \notin {"listing", "leaving", "opening", "owning", "undoing"}
    BY DEF R!InProgress, R!Settled
  <2>3. \A h \in R!Calls : host'[h] # "open" /\ (host'[h] = "closing" => h = closer')
    BY <1>1, <1>2, <2>1, <2>2 DEF ProjectsAgreed, Accounted, R!Calls
  <2> QED
    BY <1>1, <1>2, <2>2, <2>3 DEF Accounted, R!InProgress
<1> QED
  BY <1>1, <1>3, <1>4, <1>5, <1>6 DEF ProjectsAgreed

\* Operations begin and end, and a host that has none closes.
LEMMA HostsGoOn ==
  ASSUME ProjectsAgreed,
         R!OperationBegins \/ \E h \in R!Calls : R!OperationEnds(h) \/ R!HostCloses(h)
  PROVE  ProjectsAgreed'
<1>1. CASE R!OperationBegins \/ \E h \in R!Calls : R!OperationEnds(h)
  <2>1. /\ UNCHANGED <<calls, host, active, closed, closer, overlapped>>
        /\ busy' \subseteq busy \cup ({active} \ {0})
    BY <1>1 DEF R!OperationBegins, R!OperationEnds
  <2>2. R!TypeOK'
    BY <2>1 DEF ProjectsAgreed, R!TypeOK, Published, R!Calls
  <2>3. HostsOfCalls' /\ Published' /\ Accounted'
    BY <2>1 DEF ProjectsAgreed, HostsOfCalls, Published, Accounted, R!InProgress
  <2> QED
    BY <2>1, <2>2, <2>3 DEF ProjectsAgreed
<1>2. ASSUME NEW h \in R!Calls, R!HostCloses(h) PROVE ProjectsAgreed'
  <2>1. /\ UNCHANGED <<calls, busy, active, closed, closer, overlapped>>
        /\ host[h] = "closing" /\ h \notin busy
        /\ host' \in [R!Calls -> {"none", "open", "closing", "closed"}]
        /\ \A g \in R!Calls : host'[g] = IF g = h THEN "closed" ELSE host[g]
    BY <1>2 DEF R!HostCloses, ProjectsAgreed, R!TypeOK
  <2>2. R!TypeOK'
    BY <2>1 DEF ProjectsAgreed, R!TypeOK
  <2>3. HostsOfCalls'
    BY <2>1 DEF ProjectsAgreed, HostsOfCalls
  <2>4. Published'
    BY <2>1 DEF ProjectsAgreed, Published, R!TypeOK, R!Calls
  <2>5. Accounted'
    BY <2>1 DEF ProjectsAgreed, Accounted, R!InProgress
  <2> QED
    BY <2>1, <2>2, <2>3, <2>4, <2>5 DEF ProjectsAgreed
<1> QED
  BY <1>1, <1>2

LEMMA ProjectsStep ==
  ASSUME ProjectsAgreed, [DeviceNext]_deviceVars
  PROVE  ProjectsAgreed'
<1>1. CASE UNCHANGED projectVars
  BY <1>1 DEF projectVars, ProjectsAgreed, R!TypeOK, HostsOfCalls, Published, Accounted, R!InProgress
<1>2. CASE R!Next
  <2>1. ASSUME NEW c \in R!Calls, NEW p \in Projects, R!SelectProject(c, p) PROVE ProjectsAgreed'
    BY <2>1, RequestArrives
  <2>2. ASSUME NEW c \in R!Calls, R!CloseActiveProject(c) PROVE ProjectsAgreed'
    <3> DEFINE o == [project |-> "none", step |-> "leaving", leaves |-> active]
    <3>1. o \in R!Call /\ o.step = "leaving" /\ o.leaves = active
      BY DEF R!Call, R!Steps, ProjectsAgreed, R!TypeOK
    <3>2. calls' = [calls EXCEPT ![c] = o]
      BY <2>2 DEF R!CloseActiveProject
    <3> HIDE DEF o
    <3> QED
      BY <2>2, <3>1, <3>2, RequestLeaves DEF R!CloseActiveProject, R!Arrives, R!Admit
  <2>3. ASSUME NEW c \in R!Calls, R!LeaveActive(c) PROVE ProjectsAgreed'
    <3> DEFINE o == [calls[c] EXCEPT !.step = "leaving", !.leaves = active]
    <3>1. o \in R!Call /\ o.step = "leaving" /\ o.leaves = active
      <4>1. calls[c] \in R!Call /\ active \in 0..MaxCalls /\ "leaving" \in R!Steps
        BY DEF ProjectsAgreed, R!TypeOK, R!Steps
      <4> QED
        BY <4>1 DEF R!Call
    <3>2. calls' = [calls EXCEPT ![c] = o]
      BY <2>3 DEF R!LeaveActive, ProjectsAgreed, R!TypeOK
    <3> HIDE DEF o
    <3> QED
      BY <2>3, <3>1, <3>2, RequestLeaves DEF R!LeaveActive
  <2> QED
    BY <1>2, <2>1, <2>2, <2>3, RequestGoes, HostOpened, ProjectsClose, HostsGoOn DEF R!Next
<1> QED
  BY <1>1, <1>2 DEF DeviceNext, deviceVars, projectVars

\* In every run of the launcher, of however many requests, the published host is open, one
\* project is open unless requests overlapped, and a request that failed, or close(),
\* leaves no host behind (web-runtime.ts).
THEOREM ProjectsHold == DeviceSpec => []ProjectsInv
<1>1. DeviceInit => ProjectsAgreed
  BY ProjectsStart DEF DeviceInit
<1>2. ProjectsAgreed /\ [DeviceNext]_deviceVars => ProjectsAgreed'
  BY ProjectsStep
<1>3. ProjectsAgreed => ProjectsInv
  <2> SUFFICES ASSUME ProjectsAgreed
               PROVE  R!Inv /\ R!OwnsOneUnlessOverlapped /\ R!NoHostLeftOpen
    BY DEF ProjectsInv
  <2>1. R!Inv
    BY DEF ProjectsAgreed, Published, R!Inv, R!ActiveIsOpen
  <2>2. R!OwnsOneUnlessOverlapped
    BY DEF ProjectsAgreed, Accounted, R!OwnsOneUnlessOverlapped, R!InProgress, R!Settled, R!Calls
  <2>3. R!NoHostLeftOpen
    <3>1. \A h \in R!Calls : h # 0 /\ host[h] \in {"none", "open", "closing", "closed"}
      BY DEF R!Calls, ProjectsAgreed, R!TypeOK
    <3> QED
      BY <3>1 DEF ProjectsAgreed, HostsOfCalls, Accounted, R!NoHostLeftOpen, R!InProgress, R!Settled
  <2> QED
    BY <2>1, <2>2, <2>3
<1> QED
  BY <1>1, <1>2, <1>3, PTL DEF DeviceSpec

\* For any processes, requests, projects and calls, in every state of a device: the lease is
\* given back by whoever stops without dying, operations of the host are one at a time and
\* stand as answered, and the launcher has one project open unless requests overlap.
THEOREM DeviceHolds == DeviceSpec => []DeviceInv
<1>1. DirectoryInv /\ HostInv /\ ProjectsInv => DeviceInv
  BY DEF DeviceInv
<1> QED
  BY <1>1, DirectoryHolds, HostHolds, ProjectsHold, PTL

\* No request ever takes the host from an operation in progress: only close() of the whole
\* launcher does (assertIdle, evaluated in the turn that unpublishes the host).
THEOREM BusyHostIsKept == DeviceSpec => BusyHostKept
<1>1. DeviceInit => ProjectsAgreed
  BY ProjectsStart DEF DeviceInit
<1>2. ProjectsAgreed /\ [DeviceNext]_deviceVars => ProjectsAgreed'
  BY ProjectsStep
<1>3. ProjectsAgreed /\ [DeviceNext]_deviceVars =>
        [\A h \in R!Calls :
           host[h] = "open" /\ host'[h] = "closing" /\ h \in busy => closed' # closed]_(R!vars)
  <2> SUFFICES ASSUME ProjectsAgreed, R!Next, NEW h \in R!Calls,
                      host[h] = "open", host'[h] = "closing", h \in busy, closed' = closed
               PROVE  FALSE
    BY DEF DeviceNext, deviceVars, projectVars, R!vars
  <2>1. calls[h].step = "resolved"
    BY DEF ProjectsAgreed, HostsOfCalls
  <2>2. ~R!Close
    BY DEF R!Close
  <2>3. ASSUME NEW c \in R!Calls, R!CloseActiveProject(c) \/ R!LeaveActive(c) PROVE FALSE
    BY <2>3 DEF R!CloseActiveProject, R!LeaveActive, R!Leave, R!Idle, ProjectsAgreed, R!TypeOK
  <2>4. ASSUME NEW c \in R!Calls, R!OpenProject(c) \/ R!OwnershipFails(c) \/ R!HostCloses(c) PROVE FALSE
    BY <2>1, <2>4 DEF R!OpenProject, R!OwnershipFails, R!HostCloses, ProjectsAgreed, R!TypeOK
  <2>5. host' # host
    OBVIOUS
  <2> QED
    BY <2>2, <2>3, <2>4, <2>5
       DEF R!Next, R!SelectProject, R!NotSelectable, R!AlreadyActive, R!ActiveBusy, R!NothingActive,
           R!Left, R!OpenFails, R!Publish, R!Undone, R!OperationEnds, R!OperationBegins
<1> QED
  BY <1>1, <1>2, <1>3, PTL DEF DeviceSpec, BusyHostKept, R!BusyHostKept

-----------------------------------------------------------------------------

(* TaskPage *)

\* What a page may hold of each kind.
Details == {T!NoDetail} \cup [task : Tasks, revision : Nat, active : T!Ids \cup {T!None},
                              messages : Nat]
Keys == [task : Tasks, revision : Nat, text : Texts]
Rows == {T!NoRow} \cup [status : {"pending", "completed", "failed", "interrupted"},
                        task : Tasks, text : Texts, revision : Nat]
Submissions == [phase : {"sent", "served", "refused", "waiting", "refreshing"}, id : T!Ids,
                task : Tasks, text : Texts, revision : Nat, before : Nat, left : Nat]
Recoveries == [phase : {"recovering", "refreshing"}, id : T!Ids, task : Tasks]
TaskReads == [generation : 1..MaxSelected, task : Tasks, own : BOOLEAN, answer : Details]

TaskShapes ==
    /\ shown \in Tasks /\ generation \in 1..MaxSelected
    /\ detail \in Details
    /\ requestId \in T!Ids \cup {T!None} /\ requestKey \in Keys \cup {T!NoKey}
    /\ flight \in {T!Idle} \cup Submissions \cup Recoveries
    /\ reads \subseteq TaskReads
    /\ server \in [Tasks -> [revision : Nat, active : T!Ids \cup {T!None}, messages : Nat]]
    /\ request \in [T!Ids -> Rows]
    /\ made \in 0..MaxRequests /\ crossed \in BOOLEAN

\* Whatever will land in this generation, or begins a read in it, is of the task shown.
OfTask ==
    /\ detail # T!NoDetail /\ detail.task # shown => crossed
    /\ T!busy /\ flight.task # shown => crossed
    /\ \A r \in reads :
         /\ r.generation <= generation
         /\ r.answer # T!NoDetail => r.answer.task = r.task
         /\ r.generation = generation /\ r.task # shown => crossed

Same(a, b) == a.task = b.task /\ a.text = b.text /\ a.revision = b.revision

\* The id that is kept, and the one that was sent, were made for what they stand for.
Named ==
    /\ \A i \in T!Ids : i > made => request[i] = T!NoRow
    /\ requestId <= made
    /\ requestId # T!None => requestKey \in Keys
    /\ requestId # T!None /\ request[requestId] # T!NoRow => Same(request[requestId], requestKey)
    /\ flight.phase \in {"sent", "served"} =>
         /\ flight.id <= made
         /\ request[flight.id] # T!NoRow => Same(request[flight.id], flight)
         /\ requestId = flight.id => Same(requestKey, flight)

TaskInv == TaskShapes /\ OfTask /\ Named

LEMMA ReadMade ==
  ASSUME TaskShapes, NEW t \in Tasks, NEW own \in BOOLEAN
  PROVE  /\ T!Read(t, own) \in TaskReads
         /\ T!Read(t, own).generation = generation /\ T!Read(t, own).task = t
         /\ T!Read(t, own).answer = T!NoDetail
  BY DEF TaskShapes, T!Read, TaskReads, Details

LEMMA ViewMade ==
  ASSUME TaskShapes, NEW t \in Tasks
  PROVE  T!View(t) \in Details /\ T!View(t).task = t
<1> DEFINE seen == T!Min2(server[t].messages, ViewLimit)
<1>1. /\ server[t].revision \in Nat /\ server[t].active \in T!Ids \cup {T!None}
      /\ server[t].messages \in Nat
  BY DEF TaskShapes
<1>2. seen \in Nat
  BY <1>1, BoundsAssumption DEF T!Min2
<1> QED BY <1>1, <1>2 DEF T!View, Details

LEMMA PagePhases ==
  ASSUME TaskShapes
  PROVE  /\ flight.phase \in {"sent", "served", "refused", "waiting"} => flight \in Submissions
         /\ flight.phase = "recovering" => flight \in Recoveries
         /\ T!busy <=> flight.phase # "none"
  BY DEF TaskShapes, T!Idle, T!busy, Submissions, Recoveries

LEMMA PhaseSet ==
  ASSUME NEW f,
         NEW p \in {"served", "refused", "waiting", "refreshing"}
  PROVE  /\ f \in Submissions =>
              /\ [f EXCEPT !.phase = p] \in Submissions
              /\ [f EXCEPT !.phase = p].id = f.id
              /\ [f EXCEPT !.phase = p].revision = f.revision
              /\ [f EXCEPT !.phase = p].text = f.text
         /\ f \in Recoveries /\ p = "refreshing" => [f EXCEPT !.phase = p] \in Recoveries
         /\ f \in Submissions \cup Recoveries =>
              /\ [f EXCEPT !.phase = p].phase = p
              /\ [f EXCEPT !.phase = p].task = f.task
  BY DEF Submissions, Recoveries

LEMMA ReadAdded ==
  ASSUME TaskShapes, OfTask, UNCHANGED <<generation, shown, detail, crossed>>,
         NEW read \in TaskReads, reads' = reads \cup {read},
         read.generation = generation, read.answer = T!NoDetail,
         read.task # shown => crossed,
         T!busy' => UNCHANGED flight \/ (flight'.task # shown => crossed)
  PROVE  OfTask'
<1>1. \A r \in reads' : /\ r.generation <= generation
                        /\ r.answer # T!NoDetail => r.answer.task = r.task
                        /\ r.generation = generation /\ r.task # shown => crossed
  BY DEF TaskShapes, OfTask
<1>2. T!busy' /\ flight'.task # shown => crossed
  BY DEF OfTask, T!busy
<1> QED BY <1>1, <1>2 DEF OfTask

LEMMA TaskInitially == T!PageInit => TaskInv
<1> SUFFICES ASSUME T!PageInit PROVE TaskInv
  OBVIOUS
<1>1. generation = 1 /\ 1 \in 1..MaxSelected /\ shown \in Tasks /\ made = 0 /\ 0 \in 0..MaxRequests
  BY BoundsAssumption DEF T!PageInit, T!PageBlank
<1>2. T!Read(shown, FALSE) \in TaskReads
  BY <1>1 DEF T!Read, TaskReads, Details
<1>3. /\ server \in [Tasks -> [revision : Nat, active : T!Ids \cup {T!None}, messages : Nat]]
      /\ request \in [T!Ids -> Rows]
  BY DEF T!PageInit, T!PageBlank, Rows, T!None
<1>4. TaskShapes
  BY <1>1, <1>2, <1>3 DEF TaskShapes, T!PageInit, T!PageBlank, Details
<1>5. OfTask
  BY <1>1 DEF OfTask, T!PageInit, T!PageBlank, T!Read, T!busy
<1>6. Named
  BY <1>1 DEF Named, T!PageInit, T!PageBlank, T!Idle, T!None, T!Ids
<1> QED BY <1>4, <1>5, <1>6 DEF TaskInv

LEMMA TaskStutters == TaskInv /\ UNCHANGED taskVars => TaskInv'
  BY DEF taskVars, TaskInv, TaskShapes, OfTask, Named, Same, T!busy

LEMMA TaskSelect ==
  ASSUME TaskInv, NEW t \in Tasks, T!Select(t) PROVE TaskInv'
<1> DEFINE next == [T!Read(t, FALSE) EXCEPT !.generation = generation']
<1>1. generation' = generation + 1 /\ generation' \in 1..MaxSelected /\ generation < generation'
  BY BoundsAssumption DEF TaskInv, TaskShapes, T!Select
<1>2. /\ next \in TaskReads /\ next.generation = generation' /\ next.task = t
      /\ next.answer = T!NoDetail
  <2>1. \A r \in TaskReads, g \in 1..MaxSelected :
          /\ [r EXCEPT !.generation = g] \in TaskReads
          /\ [r EXCEPT !.generation = g].generation = g
          /\ [r EXCEPT !.generation = g].task = r.task
          /\ [r EXCEPT !.generation = g].answer = r.answer
    BY DEF TaskReads
  <2>2. /\ T!Read(t, FALSE) \in TaskReads /\ T!Read(t, FALSE).task = t
        /\ T!Read(t, FALSE).answer = T!NoDetail
    BY ReadMade DEF TaskInv
  <2> QED BY <1>1, <2>1, <2>2
<1> HIDE DEF next
<1>3. TaskShapes'
  <2>1. reads' = reads \cup {next}
    BY DEF T!Select, next
  <2> QED BY <1>1, <1>2, <2>1 DEF TaskInv, TaskShapes, T!Select, Details
<1>4. OfTask'
  <2>1. \A r \in reads : r.generation < generation'
    BY <1>1 DEF TaskInv, TaskShapes, OfTask, TaskReads
  <2>2. /\ reads' = reads \cup {next} /\ shown' = t /\ detail' = T!NoDetail
        /\ flight' = flight /\ crossed' = (crossed \/ T!busy)
    BY DEF T!Select, next
  <2>3. \A r \in reads' : /\ r.generation <= generation'
                          /\ r.answer # T!NoDetail => r.answer.task = r.task
                          /\ r.generation = generation' => r.task = t
    <3>1. \A r \in reads : r.generation \in Nat /\ (r.answer # T!NoDetail => r.answer.task = r.task)
      BY DEF TaskInv, TaskShapes, OfTask, TaskReads
    <3> QED BY <1>1, <1>2, <2>1, <2>2, <3>1
  <2>4. T!busy' <=> T!busy
    BY <2>2 DEF T!busy
  <2> QED BY <2>2, <2>3, <2>4 DEF OfTask
<1>5. Named'
  <2>1. made \in Nat /\ (flight.phase \in {"sent", "served"} => flight.id > 0)
    BY PagePhases DEF TaskInv, TaskShapes, Submissions, T!Ids
  <2> QED BY <2>1 DEF TaskInv, Named, Same, T!Select, T!None
<1> QED BY <1>3, <1>4, <1>5 DEF TaskInv

LEMMA TaskServe ==
  ASSUME TaskInv, NEW r \in reads, T!Serve(r) PROVE TaskInv'
<1> DEFINE answered == [r EXCEPT !.answer = T!View(r.task)]
<1>1. r \in TaskReads
  BY DEF TaskInv, TaskShapes
<1>2. T!View(r.task) \in Details /\ T!View(r.task).task = r.task
  BY <1>1, ViewMade DEF TaskInv, TaskReads
<1>3. /\ answered \in TaskReads /\ answered.generation = r.generation
      /\ answered.task = r.task /\ answered.answer.task = r.task
  BY <1>1, <1>2 DEF TaskReads
<1>4. reads' = (reads \ {r}) \cup {answered}
  BY DEF T!Serve
<1>5. TaskShapes'
  BY <1>3, <1>4 DEF TaskInv, TaskShapes, T!Serve
<1>6. OfTask'
  BY <1>3, <1>4 DEF TaskInv, OfTask, T!Serve, T!busy
<1>7. Named'
  BY DEF TaskInv, Named, Same, T!Serve
<1> QED BY <1>5, <1>6, <1>7 DEF TaskInv

LEMMA TaskLand ==
  ASSUME TaskInv, NEW r \in reads, T!Land(r) PROVE TaskInv'
  BY DEF T!Land, T!Lands, T!AfterRead, TaskInv, TaskShapes, OfTask, Named, Same, T!busy,
     TaskReads, T!Idle

LEMMA TaskLose ==
  ASSUME TaskInv, NEW r \in reads, T!LoseRead(r) PROVE TaskInv'
  BY DEF T!LoseRead, T!AfterRead, TaskInv, TaskShapes, OfTask, Named, Same, T!busy,
     TaskReads, T!Idle

LEMMA TaskPoll == TaskInv /\ T!Poll => TaskInv'
<1> SUFFICES ASSUME TaskInv, T!Poll PROVE TaskInv'
  OBVIOUS
<1>1. shown \in Tasks /\ generation \in Nat
  BY DEF TaskInv, TaskShapes
<1>2. /\ T!Read(shown, FALSE) \in TaskReads
      /\ T!Read(shown, FALSE).generation = generation /\ T!Read(shown, FALSE).task = shown
      /\ T!Read(shown, FALSE).answer = T!NoDetail
  BY <1>1, ReadMade DEF TaskInv
<1>3. TaskShapes'
  BY <1>2 DEF TaskInv, TaskShapes, T!Poll
<1>4. OfTask'
  <2>1. /\ reads' = reads \cup {T!Read(shown, FALSE)}
        /\ UNCHANGED <<generation, shown, detail, flight, crossed>>
    BY DEF T!Poll
  <2> QED BY <1>1, <1>2, <2>1, ReadAdded DEF TaskInv
<1>5. Named'
  BY DEF TaskInv, Named, Same, T!Poll
<1> QED BY <1>3, <1>4, <1>5 DEF TaskInv

LEMMA TaskSubmit ==
  ASSUME TaskInv, NEW text \in Texts, T!Submit(text) PROVE TaskInv'
<1> DEFINE id == T!IdFor(text)
<1>1. /\ id \in T!Ids /\ id \in Nat /\ made \in Nat
      /\ id = T!NewId \/ (id = requestId /\ requestKey = T!Key(text) /\ requestId # T!None)
  <2>1. id \in T!Ids /\ made \in Nat
    BY DEF T!Submit, TaskInv, TaskShapes
  <2>2. id \in Nat
    BY <2>1, BoundsAssumption DEF T!Ids
  <2> QED BY <2>1, <2>2 DEF T!IdFor
<1>2. /\ detail \in [task : Tasks, revision : Nat, active : T!Ids \cup {T!None}, messages : Nat]
      /\ shown \in Tasks
  BY DEF T!Submit, TaskInv, TaskShapes, Details
<1>3. T!Key(text) \in Keys /\ T!Key(text).task = shown /\ T!Key(text).text = text
        /\ T!Key(text).revision = detail.revision
  BY <1>2 DEF T!Key, Keys
<1>4. /\ flight' \in Submissions /\ flight'.phase = "sent" /\ flight'.id = id
      /\ flight'.task = shown /\ flight'.text = text /\ flight'.revision = detail.revision
  BY <1>1, <1>2, BoundsAssumption DEF T!Submit, Submissions
<1>5. made' \in 0..MaxRequests /\ made' >= made /\ id <= made'
  BY <1>1 DEF T!Submit, T!NewId, T!Ids, TaskInv, TaskShapes, Named
<1>6. requestId' = id /\ requestKey' = T!Key(text) /\ UNCHANGED <<request, shown, reads, detail>>
  BY DEF T!Submit
<1>7. TaskShapes'
  BY <1>1, <1>3, <1>4, <1>5, <1>6 DEF TaskInv, TaskShapes, T!Submit
<1>8. OfTask'
  BY <1>4, <1>6 DEF TaskInv, OfTask, T!Submit
<1>9. Named'
  <2>1. request[id] # T!NoRow => Same(request[id], T!Key(text))
    BY <1>1, <1>3 DEF TaskInv, Named, T!NewId
  <2>2. \A i \in T!Ids : i > made' => request'[i] = T!NoRow
    BY <1>5, <1>6, <1>1 DEF TaskInv, Named, T!Ids
  <2> QED BY <1>3, <1>4, <1>5, <1>6, <2>1, <2>2 DEF Named, Same
<1> QED BY <1>7, <1>8, <1>9 DEF TaskInv

LEMMA TaskArrive == TaskInv /\ T!Arrive => TaskInv'
<1> SUFFICES ASSUME TaskInv, T!Arrive PROVE TaskInv'
  OBVIOUS
<1> DEFINE row == [status |-> "pending", task |-> flight.task, text |-> flight.text,
                   revision |-> flight.revision]
<1>1. flight \in Submissions /\ flight.id \in T!Ids /\ flight.task \in Tasks
  BY PagePhases DEF T!Arrive, TaskInv, Submissions
<1>2. row \in Rows /\ Same(row, flight)
  BY <1>1 DEF Submissions, Rows, Same
<1>3. \/ UNCHANGED <<request, server>>
      \/ /\ request' = [request EXCEPT ![flight.id] = row] /\ request[flight.id] = T!NoRow
         /\ server' = [server EXCEPT ![flight.task].revision = @ + 1,
                                     ![flight.task].active = flight.id,
                                     ![flight.task].messages = @ + 1]
  BY DEF T!Arrive
<1>4. /\ flight' \in Submissions /\ flight'.phase \in {"served", "refused"} /\ flight'.id = flight.id
      /\ flight'.task = flight.task /\ flight'.text = flight.text
      /\ flight'.revision = flight.revision
  <2>1. PICK p \in {"served", "refused"} : flight' = [flight EXCEPT !.phase = p]
    BY DEF T!Arrive
  <2>2. /\ [flight EXCEPT !.phase = p] \in Submissions
        /\ [flight EXCEPT !.phase = p].id = flight.id
        /\ [flight EXCEPT !.phase = p].revision = flight.revision
        /\ [flight EXCEPT !.phase = p].text = flight.text
        /\ [flight EXCEPT !.phase = p].phase = p
        /\ [flight EXCEPT !.phase = p].task = flight.task
    BY <1>1 DEF Submissions
  <2> QED BY <2>1, <2>2
<1>5. TaskShapes'
  <2>1. request' \in [T!Ids -> Rows]
    BY <1>2, <1>3 DEF TaskInv, TaskShapes
  <2>2. server' \in [Tasks -> [revision : Nat, active : T!Ids \cup {T!None}, messages : Nat]]
    BY <1>1, <1>3 DEF TaskInv, TaskShapes
  <2> QED BY <1>4, <2>1, <2>2 DEF TaskInv, TaskShapes, T!Arrive
<1>6. OfTask'
  BY <1>4, PagePhases DEF TaskInv, OfTask, T!Arrive
<1>7. Named'
  <2>1. flight.id <= made
    BY DEF TaskInv, Named, T!Arrive
  <2>2. \A i \in T!Ids : \/ request'[i] = request[i]
                         \/ i = flight.id /\ request'[i] = row
    BY <1>3 DEF TaskInv, TaskShapes
  <2>3. requestId = flight.id => Same(requestKey, flight)
    BY DEF TaskInv, Named, T!Arrive
  <2>4. flight.id \in Nat /\ made \in Nat
    BY <1>1 DEF T!Ids, TaskInv, TaskShapes
  <2>5. request[flight.id] # T!NoRow => Same(request[flight.id], flight)
    BY DEF TaskInv, Named, T!Arrive
  <2>6. request'[flight.id] # T!NoRow => Same(request'[flight.id], flight)
    BY <1>1, <1>2, <2>2, <2>5
  <2>7. UNCHANGED <<made, requestId, requestKey>>
    BY DEF T!Arrive
  <2>8. \A i \in T!Ids : i > made => request'[i] = T!NoRow
    BY <2>1, <2>2, <2>4 DEF TaskInv, Named, T!Ids
  <2>9. requestId # T!None /\ request'[requestId] # T!NoRow => Same(request'[requestId], requestKey)
    BY <1>2, <2>2, <2>3 DEF TaskInv, TaskShapes, Named, Same
  <2> QED BY <1>4, <2>1, <2>3, <2>6, <2>7, <2>8, <2>9 DEF TaskInv, Named, Same
<1> QED BY <1>5, <1>6, <1>7 DEF TaskInv

LEMMA TaskFinish ==
  ASSUME TaskInv, NEW i \in T!Ids, NEW ok \in BOOLEAN, T!Finish(i, ok) PROVE TaskInv'
  BY DEF T!Finish, T!busy, TaskInv, TaskShapes, OfTask, Named, Same, Rows, T!Ids, T!None, T!NoRow

LEMMA TaskAnswer == TaskInv /\ T!Answer => TaskInv'
  BY DEF T!Answer, T!busy, TaskInv, TaskShapes, OfTask,
     Named, Same, Submissions, Recoveries, T!Idle

\* The refresh at the end of a submission is of its own task, in this generation.
LEMMA SubmitEnds ==
  ASSUME TaskInv, flight.phase \in {"sent", "served", "refused", "waiting"}, T!EndsSubmit,
         T!Keep \/ T!Forget
  PROVE  TaskInv'
<1> DEFINE read == T!Read(flight.task, TRUE)
<1>1. flight \in Submissions /\ flight.task \in Tasks
  BY PagePhases DEF TaskInv, Submissions
<1>2. /\ read \in TaskReads /\ read.generation = generation /\ read.task = flight.task
      /\ read.answer = T!NoDetail
  BY <1>1, ReadMade DEF TaskInv
<1>3. flight' \in Submissions /\ flight'.phase = "refreshing" /\ flight'.task = flight.task
  BY <1>1, PhaseSet DEF T!EndsSubmit
<1>4. requestId' \in T!Ids \cup {T!None} /\ requestKey' \in Keys \cup {T!NoKey}
  BY DEF T!Keep, T!Forget, TaskInv, TaskShapes
<1>5. TaskShapes'
  BY <1>2, <1>3, <1>4 DEF TaskInv, TaskShapes, T!EndsSubmit
<1>6. OfTask'
  <2>1. /\ reads' = reads \cup {read}
        /\ UNCHANGED <<generation, shown, detail, crossed>>
    BY DEF T!EndsSubmit
  <2>2. T!busy
    BY PagePhases DEF TaskInv
  <2> QED BY <1>2, <1>3, <2>1, <2>2, ReadAdded DEF TaskInv, OfTask
<1>7. Named'
  <2>1. made \in Nat
    BY DEF TaskInv, TaskShapes
  <2>2. UNCHANGED <<request, made>>
    BY DEF T!EndsSubmit
  <2>3. CASE T!Keep
    BY <1>3, <2>2, <2>3 DEF T!Keep, TaskInv, Named, Same
  <2>4. CASE T!Forget
    BY <1>3, <2>1, <2>2, <2>4 DEF T!Forget, TaskInv, Named, Same, T!None
  <2> QED BY <2>3, <2>4
<1> QED BY <1>5, <1>6, <1>7 DEF TaskInv

LEMMA TaskRefused == TaskInv /\ T!Refused => TaskInv'
  BY SubmitEnds DEF T!Refused

LEMMA TaskNetworkFails == TaskInv /\ T!NetworkFails => TaskInv'
  BY SubmitEnds DEF T!NetworkFails

LEMMA TaskLook == TaskInv /\ T!Look => TaskInv'
<1> SUFFICES ASSUME TaskInv, T!Look PROVE TaskInv'
  OBVIOUS
<1>1. CASE T!EndsSubmit /\ (T!Keep \/ T!Forget)
  BY <1>1, SubmitEnds DEF T!Look
<1>2. CASE /\ flight' = [flight EXCEPT !.left = IF @ = 0 THEN 0 ELSE @ - 1]
           /\ UNCHANGED <<shown, generation, detail, requestId, requestKey, reads, server,
                          request, made, crossed>>
  <2>1. flight \in Submissions
    BY PagePhases DEF TaskInv, T!Look
  <2>2. /\ flight' \in Submissions /\ flight'.phase = flight.phase /\ flight'.task = flight.task
    BY <1>2, <2>1 DEF Submissions
  <2>3. TaskShapes'
    BY <1>2, <2>2 DEF TaskInv, TaskShapes
  <2>4. OfTask'
    BY <1>2, <2>2, PagePhases DEF TaskInv, OfTask, T!Look
  <2>5. Named'
    BY <1>2, <2>2 DEF TaskInv, Named, Same, T!Look
  <2> QED BY <2>3, <2>4, <2>5 DEF TaskInv
<1> QED BY <1>1, <1>2 DEF T!Look

LEMMA TaskRecover == TaskInv /\ T!Recover => TaskInv'
<1> SUFFICES ASSUME TaskInv, T!Recover PROVE TaskInv'
  OBVIOUS
<1>1. detail.active \in T!Ids /\ shown \in Tasks
  BY DEF T!Recover, TaskInv, TaskShapes, Details, T!None
<1>2. flight' \in Recoveries /\ flight'.phase = "recovering" /\ flight'.task = shown
  BY <1>1 DEF T!Recover, Recoveries
<1>3. TaskShapes'
  BY <1>2 DEF TaskInv, TaskShapes, T!Recover
<1>4. OfTask'
  BY <1>2 DEF TaskInv, OfTask, T!Recover
<1>5. Named'
  BY <1>2 DEF TaskInv, Named, Same, T!Recover
<1> QED BY <1>3, <1>4, <1>5 DEF TaskInv

LEMMA TaskRecovered == TaskInv /\ T!Recovered => TaskInv'
<1> SUFFICES ASSUME TaskInv, T!Recovered PROVE TaskInv'
  OBVIOUS
<1> DEFINE read == T!Read(flight.task, TRUE)
<1>1. flight \in Recoveries /\ flight.task \in Tasks /\ flight.id \in T!Ids
  BY PagePhases DEF TaskInv, T!Recovered, Recoveries
<1>2. CASE flight' = T!Idle /\ UNCHANGED <<server, request, reads>>
  <2>1. TaskShapes'
    BY <1>2 DEF TaskInv, TaskShapes, T!Recovered
  <2>2. OfTask'
    BY <1>2 DEF TaskInv, OfTask, T!Recovered, T!busy, T!Idle
  <2>3. Named'
    BY <1>2 DEF TaskInv, Named, Same, T!Recovered, T!Idle
  <2> QED BY <2>1, <2>2, <2>3 DEF TaskInv
<1>3. CASE /\ request[flight.id].status = "pending"
           /\ request' = [request EXCEPT ![flight.id].status = "interrupted"]
           /\ server' = [server EXCEPT ![flight.task].revision = @ + 1,
                                       ![flight.task].active = T!None]
           /\ reads' = reads \cup {read}
           /\ flight' = [flight EXCEPT !.phase = "refreshing"]
  <2>1. /\ read \in TaskReads /\ read.generation = generation /\ read.task = flight.task
        /\ read.answer = T!NoDetail
    BY <1>1, ReadMade DEF TaskInv
  <2>2. flight' \in Recoveries /\ flight'.phase = "refreshing" /\ flight'.task = flight.task
    BY <1>1, <1>3, PhaseSet
  <2>3. /\ request[flight.id] \in Rows /\ request[flight.id] # T!NoRow
        /\ request'[flight.id] \in Rows
        /\ Same(request'[flight.id], request[flight.id])
        /\ \A i \in T!Ids : i # flight.id => request'[i] = request[i]
        /\ request' \in [T!Ids -> Rows]
    BY <1>1, <1>3 DEF TaskInv, TaskShapes, Rows, T!NoRow, Same
  <2>4. server' \in [Tasks -> [revision : Nat, active : T!Ids \cup {T!None}, messages : Nat]]
    BY <1>1, <1>3 DEF TaskInv, TaskShapes
  <2>5. TaskShapes'
    BY <1>3, <2>1, <2>2, <2>3, <2>4 DEF TaskInv, TaskShapes, T!Recovered
  <2>6. OfTask'
    <3>1. UNCHANGED <<generation, shown, detail, crossed>> /\ T!busy
      BY PagePhases DEF TaskInv, T!Recovered
    <3> QED BY <1>3, <2>1, <2>2, <3>1, ReadAdded DEF TaskInv, OfTask
  <2>7. Named'
    BY <2>2, <2>3 DEF TaskInv, TaskShapes, Named, Same, T!Recovered
  <2> QED BY <2>5, <2>6, <2>7 DEF TaskInv
<1> QED BY <1>2, <1>3 DEF T!Recovered

LEMMA TaskSteps == TaskInv /\ T!PageStep => TaskInv'
  BY TaskSelect, TaskServe, TaskLand, TaskLose, TaskPoll, TaskSubmit, TaskArrive, TaskFinish,
     TaskAnswer, TaskRefused, TaskNetworkFails, TaskLook, TaskRecover, TaskRecovered DEF T!PageStep

LEMMA TaskHolds == TaskInv => T!PageInv
  BY DEF TaskInv, TaskShapes, OfTask, Named, Same, T!PageInv, T!PageTypeOK, T!DetailOfTask,
     T!IdIsOneOperation, Details, Rows, T!NoDetail, T!NoRow

(* ExecutionPanel *)

Runs == [revision : 1..MaxRevision, next : {"execute", "none"} \cup E!Waiting,
         id : (1..MaxLoads) \X {1}]
Offers == [revision : 1..MaxRevision, allowed : SUBSET {"approve-changes", "retry-task", "cancel"}]
PanelPolls == [gen : 1..MaxLoads, answer : Runs \cup {E!NoRun}, served : BOOLEAN]
Kinds == {"start", "retry-task", "approve-changes", "cancel"}

\* The execution was e before, or is e: one that waits for the changes to be reviewed
\* only ends after it.
Past(e) ==
    /\ e \in Runs /\ run \in Runs /\ e.revision <= run.revision
    /\ e.revision = run.revision => e = run
    /\ e.next = "review-changes" => e = run \/ run.next = "none"

PanelShapes ==
    /\ run \in Runs \cup {E!NoRun}
    /\ gen \in 1..MaxLoads
    /\ startId \in {0, 1}
    /\ fetch \in [for : Runs \cup {E!NoRun}, got : BOOLEAN]
    /\ offer \in Offers \cup {E!NoOffer}
    /\ polls \subseteq PanelPolls

\* What is shown, and what is on its way, was read of this execution.
ReadOfRun ==
    /\ progress = E!NoRun \/ Past(progress)
    /\ \A p \in polls : p.answer = E!NoRun \/ Past(p.answer)
    /\ offer # E!NoOffer => run \in Runs /\ offer.revision <= run.revision
    /\ fetch # E!NoFetch => run \in Runs

\* The call that is awaited: a start under the one id of its generation, or a call
\* about an execution that was shown.
Called ==
    /\ {"kind", "gen", "at"} \subseteq DOMAIN call
    /\ call.kind \in Kinds /\ call.at \in {"sent", "done", "refused"}
    /\ call.gen \in 0..MaxLoads
    /\ call.kind = "start" =>
         /\ "id" \in DOMAIN call /\ call.id \in (1..MaxLoads) \X {1}
         /\ call.gen = gen => call.id = <<gen, 1>>
         /\ call.at = "refused" => run \in Runs /\ run.id # call.id
    /\ call.kind # "start" => run \in Runs
    /\ call.kind = "approve-changes" =>
         /\ "shown" \in DOMAIN call
         /\ \/ run.revision = call.shown /\ run.next = "review-changes"
            \/ run.next = "none"
    /\ call.at = "done" => Past(call.answer)

CallStands == call = E!NoCall \/ Called

ExecutionInv == PanelShapes /\ ReadOfRun /\ CallStands /\ approved = TRUE

\* What a step of the server makes of the execution.
Advances ==
    /\ run \in Runs /\ run' \in Runs
    /\ run'.revision = run.revision + 1 /\ run'.id = run.id
    /\ run.next # "none"
    /\ run.next = "review-changes" => run'.next = "none"

LEMMA PastStays ==
  ASSUME NEW e, Past(e), Advances PROVE Past(e)'
  BY BoundsAssumption DEF Past, Advances, Runs

LEMMA PastNow == ASSUME run \in Runs PROVE Past(run)
  BY BoundsAssumption DEF Past, Runs

LEMMA DecidedAdvances ==
  ASSUME PanelShapes, run # E!NoRun, E!Room, NEW d \in E!Allowed, run' = E!Decided(d)
  PROVE  Advances
<1>1. run \in Runs
  BY DEF PanelShapes
<1>2. \/ run.next = "review-changes" /\ d \in {"approve-changes", "cancel"}
      \/ run.next = "resume" /\ d \in {"retry-task", "cancel"}
  BY DEF E!Allowed
<1>3. PICK next \in {"execute", "none"} :
         /\ run' = [run EXCEPT !.revision = @ + 1, !.next = next]
         /\ run.next = "review-changes" => next = "none"
  BY <1>2 DEF E!Decided, E!After
<1>4. run'.next = next /\ run'.revision = run.revision + 1 /\ run'.id = run.id
  BY <1>1, <1>3 DEF Runs
<1>5. run.revision + 1 \in 1..MaxRevision
  BY <1>1, BoundsAssumption DEF Runs, E!Room
<1>6. run' \in Runs
  BY <1>1, <1>3, <1>5 DEF Runs
<1> QED BY <1>1, <1>2, <1>3, <1>4, <1>6 DEF Advances

LEMMA ReadsStay ==
  ASSUME PanelShapes, ReadOfRun, Advances, UNCHANGED <<progress, polls, offer, fetch>>
  PROVE  ReadOfRun'
<1>1. progress' = E!NoRun \/ Past(progress)'
  BY PastStays DEF ReadOfRun
<1>2. \A p \in polls' : p.answer = E!NoRun \/ Past(p.answer)'
  BY PastStays DEF ReadOfRun
<1>3. offer' # E!NoOffer => run' \in Runs /\ offer'.revision <= run'.revision
  BY BoundsAssumption DEF ReadOfRun, Advances, Runs, PanelShapes, Offers
<1>4. fetch' # E!NoFetch => run' \in Runs
  BY DEF Advances
<1> QED BY <1>1, <1>2, <1>3, <1>4 DEF ReadOfRun, Past

LEMMA CallStays ==
  ASSUME PanelShapes, CallStands, Advances, UNCHANGED <<gen, call>>
  PROVE  CallStands'
<1> SUFFICES ASSUME Called PROVE Called'
  BY DEF CallStands
<1>1. call.at = "done" => Past(call.answer)'
  BY PastStays DEF Called
<1>2. call.kind = "approve-changes" => run'.next = "none"
  BY DEF Called, Advances
<1>3. call.kind = "start" /\ call.at = "refused" => run' \in Runs /\ run'.id # call.id
  BY DEF Called, Advances
<1> QED BY <1>1, <1>2, <1>3 DEF Called, Advances, Past

LEMMA ShapesStay ==
  ASSUME PanelShapes, run' \in Runs \cup {E!NoRun},
         UNCHANGED <<gen, startId, fetch, offer, polls>>
  PROVE  PanelShapes'
  BY DEF PanelShapes

LEMMA NoFetchShape == E!NoFetch \in [for : Runs \cup {E!NoRun}, got : BOOLEAN]
  BY DEF E!NoFetch

LEMMA PollShape ==
  ASSUME NEW g \in 1..MaxLoads
  PROVE  [gen |-> g, answer |-> E!NoRun, served |-> FALSE] \in PanelPolls
  BY DEF PanelPolls

LEMMA ProgressSet ==
  ASSUME PanelShapes, ReadOfRun, NEW e, Past(e), E!SetProgress(e), UNCHANGED run,
         polls' \subseteq polls
  PROVE  /\ ReadOfRun'
         /\ fetch' \in [for : Runs \cup {E!NoRun}, got : BOOLEAN]
         /\ offer' \in Offers \cup {E!NoOffer}
<1>1. progress' = e /\ Past(e)' /\ run' \in Runs
  BY DEF E!SetProgress, Past
<1>2. /\ fetch' \in {fetch, [for |-> e, got |-> FALSE], E!NoFetch}
      /\ offer' \in {offer, E!NoOffer}
  BY DEF E!SetProgress
<1>3. fetch' \in [for : Runs \cup {E!NoRun}, got : BOOLEAN]
  <2>1. [for |-> e, got |-> FALSE] \in [for : Runs \cup {E!NoRun}, got : BOOLEAN]
    BY DEF Past
  <2>2. fetch \in [for : Runs \cup {E!NoRun}, got : BOOLEAN]
    BY DEF PanelShapes
  <2> QED BY <1>2, <2>1, <2>2, NoFetchShape
<1>4. \A p \in polls' : p.answer = E!NoRun \/ Past(p.answer)'
  BY DEF ReadOfRun, Past
<1> QED BY <1>1, <1>2, <1>3, <1>4 DEF ReadOfRun, PanelShapes

LEMMA PanelInitially == E!PanelInit => ExecutionInv
  BY BoundsAssumption DEF E!PanelInit, E!PanelBlank, ExecutionInv, PanelShapes, ReadOfRun,
     CallStands, PanelPolls, E!NoFetch, E!NoRun

LEMMA PanelStutters == ExecutionInv /\ UNCHANGED panelVars => ExecutionInv'
  BY DEF panelVars, ExecutionInv, PanelShapes, ReadOfRun, CallStands, Called, Past

LEMMA PanelWork == ExecutionInv /\ E!Work => ExecutionInv'
<1> SUFFICES ASSUME ExecutionInv, E!Work PROVE ExecutionInv'
  OBVIOUS
<1>1. run \in Runs /\ run.next = "execute"
  BY DEF ExecutionInv, PanelShapes, E!Work
<1>2. PICK next \in {"execute", "none"} \cup E!Waiting :
         run' = [run EXCEPT !.revision = @ + 1, !.next = next]
  BY DEF E!Work, E!After
<1>3. run.revision + 1 \in 1..MaxRevision
  BY <1>1, BoundsAssumption DEF Runs, E!Room, E!Work
<1>4. run' \in Runs /\ run'.revision = run.revision + 1 /\ run'.id = run.id
  BY <1>1, <1>2, <1>3 DEF Runs
<1>5. Advances
  BY <1>1, <1>4 DEF Advances
<1> QED BY <1>4, <1>5, ShapesStay, ReadsStay, CallStays DEF ExecutionInv, E!Work

LEMMA PanelElsewhere == ExecutionInv /\ E!Elsewhere => ExecutionInv'
<1> SUFFICES ASSUME ExecutionInv, E!Elsewhere PROVE ExecutionInv'
  OBVIOUS
<1>1. Advances
  BY DecidedAdvances DEF ExecutionInv, E!Elsewhere
<1>2. run' \in Runs
  BY <1>1 DEF Advances
<1> QED BY <1>1, <1>2, ShapesStay, ReadsStay, CallStays DEF ExecutionInv, E!Elsewhere

LEMMA PanelReload == ExecutionInv /\ E!Reload => ExecutionInv'
<1> SUFFICES ASSUME ExecutionInv, E!Reload PROVE ExecutionInv'
  OBVIOUS
<1> DEFINE poll == [gen |-> gen + 1, answer |-> E!NoRun, served |-> FALSE]
<1>1. gen' = gen + 1 /\ gen' \in 1..MaxLoads
  BY BoundsAssumption DEF E!Reload, ExecutionInv, PanelShapes
<1>2. /\ run' = run /\ progress' = E!NoRun /\ offer' = E!NoOffer /\ fetch' = E!NoFetch
      /\ startId' = 0 /\ polls' = polls \cup {poll} /\ approved' = approved
  BY <1>1 DEF E!Reload
<1>3. PanelShapes'
  <2>1. poll \in PanelPolls
    BY <1>1, PollShape
  <2> QED BY <1>1, <1>2, <2>1, NoFetchShape DEF ExecutionInv, PanelShapes
<1>4. ReadOfRun'
  BY <1>2 DEF ExecutionInv, ReadOfRun, Past
<1>5. CallStands'
  <2>1. CASE call = E!NoCall
    BY <2>1 DEF E!Reload, CallStands
  <2>2. CASE call # E!NoCall
    <3>1. Called /\ call' = [call EXCEPT !.gen = 0]
      BY <2>2 DEF ExecutionInv, CallStands, E!Reload
    <3>2. /\ DOMAIN call' = DOMAIN call /\ call'.gen = 0
          /\ \A f \in DOMAIN call : f # "gen" => call'[f] = call[f]
      BY <3>1 DEF Called
    <3>3. Called'
      BY <1>1, <1>2, <3>1, <3>2, BoundsAssumption DEF Called, Past
    <3> QED BY <3>3 DEF CallStands
  <2> QED BY <2>1, <2>2
<1> QED BY <1>2, <1>3, <1>4, <1>5 DEF ExecutionInv

LEMMA CallKept ==
  ASSUME CallStands, UNCHANGED <<call, run, gen>> PROVE CallStands'
  BY DEF CallStands, Called, Past

LEMMA PanelPoll == ExecutionInv /\ E!Poll => ExecutionInv'
<1> SUFFICES ASSUME ExecutionInv, E!Poll PROVE ExecutionInv'
  OBVIOUS
<1>1. PanelShapes'
  BY PollShape DEF E!Poll, ExecutionInv, PanelShapes
<1>2. ReadOfRun'
  BY DEF E!Poll, ExecutionInv, ReadOfRun, Past
<1> QED BY <1>1, <1>2, CallKept DEF ExecutionInv, E!Poll

LEMMA PanelServe ==
  ASSUME ExecutionInv, NEW p \in polls, E!Serve(p) PROVE ExecutionInv'
<1> DEFINE answered == [p EXCEPT !.answer = run, !.served = TRUE]
<1>1. answered \in PanelPolls /\ answered.answer = run
  BY DEF ExecutionInv, PanelShapes, PanelPolls
<1>2. polls' = (polls \ {p}) \cup {answered}
  BY DEF E!Serve
<1>3. PanelShapes'
  BY <1>1, <1>2 DEF ExecutionInv, PanelShapes, E!Serve
<1>4. run = E!NoRun \/ Past(run)
  BY PastNow DEF ExecutionInv, PanelShapes
<1>5. ReadOfRun'
  BY <1>1, <1>2, <1>4 DEF ExecutionInv, ReadOfRun, E!Serve, Past
<1> QED BY <1>3, <1>5, CallKept DEF ExecutionInv, E!Serve

LEMMA PanelLand ==
  ASSUME ExecutionInv, NEW p \in polls, E!Land(p) PROVE ExecutionInv'
<1>1. polls' \subseteq polls /\ UNCHANGED <<run, gen, startId, call, approved>>
  BY DEF E!Land
<1>2. /\ ReadOfRun'
      /\ fetch' \in [for : Runs \cup {E!NoRun}, got : BOOLEAN]
      /\ offer' \in Offers \cup {E!NoOffer}
  <2>1. CASE p.answer # E!NoRun /\ E!SetProgress(p.answer)
    <3>1. Past(p.answer)
      BY <2>1 DEF ExecutionInv, ReadOfRun
    <3> QED BY <1>1, <2>1, <3>1, ProgressSet DEF ExecutionInv
  <2>2. CASE UNCHANGED <<progress, offer, fetch>>
    BY <1>1, <2>2 DEF ExecutionInv, PanelShapes, ReadOfRun, Past
  <2> QED BY <2>1, <2>2 DEF E!Land
<1>3. PanelShapes'
  BY <1>1, <1>2 DEF ExecutionInv, PanelShapes
<1> QED BY <1>1, <1>2, <1>3, CallKept DEF ExecutionInv

LEMMA PanelLose ==
  ASSUME ExecutionInv, NEW p \in polls, E!Lose(p) PROVE ExecutionInv'
<1>1. PanelShapes' /\ ReadOfRun'
  BY DEF E!Lose, ExecutionInv, PanelShapes, ReadOfRun, Past
<1> QED BY <1>1, CallKept DEF ExecutionInv, E!Lose

LEMMA PanelFetched == ExecutionInv /\ E!Fetched => ExecutionInv'
<1> SUFFICES ASSUME ExecutionInv, E!Fetched PROVE ExecutionInv'
  OBVIOUS
<1>1. run \in Runs /\ run.revision \in Nat
  BY BoundsAssumption DEF E!Fetched, ExecutionInv, ReadOfRun, Runs
<1>2. E!Allowed \subseteq {"approve-changes", "retry-task", "cancel"}
  BY DEF E!Allowed
<1>3. /\ offer' = [revision |-> run.revision, allowed |-> E!Allowed] /\ offer' \in Offers
      /\ offer'.revision <= run.revision
  BY <1>1, <1>2 DEF E!Fetched, Offers, Runs
<1>4. fetch' \in [for : Runs \cup {E!NoRun}, got : BOOLEAN]
  BY DEF E!Fetched, ExecutionInv, PanelShapes
<1>5. PanelShapes'
  BY <1>3, <1>4 DEF E!Fetched, ExecutionInv, PanelShapes
<1>6. ReadOfRun'
  BY <1>1, <1>3 DEF E!Fetched, ExecutionInv, ReadOfRun, Past
<1> QED BY <1>5, <1>6, CallKept DEF ExecutionInv, E!Fetched

LEMMA PanelPreview == ExecutionInv /\ E!Preview => ExecutionInv'
  BY DEF E!Preview, ExecutionInv, PanelShapes, ReadOfRun, CallStands, Called, Past

LEMMA PanelStart == ExecutionInv /\ E!Start => ExecutionInv'
<1> SUFFICES ASSUME ExecutionInv, E!Start PROVE ExecutionInv'
  OBVIOUS
<1>1. startId' = 1 /\ gen \in 1..MaxLoads /\ gen \in 0..MaxLoads
  BY BoundsAssumption DEF E!Start, E!StartIdFor, ExecutionInv, PanelShapes
<1>2. call' = [kind |-> "start", gen |-> gen, id |-> <<gen, 1>>, at |-> "sent"]
  BY <1>1 DEF E!Start
<1>3. Called'
  BY <1>1, <1>2 DEF Called, Kinds, E!Start
<1>4. PanelShapes' /\ ReadOfRun'
  BY <1>1 DEF E!Start, ExecutionInv, PanelShapes, ReadOfRun, Past
<1> QED BY <1>3, <1>4 DEF ExecutionInv, CallStands, E!Start

\* An answer leaves what the call is about.
LEMMA AnsweredCall ==
  ASSUME Called, NEW ok \in BOOLEAN, E!Answered(ok)
  PROVE  /\ DOMAIN call' = DOMAIN call \cup {"answer"}
         /\ call'.at = IF ok THEN "done" ELSE "refused"
         /\ call'.answer = run'
         /\ \A f \in DOMAIN call : f \notin {"at", "answer"} => call'[f] = call[f]
  BY DEF Called, E!Answered

LEMMA PanelStartArrives == ExecutionInv /\ E!StartArrives => ExecutionInv'
<1> SUFFICES ASSUME ExecutionInv, E!StartArrives PROVE ExecutionInv'
  OBVIOUS
<1>1. Called /\ call.id \in (1..MaxLoads) \X {1} /\ call.kind = "start" /\ call.gen \in 0..MaxLoads
  BY DEF ExecutionInv, CallStands, Called, E!StartArrives, E!NoCall
<1>2. run' \in Runs
  <2>1. CASE run = E!NoRun
    BY <1>1, <2>1, BoundsAssumption DEF E!StartArrives, Runs
  <2>2. CASE run # E!NoRun
    BY <2>2 DEF E!StartArrives, ExecutionInv, PanelShapes
  <2> QED BY <2>1, <2>2
<1>3. /\ DOMAIN call' = DOMAIN call \cup {"answer"}
      /\ call'.at = IF run'.id = call.id THEN "done" ELSE "refused"
      /\ call'.answer = run'
      /\ \A f \in DOMAIN call : f \notin {"at", "answer"} => call'[f] = call[f]
  BY <1>1, AnsweredCall DEF E!StartArrives
<1>4. call'.at = "done" => Past(call.answer)'
  BY <1>2, <1>3, BoundsAssumption DEF Past, Runs
<1>5. Called'
  BY <1>1, <1>2, <1>3, <1>4 DEF Called, Kinds, E!StartArrives
<1>6. PanelShapes'
  BY <1>2 DEF E!StartArrives, ExecutionInv, PanelShapes
<1>7. ReadOfRun'
  <2>1. CASE run = E!NoRun
    BY <2>1, <1>2 DEF E!StartArrives, ExecutionInv, ReadOfRun, Past, Runs, E!NoRun
  <2>2. CASE run # E!NoRun
    BY <2>2 DEF E!StartArrives, ExecutionInv, ReadOfRun, Past
  <2> QED BY <2>1, <2>2
<1> QED BY <1>5, <1>6, <1>7 DEF ExecutionInv, CallStands, E!StartArrives

LEMMA PanelResume ==
  ASSUME ExecutionInv, NEW d \in {"retry-task", "approve-changes"}, E!Resume(d)
  PROVE  ExecutionInv'
<1>1. Past(progress)
  BY DEF E!Resume, E!Shows, ExecutionInv, ReadOfRun
<1>2. call' = [kind |-> d, gen |-> gen, at |-> "sent", revision |-> offer.revision,
               shown |-> progress.revision]
  BY DEF E!Resume
<1>3. d = "approve-changes" => progress.next = "review-changes"
  BY DEF E!Resume, E!Offered
<1>4. gen \in 0..MaxLoads
  BY BoundsAssumption DEF ExecutionInv, PanelShapes
<1>5. Called'
  BY <1>1, <1>2, <1>3, <1>4 DEF Called, Kinds, Past, E!Resume
<1>6. PanelShapes' /\ ReadOfRun'
  BY DEF E!Resume, ExecutionInv, PanelShapes, ReadOfRun, Past
<1> QED BY <1>5, <1>6 DEF ExecutionInv, CallStands, E!Resume

LEMMA PanelCancel == ExecutionInv /\ E!Cancel => ExecutionInv'
<1> SUFFICES ASSUME ExecutionInv, E!Cancel PROVE ExecutionInv'
  OBVIOUS
<1>1. run \in Runs
  BY DEF E!Cancel, E!Shows, ExecutionInv, ReadOfRun, Past
<1>2. gen \in 0..MaxLoads
  BY BoundsAssumption DEF ExecutionInv, PanelShapes
<1>3. Called'
  BY <1>1, <1>2 DEF Called, Kinds, E!Cancel
<1>4. PanelShapes' /\ ReadOfRun'
  BY DEF E!Cancel, ExecutionInv, PanelShapes, ReadOfRun, Past
<1> QED BY <1>3, <1>4 DEF ExecutionInv, CallStands, E!Cancel

\* A decision arrives: it is carried out or refused, and the call is answered.
LEMMA DecisionArrives ==
  ASSUME ExecutionInv, Called, call.kind # "start", call.at = "sent",
         NEW ok \in BOOLEAN, E!Answered(ok), Advances \/ UNCHANGED run,
         UNCHANGED <<gen, progress, offer, fetch, startId, polls>>, approved' = TRUE
  PROVE  ExecutionInv'
<1>1. run' \in Runs
  BY DEF Called, Advances
<1>2. /\ DOMAIN call' = DOMAIN call \cup {"answer"}
      /\ call'.at = IF ok THEN "done" ELSE "refused"
      /\ call'.answer = run'
      /\ \A f \in DOMAIN call : f \notin {"at", "answer"} => call'[f] = call[f]
  BY AnsweredCall
<1>3. call'.at = "done" => Past(call.answer)'
  BY <1>1, <1>2, BoundsAssumption DEF Past, Runs
<1>4. call.kind = "approve-changes" =>
         \/ run'.revision = call.shown /\ run'.next = "review-changes"
         \/ run'.next = "none"
  BY DEF Called, Advances
<1>5. Called'
  BY <1>1, <1>2, <1>3, <1>4 DEF Called
<1>6. PanelShapes'
  BY <1>1, ShapesStay DEF ExecutionInv
<1>7. ReadOfRun'
  <2>1. CASE Advances
    BY <2>1, ReadsStay DEF ExecutionInv
  <2>2. CASE UNCHANGED run
    BY <2>2 DEF ExecutionInv, ReadOfRun, Past
  <2> QED BY <2>1, <2>2
<1> QED BY <1>5, <1>6, <1>7 DEF ExecutionInv, CallStands

LEMMA PanelResumeArrives == ExecutionInv /\ E!ResumeArrives => ExecutionInv'
<1> SUFFICES ASSUME ExecutionInv, E!ResumeArrives PROVE ExecutionInv'
  OBVIOUS
<1> DEFINE accepted == call.revision = run.revision /\ call.kind \in E!Allowed /\ E!Room
<1>1. Called /\ call.kind # "start" /\ call.at = "sent" /\ run \in Runs
  BY DEF ExecutionInv, CallStands, Called, E!ResumeArrives, E!NoCall
<1>2. /\ run' = IF accepted THEN E!Decided(call.kind) ELSE run
      /\ E!Answered(accepted)
      /\ approved' = (approved /\ (accepted /\ call.kind = "approve-changes"
                                     => call.shown = run.revision))
      /\ UNCHANGED <<gen, progress, offer, fetch, startId, polls>>
  BY DEF E!ResumeArrives
<1>3. Advances \/ UNCHANGED run
  BY <1>1, <1>2, DecidedAdvances DEF ExecutionInv, Runs, E!NoRun
<1>4. accepted /\ call.kind = "approve-changes" => call.shown = run.revision
  BY <1>1 DEF Called, E!Allowed
<1>5. approved' = TRUE
  BY <1>2, <1>4 DEF ExecutionInv
<1> QED BY <1>1, <1>2, <1>3, <1>5, DecisionArrives

LEMMA PanelCancelArrives == ExecutionInv /\ E!CancelArrives => ExecutionInv'
<1> SUFFICES ASSUME ExecutionInv, E!CancelArrives PROVE ExecutionInv'
  OBVIOUS
<1> DEFINE accepted == "cancel" \in E!Allowed /\ E!Room
<1>1. Called /\ call.kind # "start" /\ call.at = "sent" /\ run \in Runs
  BY DEF ExecutionInv, CallStands, Called, E!CancelArrives, E!NoCall
<1>2. /\ run' = IF accepted THEN E!Decided("cancel") ELSE run
      /\ E!Answered(accepted)
      /\ UNCHANGED <<gen, progress, offer, fetch, startId, polls, approved>>
  BY DEF E!CancelArrives
<1>3. Advances \/ UNCHANGED run
  BY <1>1, <1>2, DecidedAdvances DEF ExecutionInv, Runs, E!NoRun
<1>4. approved' = TRUE
  BY <1>2 DEF ExecutionInv
<1> QED BY <1>1, <1>2, <1>3, <1>4, DecisionArrives

LEMMA PanelReturns == ExecutionInv /\ E!Returns => ExecutionInv'
<1> SUFFICES ASSUME ExecutionInv, E!Returns PROVE ExecutionInv'
  OBVIOUS
<1>1. Called /\ UNCHANGED <<run, gen, polls, approved>> /\ call' = E!NoCall
  BY DEF ExecutionInv, CallStands, E!Returns
<1>2. startId' \in {0, 1}
  BY DEF ExecutionInv, PanelShapes, E!Returns
<1>3. /\ ReadOfRun'
      /\ fetch' \in [for : Runs \cup {E!NoRun}, got : BOOLEAN]
      /\ offer' \in Offers \cup {E!NoOffer}
  <2>1. CASE call.at = "done" /\ progress' = call.answer /\ offer' = E!NoOffer /\ fetch' = E!NoFetch
    BY <1>1, <2>1 DEF ExecutionInv, PanelShapes, ReadOfRun, Called, Past, E!NoFetch
  <2>2. CASE call.at = "done" /\ E!SetProgress(call.answer)
    BY <1>1, <2>2, ProgressSet DEF ExecutionInv, Called
  <2>3. CASE UNCHANGED <<progress, offer, fetch>>
    BY <1>1, <2>3 DEF ExecutionInv, PanelShapes, ReadOfRun, Past
  <2> QED BY <2>1, <2>2, <2>3 DEF E!Returns
<1>4. PanelShapes'
  BY <1>1, <1>2, <1>3 DEF ExecutionInv, PanelShapes
<1> QED BY <1>1, <1>3, <1>4 DEF ExecutionInv, CallStands

LEMMA PanelLost == ExecutionInv /\ E!Lost => ExecutionInv'
  BY DEF E!Lost, ExecutionInv, PanelShapes, ReadOfRun, CallStands, Past

LEMMA PanelSteps == ExecutionInv /\ E!PanelStep => ExecutionInv'
  BY PanelWork, PanelElsewhere, PanelReload, PanelPoll, PanelFetched, PanelPreview, PanelServe,
     PanelLand, PanelLose, PanelStart, PanelStartArrives, PanelResume, PanelResumeArrives,
     PanelCancel, PanelCancelArrives, PanelReturns, PanelLost DEF E!PanelStep

LEMMA PanelHolds == ExecutionInv => E!PanelInv
<1> SUFFICES ASSUME ExecutionInv PROVE E!PanelInv
  OBVIOUS
<1>1. E!PanelTypeOK
  BY DEF ExecutionInv, PanelShapes, ReadOfRun, Past, Runs, E!PanelTypeOK, E!Shows
<1>2. E!ApprovedWasShown
  BY DEF ExecutionInv, E!ApprovedWasShown
<1>3. E!StartIsNotRefused
  <2> SUFFICES ASSUME call.kind = "start", call.at = "refused", call.gen = gen
               PROVE  run.id[1] # gen
    BY DEF E!StartIsNotRefused
  <2>1. run \in Runs /\ run.id # <<gen, 1>>
    BY DEF ExecutionInv, CallStands, Called, E!NoCall
  <2> QED BY <2>1 DEF Runs
<1> QED BY <1>1, <1>2, <1>3 DEF E!PanelInv

(* ProfilePage *)

Profiles == [of : Names, version : Nat, writes : BOOLEAN]
Saves == [name : Names, profile : Profiles, hash : Nat, confirmed : BOOLEAN,
          doc : [Names -> Profiles], over : Nat, gap : Nat,
          at : {"sent", "checked", "saved", "failed"}]

ProfileShapes ==
    /\ file \in [Names -> Profiles] /\ hash \in 0..MaxSaves
    /\ known \in [profiles : [Names -> Profiles], hash : Nat] /\ known.hash <= hash
    /\ selected \in Names /\ draft \in Profiles /\ confirmed \in BOOLEAN
    /\ saving \in Saves \cup {A!NoSave} /\ switched \in BOOLEAN

\* Unless a name was selected while a save was awaited, every profile is of the name it
\* stands under: on disk, on the page, in the draft and in the save that is awaited.
OwnNames ==
    ~switched => /\ \A n \in Names : file[n].of = n /\ known.profiles[n].of = n
                 /\ draft.of = selected
                 /\ A!savingNow => /\ saving.name = selected /\ saving.profile.of = saving.name
                                   /\ \A n \in Names : saving.doc[n].of = n

\* A save was confirmed, and is made over what was shown and what came after the comparison.
Sent ==
    A!savingNow =>
        /\ saving.name = A!Builder /\ saving.profile.writes => saving.confirmed
        /\ saving.at = "sent" => saving.gap = 0
        /\ saving.at = "checked" => hash = saving.hash + saving.gap
        /\ saving.at = "saved" => saving.over = saving.hash + saving.gap

ProfilesInv == ProfileShapes /\ OwnNames /\ Sent

LEMMA SavingShape ==
  ASSUME ProfileShapes
  PROVE  /\ A!savingNow <=> saving \in Saves
         /\ saving.at \in {"sent", "checked", "saved", "failed"} => A!savingNow
  BY DEF ProfileShapes, A!savingNow, A!NoSave, Saves

LEMMA ProfilesInitially == A!ProfileInit => ProfilesInv
<1> SUFFICES ASSUME A!ProfileInit PROVE ProfilesInv
  OBVIOUS
<1>1. file \in [Names -> Profiles] /\ \A n \in Names : file[n].of = n
  BY DEF A!ProfileInit, A!Profile, Profiles
<1>2. known.profiles = file /\ known.hash = 0
      /\ known \in [profiles : [Names -> Profiles], hash : Nat]
  BY <1>1 DEF A!ProfileInit
<1>3. ~A!savingNow
  BY DEF A!ProfileInit, A!savingNow
<1>4. ProfileShapes
  <2>1. hash = 0 /\ 0 \in 0..MaxSaves /\ known.hash <= hash
    BY <1>2, BoundsAssumption DEF A!ProfileInit
  <2>2. selected \in Names /\ draft \in Profiles
    BY <1>1 DEF A!ProfileInit
  <2> QED BY <1>1, <1>2, <2>1, <2>2 DEF A!ProfileInit, ProfileShapes
<1>5. OwnNames
  BY <1>1, <1>2, <1>3 DEF A!ProfileInit, OwnNames
<1> QED BY <1>3, <1>4, <1>5 DEF ProfilesInv, Sent

LEMMA ProfilesStutter == ProfilesInv /\ UNCHANGED profileVars => ProfilesInv'
  BY DEF profileVars, ProfilesInv, ProfileShapes, OwnNames, Sent, A!savingNow

LEMMA ProfilesSelect ==
  ASSUME ProfilesInv, NEW n \in Names, A!SelectProfile(n) PROVE ProfilesInv'
<1>1. ProfileShapes'
  BY DEF A!SelectProfile, ProfilesInv, ProfileShapes
<1>2. OwnNames'
  BY DEF A!SelectProfile, ProfilesInv, ProfileShapes, OwnNames, A!savingNow
<1>3. Sent'
  BY DEF A!SelectProfile, ProfilesInv, Sent, A!savingNow
<1> QED BY <1>1, <1>2, <1>3 DEF ProfilesInv

LEMMA ProfilesEdit == ProfilesInv /\ A!EditDraft => ProfilesInv'
<1> SUFFICES ASSUME ProfilesInv, A!EditDraft PROVE ProfilesInv'
  OBVIOUS
<1>1. draft' \in Profiles /\ draft'.of = draft.of
  BY DEF A!EditDraft, ProfilesInv, ProfileShapes, Profiles
<1>2. ProfileShapes'
  BY <1>1 DEF A!EditDraft, ProfilesInv, ProfileShapes
<1>3. OwnNames' /\ Sent'
  BY <1>1 DEF A!EditDraft, ProfilesInv, OwnNames, Sent, A!savingNow
<1> QED BY <1>2, <1>3 DEF ProfilesInv

LEMMA ProfilesSave == ProfilesInv /\ A!Save => ProfilesInv'
<1> SUFFICES ASSUME ProfilesInv, A!Save PROVE ProfilesInv'
  OBVIOUS
<1>1. /\ saving' \in Saves /\ saving'.name = selected /\ saving'.profile = draft
      /\ saving'.confirmed = confirmed /\ saving'.at = "sent"
  BY DEF A!Save, ProfilesInv, ProfileShapes, Saves
<1>2. ProfileShapes'
  BY <1>1 DEF A!Save, ProfilesInv, ProfileShapes
<1>3. OwnNames'
  BY <1>1 DEF A!Save, ProfilesInv, OwnNames
<1>4. Sent'
  BY <1>1 DEF A!Save, A!NeedsConfirmation, ProfilesInv, Sent
<1> QED BY <1>2, <1>3, <1>4 DEF ProfilesInv

LEMMA WrittenProfile ==
  ASSUME ProfileShapes, hash < MaxSaves, NEW doc \in [Names -> Profiles], NEW n \in Names,
         NEW profile \in Profiles
  PROVE  /\ A!Written(doc, n, profile) \in [Names -> Profiles]
         /\ A!Written(doc, n, profile)[n].of = profile.of
         /\ \A m \in Names : m # n => A!Written(doc, n, profile)[m] = doc[m]
         /\ hash + 1 \in 0..MaxSaves
<1>1. hash + 1 \in Nat /\ hash + 1 \in 0..MaxSaves
  BY BoundsAssumption DEF ProfileShapes
<1>2. [profile EXCEPT !.version = hash + 1] \in Profiles
      /\ [profile EXCEPT !.version = hash + 1].of = profile.of
  BY <1>1 DEF Profiles
<1> QED BY <1>1, <1>2 DEF A!Written

LEMMA ProfilesChecked == ProfilesInv /\ A!SaveChecked => ProfilesInv'
<1> SUFFICES ASSUME ProfilesInv, A!SaveChecked PROVE ProfilesInv'
  OBVIOUS
<1>1. saving \in Saves /\ A!savingNow /\ saving.at = "sent" /\ hash \in Nat /\ file \in [Names -> Profiles]
      /\ UNCHANGED <<file, hash, known, selected, draft, confirmed, switched>>
  BY SavingShape, BoundsAssumption DEF ProfilesInv, ProfileShapes, A!SaveChecked
<1>2. /\ saving' \in Saves /\ saving'.name = saving.name /\ saving'.profile = saving.profile
      /\ saving'.hash = saving.hash /\ saving'.confirmed = saving.confirmed /\ saving'.gap = saving.gap
      /\ saving'.doc \in {saving.doc, file} /\ saving'.at \in {"checked", "failed"}
      /\ saving'.at = "checked" => saving.hash = hash
  <2>1. CASE saving' = [saving EXCEPT !.at = "checked", !.doc = file] /\ saving.hash = hash
    BY <1>1, <2>1 DEF Saves
  <2>2. CASE saving' = [saving EXCEPT !.at = "failed"]
    BY <1>1, <2>2 DEF Saves
  <2> QED BY <2>1, <2>2 DEF A!SaveChecked, A!Current
<1>3. ProfileShapes'
  BY <1>1, <1>2 DEF ProfilesInv, ProfileShapes
<1>4. OwnNames'
  BY <1>1, <1>2 DEF ProfilesInv, OwnNames
<1>5. Sent'
  BY <1>1, <1>2 DEF ProfilesInv, Sent, Saves
<1> QED BY <1>3, <1>4, <1>5 DEF ProfilesInv

LEMMA ProfilesReplaced == ProfilesInv /\ A!SaveReplaces => ProfilesInv'
<1> SUFFICES ASSUME ProfilesInv, A!SaveReplaces PROVE ProfilesInv'
  OBVIOUS
<1>1. saving \in Saves /\ A!savingNow /\ saving.at = "checked" /\ hash \in Nat
      /\ UNCHANGED <<known, selected, draft, confirmed, switched>>
  BY SavingShape, BoundsAssumption DEF ProfilesInv, ProfileShapes, A!SaveReplaces
<1>2. /\ saving' \in Saves /\ saving'.name = saving.name /\ saving'.profile = saving.profile
      /\ saving'.hash = saving.hash /\ saving'.confirmed = saving.confirmed /\ saving'.gap = saving.gap
      /\ saving'.doc = saving.doc /\ saving'.at \in {"saved", "failed"}
      /\ saving'.at = "saved" => saving'.over = hash
  BY <1>1 DEF A!SaveReplaces, Saves
<1>3. \/ /\ file' \in [Names -> Profiles] /\ file'[saving.name].of = saving.profile.of
         /\ \A m \in Names : m # saving.name => file'[m] = saving.doc[m]
         /\ hash' \in 0..MaxSaves /\ hash' = hash + 1
      \/ UNCHANGED <<file, hash>>
  <2>1. CASE hash < MaxSaves /\ file' = A!Written(saving.doc, saving.name, saving.profile) /\ hash' = hash + 1
    BY <1>1, <2>1, WrittenProfile DEF ProfilesInv, Saves
  <2> QED BY <2>1 DEF A!SaveReplaces
<1>4. ProfileShapes'
  BY <1>1, <1>2, <1>3, BoundsAssumption DEF ProfilesInv, ProfileShapes
<1>5. OwnNames'
  BY <1>1, <1>2, <1>3 DEF ProfilesInv, OwnNames
<1>6. Sent'
  BY <1>1, <1>2 DEF ProfilesInv, Sent
<1> QED BY <1>4, <1>5, <1>6 DEF ProfilesInv

LEMMA ProfilesReturn == ProfilesInv /\ A!SaveReturns => ProfilesInv'
<1> SUFFICES ASSUME ProfilesInv, A!SaveReturns PROVE ProfilesInv'
  OBVIOUS
<1>1. saving \in Saves /\ saving.name \in Names /\ A!savingNow /\ ~A!savingNow'
  BY SavingShape DEF ProfilesInv, A!SaveReturns, A!savingNow, Saves
<1>2. /\ \/ known' = [profiles |-> file, hash |-> hash] /\ draft' = file[saving.name]
         \/ UNCHANGED <<known, draft>>
      /\ saving' = A!NoSave /\ UNCHANGED <<file, hash, selected, confirmed, switched>>
  BY DEF A!SaveReturns
<1>3. ProfileShapes'
  BY <1>1, <1>2, BoundsAssumption DEF ProfilesInv, ProfileShapes
<1>4. OwnNames'
  BY <1>1, <1>2 DEF ProfilesInv, OwnNames
<1>5. Sent'
  BY <1>1 DEF Sent
<1> QED BY <1>3, <1>4, <1>5 DEF ProfilesInv

LEMMA ProfilesElsewhere ==
  ASSUME ProfilesInv, NEW n \in Names, A!SaveElsewhere(n) PROVE ProfilesInv'
<1>1. file[n] \in Profiles
  BY DEF ProfilesInv, ProfileShapes
<1>2. /\ file' \in [Names -> Profiles] /\ file'[n].of = file[n].of
      /\ \A m \in Names : m # n => file'[m] = file[m]
      /\ hash \in Nat /\ hash' \in 0..MaxSaves /\ hash' = hash + 1
  <2>1. ProfileShapes /\ hash < MaxSaves /\ file \in [Names -> Profiles] /\ hash \in Nat
        /\ file' = A!Written(file, n, file[n]) /\ hash' = hash + 1
    BY BoundsAssumption DEF ProfilesInv, ProfileShapes, A!SaveElsewhere
  <2> QED BY <1>1, <2>1, WrittenProfile
<1>3. UNCHANGED <<known, selected, draft, confirmed, switched>>
  BY DEF A!SaveElsewhere
<1>4. CASE UNCHANGED saving /\ saving.at # "checked"
  <2>1. ProfileShapes'
    BY <1>2, <1>3, <1>4, BoundsAssumption DEF ProfilesInv, ProfileShapes
  <2>2. OwnNames'
    BY <1>2, <1>3, <1>4 DEF ProfilesInv, OwnNames, A!savingNow
  <2>3. Sent'
    BY <1>3, <1>4 DEF ProfilesInv, Sent, A!savingNow
  <2> QED BY <2>1, <2>2, <2>3 DEF ProfilesInv
<1>5. CASE saving.at = "checked" /\ saving' = [saving EXCEPT !.gap = @ + 1]
  <2>1. saving \in Saves /\ A!savingNow
    BY <1>5, SavingShape DEF ProfilesInv
  <2>2. /\ saving' \in Saves /\ saving'.name = saving.name /\ saving'.profile = saving.profile
        /\ saving'.hash = saving.hash /\ saving'.confirmed = saving.confirmed
        /\ saving'.gap = saving.gap + 1 /\ saving'.doc = saving.doc /\ saving'.at = "checked"
    BY <1>5, <2>1 DEF Saves
  <2>3. ProfileShapes'
    BY <1>2, <1>3, <2>2, BoundsAssumption DEF ProfilesInv, ProfileShapes
  <2>4. OwnNames'
    BY <1>2, <1>3, <2>1, <2>2 DEF ProfilesInv, OwnNames
  <2>5. saving.gap \in Nat /\ saving.hash \in Nat /\ hash = saving.hash + saving.gap
    BY <1>5, <2>1 DEF ProfilesInv, Sent, Saves
  <2>6. Sent'
    BY <1>2, <2>1, <2>2, <2>5 DEF ProfilesInv, Sent
  <2> QED BY <2>3, <2>4, <2>6 DEF ProfilesInv
<1> QED BY <1>4, <1>5 DEF A!SaveElsewhere

LEMMA ProfilesSteps == ProfilesInv /\ A!ProfileStep => ProfilesInv'
  BY ProfilesSelect, ProfilesEdit, ProfilesSave, ProfilesChecked, ProfilesReplaced, ProfilesReturn,
     ProfilesElsewhere DEF A!ProfileStep

LEMMA ProfilesHold == ProfilesInv => A!ProfileInv
<1> SUFFICES ASSUME ProfilesInv PROVE A!ProfileInv
  OBVIOUS
<1>1. A!ProfileTypeOK
  BY DEF ProfilesInv, ProfileShapes, Profiles, A!ProfileTypeOK
<1>2. A!OwnProfile
  BY DEF ProfilesInv, ProfileShapes, OwnNames, A!OwnProfile
<1>3. A!SavesOverShown
  BY SavingShape DEF ProfilesInv, Sent, A!SavesOverShown
<1> QED BY <1>1, <1>2, <1>3 DEF A!ProfileInv

(* WorkspacePage *)

WorkspaceShapes ==
    /\ activeProject \in Workspaces \cup {W!NoProject}
    /\ project \in Workspaces \cup {W!NoProject}
    /\ tasks \in Workspaces \cup {W!NoTasks}
    /\ load \in [Loads -> {"idle", "settings", "project", "tasks"}]
    /\ disturbed \in BOOLEAN

\* A refresh that had the server and the page to itself is the only one; it loads the
\* tasks of the project that is shown, and until it does the old ones are of the project
\* that was shown before.
Undisturbed ==
    ~disturbed =>
        /\ \A k, l \in Loads : load[k] # "idle" /\ load[l] # "idle" => k = l
        /\ \A l \in Loads : load[l] = "tasks" => project = activeProject
        /\ (\A l \in Loads : load[l] # "tasks") /\ tasks # W!NoTasks /\ project # W!NoProject
             => tasks = project

FrameInv == WorkspaceShapes /\ Undisturbed

LEMMA FrameInitially == W!WorkspaceInit => FrameInv
  BY DEF W!WorkspaceInit, FrameInv, WorkspaceShapes, Undisturbed

LEMMA FrameStutters == FrameInv /\ UNCHANGED workspaceVars => FrameInv'
  BY DEF workspaceVars, FrameInv, WorkspaceShapes, Undisturbed

LEMMA FrameIdle ==
  ASSUME FrameInv, W!Loading = {} PROVE \A l \in Loads : load[l] = "idle"
  BY DEF W!Loading, W!Under

LEMMA FrameBegins ==
  ASSUME FrameInv, NEW l \in Loads, W!Begin(l), UNCHANGED <<activeProject, project, tasks>>
  PROVE  FrameInv'
<1>1. WorkspaceShapes'
  BY DEF FrameInv, WorkspaceShapes, W!Begin
<1>2. Undisturbed'
  <2> SUFFICES ASSUME ~disturbed' PROVE Undisturbed'
    BY DEF Undisturbed
  <2>1. ~disturbed /\ \A k \in Loads : load[k] = "idle"
    BY FrameIdle DEF W!Begin, FrameInv, WorkspaceShapes
  <2>2. \A k \in Loads : load'[k] # "tasks" /\ (load'[k] # "idle" => k = l)
    BY <2>1 DEF W!Begin, FrameInv, WorkspaceShapes
  <2> QED BY <2>1, <2>2 DEF FrameInv, Undisturbed
<1> QED BY <1>1, <1>2 DEF FrameInv

\* What disturbs a refresh on its way, and leaves the tasks as they are when none is.
LEMMA FrameDisturbed ==
  ASSUME FrameInv, disturbed' = (disturbed \/ W!Loading # {}), UNCHANGED <<load, tasks>>,
         activeProject' \in Workspaces \cup {W!NoProject}, project' \in {project, W!NoProject}
  PROVE  FrameInv'
<1>1. WorkspaceShapes'
  BY DEF FrameInv, WorkspaceShapes
<1>2. Undisturbed'
  BY FrameIdle DEF FrameInv, WorkspaceShapes, Undisturbed
<1> QED BY <1>1, <1>2 DEF FrameInv

LEMMA FrameRefreshTasks ==
  ASSUME FrameInv, NEW l \in Loads, W!RefreshTasks(l) PROVE FrameInv'
<1>1. WorkspaceShapes'
  BY DEF FrameInv, WorkspaceShapes, W!RefreshTasks
<1>2. Undisturbed'
  <2> SUFFICES ASSUME ~disturbed' PROVE Undisturbed'
    BY DEF Undisturbed
  <2>1. activeProject = project /\ \A k \in Loads : load[k] = "idle"
    BY FrameIdle DEF W!RefreshTasks, FrameInv, WorkspaceShapes
  <2>2. load'[l] = "tasks" /\ \A k \in Loads : load'[k] # "idle" => k = l
    BY <2>1 DEF W!RefreshTasks, FrameInv, WorkspaceShapes
  <2>3. UNCHANGED <<activeProject, project, tasks>>
    BY DEF W!RefreshTasks
  <2> QED BY <2>1, <2>2, <2>3 DEF Undisturbed
<1> QED BY <1>1, <1>2 DEF FrameInv

\* The refresh l goes on to the step at.
LEMMA FrameGoes ==
  ASSUME FrameInv, NEW l \in Loads, load[l] # "idle",
         NEW at \in {"idle", "settings", "project", "tasks"},
         load' = [load EXCEPT ![l] = at], activeProject' = activeProject,
         project' \in Workspaces \cup {W!NoProject}, tasks' \in Workspaces \cup {W!NoTasks},
         disturbed' \in BOOLEAN, disturbed => disturbed',
         ~disturbed' => \/ at = "tasks" /\ project' = activeProject
                        \/ at # "tasks" /\ tasks' \in {W!NoTasks, project'}
                        \/ at # "tasks" /\ project' = W!NoProject
                        \/ /\ at # "tasks" /\ load[l] # "tasks"
                           /\ UNCHANGED <<project, tasks>>
  PROVE  FrameInv'
<1>1. WorkspaceShapes'
  BY DEF FrameInv, WorkspaceShapes
<1>2. load'[l] = at /\ \A k \in Loads : k # l => load'[k] = load[k]
  BY DEF FrameInv, WorkspaceShapes
<1>3. Undisturbed'
  <2> SUFFICES ASSUME ~disturbed' PROVE Undisturbed'
    BY DEF Undisturbed
  <2>1. \A k \in Loads : k # l => load[k] = "idle"
    BY DEF FrameInv, WorkspaceShapes, Undisturbed
  <2> QED BY <1>2, <2>1 DEF FrameInv, WorkspaceShapes, Undisturbed
<1> QED BY <1>1, <1>3 DEF FrameInv

LEMMA FrameSettings ==
  ASSUME FrameInv, NEW l \in Loads, W!SettingsAnswer(l) PROVE FrameInv'
<1>1. /\ load[l] = "settings" /\ UNCHANGED <<activeProject, disturbed>>
      /\ activeProject \in Workspaces \cup {W!NoProject} /\ disturbed \in BOOLEAN
  BY DEF W!SettingsAnswer, FrameInv, WorkspaceShapes
<1>2. CASE W!Go(l, "project") /\ UNCHANGED <<project, tasks>>
  BY <1>1, <1>2, FrameGoes DEF W!Go, FrameInv, WorkspaceShapes
<1>3. CASE W!Ends(l) /\ W!Shown
  BY <1>1, <1>3, FrameGoes DEF W!Ends, W!Shown
<1> QED BY <1>2, <1>3 DEF W!SettingsAnswer

LEMMA FrameProject ==
  ASSUME FrameInv, NEW l \in Loads, W!ProjectAnswer(l) PROVE FrameInv'
<1>1. /\ load[l] = "project" /\ UNCHANGED <<activeProject, disturbed>>
      /\ activeProject \in Workspaces \cup {W!NoProject} /\ disturbed \in BOOLEAN
  BY DEF W!ProjectAnswer, FrameInv, WorkspaceShapes
<1>2. CASE project' = activeProject /\ W!Go(l, "tasks") /\ UNCHANGED tasks
  BY <1>1, <1>2, FrameGoes DEF W!Go, FrameInv, WorkspaceShapes
<1>3. CASE project' = activeProject /\ W!Ends(l) /\ tasks' = W!NoTasks
  BY <1>1, <1>3, FrameGoes DEF W!Ends
<1>4. CASE W!Ends(l) /\ W!Shown
  BY <1>1, <1>4, FrameGoes DEF W!Ends, W!Shown
<1> QED BY <1>2, <1>3, <1>4 DEF W!ProjectAnswer, W!TasksAfterProject

LEMMA FrameTasks ==
  ASSUME FrameInv, NEW l \in Loads, W!TasksAnswer(l) PROVE FrameInv'
<1>1. /\ load[l] = "tasks" /\ UNCHANGED <<activeProject, project>> /\ W!Ends(l)
      /\ project \in Workspaces \cup {W!NoProject} /\ tasks \in Workspaces \cup {W!NoTasks}
      /\ activeProject \in Workspaces \cup {W!NoProject} /\ disturbed \in BOOLEAN
      /\ ~disturbed => project = activeProject
  BY DEF W!TasksAnswer, FrameInv, WorkspaceShapes, Undisturbed
<1>2. CASE tasks' = (IF activeProject = W!NoProject THEN W!NoTasks ELSE activeProject) /\ UNCHANGED disturbed
  <2>1. tasks' \in Workspaces \cup {W!NoTasks}
    BY <1>1, <1>2
  <2>2. ~disturbed' => tasks' \in {W!NoTasks, project'}
    BY <1>1, <1>2
  <2> QED BY <1>1, <1>2, <2>1, <2>2, FrameGoes DEF W!Ends
<1>3. CASE disturbed' = TRUE /\ UNCHANGED tasks
  BY <1>1, <1>3, FrameGoes DEF W!Ends
<1> QED BY <1>2, <1>3 DEF W!TasksAnswer

LEMMA FrameSteps == FrameInv /\ W!WorkspaceStep => FrameInv'
<1> SUFFICES ASSUME FrameInv, W!WorkspaceStep PROVE FrameInv'
  OBVIOUS
<1>1. activeProject \in Workspaces \cup {W!NoProject}
  BY DEF FrameInv, WorkspaceShapes
<1>2. CASE W!SignOut \/ W!SwitchElsewhere \/ \E p \in Workspaces : W!Select(p)
  BY <1>1, <1>2, FrameDisturbed DEF W!SignOut, W!SwitchElsewhere, W!Select
<1>3. CASE \E l \in Loads : W!SignIn(l) \/ W!Retry(l) \/ W!Selected(l)
  BY <1>3, FrameBegins DEF W!SignIn, W!Retry, W!Selected
<1>4. CASE \E l \in Loads : W!RefreshTasks(l)
  BY <1>4, FrameRefreshTasks
<1>5. CASE \E l \in Loads : W!SettingsAnswer(l) \/ W!ProjectAnswer(l) \/ W!TasksAnswer(l)
  BY <1>5, FrameSettings, FrameProject, FrameTasks
<1> QED BY <1>2, <1>3, <1>4, <1>5 DEF W!WorkspaceStep

LEMMA FrameHolds == FrameInv => W!WorkspaceInv
<1> SUFFICES ASSUME FrameInv PROVE W!WorkspaceInv
  OBVIOUS
<1>1. W!WorkspaceTypeOK
  BY DEF FrameInv, WorkspaceShapes, W!WorkspaceTypeOK
<1>2. W!TasksOfProject
  BY FrameIdle DEF FrameInv, Undisturbed, W!TasksOfProject
<1> QED BY <1>1, <1>2 DEF W!WorkspaceInv

(* HandoverPage *)

StatusReads == [id : X!Drafts, stage : X!Stages \cup {"asked"}]

HandoverShapes ==
    /\ transfer \in [X!Drafts -> X!Stages]
    /\ ids \in 0..MaxDrafts
    /\ transferDraft \in 0..ids /\ preview \in 0..ids
    /\ status \in [id : X!Drafts, stage : X!Stages] \cup {X!NoStatus}
    /\ statusReads \subseteq StatusReads
    /\ late \in BOOLEAN

\* The draft is kept as it is, and what is being started is the draft; an answer that
\* is shown or on its way is of the draft, or came late.
KeptDraft ==
    /\ stored = transferDraft
    /\ started # 0 => started = transferDraft
    /\ status # X!NoStatus /\ status.id # transferDraft => late
    /\ \A r \in statusReads : r.id # transferDraft => late

TransferInv == HandoverShapes /\ KeptDraft

LEMMA TransferInitially == X!HandoverInit => TransferInv
<1> SUFFICES ASSUME X!HandoverInit PROVE TransferInv
  OBVIOUS
<1>1. 0 \in 0..MaxDrafts /\ 0 \in 0..0
  BY BoundsAssumption
<1>2. HandoverShapes
  BY <1>1 DEF X!HandoverInit, HandoverShapes, X!Stages
<1> QED BY <1>2 DEF X!HandoverInit, TransferInv, KeptDraft

LEMMA TransferStutters == TransferInv /\ UNCHANGED handoverVars => TransferInv'
  BY DEF handoverVars, TransferInv, HandoverShapes, KeptDraft

LEMMA TransferServer == TransferInv /\ X!Server => TransferInv'
<1> SUFFICES ASSUME TransferInv, X!Server PROVE TransferInv'
  OBVIOUS
<1>1. transfer' \in [X!Drafts -> X!Stages]
  BY DEF X!Server, TransferInv, HandoverShapes, X!Stages
<1> QED BY <1>1 DEF X!Server, TransferInv, HandoverShapes, KeptDraft

\* Another draft: an answer that was on its way is late.
LEMMA DraftChanged ==
  ASSUME TransferInv, ~X!busy, late' = (late \/ X!Awaited), UNCHANGED <<transfer, started, statusReads>>,
         preview' = 0, status' = X!NoStatus, stored' = transferDraft',
         ids' \in 0..MaxDrafts, transferDraft' \in 0..ids'
  PROVE  TransferInv'
<1>1. HandoverShapes'
  BY BoundsAssumption DEF TransferInv, HandoverShapes
<1>2. KeptDraft'
  BY DEF TransferInv, KeptDraft, X!busy, X!Awaited
<1> QED BY <1>1, <1>2 DEF TransferInv

LEMMA TransferChange == TransferInv /\ (X!ChangeSelection \/ X!NewTransfer) => TransferInv'
<1> SUFFICES ASSUME TransferInv, X!ChangeSelection \/ X!NewTransfer PROVE TransferInv'
  OBVIOUS
<1>1. ids' \in 0..MaxDrafts /\ transferDraft' \in 0..ids'
  BY BoundsAssumption DEF X!ChangeSelection, X!NewTransfer, TransferInv, HandoverShapes
<1> QED BY <1>1, DraftChanged DEF X!ChangeSelection, X!NewTransfer

\* A draft that is made when there was none: whatever is shown or awaited was late then.
LEMMA DraftEnsured ==
  ASSUME TransferInv, X!Ensured
  PROVE  /\ ids' \in 0..MaxDrafts /\ transferDraft' \in 1..ids' /\ ids <= ids'
         /\ transferDraft' # transferDraft /\ (status # X!NoStatus \/ statusReads # {}) => late
<1>1. /\ ids' \in 0..MaxDrafts /\ transferDraft' \in 1..ids' /\ ids <= ids'
      /\ transferDraft' # transferDraft => transferDraft = 0
  BY BoundsAssumption DEF X!Ensured, TransferInv, HandoverShapes
<1>2. status # X!NoStatus => status.id # 0
  BY DEF TransferInv, HandoverShapes, X!Drafts
<1>3. \A r \in statusReads : r.id # 0
  BY DEF TransferInv, HandoverShapes, StatusReads, X!Drafts
<1> QED BY <1>1, <1>2, <1>3 DEF TransferInv, KeptDraft

LEMMA TransferPreview == TransferInv /\ (X!Preview \/ X!Start) => TransferInv'
<1> SUFFICES ASSUME TransferInv, X!Preview \/ X!Start PROVE TransferInv'
  OBVIOUS
<1>1. /\ X!Ensured /\ ~X!busy /\ stored' = transferDraft'
      /\ UNCHANGED <<transfer, status, statusReads, late>>
      /\ preview' \in {preview, transferDraft'} /\ started' \in {started, transferDraft'}
  BY DEF X!Preview, X!Start, X!Kept
<1>2. /\ ids' \in 0..MaxDrafts /\ transferDraft' \in 1..ids' /\ ids <= ids'
      /\ transferDraft' # transferDraft /\ (status # X!NoStatus \/ statusReads # {}) => late
  BY <1>1, DraftEnsured
<1>3. HandoverShapes'
  BY <1>1, <1>2, BoundsAssumption DEF TransferInv, HandoverShapes
<1>4. KeptDraft'
  BY <1>1, <1>2 DEF TransferInv, KeptDraft, X!busy
<1> QED BY <1>3, <1>4 DEF TransferInv

LEMMA TransferResume == TransferInv /\ X!Resume => TransferInv'
  BY DEF X!Resume, TransferInv, HandoverShapes, KeptDraft

LEMMA StartedDraft ==
  ASSUME TransferInv, X!busy PROVE started \in X!Drafts /\ started = transferDraft
  BY BoundsAssumption DEF TransferInv, HandoverShapes, KeptDraft, X!busy, X!Drafts

LEMMA TransferArrives == TransferInv /\ X!StartArrives => TransferInv'
<1> SUFFICES ASSUME TransferInv, X!StartArrives PROVE TransferInv'
  OBVIOUS
<1>1. transfer' \in [X!Drafts -> X!Stages]
  BY DEF X!StartArrives, TransferInv, HandoverShapes, X!Stages
<1> QED BY <1>1 DEF X!StartArrives, TransferInv, HandoverShapes, KeptDraft

LEMMA TransferReturns == TransferInv /\ X!StartReturns => TransferInv'
<1> SUFFICES ASSUME TransferInv, X!StartReturns PROVE TransferInv'
  OBVIOUS
<1>1. started \in X!Drafts /\ started = transferDraft /\ transfer[started] \in X!Stages
  BY StartedDraft DEF X!StartReturns, TransferInv, HandoverShapes
<1>2. status' \in {status, [id |-> started, stage |-> transfer[started]]}
  BY DEF X!StartReturns
<1>3. HandoverShapes'
  BY <1>1, <1>2 DEF X!StartReturns, TransferInv, HandoverShapes
<1>4. KeptDraft'
  BY <1>1, <1>2 DEF X!StartReturns, TransferInv, KeptDraft
<1> QED BY <1>3, <1>4 DEF TransferInv

LEMMA TransferReadStatus == TransferInv /\ X!ReadStatus => TransferInv'
<1> SUFFICES ASSUME TransferInv, X!ReadStatus PROVE TransferInv'
  OBVIOUS
<1>1. PICK d \in X!Drafts : /\ statusReads' = statusReads \cup {[id |-> d, stage |-> "asked"]}
                            /\ d # transferDraft => late
  <2>1. transferDraft # 0 => transferDraft \in X!Drafts
    BY BoundsAssumption DEF TransferInv, HandoverShapes, X!Drafts
  <2>2. status # X!NoStatus => status.id \in X!Drafts
    BY DEF TransferInv, HandoverShapes
  <2> QED BY <2>1, <2>2 DEF X!ReadStatus, X!transferActive, TransferInv, KeptDraft
<1>2. [id |-> d, stage |-> "asked"] \in StatusReads
  BY <1>1 DEF StatusReads
<1>3. HandoverShapes'
  BY <1>1, <1>2 DEF X!ReadStatus, TransferInv, HandoverShapes
<1>4. KeptDraft'
  BY <1>1 DEF X!ReadStatus, TransferInv, KeptDraft
<1> QED BY <1>3, <1>4 DEF TransferInv

LEMMA TransferServed == TransferInv /\ X!ReadServed => TransferInv'
<1> SUFFICES ASSUME TransferInv, X!ReadServed PROVE TransferInv'
  OBVIOUS
<1>1. PICK r \in statusReads :
        statusReads' = (statusReads \ {r}) \cup {[r EXCEPT !.stage = transfer[r.id]]}
  BY DEF X!ReadServed
<1>2. /\ [r EXCEPT !.stage = transfer[r.id]] \in StatusReads
      /\ [r EXCEPT !.stage = transfer[r.id]].id = r.id
  BY <1>1 DEF TransferInv, HandoverShapes, StatusReads
<1>3. HandoverShapes'
  BY <1>1, <1>2 DEF X!ReadServed, TransferInv, HandoverShapes
<1>4. KeptDraft'
  BY <1>1, <1>2 DEF X!ReadServed, TransferInv, KeptDraft
<1> QED BY <1>3, <1>4 DEF TransferInv

LEMMA TransferLands == TransferInv /\ X!ReadLands => TransferInv'
<1> SUFFICES ASSUME TransferInv, X!ReadLands PROVE TransferInv'
  OBVIOUS
<1>1. PICK r \in statusReads :
        /\ statusReads' = statusReads \ {r}
        /\ \/ r.stage \notin {"asked", "absent"} /\ status' = r
           \/ UNCHANGED status
  BY DEF X!ReadLands
<1>2. r.stage # "asked" => r \in [id : X!Drafts, stage : X!Stages]
  BY <1>1 DEF TransferInv, HandoverShapes, StatusReads
<1>3. HandoverShapes'
  BY <1>1, <1>2 DEF X!ReadLands, TransferInv, HandoverShapes
<1>4. KeptDraft'
  BY <1>1 DEF X!ReadLands, TransferInv, KeptDraft
<1> QED BY <1>3, <1>4 DEF TransferInv

LEMMA TransferReload == TransferInv /\ X!Reload => TransferInv'
  BY BoundsAssumption DEF X!Reload, TransferInv, HandoverShapes, KeptDraft

LEMMA TransferSteps == TransferInv /\ X!HandoverStep => TransferInv'
  BY TransferServer, TransferChange, TransferPreview, TransferResume, TransferArrives,
     TransferReturns, TransferReadStatus, TransferServed, TransferLands, TransferReload
     DEF X!HandoverStep

LEMMA TransferHolds == TransferInv => X!HandoverInv
<1> SUFFICES ASSUME TransferInv PROVE X!HandoverInv
  OBVIOUS
<1>1. X!HandoverTypeOK
  BY BoundsAssumption DEF TransferInv, HandoverShapes, KeptDraft, X!HandoverTypeOK
<1>2. X!RunningIsKept /\ X!StatusOfDraft
  BY DEF TransferInv, KeptDraft, X!RunningIsKept, X!StatusOfDraft, X!busy
<1> QED BY <1>1, <1>2 DEF X!HandoverInv

(* The page that is open *)

PagesInv ==
    /\ page \in {"task", "execution", "profiles", "workspace", "handover"}
    /\ page = "task" => TaskInv
    /\ page = "execution" => ExecutionInv
    /\ page = "profiles" => ProfilesInv
    /\ page = "workspace" => FrameInv
    /\ page = "handover" => TransferInv

LEMMA PagesInitially == PagesInit => PagesInv
  BY TaskInitially, PanelInitially, ProfilesInitially, FrameInitially, TransferInitially
     DEF PagesInit, PagesInv

LEMMA PagesStep == PagesInv /\ [PagesNext]_pagesVars => PagesInv'
<1> SUFFICES ASSUME PagesInv, [PagesNext]_pagesVars PROVE PagesInv'
  OBVIOUS
<1>1. page' = page
  BY DEF PagesNext, pagesVars
<1>2. page = "task" => TaskInv'
  BY TaskSteps, TaskStutters DEF PagesInv, PagesNext, pagesVars
<1>3. page = "execution" => ExecutionInv'
  BY PanelSteps, PanelStutters DEF PagesInv, PagesNext, pagesVars
<1>4. page = "profiles" => ProfilesInv'
  BY ProfilesSteps, ProfilesStutter DEF PagesInv, PagesNext, pagesVars
<1>5. page = "workspace" => FrameInv'
  BY FrameSteps, FrameStutters DEF PagesInv, PagesNext, pagesVars
<1>6. page = "handover" => TransferInv'
  BY TransferSteps, TransferStutters DEF PagesInv, PagesNext, pagesVars
<1> QED BY <1>1, <1>2, <1>3, <1>4, <1>5, <1>6 DEF PagesInv

\* For any number of tasks, names, projects, refreshes and requests: what a page shows
\* is what it says it is except after the overlaps nothing orders, an id stands for one
\* operation, and what is approved, saved or started is what was shown.
THEOREM PagesHold == PagesSpec => []Inv
<1>1. PagesInv => Inv
  BY TaskHolds, PanelHolds, ProfilesHold, FrameHolds, TransferHolds DEF PagesInv, Inv
<1> QED BY <1>1, PagesInitially, PagesStep, PTL DEF PagesSpec
==============================================================================
