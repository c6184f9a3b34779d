-------------------------- MODULE PreparationProofs --------------------------
(***************************************************************************)
(* Proofs about Preparation, for any number of processes, calls and        *)
(* request ids.  Everything a call decides, it decides from revisions: the *)
(* invariants of Revisions and DraftSound say what is still true of the    *)
(* draft as long as its revision is the one a call or a request remembers. *)
(***************************************************************************)
EXTENDS Preparation, FiniteSetTheorems, SequenceTheorems, TLAPS

-----------------------------------------------------------------------------
(* Types *)

Pcs == {"idle", "check", "claim", "begin", "ask", "agent", "releasing", "write",
        "create", "removing", "execute", "mark"}

Draft == [rev : Nat, content : Nat, mode : Modes, synth : Nat, validP : Nat,
          validR : Nat, blockR : Nat, status : {"active", "consumed"}]
Message == [role : {"user"}, st : {"sent"}]
             \cup [role : {"assistant"}, st : {"sent", "pending", "interrupted"}]
Request == [kind : Kinds \cup {None}, st : {None, "pending", "sent", "failed"},
            about : Nat, user : Nat, reply : Nat, rev : Nat, content : Nat]
Proposal == [rev : Nat, content : Nat, seen : SUBSET Nat]
Review == [prop : Nat, content : Nat, level : Levels]
Call == [pc : Pcs, kind : Kinds \cup {None}, req : Reqs \cup {None}, rev : Nat,
         prop : Nat, about : Nat, begun : BOOLEAN, begunRev : Nat, content : Nat,
         reply : Nat, seen : SUBSET Nat, review : Nat, mode : Modes \cup {None}]
CreatedRun == [prop : Nat, mode : Modes \cup {None},
               st : {"running", "ended", "interrupted"},
               owner : Procs \cup {None}, by : Slots]

\* The rows of the draft.
RowTypes ==
    /\ draft \in Draft
    /\ draft.validP <= Len(proposals)
    /\ draft.validR <= Len(reviews) /\ draft.blockR <= Len(reviews)
    /\ msgs \in Seq(Message)
    /\ reqs \in [Reqs -> Request]
    /\ proposals \in Seq(Proposal)
    /\ reviews \in Seq(Review)
    /\ acks \subseteq DOMAIN reviews

\* The processes and what they do.
ProcessTypes ==
    /\ claims \in [Procs -> Slots \cup {None}]
    /\ runs \in Seq(CreatedRun)
    /\ global \in Modes
    /\ alive \subseteq Procs
    /\ home \in [Slots -> Procs]
    /\ call \in [Slots -> Call]
    /\ files \subseteq Slots
    /\ reading \in [Procs -> BOOLEAN]

\* A call under way is of a kind, and has a request id.
CallKinds ==
    \A s \in Slots :
        /\ call[s].pc # "idle" => call[s].kind \in Kinds /\ call[s].req \in Reqs
        /\ call[s].pc = "check" => call[s].kind \notin Turns
        /\ call[s].pc \in {"begin", "ask", "agent"} => call[s].kind # "approve"
        /\ call[s].pc \in {"write", "create"} => call[s].kind = "approve"

Types == RowTypes /\ ProcessTypes /\ CallKinds

-----------------------------------------------------------------------------
(* Ownership *)

Working == {"begin", "ask", "agent", "write", "create", "releasing"}

\* A living owner is a call of its process that is at work, and its process
\* remembers the claim.
OwnerWorks ==
    Live(owner) =>
        \E s \in Slots : /\ owner = [proc |-> home[s], token |-> s]
                         /\ claims[home[s]] = s
                         /\ call[s].pc \in Working

-----------------------------------------------------------------------------
(* Requests and calls against the revision of the draft *)

\* While a request is the newest change of the draft, the draft is as its
\* transaction left it.
RequestsCurrent ==
    \A r \in Reqs : reqs[r] # NoReq =>
        /\ reqs[r].rev <= draft.rev
        /\ reqs[r].rev = draft.rev =>
              /\ reqs[r].content = draft.content
              /\ reqs[r].kind \in Turns => draft.validP = 0 /\ draft.validR = 0
              /\ reqs[r].kind = "review" => draft.validP = reqs[r].about

\* A call that waits for the agent is about the request on record.
CallsRecorded ==
    \A s \in Slots : call[s].pc \in {"ask", "agent"} =>
        LET q == reqs[call[s].req]
        IN  /\ q # NoReq
            /\ q.kind = call[s].kind /\ q.about = call[s].about
            /\ q.rev = call[s].begunRev

\* The planner was shown what the user said if nothing happened since.
SeenIsAll ==
    \A s \in Slots :
        call[s].pc = "agent" /\ draft.rev = call[s].begunRev => Knows(call[s].seen)

\* What a review or an approval remembers of its start.
CallsRemember ==
    \A s \in Slots : call[s].pc # "idle" =>
        /\ call[s].rev <= draft.rev
        /\ call[s].kind = "review" => call[s].prop = call[s].about
        /\ call[s].kind = "approve" => call[s].prop # 0

\* Nothing stands against approving the draft as it is.
Unopposed ==
    /\ draft.blockR = 0
    /\ draft.validR # 0 =>
         /\ reviews[draft.validR].level # "grave"
         /\ reviews[draft.validR].level = "minor" => draft.validR \in acks

\* What an approval found unopposed stays so until the draft changes.
ApprovalsUnopposed ==
    \A s \in Slots :
        /\ call[s].kind = "approve" /\ call[s].pc \in {"claim", "write", "create"}
        /\ draft.rev = call[s].rev
        => Unopposed

-----------------------------------------------------------------------------
(* Reviews *)

ReviewsNotAhead == \A n \in 1..Len(reviews) : reviews[n].content <= draft.content

\* A later report without grave findings, on newer content, answers report r.
Answered(r) ==
    \E n \in 1..Len(reviews) :
        n > r /\ reviews[n].level # "grave" /\ reviews[n].content > reviews[r].content

\* The report that blocks is about the newest content of all unanswered grave ones.
BlockIsNewest ==
    \A r \in 1..Len(reviews) : reviews[r].level = "grave" =>
        \/ Answered(r)
        \/ /\ draft.blockR # 0
           /\ reviews[r].content <= reviews[draft.blockR].content

-----------------------------------------------------------------------------
(* Lemmas about the operators of the model *)

\* Same messages, and what was sent stays sent.
SameTalk(ms, ns) ==
    /\ Len(ns) = Len(ms)
    /\ \A i \in 1..Len(ms) : ns[i].role = ms[i].role /\ (ms[i].st = "sent" => ns[i].st = "sent")

\* One message is sent; a message that is not there is not changed.
LEMMA MessageSent ==
    ASSUME NEW ms \in Seq(Message), NEW i, NEW st, st = "sent"
    PROVE  /\ [ms EXCEPT ![i].st = st] \in Seq(Message)
           /\ SameTalk(ms, [ms EXCEPT ![i].st = st])
<1>1. CASE i \in 1..Len(ms)
  <2>1. ms[i] \in Message
    BY <1>1, LenProperties
  <2>2. [ms[i] EXCEPT !.st = st] \in Message
        /\ [ms[i] EXCEPT !.st = st].role = ms[i].role
        /\ [ms[i] EXCEPT !.st = st].st = "sent"
    BY <2>1 DEF Message
  <2> DEFINE m == [ms[i] EXCEPT !.st = st]
  <2>3. [ms EXCEPT ![i].st = st] = [ms EXCEPT ![i] = m]
    BY <1>1, LenProperties
  <2> HIDE DEF m
  <2>4. /\ [ms EXCEPT ![i] = m] \in Seq(Message)
        /\ Len([ms EXCEPT ![i] = m]) = Len(ms)
        /\ \A j \in 1..Len(ms) :
              [ms EXCEPT ![i] = m][j] = IF j = i THEN m ELSE ms[j]
    BY <1>1, <2>2, ExceptSeq DEF m
  <2> QED
    BY <2>2, <2>3, <2>4 DEF SameTalk, m
<1>2. CASE i \notin 1..Len(ms)
  <2>1. DOMAIN ms = 1..Len(ms) /\ ms = [j \in 1..Len(ms) |-> ms[j]]
    BY LenProperties
  <2>2. [ms EXCEPT ![i].st = st] = ms
    BY <1>2, <2>1
  <2> QED
    BY <2>2 DEF SameTalk
<1> QED
  BY <1>1, <1>2

LEMMA InterruptedTalk ==
    ASSUME NEW ms \in Seq(Message)
    PROVE  Interrupted(ms) \in Seq(Message) /\ SameTalk(ms, Interrupted(ms))
<1>1. Len(ms) \in Nat /\ DOMAIN ms = 1..Len(ms) /\ \A i \in 1..Len(ms) : ms[i] \in Message
  BY LenProperties
<1>2. \A i \in 1..Len(ms) : /\ Interrupted(ms)[i] \in Message
                            /\ Interrupted(ms)[i].role = ms[i].role
                            /\ ms[i].st = "sent" => Interrupted(ms)[i].st = "sent"
  BY <1>1 DEF Interrupted, Message
<1>3. DOMAIN Interrupted(ms) = 1..Len(ms)
      /\ Interrupted(ms) = [i \in 1..Len(ms) |-> Interrupted(ms)[i]]
  BY <1>1 DEF Interrupted
<1>4. Interrupted(ms) \in Seq(Message)
  BY <1>1, <1>2, <1>3
<1>5. Len(Interrupted(ms)) = Len(ms)
  BY <1>1, <1>3, <1>4, LenProperties
<1> QED
  BY <1>2, <1>4, <1>5 DEF SameTalk

\* One more of something at the end of a sequence.
LEMMA Appended ==
    ASSUME NEW S, NEW q \in Seq(S), NEW x \in S
    PROVE  /\ Append(q, x) \in Seq(S)
           /\ Len(Append(q, x)) = Len(q) + 1 /\ Len(q) \in Nat
           /\ Append(q, x)[Len(q) + 1] = x
           /\ \A i \in 1..Len(q) : Append(q, x)[i] = q[i]
BY AppendProperties, LenProperties

\* Of the messages sent after another there is a number.
LEMMA LaterFinite ==
    ASSUME msgs \in Seq(Message), NEW i \in Nat
    PROVE  IsFiniteSet(Later(i)) /\ Cardinality(Later(i)) \in Nat /\ Later(i) \subseteq Nat
<1>1. Len(msgs) \in Nat /\ DOMAIN msgs = 1..Len(msgs)
  BY LenProperties
<1>2. IsFiniteSet(1..Len(msgs))
  BY <1>1, FS_Interval
<1>3. Later(i) \subseteq 1..Len(msgs)
  BY <1>1 DEF Later
<1> QED
  BY <1>1, <1>2, <1>3, FS_Subset, FS_CardinalityType

\* What was known stays known while nothing is said: the messages sent only become more.
LEMMA KnownOfTalk ==
    ASSUME msgs \in Seq(Message), msgs' \in Seq(Message), SameTalk(msgs, msgs'),
           NEW seen, Knows(seen)
    PROVE  \A i \in DOMAIN msgs' :
             msgs'[i].role = "user" => i \in seen \/ Cardinality(Later(i)') >= PromptMessages
<1>1. Len(msgs) \in Nat /\ DOMAIN msgs = 1..Len(msgs) /\ DOMAIN msgs' = 1..Len(msgs)
  BY LenProperties DEF SameTalk
<1> SUFFICES ASSUME NEW i \in 1..Len(msgs), msgs'[i].role = "user", i \notin seen
             PROVE  Cardinality(Later(i)') >= PromptMessages
  BY <1>1
<1>2. Cardinality(Later(i)) >= PromptMessages
  BY <1>1 DEF Knows, SameTalk
<1>3. Later(i) \subseteq Later(i)'
  BY <1>1 DEF Later, SameTalk
<1>4. IsFiniteSet(Later(i)') /\ Cardinality(Later(i)') \in Nat
  <2>1. Later(i)' \subseteq 1..Len(msgs)
    BY <1>1 DEF Later
  <2>2. IsFiniteSet(1..Len(msgs))
    BY <1>1, FS_Interval
  <2> QED
    BY <2>1, <2>2, FS_Subset, FS_CardinalityType
<1>5. Cardinality(Later(i)) <= Cardinality(Later(i)')
  BY <1>3, <1>4, FS_Subset
<1>6. Cardinality(Later(i)) \in Nat
  BY <1>1, LaterFinite
<1> QED
  BY <1>2, <1>4, <1>5, <1>6, PreparationBounds

\* The prompt tells it.
LEMMA PromptKnows ==
    ASSUME msgs \in Seq(Message)
    PROVE  Prompt \in SUBSET Nat /\ Knows(Prompt)
<1>1. Len(msgs) \in Nat /\ DOMAIN msgs = 1..Len(msgs) /\ \A i \in 1..Len(msgs) : msgs[i] \in Message
  BY LenProperties
<1>2. \A i \in 1..Len(msgs) : msgs[i].role = "user" => msgs[i].st = "sent"
  BY <1>1 DEF Message
<1>3. \A i \in 1..Len(msgs) : Cardinality(Later(i)) \in Nat
  BY <1>1, LaterFinite
<1>4. Prompt \in SUBSET Nat
  BY <1>1 DEF Prompt
<1>5. ASSUME NEW i \in 1..Len(msgs), msgs[i].role = "user", i \notin Prompt
      PROVE  Cardinality(Later(i)) >= PromptMessages
  BY <1>1, <1>2, <1>3, <1>5, PreparationBounds DEF Prompt
<1> QED
  BY <1>1, <1>4, <1>5 DEF Knows

-----------------------------------------------------------------------------
(* Types *)

\* A call that moves on, or ends, stays a call.
LEMMA GoType ==
    ASSUME Types, NEW s \in Slots, NEW to \in Pcs,
           call' = [call EXCEPT ![s].pc = to] \/ call' = [call EXCEPT ![s] = IdleCall]
    PROVE  /\ call' \in [Slots -> Call]
           /\ \A t \in Slots \ {s} : call'[t] = call[t]
           /\ call'[s] = [call[s] EXCEPT !.pc = to] \/ call'[s] = IdleCall
<1>1. call \in [Slots -> Call] /\ call[s] \in Call
  BY DEF Types, ProcessTypes
<1>2. [call[s] EXCEPT !.pc = to] \in Call
  BY <1>1 DEF Call
<1>3. IdleCall \in Call
  BY DEF Call, IdleCall, Pcs
<1> QED
  BY <1>1, <1>2, <1>3

\* Reading the draft, with or without recovery.
LEMMA RecoverType ==
    ASSUME Types, NEW p \in Procs, Recover(p)
    PROVE  /\ msgs' \in Seq(Message) /\ SameTalk(msgs, msgs')
           /\ claims' \in [Procs -> Slots \cup {None}]
<1>1. msgs \in Seq(Message) /\ claims \in [Procs -> Slots \cup {None}]
  BY DEF Types, RowTypes, ProcessTypes
<1>2. CASE UNCHANGED <<owner, msgs, claims>>
  BY <1>1, <1>2 DEF SameTalk
<1>3. CASE ~Live(owner)
  BY <1>1, <1>3, InterruptedTalk DEF Recover
<1> QED
  BY <1>2, <1>3 DEF Recover

\* Steps that write no row of the draft except message states.
Quiet ==
    /\ UNCHANGED <<draft, reqs, proposals, reviews, acks>>
    /\ msgs' \in Seq(Message) /\ SameTalk(msgs, msgs')

LEMMA QuietType ==
    ASSUME Types, Quiet
    PROVE  RowTypes'
BY DEF Types, RowTypes, Quiet

\* What a call under way looks like.
LEMMA CallFields ==
    ASSUME Types, NEW s \in Slots
    PROVE  /\ call[s] \in Call /\ home[s] \in Procs
           /\ call[s].rev \in Nat /\ call[s].prop \in Nat /\ call[s].about \in Nat
           /\ call[s].begunRev \in Nat /\ call[s].content \in Nat
           /\ call[s].reply \in Nat /\ call[s].seen \in SUBSET Nat
           /\ draft.rev \in Nat /\ draft.content \in Nat
           /\ draft.validP \in 0..Len(proposals)
           /\ draft.validR \in 0..Len(reviews) /\ draft.blockR \in 0..Len(reviews)
           /\ Len(msgs) \in Nat /\ Len(proposals) \in Nat /\ Len(reviews) \in Nat
<1>1. Len(msgs) \in Nat /\ Len(proposals) \in Nat /\ Len(reviews) \in Nat
  BY LenProperties DEF Types, RowTypes
<1>2. /\ draft.rev \in Nat /\ draft.content \in Nat
      /\ draft.validP \in Nat /\ draft.validR \in Nat /\ draft.blockR \in Nat
  BY DEF Types, RowTypes, Draft
<1>3. call[s] \in Call /\ home[s] \in Procs
  BY DEF Types, ProcessTypes
<1> QED
  BY <1>1, <1>2, <1>3 DEF Types, RowTypes, Call

LEMMA StartType ==
    ASSUME Types, NEW s \in Slots, NEW k \in Kinds, NEW r \in Reqs, Start(s, k, r)
    PROVE  Types' /\ Quiet
<1>0. Len(msgs) \in Nat /\ (msgs # <<>> => Len(msgs) - 1 \in Nat)
  <2>1. Len(msgs) \in Nat
    BY CallFields
  <2>2. msgs # <<>> => Len(msgs) # 0
    BY EmptySeq DEF Types, RowTypes
  <2> QED
    BY <2>1, <2>2
<1>1. Quiet /\ claims' \in [Procs -> Slots \cup {None}]
  <2>1. CASE Recover(home[s])
    BY <2>1, CallFields, RecoverType DEF Start, Quiet
  <2>2. CASE UNCHANGED <<owner, msgs, claims>>
    BY <2>2 DEF Start, Quiet, SameTalk, Types, RowTypes, ProcessTypes
  <2> QED
    BY <2>1, <2>2 DEF Start
<1>2. PICK a \in Nat :
        call' = [call EXCEPT ![s] = [IdleCall EXCEPT
                  !.pc = IF k \in Turns THEN "claim" ELSE "check",
                  !.kind = k, !.req = r, !.rev = draft.rev, !.prop = draft.validP,
                  !.about = a]]
  <2>1. (CASE k = "retry" -> Len(msgs) - 1
           [] k = "review" -> draft.validP
           [] OTHER -> 0) \in Nat
    BY <1>0, CallFields DEF Start
  <2> QED
    BY <2>1 DEF Start
<1>3. call'[s] = [IdleCall EXCEPT
                    !.pc = IF k \in Turns THEN "claim" ELSE "check",
                    !.kind = k, !.req = r, !.rev = draft.rev, !.prop = draft.validP,
                    !.about = a]
      /\ \A t \in Slots \ {s} : call'[t] = call[t]
  BY <1>2 DEF Types, ProcessTypes
<1>4. call'[s] \in Call
  <2>1. draft.rev \in Nat /\ draft.validP \in Nat
    BY CallFields
  <2>2. (IF k \in Turns THEN "claim" ELSE "check") \in Pcs
    BY DEF Pcs
  <2>3. IdleCall \in Call
    BY DEF Call, IdleCall, Pcs
  <2> QED
    BY <1>3, <2>1, <2>2, <2>3 DEF Call
<1>5. ProcessTypes'
  BY <1>1, <1>2, <1>3, <1>4 DEF Start, Types, ProcessTypes
<1>6. CallKinds'
  <2>1. /\ call'[s].pc = IF k \in Turns THEN "claim" ELSE "check"
        /\ call'[s].kind = k /\ call'[s].req = r
    BY <1>3 DEF IdleCall
  <2> QED
    BY <1>3, <2>1 DEF Types, CallKinds
<1> QED
  BY <1>1, <1>5, <1>6, QuietType DEF Types

\* A step that leaves the rows alone and moves one call.
LEMMA MoveType ==
    ASSUME Types, NEW s \in Slots, NEW c \in Call,
           UNCHANGED rows,
           call' = [call EXCEPT ![s] = c],
           c.pc # "idle" => c.kind \in Kinds /\ c.req \in Reqs,
           c.pc = "check" => c.kind \notin Turns,
           c.pc \in {"begin", "ask", "agent"} => c.kind # "approve",
           c.pc \in {"write", "create"} => c.kind = "approve",
           claims' \in [Procs -> Slots \cup {None}], runs' \in Seq(CreatedRun),
           files' \subseteq Slots, UNCHANGED <<global, alive, home, reading>>
    PROVE  Types' /\ Quiet
<1>1. call'[s] = c /\ \A t \in Slots \ {s} : call'[t] = call[t]
  BY DEF Types, ProcessTypes
<1>2. ProcessTypes' /\ CallKinds'
  BY <1>1 DEF Types, ProcessTypes, CallKinds
<1>3. Quiet
  BY DEF Quiet, rows, SameTalk, Types, RowTypes
<1> QED
  BY <1>2, <1>3, QuietType DEF Types

\* Checking, claiming, what begins nothing new, releasing, writing and removing
\* artifacts, executing.
LEMMA PlainType ==
    ASSUME Types, NEW s \in Slots,
           \/ Check(s) \/ Claim(s) \/ Release(s) \/ Write(s) \/ RemoveFiles(s)
           \/ Execute(s)
           \/ /\ call[s].pc = "begin"
              /\ BeginDuplicate(s) \/ BeginRefused(s)
              /\ UNCHANGED <<owner, claims, runs, global, alive, home, files, reading>>
    PROVE  Types' /\ Quiet
<1>0. /\ call[s] \in Call /\ IdleCall \in Call /\ IdleCall.pc = "idle"
      /\ claims \in [Procs -> Slots \cup {None}] /\ runs \in Seq(CreatedRun)
      /\ files \subseteq Slots /\ home[s] \in Procs
      /\ draft.validR \in Nat /\ draft.content \in Nat /\ draft.mode \in Modes
      /\ global \in Modes
  BY CallFields DEF IdleCall, Call, Pcs, Types, RowTypes, ProcessTypes, Draft
<1>1. /\ call[s].pc # "idle" => call[s].kind \in Kinds /\ call[s].req \in Reqs
      /\ call[s].pc = "check" => call[s].kind \notin Turns
      /\ call[s].pc \in {"begin", "ask", "agent"} => call[s].kind # "approve"
      /\ call[s].pc \in {"write", "create"} => call[s].kind = "approve"
  BY DEF Types, CallKinds
<1>2. ASSUME NEW to \in Pcs \ {"idle", "check"},
             to \in {"begin", "ask", "agent"} => call[s].kind # "approve",
             to \in {"write", "create"} => call[s].kind = "approve",
             call[s].pc # "idle",
             \/ call' = [call EXCEPT ![s].pc = to]
             \/ call' = [call EXCEPT ![s] = IdleCall],
             UNCHANGED rows,
             claims' \in [Procs -> Slots \cup {None}], runs' \in Seq(CreatedRun),
             files' \subseteq Slots, UNCHANGED <<global, alive, home, reading>>
      PROVE  Types' /\ Quiet
  <2> DEFINE c == [call[s] EXCEPT !.pc = to]
  <2>1. c \in Call /\ c.pc = to /\ c.kind = call[s].kind /\ c.req = call[s].req
    BY <1>0, <1>2 DEF Call
  <2>2. CASE call' = [call EXCEPT ![s].pc = to]
    <3>1. call' = [call EXCEPT ![s] = c]
      BY <2>2 DEF Types, ProcessTypes
    <3> HIDE DEF c
    <3> QED
      BY <1>1, <1>2, <2>1, <3>1, MoveType
  <2>3. CASE call' = [call EXCEPT ![s] = IdleCall]
    BY <1>0, <1>2, <2>3, MoveType DEF IdleCall
  <2> QED
    BY <1>2, <2>2, <2>3
<1>3. CASE Check(s)
  <2>1. call[s].pc = "check" /\ call[s].kind \in Kinds \ Turns /\ call[s].req \in Reqs
    BY <1>1, <1>3 DEF Check
  <2>2. EffectiveMode(draft.mode) \in Modes
    BY <1>0 DEF EffectiveMode, Modes
  <2>3. PICK c \in Call :
          /\ call' = [call EXCEPT ![s] = c]
          /\ c.pc # "idle" => c.kind = call[s].kind /\ c.req = call[s].req
          /\ c.pc \in {"claim", "idle"}
    <3>1. CASE call[s].kind = "review"
      <4> DEFINE c == [call[s] EXCEPT !.pc = "claim", !.mode = EffectiveMode(draft.mode)]
      <4>1. c \in Call /\ c.pc = "claim" /\ c.kind = call[s].kind /\ c.req = call[s].req
        BY <1>0, <2>2 DEF Call, Pcs
      <4>2. call' = [call EXCEPT ![s] = c]
        BY <1>3, <3>1 DEF Check, Types, ProcessTypes
      <4> QED
        BY <4>1, <4>2
    <3>2. CASE call[s].kind # "review" /\ Approvable(call[s])
      <4> DEFINE c == [call[s] EXCEPT !.pc = "claim", !.mode = EffectiveMode(draft.mode),
                             !.content = draft.content, !.review = draft.validR]
      <4>1. c \in Call /\ c.pc = "claim" /\ c.kind = call[s].kind /\ c.req = call[s].req
        BY <1>0, <2>2 DEF Call, Pcs
      <4>2. call' = [call EXCEPT ![s] = c]
        BY <1>3, <3>2 DEF Check, Types, ProcessTypes
      <4> QED
        BY <4>1, <4>2
    <3>3. CASE call[s].kind # "review" /\ ~Approvable(call[s])
      <4>1. call' = [call EXCEPT ![s] = IdleCall]
        BY <1>3, <3>3 DEF Check, Types, ProcessTypes
      <4> QED
        BY <1>0, <4>1
    <3> QED
      BY <3>1, <3>2, <3>3
  <2> QED
    BY <1>0, <1>3, <2>1, <2>3, MoveType DEF Check
<1>4. CASE Claim(s)
  <2>1. claims' \in [Procs -> Slots \cup {None}]
    BY <1>0, <1>4 DEF Claim
  <2>2. CASE Claimable(s)
    <3> DEFINE to == IF call[s].kind = "approve" THEN "write" ELSE "begin"
    <3>1. to \in Pcs \ {"idle", "check"}
      BY DEF Pcs
    <3> QED
      BY <1>0, <1>2, <1>4, <2>1, <2>2, <3>1 DEF Claim
  <2>3. CASE ~Claimable(s)
    <3>1. "releasing" \in Pcs \ {"idle", "check"}
      BY DEF Pcs
    <3> QED
      BY <1>0, <1>2, <1>4, <2>1, <2>3, <3>1 DEF Claim
  <2> QED
    BY <2>2, <2>3
<1>5. CASE Release(s)
  <2>1. claims' \in [Procs -> Slots \cup {None}]
    BY <1>0, <1>5 DEF Release
  <2>2. "removing" \in Pcs \ {"idle", "check"}
    BY DEF Pcs
  <2>3. call' = [call EXCEPT ![s].pc = "removing"] \/ call' = [call EXCEPT ![s] = IdleCall]
    BY <1>5 DEF Release, Types, ProcessTypes
  <2> QED
    BY <1>0, <1>2, <1>5, <2>1, <2>2, <2>3 DEF Release
<1>6. CASE Write(s)
  <2>1. {"create", "releasing"} \subseteq Pcs \ {"idle", "check"}
    BY DEF Pcs
  <2>2. files' \subseteq Slots
    BY <1>0, <1>6 DEF Write
  <2> QED
    BY <1>0, <1>1, <1>2, <1>6, <2>1, <2>2 DEF Write, Go
<1>7. CASE RemoveFiles(s)
  <2>1. "removing" \in Pcs \ {"idle", "check"} /\ files' \subseteq Slots
    BY <1>0, <1>7 DEF Pcs, RemoveFiles
  <2> QED
    BY <1>0, <1>2, <1>7, <2>1 DEF RemoveFiles
<1>8. CASE Execute(s)
  <2> DEFINE i == RunOf(s)
  <2>1. "mark" \in Pcs \ {"idle", "check"}
    BY DEF Pcs
  <2>2. runs' \in Seq(CreatedRun)
    <3>1. CASE i \in 1..Len(runs)
      <4>1. runs[i] \in CreatedRun
        BY <1>0, <3>1, LenProperties
      <4>2. PICK r \in CreatedRun : runs' = [runs EXCEPT ![i] = r]
        <5>1. \A st \in {"ended", "interrupted"} :
                [runs[i] EXCEPT !.st = st] \in CreatedRun
          BY <4>1 DEF CreatedRun
        <5>2. [runs[i] EXCEPT !.owner = None] \in CreatedRun
          BY <4>1 DEF CreatedRun
        <5>3. [runs[i] EXCEPT !.st = "ended", !.owner = None] \in CreatedRun
          BY <4>1 DEF CreatedRun
        <5> QED
          BY <1>0, <1>8, <3>1, <5>1, <5>2, <5>3, LenProperties DEF Execute
      <4> QED
        BY <1>0, <3>1, <4>2, ExceptSeq
    <3>2. CASE i \notin 1..Len(runs)
      <4>1. DOMAIN runs = 1..Len(runs) /\ runs = [j \in 1..Len(runs) |-> runs[j]]
        BY <1>0, LenProperties
      <4>2. runs' = runs
        BY <1>8, <3>2, <4>1 DEF Execute
      <4> QED
        BY <1>0, <4>2
    <3> QED
      BY <3>1, <3>2
  <2>3. call' = [call EXCEPT ![s].pc = "mark"] \/ call' = [call EXCEPT ![s] = IdleCall]
    BY <1>8 DEF Execute, Go
  <2> QED
    BY <1>0, <1>2, <1>8, <2>1, <2>2, <2>3 DEF Execute
<1>9. CASE /\ call[s].pc = "begin"
           /\ BeginDuplicate(s) \/ BeginRefused(s)
           /\ UNCHANGED <<owner, claims, runs, global, alive, home, files, reading>>
  <2>1. CASE BeginRefused(s)
    <3>1. "releasing" \in Pcs \ {"idle", "check"}
      BY DEF Pcs
    <3> QED
      BY <1>0, <1>2, <1>9, <2>1, <3>1 DEF BeginRefused, Go
  <2>2. CASE BeginDuplicate(s)
    <3> DEFINE q == reqs[call[s].req]
               c == [call[s] EXCEPT !.pc = "ask", !.begun = TRUE, !.begunRev = q.rev,
                                    !.content = q.content, !.reply = q.reply]
    <3>1. q.rev \in Nat /\ q.content \in Nat /\ q.reply \in Nat
      BY <1>1, <1>9 DEF Types, RowTypes, Request
    <3>2. c \in Call /\ c.pc = "ask" /\ c.kind = call[s].kind /\ c.req = call[s].req
      <4> HIDE DEF q
      <4> QED
        BY <1>0, <3>1 DEF Call, Pcs
    <3>3. call' = [call EXCEPT ![s] = c]
      BY <1>0, <2>2 DEF BeginDuplicate, Types, ProcessTypes
    <3> HIDE DEF c
    <3> QED
      BY <1>0, <1>1, <1>9, <2>2, <3>2, <3>3, MoveType DEF BeginDuplicate
  <2> QED
    BY <1>9, <2>1, <2>2
<1> QED
  BY <1>3, <1>4, <1>5, <1>6, <1>7, <1>8, <1>9

\* Before a turn asks the agent the conversation is read again.
LEMMA AskType ==
    ASSUME Types, NEW s \in Slots, Ask(s)
    PROVE  /\ Types' /\ Quiet
           /\ call' = [call EXCEPT ![s].pc = "agent", ![s].seen = Prompt]
<1>1. Quiet /\ claims' \in [Procs -> Slots \cup {None}]
  <2>1. CASE Recover(home[s])
    BY <2>1, CallFields, RecoverType DEF Ask, Quiet
  <2>2. CASE UNCHANGED <<owner, msgs, claims>>
    BY <2>2 DEF Ask, Quiet, SameTalk, Types, RowTypes, ProcessTypes
  <2> QED
    BY <2>1, <2>2 DEF Ask
<1>2. Prompt \in SUBSET Nat /\ call[s] \in Call /\ call \in [Slots -> Call]
  BY PromptKnows DEF Types, RowTypes, ProcessTypes
<1> DEFINE c == [call[s] EXCEPT !.pc = "agent", !.seen = Prompt]
<1>3. c \in Call /\ c.pc = "agent" /\ c.kind = call[s].kind /\ c.req = call[s].req
  <2> HIDE DEF Prompt
  <2> QED
    BY <1>2 DEF Call, Pcs
<1>4. call' = [call EXCEPT ![s] = c]
  BY <1>2 DEF Ask
<1> HIDE DEF c
<1>5. call'[s] = c /\ \A t \in Slots \ {s} : call'[t] = call[t]
  BY <1>2, <1>4
<1>6. call[s].pc = "ask"
  BY DEF Ask
<1>7. ProcessTypes'
  BY <1>1, <1>2, <1>3, <1>4 DEF Ask, Types, ProcessTypes
<1>8. CallKinds'
  BY <1>3, <1>5, <1>6 DEF Types, CallKinds
<1> QED
  BY <1>1, <1>7, <1>8, QuietType DEF Ask, Types

\* Reading by other processes, crashes and the configuration.
LEMMA OutsideType ==
    ASSUME Types,
           \/ SetGlobal
           \/ \E p \in Procs : Read(p) \/ ReadStarts(p) \/ ReadEnds(p) \/ Crash(p)
    PROVE  Types' /\ Quiet
<1>0. /\ msgs \in Seq(Message) /\ claims \in [Procs -> Slots \cup {None}]
      /\ call \in [Slots -> Call] /\ reading \in [Procs -> BOOLEAN]
  BY DEF Types, RowTypes, ProcessTypes
<1>1. CASE SetGlobal
  <2>1. Quiet
    BY <1>0, <1>1 DEF SetGlobal, Quiet, rows, SameTalk
  <2>2. ProcessTypes' /\ CallKinds'
    BY <1>1 DEF SetGlobal, Types, ProcessTypes, CallKinds, Modes
  <2> QED
    BY <2>1, <2>2, QuietType DEF Types
<1>2. ASSUME NEW p \in Procs, Read(p)
      PROVE  Types' /\ Quiet
  <2>1. Quiet /\ claims' \in [Procs -> Slots \cup {None}]
    BY <1>2, RecoverType DEF Read, Quiet
  <2>2. ProcessTypes' /\ CallKinds'
    BY <1>2, <2>1 DEF Read, Types, ProcessTypes, CallKinds
  <2> QED
    BY <2>1, <2>2, QuietType DEF Types
<1>3. ASSUME NEW p \in Procs, ReadStarts(p)
      PROVE  Types' /\ Quiet
  <2>1. Quiet
    BY <1>0, <1>3 DEF ReadStarts, Quiet, rows, SameTalk
  <2>2. ProcessTypes' /\ CallKinds'
    BY <1>3 DEF ReadStarts, Types, ProcessTypes, CallKinds
  <2> QED
    BY <2>1, <2>2, QuietType DEF Types
<1>4. ASSUME NEW p \in Procs, ReadEnds(p)
      PROVE  Types' /\ Quiet
  <2>1. Quiet
    BY <1>0, <1>4, InterruptedTalk DEF ReadEnds, Quiet
  <2>2. ProcessTypes' /\ CallKinds'
    BY <1>4 DEF ReadEnds, Types, ProcessTypes, CallKinds
  <2> QED
    BY <2>1, <2>2, QuietType DEF Types
<1>5. ASSUME NEW p \in Procs, Crash(p)
      PROVE  Types' /\ Quiet
  <2>1. Quiet
    BY <1>0, <1>5 DEF Crash, Quiet, rows, SameTalk
  <2>2. IdleCall \in Call /\ IdleCall.pc = "idle"
    BY DEF IdleCall, Call, Pcs
  <2>3. \A s \in Slots : call'[s] = call[s] \/ call'[s] = IdleCall
    BY <1>5 DEF Crash
  <2>4. call' \in [Slots -> Call]
    <3> HIDE DEF IdleCall
    <3> QED
      BY <1>0, <1>5, <2>2 DEF Crash
  <2>5. ProcessTypes'
    BY <1>5, <2>4 DEF Crash, Types, ProcessTypes
  <2>6. CallKinds'
    BY <2>2, <2>3 DEF Types, CallKinds
  <2> QED
    BY <2>1, <2>5, <2>6, QuietType DEF Types
<1> QED
  BY <1>1, <1>2, <1>3, <1>4, <1>5

\* A new turn or review is on record, at the revision after the one it read.
Begun(s) ==
    /\ call[s].pc = "begin"
    /\ UNCHANGED <<proposals, reviews, acks>>
    /\ draft'.rev = draft.rev + 1
    /\ draft'.content = draft.content \/ draft'.content = draft.content + 1
    /\ draft'.blockR = draft.blockR /\ draft'.status = draft.status
    /\ \/ /\ call[s].kind \in Turns /\ draft'.validP = 0 /\ draft'.validR = 0
       \/ /\ call[s].kind = "review" /\ draft'.validP = call[s].about
          /\ draft'.validP = draft.validP /\ draft'.validR = draft.validR
          /\ draft'.content = draft.content /\ msgs' = msgs
    /\ draft.status = "active" /\ draft.rev = call[s].rev
    /\ call[s].req \in Reqs
    /\ reqs'[call[s].req].kind = call[s].kind
    /\ reqs'[call[s].req].st = "pending"
    /\ reqs'[call[s].req].about = call[s].about
    /\ reqs'[call[s].req].rev = draft'.rev
    /\ reqs'[call[s].req].content = draft'.content
    /\ \A q \in Reqs : q # call[s].req => reqs'[q] = reqs[q]
    /\ reqs[call[s].req] = NoReq
    /\ call'[s].pc = "ask" /\ call'[s].begunRev = draft'.rev
    /\ call'[s].kind = call[s].kind /\ call'[s].about = call[s].about
    /\ call'[s].req = call[s].req /\ call'[s].prop = call[s].prop
    /\ call'[s].rev = call[s].rev
    /\ \A t \in Slots : t # s => call'[t] = call[t]

LEMMA BeginNewType ==
    ASSUME Types, NEW s \in Slots, call[s].pc = "begin", BeginNew(s),
           UNCHANGED <<owner, claims, runs, global, alive, home, files, reading>>
    PROVE  Types' /\ Begun(s)
<1> DEFINE c == call[s]
           talk == c.kind = "reply"
           content == IF talk THEN draft.content + 1 ELSE draft.content
           reply == IF talk THEN Len(msgs) + 2
                    ELSE IF c.kind = "retry" THEN c.about + 1 ELSE 0
           q == [kind |-> c.kind, st |-> "pending", about |-> c.about,
                 user |-> IF reply = 0 THEN 0 ELSE reply - 1, reply |-> reply,
                 rev |-> draft.rev + 1, content |-> content]
           validP == IF c.kind = "review" THEN draft.validP ELSE 0
           validR == IF c.kind = "review" THEN draft.validR ELSE 0
           rev == draft.rev + 1
           d == [draft EXCEPT !.rev = rev, !.content = content,
                              !.validP = validP, !.validR = validR]
           n == [call[s] EXCEPT !.pc = "ask", !.begun = TRUE,
                       !.begunRev = rev, !.content = content, !.reply = reply]
<1>0. /\ c \in Call /\ c.kind \in Turns \cup {"review"} /\ c.req \in Reqs
      /\ c.about \in Nat /\ Len(msgs) \in Nat
      /\ draft \in Draft /\ draft.rev \in Nat /\ draft.content \in Nat
      /\ msgs \in Seq(Message) /\ reqs \in [Reqs -> Request]
      /\ call \in [Slots -> Call]
  BY CallFields DEF Types, RowTypes, ProcessTypes, CallKinds, Kinds
<1>1. /\ content \in Nat /\ reply \in Nat /\ (reply # 0 => reply - 1 \in Nat)
      /\ validP \in Nat /\ validR \in Nat /\ rev \in Nat
  BY <1>0, CallFields
<1>2. q \in Request
  <2> HIDE DEF content, reply
  <2> QED
    BY <1>0, <1>1 DEF Request, Kinds
<1>3. d \in Draft
  <2> HIDE DEF content, validP, validR, rev
  <2> QED
    BY <1>0, <1>1 DEF Draft
<1>4. n \in Call
  <2> HIDE DEF content, reply, rev
  <2> QED
    BY <1>0, <1>1 DEF Call, Pcs
<1>5. draft' = d /\ reqs' = [reqs EXCEPT ![c.req] = q] /\ call' = [call EXCEPT ![s] = n]
  BY <1>0 DEF BeginNew
<1>6. msgs' \in Seq(Message) /\ (c.kind = "review" => msgs' = msgs)
  <2>1. CASE talk
    <3> DEFINE more == <<[role |-> "user", st |-> "sent"],
                         [role |-> "assistant", st |-> "pending"]>>
    <3>1. more \in Seq(Message)
      BY DEF Message
    <3>2. msgs' = msgs \o more
      BY <2>1 DEF BeginNew
    <3> HIDE DEF more
    <3> QED
      BY <1>0, <2>1, <3>1, <3>2, ConcatProperties
  <2>2. CASE ~talk
    <3>1. msgs' = msgs
      <4>1. c.kind # "retry"
        <5>1. \A i \in DOMAIN msgs : msgs[i] \in Message
          BY <1>0, LenProperties
        <5> QED
          BY <5>1 DEF BeginNew, MayBegin, Retryable, Message
      <4> QED
        BY <2>2, <4>1 DEF BeginNew
    <3>2. c.kind = "review" => msgs' = msgs
      BY <2>2 DEF BeginNew
    <3> HIDE DEF reply
    <3> QED
      BY <1>0, <3>1, <3>2
  <2> QED
    BY <2>1, <2>2
<1>7. /\ call'[s] = n /\ \A t \in Slots : t # s => call'[t] = call[t]
      /\ reqs'[c.req] = q /\ \A r \in Reqs : r # c.req => reqs'[r] = reqs[r]
  BY <1>0, <1>5
<1>8. UNCHANGED <<proposals, reviews, acks>>
  BY DEF BeginNew
<1>9. RowTypes'
  <2>1. reqs' \in [Reqs -> Request]
    <3> HIDE DEF q
    <3> QED
      BY <1>0, <1>2, <1>5
  <2>2. /\ draft'.validP <= Len(proposals) /\ draft'.validR <= Len(reviews)
        /\ draft'.blockR <= Len(reviews)
    BY <1>0, <1>5, CallFields DEF Draft
  <2> HIDE DEF d
  <2> QED
    BY <1>3, <1>5, <1>6, <1>8, <2>1, <2>2 DEF Types, RowTypes
<1>10. ProcessTypes'
  <2> HIDE DEF n
  <2> QED
    BY <1>4, <1>5 DEF Types, ProcessTypes
<1>11. n.pc = "ask" /\ n.kind = c.kind /\ n.req = c.req
  BY <1>0 DEF Call
<1>12. CallKinds'
  <2> HIDE DEF n
  <2> QED
    BY <1>0, <1>7, <1>11 DEF Types, CallKinds, Kinds, Turns
<1>13. c.kind = "review" => draft.validP = c.about
  BY DEF BeginNew, MayBegin
<1>14. draft.status = "active" /\ draft.rev = c.rev /\ reqs[c.req] = NoReq
  BY DEF BeginNew, MayBegin
<1>15. /\ draft'.rev = draft.rev + 1 /\ draft'.content = content
       /\ draft'.blockR = draft.blockR /\ draft'.status = draft.status
       /\ draft'.validP = (IF c.kind = "review" THEN draft.validP ELSE 0)
       /\ draft'.validR = (IF c.kind = "review" THEN draft.validR ELSE 0)
  BY <1>0, <1>5 DEF Draft
<1>16. /\ n.begunRev = draft.rev + 1 /\ n.about = c.about /\ n.prop = c.prop
       /\ n.rev = c.rev
  BY <1>0 DEF Call
<1> QED
  BY <1>0, <1>6, <1>7, <1>8, <1>9, <1>10, <1>11, <1>12, <1>13, <1>14, <1>15, <1>16
  DEF Begun, Types, Turns

\* What a step leaves when it gives one request another state and one call another place.
Finished(s, st) ==
    /\ call[s].pc = "agent"
    /\ reqs' \in [Reqs -> Request]
    /\ \A q \in Reqs : /\ reqs'[q].kind = reqs[q].kind /\ reqs'[q].about = reqs[q].about
                       /\ reqs'[q].rev = reqs[q].rev /\ reqs'[q].content = reqs[q].content
    /\ \A q \in Reqs \ {call[s].req} : reqs'[q] = reqs[q]
    /\ reqs'[call[s].req].st = st
    /\ call' \in [Slots -> Call]
    /\ call'[s] = [call[s] EXCEPT !.pc = "releasing"]
    /\ \A t \in Slots \ {s} : call'[t] = call[t]

LEMMA FinishedType ==
    ASSUME Types, NEW s \in Slots, call[s].pc = "agent",
           NEW st \in {"sent", "failed"},
           reqs' = [reqs EXCEPT ![call[s].req].st = st],
           Go(s, "releasing")
    PROVE  Finished(s, st) /\ CallKinds'
<1>1. /\ call[s].req \in Reqs /\ call[s].kind \in Kinds
      /\ reqs \in [Reqs -> Request] /\ call \in [Slots -> Call]
  BY DEF Types, CallKinds, RowTypes, ProcessTypes
<1>2. "releasing" \in Pcs
  BY DEF Pcs
<1>3. /\ call' \in [Slots -> Call]
      /\ call'[s] = [call[s] EXCEPT !.pc = "releasing"]
      /\ \A t \in Slots \ {s} : call'[t] = call[t]
  BY <1>1, <1>2, GoType DEF Go
<1>4. /\ reqs'[call[s].req].st = st
      /\ \A q \in Reqs \ {call[s].req} : reqs'[q] = reqs[q]
      /\ reqs' \in [Reqs -> Request]
      /\ \A q \in Reqs : /\ reqs'[q].kind = reqs[q].kind /\ reqs'[q].about = reqs[q].about
                         /\ reqs'[q].rev = reqs[q].rev /\ reqs'[q].content = reqs[q].content
  <2>1. reqs[call[s].req] \in Request
    BY <1>1
  <2>2. reqs'[call[s].req].st = st
    BY <1>1, <2>1 DEF Request
  <2>3. [reqs[call[s].req] EXCEPT !.st = st] \in Request
    BY <2>1 DEF Request
  <2>4. /\ reqs'[call[s].req] = [reqs[call[s].req] EXCEPT !.st = st]
        /\ \A q \in Reqs \ {call[s].req} : reqs'[q] = reqs[q]
        /\ reqs' \in [Reqs -> Request]
    BY <1>1, <2>3
  <2>5. LET q == call[s].req
        IN  /\ reqs'[q].kind = reqs[q].kind /\ reqs'[q].about = reqs[q].about
            /\ reqs'[q].rev = reqs[q].rev /\ reqs'[q].content = reqs[q].content
    BY <2>1, <2>4 DEF Request
  <2> QED
    BY <2>2, <2>4, <2>5
<1>5. /\ call'[s].pc = "releasing" /\ call'[s].kind = call[s].kind
      /\ call'[s].req = call[s].req
  BY <1>1, <1>3 DEF Call
<1>6. CallKinds'
  BY <1>1, <1>3, <1>5 DEF Types, CallKinds
<1> QED
  BY <1>3, <1>4, <1>6 DEF Finished

\* The planner's answer is stored for the revision it was asked at.
TurnStored(s) ==
    /\ Finished(s, "sent")
    /\ UNCHANGED <<reviews, acks>>
    /\ MayFinish(s) /\ call[s].kind \in Turns
    /\ msgs' \in Seq(Message) /\ SameTalk(msgs, msgs')
    /\ draft'.rev = draft.rev + 1 /\ draft'.content = draft.content
    /\ draft'.validR = draft.validR /\ draft'.blockR = draft.blockR
    /\ draft'.status = draft.status
    /\ \/ draft'.validP = 0
       \/ /\ draft'.validP = Len(proposals) + 1
          /\ proposals'[draft'.validP].content = call[s].content
          /\ proposals'[draft'.validP].seen = call[s].seen

LEMMA FinishTurnType ==
    ASSUME Types, NEW s \in Slots, call[s].pc = "agent", NEW answer \in Answers,
           FinishTurn(s, answer),
           UNCHANGED <<owner, claims, runs, global, alive, home, files, reading>>
    PROVE  Types' /\ TurnStored(s)
<1> DEFINE c == call[s]
           made == answer = "proposal"
           p == [rev |-> draft.rev + 1, content |-> c.content, seen |-> c.seen]
           validP == IF made THEN Len(proposals) + 1 ELSE 0
           rev == draft.rev + 1
           d == [draft EXCEPT !.rev = rev, !.validP = validP]
<1>0. /\ c \in Call /\ c.content \in Nat /\ c.seen \in SUBSET Nat /\ draft.rev \in Nat
      /\ Len(proposals) \in Nat /\ draft \in Draft /\ draft.validR <= Len(reviews)
      /\ draft.blockR <= Len(reviews)
      /\ proposals \in Seq(Proposal) /\ msgs \in Seq(Message)
  BY CallFields DEF Types, RowTypes
<1>1. Finished(s, "sent") /\ CallKinds'
  BY FinishedType DEF FinishTurn
<1>2. msgs' \in Seq(Message) /\ SameTalk(msgs, msgs')
  <2>1. CASE msgs' = msgs
    BY <1>0, <2>1 DEF SameTalk
  <2>2. CASE msgs' = [msgs EXCEPT ![c.reply].st = "sent"]
    BY <1>0, <2>2, MessageSent
  <2> QED
    BY <2>1, <2>2 DEF FinishTurn
<1>3. rev \in Nat /\ validP \in Nat /\ p \in Proposal
  BY <1>0 DEF Proposal
<1>4. draft' = d
  BY DEF FinishTurn
<1>5. /\ draft'.rev = rev /\ draft'.content = draft.content /\ draft'.validR = draft.validR
      /\ draft'.blockR = draft.blockR /\ draft'.status = draft.status
      /\ draft'.validP = validP
  <2> HIDE DEF rev, validP
  <2> QED
    BY <1>0, <1>4 DEF Draft
<1>6. draft' \in Draft
  <2> HIDE DEF rev, validP
  <2> QED
    BY <1>0, <1>3, <1>4 DEF Draft
<1>7. /\ proposals' \in Seq(Proposal) /\ draft'.validP <= Len(proposals')
      /\ \/ draft'.validP = 0
         \/ /\ draft'.validP = Len(proposals) + 1
            /\ proposals'[draft'.validP].content = call[s].content
            /\ proposals'[draft'.validP].seen = call[s].seen
  <2>1. CASE made
    <3>1. proposals' = Append(proposals, p)
      BY <2>1 DEF FinishTurn
    <3>2. /\ proposals' \in Seq(Proposal) /\ Len(proposals') = Len(proposals) + 1
          /\ proposals'[Len(proposals) + 1] = p
      <4> HIDE DEF p
      <4> QED
        BY <1>0, <1>3, <3>1, Appended
    <3> QED
      BY <1>0, <1>5, <2>1, <3>2
  <2>2. CASE ~made
    BY <1>0, <1>5, <2>2 DEF FinishTurn
  <2> QED
    BY <2>1, <2>2
<1>8. RowTypes'
  BY <1>0, <1>1, <1>2, <1>5, <1>6, <1>7 DEF FinishTurn, Finished, Types, RowTypes
<1>9. ProcessTypes'
  BY <1>1 DEF Finished, Types, ProcessTypes
<1> QED
  BY <1>1, <1>2, <1>5, <1>7, <1>8, <1>9 DEF TurnStored, FinishTurn, Types

\* The reviewer's report is stored for the proposal and the content it was asked about.
ReviewStored(s, level) ==
    /\ Finished(s, "sent")
    /\ UNCHANGED <<msgs, proposals, acks>>
    /\ MayFinish(s) /\ call[s].kind = "review"
    /\ draft'.rev = draft.rev + 1 /\ draft'.content = draft.content
    /\ draft'.validP = draft.validP /\ draft'.status = draft.status
    /\ draft'.validR = Len(reviews) + 1
    /\ draft'.blockR = IF level = "grave" THEN Len(reviews) + 1
                       ELSE IF Lifts(call[s]) THEN 0 ELSE draft.blockR
    /\ Len(reviews') = Len(reviews) + 1
    /\ reviews'[Len(reviews) + 1].prop = call[s].prop
    /\ reviews'[Len(reviews) + 1].content = call[s].content
    /\ reviews'[Len(reviews) + 1].level = level
    /\ \A n \in 1..Len(reviews) : reviews'[n] = reviews[n]

LEMMA FinishReviewType ==
    ASSUME Types, NEW s \in Slots, call[s].pc = "agent", NEW level \in Levels,
           FinishReview(s, level),
           UNCHANGED <<owner, claims, runs, global, alive, home, files, reading>>
    PROVE  Types' /\ ReviewStored(s, level)
<1> DEFINE c == call[s]
           id == Len(reviews) + 1
           r == [prop |-> c.prop, content |-> c.content, level |-> level]
           rev == draft.rev + 1
           blockR == IF level = "grave" THEN id ELSE IF Lifts(c) THEN 0 ELSE draft.blockR
           d == [draft EXCEPT !.rev = rev, !.validR = id, !.blockR = blockR]
<1>0. /\ c \in Call /\ c.content \in Nat /\ c.prop \in Nat /\ draft.rev \in Nat
      /\ Len(reviews) \in Nat /\ draft \in Draft /\ draft.validP <= Len(proposals)
      /\ draft.blockR \in 0..Len(reviews)
      /\ reviews \in Seq(Review) /\ msgs \in Seq(Message)
      /\ acks \subseteq 1..Len(reviews)
  BY CallFields, LenProperties DEF Types, RowTypes
<1>1. Finished(s, "sent") /\ CallKinds'
  BY FinishedType DEF FinishReview
<1>2. /\ rev \in Nat /\ id \in Nat /\ blockR \in Nat /\ r \in Review
      /\ blockR <= Len(reviews) + 1
  BY <1>0 DEF Review
<1>3. draft' = d /\ reviews' = Append(reviews, r)
  BY DEF FinishReview
<1>4. /\ draft'.rev = rev /\ draft'.content = draft.content /\ draft'.validR = id
      /\ draft'.blockR = blockR /\ draft'.status = draft.status
      /\ draft'.validP = draft.validP
  <2> HIDE DEF rev, id, blockR
  <2> QED
    BY <1>0, <1>3 DEF Draft
<1>5. draft' \in Draft
  <2> HIDE DEF rev, id, blockR
  <2> QED
    BY <1>0, <1>2, <1>3 DEF Draft
<1>6. /\ reviews' \in Seq(Review) /\ Len(reviews') = Len(reviews) + 1
      /\ reviews'[Len(reviews) + 1] = r
      /\ \A n \in 1..Len(reviews) : reviews'[n] = reviews[n]
  <2> HIDE DEF r
  <2> QED
    BY <1>0, <1>2, <1>3, Appended
<1>7. acks' \subseteq DOMAIN reviews'
  <2>1. DOMAIN reviews' = 1..(Len(reviews) + 1)
    BY <1>6, LenProperties
  <2> QED
    BY <1>0, <2>1 DEF FinishReview
<1>8. RowTypes'
  <2> HIDE DEF blockR
  <2> QED
    BY <1>0, <1>1, <1>2, <1>4, <1>5, <1>6, <1>7 DEF FinishReview, Finished, Types, RowTypes
<1>9. ProcessTypes'
  BY <1>1 DEF Finished, Types, ProcessTypes
<1> QED
  BY <1>1, <1>4, <1>6, <1>8, <1>9 DEF ReviewStored, FinishReview, Types

\* The failure of a call whose request is still its own is recorded.
FailureStored(s) ==
    /\ Finished(s, "failed")
    /\ UNCHANGED <<msgs, proposals, reviews, acks>>
    /\ MayFinish(s)
    /\ draft'.rev = draft.rev + 1 /\ draft'.content = draft.content
    /\ draft'.validP \in {0, draft.validP} /\ draft'.validR = draft.validR
    /\ call[s].kind = "review" => draft'.validP = draft.validP
    /\ draft'.blockR = draft.blockR /\ draft'.status = draft.status

LEMMA FailType ==
    ASSUME Types, NEW s \in Slots, call[s].pc = "agent", Fail(s),
           UNCHANGED <<owner, claims, runs, global, alive, home, files, reading>>
    PROVE  Types' /\ \/ Quiet /\ Go(s, "releasing")
                     \/ FailureStored(s)
<1>0. /\ call[s] \in Call /\ draft.rev \in Nat /\ draft.validP \in 0..Len(proposals)
      /\ draft \in Draft /\ Len(proposals) \in Nat
      /\ call[s].kind \in Kinds \ {"approve"} /\ call[s].req \in Reqs
  BY CallFields DEF Types, RowTypes, CallKinds
<1>1. CASE ~MayFinish(s)
  <2> DEFINE c == [call[s] EXCEPT !.pc = "releasing"]
  <2>1. c \in Call /\ c.pc = "releasing" /\ c.kind = call[s].kind /\ c.req = call[s].req
    BY <1>0 DEF Call, Pcs
  <2>2. call' = [call EXCEPT ![s] = c]
    BY DEF Fail, Go, Types, ProcessTypes
  <2>3. UNCHANGED rows
    BY <1>1 DEF Fail, rows
  <2>4. Types' /\ Quiet
    <3> HIDE DEF c
    <3> QED
      BY <1>0, <2>1, <2>2, <2>3, MoveType DEF Types, ProcessTypes
  <2> QED
    BY <1>1, <2>4 DEF Fail
<1>2. CASE MayFinish(s)
  <2> DEFINE validP == IF call[s].kind = "review" THEN draft.validP ELSE 0
             rev == draft.rev + 1
  <2>1. Finished(s, "failed") /\ CallKinds'
    BY <1>2, FinishedType DEF Fail
  <2>2. rev \in Nat /\ validP \in Nat /\ validP \in {0, draft.validP}
    BY <1>0
  <2>3. draft' = [draft EXCEPT !.rev = rev, !.validP = validP]
    BY <1>2 DEF Fail
  <2>4. /\ draft'.rev = rev /\ draft'.content = draft.content /\ draft'.validR = draft.validR
        /\ draft'.blockR = draft.blockR /\ draft'.status = draft.status
        /\ draft'.validP = validP /\ draft' \in Draft
    <3> HIDE DEF rev, validP
    <3> QED
      BY <1>0, <2>2, <2>3 DEF Draft
  <2>5. RowTypes'
    <3> HIDE DEF rev, validP
    <3> QED
      BY <1>0, <2>1, <2>2, <2>4 DEF Fail, Finished, Types, RowTypes
  <2>6. ProcessTypes'
    BY <2>1 DEF Finished, Types, ProcessTypes
  <2> QED
    BY <1>2, <2>1, <2>2, <2>4, <2>5, <2>6 DEF FailureStored, Fail, Types
<1> QED
  BY <1>1, <1>2

\* The run is created from the draft, which is consumed.
RunCreated(s) ==
    /\ MayCreate(s) /\ call[s].pc = "create" /\ call[s].kind = "approve"
    /\ UNCHANGED <<msgs, reqs, proposals, reviews, acks>>
    /\ runs' = Append(runs, [prop |-> call[s].prop, mode |-> call[s].mode,
                             st |-> "running", owner |-> home[s], by |-> s])
    /\ draft' = [draft EXCEPT !.status = "consumed"]
    /\ owner' = None
    /\ files' = files \ {s}
    /\ Go(s, "execute")

LEMMA CreateRunType ==
    ASSUME Types, NEW s \in Slots, CreateRun(s)
    PROVE  /\ Types'
           /\ \/ RunCreated(s)
              \/ Quiet /\ Go(s, "releasing") /\ UNCHANGED <<owner, claims, runs, files>>
<1>0. /\ call[s] \in Call /\ home[s] \in Procs /\ call[s].pc = "create"
      /\ call[s].kind = "approve" /\ call[s].req \in Reqs
      /\ call \in [Slots -> Call]
      /\ draft \in Draft /\ runs \in Seq(CreatedRun)
  BY CallFields DEF Types, RowTypes, ProcessTypes, CallKinds, CreateRun
<1>1. CASE ~MayCreate(s)
  <2> DEFINE c == [call[s] EXCEPT !.pc = "releasing"]
  <2>1. c \in Call /\ c.pc = "releasing" /\ c.kind = call[s].kind /\ c.req = call[s].req
    BY <1>0 DEF Call, Pcs
  <2>2. call' = [call EXCEPT ![s] = c]
    BY <1>0, <1>1 DEF CreateRun, Go
  <2>3. Types' /\ Quiet
    <3> HIDE DEF c
    <3> QED
      BY <1>0, <1>1, <2>1, <2>2, MoveType DEF CreateRun, rows, Types, ProcessTypes, Kinds
  <2> QED
    BY <1>1, <2>3 DEF CreateRun
<1>2. CASE MayCreate(s)
  <2> DEFINE run == [prop |-> call[s].prop, mode |-> call[s].mode, st |-> "running",
                     owner |-> home[s], by |-> s]
  <2>1. run \in CreatedRun
    BY <1>0 DEF Call, CreatedRun
  <2>2. runs' \in Seq(CreatedRun)
    <3>1. runs' = Append(runs, run)
      BY <1>2 DEF CreateRun
    <3> HIDE DEF run
    <3> QED
      BY <1>0, <2>1, <3>1, Appended
  <2>3. draft' = [draft EXCEPT !.status = "consumed"]
    BY <1>2 DEF CreateRun
  <2>4. /\ draft' \in Draft /\ draft'.validP = draft.validP
        /\ draft'.validR = draft.validR /\ draft'.blockR = draft.blockR
    BY <1>0, <2>3 DEF Draft
  <2>5. RowTypes'
    BY <2>4 DEF CreateRun, Types, RowTypes
  <2>6. "execute" \in Pcs /\ Go(s, "execute")
    BY <1>2 DEF Pcs, CreateRun
  <2>7. /\ call' \in [Slots -> Call]
        /\ call'[s] = [call[s] EXCEPT !.pc = "execute"]
        /\ \A t \in Slots \ {s} : call'[t] = call[t]
    BY <1>0, <2>6, GoType DEF Go
  <2>8. CallKinds'
    <3>1. /\ call'[s].pc = "execute" /\ call'[s].kind = call[s].kind
          /\ call'[s].req = call[s].req
      BY <1>0, <2>7 DEF Call
    <3> QED
      BY <1>0, <2>7, <3>1 DEF Types, CallKinds, Kinds
  <2>9. ProcessTypes'
    BY <1>0, <1>2, <2>2, <2>7 DEF CreateRun, Types, ProcessTypes
  <2> QED
    BY <1>0, <1>2, <2>5, <2>8, <2>9 DEF CreateRun, RunCreated, Types
<1> QED
  BY <1>1, <1>2

\* The draft is changed by hand, or what nobody works on is interrupted.
Edited ==
    /\ Editable
    /\ UNCHANGED <<proposals, reviews, call, runs, alive, home, files>>
    /\ msgs' \in Seq(Message) /\ SameTalk(msgs, msgs')
    /\ acks \subseteq acks'
    /\ \A q \in Reqs : /\ reqs'[q].rev = reqs[q].rev /\ reqs'[q].kind = reqs[q].kind
                       /\ reqs'[q].about = reqs[q].about
                       /\ reqs'[q] = NoReq <=> reqs[q] = NoReq
    /\ draft'.rev = draft.rev + 1
    /\ draft'.blockR = draft.blockR /\ draft'.status = draft.status
    /\ \/ /\ draft'.content \in {draft.content, draft.content + 1}
          /\ draft'.validP = 0 /\ draft'.validR = 0
       \/ /\ draft'.content = draft.content
          /\ draft'.validP = draft.validP /\ draft'.validR \in {0, draft.validR}
    /\ UNCHANGED <<owner, claims>> \/ owner' = None

LEMMA EditType ==
    ASSUME Types, Edit
    PROVE  Types' /\ Edited
<1>0. /\ draft \in Draft /\ draft.rev \in Nat /\ draft.content \in Nat /\ draft.synth \in Nat
      /\ draft.validP \in 0..Len(proposals) /\ draft.validR \in 0..Len(reviews)
      /\ draft.blockR \in 0..Len(reviews) /\ draft.mode \in Modes
      /\ Len(proposals) \in Nat /\ Len(reviews) \in Nat
      /\ msgs \in Seq(Message) /\ reqs \in [Reqs -> Request]
      /\ acks \subseteq DOMAIN reviews
      /\ claims \in [Procs -> Slots \cup {None}]
  <2>1. Len(proposals) \in Nat /\ Len(reviews) \in Nat
    BY LenProperties DEF Types, RowTypes
  <2> QED
    BY <2>1 DEF Types, RowTypes, ProcessTypes, Draft
<1>1. UNCHANGED <<proposals, reviews, runs, global, alive, home, call, files, reading>>
      /\ Editable
  BY DEF Edit, UpdateSettings, UpdateSynthesis, Acknowledge, RecoverView
<1>2. PICK m \in Modes, synth \in Nat, content \in {draft.content, draft.content + 1},
           validP \in {0, draft.validP}, validR \in {0, draft.validR} :
        /\ draft' = [draft EXCEPT !.rev = draft.rev + 1, !.mode = m, !.synth = synth,
                       !.content = content, !.validP = validP, !.validR = validR]
        /\ \/ validP = 0 /\ validR = 0
           \/ content = draft.content /\ validP = draft.validP
  <2>1. CASE UpdateSettings
    <3>1. ASSUME NEW m \in Modes,
                 draft' = [draft EXCEPT !.rev = @ + 1, !.mode = m, !.validP = 0, !.validR = 0]
          PROVE  draft' = [draft EXCEPT !.rev = draft.rev + 1, !.mode = m, !.synth = draft.synth,
                             !.content = draft.content, !.validP = 0, !.validR = 0]
      BY <1>0, <3>1 DEF Draft
    <3>2. ASSUME draft' = [draft EXCEPT !.rev = @ + 1, !.validR = 0]
          PROVE  draft' = [draft EXCEPT !.rev = draft.rev + 1, !.mode = draft.mode,
                             !.synth = draft.synth, !.content = draft.content,
                             !.validP = draft.validP, !.validR = 0]
      BY <1>0, <3>2 DEF Draft
    <3>3. ASSUME draft' = [draft EXCEPT !.rev = @ + 1]
          PROVE  draft' = [draft EXCEPT !.rev = draft.rev + 1, !.mode = draft.mode,
                             !.synth = draft.synth, !.content = draft.content,
                             !.validP = draft.validP, !.validR = draft.validR]
      BY <1>0, <3>3 DEF Draft
    <3> QED
      BY <1>0, <2>1, <3>1, <3>2, <3>3 DEF UpdateSettings
  <2>2. CASE UpdateSynthesis
    <3>1. PICK changed \in BOOLEAN :
            draft' = [draft EXCEPT !.rev = @ + 1, !.synth = @ + 1,
                        !.content = IF changed THEN @ + 1 ELSE @, !.validP = 0, !.validR = 0]
      BY <2>2 DEF UpdateSynthesis
    <3> DEFINE new == IF changed THEN draft.content + 1 ELSE draft.content
    <3>2. draft' = [draft EXCEPT !.rev = draft.rev + 1, !.mode = draft.mode,
                      !.synth = draft.synth + 1, !.content = new, !.validP = 0, !.validR = 0]
      BY <1>0, <3>1 DEF Draft
    <3>3. new \in {draft.content, draft.content + 1} /\ draft.synth + 1 \in Nat
      BY <1>0
    <3> HIDE DEF new
    <3> QED
      BY <1>0, <3>2, <3>3
  <2>3. CASE draft' = [draft EXCEPT !.rev = @ + 1]
    <3>1. draft' = [draft EXCEPT !.rev = draft.rev + 1, !.mode = draft.mode,
                      !.synth = draft.synth, !.content = draft.content,
                      !.validP = draft.validP, !.validR = draft.validR]
      BY <1>0, <2>3 DEF Draft
    <3> QED
      BY <1>0, <3>1
  <2> QED
    BY <2>1, <2>2, <2>3 DEF Edit, Acknowledge, RecoverView
<1>3. /\ draft' \in Draft /\ draft'.rev = draft.rev + 1 /\ draft'.content = content
      /\ draft'.validP = validP /\ draft'.validR = validR
      /\ draft'.blockR = draft.blockR /\ draft'.status = draft.status
  <2>1. content \in Nat /\ validP \in Nat /\ validR \in Nat /\ draft.rev + 1 \in Nat
    BY <1>0
  <2> QED
    BY <1>0, <1>2, <2>1 DEF Draft
<1>4. /\ msgs' \in Seq(Message) /\ SameTalk(msgs, msgs')
      /\ acks \subseteq acks' /\ acks' \subseteq DOMAIN reviews
      /\ claims' \in [Procs -> Slots \cup {None}]
      /\ UNCHANGED <<owner, claims>> \/ owner' = None
  <2>1. CASE \E p \in alive : RecoverView(p)
    BY <1>0, <2>1, InterruptedTalk DEF RecoverView
  <2>2. CASE (UpdateSettings \/ UpdateSynthesis \/ Acknowledge) /\ UNCHANGED <<owner, claims>>
    BY <1>0, <2>2 DEF UpdateSettings, UpdateSynthesis, Acknowledge, SameTalk
  <2> QED
    BY <2>1, <2>2 DEF Edit
<1>5. /\ reqs' \in [Reqs -> Request]
      /\ \A q \in Reqs : /\ reqs'[q].rev = reqs[q].rev /\ reqs'[q].kind = reqs[q].kind
                         /\ reqs'[q].about = reqs[q].about
                         /\ reqs'[q] = NoReq <=> reqs[q] = NoReq
  <2>1. CASE \E p \in alive : RecoverView(p)
    <3>1. reqs' = [r \in Reqs |-> IF reqs[r].st = "pending"
                                  THEN [reqs[r] EXCEPT !.st = "failed"] ELSE reqs[r]]
      BY <2>1 DEF RecoverView
    <3>2. ASSUME NEW q \in Reqs
          PROVE  /\ reqs'[q] \in Request
                 /\ reqs'[q].rev = reqs[q].rev /\ reqs'[q].kind = reqs[q].kind
                 /\ reqs'[q].about = reqs[q].about
                 /\ reqs'[q] = NoReq <=> reqs[q] = NoReq
      <4>1. CASE reqs[q].st = "pending"
        <5>1. reqs[q] # NoReq
          BY <4>1, NoneAssumption DEF NoReq
        <5>2. reqs'[q] = [reqs[q] EXCEPT !.st = "failed"] /\ reqs[q] \in Request
          BY <1>0, <3>1, <4>1
        <5>3. /\ reqs'[q] \in Request /\ reqs'[q].st = "failed"
              /\ reqs'[q].rev = reqs[q].rev /\ reqs'[q].kind = reqs[q].kind
              /\ reqs'[q].about = reqs[q].about
          BY <5>2 DEF Request
        <5>4. reqs'[q] # NoReq
          BY <5>3, NoneAssumption DEF NoReq
        <5> QED
          BY <5>1, <5>3, <5>4
      <4>2. CASE reqs[q].st # "pending"
        BY <1>0, <3>1, <4>2
      <4> QED
        BY <4>1, <4>2
    <3>3. reqs' \in [Reqs -> Request]
      <4>1. DOMAIN reqs' = Reqs /\ reqs' = [r \in Reqs |-> reqs'[r]]
        BY <3>1
      <4> QED
        BY <3>2, <4>1
    <3> QED
      BY <3>2, <3>3
  <2>2. CASE (UpdateSettings \/ UpdateSynthesis \/ Acknowledge) /\ UNCHANGED <<owner, claims>>
    BY <1>0, <2>2 DEF UpdateSettings, UpdateSynthesis, Acknowledge
  <2> QED
    BY <2>1, <2>2 DEF Edit
<1>6. RowTypes'
  BY <1>0, <1>1, <1>2, <1>3, <1>4, <1>5 DEF Types, RowTypes
<1>7. ProcessTypes' /\ CallKinds'
  BY <1>1, <1>4 DEF Types, ProcessTypes, CallKinds
<1>8. \/ /\ draft'.content \in {draft.content, draft.content + 1}
         /\ draft'.validP = 0 /\ draft'.validR = 0
      \/ /\ draft'.content = draft.content
         /\ draft'.validP = draft.validP /\ draft'.validR \in {0, draft.validR}
  BY <1>2, <1>3
<1> QED
  BY <1>1, <1>3, <1>4, <1>5, <1>6, <1>7, <1>8 DEF Edited, Types

-----------------------------------------------------------------------------
(* Every step has one of these shapes, and keeps the types.                 *)

Shapes ==
    \/ Quiet
    \/ \E s \in Slots : \/ Begun(s) \/ TurnStored(s) \/ FailureStored(s)
                        \/ \E level \in Levels : ReviewStored(s, level)
                        \/ RunCreated(s)
    \/ Edited

LEMMA StepType ==
    ASSUME Types, NEW s \in Slots, Step(s)
    PROVE  Types' /\ Shapes
<1>1. CASE \/ Check(s) \/ Claim(s) \/ Release(s) \/ Write(s) \/ RemoveFiles(s) \/ Execute(s)
  BY <1>1, PlainType DEF Shapes
<1>2. CASE Begin(s)
  <2>1. CASE BeginNew(s)
    BY <1>2, <2>1, BeginNewType DEF Begin, Shapes
  <2>2. CASE BeginDuplicate(s) \/ BeginRefused(s)
    BY <1>2, <2>2, PlainType DEF Begin, Shapes
  <2> QED
    BY <1>2, <2>1, <2>2 DEF Begin
<1>3. CASE Ask(s)
  BY <1>3, AskType DEF Shapes
<1>4. CASE Finish(s)
  <2>1. ASSUME NEW answer \in Answers, FinishTurn(s, answer)
        PROVE  Types' /\ Shapes
    BY <1>4, <2>1, FinishTurnType DEF Finish, Shapes
  <2>2. ASSUME NEW level \in Levels, FinishReview(s, level)
        PROVE  Types' /\ Shapes
    BY <1>4, <2>2, FinishReviewType DEF Finish, Shapes
  <2>3. CASE Fail(s)
    BY <1>4, <2>3, FailType DEF Finish, Shapes
  <2> QED
    BY <1>4, <2>1, <2>2, <2>3 DEF Finish
<1>5. CASE CreateRun(s)
  BY <1>5, CreateRunType DEF Shapes
<1> QED
  BY <1>1, <1>2, <1>3, <1>4, <1>5 DEF Step

LEMMA NextType ==
    ASSUME Types, [Next]_vars
    PROVE  Types' /\ Shapes
<1>1. CASE SetGlobal \/ \E p \in Procs : Read(p) \/ ReadStarts(p) \/ ReadEnds(p) \/ Crash(p)
  BY <1>1, OutsideType DEF Shapes
<1>2. ASSUME NEW s \in Slots, NEW k \in Kinds, NEW r \in Reqs, Start(s, k, r)
      PROVE  Types' /\ Shapes
  BY <1>2, StartType DEF Shapes
<1>3. CASE \E s \in Slots : Step(s)
  BY <1>3, StepType
<1>4. CASE Edit
  BY <1>4, EditType DEF Shapes
<1>5. CASE UNCHANGED vars
  <2>1. Quiet
    BY <1>5 DEF vars, rows, Quiet, SameTalk, Types, RowTypes
  <2>2. ProcessTypes' /\ CallKinds'
    BY <1>5 DEF vars, Types, ProcessTypes, CallKinds
  <2> QED
    BY <2>1, <2>2, QuietType DEF Types, Shapes
<1> QED
  BY <1>1, <1>2, <1>3, <1>4, <1>5 DEF Next

LEMMA InitTypes ==
    ASSUME Init
    PROVE  Types
<1>1. /\ NewDraft \in Draft /\ NoReq \in Request /\ IdleCall \in Call
      /\ NewDraft.validP = 0 /\ NewDraft.validR = 0 /\ NewDraft.blockR = 0
  BY DEF NewDraft, Draft, Modes, NoReq, Request, IdleCall, Call, Pcs
<1>2. ProcessTypes /\ CallKinds
  <2>1. call \in [Slots -> Call]
    <3> HIDE DEF IdleCall
    <3> QED
      BY <1>1 DEF Init
  <2>2. IdleCall.pc = "idle"
    BY DEF IdleCall
  <2>3. CallKinds
    <3> HIDE DEF IdleCall
    <3> QED
      BY <2>2 DEF Init, CallKinds
  <2>4. runs \in Seq(CreatedRun)
    BY DEF Init
  <2> QED
    BY <2>1, <2>3, <2>4 DEF Init, ProcessTypes, Modes
<1>3. \A st \in {"pending", "sent"} : Talk(st) \in Seq(Message)
  BY DEF Talk, Message
<1>4. CASE Fresh
  <2>1. proposals \in Seq(Proposal) /\ reviews \in Seq(Review) /\ msgs \in Seq(Message)
        /\ Len(proposals) = 0 /\ Len(reviews) = 0
    BY <1>4, EmptySeq DEF Fresh
  <2>2. reqs \in [Reqs -> Request]
    <3> HIDE DEF NoReq
    <3> QED
      BY <1>1, <1>4 DEF Fresh
  <2> HIDE DEF NewDraft
  <2> QED
    BY <1>1, <1>2, <1>4, <2>1, <2>2 DEF Fresh, Init, Types, RowTypes
<1>5. CASE LeftOver
  <2>1. proposals \in Seq(Proposal) /\ reviews \in Seq(Review) /\ msgs \in Seq(Message)
        /\ Len(proposals) = 0 /\ Len(reviews) = 0
    BY <1>3, <1>5, EmptySeq DEF LeftOver
  <2>2. reqs \in [Reqs -> Request]
    <3> DEFINE begun == [kind |-> "reply", st |-> "pending", about |-> 0, user |-> 1,
                         reply |-> 2, rev |-> 6, content |-> 2]
    <3>1. begun \in Request
      BY DEF Request, Kinds, Turns
    <3>2. PICK q \in Reqs : reqs = [r \in Reqs |-> IF r # q THEN NoReq ELSE begun]
      BY <1>5 DEF LeftOver
    <3> HIDE DEF NoReq, begun
    <3> QED
      BY <1>1, <3>1, <3>2
  <2>3. /\ draft \in Draft /\ draft.validP = 0 /\ draft.validR = 0 /\ draft.blockR = 0
    BY <1>5 DEF LeftOver, NewDraft, Draft, Modes
  <2> QED
    BY <1>2, <2>1, <2>2, <2>3 DEF Init, Types, RowTypes
<1>6. CASE Reviewed
  <2>1. PICK level \in {"grave", "minor"} :
          /\ draft = [NewDraft EXCEPT !.rev = 5, !.content = 2, !.validP = 1, !.validR = 1,
                                    !.mode = IF level = "grave" THEN "human" ELSE "required-auto",
                                    !.blockR = IF level = "grave" THEN 1 ELSE 0]
          /\ reviews = <<[prop |-> 1, content |-> 2, level |-> level]>>
    BY <1>6 DEF Reviewed
  <2>2. /\ draft \in Draft /\ draft.validP = 1 /\ draft.validR = 1 /\ draft.blockR \in {0, 1}
    BY <2>1 DEF NewDraft, Draft, Modes
  <2>3. reviews \in Seq(Review) /\ Len(reviews) = 1
    BY <2>1 DEF Review, Levels
  <2>4. proposals \in Seq(Proposal) /\ Len(proposals) = 1
    BY <1>6 DEF Reviewed, Proposal
  <2>5. reqs \in [Reqs -> Request]
    <3> HIDE DEF NoReq
    <3> QED
      BY <1>1, <1>6 DEF Reviewed
  <2>6. msgs \in Seq(Message)
    BY <1>3, <1>6 DEF Reviewed
  <2> QED
    BY <1>2, <2>2, <2>3, <2>4, <2>5, <2>6 DEF Init, Types, RowTypes
<1> QED
  BY <1>4, <1>5, <1>6 DEF Init

LEMMA TypesInvariant == Spec => []Types
<1>1. Init => Types
  BY InitTypes
<1>2. Types /\ [Next]_vars => Types'
  BY NextType
<1> QED
  BY <1>1, <1>2, PTL DEF Spec

\* The types as the runs check them.
LEMMA TypesImplyTypeOK ==
    ASSUME Types
    PROVE  TypeOK
<1>1. Len(proposals) \in Nat /\ Len(reviews) \in Nat
  BY LenProperties DEF Types, RowTypes
<1>2. draft \in [rev : Nat, content : Nat, mode : Modes, synth : Nat, validP : 0..Len(proposals),
                 validR : 0..Len(reviews), blockR : 0..Len(reviews), status : {"active", "consumed"}]
  <2> DEFINE P == 0..Len(proposals)
             R == 0..Len(reviews)
  <2>1. draft.validP \in P /\ draft.validR \in R /\ draft.blockR \in R
    BY <1>1 DEF Types, RowTypes, Draft
  <2> HIDE DEF P, R
  <2>2. draft \in [rev : Nat, content : Nat, mode : Modes, synth : Nat, validP : P,
                   validR : R, blockR : R, status : {"active", "consumed"}]
    BY <2>1 DEF Types, RowTypes, Draft
  <2> QED
    BY <2>2 DEF P, R
<1>3. \A i \in DOMAIN msgs : msgs[i] \in Message
  BY LenProperties DEF Types, RowTypes
<1>4. \A r \in Reqs : reqs[r].st \in {None, "pending", "sent", "failed"}
  BY DEF Types, RowTypes, Request
<1> QED
  BY <1>2, <1>3, <1>4 DEF TypeOK, Message, Types, RowTypes, ProcessTypes

-----------------------------------------------------------------------------
(* Who owns the draft                                                       *)

\* Nobody lives as nobody.
LEMMA Nobody == ~Live(None)
BY DEF Live

\* The owner works on when the claim stands and the working calls go on.
LEMMA WorksOn ==
    ASSUME OwnerWorks, UNCHANGED <<owner, claims, home>>, alive' \subseteq alive,
           \A s \in Slots : Holds(s) /\ call[s].pc \in Working => call'[s].pc \in Working
    PROVE  OwnerWorks'
BY DEF OwnerWorks, Live, Holds

\* One call moves on while it works, or was not at work.
LEMMA WorksOnAfter ==
    ASSUME Types, OwnerWorks, UNCHANGED <<owner, claims, home, alive>>, NEW s \in Slots,
           \A t \in Slots \ {s} : call'[t] = call[t],
           call[s].pc \notin Working \/ call'[s].pc \in Working
    PROVE  OwnerWorks'
BY WorksOn

\* Reading the draft takes it from the dead only.
LEMMA RecoveredOwner ==
    ASSUME NEW p, Recover(p)
    PROVE  UNCHANGED <<owner, claims>> \/ owner' = None
BY DEF Recover

LEMMA OwnerWorksOutside ==
    ASSUME Types, OwnerWorks,
           \/ SetGlobal
           \/ \E p \in Procs : Read(p) \/ ReadStarts(p) \/ ReadEnds(p) \/ Crash(p)
    PROVE  OwnerWorks'
<1>1. CASE SetGlobal
  BY <1>1, WorksOn DEF SetGlobal
<1>2. ASSUME NEW p \in Procs, Read(p) \/ ReadStarts(p) \/ ReadEnds(p)
      PROVE  OwnerWorks'
  <2>1. UNCHANGED <<call, home, alive>>
    BY <1>2 DEF Read, ReadStarts, ReadEnds
  <2>2. UNCHANGED <<owner, claims>> \/ owner' = None
    BY <1>2, RecoveredOwner DEF Read, ReadStarts, ReadEnds
  <2>3. CASE UNCHANGED <<owner, claims>>
    BY <2>1, <2>3, WorksOn
  <2>4. CASE owner' = None
    BY <2>4 DEF OwnerWorks, Live
  <2> QED
    BY <2>2, <2>3, <2>4
<1>3. ASSUME NEW p \in Procs, Crash(p)
      PROVE  OwnerWorks'
  <2>1. SUFFICES ASSUME Live(owner)' PROVE OwnerWorks'
    BY DEF OwnerWorks
  <2>2. owner # None /\ owner.proc \in alive \ {p} /\ UNCHANGED <<owner, home>>
    BY <1>3, <2>1 DEF Crash, Live
  <2>3. PICK s \in Slots : /\ owner = [proc |-> home[s], token |-> s]
                           /\ claims[home[s]] = s
                           /\ call[s].pc \in Working
    BY <2>2 DEF OwnerWorks, Live
  <2>4. home[s] # p
    BY <2>2, <2>3
  <2>5. claims'[home[s]] = s /\ call'[s] = call[s]
    BY <1>3, <2>3, <2>4, CallFields DEF Crash, Types, ProcessTypes
  <2> QED
    BY <2>2, <2>3, <2>5 DEF OwnerWorks
<1> QED
  BY <1>1, <1>2, <1>3

\* Every way a call moves on and leaves the ownership alone.
LEMMA GoesOn ==
    ASSUME Types, OwnerWorks, NEW s \in Slots, NEW to \in Pcs, Go(s, to),
           call[s].pc \notin Working \/ to \in Working,
           UNCHANGED <<owner, claims, home, alive>>
    PROVE  OwnerWorks'
<1>1. /\ \A t \in Slots \ {s} : call'[t] = call[t]
      /\ call'[s] = [call[s] EXCEPT !.pc = to]
  BY GoType DEF Go, Types, ProcessTypes
<1>2. call'[s].pc = to
  BY <1>1, CallFields DEF Call
<1> QED
  BY <1>1, <1>2, WorksOnAfter

LEMMA OwnerWorksStep ==
    ASSUME Types, OwnerWorks, NEW s \in Slots, Step(s)
    PROVE  OwnerWorks'
<1>0. /\ call \in [Slots -> Call] /\ call[s] \in Call /\ home[s] \in Procs
      /\ claims \in [Procs -> Slots \cup {None}] /\ IdleCall.pc = "idle"
      /\ {"releasing", "write", "create", "mark", "execute", "begin"} \subseteq Pcs
  BY CallFields DEF Types, ProcessTypes, IdleCall, Pcs
<1>1. CASE Check(s)
  <2>1. \A t \in Slots \ {s} : call'[t] = call[t]
    BY <1>0, <1>1 DEF Check
  <2>2. call[s].pc \notin Working /\ UNCHANGED <<owner, claims, home, alive>>
    BY <1>1 DEF Check, Working
  <2> QED
    BY <2>1, <2>2, WorksOnAfter
<1>2. CASE Claim(s)
  <2>1. CASE Claimable(s)
    <3>1. /\ owner' = [proc |-> home[s], token |-> s] /\ home' = home
          /\ claims' = [claims EXCEPT ![home[s]] = s]
          /\ Go(s, IF call[s].kind = "approve" THEN "write" ELSE "begin")
      BY <1>2, <2>1 DEF Claim, Go
    <3>2. claims'[home[s]] = s
      BY <1>0, <3>1
    <3>3. call'[s].pc = IF call[s].kind = "approve" THEN "write" ELSE "begin"
      BY <1>0, <3>1 DEF Go, Call
    <3> QED
      BY <3>1, <3>2, <3>3 DEF OwnerWorks, Working
  <2>2. CASE ~Claimable(s)
    <3>1. UNCHANGED <<owner, claims, home, alive>> /\ call[s].pc \notin Working
          /\ \A t \in Slots \ {s} : call'[t] = call[t]
      BY <1>0, <1>2, <2>2 DEF Claim, Working
    <3> QED
      BY <3>1, WorksOnAfter
  <2> QED
    BY <2>1, <2>2
<1>3. CASE Begin(s)
  <2>1. call'[s].pc \in {"ask", "releasing"} /\ \A t \in Slots \ {s} : call'[t] = call[t]
    <3>1. CASE BeginNew(s)
      BY <1>3, <3>1, BeginNewType DEF Begin, Begun
    <3>2. CASE BeginDuplicate(s)
      BY <1>0, <3>2 DEF BeginDuplicate, Call
    <3>3. CASE BeginRefused(s)
      BY <1>0, <3>3 DEF BeginRefused, Go, Call
    <3> QED
      BY <1>3, <3>1, <3>2, <3>3 DEF Begin
  <2> QED
    BY <1>3, <2>1, WorksOnAfter DEF Begin, Working
<1>4. CASE Ask(s)
  <2>1. call'[s].pc = "agent" /\ \A t \in Slots \ {s} : call'[t] = call[t]
    <3> HIDE DEF Prompt
    <3> QED
      BY <1>0, <1>4 DEF Ask, Call
  <2>2. UNCHANGED <<owner, claims>> \/ owner' = None
    BY <1>4, RecoveredOwner DEF Ask
  <2>3. CASE owner' = None
    BY <2>3 DEF OwnerWorks, Live
  <2>4. CASE UNCHANGED <<owner, claims>>
    BY <1>4, <2>1, <2>4, WorksOnAfter DEF Ask, Working
  <2> QED
    BY <2>2, <2>3, <2>4
<1>5. CASE Finish(s)
  <2>1. Go(s, "releasing")
    BY <1>5 DEF Finish, FinishTurn, FinishReview, Fail
  <2> QED
    BY <1>0, <1>5, <2>1, GoesOn DEF Finish, Working
<1>6. CASE Release(s)
  <2>1. CASE Holds(s)
    BY <1>6, <2>1 DEF Release, OwnerWorks, Live
  <2>2. CASE ~Holds(s)
    <3>1. \A t \in Slots \ {s} : call'[t] = call[t]
      BY <1>0, <1>6 DEF Release
    <3> QED
      BY <1>6, <2>2, <3>1, WorksOn DEF Release
  <2> QED
    BY <2>1, <2>2
<1>7. CASE Write(s)
  <2>1. Go(s, "create") \/ Go(s, "releasing")
    BY <1>7 DEF Write
  <2> QED
    BY <1>0, <1>7, <2>1, GoesOn DEF Write, Working
<1>8. CASE CreateRun(s)
  <2>1. CASE MayCreate(s)
    BY <1>8, <2>1 DEF CreateRun, OwnerWorks, Live
  <2>2. CASE ~MayCreate(s)
    BY <1>0, <1>8, <2>2, GoesOn DEF CreateRun, Working
  <2> QED
    BY <2>1, <2>2
<1>9. CASE RemoveFiles(s) \/ Execute(s)
  <2>1. \A t \in Slots \ {s} : call'[t] = call[t]
    BY <1>0, <1>9 DEF RemoveFiles, Execute, Go
  <2>2. call[s].pc \notin Working /\ UNCHANGED <<owner, claims, home, alive>>
    BY <1>9 DEF RemoveFiles, Execute, Working
  <2> QED
    BY <2>1, <2>2, WorksOnAfter
<1> QED
  BY <1>1, <1>2, <1>3, <1>4, <1>5, <1>6, <1>7, <1>8, <1>9 DEF Step

LEMMA OwnerWorksKept ==
    ASSUME Types, OwnerWorks, [Next]_vars
    PROVE  OwnerWorks'
<1>1. CASE SetGlobal \/ \E p \in Procs : Read(p) \/ ReadStarts(p) \/ ReadEnds(p) \/ Crash(p)
  BY <1>1, OwnerWorksOutside
<1>2. ASSUME NEW s \in Slots, NEW k \in Kinds, NEW r \in Reqs, Start(s, k, r)
      PROVE  OwnerWorks'
  <2>1. UNCHANGED <<owner, claims>> \/ owner' = None
    BY <1>2, RecoveredOwner DEF Start
  <2>2. CASE owner' = None
    BY <2>2 DEF OwnerWorks, Live
  <2>3. CASE UNCHANGED <<owner, claims>>
    <3>1. \A t \in Slots \ {s} : call'[t] = call[t]
      BY <1>2 DEF Start, Types, ProcessTypes
    <3>2. call[s].pc \notin Working /\ UNCHANGED <<home, alive>>
      BY <1>2 DEF Start, Working
    <3> QED
      BY <2>3, <3>1, <3>2, WorksOnAfter
  <2> QED
    BY <2>1, <2>2, <2>3
<1>3. ASSUME NEW s \in Slots, Step(s)
      PROVE  OwnerWorks'
  BY <1>3, OwnerWorksStep
<1>4. CASE Edit
  <2>1. Edited
    BY <1>4, EditType
  <2>2. CASE owner' = None
    BY <2>2 DEF OwnerWorks, Live
  <2>3. CASE UNCHANGED <<owner, claims>>
    BY <2>1, <2>3, WorksOn DEF Edited
  <2> QED
    BY <2>1, <2>2, <2>3 DEF Edited
<1>5. CASE UNCHANGED vars
  BY <1>5, WorksOn DEF vars
<1> QED
  BY <1>1, <1>2, <1>3, <1>4, <1>5 DEF Next

\* A living process owns the draft only while a call of it works on it.
THEOREM OwnerIsWorking == Spec => []LiveOwnerIsWorking
<1>1. Init => OwnerWorks
  <2>1. SUFFICES ASSUME Init PROVE ~Live(owner)
    BY DEF OwnerWorks
  <2>2. None \notin alive
    BY <2>1, NoneAssumption DEF Init
  <2> QED
    BY <2>1, <2>2 DEF Init, Fresh, LeftOver, Reviewed, Live
<1>2. Types /\ OwnerWorks /\ [Next]_vars => OwnerWorks'
  BY OwnerWorksKept
<1>3. OwnerWorks => LiveOwnerIsWorking
  BY DEF OwnerWorks, LiveOwnerIsWorking, Working
<1> QED
  BY <1>1, <1>2, <1>3, TypesInvariant, PTL DEF Spec

-----------------------------------------------------------------------------
(* What a step does to a call                                               *)

Approving == {"claim", "write", "create"}

\* A call starts: it remembers the revision and the proposal it read.
Started(t) ==
    /\ call'[t].pc = IF call'[t].kind \in Turns THEN "claim" ELSE "check"
    /\ call'[t].rev = draft.rev
    /\ call'[t].kind = "review" => call'[t].prop = call'[t].about
    /\ call'[t].kind = "approve" => call'[t].prop # 0

\* A call finds its request on record.
Repeated(t) ==
    /\ UNCHANGED reqs
    /\ reqs[call[t].req] # NoReq
    /\ reqs[call[t].req].kind = call[t].kind /\ reqs[call[t].req].about = call[t].about
    /\ reqs[call[t].req].rev = call'[t].begunRev

\* A call goes on as what it is.
Continued(t) ==
    /\ call[t].pc # "idle"
    /\ call'[t].kind = call[t].kind /\ call'[t].req = call[t].req
    /\ call'[t].about = call[t].about /\ call'[t].prop = call[t].prop
    /\ call'[t].rev = call[t].rev
    /\ call'[t].pc \in {"ask", "agent"} =>
          \/ call[t].pc \in {"ask", "agent"} /\ call'[t].begunRev = call[t].begunRev
          \/ Begun(t)
          \/ Repeated(t)
    /\ call'[t].pc = "agent" =>
          \/ call[t].pc = "agent" /\ call'[t].seen = call[t].seen
          \/ call'[t].seen = Prompt /\ Quiet
    /\ call'[t].pc \in Approving /\ call[t].kind = "approve" =>
          call[t].pc \in Approving \/ Unopposed

CallStep(t) == call'[t].pc = "idle" \/ Started(t) \/ Continued(t)

\* A call that does nothing.
LEMMA Elsewhere ==
    ASSUME NEW t \in Slots, call'[t] = call[t]
    PROVE  CallStep(t)
BY DEF CallStep, Continued

\* A call that goes anywhere but to the agent.
LEMMA Gone ==
    ASSUME Types, NEW s \in Slots, call[s].pc # "idle",
           NEW to \in Pcs \ {"ask", "agent"}, Go(s, to),
           to \in Approving /\ call[s].kind = "approve" => call[s].pc \in Approving
    PROVE  \A t \in Slots : CallStep(t)
<1>1. /\ \A t \in Slots \ {s} : call'[t] = call[t]
      /\ call'[s] = [call[s] EXCEPT !.pc = to]
  BY GoType DEF Go, Types, ProcessTypes
<1>2. /\ call'[s].pc = to /\ call'[s].kind = call[s].kind /\ call'[s].req = call[s].req
      /\ call'[s].about = call[s].about /\ call'[s].prop = call[s].prop
      /\ call'[s].rev = call[s].rev
  BY <1>1, CallFields DEF Call
<1>3. CallStep(s)
  BY <1>2 DEF CallStep, Continued
<1> QED
  BY <1>1, <1>3, Elsewhere

\* A call that ends.
LEMMA Ended ==
    ASSUME Types, NEW s \in Slots, call' = [call EXCEPT ![s] = IdleCall]
    PROVE  \A t \in Slots : CallStep(t)
<1>1. call'[s].pc = "idle" /\ \A t \in Slots \ {s} : call'[t] = call[t]
  BY DEF IdleCall, Types, ProcessTypes
<1> QED
  BY <1>1, Elsewhere DEF CallStep

LEMMA StartStep ==
    ASSUME Types, NEW s \in Slots, NEW k \in Kinds, NEW r \in Reqs, Start(s, k, r)
    PROVE  \A t \in Slots : CallStep(t)
<1> DEFINE about == CASE k = "retry" -> Len(msgs) - 1
                      [] k = "review" -> draft.validP
                      [] OTHER -> 0
           c == [IdleCall EXCEPT !.pc = IF k \in Turns THEN "claim" ELSE "check",
                                 !.kind = k, !.req = r, !.rev = draft.rev,
                                 !.prop = draft.validP, !.about = about]
<1>1. call'[s] = c /\ \A t \in Slots \ {s} : call'[t] = call[t]
  BY DEF Start, Types, ProcessTypes
<1>2. /\ c.pc = (IF k \in Turns THEN "claim" ELSE "check")
      /\ c.kind = k /\ c.rev = draft.rev /\ c.prop = draft.validP /\ c.about = about
  <2> HIDE DEF about
  <2> QED
    BY DEF IdleCall
<1>3. k = "review" => about = draft.validP
  OBVIOUS
<1>4. k = "approve" => draft.validP # 0
  BY DEF Start, Turns
<1>5. Started(s)
  <2> HIDE DEF about, c
  <2> QED
    BY <1>1, <1>2, <1>3, <1>4 DEF Started
<1> QED
  BY <1>1, <1>5, Elsewhere DEF CallStep

LEMMA CheckStep ==
    ASSUME Types, NEW s \in Slots, Check(s)
    PROVE  \A t \in Slots : CallStep(t)
<1>0. /\ call[s] \in Call /\ call[s].pc = "check" /\ call \in [Slots -> Call]
      /\ EffectiveMode(draft.mode) \in Modes /\ draft.content \in Nat /\ draft.validR \in Nat
  BY CallFields DEF Check, Types, RowTypes, ProcessTypes, Draft, EffectiveMode, Modes
<1> DEFINE mode == EffectiveMode(draft.mode)
<1>1. CASE call[s].kind = "review"
  <2> DEFINE c == [call[s] EXCEPT !.pc = "claim", !.mode = mode]
  <2>1. call'[s] = c /\ \A t \in Slots \ {s} : call'[t] = call[t]
    BY <1>0, <1>1 DEF Check
  <2>2. /\ c.pc = "claim" /\ c.kind = call[s].kind /\ c.req = call[s].req
        /\ c.about = call[s].about /\ c.prop = call[s].prop /\ c.rev = call[s].rev
    <3> HIDE DEF mode
    <3> QED
      BY <1>0 DEF Call
  <2>3. Continued(s)
    <3> HIDE DEF c
    <3> QED
      BY <1>0, <1>1, <2>1, <2>2 DEF Continued
  <2> QED
    BY <2>1, <2>3, Elsewhere DEF CallStep
<1>2. CASE call[s].kind # "review" /\ Approvable(call[s])
  <2> DEFINE c == [call[s] EXCEPT !.pc = "claim", !.mode = mode,
                                  !.content = draft.content, !.review = draft.validR]
  <2>1. call'[s] = c /\ \A t \in Slots \ {s} : call'[t] = call[t]
    BY <1>0, <1>2 DEF Check
  <2>2. /\ c.pc = "claim" /\ c.kind = call[s].kind /\ c.req = call[s].req
        /\ c.about = call[s].about /\ c.prop = call[s].prop /\ c.rev = call[s].rev
    <3> HIDE DEF mode
    <3> QED
      BY <1>0 DEF Call
  <2>3. Unopposed
    BY <1>2 DEF Approvable, Unopposed
  <2>4. Continued(s)
    <3> HIDE DEF c
    <3> QED
      BY <1>0, <2>1, <2>2, <2>3 DEF Continued
  <2> QED
    BY <2>1, <2>4, Elsewhere DEF CallStep
<1>3. CASE call[s].kind # "review" /\ ~Approvable(call[s])
  <2>1. call' = [call EXCEPT ![s] = IdleCall]
    BY <1>0, <1>3 DEF Check
  <2> QED
    BY <2>1, Ended
<1> QED
  BY <1>1, <1>2, <1>3

LEMMA BeginStep ==
    ASSUME Types, NEW s \in Slots, Begin(s)
    PROVE  \A t \in Slots : CallStep(t)
<1>0. call[s] \in Call /\ call[s].pc = "begin" /\ call \in [Slots -> Call]
      /\ call[s].req \in Reqs /\ "releasing" \in Pcs
  BY DEF Begin, Types, ProcessTypes, CallKinds, Pcs
<1>1. CASE BeginNew(s)
  <2>1. Begun(s)
    BY <1>0, <1>1, BeginNewType DEF Begin
  <2>2. Continued(s)
    BY <1>0, <2>1 DEF Begun, Continued, Approving
  <2> QED
    BY <2>1, <2>2, Elsewhere DEF Begun, CallStep
<1>2. CASE BeginDuplicate(s)
  <2> DEFINE q == reqs[call[s].req]
             c == [call[s] EXCEPT !.pc = "ask", !.begun = TRUE, !.begunRev = q.rev,
                                  !.content = q.content, !.reply = q.reply]
  <2>1. call'[s] = c /\ \A t \in Slots \ {s} : call'[t] = call[t]
    BY <1>0, <1>2 DEF BeginDuplicate
  <2>2. /\ c.pc = "ask" /\ c.kind = call[s].kind /\ c.req = call[s].req
        /\ c.about = call[s].about /\ c.prop = call[s].prop /\ c.rev = call[s].rev
        /\ c.begunRev = q.rev
    <3> HIDE DEF q
    <3> QED
      BY <1>0 DEF Call
  <2>3. UNCHANGED reqs /\ q # NoReq /\ q.kind = call[s].kind /\ q.about = call[s].about
    BY <1>2 DEF BeginDuplicate, rows, SameInput, Input
  <2>4. Repeated(s)
    <3> HIDE DEF c
    <3> QED
      BY <2>1, <2>2, <2>3 DEF Repeated
  <2>5. Continued(s)
    <3> HIDE DEF c
    <3> QED
      BY <1>0, <2>1, <2>2, <2>4 DEF Continued, Approving
  <2> QED
    BY <2>1, <2>5, Elsewhere DEF CallStep
<1>3. CASE BeginRefused(s)
  BY <1>0, <1>3, Gone DEF BeginRefused, Approving
<1> QED
  BY <1>1, <1>2, <1>3 DEF Begin

LEMMA AskStep ==
    ASSUME Types, NEW s \in Slots, Ask(s)
    PROVE  \A t \in Slots : CallStep(t)
<1>0. call[s] \in Call /\ call[s].pc = "ask" /\ call \in [Slots -> Call] /\ Quiet
  BY AskType DEF Ask, Types, ProcessTypes
<1> DEFINE seen == Prompt
           c == [call[s] EXCEPT !.pc = "agent", !.seen = seen]
<1>1. call'[s] = c /\ \A t \in Slots \ {s} : call'[t] = call[t]
  BY <1>0 DEF Ask
<1>2. /\ c.pc = "agent" /\ c.kind = call[s].kind /\ c.req = call[s].req
      /\ c.about = call[s].about /\ c.prop = call[s].prop /\ c.rev = call[s].rev
      /\ c.begunRev = call[s].begunRev /\ c.seen = seen
  <2> HIDE DEF seen
  <2> QED
    BY <1>0 DEF Call
<1>3. Continued(s)
  <2> HIDE DEF c
  <2> QED
    BY <1>0, <1>1, <1>2 DEF Continued, Approving
<1> QED
  BY <1>1, <1>3, Elsewhere DEF CallStep

LEMMA CallSteps ==
    ASSUME Types, [Next]_vars
    PROVE  \A t \in Slots : CallStep(t)
<1>0. /\ call \in [Slots -> Call] /\ IdleCall.pc = "idle"
      /\ {"releasing", "removing", "write", "create", "begin", "execute", "mark"} \subseteq Pcs
  BY DEF Types, ProcessTypes, IdleCall, Pcs
<1>1. CASE UNCHANGED call
  BY <1>1, Elsewhere
<1>2. CASE SetGlobal \/ \E p \in Procs : Read(p) \/ ReadStarts(p) \/ ReadEnds(p)
  BY <1>1, <1>2 DEF SetGlobal, Read, ReadStarts, ReadEnds
<1>3. ASSUME NEW p \in Procs, Crash(p)
      PROVE  \A t \in Slots : CallStep(t)
  <2>1. \A t \in Slots : call'[t] = call[t] \/ call'[t] = IdleCall
    BY <1>3 DEF Crash
  <2> QED
    BY <1>0, <2>1, Elsewhere DEF CallStep
<1>4. CASE Edit
  BY <1>1, <1>4 DEF Edit
<1>5. ASSUME NEW s \in Slots, Step(s)
      PROVE  \A t \in Slots : CallStep(t)
  <2>1. CASE Claim(s)
    <3>1. CASE Claimable(s)
      BY <1>0, <2>1, <3>1, Gone DEF Claim, Go, Approving
    <3>2. CASE ~Claimable(s)
      BY <2>1, <3>2, Ended DEF Claim
    <3> QED
      BY <3>1, <3>2
  <2>2. CASE Finish(s)
    <3>1. Go(s, "releasing") /\ call[s].pc = "agent"
      BY <2>2 DEF Finish, FinishTurn, FinishReview, Fail
    <3> QED
      BY <1>0, <3>1, Gone DEF Approving
  <2>3. CASE Release(s)
    <3>1. CASE s \in files
      <4>1. Go(s, "removing") /\ call[s].pc = "releasing"
        BY <1>0, <2>3, <3>1 DEF Release, Go
      <4> QED
        BY <1>0, <4>1, Gone DEF Approving
    <3>2. CASE s \notin files
      <4>1. call' = [call EXCEPT ![s] = IdleCall]
        BY <1>0, <2>3, <3>2 DEF Release
      <4> QED
        BY <4>1, Ended
    <3> QED
      BY <3>1, <3>2
  <2>4. CASE Write(s)
    <3>1. (Go(s, "create") \/ Go(s, "releasing")) /\ call[s].pc = "write"
      BY <2>4 DEF Write
    <3> QED
      BY <1>0, <3>1, Gone DEF Approving
  <2>5. CASE CreateRun(s)
    <3>1. (Go(s, "execute") \/ Go(s, "releasing")) /\ call[s].pc = "create"
      BY <2>5 DEF CreateRun
    <3> QED
      BY <1>0, <3>1, Gone DEF Approving
  <2>6. CASE RemoveFiles(s)
    BY <2>6, Ended DEF RemoveFiles
  <2>7. CASE Execute(s)
    <3>1. \/ call' = [call EXCEPT ![s] = IdleCall]
          \/ Go(s, "mark") /\ call[s].pc = "execute"
      BY <2>7 DEF Execute
    <3> QED
      BY <1>0, <3>1, Ended, Gone DEF Approving
  <2> QED
    BY <1>5, <2>1, <2>2, <2>3, <2>4, <2>5, <2>6, <2>7, CheckStep, BeginStep, AskStep DEF Step
<1> QED
  BY <1>1, <1>2, <1>3, <1>4, <1>5, StartStep DEF Next, vars

-----------------------------------------------------------------------------
(* What calls and requests remember holds as long as the revision does      *)

RequestsStay ==
    \A q \in Reqs : /\ reqs'[q].kind = reqs[q].kind /\ reqs'[q].about = reqs[q].about
                    /\ reqs'[q].rev = reqs[q].rev
                    /\ reqs'[q] = NoReq <=> reqs[q] = NoReq

\* The draft changes under a new revision, or becomes a run as it is.
LEMMA DraftSteps ==
    ASSUME Types, Shapes
    PROVE  \/ Quiet
           \/ \E s \in Slots : Begun(s)
           \/ /\ draft.status = "active" /\ draft'.rev = draft.rev + 1
              /\ draft'.status = "active" /\ RequestsStay
           \/ \E s \in Slots : RunCreated(s)
<1>1. ASSUME NEW s \in Slots, NEW st \in {"sent", "failed"}, Finished(s, st), MayFinish(s)
      PROVE  RequestsStay /\ draft.status = "active"
  <2>1. call[s].req \in Reqs
    BY <1>1 DEF Finished, Types, CallKinds
  <2>2. reqs[call[s].req] # NoReq /\ reqs'[call[s].req] # NoReq
    BY <1>1, NoneAssumption DEF Finished, MayFinish, NoReq
  <2> QED
    BY <1>1, <2>1, <2>2 DEF Finished, RequestsStay, MayFinish
<1>2. CASE \E s \in Slots : TurnStored(s)
  BY <1>1, <1>2 DEF TurnStored
<1>3. CASE \E s \in Slots, level \in Levels : ReviewStored(s, level)
  BY <1>1, <1>3 DEF ReviewStored
<1>4. CASE \E s \in Slots : FailureStored(s)
  BY <1>1, <1>4 DEF FailureStored
<1>5. CASE Edited
  BY <1>5 DEF Edited, Editable, RequestsStay
<1> QED
  BY <1>2, <1>3, <1>4, <1>5 DEF Shapes

\* An approval leaves everything of the draft but its status.
LEMMA CreatedDraft ==
    ASSUME Types, NEW s \in Slots, RunCreated(s)
    PROVE  /\ draft'.rev = draft.rev /\ draft'.content = draft.content
           /\ draft'.validP = draft.validP /\ draft'.validR = draft.validR
           /\ draft'.blockR = draft.blockR /\ draft'.mode = draft.mode
           /\ draft'.status = "consumed"
BY DEF RunCreated, Types, RowTypes, Draft

LEMMA RequestsCurrentKept ==
    ASSUME Types, RequestsCurrent, [Next]_vars
    PROVE  RequestsCurrent'
<1>0. /\ draft.rev \in Nat /\ \A r \in Reqs : reqs[r].rev \in Nat
      /\ Shapes
  BY NextType DEF Types, RowTypes, Draft, Request
<1>1. CASE Quiet
  BY <1>1 DEF Quiet, RequestsCurrent
<1>2. ASSUME NEW s \in Slots, Begun(s)
      PROVE  RequestsCurrent'
  <2>1. ASSUME NEW r \in Reqs, reqs'[r] # NoReq, r # call[s].req
        PROVE  reqs'[r].rev <= draft'.rev /\ reqs'[r].rev # draft'.rev
    BY <1>0, <1>2, <2>1 DEF Begun, RequestsCurrent
  <2>2. /\ reqs'[call[s].req].rev = draft'.rev
        /\ reqs'[call[s].req].content = draft'.content
        /\ reqs'[call[s].req].kind \in Turns => draft'.validP = 0 /\ draft'.validR = 0
        /\ reqs'[call[s].req].kind = "review" => draft'.validP = reqs'[call[s].req].about
    BY <1>2 DEF Begun, Turns
  <2>3. draft'.rev <= draft'.rev
    BY <1>0, <1>2 DEF Begun
  <2> QED
    BY <2>1, <2>2, <2>3 DEF RequestsCurrent
<1>3. CASE draft'.rev = draft.rev + 1 /\ RequestsStay
  <2>1. ASSUME NEW r \in Reqs, reqs'[r] # NoReq
        PROVE  reqs'[r].rev <= draft'.rev /\ reqs'[r].rev # draft'.rev
    BY <1>0, <1>3, <2>1 DEF RequestsStay, RequestsCurrent
  <2> QED
    BY <2>1 DEF RequestsCurrent
<1>4. ASSUME NEW s \in Slots, RunCreated(s)
      PROVE  RequestsCurrent'
  <2>1. reqs' = reqs
    BY <1>4 DEF RunCreated
  <2> QED
    BY <1>4, <2>1, CreatedDraft DEF RequestsCurrent
<1> QED
  BY <1>0, <1>1, <1>2, <1>3, <1>4, DraftSteps

LEMMA CallsRememberKept ==
    ASSUME Types, CallsRemember, [Next]_vars
    PROVE  CallsRemember'
<1>1. draft'.rev = draft.rev \/ draft'.rev = draft.rev + 1
  BY NextType, DraftSteps, CreatedDraft DEF Quiet, Begun
<1>2. draft.rev \in Nat /\ \A s \in Slots : call[s].rev \in Nat
  BY CallFields DEF Types, RowTypes, Draft
<1>3. ASSUME NEW s \in Slots, call'[s].pc # "idle"
      PROVE  /\ call'[s].rev <= draft'.rev
             /\ call'[s].kind = "review" => call'[s].prop = call'[s].about
             /\ call'[s].kind = "approve" => call'[s].prop # 0
  <2>1. CASE Started(s)
    BY <1>1, <1>2, <2>1 DEF Started
  <2>2. CASE Continued(s)
    BY <1>1, <1>2, <2>2 DEF Continued, CallsRemember
  <2> QED
    BY <1>3, <2>1, <2>2, CallSteps DEF CallStep
<1> QED
  BY <1>3 DEF CallsRemember

LEMMA CallsRecordedKept ==
    ASSUME Types, CallsRecorded, [Next]_vars
    PROVE  CallsRecorded'
<1>1. ASSUME NEW s \in Slots, call'[s].pc \in {"ask", "agent"}
      PROVE  /\ reqs'[call'[s].req] # NoReq
             /\ reqs'[call'[s].req].kind = call'[s].kind
             /\ reqs'[call'[s].req].about = call'[s].about
             /\ reqs'[call'[s].req].rev = call'[s].begunRev
  <2>1. Continued(s)
    BY <1>1, CallSteps DEF CallStep, Started
  <2>2. CASE Begun(s)
    <3>1. reqs'[call[s].req] # NoReq
      BY <2>2, NoneAssumption DEF Begun, NoReq
    <3> QED
      BY <2>2, <3>1 DEF Begun
  <2>3. CASE Repeated(s)
    BY <2>1, <2>3 DEF Repeated, Continued
  <2>4. CASE call[s].pc \in {"ask", "agent"} /\ call'[s].begunRev = call[s].begunRev
    <3> DEFINE r == call[s].req
    <3>1. /\ r \in Reqs /\ reqs[r] # NoReq
          /\ reqs[r].kind = call[s].kind /\ reqs[r].about = call[s].about
          /\ reqs[r].rev = call[s].begunRev
      BY <2>4 DEF CallsRecorded, Types, CallKinds
    <3>2. /\ reqs'[r] # NoReq
          /\ reqs'[r].kind = reqs[r].kind /\ reqs'[r].about = reqs[r].about
          /\ reqs'[r].rev = reqs[r].rev
      <4>1. CASE Quiet \/ \E t \in Slots : RunCreated(t)
        BY <3>1, <4>1 DEF Quiet, RunCreated
      <4>2. CASE \E t \in Slots : Begun(t)
        BY <3>1, <4>2 DEF Begun
      <4>3. CASE RequestsStay
        BY <3>1, <4>3 DEF RequestsStay
      <4> QED
        BY <4>1, <4>2, <4>3, NextType, DraftSteps
    <3> QED
      BY <2>1, <2>4, <3>1, <3>2 DEF Continued
  <2> QED
    BY <1>1, <2>1, <2>2, <2>3, <2>4 DEF Continued
<1> QED
  BY <1>1 DEF CallsRecorded

\* A request is not newer than the draft.
LEMMA BegunBefore ==
    ASSUME Types, RequestsCurrent, CallsRecorded, NEW s \in Slots,
           call[s].pc \in {"ask", "agent"}
    PROVE  call[s].begunRev <= draft.rev
BY DEF Types, CallKinds, RequestsCurrent, CallsRecorded

LEMMA SeenIsAllKept ==
    ASSUME Types, RequestsCurrent, CallsRecorded, SeenIsAll, [Next]_vars
    PROVE  SeenIsAll'
<1>1. ASSUME NEW s \in Slots, call'[s].pc = "agent", draft'.rev = call'[s].begunRev
      PROVE  Knows(call[s].seen)'
  <2>0. msgs \in Seq(Message)
    BY DEF Types, RowTypes
  <2>1. Continued(s)
    BY <1>1, CallSteps DEF CallStep, Started
  <2>2. CASE call'[s].seen = Prompt /\ Quiet
    BY <2>0, <2>2, PromptKnows, KnownOfTalk DEF Quiet, Knows
  <2>3. CASE call[s].pc = "agent" /\ call'[s].seen = call[s].seen
    <3>1. call[s].begunRev \in Nat /\ draft.rev \in Nat /\ call[s].begunRev <= draft.rev
      BY <2>3, CallFields, BegunBefore
    <3>2. CASE call'[s].begunRev = call[s].begunRev
      <4>1. draft'.rev # draft.rev + 1
        BY <1>1, <3>1, <3>2
      <4>2. CASE Quiet
        <5>1. Knows(call[s].seen)
          BY <1>1, <2>3, <3>2, <4>2 DEF Quiet, SeenIsAll
        <5> QED
          BY <2>0, <2>3, <4>2, <5>1, KnownOfTalk DEF Quiet, Knows
      <4>3. ASSUME NEW t \in Slots, RunCreated(t)
            PROVE  Knows(call[s].seen)'
        <5>1. msgs' = msgs /\ draft'.rev = draft.rev
          BY <4>3, CreatedDraft DEF RunCreated
        <5> QED
          BY <1>1, <2>3, <3>2, <5>1 DEF SeenIsAll, Knows, Later
      <4> QED
        BY <4>1, <4>2, <4>3, NextType, DraftSteps DEF Begun
    <3>3. CASE Begun(s)
      BY <2>3, <3>3 DEF Begun
    <3>4. CASE Repeated(s)
      <4>1. call'[s].begunRev = call[s].begunRev
        BY <2>3, <3>4 DEF Repeated, CallsRecorded
      <4> QED
        BY <3>2, <4>1
    <3> QED
      BY <1>1, <2>1, <3>2, <3>3, <3>4 DEF Continued
  <2> QED
    BY <1>1, <2>1, <2>2, <2>3 DEF Continued
<1> QED
  BY <1>1 DEF SeenIsAll

LEMMA ApprovalsUnopposedKept ==
    ASSUME Types, CallsRemember, ApprovalsUnopposed, [Next]_vars
    PROVE  ApprovalsUnopposed'
<1>1. ASSUME NEW s \in Slots, call'[s].kind = "approve", call'[s].pc \in Approving,
             draft'.rev = call'[s].rev
      PROVE  Unopposed'
  <2>1. Continued(s) /\ call[s].kind = "approve" /\ call'[s].rev = call[s].rev
    BY <1>1, CallSteps DEF CallStep, Started, Approving, Turns, Continued
  <2>2. draft.rev \in Nat /\ call[s].rev \in Nat /\ call[s].rev <= draft.rev
    BY <2>1, CallFields DEF Continued, CallsRemember
  <2>3. draft'.rev # draft.rev + 1
    BY <1>1, <2>1, <2>2
  <2>4. Unopposed => Unopposed'
    <3>1. CASE Quiet
      BY <3>1 DEF Quiet, Unopposed
    <3>2. ASSUME NEW t \in Slots, RunCreated(t)
          PROVE  Unopposed => Unopposed'
      <4>1. UNCHANGED <<reviews, acks>>
        BY <3>2 DEF RunCreated
      <4> QED
        BY <3>2, <4>1, CreatedDraft DEF Unopposed
    <3> QED
      BY <2>3, <3>1, <3>2, NextType, DraftSteps DEF Begun
  <2>5. draft'.rev = draft.rev
    BY <2>3, NextType, DraftSteps, CreatedDraft DEF Begun, Quiet
  <2>6. Unopposed
    BY <1>1, <2>1, <2>5 DEF Continued, ApprovalsUnopposed, Approving
  <2> QED
    BY <2>4, <2>6
<1> QED
  BY <1>1 DEF ApprovalsUnopposed, Approving

Revisions == RequestsCurrent /\ CallsRecorded /\ CallsRemember /\ SeenIsAll /\ ApprovalsUnopposed

LEMMA RevisionsInvariant == Spec => []Revisions
<1>1. ASSUME Init PROVE Revisions
  <2>1. IdleCall.pc = "idle" /\ NoReq.rev = 0 /\ NewDraft.rev = 6 /\ NewDraft.validP = 0
        /\ NewDraft.validR = 0
    BY DEF IdleCall, NoReq, NewDraft
  <2>2. CallsRecorded /\ CallsRemember /\ SeenIsAll /\ ApprovalsUnopposed
    <3>1. \A s \in Slots : call[s].pc = "idle"
      BY <1>1, <2>1 DEF Init
    <3> QED
      BY <3>1 DEF CallsRecorded, CallsRemember, SeenIsAll, ApprovalsUnopposed
  <2>3. RequestsCurrent
    <3>1. CASE Fresh \/ Reviewed
      BY <3>1 DEF Fresh, Reviewed, RequestsCurrent
    <3>2. CASE LeftOver
      <4>1. draft.rev = 6 /\ draft.content = 2 /\ draft.validP = 0 /\ draft.validR = 0
        BY <3>2 DEF LeftOver, NewDraft
      <4>2. PICK q \in Reqs : reqs = [r \in Reqs |->
               IF r # q THEN NoReq
               ELSE [kind |-> "reply", st |-> "pending", about |-> 0, user |-> 1, reply |-> 2,
                     rev |-> 6, content |-> 2]]
        BY <3>2 DEF LeftOver
      <4>3. ASSUME NEW r \in Reqs, reqs[r] # NoReq
            PROVE  reqs[r].rev = 6 /\ reqs[r].content = 2 /\ reqs[r].kind = "reply"
        BY <4>2, <4>3
      <4> QED
        BY <4>1, <4>3 DEF RequestsCurrent
    <3> QED
      BY <1>1, <3>1, <3>2 DEF Init
  <2> QED
    BY <2>2, <2>3 DEF Revisions
<1>2. Types /\ Revisions /\ [Next]_vars => Revisions'
  BY RequestsCurrentKept, CallsRecordedKept, CallsRememberKept, SeenIsAllKept,
     ApprovalsUnopposedKept DEF Revisions
<1> QED
  BY <1>1, <1>2, TypesInvariant, PTL DEF Spec

-----------------------------------------------------------------------------
(* Proposals and reviews                                                    *)

\* What a call may finish is about the draft as it is.
LEMMA FinishesCurrent ==
    ASSUME Types, Revisions, NEW s \in Slots, call[s].pc = "agent", MayFinish(s)
    PROVE  /\ call[s].content = draft.content
           /\ Knows(call[s].seen)
           /\ call[s].kind \in Turns => draft.validP = 0 /\ draft.validR = 0
           /\ call[s].kind = "review" => draft.validP = call[s].prop
           /\ call[s].kind \in Turns \/ call[s].kind = "review"
<1> DEFINE q == reqs[call[s].req]
<1>1. call[s].req \in Reqs /\ call[s].kind \in Kinds \ {"approve"}
  BY DEF Types, CallKinds
<1>2. q # NoReq /\ q.kind = call[s].kind /\ q.about = call[s].about
  BY DEF Revisions, CallsRecorded
<1>3. q.rev = draft.rev /\ draft.rev = call[s].begunRev /\ q.content = call[s].content
  BY DEF MayFinish
<1>4. /\ q.content = draft.content
      /\ q.kind \in Turns => draft.validP = 0 /\ draft.validR = 0
      /\ q.kind = "review" => draft.validP = q.about
  BY <1>1, <1>2, <1>3 DEF Revisions, RequestsCurrent
<1>5. call[s].kind = "review" => call[s].prop = call[s].about
  BY DEF Revisions, CallsRemember
<1>6. Knows(call[s].seen)
  BY <1>3 DEF Revisions, SeenIsAll
<1> QED
  BY <1>1, <1>2, <1>3, <1>4, <1>5, <1>6 DEF Kinds

LEMMA ProposalKept ==
    ASSUME Types, Revisions, ProposalIsCurrent, Shapes
    PROVE  ProposalIsCurrent'
<1>0. /\ msgs \in Seq(Message) /\ proposals \in Seq(Proposal)
      /\ draft.validP \in 0..Len(proposals) /\ Len(proposals) \in Nat
  BY LenProperties DEF Types, RowTypes, Draft
<1>1. ASSUME NEW seen, Knows(seen), msgs' \in Seq(Message), SameTalk(msgs, msgs')
      PROVE  \A i \in DOMAIN msgs' :
               msgs'[i].role = "user" => i \in seen \/ Cardinality(Later(i)') >= PromptMessages
  BY <1>0, <1>1, KnownOfTalk
<1>2. CASE Quiet
  BY <1>1, <1>2 DEF Quiet, ProposalIsCurrent, Knows
<1>3. ASSUME NEW s \in Slots, Begun(s) PROVE ProposalIsCurrent'
  <2>1. CASE draft'.validP = 0
    BY <2>1 DEF ProposalIsCurrent
  <2>2. CASE draft'.validP = draft.validP /\ draft'.content = draft.content /\ msgs' = msgs
    BY <1>3, <2>2 DEF Begun, ProposalIsCurrent, Knows, Later
  <2> QED
    BY <1>3, <2>1, <2>2 DEF Begun
<1>4. ASSUME NEW s \in Slots, TurnStored(s) PROVE ProposalIsCurrent'
  <2>1. call[s].content = draft.content /\ Knows(call[s].seen)
    BY <1>4, FinishesCurrent DEF TurnStored, Finished
  <2> QED
    BY <1>1, <1>4, <2>1 DEF TurnStored, ProposalIsCurrent, Knows
<1>5. ASSUME NEW s \in Slots, NEW level \in Levels, ReviewStored(s, level)
      PROVE  ProposalIsCurrent'
  BY <1>5 DEF ReviewStored, ProposalIsCurrent, Knows, Later
<1>6. ASSUME NEW s \in Slots, FailureStored(s) PROVE ProposalIsCurrent'
  BY <1>6 DEF FailureStored, ProposalIsCurrent, Knows, Later
<1>7. ASSUME NEW s \in Slots, RunCreated(s) PROVE ProposalIsCurrent'
  <2>1. UNCHANGED <<proposals, msgs>>
    BY <1>7 DEF RunCreated
  <2> QED
    BY <1>7, <2>1, CreatedDraft DEF ProposalIsCurrent, Knows, Later
<1>8. CASE Edited
  BY <1>1, <1>8 DEF Edited, ProposalIsCurrent, Knows
<1> QED
  BY <1>2, <1>3, <1>4, <1>5, <1>6, <1>7, <1>8 DEF Shapes

LEMMA ReviewKept ==
    ASSUME Types, Revisions, ReviewIsOfProposal, Shapes
    PROVE  ReviewIsOfProposal'
<1>1. CASE Quiet
  BY <1>1 DEF Quiet, ReviewIsOfProposal
<1>2. ASSUME NEW s \in Slots, Begun(s) PROVE ReviewIsOfProposal'
  BY <1>2 DEF Begun, ReviewIsOfProposal
<1>3. ASSUME NEW s \in Slots, TurnStored(s) PROVE ReviewIsOfProposal'
  <2>1. draft.validR = 0
    BY <1>3, FinishesCurrent DEF TurnStored, Finished
  <2> QED
    BY <1>3, <2>1 DEF TurnStored, ReviewIsOfProposal
<1>4. ASSUME NEW s \in Slots, NEW level \in Levels, ReviewStored(s, level)
      PROVE  ReviewIsOfProposal'
  <2>1. call[s].content = draft.content /\ call[s].prop = draft.validP
    BY <1>4, FinishesCurrent DEF ReviewStored, Finished
  <2> QED
    BY <1>4, <2>1 DEF ReviewStored, ReviewIsOfProposal
<1>5. ASSUME NEW s \in Slots, FailureStored(s) PROVE ReviewIsOfProposal'
  <2>1. \/ draft.validR = 0
        \/ call[s].kind = "review"
    BY <1>5, FinishesCurrent DEF FailureStored, Finished
  <2> QED
    BY <1>5, <2>1 DEF FailureStored, ReviewIsOfProposal
<1>6. ASSUME NEW s \in Slots, RunCreated(s) PROVE ReviewIsOfProposal'
  <2>1. reviews' = reviews
    BY <1>6 DEF RunCreated
  <2> QED
    BY <1>6, <2>1, CreatedDraft DEF ReviewIsOfProposal
<1>7. CASE Edited
  BY <1>7 DEF Edited, ReviewIsOfProposal
<1> QED
  BY <1>1, <1>2, <1>3, <1>4, <1>5, <1>6, <1>7 DEF Shapes

\* Reports stay as they are, the block too, but for a report that comes in.
LEMMA ReportsStay ==
    ASSUME Types, Shapes,
           \A s \in Slots, level \in Levels : ~ReviewStored(s, level)
    PROVE  /\ reviews' = reviews /\ draft'.blockR = draft.blockR
           /\ draft'.content \in {draft.content, draft.content + 1}
<1>1. CASE Quiet
  BY <1>1 DEF Quiet
<1>2. CASE \E s \in Slots : Begun(s) \/ TurnStored(s) \/ FailureStored(s)
  BY <1>2 DEF Begun, TurnStored, FailureStored
<1>3. CASE \E s \in Slots : RunCreated(s)
  BY <1>3, CreatedDraft DEF RunCreated
<1>4. CASE Edited
  BY <1>4 DEF Edited
<1> QED
  BY <1>1, <1>2, <1>3, <1>4 DEF Shapes

LEMMA BlockKept ==
    ASSUME Types, Revisions, ReviewsNotAhead, BlockIsNewest, Shapes
    PROVE  ReviewsNotAhead' /\ BlockIsNewest'
<1>0. /\ Len(reviews) \in Nat /\ draft.content \in Nat
      /\ draft.blockR \in 0..Len(reviews)
      /\ \A n \in 1..Len(reviews) : reviews[n].content \in Nat
  <2>1. Len(reviews) \in Nat /\ \A n \in 1..Len(reviews) : reviews[n] \in Review
    BY LenProperties DEF Types, RowTypes
  <2> QED
    BY <2>1 DEF Types, RowTypes, Draft, Review
<1>1. CASE \A s \in Slots, level \in Levels : ~ReviewStored(s, level)
  <2>1. /\ reviews' = reviews /\ draft'.blockR = draft.blockR
        /\ draft'.content \in {draft.content, draft.content + 1}
    BY <1>1, ReportsStay
  <2>2. ReviewsNotAhead'
    BY <1>0, <2>1 DEF ReviewsNotAhead
  <2>3. BlockIsNewest'
    BY <2>1 DEF BlockIsNewest, Answered
  <2> QED
    BY <2>2, <2>3
<1>2. ASSUME NEW s \in Slots, NEW level \in Levels, ReviewStored(s, level)
      PROVE  ReviewsNotAhead' /\ BlockIsNewest'
  <2> DEFINE id == Len(reviews) + 1
  <2>1. /\ Len(reviews') = id /\ id \in Nat /\ id \in 1..id
        /\ \A n \in 1..id : n # id => n \in 1..Len(reviews)
        /\ \A n \in 1..Len(reviews) : reviews'[n] = reviews[n]
        /\ reviews'[id].content = draft.content /\ reviews'[id].level = level
        /\ draft'.content = draft.content
    BY <1>0, <1>2, FinishesCurrent DEF ReviewStored, Finished
  <2>2. ReviewsNotAhead'
    BY <1>0, <2>1 DEF ReviewsNotAhead
  <2>3. ASSUME NEW r \in 1..id, reviews'[r].level = "grave"
        PROVE  \/ \E n \in 1..id : /\ n > r /\ reviews'[n].level # "grave"
                                   /\ reviews'[n].content > reviews'[r].content
               \/ /\ draft'.blockR # 0
                  /\ reviews'[r].content <= reviews'[draft'.blockR].content
    <3>0. reviews'[r].content \in Nat /\ reviews'[r].content <= draft.content
      BY <1>0, <2>1 DEF ReviewsNotAhead
    <3>1. CASE level = "grave"
      <4>1. draft'.blockR = id
        BY <1>2, <3>1 DEF ReviewStored
      <4> QED
        BY <2>1, <3>0, <4>1
    <3>2. CASE level # "grave"
      <4>1. r \in 1..Len(reviews) /\ reviews[r].level = "grave" /\ id > r
        BY <1>0, <2>1, <2>3, <3>2
      <4>2. CASE Answered(r)
        <5>1. PICK n \in 1..Len(reviews) : n > r /\ reviews[n].level # "grave"
                                           /\ reviews[n].content > reviews[r].content
          BY <4>2 DEF Answered
        <5>2. n \in 1..id /\ reviews'[n] = reviews[n] /\ reviews'[r] = reviews[r]
          BY <1>0, <2>1, <4>1
        <5> QED
          BY <5>1, <5>2
      <4>3. CASE draft.blockR # 0 /\ reviews[r].content <= reviews[draft.blockR].content
        <5>1. draft.blockR \in 1..Len(reviews)
          BY <1>0, <4>3
        <5>2. CASE Lifts(call[s])
          <6>1. draft.content > reviews[draft.blockR].content
            BY <1>2, <5>2, FinishesCurrent DEF Lifts, ReviewStored, Finished
          <6>2. reviews'[id].content > reviews'[r].content
            BY <1>0, <2>1, <4>1, <4>3, <5>1, <6>1
          <6> QED
            BY <2>1, <3>2, <4>1, <6>2
        <5>3. CASE ~Lifts(call[s])
          <6>1. draft'.blockR = draft.blockR
            BY <1>2, <3>2, <5>3 DEF ReviewStored
          <6> QED
            BY <2>1, <4>1, <4>3, <5>1, <6>1
        <5> QED
          BY <5>2, <5>3
      <4> QED
        BY <4>1, <4>2, <4>3 DEF BlockIsNewest
    <3> QED
      BY <3>1, <3>2
  <2>4. BlockIsNewest'
    BY <2>1, <2>3 DEF BlockIsNewest, Answered
  <2> QED
    BY <2>2, <2>4
<1> QED
  BY <1>1, <1>2

-----------------------------------------------------------------------------
(* The files of approvals                                                   *)

Holding == {"create", "releasing", "removing"}

\* The calls that hold files go on holding them.
LEMMA FilesHeld ==
    ASSUME NoOrphanFiles, files' \subseteq files, alive' \subseteq alive, home' = home,
           \A s \in files' : home[s] \in alive' /\ call[s].pc \in Holding => call'[s].pc \in Holding
    PROVE  NoOrphanFiles'
BY DEF NoOrphanFiles, Holding

\* The only call that moves holds no file, or goes on holding it.
LEMMA FilesHeldAfter ==
    ASSUME Types, NoOrphanFiles, UNCHANGED <<files, home, alive>>, NEW s \in Slots,
           \A t \in Slots \ {s} : call'[t] = call[t],
           call[s].pc \notin Holding \/ call'[s].pc \in Holding
    PROVE  NoOrphanFiles'
<1>1. files \subseteq Slots
  BY DEF Types, ProcessTypes
<1> QED
  BY <1>1, FilesHeld

LEMMA NoOrphanFilesKept ==
    ASSUME Types, NoOrphanFiles, [Next]_vars
    PROVE  NoOrphanFiles'
<1>0. /\ call \in [Slots -> Call] /\ IdleCall.pc = "idle" /\ files \subseteq Slots
      /\ {"releasing", "removing", "write", "create", "begin", "execute", "mark"} \subseteq Pcs
  BY DEF Types, ProcessTypes, IdleCall, Pcs
<1>1. CASE UNCHANGED <<call, files, home>> /\ alive' \subseteq alive
  BY <1>1, FilesHeld
<1>2. ASSUME NEW s \in Slots, NEW k \in Kinds, NEW r \in Reqs, Start(s, k, r)
      PROVE  NoOrphanFiles'
  <2>1. \A t \in Slots \ {s} : call'[t] = call[t]
    BY <1>0, <1>2 DEF Start
  <2> QED
    BY <1>2, <2>1, FilesHeldAfter DEF Start, Holding
<1>3. ASSUME NEW p \in Procs, Crash(p)
      PROVE  NoOrphanFiles'
  <2>1. \A s \in files : home[s] \in alive' => call'[s] = call[s]
    BY <1>0, <1>3 DEF Crash
  <2> QED
    BY <1>3, <2>1, FilesHeld DEF Crash
<1>4. ASSUME NEW s \in Slots, Step(s)
      PROVE  NoOrphanFiles'
  <2>1. \A t \in Slots \ {s} : call'[t] = call[t]
    <3>1. CASE Begin(s)
      <4>1. CASE BeginNew(s)
        BY <3>1, <4>1, BeginNewType DEF Begin, Begun
      <4>2. CASE BeginDuplicate(s) \/ BeginRefused(s)
        BY <1>0, <4>2 DEF BeginDuplicate, BeginRefused, Go
      <4> QED
        BY <3>1, <4>1, <4>2 DEF Begin
    <3>2. CASE Finish(s)
      <4>1. Go(s, "releasing")
        BY <3>2 DEF Finish, FinishTurn, FinishReview, Fail
      <4> QED
        BY <1>0, <4>1 DEF Go
    <3>3. CASE \/ Check(s) \/ Claim(s) \/ Ask(s) \/ Release(s) \/ Write(s) \/ CreateRun(s)
               \/ RemoveFiles(s) \/ Execute(s)
      BY <1>0, <3>3 DEF Check, Claim, Ask, Release, Write, CreateRun, RemoveFiles, Execute, Go
    <3> QED
      BY <1>4, <3>1, <3>2, <3>3 DEF Step
  <2>2. home' = home /\ alive' = alive /\ call[s] \in Call
    BY <1>0, <1>4 DEF Step, Check, Claim, Begin, Ask, Finish, Release, Write, CreateRun,
                      RemoveFiles, Execute
  <2>3. CASE Check(s) \/ Claim(s) \/ Begin(s) \/ Ask(s) \/ Finish(s) \/ Execute(s)
    <3>1. files' = files /\ call[s].pc \notin Holding
      BY <2>3 DEF Check, Claim, Begin, Ask, Finish, Execute, Holding
    <3> QED
      BY <2>1, <2>2, <3>1, FilesHeldAfter
  <2>4. CASE Release(s)
    <3>1. files' = files /\ (s \in files => call'[s].pc = "removing")
      BY <1>0, <2>2, <2>4 DEF Release, Call
    <3>2. \A t \in files' : call[t].pc \in Holding => call'[t].pc \in Holding
      BY <1>0, <2>1, <3>1 DEF Holding
    <3> QED
      BY <2>2, <3>1, <3>2, FilesHeld
  <2>5. CASE Write(s)
    <3>1. files' = files \cup {s} /\ call'[s].pc \in Holding
      BY <1>0, <2>2, <2>5 DEF Write, Go, Holding, Call
    <3> QED
      BY <1>0, <2>1, <2>2, <3>1 DEF NoOrphanFiles, Holding
  <2>6. CASE CreateRun(s)
    <3>1. \/ files' = files \ {s}
          \/ files' = files /\ call'[s].pc \in Holding
      BY <1>0, <2>2, <2>6 DEF CreateRun, Go, Holding, Call
    <3>2. \A t \in files' : call[t].pc \in Holding => call'[t].pc \in Holding
      BY <1>0, <2>1, <3>1
    <3> QED
      BY <2>2, <3>1, <3>2, FilesHeld
  <2>7. CASE RemoveFiles(s)
    <3>1. files' = files \ {s}
      BY <2>7 DEF RemoveFiles
    <3> QED
      BY <1>0, <2>1, <2>2, <3>1, FilesHeld
  <2> QED
    BY <1>4, <2>3, <2>4, <2>5, <2>6, <2>7 DEF Step
<1>5. CASE UNCHANGED vars \/ Edit \/ SetGlobal
           \/ \E p \in Procs : Read(p) \/ ReadStarts(p) \/ ReadEnds(p)
  BY <1>1, <1>5 DEF vars, Edit, SetGlobal, Read, ReadStarts, ReadEnds
<1> QED
  BY <1>2, <1>3, <1>4, <1>5 DEF Next

-----------------------------------------------------------------------------
(* The invariants as the runs check them                                    *)

DraftSound ==
    /\ ProposalIsCurrent /\ ReviewIsOfProposal
    /\ ReviewsNotAhead /\ BlockIsNewest
    /\ NoOrphanFiles

LEMMA InitDraftSound ==
    ASSUME Init
    PROVE  DraftSound
<1>1. NoOrphanFiles
  BY DEF Init, NoOrphanFiles
<1>2. CASE Fresh \/ LeftOver
  <2>1. draft.validP = 0 /\ draft.validR = 0 /\ Len(reviews) = 0
    BY <1>2, EmptySeq DEF Fresh, LeftOver, NewDraft
  <2> QED
    BY <1>1, <2>1 DEF DraftSound, ProposalIsCurrent, ReviewIsOfProposal, ReviewsNotAhead,
                      BlockIsNewest
<1>3. CASE Reviewed
  <2>1. PICK level \in {"grave", "minor"} :
          /\ draft = [NewDraft EXCEPT !.rev = 5, !.content = 2, !.validP = 1, !.validR = 1,
                                    !.mode = IF level = "grave" THEN "human" ELSE "required-auto",
                                    !.blockR = IF level = "grave" THEN 1 ELSE 0]
          /\ reviews = <<[prop |-> 1, content |-> 2, level |-> level]>>
    BY <1>3 DEF Reviewed
  <2>2. /\ draft.content = 2 /\ draft.validP = 1 /\ draft.validR = 1
        /\ draft.blockR = IF level = "grave" THEN 1 ELSE 0
    BY <2>1 DEF NewDraft
  <2>3. Len(reviews) = 1 /\ reviews[1].prop = 1 /\ reviews[1].content = 2
        /\ reviews[1].level = level
    BY <2>1
  <2>4. proposals[1].content = 2 /\ proposals[1].seen = {1}
    BY <1>3 DEF Reviewed
  <2>5. Knows({1})
    <3>1. DOMAIN msgs = 1..2 /\ msgs[1].role = "user" /\ msgs[2].role = "assistant"
      BY <1>3 DEF Reviewed, Talk
    <3> QED
      BY <3>1 DEF Knows
  <2> QED
    BY <1>1, <2>2, <2>3, <2>4, <2>5
    DEF DraftSound, ProposalIsCurrent, ReviewIsOfProposal, ReviewsNotAhead, BlockIsNewest
<1> QED
  BY <1>2, <1>3 DEF Init

LEMMA DraftSoundInvariant == Spec => []DraftSound
<1>1. Init => DraftSound
  BY InitDraftSound
<1>2. Types /\ Revisions /\ DraftSound /\ [Next]_vars => DraftSound'
  BY NextType, ProposalKept, ReviewKept, BlockKept, NoOrphanFilesKept DEF DraftSound
<1> QED
  BY <1>1, <1>2, TypesInvariant, RevisionsInvariant, PTL DEF Spec

\* What is offered and reviewed is the draft as it is, grave findings stand until they
\* are answered, and neither files nor ownership outlive the call that needs them.
THEOREM Invariant == Spec => []Inv
<1>1. Types /\ BlockIsNewest => GraveStands
  <2>1. SUFFICES ASSUME Types, BlockIsNewest, NEW r \in DOMAIN reviews,
                        reviews[r].level = "grave", draft.blockR = 0
                 PROVE  \E n \in DOMAIN reviews : /\ n > r /\ reviews[n].level # "grave"
                                                  /\ reviews[n].content > reviews[r].content
    BY DEF GraveStands
  <2>2. DOMAIN reviews = 1..Len(reviews)
    BY <2>1, LenProperties DEF Types, RowTypes
  <2> QED
    BY <2>1, <2>2 DEF BlockIsNewest, Answered
<1>2. Types => TypeOK
  BY TypesImplyTypeOK
<1>3. Types /\ DraftSound /\ LiveOwnerIsWorking => Inv
  BY <1>1, <1>2 DEF Inv, DraftSound
<1> QED
  BY <1>3, TypesInvariant, DraftSoundInvariant, OwnerIsWorking, PTL

-----------------------------------------------------------------------------
(* The approval                                                             *)

\* Executing a run changes neither its number nor what was approved.
RunsKept ==
    /\ runs' \in Seq(CreatedRun) /\ Len(runs') = Len(runs)
    /\ \A i \in 1..Len(runs) : runs'[i].prop = runs[i].prop /\ runs'[i].mode = runs[i].mode

LEMMA RunsMove ==
    ASSUME Types, [Next]_vars
    PROVE  RunsKept \/ \E s \in Slots : RunCreated(s)
<1>0. runs \in Seq(CreatedRun) /\ Len(runs) \in Nat /\ DOMAIN runs = 1..Len(runs)
  BY LenProperties DEF Types, ProcessTypes
<1>1. ASSUME runs' = runs
      PROVE  RunsKept
  BY <1>0, <1>1 DEF RunsKept
<1>2. ASSUME NEW s \in Slots, Execute(s)
      PROVE  RunsKept
  <2> DEFINE i == RunOf(s)
  <2>1. CASE i \in 1..Len(runs)
    <3>1. runs[i] \in CreatedRun
      BY <1>0, <2>1
    <3>2. PICK r \in CreatedRun : /\ runs' = [runs EXCEPT ![i] = r]
                                  /\ r.prop = runs[i].prop /\ r.mode = runs[i].mode
      <4>1. ASSUME NEW st \in {"ended", "interrupted"}
            PROVE  LET r == [runs[i] EXCEPT !.st = st]
                   IN  r \in CreatedRun /\ r.prop = runs[i].prop /\ r.mode = runs[i].mode
        BY <3>1 DEF CreatedRun
      <4>2. LET r == [runs[i] EXCEPT !.owner = None]
            IN  r \in CreatedRun /\ r.prop = runs[i].prop /\ r.mode = runs[i].mode
        BY <3>1 DEF CreatedRun
      <4>3. LET r == [runs[i] EXCEPT !.st = "ended", !.owner = None]
            IN  r \in CreatedRun /\ r.prop = runs[i].prop /\ r.mode = runs[i].mode
        BY <3>1 DEF CreatedRun
      <4>4. \/ runs' = [runs EXCEPT ![i] = [runs[i] EXCEPT !.st = "ended", !.owner = None]]
            \/ runs' = [runs EXCEPT ![i] = [runs[i] EXCEPT !.owner = None]]
            \/ runs' = [runs EXCEPT ![i] = [runs[i] EXCEPT !.st = "interrupted"]]
        BY <1>0, <1>2, <2>1 DEF Execute
      <4> QED
        BY <4>1, <4>2, <4>3, <4>4
    <3>3. /\ runs' \in Seq(CreatedRun) /\ Len(runs') = Len(runs)
          /\ \A j \in 1..Len(runs) : runs'[j] = IF j = i THEN r ELSE runs[j]
      <4> HIDE DEF i
      <4> QED
        BY <1>0, <2>1, <3>2, ExceptSeq
    <3> HIDE DEF i
    <3> QED
      BY <3>2, <3>3 DEF RunsKept
  <2>2. CASE i \notin 1..Len(runs)
    <3>1. runs = [j \in 1..Len(runs) |-> runs[j]]
      BY <1>0
    <3>2. runs' = runs
      BY <1>2, <2>2, <3>1 DEF Execute
    <3> QED
      BY <1>1, <3>2
  <2> QED
    BY <2>1, <2>2
<1>3. ASSUME NEW s \in Slots, Step(s), ~Execute(s)
      PROVE  runs' = runs \/ RunCreated(s)
  <2>1. CASE CreateRun(s)
    BY <2>1, CreateRunType DEF Quiet
  <2>2. CASE ~CreateRun(s)
    BY <1>3, <2>2 DEF Step, Check, Claim, Begin, Ask, Finish, Release, Write, RemoveFiles
  <2> QED
    BY <2>1, <2>2
<1>4. CASE \/ UNCHANGED vars \/ Edit \/ SetGlobal
           \/ \E p \in Procs : Read(p) \/ ReadStarts(p) \/ ReadEnds(p) \/ Crash(p)
           \/ \E s \in Slots, k \in Kinds, r \in Reqs : Start(s, k, r)
  BY <1>1, <1>4 DEF vars, Edit, SetGlobal, Read, ReadStarts, ReadEnds, Crash, Start
<1> QED
  BY <1>1, <1>2, <1>3, <1>4 DEF Next

\* What an approval finds is what ApprovalIsSound asks for.
LEMMA ApprovalKept ==
    ASSUME Types, Revisions, ApprovalIsSound, [Next]_vars
    PROVE  ApprovalIsSound'
<1>0. /\ runs \in Seq(CreatedRun) /\ Len(runs) \in Nat
      /\ draft.status \in {"active", "consumed"}
      /\ Types' /\ Shapes
  BY LenProperties, NextType DEF Types, RowTypes, ProcessTypes, Draft
<1>1. (runs = <<>> <=> Len(runs) = 0) /\ (runs' = <<>> <=> Len(runs') = 0)
  <2>1. runs' \in Seq(CreatedRun)
    BY <1>0 DEF Types, ProcessTypes
  <2> QED
    BY <1>0, <2>1, EmptySeq
<1>2. ASSUME NEW s \in Slots, RunCreated(s)
      PROVE  ApprovalIsSound'
  <2> DEFINE run == [prop |-> call[s].prop, mode |-> call[s].mode,
                     st |-> "running", owner |-> home[s], by |-> s]
  <2>1. draft.status = "active" /\ Len(runs) = 0 /\ runs = <<>>
    BY <1>1, <1>2 DEF RunCreated, MayCreate, ApprovalIsSound
  <2>2. Len(runs') = 1 /\ runs'[1] = run
    <3>1. runs' = Append(<<>>, run)
      BY <1>2, <2>1 DEF RunCreated
    <3> HIDE DEF run
    <3> QED
      BY <3>1
  <2>3. Unopposed
    BY <1>2 DEF RunCreated, MayCreate, Revisions, ApprovalsUnopposed
  <2>4. call[s].prop # 0 /\ draft.validP = call[s].prop /\ draft.mode = call[s].mode
        /\ (draft.mode # "human" => draft.validR # 0)
    BY <1>2 DEF RunCreated, MayCreate, Revisions, CallsRemember
  <2>5. UNCHANGED <<reviews, acks>>
    BY <1>2 DEF RunCreated
  <2> QED
    BY <1>1, <1>2, <2>2, <2>3, <2>4, <2>5, CreatedDraft DEF ApprovalIsSound, Unopposed
<1>3. CASE RunsKept /\ draft.status = "active" /\ draft'.status = "active"
  BY <1>0, <1>1, <1>3 DEF RunsKept, ApprovalIsSound
<1>4. CASE RunsKept /\ Quiet
  <2>1. UNCHANGED <<draft, reviews, acks>> /\ Len(runs') = Len(runs)
    BY <1>4 DEF Quiet, RunsKept
  <2>2. runs # <<>> => runs'[1].prop = runs[1].prop /\ runs'[1].mode = runs[1].mode
    BY <1>0, <1>1, <1>4 DEF RunsKept
  <2> QED
    BY <1>1, <2>1, <2>2 DEF ApprovalIsSound
<1>5. ASSUME NEW s \in Slots, Begun(s)
      PROVE  draft.status = "active" /\ draft'.status = "active"
  BY <1>5 DEF Begun
<1> QED
  BY <1>0, <1>2, <1>3, <1>4, <1>5, RunsMove, DraftSteps

\* A draft becomes one run at most, of the proposal on offer, with nothing
\* standing against it and the review the policy demanded.
THEOREM Approval == Spec => []ApprovalIsSound
<1>1. Init => ApprovalIsSound
  <2>1. SUFFICES ASSUME Init PROVE ApprovalIsSound
    OBVIOUS
  <2>2. draft.status = "active"
    <3>1. CASE Fresh \/ LeftOver
      BY <3>1 DEF Fresh, LeftOver, NewDraft
    <3>2. CASE Reviewed
      <4>1. PICK level \in {"grave", "minor"} :
              draft = [NewDraft EXCEPT !.rev = 5, !.content = 2, !.validP = 1, !.validR = 1,
                         !.mode = IF level = "grave" THEN "human" ELSE "required-auto",
                         !.blockR = IF level = "grave" THEN 1 ELSE 0]
        BY <3>2 DEF Reviewed
      <4> QED
        BY <4>1 DEF NewDraft
    <3> QED
      BY <2>1, <3>1, <3>2 DEF Init
  <2>3. runs = <<>> /\ Len(runs) = 0
    BY <2>1 DEF Init
  <2> QED
    BY <2>2, <2>3 DEF ApprovalIsSound
<1>2. Types /\ Revisions /\ ApprovalIsSound /\ [Next]_vars => ApprovalIsSound'
  BY ApprovalKept
<1> QED
  BY <1>1, <1>2, TypesInvariant, RevisionsInvariant, PTL DEF Spec

=============================================================================
