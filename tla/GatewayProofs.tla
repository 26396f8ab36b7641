--------------------------- MODULE GatewayProofs ---------------------------
(***************************************************************************)
(* Proofs about Gateway for any calls, keys and requests, with any number  *)
(* of audit records that overlap or fail.                                  *)
(***************************************************************************)
EXTENDS Gateway, TLAPS

Claimed == {"mark", "audit", "update", "reply", "created"}
Unclaimed == {"idle", "guard", "create"}

(* A call that got past the guard is the one its key is held by, and a key *)
(* is held by no call that has not got there.                              *)
Held == \A c \in Calls : pc[c] \in Claimed => Owner(c) = {c}
Owned == \A k \in Keys : \A d \in entry[k] : pc[d] \notin Unclaimed

(* The audit record of a send is begun after its transfer was marked, and  *)
(* the caller is answered after the record was reported written.           *)
Ordered ==
  \A s \in Sends :
    /\ pc[s] \in {"audit", "created"} \/ phase[s] # "idle" => BodyOf[s] \in sent
    /\ phase[s] = "ok" => Recorded(s)
    /\ pc[s] = "created" => phase[s] = "ok"

IInv ==
  TypeOK /\ Held /\ Owned /\ Ordered /\ RecordedSent /\ SentAccounted
-----------------------------------------------------------------------------
(* The audit trail keeps its types, never loses a row, and gains one only  *)
(* for the call that writes it.                                            *)
Kept(s) ==
  /\ Audit!TypeOK'
  /\ phase[s] \in {"idle", "found"}
  /\ \A r \in Sends \ {s} : phase'[r] = phase[r]
  /\ trail \subseteq trail'
  /\ \A row \in trail' \ trail : row.by = s /\ phase[s] = "found"
  /\ phase'[s] = "ok" => \E row \in trail' : row.by = s

LEMMA AuditStep ==
  ASSUME Audit!TypeOK, NEW s \in Sends, Audit!Write(s)
  PROVE  Kept(s)
<1> USE GatewayAssumption DEF Audit!TypeOK, Audit!Enter
<1>1. CASE Audit!FindFirst(s)
  <2>1. \A row \in trail : row.hash \in Seq(Sends)
    BY DEF Audit!Rows
  <2>2. saw' \in [Sends -> Seq(Sends)]
    BY <1>1, <2>1 DEF Audit!FindFirst
  <2>3. QED
    BY <1>1, <2>2 DEF Audit!FindFirst, Kept
<1>2. ASSUME NEW to \in {"ok", "failed"}, Audit!Create(s, to) PROVE Kept(s)
  <2>1. PICK at \in since[s]..clock : trail' = trail \cup {Audit!Row(s, at)}
    BY <1>2 DEF Audit!Create
  <2>2. Append(saw[s], s) \in Seq(Sends)
    OBVIOUS
  <2>3. Audit!Row(s, at) \in Audit!Rows
    BY <2>1, <2>2 DEF Audit!Row, Audit!Rows, Audit!Hash
  <2>4. Audit!Row(s, at).by = s
    BY DEF Audit!Row
  <2>5. phase[s] = "found" /\ phase' = [phase EXCEPT ![s] = to]
        /\ UNCHANGED <<saw, since, clock>>
    BY <1>2 DEF Audit!Create
  <2>6. QED
    BY <2>1, <2>3, <2>4, <2>5 DEF Kept
<1>3. CASE Audit!Fail(s)
  BY <1>3 DEF Audit!Fail, Audit!OnError, Kept
<1>4. QED
  BY <1>1, <1>2, <1>3 DEF Audit!Write, Audit!OnError, Kept
-----------------------------------------------------------------------------
(* In every reachable state the variables have their types.                *)
LEMMA TypeStep == TypeOK /\ [Next]_vars => TypeOK'
<1> SUFFICES ASSUME TypeOK, [Next]_vars PROVE TypeOK'
  OBVIOUS
<1> USE GatewayAssumption DEF TypeOK, Calls, Stages, Answers, Goto, Begun
<1>1. \A c \in Calls : KeyOf[c] \in Keys
  BY DEF Keys
<1>2. ASSUME UNCHANGED audit PROVE Audit!TypeOK'
  BY <1>2 DEF Audit!TypeOK, audit
<1>3. ASSUME NEW s \in Sends, AuditSend(s) PROVE TypeOK'
  BY <1>3, AuditStep DEF AuditSend, requests, Kept
<1>4. ASSUME NEW c \in Calls, GuardCreate(c) PROVE TypeOK'
  BY <1>1, <1>2, <1>4 DEF GuardCreate
<1>5. ASSUME NEW s \in Sends, MarkSent(s) PROVE TypeOK'
  BY <1>2, <1>5 DEF MarkSent
<1>6. ASSUME NEW c \in Lines, StoreAnswer(c) PROVE TypeOK'
  BY <1>2, <1>6 DEF StoreAnswer
<1>7. ASSUME NEW c \in Calls,
             \/ c \in Lines /\ (FindLine(c) \/ ReplyLine(c))
             \/ c \in Sends /\ (CheckCode(c) \/ AuditFailed(c) \/ ReplySent(c))
             \/ GuardFind(c) \/ Fail(c)
      PROVE  TypeOK'
  <2>1. UNCHANGED <<entry, stored, sent, audit>>
    BY <1>7 DEF FindLine, ReplyLine, CheckCode, AuditFailed, ReplySent, GuardFind, Fail
  <2>2. pc' \in [Calls -> Stages]
    BY <1>7 DEF FindLine, ReplyLine, CheckCode, AuditFailed, ReplySent, GuardFind, Fail
  <2>3. QED
    BY <1>2, <2>1, <2>2
<1>8. CASE Tick
  BY <1>8 DEF Tick, Audit!Tick, Audit!TypeOK, requests
<1>9. CASE UNCHANGED vars
  BY <1>2, <1>9 DEF vars, requests
<1>10. QED
  BY <1>3, <1>4, <1>5, <1>6, <1>7, <1>8, <1>9 DEF Next, LineStep, SendStep

(* A step either leaves the tables alone and moves a call, or is one of    *)
(* the five that write.                                                    *)
Moves(c) ==
  /\ UNCHANGED <<entry, sent, audit>>
  /\ \E to \in Stages : pc' = [pc EXCEPT ![c] = to]
  /\ pc'[c] \in Claimed => pc[c] \in Claimed
  /\ pc'[c] \in Unclaimed => pc[c] \in Unclaimed
  /\ pc'[c] # "audit"
  /\ pc'[c] = "created" => c \in Lines \/ phase[c] = "ok"
  /\ pc[c] = "audit" => pc'[c] = "failed" \/ phase[c] = "ok"
  /\ pc[c] # "failed"

LEMMA StepKinds ==
  ASSUME TypeOK, Next
  PROVE  \/ \E c \in Calls : Moves(c) \/ GuardCreate(c)
         \/ \E s \in Sends : MarkSent(s) \/ AuditSend(s)
         \/ Tick
<1> USE GatewayAssumption DEF TypeOK, Calls, Stages, Answers, Goto, Claimed, Unclaimed
<1>1. ASSUME NEW c \in Calls,
             \/ c \in Lines /\ (FindLine(c) \/ StoreAnswer(c) \/ ReplyLine(c))
             \/ c \in Sends /\ (CheckCode(c) \/ AuditFailed(c) \/ ReplySent(c))
             \/ GuardFind(c) \/ Fail(c)
      PROVE  Moves(c)
  BY <1>1 DEF FindLine, StoreAnswer, ReplyLine, CheckCode, AuditFailed, ReplySent,
              GuardFind, Fail, Moves
<1>2. QED
  BY <1>1 DEF Next, LineStep, SendStep
-----------------------------------------------------------------------------
(* The key of a call is claimed once, by the call that goes on.            *)
LEMMA KeyStep == TypeOK /\ Held /\ Owned /\ [Next]_vars => Held' /\ Owned'
<1> SUFFICES ASSUME TypeOK, Held, Owned, [Next]_vars PROVE Held' /\ Owned'
  OBVIOUS
<1> USE GatewayAssumption DEF TypeOK, Calls, Held, Owned, Owner, Claimed, Unclaimed
<1>1. ASSUME NEW c \in Calls, Moves(c) PROVE Held' /\ Owned'
  BY <1>1 DEF Moves
<1>2. ASSUME NEW c \in Calls, GuardCreate(c) PROVE Held' /\ Owned'
  <2>1. \A d \in Calls : KeyOf[d] \in Keys
    BY DEF Keys
  <2>2. CASE Owner(c) = {}
    <3>1. /\ entry' = [entry EXCEPT ![KeyOf[c]] = {c}]
          /\ pc' = [pc EXCEPT ![c] = Begun(c)]
          /\ Begun(c) \in {"update", "mark"}
      BY <1>2, <2>1, <2>2 DEF GuardCreate, Goto, Begun
    <3>2. QED
      BY <2>1, <2>2, <3>1
  <2>3. CASE Owner(c) # {}
    BY <1>2, <2>1, <2>3 DEF GuardCreate, Goto
  <2>4. QED
    BY <2>2, <2>3
<1>3. ASSUME NEW s \in Sends, MarkSent(s) PROVE Held' /\ Owned'
  BY <1>3 DEF MarkSent, Goto
<1>4. CASE UNCHANGED requests
  BY <1>4 DEF requests
<1>5. QED
  BY <1>1, <1>2, <1>3, <1>4, StepKinds DEF AuditSend, Tick, vars

(* What is told of a transfer, what is marked and what is recorded agree.  *)
LEMMA SendStepKeeps ==
  ASSUME TypeOK, Ordered, RecordedSent, SentAccounted, [Next]_vars
  PROVE  Ordered' /\ RecordedSent' /\ SentAccounted'
<1> DEFINE Agree == Ordered /\ RecordedSent /\ SentAccounted
<1> USE GatewayAssumption DEF TypeOK, Calls
<1> SUFFICES Agree'
  OBVIOUS
<1> USE DEF Ordered, RecordedSent, SentAccounted, Recorded
<1>1. ASSUME NEW c \in Calls, Moves(c) PROVE Agree'
  BY <1>1 DEF Moves, audit, Claimed, Unclaimed
<1>2. ASSUME NEW c \in Calls, GuardCreate(c) PROVE Agree'
  BY <1>2 DEF GuardCreate, Goto, Begun, audit
<1>3. ASSUME NEW s \in Sends, MarkSent(s) PROVE Agree'
  BY <1>3 DEF MarkSent, Goto, audit
<1>4. ASSUME NEW s \in Sends, AuditSend(s) PROVE Agree'
  <2>1. Kept(s) /\ UNCHANGED requests /\ pc[s] = "audit"
    BY <1>4, AuditStep DEF AuditSend
  <2>2. QED
    BY <2>1 DEF Kept, requests
<1>5. CASE Tick \/ UNCHANGED vars
  BY <1>5 DEF Tick, Audit!Tick, vars, requests, audit
<1>6. QED
  BY <1>1, <1>2, <1>3, <1>4, <1>5, StepKinds
-----------------------------------------------------------------------------
(* The invariant holds from the start and is preserved.                    *)
LEMMA Initially == Init => IInv
<1> SUFFICES ASSUME Init PROVE IInv
  OBVIOUS
<1>1. Audit!TypeOK
  <2>1. <<>> \in Seq(Sends)
    OBVIOUS
  <2>2. QED
    BY <2>1, GatewayAssumption DEF Init, Audit!Init, Audit!TypeOK
<1>2. TypeOK
  BY <1>1 DEF Init, TypeOK, Stages
<1>3. Held /\ Owned /\ Ordered /\ RecordedSent /\ SentAccounted
  BY GatewayAssumption
     DEF Init, Audit!Init, Held, Owned, Ordered, RecordedSent, SentAccounted, Claimed,
         Calls
<1>4. QED
  BY <1>2, <1>3 DEF IInv

LEMMA Invariance == Spec => []IInv
<1>1. IInv /\ [Next]_vars => IInv'
  BY TypeStep, KeyStep, SendStepKeeps DEF IInv
<1>2. QED
  BY Initially, <1>1, PTL DEF Spec

(* For any calls and any failures: a caller told that a transfer was sent  *)
(* holds the key, the transfer is marked and has its audit record, and no  *)
(* audit record speaks of a transfer that is not marked.                   *)
THEOREM RequestsSoundAlways == Spec => []RequestsSound
<1>1. IInv => RequestsSound
  BY DEF IInv, RequestsSound, SentTruth, Held, Ordered, Claimed, Calls
<1>2. QED
  BY <1>1, Invariance, PTL

(* For any calls and any failures: a transfer marked as sent has its audit *)
(* record, unless the calls for it are under way or ended in an error.     *)
THEOREM SentAccountedAlways == Spec => []SentAccounted
<1>1. IInv => SentAccounted
  BY DEF IInv
<1>2. QED
  BY <1>1, Invariance, PTL
-----------------------------------------------------------------------------
(* Every step is a step of the abstract specification or changes nothing   *)
(* it sees: the insert of the entry performs the key, an answer tells.     *)
LEMMA Tells ==
  ASSUME NEW c \in Calls, NEW to \in Stages, pc \in [Calls -> Stages],
         pc[c] \notin Answers, pc' = [pc EXCEPT ![c] = to], UNCHANGED entry,
         \/ to \notin Answers
         \/ OnceEach!Told(c, Shown(to))
  PROVE  OnceEach!Tell(c) \/ UNCHANGED <<entry, AnswerView>>
<1>1. AnswerView' = [AnswerView EXCEPT ![c] = Shown(to)]
  BY DEF AnswerView
<1>2. AnswerView[c] = "open"
  BY DEF AnswerView, Shown, Answers
<1>3. CASE to \notin Answers
  <2>1. Shown(to) = "open"
    BY <1>3 DEF Shown, Answers
  <2>2. AnswerView' = AnswerView
    BY <1>1, <1>2, <2>1 DEF AnswerView
  <2>3. QED
    BY <2>2
<1>4. CASE to \in Answers /\ OnceEach!Told(c, Shown(to))
  <2>1. Shown(to) \in {"created", "replayed", "refused", "failed"}
    BY <1>4 DEF Shown, Answers
  <2>2. QED
    BY <1>1, <1>2, <1>4, <2>1 DEF OnceEach!Tell
<1>5. QED
  BY <1>3, <1>4

LEMMA LineRefines ==
  ASSUME IInv, NEW c \in Lines, FindLine(c) \/ StoreAnswer(c) \/ ReplyLine(c)
  PROVE  OnceEach!Tell(c) \/ UNCHANGED <<entry, AnswerView>>
<1> USE GatewayAssumption
        DEF IInv, TypeOK, Calls, Stages, Answers, Goto, Shown, OnceEach!Told
<1>1. CASE FindLine(c)
  <2>1. KeyOf[c] \in Keys /\ c \notin Owner(c)
    BY <1>1 DEF FindLine, Owned, Owner, Unclaimed, Keys
  <2>2. Owner(c) # {} /\ Replayable(c) =>
          \E d \in entry[KeyOf[c]] : d # c /\ BodyOf[d] = BodyOf[c]
    BY <2>1 DEF Replayable, SameBody, Owner
  <2>3. QED
    BY <1>1, <2>2, Tells DEF FindLine, Owner
<1>2. CASE StoreAnswer(c)
  BY <1>2, Tells DEF StoreAnswer
<1>3. CASE ReplyLine(c)
  BY <1>3, Tells DEF ReplyLine, Held, Owner, Claimed
<1>4. QED
  BY <1>1, <1>2, <1>3

LEMMA SendRefines ==
  ASSUME IInv, NEW s \in Sends,
         CheckCode(s) \/ MarkSent(s) \/ AuditFailed(s) \/ ReplySent(s)
  PROVE  OnceEach!Tell(s) \/ UNCHANGED <<entry, AnswerView>>
<1> USE GatewayAssumption
        DEF IInv, TypeOK, Calls, Stages, Answers, Goto, Shown, OnceEach!Told
<1>1. CASE CheckCode(s)
  BY <1>1, Tells DEF CheckCode
<1>2. CASE MarkSent(s)
  BY <1>2, Tells DEF MarkSent
<1>3. CASE AuditFailed(s)
  BY <1>3, Tells DEF AuditFailed
<1>4. CASE ReplySent(s)
  BY <1>4, Tells DEF ReplySent, Held, Owner, Claimed
<1>5. QED
  BY <1>1, <1>2, <1>3, <1>4

LEMMA GuardRefines ==
  ASSUME IInv, NEW c \in Calls, GuardFind(c) \/ GuardCreate(c) \/ Fail(c)
  PROVE  \/ OnceEach!Perform(c) \/ OnceEach!Tell(c)
         \/ UNCHANGED <<entry, AnswerView>>
<1> USE DEF IInv, TypeOK, Stages, Answers, Goto, Shown, OnceEach!Told
<1>1. KeyOf[c] \in Keys
  BY DEF Keys
<1>2. CASE GuardFind(c)
  BY <1>2, Tells DEF GuardFind, Owner
<1>3. CASE GuardCreate(c) /\ Owner(c) = {}
  <2>1. entry' = [entry EXCEPT ![KeyOf[c]] = {c}] /\ entry[KeyOf[c]] = {}
    BY <1>1, <1>3 DEF GuardCreate, Owner
  <2>2. AnswerView' = AnswerView /\ AnswerView[c] = "open"
    BY <1>3 DEF GuardCreate, AnswerView, Begun
  <2>3. QED
    BY <2>1, <2>2 DEF OnceEach!Perform
<1>4. CASE GuardCreate(c) /\ Owner(c) # {}
  <2>1. entry' = entry
    BY <1>1, <1>4 DEF GuardCreate, Owner
  <2>2. QED
    BY <1>4, <2>1, Tells DEF GuardCreate
<1>5. CASE Fail(c)
  BY <1>5, Tells DEF Fail
<1>6. QED
  BY <1>2, <1>3, <1>4, <1>5

LEMMA Refines == IInv /\ [Next]_vars => [OnceEach!Next]_<<entry, AnswerView>>
<1> SUFFICES ASSUME IInv, [Next]_vars PROVE [OnceEach!Next]_<<entry, AnswerView>>
  OBVIOUS
<1>1. CASE Next
  <2>1. CASE Tick \/ \E s \in Sends : AuditSend(s)
    BY <2>1 DEF Tick, AuditSend, requests, AnswerView
  <2>2. CASE ~Tick /\ ~\E s \in Sends : AuditSend(s)
    BY <1>1, <2>2, LineRefines, SendRefines, GuardRefines
       DEF Next, LineStep, SendStep, OnceEach!Next, Calls
  <2>3. QED
    BY <2>1, <2>2
<1>2. CASE UNCHANGED vars
  BY <1>2 DEF vars, requests, AnswerView
<1>3. QED
  BY <1>1, <1>2

(* For any calls and any failures: the table of keys with its racing and   *)
(* dying requests implements keys that are performed at most once, each    *)
(* other call being replayed the answer, refused or told an error.         *)
THEOREM OncePerKeyAlways == Spec => ImplementsOncePerKey
<1>1. Init => OnceEach!Init
  BY DEF Init, OnceEach!Init, OnceEach!Keys, Keys, AnswerView, Shown, Answers
<1>2. QED
  BY <1>1, Refines, Invariance, PTL DEF Spec, ImplementsOncePerKey, OnceEach!Spec
=============================================================================
