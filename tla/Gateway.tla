------------------------------ MODULE Gateway ------------------------------
(***************************************************************************)
(* The two routes of the gateway that are guarded by an idempotency key    *)
(* (services/api-gateway/src/lib/idempotency.ts): POST /bank-lines         *)
(* (routes/bank-lines.ts), which replays the stored answer, and POST       *)
(* /bas/transfer (routes/transfers.ts), which marks a TransferInstruction  *)
(* as sent and writes a critical audit record.  Both share the table       *)
(* IdempotencyEntry of the organisation, unique on its key.  Each await is *)
(* one auto-committed statement.                                           *)
(***************************************************************************)
EXTENDS Integers, Sequences

CONSTANTS
  Lines,          \* calls of POST /bank-lines
  Sends,          \* calls of POST /bas/transfer
  KeyOf,          \* idempotency key; without the header a random one
  BodyOf,         \* amount of a line, instruction of a send
  WrongCode,      \* sends with the wrong mfaCode
  MaxClock        \* bounds the clock of the audit trail

Calls == Lines \cup Sends
Keys == {KeyOf[c] : c \in Calls}

ASSUME GatewayAssumption ==
  /\ Lines \cap Sends = {} /\ WrongCode \subseteq Sends
  /\ \A c \in Calls : c \in DOMAIN KeyOf /\ c \in DOMAIN BodyOf
  /\ MaxClock \in Nat

VARIABLES
  entry,          \* by key, the call whose row of IdempotencyEntry it is
  stored,         \* calls whose answer is in the row's responsePayload
  sent,           \* instructions with status sent
  pc,             \* where each call is, at the end what it was told
  trail, phase, saw, since, clock  \* the audit trail

requests == <<entry, stored, sent, pc>>
audit == <<trail, phase, saw, since, clock>>
vars == <<requests, audit>>

Audit == INSTANCE AuditTrail
           WITH Records <- Sends, Critical <- Sends, overlap <- TRUE

Init ==
  /\ entry = [k \in Keys |-> {}]
  /\ stored = {} /\ sent = {}
  /\ pc = [c \in Calls |-> "idle"]
  /\ Audit!Init

Goto(c, from, to) == pc[c] = from /\ pc' = [pc EXCEPT ![c] = to]

Owner(c) == entry[KeyOf[c]]

(* bank-lines looks the key up itself: the same body (requestHash) with a  *)
(* stored answer is replayed, everything else refused.                     *)
SameBodyBug(c) == TRUE
SameBody(c) == \E d \in Owner(c) : BodyOf[d] = BodyOf[c]
Replayable(c) == Owner(c) \subseteq stored /\ SameBody(c)

FindLine(c) ==
  /\ Goto(c, "idle", IF Owner(c) = {} THEN "guard"
                     ELSE IF Replayable(c) THEN "replayed" ELSE "refused")
  /\ UNCHANGED <<entry, stored, sent, audit>>

CheckCode(c) ==
  /\ Goto(c, "idle", IF c \in WrongCode THEN "denied" ELSE "guard")
  /\ UNCHANGED <<entry, stored, sent, audit>>

(* withIdempotency: an entry found is a conflict.  The handler of sends    *)
(* looks for its code in the message, where it is not, and answers 500.    *)
GuardFind(c) ==
  /\ Goto(c, "guard", IF Owner(c) = {} THEN "create"
                      ELSE IF c \in Lines THEN "refused" ELSE "failed")
  /\ UNCHANGED <<entry, stored, sent, audit>>

(* the entry, without an answer; a second one violates the unique key *)
Begun(c) == IF c \in Lines THEN "update" ELSE "mark"

GuardCreateBug(c) ==
  /\ Goto(c, "create", Begun(c))
  /\ entry' = [entry EXCEPT ![KeyOf[c]] = {c}]
  /\ UNCHANGED <<stored, sent, audit>>
GuardCreateAnyBug(c) ==
  /\ Goto(c, "create", Begun(c))
  /\ entry' = [entry EXCEPT ![KeyOf[c]] = @ \cup {c}]
  /\ UNCHANGED <<stored, sent, audit>>
GuardCreate(c) ==
  /\ Goto(c, "create", IF Owner(c) = {} THEN Begun(c) ELSE "failed")
  /\ entry' = [entry EXCEPT ![KeyOf[c]] = IF @ = {} THEN {c} ELSE @]
  /\ UNCHANGED <<stored, sent, audit>>

(* markTransferStatus has no guard on the status it replaces *)
MarkSentUnauditedBug(s) ==
  /\ Goto(s, "mark", "created")
  /\ sent' = sent \cup {BodyOf[s]}
  /\ UNCHANGED <<entry, stored, audit>>
MarkSent(s) ==
  /\ Goto(s, "mark", "audit")
  /\ sent' = sent \cup {BodyOf[s]}
  /\ UNCHANGED <<entry, stored, audit>>

(* recordCriticalAuditLog: an error ends the handler with 500 *)
AuditSend(s) ==
  /\ pc[s] = "audit" /\ phase[s] \in {"idle", "found"}
  /\ Audit!Write(s)
  /\ UNCHANGED requests

AuditFailedBug(s) ==
  /\ phase[s] = "failed"
  /\ Goto(s, "audit", "refused")
  /\ UNCHANGED <<entry, stored, sent, audit>>
AuditFailed(s) ==
  /\ phase[s] = "failed"
  /\ Goto(s, "audit", "failed")
  /\ UNCHANGED <<entry, stored, sent, audit>>

(* The handler replies itself, before the entry is completed; its result   *)
(* has no body, so the entry never holds an answer.                        *)
ReplySent(s) ==
  /\ phase[s] = "ok"
  /\ Goto(s, "audit", "created")
  /\ UNCHANGED <<entry, stored, sent, audit>>

(* the best-effort update of the entry, and the reply of bank-lines *)
StoreAnswer(c) ==
  /\ Goto(c, "update", "reply")
  /\ stored' \in {stored, stored \cup {c}}
  /\ UNCHANGED <<entry, sent, audit>>

ReplyLine(c) ==
  /\ Goto(c, "reply", "created")
  /\ UNCHANGED <<entry, stored, sent, audit>>

Answers == {"created", "replayed", "refused", "denied", "failed"}

(* a statement fails, or the process dies *)
Fail(c) ==
  /\ pc[c] \notin Answers \cup {"idle"}
  /\ pc' = [pc EXCEPT ![c] = "failed"]
  /\ UNCHANGED <<entry, stored, sent, audit>>

Tick == Audit!Tick /\ UNCHANGED requests

LineStep(c) ==
  FindLine(c) \/ GuardFind(c) \/ GuardCreate(c) \/ StoreAnswer(c) \/ ReplyLine(c)

SendStep(s) ==
  \/ CheckCode(s) \/ GuardFind(s) \/ GuardCreate(s) \/ MarkSent(s)
  \/ AuditSend(s) \/ AuditFailed(s) \/ ReplySent(s)

Next ==
  \/ \E c \in Lines : LineStep(c)
  \/ \E s \in Sends : SendStep(s)
  \/ \E c \in Calls : Fail(c)
  \/ Tick

Spec == Init /\ [][Next]_vars
-----------------------------------------------------------------------------
Stages ==
  {"idle", "guard", "create", "mark", "audit", "update", "reply"} \cup Answers

(* Type invariant of the tables and of the calls' progress. *)
TypeOK ==
  /\ entry \in [Keys -> SUBSET Calls]
  /\ stored \subseteq Calls /\ sent \subseteq {BodyOf[s] : s \in Sends}
  /\ pc \in [Calls -> Stages]
  /\ Audit!TypeOK

Recorded(s) == \E row \in trail : row.by = s

(* A caller who is told that a transfer was sent can rely on it and on its *)
(* audit record, and his call is the one the key is held by.               *)
SentTruth ==
  \A s \in Sends : pc[s] = "created" =>
    Owner(s) = {s} /\ BodyOf[s] \in sent /\ Recorded(s)

(* A transfer marked as sent has an audit record, unless each call for it  *)
(* that got so far is under way or ended in an error: then the caller was  *)
(* told transfer_failed of a transfer that is sent.                        *)
SentAccounted ==
  \A i \in sent : \E s \in Sends :
    BodyOf[s] = i /\ (Recorded(s) \/ pc[s] \in {"audit", "failed"})

(* An audit record speaks of a transfer that was really marked.            *)
RecordedSent == \A row \in trail : BodyOf[row.by] \in sent

RequestsSound == TypeOK /\ SentTruth /\ RecordedSent

(* Whatever calls race, retry or die, a key is performed at most once and  *)
(* all its other calls are replayed its answer, refused or told an error.  *)
Shown(stage) ==
  IF stage = "denied" THEN "failed" ELSE IF stage \in Answers THEN stage ELSE "open"
AnswerView == [c \in Calls |-> Shown(pc[c])]

OnceEach == INSTANCE OncePerKey
              WITH Forgets <- FALSE, owner <- entry, answer <- AnswerView
ImplementsOncePerKey == OnceEach!Spec
=============================================================================
