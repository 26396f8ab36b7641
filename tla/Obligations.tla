---------------------------- MODULE Obligations ----------------------------
(***************************************************************************)
(* Securing and remitting tax for one organisation: the handler of the     *)
(* integration events (POST /integrations/..., services/api-gateway/src/   *)
(* routes/integration-events.ts), the BAS lodgment handler (routes/bas.ts) *)
(* and the shared/src/ledger functions they call.  Each await is one       *)
(* auto-committed statement of PostgreSQL, so every handler may be         *)
(* interleaved with every other between two of them, and may stop there.   *)
(***************************************************************************)
EXTENDS Integers, FiniteSets

CONSTANTS
  Events,         \* calls of handleIntegrationEvent
  Lodgments,      \* calls of lodgmentHandler
  TaxOf,          \* tax type of the event's route
  AmountOf,       \* amount of the payload, positive
  ExpectedOf,     \* metadata.expectedAmount, 0 if there is none
  MaxAmount       \* bounds the amounts

TaxOrder == <<"PAYGW", "GST">>
TaxTypes == {"PAYGW", "GST"}

ASSUME ObligationsAssumption ==
  /\ IsFiniteSet(Events)
  /\ Events \cap Lodgments = {}
  /\ MaxAmount \in Nat
  /\ TaxOf \in [Events -> TaxTypes]
  /\ AmountOf \in [Events -> 1..MaxAmount]
  /\ ExpectedOf \in [Events -> Nat]

VARIABLES
  event,          \* IntegrationEvent.status of each event
  obligation,     \* IntegrationObligation.status of each event
  balance,        \* OneWayAccount.balance of each tax type
  alerts,         \* DiscrepancyAlert rows
  lodgment,       \* BasLodgment.status
  transfers,      \* TransferInstruction rows
  plans,          \* lodgments with a PaymentPlanRequest
  pc, seen,       \* where each handler is; pending and balance it has read
  turn, result,   \* the lodgment's loop index and its verification record
  deposited,      \* history: events whose deposit is committed
  owed,           \* history: obligations on record when the lodgment began
  asked,          \* history: the pending obligations a lodgment summed, by tax
  crowded         \* history: lodgment and tax, if it summed what another one
                  \* had summed and was still to mark

db == <<event, obligation, balance, alerts, lodgment, transfers, plans>>
local == <<pc, seen, turn, result>>
history == <<deposited, owed, asked, crowded>>
vars == <<db, local, history>>

Handlers == Events \cup Lodgments

(* SUM("amount") over a set of events, counted cent by cent.               *)
Cents(S) == {c \in S \X (1..MaxAmount) : c[2] <= AmountOf[c[1]]}
Total(S) == Cardinality(Cents(S))

OfTax(S, t) == {e \in S : TaxOf[e] = t}
Recorded == {e \in Events : obligation[e] # "none"}
Pending == {e \in Events : obligation[e] = "pending"}
-----------------------------------------------------------------------------
NotSeen == [pending |-> 0, balance |-> 0]
NoResult == [t \in TaxTypes |-> [pending |-> 0, short |-> FALSE]]

Init ==
  /\ event = [e \in Events |-> "none"]
  /\ obligation = [e \in Events |-> "none"]
  /\ balance = [t \in TaxTypes |-> 0]
  /\ alerts = {} /\ transfers = {} /\ plans = {}
  /\ lodgment = [l \in Lodgments |-> "none"]
  /\ pc = [h \in Handlers |-> "idle"]
  /\ seen = [h \in Handlers |-> NotSeen]
  /\ turn = [l \in Lodgments |-> 1]
  /\ result = [l \in Lodgments |-> NoResult]
  /\ deposited = {}
  /\ owed = [l \in Lodgments |-> {}]
  /\ asked = [l \in Lodgments |-> [t \in TaxTypes |-> {}]]
  /\ crowded = {}

Goto(h, from, to) == pc[h] = from /\ pc' = [pc EXCEPT ![h] = to]

(* the handler's local variables go out of scope *)
Forget(h) ==
  /\ seen' = [seen EXCEPT ![h] = NotSeen]
  /\ turn' = [l \in Lodgments |-> IF l = h THEN 1 ELSE turn[l]]
  /\ result' = [l \in Lodgments |-> IF l = h THEN NoResult ELSE result[l]]

(* recordIntegrationEvent *)
RecordEvent(e) ==
  /\ Goto(e, "idle", "received")
  /\ event' = [event EXCEPT ![e] = "pending"]
  /\ UNCHANGED <<obligation, balance, alerts, lodgment, transfers, plans,
                 seen, turn, result, history>>

(* depositToOneWayAccount: the increment is one UPDATE statement *)
DebitBug(e) ==
  /\ Goto(e, "received", "deposited")
  /\ balance' = [balance EXCEPT ![TaxOf[e]] = @ - AmountOf[e]]
  /\ deposited' = deposited \cup {e}
  /\ UNCHANGED <<event, obligation, alerts, lodgment, transfers, plans,
                 seen, turn, result, owed, asked, crowded>>
DepositBug(e) ==
  /\ Goto(e, "received", "deposited")
  /\ balance' = [balance EXCEPT ![TaxOf[e]] = AmountOf[e]]
  /\ deposited' = deposited \cup {e}
  /\ UNCHANGED <<event, obligation, alerts, lodgment, transfers, plans,
                 seen, turn, result, owed, asked, crowded>>
Deposit(e) ==
  /\ Goto(e, "received", "deposited")
  /\ balance' = [balance EXCEPT ![TaxOf[e]] = @ + AmountOf[e]]
  /\ deposited' = deposited \cup {e}
  /\ UNCHANGED <<event, obligation, alerts, lodgment, transfers, plans,
                 seen, turn, result, owed, asked, crowded>>

RecordObligationBug(e) ==
  /\ Goto(e, "received", "verify")
  /\ obligation' = [obligation EXCEPT ![e] = "pending"]
  /\ UNCHANGED <<event, balance, alerts, lodgment, transfers, plans,
                 seen, turn, result, history>>
RecordObligation(e) ==
  /\ Goto(e, "deposited", "verify")
  /\ obligation' = [obligation EXCEPT ![e] = "pending"]
  /\ UNCHANGED <<event, balance, alerts, lodgment, transfers, plans,
                 seen, turn, result, history>>

(* verifyObligations: sum the pending rows, read the account, and, if it   *)
(* covers the sum, mark every row that is pending by then.                 *)
TaxAt(h) == IF h \in Events THEN TaxOf[h] ELSE TaxOrder[turn[h]]

(* lodgments that have summed a tax type and not marked it yet *)
Summing(t) == {l \in Lodgments : pc[l] \in {"summed", "compared"} /\ TaxAt(l) = t}

NoteSum(h, t) ==
  IF h \in Lodgments
  THEN /\ asked' = [asked EXCEPT ![h][t] = OfTax(Pending, t)]
       /\ crowded' = IF \A m \in Summing(t) : asked[m][t] \cap Pending = {}
                     THEN crowded ELSE crowded \cup {<<h, t>>}
  ELSE UNCHANGED <<asked, crowded>>

AggregateObligations(h) ==
  /\ Goto(h, "verify", "summed")
  /\ seen' = [seen EXCEPT ![h].pending = Total(OfTax(Pending, TaxAt(h)))]
  /\ NoteSum(h, TaxAt(h))
  /\ UNCHANGED <<db, turn, result, deposited, owed>>

FetchAccount(h) ==
  /\ Goto(h, "summed", "compared")
  /\ seen' = [seen EXCEPT ![h].balance = balance[TaxAt(h)]]
  /\ UNCHANGED <<db, turn, result, history>>

CoveredBug(h) == seen[h].balance > seen[h].pending
Covered(h) == seen[h].balance >= seen[h].pending

MarkStatusBug(t) == UNCHANGED obligation
MarkStatus(t) ==
  obligation' = [e \in Events |->
                   IF e \in OfTax(Pending, t) THEN "verified" ELSE obligation[e]]

MarkIfCovered(h) ==
  IF Covered(h) THEN MarkStatus(TaxAt(h)) ELSE UNCHANGED obligation

EventVerified(e) ==
  /\ Goto(e, "compared", "checked")
  /\ MarkIfCovered(e)
  /\ UNCHANGED <<event, balance, alerts, lodgment, transfers, plans,
                 seen, turn, result, history>>

(* recordDiscrepancy, for a shortfall and for an amount below expectation *)
AlertIf(condition, e, reason) ==
  alerts' = IF condition THEN alerts \cup {[event |-> e, reason |-> reason]} ELSE alerts

RecordShortfall(e) ==
  /\ Goto(e, "checked", "alerted")
  /\ AlertIf(~Covered(e), e, "shortfall")
  /\ UNCHANGED <<event, obligation, balance, lodgment, transfers, plans,
                 seen, turn, result, history>>

BelowExpected(e) == ExpectedOf[e] > AmountOf[e]

CheckExpected(e) ==
  /\ Goto(e, "alerted", "verified")
  /\ AlertIf(BelowExpected(e), e, "expected")
  /\ UNCHANGED <<event, obligation, balance, lodgment, transfers, plans,
                 seen, turn, result, history>>

MarkProcessed(e) ==
  /\ Goto(e, "verified", "done")
  /\ event' = [event EXCEPT ![e] = "processed"]
  /\ Forget(e)
  /\ UNCHANGED <<obligation, balance, alerts, lodgment, transfers, plans,
                 history>>
-----------------------------------------------------------------------------
Over == {"idle", "done", "failed"}

(* recordBasLodgment *)
OpenLodgment(l) ==
  /\ Goto(l, "idle", "verify")
  /\ lodgment' = [lodgment EXCEPT ![l] = "in_progress"]
  /\ owed' = [owed EXCEPT ![l] = Recorded]
  /\ UNCHANGED <<event, obligation, balance, alerts, transfers, plans,
                 seen, turn, result, deposited, asked, crowded>>

(* one round of the loop over TAX_TYPES *)
LastTurn(l) == turn[l] = 2
NextTurn(l) == turn' = [turn EXCEPT ![l] = 3 - @]

LodgmentVerifiedBug(l) ==
  /\ Goto(l, "compared", IF LastTurn(l) THEN "queue" ELSE "verify")
  /\ result' = [result EXCEPT ![l][TaxAt(l)] =
                  [pending |-> seen[l].pending, short |-> ~Covered(l)]]
  /\ NextTurn(l)
  /\ UNCHANGED <<event, obligation, balance, alerts, lodgment, transfers, plans,
                 seen, history>>
LodgmentVerified(l) ==
  /\ Goto(l, "compared", IF LastTurn(l) THEN "queue" ELSE "verify")
  /\ result' = [result EXCEPT ![l][TaxAt(l)] =
                  [pending |-> seen[l].pending, short |-> ~Covered(l)]]
  /\ NextTurn(l)
  /\ MarkIfCovered(l)
  /\ UNCHANGED <<event, balance, alerts, lodgment, transfers, plans,
                 seen, history>>

Failed(l) == \E t \in TaxTypes : result[l][t].short

(* createTransferInstruction: the amount that was pending at verification *)
Instruction(l, t) == [lodgment |-> l, tax |-> t, amount |-> result[l][t].pending]

QueueTransferBug(l) ==
  /\ Goto(l, "queue", "plan")
  /\ transfers' = IF Failed(l) THEN transfers
                  ELSE transfers \cup {Instruction(l, TaxAt(l))}
  /\ NextTurn(l)
  /\ UNCHANGED <<event, obligation, balance, alerts, lodgment, plans,
                 seen, result, history>>
QueueTransfer(l) ==
  /\ Goto(l, "queue", IF LastTurn(l) THEN "plan" ELSE "queue")
  /\ transfers' = IF Failed(l) THEN transfers
                  ELSE transfers \cup {Instruction(l, TaxAt(l))}
  /\ NextTurn(l)
  /\ UNCHANGED <<event, obligation, balance, alerts, lodgment, plans,
                 seen, result, history>>

RequestPlan(l) ==
  /\ Goto(l, "plan", "finalise")
  /\ plans' = IF Failed(l) THEN plans \cup {l} ELSE plans
  /\ UNCHANGED <<event, obligation, balance, alerts, lodgment, transfers,
                 seen, turn, result, history>>

FinaliseLodgment(l) ==
  /\ Goto(l, "finalise", "audit")
  /\ lodgment' = [lodgment EXCEPT ![l] = IF Failed(l) THEN "failed" ELSE "success"]
  /\ UNCHANGED <<event, obligation, balance, alerts, transfers, plans,
                 seen, turn, result, history>>

(* recordCriticalAuditLog and the reply *)
AuditLodgment(l) ==
  /\ Goto(l, "audit", "done")
  /\ Forget(l)
  /\ UNCHANGED <<db, history>>

(* A statement fails or the process dies: what is committed stays.         *)
Fail(h) ==
  /\ pc[h] \notin Over
  /\ pc' = [pc EXCEPT ![h] = "failed"]
  /\ Forget(h)
  /\ UNCHANGED <<db, history>>

AllOver ==
  /\ \A h \in Handlers : pc[h] \in {"done", "failed"}
  /\ UNCHANGED vars

EventStep(e) ==
  \/ RecordEvent(e) \/ Deposit(e) \/ RecordObligation(e)
  \/ AggregateObligations(e) \/ FetchAccount(e) \/ EventVerified(e)
  \/ RecordShortfall(e) \/ CheckExpected(e) \/ MarkProcessed(e)

LodgmentStep(l) ==
  \/ OpenLodgment(l)
  \/ AggregateObligations(l) \/ FetchAccount(l) \/ LodgmentVerified(l)
  \/ QueueTransfer(l) \/ RequestPlan(l) \/ FinaliseLodgment(l) \/ AuditLodgment(l)

Next ==
  \/ \E e \in Events : EventStep(e)
  \/ \E l \in Lodgments : LodgmentStep(l)
  \/ \E h \in Handlers : Fail(h)
  \/ AllOver

Spec == Init /\ [][Next]_vars

(* the event loop of each process runs on and the database answers *)
FairSpec ==
  /\ Spec
  /\ \A e \in Events : WF_vars(EventStep(e))
  /\ \A l \in Lodgments : WF_vars(LodgmentStep(l))
-----------------------------------------------------------------------------
HandlerStates ==
  {"idle", "received", "deposited", "verify", "summed", "compared", "checked",
   "alerted", "verified", "queue", "plan", "finalise", "audit", "done", "failed"}

Alerts == [event : Events, reason : {"shortfall", "expected"}]
Instructions == [lodgment : Lodgments, tax : TaxTypes, amount : Nat]

(* Type invariant of the tables and of the handlers' local state. *)
TypeOK ==
  /\ event \in [Events -> {"none", "pending", "processed"}]
  /\ obligation \in [Events -> {"none", "pending", "verified"}]
  /\ balance \in [TaxTypes -> Nat]
  /\ alerts \subseteq Alerts
  /\ transfers \subseteq Instructions
  /\ plans \subseteq Lodgments
  /\ lodgment \in [Lodgments -> {"none", "in_progress", "success", "failed"}]
  /\ pc \in [Handlers -> HandlerStates]
  /\ seen \in [Handlers -> [pending : Nat, balance : Nat]]
  /\ turn \in [Lodgments -> 1..2]
  /\ result \in [Lodgments -> [TaxTypes -> [pending : Nat, short : BOOLEAN]]]
  /\ deposited \subseteq Events
  /\ owed \in [Lodgments -> SUBSET Events]
  /\ asked \in [Lodgments -> [TaxTypes -> SUBSET Events]]
  /\ crowded \subseteq Lodgments \X TaxTypes

(* Whatever handlers fail or interleave, each account holds at least what  *)
(* was ever recorded against it: money comes before the obligation.        *)
Secured == \A t \in TaxTypes : balance[t] >= Total(OfTax(Recorded, t))

(* The sum and the balance are read by two statements; still no            *)
(* verification ever finds less money than obligations.  So no event       *)
(* raises a shortfall alert and no lodgment is refused.                    *)
NoShortfall ==
  /\ \A a \in alerts : a.reason # "shortfall"
  /\ plans = {}
  /\ \A l \in Lodgments : lodgment[l] # "failed"

(* An event is reported processed only once its money is in the account    *)
(* and its obligation has been verified, by whichever handler marked it.   *)
ProcessedIsVerified ==
  \A e \in Events : event[e] = "processed" =>
    e \in deposited /\ obligation[e] = "verified"

(* A finished lodgment has either one instruction per tax type or a        *)
(* payment plan, never both, and every instruction was covered.            *)
LodgmentComplete ==
  /\ \A l \in Lodgments :
       LET mine == {i \in transfers : i.lodgment = l} IN
       /\ lodgment[l] = "success" => {i.tax : i \in mine} = TaxTypes /\ l \notin plans
       /\ lodgment[l] = "failed" => mine = {} /\ l \in plans
  /\ \A i \in transfers : i.amount <= balance[i.tax]

(* A lodgment that succeeds has seen to every obligation on record when it *)
(* began: it picks up what event handlers that were cut short left pending.*)
OwedVerified ==
  \A l \in Lodgments : lodgment[l] = "success" =>
    \A e \in owed[l] : obligation[e] = "verified"

(* However lodgments overlap and die, those that summed nothing which      *)
(* another one had summed and was still to mark never ask together for     *)
(* more than was recorded: they remit no obligation twice.  Each of the    *)
(* others asks, for itself, for no more than was recorded.                 *)
Ordered(t) == {i \in transfers : i.tax = t}
Alone(t) == {i \in Ordered(t) : <<i.lodgment, t>> \notin crowded}
InstructionCents(S) == UNION {{i} \X (1..i.amount) : i \in S}
Remitted(S) == Cardinality(InstructionCents(S))
NotOverRemitted ==
  \A t \in TaxTypes :
    /\ Remitted(Alone(t)) <= Total(OfTax(Recorded, t))
    /\ \A i \in Ordered(t) : i.amount <= Total(OfTax(Recorded, t))

(* A lodgment that succeeds has initiated the transfer of everything that  *)
(* was recorded when it began (10-product-requirements.md, R-005).         *)
LodgmentRemits ==
  \A l \in Lodgments : lodgment[l] = "success" =>
    \A t \in TaxTypes : Remitted(Ordered(t)) >= Total(OfTax(owed[l], t))

(* A recorded obligation is verified unless its own handler is cut short,  *)
(* even if other handlers verify or fail meanwhile.                        *)
ObligationsVerified ==
  \A e \in Events :
    obligation[e] = "pending" ~> (obligation[e] = "verified" \/ pc[e] = "failed")
=============================================================================
