------------------------- MODULE DesignatedAccounts -------------------------
(***************************************************************************)
(* The designated PAYGW and GST accounts of one organisation: contributions*)
(* recorded behind the idempotency guard (shared/src/ledger/ingest.ts,     *)
(* shared/src/idempotency.ts), the nightly worker that transfers them      *)
(* (worker/src/jobs/designated-reconciliation.ts), credits and debits of   *)
(* the banking providers (providers/banking/base.ts), all of which go      *)
(* through applyDesignatedAccountTransfer (packages/domain-policy/src/     *)
(* designated-accounts.ts), and the coverage check of shared/src/ledger/   *)
(* designated-account.ts.  Each await is one auto-committed statement.     *)
(***************************************************************************)
EXTENDS Integers, Sequences, FiniteSets

CONSTANTS
  Submissions,    \* calls of recordPayrollContribution / recordPosTransaction
  Captures,       \* calls of a banking provider
  Debits,         \* those of simulateDebitAttempt
  Workers,        \* processes running the nightly job, again and again
  KeyOf,          \* idempotency key of a submission
  AccountOf,      \* account of a submission or capture
  AmountOf,       \* its amount
  MaxWrite,       \* capabilities.maxWriteCents
  Required,       \* paygwRequired and gstRequired of the latest BasCycle
  Deployments,    \* the ways the parts are put together, see Wirings
  MaxRepeats,     \* bounds the transfers of one contribution
  MaxCrashes      \* bounds the transfers and runs that are cut short

Accounts == {"PAYGW_BUFFER", "GST_BUFFER"}
Origins == Submissions \cup Captures
Keys == {KeyOf[s] : s \in Submissions}

(* transfer: the job passes applyTransfer (the repository's does not);     *)
(* logger: the auditLogger of workers and providers, absent, the plain     *)
(* function they declare and pass, or the object domain-policy calls;      *)
(* actor: the client takes a DesignatedTransfer's actorId, which the       *)
(* repository's schema does not have and the client of the tests accepts.  *)
Wirings ==
  [transfer : BOOLEAN, logger : {"absent", "function", "object"}, actor : BOOLEAN]

ASSUME DesignatedAssumption ==
  /\ Submissions \cap Captures = {} /\ Workers \cap Origins = {}
  /\ Debits \subseteq Captures
  /\ IsFiniteSet(Workers) /\ IsFiniteSet(Captures)
  /\ \A o \in Origins : AccountOf[o] \in Accounts /\ AmountOf[o] \in Nat
  /\ \A s \in Submissions : s \in DOMAIN KeyOf
  /\ MaxWrite \in Nat /\ Required \in [Accounts -> Nat]
  /\ Deployments \subseteq Wirings
  /\ MaxRepeats \in Nat /\ MaxCrashes \in Nat

VARIABLES
  deployment,     \* the wiring, which never changes
  entries,        \* keys with an IdempotencyEntry
  rows,           \* PayrollContribution and PosTransaction rows, by createdAt
  appliedBy,      \* the workers that have set a row's appliedAt
  balance,        \* DesignatedAccount.balance
  moved,          \* number of DesignatedTransfer rows of each origin
  alerts, locked, \* accounts with a shortfall alert; with locked = true
  pc,             \* where each call and each worker is
  todo,           \* the pending rows a worker has listed and not yet applied
  origin,         \* the contribution or capture a transfer is for; a worker
                  \* between two transfers is its own
  current,        \* currentBalance, as read by the transfer
  checking,       \* the account whose coverage the worker checks
  certified,      \* workers whose last run produced the artefact
  crashes,
  raced,          \* history: accounts on which two transfers overlapped, each
                  \* between its read of the balance and its write
  stray,          \* history: transfers of each origin that ended with the
                  \* balance written and no transfer row
  unmarked        \* history: those that ended after the row, before the mark
                  \* or the answer

records == <<entries, rows, appliedBy>>
money == <<balance, moved>>
flags == <<alerts, locked>>
history == <<raced, stray, unmarked>>
tables == <<records, money, flags, history>>
transfer == <<origin, current>>
job == <<todo, checking, certified>>
local == <<transfer, job>>
world == <<deployment, crashes>>
vars == <<tables, local, world, pc>>

Movers == Workers \cup Captures
Actors == Movers \cup Submissions

RowSet == {rows[i] : i \in DOMAIN rows}
applied == {s \in Submissions : appliedBy[s] # {}}
Pending(a) == {s \in RowSet : AccountOf[s] = a /\ s \notin applied}

(* payroll contributions before POS transactions, each by createdAt *)
Ahead(s, t) ==
  IF AccountOf[s] = AccountOf[t]
  THEN \E i, j \in DOMAIN rows : rows[i] = s /\ rows[j] = t /\ i < j
  ELSE AccountOf[s] = "PAYGW_BUFFER"
-----------------------------------------------------------------------------
Init ==
  /\ deployment \in Deployments
  /\ entries = {} /\ rows = <<>>
  /\ appliedBy = [s \in Submissions |-> {}]
  /\ balance = [a \in Accounts |-> 0]
  /\ moved = [o \in Origins |-> 0]
  /\ alerts = {} /\ locked = {} /\ certified = {}
  /\ pc = [h \in Actors |-> "idle"]
  /\ todo = [w \in Workers |-> {}]
  /\ origin = [h \in Movers |-> h]
  /\ current = [h \in Movers |-> 0]
  /\ checking = [w \in Workers |-> "PAYGW_BUFFER"]
  /\ crashes = 0 /\ raced = {}
  /\ stray = [o \in Origins |-> 0] /\ unmarked = [o \in Origins |-> 0]

Goto(h, from, to) == pc[h] = from /\ pc' = [pc EXCEPT ![h] = to]

(* withIdempotency: an entry found is a replay, answered 409 *)
Known(s) == KeyOf[s] \in entries

FindEntry(s) ==
  /\ Goto(s, "idle", IF Known(s) THEN "conflict" ELSE "fresh")
  /\ UNCHANGED <<tables, local, world>>

(* the shell entry; a second one violates the primary key and throws *)
CreateOwnEntryBug(s) ==
  /\ Goto(s, "fresh", IF Known(s) THEN "failed" ELSE "entered")
  /\ entries' = entries \cup {s}
  /\ UNCHANGED <<rows, appliedBy, money, flags, history, local, world>>
CreateEntryBug(s) ==
  /\ Goto(s, "fresh", "entered")
  /\ entries' = entries \cup {KeyOf[s]}
  /\ UNCHANGED <<rows, appliedBy, money, flags, history, local, world>>
CreateEntry(s) ==
  /\ Goto(s, "fresh", IF Known(s) THEN "failed" ELSE "entered")
  /\ entries' = entries \cup {KeyOf[s]}
  /\ UNCHANGED <<rows, appliedBy, money, flags, history, local, world>>

(* the handler: the contribution's row *)
CreateRow(s) ==
  /\ Goto(s, "entered", "recorded")
  /\ rows' = Append(rows, s)
  /\ UNCHANGED <<entries, appliedBy, money, flags, history, local, world>>

(* the entry's response is filled in, best effort, and the call returns *)
Answer(s) ==
  /\ Goto(s, "recorded", "ok")
  /\ UNCHANGED <<tables, local, world>>
-----------------------------------------------------------------------------
(* applyDesignatedAccountTransfer, on behalf of a worker or a capture *)
Amount(o) == IF o \in Debits THEN -AmountOf[o] ELSE AmountOf[o]

Writing(h, a) == pc[h] = "write" /\ AccountOf[origin[h]] = a

ReadBalance(h) ==
  LET a == AccountOf[origin[h]] IN
  /\ Goto(h, "transfer", "write")
  /\ current' = [current EXCEPT ![h] = balance[a]]
  /\ raced' = IF \E g \in Movers \ {h} : Writing(g, a) THEN raced \cup {a} ELSE raced
  /\ UNCHANGED <<records, money, flags, stray, unmarked, origin, job, world>>

WriteBalanceBug(h) ==
  /\ Goto(h, "write", "record")
  /\ balance' = [balance EXCEPT ![AccountOf[origin[h]]] = Amount(origin[h])]
  /\ UNCHANGED <<records, moved, flags, history, local, world>>
WriteBalance(h) ==
  /\ Goto(h, "write", "record")
  /\ balance' = [balance EXCEPT ![AccountOf[origin[h]]] = current[h] + Amount(origin[h])]
  /\ UNCHANGED <<records, moved, flags, history, local, world>>

(* the transfer of h ends where it is: history only *)
Ended(h) ==
  /\ stray' = IF pc[h] = "record" THEN [stray EXCEPT ![origin[h]] = @ + 1] ELSE stray
  /\ unmarked' = IF pc[h] \in {"audit", "mark"}
                 THEN [unmarked EXCEPT ![origin[h]] = @ + 1] ELSE unmarked

(* a client that does not know the column refuses the row *)
RecordTransfer(h) ==
  /\ \/ /\ deployment.actor
        /\ Goto(h, "record", "audit")
        /\ moved' = [moved EXCEPT ![origin[h]] = @ + 1]
        /\ UNCHANGED <<stray, unmarked>>
     \/ /\ ~deployment.actor
        /\ Goto(h, "record", "failed")
        /\ Ended(h) /\ UNCHANGED moved
  /\ UNCHANGED <<records, balance, flags, raced, local, world>>

(* auditLogger?.log(...): a function has no log, and the call throws *)
AuditTransfer(h) ==
  /\ \/ /\ deployment.logger # "function"
        /\ Goto(h, "audit", IF h \in Workers THEN "mark" ELSE "ok")
        /\ UNCHANGED <<stray, unmarked>>
     \/ /\ deployment.logger = "function"
        /\ Goto(h, "audit", "failed")
        /\ Ended(h)
  /\ UNCHANGED <<records, money, flags, raced, local, world>>

TransferStep(h) ==
  ReadBalance(h) \/ WriteBalance(h) \/ RecordTransfer(h) \/ AuditTransfer(h)

(* creditDesignatedAccount checks the amount, simulateDebitAttempt does not *)
Acceptable(c) == c \in Debits \/ (AmountOf[c] > 0 /\ AmountOf[c] <= MaxWrite)

Capture(c) ==
  /\ Goto(c, "idle", IF Acceptable(c) THEN "transfer" ELSE "failed")
  /\ UNCHANGED <<tables, local, world>>
-----------------------------------------------------------------------------
(* The nightly job: the rows still pending when it starts *)
StartRun(w) ==
  /\ Goto(w, "idle", "listed")
  /\ todo' = [todo EXCEPT ![w] = Pending("PAYGW_BUFFER")]
  /\ certified' = certified \ {w}
  /\ UNCHANGED <<tables, transfer, checking, world>>

ListPos(w) ==
  /\ Goto(w, "listed", "next")
  /\ todo' = [todo EXCEPT ![w] = @ \cup Pending("GST_BUFFER")]
  /\ UNCHANGED <<tables, transfer, checking, certified, world>>

(* applyContribution of the first row: the lookup of its account may fail, *)
(* and without applyTransfer the call throws.                              *)
NextContribution(w) ==
  /\ \E s \in todo[w] :
       /\ \A t \in todo[w] \ {s} : Ahead(s, t)
       /\ origin' = [origin EXCEPT ![w] = s]
       /\ \/ /\ deployment.transfer /\ moved[s] + stray[s] < MaxRepeats
             /\ Goto(w, "next", "transfer")
          \/ Goto(w, "next", "failed")
  /\ UNCHANGED <<tables, current, job, world>>

MarkAppliedBug(w) ==
  /\ Goto(w, "mark", "next")
  /\ todo' = [todo EXCEPT ![w] = @ \ {origin[w]}]
  /\ UNCHANGED <<tables, transfer, checking, certified, world>>
MarkApplied(w) ==
  /\ Goto(w, "mark", "next")
  /\ appliedBy' = [appliedBy EXCEPT ![origin[w]] = @ \cup {w}]
  /\ todo' = [todo EXCEPT ![w] = @ \ {origin[w]}]
  /\ UNCHANGED <<entries, rows, money, flags, history, transfer, checking, certified, world>>

(* ensureDesignatedAccountCoverage, PAYGW first; a cycle that is missing   *)
(* requires nothing.                                                       *)
StartCoverage(w) ==
  /\ todo[w] = {}
  /\ Goto(w, "next", "cover")
  /\ checking' = [checking EXCEPT ![w] = "PAYGW_BUFFER"]
  /\ UNCHANGED <<tables, transfer, todo, certified, world>>

ShortBug(a) == Required[a] > balance[a] + 1
Short(a) == Required[a] > balance[a]

CoveredAccount(w) ==
  /\ ~Short(checking[w])
  /\ Goto(w, "cover", IF checking[w] = "GST_BUFFER" THEN "artefact" ELSE "cover")
  /\ checking' = [checking EXCEPT ![w] = "GST_BUFFER"]
  /\ UNCHANGED <<tables, transfer, todo, certified, world>>

FindShort(w) ==
  /\ Short(checking[w])
  /\ Goto(w, "cover", "short")
  /\ UNCHANGED <<tables, local, world>>

RaiseAlertOnceBug(w) ==
  /\ Goto(w, "short", "alerted")
  /\ alerts' = IF alerts = {} THEN {checking[w]} ELSE alerts
  /\ UNCHANGED <<records, money, locked, history, local, world>>
RaiseAlert(w) ==
  /\ Goto(w, "short", "alerted")
  /\ alerts' = alerts \cup {checking[w]}
  /\ UNCHANGED <<records, money, locked, history, local, world>>

(* markAccountLocked, and the conflict that ends the organisation's run *)
LockAccount(w) ==
  /\ Goto(w, "alerted", "failed")
  /\ locked' = locked \cup {checking[w]}
  /\ UNCHANGED <<records, money, alerts, history, local, world>>

Artefact(w) ==
  /\ Goto(w, "artefact", "finished")
  /\ certified' = certified \cup {w}
  /\ UNCHANGED <<tables, transfer, todo, checking, world>>

(* the process ends, finished or failed, and cron starts it the next night *)
NextNight(w) ==
  /\ pc[w] \in {"finished", "failed"}
  /\ pc' = [pc EXCEPT ![w] = "idle"]
  /\ todo' = [todo EXCEPT ![w] = {}]
  /\ origin' = [origin EXCEPT ![w] = w]
  /\ current' = [current EXCEPT ![w] = 0]
  /\ UNCHANGED <<tables, checking, certified, world>>

Over == {"idle", "ok", "conflict", "failed", "finished"}

(* a statement fails, or the process dies *)
Crash(h) ==
  /\ pc[h] \notin Over
  /\ pc' = [pc EXCEPT ![h] = "failed"]
  /\ \/ h \in Movers /\ crashes < MaxCrashes /\ crashes' = crashes + 1 /\ Ended(h)
     \/ h \in Submissions /\ UNCHANGED <<crashes, stray, unmarked>>
  /\ UNCHANGED <<records, money, flags, raced, local, deployment>>

SubmissionStep(s) == FindEntry(s) \/ CreateEntry(s) \/ CreateRow(s) \/ Answer(s)
CaptureStep(c) == Capture(c) \/ TransferStep(c)
WorkerStep(w) ==
  \/ StartRun(w) \/ ListPos(w) \/ NextContribution(w) \/ TransferStep(w)
  \/ MarkApplied(w) \/ StartCoverage(w) \/ CoveredAccount(w)
  \/ FindShort(w) \/ RaiseAlert(w) \/ LockAccount(w) \/ Artefact(w) \/ NextNight(w)

Next ==
  \/ \E s \in Submissions : SubmissionStep(s)
  \/ \E c \in Captures : CaptureStep(c)
  \/ \E w \in Workers : WorkerStep(w)
  \/ \E h \in Actors : Crash(h)

Spec == Init /\ [][Next]_vars

(* cron runs the job every night and each run goes on to its end *)
FairSpec ==
  /\ Spec
  /\ \A s \in Submissions : WF_vars(SubmissionStep(s))
  /\ \A c \in Captures : WF_vars(CaptureStep(c))
  /\ \A w \in Workers : WF_vars(WorkerStep(w))
-----------------------------------------------------------------------------
Stages ==
  {"idle", "fresh", "entered", "recorded", "conflict", "ok", "failed", "listed",
   "next", "transfer", "write", "record", "audit", "mark", "cover", "short",
   "alerted", "artefact", "finished"}

(* Type invariant. *)
TypeOK ==
  /\ deployment \in Deployments
  /\ entries \subseteq Keys /\ rows \in Seq(Submissions)
  /\ appliedBy \in [Submissions -> SUBSET Workers]
  /\ balance \in [Accounts -> Int] /\ moved \in [Origins -> Nat]
  /\ alerts \subseteq Accounts /\ locked \subseteq Accounts
  /\ pc \in [Actors -> Stages]
  /\ todo \in [Workers -> SUBSET Submissions]
  /\ origin \in [Movers -> Origins \cup Workers] /\ current \in [Movers -> Int]
  /\ checking \in [Workers -> Accounts] /\ certified \subseteq Workers
  /\ crashes \in 0..MaxCrashes /\ raced \subseteq Accounts
  /\ stray \in [Origins -> Nat] /\ unmarked \in [Origins -> Nat]

(* Submissions retried or sent twice at once leave one contribution per    *)
(* key, and one that is answered ok has its own row.                       *)
OneRowPerKey ==
  /\ \A i, j \in DOMAIN rows : KeyOf[rows[i]] = KeyOf[rows[j]] => i = j
  /\ \A s \in Submissions : pc[s] = "ok" => s \in RowSet

(* Only what was recorded is transferred, and marked applied only after.   *)
(* Nightly runs, overlapping or not, transfer a contribution once for each *)
(* worker at most, and once more for each transfer that ended before its   *)
(* mark; where the audit logger does not throw, only a death ends it there.*)
Unmarked == UNION {{s} \X (1..unmarked[s]) : s \in Submissions}
TransferredOnce ==
  /\ \A s \in Submissions :
       /\ s \in applied => moved[s] > 0
       /\ moved[s] > 0 => s \in RowSet
       /\ moved[s] <= unmarked[s] + Cardinality(Workers)
  /\ deployment.logger # "function" => Cardinality(Unmarked) <= crashes

(* An account on which no transfers overlapped holds what its transfer     *)
(* rows add up to, and the amounts of those that have no row, because they *)
(* are under way or ended half way: by a death or a client that refuses    *)
(* the row.  Where nobody debits, an overlap loses money and makes none.   *)
Written(o) ==
  moved[o] + stray[o] + Cardinality({h \in Movers : pc[h] = "record" /\ origin[h] = o})
Cents(S, a) ==
  UNION {({o} \X (1..Written(o))) \X (1..AmountOf[o]) : o \in {p \in S : AccountOf[p] = a}}
Transferred(a) == Cardinality(Cents(Origins \ Debits, a)) - Cardinality(Cents(Debits, a))
BalanceIsTransfers ==
  /\ \A a \in Accounts \ raced : balance[a] = Transferred(a)
  /\ \A a \in Accounts \ {AccountOf[d] : d \in Debits} : balance[a] <= Transferred(a)
  /\ deployment.actor /\ crashes = 0 => \A o \in Origins : stray[o] = 0

(* An organisation whose last run produced the artefact still covers what  *)
(* the BAS cycle requires, whatever arrives in the meantime, except on an  *)
(* account that a debit attempt lowered or transfers raced for.            *)
Debited(a) == \E d \in Debits : AccountOf[d] = a /\ Written(d) > 0
CertifiedCovered ==
  certified # {} => \A a \in Accounts : balance[a] >= Required[a] \/ Debited(a) \/ a \in raced

(* Designated accounts are deposit-only: no step lowers a balance.         *)
DepositOnly == [][\A a \in Accounts : balance'[a] >= balance[a]]_balance

(* Every contribution that is recorded is applied by some later run.       *)
AppliedEventually == \A s \in Submissions : s \in RowSet ~> s \in applied

(* However the parts are put together, a shortfall that lasts while every  *)
(* contribution is applied has an alert, and the account is locked: the    *)
(* GST account's once PAYGW is covered, where the check stops before.      *)
Uncovered(a) ==
  /\ RowSet \subseteq applied /\ Short(a)
  /\ a = "GST_BUFFER" => ~Short("PAYGW_BUFFER")
ShortfallAlerted ==
  \A a \in Accounts : <>[]Uncovered(a) => <>(a \in alerts /\ a \in locked)
=============================================================================
