# A formal model of APGMS

APGMS secures the PAYGW and GST an organisation withholds or collects, keeps
books about it and prepares its Business Activity Statement (BAS). This
directory holds TLA+ modules that model its core and the services around it,
the TLC instances that model-check them, and theorems about them with proofs
checked by TLAPS. It is to be kept beside the code; section 7 says what it
leaves out and section 8 what could follow.

Every definition is translated from `src/`; `PROJECT.json` names, for each
definition, the lines it stands for.

## 1. Inventory

The repository is a TypeScript monorepo: Fastify services, packages with the
domain logic, a worker started by cron, a PostgreSQL database reached through
Prisma, and an optional NATS broker. The components share the database; a few
keep state in the memory of their process. No component takes an explicit lock.

### 1.1 Books and money

**Journal writer** (`packages/ledger/src/journalWriter.ts`).
State: tables `Journal` and `Posting`, unique on `(orgId, seq)` and
`(orgId, dedupeId)`. One operation, `write`: validate that the postings
balance, open a transaction, read the row with the highest `seq`, insert the
next row chained to it by `hash` and `prevHash`, and on a unique violation look
the `dedupeId` up and return the existing row.
Hard: concurrent writers, retries, a commit whose answer is lost.
Correct when the sequence has no gap, the chain covers it, every `dedupeId` is
journalled once, accounts add up to zero, and callers are told the truth.

**Tax obligations and BAS lodgment** (`services/api-gateway/src/routes/
integration-events.ts` and `bas.ts`, with `shared/src/ledger/*`).
State: `IntegrationEvent`, `IntegrationObligation`, `OneWayAccount`,
`DiscrepancyAlert`, `BasLodgment`, `TransferInstruction`, `PaymentPlanRequest`.
The event handler records the event, deposits its amount in the one-way account
of the tax type, records the obligation, verifies the tax type (sum of pending
obligations against the balance, then mark them), raises alerts and marks the
event processed. The lodgment handler opens a lodgment, verifies each tax type,
queues transfers or requests a payment plan, and finalises.
Hard: about ten statements per call and no transaction, so calls interleave and
stop between any two of them.
Correct when money precedes obligations, no verification is wrong, a lodgment is
complete, nothing is remitted twice and nothing owed is forgotten.

**Designated accounts** (`shared/src/ledger/ingest.ts`,
`shared/src/idempotency.ts`, `packages/domain-policy/src/
designated-accounts.ts`, `providers/banking/base.ts`,
`worker/src/jobs/designated-reconciliation.ts`,
`shared/src/ledger/designated-account.ts`).
State: `IdempotencyEntry`, `PayrollContribution`, `PosTransaction`,
`DesignatedAccount`, `DesignatedTransfer`, `Alert`. Contributions are recorded
behind an idempotency guard; a nightly job transfers the pending ones, checks
that each account covers the BAS cycle and produces an artefact; banking
providers credit accounts and simulate debits.
Hard: read and write-back of a balance in two statements, a job that may die
between a transfer and `appliedAt`, retried submissions.
Correct when there is one contribution per key, each is transferred once and
eventually, balances equal their transfers and never fall. Not all of that holds
of the repository as it is put together (sections 3 and 6).

**Tax ledger** (`packages/domain-policy/src/ledger/tax-ledger.ts`).
State: `TaxLedgerEntry`, one hash chain per category. `appendLedgerEntry` reads
the newest row of the category by `createdAt` and inserts the next in one
transaction; `verifyLedgerChain` walks the rows by `createdAt`.
Hard: nothing but `createdAt` orders the rows, and nothing is unique.
Correct when an unaltered ledger verifies and an altered row is found.

These four do not call each other. They belong to the same organisation, but no
table that decides what one of them does is written by another: the common ones
(`Alert`, the audit log) are only added to, and the rows of
`IdempotencyEntry` meet only if two routes are sent the same key, which the
models take not to happen. That is why they are modelled one by one.

### 1.2 The gateway's guarded requests

**Idempotency, bank lines, transfers** (`services/api-gateway/src/lib/
idempotency.ts`, `routes/bank-lines.ts`, `routes/transfers.ts`).
State: `IdempotencyEntry`, unique on organisation and key; `TransferInstruction`.
`withIdempotency` looks the key up, inserts an entry, runs the handler and stores
its answer by an update whose error is swallowed. Bank lines look the key up
first, to replay the stored answer; the transfer route marks the instruction as
sent and writes a critical audit record.
Hard: requests with one key between lookup and insert, handlers that fail after
the claim, an audit record that fails after the transfer was marked.
Correct when a key is performed once, every answer agrees with it and every
transfer marked as sent is on the audit trail or its caller knows of an error.

**Audit trail** (`lib/audit.ts`).
State: `AuditLog`, each record chained by hash to the newest. A read, an insert,
no transaction, nothing unique; errors are swallowed except of critical records.
The transfer route calls it, so `Gateway` contains an instance of its module.
Correct when each record descends from one that exists, records that do not
overlap form one chain, and a critical record reported written is there.

**BAS finalise** (`routes/bas-settlement.ts`, `service-mode.ts`).
State, in the memory of the process: settlements, their counter, an idempotency
store that shares work in flight and forgets after 24 hours, the service mode.
Hard: sharing, expiry, restarts.
Correct when a key has one settlement as long as it is remembered and no
instruction id is given twice.

**BAS settlement instructions** (`packages/domain-policy/src/settlement/
bas-settlement.ts`, `obligations/*`).
State: `SettlementInstruction`, `PayToAgreement`, `TrustAccount`, mandates at the
bank. What is owed and what was remitted are read by three statements, a mandate
is asked for, then three rows are created in one transaction; the status updates
have no guard.
Correct when no instruction asks for more than was payable, no mandate is lost
without an error, and preparing does persist.

**Tax engines** (`packages/domain-policy/src/au-tax/*`, `shared/src/tax`).
Pure: withholding from a bracket table with its rounding, GST of lines, due
dates. Correct when they equal a reference.

### 1.3 Services of their own

**Admin jobs** (`services/api-gateway/src/admin/adminJobService.ts`): a queue and
slots in memory, child processes, timeouts. Hard: children that fail, hang or
never close their pipes, errors writing the log. Correct when slots neither leak
nor double, no wake-up is lost, and every job ends.

**Event bus** (`shared/src/messaging/nats-bus.ts`): one durable JetStream
consumer per group, explicit acknowledgement. Hard: redelivery, failing handlers,
lost acknowledgements, crashed members. Correct when every event is handled and
repetitions are due to faults only.

**Regulation watcher** (`packages/regwatcher`): sweeps over web pages, snapshots
and change events in files. Hard: a crash between the two, a full disk, pages
that cannot be fetched. Correct when a lost event leaves a visible gap and no
change is lost.

The remaining parts (payment-plan routes, step-up sessions, outcome expressions
and evidence serialisation, reports, authentication, configuration, onboarding
and demo routes, connectors, stub services, web applications) are not modelled;
section 7 and `PROJECT.json` say why of each.

## 2. How code becomes TLA+

- *A process is a call.* An element of `Calls`, `Events`, `Lodgments`,
  `Submissions`, `Captures`, `Workers`, `Appends`, `Lines`, `Sends`, `Records` or
  `Jobs` is one invocation (a worker and the sweep of the regulation watcher
  repeat). `pc` says where it is; its other local variables
  are what the code holds across an `await`.
- *An action is a statement.* Code between two awaits runs without
  interruption and a Prisma call outside a transaction is one auto-committed
  SQL statement. So a handler is a chain of actions, one per await, any of
  which may be interleaved with those of others and after any of which the call
  may stop (`Fail`, `Crash`, `Abort`). What a call's failure means in the code
  (an exception answered as 500) and the death of its process look the same to
  the tables.
- *Transactions are READ COMMITTED*, PostgreSQL's default: a read sees
  committed rows, an uncommitted row blocks only inserts that conflict with it.
- *Hashes are injective.* A SHA-256 value is the sequence of the inputs chained
  so far; two hashes are equal exactly when the histories are.
- *Cents are naturals* or integers in a small set. Sums over tables are
  `Total` (cent by cent, which TLAPS can reason about) or the folds of the
  community modules.
- *Code that keeps its state in memory* (`Finalise`, `AdminJobs`) does between
  two awaits all it does in one action; the pump of the admin jobs, which starts
  several tasks, is part of the action that calls it.
- *Time* exists where it decides something: in `TaxLedger` and `AuditTrail`,
  where `createdAt` orders the rows (it may be any millisecond between the begin
  of the call and the insert), and in `Finalise`, where entries expire. Other
  timers fire at any moment.
- Left out: logging, wording, masking, metrics, HTTP status codes other than
  the outcome they stand for.

## 3. Modules

| module | code | contents |
|---|---|---|
| `Journal` | `journalWriter.ts` | `FindLast`, `Create`, `UniqueViolation`, `FindExisting`, `Commit`, lost answers and crashes |
| `DedupeLog` | abstract | what a journal promises: an atomic, totally ordered log with unique keys |
| `Obligations` | event and lodgment handlers | one action per statement of both, `Fail` anywhere |
| `DesignatedAccounts` | ingestion, job, providers | `FindEntry` .. `Answer`, `TransferStep`, `StartRun` .. `Artefact`, `NextNight`, `Crash` |
| `TaxLedger` | `tax-ledger.ts` | `Begin`, `FindLast`, `Insert`, `Commit`, `Abort`, the clock, a change behind the program's back, and `verifyLedgerChain` as `VerifyOk` over every order the rows may be returned in |
| `AuditTrail` | `lib/audit.ts` | `FindFirst`, `Create`, `Fail`, of critical and other records |
| `Gateway` | `lib/idempotency.ts`, `bank-lines.ts`, `transfers.ts` | one action per statement of both routes, over an instance of `AuditTrail` |
| `Finalise` | `routes/bas-settlement.ts`, `service-mode.ts` | `Blocked`, `Answered`, `Prepare`, `Complete`, `Share`, expiry, `SetMode`, `Restart` |
| `OncePerKey` | abstract | what an idempotency key promises: performed at most once, every answer agrees |
| `Settlement` | `settlement/bas-settlement.ts` | the reads of `owed` and `remitted` while rows arrive, the mandate, `Create`, unique violations, the status updates |
| `BasSettlements` | the two above | composition of `Finalise` and `Settlement`, the parts that settle a BAS |
| `Trails` | `lib/audit.ts` | the audit trail on its own, for handlers other than the transfer route |
| `TaxRules` | `au-tax/*`, `shared/src/tax` | withholding, rounding, GST, due dates, as operators and functions |
| `Reckoning` | the above | a question to one of the algorithms, its answer, and what it should have been |
| `AdminJobs` | `adminJobService.ts` | `Enqueue`, `Push`, the pump, `Exit`, `Timeout`, `Close`, `WriteLog`, `Finish`, `LogFails`, `Crash` |
| `EventBus` | `nats-bus.ts` | `Publish`, `Handle`, `Ack`, `Fail`, the server's `Deliver` and `Redeliver`, lost acknowledgements, crashes |
| `Regwatcher` | `run-once.ts`, `lib/http.ts`, `lib/store.ts` | a sweep, file operation by file operation, full disks, crashes, pages that change |
| `Services` | the three above | composition of `AdminJobs`, `EventBus` and `Regwatcher` |
| `MC*` | | the instances TLC checks |
| `JournalProofs`, `ObligationsProofs`, `DesignatedAccountsProofs`, `LedgersProofs`, `GatewayProofs`, `BasSettlementsProofs`, `ReckoningProofs`, `ServicesProofs` | | theorems and proofs about the module or composition of that name (`LedgersProofs` about `TaxLedger` and `Trails`) |

Some points where the correspondence is not obvious:

- `Journal!Waits`: an INSERT that conflicts with an uncommitted row waits for
  its owner to commit or roll back; `Conflicts` is the unique violation it then
  meets. `ErrorAborts` says what the client does with a transaction in which a
  statement failed: PostgreSQL aborts it, so the lookup in the catch block is an
  error; the client of the unit tests lets it go on.
- `Obligations!MarkStatus` marks every obligation that is pending *at the time
  of the UPDATE*, not those that were summed, as `updateMany` does.
- History variables are written, never read, by the actions:
  `Obligations!deposited`, `owed`, `asked` and `crowded`; `Finalise!issued`;
  `EventBus!effects`; `most`, `credited` and `faulted` of `Settlement`; `raced`,
  `stray` and `unmarked` of `DesignatedAccounts` (the guard that bounds the
  repetitions of a transfer reads `stray`); `TaxLedger!raced`.
- `DesignatedAccounts!deployment` says how the parts are put together, see
  below; it never changes. `AuditTransfer` is `auditLogger?.log(...)`: with no
  logger, or one that has a `log`, the transfer goes on; of the plain function
  that `ingest.ts:21-26` declares and the job passes, `log` is undefined and the
  call throws, after the balance and the transfer row were written.
- `DesignatedAccounts!origin` holds what a transfer is for; `todo` is the list
  `findMany` returned when the run started. `Ahead` is the order of the two
  queries, payroll before POS, each by `createdAt`.
- `TaxLedger!FindLast`, `AuditTrail!FindFirst`: of several newest rows any one
  may be returned.
- `Gateway!entry` holds, for a key, the call whose row it is. The row itself
  keeps the hash of the request, so two calls are compared by `BodyOf`.
- `Finalise!Prepare` is everything from the route's entry to its first await: the
  service-mode check, pruning, the lookup, the claim, the next id and the new
  settlement. Hence two requests meet only in `inflight` and `sharing`.
- `AdminJobs!limit` and `AuditTrail!overlap` never change: the first is the
  number of slots the process was configured with, the second whether records may
  overlap. They are variables so that one run has both kinds.
- `AdminJobs!Pump` is part of `Push` and of `Release`, as in the code; a slot
  is freed by `finally`, whatever the task's outcome.
- `EventBus!Deliver` and `Redeliver` are the NATS server, modelled from how
  the bus uses it and marked external.
- `Regwatcher!CutOff`: a process that dies, or a disk that is full, while the
  meta file is written may leave it cut off (`"torn"`); it is then the newest
  one and reads as no snapshot. The append of one line to `changes.ndjson` is
  taken as whole or not at all.
- `TaxRules!Floors`: a rate is a double, so `Math.floor` of a product that is a
  whole number in exact arithmetic may give the number below. Both outcomes
  are allowed.

### Conditions

Nothing the code does not ensure is assumed of how calls interleave. Where the
code lets an interleaving do harm, a history variable records that it happened,
and the properties say what holds nevertheless, and that everything else is
unharmed:

| history | records | what the properties then claim |
|---|---|---|
| `Obligations!crowded` | a lodgment summed pending obligations that another had summed and was still to mark | that one asks for no more than was recorded; all others together remit nothing twice |
| `DesignatedAccounts!raced` | two transfers of an account overlapped between read and write | the balance is at most what was transferred, where nobody debits; an account that has not raced holds exactly that |
| `DesignatedAccounts!stray`, `unmarked` | a transfer ended with the money written and no row, or with the row and no mark | each is counted: the first in the balance, the second in how often a contribution is transferred |
| `TaxLedger!raced` | two appends to a category overlapped or fell in one millisecond | each entry matches its hash and continues one that is there; other categories have one chain, which verifies |
| `Settlement!credited` | the GST owed fell after it was read and before the PAYGW was | the instruction exceeds what was payable by no more than that |

How the parts of the designated accounts are put together is a value of
`deployment`, because the repository's parts do not fit: the job passes no
`applyTransfer`; the logger it passes is a function where `domain-policy` calls a
method; `schema.prisma:502` has no `actorId`. `Deployments` holds the repository
as it is (the job reaches no transfer) and what it becomes as each
of these is repaired. The properties hold for all of them and the theorems for
every set of them.

Two parameters distinguish environments the repository itself has: PostgreSQL and
the client of the journal's unit tests (`Journal!ErrorAborts`), and audit records
that overlap or not (`AuditTrail!overlap`, for `InLine` only: if they overlap the
trail forks; every record still descends from one that exists, and no critical
one is lost).

## 4. What TLC checks

States and times are for two workers.

| run | instance | states | shows |
|---|---|---|---|
| `services` | scenes *journal*: 3 writers on PostgreSQL, 2 dedupe ids, balanced, unbalanced and empty postings; *jobs*: 3 jobs, 2 slots, one child that may hold its pipes for ever, one crash; *single*: 3 jobs, 1 slot; *bus*: 3 messages, one of which is never handled, 2 members, 2 faults; *watch*: a dead page before one that changes twice, 2 faults | 107 k, 55 s | `ChainIntact` (numbers 1..n and every hash covers what precedes it), `OncePerDedupe`, `AnswersTruthful`, `ImplementsLog`, `JournalAnswers`; `SlotsSound`, `JobsEnd`; `DeliverySound`, `HandledEventually`; `LogSound`, `CatchesUp` |
| `obligations` | 2 PAYGW events and 2 lodgments, at most three of them under way at once | 4.0 M, 117 s | `Secured`, `NoShortfall`, `ProcessedIsVerified`, `NotOverRemitted` |
| `designated` | casts: 2 workers over one contribution; a worker and a debit attempt; a worker and a provider's credit; a worker over a payroll submission sent twice and a POS transaction; each with one death and five deployments | 883 k, 27 s | `OneRowPerKey`, `TransferredOnce`, `BalanceIsTransfers`, `CertifiedCovered` |
| `ledger` | scenes *ledger*: 3 PAYGW entries and a GST debit, 3 milliseconds, overlapping in every way or not, one alteration; *trail*: 3 audit records, 2 of them critical, which overlap or not | 1.2 M, 54 s | `Untampered`, `TamperLocated`, `Linear`, `ChainGrows`, `TrailSound` |
| `live` | scenes *lodging*: a GST event and 2 overlapping lodgments; *nightly*: a payroll and a POS contribution, one death, three deployments; *writing*: 2 writers with the unit tests' client | 241 k, 125 s | `LodgmentComplete`, `OwedVerified`, `ObligationsVerified`, `ShortfallAlerted`, `RetryReturnsExisting` |
| `gateway` | scenes *requests*: 3 bank lines with one key, one asking for another amount, and 3 sends of one transfer, one of them with the lines' key, one with a wrong code; *finalising*: 4 requests on 2 keys, a key lives for a tick, one restart; *settling*: 2 instructions of one quarter while rows and credits arrive, one lost connection; *reckoning*: the tax algorithms | 1.4 M, 3 min | `RequestsSound`, `SentAccounted`, `ImplementsOncePerKey`; `FinaliseSound`, `FinaliseOncePerKey`; `SettlementSound`; `RulesMatchReference` |
| `journal_retry` | 2 writers on PostgreSQL | violation | a retry of a journalled id *fails* |
| `obligations_remit` | an event and a lodgment | violation | a successful lodgment does not remit what the events secured |
| `designated_worker` | the job as written | violation | no contribution is ever applied |
| `designated_debit` | a debit, with the repository's schema | violation | the balance falls |
| `ledger_race` | 2 appends to one category | violation | an unaltered ledger is rejected |
| `settlement_next` | 2 instructions of one organisation, no fault | violation | the second instruction is never persisted |

A type invariant is checked for every module, in the services and the gateway
as a conjunct of the soundness property of each component.

**Scenes.** Components that share no state are checked together: the initial
state chooses a scene, one component moves as its module says, and the
variables of the others keep an initial value. Nothing is lost by that. A step of
one component neither reads nor writes what another reads or writes, so every
behaviour of all of them is, for each, a behaviour of its own with stuttering,
and no property speaks of two. What does interact is composed within a
module: the events with the lodgments, the job with the providers, the bank
lines with the transfers through the idempotency table, and the transfers with
the audit trail.

**Why the bounds are enough for the hazards.** A fork, a duplicate or a lost
update needs two actors; a third lets one of them be stale by more than one
step, which is why the journal, the ledger, the audit trail and the requests of
one key have three. The event handlers meet only through the balance and the
pending rows of a tax type, so two events of one type and two lodgments cover an
event before, between and after the two reads of a verification; three of the
four under way at once are enough for that, and a fourth only begins later
(`AtOnce`). The amounts 1 and 2 tell every subset of events apart. In the
designated accounts each cast has the actors one hazard needs: two workers that
list the same row, a worker whose transfer overlaps a credit or a debit attempt
(one below, one that takes the cover away), a key sent twice beside a
contribution to the other account. One death suffices for every retry; more
deaths are the same retry again. `MaxRepeats` bounds how often one contribution
is transferred under a logger that always throws: the third repetition is the
second again. The clocks have three milliseconds because three rows need
distinct ones. What is owed of the GST lies between -`MaxCents` and `MaxCents`:
rows of either sign arrive, cent by cent. `Finalise` has a time to
live of one tick and a clock of two, so that a key is seen fresh, at its very
limit and expired. Two slots and three jobs are the least with which one slot can
be stuck, the other reused and a job left waiting; with one slot `InOrder` says
most. Two faults let a fault hit the recovery from another. A page that changes
twice shows a gap and what follows it. The tax tables have two thresholds, with
amounts below, at and above both and all cents where rounding turns; the dates
cover a leap year, the turn of the year, a day before the first and one the month
does not have, and Easter 2024, whose Friday and Monday are holidays, so that a
weekend is preceded and followed by a closed day.
Symmetry is used where calls differ in nothing: the lodgments, the nightly
workers, the two preparations of one quarter, the critical audit records. No run
with symmetry checks liveness, and no action property of one speaks of the calls
that are exchanged.
What the instances cannot show, the theorems below do where there is one.

**Fairness.** The specifications of the scenes are weakly fair to every call's
next statement: the event loop of a process runs on and the database answers.
Failures are not fair, and no property depends on one happening or not: where a
handler may die, the liveness property says so (`ObligationsVerified` excepts an
event whose own handler stopped). For the worker and the watcher fairness
includes the next night and the next sweep, which cron starts; `MaxCrashes` and
`MaxFaults` bound what goes wrong, for a job that dies every night checks
nothing. `ShortfallAlerted` is about a shortfall that lasts while every
contribution is applied. Where a contribution cannot be applied the run fails
before the coverage check, night after night (`designated_worker`), and no alert
is promised. For the admin jobs it is that timers fire and the operating system
reports the end of a child, not that a child ends by itself: the timer ends it.
`JobsEnd` is stated for fewer stuck children than slots, because nothing in the
code ends one whose pipes stay open. For the bus it is that the server delivers
what is due and each member's loop goes on. `CatchesUp` needs that a request is
answered or fails, which the code does not ensure for a body that never ends
(section 7). `JournalAnswers` has content because a call may wait for another's
uncommitted row: it shows that the waits form no cycle.

**Deadlock** is checked in `obligations`, `designated`, `live`,
`obligations_remit`, `journal_retry` and `designated_worker`. In `Journal` and
`Obligations` an explicit step stands for "all calls are over". In the other
runs all calls finish, or the clock stands still, or a stuck child leaves
nothing to do, and the system may stop.

Every property has a mutant in `PROJECT.json`: a plausible mistake in the
modelled code, written next to the definition it replaces (`...Bug`), which
makes TLC find the property violated.

## 5. What is proved

All theorems hold for every number of calls and every value of the constants
that satisfies the named assumptions (`JournalAssumption`,
`ObligationsAssumption`, `DesignatedAssumption`, `TaxLedgerAssumption`,
`TrailsAssumption`, `GatewayAssumption`, `BasAssumption`, `RulesAssumption`,
`ServicesAssumption`), which TLC evaluates in the runs. They give constants
their types and bounds and say nothing of behaviour. `RulesAssumption` says more,
of the data the algorithms are configured with: thresholds rise, each bracket's
base is what the brackets below it add up to (published tables are built so;
nothing in the code checks it), and the calendar names finitely many holidays
(with one that closes every day the code would look for an open one for ever).
No theorem has another hypothesis: calls, workers and appends interleave and die
as they may, whatever the deployment and the client of the database.
Every safety property of a passing run is the subject of a theorem, except
`RetryReturnsExisting`, which speaks of the unit tests' client only.

**`JournalProofs`**: `TypeCorrect`, `ChainIntactAlways`, `OncePerDedupeAlways`,
for either kind of client. The invariant adds to the properties that a
transaction has read a row no later than the last (`ReadBehind`), that an
uncommitted row conflicts with no committed one (`PendingFits`) and that there
is at most one of them (`PendingAlone`). The last is the heart: two uncommitted
rows would both have read the same last row, hence have the same `seq`, and the
second insert would have waited. `Create` checks the unique constraints, so an
insert that gets through has read the very last row, and its hash continues it.
Then `AnswersTruthfulAlways` and `ImplementsLogAlways`: the interleaved writers
implement `DedupeLog`. A `Commit` maps to one append, an answer to one answer,
every other step stutters. What it needs beyond the invariant above is that what
is written or was met stays in the journal (`Written`, `Met`) and how the log
view of a journal grows when a row is added at its end (`LogOf`, `Appended`).
`RetryWritesNothingAlways` is what finding 1 leaves: on PostgreSQL as well, a call
for a `dedupeId` that is in the journal when it starts writes no row and is never
told that it created one; it fails only if its client aborts a transaction whose
statement failed. A row once there stays, so its insert is a unique violation,
whatever the others do (`Retrying`).

**`ObligationsProofs`**: `TypeCorrect`, `SecuredAlways`, `NoShortfallAlways`,
`ProcessedIsVerifiedAlways`, for overlapping lodgments as well. The balance is
the sum of the committed deposits (`Money`), an obligation exists only for a
committed deposit (`EventProgress`), and what a handler has summed stays covered
by the balance, because balances only grow and are read after the sum
(`ReadsCovered`). So the branches for a shortfall (alert, refusal, payment
plan) cannot be reached. The sums are cardinalities; `CentsFinite` and its
companions bring them to the library's facts about finite sets.
`OwedVerifiedAlways` and `LodgmentCompleteAlways`, again for overlapping
lodgments: `Progress` says, stage by stage, which tax types a lodgment has
verified and which instructions it has queued; `Funded` that each one is covered
by its account. `NotOverRemittedAlways`, for overlapping lodgments too: a lodgment asks for what
it summed (`asked`, `Asks`). What two that are not crowded have summed and will
ask for, are asking for or have asked for is disjoint (`Disjoint`): a lodgment
that sums meets no window of another, and once an obligation is marked it is not
pending for anyone. So their instructions add up to no more than the obligations
they claim (`WithinClaims`), each of which is on record.

**`DesignatedAccountsProofs`**, all for any set of deployments and any number of
workers and captures that overlap: `TypeCorrect`; `OneRowPerKeyAlways` (`KeyInv`:
a key is claimed by its unique entry before its row is written, and only the
claimant writes it). Of an account that is not `raced`, one transfer at most is
between its read and its write, and what it has read is current (`RaceInv`).
`LoweredByAlways`: a balance falls only by the write of a debit attempt or on an
account that transfers raced for, which is what remains of "deposit-only".
`CertifiedCoveredAlways`: what a run has found covered stays so, or was debited
or raced for (`FoundSafe`). `BalanceIsTransfersAlways`: a balance is the sum of
what was written for it, row or not (`Booked`); where nobody debits a race can
only lower it, since a stale read is never above the present balance; and
transfers without a row come from deaths and from clients that refuse the row.
`TransferredOnceAlways`: each transfer row of a contribution is of a transfer
that ended before its mark, or belongs to a worker that marked it or is about to
(`Counted`), and a worker never lists a row again that it has marked (`Holds`).
Where the logger does not throw, the former are no more than the deaths
(`UnmarkedBound`).

**`LedgersProofs`**. Of the tax ledger, with appends that overlap in any way:
`TypeCorrect`; and `RecordedAlways`: an append answered ok has exactly one row,
with its entry, a failed one has none, and a row nobody changed matches its hash
and continues a row of its category that is in the table. So appends that
overlap fork a chain, which is finding 5, but lose no entry. What carries it is
that a hash found in a category stays there, because a change to a row leaves its
hash (`RootedStays`). Then, category by category, `LinearAlways`,
`UntamperedAlways`, `TamperLocatedAlways` and `ChainGrowsAlways`: in a category
whose appends have not raced one transaction at most is open (`OneOpen`), began
after every row (`BegunAfter`), found the newest (`FoundTip`), and its draft
continues it at a later time (`DraftFits`), whatever happens to the other
categories. The row before a row in its category, in any scan sorted by time, is
then the newest earlier one, so the scan accepts it; a changed row no longer
matches its hash (`Located`) and is rejected in a raced category as well.
Of the audit trail, `TrailSoundAlways`, with and without overlap. A call
holds the hash of a row that exists and is no younger than the moment it looked;
without overlap that row is the newest and no other call holds one.

**`GatewayProofs`**: `RequestsSoundAlways`, `SentAccountedAlways`, and
`OncePerKeyAlways`: any calls with any keys, racing, replayed or dying, implement
`OncePerKey`. The invariant says that the row of a key is written once and is
held by a call that got past its insert (`Held`, `Owned`), and in which order a
send marks, records and replies (`Ordered`, `RecordedSent`). The insert maps to
`Perform`; nothing else changes an owner.

**`BasSettlementsProofs`**. Of the finalise route, `FinaliseSoundAlways`: a key
holds one entry, of a call made with it (`HeldOnce`); whatever this process
prepared is remembered by an entry that is no older, or its time is over
(`Remembered`); and while a request is under way or shares another's work, the
entry it depends on is there and the clock stands (`WorkHeld`, `SharedHeld`).
Hence a second `Prepare` of a key finds the first or comes after 24 hours.
`FinaliseOncePerKeyAlways`: any calls, sharing, expiring or restarted, implement
`OncePerKey` when a key that is forgotten counts as a new one. Of the
instructions in the database, `SettlementSoundAlways`, for GST rows of either
sign: what a call has read of the PAYGW is no more than is owed now, and of the
GST no more but for what it fell by since (`ReadIsOwed`). The sum, once both are
read, is at most the most that was payable, what has been remitted, and the fall
of the GST between the two reads (`SumIsPayable`); what has been remitted is read
last and taken off (`NetIsPayable`).

**`ReckoningProofs`**: `RulesMatchReferenceAlways`, for every bracket table,
pay, sale, rule and calendar. It needs induction over data, which the provers
do not have; the least counterexample takes its place (`LeastNatural`, from the
library's facts about well-founded orders). So `TotalsExist` and `AreTotals`
show that a recursive function of running totals is one, `LineGstIsShare` and
`SumGstIsShare` that errors add up to half a cent a line, `MarginalIsBasePlusRate`
that the last bracket reached holds what all brackets together owe. Then the two
roundings, the floor of a double's product and the sharing out over a year's pays
are bounded (`RoundDivideIsNear`, `FloorsAreNear`, `WithheldIsMarginal`). For
the dates, `YearLength` and `MonthLength` are arithmetic on the calendar, an open
day lies ahead because finitely many holidays leave a Monday free
(`OpenDayExists`), and the walk that skips closed days ends at the first open one
(`NextOpenIsFirst`).

**`ServicesProofs`**. `SlotsSoundAlways`, for any jobs and any limit: the slots
counted are those held, a queue that is not empty means that all are
(`Counted`), and the queue is the end of the list of runs in its order
(`Lined`), which makes "jobs start in order" inductive.
`DeliverySoundAlways`: `Charged` counts all that may still repeat an effect, the
copies in inboxes that are not handled, the messages due and those in no inbox
that will be due again; together with the repetitions so far they exceed the
messages that wait for their first effect by no more than the faults. Each step
either moves one of them into another class or is a fault. `LogSoundAlways`:
each gap was first a page whose next event will not start where its last one
ended (`Stale`), and gaps and stale pages together are no more than the faults
(`Paid`).

**Only model-checked**

- Liveness: `JournalAnswers`, `ObligationsVerified`, `ShortfallAlerted`,
  `JobsEnd`, `HandledEventually`, `CatchesUp`. It is out of the prover's reach.
- The violations, which are single behaviours.

## 6. Where code and documents disagree

1. *A retried journal entry fails* (`journal_retry`). The catch block of
   `write` queries inside the transaction that the unique violation aborted.
   The unit test that covers the retry uses a client that does not abort. No
   duplicate is written; the caller gets an error instead of the journal.
2. *A lodgment does not remit* (`obligations_remit`). Obligations are verified
   as they arrive and only pending ones enter a lodgment's transfers, so the
   normal case queues transfers of 0.
3. *The nightly job applies nothing* (`designated_worker`): it passes no
   `applyTransfer`, and `ingest.ts` calls it for the first pending row.
4. *A debit is reported as blocked after it was made* (`designated_debit`): the
   balance is lowered first. With the repository's schema, whose
   `DesignatedTransfer` has no `actorId`, the transfer row is then refused, and
   credits end at the same place: money without a transfer row.
5. *Verification rejects an unaltered ledger* (`ledger_race`) when two appends
   to a category overlap or share a millisecond.
6. *An organisation's second settlement instruction is never persisted*
   (`settlement_next`). Each instruction creates a trust account with the dummy
   number 000-000/00000000 (`bas-settlement.ts:106`), which the schema holds
   unique within the organisation (`schema.prisma:346`).

Each is quoted with its lines under "findings" in `PROJECT.json`. Three more have
no run of their own:

- *The settlement statuses are not ordered.* `packages/domain-policy/docs/
  bas-settlement-lifecycle.md:7` and `48-50` order them PREPARED, SENT, then ACK
  or FAILED. The three updates of `bas-settlement.ts:123-150` ask nothing of the
  status they replace: one call takes an instruction from PREPARED to ACK, or
  from ACK back to SENT. `Settlement!Mark` permits what the code does.
- *The declared audit logger has no `log`.* `ingest.ts:21-26` declares the logger
  as a function, and `designated-reconciliation.ts:20` and `58` pass one;
  `designated-accounts.ts:123` calls `auditLogger?.log(...)`. Were `applyTransfer`
  passed (3.) and the column there (4.), each transfer would throw after its row
  and before `appliedAt`, and be made again every night. The runs `designated`
  and `live` have this deployment; `TransferredOnce` counts what it repeats.
- *A blocked write is answered 503*, where `docs/partners/bank-packet.md:122-123`
  says 409 (`guards/service-mode.ts:47-53`). It involves no state.

Other behaviour the models show but nothing in the repository promises
otherwise:

- overlapping lodgments may remit twice what both summed before either marked it;
  overlapping transfers lose one;
- a GST credit recorded while an instruction is prepared may make it ask for more
  than was ever payable: GST of 500 is read, a credit of 500 and PAYGW of 1000
  are recorded, the PAYGW is read, and 1500 are asked for;
- a submission or a bank line that fails after its idempotency entry is refused
  ever after; a lodgment that dies leaves `in_progress` for good, and if it had
  marked its obligations no later lodgment asks for them;
- the status updates of transfers have no guard on the status they replace;
- a caller may be told `transfer_failed` of a transfer that is marked sent, when
  its audit record fails; a repeated key in the transfer route is answered 500,
  because the handler looks for the conflict's code in the error's message;
- after a restart, or 24 hours, BAS finalise performs a key again, and instruction
  ids start anew;
- an audit record that is not critical may be missing without anyone being told;
- a change event lost by a crash is never repeated: the next one shows a gap.

## 7. Not modelled, and why

*Most of the repository's lines are web applications*: four React applications,
some of them copies of one another, and their component libraries. They share no
state with the components above other than by HTTP, and what they do between two
requests is layout. The modelled lines are therefore a small share of the
whole, although they are most of the code that keeps the books.
Read nevertheless, for what a screen may do that a test would hardly reach:
in `webapp/src/_figma/app`, `pages/Reconciliation.tsx:133-136` approves the last
match of a list it may have rendered before; `store/appStore.ts:412` takes ids
from `Date.now`, which two actions in a millisecond share; `store/appStore.ts:284`
holds a timer that a reload loses. All three are states of a demonstration store in
the browser.

| part | why not |
|---|---|
| Step-up sessions (`security/mfa.ts`) | part of authentication; no other component reads its state |
| Payment plans, transfer status routes | one unguarded `UPDATE` each; the part a lodgment plays in them is in `Obligations` |
| `routes/settlements-bas.ts` | a second, simpler store in memory, answered within one turn of the event loop |
| In-memory bus | an `EventEmitter`: no acknowledgement, no redelivery, synchronous |
| `gst-engine.ts` | imports `computeGstOnLines`, which `gst-utils.ts` does not export |
| `resolve-au-tax-config.ts` | chooses rows by date; its fallback of units (line 88) is a single expression |
| `getLedgerHashForPeriod` (`tax-ledger.ts:132`) | reads only; it joins the hashes of all categories by `createdAt`, so rows of one millisecond may make two evidence hashes of one period differ |
| Ledger policy engine, `releaseAccountLock` | no caller in the repository |
| Outcome expressions, evidence packs, reports | pure evaluation, serialisation, queries |
| Connectors | run on dependencies that the repository does not implement |
| Authentication, configuration, masking, metrics | checks of one request; cryptography and wording |
| Onboarding, demo and prototype routes, `dev-state.ts` | form handling and demonstration data |
| Stub services | placeholders; the retention job does nothing yet |

Within modelled parts: the checks of a request's form and organisation; HTTP
calls of the partner bank; the diff texts of the watcher; and a response body
that never ends, which `lib/http.ts:75` waits for without limit because its
timer is cleared when the headers arrive.

## 8. What could follow

Models: the life cycles of transfers and payment plans, once the code orders
their statuses; step-up sessions, whose expiry and single use are a small state
machine beside the gateway.

Theorems: action properties beyond those proved, such as that an acknowledged
contribution, audit record or instruction is never removed or changed; that the
designated accounts implement an account whose balance is its transfers.

## 9. Running it

    tlc -workers 2 -config services.cfg MCServices
    tlc -workers 2 -config gateway.cfg MCGateway
    tlapm JournalProofs.tla

and likewise for the other runs (`PROJECT.json` pairs configurations with
modules) and the other proof modules.
