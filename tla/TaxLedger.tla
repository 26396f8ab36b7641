----------------------------- MODULE TaxLedger -----------------------------
(***************************************************************************)
(* The tax ledger of one organisation and period                           *)
(* (packages/domain-policy/src/ledger/tax-ledger.ts): appendLedgerEntry    *)
(* chains each entry by hash to the newest one of its category, by         *)
(* createdAt, inside a READ COMMITTED transaction; verifyLedgerChain walks *)
(* all rows by createdAt.  Neither createdAt nor hashPrev is unique.       *)
(***************************************************************************)
EXTENDS Integers, Sequences, FiniteSets, Functions

CONSTANTS
  Appends,        \* invocations of appendLedgerEntry
  CategoryOf,     \* LedgerPostArgs.category
  CentsOf,        \* amountCents, negative for a DEBIT
  MaxClock        \* bounds the clock, in milliseconds

Entry(a) == [category |-> CategoryOf[a], cents |-> CentsOf[a]]
Entries == {Entry(a) : a \in Appends}

ASSUME TaxLedgerAssumption ==
  /\ \A a \in Appends : CentsOf[a] \in Int
  /\ MaxClock \in Nat

VARIABLES
  rows,           \* the committed rows of TaxLedgerEntry
  pc,             \* where each append is
  started,        \* when its transaction began
  last,           \* hashSelf of the row it found, <<>> for null
  draft,          \* the row it inserted and has not committed
  clock,
  altered,        \* appends whose row was changed behind the program's back
  raced           \* history: categories that had two appends open at once or
                  \* in one millisecond

vars == <<rows, pc, started, last, draft, clock, altered, raced>>

(* computeLedgerHashSelf, sha256 taken as injective: a hash is the sequence*)
(* of the entries chained so far.                                          *)
HashSelf(prev, entry) == Append(prev, entry)
Hashes == Seq(Entries)
Rows == [by : Appends, entry : Entries, prev : Hashes, hash : Hashes, at : Nat]

NoRow(a) ==
  [by |-> a, entry |-> Entry(a), prev |-> <<>>, hash |-> <<>>, at |-> 0]

InCategory(c) == {r \in rows : r.entry.category = c}
IsOpen(a) == pc[a] \in {"begun", "found", "inserted"}
-----------------------------------------------------------------------------
Init ==
  /\ rows = {} /\ altered = {} /\ raced = {} /\ clock = 0
  /\ pc = [a \in Appends |-> "idle"]
  /\ started = [a \in Appends |-> 0]
  /\ last = [a \in Appends |-> <<>>]
  /\ draft = [a \in Appends |-> NoRow(a)]

Goto(a, from, to) == pc[a] = from /\ pc' = [pc EXCEPT ![a] = to]

Tick ==
  /\ clock < MaxClock
  /\ clock' = clock + 1
  /\ UNCHANGED <<rows, pc, started, last, draft, altered, raced>>

NoteRace(a, race) ==
  raced' = IF race THEN raced \cup {CategoryOf[a]} ELSE raced

Begin(a) ==
  /\ Goto(a, "idle", "begun")
  /\ started' = [started EXCEPT ![a] = clock]
  /\ NoteRace(a, \E b \in Appends : IsOpen(b) /\ CategoryOf[b] = CategoryOf[a])
  /\ UNCHANGED <<rows, last, draft, clock, altered>>

(* findFirst ... orderBy createdAt desc: of several newest rows any one *)
Newest(r, c) == \A q \in InCategory(c) : q.at <= r.at

FindLastAnyBug(a) ==
  /\ Goto(a, "begun", "found")
  /\ \/ \E r \in rows : Newest(r, r.entry.category) /\ last' = [last EXCEPT ![a] = r.hash]
     \/ rows = {} /\ last' = [last EXCEPT ![a] = <<>>]
  /\ UNCHANGED <<rows, started, draft, clock, altered, raced>>
FindLastNoneBug(a) ==
  /\ Goto(a, "begun", "found")
  /\ UNCHANGED <<rows, started, last, draft, clock, altered, raced>>
FindLast(a) ==
  /\ Goto(a, "begun", "found")
  /\ \/ \E r \in InCategory(CategoryOf[a]) :
          Newest(r, CategoryOf[a]) /\ last' = [last EXCEPT ![a] = r.hash]
     \/ InCategory(CategoryOf[a]) = {} /\ last' = [last EXCEPT ![a] = <<>>]
  /\ UNCHANGED <<rows, started, draft, clock, altered, raced>>

(* create; createdAt is now(), which PostgreSQL takes at the begin of the  *)
(* transaction and the client at the insert.                               *)
InsertEarlyBug(a) ==
  /\ Goto(a, "found", "inserted")
  /\ draft' = [draft EXCEPT ![a] =
       [by |-> a, entry |-> Entry(a), prev |-> last[a],
        hash |-> HashSelf(last[a], Entry(a)), at |-> started[a] - 1]]
  /\ UNCHANGED <<rows, started, last, clock, altered, raced>>
Insert(a) ==
  /\ Goto(a, "found", "inserted")
  /\ \E now \in started[a]..clock :
       /\ NoteRace(a, \E r \in InCategory(CategoryOf[a]) : r.at = now)
       /\ draft' = [draft EXCEPT ![a] =
            [by |-> a, entry |-> Entry(a), prev |-> last[a],
             hash |-> HashSelf(last[a], Entry(a)), at |-> now]]
  /\ UNCHANGED <<rows, started, last, clock, altered>>

(* the transaction is over *)
Forget(a) ==
  /\ started' = [started EXCEPT ![a] = 0]
  /\ last' = [last EXCEPT ![a] = <<>>]
  /\ draft' = [draft EXCEPT ![a] = NoRow(a)]

Commit(a) ==
  /\ Goto(a, "inserted", "ok")
  /\ rows' = rows \cup {draft[a]}
  /\ Forget(a)
  /\ UNCHANGED <<clock, altered, raced>>

(* a statement fails, or the process dies: the transaction rolls back *)
Abort(a) ==
  /\ IsOpen(a)
  /\ pc' = [pc EXCEPT ![a] = "failed"]
  /\ Forget(a)
  /\ UNCHANGED <<rows, clock, altered, raced>>

(* The amount or the hashPrev of a committed row is changed outside the    *)
(* program (docs/evidence/EV-012-ledger-integrity-testing.md:16, 26).      *)
Forgeries(r) ==
  {[r EXCEPT !.entry = e] : e \in {d \in Entries : d.category = r.entry.category}}
    \cup {[r EXCEPT !.prev = h] : h \in {q.hash : q \in rows} \cup {<<>>}}

Alter ==
  /\ altered = {}
  /\ \E r \in rows : \E f \in Forgeries(r) \ {r} :
       /\ rows' = (rows \ {r}) \cup {f}
       /\ altered' = {r.by}
  /\ UNCHANGED <<pc, started, last, draft, clock, raced>>

Next ==
  \/ Tick \/ Alter
  \/ \E a \in Appends :
       Begin(a) \/ FindLast(a) \/ Insert(a) \/ Commit(a) \/ Abort(a)

Spec == Init /\ [][Next]_vars
-----------------------------------------------------------------------------
(* verifyLedgerChain.  findMany ... orderBy createdAt asc returns one of   *)
(* the scans, rows of one millisecond in any order.                        *)
Scans ==
  {es \in [1..Cardinality(rows) -> rows] :
     /\ IsInjective(es) /\ {es[i] : i \in DOMAIN es} = rows
     /\ \A i, j \in DOMAIN es : i < j => es[i].at <= es[j].at}

(* the rows of the same category seen so far: the last one's hash is in    *)
(* expectedPrevByCategory                                                  *)
SeenBug(es, i) == 1..(i - 1)
Seen(es, i) == {j \in 1..(i - 1) : es[j].entry.category = es[i].entry.category}

PrevMatches(es, i) ==
  \/ Seen(es, i) = {} /\ es[i].prev = <<>>
  \/ \E j \in Seen(es, i) : (\A k \in Seen(es, i) : k <= j) /\ es[i].prev = es[j].hash

SelfMatchesBug(e) == Len(e.hash) = Len(e.prev) + 1
SelfMatches(e) == e.hash = HashSelf(e.prev, e.entry)

Valid(es, i) == PrevMatches(es, i) /\ SelfMatches(es[i])
VerifyOk(es) == \A i \in DOMAIN es : Valid(es, i)
FirstInvalid(es, i) == ~Valid(es, i) /\ \A j \in 1..(i - 1) : Valid(es, j)
-----------------------------------------------------------------------------
(* Type invariant. *)
TypeOK ==
  /\ rows \subseteq Rows /\ IsFiniteSet(rows)
  /\ pc \in [Appends -> {"idle", "begun", "found", "inserted", "ok", "failed"}]
  /\ started \in [Appends -> Nat] /\ last \in [Appends -> Hashes]
  /\ draft \in [Appends -> Rows]
  /\ clock \in 0..MaxClock /\ altered \subseteq Appends
  /\ raced \subseteq {CategoryOf[a] : a \in Appends}

(* Of a ledger nobody changed, verifyLedgerChain rejects no row but of a   *)
(* category two of whose appends have raced, whatever order rows of one    *)
(* millisecond are returned in (tax-ledger.ts:160-193).                    *)
Raced(es, i) == es[i].entry.category \in raced
Untampered ==
  altered = {} => \A es \in Scans : \A i \in DOMAIN es : Valid(es, i) \/ Raced(es, i)

(* A changed row is rejected, and firstInvalidIndex is its index (tax-     *)
(* ledger.ts:173, 187) or that of a row whose category has raced, however  *)
(* many entries are appended after it.                                     *)
TamperLocated ==
  altered # {} => \A es \in Scans :
    \E i \in DOMAIN es :
      /\ es[i].by \in altered /\ ~Valid(es, i)
      /\ \A j \in DOMAIN es : FirstInvalid(es, j) => j = i \/ Raced(es, j)

(* The entries of a category form one chain without a fork, ordered by     *)
(* createdAt, unless two of its appends have raced: then each entry still  *)
(* continues one that is there, and matches its hash.                      *)
Earlier(r) == {q \in InCategory(r.entry.category) : q.at < r.at}
Continues(r) ==
  \/ Earlier(r) = {} /\ r.prev = <<>>
  \/ \E q \in Earlier(r) : (\A p \in Earlier(r) : p.at <= q.at) /\ r.prev = q.hash

(* h is null, or the hash of a committed row of category c *)
Rooted(h, c) == h = <<>> \/ \E q \in InCategory(c) : q.hash = h
Linear ==
  altered = {} =>
    /\ \A r \in rows : SelfMatches(r) /\ Rooted(r.prev, r.entry.category)
    /\ \A r \in rows : r.entry.category \notin raced => Continues(r)
    /\ \A r, q \in rows :
         r.entry.category = q.entry.category /\ r.entry.category \notin raced /\ r.at = q.at
           => r = q

(* An entry that was answered ok stays in every later chain of its         *)
(* category: the newest hash of a category only grows, unless two of its   *)
(* appends have raced.                                                     *)
Tips(c) == {r.hash : r \in {q \in InCategory(c) : Newest(q, c)}}
ChainGrows ==
  [][altered' = {} =>
       \A c \in {CategoryOf[a] : a \in Appends} \ raced' : \A h \in Tips(c) :
         \A g \in Tips(c)' : g = h \/ \E e \in Entries : g = Append(h, e)]_rows

(* "Untampered chains pass verification"                                   *)
(* (docs/evidence/EV-012-ledger-integrity-testing.md:25).                  *)
UntamperedPasses == altered = {} => \A es \in Scans : VerifyOk(es)
=============================================================================
