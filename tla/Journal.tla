------------------------------ MODULE Journal ------------------------------
(***************************************************************************)
(* JournalWriter.write (packages/ledger/src/journalWriter.ts) of one       *)
(* organisation, called by several processes that share the PostgreSQL     *)
(* tables Journal and Posting.  A call validates its postings, opens a     *)
(* transaction, reads the row with the highest seq, inserts the next row,  *)
(* chained to it by hash, and on a unique violation looks the dedupeId up. *)
(* Transactions run at READ COMMITTED: a read sees the committed rows, an  *)
(* insert that conflicts with an uncommitted row waits for its owner.      *)
(***************************************************************************)
EXTENDS Integers, Sequences, Functions

CONSTANTS
  Calls,          \* invocations of write
  DedupeIds,      \* JournalWriteInput.dedupeId
  PostingLists,   \* JournalWriteInput.postings: account -> net amount in cents
  ErrorAborts     \* TRUE: a failed statement aborts its transaction (PostgreSQL);
                  \* FALSE: the transaction goes on (the client of the unit tests)

ASSUME JournalAssumption ==
  /\ ErrorAborts \in BOOLEAN
  /\ \A p \in PostingLists : p = [a \in DOMAIN p |-> p[a]]

VARIABLES
  journal,        \* the committed rows
  pc,             \* how far each call is
  input,          \* the call's JournalWriteInput
  last            \* seq and hash of the row it read

vars == <<journal, pc, input, last>>

Inputs == [dedupe : DedupeIds, postings : PostingLists]
NoRow  == [seq |-> 0, hash |-> <<>>]

(* sha256 over prevHash and the fields of the input, taken as injective:   *)
(* a hash is the sequence of the inputs chained so far, <<>> stands for    *)
(* null.                                                                   *)
ComputeHashBug(prev, in) == <<in>>
ComputeHash(prev, in) == Append(prev, in)

Balanced(postings) == DOMAIN postings # {} /\ SumFunction(postings) = 0

Seqs == {r.seq : r \in journal}

(* findFirst ... orderBy seq desc *)
LastOf(rows) ==
  IF rows = {} THEN NoRow
  ELSE LET r == CHOOSE r \in rows : \A q \in rows : q.seq <= r.seq
       IN  [seq |-> r.seq, hash |-> r.hash]
LastRow == LastOf(journal)

(* the data of tx.journal.create *)
NewRowBug(c) ==
  [seq |-> last[c].seq - 1, prev |-> last[c].hash,
   hash |-> ComputeHash(last[c].hash, input[c]), in |-> input[c], by |-> c]
NewRow(c) ==
  [seq |-> last[c].seq + 1, prev |-> last[c].hash,
   hash |-> ComputeHash(last[c].hash, input[c]), in |-> input[c], by |-> c]

(* @@unique([orgId, dedupeId]) and @@unique([orgId, seq]) *)
ClashesOnSeqBug(r, q) == r.seq = q.seq
Clashes(r, q) == r.in.dedupe = q.in.dedupe \/ r.seq = q.seq

Uncommitted == {c \in Calls : pc[c] = "inserted"}
-----------------------------------------------------------------------------
Init ==
  /\ journal = {}
  /\ pc = [c \in Calls |-> "idle"]
  /\ input \in [Calls -> Inputs]
  /\ last = [c \in Calls |-> NoRow]

Goto(c, from, to) == pc[c] = from /\ pc' = [pc EXCEPT ![c] = to]

(* UnbalancedJournalError, before any transaction *)
Reject(c) ==
  /\ ~Balanced(input[c].postings)
  /\ Goto(c, "idle", "rejected")
  /\ UNCHANGED <<journal, input, last>>

(* the transaction opens and reads the last committed row *)
FindLast(c) ==
  /\ Balanced(input[c].postings)
  /\ Goto(c, "idle", "read")
  /\ last' = [last EXCEPT ![c] = LastRow]
  /\ UNCHANGED <<journal, input>>

(* create: waits while another transaction holds a clashing row *)
Waits(c) == \E d \in Uncommitted \ {c} : Clashes(NewRow(c), NewRow(d))
Conflicts(c) == \E r \in journal : Clashes(NewRow(c), r)

Create(c) ==
  /\ ~Waits(c) /\ ~Conflicts(c)
  /\ Goto(c, "read", "inserted")
  /\ UNCHANGED <<journal, input, last>>

UniqueViolation(c) ==
  /\ ~Waits(c) /\ Conflicts(c)
  /\ Goto(c, "read", "conflict")
  /\ UNCHANGED <<journal, input, last>>

(* the catch block: P2002, look the dedupeId up, return it or rethrow.     *)
(* In an aborted transaction the lookup itself is an error.                *)
Recorded(c) == \E r \in journal : r.in.dedupe = input[c].dedupe
FoundBug(c) == journal # {}
FoundNeverBug(c) == FALSE
Found(c) == ~ErrorAborts /\ Recorded(c)

FindExistingBug(c) ==
  /\ Goto(c, "conflict", IF Found(c) THEN "existing" ELSE "read")
  /\ UNCHANGED <<journal, input, last>>
FindExisting(c) ==
  /\ Goto(c, "conflict", IF Found(c) THEN "existing" ELSE "failed")
  /\ UNCHANGED <<journal, input, last>>

(* COMMIT; the answer may be lost with the connection *)
CommitTo(c, answer) ==
  /\ Goto(c, "inserted", answer)
  /\ journal' = journal \cup {NewRow(c)}
  /\ UNCHANGED <<input, last>>

Commit(c) == CommitTo(c, "created")
CommitUnanswered(c) == CommitTo(c, "lost")

(* the process or its connection dies: the transaction rolls back *)
Crash(c) ==
  /\ pc[c] \in {"read", "inserted", "conflict"}
  /\ pc' = [pc EXCEPT ![c] = "lost"]
  /\ UNCHANGED <<journal, input, last>>

Answers == {"rejected", "created", "existing", "failed", "lost"}

(* every call is over *)
AllAnswered ==
  /\ \A c \in Calls : pc[c] \in Answers
  /\ UNCHANGED vars

Step(c) ==
  \/ Reject(c) \/ FindLast(c) \/ Create(c) \/ UniqueViolation(c)
  \/ FindExisting(c) \/ Commit(c)

Next ==
  \/ \E c \in Calls : Step(c) \/ CommitUnanswered(c) \/ Crash(c)
  \/ AllAnswered

Spec == Init /\ [][Next]_vars

(* each call's event loop runs on and the database answers every statement *)
FairSpec == Spec /\ \A c \in Calls : WF_vars(Step(c))
-----------------------------------------------------------------------------
Rows ==
  [seq : Nat, prev : Seq(Inputs), hash : Seq(Inputs), in : Inputs, by : Calls]

(* Type invariant of the tables and of the calls' local state. *)
TypeOK ==
  /\ journal \subseteq Rows
  /\ pc \in [Calls -> {"idle", "read", "inserted", "conflict"} \cup Answers]
  /\ input \in [Calls -> Inputs]
  /\ last \in [Calls -> [seq : Nat, hash : Seq(Inputs)]]

(* The seq numbers of an organisation are 1..n without gap or repetition,  *)
(* whatever the interleaving of the writers and however many fail.         *)
Gapless == \E n \in 0..Len(LastRow.hash) : Seqs = 1..n
UniqueSeq == \A r, q \in journal : r.seq = q.seq => r = q

(* The hash of each row covers exactly the rows before it and its own      *)
(* input, in seq order: replaying the chain verifies.                      *)
ChainLinks ==
  \A r \in journal :
    /\ r.hash = ComputeHash(r.prev, r.in)
    /\ Len(r.hash) = r.seq
    /\ \A q \in journal : q.seq + 1 = r.seq => q.hash = r.prev

ChainIntact == Gapless /\ UniqueSeq /\ ChainLinks

(* A dedupeId is journalled at most once, however often it is retried.     *)
OncePerDedupe == \A r, q \in journal : r.in.dedupe = q.in.dedupe => r = q

(* What a caller is told agrees with the table: "created" means this call  *)
(* wrote its row, "existing" that another call did, "failed" that it wrote *)
(* nothing and that a competing row is there.                              *)
AnswersTruthful ==
  \A c \in Calls :
    /\ pc[c] = "created" => \E r \in journal : r.by = c /\ r.in = input[c]
    /\ pc[c] \in {"existing", "failed", "rejected"} => \A r \in journal : r.by # c
    /\ pc[c] = "existing" => Recorded(c)
    /\ pc[c] = "failed" => Conflicts(c)

(* A call made when its dedupeId is already journalled gives back the      *)
(* existing journal: it never fails (journalWriter.test.ts:119 "returns    *)
(* existing journal on idempotent retry").                                 *)
RetryReturnsExisting ==
  \A c \in Calls :
    []((pc[c] = "idle" /\ Recorded(c)) => [](pc[c] # "failed"))

(* No call waits for ever: waits for uncommitted rows form no cycle.       *)
EveryCallAnswered == \A c \in Calls : <>(pc[c] \in Answers)
-----------------------------------------------------------------------------
(* The table and the answers, seen as the abstract log.                    *)
RowAt(n) == CHOOSE r \in journal : r.seq = n
LogView == [n \in 1..LastRow.seq |-> RowAt(n).in]
AnswerView == [c \in Calls |-> IF pc[c] \in Answers THEN pc[c] ELSE "open"]

Log == INSTANCE DedupeLog
         WITH Entries <- Inputs, log <- LogView, wanted <- input, answer <- AnswerView

(* The interleaved transactions implement the atomic log.                  *)
ImplementsLog == Log!Spec
=============================================================================
