--------------------------- MODULE JournalProofs ---------------------------
(***************************************************************************)
(* Proofs about Journal for any number of calls, any inputs and both kinds *)
(* of database client: its chain, what it tells its callers, and that it   *)
(* implements the abstract DedupeLog.                                      *)
(***************************************************************************)
EXTENDS Journal, SequenceTheorems, TLAPS

(* The rows are numbered 1..n.                                             *)
Contiguous == \E n \in Nat : Seqs = 1..n

(* A transaction has read a row that is still there: no later than the     *)
(* last one, and with the last one's hash if it is the last one.           *)
ReadBehind ==
  \A c \in Calls : pc[c] \in {"read", "inserted", "conflict"} =>
    /\ Len(last[c].hash) = last[c].seq
    /\ last[c].seq <= LastRow.seq
    /\ last[c].seq = LastRow.seq => last[c].hash = LastRow.hash

(* An uncommitted row clashes with no committed one, and it is the only    *)
(* uncommitted row.                                                        *)
PendingFits == \A c \in Uncommitted : ~Conflicts(c)
PendingAlone == \A c, d \in Uncommitted : c = d

IInv ==
  /\ TypeOK /\ Contiguous /\ UniqueSeq /\ ChainLinks /\ OncePerDedupe
  /\ ReadBehind /\ PendingFits /\ PendingAlone
-----------------------------------------------------------------------------
(* The types are preserved by every step. *)
LEMMA LastOfType ==
  ASSUME NEW J \in SUBSET Rows, NEW n \in Nat, {r.seq : r \in J} = 1..n
  PROVE  /\ LastOf(J) \in [seq : Nat, hash : Seq(Inputs)]
         /\ LastOf(J).seq = n
         /\ n # 0 => \E r \in J : r.seq = n /\ LastOf(J).hash = r.hash
<1>1. CASE n = 0
  <2>1. \A r \in J : r.seq \in 1..n
    OBVIOUS
  <2>2. J = {}
    BY <1>1, <2>1
  <2>3. LastOf(J) = [seq |-> 0, hash |-> <<>>]
    BY <2>2 DEF LastOf, NoRow
  <2>4. << >> \in Seq(Inputs)
    OBVIOUS
  <2>5. QED
    BY <1>1, <2>3, <2>4
<1>2. CASE n # 0
  <2>1. PICK r \in J : r.seq = n
    BY <1>2
  <2>2. \A q \in J : q.seq \in Nat /\ q.seq <= n
    BY DEF Rows
  <2> DEFINE m == CHOOSE s \in J : \A q \in J : q.seq <= s.seq
  <2>3. m \in J /\ \A q \in J : q.seq <= m.seq
    BY <2>1, <2>2
  <2>4. m.seq = n
    BY <2>1, <2>2, <2>3
  <2>5. LastOf(J) = [seq |-> m.seq, hash |-> m.hash]
    BY <2>1 DEF LastOf
  <2>6. m.seq \in Nat /\ m.hash \in Seq(Inputs)
    BY <2>3 DEF Rows
  <2> HIDE DEF m
  <2>7. QED
    BY <2>3, <2>4, <2>5, <2>6
<1>3. QED
  BY <1>1, <1>2

(* NewRow chains the row it is given to the row that was read.             *)
LEMMA NewRowType ==
  ASSUME TypeOK, NEW c \in Calls
  PROVE  /\ NewRow(c) \in Rows
         /\ NewRow(c).seq = last[c].seq + 1
         /\ NewRow(c).prev = last[c].hash
         /\ NewRow(c).hash = Append(last[c].hash, input[c])
         /\ NewRow(c).in = input[c]
         /\ NewRow(c).by = c
         /\ Len(NewRow(c).hash) = Len(last[c].hash) + 1
<1>1. last[c].seq \in Nat /\ last[c].hash \in Seq(Inputs) /\ input[c] \in Inputs
  BY DEF TypeOK
<1>2. Append(last[c].hash, input[c]) \in Seq(Inputs)
  BY <1>1
<1>3. QED
  BY <1>1, <1>2 DEF NewRow, ComputeHash, Rows

(* In every reachable state the variables have their types.                *)
LEMMA TypeStep == TypeOK /\ Contiguous /\ [Next]_vars => TypeOK'
<1> SUFFICES ASSUME TypeOK, Contiguous, [Next]_vars PROVE TypeOK'
  OBVIOUS
<1> USE DEF Goto, Answers
<1>1. ASSUME NEW c \in Calls, FindLast(c) PROVE TypeOK'
  <2>1. LastRow \in [seq : Nat, hash : Seq(Inputs)]
    BY LastOfType DEF Contiguous, Seqs, LastRow, TypeOK
  <2>2. QED
    BY <1>1, <2>1 DEF FindLast, TypeOK
<1>2. ASSUME NEW c \in Calls, NEW a \in Answers, CommitTo(c, a) PROVE TypeOK'
  BY <1>2, NewRowType DEF CommitTo, TypeOK
<1>3. ASSUME NEW c \in Calls,
             Reject(c) \/ Create(c) \/ UniqueViolation(c) \/ FindExisting(c) \/ Crash(c)
      PROVE  TypeOK'
  BY <1>3 DEF Reject, Create, UniqueViolation, FindExisting, Crash, TypeOK
<1>4. CASE UNCHANGED vars
  BY <1>4 DEF vars, TypeOK
<1>5. QED
  BY <1>1, <1>2, <1>3, <1>4
     DEF Next, Step, Commit, CommitUnanswered, AllAnswered
-----------------------------------------------------------------------------
(* A new row whose predecessor is the last row extends the journal.        *)
LEMMA CommitStep ==
  ASSUME IInv, NEW c \in Calls, NEW a \in Answers, CommitTo(c, a), TypeOK'
  PROVE  IInv'
<1> DEFINE row == NewRow(c)
<1> USE DEF Answers
<1>1. PICK n \in Nat : Seqs = 1..n
  BY DEF IInv, Contiguous
<1>2. /\ LastRow.seq = n
      /\ n # 0 => \E r \in journal : r.seq = n /\ LastRow.hash = r.hash
  BY <1>1, LastOfType DEF IInv, TypeOK, Seqs, LastRow
<1>3. c \in Uncommitted
  BY DEF CommitTo, Goto, Uncommitted
<1>4. /\ ~Conflicts(c)
      /\ Len(last[c].hash) = last[c].seq
      /\ last[c].seq <= LastRow.seq
      /\ last[c].seq = LastRow.seq => last[c].hash = LastRow.hash
  BY <1>3 DEF IInv, PendingFits, ReadBehind, Uncommitted
<1>5. /\ row \in Rows /\ row.seq = last[c].seq + 1 /\ row.prev = last[c].hash
      /\ row.hash = Append(last[c].hash, input[c]) /\ row.in = input[c]
      /\ Len(row.hash) = row.seq
  BY <1>4, NewRowType DEF IInv
<1> HIDE DEF row
<1>6. \A r \in journal : r.seq \in 1..n
  BY <1>1 DEF Seqs
<1>7. last[c].seq = n
  <2>1. row.seq \notin Seqs
    BY <1>4, <1>5 DEF Conflicts, Clashes, Seqs, row
  <2>2. last[c].seq \in Nat
    BY DEF IInv, TypeOK
  <2>3. QED
    BY <1>1, <1>2, <1>4, <1>5, <2>1, <2>2
<1>8. journal' = journal \cup {row}
  BY DEF CommitTo, row
<1>9. Seqs' = 1..(n + 1)
  <2>1. Seqs' = Seqs \cup {row.seq}
    BY <1>8 DEF Seqs
  <2>2. QED
    BY <1>1, <1>5, <1>7, <2>1
<1>10. LastRow'.seq = n + 1 /\ LastRow'.hash = row.hash
  <2>1. /\ LastRow'.seq = n + 1
        /\ \E r \in journal' : r.seq = n + 1 /\ LastRow'.hash = r.hash
    <3>1. {r.seq : r \in journal'} = 1..(n + 1) /\ journal' \in SUBSET Rows
      BY <1>9 DEF Seqs, TypeOK
    <3>2. n + 1 \in Nat /\ n + 1 # 0
      OBVIOUS
    <3>3. LastRow' = LastOf(journal')
      BY DEF LastRow
    <3>4. QED
      BY <3>1, <3>2, <3>3, LastOfType
  <2>2. PICK r \in journal' : r.seq = n + 1 /\ LastRow'.hash = r.hash
    BY <2>1
  <2>3. r \notin journal
    BY <1>6, <2>2
  <2>4. r = row
    BY <1>8, <2>2, <2>3
  <2>5. QED
    BY <2>1, <2>2, <2>4
<1>11. UniqueSeq'
  BY <1>5, <1>6, <1>7, <1>8 DEF IInv, UniqueSeq
<1>12. ChainLinks'
  BY <1>2, <1>4, <1>5, <1>6, <1>7, <1>8 DEF IInv, ChainLinks, UniqueSeq, ComputeHash
<1>13. OncePerDedupe'
  BY <1>4, <1>5, <1>8 DEF IInv, OncePerDedupe, Conflicts, Clashes, row
<1>14. pc' = [pc EXCEPT ![c] = a] /\ last' = last /\ input' = input
  BY DEF CommitTo, Goto
<1>15. ReadBehind'
  <2> SUFFICES ASSUME NEW d \in Calls, pc'[d] \in {"read", "inserted", "conflict"}
               PROVE  /\ Len(last[d].hash) = last[d].seq
                      /\ last[d].seq <= n
    BY <1>10, <1>14 DEF ReadBehind
  <2>1. pc[d] \in {"read", "inserted", "conflict"}
    BY <1>14 DEF IInv, TypeOK
  <2>2. QED
    BY <1>2, <2>1 DEF IInv, ReadBehind
<1>16. Uncommitted' = {}
  BY <1>3, <1>14 DEF IInv, PendingAlone, Uncommitted, TypeOK
<1>17. PendingFits' /\ PendingAlone'
  BY <1>16 DEF PendingFits, PendingAlone
<1>18. QED
  BY <1>9, <1>11, <1>12, <1>13, <1>15, <1>17 DEF IInv, Contiguous

(* A transaction that reads sees the last row of the moment.               *)
LEMMA FindLastStep ==
  ASSUME IInv, NEW c \in Calls, FindLast(c), TypeOK'
  PROVE  IInv'
<1>1. PICK n \in Nat : Seqs = 1..n
  BY DEF IInv, Contiguous
<1>2. /\ LastRow \in [seq : Nat, hash : Seq(Inputs)]
      /\ LastRow.seq = n
      /\ n # 0 => \E r \in journal : r.seq = n /\ LastRow.hash = r.hash
  BY <1>1, LastOfType DEF IInv, TypeOK, Seqs, LastRow
<1>3. Len(LastRow.hash) = LastRow.seq
  <2>1. CASE n = 0
    <3>1. \A r \in journal : r.seq \in 1..n
      BY <1>1 DEF Seqs
    <3>2. journal = {}
      BY <2>1, <3>1
    <3>3. QED
      BY <3>2 DEF LastRow, LastOf, NoRow
  <2>2. CASE n # 0
    BY <1>2, <2>2 DEF IInv, ChainLinks
  <2>3. QED
    BY <2>1, <2>2
<1>4. /\ journal' = journal /\ input' = input
      /\ pc[c] = "idle" /\ pc' = [pc EXCEPT ![c] = "read"]
      /\ last' = [last EXCEPT ![c] = LastRow]
  BY DEF FindLast, Goto
<1>5. LastRow' = LastRow
  BY <1>4 DEF LastRow
<1>6. ReadBehind'
  <2> SUFFICES ASSUME NEW d \in Calls, pc'[d] \in {"read", "inserted", "conflict"}
               PROVE  /\ Len(last'[d].hash) = last'[d].seq
                      /\ last'[d].seq <= LastRow.seq
                      /\ last'[d].seq = LastRow.seq => last'[d].hash = LastRow.hash
    BY <1>5 DEF ReadBehind
  <2>1. CASE d = c
    <3>1. last'[d] = LastRow
      BY <1>4, <2>1 DEF IInv, TypeOK
    <3>2. QED
      BY <1>2, <1>3, <3>1
  <2>2. CASE d # c
    BY <1>4, <2>2 DEF IInv, TypeOK, ReadBehind
  <2>3. QED
    BY <2>1, <2>2
<1>7. Uncommitted' = Uncommitted /\ \A d \in Uncommitted : last'[d] = last[d]
  BY <1>4 DEF Uncommitted, IInv, TypeOK
<1>8. PendingFits' /\ PendingAlone'
  BY <1>4, <1>7 DEF IInv, PendingFits, PendingAlone, Conflicts, NewRow
<1>9. QED
  BY <1>4, <1>8, <1>6
     DEF IInv, Contiguous, Seqs, UniqueSeq, ChainLinks, OncePerDedupe

(* The unique indexes admit one uncommitted row at a time: any two would   *)
(* both follow the last committed row.                                     *)
LEMMA CreateStep ==
  ASSUME IInv, NEW c \in Calls, Create(c), TypeOK'
  PROVE  IInv'
<1>1. PICK n \in Nat : Seqs = 1..n
  BY DEF IInv, Contiguous
<1>2. LastRow.seq = n
  BY <1>1, LastOfType DEF IInv, TypeOK, Seqs, LastRow
<1>3. /\ journal' = journal /\ input' = input /\ last' = last
      /\ pc[c] = "read" /\ pc' = [pc EXCEPT ![c] = "inserted"]
      /\ ~Waits(c) /\ ~Conflicts(c)
  BY DEF Create, Goto
<1>4. \A d \in Calls : pc[d] \in {"read", "inserted"} /\ ~Conflicts(d)
                          => NewRow(d).seq = n + 1
  <2> SUFFICES ASSUME NEW d \in Calls, pc[d] \in {"read", "inserted"}, ~Conflicts(d)
               PROVE  NewRow(d).seq = n + 1
    OBVIOUS
  <2>1. last[d].seq \in Nat /\ last[d].seq <= n
    BY <1>2 DEF IInv, ReadBehind, TypeOK
  <2>2. NewRow(d).seq = last[d].seq + 1
    BY NewRowType DEF IInv
  <2>3. NewRow(d).seq \notin Seqs
    BY DEF Conflicts, Clashes, Seqs
  <2>4. QED
    BY <1>1, <2>1, <2>2, <2>3
<1>5. Uncommitted = {}
  <2> SUFFICES ASSUME NEW d \in Uncommitted PROVE FALSE
    OBVIOUS
  <2>1. d \in Calls /\ pc[d] = "inserted" /\ d # c
    BY <1>3 DEF Uncommitted
  <2>2. NewRow(d).seq = n + 1 /\ NewRow(c).seq = n + 1
    BY <1>3, <1>4, <2>1 DEF IInv, PendingFits
  <2>3. Clashes(NewRow(c), NewRow(d))
    BY <2>2 DEF Clashes
  <2>4. QED
    BY <1>3, <2>1, <2>3 DEF Waits
<1>6. Uncommitted' = {c}
  BY <1>3, <1>5 DEF Uncommitted, IInv, TypeOK
<1>7. PendingFits' /\ PendingAlone'
  BY <1>3, <1>6 DEF PendingFits, PendingAlone, Conflicts, NewRow
<1>8. LastRow' = LastRow
  BY <1>3 DEF LastRow
<1>9. ReadBehind'
  BY <1>3, <1>8 DEF IInv, ReadBehind, TypeOK
<1>10. QED
  BY <1>3, <1>7, <1>9
     DEF IInv, Contiguous, Seqs, UniqueSeq, ChainLinks, OncePerDedupe

(* Every other step leaves the rows alone and adds no uncommitted row.     *)
LEMMA QuietStep ==
  ASSUME IInv, TypeOK', UNCHANGED <<journal, input, last>>,
         \A c \in Calls :
           /\ pc'[c] = "inserted" => pc[c] = "inserted"
           /\ pc'[c] \in {"read", "inserted", "conflict"}
                => pc[c] \in {"read", "inserted", "conflict"}
  PROVE  IInv'
<1>1. LastRow' = LastRow
  BY DEF LastRow
<1>2. ReadBehind'
  BY <1>1 DEF IInv, ReadBehind
<1>3. Uncommitted' \subseteq Uncommitted
  BY DEF Uncommitted
<1>4. PendingFits' /\ PendingAlone'
  BY <1>3 DEF IInv, PendingFits, PendingAlone, Conflicts, NewRow
<1>5. QED
  BY <1>2, <1>4 DEF IInv, Contiguous, Seqs, UniqueSeq, ChainLinks, OncePerDedupe

(* IInv is inductive. *)
LEMMA InvStep == IInv /\ [Next]_vars => IInv'
<1> SUFFICES ASSUME IInv, [Next]_vars PROVE IInv'
  OBVIOUS
<1>1. TypeOK'
  BY TypeStep DEF IInv
<1>2. ASSUME NEW c \in Calls, FindLast(c) PROVE IInv'
  BY <1>1, <1>2, FindLastStep
<1>3. ASSUME NEW c \in Calls, Create(c) PROVE IInv'
  BY <1>1, <1>3, CreateStep
<1>4. ASSUME NEW c \in Calls, NEW a \in Answers, CommitTo(c, a) PROVE IInv'
  BY <1>1, <1>4, CommitStep
<1>5. ASSUME NEW c \in Calls,
             Reject(c) \/ UniqueViolation(c) \/ FindExisting(c) \/ Crash(c)
      PROVE  IInv'
  <2>1. /\ UNCHANGED <<journal, input, last>>
        /\ \A d \in Calls :
             /\ pc'[d] = "inserted" => pc[d] = "inserted"
             /\ pc'[d] \in {"read", "inserted", "conflict"}
                  => pc[d] \in {"read", "inserted", "conflict"}
    BY <1>5 DEF Reject, UniqueViolation, FindExisting, Crash, Goto, IInv, TypeOK
  <2>2. QED
    BY <1>1, <2>1, QuietStep
<1>6. CASE UNCHANGED vars
  BY <1>1, <1>6, QuietStep DEF vars
<1>7. QED
  BY <1>2, <1>3, <1>4, <1>5, <1>6
     DEF Next, Step, Commit, CommitUnanswered, AllAnswered, Answers

(* IInv holds initially. *)
LEMMA InvInit == Init => IInv
<1> SUFFICES ASSUME Init PROVE IInv
  OBVIOUS
<1>1. << >> \in Seq(Inputs)
  OBVIOUS
<1>2. TypeOK
  BY <1>1 DEF Init, TypeOK, NoRow
<1>3. Seqs = {} /\ 1..0 = {}
  BY DEF Init, Seqs
<1>4. QED
  BY <1>2, <1>3
     DEF Init, IInv, Contiguous, UniqueSeq, ChainLinks, OncePerDedupe, ReadBehind,
         PendingFits, PendingAlone, Uncommitted

(* The inductive invariant holds in every reachable state.                 *)
THEOREM Invariance == Spec => []IInv
  BY InvInit, InvStep, PTL DEF Spec

(* Type correctness of the journal tables and of the calls' local state.   *)
THEOREM TypeCorrect == Spec => []TypeOK
<1>1. IInv => TypeOK
  BY DEF IInv
<1>2. QED
  BY <1>1, Invariance, PTL

(* The committed rows are numbered 1..n without gap or repetition, and     *)
(* each row's hash covers exactly the rows before it.                      *)
THEOREM ChainIntactAlways == Spec => []ChainIntact
<1>1. IInv => ChainIntact
  <2> SUFFICES ASSUME IInv PROVE Gapless
    BY DEF IInv, ChainIntact
  <2>1. PICK n \in Nat : Seqs = 1..n
    BY DEF IInv, Contiguous
  <2>2. LastRow.seq = n /\ (n # 0 => \E r \in journal : r.seq = n /\ LastRow.hash = r.hash)
    BY <2>1, LastOfType DEF IInv, TypeOK, Seqs, LastRow
  <2>3. CASE n = 0
    <3>1. LastRow \in [seq : Nat, hash : Seq(Inputs)]
      BY <2>1, LastOfType DEF IInv, TypeOK, Seqs, LastRow
    <3>2. QED
      BY <2>1, <2>3, <3>1 DEF Gapless
  <2>4. CASE n # 0
    BY <2>1, <2>2, <2>4 DEF Gapless, IInv, ChainLinks
  <2>5. QED
    BY <2>3, <2>4
<1>2. QED
  BY <1>1, Invariance, PTL

(* No dedupeId is journalled twice.                                        *)
THEOREM OncePerDedupeAlways == Spec => []OncePerDedupe
<1>1. IInv => OncePerDedupe
  BY DEF IInv
<1>2. QED
  BY <1>1, Invariance, PTL
-----------------------------------------------------------------------------
(* A row was written by the call it names, which was told so or died.      *)
Written ==
  \A r \in journal : r.in = input[r.by] /\ pc[r.by] \in {"created", "lost"}

(* What a call was told, and what it has met, was so and stays so.         *)
Met ==
  \A c \in Calls :
    /\ pc[c] = "created" => \E r \in journal : r.by = c
    /\ pc[c] = "existing" => Recorded(c)
    /\ pc[c] \in {"conflict", "failed"} => Conflicts(c)

Truth == IInv /\ Written /\ Met
-----------------------------------------------------------------------------
(* A commit adds the row that follows the last one.                        *)
LEMMA CommitAppends ==
  ASSUME IInv, IInv', NEW c \in Calls, NEW a \in Answers, CommitTo(c, a)
  PROVE  \E n \in Nat :
           /\ Seqs = 1..n /\ LastRow.seq = n
           /\ NewRow(c).seq = n + 1 /\ LastRow'.seq = n + 1
           /\ journal' = journal \cup {NewRow(c)}
           /\ ~Conflicts(c)
<1>1. PICK n \in Nat : Seqs = 1..n
  BY DEF IInv, Contiguous
<1>2. PICK m \in Nat : Seqs' = 1..m
  BY DEF IInv, Contiguous
<1>3. LastRow.seq = n
  BY <1>1, LastOfType DEF IInv, TypeOK, Seqs, LastRow
<1>4. LastRow'.seq = m
  <2>1. {r.seq : r \in journal'} = 1..m /\ journal' \in SUBSET Rows
    BY <1>2 DEF Seqs, IInv, TypeOK
  <2>2. LastRow' = LastOf(journal')
    BY DEF LastRow
  <2>3. QED
    BY <2>1, <2>2, LastOfType
<1>5. journal' = journal \cup {NewRow(c)}
  BY DEF CommitTo
<1>6. ~Conflicts(c)
  BY DEF CommitTo, Goto, IInv, PendingFits, Uncommitted
<1> DEFINE k == NewRow(c).seq
<1>7. k \in Nat /\ k \notin 1..n
  <2>1. k \in Nat
    BY NewRowType DEF IInv, Rows
  <2>2. QED
    BY <1>1, <1>6, <2>1 DEF Conflicts, Clashes, Seqs
<1>8. 1..m = (1..n) \cup {k}
  BY <1>1, <1>2, <1>5 DEF Seqs
<1> HIDE DEF k
<1>9. k = n + 1 /\ m = n + 1
  <2>1. k \in 1..m
    BY <1>8
  <2>2. k >= n + 1 /\ m >= n + 1
    BY <1>7, <2>1
  <2>3. n + 1 \in 1..m /\ m \in 1..m
    BY <2>2
  <2>4. QED
    BY <1>8, <2>2, <2>3
<1>10. QED
  BY <1>1, <1>3, <1>4, <1>5, <1>6, <1>9 DEF k

(* A step that writes no row keeps what was met if the call that moves     *)
(* meets what it says.                                                     *)
LEMMA QuietTruth ==
  ASSUME Truth, NEW c \in Calls, UNCHANGED <<journal, input>>,
         \A d \in Calls \ {c} : pc'[d] = pc[d] /\ last'[d] = last[d],
         pc[c] \notin {"created", "lost"}, pc'[c] # "created",
         pc'[c] = "existing" => Recorded(c),
         pc'[c] \in {"conflict", "failed"} => Conflicts(c) /\ last'[c] = last[c]
  PROVE  Written' /\ Met'
<1>1. Written'
  BY DEF Truth, Written, IInv, TypeOK, Rows
<1>2. ASSUME NEW d \in Calls, last'[d] = last[d] PROVE Conflicts(d)' = Conflicts(d)
  BY <1>2 DEF Conflicts, NewRow
<1>3. \A d \in Calls : Recorded(d)' = Recorded(d)
  BY DEF Recorded
<1>4. Met'
  BY <1>2, <1>3 DEF Truth, Met
<1>5. QED
  BY <1>1, <1>4

LEMMA CommitTruth ==
  ASSUME Truth, IInv', NEW c \in Calls, NEW a \in {"created", "lost"}, CommitTo(c, a)
  PROVE  Written' /\ Met'
<1>1. /\ journal' = journal \cup {NewRow(c)} /\ input' = input /\ last' = last
      /\ pc[c] = "inserted" /\ pc' = [pc EXCEPT ![c] = a]
  BY DEF CommitTo, Goto
<1>2. NewRow(c).in = input[c] /\ NewRow(c).by = c
  BY NewRowType DEF Truth, IInv
<1>3. pc \in [Calls -> {"idle", "read", "inserted", "conflict"} \cup Answers]
      /\ \A r \in journal : r.by \in Calls
  BY DEF Truth, IInv, TypeOK, Rows
<1>4. Written'
  BY <1>1, <1>2, <1>3 DEF Truth, Written
<1>5. \A d \in Calls : Conflicts(d) => Conflicts(d)'
  BY <1>1 DEF Conflicts, NewRow
<1>6. \A d \in Calls : Recorded(d) => Recorded(d)'
  BY <1>1 DEF Recorded
<1>7. Met'
  BY <1>1, <1>2, <1>3, <1>5, <1>6 DEF Truth, Met
<1>8. QED
  BY <1>4, <1>7

(* Truth is inductive. *)
LEMMA TruthStep == Truth /\ [Next]_vars => Truth'
<1> SUFFICES ASSUME Truth, [Next]_vars PROVE Truth'
  OBVIOUS
<1>1. IInv'
  BY InvStep DEF Truth
<1>2. pc \in [Calls -> {"idle", "read", "inserted", "conflict"} \cup Answers]
      /\ last \in [Calls -> [seq : Nat, hash : Seq(Inputs)]]
  BY DEF Truth, IInv, TypeOK
<1>3. ASSUME NEW c \in Calls, Step(c) \/ Crash(c), ~Commit(c) PROVE Truth'
  <2>1. /\ UNCHANGED <<journal, input>>
        /\ \A d \in Calls \ {c} : pc'[d] = pc[d] /\ last'[d] = last[d]
        /\ pc[c] \notin {"created", "lost"} /\ pc'[c] # "created"
        /\ pc'[c] = "existing" => Recorded(c)
    BY <1>2, <1>3
       DEF Step, Crash, Reject, FindLast, Create, UniqueViolation, FindExisting, Goto,
           Found
  <2>2. pc'[c] \in {"conflict", "failed"} => Conflicts(c) /\ last'[c] = last[c]
    BY <1>2, <1>3
       DEF Step, Crash, Reject, FindLast, Create, UniqueViolation, FindExisting, Goto,
           Truth, Met
  <2>3. QED
    BY <1>1, <2>1, <2>2, QuietTruth DEF Truth
<1>4. ASSUME NEW c \in Calls, NEW a \in {"created", "lost"}, CommitTo(c, a)
      PROVE  Truth'
  BY <1>1, <1>4, CommitTruth DEF Truth
<1>5. CASE UNCHANGED vars
  <2>1. \A d \in Calls : Conflicts(d)' = Conflicts(d) /\ Recorded(d)' = Recorded(d)
    BY <1>5 DEF vars, Conflicts, Recorded, NewRow
  <2>2. QED
    BY <1>1, <1>5, <2>1 DEF vars, Truth, Written, Met
<1>6. QED
  BY <1>3, <1>4, <1>5 DEF Next, Step, Commit, CommitUnanswered, AllAnswered

LEMMA TruthInvariant == Spec => []Truth
<1>1. Init => Truth
  BY InvInit DEF Init, Truth, Written, Met
<1>2. QED
  BY <1>1, TruthStep, PTL DEF Spec

(* Each caller is told the truth, however the calls interleave: "created"  *)
(* if its own row is there, "existing" if another call's is, and nothing   *)
(* was written by a call that was told of a failure.                       *)
THEOREM AnswersTruthfulAlways == Spec => []AnswersTruthful
<1>1. Truth => AnswersTruthful
  BY DEF Truth, Written, Met, AnswersTruthful
<1>2. QED
  BY <1>1, TruthInvariant, PTL
-----------------------------------------------------------------------------
(* A sequence that agrees with another up to its own last element. *)
LEMMA Appended ==
  ASSUME NEW S \in Seq(Inputs), NEW T \in Seq(Inputs), NEW x \in Inputs,
         Len(S) = Len(T) + 1, \A i \in 1..Len(T) : S[i] = T[i], S[Len(S)] = x
  PROVE  S = Append(T, x)
<1>1. /\ Append(T, x) \in Seq(Inputs) /\ Len(Append(T, x)) = Len(S)
      /\ \A i \in 1..Len(T) : Append(T, x)[i] = T[i]
      /\ Append(T, x)[Len(S)] = x
  OBVIOUS
<1>2. \A i \in 1..Len(S) : S[i] = Append(T, x)[i]
  <2>1. \A i \in 1..Len(S) : i \in 1..Len(T) \/ i = Len(S)
    OBVIOUS
  <2>2. QED
    BY <1>1, <2>1
<1>3. QED
  BY <1>1, <1>2, SeqEqual

(* The rows of a journal as a sequence, which a following row extends.     *)
LogOf(J, n) == [i \in 1..n |-> (CHOOSE r \in J : r.seq = i).in]

LEMMA LogOfRows ==
  ASSUME NEW J \in SUBSET Rows, NEW n \in Nat, {r.seq : r \in J} = 1..n,
         \A r, q \in J : r.seq = q.seq => r = q
  PROVE  /\ LogOf(J, n) \in Seq(Inputs) /\ Len(LogOf(J, n)) = n
         /\ \A r \in J : r.seq \in 1..n /\ LogOf(J, n)[r.seq] = r.in
         /\ \A i \in 1..n : \E r \in J : r.seq = i /\ LogOf(J, n)[i] = r.in
<1>1. ASSUME NEW i \in 1..n
      PROVE  \E r \in J : r.seq = i /\ LogOf(J, n)[i] = r.in
  <2>1. PICK r \in J : r.seq = i
    BY <1>1
  <2>2. (CHOOSE q \in J : q.seq = i) = r
    BY <2>1
  <2>3. QED
    BY <2>1, <2>2 DEF LogOf
<1>2. \A r \in J : r.seq \in 1..n
  OBVIOUS
<1>3. \A r \in J : LogOf(J, n)[r.seq] = r.in
  BY <1>1, <1>2
<1>4. \A i \in 1..n : LogOf(J, n)[i] \in Inputs
  BY <1>1 DEF Rows
<1>5. LogOf(J, n) = [i \in 1..n |-> LogOf(J, n)[i]]
  BY DEF LogOf
<1> HIDE DEF LogOf
<1>6. LogOf(J, n) \in [1..n -> Inputs]
  BY <1>4, <1>5
<1>7. QED
  BY <1>1, <1>2, <1>3, <1>6

LEMMA LogOfExtends ==
  ASSUME NEW J \in SUBSET Rows, NEW n \in Nat, {r.seq : r \in J} = 1..n,
         \A r, q \in J : r.seq = q.seq => r = q,
         NEW row \in Rows, row.seq = n + 1
  PROVE  LogOf(J \cup {row}, n + 1) = Append(LogOf(J, n), row.in)
<1> DEFINE K == J \cup {row}
<1>1. \A r \in J : r.seq \in 1..n
  OBVIOUS
<1>2. {r.seq : r \in K} = 1..(n + 1)
  OBVIOUS
<1>3. \A r, q \in K : r.seq = q.seq => r = q
  BY <1>1
<1>4. K \in SUBSET Rows /\ n + 1 \in Nat
  OBVIOUS
<1> HIDE DEF K
<1>5. /\ LogOf(K, n + 1) \in Seq(Inputs) /\ Len(LogOf(K, n + 1)) = n + 1
      /\ \A r \in K : LogOf(K, n + 1)[r.seq] = r.in
  BY <1>2, <1>3, <1>4, LogOfRows
<1>6. /\ LogOf(J, n) \in Seq(Inputs) /\ Len(LogOf(J, n)) = n
      /\ \A i \in 1..n : \E r \in J : r.seq = i /\ LogOf(J, n)[i] = r.in
  BY LogOfRows
<1>7. row.in \in Inputs
  BY DEF Rows
<1>8. \A i \in 1..n : LogOf(K, n + 1)[i] = LogOf(J, n)[i]
  <2>1. J \subseteq K
    BY DEF K
  <2>2. QED
    BY <1>5, <1>6, <2>1
<1>9. LogOf(K, n + 1)[n + 1] = row.in
  <2>1. row \in K
    BY DEF K
  <2>2. QED
    BY <1>5, <2>1
<1>10. LogOf(K, n + 1) = Append(LogOf(J, n), row.in)
  BY <1>5, <1>6, <1>7, <1>8, <1>9, Appended
<1>11. QED
  BY <1>10 DEF K
-----------------------------------------------------------------------------
(* The view of the table is its sequence, and it has the keys of the rows. *)
LEMMA ViewIsLog ==
  ASSUME IInv, NEW n \in Nat, Seqs = 1..n, LastRow.seq = n
  PROVE  /\ LogView = LogOf(journal, n)
         /\ \A key \in DedupeIds :
              Log!Has(key) <=> \E r \in journal : r.in.dedupe = key
<1>1. LogView = LogOf(journal, n)
  BY DEF LogView, LogOf, RowAt
<1>2. /\ LogOf(journal, n) \in Seq(Inputs) /\ Len(LogOf(journal, n)) = n
      /\ \A r \in journal : r.seq \in 1..n /\ LogOf(journal, n)[r.seq] = r.in
      /\ \A i \in 1..n : \E r \in journal : r.seq = i /\ LogOf(journal, n)[i] = r.in
  <2>1. /\ journal \in SUBSET Rows /\ {r.seq : r \in journal} = 1..n
        /\ \A r, q \in journal : r.seq = q.seq => r = q
    BY DEF IInv, TypeOK, UniqueSeq, Seqs
  <2>2. QED
    BY <2>1, LogOfRows
<1>3. DOMAIN LogOf(journal, n) = 1..n
  BY DEF LogOf
<1>4. QED
  BY <1>1, <1>2, <1>3 DEF Log!Has

LEMMA Answering ==
  ASSUME IInv, NEW c \in Calls, NEW to, pc[c] \notin Answers,
         pc' = [pc EXCEPT ![c] = to], input' = input
  PROVE  /\ to \notin Answers => AnswerView' = AnswerView
         /\ \A options : to \in Answers \cap options => Log!Answer(c, options)
<1>1. AnswerView[c] = "open"
  BY DEF AnswerView
<1>2. AnswerView' = [AnswerView EXCEPT ![c] = IF to \in Answers THEN to ELSE "open"]
  BY DEF AnswerView, IInv, TypeOK
<1>3. QED
  BY <1>1, <1>2 DEF Log!Answer, AnswerView

LEMMA CommitRecords ==
  ASSUME IInv, IInv', NEW c \in Calls, NEW a \in {"created", "lost"}, CommitTo(c, a)
  PROVE  Log!Record(c)
<1>1. a \in Answers
  BY DEF Answers
<1>2. PICK n \in Nat :
        /\ Seqs = 1..n /\ LastRow.seq = n
        /\ NewRow(c).seq = n + 1 /\ LastRow'.seq = n + 1
        /\ journal' = journal \cup {NewRow(c)}
        /\ ~Conflicts(c)
  BY <1>1, CommitAppends
<1>3. NewRow(c) \in Rows /\ NewRow(c).in = input[c]
  BY NewRowType DEF IInv
<1>4. LogView' = LogOf(journal', n + 1)
  BY <1>2 DEF LogView, LogOf, RowAt
<1>5. LogView' = Append(LogView, input[c])
  <2>1. /\ journal \in SUBSET Rows /\ {r.seq : r \in journal} = 1..n
        /\ \A r, q \in journal : r.seq = q.seq => r = q
    BY <1>2 DEF IInv, TypeOK, UniqueSeq, Seqs
  <2>2. LogOf(journal \cup {NewRow(c)}, n + 1) = Append(LogOf(journal, n), NewRow(c).in)
    BY <1>2, <1>3, <2>1, LogOfExtends
  <2>3. LogView = LogOf(journal, n)
    BY <1>2, ViewIsLog
  <2>4. QED
    BY <1>2, <1>3, <1>4, <2>2, <2>3
<1>6. ~Log!Has(input[c].dedupe)
  <2>1. input[c].dedupe \in DedupeIds
    BY DEF IInv, TypeOK, Inputs
  <2>2. QED
    BY <1>2, <1>3, <2>1, ViewIsLog DEF Conflicts, Clashes
<1>7. Log!Answer(c, {"created", "lost"})
  BY <1>1, Answering DEF CommitTo, Goto, Answers
<1>8. QED
  BY <1>5, <1>6, <1>7 DEF Log!Record

LEMMA QuietRefines ==
  ASSUME IInv, NEW c \in Calls, Step(c) \/ Crash(c), ~Commit(c)
  PROVE  Log!Replay(c) \/ Log!Decline(c) \/ UNCHANGED <<LogView, input, AnswerView>>
<1>1. PICK n \in Nat : Seqs = 1..n /\ LastRow.seq = n
  BY LastOfType DEF IInv, TypeOK, Contiguous, Seqs, LastRow
<1>2. UNCHANGED <<journal, input>> /\ UNCHANGED LogView
  <2>1. UNCHANGED <<journal, input>>
    BY DEF Step, Crash, Reject, FindLast, Create, UniqueViolation, FindExisting
  <2>2. QED
    BY <2>1 DEF LogView, LastRow, RowAt
<1>3. pc[c] \notin Answers
  BY DEF Step, Crash, Reject, FindLast, Create, UniqueViolation, FindExisting, Goto,
         Answers
<1>4. PICK to : pc' = [pc EXCEPT ![c] = to]
  BY DEF Step, Crash, Reject, FindLast, Create, UniqueViolation, FindExisting, Goto
<1>5. pc'[c] = to
  BY <1>4 DEF IInv, TypeOK
<1>6. CASE to \notin Answers
  BY <1>2, <1>3, <1>4, <1>6, Answering
<1>7. CASE to \in {"rejected", "failed", "lost"}
  BY <1>2, <1>3, <1>4, <1>7, Answering DEF Log!Decline, Answers
<1>8. CASE to = "existing"
  <2>1. Recorded(c)
    BY <1>5, <1>8
       DEF Step, Crash, Reject, FindLast, Create, UniqueViolation, FindExisting, Goto,
           Found, IInv, TypeOK
  <2>2. input[c].dedupe \in DedupeIds
    BY DEF IInv, TypeOK, Inputs
  <2>3. Log!Has(input[c].dedupe)
    BY <1>1, <2>1, <2>2, ViewIsLog DEF Recorded
  <2>4. QED
    BY <1>2, <1>3, <1>4, <1>8, <2>3, Answering DEF Log!Replay, Answers
<1>9. to # "created"
  BY <1>5
     DEF Step, Crash, Reject, FindLast, Create, UniqueViolation, FindExisting, Goto,
         IInv, TypeOK
<1>10. QED
  BY <1>6, <1>7, <1>8, <1>9 DEF Answers

LEMMA Refines == IInv /\ [Next]_vars => [Log!Next]_<<LogView, input, AnswerView>>
<1> SUFFICES ASSUME IInv, [Next]_vars
             PROVE  [Log!Next]_<<LogView, input, AnswerView>>
  OBVIOUS
<1>1. IInv'
  BY InvStep
<1>2. ASSUME NEW c \in Calls, Step(c) \/ Crash(c), ~Commit(c)
      PROVE  [Log!Next]_<<LogView, input, AnswerView>>
  BY <1>2, QuietRefines DEF Log!Next
<1>3. ASSUME NEW c \in Calls, Commit(c) \/ CommitUnanswered(c)
      PROVE  [Log!Next]_<<LogView, input, AnswerView>>
  BY <1>1, <1>3, CommitRecords DEF Commit, CommitUnanswered, Log!Next
<1>4. CASE UNCHANGED vars
  BY <1>4 DEF vars, LogView, LastRow, RowAt, AnswerView
<1>5. QED
  BY <1>2, <1>3, <1>4 DEF Next, AllAnswered

(* The interleaved transactions implement the log to which entries are     *)
(* appended one after the other, each in one step and each key once.       *)
THEOREM ImplementsLogAlways == Spec => ImplementsLog
<1>1. Init => Log!Init
  BY DEF Init, Log!Init, LogView, LastRow, LastOf, NoRow, AnswerView, Answers
<1>2. QED
  BY <1>1, Refines, Invariance, PTL DEF Spec, ImplementsLog, Log!Spec

-----------------------------------------------------------------------------
(* A call made when its dedupeId is in the journal (journalWriter.ts:96)   *)
(* writes no row and is never told that it did, on either client; only one *)
(* whose failed statement aborts the transaction can make it fail.         *)
RetryWritesNothing ==
  \A c \in Calls :
    []((pc[c] = "idle" /\ Recorded(c)) =>
         [](/\ pc[c] # "created" /\ \A r \in journal : r.by # c
            /\ pc[c] = "failed" => ErrorAborts))

(* What it rests on: the dedupeId stays in the journal, so an insert of    *)
(* the call is a unique violation.                                         *)
Retrying(c) ==
  /\ Recorded(c) /\ pc[c] \notin {"inserted", "created"}
  /\ \A r \in journal : r.by # c
  /\ pc[c] = "failed" => ErrorAborts

LEMMA RetryingStep ==
  ASSUME TypeOK, NEW c \in Calls, Retrying(c), [Next]_vars
  PROVE  Retrying(c)'
<1> USE DEF Goto, Answers, Recorded, Retrying
<1>1. ASSUME NEW d \in Calls, NEW a \in {"created", "lost"}, CommitTo(d, a)
      PROVE  Retrying(c)'
  <2>1. /\ pc[d] = "inserted" /\ d # c /\ pc'[c] = pc[c] /\ input' = input
        /\ journal' = journal \cup {NewRow(d)} /\ NewRow(d).by = d
    BY <1>1, NewRowType DEF CommitTo, TypeOK
  <2> QED BY <2>1
<1>2. ASSUME NEW d \in Calls, Create(d) PROVE Retrying(c)'
  <2>1. Conflicts(c)
    BY NewRowType DEF Conflicts, Clashes
  <2>2. d # c
    BY <1>2, <2>1 DEF Create
  <2> QED BY <1>2, <2>2 DEF Create, TypeOK
<1>3. ASSUME NEW d \in Calls, Reject(d) \/ FindLast(d) \/ UniqueViolation(d) \/ Crash(d)
      PROVE  Retrying(c)'
  BY <1>3 DEF Reject, FindLast, UniqueViolation, Crash, TypeOK
<1>4. ASSUME NEW d \in Calls, FindExisting(d) PROVE Retrying(c)'
  BY <1>4 DEF FindExisting, Found, TypeOK
<1>5. CASE UNCHANGED vars
  BY <1>5 DEF vars
<1> QED
  BY <1>1, <1>2, <1>3, <1>4, <1>5
     DEF Next, Step, Commit, CommitUnanswered, AllAnswered

(* However calls interleave, die and are repeated, and whichever the       *)
(* client, a retry writes nothing.                                         *)
THEOREM RetryWritesNothingAlways == Spec => RetryWritesNothing
<1>1. ASSUME NEW c \in Calls
      PROVE  Spec =>
               []((pc[c] = "idle" /\ Recorded(c)) =>
                    [](/\ pc[c] # "created" /\ \A r \in journal : r.by # c
                       /\ pc[c] = "failed" => ErrorAborts))
  <2>1. TypeOK /\ Retrying(c) /\ [Next]_vars => Retrying(c)'
    BY RetryingStep
  <2>2. Truth /\ pc[c] = "idle" /\ Recorded(c) => Retrying(c)
    BY DEF Retrying, Truth, Written
  <2>3. Retrying(c) => /\ pc[c] # "created" /\ \A r \in journal : r.by # c
                       /\ pc[c] = "failed" => ErrorAborts
    BY DEF Retrying
  <2> QED BY <2>1, <2>2, <2>3, TypeCorrect, TruthInvariant, PTL DEF Spec
<1> QED BY <1>1 DEF RetryWritesNothing
=============================================================================
